--------------------------- MODULE TcpClientBooks ---------------------------
(*****************************************************************************)
(* EndsInOrder and BothWaysMove are invariants of TcpClient, for buffers of  *)
(* any size and any amount of data.                                          *)
(*                                                                           *)
(* The invariant, Books (in TcpClientProofs), is an account of every byte:   *)
(* what was taken from the application is in the buffer or written to SOCKS, *)
(* what was read from SOCKS waits, is queued in lwIP or is confirmed, and    *)
(* each way is in motion exactly when there is something to move.  Handlers  *)
(* break the account half way and restore it: there is a lemma for each.     *)
(*****************************************************************************)
EXTENDS TcpClientProofs

-----------------------------------------------------------------------------
\* The callbacks of the SOCKS connection and of lwIP.

\* A SOCKS client at work, no data just read from it.
Working(s) ==
    /\ s \in Shape /\ s.client.life = "alive" /\ ~s.client.socks_closed
    /\ Numbers(s) /\ Plumbing(s) /\ SendSide(s, JustSent(s)) /\ FromSocks(s)
    /\ ~IsSet(s, "recv_done")

\* When nothing was just read the account balances.
LEMMA WorkingFacts ==
  ASSUME NEW s, Working(s)
  PROVE  IF s.client.client_closed THEN Ends(s) ELSE ReceiveSide(s, 0) /\ Account(s)
<1>1. JustRead(s) = 0 BY DEF Working, JustRead
<1>2. ~s.client.client_closed => ReceiveSide(s, 0) BY <1>1 DEF Working, FromSocks
<1>3. ReceiveSide(s, 0) => Account(s) BY DEF ReceiveSide, Account, Unsent, Working, Numbers
<1>4. QED BY <1>2, <1>3, SMTT(30) DEF Working, FromSocks

\* A SOCKS client at work keeps the books.
LEMMA WorkingBooks == ASSUME NEW s, Working(s) PROVE Books(s)
BY SMTT(30) DEF Working, Books, ToSocks

\* client_socks_handler on an error or the end of the SOCKS connection.
LEMMA SocksErrorBooks ==
  ASSUME NEW s \in Shape, s.client.life = "alive", Numbers(s),
         IF s.client.client_closed THEN Ends(s) ELSE Account(s),
         NEW u \in client_socks_handler_error(s)
  PROVE  Books(u)
<1> DEFINE p == [s.past EXCEPT !.broken = TRUE]
           t == [s EXCEPT !.past.broken = TRUE]
<1>1. p \in PastShape BY Zenon DEF Shape, PastShape
<1>2. /\ p.broken /\ p.closed = s.past.closed /\ p.failed = s.past.failed
      /\ p.taken = s.past.taken /\ p.wrote = s.past.wrote
      /\ p.got = s.past.got /\ p.acked = s.past.acked
  BY Zenon DEF Shape, PastShape
<1>3. t = [s EXCEPT !.past = p] BY Zenon DEF Shape
<1> HIDE DEF p
<1>4. t \in Shape /\ t.client = s.client /\ t.pcb = s.pcb /\ t.socks = s.socks /\ t.past = p
  BY <1>1, <1>3, Zenon DEF Shape
<1>5. u \in client_free_socks(t) BY DEF client_socks_handler_error
<1> HIDE DEF t
<1>6. Numbers(t) BY <1>2, <1>4, SMTT(30) DEF Numbers
<1>7. s.client.client_closed => Delivered(t) BY <1>2, <1>4, SMTT(30) DEF Delivered, Ends
<1>8. ~s.client.client_closed => Account(t) BY <1>2, <1>4, SMTT(30) DEF Account, Unsent
<1>9. QED BY <1>2, <1>4, <1>5, <1>6, <1>7, <1>8, FreeSocksBooks, Zenon

\* The same, for a SOCKS client at work.
LEMMA WorkingError ==
  ASSUME NEW s, Working(s), NEW u \in client_socks_handler_error(s)
  PROVE  Books(u)
BY WorkingFacts, SocksErrorBooks, Zenon DEF Working

\* Blocked waits for an event and does no more.
LEMMA BlockedParts ==
  ASSUME NEW s \in Shape, NEW event \in {"READ", "WRITE"}, NEW u \in Blocked(s, event)
  PROVE  /\ u \in Shape /\ u.client = s.client /\ u.pcb = s.pcb /\ u.jobs = s.jobs
         /\ u.past = s.past /\ \A y : IsSet(u, y) <=> IsSet(s, y)
         /\ u.socks.state = s.socks.state /\ u.socks.send = s.socks.send
         /\ u.socks.recv = s.socks.recv /\ u.socks.len = s.socks.len
         /\ u.socks.sent_len = s.socks.sent_len /\ u.socks.recv_len = s.socks.recv_len
         /\ u.socks.wait = s.socks.wait \cup {event}
<1> DEFINE w == s.socks.wait \cup {event}
           k == [s.socks EXCEPT !.wait = w]
           t == [s EXCEPT !.socks.wait = @ \cup {event}]
<1>1. s.socks \in SocksShape BY DEF Shape
<1>2. w \in SUBSET {"READ", "WRITE"} BY <1>1 DEF SocksShape
<1>3. t = [s EXCEPT !.socks = k] BY Zenon DEF Shape
<1>4. u = t BY DEF Blocked
<1> HIDE DEF w
<1>5. k \in SocksShape BY <1>1, <1>2, Zenon DEF SocksShape
<1>6. /\ k.state = s.socks.state /\ k.send = s.socks.send /\ k.recv = s.socks.recv
      /\ k.len = s.socks.len /\ k.sent_len = s.socks.sent_len
      /\ k.recv_len = s.socks.recv_len /\ k.wait = w
  BY <1>1, Zenon DEF SocksShape
<1> HIDE DEF k
<1>7. t \in Shape /\ t.client = s.client /\ t.pcb = s.pcb /\ t.socks = k /\ t.jobs = s.jobs
      /\ t.past = s.past
  BY <1>3, <1>5, Zenon DEF Shape
<1> HIDE DEF t
<1>8. \A y : IsSet(t, y) <=> IsSet(s, y) BY <1>7 DEF IsSet
<1>9. QED BY <1>4, <1>6, <1>7, <1>8, SMTT(30) DEF w

\* Changes of the connection's own fields and of the past.
LEMMA SocksParts ==
  ASSUME NEW s \in Shape, NEW k \in SocksShape, NEW p \in PastShape
  PROVE  LET t == [s EXCEPT !.socks = k, !.past = p]
         IN  /\ t \in Shape /\ t.client = s.client /\ t.pcb = s.pcb /\ t.jobs = s.jobs
             /\ t.socks = k /\ t.past = p /\ \A y : IsSet(t, y) <=> IsSet(s, y)
<1> DEFINE t == [s EXCEPT !.socks = k, !.past = p]
<1>1. t \in Shape /\ t.client = s.client /\ t.pcb = s.pcb /\ t.jobs = s.jobs
      /\ t.socks = k /\ t.past = p
  BY Zenon DEF Shape
<1> HIDE DEF t
<1>2. \A y : IsSet(t, y) <=> IsSet(s, y) BY <1>1 DEF IsSet
<1>3. QED BY <1>1, <1>2 DEF t

\* connection_send.
LEMMA ConnectionSendBooks ==
  ASSUME NEW s, Working(s), s.socks.send = "BUSY", ~IsSet(s, "send"),
         "WRITE" \notin s.socks.wait, NEW u \in connection_send(s)
  PROVE  Books(u)
<1>0. s \in Shape /\ s.client.life = "alive" /\ ~s.client.socks_closed /\ Numbers(s) /\ Plumbing(s)
      /\ SendSide(s, JustSent(s)) /\ FromSocks(s) /\ ~IsSet(s, "recv_done")
  BY DEF Working
<1>1. /\ JustSent(s) = 0 /\ s.client.socks_up /\ s.socks.state = "UP" /\ ~s.past.broken
      /\ s.past.taken = s.past.wrote + s.client.buf_used
      /\ 1 <= s.socks.len /\ s.socks.len <= s.client.buf_used
  BY <1>0, SMTT(30) DEF SendSide, Plumbing, Numbers
<1>2. ~IsSet(s, "send_done") BY <1>0, <1>1 DEF Plumbing, JustSent
<1>3. CASE u \in Blocked(s, "WRITE")
  <2>1. /\ u \in Shape /\ u.client = s.client /\ u.pcb = s.pcb /\ u.jobs = s.jobs
        /\ u.past = s.past /\ \A y : IsSet(u, y) <=> IsSet(s, y)
        /\ u.socks.state = s.socks.state /\ u.socks.send = s.socks.send
        /\ u.socks.recv = s.socks.recv /\ u.socks.len = s.socks.len
        /\ u.socks.sent_len = s.socks.sent_len /\ u.socks.recv_len = s.socks.recv_len
        /\ u.socks.wait = s.socks.wait \cup {"WRITE"}
    BY <1>0, <1>3, BlockedParts, Zenon
  <2>2. Numbers(u) BY <1>0, <2>1, Zenon DEF Numbers
  <2>3. Plumbing(u) BY <1>0, <1>1, <2>1, Zenon DEF Plumbing
  <2>4. JustSent(u) = 0 BY <1>2, <2>1, SMTT(30) DEF JustSent
  <2>5. SendSide(u, 0) BY <1>0, <1>1, <2>1, Zenon DEF SendSide, Numbers
  <2>6. SameReceive(s, u) BY <2>1, SMTT(30) DEF SameReceive
  <2>7. FromSocks(u) BY <1>0, <2>1, <2>6, SameSides, Zenon DEF FromSocks, Ends
  <2>8. QED BY <1>0, <2>1, <2>2, <2>3, <2>4, <2>5, <2>7, SMTT(30) DEF Books, ToSocks
<1>4. CASE u \in client_socks_handler_error(s) BY <1>4, WorkingError, SMTT(30)
<1>5. ASSUME NEW bytes \in 1..s.socks.len,
             u = SetJob([s EXCEPT !.socks.send = "READY", !.socks.sent_len = bytes,
                                  !.past.wrote = @ + bytes], "send_done")
      PROVE  Books(u)
  <2> DEFINE k == [s.socks EXCEPT !.send = "READY", !.sent_len = bytes]
             p == [s.past EXCEPT !.wrote = @ + bytes]
             t == [s EXCEPT !.socks = k, !.past = p]
  <2>1. bytes \in Int /\ s.past.wrote \in Int /\ s.past.wrote + bytes \in Int
    BY <1>0, SMTT(30) DEF Numbers
  <2>2. s.socks \in SocksShape /\ s.past \in PastShape BY <1>0, SMTT(30) DEF Shape
  <2>3. k \in SocksShape BY <2>1, <2>2, Zenon DEF SocksShape
  <2>4. p \in PastShape BY <2>1, <2>2, Zenon DEF PastShape
  <2>5. t = [s EXCEPT !.socks.send = "READY", !.socks.sent_len = bytes, !.past.wrote = @ + bytes]
    BY <1>0, Zenon DEF Shape
  <2>6. /\ k.state = s.socks.state /\ k.send = "READY" /\ k.recv = s.socks.recv
        /\ k.len = s.socks.len /\ k.sent_len = bytes /\ k.recv_len = s.socks.recv_len
        /\ k.wait = s.socks.wait
    BY <2>2, Zenon DEF SocksShape
  <2>7. /\ p.wrote = s.past.wrote + bytes /\ p.taken = s.past.taken /\ p.got = s.past.got
        /\ p.acked = s.past.acked /\ p.broken = s.past.broken /\ p.closed = s.past.closed
        /\ p.failed = s.past.failed
    BY <2>2, Zenon DEF PastShape
  <2> HIDE DEF k, p
  <2>8. /\ t \in Shape /\ t.client = s.client /\ t.pcb = s.pcb /\ t.jobs = s.jobs
        /\ t.socks = k /\ t.past = p /\ \A y : IsSet(t, y) <=> IsSet(s, y)
    BY <1>0, <2>3, <2>4, SocksParts, Zenon
  <2>9. u = SetJob(t, "send_done") BY <1>5, <2>5
  <2> HIDE DEF t
  <2>10. NoDup(t.jobs) /\ "send_done" \in Jobs BY <1>0, <2>8, Zenon DEF Plumbing, Jobs
  <2>11. /\ u \in Shape /\ u.client = t.client /\ u.pcb = t.pcb /\ u.socks = t.socks
         /\ u.past = t.past /\ NoDup(u.jobs)
         /\ \A y : IsSet(u, y) <=> IsSet(t, y) \/ y = "send_done"
    BY <2>8, <2>9, <2>10, SetJobParts, Zenon
  <2>12. /\ u.client = s.client /\ u.pcb = s.pcb /\ u.socks = k /\ u.past = p
         /\ \A y : IsSet(u, y) <=> IsSet(s, y) \/ y = "send_done"
    BY <2>8, <2>11, SMTT(30)
  <2>13. 1 <= bytes /\ bytes <= s.client.buf_used BY <1>0, <1>1, <1>5, <2>1 DEF Numbers
  <2>14. Numbers(u)
    <3>1. bytes \in 0..TCP_WND /\ s.past.wrote + bytes \in 0..MaxUp
      <4>1. /\ TCP_WND \in Int /\ MaxUp \in Int /\ s.past.taken \in 0..MaxUp
            /\ s.client.buf_used \in 0..TCP_WND /\ s.past.wrote \in 0..MaxUp
        BY <1>0, SizesAssumption, SMTT(30) DEF Numbers
      <4>2. QED BY <1>1, <2>1, <2>13, <4>1, SMTT(30)
    <3>2. QED BY <1>0, <2>6, <2>7, <2>12, <3>1, Zenon DEF Numbers
  <2>15. Plumbing(u) BY <1>0, <1>1, <2>6, <2>11, <2>12, <2>13 DEF Plumbing
  <2>16. JustSent(u) = bytes BY <2>6, <2>12, SMTT(30) DEF JustSent
  <2>17. SendSide(u, bytes)
    BY <1>0, <1>1, <1>2, <2>1, <2>6, <2>7, <2>12, <2>13 DEF SendSide, Numbers
  <2>18. SameReceive(s, u) BY <2>6, <2>7, <2>12, Zenon DEF SameReceive
  <2>19. FromSocks(u) BY <1>0, <2>7, <2>12, <2>18, SameSides, Zenon DEF FromSocks, Ends
  <2>20. QED BY <1>0, <2>12, <2>14, <2>15, <2>16, <2>17, <2>19, SMTT(30) DEF Books, ToSocks
<1>6. QED BY <1>3, <1>4, <1>5, Zenon DEF connection_send

\* connection_recv.
LEMMA ConnectionRecvBooks ==
  ASSUME NEW s, Working(s), s.client.socks_up,
         ~s.client.client_closed => /\ s.socks.recv = "BUSY" /\ "READ" \notin s.socks.wait
                                    /\ ~IsSet(s, "recv") /\ ~IsSet(s, "recv_job"),
         NEW u \in connection_recv(s)
  PROVE  Books(u)
<1>0. s \in Shape /\ s.client.life = "alive" /\ ~s.client.socks_closed /\ Numbers(s) /\ Plumbing(s)
      /\ SendSide(s, JustSent(s)) /\ FromSocks(s) /\ ~IsSet(s, "recv_done")
      /\ s.socks.state = "UP"
  BY Zenon DEF Working, Plumbing
<1>1. IF s.client.client_closed THEN Ends(s) ELSE ReceiveSide(s, 0) /\ Account(s)
  BY WorkingFacts, SMTT(30)
<1>2. CASE u \in Blocked(s, "READ")
  <2>1. /\ u \in Shape /\ u.client = s.client /\ u.pcb = s.pcb /\ u.jobs = s.jobs
        /\ u.past = s.past /\ \A y : IsSet(u, y) <=> IsSet(s, y)
        /\ u.socks.state = s.socks.state /\ u.socks.send = s.socks.send
        /\ u.socks.recv = s.socks.recv /\ u.socks.len = s.socks.len
        /\ u.socks.sent_len = s.socks.sent_len /\ u.socks.recv_len = s.socks.recv_len
        /\ u.socks.wait = s.socks.wait \cup {"READ"}
    BY <1>0, <1>2, BlockedParts, Zenon
  <2>2. Numbers(u) BY <1>0, <2>1, Zenon DEF Numbers
  <2>3. Plumbing(u) BY <1>0, <2>1, Zenon DEF Plumbing
  <2>4. SameSend(s, u) BY <2>1, Zenon DEF SameSend
  <2>5. ToSocks(u) BY <1>0, <2>3, <2>4, SameSides, Zenon DEF ToSocks
  <2>6. JustRead(u) = 0 BY <1>0, <2>1, Zenon DEF JustRead
  <2>7. ~s.client.client_closed => ReceiveSide(u, 0)
    BY <1>1, <2>1, Zenon DEF ReceiveSide, Unsent
  <2>8. FromSocks(u) BY <1>1, <2>1, <2>6, <2>7, Zenon DEF FromSocks, Ends
  <2>9. QED BY <1>0, <2>1, <2>2, <2>5, <2>8, Zenon DEF Books
<1>3. CASE u \in client_socks_handler_error(s) BY <1>3, WorkingError, SMTT(30)
<1>4. CASE u \in client_socks_handler_error([s EXCEPT !.socks.recv = "CLOSED"])
  <2> DEFINE k == [s.socks EXCEPT !.recv = "CLOSED"]
             t == [s EXCEPT !.socks.recv = "CLOSED"]
  <2>1. s.socks \in SocksShape BY <1>0, Zenon DEF Shape
  <2>2. k \in SocksShape /\ k.len = s.socks.len /\ k.sent_len = s.socks.sent_len
        /\ k.recv_len = s.socks.recv_len
    BY <2>1, Zenon DEF SocksShape
  <2>3. t = [s EXCEPT !.socks = k] BY <1>0, Zenon DEF Shape
  <2> HIDE DEF k
  <2>4. t \in Shape /\ t.client = s.client /\ t.pcb = s.pcb /\ t.socks = k /\ t.past = s.past
    BY <1>0, <2>2, <2>3, Zenon DEF Shape
  <2> HIDE DEF t
  <2>5. Numbers(t) BY <1>0, <2>2, <2>4, Zenon DEF Numbers
  <2>6. IF t.client.client_closed THEN Ends(t) ELSE Account(t)
    BY <1>1, <2>4, Zenon DEF Ends, Account
  <2>7. QED BY <1>0, <1>4, <2>4, <2>5, <2>6, SocksErrorBooks, Zenon DEF t
<1>5. ASSUME NEW bytes \in 1..Smaller(RECV_BUF, MaxDown - s.past.got),
             u = SetJob([s EXCEPT !.socks.recv = "READY", !.socks.recv_len = bytes,
                                  !.past.got = IF s.client.client_closed THEN @ ELSE @ + bytes],
                        "recv_done")
      PROVE  Books(u)
  <2> DEFINE k == [s.socks EXCEPT !.recv = "READY", !.recv_len = bytes]
             got == IF s.client.client_closed THEN s.past.got ELSE s.past.got + bytes
             p == [s.past EXCEPT !.got = got]
             t == [s EXCEPT !.socks = k, !.past = p]
  <2>1. /\ bytes \in Int /\ s.past.got \in Int /\ got \in Int
        /\ 1 <= bytes /\ bytes <= RECV_BUF /\ s.past.got + bytes <= MaxDown
    BY <1>0, <1>5, SizesAssumption, SMTT(30) DEF Numbers, Smaller
  <2>2. s.socks \in SocksShape /\ s.past \in PastShape BY <1>0, Zenon DEF Shape
  <2>3. k \in SocksShape BY <2>1, <2>2, Zenon DEF SocksShape
  <2>5. t = [s EXCEPT !.socks.recv = "READY", !.socks.recv_len = bytes,
                      !.past.got = IF s.client.client_closed THEN @ ELSE @ + bytes]
    BY <1>0, Zenon DEF Shape
  <2>6. /\ k.state = s.socks.state /\ k.recv = "READY" /\ k.send = s.socks.send
        /\ k.len = s.socks.len /\ k.recv_len = bytes /\ k.sent_len = s.socks.sent_len
        /\ k.wait = s.socks.wait
    BY <2>2, Zenon DEF SocksShape
  <2>0. /\ s.client.client_closed => got = s.past.got
        /\ ~s.client.client_closed => got = s.past.got + bytes
    OBVIOUS
  <2> HIDE DEF k, got
  <2>4. p \in PastShape BY <2>1, <2>2, Zenon DEF PastShape
  <2>7. /\ p.got = got /\ p.taken = s.past.taken /\ p.wrote = s.past.wrote
        /\ p.acked = s.past.acked /\ p.broken = s.past.broken /\ p.closed = s.past.closed
        /\ p.failed = s.past.failed
    BY <2>2, Zenon DEF PastShape
  <2> HIDE DEF p
  <2>8. /\ t \in Shape /\ t.client = s.client /\ t.pcb = s.pcb /\ t.jobs = s.jobs
        /\ t.socks = k /\ t.past = p /\ \A y : IsSet(t, y) <=> IsSet(s, y)
    BY <1>0, <2>3, <2>4, SocksParts, Zenon
  <2>9. u = SetJob(t, "recv_done") BY <1>5, <2>5
  <2> HIDE DEF t
  <2>10. NoDup(t.jobs) /\ "recv_done" \in Jobs BY <1>0, <2>8, Zenon DEF Plumbing, Jobs
  <2>11. /\ u \in Shape /\ u.client = t.client /\ u.pcb = t.pcb /\ u.socks = t.socks
         /\ u.past = t.past /\ NoDup(u.jobs) /\ Head(u.jobs) = "recv_done"
         /\ \A y : IsSet(u, y) <=> IsSet(t, y) \/ y = "recv_done"
    BY <2>8, <2>9, <2>10, SetJobParts, Zenon
  <2>12. /\ u.client = s.client /\ u.pcb = s.pcb /\ u.socks = k /\ u.past = p
         /\ \A y : IsSet(u, y) <=> IsSet(s, y) \/ y = "recv_done"
    BY <2>8, <2>11, Zenon
  <2>13. Numbers(u) BY <1>0, <2>0, <2>1, <2>6, <2>7, <2>12 DEF Numbers
  <2>14. Plumbing(u) BY <1>0, <2>1, <2>6, <2>11, <2>12 DEF Plumbing
  <2>15. SameSend(s, u) BY <2>6, <2>7, <2>12, Zenon DEF SameSend
  <2>16. ToSocks(u) BY <1>0, <2>14, <2>15, SameSides, Zenon DEF ToSocks
  <2>17. JustRead(u) = bytes BY <2>6, <2>12, SMTT(30) DEF JustRead
  <2>18. ASSUME ~s.client.client_closed PROVE ReceiveSide(u, bytes)
    <3>1. ReceiveSide(s, 0) BY <1>1, <2>18, SMTT(30)
    <3>2. p.got = s.past.acked + s.client.socks_recv_tcp_pending + Unsent(s.client) + bytes
      BY <1>0, <2>0, <2>1, <2>7, <2>18, <3>1 DEF ReceiveSide, Unsent, Numbers
    <3>3. QED BY <1>0, <2>1, <2>6, <2>7, <2>12, <2>18, <3>1, <3>2 DEF ReceiveSide
  <2>19. FromSocks(u)
    <3>1. CASE s.client.client_closed
      BY <1>1, <2>0, <2>7, <2>12, <3>1, Zenon DEF FromSocks, Ends
    <3>2. CASE ~s.client.client_closed BY <2>12, <2>17, <2>18, <3>2, SMTT(30) DEF FromSocks
    <3>3. QED BY <3>1, <3>2, SMTT(30)
  <2>20. QED BY <1>0, <2>12, <2>13, <2>16, <2>19, SMTT(30) DEF Books
<1>6. QED BY <1>2, <1>3, <1>4, <1>5, Zenon DEF connection_recv

\* client_socks_handler on BSOCKSCLIENT_EVENT_UP: both directions start.
LEMMA HandlerUpBooks ==
  ASSUME NEW s \in Shape, s.client.life = "alive", ~s.client.socks_closed, Numbers(s),
         s.jobs = <<>>, s.socks.state = "UP", s.socks.wait = {}, ~s.client.socks_up,
         SendSide(s, 0), IF s.client.client_closed THEN Ends(s) ELSE ReceiveSide(s, 0)
  PROVE  Books(client_socks_handler_up(s))
<1> DEFINE c == [s.client EXCEPT !.socks_up = TRUE]
           b == [s.pcb EXCEPT !.sent = ~s.client.client_closed]
           t == [s EXCEPT !.client.socks_up = TRUE, !.pcb.sent = ~s.client.client_closed]
           v == IF t.client.buf_used > 0 THEN client_send_to_socks(t) ELSE t
<1>1. s.client \in ClientShape /\ s.pcb \in PcbShape /\ s.client.client_closed \in BOOLEAN
  BY SMTT(30) DEF Shape, ClientShape
<1>2. c \in ClientShape BY <1>1, Zenon DEF ClientShape
<1>3. b \in PcbShape BY <1>1, Zenon DEF PcbShape
<1>4. /\ c.life = s.client.life /\ c.client_closed = s.client.client_closed
      /\ c.buf_used = s.client.buf_used /\ c.socks_up
      /\ c.socks_closed = s.client.socks_closed
      /\ c.socks_recv_buf_used = s.client.socks_recv_buf_used
      /\ c.socks_recv_buf_sent = s.client.socks_recv_buf_sent
      /\ c.socks_recv_tcp_pending = s.client.socks_recv_tcp_pending
  BY <1>1, Zenon DEF ClientShape
<1>5. b.state = s.pcb.state /\ b.wnd = s.pcb.wnd /\ b.unacked = s.pcb.unacked
  BY <1>1, Zenon DEF PcbShape
<1>6. t = With(s, c, b) BY Zenon DEF Shape, With
<1>7. client_socks_handler_up(s)
      = IF v.client.client_closed THEN v ELSE client_socks_recv_initiate(v)
  BY DEF client_socks_handler_up
<1> HIDE DEF c, b, t
<1>8. t \in Shape /\ t.client = c /\ t.pcb = b /\ t.socks = s.socks /\ t.jobs = s.jobs
      /\ t.past = s.past
  BY <1>2, <1>3, <1>6, Replace, SMTT(30)
<1>9. NoDup(t.jobs) /\ \A y : ~IsSet(t, y)
  BY <1>8, SMTT(30) DEF NoDup, IsSet, BSmallPending_IsSet
<1>10. Numbers(t) BY <1>4, <1>5, <1>8, Zenon DEF Numbers
<1>11. Plumbing(t) BY <1>4, <1>8, <1>9, Zenon DEF Plumbing
<1>12. Unsaid(t) BY <1>4, <1>8, <1>9, SMTT(30) DEF Unsaid, SendSide, Numbers
<1>13. ~s.client.client_closed => Unread(t)
  BY <1>4, <1>5, <1>8, <1>9, SMTT(30) DEF Unread, ReceiveSide, Unsent, Numbers
<1>14. /\ v \in Shape /\ v.client = t.client /\ v.pcb = t.pcb /\ v.past = t.past
       /\ Numbers(v) /\ Plumbing(v) /\ SendSide(v, JustSent(v))
       /\ (~s.client.client_closed => Unread(v))
  <2>1. CASE t.client.buf_used > 0
    <3>1. v = client_send_to_socks(t) BY <2>1, SMTT(30)
    <3> HIDE DEF v
    <3>2. /\ v \in Shape /\ v.client = t.client /\ v.pcb = t.pcb /\ v.past = t.past
          /\ Numbers(v) /\ Plumbing(v) /\ SendSide(v, JustSent(v)) /\ SameReceive(t, v)
      BY <1>4, <1>8, <1>9, <1>10, <1>11, <1>12, <2>1, <3>1, SendToSocksBooks, Zenon
    <3>3. Unread(t) => Unread(v) BY <3>2, Zenon DEF Unread, SameReceive
    <3>4. QED BY <1>13, <3>2, <3>3, Zenon
  <2>2. CASE ~(t.client.buf_used > 0)
    <3>1. t.client.buf_used = 0 BY <1>10, <2>2, Counts
    <3>2. SendSide(t, JustSent(t)) BY <1>10, <1>12, <3>1, NothingToSend, SMTT(30)
    <3>3. QED BY <1>8, <1>10, <1>11, <1>13, <2>2, <3>2, Zenon
  <2>3. QED BY <2>1, <2>2, Zenon
<1> HIDE DEF v
<1>15. ToSocks(v) BY <1>14, SMTT(30) DEF ToSocks
<1>16. CASE s.client.client_closed
  <2>1. Ends(v) BY <1>5, <1>8, <1>14, <1>16 DEF Ends
  <2>2. QED BY <1>4, <1>7, <1>8, <1>14, <1>15, <1>16, <2>1, Zenon DEF Books, FromSocks
<1>17. CASE ~s.client.client_closed
  BY <1>4, <1>7, <1>8, <1>14, <1>15, <1>17, RecvInitiateBooks, Zenon
<1>18. QED BY <1>16, <1>17, Zenon

\* The state of the SOCKS client changes, and nothing else.
LEMMA StateParts ==
  ASSUME NEW s \in Shape, NEW x \in States
  PROVE  LET t == [s EXCEPT !.socks.state = x]
         IN  /\ t \in Shape /\ t.client = s.client /\ t.pcb = s.pcb /\ t.jobs = s.jobs
             /\ t.past = s.past /\ \A y : IsSet(t, y) <=> IsSet(s, y)
             /\ t.socks.state = x /\ t.socks.send = s.socks.send
             /\ t.socks.recv = s.socks.recv /\ t.socks.len = s.socks.len
             /\ t.socks.sent_len = s.socks.sent_len /\ t.socks.recv_len = s.socks.recv_len
             /\ t.socks.wait = s.socks.wait
<1> DEFINE k == [s.socks EXCEPT !.state = x]
           t == [s EXCEPT !.socks.state = x]
<1>1. s.socks \in SocksShape BY SMTT(30) DEF Shape
<1>2. k \in SocksShape BY <1>1, Zenon DEF SocksShape
<1>3. /\ k.state = x /\ k.send = s.socks.send /\ k.recv = s.socks.recv
      /\ k.len = s.socks.len /\ k.sent_len = s.socks.sent_len
      /\ k.recv_len = s.socks.recv_len /\ k.wait = s.socks.wait
  BY <1>1, Zenon DEF SocksShape
<1>4. t = [s EXCEPT !.socks = k] BY Zenon DEF Shape
<1> HIDE DEF k
<1>5. t \in Shape /\ t.client = s.client /\ t.pcb = s.pcb /\ t.socks = k /\ t.jobs = s.jobs
      /\ t.past = s.past
  BY <1>2, <1>4, Zenon DEF Shape
<1> HIDE DEF t
<1>6. \A y : IsSet(t, y) <=> IsSet(s, y) BY <1>5, SMTT(30) DEF IsSet
<1>7. QED BY <1>3, <1>5, <1>6, SMTT(30) DEF t

\* The handshake goes on with a job.
LEMMA ControlBooks ==
  ASSUME NEW s, Working(s), s.jobs = <<>>, s.socks.wait = {}, s.socks.state # "UP",
         NEW x \in Control
  PROVE  Books(SetJob([s EXCEPT !.socks.state = x], "control"))
<1> DEFINE t == [s EXCEPT !.socks.state = x]
           u == SetJob(t, "control")
<1>0. s \in Shape /\ s.client.life = "alive" /\ ~s.client.socks_closed /\ Numbers(s) /\ Plumbing(s)
      /\ SendSide(s, JustSent(s)) /\ FromSocks(s)
  BY Zenon DEF Working
<1>1. x \in States /\ x # "UP" /\ x # "CONNECTING" BY Zenon DEF States, Control, Continues
<1>2. /\ t \in Shape /\ t.client = s.client /\ t.pcb = s.pcb /\ t.jobs = s.jobs
      /\ t.past = s.past /\ \A y : IsSet(t, y) <=> IsSet(s, y)
      /\ t.socks.state = x /\ t.socks.send = s.socks.send
      /\ t.socks.recv = s.socks.recv /\ t.socks.len = s.socks.len
      /\ t.socks.sent_len = s.socks.sent_len /\ t.socks.recv_len = s.socks.recv_len
      /\ t.socks.wait = s.socks.wait
  BY <1>0, <1>1, StateParts, Zenon
<1> HIDE DEF t
<1>3. NoDup(t.jobs) /\ "control" \in Jobs BY <1>0, <1>2, Zenon DEF Plumbing, Jobs
<1>4. /\ u \in Shape /\ u.client = t.client /\ u.pcb = t.pcb /\ u.socks = t.socks
      /\ u.past = t.past /\ NoDup(u.jobs)
      /\ \A y : IsSet(u, y) <=> IsSet(t, y) \/ y = "control"
  BY <1>2, <1>3, SetJobParts
<1> HIDE DEF u
<1>6. \A y : ~IsSet(s, y) BY SMTT(30) DEF IsSet, BSmallPending_IsSet
<1>5. \A y : IsSet(u, y) <=> y = "control" BY <1>2, <1>4, <1>6, Zenon
<1>7. Numbers(u) BY <1>0, <1>2, <1>4, Zenon DEF Numbers
<1>8. Plumbing(u) BY <1>0, <1>1, <1>2, <1>4, <1>5, Zenon DEF Plumbing
<1>9. SameSend(s, u) /\ SameReceive(s, u)
  BY <1>2, <1>4, <1>5, <1>6, Zenon DEF SameSend, SameReceive
<1>10. ToSocks(u) BY <1>0, <1>2, <1>4, <1>8, <1>9, SameSides, Zenon DEF ToSocks
<1>11. FromSocks(u) BY <1>0, <1>2, <1>4, <1>9, SameSides, Zenon DEF FromSocks, Ends
<1>12. QED BY <1>0, <1>2, <1>4, <1>7, <1>10, <1>11, SMTT(30) DEF Books, t, u

\* connector_handler.
LEMMA ConnectorBooks ==
  ASSUME NEW s, Working(s), s.jobs = <<>>, s.socks.state = "CONNECTING",
         NEW u \in connector_handler(s)
  PROVE  Books(u)
<1>1. s.socks.wait = {} BY Zenon DEF Working, Plumbing
<1>2. "CONNECTED_HANDLER" \in Control BY Zenon DEF Control, Continues
<1>3. \/ u \in client_socks_handler_error(s)
      \/ u = SetJob([s EXCEPT !.socks.state = "CONNECTED_HANDLER"], "control")
  BY DEF connector_handler
<1>4. QED BY <1>1, <1>2, <1>3, WorkingError, ControlBooks

\* A step of the handshake.
LEMMA HandshakeBooks ==
  ASSUME NEW s, Working(s), s.jobs = <<>>, s.socks.wait = {}, s.socks.state \in Control,
         NEW u \in handshake(s)
  PROVE  Books(u)
<1>0. s \in Shape /\ s.client.life = "alive" /\ ~s.client.socks_closed /\ Numbers(s) /\ Plumbing(s)
      /\ SendSide(s, JustSent(s)) /\ FromSocks(s)
  BY Zenon DEF Working
<1>1. s.socks.state # "UP" /\ s.socks.state # "CONNECTING" BY Zenon DEF Control, Continues
<1>2. ~s.client.socks_up /\ \A y : ~IsSet(s, y)
  BY <1>0, <1>1, SMTT(30) DEF Plumbing, IsSet, BSmallPending_IsSet
<1>3. \/ \E event \in {"READ", "WRITE"} : u \in Blocked(s, event)
      \/ u \in client_socks_handler_error(s)
      \/ \E x \in Continues[s.socks.state] :
            LET t == [s EXCEPT !.socks.state = x]
            IN  u = IF x = "UP" THEN client_socks_handler_up(t) ELSE SetJob(t, "control")
  BY Zenon DEF handshake
<1>4. ASSUME NEW event \in {"READ", "WRITE"}, u \in Blocked(s, event) PROVE Books(u)
  <2>1. /\ u \in Shape /\ u.client = s.client /\ u.pcb = s.pcb /\ u.jobs = s.jobs
        /\ u.past = s.past /\ \A y : IsSet(u, y) <=> IsSet(s, y)
        /\ u.socks.state = s.socks.state /\ u.socks.send = s.socks.send
        /\ u.socks.recv = s.socks.recv /\ u.socks.len = s.socks.len
        /\ u.socks.sent_len = s.socks.sent_len /\ u.socks.recv_len = s.socks.recv_len
        /\ u.socks.wait = s.socks.wait \cup {event}
    BY <1>0, <1>4, BlockedParts
  <2>2. Numbers(u) BY <1>0, <2>1, Zenon DEF Numbers
  <2>3. Plumbing(u) BY <1>0, <1>1, <1>2, <2>1, Zenon DEF Plumbing
  <2>4. JustSent(u) = JustSent(s) /\ JustRead(u) = JustRead(s)
    BY <1>2, <2>1, Zenon DEF JustSent, JustRead
  <2>5. SendSide(u, JustSent(u)) BY <1>0, <1>2, <2>1, <2>4, Zenon DEF SendSide
  <2>6. ~s.client.client_closed => ReceiveSide(u, JustRead(u))
    BY <1>0, <1>2, <2>1, <2>4, Zenon DEF FromSocks, ReceiveSide
  <2>7. FromSocks(u) BY <1>0, <2>1, <2>6, Zenon DEF FromSocks, Ends
  <2>8. QED BY <1>0, <2>1, <2>2, <2>3, <2>5, <2>7, Zenon DEF Books, ToSocks
<1>5. ASSUME NEW x \in Continues[s.socks.state],
             u = IF x = "UP" THEN client_socks_handler_up([s EXCEPT !.socks.state = x])
                 ELSE SetJob([s EXCEPT !.socks.state = x], "control")
      PROVE  Books(u)
  <2>1. x \in Control \cup {"UP"} BY DEF Control, Continues
  <2>2. CASE x = "UP"
    <3> DEFINE t == [s EXCEPT !.socks.state = x]
    <3>0. x \in States BY <2>2, SMTT(30) DEF States
    <3>1. /\ t \in Shape /\ t.client = s.client /\ t.pcb = s.pcb /\ t.jobs = s.jobs
          /\ t.past = s.past /\ \A y : IsSet(t, y) <=> IsSet(s, y)
          /\ t.socks.state = x /\ t.socks.send = s.socks.send
          /\ t.socks.recv = s.socks.recv /\ t.socks.len = s.socks.len
          /\ t.socks.sent_len = s.socks.sent_len /\ t.socks.recv_len = s.socks.recv_len
          /\ t.socks.wait = s.socks.wait
      BY <1>0, <3>0, StateParts, SMTT(30)
    <3>2. u = client_socks_handler_up(t) BY <1>5, <2>2
    <3> HIDE DEF t
    <3>3. Numbers(t) BY <1>0, <3>1, Zenon DEF Numbers
    <3>4. SameSend(s, t) /\ SameReceive(s, t) BY <3>1, Zenon DEF SameSend, SameReceive
    <3>5. JustSent(t) = 0 /\ JustRead(t) = 0 BY <1>2, <3>1, SMTT(30) DEF JustSent, JustRead
    <3>6. SendSide(t, 0) BY <1>0, <3>4, <3>5, SameSides, Zenon
    <3>7. IF t.client.client_closed THEN Ends(t) ELSE ReceiveSide(t, 0)
      BY <1>0, <3>1, <3>4, <3>5, SameSides, Zenon DEF FromSocks, Ends
    <3>8. QED BY <1>0, <1>2, <2>2, <3>1, <3>2, <3>3, <3>6, <3>7, HandlerUpBooks, Zenon
  <2>3. CASE x # "UP"
    <3>1. x \in Control BY <2>1, <2>3, SMTT(30)
    <3>2. u = SetJob([s EXCEPT !.socks.state = x], "control") BY <1>5, <2>3
    <3>3. QED BY <1>1, <3>1, <3>2, ControlBooks
  <2>4. QED BY <2>2, <2>3, Zenon
<1>6. QED BY <1>3, <1>4, <1>5, WorkingError, Zenon

\* connection_fd_handler: the events that are reported are not waited for any more.
LEMMA FdHandlerBooks ==
  ASSUME NEW s, Working(s), s.jobs = <<>>, s.socks.state \in Control \cup {"UP"},
         NEW events \in SUBSET (s.socks.wait \cup {"ERROR", "HUP"}), events # {},
         NEW u \in connection_fd_handler(s, events)
  PROVE  Books(u)
<1> DEFINE hup == "HUP" \in events
           wait == IF hup THEN {} ELSE s.socks.wait \ events
           k == [s.socks EXCEPT !.wait = wait, !.hupd = hup]
           t == [s EXCEPT !.socks.wait = IF hup THEN {} ELSE @ \ events, !.socks.hupd = hup]
           have_send == "WRITE" \in events
                        \/ ((hup \/ "ERROR" \in events) /\ s.socks.send = "BUSY")
           have_recv == "READ" \in events
                        \/ ((hup \/ "ERROR" \in events) /\ s.socks.recv = "BUSY")
<1>0. s \in Shape /\ s.client.life = "alive" /\ ~s.client.socks_closed /\ Numbers(s) /\ Plumbing(s)
      /\ SendSide(s, JustSent(s)) /\ FromSocks(s)
  BY Zenon DEF Working
<1>1. s.socks \in SocksShape BY <1>0, SMTT(30) DEF Shape
<1>2. hup \in BOOLEAN /\ wait \in SUBSET {"READ", "WRITE"} /\ wait \subseteq s.socks.wait
  BY <1>1 DEF SocksShape
<1>3. t = [s EXCEPT !.socks = k] BY <1>0, Zenon DEF Shape
<1>4. \/ u \in client_socks_handler_error(t)
      \/ "ERROR" \notin events /\ s.socks.state # "UP" /\ u \in handshake(t)
      \/ /\ "ERROR" \notin events /\ s.socks.state = "UP" /\ have_send
         /\ u \in connection_send(IF have_recv THEN SetJob(t, "recv_job") ELSE t)
      \/ /\ "ERROR" \notin events /\ s.socks.state = "UP" /\ have_recv
         /\ u \in connection_recv(t)
      \/ u = t
  BY DEF connection_fd_handler
<1>5. hup => wait = {} OBVIOUS
<1>6. ~hup => wait = s.socks.wait \ events OBVIOUS
<1> HIDE DEF wait
<1>7. k \in SocksShape BY <1>1, <1>2, ZenonT(60) DEF SocksShape
<1>8. /\ k.state = s.socks.state /\ k.send = s.socks.send /\ k.recv = s.socks.recv
      /\ k.len = s.socks.len /\ k.sent_len = s.socks.sent_len
      /\ k.recv_len = s.socks.recv_len /\ k.wait = wait
  BY <1>1, Zenon DEF SocksShape
<1> HIDE DEF k
<1>9. t \in Shape /\ t.client = s.client /\ t.pcb = s.pcb /\ t.socks = k /\ t.jobs = s.jobs
      /\ t.past = s.past
  BY <1>0, <1>3, <1>7, Zenon DEF Shape
<1> HIDE DEF t
<1>10. \A y : ~IsSet(t, y) /\ ~IsSet(s, y) BY <1>9, SMTT(30) DEF IsSet, BSmallPending_IsSet
<1>11. Working(t)
  <2>1. Numbers(t) BY <1>0, <1>8, <1>9, Zenon DEF Numbers
  <2>2. Plumbing(t)
    <3>1. \A a, b \in wait : s.socks.state # "UP" => a = b BY <1>0, <1>2, Zenon DEF Plumbing
    <3>2. s.socks.state = "CONNECTING" => wait = {} BY <1>0, <1>2, Zenon DEF Plumbing
    <3>3. QED BY <1>0, <1>8, <1>9, <1>10, <3>1, <3>2, Zenon DEF Plumbing
  <2>3. JustSent(t) = JustSent(s) /\ JustRead(t) = JustRead(s)
    BY <1>10, SMTT(30) DEF JustSent, JustRead
  <2>4. SendSide(t, JustSent(t))
    BY <1>0, <1>2, <1>8, <1>9, <1>10, <2>3, Zenon DEF SendSide
  <2>5. ~s.client.client_closed => ReceiveSide(t, JustRead(t))
    BY <1>0, <1>2, <1>8, <1>9, <1>10, <2>3, Zenon DEF ReceiveSide, FromSocks
  <2>6. FromSocks(t) BY <1>0, <1>9, <2>5, Zenon DEF FromSocks, Ends
  <2>7. QED BY <1>0, <1>9, <1>10, <2>1, <2>2, <2>4, <2>6, Zenon DEF Working
<1>12. CASE u \in client_socks_handler_error(t) BY <1>11, <1>12, WorkingError, Zenon
<1>13. CASE u = t BY <1>11, <1>13, WorkingBooks, SMTT(30)
<1>14. CASE "ERROR" \notin events /\ s.socks.state # "UP" /\ u \in handshake(t)
  <2>1. wait = {}
    <3>1. CASE hup BY <1>5, <3>1
    <3>2. CASE ~hup
      <4>1. \A a, b \in s.socks.wait : a = b BY <1>0, <1>14, SMTT(30) DEF Plumbing
      <4>2. PICK e \in events : TRUE OBVIOUS
      <4>3. e \in s.socks.wait BY <1>14, <3>2
      <4>4. QED BY <1>6, <3>2, <4>1, <4>2, <4>3
    <3>3. QED BY <3>1, <3>2, SMTT(30)
  <2>2. t.socks.state \in Control BY <1>8, <1>9, <1>14, SMTT(30)
  <2>3. QED BY <1>8, <1>9, <1>11, <1>14, <2>1, <2>2, HandshakeBooks, SMTT(30)
<1>15. ASSUME s.socks.state = "UP" PROVE s.client.socks_up BY <1>0, <1>15, SMTT(30) DEF Plumbing
<1>16. ASSUME s.socks.state = "UP", have_recv, "ERROR" \notin events, ~s.client.client_closed
       PROVE  s.socks.recv = "BUSY" /\ "READ" \notin wait
  <2>1. ReceiveSide(s, JustRead(s)) BY <1>0, <1>16, Zenon DEF FromSocks
  <2>2. "READ" \in s.socks.wait => s.socks.recv = "BUSY"
    BY <1>0, <1>15, <1>16, <2>1, Zenon DEF ReceiveSide
  <2>3. QED BY <1>5, <1>6, <1>16, <2>2, SMTT(30)
<1>17. ASSUME s.socks.state = "UP", have_send, "ERROR" \notin events
       PROVE  s.socks.send = "BUSY" /\ "WRITE" \notin wait
  <2>1. "WRITE" \in s.socks.wait => s.socks.send = "BUSY"
    BY <1>0, <1>15, <1>17, SMTT(30) DEF SendSide
  <2>2. QED BY <1>5, <1>6, <1>17, <2>1, SMTT(30)
<1>18. CASE /\ "ERROR" \notin events /\ s.socks.state = "UP" /\ have_recv
            /\ u \in connection_recv(t)
  BY <1>8, <1>9, <1>10, <1>11, <1>15, <1>16, <1>18, ConnectionRecvBooks, Zenon
<1>19. CASE /\ "ERROR" \notin events /\ s.socks.state = "UP" /\ have_send
            /\ u \in connection_send(IF have_recv THEN SetJob(t, "recv_job") ELSE t)
  <2>2. CASE ~have_recv
    BY <1>8, <1>9, <1>10, <1>11, <1>17, <1>19, <2>2, ConnectionSendBooks, Zenon
  <2>3. CASE have_recv
    <3> DEFINE v == SetJob(t, "recv_job")
    <3>0. u \in connection_send(v) BY <1>19, <2>3, SMTT(30)
    <3>1. NoDup(t.jobs) /\ "recv_job" \in Jobs BY <1>11, Zenon DEF Working, Plumbing, Jobs
    <3>2. /\ v \in Shape /\ v.client = t.client /\ v.pcb = t.pcb /\ v.socks = t.socks
          /\ v.past = t.past /\ NoDup(v.jobs)
          /\ \A y : IsSet(v, y) <=> IsSet(t, y) \/ y = "recv_job"
      BY <1>9, <3>1, SetJobParts, SMTT(30)
    <3> HIDE DEF v
    <3>3. \A y : IsSet(v, y) <=> y = "recv_job" BY <1>10, <3>2, SMTT(30)
    <3>4. Numbers(v) /\ Plumbing(v)
      BY <1>8, <1>9, <1>10, <1>11, <1>19, <3>2, <3>3, Zenon DEF Working, Numbers, Plumbing
    <3>5. SameSend(t, v) BY <1>10, <3>2, <3>3, Zenon DEF SameSend
    <3>6. SendSide(v, JustSent(v)) BY <1>11, <3>5, SameSides, Zenon DEF Working
    <3>7. JustRead(v) = 0 BY <3>3, SMTT(30) DEF JustRead
    <3>8. ASSUME ~s.client.client_closed PROVE ReceiveSide(v, 0)
      <4>1. ReceiveSide(t, 0) BY <1>9, <1>11, <3>8, WorkingFacts, Zenon
      <4>2. s.socks.recv = "BUSY" /\ "READ" \notin wait BY <1>16, <1>19, <2>3, <3>8, SMTT(30)
      <4>3. QED BY <1>8, <1>9, <3>2, <3>3, <4>1, <4>2 DEF ReceiveSide
    <3>9. FromSocks(v) BY <1>9, <1>11, <3>2, <3>7, <3>8, Zenon DEF Working, FromSocks, Ends
    <3>10. Working(v) BY <1>11, <3>2, <3>3, <3>4, <3>6, <3>9, SMTT(30) DEF Working
    <3>11. QED BY <1>8, <1>9, <1>17, <1>19, <3>0, <3>2, <3>3, <3>10, ConnectionSendBooks, Zenon
  <2>4. QED BY <2>2, <2>3, SMTT(30)
<1>20. QED BY <1>4, <1>12, <1>13, <1>14, <1>18, <1>19, Zenon

\* No job is set.
Quiet(s) == s.jobs = <<>>

\* client_recv_func with data that fits.
LEMMA RecvFuncBooks ==
  ASSUME NEW s, Working(s), Quiet(s), ~s.client.client_closed, NEW n \in Nat, n > 0,
         n <= s.pcb.wnd, n <= MaxUp - s.past.taken, s.client.buf_used + s.pcb.wnd = TCP_WND
  PROVE  Books(client_recv_func(s, n))
<1> DEFINE c == [s.client EXCEPT !.buf_used = @ + n]
           b == [s.pcb EXCEPT !.wnd = @ - n]
           p == [s.past EXCEPT !.taken = @ + n]
           t == [s EXCEPT !.client.buf_used = @ + n, !.pcb.wnd = @ - n, !.past.taken = @ + n]
           u == client_recv_func(s, n)
<1>0. s \in Shape /\ s.client.life = "alive" /\ ~s.client.socks_closed /\ Numbers(s) /\ Plumbing(s)
      /\ SendSide(s, JustSent(s)) /\ FromSocks(s)
  BY SMTT(30) DEF Working
<1>1. s.client \in ClientShape /\ s.pcb \in PcbShape /\ s.past \in PastShape BY <1>0 DEF Shape
<1>2. /\ s.client.buf_used + n \in Int /\ s.pcb.wnd - n \in Int /\ s.past.taken + n \in Int
      /\ s.client.buf_used \in Nat /\ s.pcb.wnd \in Int /\ s.past.taken \in Nat
      /\ s.past.wrote \in Int /\ TCP_WND \in Int /\ MaxUp \in Int
  BY <1>0, Counts, SMTT(30)
<1>3. c \in ClientShape /\ b \in PcbShape /\ p \in PastShape
  <2>1. c \in ClientShape BY <1>1, <1>2, Zenon DEF ClientShape
  <2>2. b \in PcbShape BY <1>1, <1>2, Zenon DEF PcbShape
  <2>3. p \in PastShape BY <1>1, <1>2, Zenon DEF PastShape
  <2>4. QED BY <2>1, <2>2, <2>3
<1>4. /\ c.life = s.client.life /\ c.client_closed = s.client.client_closed
      /\ c.buf_used = s.client.buf_used + n /\ c.socks_up = s.client.socks_up
      /\ c.socks_closed = s.client.socks_closed
      /\ c.socks_recv_buf_used = s.client.socks_recv_buf_used
      /\ c.socks_recv_buf_sent = s.client.socks_recv_buf_sent
      /\ c.socks_recv_waiting = s.client.socks_recv_waiting
      /\ c.socks_recv_tcp_pending = s.client.socks_recv_tcp_pending
  BY <1>1, Zenon DEF ClientShape
<1>5. b.wnd = s.pcb.wnd - n /\ b.unacked = s.pcb.unacked BY <1>1, Zenon DEF PcbShape
<1>6. /\ p.taken = s.past.taken + n /\ p.wrote = s.past.wrote /\ p.got = s.past.got
      /\ p.acked = s.past.acked /\ p.broken = s.past.broken
  BY <1>1, Zenon DEF PastShape
<1>7. t = [s EXCEPT !.client = c, !.pcb = b, !.past = p] BY <1>0, Zenon DEF Shape
<1>8. u = IF n > TCP_WND - s.client.buf_used THEN s
          ELSE IF s.client.buf_used = 0 /\ s.client.socks_up THEN client_send_to_socks(t) ELSE t
  BY DEF client_recv_func
<1> HIDE DEF c, b, p, u
<1>9. t \in Shape /\ t.client = c /\ t.pcb = b /\ t.past = p /\ t.socks = s.socks
      /\ t.jobs = s.jobs
  BY <1>0, <1>3, <1>7, Zenon DEF Shape
<1> HIDE DEF t
<1>10. \A y : ~IsSet(t, y) /\ ~IsSet(s, y) BY <1>9 DEF Quiet, IsSet, BSmallPending_IsSet
<1>11. ~(n > TCP_WND - s.client.buf_used) => Numbers(t)
  <2>1. SUFFICES ASSUME ~(n > TCP_WND - s.client.buf_used) PROVE Numbers(t) OBVIOUS
  <2>2. s.client.buf_used + n \in 0..TCP_WND BY <1>2, <2>1, SMTT(30)
  <2>3. s.pcb.wnd - n \in 0..TCP_WND BY <1>0, <1>2, Counts
  <2>4. s.past.taken + n \in 0..MaxUp BY <1>2, SMTT(30)
  <2>5. QED BY <1>0, <1>4, <1>5, <1>6, <1>9, <2>2, <2>3, <2>4, Zenon DEF Numbers
<1>12. Plumbing(t) BY <1>0, <1>4, <1>9, <1>10, Zenon DEF Plumbing
<1>13. JustSent(t) = 0 /\ JustSent(s) = 0 BY <1>10, SMTT(30) DEF JustSent
<1>14. SameReceive(s, t) BY <1>4, <1>5, <1>6, <1>9, <1>10, Zenon DEF SameReceive
<1>15. ReceiveSide(t, JustRead(t)) BY <1>0, <1>14, SameSides, Zenon DEF FromSocks
<1>16. CASE n > TCP_WND - s.client.buf_used
  <2>1. u = s BY <1>8, <1>16
  <2>2. QED BY <2>1, WorkingBooks, SMTT(30) DEF u
<1>17. CASE ~(n > TCP_WND - s.client.buf_used) /\ s.client.buf_used = 0 /\ s.client.socks_up
  <2>1. u = client_send_to_socks(t) BY <1>8, <1>17, SMTT(30)
  <2>0. SendSide(s, 0) BY <1>0, <1>13, Zenon
  <2>7. ~s.past.broken /\ s.past.taken = s.past.wrote /\ s.socks.send # "BUSY"
        /\ "WRITE" \notin s.socks.wait
    BY <1>2, <1>17, <2>0 DEF SendSide
  <2>8. s.socks.send = "READY" BY <1>0, <2>7, SMTT(30) DEF Shape, SocksShape
  <2>9. s.past.taken + n = s.past.wrote + (s.client.buf_used + n) BY <1>2, <1>17, <2>7, SMTT(30)
  <2>2. Unsaid(t) BY <1>4, <1>6, <1>9, <1>10, <2>7, <2>8, <2>9, Zenon DEF Unsaid
  <2>3. t.client.buf_used > 0 /\ t.client.socks_up
    <3>1. s.client.buf_used + n > 0 BY <1>2, SMTT(30)
    <3>2. QED BY <1>4, <1>9, <1>17, <3>1, Zenon
  <2>4. /\ u.client = t.client /\ Numbers(u) /\ Plumbing(u)
        /\ SendSide(u, JustSent(u)) /\ SameReceive(t, u)
    BY <1>9, <1>10, <1>11, <1>12, <1>17, <2>1, <2>2, <2>3, SendToSocksBooks, Zenon
  <2>5. ReceiveSide(u, JustRead(u)) BY <1>15, <2>4, SameSides, SMTT(30)
  <2>6. QED BY <1>0, <1>4, <1>9, <2>4, <2>5, Zenon DEF Books, ToSocks, FromSocks, u
<1>18. CASE ~(n > TCP_WND - s.client.buf_used) /\ ~(s.client.buf_used = 0 /\ s.client.socks_up)
  <2>1. u = t BY <1>8, <1>18, SMTT(30)
  <2>0. SendSide(s, 0) BY <1>0, <1>13, SMTT(30)
  <2>4. /\ s.past.taken + n + 0 = s.past.wrote + (s.client.buf_used + n)
        /\ 0 <= s.client.buf_used + n
        /\ s.socks.send = "BUSY" => /\ 1 <= s.socks.len /\ s.socks.len <= s.client.buf_used + n
        /\ s.client.socks_up => (s.client.buf_used + n > 0 <=> s.socks.send = "BUSY" \/ 0 > 0)
    <3>1. s.socks.len \in Int BY <1>0 DEF Shape, SocksShape
    <3>2. QED BY <1>2, <1>18, <2>0, <3>1 DEF SendSide
  <2>2. SendSide(t, 0)
    BY <1>4, <1>6, <1>9, <1>10, <2>0, <2>4, Zenon DEF SendSide
  <2>3. QED BY <1>0, <1>4, <1>9, <1>11, <1>12, <1>13, <1>15, <1>18, <2>1, <2>2, Zenon
            DEF Books, ToSocks, FromSocks, u
<1>19. QED BY <1>16, <1>17, <1>18

\* client_sent_func: what is acknowledged makes room for what is left.
LEMMA SentFuncBooks ==
  ASSUME NEW s \in Shape, s.client.life = "alive", ~s.client.client_closed, Numbers(s),
         ToSocks(s), ReceiveSide(s, 0), Quiet(s), NEW n \in Nat, 1 <= n, n <= s.pcb.unacked,
         NEW u \in client_sent_func(s, n)
  PROVE  Books(u)
<1> DEFINE c == [s.client EXCEPT !.socks_recv_tcp_pending = @ - n]
           b == [s.pcb EXCEPT !.unacked = @ - n]
           p == [s.past EXCEPT !.acked = @ + n]
           t == [s EXCEPT !.client.socks_recv_tcp_pending = @ - n, !.pcb.unacked = @ - n,
                          !.past.acked = @ + n]
           d == [c EXCEPT !.socks_recv_waiting = FALSE]
           v == [t EXCEPT !.client.socks_recv_waiting = FALSE]
<1>1. s.client \in ClientShape /\ s.pcb \in PcbShape /\ s.past \in PastShape BY SMTT(30) DEF Shape
<1>2. /\ s.client.socks_recv_tcp_pending - n \in Int /\ s.pcb.unacked - n \in Int
      /\ s.past.acked + n \in Int /\ n \in Int /\ 1 <= n /\ n <= s.pcb.unacked
  BY Counts
<1>3. c \in ClientShape /\ b \in PcbShape /\ p \in PastShape
  <2>1. c \in ClientShape BY <1>1, <1>2, Zenon DEF ClientShape
  <2>2. b \in PcbShape BY <1>1, <1>2, Zenon DEF PcbShape
  <2>3. p \in PastShape BY <1>1, <1>2, Zenon DEF PastShape
  <2>4. QED BY <2>1, <2>2, <2>3
<1>4. /\ c.life = s.client.life /\ c.client_closed = s.client.client_closed
      /\ c.buf_used = s.client.buf_used /\ c.socks_up = s.client.socks_up
      /\ c.socks_closed = s.client.socks_closed
      /\ c.socks_recv_buf_used = s.client.socks_recv_buf_used
      /\ c.socks_recv_buf_sent = s.client.socks_recv_buf_sent
      /\ c.socks_recv_waiting = s.client.socks_recv_waiting
      /\ c.socks_recv_tcp_pending = s.client.socks_recv_tcp_pending - n
  BY <1>1, Zenon DEF ClientShape
<1>5. b.wnd = s.pcb.wnd /\ b.unacked = s.pcb.unacked - n BY <1>1, Zenon DEF PcbShape
<1>6. /\ p.acked = s.past.acked + n /\ p.taken = s.past.taken /\ p.wrote = s.past.wrote
      /\ p.got = s.past.got /\ p.broken = s.past.broken
  BY <1>1, Zenon DEF PastShape
<1>7. t = [s EXCEPT !.client = c, !.pcb = b, !.past = p] BY Zenon DEF Shape
<1>8. \/ /\ t.client.socks_recv_buf_used > 0
         /\ \E x \in client_socks_recv_send_out(v) :
              u = IF ClientUp(x) /\ x.client.socks_recv_buf_used = -1 /\ ~x.client.socks_closed
                  THEN client_socks_recv_initiate(x) ELSE x
      \/ /\ ~(t.client.socks_recv_buf_used > 0) /\ t.client.socks_closed
         /\ t.client.socks_recv_tcp_pending = 0 /\ u \in client_free_client(t)
      \/ /\ ~(t.client.socks_recv_buf_used > 0) /\ u = t
         /\ ~(t.client.socks_closed /\ t.client.socks_recv_tcp_pending = 0)
  BY SMTT(30) DEF client_sent_func
<1> HIDE DEF c, b, p
<1>9. t \in Shape /\ t.client = c /\ t.pcb = b /\ t.past = p /\ t.socks = s.socks
      /\ t.jobs = s.jobs
  BY <1>3, <1>7, Zenon DEF Shape
<1> HIDE DEF t
<1>10. \A y : ~IsSet(t, y) /\ ~IsSet(s, y) BY <1>9, SMTT(30) DEF Quiet, IsSet, BSmallPending_IsSet
<1>11. /\ s.past.got = s.past.acked + s.client.socks_recv_tcp_pending + Unsent(s.client)
       /\ s.client.socks_recv_tcp_pending = s.pcb.unacked /\ Unsent(s.client) \in Nat
       /\ s.client.socks_recv_buf_used > 0 \/ s.client.socks_recv_buf_used = -1
       /\ s.client.socks_up
  <2>1. /\ s.past.got = s.past.acked + s.client.socks_recv_tcp_pending + Unsent(s.client) + 0
        /\ s.client.socks_recv_tcp_pending = s.pcb.unacked
        /\ s.client.socks_recv_buf_used # -1 =>
             s.client.socks_recv_buf_sent < s.client.socks_recv_buf_used
        /\ ~s.client.socks_up => s.client.socks_recv_tcp_pending = 0
    BY Zenon DEF ReceiveSide
  <2>2. s.client.socks_recv_buf_used > 0 \/ s.client.socks_recv_buf_used = -1 BY <2>1, Counts
  <2>3. Unsent(s.client) \in Nat BY <2>1, <2>2, Counts DEF Unsent
  <2>4. QED BY <1>2, <2>1, <2>2, <2>3, Counts
<1>12. Numbers(t)
  <2>1. s.past.acked + n \in 0..MaxDown BY <1>2, <1>11, Counts
  <2>2. /\ s.client.socks_recv_tcp_pending - n \in 0..TCP_SND_BUF
        /\ s.pcb.unacked - n \in 0..TCP_SND_BUF
    BY <1>2, <1>11, Counts
  <2>3. QED BY <1>4, <1>5, <1>6, <1>9, <2>1, <2>2, Zenon DEF Numbers
<1>13. ToSocks(t)
  <2>1. SameSend(s, t) BY <1>4, <1>6, <1>9, <1>10, Zenon DEF SameSend
  <2>2. Plumbing(s) => Plumbing(t) BY <1>4, <1>9, <1>10, Zenon DEF Plumbing
  <2>3. QED BY <1>4, <1>9, <2>1, <2>2, SameSides, Zenon DEF ToSocks
<1>14. CASE /\ t.client.socks_recv_buf_used > 0
            /\ \E x \in client_socks_recv_send_out(v) :
              u = IF ClientUp(x) /\ x.client.socks_recv_buf_used = -1 /\ ~x.client.socks_closed
                  THEN client_socks_recv_initiate(x) ELSE x
  <2>1. d \in ClientShape BY <1>3, Zenon DEF ClientShape
  <2>2. /\ d.life = c.life /\ d.client_closed = c.client_closed /\ d.buf_used = c.buf_used
        /\ d.socks_up = c.socks_up /\ d.socks_closed = c.socks_closed
        /\ d.socks_recv_buf_used = c.socks_recv_buf_used
        /\ d.socks_recv_buf_sent = c.socks_recv_buf_sent
        /\ d.socks_recv_tcp_pending = c.socks_recv_tcp_pending
    BY <1>3, Zenon DEF ClientShape
  <2>3. v = [t EXCEPT !.client = d] BY <1>9, Zenon DEF Shape
  <2> HIDE DEF d
  <2>4. v \in Shape /\ v.client = d /\ v.pcb = t.pcb /\ v.past = t.past /\ v.socks = t.socks
        /\ v.jobs = t.jobs
    BY <1>9, <2>1, <2>3, Zenon DEF Shape
  <2>5. PICK x \in client_socks_recv_send_out(v) :
          u = IF ClientUp(x) /\ x.client.socks_recv_buf_used = -1 /\ ~x.client.socks_closed
              THEN client_socks_recv_initiate(x) ELSE x
    BY <1>14
  <2> HIDE DEF v
  <2>6. \A y : ~IsSet(v, y) BY <1>10, <2>4, SMTT(30) DEF IsSet
  <2>7. Numbers(v) BY <1>9, <1>12, <2>2, <2>4, Zenon DEF Numbers
  <2>8. SameSend(t, v) BY <1>9, <1>10, <2>2, <2>4, <2>6, Zenon DEF SameSend
  <2>9. Plumbing(t) => Plumbing(v) BY <1>9, <1>10, <2>2, <2>4, <2>6 DEF Plumbing
  <2>10. ToSocks(v) BY <1>9, <1>13, <2>2, <2>4, <2>8, <2>9, SameSides, Zenon DEF ToSocks
  <2>11. s.client.socks_recv_buf_used > 0 BY <1>4, <1>9, <1>14, Zenon
  <2>12. /\ s.client.socks_recv_buf_sent < s.client.socks_recv_buf_used
         /\ s.past.got = s.past.acked + s.client.socks_recv_tcp_pending
                         + (s.client.socks_recv_buf_used - s.client.socks_recv_buf_sent)
         /\ IF s.client.socks_closed THEN s.past.broken
            ELSE s.socks.recv # "BUSY" /\ "READ" \notin s.socks.wait
    BY <1>11, <2>11 DEF ReceiveSide, Unsent
  <2>13. /\ s.past.acked \in Int /\ s.client.socks_recv_tcp_pending \in Int
         /\ s.client.socks_recv_buf_used \in Int /\ s.client.socks_recv_buf_sent \in Int
    BY Counts
  <2>14. Left(v)
    <3>1. s.past.got = (s.past.acked + n) + (s.client.socks_recv_tcp_pending - n)
                       + (s.client.socks_recv_buf_used - s.client.socks_recv_buf_sent)
      BY <1>2, <2>12, <2>13
    <3>2. /\ v.client.socks_up /\ v.client.socks_closed = s.client.socks_closed
          /\ v.client.socks_recv_buf_sent = s.client.socks_recv_buf_sent
          /\ v.client.socks_recv_buf_used = s.client.socks_recv_buf_used
          /\ v.client.socks_recv_tcp_pending = s.client.socks_recv_tcp_pending - n
          /\ v.past.got = s.past.got /\ v.past.acked = s.past.acked + n
          /\ v.past.broken = s.past.broken /\ v.pcb.unacked = s.pcb.unacked - n
          /\ v.socks = s.socks
      BY <1>4, <1>5, <1>6, <1>9, <1>11, <2>2, <2>4, Zenon
    <3>3. v.client.socks_recv_tcp_pending = v.pcb.unacked BY <1>11, <3>2, Zenon
    <3>4. v.past.got = v.past.acked + v.client.socks_recv_tcp_pending
                       + (v.client.socks_recv_buf_used - v.client.socks_recv_buf_sent)
      BY <3>1, <3>2, Zenon
    <3>5. v.client.socks_recv_buf_sent < v.client.socks_recv_buf_used BY <2>12, <3>2, Zenon
    <3>6. QED BY <2>6, <2>12, <3>2, <3>3, <3>4, <3>5, Zenon DEF Left
  <2>15. SentOut(v, x)
    BY <1>4, <1>9, <2>2, <2>4, <2>5, <2>7, <2>10, <2>14, SendOutBooks, Zenon
  <2>16. CASE ClientUp(x) /\ x.client.socks_recv_buf_used = -1 /\ ~x.client.socks_closed
    <3>1. x \in Shape /\ Numbers(x) /\ ToSocks(x) /\ Unread(x) BY <2>15, <2>16, Zenon DEF SentOut
    <3>2. QED BY <2>5, <2>16, <3>1, RecvInitiateBooks, Zenon DEF ClientUp
  <2>17. CASE ~(ClientUp(x) /\ x.client.socks_recv_buf_used = -1 /\ ~x.client.socks_closed)
    BY <2>5, <2>15, <2>17, Zenon DEF SentOut
  <2>18. QED BY <2>16, <2>17, SMTT(30)
<1>15. ASSUME ~(t.client.socks_recv_buf_used > 0)
       PROVE  /\ t.client.socks_recv_buf_used = -1
              /\ t.past.got = t.past.acked + t.client.socks_recv_tcp_pending
              /\ Unsent(t.client) = 0
  <2>1. s.client.socks_recv_buf_used = -1 BY <1>4, <1>9, <1>11, <1>15, Zenon
  <2>2. Unsent(s.client) = 0 /\ Unsent(t.client) = 0 BY <1>4, <1>9, <2>1, SMTT(30) DEF Unsent
  <2>3. s.past.got = (s.past.acked + n) + (s.client.socks_recv_tcp_pending - n)
    BY <1>2, <1>11, <2>2, Counts
  <2>4. QED BY <1>4, <1>6, <1>9, <2>1, <2>2, <2>3, Zenon
<1>16. CASE /\ ~(t.client.socks_recv_buf_used > 0) /\ t.client.socks_closed
            /\ t.client.socks_recv_tcp_pending = 0 /\ u \in client_free_client(t)
  <2>1. t.past.acked = t.past.got BY <1>12, <1>15, <1>16, Counts
  <2>2. t.client.socks_closed => t.past.broken BY <1>4, <1>6, <1>9, Zenon DEF ReceiveSide
  <2>3. QED BY <1>4, <1>9, <1>12, <1>13, <1>16, <2>1, <2>2, FreeClientBooks, Zenon
<1>17. CASE /\ ~(t.client.socks_recv_buf_used > 0) /\ u = t
            /\ ~(t.client.socks_closed /\ t.client.socks_recv_tcp_pending = 0)
  <2>1. JustRead(t) = 0 BY <1>10, SMTT(30) DEF JustRead
  <2>2. t.client.socks_closed => t.client.socks_recv_tcp_pending > 0
    BY <1>12, <1>17, Counts, SMTT(30)
  <2>3. ReceiveSide(t, 0)
    <3>1. t.past.got = t.past.acked + t.client.socks_recv_tcp_pending + Unsent(t.client) + 0
      BY <1>12, <1>15, <1>17, Counts
    <3>2. t.client.socks_recv_tcp_pending = t.pcb.unacked BY <1>4, <1>5, <1>9, <1>11, Zenon
    <3>3. QED BY <1>4, <1>6, <1>9, <1>10, <1>11, <1>15, <1>17, <2>2, <3>1, <3>2, Zenon DEF ReceiveSide
  <2>4. QED BY <1>4, <1>9, <1>12, <1>13, <1>17, <2>1, <2>3, Zenon DEF Books, FromSocks
<1>18. QED BY <1>8, <1>14, <1>16, <1>17, Zenon

-----------------------------------------------------------------------------
\* The actions keep the books.

\* Books before listener_accept_func.
LEMMA InitBooks == Init => Books(tcp)
<1> SUFFICES ASSUME Init PROVE Books(tcp) OBVIOUS
<1>1. /\ tcp.client = NoClient /\ tcp.socks = NoSocks /\ tcp.pcb.wnd = TCP_WND
      /\ tcp.pcb.unacked = 0 /\ tcp.past.taken = 0 /\ tcp.past.wrote = 0
      /\ tcp.past.got = 0 /\ tcp.past.acked = 0 /\ ~tcp.past.broken
  BY Zenon DEF Init
<1>2. /\ NoClient.life = "none" /\ NoClient.buf_used = 0 /\ NoClient.socks_recv_buf_used = -1
      /\ NoClient.socks_recv_buf_sent = 0 /\ NoClient.socks_recv_tcp_pending = 0
  BY SMTT(30) DEF NoClient
<1>3. Numbers(tcp) BY <1>1, <1>2, Zeros, SizesAssumption DEF Numbers
<1>4. QED BY <1>1, <1>2, <1>3, SMTT(30) DEF Books

\* Running a job keeps the books.
LEMMA RunJobBooks == IInv /\ Books(tcp) /\ RunJob => Books(tcp')
<1> SUFFICES ASSUME IInv, Books(tcp), RunJob PROVE Books(tcp') OBVIOUS
<1> DEFINE s == [tcp EXCEPT !.jobs = Tail(@)]
           j == Head(tcp.jobs)
<1>1. Live(tcp) BY Present DEF RunJob
<1>2. tcp \in Shape /\ SocksSide(tcp) /\ ~tcp.client.socks_closed BY <1>1, LiveFacts
<1>3. tcp.jobs \in Seq(Jobs) /\ NoDup(tcp.jobs) /\ tcp.jobs # <<>>
      /\ (IsSet(tcp, "control") => tcp.socks.state \in Control)
      /\ tcp.client.life = "alive"
  BY <1>2 DEF Shape, SocksSide, JobsOK, RunJob, IsSet
<1>4. /\ j \in Jobs /\ Tail(tcp.jobs) \in Seq(Jobs) /\ NoDup(Tail(tcp.jobs))
      /\ \A y : BSmallPending_IsSet(Tail(tcp.jobs), y)
                <=> BSmallPending_IsSet(tcp.jobs, y) /\ y # j
      /\ BSmallPending_IsSet(tcp.jobs, j)
  BY <1>3, TailFacts, SMTT(30)
<1>5. tcp' \in job_handler(s, j) BY DEF RunJob
<1>6. Numbers(tcp) /\ Plumbing(tcp) /\ SendSide(tcp, JustSent(tcp)) /\ FromSocks(tcp)
  BY <1>2, <1>3, Zenon DEF Books, ToSocks
<1>7. j # "recv_done" => ~IsSet(tcp, "recv_done") BY <1>6, SMTT(30) DEF Plumbing
<1> HIDE DEF j
<1>8. s \in Shape /\ s.client = tcp.client /\ s.pcb = tcp.pcb /\ s.socks = tcp.socks
      /\ s.past = tcp.past /\ s.jobs = Tail(tcp.jobs)
  BY <1>2, <1>4, Zenon DEF Shape
<1> HIDE DEF s
<1>9. IsSet(tcp, j) /\ ~IsSet(s, "recv_done")
      /\ \A y : IsSet(s, y) <=> IsSet(tcp, y) /\ y # j
  BY <1>4, <1>7, <1>8 DEF IsSet
<1>10. Numbers(s) BY <1>6, <1>8, SMTT(30) DEF Numbers
<1>11. Plumbing(s) BY <1>3, <1>4, <1>6, <1>8, <1>9, Zenon DEF Plumbing
<1>12. ASSUME j # "send_done" PROVE SendSide(s, JustSent(s))
  <2>1. JustSent(s) = JustSent(tcp) BY <1>8, <1>9, <1>12, SMTT(30) DEF JustSent
  <2>2. QED BY <1>6, <1>8, <1>9, <2>1, Zenon DEF SendSide
<1>13. ASSUME j # "recv_done" PROVE FromSocks(s)
  <2>1. JustRead(s) = JustRead(tcp) BY <1>8, <1>9, <1>13, SMTT(30) DEF JustRead
  <2>2. ReceiveSide(tcp, JustRead(tcp)) => ReceiveSide(s, JustRead(s))
    BY <1>8, <1>9, <2>1, Zenon DEF ReceiveSide
  <2>3. QED BY <1>6, <1>8, <2>2, Zenon DEF FromSocks, Ends
<1>14. j \notin {"send_done", "recv_done"} => Working(s)
  BY <1>2, <1>3, <1>8, <1>9, <1>10, <1>11, <1>12, <1>13, Zenon DEF Working
<1>15. ASSUME tcp.socks.state # "UP" PROVE s.jobs = <<>> /\ s.socks.wait = {}
  <2>1. ~tcp.client.socks_up /\ tcp.socks.wait = {} /\ ~IsSet(tcp, "recv")
        /\ ~IsSet(tcp, "recv_job") /\ ~IsSet(tcp, "recv_done")
    BY <1>3, <1>6, <1>15, Zenon DEF Plumbing
  <2>2. JustSent(tcp) = 0 /\ tcp.socks.send = "READY" BY <1>6, <2>1, Zenon DEF SendSide
  <2>3. ~IsSet(tcp, "send") BY <1>6, <2>2, SMTT(30) DEF SendSide
  <2>4. ~IsSet(tcp, "send_done")
    BY <1>6, <2>2 DEF JustSent, Plumbing, Numbers
  <2>5. \A y \in Jobs : IsSet(tcp, y) => y \in {"connector", "control"}
    BY <2>1, <2>3, <2>4, SMTT(30) DEF Jobs
  <2>6. "CONNECTING" \notin Control BY SMTT(30) DEF Control, Continues
  <2>7. ~(IsSet(tcp, "connector") /\ IsSet(tcp, "control"))
    BY <1>3, <1>6, <2>6, Zenon DEF Plumbing
  <2>8. \A y \in Jobs : ~BSmallPending_IsSet(s.jobs, y)
    BY <1>4, <1>9, <2>5, <2>7 DEF IsSet
  <2>9. s.jobs \in Seq(Jobs) BY <1>4, <1>8
  <2>10. QED BY <1>8, <2>1, <2>8, <2>9, EmptyFacts, Zenon
<1>16. CASE j = "connector"
  <2>1. tcp.socks.state = "CONNECTING" BY <1>6, <1>9, <1>16 DEF Plumbing
  <2>2. tcp' \in connector_handler(s) BY <1>5, <1>16 DEF job_handler
  <2>3. QED BY <1>8, <1>14, <1>15, <1>16, <2>1, <2>2, ConnectorBooks, Zenon
<1>17. CASE j = "control"
  <2>1. tcp.socks.state \in Control /\ tcp.socks.state # "UP"
    BY <1>3, <1>9, <1>17, SMTT(30) DEF Control, Continues
  <2>2. tcp' \in handshake(s) BY <1>5, <1>17 DEF job_handler
  <2>3. QED BY <1>8, <1>14, <1>15, <1>17, <2>1, <2>2, HandshakeBooks, Zenon
<1>18. CASE j = "send"
  <2>1. tcp' \in connection_send(s) BY <1>5, <1>18 DEF job_handler
  <2>2. s.socks.send = "BUSY" /\ "WRITE" \notin s.socks.wait
    BY <1>6, <1>8, <1>9, <1>18, SMTT(30) DEF SendSide
  <2>3. QED BY <1>9, <1>14, <1>18, <2>1, <2>2, ConnectionSendBooks
<1>19. CASE j = "send_done"
  <2>1. tcp' \in client_socks_send_handler_done(s, s.socks.sent_len)
    BY <1>5, <1>19 DEF job_handler
  <2>2. JustSent(tcp) = s.socks.sent_len /\ s.socks.sent_len > 0
    BY <1>6, <1>8, <1>9, <1>19, Zenon DEF JustSent, Plumbing
  <2>3. SendSide(s, s.socks.sent_len) BY <1>6, <1>8, <1>9, <2>2, SMTT(30) DEF SendSide
  <2>4. ~s.client.client_closed => s.client.buf_used + s.pcb.wnd = TCP_WND
    BY <1>1, <1>2, <1>8, SMTT(30) DEF Live, Alive, Open, Closed
  <2>5. QED BY <1>2, <1>3, <1>8, <1>9, <1>10, <1>11, <1>13, <1>19, <2>1, <2>2, <2>3, <2>4,
               SendDoneBooks, SMTT(30)
<1>20. CASE j \in {"recv", "recv_job"}
  <2>1. tcp' \in connection_recv(s) BY <1>5, <1>20 DEF job_handler
  <2>2. s.client.socks_up BY <1>6, <1>8, <1>9, <1>20, SMTT(30) DEF Plumbing
  <2>3. ~s.client.client_closed => /\ s.socks.recv = "BUSY" /\ "READ" \notin s.socks.wait
                                   /\ ~IsSet(s, "recv") /\ ~IsSet(s, "recv_job")
    BY <1>2, <1>6, <1>8, <1>9, <1>20, <2>2, Zenon DEF FromSocks, ReceiveSide
  <2>4. QED BY <1>14, <1>20, <2>1, <2>2, <2>3, ConnectionRecvBooks, SMTT(30)
<1>21. CASE j = "recv_done"
  <2>1. tcp' \in client_socks_recv_handler_done(s, s.socks.recv_len)
    BY <1>5, <1>21 DEF job_handler
  <2>2. JustRead(tcp) = s.socks.recv_len /\ s.socks.recv_len > 0
    BY <1>6, <1>8, <1>9, <1>21, SMTT(30) DEF JustRead, Plumbing
  <2>3. IF s.client.client_closed THEN Ends(s) ELSE ReceiveSide(s, s.socks.recv_len)
    BY <1>6, <1>8, <1>9, <1>21, <2>2, Zenon DEF FromSocks, ReceiveSide, Ends
  <2>4. ToSocks(s) BY <1>11, <1>12, <1>21 DEF ToSocks
  <2>5. QED BY <1>2, <1>3, <1>8, <1>9, <1>10, <2>1, <2>2, <2>3, <2>4, RecvDoneBooks, Zenon
<1>22. QED BY <1>4, <1>16, <1>17, <1>18, <1>19, <1>20, <1>21 DEF Jobs

\* A SOCKS client in the middle of nothing is at work.
LEMMA IdleWorking ==
  ASSUME IInv, Books(tcp), tcp.jobs = <<>>, tcp.socks.state # "NONE"
  PROVE  Working(tcp)
<1>1. tcp \in Shape /\ SocksSide(tcp) /\ ~tcp.client.socks_closed BY Present, LiveFacts
<1>2. ~IsSet(tcp, "recv_done") BY DEF IsSet, BSmallPending_IsSet
<1>3. QED BY <1>1, <1>2, Zenon DEF Books, ToSocks, SocksSide, Working

\* Events of the descriptors keep the books.
LEMMA FdBooks == IInv /\ Books(tcp) /\ (ConnectorFd \/ ConnectionFd) => Books(tcp')
<1> SUFFICES ASSUME IInv, Books(tcp), ConnectorFd \/ ConnectionFd PROVE Books(tcp') OBVIOUS
<1>0. "NONE" \notin Control BY SMTT(30) DEF Control, Continues
<1>1. CASE ConnectorFd BY <1>1, IdleWorking, ConnectorBooks, SMTT(30) DEF ConnectorFd, Idle
<1>2. CASE ConnectionFd
  <2>1. Working(tcp) /\ tcp.jobs = <<>> /\ tcp.socks.state \in Control \cup {"UP"}
    BY <1>0, <1>2, IdleWorking, SMTT(30) DEF ConnectionFd, Idle
  <2>2. PICK events \in (SUBSET (tcp.socks.wait \cup {"ERROR", "HUP"})) \ {{}} :
          tcp' \in connection_fd_handler(tcp, events)
    BY <1>2, SMTT(30) DEF ConnectionFd
  <2>3. events \in SUBSET (tcp.socks.wait \cup {"ERROR", "HUP"}) /\ events # {} BY <2>2
  <2>4. QED BY <2>1, <2>2, <2>3, FdHandlerBooks
<1>3. QED BY <1>1, <1>2

\* listener_accept_func opens the books: nothing has been transferred.
LEMMA AcceptBooks == IInv /\ Books(tcp) /\ Accept => Books(tcp')
<1> SUFFICES ASSUME IInv, Books(tcp), Accept PROVE Books(tcp') OBVIOUS
<1>1. Fresh(tcp) /\ tcp \in Shape /\ tcp.client.life = "none" BY Present DEF Accept, IInv
<1>2. PICK jobs \in {<<>>, <<"connector">>} :
        tcp' = DEAD_ENTER([tcp EXCEPT !.client.life = "alive", !.socks.state = "CONNECTING",
                                      !.jobs = jobs, !.pcb.err = TRUE, !.pcb.recv = TRUE])
  BY Zenon DEF Accept
<1> DEFINE c == [NoClient EXCEPT !.life = "alive", !.dead_aborted = "frame"]
           b == [tcp.pcb EXCEPT !.err = TRUE, !.recv = TRUE]
           k == [NoSocks EXCEPT !.state = "CONNECTING"]
<1>3. tcp' = [tcp EXCEPT !.client = c, !.socks = k, !.jobs = jobs, !.pcb = b, !.frame = 0]
  BY <1>1, <1>2, Zenon DEF DEAD_ENTER, Fresh, Shape
<1>4. /\ c.life = "alive" /\ ~c.client_closed /\ ~c.socks_closed /\ ~c.socks_up
      /\ c.buf_used = 0 /\ c.socks_recv_buf_used = -1 /\ c.socks_recv_buf_sent = 0
      /\ c.socks_recv_tcp_pending = 0
  BY DEF NoClient
<1>5. b.wnd = TCP_WND /\ b.unacked = 0 BY <1>1, Zenon DEF Shape, PcbShape, Fresh
<1>6. /\ k.state = "CONNECTING" /\ k.send = "READY" /\ k.recv = "READY" /\ k.len = 0
      /\ k.sent_len = 0 /\ k.recv_len = 0 /\ k.wait = {}
  BY DEF NoSocks
<1>7. NoDup(jobs) /\ \A y : BSmallPending_IsSet(jobs, y) => y = "connector"
  BY DEF NoDup, BSmallPending_IsSet
<1> HIDE DEF c, b, k
<1> DEFINE t == tcp'
<1>8. t.client = c /\ t.socks = k /\ t.jobs = jobs /\ t.pcb = b /\ t.past = tcp.past
  BY <1>1, <1>3, Zenon DEF Shape
<1> HIDE DEF t
<1>9. /\ t.past.taken = 0 /\ t.past.wrote = 0 /\ t.past.got = 0 /\ t.past.acked = 0
      /\ ~t.past.broken
  BY <1>1, <1>8, SMTT(30) DEF Books
<1>10. \A y : IsSet(t, y) => y = "connector" BY <1>7, <1>8 DEF IsSet
<1>11. Numbers(t) BY <1>4, <1>5, <1>6, <1>8, <1>9, SizesAssumption, SMTT(30) DEF Numbers
<1>12. Plumbing(t) BY <1>4, <1>6, <1>7, <1>8, <1>10 DEF Plumbing
<1>13. JustSent(t) = 0 /\ JustRead(t) = 0 BY <1>10 DEF JustSent, JustRead
<1>14. SendSide(t, 0) BY <1>4, <1>6, <1>8, <1>9, <1>10, SMTT(30) DEF SendSide
<1>15. ReceiveSide(t, 0) BY <1>4, <1>5, <1>6, <1>8, <1>9, <1>10, SMTT(30) DEF ReceiveSide, Unsent
<1>16. QED BY <1>4, <1>8, <1>11, <1>12, <1>13, <1>14, <1>15, Zenon
           DEF Books, ToSocks, FromSocks, t

\* DEAD_ENTER opens a frame and does no more.
LEMMA EnterSame ==
  ASSUME NEW s \in Shape
  PROVE  LET t == DEAD_ENTER(s)
         IN  /\ t \in Shape /\ t.client.life = s.client.life
             /\ t.client.client_closed = s.client.client_closed
             /\ t.pcb = s.pcb /\ t.past = s.past /\ SameData(s, t)
<1> DEFINE c == [s.client EXCEPT !.dead_aborted = "frame"]
           t == DEAD_ENTER(s)
<1>1. s.client \in ClientShape BY DEF Shape
<1>2. c \in ClientShape BY <1>1, Zenon DEF ClientShape
<1>3. /\ c.life = s.client.life /\ c.client_closed = s.client.client_closed
      /\ c.buf_used = s.client.buf_used /\ c.socks_up = s.client.socks_up
      /\ c.socks_closed = s.client.socks_closed
      /\ c.socks_recv_buf_used = s.client.socks_recv_buf_used
      /\ c.socks_recv_buf_sent = s.client.socks_recv_buf_sent
      /\ c.socks_recv_waiting = s.client.socks_recv_waiting
      /\ c.socks_recv_tcp_pending = s.client.socks_recv_tcp_pending
  BY <1>1, Zenon DEF ClientShape
<1>4. t = [s EXCEPT !.frame = 0, !.client = c] BY Zenon DEF DEAD_ENTER, Shape
<1> HIDE DEF c
<1>5. t \in Shape /\ t.client = c /\ t.pcb = s.pcb /\ t.socks = s.socks /\ t.jobs = s.jobs
      /\ t.past = s.past
  BY <1>2, <1>4, Zenon DEF Shape
<1> HIDE DEF t
<1>6. QED BY <1>3, <1>5, SMTT(30) DEF SameData, t

\* The application ends the connection.
LEMMA ClosedSame ==
  ASSUME NEW s \in Shape
  PROVE  LET t == [s EXCEPT !.past.closed = TRUE]
         IN  /\ t \in Shape /\ t.client = s.client /\ t.pcb = s.pcb
             /\ t.past.closed /\ SameData(s, t)
<1> DEFINE p == [s.past EXCEPT !.closed = TRUE]
           t == [s EXCEPT !.past.closed = TRUE]
<1>1. s.past \in PastShape BY DEF Shape
<1>2. p \in PastShape BY <1>1, Zenon DEF PastShape
<1>3. /\ p.closed /\ p.taken = s.past.taken
      /\ p.wrote = s.past.wrote /\ p.got = s.past.got /\ p.acked = s.past.acked
      /\ p.broken = s.past.broken
  BY <1>1, Zenon DEF PastShape
<1>4. t = [s EXCEPT !.past = p] BY Zenon DEF Shape
<1> HIDE DEF p
<1>5. t \in Shape /\ t.client = s.client /\ t.pcb = s.pcb /\ t.socks = s.socks
      /\ t.jobs = s.jobs /\ t.past = p
  BY <1>2, <1>4, Zenon DEF Shape
<1> HIDE DEF t
<1>6. QED BY <1>3, <1>5, Zenon DEF SameData, t

\* lwIP's callbacks keep the books.
LEMMA AppBooks == IInv /\ Books(tcp) /\ App => Books(tcp')
<1> SUFFICES ASSUME IInv, Books(tcp), App PROVE Books(tcp') OBVIOUS
<1>1. Open(tcp) /\ tcp \in Shape /\ tcp.jobs = <<>>
  BY Present DEF App, AppData, AppFin, AppAck, AppErr, Idle, IInv
<1>2. tcp.client.life = "alive" /\ ~tcp.client.client_closed BY <1>1, SMTT(30) DEF Open, SocksSide
<1>3. \A y : ~IsSet(tcp, y) BY <1>1 DEF IsSet, BSmallPending_IsSet
<1>4. Numbers(tcp) /\ ToSocks(tcp) /\ ReceiveSide(tcp, JustRead(tcp))
  BY <1>2, SMTT(30) DEF Books, FromSocks
<1>5. tcp.client.socks_closed => tcp.past.broken BY <1>4, SMTT(30) DEF ReceiveSide
<1> DEFINE e == DEAD_ENTER(tcp)
<1>6. /\ e \in Shape /\ e.client.life = "alive" /\ ~e.client.client_closed
      /\ e.pcb = tcp.pcb /\ e.past = tcp.past /\ SameData(tcp, e)
  BY <1>1, <1>2, EnterSame, SMTT(30)
<1>7. CASE AppData
  <2>1. PICK n \in 1..Smaller(tcp.pcb.wnd, MaxUp - tcp.past.taken) :
          tcp' = client_recv_func(e, n) /\ tcp.pcb.recv
    BY <1>7 DEF AppData
  <2> HIDE DEF e
  <2>2. n \in Nat /\ n > 0 /\ n <= e.pcb.wnd /\ n <= MaxUp - e.past.taken
    BY <1>4, <1>6, <2>1, SizesAssumption, SMTT(30) DEF Smaller, Numbers
  <2>3. ~tcp.client.socks_closed /\ tcp.client.buf_used + tcp.pcb.wnd = TCP_WND
    BY <1>1, <2>1, SMTT(30) DEF Open
  <2>4. /\ ~e.client.socks_closed /\ e.jobs = <<>>
        /\ e.client.buf_used + e.pcb.wnd = TCP_WND
    BY <1>1, <1>6, <2>3, SMTT(30) DEF SameData
  <2>5. Numbers(e) /\ ToSocks(e) /\ ReceiveSide(e, JustRead(e)) BY <1>4, <1>6, Same, SMTT(30)
  <2>6. ~IsSet(e, "recv_done") BY <2>4 DEF IsSet, BSmallPending_IsSet
  <2>7. Working(e) BY <1>6, <2>4, <2>5, <2>6, Zenon DEF Working, ToSocks, FromSocks
  <2>8. QED BY <1>6, <2>1, <2>2, <2>4, <2>7, RecvFuncBooks, SMTT(30) DEF Quiet
<1>8. CASE AppAck
  <2>1. PICK n \in 1..tcp.pcb.unacked : tcp' \in client_sent_func(e, n) BY <1>8 DEF AppAck
  <2> HIDE DEF e
  <2>2. n \in Nat /\ 1 <= n /\ n <= e.pcb.unacked BY <1>4, <1>6, Counts, SMTT(30)
  <2>3. Numbers(e) /\ ToSocks(e) /\ ReceiveSide(e, JustRead(e)) BY <1>4, <1>6, Same, SMTT(30)
  <2>4. e.jobs = <<>> BY <1>1, <1>6, SMTT(30) DEF SameData
  <2>5. JustRead(e) = 0 BY <2>4 DEF JustRead, IsSet, BSmallPending_IsSet
  <2>6. QED BY <1>6, <2>1, <2>2, <2>3, <2>4, <2>5, SentFuncBooks, SMTT(30) DEF Quiet
<1> HIDE DEF e
<1> DEFINE v == [tcp EXCEPT !.past.closed = TRUE]
<1>9. v \in Shape /\ v.client = tcp.client /\ v.pcb = tcp.pcb /\ v.past.closed /\ SameData(tcp, v)
  BY <1>1, ClosedSame
<1>10. CASE AppFin
  <2> DEFINE w == DEAD_ENTER(v)
  <2>1. tcp' \in client_free_client(w) BY <1>10 DEF AppFin
  <2> HIDE DEF v
  <2>2. /\ w \in Shape /\ w.client.life = "alive" /\ w.past.closed /\ SameData(v, w)
    BY <1>2, <1>9, EnterSame, SMTT(30)
  <2> HIDE DEF w
  <2>3. SameData(tcp, w) BY <1>9, <2>2, SameTwice, SMTT(30)
  <2>4. Numbers(w) /\ ToSocks(w) BY <1>4, <2>3, Same
  <2>5. w.client.socks_closed => w.past.broken BY <1>5, <2>3, SMTT(30) DEF SameData
  <2>6. QED BY <2>1, <2>2, <2>4, <2>5, FreeClientBooks, SMTT(30)
<1>11. CASE AppErr
  <2> DEFINE b == [tcp.pcb EXCEPT !.state = "GONE"]
             w == [v EXCEPT !.pcb = b]
             r == NoCallbacks(w)
  <2>1. tcp.pcb \in PcbShape BY <1>1 DEF Shape
  <2>2. b \in PcbShape /\ b.state = "GONE" /\ b.wnd = tcp.pcb.wnd /\ b.unacked = tcp.pcb.unacked
    BY <2>1, Zenon DEF PcbShape
  <2>3. w = [tcp EXCEPT !.pcb.state = "GONE", !.past.closed = TRUE] BY <1>1, Zenon DEF Shape
  <2> HIDE DEF v, b
  <2>4. w \in Shape /\ w.client = v.client /\ w.socks = v.socks /\ w.jobs = v.jobs
        /\ w.past = v.past /\ w.pcb = b
    BY <1>9, <2>2, Zenon DEF Shape
  <2>5. tcp' = client_handle_freed_client(r) BY <1>11, <2>3 DEF AppErr
  <2> HIDE DEF w
  <2>6. SameData(v, w) BY <1>9, <2>2, <2>4, SMTT(30) DEF SameData
  <2>7. r \in Shape /\ r.client = w.client /\ r.past = w.past
        /\ r.pcb.state = w.pcb.state /\ SameData(w, r)
    BY <2>4, NoCallbacksSame, SMTT(30)
  <2> HIDE DEF r
  <2>8. SameData(tcp, r) BY <1>9, <2>6, <2>7, SameTwice
  <2>9. Numbers(r) /\ ToSocks(r) BY <1>4, <2>8, Same
  <2>10. r.client.socks_closed => r.past.broken BY <1>5, <2>8 DEF SameData
  <2>11. r.client.life = "alive" /\ Ends(r) BY <1>2, <1>9, <2>2, <2>4, <2>7 DEF Ends
  <2>12. QED BY <2>5, <2>7, <2>9, <2>10, <2>11, HandleFreedBooks, SMTT(30)
<1>12. QED BY <1>7, <1>8, <1>10, <1>11 DEF App, e, v

\* DEAD_LEAVE2 transfers nothing.
LEMMA ReturnBooks == IInv /\ Books(tcp) /\ Return => Books(tcp')
<1> SUFFICES ASSUME IInv, Books(tcp), Return PROVE Books(tcp') OBVIOUS
<1> DEFINE d == IF tcp.client.life # "alive" THEN tcp.client.dead_aborted
                ELSE IF tcp.frame = 0 THEN NULL ELSE "stale"
           c == [tcp.client EXCEPT !.dead_aborted = d]
           t == tcp'
<1>1. tcp \in Shape BY DEF IInv
<1>2. tcp.client \in ClientShape BY <1>1 DEF Shape
<1>3. t = [tcp EXCEPT !.frame = NULL, !.client = c] BY <1>1 DEF Return, Shape
<1> HIDE DEF d
<1>4. /\ c.life = tcp.client.life /\ c.client_closed = tcp.client.client_closed
      /\ c.buf_used = tcp.client.buf_used /\ c.socks_up = tcp.client.socks_up
      /\ c.socks_closed = tcp.client.socks_closed
      /\ c.socks_recv_buf_used = tcp.client.socks_recv_buf_used
      /\ c.socks_recv_buf_sent = tcp.client.socks_recv_buf_sent
      /\ c.socks_recv_waiting = tcp.client.socks_recv_waiting
      /\ c.socks_recv_tcp_pending = tcp.client.socks_recv_tcp_pending
  BY <1>2, Zenon DEF ClientShape
<1> HIDE DEF c
<1>5. t.client = c /\ t.pcb = tcp.pcb /\ t.socks = tcp.socks /\ t.jobs = tcp.jobs
      /\ t.past = tcp.past
  BY <1>1, <1>3, Zenon DEF Shape
<1> HIDE DEF t
<1>6. SameData(tcp, t) BY <1>4, <1>5, SMTT(30) DEF SameData
<1>7. /\ Numbers(tcp) => Numbers(t)
      /\ ToSocks(tcp) => ToSocks(t)
      /\ ReceiveSide(tcp, JustRead(tcp)) => ReceiveSide(t, JustRead(t))
  BY <1>6, Same
<1>8. Ends(tcp) => Ends(t) BY <1>5 DEF Ends
<1>9. QED BY <1>4, <1>5, <1>7, <1>8, Zenon DEF Books, FromSocks, Delivered, t

\* client_murder is not an orderly end.
LEMMA MurderBooks == IInv /\ Books(tcp) /\ Murder => Books(tcp')
<1> SUFFICES ASSUME IInv, Books(tcp), Murder PROVE Books(tcp') OBVIOUS
<1>1. tcp \in Shape /\ Alive(tcp) /\ Numbers(tcp) BY Present DEF Murder, IInv, Books
<1> DEFINE p == [tcp.past EXCEPT !.broken = TRUE, !.failed = TRUE]
           s == [tcp EXCEPT !.past = p]
<1>2. tcp.past \in PastShape BY <1>1 DEF Shape
<1>3. p \in PastShape BY <1>2, Zenon DEF PastShape
<1>4. /\ p.broken /\ p.failed /\ p.closed = tcp.past.closed /\ p.taken = tcp.past.taken
      /\ p.wrote = tcp.past.wrote /\ p.got = tcp.past.got /\ p.acked = tcp.past.acked
  BY <1>2, Zenon DEF PastShape
<1>5. s = [tcp EXCEPT !.past.broken = TRUE, !.past.failed = TRUE] BY <1>1, Zenon DEF Shape
<1> HIDE DEF p
<1>6. s \in Shape /\ s.client = tcp.client /\ s.pcb = tcp.pcb /\ s.socks = tcp.socks
      /\ s.jobs = tcp.jobs /\ s.past = p
  BY <1>1, <1>3, Zenon DEF Shape
<1>7. tcp' = client_murder(s) BY <1>5 DEF Murder
<1> HIDE DEF s
<1>8. Numbers(s) BY <1>1, <1>4, <1>6, SMTT(30) DEF Numbers
<1>9. tcp.client.client_closed => Ends(tcp)
  BY <1>1, Zenon DEF Books, FromSocks, Alive, Open, Closed, Leaving, SocksSide
<1> DEFINE a == client_abort_pcb(NoCallbacks(s))
           x == [a EXCEPT !.client.client_closed = TRUE]
           t == IF s.client.client_closed THEN s ELSE x
           f == IF t.client.socks_closed THEN t ELSE BSocksClient_Free(t)
           v == [f EXCEPT !.client.socks_closed = TRUE]
<1>10. client_murder(s) = client_dealloc(v) BY DEF client_murder
<1>11. t \in Shape /\ Numbers(t) /\ t.past = s.past
       /\ (t.pcb.state = "ABORTED" \/ (s.client.client_closed /\ t.pcb = s.pcb))
  <2>1. CASE s.client.client_closed BY <1>6, <1>8, <2>1
  <2>2. CASE ~s.client.client_closed
    <3> DEFINE n == NoCallbacks(s)
    <3>1. n \in Shape /\ n.past = s.past /\ SameData(s, n) BY <1>6, NoCallbacksSame
    <3> HIDE DEF n
    <3>2. a \in Shape /\ a.past = n.past /\ a.pcb.state = "ABORTED" /\ SameData(n, a)
      BY <3>1, AbortPcbSame, SMTT(30) DEF n
    <3> HIDE DEF a
    <3>3. Numbers(a) BY <1>8, <3>1, <3>2, Same, SMTT(30)
    <3> DEFINE c == [a.client EXCEPT !.client_closed = TRUE]
    <3>4. a.client \in ClientShape BY <3>2 DEF Shape
    <3>5. c \in ClientShape /\ c.buf_used = a.client.buf_used
          /\ c.socks_recv_buf_used = a.client.socks_recv_buf_used
          /\ c.socks_recv_buf_sent = a.client.socks_recv_buf_sent
          /\ c.socks_recv_tcp_pending = a.client.socks_recv_tcp_pending
      BY <3>4, Zenon DEF ClientShape
    <3>6. x = [a EXCEPT !.client = c] BY <3>2, Zenon DEF Shape
    <3> HIDE DEF c
    <3>7. x \in Shape /\ x.client = c /\ x.pcb = a.pcb /\ x.socks = a.socks /\ x.past = a.past
      BY <3>2, <3>5, <3>6, Zenon DEF Shape
    <3> HIDE DEF x
    <3>8. Numbers(x) BY <3>3, <3>5, <3>7, SMTT(30) DEF Numbers
    <3>9. t = x BY <2>2
    <3>10. QED BY <3>1, <3>2, <3>7, <3>8, <3>9, SMTT(30)
  <2>3. QED BY <2>1, <2>2
<1> HIDE DEF t
<1>12. f \in Shape /\ f.client = t.client /\ f.pcb = t.pcb /\ f.past = t.past
       /\ (f.socks = t.socks \/ f.socks = NoSocks)
  BY <1>11, NoSocksShape, NoJobs, Zenon DEF BSocksClient_Free, Shape
<1> HIDE DEF f
<1>13. Numbers(f) BY <1>11, <1>12, Zeros, SizesAssumption DEF Numbers
<1> DEFINE c == [f.client EXCEPT !.socks_closed = TRUE]
<1>14. f.client \in ClientShape BY <1>12 DEF Shape
<1>15. c \in ClientShape /\ c.buf_used = f.client.buf_used
       /\ c.socks_recv_buf_used = f.client.socks_recv_buf_used
       /\ c.socks_recv_buf_sent = f.client.socks_recv_buf_sent
       /\ c.socks_recv_tcp_pending = f.client.socks_recv_tcp_pending
  BY <1>14, Zenon DEF ClientShape
<1>16. v = [f EXCEPT !.client = c] BY <1>12, Zenon DEF Shape
<1> HIDE DEF c
<1>17. v \in Shape /\ v.client = c /\ v.pcb = f.pcb /\ v.socks = f.socks /\ v.past = f.past
  BY <1>12, <1>15, <1>16, Zenon DEF Shape
<1> HIDE DEF v
<1>18. Numbers(v) BY <1>13, <1>15, <1>17 DEF Numbers
<1>19. Delivered(v) BY <1>4, <1>6, <1>9, <1>11, <1>12, <1>17, SMTT(30) DEF Delivered, Ends
<1>20. QED BY <1>7, <1>10, <1>17, <1>18, <1>19, DeallocBooks, SMTT(30)

\* The books of a connection balance in every reachable state: what was taken from
\* the application is written or buffered, what was read from SOCKS is confirmed,
\* queued or buffered, and each way is moving or waits for the other side.
THEOREM BooksBalance == Spec => [](IInv /\ Books(tcp))
<1>1. Init => Books(tcp) BY InitBooks
<1>2. IInv /\ Books(tcp) /\ [Next]_vars => Books(tcp')
  <2> SUFFICES ASSUME IInv, Books(tcp), [Next]_vars PROVE Books(tcp') OBVIOUS
  <2>1. CASE Next
    BY <2>1, RunJobBooks, FdBooks, AcceptBooks, AppBooks, ReturnBooks, MurderBooks DEF Next
  <2>2. CASE UNCHANGED vars BY <2>2 DEF vars
  <2>3. QED BY <2>1, <2>2
<1> DEFINE B == Books(tcp)
<1>3. Init => B BY <1>1
<1>4. IInv /\ B /\ [Next]_vars => B' BY <1>2
<1>5. Spec => []IInv BY Inductive
<1> HIDE DEF B
<1>6. Spec => [](IInv /\ B) BY <1>3, <1>4, <1>5, PTL DEF Spec
<1>7. QED BY <1>6 DEF B

\* Balanced books end in order.
LEMMA InvEndsInOrder == Books(tcp) => EndsInOrder
BY SMTT(30) DEF Books, Delivered, Ends, EndsInOrder

\* Balanced books are in motion.
LEMMA InvBothWaysMove == IInv /\ Books(tcp) => BothWaysMove
<1> SUFFICES ASSUME IInv, Books(tcp) PROVE BothWaysMove OBVIOUS
<1>1. tcp \in Shape /\ Numbers(tcp) BY SMTT(30) DEF IInv, Books
<1>2. TypeOK
  <2>1. tcp.client \in Clients BY <1>1, Zenon DEF Shape, ClientShape, Clients, Numbers
  <2>2. tcp.pcb \in Pcbs BY <1>1, SMTT(30) DEF Shape, PcbShape, Pcbs, Numbers
  <2>3. tcp.socks \in Sockss BY <1>1 DEF Shape, SocksShape, Sockss, States, Numbers
  <2>4. tcp.past \in Pasts BY <1>1 DEF Shape, PastShape, Pasts, Numbers
  <2>5. QED BY <1>1, <2>1, <2>2, <2>3, <2>4, Zenon DEF Shape, TypeOK
<1> DEFINE c == tcp.client
<1>3. ASSUME Idle, c.life = "alive", c.socks_up
      PROVE  /\ ~c.socks_closed /\ c.buf_used > 0 => tcp.socks.send = "BUSY"
             /\ ~c.socks_closed /\ c.buf_used = 0 => tcp.socks.send = "READY"
             /\ ~c.client_closed =>
                  \/ /\ c.socks_recv_buf_used > 0 /\ c.socks_recv_waiting
                     /\ c.socks_recv_buf_sent < c.socks_recv_buf_used
                     /\ c.socks_recv_tcp_pending > 0
                  \/ /\ c.socks_recv_buf_used = -1
                     /\ IF c.socks_closed THEN c.socks_recv_tcp_pending > 0
                        ELSE tcp.socks.recv = "BUSY"
  <2>1. JustSent(tcp) = 0 /\ JustRead(tcp) = 0
    BY <1>3 DEF Idle, JustSent, JustRead, IsSet, BSmallPending_IsSet
  <2>2. ASSUME ~c.socks_closed
        PROVE  /\ c.buf_used > 0 => tcp.socks.send = "BUSY"
               /\ c.buf_used = 0 => tcp.socks.send = "READY"
    <3>1. SendSide(tcp, 0) BY <1>3, <2>1, <2>2, SMTT(30) DEF Books, ToSocks
    <3>2. tcp.socks.send \in {"READY", "BUSY"} BY <1>1 DEF Shape, SocksShape
    <3>3. QED BY <1>1, <1>3, <3>1, <3>2, SMTT(30) DEF SendSide, Numbers
  <2>3. ASSUME ~c.client_closed
        PROVE  \/ /\ c.socks_recv_buf_used > 0 /\ c.socks_recv_waiting
                  /\ c.socks_recv_buf_sent < c.socks_recv_buf_used
                  /\ c.socks_recv_tcp_pending > 0
               \/ /\ c.socks_recv_buf_used = -1
                  /\ IF c.socks_closed THEN c.socks_recv_tcp_pending > 0
                     ELSE tcp.socks.recv = "BUSY"
    <3>1. ReceiveSide(tcp, 0) BY <1>3, <2>1, <2>3, Zenon DEF Books, FromSocks
    <3>2. QED BY <1>1, <1>3, <3>1, SMTT(30) DEF ReceiveSide, Numbers
  <2>4. QED BY <2>2, <2>3, SMTT(30)
<1>4. QED BY <1>2, <1>3, SMTT(30) DEF BothWaysMove

\* Whatever the sizes of the buffers and however much data flows, nothing is lost
\* in an orderly end (EndsInOrder).
THEOREM EndsInOrderAlways == Spec => []EndsInOrder
BY BooksBalance, InvEndsInOrder, PTL

\* Neither direction of a connection is ever forgotten, and all its counters stay
\* within their buffers (BothWaysMove).
THEOREM BothWaysAlwaysMove == Spec => []BothWaysMove
BY BooksBalance, InvBothWaysMove, PTL
=============================================================================
