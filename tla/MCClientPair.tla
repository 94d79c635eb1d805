---------------------------- MODULE MCClientPair ----------------------------
(***************************************************************************)
(* Configurations of two clients.  An address is 0 when it has no external *)
(* addresses; a client can use the addresses in its scopes.                *)
(***************************************************************************)
EXTENDS ClientPair

Pair(ssl, udp, otp, fail, addrs, scopes) ==
    [e \in Ends |-> [ssl |-> ssl, udp |-> udp, otp |-> otp, may_fail |-> fail,
                     bind_addrs |-> addrs[e], scopes |-> scopes[e]]]

\* UDP with one-time passwords, when the slave can use the master's only address.
UdpPairs == {Pair(FALSE, TRUE, TRUE, FALSE, <<<<1>>, <<1>>>>, <<{1}, {1}>>)}

\* TCP with failing system calls and several addresses, usable or not.
TcpPairs == {Pair(ssl, FALSE, FALSE, TRUE, <<<<0, 1>>, <<1, 2>>>>, <<s, t>>) :
                ssl \in BOOLEAN, s \in {{}, {1}, {2}}, t \in {{}, {1}}}

MCConfigs == UdpPairs \cup TcpPairs
=============================================================================
