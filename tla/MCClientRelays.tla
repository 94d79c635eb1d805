------------------------------ MODULE MCClientRelays ------------------------------
(***************************************************************************)
(* One client with both transports, with and without an address to bind.   *)
(***************************************************************************)
EXTENDS ClientRelays

MCOptions ==
    [ssl : {FALSE}, udp : BOOLEAN, otp : {FALSE}, bind_addrs : {<<>>, <<1>>},
     scopes : {{1}}, may_fail : {TRUE}]
=============================================================================
