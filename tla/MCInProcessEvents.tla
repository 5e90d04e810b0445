------------------------- MODULE MCInProcessEvents -------------------------
(* Two emissions over two keys, two handlers, a delay as long as the TTL,   *)
(* and one emission whose callbacks throw.                                 *)
EXTENDS InProcessEvents
=============================================================================
