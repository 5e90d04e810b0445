------------------------------ MODULE MCRedisWs ------------------------------
(***************************************************************************)
(* Two topics and two sockets: one socket may leave a topic while the      *)
(* other joins, attempts run out, and faults fall between any two steps.   *)
(***************************************************************************)
EXTENDS RedisWs
=============================================================================
