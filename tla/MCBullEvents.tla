---------------------------- MODULE MCBullEvents ----------------------------
(* Two processes, one job id that both requests ask for, from the same or   *)
(* different processes, one of them with a timeout; two attempts per job and *)
(* one stop or crash.                                                        *)
EXTENDS BullEvents
=============================================================================
