--------------------------- MODULE MCEventSystem ---------------------------
(* Two handlers and two messages, of which the second may be emitted by the *)
(* handler of the first; two slots, so that a message is handled again      *)
(* while an attempt that was given up still runs, and two attempts that     *)
(* wait leave no slot to the event they wait for; room for one mark in the  *)
(* tracker.                                                                 *)
EXTENDS EventSystem

=============================================================================
