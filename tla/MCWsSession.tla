--------------------------- MODULE MCWsSession ---------------------------
(* Two sockets, one room and four events that the environment decides on. *)
EXTENDS WsSession

\* The room, and the topic every socket is subscribed to.
MCTopics == Rooms \cup {Broadcast}
=============================================================================
