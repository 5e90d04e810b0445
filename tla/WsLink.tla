------------------------------ MODULE WsLink ------------------------------
(***************************************************************************)
(* WebSocket connections between one client and one server: what the       *)
(* browser and Bun do with them, as packages/websocket-client and          *)
(* packages/core use them.  A socket has a state at each end, and carries  *)
(* messages up in order.  Both ends learn of a close by an event of their  *)
(* own, some time after it.                                                *)
(***************************************************************************)
EXTENDS Naturals, Sequences

CONSTANT MaxSockets  \* bound: sockets a client may open

ASSUME SocketsAssumption == MaxSockets \in Nat \ {0}

VARIABLE link  \* per socket: readyState of the client, state at the server, ...

Sockets == 1..MaxSockets
NoSocket == 0

Unused == [client |-> "unused", server |-> "none", alive |-> TRUE,
           rejected |-> FALSE, up |-> <<>>]

\* The handlers of a socket are attached and its close event has not come yet.
Live(s) == link[s].client \in {"connecting", "open", "closing"}

Used == {s \in Sockets : link[s].client # "unused"}

\* What new WebSocket(url) makes.
Opening(l, s, online) == [l EXCEPT ![s] = [@ EXCEPT !.client = "connecting",
                                                    !.alive = online]]

\* ws.close(): the close event follows later.
Closing(l, s) ==
  IF s # NoSocket /\ l[s].client \in {"connecting", "open"}
  THEN [l EXCEPT ![s].client = "closing"] ELSE l

\* ws.send() of an open socket; a closing one drops what it is given.
Sent(l, s, messages) ==
  IF s # NoSocket /\ l[s].client = "open"
  THEN [l EXCEPT ![s].up = @ \o messages] ELSE l

\* The network of the client is gone: nothing that was open carries anything.
Severed(l) == [s \in Sockets |-> IF l[s].client \in {"connecting", "open", "closing"}
                                 THEN [l[s] EXCEPT !.alive = FALSE] ELSE l[s]]

\* The client may be told that a socket is closed: it asked for it, the server
\* closed or refused it, or it could not be opened.
CloseIsDue(s) ==
  \/ link[s].client = "closing"
  \/ link[s].client \in {"connecting", "open"} /\ link[s].server = "closed"
  \/ link[s].client = "connecting" /\ ~link[s].alive

\* The server may be told: the client has gone, and what it sent is consumed or
\* lost with the connection.
ServerCloseIsDue(s) ==
  \/ link[s].server = "closing"
  \/ /\ link[s].server = "open"
     /\ \/ ~link[s].alive
        \/ link[s].client \in {"closing", "closed"} /\ link[s].up = <<>>
=============================================================================
