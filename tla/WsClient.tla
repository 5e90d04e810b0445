----------------------------- MODULE WsClient -----------------------------
(***************************************************************************)
(* SocketClient of packages/websocket-client/src/client.ts: a client that  *)
(* reconnects, with its timers, its rooms, its send buffer and the events  *)
(* of the browser.  A callback of a socket, a timer, a browser event or a  *)
(* call of the application is one action; the events of a socket act on    *)
(* whatever the client holds when they come, as in the code.               *)
(***************************************************************************)
EXTENDS WsLink, SequencesExt

CONSTANTS Rooms,                 \* rooms the application joins
          MaxReconnectAttempts,  \* option maxReconnectAttempts
          Budget                 \* bound: calls, browser events and faults

ASSUME ClientAssumption == MaxReconnectAttempts \in Nat /\ Budget \in Nat

VARIABLES client,   \* the fields of SocketClient
          online,   \* navigator.onLine
          budget,   \* calls, browser events and faults still to come
          overtaken \* history: connect() ran before the close event of an older
                    \* socket, or while a reconnection was scheduled

clientVars == <<client, online, budget, overtaken>>

Join(r) == [type |-> "join", room |-> r]
Leave(r) == [type |-> "leave", room |-> r]
App == [type |-> "app", room |-> "none"]
Joins(rooms) == LET list == SetToSeq(rooms) IN [i \in DOMAIN list |-> Join(list[i])]

ClientInit ==
  /\ client = [state |-> "disconnected", ws |-> NoSocket, rooms |-> {},
               skipReconnect |-> FALSE, reconnecting |-> FALSE, reconnectTimer |-> FALSE,
               connectionTimer |-> FALSE, backoffResetTimer |-> FALSE, attempts |-> 0,
               pageHidden |-> FALSE, deviceWentOffline |-> FALSE, listeners |-> TRUE,
               heartbeat |-> "off", sendBuffer |-> 0]
  /\ online = TRUE
  /\ budget = Budget
  /\ overtaken = FALSE

\* Calls, browser events and faults are bounded, so that the rest can settle.
Spend == budget > 0 /\ budget' = budget - 1

-----------------------------------------------------------------------------
\* connect(), called by the application, a timer or a browser event, with c for
\* what the caller has done to the fields.
Connecting(c) ==
  IF c.state \in {"connected", "connecting"}
  THEN client' = c /\ UNCHANGED <<link, overtaken>>
  ELSE \E s \in Sockets \ Used :
         /\ \A t \in Sockets \ Used : s <= t
         /\ client' = [c EXCEPT !.skipReconnect = FALSE, !.deviceWentOffline = FALSE,
                                !.state = "connecting", !.ws = s, !.connectionTimer = TRUE]
         /\ link' = Opening(link, s, online')
         /\ overtaken' = (overtaken \/ c.reconnectTimer \/ \E t \in Sockets : Live(t))

Connect == Spend /\ UNCHANGED online /\ Connecting(client)

\* disconnect(): everything is cancelled; the close event of ws comes later, to
\* handlers that are still attached.
Disconnected(c) ==
  [c EXCEPT !.skipReconnect = TRUE, !.reconnecting = FALSE, !.reconnectTimer = FALSE,
            !.backoffResetTimer = FALSE, !.connectionTimer = FALSE, !.heartbeat = "off",
            !.sendBuffer = 0, !.ws = NoSocket, !.state = "disconnected"]

Disconnect ==
  /\ Spend
  /\ client' = Disconnected(client)
  /\ link' = Closing(link, client.ws)
  /\ UNCHANGED <<online, overtaken>>

\* destroy(): and no browser event is heard any more.
Destroy ==
  /\ client.listeners
  /\ Spend
  /\ client' = [Disconnected(client) EXCEPT !.listeners = FALSE]
  /\ link' = Closing(link, client.ws)
  /\ UNCHANGED <<online, overtaken>>

\* maybeReconnect().
MaybeReconnect(c) ==
  IF c.skipReconnect \/ c.pageHidden \/ c.deviceWentOffline THEN c
  ELSE IF ~online THEN [c EXCEPT !.deviceWentOffline = TRUE]
  ELSE IF c.attempts >= MaxReconnectAttempts \/ c.reconnecting THEN c
  ELSE [c EXCEPT !.reconnecting = TRUE, !.state = "reconnecting",
                 !.attempts = @ + 1, !.reconnectTimer = TRUE]

-----------------------------------------------------------------------------
\* rejoinRooms(), then flushSendBuffer(): what is emitted without a socket is
\* buffered and dropped by the flush that follows.
\* Mutant: rooms are not joined again.
OnOpenSendsNoRooms(c) == [i \in 1..c.sendBuffer |-> App]

OnOpenSends(c) == Joins(c.rooms) \o [i \in 1..c.sendBuffer |-> App]

\* Mutant: messages sent while the client was not connected stay in the buffer.
OnOpenUnflushed(s) ==
  /\ link[s].client = "connecting" /\ link[s].server = "open" /\ link[s].alive
  /\ client' = [client EXCEPT !.connectionTimer = FALSE, !.state = "connected",
                              !.reconnecting = FALSE, !.backoffResetTimer = TRUE,
                              !.heartbeat = "on"]
  /\ link' = Sent([link EXCEPT ![s].client = "open"], client.ws, Joins(client.rooms))
  /\ UNCHANGED <<online, budget, overtaken>>

\* onopen of a socket.
OnOpen(s) ==
  /\ link[s].client = "connecting" /\ link[s].server = "open" /\ link[s].alive
  /\ client' = [client EXCEPT !.connectionTimer = FALSE, !.state = "connected",
                              !.reconnecting = FALSE, !.backoffResetTimer = TRUE,
                              !.heartbeat = "on", !.sendBuffer = 0]
  /\ link' = Sent([link EXCEPT ![s].client = "open"], client.ws, OnOpenSends(client))
  /\ UNCHANGED <<online, budget, overtaken>>

\* onclose of a socket, the client's own or an older one.
OnClose(s) ==
  /\ CloseIsDue(s)
  /\ link' = [link EXCEPT ![s].client = "closed", ![s].up = IF link[s].alive THEN @ ELSE <<>>]
  /\ LET closed == [client EXCEPT !.connectionTimer = FALSE, !.backoffResetTimer = FALSE,
                                  !.ws = NoSocket, !.heartbeat = "off",
                                  !.state = "disconnected"]
     IN client' = IF link[s].rejected THEN closed ELSE MaybeReconnect(closed)
  /\ UNCHANGED <<online, budget, overtaken>>

-----------------------------------------------------------------------------
\* The timers.  One that beats a live connection counts as a fault.
ReconnectTimer ==
  /\ client.reconnectTimer
  /\ UNCHANGED <<online, budget>>
  /\ LET c == [client EXCEPT !.reconnectTimer = FALSE, !.reconnecting = FALSE] IN
     IF c.skipReconnect \/ c.pageHidden \/ c.deviceWentOffline
     THEN client' = c /\ UNCHANGED <<link, overtaken>>
     ELSE Connecting(c)

Unanswered == client.ws # NoSocket => ~link[client.ws].alive

ConnectionTimeout ==
  /\ client.connectionTimer
  /\ IF Unanswered THEN UNCHANGED budget ELSE Spend
  /\ client' = [client EXCEPT !.connectionTimer = FALSE]
  /\ link' = IF client.state = "connecting" THEN Closing(link, client.ws) ELSE link
  /\ UNCHANGED <<online, overtaken>>

BackoffReset ==
  /\ client.backoffResetTimer
  /\ client' = [client EXCEPT !.backoffResetTimer = FALSE,
                              !.attempts = IF client.state = "connected" THEN 0 ELSE @]
  /\ UNCHANGED <<link, online, budget, overtaken>>

SendPing ==
  /\ client.heartbeat = "on" /\ client.state = "connected" /\ client.ws # NoSocket
  /\ client' = [client EXCEPT !.heartbeat = "waiting"]
  /\ UNCHANGED <<link, online, budget, overtaken>>

\* The pong of a server that is there: Bun's handler answers a ping at once.
HandlePong(s) ==
  /\ client.heartbeat = "waiting"
  /\ link[s].client = "open" /\ link[s].server = "open" /\ link[s].alive
  /\ client' = [client EXCEPT !.heartbeat = "on"]
  /\ UNCHANGED <<link, online, budget, overtaken>>

HandlePongTimeout ==
  /\ client.heartbeat = "waiting"
  /\ IF Unanswered THEN UNCHANGED budget ELSE Spend
  /\ client' = [client EXCEPT !.heartbeat = "on"]
  /\ link' = Closing(link, client.ws)
  /\ UNCHANGED <<online, overtaken>>

-----------------------------------------------------------------------------
\* The browser's events; without listeners the network and the page change all
\* the same.
Offline ==
  /\ online /\ Spend
  /\ online' = FALSE
  /\ LET heard == client.listeners
         open == client.state \in {"connected", "connecting"}
     IN /\ client' = IF heard THEN [client EXCEPT !.deviceWentOffline = TRUE] ELSE client
        /\ link' = Severed(IF heard /\ open THEN Closing(link, client.ws) ELSE link)
  /\ UNCHANGED overtaken

\* Mutant: an intentional disconnect() is not looked at.
OnlineAnyway ==
  /\ ~online
  /\ online' = TRUE
  /\ UNCHANGED budget
  /\ IF client.listeners /\ client.deviceWentOffline
        /\ client.state \in {"disconnected", "reconnecting"}
     THEN Connecting([client EXCEPT !.deviceWentOffline = FALSE, !.reconnectTimer = FALSE,
                                    !.reconnecting = FALSE])
     ELSE UNCHANGED <<client, link, overtaken>>

Online ==
  /\ ~online
  /\ online' = TRUE
  /\ UNCHANGED budget
  /\ IF client.listeners /\ ~client.skipReconnect /\ client.deviceWentOffline
     THEN LET c == [client EXCEPT !.deviceWentOffline = FALSE, !.reconnectTimer = FALSE] IN
          IF c.state \in {"disconnected", "reconnecting"}
          THEN Connecting([c EXCEPT !.reconnecting = FALSE])
          ELSE client' = c /\ UNCHANGED <<link, overtaken>>
     ELSE UNCHANGED <<client, link, overtaken>>

Hide ==
  /\ client.listeners /\ ~client.pageHidden /\ Spend
  /\ client' = [client EXCEPT !.pageHidden = TRUE]
  /\ UNCHANGED <<link, online, overtaken>>

Show ==
  /\ client.listeners /\ client.pageHidden
  /\ UNCHANGED <<online, budget>>
  /\ LET c == [client EXCEPT !.pageHidden = FALSE] IN
     IF ~c.skipReconnect /\ c.state \in {"disconnected", "reconnecting"}
     THEN Connecting([c EXCEPT !.reconnectTimer = FALSE, !.reconnecting = FALSE])
     ELSE client' = c /\ UNCHANGED <<link, overtaken>>

-----------------------------------------------------------------------------
\* send() and emit() with buffering, joinRoom(), leaveRoom(), clearRooms().
HasSocket == client.state = "connected" /\ client.ws # NoSocket

Send ==
  /\ Spend
  /\ IF HasSocket
     THEN link' = Sent(link, client.ws, <<App>>) /\ UNCHANGED client
     ELSE client' = [client EXCEPT !.sendBuffer = @ + 1] /\ UNCHANGED link
  /\ UNCHANGED <<online, overtaken>>

\* emit() of a room message once the client is connected.
RoomMessage(c, m) ==
  /\ client' = IF c.state = "connected" /\ c.ws = NoSocket
               THEN [c EXCEPT !.sendBuffer = @ + 1] ELSE c
  /\ link' = IF c.state = "connected" THEN Sent(link, c.ws, <<m>>) ELSE link
  /\ UNCHANGED <<online, overtaken>>

JoinRoom(r) ==
  /\ r \notin client.rooms /\ Spend
  /\ RoomMessage([client EXCEPT !.rooms = @ \cup {r}], Join(r))

LeaveRoom(r) ==
  /\ r \in client.rooms /\ Spend
  /\ RoomMessage([client EXCEPT !.rooms = @ \ {r}], Leave(r))

ClearRooms ==
  /\ client.rooms # {} /\ Spend
  /\ client' = [client EXCEPT !.rooms = {}]
  /\ UNCHANGED <<link, online, overtaken>>

\* A fault: the connection dies without a word to the client.
Break(s) ==
  /\ Live(s) /\ link[s].alive /\ Spend
  /\ link' = [link EXCEPT ![s].alive = FALSE]
  /\ UNCHANGED <<client, online, overtaken>>

ClientNext ==
  \/ Connect \/ Disconnect \/ Destroy \/ Send \/ ClearRooms
  \/ ReconnectTimer \/ ConnectionTimeout \/ BackoffReset
  \/ SendPing \/ HandlePongTimeout
  \/ Offline \/ Online \/ Hide \/ Show
  \/ \E s \in Sockets : OnOpen(s) \/ OnClose(s) \/ HandlePong(s) \/ Break(s)
  \/ \E r \in Rooms : JoinRoom(r) \/ LeaveRoom(r)
=============================================================================
