---------------------------- MODULE WsSession ----------------------------
(***************************************************************************)
(* A reconnecting client and its server: WsClient and WsServer over one    *)
(* link.  What the pair owes the application is that a client that wants   *)
(* to be connected is, and that the server then holds it in its rooms.     *)
(***************************************************************************)
EXTENDS WsClient, WsServer

\* No room has the name of the topic that every socket is subscribed to.
ASSUME TopicsAssumption == Rooms \subseteq Topics /\ Broadcast \in Topics \ Rooms

sessionVars == <<link, clientVars, serverVars>>

SessionInit ==
  /\ link = [s \in Sockets |-> Unused]
  /\ ClientInit
  /\ ServerInit

SessionNext ==
  \/ ClientNext /\ UNCHANGED serverVars
  \/ \E s \in Sockets : ServerStep(s) /\ UNCHANGED clientVars
  \/ \E s \in Sockets : ServerFault(s) /\ Spend /\ UNCHANGED <<client, online, overtaken>>

\* What the browser does of its own accord, the heartbeat apart.
ClientStep ==
  \/ ReconnectTimer
  \/ ConnectionTimeout /\ Unanswered
  \/ \E s \in Sockets : OnOpen(s) \/ OnClose(s)

HeartbeatStep == SendPing \/ (HandlePongTimeout /\ Unanswered)

\* Timers fire, sockets report, the server's callbacks run and its guards and
\* handlers end.  Nothing is assumed of calls, browser events and faults.
SessionFairness ==
  /\ WF_sessionVars(UNCHANGED serverVars /\ HeartbeatStep)
  /\ WF_sessionVars(\/ UNCHANGED serverVars /\ ClientStep
                    \/ UNCHANGED clientVars /\ \E s \in Sockets : ServerStep(s))

SessionSpec == SessionInit /\ [][SessionNext]_sessionVars /\ SessionFairness

-----------------------------------------------------------------------------
\* The client says "connected" only of a socket it can send on: ws is the socket
\* that opened, the heartbeat watches it and nothing is left in the send buffer,
\* unless connect() overtook the close event of an older socket or a scheduled
\* reconnection.
ConnectedIsUsable ==
  ~overtaken /\ client.state = "connected" =>
    /\ client.ws # NoSocket
    /\ link[client.ws].client \in {"open", "closing"}
    /\ client.heartbeat # "off"
    /\ client.sendBuffer = 0
    /\ \A s \in Sockets \ {client.ws} : ~Live(s)

\* After disconnect() no socket is opened but by connect(): no timer and no
\* browser event brings the connection back.
DisconnectIsFinal ==
  [][client.skipReconnect /\ Used' # Used => Connect]_sessionVars

Connected ==
  /\ client.state = "connected" /\ client.ws # NoSocket
  /\ link[client.ws].client = "open" /\ link[client.ws].server = "open"

\* The client is not meant to be connected, or may not try, or the bound on sockets
\* is reached.
Idle ==
  \/ client.skipReconnect \/ client.pageHidden \/ ~online \/ ~client.listeners
  \/ client.attempts >= MaxReconnectAttempts /\ client.state = "disconnected"
  \/ \E s \in Used : link[s].rejected
  \/ Used = {}
  \/ Used = Sockets /\ ~Live(MaxSockets)

InRooms == Connected /\ client.rooms \subseteq server[client.ws].native

\* A client that is to be connected comes back, whatever broke, and is then in its
\* rooms at the server, unless connect() overtook something (see overtaken) or a route has
\* the room messages, and refused one while guards ran or had two in its handlers.
RoomsJoined == []<>(Idle \/ overtaken \/ client.ws \in mishandled \/ InRooms)
=============================================================================
