----------------------------- MODULE WsServer -----------------------------
(***************************************************************************)
(* The server's side of a WebSocket: upgrade and socket callbacks of       *)
(* core/src/application.ts, SocketRoutingCoordinator and SocketPipeline,   *)
(* SocketCoordinator and the in-process provider.  Four tables and Bun's   *)
(* own subscriptions say which socket is in which topic.  Connection       *)
(* guards and routed handlers are asynchronous: between their start and    *)
(* their end the socket may close and other messages may come.             *)
(***************************************************************************)
EXTENDS WsLink, SequencesExt

CONSTANT Topics  \* what sockets subscribe to: rooms and "__broadcast__"

VARIABLES setup,     \* socket routers registered? do they route room messages?
          server,    \* per socket: its guards, its state, its topics, its handlers
          topicSubscriptions,  \* SocketCoordinator: topic -> sockets
          provider,  \* InProcWsProvider: localSubscriptions, socketTopics, connectedSockets
          mishandled \* history: sockets with a room message refused, or two in handlers at a time

serverVars == <<setup, server, topicSubscriptions, provider, mishandled>>

Broadcast == "__broadcast__"

NewSocket == [connected |-> FALSE, guards |-> "none", state |-> FALSE,
              topics |-> {}, native |-> {}, handlers |-> {}]

ServerInit ==
  /\ setup \in [routers : BOOLEAN, roomsRouted : BOOLEAN]
  /\ setup.roomsRouted => setup.routers
  /\ server = [s \in Sockets |-> NewSocket]
  /\ topicSubscriptions = [t \in Topics |-> {}]
  /\ provider = [localSubscriptions |-> [t \in Topics |-> {}],
                 socketTopics |-> [s \in Sockets |-> {}], connectedSockets |-> {}]
  /\ mishandled = {}

Books == [server |-> server, subscriptions |-> topicSubscriptions, provider |-> provider]

\* InProcWsProvider.subscribe, unsubscribe, disconnect.
ProviderSubscribe(p, s, t) ==
  [localSubscriptions |-> [p.localSubscriptions EXCEPT ![t] = @ \cup {s}],
   socketTopics |-> [p.socketTopics EXCEPT ![s] = @ \cup {t}],
   connectedSockets |-> p.connectedSockets \cup {s}]

ProviderUnsubscribe(p, s, t) ==
  LET left == p.socketTopics[s] \ {t} IN
  [localSubscriptions |-> [p.localSubscriptions EXCEPT ![t] = @ \ {s}],
   socketTopics |-> [p.socketTopics EXCEPT ![s] = left],
   connectedSockets |-> IF p.socketTopics[s] # {} /\ left = {}
                        THEN p.connectedSockets \ {s} ELSE p.connectedSockets]

\* SocketCoordinator.addConnection: a socket it knows is left as it is.
AddConnection(b, s) == [b EXCEPT !.server[s].connected = TRUE]

\* SocketCoordinator.subscribeToTopic and unsubscribeFromTopic: only of sockets it knows.
WithTopic(socket, t) == [socket EXCEPT !.topics = @ \cup {t}, !.native = @ \cup {t}]
WithoutTopic(socket, t) == [socket EXCEPT !.topics = @ \ {t}, !.native = @ \ {t}]

SubscribeToTopic(b, s, t) ==
  IF ~b.server[s].connected \/ s \in b.subscriptions[t] THEN b
  ELSE [server |-> [b.server EXCEPT ![s] = WithTopic(@, t)],
        subscriptions |-> [b.subscriptions EXCEPT ![t] = @ \cup {s}],
        provider |-> ProviderSubscribe(b.provider, s, t)]

UnsubscribeFromTopic(b, s, t) ==
  IF ~b.server[s].connected THEN b
  ELSE [server |-> [b.server EXCEPT ![s] = WithoutTopic(@, t)],
        subscriptions |-> [b.subscriptions EXCEPT ![t] = @ \ {s}],
        provider |-> ProviderUnsubscribe(b.provider, s, t)]

\* removeConnection: every topic of the socket, then the socket.  Bun drops its
\* own subscriptions of a socket that closed.
\* Mutant: the socket is forgotten first, and its topics find nobody.
RemoveConnectionFirst(b, s) ==
  [b EXCEPT !.server[s] = [@ EXCEPT !.connected = FALSE, !.native = {}]]

RemoveConnection(b, s) ==
  LET left == FoldSet(LAMBDA t, c : UnsubscribeFromTopic(c, s, t), b,
                      b.server[s].topics)
  IN [left EXCEPT !.server[s] = [@ EXCEPT !.connected = FALSE, !.native = {}]]

SetBooks(b) ==
  /\ server' = b.server
  /\ topicSubscriptions' = b.subscriptions
  /\ provider' = b.provider

-----------------------------------------------------------------------------
\* handleWebSocketUpgrade accepts, and open runs: the coordinator tracks the
\* socket; without routers nothing has to be waited for.
Open(s) ==
  /\ link[s].client \in {"connecting", "closing"} /\ link[s].alive /\ link[s].server = "none"
  /\ link' = [link EXCEPT ![s].server = "open"]
  /\ LET known == AddConnection(Books, s)
     IN SetBooks(IF setup.routers THEN [known EXCEPT !.server[s].guards = "running"]
                 ELSE SubscribeToTopic(known, s, Broadcast))
  /\ UNCHANGED <<setup, mishandled>>

\* The connection guards pass: the state of the socket is kept, even if it has
\* closed meanwhile, and it hears broadcasts.
GuardsPass(s) ==
  /\ server[s].guards = "running"
  /\ SetBooks(SubscribeToTopic([Books EXCEPT !.server[s] = [@ EXCEPT !.guards = "passed",
                                                                     !.state = TRUE]],
                               s, Broadcast))
  /\ UNCHANGED <<link, setup, mishandled>>

\* A message: a type with a route runs its guards and its handler, once the
\* socket is initialized; others go to the application's handler, which joins
\* and leaves rooms through the coordinator.
IsRouted(m) == setup.routers /\ (m.type = "app" \/ setup.roomsRouted)

\* What a handler on a wrapped socket does to the books: subscribe and unsubscribe go
\* through the coordinator.
Wrapped(s, call, topic) ==
  IF call = "subscribe" THEN SubscribeToTopic(Books, s, topic)
  ELSE UnsubscribeFromTopic(Books, s, topic)

\* The application's handler, a MessageRegistry with the documented handlers of
\* JoinRoom and LeaveRoom.
Handled(s, m) ==
  CASE m.type = "join" -> Wrapped(s, "subscribe", m.room)
    [] m.type = "leave" -> Wrapped(s, "unsubscribe", m.room)
    [] m.type = "app" -> Books

\* A message has come.
Received(s, m) ==
  /\ link[s].server = "open" /\ link[s].alive /\ link[s].up # <<>>
  /\ m = Head(link[s].up)
  /\ link' = [link EXCEPT ![s].up = Tail(@)]
  /\ UNCHANGED setup

\* Before its state is kept a socket is answered "Connection not initialized".
MessageRefused(s, m) ==
  /\ IsRouted(m) /\ ~server[s].state
  /\ mishandled' = IF m.type = "app" THEN mishandled ELSE mishandled \cup {s}
  /\ UNCHANGED <<server, topicSubscriptions, provider>>

MessageRouted(s, m) ==
  /\ IsRouted(m) /\ server[s].state
  /\ server' = [server EXCEPT ![s].handlers = @ \cup {m}]
  /\ mishandled' = IF m.type # "app" /\ \E h \in server[s].handlers : h.type # "app"
                   THEN mishandled \cup {s} ELSE mishandled
  /\ UNCHANGED <<topicSubscriptions, provider>>

MessageUnrouted(s, m) ==
  /\ ~IsRouted(m)
  /\ SetBooks(Handled(s, m))
  /\ UNCHANGED mishandled

Receive(s) ==
  \E m \in Range(link[s].up) :
    /\ Received(s, m)
    /\ MessageRefused(s, m) \/ MessageRouted(s, m) \/ MessageUnrouted(s, m)

\* A routed handler has the socket itself, not the wrapped one: what it subscribes
\* to only Bun knows, and a closed socket subscribes to nothing.
NativeAfter(s, m) ==
  IF link[s].server # "open" \/ m.type = "app" THEN server[s].native
  ELSE IF m.type = "join" THEN server[s].native \cup {m.room}
  ELSE server[s].native \ {m.room}

\* A routed handler ends.
HandlerEnds(s) ==
  \E m \in server[s].handlers :
    /\ server' = [server EXCEPT ![s].handlers = @ \ {m}, ![s].native = NativeAfter(s, m)]
    /\ UNCHANGED <<link, setup, topicSubscriptions, provider, mishandled>>

\* SocketRoutingCoordinator.handleDisconnection
HandleDisconnection(b, s) == [b EXCEPT !.server[s].state = FALSE]

\* The close callback.
ServerClose(s) ==
  /\ ServerCloseIsDue(s)
  /\ link' = [link EXCEPT ![s] = [@ EXCEPT !.server = "closed", !.up = <<>>]]
  /\ SetBooks(RemoveConnection(HandleDisconnection(Books, s), s))
  /\ UNCHANGED <<setup, mishandled>>

\* A guard rejects or throws: 1008, and the client is not to come back.
GuardsReject(s) ==
  /\ server[s].guards = "running"
  /\ server' = [server EXCEPT ![s].guards = "rejected"]
  /\ link' = IF link[s].server = "open"
             THEN [link EXCEPT ![s] = [@ EXCEPT !.server = "closing", !.rejected = TRUE]]
             ELSE link
  /\ UNCHANGED <<setup, topicSubscriptions, provider, mishandled>>

\* handleWebSocketUpgrade refuses: the handler returns null, throws or takes too long.
Refuse(s) ==
  /\ link[s].client \in {"connecting", "closing"} /\ link[s].server = "none"
  /\ link' = [link EXCEPT ![s].server = "closed"]
  /\ UNCHANGED serverVars

\* The server closes the socket for reasons of its own.
Hangup(s) ==
  /\ link[s].server = "open"
  /\ link' = [link EXCEPT ![s].server = "closing"]
  /\ UNCHANGED serverVars

ServerStep(s) == Open(s) \/ GuardsPass(s) \/ Receive(s) \/ HandlerEnds(s) \/ ServerClose(s)
ServerFault(s) == GuardsReject(s) \/ Refuse(s) \/ Hangup(s)

-----------------------------------------------------------------------------
\* The coordinator, the provider and the sockets agree on who is in which topic,
\* and nothing is kept for a socket that closed, but for the connection state of
\* one whose guards ended after it had closed.
BooksAgree ==
  /\ \A t \in Topics :
       /\ topicSubscriptions[t] = {s \in Sockets : t \in server[s].topics}
       /\ topicSubscriptions[t] = provider.localSubscriptions[t]
  /\ \A s \in Sockets :
       /\ server[s].topics = provider.socketTopics[s]
       /\ s \in provider.connectedSockets <=> server[s].topics # {}
       /\ ~setup.roomsRouted => server[s].topics = server[s].native
       /\ link[s].server = "closed" =>
            /\ ~server[s].connected /\ server[s].topics = {} /\ server[s].native = {}
            /\ server[s].state => server[s].guards = "passed"

\* A socket hears broadcasts, and its routed messages are handled, only after the
\* connection guards have let it in ("Subscribe to broadcast AFTER guards pass",
\* application.ts).
GuardedFirst ==
  \A s \in Sockets :
    setup.routers /\ server[s].guards # "passed" =>
      /\ s \notin topicSubscriptions[Broadcast] /\ Broadcast \notin server[s].native
      /\ server[s].handlers = {} /\ ~server[s].state

\* The server's books are right, and nobody is in them too early.
ServerIsSound == BooksAgree /\ GuardedFirst
=============================================================================
