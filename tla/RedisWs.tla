------------------------------- MODULE RedisWs -------------------------------
(***************************************************************************)
(* The topics of the Redis WebSocket provider                              *)
(* (packages/websocket-redis/src/redis-websocket-provider.ts) in one       *)
(* process: its sockets join and leave topics, and the provider keeps its  *)
(* subscriber connection subscribed to the channels of the topics that     *)
(* have sockets, with retries, reconnections, stop() and start().          *)
(*                                                                         *)
(* Redis and its client are external.  Commands are answered in the order  *)
(* in which they were sent; one may be rejected by its time limit although *)
(* Redis executes it later, and the ones that wait for a connection may be *)
(* rejected and dropped.  After a reconnection the client asks again for   *)
(* what Redis had granted and sends what was not answered.  Commands for   *)
(* two channels commute, so each topic has its own queue of them.  The     *)
(* execution of a command and its answer are one step: nothing in the      *)
(* process sees Redis in between.                                          *)
(***************************************************************************)
EXTENDS Integers, Sequences

CONSTANTS
  Topics,
  Sockets,
  MaxAttempts, \* SUBSCRIBE_MAX_RETRIES
  MaxFaults,   \* bound: connections lost and commands rejected
  MaxStops     \* bound: calls of stop()

ASSUME RedisWsAssumption ==
  /\ MaxAttempts \in Nat \ {0} /\ MaxFaults \in Nat /\ MaxStops \in Nat

VARIABLES
  topic,  \* per topic: its sockets, the provider's entries, its commands and Redis' view
  life,   \* "running", "leaving" and "closing" (in stop()) or "stopped"
  online, \* is the subscriber connection ready?
  faults,
  stops

redisVars == <<topic, life, online, faults, stops>>

\* sockets: localSubscriptions.  subscribed: redisSubscriptions.  subscribing, unsubscribing
\* and resubscribe: pendingSubscriptions, pendingUnsubscriptions, pendingResubscribe.
\* retries: the attempts that timers will make.  wire: commands without an answer.
\* heard: Redis sends what is published, now or once the client has reconnected.
\* gaveUp: the last round of attempts failed.  rejected: some command was rejected.
NoTopic == [sockets |-> {}, subscribed |-> FALSE, subscribing |-> FALSE,
            unsubscribing |-> FALSE, resubscribe |-> FALSE, retries |-> {}, wire |-> <<>>,
            heard |-> FALSE, gaveUp |-> FALSE, rejected |-> FALSE]

RedisInit ==
  /\ topic = [t \in Topics |-> NoTopic]
  /\ life = "running"
  /\ online = FALSE
  /\ faults = 0
  /\ stops = 0

-----------------------------------------------------------------------------
(* What the provider does for one topic x. *)

Send(x, cmd, attempt, waiting) ==
  [x EXCEPT !.wire = Append(@, [cmd |-> cmd, attempt |-> attempt, waiting |-> waiting])]

SubscribeWithRetry(x, attempt) ==
  IF life = "running" THEN Send(x, "subscribe", attempt, TRUE)
                      ELSE [x EXCEPT !.subscribing = FALSE]

StartSubscribing(x) ==
  SubscribeWithRetry([x EXCEPT !.subscribing = TRUE, !.gaveUp = FALSE], 1)

UnsubscribeTracked(x) ==
  IF life = "running" THEN Send([x EXCEPT !.unsubscribing = TRUE], "unsubscribe", 0, TRUE)
                      ELSE x

\* Mutant: it is not remembered that a socket joined while the channel is given up.
JoinedForgetfully(x, s) ==
  LET y == [x EXCEPT !.sockets = @ \union {s}] IN
  IF x.sockets # {} \/ x.unsubscribing \/ x.subscribed \/ x.subscribing THEN y
  ELSE StartSubscribing(y)

\* subscribe(): only the first socket of a topic asks for its channel.
Joined(x, s) ==
  LET y == [x EXCEPT !.sockets = @ \union {s}] IN
  IF x.sockets # {} THEN y
  ELSE IF x.unsubscribing THEN [y EXCEPT !.resubscribe = TRUE]
  ELSE IF x.subscribed \/ x.subscribing THEN y
  ELSE StartSubscribing(y)

\* unsubscribe(), disconnect(): the last socket gives the channel up.
Left(x, s) ==
  LET y == [x EXCEPT !.sockets = @ \ {s}] IN
  IF y.sockets = {} /\ x.subscribed
  THEN UnsubscribeTracked([y EXCEPT !.subscribed = FALSE])
  ELSE y

\* Mutant: the sockets that joined meanwhile are forgotten.
UnsubscribedOnly(x) == [x EXCEPT !.unsubscribing = FALSE, !.resubscribe = FALSE]

\* The finally of unsubscribeTracked().
Unsubscribed(x) ==
  LET y == [x EXCEPT !.unsubscribing = FALSE, !.resubscribe = FALSE] IN
  IF x.resubscribe /\ x.sockets # {} THEN StartSubscribing(y) ELSE y

\* Mutant: nobody looks whether the sockets are still there.
SubscribedBlindly(x) == [x EXCEPT !.subscribing = FALSE, !.subscribed = TRUE]

\* The then of subscribeWithRetry().
Subscribed(x) ==
  LET y == [x EXCEPT !.subscribing = FALSE] IN
  IF x.sockets = {} THEN UnsubscribeTracked(y) ELSE [y EXCEPT !.subscribed = TRUE]

\* The catch of subscribeWithRetry().
NotSubscribed(x, attempt) ==
  IF attempt < MaxAttempts
  THEN [x EXCEPT !.retries = @ \union {attempt + 1}, !.rejected = TRUE]
  ELSE [x EXCEPT !.subscribing = FALSE, !.gaveUp = TRUE, !.rejected = TRUE]

\* The command c was answered, or rejected.  "resubscribe" is the subscription of
\* resubscribeAll(), "leave" the unsubscription of stop().
Answered(x, c) ==
  IF ~c.waiting THEN x
  ELSE CASE c.cmd = "subscribe"   -> Subscribed(x)
         [] c.cmd = "unsubscribe" -> Unsubscribed(x)
         [] OTHER                 -> x

Refused(x, c) ==
  IF ~c.waiting THEN x
  ELSE CASE c.cmd = "subscribe"   -> NotSubscribed(x, c.attempt)
         [] c.cmd = "unsubscribe" -> Unsubscribed([x EXCEPT !.rejected = TRUE])
         [] OTHER                 -> [x EXCEPT !.rejected = TRUE]


-----------------------------------------------------------------------------
(* The sockets. *)

Change(t, x) == topic' = [topic EXCEPT ![t] = x]

\* There are sockets only while the application has the provider started.
Join(s, t) ==
  /\ life # "stopped" /\ s \notin topic[t].sockets
  /\ Change(t, Joined(topic[t], s))
  /\ UNCHANGED <<life, online, faults, stops>>

Leave(s, t) ==
  /\ s \in topic[t].sockets
  /\ Change(t, Left(topic[t], s))
  /\ UNCHANGED <<life, online, faults, stops>>

Disconnect(s) ==
  /\ \E t \in Topics : s \in topic[t].sockets
  /\ topic' = [t \in Topics |-> IF s \in topic[t].sockets THEN Left(topic[t], s) ELSE topic[t]]
  /\ UNCHANGED <<life, online, faults, stops>>

-----------------------------------------------------------------------------
(* The subscriber connection and the timers. *)

Subscribes(c) == c.cmd \in {"subscribe", "resubscribe"}

\* Redis executes the next command.
Execute(t) ==
  LET x == topic[t] IN
  /\ online /\ x.wire # <<>>
  /\ Change(t, Answered([x EXCEPT !.wire = Tail(@), !.heard = Subscribes(Head(x.wire))],
                        Head(x.wire)))
  /\ UNCHANGED <<life, online, faults, stops>>

\* commandTimeout: the limits run out in the order in which the commands were sent.
TimeLimit(t) ==
  LET x == topic[t] IN
  /\ faults < MaxFaults
  /\ faults' = faults + 1
  /\ \E i \in DOMAIN x.wire :
       /\ x.wire[i].waiting /\ \A j \in 1 .. i - 1 : ~x.wire[j].waiting
       /\ Change(t, Refused([x EXCEPT !.wire[i].waiting = FALSE], x.wire[i]))
  /\ UNCHANGED <<life, online, stops>>

\* maxRetriesPerRequest: what waits for the connection is rejected and never sent.
Drop(t) ==
  LET x == topic[t] IN
  /\ ~online /\ x.wire # <<>> /\ faults < MaxFaults
  /\ faults' = faults + 1
  /\ Change(t, Refused([x EXCEPT !.wire = Tail(@)], Head(x.wire)))
  /\ UNCHANGED <<life, online, stops>>

LoseConnection ==
  /\ online /\ faults < MaxFaults
  /\ online' = FALSE
  /\ faults' = faults + 1
  /\ UNCHANGED <<topic, life, stops>>

\* The "ready" event, of the first connection or a later one, and resubscribeAll().
Ready ==
  /\ ~online /\ life # "stopped"
  /\ online' = TRUE
  /\ topic' = [t \in Topics |->
       IF life = "running" /\ topic[t].subscribed
       THEN Send(topic[t], "resubscribe", 0, FALSE) ELSE topic[t]]
  /\ UNCHANGED <<life, faults, stops>>

Retry(t) ==
  /\ \E attempt \in topic[t].retries :
       Change(t, SubscribeWithRetry([topic[t] EXCEPT !.retries = @ \ {attempt}], attempt))
  /\ UNCHANGED <<life, online, faults, stops>>

-----------------------------------------------------------------------------
(* stop() and start(). *)

Cleared(x) ==
  [x EXCEPT !.subscribed = FALSE, !.subscribing = FALSE, !.unsubscribing = FALSE,
            !.resubscribe = FALSE, !.retries = {}]

\* The channels are unsubscribed; without any, the entries are cleared at once.
StopBegins ==
  /\ life = "running" /\ stops < MaxStops
  /\ stops' = stops + 1
  /\ IF \E t \in Topics : topic[t].subscribed
     THEN /\ life' = "leaving"
          /\ topic' = [t \in Topics |->
               IF topic[t].subscribed THEN Send(topic[t], "leave", 0, TRUE) ELSE topic[t]]
     ELSE /\ life' = "closing"
          /\ topic' = [t \in Topics |-> Cleared(topic[t])]
  /\ UNCHANGED <<online, faults>>

Waits(x) == \E i \in DOMAIN x.wire : x.wire[i].cmd = "leave" /\ x.wire[i].waiting

StopClears ==
  /\ life = "leaving" /\ \A t \in Topics : ~Waits(topic[t])
  /\ life' = "closing"
  /\ topic' = [t \in Topics |-> Cleared(topic[t])]
  /\ UNCHANGED <<online, faults, stops>>

\* quit() is answered after every other command, or the connection is dropped with them.
StopEnds ==
  /\ life = "closing" /\ \A t \in Topics : topic[t].wire = <<>>
  /\ life' = "stopped"
  /\ online' = FALSE
  /\ topic' = [t \in Topics |-> [topic[t] EXCEPT !.sockets = {}, !.heard = FALSE]]
  /\ UNCHANGED <<faults, stops>>

Start ==
  /\ life = "stopped"
  /\ life' = "running"
  /\ UNCHANGED <<topic, online, faults, stops>>

-----------------------------------------------------------------------------
RedisNext ==
  \/ \E s \in Sockets : Disconnect(s) \/ \E t \in Topics : Join(s, t) \/ Leave(s, t)
  \/ \E t \in Topics : Execute(t) \/ TimeLimit(t) \/ Drop(t) \/ Retry(t)
  \/ LoseConnection \/ Ready \/ StopBegins \/ StopClears \/ StopEnds \/ Start

RedisSpec == RedisInit /\ [][RedisNext]_redisVars

\* The client reconnects, Redis answers, timers fire and stop() goes on.
RedisFairSpec ==
  /\ RedisSpec
  /\ WF_redisVars(Ready) /\ WF_redisVars(StopClears) /\ WF_redisVars(StopEnds)
  /\ \A t \in Topics : WF_redisVars(Execute(t)) /\ WF_redisVars(Retry(t))

-----------------------------------------------------------------------------
(* Properties. *)

Commands ==
  [cmd : {"subscribe", "unsubscribe", "resubscribe", "leave"}, attempt : 0 .. MaxAttempts,
   waiting : BOOLEAN]

TopicRecords ==
  [sockets : SUBSET Sockets, subscribed : BOOLEAN, subscribing : BOOLEAN,
   unsubscribing : BOOLEAN, resubscribe : BOOLEAN, retries : SUBSET (1 .. MaxAttempts),
   wire : Seq(Commands), heard : BOOLEAN, gaveUp : BOOLEAN, rejected : BOOLEAN]

\* Types, with no attempt beyond MaxAttempts.
RedisTypeOK ==
  /\ topic \in [Topics -> TopicRecords]
  /\ life \in {"running", "leaving", "closing", "stopped"}
  /\ online \in BOOLEAN
  /\ faults \in 0 .. MaxFaults /\ stops \in 0 .. MaxStops

\* Is the channel heard once the commands on their way are executed?
WillHear(x) ==
  IF x.wire = <<>> THEN x.heard ELSE Subscribes(x.wire[Len(x.wire)])

\* Until the provider stops, a topic with sockets is heard, or will be when the commands,
\* the timers and the unsubscription that are under way are through: no order of joins,
\* leaves, answers, rejections and reconnections leaves it deaf, unless all attempts failed.
NeverDeaf ==
  stops = 0 =>
    \A t \in Topics :
      topic[t].sockets # {} /\ ~topic[t].gaveUp =>
        WillHear(topic[t]) \/ topic[t].resubscribe \/ topic[t].retries # {}

\* Until a command is rejected or the provider stopped, a channel without sockets is not
\* kept: what is subscribed for a socket that left meanwhile is given back.
NoOrphans ==
  stops = 0 =>
    \A t \in Topics :
      topic[t].sockets = {} /\ topic[t].wire = <<>> /\ ~topic[t].rejected => ~topic[t].heard

\* A topic that has sockets is heard in the end, unless all leave, all attempts fail or
\* the provider stops.
Hears ==
  \A t \in Topics :
    []<>(topic[t].sockets # {} => topic[t].heard \/ topic[t].gaveUp \/ stops > 0)

=============================================================================
