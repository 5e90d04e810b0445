-------------------------------- MODULE Http --------------------------------
(* Routes and requests of the core: the controllers' route builders          *)
(* (route-builder.ts), the table of routes given to Bun                      *)
(* (routing-coordinator.ts) and the pipeline of one request                  *)
(* (request-pipeline.ts, request-context.ts), whose handler may run a        *)
(* workflow.  Requests share nothing but the table, so one is followed; an   *)
(* interceptor that calls next() again makes its handler run again.          *)
(*                                                                           *)
(* guard(), guards(), ... and intercept(), interceptors(), ... do the same   *)
(* to two lists and are one operation each, of a kind of middleware.  The    *)
(* array given to guards() is kept, not copied: the program has one array of *)
(* each kind, site.given, that it may give more than once.                   *)
EXTENDS DirectWorkflow, FiniteSets

CONSTANTS
  Global,      \* per kind, the sequence of global middleware
  Extra,       \* per kind, what a controller may add
  Given,       \* per kind, the program's array as it was written
  Paths,
  RouteKinds,  \* what else a route may have: records
  MaxCalls,    \* calls of the route builders
  MaxAwaits,   \* workflows that the handler of a request runs
  MaxAgain     \* calls of next() again

VARIABLES site, req

Kinds == {"guards", "interceptors"}

Middleware == UNION {Range(Global[k]) \cup Extra[k] \cup Range(Given[k]) : k \in Kinds}

ASSUME HttpAssumption ==
  /\ {Global, Given} \subseteq [Kinds -> Seq(Middleware)]
  /\ RouteKinds \subseteq [method : {"GET", "POST", "OPTIONS"}, static : BOOLEAN,
                          schema : {"none", "query", "body"}, defer : BOOLEAN,
                          flows : BOOLEAN, named : BOOLEAN]

\* A list of the builder: its own, or a reference to the program's array.
Own(list) == [own |-> list, given |-> FALSE]
TheGiven == [own |-> <<>>, given |-> TRUE]

Items(l, k, given) == IF l.given THEN given[k] ELSE l.own

Builder ==
  [inherited |-> Global, own |-> [k \in Kinds |-> Own(<<>>)],
   over |-> [k \in Kinds |-> FALSE], cur |-> FALSE, params |-> FALSE, data |-> FALSE,
   routes |-> <<>>, want |-> Global]

NoAnswer == [kind |-> "none", dressed |-> FALSE, extra |-> FALSE]

Request ==
  [at |-> "none", route |-> <<>>, n |-> 0, passed |-> <<>>, valid |-> FALSE,
   runner |-> FALSE, guarded |-> "no", body |-> "unread", extra |-> FALSE,
   result |-> "none", again |-> 0, exec |-> {}, answer |-> NoAnswer]

HttpInit ==
  /\ FlowInit
  /\ \E headers \in BOOLEAN :
       site = [stage |-> "configure", given |-> Given, builder |-> Builder, calls |-> 0,
               compiled |-> <<>>, table |-> <<>>, headers |-> headers]
  /\ req = Request

-----------------------------------------------------------------------------
(* configure(): calls of the route builder.  want[k] is what the program     *)
(* asked for, by value.                                                      *)

B == site.builder

Effective(b, k) == b.inherited[k] \o Items(b.own[k], k, site.given)

Call(b, given) ==
  /\ site.stage = "configure"
  /\ site.calls < MaxCalls
  /\ site' = [site EXCEPT !.builder = b, !.given = given, !.calls = @ + 1]
  /\ UNCHANGED <<flow, handle, req>>

\* A list of the current route, or of the controller, and what was asked for.
SetRoute(k, list, want) ==
  [B EXCEPT !.over[k] = TRUE,
            !.routes[Len(B.routes)] = [@ EXCEPT !.mw[k] = list, !.want[k] = want]]

SetController(k, list, want) ==
  [B EXCEPT !.inherited[k] = <<>>, !.own[k] = list, !.want[k] = want]

\* guard() and intercept().
Add(k, m) ==
  LET last == B.routes[Len(B.routes)]
      list == IF ~ B.cur THEN B.own[k]
              ELSE IF B.over[k] THEN last.mw[k] ELSE Own(Effective(B, k))
      longer == IF list.given THEN list ELSE Own(Append(list.own, m))
  IN  Call(IF B.cur THEN SetRoute(k, longer, Append(last.want[k], m))
           ELSE [B EXCEPT !.own[k] = longer, !.want[k] = Append(@, m)],
           IF list.given THEN [site.given EXCEPT ![k] = Append(@, m)] ELSE site.given)

\* guards() and interceptors().
Replace(k) ==
  Call(IF B.cur THEN SetRoute(k, TheGiven, Given[k]) ELSE SetController(k, TheGiven, Given[k]),
       site.given)

\* clearGuards() and clearInterceptors().
Clear(k) ==
  Call(IF B.cur THEN SetRoute(k, Own(<<>>), <<>>) ELSE SetController(k, Own(<<>>), <<>>),
       site.given)

\* Only valid before any route method, says its comment; nothing checks that.
ReplaceGlobalGuardsWith ==
  /\ ~ B.cur
  /\ Call(SetController("guards", TheGiven, Given["guards"]), site.given)

Param == ~ B.params /\ Call([B EXCEPT !.params = TRUE], site.given)

\* set() of a route key.
SetData ==
  Call(IF B.cur THEN [B EXCEPT !.routes[Len(B.routes)].data = TRUE]
       ELSE [B EXCEPT !.data = TRUE], site.given)

\* Mutant: what overrides the lists of one route is kept for the next one.
AddRouteKeepsOverride(p, r) ==
  LET before == B.routes[Len(B.routes)]
      lists == [k \in Kinds |-> IF B.cur /\ B.over[k] THEN before.mw[k] ELSE Own(Effective(B, k))]
  IN  Call([B EXCEPT
              !.cur = TRUE,
              !.routes = Append(@, [path |-> p, mw |-> lists, want |-> B.want,
                                    method |-> r.method, static |-> r.static,
                                    schema |-> r.schema, defer |-> r.defer, flows |-> r.flows,
                                    validators |-> B.params /\ r.named, data |-> B.data])],
           site.given)

\* get(), post(), ...: addRoute().
AddRoute(p, r) ==
  Call([B EXCEPT
          !.cur = TRUE,
          !.over = [k \in Kinds |-> FALSE],
          !.routes = Append(@, [path |-> p,
                                mw |-> [k \in Kinds |-> Own(Effective(B, k))],
                                want |-> B.want,
                                method |-> r.method, static |-> r.static,
                                schema |-> r.schema, defer |-> r.defer, flows |-> r.flows,
                                validators |-> B.params /\ r.named, data |-> B.data])],
       site.given)

\* registerControllers(): the routes are compiled, and the next controller
\* is given a builder of its own.
EndController ==
  /\ site.stage = "configure"
  /\ B.routes # <<>>
  /\ site' = [site EXCEPT !.compiled = @ \o B.routes, !.builder = Builder]
  /\ UNCHANGED <<flow, handle, req>>

\* generateBunRoutes(): the lists are read now.  (What configured the routes
\* is not needed any more and is forgotten.)
GenerateBunRoutes ==
  /\ site.stage = "configure"
  /\ B.routes = <<>>
  /\ site.compiled # <<>>
  /\ site' = [site EXCEPT
       !.stage = "serving", !.calls = 0, !.given = Given, !.compiled = <<>>,
       !.table = [i \in DOMAIN site.compiled |->
          LET r == site.compiled[i]
          IN  [r EXCEPT !.mw = [k \in Kinds |-> Items(r.mw[k], k, site.given)]]]]
  /\ UNCHANGED <<flow, handle, req>>

-----------------------------------------------------------------------------
(* A request.                                                                *)

OfPath(p) == {i \in DOMAIN site.table : site.table[i].path = p}

\* The one route of a path that is a Response answers every method; of the
\* routes with one method the last one counts; and with headers configured,
\* OPTIONS is answered by the preflight.
Dispatch(p, method) ==
  LET all == OfPath(p)
      fit == {i \in all : site.table[i].method = method}
  IN  IF Cardinality(all) = 1 /\ \A i \in all : site.table[i].static THEN "static"
      ELSE IF method = "OPTIONS" /\ site.headers THEN "preflight"
      ELSE IF fit = {} THEN "unmatched"
      ELSE IF \E i \in fit : site.table[i].static /\ \A j \in fit : j <= i THEN "static"
      ELSE "route"

RouteFor(p, method) ==
  site.table[CHOOSE i \in OfPath(p) :
    /\ site.table[i].method = method
    /\ \A j \in OfPath(p) : site.table[j].method = method => j <= i]

R == req.route

\* createHandler(): nothing to do but call the handler.  (deferGuards is one of
\* the options that a route with a schema has.)
Fast(r) ==
  /\ r.mw["guards"] = <<>>
  /\ r.mw["interceptors"] = <<>>
  /\ r.schema = "none"
  /\ ~ r.defer
  /\ ~ r.validators
  /\ ~ r.data

\* finalizeResponse() and, for the handler's response, applyResponseHeaders().
Answer(q, kind, extra) ==
  [q EXCEPT !.at = "end", !.n = 0,
            !.answer = [kind |-> kind, dressed |-> site.headers, extra |-> extra]]

\* Mutant: the response thrown by a deferred guard is returned as it is.
CaughtUndressed(q) ==
  IF q.result = "response" THEN Answer(q, "ok", q.extra)
  ELSE IF q.result = "thrown" /\ ~ Fast(R)
       THEN [Answer(q, "thrown", FALSE) EXCEPT !.answer.dressed = FALSE]
  ELSE Answer(q, "error", FALSE)

\* The end of the pipeline: a response, a thrown response or an error.  The
\* fast path answers both of the latter with 500.
Caught(q) ==
  IF q.result = "response" THEN Answer(q, "ok", q.extra)
  ELSE IF q.result = "thrown" /\ ~ Fast(R) THEN Answer(q, "thrown", FALSE)
  ELSE Answer(q, "error", FALSE)

Fail(q, result) == Caught([q EXCEPT !.result = result])

\* The interceptors, from the outermost; then the handler.
Deeper(q) ==
  IF q.n < Len(R.mw["interceptors"])
  THEN [q EXCEPT !.n = @ + 1, !.at = "intercept"]
  ELSE [q EXCEPT !.n = @ + 1, !.at = "handler"]

AfterGuards(q) ==
  IF R.validators \/ R.schema # "none" THEN [q EXCEPT !.at = "validate"]
  ELSE Deeper([q EXCEPT !.n = 0])

\* (The request keeps its route; the rest of the table is forgotten.)
Receive(p, method) ==
  /\ site.stage = "serving"
  /\ req.at = "none"
  /\ req' = LET found == Dispatch(p, method) IN
       IF found # "route"
       THEN [Request EXCEPT !.at = "end", !.answer =
               [kind |-> found, dressed |-> site.headers /\ found # "unmatched", extra |-> FALSE]]
       ELSE [Request EXCEPT !.route = RouteFor(p, method), !.at = "begin"]
  /\ site' = [site EXCEPT !.table = <<>>]
  /\ UNCHANGED <<flow, handle>>

\* The turn of the event loop that begins the request.
Begin ==
  /\ req.at = "begin"
  /\ req' = IF R.mw["guards"] = <<>> THEN AfterGuards(req)
            ELSE IF R.defer THEN AfterGuards([req EXCEPT !.runner = TRUE])
            ELSE [req EXCEPT !.at = "guards", !.n = 1]
  /\ UNCHANGED <<flow, handle, site>>

\* json() and text(): the body is read once, and stays what it was read as; the
\* other of the two throws from then on.
Readable(q, kind) == q.body \in {"unread", kind} \/ (kind = "json" /\ q.body = "valid")

ReadAs(q, kind) == [q EXCEPT !.body = IF @ = "unread" THEN kind ELSE @]

\* What a guard may do to the context before it passes.
Touched(q) ==
  {q} \cup (IF R.schema = "body"
            THEN {ReadAs(q, kind) : kind \in {k \in {"text", "json"} : Readable(q, k)}} ELSE {})

SetResponseHeader(q) == [q EXCEPT !.extra = TRUE]

\* A guard passes; after the last one the pipeline, or the handler, goes on.
GuardPasses ==
  /\ req.at \in {"guards", "deferred"}
  /\ \E touched \in Touched(req) \cup Touched(SetResponseHeader(req)) :
       LET q == [touched EXCEPT !.passed = Append(@, R.mw["guards"][req.n])]
       IN  req' = IF req.n < Len(R.mw["guards"]) THEN [q EXCEPT !.n = @ + 1]
                  ELSE IF req.at = "guards" THEN AfterGuards(q)
                  ELSE [q EXCEPT !.at = "handler", !.guarded = "yes",
                                 !.n = Len(R.mw["interceptors"]) + 1]
  /\ UNCHANGED <<flow, handle, site>>

\* The result of the handler goes back through the interceptors.
Return(q, result) ==
  LET back == [q EXCEPT !.result = result, !.n = Len(R.mw["interceptors"])]
  IN  IF back.n = 0 THEN Caught(back) ELSE [back EXCEPT !.at = "unwind"]

\* A guard returns false or a Response, or it throws.
GuardRejects ==
  /\ \/ req.at = "guards" /\ req' \in {Answer(req, "refused", FALSE), Fail(req, "thrown"),
                                       Fail(req, "error")}
     \/ /\ req.at = "deferred"
        /\ req' \in {Return(req, "thrown"), Return(req, "error")}
  /\ UNCHANGED <<flow, handle, site>>

\* The parameters are validated first, in the turn of the last guard.
ValidateParams(ok) ==
  /\ req.at = "validate"
  /\ req' = IF R.validators /\ ~ ok THEN Answer(req, "invalid", FALSE)
            ELSE IF R.schema = "none" THEN Deeper([req EXCEPT !.n = 0, !.valid = TRUE])
            ELSE [req EXCEPT !.at = "request"]
  /\ UNCHANGED <<flow, handle, site>>

\* setValidatedQuery() and setValidatedBody().
Validated(q) ==
  [q EXCEPT !.n = 0, !.valid = TRUE, !.body = IF R.schema = "body" THEN "valid" ELSE @]

\* Query or body.  A body that a guard has read as text can not be read as JSON.
ValidateRequest(ok) ==
  /\ req.at = "request"
  /\ req' = IF ~ ok \/ (R.schema = "body" /\ ~ Readable(req, "json"))
            THEN Answer(req, "invalid", FALSE) ELSE Deeper(Validated(req))
  /\ UNCHANGED <<flow, handle, site>>

\* An interceptor calls next(), or answers or throws without it.
Intercept ==
  /\ req.at = "intercept"
  /\ \/ req' = Deeper(req)
     \/ \E result \in {"response", "thrown", "error"} :
          LET back == [req EXCEPT !.result = result, !.n = @ - 1]
          IN  req' = IF back.n = 0 THEN Caught(back) ELSE [back EXCEPT !.at = "unwind"]
  /\ UNCHANGED <<flow, handle, site>>

\* What next() returned or threw passes an interceptor, which may return or
\* throw something else or call next() again.
Unwind ==
  /\ req.at = "unwind"
  /\ \/ \E result \in {"response", "thrown", "error"} :
          LET back == [req EXCEPT !.result = result, !.n = @ - 1]
          IN  req' = IF back.n = 0 THEN Caught(back) ELSE back
     \/ /\ req.again < MaxAgain
        /\ req' = Deeper([req EXCEPT !.again = @ + 1, !.result = "none"])
  /\ UNCHANGED <<flow, handle, site>>

-----------------------------------------------------------------------------
(* The handler.                                                              *)

RouteReturns ==
  /\ req.at = "handler"
  /\ \E result \in {"response", "thrown", "error"} : req' = Return(req, result)
  /\ UNCHANGED <<flow, handle, site>>

\* ctx.guards(): an error unless the route defers its guards and they have
\* not run yet.
RunDeferredGuards ==
  /\ req.at = "handler"
  /\ req' = IF ~ req.runner \/ req.guarded # "no" THEN Return(req, "error")
            ELSE [req EXCEPT !.at = "deferred", !.n = 1, !.guarded = "running"]
  /\ UNCHANGED <<flow, handle, site>>

\* The executions that may still begin, of any of the workflows.
Unused ==
  {e \in Execs : /\ flow[e].at = "none" /\ handle[e] = "none"
                 /\ Cardinality(req.exec) < MaxAwaits}

\* await ctx.app.workflows.execute(): data that does not fit is an error.
HandlerExecutes ==
  /\ req.at = "handler"
  /\ R.flows
  /\ \/ \E e \in Unused :
          /\ Execute(e)
          /\ req' = [req EXCEPT !.at = "workflow", !.exec = @ \cup {e}]
     \/ req' = Return(req, "error") /\ UNCHANGED <<flow, handle>>
  /\ UNCHANGED site

\* (await ctx.workflows.execute()).result().
HandlerExecutesBound ==
  /\ req.at = "handler"
  /\ R.flows
  /\ \E e \in Unused :
       /\ BoundExecute(e)
       /\ req' = [req EXCEPT !.at = "workflow", !.exec = @ \cup {e}]
  /\ UNCHANGED site

Pending(e) == flow[e].at \notin {"none", "end", "escaped"} \/ handle[e] = "running"

Failed(e) == flow[e].out = "rejected" \/ handle[e] = "failed"

\* The handler goes on with the result, or with the error, which it may catch.
WorkflowSettled ==
  /\ req.at = "workflow"
  /\ \A e \in req.exec : ~ Pending(e)
  /\ req' \in {[req EXCEPT !.at = "handler"]} \cup
       (IF \E e \in req.exec : Failed(e) THEN {Return(req, "error")} ELSE {})
  /\ UNCHANGED <<flow, handle, site>>

WorkflowStep ==
  /\ \E e \in Execs : FlowStep(e)
  /\ UNCHANGED <<site, req>>

-----------------------------------------------------------------------------
Configure ==
  \/ \E k \in Kinds : Replace(k) \/ Clear(k) \/ \E m \in Extra[k] : Add(k, m)
  \/ ReplaceGlobalGuardsWith \/ Param \/ SetData
  \/ \E p \in Paths, r \in RouteKinds : AddRoute(p, r)
  \/ EndController \/ GenerateBunRoutes

HttpNext ==
  \/ Configure
  \/ \E p \in Paths, method \in {"GET", "POST", "OPTIONS"} : Receive(p, method)
  \/ Begin \/ GuardPasses \/ GuardRejects \/ Intercept \/ Unwind
  \/ \E ok \in BOOLEAN : ValidateParams(ok) \/ ValidateRequest(ok)
  \/ RouteReturns \/ RunDeferredGuards
  \/ HandlerExecutes \/ HandlerExecutesBound
  \/ WorkflowSettled \/ WorkflowStep

httpVars == <<flow, handle, site, req>>

HttpSpec == HttpInit /\ [][HttpNext]_httpVars

-----------------------------------------------------------------------------
TheirOwn == {"intercept", "handler", "unwind", "workflow"}

\* Sequence l has the elements of sequence w, in their order, among its own.
IsWithin(w, l) ==
  \E at \in [DOMAIN w -> DOMAIN l] :
    /\ \A i, j \in DOMAIN w : i < j => at[i] < at[j]
    /\ \A i \in DOMAIN w : l[at[i]] = w[i]

\* However the builders of several controllers were called, and whatever
\* arrays they share: when the interceptors and the handler of a route have
\* their turn, every guard the program asked for has let the request pass, in
\* its order, and so has every validation; on a route that defers its guards
\* this holds once ctx.guards() has returned.  (Static responses have no
\* handler, and their guards are never run.)
GuardsHold ==
  req.at \in TheirOwn =>
    /\ (~ R.defer \/ req.guarded = "yes") =>
         IsWithin(R.want["guards"], req.passed)
    /\ (R.validators \/ R.schema # "none") => req.valid
    /\ R.schema = "body" => req.body = "valid"

\* Whichever way a request to a route ends, through a guard, a validation, an
\* interceptor, a thrown response or an error, with or without a workflow, its
\* answer carries the headers of the site, and it is not sent before what the
\* handler awaited is over and, if a step failed, compensated: all but a
\* workflow that escaped its rollbacks at a sequential step without a handler.
AnswersAreComplete ==
  req.answer.kind \notin {"none", "unmatched"} =>
    /\ req.answer.dressed = site.headers
    /\ \A e \in req.exec :
         /\ ~ Pending(e)
         /\ (/\ flow[e].out = "rejected" /\ flow[e].at # "escaped"
             /\ Applied(flow[e]) # Steps) =>
              Applied(flow[e]) \cap Undoable = flow[e].undone
    /\ req.answer.extra => req.answer.kind = "ok"
=============================================================================
