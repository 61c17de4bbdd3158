------------------------------ MODULE Pipeline ------------------------------
(***************************************************************************)
(* The life of the process (src/index.js) and the way of a request through *)
(* it (src/src/index.ts): rate limiter, persisted queries, routes, context *)
(* and execution under resolver timeouts, the log of the calls it makes,   *)
(* and the answer.                                                         *)
(*                                                                         *)
(* A form is what the pipeline looks at in a request: its route (a batch   *)
(* is one request for each of its parts, with one request id), whether it  *)
(* carries the header of our own services, whether it names a known        *)
(* document, what becomes of the query, and its request id.  Execution is  *)
(* one resolver that makes one call to a service.  A client may hang up    *)
(* while it waits; the parts of a batch, which share a connection, may do  *)
(* so one by one, which only adds behaviours.                              *)
(***************************************************************************)
EXTENDS Integers, Sequences, FiniteSets

CONSTANTS
  Requests,
  Traffic,      \* [Requests -> forms] that may come in
  Ids,          \* request ids: of the x-request-id header, or a uuid
  Settings,     \* of RATE_LIMIT_MAX: numbers, Unset
  TimeoutSettings,  \* of RESOLVER_TIMEOUT_MS
  Unset,
  Absent        \* no entry in the request log

\* What the pipeline tells apart in a request.
ASSUME TrafficAssumption ==
  Traffic \subseteq
    [Requests -> [route : {"graphql", "batch", "other"}, own : BOOLEAN,
                  document : {"inline", "unknown"},
                  query : {"good", "home", "invalid", "variables"}, id : Ids]]
ASSUME SettingsAssumption == Settings \subseteq Nat \cup {Unset}
ASSUME TimeoutAssumption == TimeoutSettings \subseteq Nat
ASSUME AbsentAssumption == \A S \in SUBSET Requests : S # Absent

VARIABLES
  form,          \* of each request
  limit,         \* RATE_LIMIT_MAX as the environment has it
  resolverTimeoutMs,
  hasBooted,
  isShuttingDown,
  exit,          \* "no", or how the process ended
  hits,          \* the store's count of requests in this window
  phase,         \* "new", "limiting", "admitted", "executing", "finished"
  store,         \* the limiter's question to memcached
  timer,         \* the limiter's timer
  work,          \* the resolver itself: runs on after its timeout
  field,         \* what execution holds of the resolver
  entries,       \* the map `requests` of the request log
  report,        \* what of it went into the answer
  answers,       \* what the process sent or tried to send
  gone           \* requests whose client hung up before the answer

vars == <<form, limit, resolverTimeoutMs, hasBooted, isShuttingDown, exit, hits, phase,
          store, timer, work, field, entries, report, answers, gone>>

given == <<form, limit, resolverTimeoutMs>>

process == <<hasBooted, isShuttingDown>>
limiter == <<hits, store, timer>>
execution == <<work, field, entries, report>>

-----------------------------------------------------------------------------
\* parseInt of an unset variable is NaN, which is not === NaN: the default is
\* never used, and NaN is as falsy as 0.
IntWithDefault(setting) == IF setting = Unset THEN 0 ELSE setting

\* `/batch` is not behind the limiter, and `skip` lets our own services pass.
RateLimited(r) == /\ form[r].route # "batch" /\ ~form[r].own
                  /\ IntWithDefault(limit) # 0

Init ==
  /\ form \in Traffic
  /\ limit \in Settings
  /\ resolverTimeoutMs \in TimeoutSettings
  /\ hasBooted = FALSE
  /\ isShuttingDown = FALSE
  /\ exit = "no"
  /\ hits = 0
  /\ phase = [r \in Requests |-> "new"]
  /\ store = [r \in Requests |-> "idle"]
  /\ timer = [r \in Requests |-> "off"]
  /\ work = [r \in Requests |-> "none"]
  /\ field = [r \in Requests |-> "none"]
  /\ entries = [i \in Ids |-> Absent]
  /\ report = [r \in Requests |-> Absent]
  /\ answers = [r \in Requests |-> <<>>]
  /\ gone = {}

\* The callback of xapp.init; it comes again with every new token.
Boot ==
  /\ ~hasBooted
  /\ hasBooted' = TRUE
  /\ UNCHANGED <<given, gone, isShuttingDown, exit, phase, limiter, execution, answers>>

XappError ==
  /\ exit' = "failed"
  /\ UNCHANGED <<given, gone, process, phase, limiter, execution, answers>>

\* There is no server to shut down before the first token.
GracefulExit ==
  /\ ~isShuttingDown
  /\ isShuttingDown' = TRUE
  /\ exit' = IF hasBooted THEN "no" ELSE "crashed"
  /\ UNCHANGED <<given, gone, hasBooted, phase, limiter, execution, answers>>

\* Mutant: only connections that still send are waited for.
OpenUntilAdmitted(r) == phase[r] = "limiting"

\* The callback of server.shutdown: every connection had its answer or was
\* closed by its client.
Open(r) == phase[r] # "new" /\ answers[r] = <<>> /\ r \notin gone

Closed ==
  /\ hasBooted /\ isShuttingDown
  /\ \A r \in Requests : ~Open(r)
  /\ exit' = "clean"
  /\ UNCHANGED <<given, gone, process, phase, limiter, execution, answers>>

-----------------------------------------------------------------------------
Send(r, status) == answers' = [answers EXCEPT ![r] = Append(@, status)]

Arrive(r) ==
  /\ hasBooted /\ ~isShuttingDown
  /\ phase[r] = "new"
  /\ phase' = [phase EXCEPT ![r] = IF RateLimited(r) THEN "limiting" ELSE "admitted"]
  /\ timer' = [timer EXCEPT ![r] = IF RateLimited(r) THEN "set" ELSE "off"]
  /\ store' = [store EXCEPT ![r] = IF RateLimited(r) THEN "asked" ELSE "idle"]
  /\ UNCHANGED <<given, gone, process, exit, hits, execution, answers>>

\* The client closes its connection.  Nothing here listens for that: limiter,
\* resolver and log go on as before.
Disconnect(r) ==
  /\ Open(r)
  /\ gone' = gone \cup {r}
  /\ UNCHANGED <<given, process, exit, phase, limiter, execution, answers>>

\* next() is called.
Admit(r) == phase' = [phase EXCEPT ![r] = "admitted"]

\* Mutant: the timer runs on.
ResetTimerNot(r) == timer' = [timer EXCEPT ![r] = IF @ = "set" THEN "set" ELSE "late"]

\* A late answer finds no timer to clear.
ResetTimer(r) == timer' = [timer EXCEPT ![r] = IF @ = "set" THEN "off" ELSE "late"]

\* A count within the limit, or an error of the store.
RequestAllowed(r) ==
  /\ store[r] = "asked"
  /\ store' = [store EXCEPT ![r] = "answered"]
  /\ \/ hits < IntWithDefault(limit) /\ hits' = hits + 1
     \/ UNCHANGED hits
  /\ ResetTimer(r)
  /\ IF timer[r] = "set" THEN Admit(r) ELSE UNCHANGED phase
  /\ UNCHANGED <<given, gone, process, exit, execution, answers>>

\* A 429 after the answer throws inside the callback of the store's client;
\* whether that ends the process depends on what else handles exceptions.
RateLimitHit(r) ==
  /\ store[r] = "asked" /\ hits >= IntWithDefault(limit)
  /\ hits' = hits + 1
  /\ store' = [store EXCEPT ![r] = "answered"]
  /\ ResetTimer(r)
  /\ Send(r, "429")
  /\ phase' = [phase EXCEPT ![r] = IF @ = "limiting" THEN "finished" ELSE @]
  /\ exit' \in {"no"} \cup (IF answers[r] = <<>> THEN {} ELSE {"crashed"})
  /\ UNCHANGED <<given, gone, process, execution>>

\* Mutant: the error is logged and that is all.
LimiterTimeoutLogged(r) ==
  /\ timer[r] = "set"
  /\ timer' = [timer EXCEPT ![r] = "fired"]
  /\ UNCHANGED <<given, gone, process, exit, hits, phase, store, execution, answers>>

\* The finally of the middleware calls next.
LimiterTimeout(r) ==
  /\ timer[r] = "set"
  /\ timer' = [timer EXCEPT ![r] = "fired"]
  /\ Admit(r)
  /\ UNCHANGED <<given, gone, process, exit, hits, store, execution, answers>>

WindowEnds ==
  /\ hits > 0
  /\ hits' = 0
  /\ UNCHANGED <<given, gone, process, exit, phase, store, timer, execution, answers>>

-----------------------------------------------------------------------------
NotFound(r) ==
  \/ form[r].route = "other"
  \/ form[r].route = "graphql" /\ form[r].document = "unknown"

\* fetchPersistedQuery and supportedV2RouteHandler turn a request away, or the
\* query does not parse or validate: the context is never built.
TurnAway(r) ==
  /\ phase[r] = "admitted"
  /\ \/ NotFound(r) /\ Send(r, "404")
     \/ ~NotFound(r) /\ form[r].query = "invalid" /\ Send(r, "errors")
  /\ phase' = [phase EXCEPT ![r] = "finished"]
  /\ UNCHANGED <<given, gone, process, exit, limiter, execution>>

FetchLoggerSetup(r) == entries' = [entries EXCEPT ![form[r].id] = {}]

\* The context is built; variables that cannot be coerced give a result
\* without data, for which nothing takes the entry away.
Execute(r) ==
  /\ phase[r] = "admitted" /\ ~NotFound(r) /\ form[r].query # "invalid"
  /\ FetchLoggerSetup(r)
  /\ IF form[r].query = "variables"
     THEN /\ Send(r, "errors")
          /\ phase' = [phase EXCEPT ![r] = "finished"]
          /\ UNCHANGED <<work, field>>
     ELSE /\ phase' = [phase EXCEPT ![r] = "executing"]
          /\ work' = [work EXCEPT ![r] = "working"]
          /\ field' = [field EXCEPT ![r] = "running"]
          /\ UNCHANGED answers
  /\ UNCHANGED <<given, gone, process, exit, limiter, report>>

\* A call is written to the entry of its request id, if there is one.
ExtensionsLogger(r) ==
  entries' = [entries EXCEPT ![form[r].id] = IF @ = Absent THEN Absent ELSE @ \cup {r}]

\* The resolver is done; execution has it only when the timer did not come first.
ResolverDone(r) ==
  /\ work[r] = "working"
  /\ work' = [work EXCEPT ![r] = "done"]
  /\ ExtensionsLogger(r)
  /\ \E outcome \in {"value", "failed"} :
       field' = [field EXCEPT ![r] = IF @ = "running" THEN outcome ELSE @]
  /\ UNCHANGED <<given, gone, process, exit, phase, limiter, report, answers>>

\* graphqlTimeoutMiddleware is only mounted for a positive RESOLVER_TIMEOUT_MS,
\* which is 0 when unset; sections of the home view have withTimeout always.
HasTimeout(r) == resolverTimeoutMs > 0 \/ form[r].query = "home"

\* The timer of either rejects; the resolver goes on.
ResolverTimeout(r) ==
  /\ field[r] = "running" /\ HasTimeout(r)
  /\ field' = [field EXCEPT ![r] = "timeout"]
  /\ UNCHANGED <<given, gone, process, exit, phase, limiter, work, entries, report, answers>>

\* Mutant: the entry stays.
FetchLoggerRequestDoneKeeping(r) ==
  /\ report' = [report EXCEPT ![r] = entries[form[r].id]]
  /\ UNCHANGED entries

FetchLoggerRequestDone(r) ==
  /\ report' = [report EXCEPT ![r] = entries[form[r].id]]
  /\ entries' = [entries EXCEPT ![form[r].id] = Absent]

\* Mutant: the resolver is waited for after its timeout too.
RespondWhenDone(r) ==
  /\ phase[r] = "executing" /\ work[r] = "done"
  /\ phase' = [phase EXCEPT ![r] = "finished"]
  /\ FetchLoggerRequestDone(r)
  /\ Send(r, IF field[r] = "value" THEN "data" ELSE "errors")
  /\ UNCHANGED <<given, gone, process, exit, limiter, work, field>>

Respond(r) ==
  /\ phase[r] = "executing" /\ field[r] # "running"
  /\ phase' = [phase EXCEPT ![r] = "finished"]
  /\ FetchLoggerRequestDone(r)
  /\ Send(r, IF field[r] = "value" THEN "data" ELSE "errors")
  /\ UNCHANGED <<given, gone, process, exit, limiter, work, field>>

Step(r) == Arrive(r) \/ Disconnect(r) \/ RequestAllowed(r) \/ RateLimitHit(r) \/ LimiterTimeout(r)
           \/ TurnAway(r) \/ Execute(r) \/ ResolverDone(r) \/ ResolverTimeout(r) \/ Respond(r)

Next ==
  /\ exit = "no"
  /\ \/ Boot \/ XappError \/ GracefulExit \/ Closed \/ WindowEnds
     \/ \E r \in Requests : Step(r)

\* Timers fire and the process goes on with what is ready.  Memcached and the
\* resolvers may hang, and no client has to come.
Progress(r) == LimiterTimeout(r) \/ TurnAway(r) \/ Execute(r) \/ ResolverTimeout(r) \/ Respond(r)

Spec == Init /\ [][Next]_vars

FairSpec ==
  /\ Spec
  /\ \A r \in Requests : WF_vars(exit = "no" /\ Progress(r))
  /\ WF_vars(exit = "no" /\ Closed)

-----------------------------------------------------------------------------
\* The types of the variables; a request is with the limiter exactly as long as
\* the limiter's timer is set.
TypeOK ==
  /\ form \in Traffic /\ limit \in Settings /\ resolverTimeoutMs \in TimeoutSettings
  /\ hasBooted \in BOOLEAN /\ isShuttingDown \in BOOLEAN
  /\ exit \in {"no", "failed", "crashed", "clean"}
  /\ hits \in Nat
  /\ phase \in [Requests -> {"new", "limiting", "admitted", "executing", "finished"}]
  /\ store \in [Requests -> {"idle", "asked", "answered"}]
  /\ timer \in [Requests -> {"off", "set", "fired", "late"}]
  /\ work \in [Requests -> {"none", "working", "done"}]
  /\ field \in [Requests -> {"none", "running", "value", "failed", "timeout"}]
  /\ entries \in [Ids -> {Absent} \cup SUBSET Requests]
  /\ report \in [Requests -> {Absent} \cup SUBSET Requests]
  /\ \A r \in Requests : phase[r] = "limiting" <=> timer[r] = "set"
  /\ answers \in [Requests -> Seq({"429", "404", "errors", "data"})]
  /\ gone \subseteq Requests

\* A client gets one answer, and one that says "Too many requests" means that
\* nothing of the request was done; only a store that answers after the
\* limiter's timeout breaks either (rateLimitHit after next was called).
AnswersAreFinal ==
  \A r \in Requests :
    Len(answers[r]) > 1 \/ (answers[r] # <<>> /\ answers[r][1] = "429" /\ work[r] # "none")
      => timer[r] = "late"

\* The log of a request id lives as long as a request that uses it is executed,
\* except after a result without data; a request with an id of its own that
\* ran to its end reports exactly its own call (the shared map `requests`).
RequestLog ==
  /\ \A i \in Ids : entries[i] # Absent =>
       \E r \in Requests : /\ form[r].id = i
                           /\ phase[r] = "executing" \/ form[r].query = "variables"
  /\ \A r \in Requests :
       /\ field[r] \in {"value", "failed"} /\ phase[r] = "finished"
       /\ \A q \in Requests : form[q].id = form[r].id => q = r
       => report[r] = {r}

\* A clean exit leaves no resolver in the middle of its work, but for those
\* that execution gave up on, those whose client was sent away by a late
\* limiter, and those whose client hung up: the callback of server.shutdown
\* waits for connections, and only an answer still owed keeps one open.
NothingCutOff ==
  exit = "clean" =>
    \A r \in Requests :
      work[r] = "working" => field[r] = "timeout" \/ timer[r] = "late" \/ r \in gone

\* A resolver that nothing gives up on, at the mercy of its service.
Hangs(r) == field[r] = "running" /\ ~HasTimeout(r)

\* Every request that came in is answered unless the process ends first, and
\* a process that was told to end does, though memcached and services hang:
\* always when resolvers have timeouts, and without them as soon as the
\* services of the resolvers that somebody waits for have answered.
NobodyWaitsForever ==
  /\ \A r \in Requests : phase[r] # "new" ~> answers[r] # <<>> \/ exit # "no" \/ Hangs(r)
  /\ isShuttingDown ~> exit # "no" \/ \E r \in Requests : Hangs(r) /\ Open(r)
=============================================================================
