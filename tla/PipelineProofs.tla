--------------------------- MODULE PipelineProofs ---------------------------
(***************************************************************************)
(* The safety properties of Pipeline for any requests, request ids and     *)
(* limits.                                                                 *)
(***************************************************************************)
EXTENDS Pipeline, TLAPS

\* Where a request is, and what the limiter, the resolver and the client have.
\* Only a store that answers after the limiter's timeout (timer "late") may
\* leave a request with an answer that is not its last.
Way(r) ==
  /\ phase[r] = "new" => timer[r] = "off" /\ store[r] = "idle" /\ answers[r] = <<>>
  /\ phase[r] \in {"new", "limiting", "admitted"} => work[r] = "none" /\ field[r] = "none"
  /\ phase[r] = "executing" => work[r] # "none" /\ field[r] # "none"
  /\ timer[r] \in {"set", "fired"} => store[r] = "asked"
  /\ store[r] = "asked" => timer[r] \in {"set", "fired"}
  /\ timer[r] # "late" =>
       IF phase[r] = "finished"
       THEN \E status \in {"429", "404", "errors", "data"} :
              /\ answers[r] = <<status>>
              /\ status = "429" => work[r] = "none"
       ELSE answers[r] = <<>>

\* What execution holds of a resolver, and what the resolver itself does.
Execution(r) ==
  /\ field[r] = "none" <=> work[r] = "none"
  /\ field[r] = "running" => phase[r] = "executing" /\ work[r] = "working"
  /\ field[r] \in {"value", "failed"} => work[r] = "done"

\* Nobody else uses the request's id.
OwnId(r) == \A q \in Requests : form[q].id = form[r].id => q = r

\* The log of an id that one request uses holds the calls of that request.
OwnLog(r) ==
  OwnId(r) =>
    /\ phase[r] = "executing" => entries[form[r].id] = IF work[r] = "done" THEN {r} ELSE {}
    /\ phase[r] = "finished" /\ field[r] \in {"value", "failed"} => report[r] = {r}

\* An entry belongs to a request that is executed or that gave no data.
EntriesInUse ==
  \A i \in Ids : entries[i] # Absent =>
    \E r \in Requests : /\ form[r].id = i
                        /\ phase[r] = "executing" \/ form[r].query = "variables"

IInv ==
  /\ TypeOK
  /\ \A r \in Requests : Way(r)
  /\ \A r \in Requests : Execution(r)
  /\ EntriesInUse
  /\ \A r \in Requests : OwnLog(r)
  /\ NothingCutOff

-----------------------------------------------------------------------------
\* Every request has an id.
LEMMA IdType == ASSUME TypeOK, NEW r \in Requests PROVE form[r].id \in Ids
  BY TrafficAssumption DEF TypeOK

LEMMA LimitType == ASSUME TypeOK PROVE IntWithDefault(limit) \in Nat
  BY SettingsAssumption DEF TypeOK, IntWithDefault

LEMMA InitIInv == Init => IInv
<1> SUFFICES ASSUME Init PROVE IInv
  OBVIOUS
<1>1. hasBooted \in BOOLEAN /\ isShuttingDown \in BOOLEAN
  BY Zenon DEF Init
<1>2. answers \in [Requests -> Seq({"429", "404", "errors", "data"})]
  BY DEF Init
<1>3. TypeOK
  BY <1>1, <1>2 DEF Init, TypeOK
<1> QED
  BY <1>3 DEF Init, IInv, Way, Execution, EntriesInUse, OwnLog, NothingCutOff

\* The steps of the process itself leave every request alone.
LEMMA ProcessIInv ==
  ASSUME IInv, exit = "no", Boot \/ XappError \/ GracefulExit \/ WindowEnds
  PROVE  IInv'
<1>1. UNCHANGED <<form, limit, resolverTimeoutMs, gone, phase, store, timer, work, field,
                  entries, report, answers>>
  BY DEF Boot, XappError, GracefulExit, WindowEnds, given, process, limiter, execution
<1>2. exit' \in {"no", "failed", "crashed"} /\ hits' \in Nat
  BY DEF IInv, TypeOK, Boot, XappError, GracefulExit, WindowEnds, process, limiter
<1>3. hasBooted' \in BOOLEAN /\ isShuttingDown' \in BOOLEAN
  BY Zenon DEF IInv, TypeOK, Boot, XappError, GracefulExit, WindowEnds, process
<1>4. TypeOK'
  BY <1>1, <1>2, <1>3 DEF IInv, TypeOK
<1>5. \A r \in Requests : Way(r)' /\ Execution(r)'
  BY <1>1 DEF IInv, Way, Execution
<1>6. EntriesInUse' /\ \A r \in Requests : OwnLog(r)'
  <2>1. EntriesInUse'
    BY <1>1 DEF IInv, EntriesInUse
  <2>2. \A r \in Requests : OwnLog(r)'
    BY <1>1 DEF IInv, OwnId, OwnLog
  <2> QED
    BY <2>1, <2>2
<1>7. NothingCutOff'
  BY <1>2 DEF NothingCutOff
<1> QED
  BY <1>4, <1>5, <1>6, <1>7 DEF IInv

\* A clean exit: every request that came in has its answer or lost its client.
LEMMA ClosedIInv == ASSUME IInv, exit = "no", Closed PROVE IInv'
<1>1. /\ UNCHANGED <<form, limit, resolverTimeoutMs, gone, phase, store, timer, work, field,
                     entries, report, answers>>
      /\ exit' = "clean"
  BY DEF Closed, given, limiter, execution
<1>2. TypeOK'
  <2>1. UNCHANGED <<hits, hasBooted, isShuttingDown>>
    BY DEF Closed, limiter, process
  <2> QED
    BY <1>1, <2>1 DEF IInv, TypeOK
<1>3. ASSUME NEW r \in Requests, work[r] = "working", timer[r] # "late", r \notin gone
      PROVE  field[r] = "timeout"
  <2>1. Way(r) /\ Execution(r) /\ ~Open(r)
    BY DEF IInv, Closed
  <2>2. phase[r] = "finished"
    BY <1>3, <2>1 DEF IInv, TypeOK, Way, Open
  <2> QED
    BY <1>3, <2>1, <2>2 DEF IInv, TypeOK, Execution
<1>4. \A r \in Requests : Way(r)' /\ Execution(r)'
  BY <1>1 DEF IInv, Way, Execution
<1>5. EntriesInUse' /\ \A r \in Requests : OwnLog(r)'
  <2>1. EntriesInUse'
    BY <1>1 DEF IInv, EntriesInUse
  <2>2. \A r \in Requests : OwnLog(r)'
    BY <1>1 DEF IInv, OwnId, OwnLog
  <2> QED
    BY <2>1, <2>2
<1>6. NothingCutOff'
  BY <1>1, <1>3 DEF NothingCutOff
<1> QED
  BY <1>2, <1>4, <1>5, <1>6 DEF IInv

\* A request and its own limiter, resolver and answers.
Mine(r) == <<phase[r], store[r], timer[r], work[r], field[r], answers[r]>>

\* What a step leaves alone.
LEMMA OtherRequests ==
  ASSUME NEW q \in Requests, Way(q), Execution(q), UNCHANGED Mine(q)
  PROVE  Way(q)' /\ Execution(q)'
  BY DEF Way, Execution, Mine

\* A step of one request that does not end the process cleanly and does not
\* touch the log keeps the invariant if it keeps what is said of that request.
LEMMA RequestStep ==
  ASSUME IInv, NEW r \in Requests, TypeOK', exit' # "clean",
         UNCHANGED <<form, entries, report>>,
         \A q \in Requests \ {r} : UNCHANGED Mine(q),
         Way(r)', Execution(r)', work[r]' = work[r],
         phase[r] = "executing" <=> phase[r]' = "executing",
         phase[r]' = "finished" /\ phase[r] # "finished" => field[r]' \notin {"value", "failed"},
         phase[r]' = "finished" /\ phase[r] = "finished" => field[r]' = field[r]
  PROVE  IInv'
<1>1. \A q \in Requests : Way(q)' /\ Execution(q)'
  BY OtherRequests DEF IInv
<1>2. EntriesInUse'
  BY DEF IInv, EntriesInUse, Mine
<1>3. ASSUME NEW q \in Requests PROVE OwnLog(q)'
  <2>1. OwnLog(q) /\ OwnId(q)' = OwnId(q)
    BY DEF IInv, OwnId
  <2>2. CASE q = r
    BY <2>1, <2>2 DEF OwnLog
  <2>3. CASE q # r
    BY <2>1, <2>3 DEF OwnLog, Mine
  <2> QED
    BY <2>2, <2>3
<1> QED
  BY <1>1, <1>2, <1>3 DEF IInv, NothingCutOff

\* An answer is added to those of its request.
LEMMA Sent ==
  ASSUME TypeOK, NEW r \in Requests, NEW status \in {"429", "404", "errors", "data"},
         Send(r, status)
  PROVE  /\ answers' \in [Requests -> Seq({"429", "404", "errors", "data"})]
         /\ answers[r] = <<>> => answers[r]' = <<status>>
         /\ \A q \in Requests \ {r} : answers[q]' = answers[q]
<1>1. Append(answers[r], status) \in Seq({"429", "404", "errors", "data"})
  BY DEF TypeOK
<1>2. answers' = [answers EXCEPT ![r] = Append(answers[r], status)]
  BY DEF Send
<1>3. answers[r]' = Append(answers[r], status)
  BY <1>2 DEF TypeOK
<1>4. Append(<<>>, status) = <<status>>
  OBVIOUS
<1> QED
  BY <1>1, <1>2, <1>3, <1>4 DEF TypeOK

-----------------------------------------------------------------------------
(* The limiter.                                                            *)

LEMMA ArriveIInv ==
  ASSUME IInv, exit = "no", NEW r \in Requests, Arrive(r)
  PROVE  IInv'
<1> USE DEF Arrive
<1>1. TypeOK /\ Way(r) /\ Execution(r)
  BY DEF IInv
<1>2. UNCHANGED <<form, limit, resolverTimeoutMs, gone, hasBooted, isShuttingDown, work,
                  entries, report>>
  BY DEF given, process, limiter, execution
<1>3. \A q \in Requests \ {r} : UNCHANGED Mine(q)
  BY <1>1, <1>2 DEF TypeOK, Mine, limiter, execution
<1>4. TypeOK'
  BY <1>1, <1>2, LimitType DEF TypeOK, limiter, execution
<1>5. Way(r)'
  BY <1>1, <1>2, LimitType DEF TypeOK, Way, Execution, limiter, execution
<1>6. Execution(r)'
  BY <1>1, <1>2 DEF TypeOK, Way, Execution, limiter, execution
<1>7. /\ exit' # "clean" /\ work[r]' = work[r]
      /\ phase[r] = "executing" <=> phase[r]' = "executing"
      /\ phase[r]' = "finished" /\ phase[r] # "finished" => field[r]' \notin {"value", "failed"}
      /\ phase[r]' = "finished" /\ phase[r] = "finished" => field[r]' = field[r]
  BY <1>1, <1>2 DEF TypeOK, Way, Execution, limiter, execution
<1> QED
  BY <1>2, <1>3, <1>4, <1>5, <1>6, <1>7, RequestStep

LEMMA DisconnectIInv ==
  ASSUME IInv, exit = "no", NEW r \in Requests, Disconnect(r)
  PROVE  IInv'
<1>1. TypeOK /\ Way(r) /\ Execution(r) /\ phase[r] # "new"
  BY DEF IInv, Disconnect, Open
<1>2. /\ UNCHANGED <<form, limit, resolverTimeoutMs, hasBooted, isShuttingDown, exit, hits, phase,
                     store, timer, work, field, entries, report, answers>>
      /\ gone' = gone \cup {r}
  BY DEF Disconnect, given, process, limiter, execution
<1>3. TypeOK'
  BY <1>1, <1>2 DEF TypeOK
<1>4. Way(r)' /\ Execution(r)'
  BY <1>1, <1>2 DEF Way, Execution
<1>5. \A q \in Requests \ {r} : UNCHANGED Mine(q)
  BY <1>2 DEF Mine
<1>6. phase[r]' = "finished" /\ phase[r] # "finished" => field[r]' \notin {"value", "failed"}
  BY <1>2
<1> QED
  BY <1>2, <1>3, <1>4, <1>5, <1>6, RequestStep

LEMMA RequestAllowedIInv ==
  ASSUME IInv, exit = "no", NEW r \in Requests, RequestAllowed(r)
  PROVE  IInv'
<1> USE DEF RequestAllowed, ResetTimer, Admit
<1>1. TypeOK /\ Way(r) /\ Execution(r)
  BY DEF IInv
<1>2. UNCHANGED <<form, limit, resolverTimeoutMs, gone, hasBooted, isShuttingDown, work,
                  entries, report>>
  BY DEF given, process, limiter, execution
<1>3. \A q \in Requests \ {r} : UNCHANGED Mine(q)
  BY <1>1, <1>2 DEF TypeOK, Mine, limiter, execution
<1>4. TypeOK'
  <2>1. hits' \in Nat /\ exit' \in {"no", "crashed"}
    BY <1>1 DEF TypeOK, limiter
  <2>2. answers' \in [Requests -> Seq({"429", "404", "errors", "data"})]
    BY <1>1 DEF TypeOK
  <2>3. phase' \in [Requests -> {"new", "limiting", "admitted", "executing", "finished"}]
    BY <1>1 DEF TypeOK
  <2>4. /\ store' \in [Requests -> {"idle", "asked", "answered"}]
        /\ timer' \in [Requests -> {"off", "set", "fired", "late"}]
    BY <1>1 DEF TypeOK, limiter
  <2>5. \A q \in Requests : phase[q]' = "limiting" <=> timer[q]' = "set"
    BY <1>1 DEF TypeOK, Way, limiter
  <2> QED
    BY <1>1, <1>2, <2>1, <2>2, <2>3, <2>4, <2>5 DEF TypeOK, execution
<1>5. Way(r)'
  BY <1>1, <1>2, LimitType DEF TypeOK, Way, Execution, limiter, execution
<1>6. Execution(r)'
  BY <1>1, <1>2 DEF TypeOK, Way, Execution, limiter, execution
<1>7. /\ exit' # "clean" /\ work[r]' = work[r]
      /\ phase[r] = "executing" <=> phase[r]' = "executing"
      /\ phase[r]' = "finished" /\ phase[r] # "finished" => field[r]' \notin {"value", "failed"}
      /\ phase[r]' = "finished" /\ phase[r] = "finished" => field[r]' = field[r]
  BY <1>1, <1>2 DEF TypeOK, Way, Execution, limiter, execution
<1> QED
  BY <1>2, <1>3, <1>4, <1>5, <1>6, <1>7, RequestStep

LEMMA RateLimitHitIInv ==
  ASSUME IInv, exit = "no", NEW r \in Requests, RateLimitHit(r)
  PROVE  IInv'
<1> USE DEF RateLimitHit, ResetTimer
<1>1. TypeOK /\ Way(r) /\ Execution(r)
  BY DEF IInv
<1>2. UNCHANGED <<form, limit, resolverTimeoutMs, gone, hasBooted, isShuttingDown, work,
                  entries, report>>
  BY DEF given, process, limiter, execution
<1>3. \A q \in Requests \ {r} : UNCHANGED Mine(q)
  BY <1>1, <1>2, Sent DEF TypeOK, Mine, limiter, execution
<1>4. TypeOK'
  <2>1. hits' \in Nat /\ exit' \in {"no", "crashed"}
    BY <1>1 DEF TypeOK, limiter
  <2>2. answers' \in [Requests -> Seq({"429", "404", "errors", "data"})]
    BY <1>1, Sent
  <2>3. phase' \in [Requests -> {"new", "limiting", "admitted", "executing", "finished"}]
    BY <1>1 DEF TypeOK
  <2>4. /\ store' \in [Requests -> {"idle", "asked", "answered"}]
        /\ timer' \in [Requests -> {"off", "set", "fired", "late"}]
    BY <1>1 DEF TypeOK, limiter
  <2>5. \A q \in Requests : phase[q]' = "limiting" <=> timer[q]' = "set"
    BY <1>1 DEF TypeOK, Way, limiter
  <2> QED
    BY <1>1, <1>2, <2>1, <2>2, <2>3, <2>4, <2>5 DEF TypeOK, execution
<1>5. Way(r)'
  <2>1. CASE timer[r] = "set"
    <3>1. phase[r] = "limiting" /\ answers[r] = <<>>
      BY <1>1, <2>1 DEF TypeOK, Way
    <3>2. phase[r]' = "finished" /\ answers[r]' = <<"429">>
      BY <1>1, <3>1, Sent DEF TypeOK
    <3>3. timer[r]' = "off" /\ store[r]' = "answered" /\ work[r]' = "none"
      BY <1>1, <1>2, <2>1 DEF TypeOK, Way
    <3> QED
      BY <3>2, <3>3 DEF Way
  <2>2. CASE timer[r] # "set"
    <3>1. timer[r]' = "late" /\ store[r]' = "answered" /\ phase[r]' = phase[r]
      BY <1>1, <2>2 DEF TypeOK
    <3> QED
      BY <1>1, <1>2, <3>1, <2>2 DEF TypeOK, Way, execution
  <2> QED
    BY <2>1, <2>2
<1>6. Execution(r)'
  BY <1>1, <1>2 DEF TypeOK, Way, Execution, limiter, execution
<1>7. /\ exit' # "clean" /\ work[r]' = work[r]
      /\ phase[r] = "executing" <=> phase[r]' = "executing"
      /\ phase[r]' = "finished" /\ phase[r] # "finished" => field[r]' \notin {"value", "failed"}
      /\ phase[r]' = "finished" /\ phase[r] = "finished" => field[r]' = field[r]
  BY <1>1, <1>2 DEF TypeOK, Way, Execution, limiter, execution
<1> QED
  BY <1>2, <1>3, <1>4, <1>5, <1>6, <1>7, RequestStep

LEMMA LimiterTimeoutIInv ==
  ASSUME IInv, exit = "no", NEW r \in Requests, LimiterTimeout(r)
  PROVE  IInv'
<1> USE DEF LimiterTimeout, Admit
<1>1. TypeOK /\ Way(r) /\ Execution(r)
  BY DEF IInv
<1>2. UNCHANGED <<form, limit, resolverTimeoutMs, gone, hasBooted, isShuttingDown, work,
                  entries, report>>
  BY DEF given, process, limiter, execution
<1>3. \A q \in Requests \ {r} : UNCHANGED Mine(q)
  BY <1>1, <1>2 DEF TypeOK, Mine, limiter, execution
<1>4. TypeOK'
  BY <1>1, <1>2, LimitType DEF TypeOK, limiter, execution
<1>5. Way(r)'
  BY <1>1, <1>2, LimitType DEF TypeOK, Way, Execution, limiter, execution
<1>6. Execution(r)'
  BY <1>1, <1>2 DEF TypeOK, Way, Execution, limiter, execution
<1>7. /\ exit' # "clean" /\ work[r]' = work[r]
      /\ phase[r] = "executing" <=> phase[r]' = "executing"
      /\ phase[r]' = "finished" /\ phase[r] # "finished" => field[r]' \notin {"value", "failed"}
      /\ phase[r]' = "finished" /\ phase[r] = "finished" => field[r]' = field[r]
  BY <1>1, <1>2 DEF TypeOK, Way, Execution, limiter, execution
<1> QED
  BY <1>2, <1>3, <1>4, <1>5, <1>6, <1>7, RequestStep

LEMMA TurnAwayIInv ==
  ASSUME IInv, exit = "no", NEW r \in Requests, TurnAway(r)
  PROVE  IInv'
<1> USE DEF TurnAway
<1>1. TypeOK /\ Way(r) /\ Execution(r)
  BY DEF IInv
<1>2. UNCHANGED <<form, limit, resolverTimeoutMs, gone, hasBooted, isShuttingDown, work,
                  entries, report>>
  BY DEF given, process, limiter, execution
<1>3. \A q \in Requests \ {r} : UNCHANGED Mine(q)
  BY <1>1, <1>2, Sent DEF TypeOK, Mine, limiter, execution
<1>4. TypeOK'
  <2>1. hits' \in Nat /\ exit' \in {"no", "crashed"}
    BY <1>1 DEF TypeOK, limiter
  <2>2. answers' \in [Requests -> Seq({"429", "404", "errors", "data"})]
    BY <1>1, Sent
  <2>3. phase' \in [Requests -> {"new", "limiting", "admitted", "executing", "finished"}]
    BY <1>1 DEF TypeOK
  <2>4. /\ store' \in [Requests -> {"idle", "asked", "answered"}]
        /\ timer' \in [Requests -> {"off", "set", "fired", "late"}]
    BY <1>1 DEF TypeOK, limiter
  <2>5. \A q \in Requests : phase[q]' = "limiting" <=> timer[q]' = "set"
    BY <1>1 DEF TypeOK, Way, limiter
  <2> QED
    BY <1>1, <1>2, <2>1, <2>2, <2>3, <2>4, <2>5 DEF TypeOK, execution
<1>5. Way(r)'
  <2>1. /\ phase[r]' = "finished" /\ work[r]' = "none"
        /\ UNCHANGED <<timer, store, field>>
    BY <1>1, <1>2 DEF TypeOK, Way, limiter, execution
  <2>2. timer[r] # "late" => answers[r]' \in {<<"404">>, <<"errors">>}
    BY <1>1, Sent DEF Way
  <2> QED
    BY <1>1, <2>1, <2>2 DEF Way
<1>6. Execution(r)'
  BY <1>1, <1>2 DEF TypeOK, Way, Execution, limiter, execution
<1>7. /\ exit' # "clean" /\ work[r]' = work[r]
      /\ phase[r] = "executing" <=> phase[r]' = "executing"
      /\ phase[r]' = "finished" /\ phase[r] # "finished" => field[r]' \notin {"value", "failed"}
      /\ phase[r]' = "finished" /\ phase[r] = "finished" => field[r]' = field[r]
  BY <1>1, <1>2 DEF TypeOK, Way, Execution, limiter, execution
<1> QED
  BY <1>2, <1>3, <1>4, <1>5, <1>6, <1>7, RequestStep

LEMMA ResolverTimeoutIInv ==
  ASSUME IInv, exit = "no", NEW r \in Requests, ResolverTimeout(r)
  PROVE  IInv'
<1> USE DEF ResolverTimeout
<1>1. TypeOK /\ Way(r) /\ Execution(r)
  BY DEF IInv
<1>2. UNCHANGED <<form, limit, resolverTimeoutMs, gone, hasBooted, isShuttingDown, work,
                  entries, report>>
  BY DEF given, process, limiter, execution
<1>3. \A q \in Requests \ {r} : UNCHANGED Mine(q)
  BY <1>1, <1>2 DEF TypeOK, Mine, limiter, execution
<1>4. TypeOK'
  BY <1>1, <1>2, LimitType DEF TypeOK, limiter, execution
<1>5. Way(r)'
  BY <1>1, <1>2, LimitType DEF TypeOK, Way, Execution, limiter, execution
<1>6. Execution(r)'
  BY <1>1, <1>2 DEF TypeOK, Way, Execution, limiter, execution
<1>7. /\ exit' # "clean" /\ work[r]' = work[r]
      /\ phase[r] = "executing" <=> phase[r]' = "executing"
      /\ phase[r]' = "finished" /\ phase[r] # "finished" => field[r]' \notin {"value", "failed"}
      /\ phase[r]' = "finished" /\ phase[r] = "finished" => field[r]' = field[r]
  BY <1>1, <1>2 DEF TypeOK, Way, Execution, limiter, execution
<1> QED
  BY <1>2, <1>3, <1>4, <1>5, <1>6, <1>7, RequestStep

-----------------------------------------------------------------------------
(* Execution and its log.                                                  *)

LEMMA ExecuteIInv ==
  ASSUME IInv, exit = "no", NEW r \in Requests, Execute(r)
  PROVE  IInv'
<1> DEFINE id == form[r].id
           bad == form[r].query = "variables"
<1>1. TypeOK /\ Way(r) /\ Execution(r) /\ id \in Ids /\ phase[r] = "admitted"
  BY IdType DEF IInv, Execute
<1>2. /\ UNCHANGED <<form, limit, resolverTimeoutMs, gone, exit, hasBooted, isShuttingDown,
                     hits, store, timer, report>>
      /\ entries' = [entries EXCEPT ![id] = {}]
      /\ phase' = [phase EXCEPT ![r] = IF bad THEN "finished" ELSE "executing"]
      /\ work' = IF bad THEN work ELSE [work EXCEPT ![r] = "working"]
      /\ field' = IF bad THEN field ELSE [field EXCEPT ![r] = "running"]
      /\ IF bad THEN Send(r, "errors") ELSE UNCHANGED answers
  BY DEF Execute, FetchLoggerSetup, given, process, limiter
<1>3. \A q \in Requests \ {r} : UNCHANGED Mine(q)
  BY <1>1, <1>2, Sent DEF TypeOK, Mine
<1>4. TypeOK'
  <2>1. answers' \in [Requests -> Seq({"429", "404", "errors", "data"})]
    BY <1>1, <1>2, Sent DEF TypeOK
  <2>2. entries' \in [Ids -> {Absent} \cup SUBSET Requests]
    BY <1>1, <1>2 DEF TypeOK
  <2>3. \A q \in Requests : phase[q]' = "limiting" <=> timer[q]' = "set"
    BY <1>1, <1>2 DEF TypeOK
  <2> QED
    BY <1>1, <1>2, <2>1, <2>2, <2>3 DEF TypeOK
<1>5. Way(r)' /\ Execution(r)'
  <2>1. timer[r] # "late" /\ bad => answers[r]' = <<"errors">>
    BY <1>1, <1>2, Sent DEF Way
  <2>2. work[r] = "none" /\ field[r] = "none"
    BY <1>1 DEF Way
  <2>3. CASE bad
    BY <1>1, <1>2, <2>1, <2>2, <2>3 DEF TypeOK, Way, Execution
  <2>4. CASE ~bad
    BY <1>1, <1>2, <2>2, <2>4 DEF TypeOK, Way, Execution
  <2> QED
    BY <2>3, <2>4
<1>6. \A q \in Requests : Way(q)' /\ Execution(q)'
  BY <1>3, <1>5, OtherRequests DEF IInv
<1>7. EntriesInUse'
  <2> SUFFICES ASSUME NEW i \in Ids, entries[i]' # Absent
               PROVE  \E q \in Requests : /\ form[q].id = i
                                          /\ phase[q]' = "executing" \/ form[q].query = "variables"
    BY <1>2 DEF EntriesInUse
  <2>1. CASE i = id
    BY <1>1, <1>2, <2>1 DEF TypeOK
  <2>2. CASE i # id
    BY <1>1, <1>2, <2>2 DEF IInv, TypeOK, EntriesInUse
  <2> QED
    BY <2>1, <2>2
<1>8. ASSUME NEW q \in Requests PROVE OwnLog(q)'
  <2> SUFFICES ASSUME OwnId(q)
               PROVE  /\ phase[q]' = "executing" =>
                           entries[form[q].id]' = IF work[q]' = "done" THEN {q} ELSE {}
                      /\ phase[q]' = "finished" /\ field[q]' \in {"value", "failed"} =>
                           report[q]' = {q}
    BY <1>2 DEF OwnLog, OwnId
  <2>1. CASE q = r
    BY <1>1, <1>2, <2>1 DEF TypeOK, Way
  <2>2. CASE q # r
    <3>1. form[q].id \in Ids /\ form[q].id # id
      BY <1>1, <2>2, IdType DEF OwnId
    <3>2. entries[form[q].id]' = entries[form[q].id] /\ report[q]' = report[q]
      BY <1>1, <1>2, <3>1 DEF TypeOK
    <3> QED
      BY <1>3, <2>2, <3>2, SMTT(30) DEF IInv, OwnLog, Mine
  <2> QED
    BY <2>1, <2>2
<1> QED
  BY <1>2, <1>4, <1>6, <1>7, <1>8 DEF IInv, NothingCutOff

LEMMA ResolverDoneIInv ==
  ASSUME IInv, exit = "no", NEW r \in Requests, ResolverDone(r)
  PROVE  IInv'
<1> DEFINE id == form[r].id
<1>1. TypeOK /\ Way(r) /\ Execution(r) /\ id \in Ids /\ work[r] = "working"
  BY IdType DEF IInv, ResolverDone
<1>2. PICK outcome \in {"value", "failed"} :
        field' = [field EXCEPT ![r] = IF @ = "running" THEN outcome ELSE @]
  BY DEF ResolverDone
<1>3. /\ UNCHANGED <<form, limit, resolverTimeoutMs, gone, exit, hasBooted, isShuttingDown,
                     hits, phase, store, timer, report, answers>>
      /\ entries' = [entries EXCEPT ![id] = IF @ = Absent THEN Absent ELSE @ \cup {r}]
      /\ work' = [work EXCEPT ![r] = "done"]
  BY DEF ResolverDone, ExtensionsLogger, given, process, limiter
<1>4. \A q \in Requests \ {r} : UNCHANGED Mine(q)
  BY <1>1, <1>2, <1>3 DEF TypeOK, Mine
<1>5. TypeOK'
  <2>1. entries' \in [Ids -> {Absent} \cup SUBSET Requests]
    BY <1>1, <1>3 DEF TypeOK
  <2> QED
    BY <1>1, <1>2, <1>3, <2>1 DEF TypeOK
<1>6. Way(r)'
  BY <1>1, <1>2, <1>3 DEF TypeOK, Way, Execution
<1>7. Execution(r)'
  BY <1>1, <1>2, <1>3 DEF TypeOK, Execution
<1>8. \A q \in Requests : Way(q)' /\ Execution(q)'
  BY <1>4, <1>6, <1>7, OtherRequests DEF IInv
<1>9. EntriesInUse'
  <2> SUFFICES ASSUME NEW i \in Ids, entries[i]' # Absent
               PROVE  \E q \in Requests : /\ form[q].id = i
                                          /\ phase[q] = "executing" \/ form[q].query = "variables"
    BY <1>3 DEF EntriesInUse
  <2>1. entries[i] # Absent
    BY <1>1, <1>3 DEF TypeOK
  <2> QED
    BY <2>1 DEF IInv, EntriesInUse
<1>10. ASSUME NEW q \in Requests PROVE OwnLog(q)'
  <2> SUFFICES ASSUME OwnId(q)
               PROVE  /\ phase[q] = "executing" =>
                           entries[form[q].id]' = IF work[q]' = "done" THEN {q} ELSE {}
                      /\ phase[q] = "finished" /\ field[q]' \in {"value", "failed"} =>
                           report[q] = {q}
    BY <1>3 DEF OwnLog, OwnId
  <2>0. OwnLog(q)
    BY DEF IInv
  <2>1. CASE q = r
    <3>1. phase[r] = "executing" => entries[id] = {}
      BY <1>1, <2>0, <2>1 DEF OwnLog
    <3>2. phase[r] = "executing" => entries[id]' = {r}
      BY <1>1, <1>3, <3>1, AbsentAssumption DEF TypeOK
    <3>3. phase[r] = "finished" => field[r]' \notin {"value", "failed"}
      BY <1>1, <1>2 DEF TypeOK, Execution
    <3>4. work[r]' = "done"
      BY <1>1, <1>3 DEF TypeOK
    <3> QED
      BY <2>1, <3>2, <3>3, <3>4
  <2>2. CASE q # r
    <3>1. form[q].id \in Ids /\ form[q].id # id
      BY <1>1, <2>2, IdType DEF OwnId
    <3>2. entries[form[q].id]' = entries[form[q].id]
      BY <1>1, <1>3, <3>1 DEF TypeOK
    <3> QED
      BY <1>4, <2>0, <2>2, <3>2 DEF OwnLog, Mine
  <2> QED
    BY <2>1, <2>2
<1> QED
  BY <1>3, <1>5, <1>8, <1>9, <1>10 DEF IInv, NothingCutOff

LEMMA RespondIInv ==
  ASSUME IInv, exit = "no", NEW r \in Requests, Respond(r)
  PROVE  IInv'
<1> DEFINE id == form[r].id
<1>1. /\ TypeOK /\ Way(r) /\ Execution(r) /\ id \in Ids
      /\ phase[r] = "executing" /\ field[r] # "running"
  BY IdType DEF IInv, Respond
<1>2. PICK status \in {"data", "errors"} : Send(r, status)
  BY DEF Respond
<1>3. /\ UNCHANGED <<form, limit, resolverTimeoutMs, gone, exit, hasBooted, isShuttingDown,
                     hits, store, timer, work, field>>
      /\ phase' = [phase EXCEPT ![r] = "finished"]
      /\ report' = [report EXCEPT ![r] = entries[id]]
      /\ entries' = [entries EXCEPT ![id] = Absent]
  BY DEF Respond, FetchLoggerRequestDone, given, process, limiter
<1>4. \A q \in Requests \ {r} : UNCHANGED Mine(q)
  BY <1>1, <1>2, <1>3, Sent DEF TypeOK, Mine
<1>5. TypeOK'
  <2>1. answers' \in [Requests -> Seq({"429", "404", "errors", "data"})]
    BY <1>1, <1>2, Sent
  <2>2. entries' \in [Ids -> {Absent} \cup SUBSET Requests]
    BY <1>1, <1>3 DEF TypeOK
  <2>3. report' \in [Requests -> {Absent} \cup SUBSET Requests]
    BY <1>1, <1>3 DEF TypeOK
  <2> QED
    BY <1>1, <1>3, <2>1, <2>2, <2>3 DEF TypeOK
<1>6. Way(r)'
  <2>1. timer[r] # "late" => answers[r]' = <<status>>
    BY <1>1, <1>2, Sent DEF Way
  <2>2. phase[r]' = "finished"
    BY <1>1, <1>3 DEF TypeOK
  <2> QED
    BY <1>1, <1>2, <1>3, <2>1, <2>2 DEF Way
<1>7. Execution(r)'
  BY <1>1, <1>3 DEF TypeOK, Execution
<1>8. \A q \in Requests : Way(q)' /\ Execution(q)'
  BY <1>4, <1>6, <1>7, OtherRequests DEF IInv
<1>9. EntriesInUse'
  <2> SUFFICES ASSUME NEW i \in Ids, entries[i]' # Absent
               PROVE  \E q \in Requests : /\ form[q].id = i
                                          /\ phase[q]' = "executing" \/ form[q].query = "variables"
    BY <1>3 DEF EntriesInUse
  <2>1. i # id /\ entries[i] # Absent
    BY <1>1, <1>3 DEF TypeOK
  <2>2. PICK q \in Requests : /\ form[q].id = i
                              /\ phase[q] = "executing" \/ form[q].query = "variables"
    BY <2>1 DEF IInv, EntriesInUse
  <2>3. phase[q]' = phase[q]
    BY <1>4, <2>1, <2>2 DEF Mine
  <2> QED
    BY <2>2, <2>3
<1>10. ASSUME NEW q \in Requests PROVE OwnLog(q)'
  <2> SUFFICES ASSUME OwnId(q)
               PROVE  /\ phase[q]' = "executing" =>
                           entries[form[q].id]' = IF work[q] = "done" THEN {q} ELSE {}
                      /\ phase[q]' = "finished" /\ field[q] \in {"value", "failed"} =>
                           report[q]' = {q}
    BY <1>3 DEF OwnLog, OwnId
  <2>0. OwnLog(q)
    BY DEF IInv
  <2>1. CASE q = r
    <3>1. phase[r]' = "finished" /\ report[r]' = entries[id]
      BY <1>1, <1>3 DEF TypeOK
    <3>2. field[r] \in {"value", "failed"} => entries[id] = {r}
      BY <1>1, <2>0, <2>1 DEF OwnLog, Execution
    <3> QED
      BY <2>1, <3>1, <3>2
  <2>2. CASE q # r
    <3>1. form[q].id \in Ids /\ form[q].id # id
      BY <1>1, <2>2, IdType DEF OwnId
    <3>2. entries[form[q].id]' = entries[form[q].id] /\ report[q]' = report[q]
      BY <1>1, <1>3, <2>2, <3>1 DEF TypeOK
    <3> QED
      BY <1>4, <2>0, <2>2, <3>2 DEF OwnLog, Mine
  <2> QED
    BY <2>1, <2>2
<1> QED
  BY <1>3, <1>5, <1>8, <1>9, <1>10 DEF IInv, NothingCutOff

LEMMA StutterIInv == ASSUME IInv, UNCHANGED vars PROVE IInv'
<1>1. TypeOK'
  BY DEF IInv, TypeOK, vars
<1>2. \A r \in Requests : Way(r)' /\ Execution(r)'
  BY DEF IInv, Way, Execution, vars
<1>3. EntriesInUse'
  BY DEF IInv, EntriesInUse, vars
<1>4. \A r \in Requests : OwnLog(r)'
  BY DEF IInv, OwnId, OwnLog, vars
<1>5. NothingCutOff'
  BY DEF IInv, NothingCutOff, vars
<1> QED
  BY <1>1, <1>2, <1>3, <1>4, <1>5 DEF IInv

-----------------------------------------------------------------------------
\* What is said above of requests, execution and the log holds in every
\* reachable state, for any number of requests, ids and any limit.
THEOREM PipelineInvariance == Spec => []IInv
<1>1. ASSUME IInv, Next PROVE IInv'
  <2>1. exit = "no"
    BY <1>1 DEF Next
  <2>2. CASE Boot \/ XappError \/ GracefulExit \/ WindowEnds
    BY <1>1, <2>1, <2>2, ProcessIInv
  <2>3. CASE Closed
    BY <1>1, <2>1, <2>3, ClosedIInv
  <2>4. ASSUME NEW r \in Requests, Step(r) PROVE IInv'
    BY <1>1, <2>1, <2>4, ArriveIInv, DisconnectIInv, RequestAllowedIInv, RateLimitHitIInv,
       LimiterTimeoutIInv, TurnAwayIInv, ExecuteIInv, ResolverDoneIInv, ResolverTimeoutIInv,
       RespondIInv DEF Step
  <2> QED
    BY <1>1, <2>2, <2>3, <2>4 DEF Next
<1> QED
  BY <1>1, InitIInv, StutterIInv, PTL DEF Spec

\* Types are kept, and a request is with the limiter exactly as long as the
\* limiter's timer is set.
THEOREM PipelineTypeCorrect == Spec => []TypeOK
  BY PipelineInvariance, PTL DEF IInv

\* One answer for each request, and nothing done after "Too many requests",
\* unless the store answered after the limiter's timeout.
THEOREM OneAnswerEach == Spec => []AnswersAreFinal
<1>1. IInv => AnswersAreFinal
  <2> SUFFICES ASSUME IInv, NEW r \in Requests, timer[r] # "late"
               PROVE  /\ Len(answers[r]) <= 1
                      /\ answers[r] # <<>> /\ answers[r][1] = "429" => work[r] = "none"
    BY DEF IInv, TypeOK, AnswersAreFinal
  <2>1. Way(r)
    BY DEF IInv
  <2>2. CASE answers[r] = <<>>
    BY <2>2
  <2>3. CASE \E status \in {"429", "404", "errors", "data"} :
               answers[r] = <<status>> /\ (status = "429" => work[r] = "none")
    BY <2>3
  <2> QED
    BY <2>1, <2>2, <2>3 DEF Way
<1> QED
  BY <1>1, PipelineInvariance, PTL

\* The shared log keeps no entry of a request that ended with data, and reports
\* exactly a request's own calls if the request's id is its own.
THEOREM LogIsClean == Spec => []RequestLog
<1>1. IInv => RequestLog
  BY DEF IInv, EntriesInUse, OwnLog, OwnId, RequestLog
<1> QED
  BY <1>1, PipelineInvariance, PTL

\* A clean exit cuts no resolver off that a client still waits for.
THEOREM CleanExit == Spec => []NothingCutOff
  BY PipelineInvariance, PTL DEF IInv
=============================================================================
