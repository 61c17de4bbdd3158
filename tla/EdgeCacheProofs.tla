--------------------------- MODULE EdgeCacheProofs ---------------------------
(***************************************************************************)
(* Proofs about the edge cache, for any number of requests, bodies, users  *)
(* and ages.  IInv adds to the type invariant where each kind of request   *)
(* can be (FlowInv), what travels from the origin to the cache (DataInv)   *)
(* and how old it can be there (AgeInv).                                   *)
(***************************************************************************)
EXTENDS EdgeCache, TLAPS

\* Only a cacheable request looks into the cache or puts something in it, and
\* a put is under way only after the response.
FlowInv ==
  \A r \in Requests :
    /\ phase[r] # "idle" => ask[r] \in Asks
    /\ phase[r] = "matching" => Cacheable(ask[r])
    /\ phase[r] # "done" => putting[r] = None /\ reply[r] = None /\ ~hit[r]
    /\ putting[r] # None => Cacheable(ask[r]) /\ putting[r].body = ask[r].body
    /\ hit[r] => Cacheable(ask[r])

\* What the cache holds, what is put in it and what is returned.
DataInv == CacheIsShareable /\ RepliesAreOwn

\* How the times of answers, requests and entries are related.
AgeInv ==
  /\ \A r \in Requests :
       /\ since[r] <= now
       /\ reply[r] # None /\ ~hit[r] => reply[r].at >= since[r]
       /\ putting[r] # None => putting[r].at <= now /\ now <= putting[r].at + PutDelay
  /\ \A b \in Bodies : cache[b] # None =>
       /\ cache[b].putAt <= cache[b].answer.at + PutDelay
       /\ cache[b].maxAge <= LongestAge

IInv == TypeOK /\ FlowInv /\ DataInv /\ AgeInv

\* What the age a request states, or leaves out, comes to.
LEMMA AgeOfRequest ==
  ASSUME NEW q \in Asks
  PROVE  MaxAge(q) \in Nat /\ MaxAge(q) <= LongestAge
  BY EdgeAssumption DEF MaxAge, RequestRecords

\* Every request has the fields of a request.
LEMMA RequestFields ==
  ASSUME NEW q \in Asks
  PROVE  q.body \in Bodies /\ q.user \in Users \cup {Anonymous}
  BY EdgeAssumption DEF RequestRecords

\* The initial states.
LEMMA InitIInv == Init => IInv
  BY EdgeAssumption
  DEF Init, IInv, TypeOK, FlowInv, DataInv, CacheIsShareable, RepliesAreOwn, AgeInv

\* The type invariant and the flow of requests, step by step.
LEMMA StepFlow ==
  ASSUME IInv, [Next]_vars
  PROVE  TypeOK' /\ FlowInv'
<1> USE EdgeAssumption DEF IInv, TypeOK, FlowInv
<1>1. ASSUME NEW r \in Requests, NEW q \in Asks, Receive(r, q)
      PROVE  TypeOK' /\ FlowInv'
  BY <1>1 DEF Receive, Start, Cacheable
<1>2. ASSUME NEW r \in Requests, Hit(r)
      PROVE  TypeOK' /\ FlowInv'
  <2>1. Key(ask[r]) \in Bodies
    BY <1>2, RequestFields DEF Hit, Key
  <2>2. cache[Key(ask[r])].answer \in Answers
    BY <1>2, <2>1 DEF Hit, Fresh
  <2> QED
    BY <1>2, <2>2 DEF Hit
<1>3. ASSUME NEW r \in Requests, Miss(r)
      PROVE  TypeOK' /\ FlowInv'
  BY <1>3 DEF Miss
<1>4. ASSUME NEW r \in Requests, NEW clean \in BOOLEAN, OriginAnswers(r, clean)
      PROVE  TypeOK' /\ FlowInv'
  <2> DEFINE answer == [body |-> ask[r].body, user |-> ask[r].user, at |-> now, clean |-> clean]
  <2>1. ask[r] \in Asks
    BY <1>4 DEF OriginAnswers
  <2>2. answer \in Answers /\ answer.body = ask[r].body
    BY <2>1, RequestFields DEF Answers
  <2> HIDE DEF answer
  <2>3. /\ reply' = [reply EXCEPT ![r] = answer]
        /\ putting' = [putting EXCEPT ![r] = IF Stores(ask[r], answer) THEN answer ELSE None]
        /\ phase' = [phase EXCEPT ![r] = "done"]
        /\ UNCHANGED <<now, ask, since, hit, cache>>
    BY <1>4 DEF OriginAnswers, answer
  <2>4. TypeOK'
    BY <2>2, <2>3
  <2>5. FlowInv'
    BY <2>1, <2>2, <2>3 DEF Stores, Cacheable
  <2> QED
    BY <2>4, <2>5
<1>5. ASSUME NEW r \in Requests, Throws(r)
      PROVE  TypeOK' /\ FlowInv'
  BY <1>5 DEF Throws
<1>6. ASSUME NEW r \in Requests, Put(r)
      PROVE  TypeOK' /\ FlowInv'
  <2>1. ask[r] \in Asks /\ putting[r] \in Answers
    BY <1>6 DEF Put
  <2>2. Key(ask[r]) \in Bodies /\ MaxAge(ask[r]) \in Nat
    BY <2>1, RequestFields, AgeOfRequest DEF Key
  <2>3. Entry(putting[r], MaxAge(ask[r])) \in [answer : Answers, putAt : 0..MaxTime, maxAge : Nat]
    BY <2>1, <2>2 DEF Entry
  <2> QED
    BY <1>6, <2>2, <2>3 DEF Put
<1>7. ASSUME NEW r \in Requests, PutLost(r)
      PROVE  TypeOK' /\ FlowInv'
  BY <1>7 DEF PutLost
<1>8. ASSUME NEW b \in Bodies, Evict(b)
      PROVE  TypeOK' /\ FlowInv'
  BY <1>8 DEF Evict
<1>9. CASE Tick
  BY <1>9 DEF Tick
<1>10. CASE UNCHANGED vars
  BY <1>10 DEF vars, Cacheable
<1> QED
  BY <1>1, <1>2, <1>3, <1>4, <1>5, <1>6, <1>7, <1>8, <1>9, <1>10 DEF Next

\* What is held and returned, step by step.
LEMMA StepData ==
  ASSUME IInv, [Next]_vars
  PROVE  DataInv'
<1> USE EdgeAssumption DEF IInv, TypeOK, FlowInv, DataInv, CacheIsShareable, RepliesAreOwn
<1>1. ASSUME NEW r \in Requests, NEW q \in Asks, Receive(r, q)
      PROVE  DataInv'
  BY <1>1 DEF Receive
<1>2. ASSUME NEW r \in Requests, Hit(r)
      PROVE  DataInv'
  <2>1. Key(ask[r]) = ask[r].body /\ ask[r].body \in Bodies /\ ask[r].user = Anonymous
    BY <1>2, RequestFields DEF Hit, Key, Cacheable
  <2>2. /\ cache[ask[r].body].answer.body = ask[r].body
        /\ cache[ask[r].body].answer.user = ask[r].user
        /\ cache[ask[r].body].answer.clean
    BY <1>2, <2>1 DEF Hit, Fresh
  <2> QED
    BY <1>2, <2>1, <2>2 DEF Hit
<1>3. ASSUME NEW r \in Requests, Miss(r)
      PROVE  DataInv'
  BY <1>3 DEF Miss
<1>4. ASSUME NEW r \in Requests, NEW clean \in BOOLEAN, OriginAnswers(r, clean)
      PROVE  DataInv'
  BY <1>4 DEF OriginAnswers, Stores, Cacheable
<1>5. ASSUME NEW r \in Requests, Throws(r)
      PROVE  DataInv'
  BY <1>5 DEF Throws
<1>6. ASSUME NEW r \in Requests, Put(r)
      PROVE  DataInv'
  <2>1. Key(ask[r]) = ask[r].body /\ putting[r].body = ask[r].body
    BY <1>6 DEF Put, Key
  <2> QED
    BY <1>6, <2>1 DEF Put, Entry
<1>7. ASSUME NEW r \in Requests, PutLost(r)
      PROVE  DataInv'
  BY <1>7 DEF PutLost
<1>8. ASSUME NEW b \in Bodies, Evict(b)
      PROVE  DataInv'
  BY <1>8 DEF Evict
<1>9. CASE Tick
  BY <1>9 DEF Tick
<1>10. CASE UNCHANGED vars
  BY <1>10 DEF vars
<1> QED
  BY <1>1, <1>2, <1>3, <1>4, <1>5, <1>6, <1>7, <1>8, <1>9, <1>10 DEF Next

\* Times, step by step.
LEMMA StepAge ==
  ASSUME IInv, [Next]_vars
  PROVE  AgeInv'
<1> USE EdgeAssumption DEF IInv, TypeOK, FlowInv, AgeInv
<1>1. ASSUME NEW r \in Requests, NEW q \in Asks, Receive(r, q)
      PROVE  AgeInv'
  BY <1>1 DEF Receive
<1>2. ASSUME NEW r \in Requests, Hit(r)
      PROVE  AgeInv'
  BY <1>2 DEF Hit
<1>3. ASSUME NEW r \in Requests, Miss(r)
      PROVE  AgeInv'
  BY <1>3 DEF Miss
<1>4. ASSUME NEW r \in Requests, NEW clean \in BOOLEAN, OriginAnswers(r, clean)
      PROVE  AgeInv'
  BY <1>4 DEF OriginAnswers
<1>5. ASSUME NEW r \in Requests, Throws(r)
      PROVE  AgeInv'
  BY <1>5 DEF Throws
<1>6. ASSUME NEW r \in Requests, Put(r)
      PROVE  AgeInv'
  <2>1. MaxAge(ask[r]) <= LongestAge
    BY <1>6, AgeOfRequest DEF Put
  <2>2. now <= putting[r].at + PutDelay
    BY <1>6 DEF Put
  <2> QED
    BY <1>6, <2>1, <2>2 DEF Put, Entry
<1>7. ASSUME NEW r \in Requests, PutLost(r)
      PROVE  AgeInv'
  BY <1>7 DEF PutLost
<1>8. ASSUME NEW b \in Bodies, Evict(b)
      PROVE  AgeInv'
  BY <1>8 DEF Evict
<1>9. CASE Tick
  BY <1>9 DEF Tick, Answers
<1>10. CASE UNCHANGED vars
  BY <1>10 DEF vars
<1> QED
  BY <1>1, <1>2, <1>3, <1>4, <1>5, <1>6, <1>7, <1>8, <1>9, <1>10 DEF Next

\* The invariant of the edge cache is inductive.
THEOREM EdgeInvariance == Spec => []IInv
<1>1. IInv /\ [Next]_vars => IInv'
  BY StepFlow, StepData, StepAge DEF IInv
<1> QED
  BY InitIInv, <1>1, PTL DEF Spec

-----------------------------------------------------------------------------
\* Types are kept.
THEOREM EdgeTypeCorrect == Spec => []TypeOK
  BY EdgeInvariance, PTL DEF IInv

\* Nothing personal, unclean or filed under the wrong key is in the shared
\* cache or on its way to it, whatever requests meet there.
THEOREM EdgeIsShareable == Spec => []CacheIsShareable
<1>1. IInv => CacheIsShareable
  BY DEF IInv, DataInv
<1> QED
  BY EdgeInvariance, <1>1, PTL

\* Every request gets the answer to its own body, for its own user.
THEOREM EdgeRepliesAreOwn == Spec => []RepliesAreOwn
<1>1. IInv => RepliesAreOwn
  BY DEF IInv, DataInv
<1> QED
  BY EdgeInvariance, <1>1, PTL

\* A request with an access token or no-cache sees what is computed after it
\* came in.
THEOREM EdgeBypassIsFresh == Spec => []BypassSeesFreshData
<1>1. IInv => BypassSeesFreshData
  BY DEF IInv, FlowInv, AgeInv, BypassSeesFreshData, Cacheable
<1> QED
  BY EdgeInvariance, <1>1, PTL

\* An answer out of the cache is younger than the longest age any client asks
\* for, plus the time a put takes.
THEOREM EdgeStaleness == Spec => HitsAreBounded
<1>1. IInv /\ [Next]_vars =>
        [\A r \in Requests : hit'[r] /\ ~hit[r] => now - reply'[r].at < LongestAge + PutDelay]_vars
  <2> SUFFICES ASSUME IInv, Next, NEW s \in Requests, hit'[s], ~hit[s]
               PROVE  now - reply'[s].at < LongestAge + PutDelay
    OBVIOUS
  <2> USE DEF IInv, TypeOK
  <2>1. Hit(s)
    <3>1. ASSUME NEW r \in Requests, NEW q \in Asks, Receive(r, q) PROVE FALSE
      BY <3>1 DEF Receive
    <3>2. ASSUME NEW r \in Requests, Hit(r) PROVE r = s
      BY <3>2 DEF Hit
    <3>3. hit' # hit
      OBVIOUS
    <3> QED
      BY <3>1, <3>2, <3>3
      DEF Next, Miss, OriginAnswers, Throws, Put, PutLost, Evict, Tick
  <2>2. Key(ask[s]) \in Bodies
    BY <2>1, RequestFields DEF Hit, Key, FlowInv
  <2> DEFINE e == cache[Key(ask[s])]
  <2>3. /\ e \in [answer : Answers, putAt : 0..MaxTime, maxAge : Nat]
        /\ e.putAt <= e.answer.at + PutDelay /\ e.maxAge <= LongestAge
    BY <2>1, <2>2 DEF Hit, Fresh, AgeInv
  <2>4. now < e.putAt + e.maxAge
    BY <2>1 DEF Hit, Fresh
  <2>5. reply'[s] = e.answer
    BY <2>1 DEF Hit
  <2>6. /\ e.answer.at \in Int /\ e.putAt \in Int /\ e.maxAge \in Int /\ now \in Int
        /\ PutDelay \in Int /\ LongestAge \in Int
    BY <2>3, EdgeAssumption DEF Answers
  <2> HIDE DEF e
  <2> QED
    BY <2>3, <2>4, <2>5, <2>6
<1> QED
  BY EdgeInvariance, <1>1, PTL DEF Spec, HitsAreBounded
=============================================================================
