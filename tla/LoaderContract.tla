--------------------------- MODULE LoaderContract ---------------------------
(***************************************************************************)
(* What the loaders of src/src/lib/loaders/api promise to the resolvers    *)
(* that call them, without saying how: no memo, no memcached, no HTTP, no  *)
(* clock.                                                                  *)
(*                                                                         *)
(* The sources change all the time; a change makes a new version.  A load  *)
(* that is asked for is answered once, or fails once.  The answer is of a  *)
(* kind the load may have and a version its source has had; a load that is *)
(* fresh gets its own kind, and nothing older than the version at the time *)
(* it was asked for.                                                       *)
(***************************************************************************)
EXTENDS Integers

CONSTANTS
  Resources,  \* what the sources serve
  Loads,      \* the promises that may be handed out
  Source,     \* [Loads -> Resources]
  Own,        \* [Loads -> sets of kinds]: what a load reads itself
  Shared,     \* [Loads -> sets of kinds]: what it may be handed by others
  NoAnswer

VARIABLES
  version,    \* [Resources -> Nat]
  fresh,      \* [Loads -> BOOLEAN], agreed at the start
  state,      \* [Loads -> {"unasked", "waiting", "answered", "failed"}]
  asked,      \* the version of its source when a load was asked for
  answer      \* the kind and the version of the answer

vars == <<version, fresh, state, asked, answer>>

Init ==
  /\ version = [res \in Resources |-> 0]
  /\ fresh \in [Loads -> BOOLEAN]
  /\ state = [x \in Loads |-> "unasked"]
  /\ asked = [x \in Loads |-> 0]
  /\ answer = [x \in Loads |-> NoAnswer]

Change(res) ==
  /\ version' = [version EXCEPT ![res] = @ + 1]
  /\ UNCHANGED <<fresh, state, asked, answer>>

Ask(x) ==
  /\ state[x] = "unasked"
  /\ state' = [state EXCEPT ![x] = "waiting"]
  /\ asked' = [asked EXCEPT ![x] = version[Source[x]]]
  /\ UNCHANGED <<version, fresh, answer>>

\* The versions a load may be answered with, and the kinds.
Acceptable(x) == (IF fresh[x] THEN asked[x] ELSE 0)..version[Source[x]]
KindsOf(x) == IF fresh[x] THEN Own[x] ELSE Shared[x]

Answer(x) ==
  /\ state[x] = "waiting"
  /\ state' = [state EXCEPT ![x] = "answered"]
  /\ \E kind \in KindsOf(x), v \in Acceptable(x) :
       answer' = [answer EXCEPT ![x] = [kind |-> kind, version |-> v]]
  /\ UNCHANGED <<version, fresh, asked>>

Fail(x) ==
  /\ state[x] = "waiting"
  /\ state' = [state EXCEPT ![x] = "failed"]
  /\ UNCHANGED <<version, fresh, asked, answer>>

Next ==
  \/ \E res \in Resources : Change(res)
  \/ \E x \in Loads : Ask(x) \/ Answer(x) \/ Fail(x)

Spec == Init /\ [][Next]_vars
=============================================================================
