------------------------------ MODULE JobLedger ------------------------------
(***************************************************************************)
(* What the job runner promises of its runs, with no scheduler, channel,    *)
(* mutex or database: run ids are issued in order, one live run per dedup   *)
(* key; a live run is begun at most once; a run that ends or is dropped     *)
(* never comes back.  A restart forgets every live run.                     *)
(* JobRunner implements it (JobRunner!ImplementsLedger).                    *)
(***************************************************************************)
EXTENDS Naturals

CONSTANTS Keys, NoKey, RunIds

VARIABLES
  issued,     \* the ids handed out
  keyOf,      \* the key of each issued id
  live,       \* issued and neither ended, dropped nor forgotten
  executing   \* live and begun

vars == <<issued, keyOf, live, executing>>

Init ==
  /\ issued = {}
  /\ keyOf = [r \in RunIds |-> NoKey]
  /\ live = {}
  /\ executing = {}

\* A run of key k enters only while no other run of k is live.
Issue(r, k) ==
  /\ r \notin issued
  /\ \A s \in live : keyOf[s] # k
  /\ issued' = issued \cup {r}
  /\ keyOf' = [keyOf EXCEPT ![r] = k]
  /\ live' = live \cup {r}
  /\ UNCHANGED executing

Begin(r) ==
  /\ r \in live \ executing
  /\ executing' = executing \cup {r}
  /\ UNCHANGED <<issued, keyOf, live>>

\* A run ends, or is turned away before it began.
Retire(r) ==
  /\ r \in live
  /\ live' = live \ {r}
  /\ executing' = executing \ {r}
  /\ UNCHANGED <<issued, keyOf>>

Forget ==
  /\ live' = {}
  /\ executing' = {}
  /\ UNCHANGED <<issued, keyOf>>

Next ==
  \/ \E r \in RunIds, k \in Keys : Issue(r, k)
  \/ \E r \in RunIds : Begin(r) \/ Retire(r)
  \/ Forget

Spec == Init /\ [][Next]_vars
=============================================================================
