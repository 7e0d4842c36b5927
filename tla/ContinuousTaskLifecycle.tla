------------------------- MODULE ContinuousTaskLifecycle -------------------------
(***************************************************************************)
(* What the continuous-task table promises per task key (spec 3, the       *)
(* taskId attribute, and 4.5, "Absent -> Active <-> Suspended -> Absent"), *)
(* with modes, notifications and callbacks left out: a start of an absent  *)
(* key creates an active task whose id is one above every id handed out    *)
(* before; a live task keeps its id while it is suspended and resumed;     *)
(* only a suspended task is resumed; a removal may take any set of live    *)
(* tasks at once (the bulk removals of one handler); a restart of the      *)
(* service keeps the live tasks and continues the ids from the largest of  *)
(* theirs ("survives restore-from-persistence by taking the max seen").    *)
(* ContinuousTaskMgr implements it (TaskLifecycleRefined there).           *)
(***************************************************************************)
EXTENDS Integers, FiniteSetsExt, Functions, TLC

CONSTANTS Keys, MaxTaskId

VARIABLES
  ids,        \* key -> task id of every live task
  suspended,  \* the live keys that are suspended
  index       \* the last task id handed out

vars == <<ids, suspended, index>>

Init ==
  /\ ids = [k \in {} |-> 0]
  /\ suspended = {}
  /\ index = 0

Start(k) ==
  /\ index < MaxTaskId
  /\ index' = index + 1
  /\ k \notin DOMAIN ids
  /\ ids' = ids @@ (k :> index + 1)
  /\ UNCHANGED suspended

Suspend(k) ==
  /\ k \in DOMAIN ids \ suspended
  /\ suspended' = suspended \cup {k}
  /\ UNCHANGED <<ids, index>>

Resume(k) ==
  /\ k \in suspended
  /\ suspended' = suspended \ {k}
  /\ UNCHANGED <<ids, index>>

Remove(S) ==
  /\ S # {}
  /\ ids' = Restrict(ids, DOMAIN ids \ S)
  /\ suspended' = suspended \ S
  /\ UNCHANGED index

Restart ==
  /\ index' = IF DOMAIN ids = {} THEN 0 ELSE Max(Range(ids))
  /\ UNCHANGED <<ids, suspended>>

Next ==
  \/ \E k \in Keys : Start(k)
  \/ \E k \in DOMAIN ids \ suspended : Suspend(k)
  \/ \E k \in suspended : Resume(k)
  \/ \E S \in SUBSET DOMAIN ids : Remove(S)
  \/ Restart

\* The stuttering disjunct is written first so that TLC, checking this as an
\* implied property, tries it before the actions.
Spec == Init /\ [][UNCHANGED vars \/ Next]_vars

TypeOK ==
  /\ ids \in [DOMAIN ids -> 1..MaxTaskId] /\ DOMAIN ids \subseteq Keys
  /\ suspended \subseteq DOMAIN ids
  /\ index \in 0..MaxTaskId
=============================================================================
