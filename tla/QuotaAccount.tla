---------------------------- MODULE QuotaAccount ----------------------------
(***************************************************************************)
(* What a package's transient-task quota account promises (spec 3,         *)
(* PkgQuotaAccount, and 4.6), with time and the request list's order left  *)
(* out: a request is granted only while fewer than MAX_REQUEST_ID are held *)
(* and only if, after charging, at least MIN_ALLOW_QUOTA_TIME is left; the *)
(* quota is charged only while the package is counting, counting needs a   *)
(* held request, and only the daily reset gives quota back.                *)
(* DelaySuspendQuota implements it (QuotaAccountRefined there).            *)
(***************************************************************************)
EXTENDS Integers, FiniteSets

CONSTANTS INIT_QUOTA, MIN_ALLOW_QUOTA_TIME, MAX_REQUEST_ID, RequestIds

VARIABLES
  quota,     \* the remaining quota
  granted,   \* ids of the requests the package holds
  charging   \* whether elapsed time is being charged

vars == <<quota, granted, charging>>

\* The quota after a charge: any amount while counting, none otherwise.
Charged(q) == IF charging THEN q \in 0..quota ELSE q = quota

Init ==
  /\ quota = INIT_QUOTA
  /\ granted = {}
  /\ charging = FALSE

\* A request is admitted; it may first bring the charge up to date.
Grant(id) ==
  /\ id \notin granted
  /\ Cardinality(granted) < MAX_REQUEST_ID
  /\ Charged(quota')
  /\ quota' >= MIN_ALLOW_QUOTA_TIME
  /\ granted' = granted \cup {id}
  /\ UNCHANGED charging

\* Time is charged (a refused request, a recomputation) with nothing else changing.
Charge ==
  /\ Charged(quota')
  /\ UNCHANGED <<granted, charging>>

\* Counting starts for a held request.
Begin ==
  /\ granted # {}
  /\ charging' = TRUE
  /\ Charged(quota')
  /\ UNCHANGED granted

\* Counting stops (the app comes to the foreground), after a last charge.
End ==
  /\ charging' = FALSE
  /\ Charged(quota')
  /\ UNCHANGED granted

\* A held request goes; the last one ends counting after a last charge.
Release(id) ==
  /\ id \in granted
  /\ granted' = granted \ {id}
  /\ IF granted' = {} THEN Charged(quota') /\ charging' = FALSE
     ELSE UNCHANGED <<quota, charging>>

Reset ==
  /\ quota' = INIT_QUOTA
  /\ UNCHANGED <<granted, charging>>

Next ==
  \/ \E id \in RequestIds : Grant(id) \/ Release(id)
  \/ Charge \/ Begin \/ End \/ Reset

Spec == Init /\ [][Next]_vars

TypeOK ==
  /\ quota \in 0..INIT_QUOTA
  /\ granted \subseteq RequestIds
  /\ charging \in BOOLEAN
====
