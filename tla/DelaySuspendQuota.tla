------------------------- MODULE DelaySuspendQuota -------------------------
(***************************************************************************)
(* The transient-task quota of one package                                 *)
(* (src/services/transient_task/src/pkg_delay_suspend_info.cpp).           *)
(*                                                                         *)
(* A PkgDelaySuspendInfo is touched only by the transient-task decision    *)
(* maker on the service's single task thread, so each of its callers'      *)
(* operations (request, cancel, background, foreground, timer expiry,      *)
(* daily reset) is one atomic action.  The callers are not in src/: they   *)
(* are modelled from the specification.                                    *)
(*                                                                         *)
(* Time is an abstract millisecond clock.  TimeProvider::GetCurrentTime() *)
(* is clock + ClockOffset; the code truncates it to int32_t, modelled here *)
(* at a reduced width Width so that a run crosses the wrap-around.  The    *)
(* int32 subtractions of GetModifiedTime wrap the same way (signed         *)
(* overflow is undefined; the target build wraps).                         *)
(***************************************************************************)
EXTENDS Integers, Sequences, SequencesExt

CONSTANTS
  Width,                \* bit width of the truncated clock (32 in the code)
  ClockOffset,          \* GetCurrentTime() when the model's clock is 0
  MaxClock,             \* bound on the model's clock
  INIT_QUOTA,           \* daily quota of a package
  MIN_ALLOW_QUOTA_TIME, \* least quota that admits a request
  WATCHDOG_DELAY_TIME,  \* margin added to an exempted grant
  EXEMPTED_QUOTA,       \* GetTransientTaskExemptedQuato()
  Exempted,             \* IsTransientTaskExemptedQuatoApp(pkg_)
  DelayTimes,           \* delay times a request may ask for
  MaxRequests           \* bound on the request ids the decision maker hands out

MAX_REQUEST_ID == 3

VARIABLES
  clock,        \* the model's time
  quota,        \* quota_
  baseTime,     \* baseTime_ (an int32 of the truncated clock)
  isCounting,   \* isCounting_
  requestList,  \* requestList_: sequence of [id, started, delay]
  timers,       \* request ids with a timer armed in timerManager_
  nextId,       \* the decision maker's request id counter
  cStart,       \* ghost: clock when the current counting interval began
  qStart        \* ghost: quota when the current counting interval began

vars == <<clock, quota, baseTime, isCounting, requestList, timers, nextId, cStart, qStart>>

\* static_cast<int32_t> at width Width.
Int32(x) == ((x + 2^(Width - 1)) % 2^Width) - 2^(Width - 1)

Cur == Int32(clock + ClockOffset)

Floor0(x) == IF x < 0 THEN 0 ELSE x

ExemptedOffset == IF Exempted THEN EXEMPTED_QUOTA ELSE 0

\* The package's state as one record, so that the member functions compose.
Pkg == [quota |-> quota, baseTime |-> baseTime, isCounting |-> isCounting,
        list |-> requestList, timers |-> timers]

Ids(s) == {s.list[i].id : i \in DOMAIN s.list}

GetModifiedTime(s) ==
  Floor0(Int32(Int32(Cur - s.baseTime) - ExemptedOffset))

\* Mutant: no floor at zero.
UpdateQuotaNoFloor(s, reset) ==
  LET spendTime == IF s.isCounting THEN GetModifiedTime(s) ELSE 0
  IN [s EXCEPT !.quota = IF reset THEN INIT_QUOTA ELSE s.quota - spendTime,
               !.baseTime = Cur]

UpdateQuota(s, reset) ==
  LET spendTime == IF s.isCounting THEN GetModifiedTime(s) ELSE 0
  IN [s EXCEPT !.quota = IF reset THEN INIT_QUOTA ELSE Floor0(s.quota - spendTime),
               !.baseTime = Cur]

\* Mutant: the threshold checked against the quota before it is brought up to date.
IsAllowRequestStale(s) ==
  IF Len(s.list) >= MAX_REQUEST_ID THEN <<"ERR_BGTASK_EXCEEDS_THRESHOLD", s>>
  ELSE LET s1 == UpdateQuota(s, FALSE)
       IN IF s.quota >= MIN_ALLOW_QUOTA_TIME THEN <<"ERR_OK", s1>>
          ELSE <<"ERR_BGTASK_TIME_INSUFFICIENT", s1>>

\* <<return code, state>>.
IsAllowRequest(s) ==
  IF Len(s.list) >= MAX_REQUEST_ID THEN <<"ERR_BGTASK_EXCEEDS_THRESHOLD", s>>
  ELSE LET s1 == UpdateQuota(s, FALSE)
       IN IF s1.quota >= MIN_ALLOW_QUOTA_TIME THEN <<"ERR_OK", s1>>
          ELSE <<"ERR_BGTASK_TIME_INSUFFICIENT", s1>>

AddRequest(s, id, delayTime, needSetTime) ==
  LET actual == IF needSetTime THEN EXEMPTED_QUOTA + WATCHDOG_DELAY_TIME
                ELSE IF s.quota < delayTime THEN s.quota ELSE delayTime
  IN [s EXCEPT !.list = Append(@, [id |-> id, started |-> FALSE, delay |-> actual])]

\* The entries a StartAccounting(requestId) loop visits.
Matching(s, requestId) ==
  {i \in DOMAIN s.list : requestId = -1 \/ s.list[i].id = requestId}

StartAccounting(s, requestId) ==
  LET m == Matching(s, requestId)
      s1 == IF m # {} /\ ~s.isCounting
            THEN [UpdateQuota(s, FALSE) EXCEPT !.isCounting = TRUE] ELSE s
      new == {i \in m : ~s.list[i].started}
  IN [s1 EXCEPT !.list = [i \in DOMAIN @ |-> IF i \in new
                                              THEN [@[i] EXCEPT !.started = TRUE]
                                              ELSE @[i]],
                !.timers = @ \cup {s.list[i].id : i \in new}]

StopAccounting(s, requestId) ==
  LET m == {i \in DOMAIN s.list : s.list[i].id = requestId /\ s.list[i].started}
  IN [s EXCEPT !.list = [i \in DOMAIN @ |-> IF i \in m
                                             THEN [@[i] EXCEPT !.started = FALSE]
                                             ELSE @[i]],
               !.timers = @ \ {s.list[i].id : i \in m}]

\* Mutant: counting switched off before the quota is brought up to date.
StopAccountingAllNoCharge(s) ==
  LET s1 == [s EXCEPT !.list = [i \in DOMAIN @ |-> [@[i] EXCEPT !.started = FALSE]],
                      !.timers = @ \ {s.list[i].id : i \in {j \in DOMAIN s.list : s.list[j].started}},
                      !.isCounting = FALSE]
  IN UpdateQuota(s1, FALSE)

StopAccountingAll(s) ==
  LET s1 == [s EXCEPT !.list = [i \in DOMAIN @ |-> [@[i] EXCEPT !.started = FALSE]],
                      !.timers = @ \ {s.list[i].id : i \in {j \in DOMAIN s.list : s.list[j].started}}]
  IN [UpdateQuota(s1, FALSE) EXCEPT !.isCounting = FALSE]

\* Mutant: the entry erased before its accounting is stopped.
RemoveRequestEraseFirst(s, requestId) ==
  IF requestId \notin Ids(s) THEN s
  ELSE LET i == SelectInSeq(s.list, LAMBDA e : e.id = requestId)
           s1 == [s EXCEPT !.list = RemoveAt(@, i)]
           s2 == StopAccounting(s1, requestId)
       IN IF s2.list = <<>> THEN [UpdateQuota(s2, FALSE) EXCEPT !.isCounting = FALSE]
          ELSE s2

RemoveRequest(s, requestId) ==
  IF requestId \notin Ids(s) THEN s
  ELSE LET i == SelectInSeq(s.list, LAMBDA e : e.id = requestId)
           s1 == StopAccounting(s, requestId)
           s2 == [s1 EXCEPT !.list = RemoveAt(@, i)]
       IN IF s2.list = <<>> THEN [UpdateQuota(s2, FALSE) EXCEPT !.isCounting = FALSE]
          ELSE s2

\* Commit a package state; the ghosts open a new interval when counting
\* starts or the quota is reset.
Commit(s, reset) ==
  /\ quota' = s.quota
  /\ baseTime' = s.baseTime
  /\ isCounting' = s.isCounting
  /\ requestList' = s.list
  /\ timers' = s.timers
  /\ IF reset \/ (s.isCounting /\ ~isCounting)
       THEN cStart' = clock /\ qStart' = s.quota
       ELSE UNCHANGED <<cStart, qStart>>
  /\ UNCHANGED clock

(* The decision maker's operations (spec 4.6; not in src/). *)

RequestSuspendDelay(delayTime, needSetTime) ==
  /\ nextId < MaxRequests
  /\ nextId' = nextId + 1
  /\ LET r == IsAllowRequest(Pkg)
     IN Commit(IF r[1] = "ERR_OK" THEN AddRequest(r[2], nextId + 1, delayTime, needSetTime)
               ELSE r[2], FALSE)

CancelSuspendDelay(requestId) ==
  /\ Commit(RemoveRequest(Pkg, requestId), FALSE)
  /\ UNCHANGED nextId

OnBackground(requestId) ==
  /\ Commit(StartAccounting(Pkg, requestId), FALSE)
  /\ UNCHANGED nextId

OnForeground ==
  /\ Commit(StopAccountingAll(Pkg), FALSE)
  /\ UNCHANGED nextId

OnTimeout(requestId) ==
  /\ requestId \in timers
  /\ Commit(RemoveRequest(Pkg, requestId), FALSE)
  /\ UNCHANGED nextId

ResetDayQuota ==
  /\ Commit(UpdateQuota(Pkg, TRUE), TRUE)
  /\ UNCHANGED nextId

Tick ==
  /\ clock < MaxClock
  /\ clock' = clock + 1
  /\ UNCHANGED <<quota, baseTime, isCounting, requestList, timers, nextId, cStart, qStart>>

Init ==
  /\ clock = 0
  /\ quota = INIT_QUOTA
  /\ baseTime = Int32(ClockOffset)
  /\ isCounting = FALSE
  /\ requestList = <<>>
  /\ timers = {}
  /\ nextId = 0
  /\ cStart = 0
  /\ qStart = INIT_QUOTA

Next ==
  \/ \E d \in DelayTimes, ns \in BOOLEAN : RequestSuspendDelay(d, ns)
  \/ \E id \in Ids(Pkg) : CancelSuspendDelay(id)
  \/ \E id \in Ids(Pkg) \cup {-1} : OnBackground(id)
  \/ OnForeground
  \/ \E id \in timers : OnTimeout(id)
  \/ ResetDayQuota
  \/ Tick

Spec == Init /\ [][Next]_vars

-----------------------------------------------------------------------------
(* Properties *)

TypeOK ==
  /\ clock \in 0..MaxClock
  /\ quota \in 0..INIT_QUOTA
  /\ baseTime \in -(2^(Width - 1))..(2^(Width - 1) - 1)
  /\ isCounting \in BOOLEAN
  /\ Len(requestList) \in 0..MAX_REQUEST_ID
  /\ \A i \in DOMAIN requestList :
       requestList[i] \in [id : 1..MaxRequests, started : BOOLEAN, delay : Nat]
  /\ timers \subseteq 1..MaxRequests

\* For a package that is not exempted, when counting stops (StopAccountingAll,
\* or RemoveRequest emptying the list), the quota charged for the interval
\* since counting started (or the last reset) is exactly the time elapsed,
\* however many UpdateQuota calls (IsAllowRequest, StartAccounting) fell in
\* between and across the int32 wrap of the clock: the charges of the calls
\* telescope.  (An exempted package has the offset deducted at every call,
\* as spec 4.6 prescribes, so its charge depends on the calls.)
ChargedOncePerInterval ==
  [][isCounting /\ ~isCounting' =>
       quota' = Floor0(qStart - (clock - cStart))]_vars

\* A timer is armed exactly for the listed requests whose accounting was
\* started and not stopped, and quota is being charged while any is armed:
\* RemoveRequest stops a request's accounting before erasing it, so a timer
\* never fires for a request that is gone (spec 5, timers are best-effort).
NoStrayTimer ==
  /\ timers = {requestList[i].id : i \in {j \in DOMAIN requestList : requestList[j].started}}
  /\ timers # {} => isCounting

\* The package's account implements QuotaAccount: requests are admitted
\* only below MAX_REQUEST_ID and with MIN_ALLOW_QUOTA_TIME left after the
\* charge IsAllowRequest makes, time is charged only while isCounting_,
\* counting runs only while a request is listed, and only ResetDayQuota
\* raises the quota, across the int32 wrap of the clock.
QA == INSTANCE QuotaAccount WITH granted <- Ids(Pkg), charging <- isCounting,
                                 RequestIds <- 1..MaxRequests

QuotaAccountRefined == QA!Spec

====
