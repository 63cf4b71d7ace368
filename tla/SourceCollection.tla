-------------------------- MODULE SourceCollection --------------------------
(***************************************************************************)
(* The collection half of the incremental path: one scheduler tick after   *)
(* another resumes the open Apify runs, recovers the datasets that were    *)
(* paid for and never processed, and starts new runs for the due query     *)
(* scopes, under the persisted circuit breaker of the source; the owner is *)
(* told when the source starts to fail, when the breaker opens and when    *)
(* the source recovers.  Every SQLite transaction and every remote call is *)
(* a step, and a crash may fall between any two; run.lock admits one tick  *)
(* at a time.                                                              *)
(***************************************************************************)
EXTENDS Integers

CONSTANTS
  Query,          \* active query scopes
  Threshold,      \* incremental_source_breaker_failures
  Cooldown,       \* breaker cooldown, in units of the model's clock
  Interval,       \* time between two runs of a scope
  Hour,           \* the longest wait after a run that failed
  LeaseTime,      \* incremental_query_lease_minutes
  MaxStarts,      \* incremental_max_new_starts_per_cycle
  MaxFailures,    \* failures are counted up to this
  MaxCrashes,     \* ticks that die
  MaxFaults,      \* processing errors
  None

ASSUME NoneAssumption == None \notin Query
ASSUME LimitAssumption ==
  /\ {Threshold, Cooldown, Interval, Hour, LeaseTime, MaxStarts} \subseteq Nat \ {0}
  /\ MaxFailures \in Nat /\ MaxFailures >= Threshold
  /\ {MaxCrashes, MaxFaults} \subseteq Nat

VARIABLES
  state, failures, class, retry,  \* the breaker; time until retry_at
  pending, alerted,               \* pending_alert, failure_alerted_at set
  runs,                           \* each scope's latest run
  due, lease,                     \* time until next_due_at and lease_until
  pc, phase, todo, cur, verdict,  \* where the tick is
  opened, collected,              \* runs it found open, datasets it collected
  startsLeft,
  belief,                         \* what the owner was last told (history)
  crashes, faults

breaker == <<state, failures, class, retry, pending, alerted>>
scopes == <<due, lease>>
tick == <<pc, phase, todo, cur, verdict, opened, collected, startsLeft>>
budget == <<crashes, faults>>
vars == <<breaker, runs, scopes, tick, belief, budget>>

\* poll_failed stands for dataset_failed too: the run stays open after both.
Failures == {"failed", "start_uncertain", "poll_failed", "auth_failed",
             "missing_credential", "scheduler_source_error"}
Verdicts == Failures \cup {"none", "running", "succeeded", "rate_limited", "budget_deferred"}
FailureNews == {"failure_started", "opened", "escalated"}
Open == {"reserved", "running"}

Init ==
  /\ state = "closed" /\ failures = 0 /\ class = "none" /\ retry = 0
  /\ pending = "none" /\ alerted = FALSE
  /\ runs = [q \in Query |-> "none"]
  /\ due = [q \in Query |-> 0] /\ lease = [q \in Query |-> 0]
  /\ pc = "idle" /\ phase = "resume" /\ todo = {} /\ cur = None /\ verdict = "none"
  /\ opened = {} /\ collected = {} /\ startsLeft = 0
  /\ belief = "fine"
  /\ crashes = 0 /\ faults = 0
-----------------------------------------------------------------------------
(* The breaker's transactions. *)

Lesser(a, b) == IF a <= b THEN a ELSE b

\* The news a failure of class c makes, "old" when there is none.
NewsOf(c, opens) ==
  CASE failures = 0 /\ ~opens -> "failure_started"
    [] opens /\ state = "closed" -> "opened"
    [] opens /\ state # "closed" /\ class \notin {"none", c} -> "escalated"
    [] OTHER -> "old"

\* Mutation: a failure that is no news clears the alert that waits.
RecordFailureQuietly(c, immediate) ==
  LET count == Lesser(MaxFailures, failures + 1)
      opens == immediate \/ count >= Threshold \/ state # "closed"
      news == NewsOf(c, opens)
  IN /\ state' = IF opens THEN "open" ELSE "closed"
     /\ failures' = count
     /\ class' = c
     /\ retry' = IF opens THEN Cooldown ELSE 0
     /\ pending' = IF news = "old" THEN "none" ELSE news
     /\ alerted' = (alerted /\ news = "old")

\* record_source_failure
RecordFailure(c, immediate) ==
  LET count == Lesser(MaxFailures, failures + 1)
      opens == immediate \/ count >= Threshold \/ state # "closed"
      news == NewsOf(c, opens)
  IN /\ state' = IF opens THEN "open" ELSE "closed"
     /\ failures' = count
     /\ class' = c
     /\ retry' = IF opens THEN Cooldown ELSE 0
     /\ pending' = IF news = "old" THEN pending ELSE news
     /\ alerted' = (alerted /\ news = "old")

\* Mutation: a recovery is announced whoever knew of the failure.
RecordSuccessAloud ==
  /\ state' = "closed" /\ failures' = 0 /\ class' = "none" /\ retry' = 0
  /\ pending' = IF failures > 0 THEN "recovered" ELSE "none"
  /\ UNCHANGED alerted

\* record_source_success
RecordSuccess ==
  /\ state' = "closed" /\ failures' = 0 /\ class' = "none" /\ retry' = 0
  /\ pending' = IF failures > 0 /\ alerted THEN "recovered" ELSE "none"
  /\ UNCHANGED alerted

\* Mutation: the probe is not given back.
KeepProbe == UNCHANGED breaker

\* release_source_probe: open again, with the retry time that has passed.
ReleaseProbe ==
  /\ state' = IF state = "half_open" THEN "open" ELSE state
  /\ UNCHANGED <<failures, class, retry, pending, alerted>>

\* _record_collection_health
RecordHealth ==
  CASE verdict = "succeeded" -> RecordSuccess
    [] verdict = "running" -> UNCHANGED breaker
    [] verdict \in {"budget_deferred", "rate_limited"} -> ReleaseProbe
    [] OTHER -> RecordFailure(verdict, verdict = "auth_failed")
-----------------------------------------------------------------------------
(* One tick: resume, recover, start, process, alert. *)

Goto(p) == pc' = p

\* What a tick knows ends with it.
Rest ==
  /\ Goto("idle") /\ phase' = "resume" /\ todo' = {} /\ cur' = None /\ verdict' = "none"
  /\ opened' = {} /\ collected' = {} /\ startsLeft' = 0

Begin ==
  /\ pc = "idle"
  /\ opened' = {q \in Query : runs[q] \in Open}
  /\ todo' = opened' /\ collected' = {}
  /\ Goto("resume") /\ phase' = "resume"
  /\ UNCHANGED <<breaker, runs, scopes, cur, verdict, startsLeft, belief, budget>>

\* The kill switch is off: the tick collects nothing and goes on to the alerts.
SwitchedOff ==
  /\ pc = "idle" /\ Goto("alert")
  /\ UNCHANGED <<breaker, runs, scopes, phase, todo, cur, verdict, opened, collected,
                 startsLeft, belief, budget>>

\* A tick without a usable token: no collector, only the failure.
CredentialMissing ==
  /\ pc = "idle" /\ Goto("alert")
  /\ RecordFailure("missing_credential", TRUE)
  /\ UNCHANGED <<runs, scopes, phase, todo, cur, verdict, opened, collected, startsLeft,
                 belief, budget>>

\* The tick learns v about q's run.
Judge(q, v, place) == cur' = q /\ verdict' = v /\ Goto(place)

\* _process_remote: a run that has ended is settled; one that runs on, or whose
\* state or dataset cannot be read, stays open.
Learn(q, v) ==
  \/ v \in {"succeeded", "failed"} /\ Judge(q, v, "finish")
  \/ v \in {"running", "auth_failed", "rate_limited", "poll_failed"} /\ Judge(q, v, "health")

\* _resume: a reservation without an Apify id is given up, a run is polled.
Resume(q, v) ==
  /\ pc = "resume" /\ q \in todo
  /\ todo' = todo \ {q}
  /\ \/ runs[q] = "reserved" /\ v = "start_uncertain" /\ Judge(q, v, "finish")
     \/ runs[q] = "running" /\ Learn(q, v)
  /\ UNCHANGED <<breaker, runs, scopes, phase, opened, collected, startsLeft, belief,
                 budget>>

\* Mutation: only this tick's datasets are processed.
NothingUnprocessed == {}

\* unprocessed_source_runs, without the runs this tick resumed.
Unprocessed == {q \in Query : runs[q] = "succeeded"} \ opened

StartRecovery ==
  /\ pc = "resume" /\ todo = {}
  /\ todo' = Unprocessed
  /\ Goto("recover") /\ phase' = "recover"
  /\ UNCHANGED <<breaker, runs, scopes, cur, verdict, opened, collected, startsLeft, belief, budget>>

\* _recover_succeeded reads the paid dataset again.
Recover(q, v) ==
  /\ pc = "recover" /\ q \in todo
  /\ v \in {"succeeded", "auth_failed", "rate_limited", "poll_failed"}
  /\ todo' = todo \ {q}
  /\ Judge(q, v, "health")
  /\ UNCHANGED <<breaker, runs, scopes, phase, opened, collected, startsLeft, belief,
                 budget>>

\* Mutation: a scope is due although its run is open or unprocessed.
DueByTheClock == {q \in Query : due[q] = 0 /\ lease[q] = 0}

\* due_query_scopes, without the scopes that have an open or unprocessed run.
DueScopes == {q \in Query : runs[q] = "none" /\ due[q] = 0 /\ lease[q] = 0}

Cooled == state = "open" /\ retry = 0

\* source_start_allowed, when some of the due scopes are still planned by the
\* searches and neither the active window nor the monthly budget forbids it; a
\* breaker that turns half open leaves one start.
Allow(planned) ==
  /\ pc = "recover" /\ todo = {}
  /\ planned # {} /\ planned \subseteq DueScopes
  /\ state = "closed" \/ Cooled
  /\ state' = IF Cooled THEN "half_open" ELSE state
  /\ startsLeft' = IF Cooled THEN 1 ELSE MaxStarts
  /\ todo' = planned
  /\ Goto("start") /\ phase' = "start"
  /\ UNCHANGED <<failures, class, retry, pending, alerted, runs, scopes, cur, verdict, opened,
                 collected, belief, budget>>

\* No start: nothing is due, outside the window, over the monthly budget, or
\* the breaker says no.
NoStarts ==
  /\ pc = "recover" /\ todo = {} /\ Goto("process")
  /\ UNCHANGED <<breaker, runs, scopes, phase, todo, cur, verdict, opened, collected,
                 startsLeft, belief, budget>>

\* Mutation: the loop forgets incremental_max_new_starts_per_cycle.
ClaimFreely(q) ==
  /\ pc = "start" /\ q \in todo
  /\ lease' = [lease EXCEPT ![q] = LeaseTime]
  /\ todo' = todo \ {q} /\ cur' = q
  /\ Goto("claimed")
  /\ UNCHANGED <<breaker, runs, due, phase, verdict, opened, collected, startsLeft, belief, budget>>

\* claim_query_scope
ClaimScope(q) ==
  /\ pc = "start" /\ q \in todo /\ startsLeft > 0
  /\ lease' = [lease EXCEPT ![q] = LeaseTime]
  /\ todo' = todo \ {q} /\ cur' = q
  /\ Goto("claimed")
  /\ UNCHANGED <<breaker, runs, due, phase, verdict, opened, collected, startsLeft, belief, budget>>

\* The daily request budget is spent: defer_query_scope.
Defer ==
  /\ pc = "claimed"
  /\ lease' = [lease EXCEPT ![cur] = 0] /\ due' = [due EXCEPT ![cur] = 1]
  /\ Judge(cur, "budget_deferred", "health")
  /\ UNCHANGED <<breaker, runs, phase, todo, opened, collected, startsLeft, belief,
                 budget>>

\* The query cannot be put to the actor: no run is reserved.
Refuse ==
  /\ pc = "claimed" /\ Judge(cur, "failed", "release")
  /\ UNCHANGED <<breaker, runs, scopes, phase, todo, opened, collected, startsLeft, belief, budget>>

\* create_source_run
CreateRun ==
  /\ pc = "claimed" /\ Goto("created")
  /\ runs' = [runs EXCEPT ![cur] = "reserved"]
  /\ startsLeft' = startsLeft - 1
  /\ UNCHANGED <<breaker, scopes, phase, todo, cur, verdict, opened, collected, belief,
                 budget>>

\* start_actor raises: the run is given up, also when Apify may have it.
StartFails(v) ==
  /\ pc = "created"
  /\ v \in {"auth_failed", "rate_limited", "start_uncertain"} /\ Judge(cur, v, "finish")
  /\ UNCHANGED <<breaker, runs, scopes, phase, todo, opened, collected, startsLeft, belief, budget>>

\* start_actor and attach_apify_run, and the first look at the run.
StartActor(v) ==
  /\ pc = "created" /\ Learn(cur, v)
  /\ runs' = [runs EXCEPT ![cur] = "running"]
  /\ UNCHANGED <<breaker, scopes, phase, todo, opened, collected, startsLeft, belief, budget>>

\* finish_source_run
FinishRun ==
  /\ pc = "finish" /\ Goto("release")
  /\ runs' = [runs EXCEPT ![cur] = IF verdict = "succeeded" THEN "succeeded" ELSE "none"]
  /\ UNCHANGED <<breaker, scopes, phase, todo, cur, verdict, opened, collected, startsLeft,
                 belief, budget>>

\* release_query_scope: a rate limit asks for its own delay.
NextDue ==
  CASE verdict = "rate_limited" -> 1
    [] verdict = "failed" -> Lesser(Interval, Hour)
    [] OTHER -> Interval

ReleaseScope ==
  /\ pc = "release" /\ Goto("health")
  /\ lease' = [lease EXCEPT ![cur] = 0]
  /\ due' = [due EXCEPT ![cur] = NextDue]
  /\ UNCHANGED <<breaker, runs, phase, todo, cur, verdict, opened, collected, startsLeft,
                 belief, budget>>

\* Mutation: the loop goes on when the breaker opens.
HealthGoesOn ==
  /\ pc = "health" /\ pc' = phase
  /\ RecordHealth
  /\ collected' = IF verdict = "succeeded" THEN collected \cup {cur} ELSE collected
  /\ UNCHANGED <<runs, scopes, phase, todo, cur, verdict, opened, startsLeft, belief, budget>>

\* The collection joins the report and tells the breaker; a breaker that is
\* open ends the starts.
Health ==
  /\ pc = "health" /\ pc' = phase
  /\ RecordHealth
  /\ collected' = IF verdict = "succeeded" THEN collected \cup {cur} ELSE collected
  /\ todo' = IF phase = "start" /\ state' = "open" THEN {} ELSE todo
  /\ UNCHANGED <<runs, scopes, phase, cur, verdict, opened, startsLeft, belief, budget>>

EndStarts ==
  /\ pc = "start" /\ (todo = {} \/ startsLeft = 0) /\ Goto("process")
  /\ UNCHANGED <<breaker, runs, scopes, phase, todo, cur, verdict, opened, collected,
                 startsLeft, belief, budget>>

\* process_incremental_report, up to mark_source_run_processed.
Process(q) ==
  /\ pc = "process" /\ q \in collected
  /\ runs' = [runs EXCEPT ![q] = "none"]
  /\ collected' = collected \ {q}
  /\ UNCHANGED <<breaker, scopes, pc, phase, todo, cur, verdict, opened, startsLeft, belief, budget>>

\* Observation or planning raises: the tick counts it against the source.
ProcessFails ==
  /\ pc = "process" /\ collected # {} /\ Goto("alert")
  /\ faults < MaxFaults /\ faults' = faults + 1
  /\ RecordFailure("scheduler_source_error", FALSE)
  /\ collected' = {}
  /\ UNCHANGED <<runs, scopes, phase, todo, cur, verdict, opened, startsLeft, belief, crashes>>

EndProcess ==
  /\ pc = "process" /\ collected = {} /\ Goto("alert")
  /\ UNCHANGED <<breaker, runs, scopes, phase, todo, cur, verdict, opened, collected,
                 startsLeft, belief, budget>>

\* _alert_operational_changes: the operator's Telegram takes the news or not.
Alert ==
  /\ pc = "alert" /\ pending # "none"
  /\ Goto("ack")
  /\ belief' = IF pending \in FailureNews THEN "failing" ELSE "fine"
  /\ UNCHANGED <<breaker, runs, scopes, phase, todo, cur, verdict, opened, collected,
                 startsLeft, budget>>

EndTick ==
  /\ pc = "alert" /\ Rest
  /\ UNCHANGED <<breaker, runs, scopes, belief, budget>>

\* acknowledge_source_alert
Ack ==
  /\ pc = "ack" /\ Rest
  /\ pending' = "none" /\ alerted' = (pending \in FailureNews)
  /\ UNCHANGED <<state, failures, class, retry, runs, scopes, belief, budget>>

Crash ==
  /\ pc # "idle" /\ Rest
  /\ crashes < MaxCrashes /\ crashes' = crashes + 1
  /\ UNCHANGED <<breaker, runs, scopes, belief, faults>>

Pass(t) == IF t > 0 THEN t - 1 ELSE 0

\* The clock a tick reads stands still during the tick.
TimePasses ==
  /\ pc = "idle"
  /\ retry' = Pass(retry)
  /\ due' = [q \in Query |-> Pass(due[q])]
  /\ lease' = [q \in Query |-> Pass(lease[q])]
  /\ UNCHANGED <<state, failures, class, pending, alerted, runs, tick, belief, budget>>
-----------------------------------------------------------------------------
TickStep ==
  \/ StartRecovery \/ NoStarts \/ Defer \/ Refuse \/ CreateRun \/ FinishRun
  \/ ReleaseScope \/ Health \/ EndStarts \/ EndProcess \/ Alert \/ EndTick \/ Ack
  \/ \E q \in Query, v \in Verdicts : Resume(q, v) \/ Recover(q, v)
  \/ \E planned \in SUBSET Query : Allow(planned)
  \/ \E q \in Query : ClaimScope(q) \/ Process(q)
  \/ \E v \in Verdicts : StartFails(v) \/ StartActor(v)

Next ==
  \/ Begin \/ SwitchedOff \/ CredentialMissing
  \/ TickStep
  \/ ProcessFails \/ Crash \/ TimePasses

Spec == Init /\ [][Next]_vars

\* launchd starts tick after tick with the source switched on and a token there
\* again and again, a tick that runs goes on, time goes on between ticks, an
\* Apify run that is polled for ever is seen to end, a dataset that is read for
\* ever is read, and the operator's Telegram does not refuse for ever.
Fairness ==
  /\ SF_vars(Begin) /\ WF_vars(TickStep) /\ SF_vars(TimePasses)
  /\ \A q \in Query : /\ SF_vars(\E v \in {"succeeded", "failed"} : Resume(q, v))
                      /\ SF_vars(Recover(q, "succeeded"))
  /\ SF_vars(Alert)

FairSpec == Spec /\ Fairness
-----------------------------------------------------------------------------
(* Properties *)

\* Every variable has its type.
TypeOK ==
  /\ state \in {"closed", "open", "half_open"}
  /\ failures \in 0..MaxFailures
  /\ class \in Failures \cup {"none"}
  /\ retry \in 0..Cooldown
  /\ pending \in FailureNews \cup {"recovered", "none"}
  /\ alerted \in BOOLEAN
  /\ runs \in [Query -> Open \cup {"none", "succeeded"}]
  /\ due \in [Query -> 0..Interval]
  /\ lease \in [Query -> 0..LeaseTime]
  /\ pc \in {"idle", "resume", "recover", "start", "claimed", "created", "finish",
             "release", "health", "process", "alert", "ack"}
  /\ phase \in {"resume", "recover", "start"}
  /\ todo \in SUBSET Query /\ cur \in Query \cup {None} /\ verdict \in Verdicts
  /\ opened \in SUBSET Query /\ collected \in SUBSET Query
  /\ startsLeft \in 0..MaxStarts
  /\ belief \in {"fine", "failing"}
  /\ crashes \in 0..MaxCrashes /\ faults \in 0..MaxFaults

\* A run is reserved for q in this step.
Starts(q) == runs[q] # "reserved" /\ runs'[q] = "reserved"

\* No actor is started while the breaker is open, also when it opens between
\* two starts of one tick (cycle's loop and source_start_allowed).
NoStartWhileOpen == [][\A q \in Query : Starts(q) => state # "open"]_vars

\* Where a scope is with its run, as ScopePromise has it: only the tick that has
\* just reserved a run can still learn that it started, and only the tick that
\* collected a dataset can close it.
DealOf(q) ==
  CASE runs[q] = "none" -> "idle"
    [] runs[q] = "reserved" -> IF pc = "created" /\ cur = q THEN "asking" ELSE "unsure"
    [] runs[q] = "running" -> "running"
    [] runs[q] = "succeeded" -> IF q \in collected THEN "read" ELSE "paid"

Promise == INSTANCE ScopePromise WITH deal <- [q \in Query |-> DealOf(q)]

\* The cycle implements ScopePromise: no second paid run for a scope whose run is
\* open or whose dataset waits, also after its lease ran out under a tick that
\* died; no dataset of a run that nobody saw start; no dataset closed unread.
KeepsPromise == Promise!Spec

\* A recovery becomes news only for an owner who was told of the failure, also
\* when a tick dies between the alert and its acknowledgement.
RecoveryIsNews ==
  [][pending # "recovered" /\ pending' = "recovered" => belief = "failing"]_vars

\* A dataset that was paid for is processed in the end: ticks that die, reads
\* that fail and processing that raises only delay it (_recover_succeeded).
PaidRunsAreProcessed == \A q \in Query : runs[q] = "succeeded" ~> runs[q] = "none"

\* INCREMENTAL_OPERATIONS.md: after the cooldown one half-open probe is
\* permitted.  Each probe ends: the breaker never stays half open for ever.
ProbeResolves == []<>(state # "half_open")

\* As long as no tick dies, a probe is spent or given back, whatever becomes of
\* its run (_start's early returns, release_source_probe).
ProbeResolvesUncrashed == [](crashes = 0) => ProbeResolves

\* The owner learns that the source is down, unless it recovers before.
OutageIsTold == state = "open" ~> (belief = "failing" \/ state = "closed")
=============================================================================
