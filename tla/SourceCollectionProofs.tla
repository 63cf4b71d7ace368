----------------------- MODULE SourceCollectionProofs -----------------------
(***************************************************************************)
(* Proofs about SourceCollection for any number of query scopes and any    *)
(* thresholds and delays: its type invariant, that nothing starts while    *)
(* the breaker is open, that a scope is not paid for twice, that a         *)
(* recovery is news only to an owner who heard of the failure, and that    *)
(* the cycle implements ScopePromise.                                      *)
(***************************************************************************)
EXTENDS SourceCollection, TLAPS

\* The places of a tick that has a scope in its hands.
InHand == {"claimed", "created", "finish", "release", "health"}

\* The scope in hand is a scope, and is done with as far as the phase goes; a
\* start that is claimed is a start that is left.
Holds ==
  /\ pc \in InHand => cur \in Query /\ cur \notin todo
  /\ pc \in {"resume", "recover", "start"} => phase = pc
  /\ pc \in {"claimed", "created"} => phase = "start"
  /\ pc = "claimed" => startsLeft > 0

TypeInv == TypeOK /\ Holds
-----------------------------------------------------------------------------
(* Type correctness. *)

\* The limits, one by one, as the provers need them.
LEMMA LimitsAreNatural ==
  /\ Threshold \in Nat /\ Threshold > 0 /\ Cooldown \in Nat /\ Cooldown > 0
  /\ Interval \in Nat /\ Interval > 0 /\ Hour \in Nat /\ Hour > 0
  /\ LeaseTime \in Nat /\ LeaseTime > 0 /\ MaxStarts \in Nat /\ MaxStarts > 0
  /\ MaxFailures \in Nat /\ MaxFailures >= Threshold
  /\ MaxCrashes \in Nat /\ MaxFaults \in Nat
BY LimitAssumption

\* What the breaker's variables may hold.
BreakerOK ==
  /\ state \in {"closed", "open", "half_open"}
  /\ failures \in 0..MaxFailures
  /\ class \in Failures \cup {"none"}
  /\ retry \in 0..Cooldown
  /\ pending \in FailureNews \cup {"recovered", "none"}
  /\ alerted \in BOOLEAN

\* A failure is counted, and is news or is not.
LEMMA FailureIsTyped ==
  ASSUME BreakerOK, NEW c \in Failures \cup {"none"}, NEW immediate \in BOOLEAN,
         RecordFailure(c, immediate)
  PROVE  BreakerOK'
<1>1. Lesser(MaxFailures, failures + 1) \in 0..MaxFailures
  BY LimitsAreNatural DEF BreakerOK, Lesser
<1>2. \A opens \in BOOLEAN : NewsOf(c, opens) \in FailureNews \cup {"old"}
  BY DEF NewsOf, FailureNews
<1>3. pending' \in FailureNews \cup {"recovered", "none"}
  <2>1. \E opens \in BOOLEAN :
          pending' = IF NewsOf(c, opens) = "old" THEN pending ELSE NewsOf(c, opens)
    BY DEF RecordFailure
  <2> QED
    BY <1>2, <2>1 DEF BreakerOK
<1>4. state' \in {"closed", "open"} /\ failures' \in 0..MaxFailures /\ class' = c
      /\ retry' \in {0, Cooldown}
  BY <1>1 DEF RecordFailure
<1>5. alerted' \in BOOLEAN
  BY DEF RecordFailure, BreakerOK
<1> QED
  BY <1>3, <1>4, <1>5, LimitsAreNatural DEF BreakerOK

\* _record_collection_health does one of four things.
LEMMA HealthCases ==
  ASSUME verdict \in Verdicts, RecordHealth
  PROVE  \/ RecordSuccess \/ UNCHANGED breaker \/ ReleaseProbe
         \/ /\ verdict \in Failures \cup {"none"}
            /\ RecordFailure(verdict, verdict = "auth_failed")
<1>1. CASE verdict = "succeeded"
  BY <1>1 DEF RecordHealth
<1>2. CASE verdict = "running"
  BY <1>2 DEF RecordHealth
<1>3. CASE verdict \in {"budget_deferred", "rate_limited"}
  BY <1>3 DEF RecordHealth
<1>4. CASE verdict \notin {"succeeded", "running", "budget_deferred", "rate_limited"}
  BY <1>4 DEF RecordHealth, Verdicts
<1> QED
  BY <1>1, <1>2, <1>3, <1>4

LEMMA HealthIsTyped ==
  ASSUME BreakerOK, verdict \in Verdicts, RecordHealth
  PROVE  BreakerOK'
<1>1. CASE RecordSuccess
  BY <1>1, LimitsAreNatural DEF RecordSuccess, BreakerOK
<1>2. CASE UNCHANGED breaker
  BY <1>2 DEF breaker, BreakerOK
<1>3. CASE ReleaseProbe
  BY <1>3 DEF ReleaseProbe, BreakerOK
<1> QED
  BY <1>1, <1>2, <1>3, HealthCases, FailureIsTyped

LEMMA TypeInit == Init => TypeInv
<1> SUFFICES ASSUME Init
             PROVE  TypeInv
  OBVIOUS
<1>1. Holds
  BY DEF Init, Holds, InHand
<1>2. /\ due \in [Query -> 0..Interval] /\ lease \in [Query -> 0..LeaseTime]
      /\ runs \in [Query -> Open \cup {"none", "succeeded"}]
  BY LimitsAreNatural DEF Init
<1>3. /\ failures \in 0..MaxFailures /\ retry \in 0..Cooldown /\ startsLeft \in 0..MaxStarts
      /\ crashes \in 0..MaxCrashes /\ faults \in 0..MaxFaults
  BY LimitsAreNatural DEF Init
<1> QED
  BY <1>1, <1>2, <1>3 DEF Init, TypeInv, TypeOK, Verdicts

LEMMA TypeStep == TypeInv /\ [Next]_vars => TypeInv'
<1> SUFFICES ASSUME TypeInv, [Next]_vars
             PROVE  TypeInv'
  OBVIOUS
<1> USE LimitsAreNatural
    DEF TypeInv, TypeOK, Holds, InHand, Goto, Judge, breaker, scopes, tick, budget
<1>0. BreakerOK
  BY DEF BreakerOK
<1>1. CASE Begin \/ SwitchedOff
  BY <1>1 DEF Begin, SwitchedOff
<1>2. CASE CredentialMissing
  <2>1. BreakerOK'
    BY <1>0, <1>2, FailureIsTyped DEF CredentialMissing, Failures
  <2> QED
    BY <1>2, <2>1 DEF CredentialMissing, BreakerOK
<1>3. ASSUME NEW q \in Query, NEW v \in Verdicts, Resume(q, v) \/ Recover(q, v)
      PROVE  TypeInv'
  BY <1>3 DEF Resume, Recover, Learn, Verdicts
<1>4. CASE StartRecovery \/ NoStarts
  BY <1>4 DEF StartRecovery, NoStarts, Unprocessed
<1>5. ASSUME NEW planned \in SUBSET Query, Allow(planned)
      PROVE  TypeInv'
  BY <1>5 DEF Allow
<1>6. ASSUME NEW q \in Query, ClaimScope(q)
      PROVE  TypeInv'
  BY <1>6 DEF ClaimScope
<1>7. CASE Defer \/ Refuse
  BY <1>7 DEF Defer, Refuse, Verdicts, Failures
<1>8. CASE CreateRun
  BY <1>8 DEF CreateRun, Open
<1>9. ASSUME NEW v \in Verdicts, StartFails(v) \/ StartActor(v)
      PROVE  TypeInv'
  BY <1>9 DEF StartFails, StartActor, Learn, Open
<1>10. CASE FinishRun
  BY <1>10 DEF FinishRun
<1>11. CASE ReleaseScope
  <2>1. NextDue \in 0..Interval
    <3>1. Lesser(Interval, Hour) \in 0..Interval
      BY DEF Lesser
    <3> QED
      BY <3>1 DEF NextDue
  <2> QED
    BY <1>11, <2>1 DEF ReleaseScope
<1>12. CASE Health
  <2>1. BreakerOK'
    BY <1>0, <1>12, HealthIsTyped DEF Health
  <2>2. UNCHANGED <<runs, scopes, phase, cur, verdict, opened, startsLeft, belief, budget>>
        /\ pc' = phase
    BY <1>12 DEF Health
  <2>3. collected' \in SUBSET Query /\ todo' \in SUBSET Query
    BY <1>12 DEF Health
  <2> QED
    BY <2>1, <2>2, <2>3 DEF BreakerOK
<1>13. CASE EndStarts \/ EndProcess
  BY <1>13 DEF EndStarts, EndProcess
<1>14. ASSUME NEW q \in Query, Process(q)
       PROVE  TypeInv'
  BY <1>14 DEF Process
<1>15. CASE ProcessFails
  <2>1. BreakerOK'
    BY <1>0, <1>15, FailureIsTyped DEF ProcessFails, Failures
  <2> QED
    BY <1>15, <2>1 DEF ProcessFails, BreakerOK
<1>16. CASE Alert \/ EndTick \/ Ack
  <2>1. CASE Alert
    BY <2>1 DEF Alert
  <2>2. CASE EndTick
    BY <2>2 DEF EndTick, Rest, Verdicts
  <2>3. CASE Ack
    <3>1. alerted' \in BOOLEAN
      <4>1. alerted' = (pending \in FailureNews)
        BY <2>3 DEF Ack
      <4>2. (pending \in FailureNews) \in BOOLEAN
        OBVIOUS
      <4> QED
        BY ONLY <4>1, <4>2, Zenon
    <3>2. pending' = "none" /\ Rest
          /\ UNCHANGED <<state, failures, class, retry, runs, due, lease, belief, crashes, faults>>
      BY <2>3 DEF Ack
    <3> QED
      BY <3>1, <3>2 DEF Rest, Verdicts
  <2> QED
    BY <1>16, <2>1, <2>2, <2>3
<1>17. CASE Crash
  BY <1>17 DEF Crash, Rest, Verdicts
<1>18. CASE TimePasses
  BY <1>18 DEF TimePasses, Pass
<1>19. CASE UNCHANGED vars
  BY <1>19 DEF vars
<1> QED
  BY <1>1, <1>2, <1>3, <1>4, <1>5, <1>6, <1>7, <1>8, <1>9, <1>10, <1>11, <1>12, <1>13, <1>14,
     <1>15, <1>16, <1>17, <1>18, <1>19 DEF Next, TickStep

\* Every variable of the collection keeps its type, for any scopes and limits.
THEOREM TypeCorrect == Spec => []TypeOK
<1>1. TypeInv => TypeOK
  BY DEF TypeInv
<1> QED
  BY <1>1, TypeInit, TypeStep, PTL DEF Spec
-----------------------------------------------------------------------------
(* The inductive invariant. *)

\* A start is claimed only while the breaker lets it: Health empties the list
\* of starts when the breaker opens.
Shut ==
  /\ pc = "start" => state # "open" \/ todo = {}
  /\ pc = "claimed" => state # "open"

\* The scopes that may still start in this tick have no run, nor has the one
\* that is claimed.
Fresh ==
  /\ phase = "start" /\ pc \in InHand \cup {"start"} => \A q \in todo : runs[q] = "none"
  /\ pc = "claimed" => runs[cur] = "none"

\* What the breaker remembers of its alerts, against what the owner heard: a
\* failure that counts as told was told, a recovery waits only while there is
\* no failure, and between sending and acknowledging nothing else is noted.
Told ==
  /\ alerted /\ failures > 0 => belief = "failing"
  /\ failures = 0 => state = "closed"
  /\ pending = "recovered" => failures = 0
  /\ pc = "ack" => belief = IF pending \in FailureNews THEN "failing" ELSE "fine"

\* What a tick believes of a run is what the ledger says: of the one it has in
\* hand, of those it wants to read again, of those it has collected.
Handled ==
  /\ \A q \in collected : runs[q] = "succeeded"
  /\ phase = "recover" /\ pc \in InHand \cup {"recover"} => \A q \in todo : runs[q] = "succeeded"
  /\ pc = "created" => runs[cur] = "reserved"
  /\ pc = "finish" => runs[cur] \in Open /\ (verdict = "succeeded" => runs[cur] = "running")
  /\ pc \in {"release", "health"} /\ verdict = "succeeded" => runs[cur] = "succeeded"

IInv == TypeInv /\ Shut /\ Fresh /\ Told /\ Handled

LEMMA InvInit == Init => IInv
<1>1. Init => Shut /\ Fresh /\ Told /\ Handled
  BY DEF Init, Shut, Fresh, Told, Handled, InHand
<1> QED
  BY <1>1, TypeInit DEF IInv

LEMMA ShutStep == TypeInv /\ Shut /\ Next => Shut'
<1> SUFFICES ASSUME TypeInv, Shut, Next
             PROVE  Shut'
  OBVIOUS
<1> USE DEF TypeInv, Holds, InHand, Shut, Goto, Judge, breaker, tick
<1>1. CASE Begin \/ SwitchedOff \/ CredentialMissing \/ ProcessFails \/ Crash \/ TimePasses
  BY <1>1 DEF Begin, SwitchedOff, CredentialMissing, ProcessFails, Crash, Rest, TimePasses
<1>2. ASSUME NEW q \in Query, NEW v \in Verdicts, Resume(q, v) \/ Recover(q, v)
      PROVE  Shut'
  BY <1>2 DEF Resume, Recover, Learn
<1>3. ASSUME NEW planned \in SUBSET Query, Allow(planned)
      PROVE  Shut'
  BY <1>3 DEF Allow, Cooled
<1>4. ASSUME NEW q \in Query, ClaimScope(q) \/ Process(q)
      PROVE  Shut'
  BY <1>4 DEF ClaimScope, Process
<1>5. ASSUME NEW v \in Verdicts, StartFails(v) \/ StartActor(v)
      PROVE  Shut'
  BY <1>5 DEF StartFails, StartActor, Learn
<1>6. CASE Health
  <2>1. pc' = phase /\ (phase = "start" /\ state' = "open" => todo' = {})
    BY <1>6 DEF Health
  <2>2. phase \in {"resume", "recover", "start"}
    BY DEF TypeOK
  <2> QED
    BY <2>1, <2>2
<1>7. CASE StartRecovery \/ NoStarts \/ Defer \/ Refuse \/ CreateRun \/ FinishRun \/ ReleaseScope
           \/ EndStarts \/ EndProcess \/ Alert \/ EndTick \/ Ack
  BY <1>7 DEF StartRecovery, NoStarts, Defer, Refuse, CreateRun, FinishRun, ReleaseScope,
              EndStarts, EndProcess, Alert, EndTick, Ack, Rest
<1> QED
  BY <1>1, <1>2, <1>3, <1>4, <1>5, <1>6, <1>7 DEF Next, TickStep

LEMMA FreshStep == TypeInv /\ Fresh /\ Next => Fresh'
<1> SUFFICES ASSUME TypeInv, Fresh, Next
             PROVE  Fresh'
  OBVIOUS
<1> USE DEF TypeInv, TypeOK, Holds, InHand, Fresh, Goto, Judge, tick
<1>1. CASE Begin \/ SwitchedOff \/ CredentialMissing \/ ProcessFails \/ Crash \/ TimePasses
  BY <1>1 DEF Begin, SwitchedOff, CredentialMissing, ProcessFails, Crash, Rest, TimePasses
<1>2. ASSUME NEW q \in Query, NEW v \in Verdicts, Resume(q, v) \/ Recover(q, v)
      PROVE  Fresh'
  BY <1>2 DEF Resume, Recover, Learn
<1>3. ASSUME NEW planned \in SUBSET Query, Allow(planned)
      PROVE  Fresh'
  BY <1>3 DEF Allow, DueScopes
<1>4. ASSUME NEW q \in Query, ClaimScope(q) \/ Process(q)
      PROVE  Fresh'
  BY <1>4 DEF ClaimScope, Process
<1>5. ASSUME NEW v \in Verdicts, StartFails(v) \/ StartActor(v)
      PROVE  Fresh'
  BY <1>5 DEF StartFails, StartActor, Learn
<1>6. CASE Health
  <2>1. pc' = phase /\ todo' \subseteq todo /\ UNCHANGED <<runs, phase, cur>>
    BY <1>6 DEF Health
  <2>2. pc = "health"
    BY <1>6 DEF Health
  <2> QED
    BY <2>1, <2>2
<1>7. CASE StartRecovery \/ NoStarts \/ Defer \/ Refuse \/ CreateRun \/ FinishRun \/ ReleaseScope
           \/ EndStarts \/ EndProcess \/ Alert \/ EndTick \/ Ack
  BY <1>7 DEF StartRecovery, NoStarts, Defer, Refuse, CreateRun, FinishRun, ReleaseScope,
              EndStarts, EndProcess, Alert, EndTick, Ack, Rest
<1> QED
  BY <1>1, <1>2, <1>3, <1>4, <1>5, <1>6, <1>7 DEF Next, TickStep

\* A first failure is always news, so that what was told before it is forgotten.
LEMMA FailureIsTold ==
  ASSUME BreakerOK, Told, NEW c, NEW immediate \in BOOLEAN, RecordFailure(c, immediate),
         UNCHANGED belief, pc' # "ack"
  PROVE  Told'
<1>1. Lesser(MaxFailures, failures + 1) > 0
  BY LimitsAreNatural DEF BreakerOK, Lesser
<1>2. failures' > 0
  BY <1>1 DEF RecordFailure
<1>3. PICK opens \in BOOLEAN :
        /\ pending' = IF NewsOf(c, opens) = "old" THEN pending ELSE NewsOf(c, opens)
        /\ alerted' = (alerted /\ NewsOf(c, opens) = "old")
  <2> DEFINE o == immediate \/ Lesser(MaxFailures, failures + 1) >= Threshold \/ state # "closed"
  <2>1. o \in BOOLEAN
    OBVIOUS
  <2>2. /\ pending' = IF NewsOf(c, o) = "old" THEN pending ELSE NewsOf(c, o)
        /\ alerted' = (alerted /\ NewsOf(c, o) = "old")
    BY DEF RecordFailure
  <2> QED
    BY <2>1, <2>2
<1>4. failures = 0 => NewsOf(c, opens) \in FailureNews
  <2>1. failures = 0 => state = "closed"
    BY DEF Told
  <2> QED
    BY <2>1 DEF NewsOf, FailureNews
<1>5. NewsOf(c, opens) # "recovered"
  BY DEF NewsOf
<1>6. failures \in Nat /\ failures' \in Nat
  BY <1>2, LimitsAreNatural DEF BreakerOK, RecordFailure, Lesser
<1>7. CASE failures = 0
  <2>1. ~alerted' /\ pending' # "recovered"
    BY <1>3, <1>4, <1>7 DEF FailureNews
  <2> QED
    BY <1>2, <1>6, <2>1 DEF Told
<1>8. CASE failures > 0
  <2>1. pending # "recovered" /\ (alerted => belief = "failing")
    BY <1>8, <1>6 DEF Told
  <2>2. pending' # "recovered" /\ (alerted' => alerted)
    BY <1>3, <1>5, <2>1
  <2> QED
    BY <1>2, <1>6, <2>1, <2>2 DEF Told
<1> QED
  BY <1>6, <1>7, <1>8

LEMMA ToldStep == TypeInv /\ Told /\ Next => Told'
<1> SUFFICES ASSUME TypeInv, Told, Next
             PROVE  Told'
  OBVIOUS
<1> USE DEF Goto, Judge, breaker, tick
<1>0. BreakerOK
  BY DEF TypeInv, TypeOK, BreakerOK
<1>1. CASE Begin \/ SwitchedOff
  BY <1>1 DEF Begin, SwitchedOff, Told
<1>2. CASE CredentialMissing
  BY <1>0, <1>2, FailureIsTold DEF CredentialMissing
<1>3. CASE ProcessFails
  BY <1>0, <1>3, FailureIsTold DEF ProcessFails
<1>4. CASE Crash \/ TimePasses
  BY <1>4 DEF Crash, Rest, TimePasses, Told
<1>5. ASSUME NEW q \in Query, NEW v \in Verdicts, Resume(q, v) \/ Recover(q, v)
      PROVE  Told'
  BY <1>5 DEF Resume, Recover, Learn, Told
<1>6. ASSUME NEW planned \in SUBSET Query, Allow(planned)
      PROVE  Told'
  BY <1>6 DEF Allow, Cooled, Told
<1>7. ASSUME NEW q \in Query, ClaimScope(q) \/ Process(q)
      PROVE  Told'
  BY <1>7 DEF ClaimScope, Process, Told
<1>8. ASSUME NEW v \in Verdicts, StartFails(v) \/ StartActor(v)
      PROVE  Told'
  BY <1>8 DEF StartFails, StartActor, Learn, Told
<1>9. CASE Health
  <2>1. UNCHANGED belief /\ pc' # "ack" /\ verdict \in Verdicts /\ RecordHealth
    BY <1>9 DEF Health, TypeInv, TypeOK
  <2>2. CASE RecordSuccess
    BY <2>1, <2>2 DEF RecordSuccess, Told
  <2>3. CASE UNCHANGED breaker
    BY <2>1, <2>3 DEF Told
  <2>4. CASE ReleaseProbe
    BY <2>1, <2>4 DEF ReleaseProbe, Told
  <2>5. CASE RecordFailure(verdict, verdict = "auth_failed")
    BY <1>0, <2>1, <2>5, FailureIsTold
  <2> QED
    BY <2>1, <2>2, <2>3, <2>4, <2>5, HealthCases
<1>10. CASE Alert
  BY <1>10 DEF Alert, Told, FailureNews, TypeInv, TypeOK
<1>11. CASE Ack
  BY <1>11 DEF Ack, Rest, Told
<1>12. CASE StartRecovery \/ NoStarts \/ Defer \/ Refuse \/ CreateRun \/ FinishRun \/ ReleaseScope
            \/ EndStarts \/ EndProcess \/ EndTick
  BY <1>12 DEF StartRecovery, NoStarts, Defer, Refuse, CreateRun, FinishRun, ReleaseScope,
               EndStarts, EndProcess, EndTick, Rest, Told
<1> QED
  BY <1>1, <1>2, <1>3, <1>4, <1>5, <1>6, <1>7, <1>8, <1>9, <1>10, <1>11, <1>12 DEF Next, TickStep

LEMMA HandledStep == TypeInv /\ Fresh /\ Handled /\ Next => Handled'
<1> SUFFICES ASSUME TypeInv, Fresh, Handled, Next
             PROVE  Handled'
  OBVIOUS
<1> USE DEF TypeInv, TypeOK, Holds, InHand, Handled, Goto, Judge, Open, tick
<1>1. CASE Begin \/ SwitchedOff \/ CredentialMissing \/ ProcessFails \/ Crash \/ TimePasses
  BY <1>1 DEF Begin, SwitchedOff, CredentialMissing, ProcessFails, Crash, Rest, TimePasses
<1>2. ASSUME NEW q \in Query, NEW v \in Verdicts, Resume(q, v) \/ Recover(q, v)
      PROVE  Handled'
  BY <1>2 DEF Resume, Recover, Learn
<1>3. ASSUME NEW planned \in SUBSET Query, Allow(planned)
      PROVE  Handled'
  BY <1>3 DEF Allow
<1>4. ASSUME NEW q \in Query, ClaimScope(q) \/ Process(q)
      PROVE  Handled'
  BY <1>4 DEF ClaimScope, Process
<1>5. ASSUME NEW v \in Verdicts, StartFails(v) \/ StartActor(v)
      PROVE  Handled'
  BY <1>5 DEF StartFails, StartActor, Learn
<1>6. CASE CreateRun
  BY <1>6 DEF CreateRun, Fresh
<1>7. CASE FinishRun
  BY <1>7 DEF FinishRun
<1>8. CASE Health
  <2>1. pc' = phase /\ todo' \subseteq todo /\ UNCHANGED <<runs, phase, cur>> /\ pc = "health"
        /\ collected' = IF verdict = "succeeded" THEN collected \cup {cur} ELSE collected
    BY <1>8 DEF Health
  <2> QED
    BY <2>1
<1>9. CASE StartRecovery
  BY <1>9 DEF StartRecovery, Unprocessed
<1>10. CASE Defer \/ Refuse \/ ReleaseScope
  BY <1>10 DEF Defer, Refuse, ReleaseScope
<1>11. CASE NoStarts \/ EndStarts \/ EndProcess \/ Alert \/ EndTick \/ Ack
  BY <1>11 DEF NoStarts, EndStarts, EndProcess, Alert, EndTick, Ack, Rest
<1> QED
  BY <1>1, <1>2, <1>3, <1>4, <1>5, <1>6, <1>7, <1>8, <1>9, <1>10, <1>11 DEF Next, TickStep

LEMMA InvStep == IInv /\ [Next]_vars => IInv'
<1>1. IInv /\ Next => IInv'
  BY TypeStep, ShutStep, FreshStep, ToldStep, HandledStep DEF IInv
<1>2. IInv /\ UNCHANGED vars => IInv'
  <2>1. UNCHANGED vars /\ Shut /\ Fresh /\ Told /\ Handled => Shut' /\ Fresh' /\ Told' /\ Handled'
    BY DEF vars, breaker, tick, Shut, Fresh, Told, Handled
  <2> QED
    BY <2>1, TypeStep DEF IInv
<1> QED
  BY <1>1, <1>2

\* Ticks, scopes, breaker and the owner's knowledge agree at all times.
THEOREM InvariantHolds == Spec => []IInv
BY InvInit, InvStep, PTL DEF Spec
-----------------------------------------------------------------------------
(* The action properties. *)

\* Only create_source_run reserves a run, and for the claimed scope.
LEMMA OnlyCreateStarts ==
  ASSUME TypeInv, Next, NEW q \in Query, Starts(q)
  PROVE  pc = "claimed" /\ q = cur
<1> USE DEF Starts, TypeInv, TypeOK
<1>1. CASE CreateRun
  BY <1>1 DEF CreateRun
<1>2. ASSUME NEW v \in Verdicts, StartActor(v)
      PROVE  FALSE
  BY <1>2 DEF StartActor
<1>3. CASE FinishRun
  BY <1>3 DEF FinishRun
<1>4. ASSUME NEW p \in Query, Process(p)
      PROVE  FALSE
  BY <1>4 DEF Process
<1>5. UNCHANGED runs \/ CreateRun \/ FinishRun \/ (\E v \in Verdicts : StartActor(v))
      \/ \E p \in Query : Process(p)
  BY DEF Next, TickStep, Begin, SwitchedOff, CredentialMissing, Resume, StartRecovery, Recover,
         Allow, NoStarts, ClaimScope, Defer, Refuse, StartFails, ReleaseScope, Health, EndStarts,
         ProcessFails, EndProcess, Alert, EndTick, Ack, Crash, TimePasses
<1> QED
  BY <1>1, <1>2, <1>3, <1>4, <1>5

\* No actor is started while the breaker is open, also when it opens between two
\* starts of one tick, for any number of scopes (IncrementalCollector._start).
THEOREM BreakerStopsStarts == Spec => NoStartWhileOpen
<1>1. IInv /\ [Next]_vars => [\A q \in Query : Starts(q) => state # "open"]_vars
  BY OnlyCreateStarts DEF IInv, Shut
<1> QED
  BY <1>1, InvariantHolds, PTL DEF Spec, NoStartWhileOpen

\* A run is reserved only for a scope without one.
NeverPaidTwice == [][\A q \in Query : Starts(q) => runs[q] = "none"]_vars

\* A scope whose run is open or whose dataset waits is never paid for again, for
\* any number of ticks that die with a lease in hand (due_query_scopes); the
\* promise below says the same of the whole life of a run.
THEOREM PaidOnce == Spec => NeverPaidTwice
<1>1. IInv /\ [Next]_vars => [\A q \in Query : Starts(q) => runs[q] = "none"]_vars
  BY OnlyCreateStarts DEF IInv, Fresh
<1> QED
  BY <1>1, InvariantHolds, PTL DEF Spec, NeverPaidTwice

\* A recovery becomes news only for an owner who was told of the failure, for any
\* threshold and any ticks that die around the alert (record_source_success,
\* acknowledge_source_alert).
THEOREM RecoveriesAreNews == Spec => RecoveryIsNews
<1>1. IInv /\ [Next]_vars
      => [pending # "recovered" /\ pending' = "recovered" => belief = "failing"]_vars
  <2> SUFFICES ASSUME IInv, Next, pending # "recovered", pending' = "recovered"
               PROVE  belief = "failing"
    OBVIOUS
  <2> USE DEF breaker
  <2>1. ASSUME NEW c, NEW i, RecordFailure(c, i)
        PROVE  FALSE
    BY <2>1 DEF RecordFailure, NewsOf
  <2>2. Health
    BY <2>1 DEF Next, TickStep, Begin, SwitchedOff, CredentialMissing, Resume, StartRecovery,
           Recover, Allow, NoStarts, ClaimScope, Defer, Refuse, CreateRun, StartFails, StartActor,
           FinishRun, ReleaseScope, EndStarts, Process, ProcessFails, EndProcess, Alert, EndTick,
           Ack, Crash, TimePasses
  <2>3. RecordSuccess
    BY <2>1, <2>2, HealthCases DEF Health, ReleaseProbe, IInv, TypeInv, TypeOK
  <2> QED
    BY <2>3 DEF RecordSuccess, IInv, Told
<1> QED
  BY <1>1, InvariantHolds, PTL DEF Spec, RecoveryIsNews
-----------------------------------------------------------------------------
(* The cycle implements ScopePromise. *)

Deal == [q \in Query |-> DealOf(q)]

LEMMA PromiseInit == Init => Promise!Init
BY DEF Init, Promise!Init, DealOf

\* A scope's deal changes only with what it is read from.
LEMMA DealStays ==
  ASSUME TypeInv, NEW q \in Query, runs'[q] = runs[q],
         runs[q] = "reserved" => (pc = "created" /\ cur = q <=> pc' = "created" /\ cur' = q),
         runs[q] = "succeeded" => (q \in collected <=> q \in collected')
  PROVE  DealOf(q)' = DealOf(q)
<1>1. runs[q] \in {"none", "reserved", "running", "succeeded"}
  BY DEF TypeInv, TypeOK, Open
<1>2. CASE runs[q] = "none"
  BY <1>2 DEF DealOf
<1>3. CASE runs[q] = "reserved"
  BY <1>3 DEF DealOf
<1>4. CASE runs[q] = "running"
  BY <1>4 DEF DealOf
<1>5. CASE runs[q] = "succeeded"
  BY <1>5 DEF DealOf
<1> QED
  BY <1>1, <1>2, <1>3, <1>4, <1>5

\* No deal changes: a stutter of ScopePromise.
LEMMA Stutters ==
  ASSUME \A q \in Query : DealOf(q)' = DealOf(q)
  PROVE  Deal' = Deal
BY DEF Deal

\* One deal changes.
LEMMA OneMoves ==
  ASSUME NEW c \in Query, NEW from, NEW to, DealOf(c) \in from, DealOf(c)' = to,
         \A q \in Query : q # c => DealOf(q)' = DealOf(q)
  PROVE  Promise!Moves(c, from, to)
BY DEF Promise!Moves

\* What a tick drops of its knowledge is a lapse of the scopes it knew about.
LEMMA TickForgets ==
  ASSUME TypeInv, Handled, UNCHANGED runs, pc' # "created", collected' = {}
  PROVE  Promise!Next
<1> DEFINE qs == {q \in Query : DealOf(q) \in {"asking", "read"}}
<1>1. \A q \in qs : DealOf(q)' = IF DealOf(q) = "asking" THEN "unsure" ELSE "paid"
  <2> SUFFICES ASSUME NEW q \in qs
               PROVE  DealOf(q)' = IF DealOf(q) = "asking" THEN "unsure" ELSE "paid"
    OBVIOUS
  <2>1. runs[q] \in {"none", "reserved", "running", "succeeded"} /\ runs'[q] = runs[q]
    BY DEF TypeInv, TypeOK, Open
  <2>2. CASE runs[q] = "reserved"
    BY <2>1, <2>2 DEF DealOf
  <2>3. CASE runs[q] = "succeeded"
    BY <2>1, <2>3 DEF DealOf
  <2> QED
    BY <2>1, <2>2, <2>3 DEF DealOf
<1>2. \A q \in Query \ qs : DealOf(q)' = DealOf(q)
  <2> SUFFICES ASSUME NEW q \in Query \ qs
               PROVE  DealOf(q)' = DealOf(q)
    OBVIOUS
  <2>1. runs[q] \in {"none", "reserved", "running", "succeeded"} /\ runs'[q] = runs[q]
    BY DEF TypeInv, TypeOK, Open
  <2>2. runs[q] = "reserved" => ~(pc = "created" /\ cur = q)
    BY DEF DealOf
  <2>3. runs[q] = "succeeded" => q \notin collected
    BY DEF DealOf
  <2> QED
    BY <2>1, <2>2, <2>3, DealStays
<1>3. Promise!Lapse(qs)
  BY <1>1, <1>2 DEF Promise!Lapse
<1> QED
  BY <1>3 DEF Promise!Next

\* Every step of the cycle is a step of ScopePromise or a stutter.
LEMMA PromiseStep == IInv /\ [Next]_vars => [Promise!Next]_Deal
<1> SUFFICES ASSUME IInv, Next \/ UNCHANGED vars
             PROVE  Promise!Next \/ Deal' = Deal
  OBVIOUS
<1> USE DEF IInv, Goto, Judge, tick, budget
<1>1. CASE UNCHANGED vars
  BY <1>1, DealStays, Stutters DEF vars
<1>2. CASE CreateRun
  <2>1. runs[cur] = "none" /\ cur \in Query /\ pc = "claimed" /\ pc' = "created"
        /\ runs' = [runs EXCEPT ![cur] = "reserved"] /\ UNCHANGED <<cur, collected>>
    BY <1>2 DEF CreateRun, Fresh, TypeInv, Holds, InHand
  <2>2. runs'[cur] = "reserved" /\ \A q \in Query : q # cur => runs'[q] = runs[q]
    BY <2>1 DEF TypeInv, TypeOK
  <2>3. DealOf(cur) = "idle" /\ DealOf(cur)' = "asking"
    BY <2>1, <2>2 DEF DealOf
  <2>4. \A q \in Query : q # cur => DealOf(q)' = DealOf(q)
    BY <2>1, <2>2, DealStays
  <2>5. \A q \in Query : DealOf(q) # "asking"
    <3> SUFFICES ASSUME NEW q \in Query
                 PROVE  DealOf(q) # "asking"
      OBVIOUS
    <3>1. runs[q] \in {"none", "reserved", "running", "succeeded"}
      BY DEF TypeInv, TypeOK, Open
    <3> QED
      BY <2>1, <3>1 DEF DealOf
  <2>6. Promise!Ask(cur)
    BY <2>1, <2>3, <2>4, <2>5, OneMoves DEF Promise!Ask
  <2> QED
    BY <2>1, <2>6 DEF Promise!Next
<1>3. ASSUME NEW v \in Verdicts, StartActor(v)
      PROVE  Promise!Next
  <2>1. runs[cur] = "reserved" /\ cur \in Query /\ pc = "created" /\ pc' # "created"
        /\ runs' = [runs EXCEPT ![cur] = "running"] /\ UNCHANGED <<cur, collected>>
    BY <1>3 DEF StartActor, Learn, Handled, TypeInv, Holds, InHand
  <2>2. runs'[cur] = "running" /\ \A q \in Query : q # cur => runs'[q] = runs[q]
    BY <2>1 DEF TypeInv, TypeOK
  <2>3. DealOf(cur) = "asking" /\ DealOf(cur)' = "running"
    BY <2>1, <2>2 DEF DealOf
  <2>4. \A q \in Query : q # cur => DealOf(q)' = DealOf(q)
    BY <2>1, <2>2, DealStays
  <2>5. Promise!Start(cur)
    BY <2>1, <2>3, <2>4, OneMoves DEF Promise!Start
  <2> QED
    BY <2>1, <2>5 DEF Promise!Next
<1>4. CASE FinishRun
  <2>1. runs[cur] \in {"reserved", "running"} /\ cur \in Query /\ pc = "finish" /\ pc' = "release"
        /\ runs' = [runs EXCEPT ![cur] = IF verdict = "succeeded" THEN "succeeded" ELSE "none"]
        /\ (verdict = "succeeded" => runs[cur] = "running") /\ UNCHANGED <<cur, collected>>
    BY <1>4 DEF FinishRun, Handled, TypeInv, Holds, InHand, Open
  <2>2. /\ runs'[cur] = IF verdict = "succeeded" THEN "succeeded" ELSE "none"
        /\ \A q \in Query : q # cur => runs'[q] = runs[q]
    BY <2>1 DEF TypeInv, TypeOK
  <2>3. \A q \in Query : q # cur => DealOf(q)' = DealOf(q)
    BY <2>1, <2>2, DealStays
  <2>4. DealOf(cur) \in {"unsure", "running"} /\ (runs[cur] = "running" => DealOf(cur) = "running")
    BY <2>1 DEF DealOf
  <2>5. CASE verdict = "succeeded"
    <3>1. cur \notin collected'
      BY <2>1, <2>5 DEF Handled
    <3>2. DealOf(cur)' = "paid"
      BY <2>1, <2>2, <2>5, <3>1 DEF DealOf
    <3>3. Promise!Settle(cur)
      BY <2>1, <2>3, <2>4, <2>5, <3>2, OneMoves DEF Promise!Settle
    <3> QED
      BY <2>1, <3>3 DEF Promise!Next
  <2>6. CASE verdict # "succeeded"
    <3>1. DealOf(cur)' = "idle"
      BY <2>1, <2>2, <2>6 DEF DealOf
    <3>2. Promise!GiveUp(cur)
      BY <2>1, <2>3, <2>4, <3>1, OneMoves DEF Promise!GiveUp
    <3> QED
      BY <2>1, <3>2 DEF Promise!Next
  <2> QED
    BY <2>5, <2>6
<1>5. CASE Health
  <2>1. UNCHANGED <<runs, cur>> /\ pc = "health" /\ pc' # "created" /\ cur \in Query
        /\ collected' = IF verdict = "succeeded" THEN collected \cup {cur} ELSE collected
    BY <1>5 DEF Health, TypeInv, TypeOK, Holds, InHand
  <2>2. \A q \in Query : q # cur => DealOf(q)' = DealOf(q)
    BY <2>1, DealStays
  <2>3. CASE verdict = "succeeded" /\ cur \notin collected
    <3>1. runs[cur] = "succeeded" /\ runs'[cur] = "succeeded" /\ cur \in collected'
      BY <2>1, <2>3 DEF Handled
    <3>2. DealOf(cur) = "paid" /\ DealOf(cur)' = "read"
      BY <2>1, <2>3, <3>1 DEF DealOf
    <3>3. Promise!Read(cur)
      BY <2>1, <2>2, <3>2, OneMoves DEF Promise!Read
    <3> QED
      BY <2>1, <3>3 DEF Promise!Next
  <2>4. CASE ~(verdict = "succeeded" /\ cur \notin collected)
    BY <2>1, <2>4, DealStays, Stutters
  <2> QED
    BY <2>3, <2>4
<1>6. ASSUME NEW q \in Query, Process(q)
      PROVE  Promise!Next
  <2>1. runs[q] = "succeeded" /\ q \in collected /\ pc = "process" /\ UNCHANGED <<pc, cur>>
        /\ runs' = [runs EXCEPT ![q] = "none"] /\ collected' = collected \ {q}
    BY <1>6 DEF Process, Handled
  <2>2. runs'[q] = "none" /\ \A p \in Query : p # q => runs'[p] = runs[p]
    BY <2>1 DEF TypeInv, TypeOK
  <2>3. DealOf(q) = "read" /\ DealOf(q)' = "idle"
    BY <2>1, <2>2 DEF DealOf
  <2>4. \A p \in Query : p # q => DealOf(p)' = DealOf(p)
    BY <2>1, <2>2, DealStays
  <2>5. Promise!Close(q)
    BY <2>3, <2>4, OneMoves DEF Promise!Close
  <2> QED
    BY <2>5 DEF Promise!Next
<1>7. CASE Begin \/ ProcessFails \/ EndTick \/ Ack \/ Crash
  <2>1. UNCHANGED runs /\ pc' # "created" /\ collected' = {}
    BY <1>7 DEF Begin, ProcessFails, EndTick, Ack, Crash, Rest
  <2> QED
    BY <2>1, TickForgets
<1>8. ASSUME NEW v \in Verdicts, StartFails(v)
      PROVE  Promise!Next
  <2>1. runs[cur] = "reserved" /\ cur \in Query /\ pc = "created" /\ pc' # "created"
        /\ UNCHANGED <<runs, cur, collected>>
    BY <1>8 DEF StartFails, Handled, TypeInv, Holds, InHand
  <2>2. DealOf(cur) = "asking" /\ DealOf(cur)' = "unsure"
    BY <2>1 DEF DealOf
  <2>3. \A q \in Query : q # cur => DealOf(q)' = DealOf(q)
    BY <2>1, DealStays
  <2>4. Promise!Lapse({cur})
    BY <2>1, <2>2, <2>3 DEF Promise!Lapse
  <2> QED
    BY <2>1, <2>4 DEF Promise!Next
<1>9. CASE /\ UNCHANGED <<runs, collected>>
           /\ pc # "created" /\ pc' # "created"
  BY <1>9, DealStays, Stutters
<1>10. CASE \/ SwitchedOff \/ CredentialMissing \/ StartRecovery \/ NoStarts \/ Defer \/ Refuse
            \/ ReleaseScope \/ EndStarts \/ EndProcess \/ Alert \/ TimePasses
            \/ \E q \in Query, v \in Verdicts : Resume(q, v) \/ Recover(q, v)
            \/ \E planned \in SUBSET Query : Allow(planned)
            \/ \E q \in Query : ClaimScope(q)
  <2>1. UNCHANGED <<runs, collected>> /\ pc # "created" /\ pc' # "created"
    BY <1>10 DEF SwitchedOff, CredentialMissing, StartRecovery, NoStarts, Defer, Refuse,
         ReleaseScope, EndStarts, EndProcess, Alert, TimePasses, Resume, Recover, Learn, Allow,
         ClaimScope
  <2> QED
    BY <1>9, <2>1
<1> QED
  BY <1>1, <1>2, <1>3, <1>4, <1>5, <1>6, <1>7, <1>8, <1>10 DEF Next, TickStep

\* The collection cycle keeps the promise of ScopePromise to every scope, for any
\* number of scopes, ticks that die, leases that run out and errors of processing.
THEOREM PromiseIsKept == Spec => KeepsPromise
<1>1. IInv /\ [Next]_vars => [Promise!Next]_[q \in Query |-> DealOf(q)]
  BY PromiseStep DEF Deal
<1> QED
  BY <1>1, PromiseInit, InvariantHolds, PTL DEF Spec, KeepsPromise, Promise!Spec
=============================================================================
