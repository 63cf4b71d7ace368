------------------------ MODULE DeliveryWorkerProofs ------------------------
(***************************************************************************)
(* Proofs about DeliveryWorker for every number of workers, rows, listings *)
(* and every bound: its type invariant, that Telegram takes a row's        *)
(* message at most once, that receipts are earned, and that the last look  *)
(* at the bank holds until the call of Telegram.  The argument rests on    *)
(* the two locks: only the holder of run.lock is anywhere but "idle", and  *)
(* only the holder of the delivery lock is past the claim.                 *)
(***************************************************************************)
EXTENDS DeliveryWorker, TLAPS

-----------------------------------------------------------------------------
(* Facts about the constants and the helpers. *)

\* The bounds as the provers need them, one by one: max_messages, the longest
\* retry delay and the stale age are numbers.
LEMMA BoundsAreNatural ==
  /\ MaxMessages \in Nat /\ MaxMessages > 0 /\ MaxDelay \in Nat /\ MaxDelay > 0
  /\ MaxCount \in Nat /\ MaxCount > 0
  /\ StaleAfter \in Nat /\ QuietLeft \in 0..MaxDelay
BY NumberAssumption

\* The lesser of two numbers, as the retry delay and the counters use it, is a
\* number that exceeds neither.
LEMMA LesserIsBounded ==
  \A a, b \in Nat : Lesser(a, b) \in 0..a /\ Lesser(a, b) <= b
BY DEF Lesser

\* What a cancel writes, whichever rows it is given.
LEMMA CancelRowsIsTyped ==
  ASSUME TypeOK, NEW rs, CancelRows(rs)
  PROVE  status' \in [Row -> Statuses] /\ age' \in [Row -> 0..StaleAfter + 1]
BY BoundsAreNatural DEF TypeOK, CancelRows, Statuses

\* What mark_outbox_failure and return_outbox_to_pending write has its type.
LEMMA PutIsTyped ==
  ASSUME TypeOK, NEW r \in Row, NEW s \in Statuses, NEW d \in 0..MaxDelay, Put(r, s, d)
  PROVE  /\ status' \in [Row -> Statuses]
         /\ wait' \in [Row -> 0..MaxDelay]
         /\ age' \in [Row -> 0..StaleAfter + 1]
BY BoundsAreNatural DEF TypeOK, Put

\* A worker that holds a claimed row has one.
CurClaimed ==
  \A w \in Worker : (cur[w] \in Row) <=> (pc[w] \in BeforeSend \cup AfterSend \cup {"recorded"})

TypeInv == TypeOK /\ CurClaimed
-----------------------------------------------------------------------------
(* Type correctness. *)

\* An empty ledger with idle workers is well typed.
LEMMA TypeInit == Init => TypeInv
BY BoundsAreNatural, RowAssumption
   DEF Init, TypeInv, CurClaimed, TypeOK, Statuses, Places, BeforeSend, AfterSend

\* Every step of the worker, the dashboard and the peers keeps the types.
LEMMA TypeStep == TypeInv /\ [Next]_vars => TypeInv'
<1> SUFFICES ASSUME TypeInv, [Next]_vars
             PROVE  TypeInv'
  OBVIOUS
<1> USE RowAssumption, WorkerAssumption, BoundsAreNatural
    DEF TypeInv, TypeOK, CurClaimed, Goto, BeforeSend, AfterSend,
        outbox, dashboard, other, budget, place
<1>1. ASSUME NEW w \in Worker, RunStep(w)
      PROVE  TypeInv'
  <2>1. CASE Begin(w)
    BY <2>1 DEF Begin, Places
  <2>2. CASE Promote(w)
    BY <2>2 DEF Promote, Places, Statuses
  <2>3. CASE Load(w)
    BY <2>3 DEF Load, Places
  <2>4. CASE Reconcile(w)
    BY <2>4 DEF Reconcile, Places, Unbanked
  <2>5. CASE RecoverStale(w)
    BY <2>5 DEF RecoverStale, Places, Statuses
  <2>6. CASE ReleaseRetries(w)
    BY <2>6 DEF ReleaseRetries, Places, Statuses
  <2>7. CASE Precancel(w)
    BY <2>7, CancelRowsIsTyped DEF Precancel, Places
  <2>8. CASE Finish(w)
    BY <2>8 DEF Finish, Leave, Places
  <2>9. ASSUME NEW r \in Row, Claim(w, r)
        PROVE  TypeInv'
    <3>1. attempts' \in [Row -> 0..MaxCount]
      BY <2>9, LesserIsBounded DEF Claim
    <3>2. left' \in [Worker -> 0..MaxMessages]
      BY <2>9 DEF Claim
    <3> QED
      BY <2>9, <3>1, <3>2 DEF Claim, Places, Statuses
  <2> QED
    BY <1>1, <2>1, <2>2, <2>3, <2>4, <2>5, <2>6, <2>7, <2>8, <2>9 DEF RunStep
<1>2. ASSUME NEW w \in Worker, DeliverStep(w)
      PROVE  TypeInv'
  <2>1. CASE TakeLock(w)
    BY <2>1 DEF TakeLock, Places
  <2>2. CASE CheckPasses(w)
    BY <2>2 DEF CheckPasses, Places
  <2>3. CASE CheckDrops(w)
    BY <2>3, CancelRowsIsTyped DEF CheckDrops, NextClaim, Places
  <2>4. CASE CheckReturns(w)
    <3>1. cur[w] \in Row
      BY <2>4 DEF CheckReturns, NotNow
    <3>2. /\ status' \in [Row -> Statuses]
          /\ wait' \in [Row -> 0..MaxDelay]
          /\ age' \in [Row -> 0..StaleAfter + 1]
      BY <2>4, <3>1 DEF CheckReturns, Put, Statuses
    <3> QED
      BY <2>4, <3>2 DEF CheckReturns, NotNow, NextClaim, Places
  <2>5. ASSUME NEW outcome \in AfterSend, NEW taken \in BOOLEAN, Transport(w, outcome, taken)
        PROVE  TypeInv'
    <3>1. Lesser(MaxCount + 1, copies[cur[w]] + 1) \in 0..MaxCount + 1
      <4>1. cur[w] \in Row
        BY <2>5 DEF Transport
      <4> QED
        BY <4>1 DEF Lesser
    <3> QED
      BY <2>5, <3>1 DEF Transport, Places
  <2>6. CASE RecordSent(w)
    BY <2>6 DEF RecordSent, Places, Statuses
  <2>7. CASE BankIt(w)
    BY <2>7 DEF BankIt, NextClaim, Places
  <2>8. CASE Raise(w)
    BY <2>8 DEF Raise, Die, Leave, Places
  <2>9. ASSUME NEW s \in Statuses, NEW delay \in 0..MaxDelay, RecordFailure(w, s, delay)
        PROVE  TypeInv'
    <3>1. cur[w] \in Row
      BY <2>9 DEF RecordFailure, AfterFailure
    <3>2. /\ status' \in [Row -> Statuses]
          /\ wait' \in [Row -> 0..MaxDelay]
          /\ age' \in [Row -> 0..StaleAfter + 1]
      BY <2>9, <3>1, PutIsTyped DEF RecordFailure
    <3> QED
      BY <2>9, <3>2 DEF RecordFailure, AfterFailure, NextClaim, Places
  <2> QED
    BY <1>2, <2>1, <2>2, <2>3, <2>4, <2>5, <2>6, <2>7, <2>8, <2>9 DEF DeliverStep
<1>3. ASSUME NEW w \in Worker, Crash(w)
      PROVE  TypeInv'
  BY <1>3 DEF Crash, Die, Leave, Places
<1>4. ASSUME NEW r \in Row, Enqueue(r)
      PROVE  TypeInv'
  BY <1>4 DEF Enqueue, NotBefore, Statuses
<1>5. CASE TimePasses
  <2>1. wait' \in [Row -> 0..MaxDelay]
    BY <1>5 DEF TimePasses
  <2>2. age' \in [Row -> 0..StaleAfter + 1]
    <3>1. \A r \in Row : Lesser(StaleAfter + 1, age[r] + 1) \in 0..StaleAfter + 1
      BY DEF Lesser
    <3> QED
      BY <1>5, <3>1 DEF TimePasses
  <2> QED
    BY <1>5, <2>1, <2>2 DEF TimePasses
<1>6. CASE DashboardStep
  <2>1. ASSUME NEW f \in Switches, Edit(f)
        PROVE  TypeInv'
    <3>1. config' \in [gate : BOOLEAN, canary : BOOLEAN, allowed : BOOLEAN,
                       immediate : BOOLEAN, wanted : BOOLEAN, quiet : BOOLEAN]
      BY <2>1 DEF Edit, Switches
    <3> QED
      BY <2>1, <3>1 DEF Edit
  <2>2. ASSUME NEW r \in Row, RetryFailed(r)
        PROVE  TypeInv'
    BY <2>2 DEF RetryFailed, Put, Statuses
  <2>3. CASE RemoveCancels
    BY <2>3, CancelRowsIsTyped DEF RemoveCancels
  <2>4. CASE RemoveUncanary
    BY <2>4 DEF RemoveUncanary
  <2>5. CASE RemoveUnlist
    BY <2>5 DEF RemoveUnlist
  <2>6. CASE RemovePurge
    BY <2>6 DEF RemovePurge
  <2>7. CASE RemoveDies
    BY <2>7 DEF RemoveDies
  <2>8. CASE AddPerson
    <3>1. config' = [config EXCEPT !.allowed = TRUE]
      BY <2>8 DEF AddPerson
    <3>2. config' \in [gate : BOOLEAN, canary : BOOLEAN, allowed : BOOLEAN,
                       immediate : BOOLEAN, wanted : BOOLEAN, quiet : BOOLEAN]
      BY <3>1
    <3> QED
      BY <2>8, <3>2 DEF AddPerson
  <2> QED
    BY <1>6, <2>1, <2>2, <2>3, <2>4, <2>5, <2>6, <2>7, <2>8 DEF DashboardStep
<1>7. CASE PeerStep
  BY <1>7 DEF PeerStep, PeerLocks, PeerBanks, PeerUnlocks, PeerDies, PeerSends
<1>8. CASE UNCHANGED vars
  BY <1>8 DEF vars
<1> QED
  BY <1>1, <1>2, <1>3, <1>4, <1>5, <1>6, <1>7, <1>8 DEF Next, WorkerStep

\* Every variable keeps its type, for any workers, rows and bounds.
THEOREM TypeCorrect == Spec => []TypeOK
<1>1. TypeInv => TypeOK
  BY DEF TypeInv
<1> QED
  BY <1>1, TypeInit, TypeStep, PTL DEF Spec
-----------------------------------------------------------------------------
(* The inductive invariant. *)

\* Only the holder of run.lock runs.
RunsAlone == \A w \in Worker : pc[w] # "idle" => runLock = w

\* Past the claim a worker holds the delivery lock, and so does a busy peer.
PastClaim == {"locked", "checked", "recorded"} \cup AfterSend

LockHeld ==
  /\ \A w \in Worker : pc[w] \in PastClaim => lock = w
  /\ peer # "away" => lock = Peer

\* A row Telegram took waits for its receipt, has it, is quarantined, or was
\* cancelled too late; in each of these nobody can claim it again.
CopiedOnce ==
  \A r \in Row :
    /\ copies[r] \in {0, 1}
    /\ copies[r] = 1 => status[r] \in {"sending", "sent", "uncertain", "cancelled"}

\* The row in a worker's hands is its own, unless a cancel took it; before the
\* call of Telegram, and after a definite refusal, Telegram does not have it.
InHand ==
  \A w \in Worker :
    /\ pc[w] \in BeforeSend \cup AfterSend => status[cur[w]] \in {"sending", "cancelled"}
    /\ pc[w] \in BeforeSend \cup {"refused", "rejected"} => copies[cur[w]] = 0
    /\ pc[w] = "accepted" => copies[cur[w]] = 1

\* The inductive invariant.
IInv == TypeInv /\ RunsAlone /\ LockHeld /\ CopiedOnce /\ InHand /\ ReceiptsAreEarned /\ LastLookHolds

\* The inductive invariant holds of an empty ledger and free locks.
LEMMA InvInit == Init => IInv
BY TypeInit, RowAssumption
   DEF Init, IInv, RunsAlone, LockHeld, PastClaim, CopiedOnce, InHand, BeforeSend, AfterSend,
       ReceiptsAreEarned, LastLookHolds

\* Every step keeps the inductive invariant: one case for each action, and in it
\* one for each conjunct the action can disturb.
LEMMA InvStep == IInv /\ [Next]_vars => IInv'
<1> SUFFICES ASSUME IInv, [Next]_vars
             PROVE  IInv'
  OBVIOUS
<1>0. TypeInv'
  BY TypeStep DEF IInv
<1> USE <1>0, RowAssumption, WorkerAssumption
    DEF IInv, TypeInv, TypeOK, CurClaimed, RunsAlone, LockHeld, PastClaim, CopiedOnce, InHand,
        ReceiptsAreEarned, LastLookHolds, BeforeSend, AfterSend, Goto,
        outbox, dashboard, other, budget, place
<1>1. ASSUME NEW w \in Worker, RunStep(w)
      PROVE  IInv'
  <2>1. CASE Begin(w)
    BY <2>1 DEF Begin
  <2>2. CASE Promote(w)
    BY <2>2 DEF Promote
  <2>3. CASE Load(w)
    BY <2>3 DEF Load
  <2>4. CASE Reconcile(w)
    BY <2>4 DEF Reconcile
  <2>5. CASE RecoverStale(w)
    BY <2>5 DEF RecoverStale, Stale
  <2>6. CASE ReleaseRetries(w)
    BY <2>6 DEF ReleaseRetries
  <2>7. CASE Precancel(w)
    BY <2>7 DEF Precancel, CancelRows, Cancellable
  <2>8. CASE Finish(w)
    BY <2>8 DEF Finish, Leave
  <2>9. ASSUME NEW r \in Row, Claim(w, r)
        PROVE  IInv'
    BY <2>9 DEF Claim, Due
  <2> QED
    BY <1>1, <2>1, <2>2, <2>3, <2>4, <2>5, <2>6, <2>7, <2>8, <2>9 DEF RunStep
<1>2. ASSUME NEW w \in Worker, DeliverStep(w)
      PROVE  IInv'
  <2>1. CASE TakeLock(w)
    BY <2>1 DEF TakeLock
  <2>2. CASE CheckPasses(w)
    BY <2>2 DEF CheckPasses, Eligible
  <2>3. CASE CheckDrops(w)
    BY <2>3 DEF CheckDrops, CancelRows, Cancellable, NextClaim
  <2>4. CASE CheckReturns(w)
    BY <2>4 DEF CheckReturns, NotNow, Put, NextClaim
  <2>5. ASSUME NEW outcome \in AfterSend, NEW taken \in BOOLEAN, Transport(w, outcome, taken)
        PROVE  IInv'
    <3>1. cur[w] \in Row /\ copies[cur[w]] = 0
      BY <2>5 DEF Transport
    <3>2. copies' = [copies EXCEPT ![cur[w]] = IF taken THEN 1 ELSE 0]
      <4>1. Lesser(MaxCount + 1, copies[cur[w]] + 1) = 1
        BY <3>1, BoundsAreNatural DEF Lesser
      <4> QED
        BY <2>5, <3>1, <4>1 DEF Transport
    <3>3. outcome = "accepted" => taken
      BY <2>5 DEF Transport
    <3>4. outcome \in {"refused", "rejected"} => ~taken
      BY <2>5 DEF Transport
    <3>5. CopiedOnce'
      BY <2>5, <3>1, <3>2 DEF Transport
    <3>6. InHand'
      BY <2>5, <3>1, <3>2, <3>3, <3>4 DEF Transport
    <3>7. ReceiptsAreEarned'
      BY <2>5, <3>1, <3>2 DEF Transport
    <3> QED
      BY <2>5, <3>5, <3>6, <3>7 DEF Transport
  <2>6. CASE RecordSent(w)
    BY <2>6 DEF RecordSent
  <2>7. CASE BankIt(w)
    BY <2>7 DEF BankIt, NextClaim
  <2>8. CASE Raise(w)
    BY <2>8 DEF Raise, NotNow, Die, Leave
  <2>9. ASSUME NEW s \in Statuses, NEW delay \in 0..MaxDelay, RecordFailure(w, s, delay)
        PROVE  IInv'
    BY <2>9 DEF RecordFailure, AfterFailure, Put, NextClaim
  <2> QED
    BY <1>2, <2>1, <2>2, <2>3, <2>4, <2>5, <2>6, <2>7, <2>8, <2>9 DEF DeliverStep
<1>3. ASSUME NEW w \in Worker, Crash(w)
      PROVE  IInv'
  BY <1>3 DEF Crash, Die, Leave
<1>4. ASSUME NEW r \in Row, Enqueue(r)
      PROVE  IInv'
  BY <1>4 DEF Enqueue
<1>5. CASE TimePasses
  BY <1>5 DEF TimePasses
<1>6. CASE DashboardStep
  <2>1. ASSUME NEW f \in Switches, Edit(f)
        PROVE  IInv'
    BY <2>1 DEF Edit
  <2>2. ASSUME NEW r \in Row, RetryFailed(r)
        PROVE  IInv'
    BY <2>2 DEF RetryFailed, Put
  <2>3. CASE RemoveCancels
    BY <2>3 DEF RemoveCancels, CancelRows, Cancellable
  <2>4. CASE RemoveUncanary \/ RemoveUnlist \/ RemovePurge \/ RemoveDies \/ AddPerson
    BY <2>4 DEF RemoveUncanary, RemoveUnlist, RemovePurge, RemoveDies, AddPerson
  <2> QED
    BY <1>6, <2>1, <2>2, <2>3, <2>4 DEF DashboardStep
<1>7. CASE PeerStep
  <2>1. CASE PeerLocks
    BY <2>1 DEF PeerLocks
  <2>2. CASE PeerBanks
    BY <2>2 DEF PeerBanks
  <2>3. CASE PeerUnlocks \/ PeerDies
    BY <2>3 DEF PeerUnlocks, PeerDies
  <2>4. ASSUME NEW l \in Listing, PeerSends(l)
        PROVE  IInv'
    BY <2>4 DEF PeerSends
  <2> QED
    BY <1>7, <2>1, <2>2, <2>3, <2>4 DEF PeerStep
<1>8. CASE UNCHANGED vars
  BY <1>8 DEF vars
<1> QED
  BY <1>1, <1>2, <1>3, <1>4, <1>5, <1>6, <1>7, <1>8 DEF Next, WorkerStep

\* The locks and the rows agree at all times: what the other theorems rest on.
THEOREM InvariantHolds == Spec => []IInv
BY InvInit, InvStep, PTL DEF Spec

\* Telegram takes a row's message at most once, however often workers and
\* peers die and the dashboard cancels or retries: claim_due_outbox takes only
\* pending rows, and no row Telegram may have taken becomes pending again.
THEOREM CopiesAreBounded == Spec => []AtMostOneCopy
<1>1. IInv => AtMostOneCopy
  BY DEF IInv, CopiedOnce, AtMostOneCopy
<1> QED
  BY <1>1, InvariantHolds, PTL

\* Receipts and sent rows agree, and each stands for a message Telegram took:
\* mark_outbox_sent runs at most once per row and never on a cancelled one.
THEOREM ReceiptsHold == Spec => []ReceiptsAreEarned
<1>1. IInv => ReceiptsAreEarned
  BY DEF IInv
<1> QED
  BY <1>1, InvariantHolds, PTL

\* The bank does not learn of the property between the worker's last look and
\* its call of Telegram: everything that banks a receipt meanwhile needs the
\* delivery lock or the run lock.
THEOREM LastLookStands == Spec => []LastLookHolds
<1>1. IInv => LastLookHolds
  BY DEF IInv
<1> QED
  BY <1>1, InvariantHolds, PTL

\* No process quarantines a row another process still holds: recover_stale runs
\* under run.lock, and a worker waiting for Telegram holds run.lock.
THEOREM OrphansOnly == Spec => OnlyOrphansAreStale
<1>1. IInv /\ [Next]_vars => [QuarantinesOrphans]_vars
  <2> SUFFICES ASSUME IInv, [Next]_vars,
                      NEW r \in Row, status[r] = "sending", status'[r] = "uncertain",
                      NEW v \in Worker, cur[v] = r
               PROVE  pc[v] = "ambiguous"
    BY DEF QuarantinesOrphans
  <2> USE RowAssumption, WorkerAssumption
      DEF IInv, TypeInv, TypeOK, CurClaimed, RunsAlone, BeforeSend, AfterSend
  <2>1. pc[v] # "idle" /\ runLock = v
    OBVIOUS
  <2>2. ASSUME NEW w \in Worker, RunStep(w)
        PROVE  pc[v] = "ambiguous"
    <3>1. pc[w] \in {"idle", "promote", "load", "reconcile", "recover", "release",
                     "precancel", "claim"}
      BY <2>2 DEF RunStep, Begin, Promote, Load, Reconcile, RecoverStale, ReleaseRetries,
                  Precancel, Finish, Leave, Claim
    <3>2. pc[w] = "idle"
      BY <2>1, <3>1
    <3> QED
      BY <2>2, <3>2 DEF RunStep, Begin, Promote, Load, Reconcile, RecoverStale,
                        ReleaseRetries, Precancel, Finish, Leave, Claim, outbox
  <2>3. ASSUME NEW w \in Worker, DeliverStep(w)
        PROVE  pc[v] = "ambiguous"
    <3>1. ASSUME NEW s \in Statuses, NEW delay \in 0..MaxDelay, RecordFailure(w, s, delay)
          PROVE  pc[v] = "ambiguous"
      BY <2>1, <3>1 DEF RecordFailure, AfterFailure, Put
    <3>2. CASE CheckReturns(w)
      BY <3>2 DEF CheckReturns, Put
    <3>3. CASE CheckDrops(w)
      BY <3>3 DEF CheckDrops, CancelRows
    <3>4. CASE RecordSent(w)
      BY <3>4 DEF RecordSent
    <3> QED
      BY <2>3, <3>1, <3>2, <3>3, <3>4
         DEF DeliverStep, TakeLock, CheckPasses, Transport, BankIt, Raise, Die, Leave, outbox
  <2>4. ASSUME NEW w \in Worker, Crash(w)
        PROVE  FALSE
    BY <2>4 DEF Crash, Die, Leave, outbox
  <2>5. ASSUME NEW x \in Row, Enqueue(x)
        PROVE  FALSE
    BY <2>5 DEF Enqueue
  <2>6. CASE TimePasses
    BY <2>6 DEF TimePasses
  <2>7. CASE DashboardStep
    BY <2>7 DEF DashboardStep, Edit, RetryFailed, Put, RemoveCancels, CancelRows,
                RemoveUncanary, RemoveUnlist, RemovePurge, RemoveDies, AddPerson, outbox
  <2>8. CASE PeerStep
    BY <2>8 DEF PeerStep, PeerLocks, PeerBanks, PeerUnlocks, PeerDies, PeerSends, outbox
  <2>9. CASE UNCHANGED vars
    BY <2>9 DEF vars, outbox
  <2> QED
    BY <2>2, <2>3, <2>4, <2>5, <2>6, <2>7, <2>8, <2>9 DEF Next, WorkerStep
<1>2. QED
  BY <1>1, InvariantHolds, PTL DEF Spec, OnlyOrphansAreStale
-----------------------------------------------------------------------------
(* Receipts and the bank: a run that claims has brought the bank up to the   *)
(* receipts, and nothing but a removal takes anything out of it again.       *)

\* Edits made, and those still needed before the worker sends to a recipient.
Distance ==
  edits + (IF config.canary THEN 0 ELSE 1) + (IF config.allowed THEN 0 ELSE 1)

\* How far remove_person has put the recipient away from the worker.
RemovalCounts ==
  /\ admin # "idle" => edits > 0
  /\ admin \in {"uncanaried", "unlisted"} => edits + (IF config.canary THEN 0 ELSE 1) >= 2
  /\ admin = "unlisted" => Distance >= 3

PastReconcile == {"recover", "release", "precancel", "claim", "recorded"} \cup BeforeSend \cup AfterSend

BankedOrInHand ==
  \A r \in receipt : IdentityOf[r] \in bank \/ \E w \in Worker : pc[w] = "recorded" /\ cur[w] = r

\* Once _reconcile_seen has run the bank has every receipt, but the one in hand.
Reconciled ==
  /\ \A w \in Worker : pc[w] \in BeforeSend \cup AfterSend \cup {"recorded"} => target[w]
  /\ faults = 0 /\ Distance < 3 =>
       \A w \in Worker : pc[w] \in PastReconcile /\ target[w] => BankedOrInHand

GuardInv == RemovalCounts /\ Reconciled /\ ReceiptGuardsListing

\* It holds before anything was sent.
LEMMA GuardInit == Init => GuardInv
BY RowAssumption
   DEF Init, GuardInv, RemovalCounts, Distance, Reconciled, PastReconcile, BeforeSend, AfterSend,
       ReceiptGuardsListing

\* Every step keeps it: the worker's because it runs alone, the dashboard's
\* because each edit that brings the recipient nearer is counted.
LEMMA GuardStep == IInv /\ GuardInv /\ [Next]_vars => GuardInv'
<1> SUFFICES ASSUME IInv, GuardInv, [Next]_vars
             PROVE  GuardInv'
  OBVIOUS
<1>0. TypeInv'
  BY TypeStep DEF IInv
<1> USE <1>0, RowAssumption, WorkerAssumption
    DEF IInv, TypeInv, TypeOK, CurClaimed, RunsAlone, LockHeld, PastClaim, InHand,
        ReceiptsAreEarned, LastLookHolds, BeforeSend, AfterSend, Goto,
        GuardInv, RemovalCounts, Distance, Reconciled, PastReconcile, BankedOrInHand,
        ReceiptGuardsListing, outbox, dashboard, other, budget, place
<1>1. ASSUME NEW w \in Worker, RunStep(w)
      PROVE  GuardInv'
  <2>1. CASE Begin(w)
    BY <2>1 DEF Begin
  <2>2. CASE Promote(w)
    BY <2>2 DEF Promote
  <2>3. CASE Load(w)
    BY <2>3 DEF Load
  <2>4. CASE Reconcile(w)
    BY <2>4 DEF Reconcile, Unbanked
  <2>5. CASE RecoverStale(w)
    BY <2>5 DEF RecoverStale
  <2>6. CASE ReleaseRetries(w)
    BY <2>6 DEF ReleaseRetries
  <2>7. CASE Precancel(w)
    BY <2>7 DEF Precancel
  <2>8. CASE Finish(w)
    BY <2>8 DEF Finish, Leave
  <2>9. ASSUME NEW r \in Row, Claim(w, r)
        PROVE  GuardInv'
    BY <2>9 DEF Claim
  <2> QED
    BY <1>1, <2>1, <2>2, <2>3, <2>4, <2>5, <2>6, <2>7, <2>8, <2>9 DEF RunStep
<1>2. ASSUME NEW w \in Worker, DeliverStep(w)
      PROVE  GuardInv'
  <2>1. CASE TakeLock(w)
    BY <2>1 DEF TakeLock
  <2>2. CASE CheckPasses(w)
    BY <2>2 DEF CheckPasses, Eligible
  <2>3. CASE CheckDrops(w)
    BY <2>3 DEF CheckDrops, NextClaim
  <2>4. CASE CheckReturns(w)
    BY <2>4 DEF CheckReturns, NotNow, NextClaim
  <2>5. ASSUME NEW outcome \in AfterSend, NEW taken \in BOOLEAN, Transport(w, outcome, taken)
        PROVE  GuardInv'
    BY <2>5 DEF Transport
  <2>6. CASE RecordSent(w)
    BY <2>6 DEF RecordSent
  <2>7. CASE BankIt(w)
    BY <2>7 DEF BankIt, NextClaim
  <2>8. CASE Raise(w)
    BY <2>8 DEF Raise, NotNow, Die, Leave
  <2>9. ASSUME NEW s \in Statuses, NEW delay \in 0..MaxDelay, RecordFailure(w, s, delay)
        PROVE  GuardInv'
    BY <2>9 DEF RecordFailure, AfterFailure, NextClaim
  <2> QED
    BY ONLY <1>2, <2>1, <2>2, <2>3, <2>4, <2>5, <2>6, <2>7, <2>8, <2>9 DEF DeliverStep
<1>3. ASSUME NEW w \in Worker, Crash(w)
      PROVE  GuardInv'
  BY <1>3 DEF Crash, Die, Leave
<1>4. ASSUME NEW r \in Row, Enqueue(r)
      PROVE  GuardInv'
  BY <1>4 DEF Enqueue
<1>5. CASE TimePasses
  BY <1>5 DEF TimePasses
<1>6. CASE DashboardStep
  <2>1. ASSUME NEW f \in Switches, Edit(f)
        PROVE  GuardInv'
    BY <2>1 DEF Edit, Switches
  <2>2. ASSUME NEW r \in Row, RetryFailed(r)
        PROVE  GuardInv'
    BY <2>2 DEF RetryFailed
  <2>3. CASE RemoveCancels
    BY <2>3 DEF RemoveCancels
  <2>4. CASE RemoveUncanary
    BY <2>4 DEF RemoveUncanary
  <2>5. CASE RemoveUnlist
    BY <2>5 DEF RemoveUnlist
  <2>6. CASE RemovePurge
    BY <2>6 DEF RemovePurge
  <2>7. CASE RemoveDies
    BY <2>7 DEF RemoveDies
  <2>8. CASE AddPerson
    BY <2>8 DEF AddPerson
  <2> QED
    BY ONLY <1>6, <2>1, <2>2, <2>3, <2>4, <2>5, <2>6, <2>7, <2>8 DEF DashboardStep
<1>7. CASE PeerStep
  <2>1. bank \subseteq bank' /\ UNCHANGED <<receipt, pc, cur, target, config, admin, faults, edits>>
    BY ONLY <1>7 DEF PeerStep, PeerLocks, PeerBanks, PeerUnlocks, PeerDies, PeerSends,
                     outbox, place, dashboard, budget
  <2>2. BankedOrInHand => BankedOrInHand'
    BY ONLY <2>1 DEF BankedOrInHand
  <2> QED
    BY ONLY GuardInv, <2>1, <2>2
       DEF GuardInv, RemovalCounts, Distance, Reconciled, ReceiptGuardsListing
<1>8. CASE UNCHANGED vars
  BY <1>8 DEF vars
<1> QED
  BY <1>1, <1>2, <1>3, <1>4, <1>5, <1>6, <1>7, <1>8 DEF Next, WorkerStep

\* A receipt keeps its property from being announced again by another row,
\* however many processes and rows there are and wherever a run that earned one
\* died: _reconcile_seen stands before every claim.
THEOREM ReceiptsGuard == Spec => []ReceiptGuardsListing
<1>1. GuardInv => ReceiptGuardsListing
  BY DEF GuardInv
<1> QED
  BY <1>1, GuardInit, GuardStep, InvariantHolds, PTL DEF Spec
-----------------------------------------------------------------------------
(* The outbox implements AlertPromise: a step of a row is a step of its     *)
(* fate there, and a step of many rows at once only quarantines or withdraws *)
(* them.                                                                    *)

Fate == [r \in Row |-> FateOf(r)]

\* The worker holds the row and has not called Telegram yet.
Waiting(w, r) == cur[w] = r /\ pc[w] \in BeforeSend

\* Rows whose status is as it was, and which are awaited as they were, keep
\* their fate.
LEMMA FateStays ==
  ASSUME NEW r \in Row, status'[r] = status[r],
         status[r] = "cancelled" => (AwaitsSend(r)' <=> AwaitsSend(r))
  PROVE  FateOf(r)' = FateOf(r)
BY DEF FateOf

\* Only one worker runs, so only its row is awaited, before and after its step.
LEMMA OneHand ==
  ASSUME IInv, NEW w \in Worker, pc[w] # "idle" \/ runLock = NoOne,
         \A v \in Worker : v # w => pc'[v] = pc[v] /\ cur'[v] = cur[v],
         NEW r \in Row
  PROVE  (AwaitsSend(r) <=> Waiting(w, r)) /\ (AwaitsSend(r)' <=> Waiting(w, r)')
<1>1. \A v \in Worker : v # w => pc[v] = "idle"
  BY WorkerAssumption DEF IInv, RunsAlone
<1> QED
  BY <1>1 DEF AwaitsSend, Waiting, BeforeSend

LEMMA PromiseInit == Init => Promise!Init
BY DEF Init, Promise!Init, FateOf

\* Steps of AlertPromise, told from the fates of all rows before and after.
LEMMA Stutters ==
  ASSUME \A r \in Row : FateOf(r)' = FateOf(r), UNCHANGED copies
  PROVE  UNCHANGED Promise!promiseVars
BY DEF Promise!promiseVars

LEMMA OneMoves ==
  ASSUME NEW x \in Row, \A r \in Row : r # x => FateOf(r)' = FateOf(r)
  PROVE  Fate' = [Fate EXCEPT ![x] = FateOf(x)']
BY DEF Fate

LEMMA Withdrawn ==
  ASSUME NEW rs \in SUBSET Row, UNCHANGED copies,
         \A r \in rs : FateOf(r) \in {"open", "onWire"} /\ FateOf(r)' = "withdrawn",
         \A r \in Row \ rs : FateOf(r)' = FateOf(r)
  PROVE  Promise!Next
<1>1. Promise!Withdraw(rs, {})
  BY DEF Promise!Withdraw
<1> QED
  BY <1>1 DEF Promise!Next

LEMMA Quarantined ==
  ASSUME NEW rs \in SUBSET Row, UNCHANGED copies,
         \A r \in rs : FateOf(r) = "onWire" /\ FateOf(r)' = "unknown",
         \A r \in Row \ rs : FateOf(r)' = FateOf(r)
  PROVE  Promise!Next
<1>1. Promise!Quarantine(rs)
  BY DEF Promise!Quarantine
<1> QED
  BY <1>1 DEF Promise!Next

\* Between claims the run handles many rows, and no row is awaited.
LEMMA PromiseRun ==
  ASSUME IInv, NEW w \in Worker, RunStep(w)
  PROVE  Promise!Next \/ UNCHANGED Promise!promiseVars
<1> USE DEF IInv, TypeInv, TypeOK, Goto, outbox
<1>1. UNCHANGED copies /\ (pc[w] # "idle" \/ runLock = NoOne)
  BY DEF RunStep, Begin, Promote, Load, Reconcile, RecoverStale, ReleaseRetries,
         Precancel, Finish, Claim
<1>2. /\ \A v \in Worker : v # w => pc'[v] = pc[v] /\ cur'[v] = cur[v]
      /\ pc[w] \notin BeforeSend
  BY DEF RunStep, Begin, Promote, Load, Reconcile, RecoverStale, ReleaseRetries,
         Precancel, Finish, Leave, Claim, BeforeSend
<1>3. \A r \in Row : ~AwaitsSend(r)
  BY <1>1, <1>2, OneHand DEF Waiting
<1>4. CASE Begin(w) \/ Load(w) \/ Reconcile(w) \/ Finish(w)
  <2>1. UNCHANGED status /\ pc'[w] \notin BeforeSend
    BY <1>4 DEF Begin, Load, Reconcile, Finish, Leave, BeforeSend
  <2>2. \A r \in Row : ~AwaitsSend(r)'
    BY <1>1, <1>2, <2>1, OneHand DEF Waiting
  <2> QED
    BY <1>1, <1>3, <2>1, <2>2, FateStays, Stutters
<1>5. CASE Promote(w) \/ RecoverStale(w) \/ ReleaseRetries(w) \/ Precancel(w)
  <2>1. pc'[w] \notin BeforeSend
    BY <1>5 DEF Promote, RecoverStale, ReleaseRetries, Precancel, BeforeSend
  <2>2. \A r \in Row : ~AwaitsSend(r)'
    BY <1>1, <1>2, <2>1, OneHand DEF Waiting
  <2>3. CASE Promote(w)
    <3> DEFINE rs == {r \in Row : status[r] = "shadow" /\ status'[r] = "cancelled"}
    <3>1. \A r \in rs : FateOf(r) = "open" /\ FateOf(r)' = "withdrawn"
      BY <2>2 DEF FateOf
    <3>2. \A r \in Row \ rs : status'[r] = status[r] \/ (status[r] = "shadow" /\ status'[r] = "pending")
      BY <2>3 DEF Promote
    <3>3. \A r \in Row \ rs : FateOf(r)' = FateOf(r)
      BY <1>3, <2>2, <3>2, FateStays DEF FateOf
    <3> QED
      BY <1>1, <3>1, <3>3, Withdrawn
  <2>4. CASE RecoverStale(w)
    <3> DEFINE rs == {r \in Row : target[w] /\ Stale(r)}
    <3>1. \A r \in rs : FateOf(r) = "onWire" /\ FateOf(r)' = "unknown"
      BY <2>4 DEF RecoverStale, Stale, FateOf
    <3>2. \A r \in Row \ rs : status'[r] = status[r]
      BY <2>4 DEF RecoverStale
    <3>3. \A r \in Row \ rs : FateOf(r)' = FateOf(r)
      BY <1>3, <2>2, <3>2, FateStays
    <3> QED
      BY <1>1, <3>1, <3>3, Quarantined
  <2>5. CASE ReleaseRetries(w)
    <3>1. \A r \in Row : status'[r] = status[r] \/ (status[r] = "retry_wait" /\ status'[r] = "pending")
      BY <2>5 DEF ReleaseRetries
    <3>2. \A r \in Row : FateOf(r)' = FateOf(r)
      BY <1>3, <2>2, <3>1, FateStays DEF FateOf
    <3> QED
      BY <1>1, <3>2, Stutters
  <2>6. CASE Precancel(w)
    <3> DEFINE rs == {r \in Row : target[w] /\ status[r] = "pending" /\ wait[r] = 0 /\ Unwanted(r)}
    <3>1. \A r \in rs : status[r] = "pending" /\ status'[r] = "cancelled"
      BY <2>6 DEF Precancel, CancelRows, Cancellable
    <3>2. \A r \in rs : FateOf(r) = "open" /\ FateOf(r)' = "withdrawn"
      BY <2>2, <3>1 DEF FateOf
    <3>3. \A r \in Row \ rs : status'[r] = status[r]
      BY <2>6 DEF Precancel, CancelRows
    <3>4. \A r \in Row \ rs : FateOf(r)' = FateOf(r)
      BY <1>3, <2>2, <3>3, FateStays
    <3> QED
      BY <1>1, <3>2, <3>4, Withdrawn
  <2> QED
    BY <1>5, <2>3, <2>4, <2>5, <2>6
<1>6. ASSUME NEW x \in Row, Claim(w, x)
      PROVE  Promise!Next
  <2>1. status[x] = "pending" /\ copies[x] = 0 /\ status'[x] = "sending"
    BY <1>6 DEF Claim, Due, CopiedOnce
  <2>2. \A r \in Row : r # x => status'[r] = status[r] /\ ~AwaitsSend(r)'
    <3>1. cur'[w] = x
      BY <1>6 DEF Claim
    <3>2. \A r \in Row : r # x => status'[r] = status[r]
      BY <1>6 DEF Claim
    <3> QED
      BY <1>1, <1>2, <3>1, <3>2, OneHand DEF Waiting
  <2>3. \A r \in Row : r # x => FateOf(r)' = FateOf(r)
    BY <1>3, <2>2, FateStays
  <2>4. FateOf(x) = "open" /\ FateOf(x)' = "onWire"
    BY <2>1 DEF FateOf
  <2>5. Promise!Offer(x)
    BY <1>1, <2>1, <2>3, <2>4, OneMoves DEF Promise!Offer, Promise!Becomes, Fate
  <2> QED
    BY <2>5 DEF Promise!Next
<1> QED
  BY <1>4, <1>5, <1>6 DEF RunStep

\* With a row in hand the worker moves this row's fate alone.
LEMMA PromiseDeliver ==
  ASSUME IInv, NEW w \in Worker, DeliverStep(w) \/ Crash(w)
  PROVE  Promise!Next \/ UNCHANGED Promise!promiseVars
<1> USE RowAssumption
    DEF IInv, TypeInv, TypeOK, CurClaimed, InHand, BeforeSend, AfterSend, Goto, outbox
<1>0. PICK x : x = cur[w]
  OBVIOUS
<1> USE <1>0
<1>1. /\ pc[w] # "idle"
      /\ \A v \in Worker : v # w => pc'[v] = pc[v] /\ cur'[v] = cur[v]
  BY DEF DeliverStep, Crash, TakeLock, CheckPasses, CheckDrops, CheckReturns, NotNow, Transport,
         RecordSent, BankIt, Raise, RecordFailure, AfterFailure, NextClaim, Die, Leave
<1>2. \A r \in Row : AwaitsSend(r) <=> Waiting(w, r)
  BY <1>1, OneHand
<1>3. \A r \in Row : AwaitsSend(r)' <=> Waiting(w, r)'
  BY <1>1, OneHand
<1>4. CASE TakeLock(w) \/ CheckPasses(w)
  <2>1. /\ UNCHANGED <<status, copies, cur>>
        /\ pc[w] \in BeforeSend /\ pc'[w] \in BeforeSend
    BY <1>4 DEF TakeLock, CheckPasses
  <2>2. \A r \in Row : AwaitsSend(r)' <=> AwaitsSend(r)
    BY <1>2, <1>3, <2>1 DEF Waiting
  <2> QED
    BY <2>1, <2>2, FateStays, Stutters
<1>5. CASE BankIt(w)
  <2>1. /\ UNCHANGED <<status, copies>>
        /\ pc[w] \notin BeforeSend /\ pc'[w] \notin BeforeSend
    BY <1>5 DEF BankIt, NextClaim
  <2>2. \A r \in Row : AwaitsSend(r)' <=> AwaitsSend(r)
    BY <1>2, <1>3, <2>1 DEF Waiting
  <2> QED
    BY <2>1, <2>2, FateStays, Stutters
<1>6. CASE CheckDrops(w)
  <2>1. x \in Row /\ UNCHANGED copies /\ pc[w] \in BeforeSend /\ pc'[w] \notin BeforeSend
    BY <1>6 DEF CheckDrops, NextClaim
  <2>2. \A r \in Row : r # x => status'[r] = status[r] /\ ~AwaitsSend(r)' /\ ~AwaitsSend(r)
    BY <1>6, <1>2, <1>3, <2>1 DEF CheckDrops, CancelRows, Waiting
  <2>3. \A r \in Row : r # x => FateOf(r)' = FateOf(r)
    BY <2>2, FateStays
  <2>4. status'[x] = "cancelled" /\ ~AwaitsSend(x)' /\ AwaitsSend(x)
    BY <1>6, <1>2, <1>3, <2>1 DEF CheckDrops, CancelRows, Cancellable, Waiting
  <2>5. FateOf(x)' = "withdrawn"
    BY <2>4 DEF FateOf
  <2>6. CASE status[x] = "sending"
    <3>1. {x} \in SUBSET Row /\ \A r \in Row \ {x} : FateOf(r)' = FateOf(r)
      BY <2>1, <2>3
    <3>2. \A r \in {x} : FateOf(r) \in {"open", "onWire"} /\ FateOf(r)' = "withdrawn"
      BY <2>5, <2>6 DEF FateOf
    <3>3. UNCHANGED copies
      BY <2>1
    <3> QED
      BY ONLY <3>1, <3>2, <3>3, Withdrawn
  <2>7. CASE status[x] = "cancelled"
    <3>1. FateOf(x) = "recalled"
      BY <2>4, <2>7 DEF FateOf
    <3>2. Promise!Drop(x)
      BY <2>1, <2>3, <2>5, <3>1, OneMoves DEF Promise!Drop, Promise!Becomes, Fate
    <3> QED
      BY <2>1, <3>2 DEF Promise!Next
  <2> QED
    BY <2>1, <2>6, <2>7
<1>7. CASE CheckReturns(w)
  <2>1. x \in Row /\ UNCHANGED copies /\ pc[w] \in BeforeSend /\ pc'[w] \notin BeforeSend
    BY <1>7 DEF CheckReturns, NotNow, NextClaim
  <2>2. \A r \in Row : r # x => status'[r] = status[r] /\ ~AwaitsSend(r)' /\ ~AwaitsSend(r)
    BY <1>7, <1>2, <1>3, <2>1 DEF CheckReturns, Put, Waiting
  <2>3. status[x] = "sending" /\ status'[x] = "pending" /\ copies[x] = 0
    BY <1>7, <2>1 DEF CheckReturns, Put
  <2>4. FateOf(x) = "onWire" /\ FateOf(x)' = "open"
    BY <2>3 DEF FateOf
  <2>5. Promise!TakeBack(x)
    BY <2>1, <2>2, <2>3, <2>4, FateStays, OneMoves DEF Promise!TakeBack, Promise!Becomes, Fate
  <2> QED
    BY <2>1, <2>5 DEF Promise!Next
<1>8. ASSUME NEW outcome \in AfterSend, NEW taken \in BOOLEAN, Transport(w, outcome, taken)
      PROVE  Promise!Next \/ UNCHANGED Promise!promiseVars
  <2>1. x \in Row /\ UNCHANGED <<status, cur>> /\ pc[w] \in BeforeSend /\ pc'[w] \notin BeforeSend
    BY <1>8 DEF Transport
  <2>2. \A r \in Row : r # x => ~AwaitsSend(r)' /\ ~AwaitsSend(r)
    BY <1>2, <1>3, <2>1 DEF Waiting
  <2>3. \A r \in Row : r # x => FateOf(r)' = FateOf(r)
    BY <2>1, <2>2, FateStays
  <2>4. AwaitsSend(x) /\ ~AwaitsSend(x)'
    BY <1>2, <1>3, <2>1 DEF Waiting
  <2>5. copies[x] = 0 /\ status[x] \in {"sending", "cancelled"}
    BY <2>1
  <2>6. copies' = [copies EXCEPT ![x] = IF taken THEN 1 ELSE 0]
    <3>1. Lesser(MaxCount + 1, copies[x] + 1) = 1
      BY <2>5, BoundsAreNatural DEF Lesser
    <3> QED
      BY <1>8, <2>1, <2>5, <3>1 DEF Transport
  <2>7. CASE status[x] = "sending"
    <3>1. FateOf(x) = "onWire" /\ FateOf(x)' = "onWire"
      BY <2>1, <2>7 DEF FateOf
    <3>2. UNCHANGED Fate
      BY <2>3, <3>1 DEF Fate
    <3>3. CASE taken
      <4>1. Promise!Take(x)
        <5>1. copies' = [copies EXCEPT ![x] = 1] /\ copies[x] = 0
          BY <2>5, <2>6, <3>3
        <5>2. Fate[x] = "onWire" /\ UNCHANGED Fate
          BY <2>1, <3>1, <3>2 DEF Fate
        <5> QED
          BY ONLY <5>1, <5>2 DEF Promise!Take, Fate
      <4> QED
        BY <2>1, <4>1 DEF Promise!Next
    <3>4. CASE ~taken
      <4>1. UNCHANGED copies
        BY <2>5, <2>6, <3>4
      <4> QED
        BY <2>3, <3>1, <4>1, Stutters
    <3> QED
      BY <3>3, <3>4
  <2>8. CASE status[x] = "cancelled"
    <3>1. FateOf(x) = "recalled" /\ FateOf(x)' = "withdrawn"
      BY <2>1, <2>4, <2>8 DEF FateOf
    <3>2. Fate' = [Fate EXCEPT ![x] = "withdrawn"]
      BY <2>1, <2>3, <3>1, OneMoves
    <3>3. CASE taken
      <4>1. Promise!Take(x)
        BY <2>1, <2>5, <2>6, <3>1, <3>2, <3>3 DEF Promise!Take, Promise!Becomes, Fate
      <4> QED
        BY <2>1, <4>1 DEF Promise!Next
    <3>4. CASE ~taken
      <4>1. UNCHANGED copies
        BY <2>5, <2>6, <3>4
      <4>2. Promise!Drop(x)
        BY <2>1, <3>1, <3>2, <4>1 DEF Promise!Drop, Promise!Becomes, Fate
      <4> QED
        BY <2>1, <4>2 DEF Promise!Next
    <3> QED
      BY <3>3, <3>4
  <2> QED
    BY <2>5, <2>7, <2>8
<1>9. CASE RecordSent(w)
  <2>1. /\ x \in Row /\ UNCHANGED <<copies, cur>>
        /\ pc[w] \notin BeforeSend /\ pc'[w] \notin BeforeSend
    BY <1>9 DEF RecordSent
  <2>2. \A r \in Row : r # x => status'[r] = status[r] /\ ~AwaitsSend(r)' /\ ~AwaitsSend(r)
    BY <1>9, <1>2, <1>3, <2>1 DEF RecordSent, Waiting
  <2>3. status[x] = "sending" /\ status'[x] = "sent" /\ copies[x] = 1
    BY <1>9, <2>1 DEF RecordSent
  <2>4. FateOf(x) = "onWire" /\ FateOf(x)' = "delivered"
    BY <2>3 DEF FateOf
  <2>5. Promise!Deliver(x)
    BY <2>1, <2>2, <2>3, <2>4, FateStays, OneMoves DEF Promise!Deliver, Promise!Becomes, Fate
  <2> QED
    BY <2>1, <2>5 DEF Promise!Next
<1>10. ASSUME NEW s \in Statuses, NEW delay \in 0..MaxDelay, RecordFailure(w, s, delay)
       PROVE  Promise!Next
  <2>1. x \in Row /\ UNCHANGED copies /\ pc[w] \in AfterSend /\ pc'[w] = "claim"
    BY <1>10 DEF RecordFailure, AfterFailure, NextClaim
  <2>2. \A r \in Row : r # x => status'[r] = status[r] /\ ~AwaitsSend(r)' /\ ~AwaitsSend(r)
    BY <1>10, <1>2, <1>3, <2>1 DEF RecordFailure, Put, Waiting
  <2>3. \A r \in Row : r # x => FateOf(r)' = FateOf(r)
    BY <2>2, FateStays
  <2>4. status[x] = "sending" /\ status'[x] = s
    BY <1>10, <2>1 DEF RecordFailure, Put
  <2>5. FateOf(x) = "onWire"
    BY <2>4 DEF FateOf
  <2>6. CASE s = "uncertain"
    <3>1. {x} \in SUBSET Row /\ \A r \in Row \ {x} : FateOf(r)' = FateOf(r)
      BY <2>1, <2>3
    <3>2. FateOf(x)' = "unknown"
      BY <2>4, <2>6 DEF FateOf
    <3>3. \A r \in {x} : FateOf(r) = "onWire" /\ FateOf(r)' = "unknown"
      BY <2>5, <3>2
    <3>4. UNCHANGED copies
      BY <2>1
    <3> QED
      BY ONLY <3>1, <3>3, <3>4, Quarantined
  <2>7. CASE s # "uncertain"
    <3>1. s \in {"failed", "retry_wait"} /\ pc[w] \in {"refused", "rejected"}
      BY <1>10, <2>7 DEF RecordFailure, AfterFailure
    <3>2. copies[x] = 0 /\ FateOf(x)' = "open"
      BY <2>4, <3>1 DEF FateOf
    <3>3. Promise!TakeBack(x)
      BY <2>1, <2>3, <2>5, <3>2, OneMoves DEF Promise!TakeBack, Promise!Becomes, Fate
    <3> QED
      BY <2>1, <3>3 DEF Promise!Next
  <2> QED
    BY <2>6, <2>7
<1>11. CASE Raise(w) \/ Crash(w)
  <2>1. UNCHANGED <<status, copies>> /\ pc'[w] = "idle"
    BY <1>11 DEF Raise, Crash, Die, Leave
  <2>2. \A r \in Row : ~AwaitsSend(r)'
    BY <1>3, <2>1 DEF Waiting
  <2>3. CASE \E r \in Row : AwaitsSend(r) /\ status[r] = "cancelled"
    <3>1. PICK y \in Row : AwaitsSend(y) /\ status[y] = "cancelled"
      BY <2>3
    <3>2. \A r \in Row : r # y => ~AwaitsSend(r)
      BY <1>2, <3>1 DEF Waiting
    <3>3. \A r \in Row : r # y => FateOf(r)' = FateOf(r)
      BY <2>1, <2>2, <3>2, FateStays
    <3>4. FateOf(y) = "recalled" /\ FateOf(y)' = "withdrawn"
      BY <2>1, <2>2, <3>1 DEF FateOf
    <3>5. Promise!Drop(y)
      BY <2>1, <3>3, <3>4, OneMoves DEF Promise!Drop, Promise!Becomes, Fate
    <3> QED
      BY <3>5 DEF Promise!Next
  <2>4. CASE \A r \in Row : AwaitsSend(r) => status[r] # "cancelled"
    BY <2>1, <2>2, <2>4, FateStays, Stutters
  <2> QED
    BY <2>3, <2>4
<1> QED
  BY <1>4, <1>5, <1>6, <1>7, <1>8, <1>9, <1>10, <1>11 DEF DeliverStep

\* Around the worker only remove_person's cancel moves a fate.
LEMMA PromiseAround ==
  ASSUME IInv, (\E r \in Row : Enqueue(r)) \/ TimePasses \/ DashboardStep \/ PeerStep
  PROVE  Promise!Next \/ UNCHANGED Promise!promiseVars
<1> USE DEF IInv, TypeInv, TypeOK, outbox, place
<1>1. UNCHANGED <<pc, cur, copies>>
  BY DEF Enqueue, TimePasses, DashboardStep, Edit, RetryFailed, RemoveCancels, RemoveUncanary,
         RemoveUnlist, RemovePurge, RemoveDies, AddPerson, PeerStep, PeerLocks, PeerBanks,
         PeerUnlocks, PeerDies, PeerSends
<1>2. \A r \in Row : AwaitsSend(r)' <=> AwaitsSend(r)
  BY <1>1 DEF AwaitsSend
<1>3. CASE UNCHANGED status
  BY <1>1, <1>2, <1>3, FateStays, Stutters
<1>4. ASSUME NEW x \in Row, Enqueue(x) \/ RetryFailed(x)
      PROVE  UNCHANGED Promise!promiseVars
  <2>1. /\ status[x] \in {"absent", "failed"} /\ status'[x] \in {"shadow", "retry_wait"}
        /\ \A r \in Row : r # x => status'[r] = status[r]
    BY <1>4 DEF Enqueue, RetryFailed, Put
  <2>2. FateOf(x)' = FateOf(x)
    BY <2>1 DEF FateOf
  <2>3. \A r \in Row : r # x => FateOf(r)' = FateOf(r)
    BY <1>2, <2>1, FateStays
  <2> QED
    BY <1>1, <2>2, <2>3, Stutters
<1>5. CASE RemoveCancels
  <2> DEFINE rs == {r \in Row : status[r] \in Cancellable}
             held == {r \in rs : AwaitsSend(r)}
  <2>1. \A r \in Row : status'[r] = IF r \in rs THEN "cancelled" ELSE status[r]
    BY <1>5 DEF RemoveCancels, CancelRows
  <2>2. \A r \in held : status[r] = "sending" /\ copies[r] = 0
    BY DEF AwaitsSend, InHand, Cancellable, BeforeSend
  <2>3. \A r \in rs : FateOf(r) \in {"open", "onWire"}
    BY DEF FateOf, Cancellable
  <2>4. \A r \in held : FateOf(r) = "onWire" /\ FateOf(r)' = "recalled"
    BY <1>2, <2>1, <2>2 DEF FateOf
  <2>5. \A r \in rs \ held : FateOf(r)' = "withdrawn"
    BY <1>2, <2>1 DEF FateOf
  <2>6. \A r \in Row \ rs : FateOf(r)' = FateOf(r)
    BY <1>2, <2>1, FateStays
  <2>7. Promise!Withdraw(rs, held)
    BY <1>1, <2>2, <2>3, <2>4, <2>5, <2>6 DEF Promise!Withdraw
  <2>8. rs \in SUBSET Row /\ held \in SUBSET rs
    OBVIOUS
  <2> QED
    BY <2>7, <2>8 DEF Promise!Next
<1> QED
  BY <1>3, <1>4, <1>5 DEF TimePasses, DashboardStep, Edit, RemoveUncanary, RemoveUnlist,
     RemovePurge, RemoveDies, AddPerson, PeerStep, PeerLocks, PeerBanks, PeerUnlocks, PeerDies,
     PeerSends

LEMMA PromiseStep == IInv /\ [Next]_vars => [Promise!Next]_(Promise!promiseVars)
<1> SUFFICES ASSUME IInv, [Next]_vars
             PROVE  Promise!Next \/ UNCHANGED Promise!promiseVars
  OBVIOUS
<1>1. CASE UNCHANGED vars
  <2>1. \A r \in Row : FateOf(r)' = FateOf(r)
    BY <1>1 DEF vars, outbox, place, FateOf, AwaitsSend
  <2> QED
    BY <1>1, <2>1, Stutters DEF vars
<1> QED
  BY <1>1, PromiseRun, PromiseDeliver, PromiseAround DEF Next, WorkerStep

\* The worker implements AlertPromise row by row, for any number of workers,
\* edits and crashes: what may have arrived is never offered again, a recalled
\* message is taken once at most, and nothing leaves quarantine.
THEOREM PromiseIsKept == Spec => KeepsPromise
<1>1. Init => Promise!Init
  BY PromiseInit
<1>2. IInv /\ [Next]_vars => [Promise!Next]_(Promise!promiseVars)
  BY PromiseStep
<1> QED
  BY <1>1, <1>2, InvariantHolds, PTL DEF Spec, KeepsPromise, Promise!Spec
=============================================================================
