------------------------ MODULE RoutineDeliveryProofs ------------------------
(***************************************************************************)
(* Proofs about RoutineDelivery, for any messages, properties, days and    *)
(* any number of crashes, lost writes and removals.  IInv relates the      *)
(* place of the run to the journal entry of the attempt in its hand, and   *)
(* the two users of the delivery lock to it.                               *)
(***************************************************************************)
EXTENDS RoutineDelivery, TLAPS

Sending == {"prepared", "staged", "accepted", "ambiguous", "refused", "banking"}
Locking == {"reconcile", "ready"} \cup Sending

\* One sender at a time holds the delivery lock.
LockHeld ==
  /\ lock = "run" <=> pc \in Locking
  /\ lock = "peer" <=> peer # "away"

\* The journal is one entry behind what the run does with an attempt.
InHand ==
  /\ pc \in Sending => cur \in todo
  /\ pc = "prepared" => journal[<<runDay, cur>>] = "prepared"
  /\ pc \in {"staged", "accepted", "ambiguous", "refused"} => journal[<<runDay, cur>>] = "sending"
  /\ pc = "banking" => journal[<<runDay, cur>>] = "accepted"

\* An attempt the journal would let go out (again) was never taken.
CopiedOnce ==
  /\ OneCopyPerAttempt
  /\ \A a \in Attempt : journal[a] \in {"none", "prepared", "failed"} => copies[a] = 0
  /\ pc \in {"staged", "refused"} => copies[<<runDay, cur>>] = 0
  /\ pc = "accepted" => copies[<<runDay, cur>>] = 1

IInv == TypeOK /\ LockHeld /\ InHand /\ CopiedOnce /\ LastLookHolds /\ LedgerIsEarned

\* What the environment does leaves the run alone.
Around == NewDay \/ DeliveryTime \/ Unlist \/ Purge \/ AddPerson
PeerStep == (\E who \in Peers : PeerLocks(who)) \/ (\E l \in Listing : PeerSends(l))
              \/ PeerRecords \/ PeerLeaves
-----------------------------------------------------------------------------
LEMMA Pairs ==
  ASSUME NEW d \in 1..MaxDay, NEW m \in Subject
  PROVE  <<d, m>> \in Attempt
BY DEF Attempt

LEMMA KeysAreApart ==
  /\ Message \subseteq Subject /\ Notice \in Subject /\ Outage \in Subject
  /\ Notice \notin Message /\ Notice \notin Listing /\ Notice # Outage
  /\ Outage \notin Message /\ Nothing \notin Subject
  /\ \A m \in Message : Announces[m] \in Listing
BY SubjectAssumption DEF Subject

LEMMA TypeInit == Init => TypeOK
<1> SUFFICES ASSUME Init PROVE TypeOK
  OBVIOUS
<1>1. ledger \in SUBSET Rows
  BY BoundAssumption DEF Init, Rows, Channels
<1> QED
  BY <1>1, BoundAssumption DEF Init, TypeOK, States

LEMMA TypeStep ==
  ASSUME TypeOK, InHand, Next
  PROVE  TypeOK'
<1> USE DEF TypeOK, calendar, person, files, run, others, budget
<1>1. cur \in Subject \/ pc \notin Sending
  BY DEF InHand
<1>2. ASSUME NEW m \in Subject, NEW s \in States, Log(m, s)
      PROVE  journal' \in [Attempt -> States]
  BY <1>2 DEF Log
<1>3. ASSUME NEW pool \in Pools, Plan(pool)
      PROVE  TypeOK'
  <2>1. todo' \in SUBSET Subject
    BY <1>3, KeysAreApart DEF Plan, Pools
  <2> QED
    BY <1>3, <2>1 DEF Plan
<1>4. CASE PlanOutage
  BY <1>4, KeysAreApart DEF PlanOutage
<1>5. CASE TakeLock
  BY <1>5 DEF TakeLock
<1>6. CASE Reconcile
  <2>1. Repairs \subseteq Rows
    BY KeysAreApart DEF Repairs, LedgerRow, Rows, Channels, Attempt
  <2>2. ledger' \subseteq Rows /\ faults' \in Nat
    BY <1>6, <2>1 DEF Reconcile
  <2> QED
    BY <1>6, <2>2 DEF Reconcile
<1>7. ASSUME NEW m \in Subject, Suppress(m)
      PROVE  TypeOK'
  BY <1>7 DEF Suppress, Drop
<1>8. ASSUME NEW m \in Subject, Prepare(m)
      PROVE  TypeOK'
  BY <1>2, <1>8 DEF Prepare, States
<1>9. ASSUME NEW m \in Subject, Quarantine(m)
      PROVE  TypeOK'
  BY <1>2, <1>9 DEF Quarantine, Drop, States
<1>10. ASSUME NEW m \in Subject, WriteFails(m)
       PROVE  TypeOK'
  BY <1>10 DEF WriteFails, Drop
<1>11. CASE Stage
  BY <1>1, <1>2, <1>11 DEF Stage, Sending, States
<1>12. ASSUME NEW outcome \in {"accepted", "ambiguous", "refused"}, NEW taken \in BOOLEAN,
              Send(outcome, taken)
       PROVE  TypeOK'
  <2>1. copies' \in [Attempt -> 0..2]
    <3> USE DEF Send
    <3>1. copies \in [Attempt -> 0..2]
      OBVIOUS
    <3>2. CASE taken /\ copies[<<runDay, cur>>] < 2
      <4>1. copies' = [copies EXCEPT ![<<runDay, cur>>] = copies[<<runDay, cur>>] + 1]
        BY <1>12, <3>2
      <4>2. <<runDay, cur>> \in Attempt => copies[<<runDay, cur>>] + 1 \in 0..2
        BY <3>1, <3>2
      <4> QED
        BY <3>1, <4>1, <4>2
    <3>3. CASE ~(taken /\ copies[<<runDay, cur>>] < 2)
      <4>1. copies' = [copies EXCEPT ![<<runDay, cur>>] = copies[<<runDay, cur>>]]
        BY <1>12, <3>3
      <4> QED
        BY <3>1, <4>1
    <3> QED
      BY <3>2, <3>3
  <2> QED
    BY <1>12, <2>1 DEF Send
<1>13. CASE RecordAccepted
  <2>1. mine' \in SUBSET Attempt
    BY <1>1, <1>13, Pairs DEF RecordAccepted, Sending
  <2> QED
    BY <1>1, <1>2, <1>13, <2>1 DEF RecordAccepted, Sending, States
<1>14. CASE ReceiptLost
  BY <1>14 DEF ReceiptLost, Drop
<1>15. CASE RecordOther
  BY <1>1, <1>2, <1>15 DEF RecordOther, Drop, Sending, States
<1>16. CASE BankIt
  <2>1. cur \in Subject
    BY <1>1, <1>16 DEF BankIt, Sending
  <2>2. BankRows \subseteq Rows
    BY <2>1, KeysAreApart DEF BankRows, LedgerRow, Rows, Channels, Subject
  <2> QED
    BY <1>16, <2>2 DEF BankIt, Drop
<1>17. CASE EndRun
  BY <1>17 DEF EndRun
<1>18. CASE Crash
  BY <1>18 DEF Crash
<1>19. CASE Around
  <2>1. MaxDay \in Nat /\ MaxEdits \in Nat
    BY BoundAssumption
  <2>2. CASE NewDay
    BY <2>1, <2>2 DEF NewDay
  <2>3. CASE DeliveryTime \/ Purge
    BY <2>3 DEF DeliveryTime, Purge
  <2>4. CASE Unlist
    <3>1. allowed' \in BOOLEAN
      BY <2>4, Zenon DEF Unlist
    <3>2. removal' \in {"idle", "unlisted"} /\ edits' \in Nat
      BY <2>4 DEF Unlist
    <3>3. UNCHANGED <<calendar, files, lock, run, others, copies, crashes, faults>>
      BY <2>4 DEF Unlist
    <3> QED
      BY <3>1, <3>2, <3>3
  <2>5. CASE AddPerson
    BY <2>1, <2>5 DEF AddPerson
  <2> QED
    BY <1>19, <2>2, <2>3, <2>4, <2>5 DEF Around
<1>20. ASSUME NEW who \in Peers, PeerLocks(who)
       PROVE  TypeOK'
  BY <1>20, BoundAssumption DEF PeerLocks
<1>21. ASSUME NEW l \in Listing, PeerSends(l)
       PROVE  TypeOK'
  BY <1>21 DEF PeerSends
<1>22. CASE PeerRecords
  <2>1. LedgerRow(peerListing, today, IF peer = "testSent" THEN "test" ELSE "incremental") \in Rows
    BY DEF LedgerRow, Rows, Channels
  <2> QED
    BY <1>22, <2>1 DEF PeerRecords
<1>23. CASE PeerLeaves
  BY <1>23 DEF PeerLeaves
<1> QED
  BY <1>3, <1>4, <1>5, <1>6, <1>7, <1>8, <1>9, <1>10, <1>11, <1>12, <1>13, <1>14, <1>15,
     <1>16, <1>17, <1>18, <1>19, <1>20, <1>21, <1>22, <1>23
  DEF Next, RunStep, AroundStep, Around

LEMMA TypeStutter ==
  ASSUME TypeOK, UNCHANGED vars
  PROVE  TypeOK'
BY DEF vars, calendar, person, files, run, others, budget, TypeOK
-----------------------------------------------------------------------------
(* The lock and the attempt in hand. *)

LEMMA LockStep ==
  ASSUME TypeOK, LockHeld, Next
  PROVE  LockHeld'
<1> USE DEF LockHeld, Locking, Sending, TypeOK, calendar, person, files, run, others, budget
<1>1. ASSUME NEW pool \in Pools, Plan(pool)
      PROVE  LockHeld'
  BY <1>1 DEF Plan, RunMayStart
<1>2. CASE PlanOutage \/ TakeLock \/ Reconcile
  BY <1>2 DEF PlanOutage, RunMayStart, TakeLock, Reconcile
<1>3. ASSUME NEW m \in Subject, Suppress(m) \/ Prepare(m) \/ Quarantine(m) \/ WriteFails(m)
      PROVE  LockHeld'
  BY <1>3 DEF Suppress, Prepare, Quarantine, WriteFails, Drop
<1>4. CASE Stage \/ RecordAccepted \/ ReceiptLost \/ RecordOther \/ BankIt
  BY <1>4 DEF Stage, RecordAccepted, ReceiptLost, RecordOther, BankIt, Drop
<1>5. ASSUME NEW outcome \in {"accepted", "ambiguous", "refused"}, NEW taken \in BOOLEAN,
             Send(outcome, taken)
      PROVE  LockHeld'
  BY <1>5 DEF Send
<1>6. CASE EndRun \/ Crash
  BY <1>6 DEF EndRun, Crash
<1>7. CASE Around
  BY <1>7 DEF Around, NewDay, DeliveryTime, Unlist, Purge, AddPerson
<1>8. ASSUME NEW who \in Peers, PeerLocks(who)
      PROVE  LockHeld'
  BY <1>8, BoundAssumption DEF PeerLocks
<1>9. ASSUME NEW l \in Listing, PeerSends(l)
      PROVE  LockHeld'
  BY <1>9 DEF PeerSends
<1>10. CASE PeerRecords \/ PeerLeaves
  BY <1>10 DEF PeerRecords, PeerLeaves
<1> QED
  BY <1>1, <1>2, <1>3, <1>4, <1>5, <1>6, <1>7, <1>8, <1>9, <1>10
  DEF Next, RunStep, AroundStep, Around

\* Neither the calendar nor the dashboard nor another sender writes the journal.
LEMMA AroundLeavesTheRun ==
  ASSUME AroundStep
  PROVE  UNCHANGED <<journal, run, copies>>
BY DEF AroundStep, NewDay, DeliveryTime, Unlist, Purge, AddPerson, PeerLocks, PeerSends,
  PeerRecords, PeerLeaves, files, run

\* The entry that the run writes.
LEMMA Logged ==
  ASSUME TypeOK, NEW m \in Subject, NEW s, Log(m, s)
  PROVE  /\ <<runDay, m>> \in Attempt
         /\ journal'[<<runDay, m>>] = s
         /\ \A a \in Attempt : a # <<runDay, m>> => journal'[a] = journal[a]
BY Pairs DEF TypeOK, Log

LEMMA InHandStep ==
  ASSUME TypeOK, InHand, Next
  PROVE  InHand'
<1> USE DEF InHand, Sending
<1>1. todo \subseteq Subject /\ (pc \in Sending => cur \in Subject)
  BY DEF TypeOK
<1>2. ASSUME NEW pool \in Pools, Plan(pool)
      PROVE  InHand'
  BY <1>2 DEF Plan
<1>3. CASE PlanOutage \/ TakeLock \/ Reconcile
  BY <1>3 DEF PlanOutage, TakeLock, Reconcile
<1>4. ASSUME NEW m \in Subject, Suppress(m) \/ Quarantine(m) \/ WriteFails(m)
      PROVE  InHand'
  BY <1>4 DEF Suppress, Quarantine, WriteFails, Drop
<1>5. ASSUME NEW m \in Subject, Prepare(m)
      PROVE  InHand'
  BY <1>5, Logged DEF Prepare
<1>6. CASE Stage
  BY <1>1, <1>6, Logged DEF Stage
<1>7. ASSUME NEW outcome \in {"accepted", "ambiguous", "refused"}, NEW taken \in BOOLEAN,
             Send(outcome, taken)
      PROVE  InHand'
  BY <1>7 DEF Send, files
<1>8. CASE RecordAccepted
  BY <1>1, <1>8, Logged DEF RecordAccepted
<1>9. CASE ReceiptLost \/ RecordOther \/ BankIt \/ EndRun \/ Crash
  BY <1>9 DEF ReceiptLost, RecordOther, BankIt, EndRun, Crash, Drop
<1>10. CASE AroundStep
  BY <1>10, AroundLeavesTheRun DEF run
<1> QED
  BY <1>2, <1>3, <1>4, <1>5, <1>6, <1>7, <1>8, <1>9, <1>10 DEF Next, RunStep

\* What a run may do to the journal and to Telegram's count, seen attempt by
\* attempt; everything else below follows from it.
Stays == UNCHANGED <<journal, copies>>
Moves(a, from, to) ==
  /\ a \in Attempt /\ journal[a] \in from /\ journal'[a] = to
  /\ \A b \in Attempt : b # a => journal'[b] = journal[b]
  /\ UNCHANGED copies
Takes(a) ==
  /\ a \in Attempt /\ journal[a] = "sending" /\ copies[a] = 0
  /\ copies' = [copies EXCEPT ![a] = 1]
  /\ UNCHANGED journal

JournalStep ==
  \/ Stays
  \/ \E a \in Attempt :
       \/ Moves(a, {"none", "failed", "prepared"}, "prepared")
       \/ Moves(a, {"prepared"}, "sending") /\ copies[a] = 0
       \/ Moves(a, {"sending"}, "uncertain")
       \/ Moves(a, {"sending"}, "failed") /\ copies[a] = 0
       \/ Moves(a, {"sending"}, "accepted") /\ copies[a] = 1
       \/ Takes(a)

LEMMA JournalSteps ==
  ASSUME TypeOK, InHand, CopiedOnce, Next
  PROVE  JournalStep
<1> USE DEF InHand, Sending, CopiedOnce, JournalStep, Moves, Stays
<1>1. todo \subseteq Subject /\ (pc \in Sending => cur \in Subject) /\ runDay \in 1..MaxDay
  BY DEF TypeOK
<1>2. pc \in Sending => <<runDay, cur>> \in Attempt
  BY <1>1, Pairs
<1>3. ASSUME NEW pool \in Pools, Plan(pool)
      PROVE  JournalStep
  BY <1>3 DEF Plan, files
<1>4. CASE PlanOutage \/ TakeLock \/ Reconcile
  BY <1>4 DEF PlanOutage, TakeLock, Reconcile, files
<1>5. ASSUME NEW m \in Subject, Suppress(m) \/ WriteFails(m)
      PROVE  JournalStep
  BY <1>5 DEF Suppress, WriteFails, files
<1>6. ASSUME NEW m \in Subject, Prepare(m)
      PROVE  JournalStep
  BY <1>6, Logged DEF Prepare
<1>7. ASSUME NEW m \in Subject, Quarantine(m)
      PROVE  JournalStep
  BY <1>7, Logged DEF Quarantine
<1>8. CASE Stage
  BY <1>1, <1>2, <1>8, Logged DEF Stage
<1>9. ASSUME NEW outcome \in {"accepted", "ambiguous", "refused"}, NEW taken \in BOOLEAN,
             Send(outcome, taken)
      PROVE  JournalStep
  <2>1. copies \in [Attempt -> 0..2] /\ <<runDay, cur>> \in Attempt /\ copies[<<runDay, cur>>] = 0
        /\ journal[<<runDay, cur>>] = "sending"
    BY <1>2, <1>9 DEF Send, TypeOK
  <2>2. CASE taken
    <3>1. copies' = [copies EXCEPT ![<<runDay, cur>>] = 1] /\ UNCHANGED journal
      BY <1>9, <2>1, <2>2 DEF Send, files
    <3> QED
      BY <2>1, <3>1 DEF Takes
  <2>3. CASE ~taken
    <3>1. copies' = [copies EXCEPT ![<<runDay, cur>>] = @] /\ UNCHANGED journal
      BY <1>9, <2>3 DEF Send, files
    <3> QED
      BY <2>1, <3>1
  <2> QED
    BY <2>2, <2>3
<1>10. CASE RecordAccepted
  BY <1>1, <1>2, <1>10, Logged DEF RecordAccepted
<1>11. CASE RecordOther
  BY <1>1, <1>2, <1>11, Logged DEF RecordOther
<1>12. CASE ReceiptLost \/ BankIt \/ EndRun \/ Crash
  BY <1>12 DEF ReceiptLost, BankIt, EndRun, Crash, files
<1>13. CASE AroundStep
  BY <1>13, AroundLeavesTheRun
<1> QED
  BY <1>3, <1>4, <1>5, <1>6, <1>7, <1>8, <1>9, <1>10, <1>11, <1>12, <1>13 DEF Next, RunStep
-----------------------------------------------------------------------------
(* The count of copies. *)

LEMMA CopiedStep ==
  ASSUME TypeOK, InHand, CopiedOnce, Next
  PROVE  CopiedOnce'
<1>1. JournalStep
  BY JournalSteps
<1>2. /\ OneCopyPerAttempt'
      /\ \A a \in Attempt : journal'[a] \in {"none", "prepared", "failed"} => copies'[a] = 0
  <2> USE DEF CopiedOnce, OneCopyPerAttempt
  <2>1. CASE Stays
    BY <2>1 DEF Stays
  <2>2. ASSUME NEW a \in Attempt, Takes(a)
        PROVE  <1>2!1 /\ <1>2!2
    <3>1. copies \in [Attempt -> 0..2]
      BY DEF TypeOK
    <3> QED
      BY <2>2, <3>1 DEF Takes
  <2>3. ASSUME NEW a \in Attempt, NEW from, NEW to, Moves(a, from, to),
               to \in {"none", "prepared", "failed"} => copies[a] = 0
        PROVE  <1>2!1 /\ <1>2!2
    BY <2>3 DEF Moves
  <2>4. ASSUME NEW a \in Attempt, Moves(a, {"none", "failed", "prepared"}, "prepared")
        PROVE  copies[a] = 0
    BY <2>4 DEF Moves
  <2> QED
    BY <1>1, <2>1, <2>2, <2>3, <2>4 DEF JournalStep
<1>3. /\ pc' \in {"staged", "refused"} => copies'[<<runDay', cur'>>] = 0
      /\ pc' = "accepted" => copies'[<<runDay', cur'>>] = 1
  <2> USE DEF CopiedOnce, InHand, Sending
  <2>1. todo \subseteq Subject /\ (pc \in Sending => cur \in Subject) /\ runDay \in 1..MaxDay
    BY DEF TypeOK
  <2>2. CASE pc' \notin {"staged", "refused", "accepted"}
    BY <2>2
  <2>3. CASE Stage
    <3>1. copies[<<runDay, cur>>] = 0
      BY <2>1, <2>3, Pairs DEF Stage
    <3> QED
      BY <2>3, <3>1 DEF Stage
  <2>4. ASSUME NEW outcome \in {"accepted", "ambiguous", "refused"}, NEW taken \in BOOLEAN,
               Send(outcome, taken)
        PROVE  <1>3!1 /\ <1>3!2
    <3>1. copies \in [Attempt -> 0..2] /\ <<runDay, cur>> \in Attempt
          /\ copies[<<runDay, cur>>] = 0
      BY <2>1, <2>4, Pairs DEF Send, TypeOK
    <3>2. CASE taken
      <4>1. copies' = [copies EXCEPT ![<<runDay, cur>>] = 1]
        BY <2>4, <3>1, <3>2 DEF Send
      <4> QED
        BY <2>4, <3>1, <3>2, <4>1 DEF Send
    <3>3. CASE ~taken
      <4>1. copies' = [copies EXCEPT ![<<runDay, cur>>] = @]
        BY <2>4, <3>3 DEF Send
      <4> QED
        BY <2>4, <3>1, <3>3, <4>1 DEF Send
    <3> QED
      BY <3>2, <3>3
  <2>5. CASE AroundStep
    BY <2>5, AroundLeavesTheRun DEF run
  <2>6. ASSUME NEW m \in Subject, Suppress(m) \/ Prepare(m) \/ Quarantine(m) \/ WriteFails(m)
        PROVE  pc' \notin {"staged", "refused", "accepted"}
    BY <2>6 DEF Suppress, Prepare, Quarantine, WriteFails, Drop
  <2>7. ASSUME \/ \E pool \in Pools : Plan(pool)
               \/ PlanOutage \/ TakeLock \/ Reconcile \/ RecordAccepted \/ ReceiptLost
               \/ RecordOther \/ BankIt \/ EndRun \/ Crash
        PROVE  pc' \notin {"staged", "refused", "accepted"}
    BY <2>7 DEF Plan, PlanOutage, TakeLock, Reconcile, RecordAccepted, ReceiptLost,
      RecordOther, BankIt, EndRun, Crash, Drop
  <2> QED
    BY <2>2, <2>3, <2>4, <2>5, <2>6, <2>7 DEF Next, RunStep
<1> QED
  BY <1>2, <1>3 DEF CopiedOnce
-----------------------------------------------------------------------------
(* What the files say. *)

\* Only RecordAccepted logs an acceptance.
LEMMA OnlyRecordAccepts ==
  ASSUME TypeOK, InHand, Next, ~RecordAccepted
  PROVE  \A a \in Attempt : journal'[a] = "accepted" => journal[a] = "accepted"
<1> USE DEF TypeOK
<1>1. cur \in Subject \/ pc \notin Sending
  BY DEF InHand
<1>2. ASSUME NEW m \in Subject, NEW s, Log(m, s), s # "accepted"
      PROVE  \A a \in Attempt : journal'[a] = "accepted" => journal[a] = "accepted"
  BY <1>2, Logged
<1>3. ASSUME NEW m \in Subject, Prepare(m) \/ Quarantine(m)
      PROVE  \A a \in Attempt : journal'[a] = "accepted" => journal[a] = "accepted"
  BY <1>2, <1>3 DEF Prepare, Quarantine
<1>4. CASE Stage \/ RecordOther
  BY <1>1, <1>2, <1>4 DEF Stage, RecordOther, Sending
<1>5. ASSUME \/ \E pool \in Pools : Plan(pool)
             \/ PlanOutage \/ TakeLock \/ Reconcile \/ ReceiptLost \/ BankIt \/ EndRun \/ Crash
             \/ \E m \in Subject : Suppress(m) \/ WriteFails(m)
             \/ \E outcome \in {"accepted", "ambiguous", "refused"}, taken \in BOOLEAN :
                  Send(outcome, taken)
             \/ AroundStep
      PROVE  UNCHANGED journal
  BY <1>5, AroundLeavesTheRun DEF Plan, PlanOutage, TakeLock, Reconcile, ReceiptLost, BankIt,
    EndRun, Crash, Suppress, WriteFails, Send, files
<1> QED
  BY <1>3, <1>4, <1>5 DEF Next, RunStep

\* What is accepted stays accepted, and only RecordAccepted adds to it.
LEMMA AcceptedStays ==
  ASSUME TypeOK, InHand, CopiedOnce, Next
  PROVE  /\ \A a \in Attempt : journal[a] = "accepted" => journal'[a] = "accepted"
         /\ AcceptedKeys \subseteq AcceptedKeys'
         /\ ~RecordAccepted => AcceptedKeys' = AcceptedKeys
<1>1. \A a \in Attempt : journal[a] = "accepted" => journal'[a] = "accepted"
  BY JournalSteps DEF JournalStep, Stays, Moves, Takes
<1>2. ~RecordAccepted => \A a \in Attempt : journal'[a] = "accepted" => journal[a] = "accepted"
  BY OnlyRecordAccepts
<1>3. AcceptedKeys \subseteq AcceptedKeys'
  BY <1>1 DEF AcceptedKeys
<1>4. ~RecordAccepted => AcceptedKeys' = AcceptedKeys
  BY <1>1, <1>2 DEF AcceptedKeys
<1> QED
  BY <1>1, <1>3, <1>4

LEMMA LastLookStep ==
  ASSUME TypeOK, LockHeld, InHand, CopiedOnce, LastLookHolds, Next
  PROVE  LastLookHolds'
<1> USE DEF LastLookHolds, InHand, Sending
<1> SUFFICES ASSUME pc' \in {"prepared", "staged"}, cur' \in Message
             PROVE  Announces[cur'] \notin LedgerKeys' \cup AcceptedKeys'
  OBVIOUS
<1>1. ASSUME NEW m \in Subject, Prepare(m)
      PROVE  Announces[cur'] \notin LedgerKeys' \cup AcceptedKeys'
  <2>1. ~RecordAccepted /\ ledger' = ledger /\ cur' = m
    BY <1>1 DEF Prepare, RecordAccepted
  <2>2. AcceptedKeys' = AcceptedKeys /\ LedgerKeys' = LedgerKeys
    BY <2>1, AcceptedStays DEF LedgerKeys
  <2> QED
    BY <1>1, <2>1, <2>2 DEF Prepare, StillWanted, Bank
<1>2. CASE Stage
  <2>1. ~RecordAccepted /\ ledger' = ledger /\ cur' = cur /\ pc = "prepared"
    BY <1>2 DEF Stage, RecordAccepted
  <2>2. AcceptedKeys' = AcceptedKeys /\ LedgerKeys' = LedgerKeys
    BY <2>1, AcceptedStays DEF LedgerKeys
  <2> QED
    BY <2>1, <2>2
<1>3. CASE AroundStep
  <2>1. UNCHANGED <<pc, cur, journal>>
    BY <1>3, AroundLeavesTheRun DEF run
  <2>2. AcceptedKeys' = AcceptedKeys
    BY <2>1 DEF AcceptedKeys
  <2>3. lock = "run" /\ peer = "away"
    BY <2>1 DEF LockHeld, Locking
  <2>4. ledger' \subseteq ledger
    BY <1>3, <2>3 DEF AroundStep, NewDay, DeliveryTime, Unlist, Purge, AddPerson, PeerLocks,
      PeerSends, PeerRecords, PeerLeaves, files
  <2> QED
    BY <2>1, <2>2, <2>4 DEF LedgerKeys
<1>4. ASSUME \/ \E pool \in Pools : Plan(pool)
             \/ \E m \in Subject : Suppress(m) \/ Quarantine(m) \/ WriteFails(m)
             \/ \E outcome \in {"accepted", "ambiguous", "refused"}, taken \in BOOLEAN :
                  Send(outcome, taken)
             \/ PlanOutage \/ TakeLock \/ Reconcile \/ RecordAccepted \/ ReceiptLost \/ RecordOther
             \/ BankIt \/ EndRun \/ Crash
      PROVE  FALSE
  BY <1>4 DEF Plan, PlanOutage, TakeLock, Reconcile, Suppress, Quarantine, WriteFails, Send,
    RecordAccepted, ReceiptLost, RecordOther, BankIt, EndRun, Crash, Drop
<1> QED
  BY <1>1, <1>2, <1>3, <1>4 DEF Next, RunStep

\* Rows of one channel that are in the ledger now were there before, or are the
\* run's, of an attempt that is accepted.
LEMMA LedgerStep ==
  ASSUME TypeOK, InHand, CopiedOnce, LedgerIsEarned, Next
  PROVE  LedgerIsEarned'
<1> DEFINE Earned(row) == \E a \in Attempt : /\ journal[a] = "accepted" /\ a[1] = row.day
                                             /\ a[2] \in Message /\ Announces[a[2]] = row.key
<1> USE DEF TypeOK
<1>1. ASSUME NEW row, Earned(row)
      PROVE  Earned(row)'
  BY <1>1, AcceptedStays
<1>2. CASE ledger' \subseteq ledger
  BY <1>1, <1>2 DEF LedgerIsEarned
<1>3. ASSUME Reconcile, ~(ledger' \subseteq ledger)
      PROVE  LedgerIsEarned'
  <2>1. ledger' \subseteq ledger \cup Repairs
    BY <1>3 DEF Reconcile
  <2>2. ASSUME NEW row \in Repairs
        PROVE  Earned(row)
    BY DEF Repairs, LedgerRow
  <2> HIDE DEF Earned
  <2>3. \A row \in ledger' : row.channel = "scheduled" /\ row.key \in Listing => Earned(row)
    BY <2>1, <2>2 DEF LedgerIsEarned, Earned
  <2> QED
    BY <1>1, <2>3 DEF LedgerIsEarned, Earned
<1>4. ASSUME BankIt, ~(ledger' \subseteq ledger)
      PROVE  LedgerIsEarned'
  <2>1. ledger' = ledger \cup BankRows /\ pc = "banking"
    BY <1>4 DEF BankIt
  <2>2. cur \in Subject /\ journal[<<runDay, cur>>] = "accepted" /\ <<runDay, cur>> \in Attempt
    BY <2>1, Pairs DEF InHand, Sending
  <2>3. ASSUME NEW row \in BankRows, row.key \in Listing
        PROVE  Earned(row)
    <3>1. cur \in Message /\ row = LedgerRow(Announces[cur], runDay, "scheduled")
      BY <2>2, <2>3, KeysAreApart DEF BankRows, LedgerRow, Subject
    <3>2. row.day = <<runDay, cur>>[1] /\ row.key = Announces[<<runDay, cur>>[2]]
      BY <3>1 DEF LedgerRow
    <3> QED
      BY <2>2, <3>1, <3>2
  <2> HIDE DEF Earned
  <2>4. \A row \in ledger' : row.channel = "scheduled" /\ row.key \in Listing => Earned(row)
    BY <2>1, <2>3 DEF LedgerIsEarned, Earned
  <2> QED
    BY <1>1, <2>4 DEF LedgerIsEarned, Earned
<1>5. CASE PeerRecords
  <2>1. \A row \in ledger' : row.channel = "scheduled" => row \in ledger
    BY <1>5 DEF PeerRecords, LedgerRow
  <2> QED
    BY <1>1, <2>1 DEF LedgerIsEarned
<1>6. ASSUME \/ \E pool \in Pools : Plan(pool)
             \/ \E m \in Subject : Suppress(m) \/ Prepare(m) \/ Quarantine(m) \/ WriteFails(m)
             \/ \E outcome \in {"accepted", "ambiguous", "refused"}, taken \in BOOLEAN :
                  Send(outcome, taken)
             \/ PlanOutage \/ TakeLock \/ Stage \/ RecordAccepted \/ ReceiptLost \/ RecordOther
             \/ EndRun \/ Crash \/ Around \/ PeerLeaves
             \/ (\E who \in Peers : PeerLocks(who)) \/ (\E l \in Listing : PeerSends(l))
      PROVE  ledger' \subseteq ledger
  BY <1>6 DEF Plan, PlanOutage, TakeLock, Suppress, Prepare, Quarantine, WriteFails, Stage, Send,
    RecordAccepted, ReceiptLost, RecordOther, EndRun, Crash, Around, NewDay, DeliveryTime, Unlist,
    Purge, AddPerson, PeerLeaves, PeerLocks, PeerSends, files
<1> QED
  BY <1>2, <1>3, <1>4, <1>5, <1>6 DEF Next, RunStep, AroundStep, Around
-----------------------------------------------------------------------------
LEMMA InvInit == Init => IInv
<1> SUFFICES ASSUME Init PROVE IInv
  OBVIOUS
<1>1. TypeOK
  BY TypeInit
<1>2. LockHeld /\ InHand /\ CopiedOnce /\ LastLookHolds
  BY DEF Init, LockHeld, Locking, InHand, Sending, CopiedOnce, OneCopyPerAttempt, LastLookHolds
<1>3. LedgerIsEarned
  BY KeysAreApart DEF Init, LedgerIsEarned
<1> QED
  BY <1>1, <1>2, <1>3 DEF IInv

LEMMA InvStep == IInv /\ [Next]_vars => IInv'
<1> SUFFICES ASSUME IInv, [Next]_vars PROVE IInv'
  OBVIOUS
<1>1. CASE Next
  <2>1. TypeOK' /\ LockHeld' /\ InHand'
    BY <1>1, TypeStep, LockStep, InHandStep DEF IInv
  <2>2. CopiedOnce' /\ LastLookHolds' /\ LedgerIsEarned'
    BY <1>1, CopiedStep, LastLookStep, LedgerStep DEF IInv
  <2> QED
    BY <2>1, <2>2 DEF IInv
<1>2. CASE UNCHANGED vars
  <2>1. TypeOK'
    BY <1>2, TypeStutter DEF IInv
  <2>2. LockHeld' /\ InHand' /\ CopiedOnce' /\ LastLookHolds' /\ LedgerIsEarned'
    BY <1>2 DEF vars, calendar, person, files, run, others, budget, IInv, LockHeld, InHand,
      CopiedOnce, OneCopyPerAttempt, LastLookHolds, LedgerIsEarned, LedgerKeys, AcceptedKeys
  <2> QED
    BY <2>1, <2>2 DEF IInv
<1> QED
  BY <1>1, <1>2

\* The inductive invariant of the daily path.
THEOREM InvariantHolds == Spec => []IInv
  BY InvInit, InvStep, PTL DEF Spec

\* Every reachable state of the daily path is well typed.
THEOREM TypeCorrect == Spec => []TypeOK
  BY InvariantHolds, PTL DEF IInv

\* Telegram takes the message of an attempt at most once, for any crashes and
\* lost writes (prepare_routine_delivery, transition_routine_delivery).
THEOREM CopiesAreBounded == Spec => []OneCopyPerAttempt
  BY InvariantHolds, PTL DEF IInv, CopiedOnce

\* No other path has banked a property that is on its way (the last look under
\* recipient_delivery_lock).
THEOREM LastLookStands == Spec => []LastLookHolds
  BY InvariantHolds, PTL DEF IInv

\* The ledger's scheduled rows are of accepted attempts of their day (mark_seen,
\* reconcile_routine_seen).
THEOREM LedgerEarned == Spec => []LedgerIsEarned
  BY InvariantHolds, PTL DEF IInv
-----------------------------------------------------------------------------
(* The journal implements AlertPromise: each of its steps is a step of one  *)
(* attempt there, or none.                                                  *)

Fate == [a \in Attempt |-> FateOf(a)]

LEMMA FateMoves ==
  ASSUME NEW a \in Attempt, NEW from, NEW to, Moves(a, from, to)
  PROVE  Fate' = [Fate EXCEPT ![a] = FateOf(a)'] /\ UNCHANGED copies
<1>1. \A b \in Attempt : b # a => FateOf(b)' = FateOf(b)
  BY DEF Moves, FateOf
<1> QED
  BY <1>1 DEF Moves, Fate

LEMMA FateStays ==
  ASSUME UNCHANGED journal
  PROVE  UNCHANGED Fate
<1>1. \A b \in Attempt : FateOf(b)' = FateOf(b)
  BY DEF FateOf
<1> QED
  BY <1>1 DEF Fate

LEMMA PromiseInit == Init => Promise!Init
BY DEF Init, Promise!Init, FateOf

LEMMA PromiseStep == IInv /\ [Next]_vars => [Promise!Next]_(Promise!promiseVars)
<1> USE DEF Promise!promiseVars
<1> SUFFICES ASSUME IInv, Next PROVE [Promise!Next]_(Promise!promiseVars)
  BY FateStays DEF vars, files, Fate
<1>1. JournalStep
  BY JournalSteps DEF IInv
<1>2. CASE Stays
  BY <1>2, FateStays DEF Stays, Fate
<1>3. ASSUME NEW a \in Attempt, Takes(a)
      PROVE  Promise!Next
  <2>1. Fate[a] = "onWire" /\ UNCHANGED Fate
    BY <1>3, FateStays DEF Takes, Fate, FateOf
  <2>2. Promise!Take(a)
    BY <1>3, <2>1 DEF Takes, Promise!Take, Fate
  <2> QED
    BY <2>2 DEF Promise!Next
<1>4. ASSUME NEW a \in Attempt, Moves(a, {"none", "failed", "prepared"}, "prepared")
      PROVE  UNCHANGED Promise!promiseVars
  <2>1. FateOf(a)' = Fate[a]
    BY <1>4 DEF Moves, Fate, FateOf
  <2>2. UNCHANGED Fate
    BY <1>4, <2>1, FateMoves DEF Fate
  <2> QED
    BY <1>4, <2>2 DEF Moves, Fate
<1>5. ASSUME NEW a \in Attempt, Moves(a, {"prepared"}, "sending"), copies[a] = 0
      PROVE  Promise!Next
  <2>1. Fate[a] = "open" /\ FateOf(a)' = "onWire"
    BY <1>5 DEF Moves, Fate, FateOf
  <2>2. Promise!Offer(a)
    BY <1>5, <2>1, FateMoves DEF Promise!Offer, Promise!Becomes, Fate
  <2> QED
    BY <2>2 DEF Promise!Next
<1>6. ASSUME NEW a \in Attempt, Moves(a, {"sending"}, "uncertain")
      PROVE  Promise!Next
  <2>1. Fate[a] = "onWire" /\ FateOf(a)' = "unknown"
    BY <1>6 DEF Moves, Fate, FateOf
  <2>2. Fate' = [b \in Attempt |-> IF b \in {a} THEN "unknown" ELSE Fate[b]] /\ UNCHANGED copies
    BY <1>6, <2>1, FateMoves DEF Fate
  <2>3. Promise!Quarantine({a})
    BY <2>1, <2>2 DEF Promise!Quarantine, Fate
  <2> QED
    BY <2>3 DEF Promise!Next
<1>7. ASSUME NEW a \in Attempt, Moves(a, {"sending"}, "failed"), copies[a] = 0
      PROVE  Promise!Next
  <2>1. Fate[a] = "onWire" /\ FateOf(a)' = "open"
    BY <1>7 DEF Moves, Fate, FateOf
  <2>2. Promise!TakeBack(a)
    BY <1>7, <2>1, FateMoves DEF Promise!TakeBack, Promise!Becomes, Fate
  <2> QED
    BY <2>2 DEF Promise!Next
<1>8. ASSUME NEW a \in Attempt, Moves(a, {"sending"}, "accepted"), copies[a] = 1
      PROVE  Promise!Next
  <2>1. Fate[a] = "onWire" /\ FateOf(a)' = "delivered"
    BY <1>8 DEF Moves, Fate, FateOf
  <2>2. Promise!Deliver(a)
    BY <1>8, <2>1, FateMoves DEF Promise!Deliver, Promise!Becomes, Fate
  <2> QED
    BY <2>2 DEF Promise!Next
<1> QED
  BY <1>1, <1>2, <1>3, <1>4, <1>5, <1>6, <1>7, <1>8 DEF JournalStep

\* The daily path implements AlertPromise, attempt by attempt: what may have
\* arrived is never offered again, and "uncertain" is final.
THEOREM PromiseIsKept == Spec => KeepsPromise
<1>1. Init => Promise!Init
  BY PromiseInit
<1>2. IInv /\ [Next]_vars => [Promise!Next]_(Promise!promiseVars)
  BY PromiseStep
<1> QED
  BY <1>1, <1>2, InvariantHolds, PTL DEF Spec, KeepsPromise, Promise!Spec
-----------------------------------------------------------------------------
(* One push a day, for a recipient whose ledger exists and who stays.       *)

\* Nothing that counts for the due gate lies after day d.
NotAfter(d) ==
  /\ \A row \in ledger : row.channel # "test" => row.day <= d
  /\ \A a \in Attempt : journal[a] = "accepted" => a[1] <= d

\* What was accepted on the day of the run was accepted in it.
AllMine == \A a \in Attempt : journal[a] = "accepted" /\ a[1] = runDay => a \in mine

KeepsLedger == edits = 0 /\ removal = "idle" /\ ledger # {}

Order ==
  /\ runDay <= today /\ NotAfter(today)
  /\ pc # "idle" => NotAfter(runDay) /\ peer \notin {"incremental", "incrementalSent"}

\* A run with listings or the notice left to send found the day open; a run
\* with the outage notice asks again before it sends.
DayIsMine ==
  /\ pc # "idle" /\ todo \ {Outage} # {} => AllMine
  /\ pc \in {"prepared", "staged"} => AllMine

DayInv == KeepsLedger /\ Order /\ DayIsMine

LEMMA DayInit ==
  ASSUME Established = TRUE, Init
  PROVE  DayInv
<1>1. ledger = {[key |-> Notice, day |-> 0, channel |-> "scheduled"]}
  BY DEF Init
<1>2. NotAfter(today)
  <2>1. \A row \in ledger : row.day = 0
    BY <1>1
  <2>2. \A a \in Attempt : journal[a] # "accepted"
    BY DEF Init
  <2>3. today = 1
    BY DEF Init
  <2> QED
    BY <2>1, <2>2, <2>3 DEF NotAfter
<1>3. KeepsLedger
  BY <1>1 DEF Init, KeepsLedger
<1>4. Order
  <2>1. runDay <= today /\ pc = "idle"
    BY DEF Init
  <2> QED
    BY <1>2, <2>1 DEF Order
<1>5. DayIsMine
  BY DEF Init, DayIsMine
<1> QED
  BY <1>3, <1>4, <1>5 DEF DayInv

LEMMA KeepsLedgerStep ==
  ASSUME MaxEdits = 0, TypeOK, KeepsLedger, Next
  PROVE  KeepsLedger'
<1> USE DEF KeepsLedger, calendar, person, files, run, others, budget
<1>1. CASE RunStep
  <2>1. UNCHANGED <<edits, removal>> /\ ledger \subseteq ledger'
    BY <1>1 DEF RunStep, Plan, PlanOutage, TakeLock, Reconcile, Suppress, Prepare, Quarantine,
      WriteFails, Stage, Send, RecordAccepted, ReceiptLost, RecordOther, BankIt, EndRun, Crash, Drop
  <2> QED
    BY <2>1
<1>2. CASE AroundStep
  <2>1. UNCHANGED <<edits, removal>> /\ ledger \subseteq ledger'
    BY <1>2 DEF AroundStep, NewDay, DeliveryTime, Unlist, Purge, AddPerson, PeerLocks, PeerSends,
      PeerRecords, PeerLeaves
  <2> QED
    BY <2>1
<1> QED
  BY <1>1, <1>2 DEF Next

\* A step that adds nothing after day d, and does not go back behind it.
LEMMA NotAfterStays ==
  ASSUME NEW d \in Int, NotAfter(d),
         \A row \in ledger' : row \in ledger \/ row.channel = "test" \/ row.day <= d,
         \A a \in Attempt : journal'[a] = "accepted" => journal[a] = "accepted" \/ a[1] <= d
  PROVE  /\ \A row \in ledger' : row.channel # "test" => row.day <= d
         /\ \A a \in Attempt : journal'[a] = "accepted" => a[1] <= d
BY DEF NotAfter

LEMMA AddedRows ==
  ASSUME TypeOK, InHand, Order, Next
  PROVE  \A row \in ledger' :
           \/ row \in ledger \/ row.channel = "test"
           \/ pc # "idle" /\ row.day <= runDay
           \/ pc = "idle" /\ row.day <= today
<1> USE DEF TypeOK
<1>1. ASSUME Reconcile, NEW row \in ledger', row \notin ledger
      PROVE  pc # "idle" /\ row.day <= runDay
  <2>1. row \in Repairs /\ pc = "reconcile"
    BY <1>1 DEF Reconcile
  <2>2. PICK a \in Attempt : journal[a] = "accepted" /\ row = LedgerRow(Announces[a[2]], a[1], "scheduled")
    BY <2>1 DEF Repairs
  <2>3. row.day = a[1]
    BY <2>2 DEF LedgerRow
  <2> QED
    BY <2>1, <2>2, <2>3 DEF Order, NotAfter
<1>2. ASSUME BankIt, NEW row \in ledger', row \notin ledger
      PROVE  pc # "idle" /\ row.day <= runDay
  <2>1. row \in BankRows /\ pc = "banking"
    BY <1>2 DEF BankIt
  <2>2. row.day = runDay
    BY <2>1 DEF BankRows, LedgerRow
  <2> QED
    BY <2>1, <2>2
<1>3. ASSUME PeerRecords, NEW row \in ledger', row \notin ledger
      PROVE  row.channel = "test" \/ (pc = "idle" /\ row.day <= today)
  <2>1. row = LedgerRow(peerListing, today, IF peer = "testSent" THEN "test" ELSE "incremental")
    BY <1>3 DEF PeerRecords
  <2>2. row.day = today /\ (row.channel = "test" \/ peer # "testSent")
    BY <2>1 DEF LedgerRow
  <2>3. peer # "testSent" => pc = "idle"
    BY <1>3 DEF PeerRecords, Order
  <2> QED
    BY <2>2, <2>3
<1>4. ASSUME \/ \E pool \in Pools : Plan(pool)
             \/ \E m \in Subject : Suppress(m) \/ Prepare(m) \/ Quarantine(m) \/ WriteFails(m)
             \/ \E outcome \in {"accepted", "ambiguous", "refused"}, taken \in BOOLEAN :
                  Send(outcome, taken)
             \/ PlanOutage \/ TakeLock \/ Stage \/ RecordAccepted \/ ReceiptLost \/ RecordOther
             \/ EndRun \/ Crash \/ Around \/ PeerLeaves
             \/ (\E who \in Peers : PeerLocks(who)) \/ (\E l \in Listing : PeerSends(l))
      PROVE  ledger' \subseteq ledger
  BY <1>4 DEF Plan, PlanOutage, TakeLock, Suppress, Prepare, Quarantine, WriteFails, Stage, Send,
    RecordAccepted, ReceiptLost, RecordOther, EndRun, Crash, Around, NewDay, DeliveryTime, Unlist,
    Purge, AddPerson, PeerLeaves, PeerLocks, PeerSends, files
<1> QED
  BY <1>1, <1>2, <1>3, <1>4 DEF Next, RunStep, AroundStep, Around

\* Only RecordAccepted adds an accepted attempt, and it is of the run's day.
LEMMA AddedEntries ==
  ASSUME TypeOK, InHand, CopiedOnce, Next
  PROVE  \A a \in Attempt : journal'[a] = "accepted" =>
           \/ journal[a] = "accepted"
           \/ pc # "idle" /\ a = <<runDay, cur>> /\ RecordAccepted
<1>1. CASE RecordAccepted
  <2>1. cur \in Subject /\ pc = "accepted"
    BY <1>1 DEF RecordAccepted, InHand, Sending, TypeOK
  <2> QED
    BY <1>1, <2>1, Logged DEF RecordAccepted
<1>2. CASE ~RecordAccepted
  BY <1>2, OnlyRecordAccepts
<1> QED
  BY <1>1, <1>2

LEMMA OrderStep ==
  ASSUME TypeOK, InHand, CopiedOnce, Order, Next
  PROVE  Order'
<1>1. runDay \in Int /\ today \in Int /\ runDay <= today /\ <<runDay, cur>>[1] = runDay
  BY DEF TypeOK, Order
<1>2. /\ today' \in Int /\ today <= today'
      /\ runDay' \in {runDay, today'} /\ (pc # "idle" => runDay' = runDay)
      /\ pc' # "idle" /\ pc = "idle" => runDay' = today /\ today' = today
  <2>1. CASE RunStep
    <3>1. today' = today /\ (pc # "idle" => runDay' = runDay)
          /\ runDay' \in {runDay, today}
          /\ (pc' # "idle" /\ pc = "idle" => runDay' = today)
      BY <2>1 DEF RunStep, Plan, PlanOutage, RunMayStart, TakeLock, Reconcile, Suppress, Prepare,
        Quarantine, WriteFails, Stage, Send, RecordAccepted, ReceiptLost, RecordOther, BankIt,
        EndRun, Crash, Drop, calendar
    <3> QED
      BY <1>1, <3>1
  <2>2. CASE AroundStep
    <3>1. UNCHANGED <<pc, runDay>>
      BY <2>2, AroundLeavesTheRun DEF run
    <3>2. today' = today \/ today' = today + 1
      BY <2>2 DEF AroundStep, NewDay, DeliveryTime, Unlist, Purge, AddPerson, PeerLocks, PeerSends,
        PeerRecords, PeerLeaves, calendar
    <3> QED
      BY <1>1, <3>1, <3>2
  <2> QED
    BY <2>1, <2>2 DEF Next
<1>3. /\ \A row \in ledger' : row.channel # "test" => row.day <= today
      /\ \A a \in Attempt : journal'[a] = "accepted" => a[1] <= today
  <2>1. \A row \in ledger' : row \in ledger \/ row.channel = "test" \/ row.day <= today
    BY <1>1, AddedRows, TypeStep DEF TypeOK, Rows
  <2>2. \A a \in Attempt : journal'[a] = "accepted" => journal[a] = "accepted" \/ a[1] <= today
    BY <1>1, AddedEntries
  <2> QED
    BY <1>1, <2>1, <2>2, NotAfterStays DEF Order
<1>4. ASSUME pc # "idle"
      PROVE  /\ \A row \in ledger' : row.channel # "test" => row.day <= runDay
             /\ \A a \in Attempt : journal'[a] = "accepted" => a[1] <= runDay
  <2>1. \A row \in ledger' : row \in ledger \/ row.channel = "test" \/ row.day <= runDay
    BY <1>4, AddedRows
  <2>2. \A a \in Attempt : journal'[a] = "accepted" => journal[a] = "accepted" \/ a[1] <= runDay
    BY <1>1, AddedEntries
  <2> QED
    BY <1>1, <1>4, <2>1, <2>2, NotAfterStays DEF Order
<1>5. \A row \in ledger' : row.day \in Int
  BY TypeStep DEF TypeOK, Rows
<1>6. NotAfter(today)'
  BY <1>1, <1>2, <1>3, <1>5 DEF NotAfter, Attempt
<1>7. pc' # "idle" => NotAfter(runDay)'
  <2>1. CASE pc # "idle"
    BY <1>2, <1>4, <2>1 DEF NotAfter
  <2>2. CASE pc = "idle"
    BY <1>2, <1>3, <2>2 DEF NotAfter
  <2> QED
    BY <2>1, <2>2
<1>8. pc' # "idle" => peer' \notin {"incremental", "incrementalSent"}
  <2>1. CASE RunStep
    BY <2>1 DEF Order, RunStep, Plan, PlanOutage, RunMayStart, TakeLock, Reconcile, Suppress, Prepare,
      Quarantine, WriteFails, Stage, Send, RecordAccepted, ReceiptLost, RecordOther, BankIt, EndRun,
      Crash, Drop, others
  <2>2. CASE AroundStep
    BY <2>2, BoundAssumption DEF Order, AroundStep, NewDay, DeliveryTime, Unlist, Purge, AddPerson, PeerLocks,
      PeerSends, PeerRecords, PeerLeaves, run, others
  <2> QED
    BY <2>1, <2>2 DEF Next
<1> QED
  BY <1>1, <1>2, <1>6, <1>7, <1>8 DEF Order

LEMMA ClosedMeansNone ==
  ASSUME TypeOK, ledger # {}, NEW d \in Int, NotAfter(d), ~SentOn(d)
  PROVE  \A a \in Attempt : journal[a] = "accepted" => a[1] # d
<1> SUFFICES ASSUME NEW a \in Attempt, journal[a] = "accepted", a[1] = d
             PROVE  SentOn(d)
  OBVIOUS
<1>1. d \in SentDays
  BY DEF SentDays
<1>2. \A e \in SentDays : e <= d
  BY DEF SentDays, NotAfter
<1> QED
  BY <1>1, <1>2 DEF SentOn

LEMMA MineStep ==
  ASSUME TypeOK, InHand, CopiedOnce, KeepsLedger, Order, DayIsMine, Next
  PROVE  DayIsMine'
<1> USE DEF DayIsMine, InHand, Sending
<1>1. todo \subseteq Subject /\ runDay \in Int /\ today \in Int
  BY DEF TypeOK
<1>2. ASSUME AllMine, ~RecordAccepted, runDay' = runDay, mine' = mine
      PROVE  AllMine'
  BY <1>2, OnlyRecordAccepts DEF AllMine
<1>3. ASSUME NEW pool \in Pools, Plan(pool)
      PROVE  DayIsMine'
  <2>1. \A a \in Attempt : journal[a] = "accepted" => a[1] # today
    BY <1>1, <1>3, ClosedMeansNone DEF Plan, KeepsLedger, Order
  <2>2. AllMine'
    BY <1>3, <2>1 DEF Plan, AllMine, files
  <2> QED
    BY <2>2
<1>4. CASE PlanOutage
  BY <1>4 DEF PlanOutage
<1>5. ASSUME NEW m \in Subject, Prepare(m)
      PROVE  DayIsMine'
  <2>1. ~RecordAccepted /\ runDay' = runDay /\ mine' = mine /\ m \in todo /\ pc = "ready"
    BY <1>5 DEF Prepare, RecordAccepted
  <2>2. AllMine
    <3>1. CASE m # Outage
      BY <2>1, <3>1
    <3>2. CASE m = Outage
      <4>1. ~SentOn(runDay)
        BY <1>5, <3>2, KeysAreApart DEF Prepare, StillWanted
      <4>2. NotAfter(runDay) /\ ledger # {}
        BY <2>1 DEF Order, KeepsLedger
      <4> QED
        BY <1>1, <4>1, <4>2, ClosedMeansNone DEF AllMine
    <3> QED
      BY <3>1, <3>2
  <2> QED
    BY <1>2, <2>1, <2>2
<1>6. CASE RecordAccepted
  <2>1. /\ mine' = mine \cup {<<runDay, cur>>} /\ runDay' = runDay /\ todo' = todo
        /\ pc' = "banking" /\ pc = "accepted"
    BY <1>6 DEF RecordAccepted
  <2>2. AllMine => AllMine'
    BY <2>1, AddedEntries DEF AllMine
  <2> QED
    BY <2>1, <2>2
<1>7. CASE AroundStep
  <2>1. UNCHANGED <<journal, pc, runDay, todo, mine>>
    BY <1>7, AroundLeavesTheRun DEF run
  <2> QED
    BY <2>1 DEF AllMine
<1>8. CASE Stage
  <2>1. ~RecordAccepted /\ runDay' = runDay /\ mine' = mine /\ pc = "prepared"
    BY <1>8 DEF Stage, RecordAccepted
  <2> QED
    BY <1>2, <2>1
<1>9. CASE EndRun \/ Crash
  BY <1>9 DEF EndRun, Crash
<1>10. ASSUME \/ \E m \in Subject : Suppress(m) \/ Quarantine(m) \/ WriteFails(m)
              \/ \E outcome \in {"accepted", "ambiguous", "refused"}, taken \in BOOLEAN :
                   Send(outcome, taken)
              \/ TakeLock \/ Reconcile \/ ReceiptLost \/ RecordOther \/ BankIt
       PROVE  DayIsMine'
  <2>1. /\ ~RecordAccepted /\ runDay' = runDay /\ mine' = mine /\ todo' \subseteq todo
        /\ pc # "idle" /\ pc' \notin {"prepared", "staged"}
    BY <1>10 DEF Suppress, Quarantine, WriteFails, Send, TakeLock, Reconcile, ReceiptLost,
      RecordOther, BankIt, Drop, RecordAccepted
  <2> QED
    BY <1>2, <2>1
<1> QED
  BY <1>3, <1>4, <1>5, <1>6, <1>7, <1>8, <1>9, <1>10 DEF Next, RunStep

LEMMA DayStep ==
  ASSUME MaxEdits = 0, IInv, DayInv, [Next]_vars
  PROVE  DayInv'
<1>1. CASE Next
  BY <1>1, KeepsLedgerStep, OrderStep, MineStep DEF DayInv, IInv
<1>2. CASE UNCHANGED vars
  BY <1>2 DEF vars, calendar, person, files, run, others, budget, DayInv, KeepsLedger, Order, DayIsMine,
    NotAfter, AllMine
<1> QED
  BY <1>1, <1>2

\* README.md: a person is pushed to once per local calendar day.  Of a recipient
\* whose ledger file exists and who is neither removed nor added, a run never
\* calls Telegram on a day on which another run was accepted, whatever crashed
\* or was lost in between.
THEOREM OnePush ==
  ASSUME Established = TRUE, MaxEdits = 0
  PROVE  Spec => []OnePushADay
<1>1. Init => DayInv
  BY DayInit
<1>2. IInv /\ DayInv /\ [Next]_vars => DayInv'
  BY DayStep
<1>3. DayInv => OnePushADay
  BY DEF DayInv, DayIsMine, AllMine, OnePushADay
<1> QED
  BY <1>1, <1>2, <1>3, InvariantHolds, PTL DEF Spec
=============================================================================
