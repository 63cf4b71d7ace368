--------------------------- MODULE DeliveryWorker ---------------------------
(***************************************************************************)
(* The incremental alert path of one recipient: the outbox rows of the     *)
(* SQLite alert ledger, the processes that run DeliveryWorker.run over     *)
(* them (the scheduler's tick and `alerts deliver`), the dashboard that    *)
(* edits settings and removes the recipient meanwhile, and the daily and   *)
(* Test Push paths that send to the same recipient under the same          *)
(* delivery lock.  Recipients share nothing but the run lock, so one is    *)
(* enough.  Every SQLite transaction, file write and Telegram call is a    *)
(* step of its own; a crash may fall between any two, and flock frees the  *)
(* locks of a process that dies.                                           *)
(***************************************************************************)
EXTENDS Integers, FiniteSets

CONSTANTS
  Worker,        \* processes that may run the worker
  Row,           \* outbox rows of the recipient
  Listing,       \* normalized properties
  IdentityOf,    \* the property each row announces
  MaxAttempts,   \* max_attempts
  MaxMessages,   \* max_messages of one run
  RetryBase,     \* retry_base_seconds, in units of the model's clock
  MaxDelay,      \* the cap of a retry delay
  RetryAfters,   \* delays Telegram may ask for
  StaleAfter,    \* sending_stale_minutes
  QuietLeft,     \* time left in the quiet hours
  MaxCount,      \* attempts are counted up to this
  MaxCrashes, MaxEdits, MaxFaults,   \* bounds of what may happen
  NoOne, NoRow, Peer

ASSUME WorkerAssumption == NoOne \notin Worker /\ Peer \notin Worker /\ NoOne # Peer
ASSUME RowAssumption == NoRow \notin Row /\ IdentityOf \in [Row -> Listing]
ASSUME NumberAssumption ==
  /\ {MaxAttempts, MaxMessages, RetryBase, MaxDelay, MaxCount} \subseteq Nat \ {0}
  /\ {StaleAfter, QuietLeft, MaxCrashes, MaxEdits, MaxFaults} \subseteq Nat
  /\ RetryAfters \subseteq 1..MaxDelay
  /\ QuietLeft <= MaxDelay
  /\ \A a \in 1..MaxCount : RetryBase * 2^(a - 1) \in Nat

VARIABLES
  status,        \* outbox.status of each row, "absent" before it is queued
  attempts,      \* outbox.attempts
  wait,          \* time until outbox.not_before, 0 once it has passed
  age,           \* time since outbox.claimed_at
  receipt,       \* rows with a delivery_receipts row
  bank,          \* the recipient's suppressing keys (active_seen_keys)
  runLock,       \* holder of run.lock
  lock,          \* holder of the recipient's delivery lock
  pc, cur,       \* where each worker is, and the row it claimed
  target,        \* the recipient is among the canaries this run loaded
  left,          \* claims left in this run
  config,        \* settings and allowlist, as far as this recipient goes
  admin,         \* progress of the dashboard's remove_person
  peer,          \* the daily or Test Push path: "away", "holding", "sent"
  peerListing,   \* the property the peer is sending
  copies,        \* messages Telegram took, per row (history)
  crashes, edits, faults

outbox == <<status, attempts, wait, age, receipt>>
place == <<pc, cur, target, left>>
dashboard == <<config, admin>>
other == <<peer, peerListing>>
budget == <<crashes, edits, faults>>
vars == <<outbox, bank, runLock, lock, place, dashboard, other, copies, budget>>

Statuses == {"absent", "shadow", "pending", "sending", "sent", "failed",
             "retry_wait", "uncertain", "cancelled"}
Places == {"idle", "promote", "load", "reconcile", "recover", "release",
           "precancel", "claim", "claimed", "locked", "checked", "accepted",
           "ambiguous", "refused", "rejected", "recorded"}
\* Places of a worker that holds a claimed row: before the call of Telegram,
\* and after it with the outcome still to be written.
BeforeSend == {"claimed", "locked", "checked"}
AfterSend == {"accepted", "ambiguous", "refused", "rejected"}
Switches == {"gate", "canary", "immediate", "wanted", "quiet"}

Init ==
  /\ status = [r \in Row |-> "absent"]
  /\ attempts = [r \in Row |-> 0]
  /\ wait = [r \in Row |-> 0]
  /\ age = [r \in Row |-> 0]
  /\ receipt = {}
  /\ bank = {}
  /\ runLock = NoOne /\ lock = NoOne
  /\ pc = [w \in Worker |-> "idle"]
  /\ cur = [w \in Worker |-> NoRow]
  /\ target = [w \in Worker |-> FALSE]
  /\ left = [w \in Worker |-> 0]
  /\ config = [gate |-> TRUE, canary |-> TRUE, allowed |-> TRUE,
               immediate |-> TRUE, wanted |-> TRUE, quiet |-> FALSE]
  /\ admin = "idle"
  /\ peer = "away"
  /\ peerListing \in Listing
  /\ copies = [r \in Row |-> 0]
  /\ crashes = 0 /\ edits = 0 /\ faults = 0
-----------------------------------------------------------------------------
(* Helpers *)

Lesser(a, b) == IF a <= b THEN a ELSE b

Goto(w, p) == pc' = [pc EXCEPT ![w] = p]

\* mark_outbox_failure's and return_outbox_to_pending's UPDATE, status and all.
Put(r, s, delay) ==
  /\ status' = [status EXCEPT ![r] = s]
  /\ wait' = [wait EXCEPT ![r] = delay]
  /\ age' = [age EXCEPT ![r] = 0]

\* _eligibility.  A row is held by a condition that may pass (the gates, the
\* canary list, the delivery mode) and dropped by one that will not (left the
\* allowlist, no search wants it, already in the recipient's bank).
Unwanted(r) ==
  \/ ~config.allowed
  \/ config.immediate /\ (~config.wanted \/ IdentityOf[r] \in bank)

Dropped(r) == config.gate /\ config.canary /\ Unwanted(r)

Eligible(r) ==
  /\ config.gate /\ config.canary /\ config.allowed
  /\ config.immediate /\ config.wanted
  /\ IdentityOf[r] \notin bank

Held(r) == ~Dropped(r) /\ ~Eligible(r)

\* notification_not_before: an immediate recipient waits for the end of the
\* quiet hours, a daily one for the next delivery time.
NotBefore == IF config.quiet \/ ~config.immediate THEN QuietLeft ELSE 0

\* Mutations: a cancel that also takes quarantined rows, or sent ones.
CancelsUncertain == {"shadow", "pending", "sending", "retry_wait", "failed", "uncertain"}
CancelsSent == {"shadow", "pending", "sending", "retry_wait", "failed", "sent"}

\* Cancelled rows leave every status that is not a final one.
Cancellable == {"shadow", "pending", "sending", "retry_wait", "failed"}

CancelRows(rs) ==
  LET gone == {r \in rs : status[r] \in Cancellable}
  IN /\ status' = [r \in Row |-> IF r \in gone THEN "cancelled" ELSE status[r]]
     /\ age' = [r \in Row |-> IF r \in gone THEN 0 ELSE age[r]]

Delay(r) == Lesser(MaxDelay, RetryBase * 2^(attempts[r] - 1))
-----------------------------------------------------------------------------
(* One run of the worker, in the order of run(): promote, deliver_due. *)

\* Mutation: a process that does not look at the run lock.
BeginUnlocked(w) ==
  /\ pc[w] = "idle"
  /\ runLock' = w
  /\ Goto(w, "promote")
  /\ UNCHANGED <<outbox, bank, lock, cur, target, left, dashboard, other, copies, budget>>

\* try_run_lock never waits: a process that finds it taken does nothing.
Begin(w) ==
  /\ pc[w] = "idle" /\ runLock = NoOne
  /\ runLock' = w
  /\ Goto(w, "promote")
  /\ UNCHANGED <<outbox, bank, lock, cur, target, left, dashboard, other, copies, budget>>

\* promote: every shadow row becomes pending, is cancelled, or stays.
Promote(w) ==
  /\ pc[w] = "promote"
  /\ status' = [r \in Row |->
       IF status[r] # "shadow" THEN status[r]
       ELSE IF Eligible(r) THEN "pending"
       ELSE IF Dropped(r) THEN "cancelled" ELSE "shadow"]
  /\ Goto(w, "load")
  /\ UNCHANGED <<attempts, wait, age, receipt, bank, runLock, lock, cur, target, left,
                 dashboard, other, copies, budget>>

\* deliver_due loads the settings again: a closed gate ends the run.
Load(w) ==
  /\ pc[w] = "load" /\ config.gate
  /\ target' = [target EXCEPT ![w] = config.canary]
  /\ left' = [left EXCEPT ![w] = MaxMessages]
  /\ Goto(w, "reconcile")
  /\ UNCHANGED <<outbox, bank, runLock, lock, cur, dashboard, other, copies, budget>>

\* Mutation: sent rows are never brought back to the bank.
NothingUnbanked == {}

\* The properties a receipt proves and the bank lacks.
Unbanked == {IdentityOf[r] : r \in {x \in Row : status[x] = "sent"}} \ bank

\* _reconcile_seen repairs the bank from the sent rows; it swallows a failed
\* write, which leaves the repair to a later run.
Reconcile(w) ==
  /\ pc[w] = "reconcile"
  /\ \/ /\ bank' = IF target[w] THEN bank \cup Unbanked ELSE bank
        /\ UNCHANGED faults
     \/ /\ target[w] /\ Unbanked # {} /\ faults < MaxFaults
        /\ faults' = faults + 1
        /\ UNCHANGED bank
  /\ Goto(w, "recover")
  /\ UNCHANGED <<outbox, runLock, lock, cur, target, left, dashboard, other, copies,
                 crashes, edits>>

\* Mutation: only a row out of attempts is recovered.
StaleWhenSpent(r) == status[r] = "sending" /\ age[r] > StaleAfter /\ attempts[r] >= MaxAttempts

\* recover_stale_sending
Stale(r) == status[r] = "sending" /\ age[r] > StaleAfter

\* Mutation: a stale row is offered again.
RecoverAsPending(w) ==
  /\ pc[w] = "recover"
  /\ status' = [r \in Row |-> IF target[w] /\ Stale(r) THEN "pending" ELSE status[r]]
  /\ age' = [r \in Row |-> IF target[w] /\ Stale(r) THEN 0 ELSE age[r]]
  /\ Goto(w, "release")
  /\ UNCHANGED <<attempts, wait, receipt, bank, runLock, lock, cur, target, left,
                 dashboard, other, copies, budget>>

RecoverStale(w) ==
  /\ pc[w] = "recover"
  /\ status' = [r \in Row |-> IF target[w] /\ Stale(r) THEN "uncertain" ELSE status[r]]
  /\ age' = [r \in Row |-> IF target[w] /\ Stale(r) THEN 0 ELSE age[r]]
  /\ Goto(w, "release")
  /\ UNCHANGED <<attempts, wait, receipt, bank, runLock, lock, cur, target, left,
                 dashboard, other, copies, budget>>

\* Mutation: a row out of attempts is not released, an operator's retry too.
ReleaseUnspent(w) ==
  /\ pc[w] = "release"
  /\ status' = [r \in Row |->
       IF target[w] /\ status[r] = "retry_wait" /\ wait[r] = 0 /\ attempts[r] < MaxAttempts
       THEN "pending" ELSE status[r]]
  /\ Goto(w, "precancel")
  /\ UNCHANGED <<attempts, wait, age, receipt, bank, runLock, lock, cur, target, left,
                 dashboard, other, copies, budget>>

\* release_due_retries
ReleaseRetries(w) ==
  /\ pc[w] = "release"
  /\ status' = [r \in Row |->
       IF target[w] /\ status[r] = "retry_wait" /\ wait[r] = 0 THEN "pending" ELSE status[r]]
  /\ Goto(w, "precancel")
  /\ UNCHANGED <<attempts, wait, age, receipt, bank, runLock, lock, cur, target, left,
                 dashboard, other, copies, budget>>

\* The pass before the claims: the settings are those the run loaded, the
\* allowlist and the bank are read anew.
Precancel(w) ==
  /\ pc[w] = "precancel"
  /\ CancelRows({r \in Row : /\ target[w] /\ status[r] = "pending"
                             /\ wait[r] = 0 /\ Unwanted(r)})
  /\ Goto(w, "claim")
  /\ UNCHANGED <<attempts, wait, receipt, bank, runLock, lock, cur, target, left,
                 dashboard, other, copies, budget>>

Due(r) == status[r] = "pending" /\ wait[r] = 0

\* Mutation: the loop forgets max_messages.
ClaimUnbounded(w, r) ==
  /\ pc[w] = "claim" /\ target[w]
  /\ Due(r)
  /\ status' = [status EXCEPT ![r] = "sending"]
  /\ attempts' = [attempts EXCEPT ![r] = Lesser(MaxCount, @ + 1)]
  /\ age' = [age EXCEPT ![r] = 0]
  /\ cur' = [cur EXCEPT ![w] = r]
  /\ left' = [left EXCEPT ![w] = @ - 1]
  /\ Goto(w, "claimed")
  /\ UNCHANGED <<wait, receipt, bank, runLock, lock, target, dashboard, other, copies, budget>>

\* claim_due_outbox takes one due row, whichever is first.
Claim(w, r) ==
  /\ pc[w] = "claim" /\ target[w] /\ left[w] > 0
  /\ Due(r)
  /\ status' = [status EXCEPT ![r] = "sending"]
  /\ attempts' = [attempts EXCEPT ![r] = Lesser(MaxCount, @ + 1)]
  /\ age' = [age EXCEPT ![r] = 0]
  /\ cur' = [cur EXCEPT ![w] = r]
  /\ left' = [left EXCEPT ![w] = @ - 1]
  /\ Goto(w, "claimed")
  /\ UNCHANGED <<wait, receipt, bank, runLock, lock, target, dashboard, other, copies, budget>>

\* What a run loaded ends with it, and run.lock is free.
Leave(w) ==
  /\ Goto(w, "idle")
  /\ target' = [target EXCEPT ![w] = FALSE]
  /\ left' = [left EXCEPT ![w] = 0]
  /\ runLock' = NoOne

\* No due row, no claim left, or the gate was closed: the run ends.
Finish(w) ==
  /\ \/ pc[w] = "load" /\ ~config.gate
     \/ pc[w] = "claim" /\ (~target[w] \/ left[w] = 0 \/ \A r \in Row : ~Due(r))
  /\ Leave(w)
  /\ UNCHANGED <<outbox, bank, lock, cur, dashboard, other, copies, budget>>

\* Mutation: the worker does not wait for the delivery lock.
TakeLockAnyway(w) ==
  /\ pc[w] = "claimed"
  /\ lock' = w
  /\ Goto(w, "locked")
  /\ UNCHANGED <<outbox, bank, runLock, cur, target, left, dashboard, other, copies, budget>>

TakeLock(w) ==
  /\ pc[w] = "claimed" /\ lock = NoOne
  /\ lock' = w
  /\ Goto(w, "locked")
  /\ UNCHANGED <<outbox, bank, runLock, cur, target, left, dashboard, other, copies, budget>>

\* The end of `with recipient_delivery_lock`: back to the next claim.
NextClaim(w) ==
  /\ lock' = NoOne
  /\ cur' = [cur EXCEPT ![w] = NoRow]
  /\ Goto(w, "claim")
-----------------------------------------------------------------------------
(* _deliver_claimed, under the recipient's delivery lock. *)

\* The second reading of the gates, the allowlist, the searches, the bank and
\* the quiet hours.  Nothing reads the row's own status again.
CheckPasses(w) ==
  /\ pc[w] = "locked"
  /\ Eligible(cur[w]) /\ ~config.quiet
  /\ Goto(w, "checked")
  /\ UNCHANGED <<outbox, bank, runLock, lock, cur, target, left, dashboard, other, copies, budget>>

CheckDrops(w) ==
  /\ pc[w] = "locked"
  /\ Dropped(cur[w])
  /\ CancelRows({cur[w]})
  /\ NextClaim(w)
  /\ UNCHANGED <<attempts, wait, receipt, bank, runLock, target, left, dashboard, other,
                 copies, budget>>

\* return_outbox_to_pending: at once for a held row, after the quiet hours for
\* a row that may go then.  The claim has counted an attempt all the same.
NotNow(w) ==
  /\ pc[w] = "locked"
  /\ \/ Held(cur[w])
     \/ Eligible(cur[w]) /\ config.quiet

CheckReturns(w) ==
  /\ NotNow(w)
  /\ status[cur[w]] = "sending"
  /\ Put(cur[w], "pending", IF Held(cur[w]) THEN 0 ELSE QuietLeft)
  /\ NextClaim(w)
  /\ UNCHANGED <<attempts, receipt, bank, runLock, target, left, dashboard, other,
                 copies, budget>>

\* sender.send.  Telegram takes the message or not; a timeout or a cut
\* connection leaves the worker without knowing.
Transport(w, outcome, taken) ==
  /\ pc[w] = "checked"
  /\ (outcome = "accepted" => taken) /\ (taken => outcome \in {"accepted", "ambiguous"})
  /\ Goto(w, outcome)
  /\ copies' = [copies EXCEPT ![cur[w]] = IF taken THEN Lesser(MaxCount + 1, @ + 1) ELSE @]
  /\ UNCHANGED <<outbox, bank, runLock, lock, cur, target, left, dashboard, other, budget>>

\* mark_outbox_sent: status and receipt in one transaction.
RecordSent(w) ==
  /\ pc[w] = "accepted" /\ status[cur[w]] = "sending"
  /\ status' = [status EXCEPT ![cur[w]] = "sent"]
  /\ age' = [age EXCEPT ![cur[w]] = 0]
  /\ receipt' = receipt \cup {cur[w]}
  /\ Goto(w, "recorded")
  /\ UNCHANGED <<attempts, wait, bank, runLock, lock, cur, target, left, dashboard, other,
                 copies, budget>>

\* The row's fate after a send that brought no receipt.
AfterFailure(w, s, delay) ==
  \/ pc[w] = "ambiguous" /\ s = "uncertain" /\ delay = 0
  \/ /\ s = "failed" /\ delay = 0
     /\ \/ pc[w] = "rejected"
        \/ pc[w] = "refused" /\ attempts[cur[w]] >= MaxAttempts
  \/ /\ pc[w] = "refused" /\ attempts[cur[w]] < MaxAttempts
     /\ s = "retry_wait" /\ delay \in {Delay(cur[w])} \cup RetryAfters

RecordFailure(w, s, delay) ==
  /\ AfterFailure(w, s, delay)
  /\ status[cur[w]] = "sending"
  /\ Put(cur[w], s, delay)
  /\ NextClaim(w)
  /\ UNCHANGED <<attempts, receipt, bank, runLock, target, left, dashboard, other,
                 copies, budget>>

\* mark_seen after the receipt; a failed write is swallowed.
BankIt(w) ==
  /\ pc[w] = "recorded"
  /\ \/ bank' = bank \cup {IdentityOf[cur[w]]} /\ UNCHANGED faults
     \/ faults < MaxFaults /\ faults' = faults + 1 /\ UNCHANGED bank
  /\ NextClaim(w)
  /\ UNCHANGED <<outbox, runLock, target, left, dashboard, other, copies, crashes, edits>>

\* The process ends and the kernel frees its locks.
Die(w) ==
  /\ Leave(w)
  /\ cur' = [cur EXCEPT ![w] = NoRow]
  /\ lock' = IF lock = w THEN NoOne ELSE lock
  /\ UNCHANGED <<outbox, bank, dashboard, other, copies>>

\* An UPDATE that expects 'sending' finds the row cancelled meanwhile: it
\* raises, nothing catches it, and the run ends there.
Raise(w) ==
  /\ pc[w] \in AfterSend \/ NotNow(w)
  /\ status[cur[w]] # "sending"
  /\ Die(w)
  /\ UNCHANGED budget

Crash(w) ==
  /\ pc[w] # "idle" /\ crashes < MaxCrashes
  /\ crashes' = crashes + 1
  /\ Die(w)
  /\ UNCHANGED <<edits, faults>>
-----------------------------------------------------------------------------
(* Around the worker. *)

\* plan_shadow_notifications queues a row in an earlier stage of a tick.
Enqueue(r) ==
  /\ runLock = NoOne /\ status[r] = "absent"
  /\ config.allowed /\ config.wanted /\ IdentityOf[r] \notin bank
  /\ status' = [status EXCEPT ![r] = "shadow"]
  /\ wait' = [wait EXCEPT ![r] = NotBefore]
  /\ UNCHANGED <<attempts, age, receipt, bank, runLock, lock, place, dashboard, other,
                 copies, budget>>

\* The clock a run reads stands still during the run: now_utc is read once.
TimePasses ==
  /\ runLock = NoOne
  /\ wait' = [r \in Row |-> IF wait[r] > 0 THEN wait[r] - 1 ELSE 0]
  /\ age' = [r \in Row |-> IF status[r] = "sending" THEN Lesser(StaleAfter + 1, age[r] + 1)
                           ELSE age[r]]
  /\ UNCHANGED <<status, attempts, receipt, bank, runLock, lock, place, dashboard, other,
                 copies, budget>>

\* The owner turns a gate, the canary list, the delivery mode, the searches or
\* the quiet hours; the quiet hours also begin and end by themselves.
Edit(f) ==
  /\ edits < MaxEdits /\ edits' = edits + 1
  /\ config' = [config EXCEPT ![f] = ~@]
  /\ UNCHANGED <<outbox, bank, runLock, lock, place, admin, other, copies, crashes, faults>>

\* retry_failed_outbox: only a definitely failed row, its attempts kept.
RetryFailed(r) ==
  /\ status[r] = "failed" /\ edits < MaxEdits
  /\ edits' = edits + 1
  /\ Put(r, "retry_wait", 0)
  /\ UNCHANGED <<attempts, receipt, bank, runLock, lock, place, dashboard, other, copies,
                 crashes, faults>>

\* remove_person: four writes, no delivery lock.
RemoveCancels ==
  /\ admin = "idle" /\ config.allowed /\ edits < MaxEdits
  /\ edits' = edits + 1
  /\ CancelRows(Row)
  /\ admin' = "cancelled"
  /\ UNCHANGED <<attempts, wait, receipt, bank, runLock, lock, place, config, other,
                 copies, crashes, faults>>

RemoveUncanary ==
  /\ admin = "cancelled" /\ admin' = "uncanaried"
  /\ config' = [config EXCEPT !.canary = FALSE]
  /\ UNCHANGED <<outbox, bank, runLock, lock, place, other, copies, budget>>

RemoveUnlist ==
  /\ admin = "uncanaried" /\ admin' = "unlisted"
  /\ config' = [config EXCEPT !.allowed = FALSE]
  /\ UNCHANGED <<outbox, bank, runLock, lock, place, other, copies, budget>>

RemovePurge ==
  /\ admin = "unlisted" /\ admin' = "idle"
  /\ bank' = {}
  /\ UNCHANGED <<outbox, runLock, lock, place, config, other, copies, budget>>

\* The dashboard dies between two of the writes.
RemoveDies ==
  /\ admin # "idle" /\ crashes < MaxCrashes
  /\ crashes' = crashes + 1
  /\ admin' = "idle"
  /\ UNCHANGED <<outbox, bank, runLock, lock, place, config, other, copies, edits, faults>>

AddPerson ==
  /\ ~config.allowed /\ admin = "idle" /\ edits < MaxEdits
  /\ edits' = edits + 1
  /\ config' = [config EXCEPT !.allowed = TRUE]
  /\ UNCHANGED <<outbox, bank, runLock, lock, place, admin, other, copies, crashes, faults>>

\* The daily and Test Push paths: the same lock, the same last look at the
\* bank, and the receipt banked before the lock is freed.
PeerLocks ==
  /\ peer = "away" /\ lock = NoOne
  /\ lock' = Peer /\ peer' = "holding"
  /\ UNCHANGED <<outbox, bank, runLock, place, dashboard, peerListing, copies, budget>>

PeerSends(l) ==
  /\ peer = "holding" /\ l \notin bank
  /\ peer' = "sent" /\ peerListing' = l
  /\ UNCHANGED <<outbox, bank, runLock, lock, place, dashboard, copies, budget>>

PeerBanks ==
  /\ peer = "sent"
  /\ bank' = bank \cup {peerListing}
  /\ peer' = "holding"
  /\ UNCHANGED <<outbox, runLock, lock, place, dashboard, peerListing, copies, budget>>

\* The peer dies with the message sent and not banked.
PeerDies ==
  /\ peer # "away" /\ crashes < MaxCrashes
  /\ crashes' = crashes + 1
  /\ lock' = NoOne /\ peer' = "away"
  /\ UNCHANGED <<outbox, bank, runLock, place, dashboard, peerListing, copies, edits, faults>>

PeerUnlocks ==
  /\ peer = "holding"
  /\ lock' = NoOne /\ peer' = "away"
  /\ UNCHANGED <<outbox, bank, runLock, place, dashboard, peerListing, copies, budget>>
-----------------------------------------------------------------------------
RunStep(w) ==
  \/ Begin(w) \/ Promote(w) \/ Load(w) \/ Reconcile(w) \/ RecoverStale(w)
  \/ ReleaseRetries(w) \/ Precancel(w) \/ Finish(w)
  \/ \E r \in Row : Claim(w, r)

DeliverStep(w) ==
  \/ TakeLock(w) \/ CheckPasses(w) \/ CheckDrops(w) \/ CheckReturns(w)
  \/ \E outcome \in AfterSend, taken \in BOOLEAN : Transport(w, outcome, taken)
  \/ RecordSent(w) \/ BankIt(w) \/ Raise(w)
  \/ \E s \in Statuses, delay \in 0..MaxDelay : RecordFailure(w, s, delay)

WorkerStep(w) == RunStep(w) \/ DeliverStep(w)

DashboardStep ==
  \/ \E f \in Switches : Edit(f)
  \/ \E r \in Row : RetryFailed(r)
  \/ RemoveCancels \/ RemoveUncanary \/ RemoveUnlist \/ RemovePurge \/ RemoveDies
  \/ AddPerson

PeerStep ==
  \/ PeerLocks \/ PeerBanks \/ PeerUnlocks \/ PeerDies
  \/ \E l \in Listing : PeerSends(l)

Next ==
  \/ \E w \in Worker : WorkerStep(w) \/ Crash(w)
  \/ \E r \in Row : Enqueue(r)
  \/ TimePasses \/ DashboardStep \/ PeerStep

Spec == Init /\ [][Next]_vars

\* A process that runs goes on, a launchd job comes again and again, time goes
\* on between the runs, and the delivery lock is not kept from a waiting worker
\* for ever by paths that come a few times a day.  Nobody has to use the
\* dashboard, and nothing has to crash.
Continue(w) == (RunStep(w) /\ pc[w] # "idle") \/ (DeliverStep(w) /\ pc[w] # "claimed")

Fairness ==
  /\ WF_vars(\E w \in Worker : Begin(w))
  /\ \A w \in Worker : WF_vars(Continue(w)) /\ SF_vars(TakeLock(w))
  /\ SF_vars(TimePasses)
  /\ WF_vars(PeerBanks \/ PeerUnlocks)

FairSpec == Spec /\ Fairness
-----------------------------------------------------------------------------
(* Properties *)

\* Every variable has its type.
TypeOK ==
  /\ status \in [Row -> Statuses]
  /\ attempts \in [Row -> 0..MaxCount]
  /\ wait \in [Row -> 0..MaxDelay]
  /\ age \in [Row -> 0..StaleAfter + 1]
  /\ receipt \in SUBSET Row
  /\ bank \in SUBSET Listing
  /\ runLock \in Worker \cup {NoOne}
  /\ lock \in Worker \cup {NoOne, Peer}
  /\ pc \in [Worker -> Places]
  /\ cur \in [Worker -> Row \cup {NoRow}]
  /\ target \in [Worker -> BOOLEAN]
  /\ left \in [Worker -> 0..MaxMessages]
  /\ config \in [gate : BOOLEAN, canary : BOOLEAN, allowed : BOOLEAN,
                 immediate : BOOLEAN, wanted : BOOLEAN, quiet : BOOLEAN]
  /\ admin \in {"idle", "cancelled", "uncanaried", "unlisted"}
  /\ peer \in {"away", "holding", "sent"}
  /\ peerListing \in Listing
  /\ copies \in [Row -> 0..MaxCount + 1]
  /\ crashes \in Nat /\ edits \in Nat /\ faults \in Nat

\* Telegram takes a row's message at most once, whatever crashes, retries,
\* stale recoveries and operator retries come between (claim_due_outbox,
\* recover_stale_sending, mark_outbox_failure, retry_failed_outbox).
AtMostOneCopy == \A r \in Row : copies[r] <= 1

\* A delivery receipt is the receipt of a message Telegram took, and the rows
\* with a receipt are the sent ones (mark_outbox_sent against every cancel).
ReceiptsAreEarned ==
  /\ receipt = {r \in Row : status[r] = "sent"}
  /\ \A r \in receipt : copies[r] = 1

\* What the last look at the bank found still holds when the worker calls
\* Telegram: no path can bank the property in between (delivery_worker.py's
\* check under recipient_delivery_lock).
LastLookHolds ==
  \A w \in Worker : pc[w] = "checked" => IdentityOf[cur[w]] \notin bank

\* Only a row that no process holds is quarantined as stale: the row of a
\* worker that still waits for Telegram never is (recover_stale_sending).
QuarantinesOrphans ==
  \A r \in Row :
    status[r] = "sending" /\ status'[r] = "uncertain"
    => \A w \in Worker : cur[w] = r => pc[w] = "ambiguous"

OnlyOrphansAreStale == [][QuarantinesOrphans]_vars

\* No worker is about to send a property for which a receipt of another row
\* already stands in the ledger, also when the run that earned the receipt died
\* before it banked it (_reconcile_seen).  As long, that is, as no write of the
\* bank failed, and the recipient was not removed, added and made a canary again,
\* which takes three edits and leaves an empty bank.
ReceiptGuardsListing ==
  faults = 0 /\ edits <= 2 =>
    \A w \in Worker : pc[w] = "checked" =>
      \A r \in receipt : IdentityOf[r] # IdentityOf[cur[w]]

\* The statuses, as the abstract promise sees them.
AwaitsSend(r) == \E w \in Worker : cur[w] = r /\ pc[w] \in BeforeSend

FateOf(r) ==
  CASE status[r] \in {"absent", "shadow", "pending", "retry_wait", "failed"} -> "open"
    [] status[r] = "sending" -> "onWire"
    [] status[r] = "sent" -> "delivered"
    [] status[r] = "uncertain" -> "unknown"
    [] status[r] = "cancelled" -> IF AwaitsSend(r) THEN "recalled" ELSE "withdrawn"

Promise == INSTANCE AlertPromise WITH fate <- [r \in Row |-> FateOf(r)]

\* The worker keeps the abstract promise: a message that may have reached
\* Telegram is never offered again, and nothing leaves quarantine.
KeepsPromise == Promise!Spec

\* With the gates open for good, a receipt reaches the bank in the end, also
\* when the run that got it died or its write failed (_reconcile_seen).
Open == config.gate /\ config.canary

BankCatchesUp ==
  \A r \in Row : <>[]Open => [](r \in receipt => <>(IdentityOf[r] \in bank))

\* With the gates open for good, no row stays 'sending' for ever.
OrphansSurface == \A r \in Row : <>[]Open => []<>(status[r] # "sending")

\* With nothing in the way for good, every queued row comes to an end: sent,
\* cancelled, failed or uncertain.
Clear == Open /\ config.allowed /\ config.immediate /\ ~config.quiet

AlertsDrain ==
  \A r \in Row : <>[]Clear => <>[](status[r] \notin {"shadow", "pending", "sending", "retry_wait"})
=============================================================================
