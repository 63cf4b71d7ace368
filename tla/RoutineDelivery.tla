--------------------------- MODULE RoutineDelivery ---------------------------
(***************************************************************************)
(* The daily path of one recipient: the planned pushes of a run            *)
(* (`run`, `deliver`), the no-results and source-outage notices, and what  *)
(* they leave in the recipient's two files: the append-only delivery       *)
(* journal, which knows every attempt to send, and the compact seen        *)
(* ledger, which the due gate and the dedup read.  Each journal or ledger  *)
(* append and each Telegram call is a step; a crash may fall between any   *)
(* two.  run.lock admits one run at a time; Test Push takes only the       *)
(* delivery lock, and removing the recipient takes neither.                *)
(***************************************************************************)
EXTENDS Integers

CONSTANTS
  Message,       \* rendered listing messages
  Listing,       \* normalized properties
  Announces,     \* the property a message announces
  Notice,        \* the no-results notice
  Outage,        \* the source-outage notice
  MaxDay,        \* local days
  Established,   \* the recipient's seen ledger exists at the start
  WantsNotices,  \* notify_on_no_results
  Peers,         \* who else sends to the recipient: "test", "incremental"
  MaxCrashes, MaxFaults, MaxEdits,
  Nothing

ASSUME SubjectAssumption ==
  /\ Announces \in [Message -> Listing]
  /\ {Notice, Outage} \cap (Message \cup Listing) = {} /\ Notice # Outage
  /\ Nothing \notin Message \cup Listing \cup {Notice, Outage}
ASSUME BoundAssumption ==
  /\ {MaxDay, MaxCrashes, MaxFaults, MaxEdits} \subseteq Nat /\ MaxDay > 0
  /\ Established \in BOOLEAN /\ WantsNotices \in BOOLEAN
  /\ Peers \subseteq {"test", "incremental"}

VARIABLES
  today, clock,      \* the recipient's local day, and "early" or "due" in it
  allowed,           \* on the allowlist
  removal,           \* progress of the dashboard's remove_person
  journal,           \* folded status of every delivery attempt
  ledger,            \* rows of the seen ledger; its file exists when it has any
  lock,              \* holder of the recipient's delivery lock
  pc, runDay,        \* where the run is, and the day it started in
  todo, cur,         \* what the run has left to send, and what it is sending
  mine,              \* attempts this run got accepted (history)
  peer, peerListing, \* Test Push or the incremental worker, and its property
  copies,            \* messages Telegram took, per attempt (history)
  crashes, faults, edits

calendar == <<today, clock>>
person == <<allowed, removal>>
files == <<journal, ledger>>
run == <<pc, runDay, todo, cur, mine>>
others == <<peer, peerListing>>
budget == <<crashes, faults, edits>>
vars == <<calendar, person, files, lock, run, others, copies, budget>>

Subject == Message \cup {Notice, Outage}

\* The attempt identity: the local day and the exact message (its kind, text,
\* keys and discriminator).
Attempt == (1..MaxDay) \X Subject
States == {"none", "prepared", "sending", "accepted", "failed", "uncertain"}
Channels == {"scheduled", "test", "incremental"}
Rows == [key : Listing \cup {Notice}, day : 0..MaxDay, channel : Channels]

Init ==
  /\ today = 1 /\ clock = "early"
  /\ allowed = TRUE /\ removal = "idle"
  /\ journal = [a \in Attempt |-> "none"]
  /\ ledger = IF Established THEN {[key |-> Notice, day |-> 0, channel |-> "scheduled"]} ELSE {}
  /\ lock = "free"
  /\ pc = "idle" /\ runDay = 1
  /\ todo = {} /\ cur = Nothing /\ mine = {}
  /\ peer = "away" /\ peerListing \in Listing
  /\ copies = [a \in Attempt |-> 0]
  /\ crashes = 0 /\ faults = 0 /\ edits = 0
-----------------------------------------------------------------------------
(* What the files say. *)

LedgerRow(k, d, c) == [key |-> k, day |-> d, channel |-> c]

LedgerKeys == {row.key : row \in ledger} \cap Listing

AcceptedKeys == {Announces[a[2]] : a \in {x \in Attempt : x[2] \in Message /\ journal[x] = "accepted"}}

\* Mutation: the bank is the ledger alone.
LedgerOnly == LedgerKeys

\* active_seen_keys: the ledger and the journal's accepted listings.
Bank == LedgerKeys \cup AcceptedKeys

\* last_sent_at: without a ledger file nothing counts; with one, its rows
\* (Test Push aside) and every accepted journal entry do.
SentDays ==
  IF ledger = {} THEN {}
  ELSE {row.day : row \in {x \in ledger : x.channel # "test"}}
         \cup {a[1] : a \in {x \in Attempt : journal[x] = "accepted"}}

\* Mutation: only the ledger's rows count for the due gate.
SentOnFromLedger(d) == \E row \in ledger : row.channel # "test" /\ row.day = d

\* is_profile_due's day test: the last send fell on that day.
SentOn(d) == d \in SentDays /\ \A e \in SentDays : e <= d

\* reconcile_routine_seen: mark_seen for the accepted listings the ledger lacks.
Repairs ==
  {LedgerRow(Announces[a[2]], a[1], "scheduled") :
     a \in {x \in Attempt : /\ x[2] \in Message /\ journal[x] = "accepted"
                            /\ Announces[x[2]] \notin LedgerKeys}}

Log(m, s) == journal' = [journal EXCEPT ![<<runDay, m>>] = s]
-----------------------------------------------------------------------------
(* A run: plan_pushes, then deliver or deliver_source_outage_notices. *)

RunMayStart == pc = "idle" /\ peer # "incremental" /\ peer # "incrementalSent"

\* What the pool offers: at most one message per property (_unique).
Pools == {p \in SUBSET Message : \A m, n \in p : Announces[m] = Announces[n] => m = n}

\* plan_pushes: the unseen messages of the pool, or else the notice.  A person
\* who is not allowlisted or not due, or an incomplete pool with nothing new,
\* ends the run at once: nothing changes.
Plan(pool) ==
  LET fresh == {m \in pool : Announces[m] \notin Bank}
  IN /\ RunMayStart /\ allowed /\ clock = "due" /\ ~SentOn(today)
     /\ fresh # {} \/ WantsNotices
     /\ todo' = IF fresh # {} THEN fresh ELSE {Notice}
     /\ pc' = "planned" /\ runDay' = today
     /\ UNCHANGED <<calendar, person, files, lock, cur, mine, others, copies, budget>>

\* No usable pool and a failed scrape.
PlanOutage ==
  /\ RunMayStart /\ allowed /\ clock = "due" /\ WantsNotices
  /\ todo' = {Outage}
  /\ pc' = "planned" /\ runDay' = today
  /\ UNCHANGED <<calendar, person, files, lock, cur, mine, others, copies, budget>>

TakeLock ==
  /\ pc = "planned" /\ lock = "free"
  /\ lock' = "run"
  /\ pc' = IF todo \subseteq Message THEN "reconcile" ELSE "ready"
  /\ UNCHANGED <<calendar, person, files, runDay, todo, cur, mine, others, copies, budget>>

\* A failed repair is swallowed; the rows already appended stay.
Reconcile ==
  /\ pc = "reconcile" /\ pc' = "ready"
  /\ \/ ledger' = ledger \cup Repairs /\ UNCHANGED faults
     \/ /\ faults < MaxFaults /\ Repairs # {} /\ faults' = faults + 1
        /\ \E some \in SUBSET Repairs : ledger' = ledger \cup some
  /\ UNCHANGED <<calendar, person, journal, lock, runDay, todo, cur, mine, others, copies,
                 crashes, edits>>

\* The last look before a message: the allowlist and the bank for a listing,
\* the due gate for the notices.
StillWanted(m) ==
  /\ m # Outage => allowed
  /\ m \in Message => Announces[m] \notin Bank
  /\ m \notin Message => ~SentOn(runDay)

\* The loop goes on with the next message.
Drop(m) ==
  /\ pc' = "ready"
  /\ todo' = todo \ {m}
  /\ cur' = Nothing

Suppress(m) ==
  /\ pc = "ready" /\ m \in todo
  /\ \/ ~StillWanted(m)
     \/ journal[<<runDay, m>>] \in {"accepted", "uncertain"}
  /\ Drop(m)
  /\ UNCHANGED <<calendar, person, files, lock, runDay, mine, others, copies, budget>>

\* Mutation: an interrupted send is prepared again.
PrepareAgain(m) ==
  /\ pc = "ready" /\ m \in todo /\ StillWanted(m)
  /\ journal[<<runDay, m>>] \in {"none", "failed", "prepared", "sending"}
  /\ Log(m, "prepared")
  /\ pc' = "prepared" /\ cur' = m
  /\ UNCHANGED <<calendar, person, ledger, lock, runDay, todo, mine, others, copies, budget>>

\* prepare_routine_delivery, when the attempt is new or may be retried.
Prepare(m) ==
  /\ pc = "ready" /\ m \in todo /\ StillWanted(m)
  /\ journal[<<runDay, m>>] \in {"none", "failed", "prepared"}
  /\ Log(m, "prepared")
  /\ pc' = "prepared" /\ cur' = m
  /\ UNCHANGED <<calendar, person, ledger, lock, runDay, todo, mine, others, copies, budget>>

\* Mutation: an interrupted send counts as a failed one.
QuarantineAsFailed(m) ==
  /\ pc = "ready" /\ m \in todo /\ StillWanted(m)
  /\ journal[<<runDay, m>>] = "sending"
  /\ Log(m, "failed")
  /\ Drop(m)
  /\ UNCHANGED <<calendar, person, ledger, lock, runDay, mine, others, copies, budget>>

\* prepare_routine_delivery, when it meets an interrupted send.
Quarantine(m) ==
  /\ pc = "ready" /\ m \in todo /\ StillWanted(m)
  /\ journal[<<runDay, m>>] = "sending"
  /\ Log(m, "uncertain")
  /\ Drop(m)
  /\ UNCHANGED <<calendar, person, ledger, lock, runDay, mine, others, copies, budget>>

\* A journal append that fails before the call of Telegram: on to the next.
WriteFails(m) ==
  /\ \/ pc = "ready" /\ m \in todo /\ StillWanted(m)
     \/ pc = "prepared" /\ m = cur
  /\ faults < MaxFaults /\ faults' = faults + 1
  /\ Drop(m)
  /\ UNCHANGED <<calendar, person, files, lock, runDay, mine, others, copies, crashes, edits>>

Stage ==
  /\ pc = "prepared"
  /\ Log(cur, "sending")
  /\ pc' = "staged"
  /\ UNCHANGED <<calendar, person, ledger, lock, runDay, todo, cur, mine, others, copies, budget>>

\* sender.send.  An answer without a verifiable receipt is ambiguous too.
Send(outcome, taken) ==
  /\ pc = "staged"
  /\ outcome = "accepted" => taken
  /\ outcome = "refused" => ~taken
  /\ pc' = outcome
  /\ copies' = [copies EXCEPT ![<<runDay, cur>>] = IF taken /\ @ < 2 THEN @ + 1 ELSE @]
  /\ UNCHANGED <<calendar, person, files, lock, runDay, todo, cur, mine, others, budget>>

RecordAccepted ==
  /\ pc = "accepted"
  /\ Log(cur, "accepted")
  /\ mine' = mine \cup {<<runDay, cur>>}
  /\ pc' = "banking"
  /\ UNCHANGED <<calendar, person, ledger, lock, runDay, todo, cur, others, copies, budget>>

\* The receipt cannot be written: counted as uncertain, the attempt stays
\* "sending" in the journal.
ReceiptLost ==
  /\ pc = "accepted" /\ faults < MaxFaults /\ faults' = faults + 1
  /\ Drop(cur)
  /\ UNCHANGED <<calendar, person, files, lock, runDay, mine, others, copies, crashes, edits>>

\* Mutation: what may have arrived is put in the ledger at once.
RecordAndBank ==
  /\ pc \in {"ambiguous", "refused"}
  /\ Log(cur, IF pc = "ambiguous" THEN "uncertain" ELSE "failed")
  /\ ledger' = IF pc = "ambiguous" /\ cur \in Message
               THEN ledger \cup {LedgerRow(Announces[cur], runDay, "scheduled")} ELSE ledger
  /\ Drop(cur)
  /\ UNCHANGED <<calendar, person, lock, runDay, mine, others, copies, budget>>

\* Mutation: the answer is logged as it came.
RecordVerbatim ==
  /\ pc \in {"ambiguous", "refused"}
  /\ Log(cur, pc)
  /\ Drop(cur)
  /\ UNCHANGED <<calendar, person, ledger, lock, runDay, mine, others, copies, budget>>

\* The transport's other answers: uncertain or definitely failed.
RecordOther ==
  /\ pc \in {"ambiguous", "refused"}
  /\ Log(cur, IF pc = "ambiguous" THEN "uncertain" ELSE "failed")
  /\ Drop(cur)
  /\ UNCHANGED <<calendar, person, ledger, lock, runDay, mine, others, copies, budget>>

\* mark_seen appends only a key the ledger lacks; mark_notified always appends;
\* the outage notice leaves the ledger alone.
BankRows ==
  CASE cur = Outage -> {}
    [] cur = Notice -> {LedgerRow(Notice, runDay, "scheduled")}
    [] OTHER -> IF Announces[cur] \in LedgerKeys THEN {}
                ELSE {LedgerRow(Announces[cur], runDay, "scheduled")}

BankIt ==
  /\ pc = "banking"
  /\ \/ ledger' = ledger \cup BankRows /\ UNCHANGED faults
     \/ BankRows # {} /\ faults < MaxFaults /\ faults' = faults + 1 /\ UNCHANGED ledger
  /\ Drop(cur)
  /\ UNCHANGED <<calendar, person, journal, lock, runDay, mine, others, copies, crashes, edits>>

EndRun ==
  /\ pc = "ready" /\ todo = {}
  /\ pc' = "idle" /\ lock' = "free" /\ mine' = {}
  /\ UNCHANGED <<calendar, person, files, runDay, todo, cur, others, copies, budget>>

Crash ==
  /\ pc # "idle" /\ crashes < MaxCrashes /\ crashes' = crashes + 1
  /\ pc' = "idle" /\ todo' = {} /\ cur' = Nothing /\ mine' = {}
  /\ lock' = IF lock = "run" THEN "free" ELSE lock
  /\ UNCHANGED <<calendar, person, files, runDay, others, copies, faults, edits>>
-----------------------------------------------------------------------------
(* Around the run. *)

NewDay ==
  /\ today < MaxDay
  /\ today' = today + 1 /\ clock' = "early"
  /\ UNCHANGED <<person, files, lock, run, others, copies, budget>>

DeliveryTime ==
  /\ clock = "early" /\ clock' = "due"
  /\ UNCHANGED <<today, person, files, lock, run, others, copies, budget>>

\* remove_person unlists, then purges the ledger; the journal stays.
Unlist ==
  /\ allowed /\ removal = "idle" /\ edits < MaxEdits /\ edits' = edits + 1
  /\ allowed' = FALSE /\ removal' = "unlisted"
  /\ UNCHANGED <<calendar, files, lock, run, others, copies, crashes, faults>>

Purge ==
  /\ removal = "unlisted" /\ removal' = "idle"
  /\ ledger' = {}
  /\ UNCHANGED <<calendar, allowed, journal, lock, run, others, copies, budget>>

AddPerson ==
  /\ ~allowed /\ removal = "idle" /\ edits < MaxEdits /\ edits' = edits + 1
  /\ allowed' = TRUE
  /\ UNCHANGED <<calendar, removal, files, lock, run, others, copies, crashes, faults>>

\* Test Push at any time, the incremental worker between the runs: both under
\* the delivery lock, both look at the bank last and record what was accepted.
PeerLocks(who) ==
  /\ peer = "away" /\ lock = "free"
  /\ who = "incremental" => pc = "idle"
  /\ lock' = "peer" /\ peer' = who
  /\ UNCHANGED <<calendar, person, files, run, peerListing, copies, budget>>

PeerSends(l) ==
  /\ peer \in {"test", "incremental"} /\ l \notin Bank
  /\ peer' = IF peer = "test" THEN "testSent" ELSE "incrementalSent"
  /\ peerListing' = l
  /\ UNCHANGED <<calendar, person, files, lock, run, copies, budget>>

PeerRecords ==
  /\ peer \in {"testSent", "incrementalSent"}
  /\ ledger' = IF peerListing \in LedgerKeys THEN ledger
               ELSE ledger \cup {LedgerRow(peerListing, today,
                                     IF peer = "testSent" THEN "test" ELSE "incremental")}
  /\ peer' = "away" /\ lock' = "free"
  /\ UNCHANGED <<calendar, person, journal, run, peerListing, copies, budget>>

\* The peer gives up, or dies, before or after the call of Telegram.
PeerLeaves ==
  /\ peer # "away"
  /\ peer' = "away" /\ lock' = "free"
  /\ UNCHANGED <<calendar, person, files, run, peerListing, copies, budget>>
-----------------------------------------------------------------------------
RunStep ==
  \/ \E pool \in Pools : Plan(pool)
  \/ PlanOutage \/ TakeLock \/ Reconcile
  \/ \E m \in Subject : Suppress(m) \/ Prepare(m) \/ Quarantine(m) \/ WriteFails(m)
  \/ Stage
  \/ \E outcome \in {"accepted", "ambiguous", "refused"}, taken \in BOOLEAN : Send(outcome, taken)
  \/ RecordAccepted \/ ReceiptLost \/ RecordOther \/ BankIt \/ EndRun \/ Crash

AroundStep ==
  \/ NewDay \/ DeliveryTime \/ Unlist \/ Purge \/ AddPerson
  \/ \E who \in Peers : PeerLocks(who)
  \/ \E l \in Listing : PeerSends(l)
  \/ PeerRecords \/ PeerLeaves

Next == RunStep \/ AroundStep

Spec == Init /\ [][Next]_vars
-----------------------------------------------------------------------------
(* Properties *)

\* Every variable has its type.
TypeOK ==
  /\ today \in 1..MaxDay /\ clock \in {"early", "due"}
  /\ allowed \in BOOLEAN /\ removal \in {"idle", "unlisted"}
  /\ journal \in [Attempt -> States]
  /\ ledger \in SUBSET Rows
  /\ lock \in {"free", "run", "peer"}
  /\ pc \in {"idle", "planned", "reconcile", "ready", "prepared", "staged",
             "accepted", "ambiguous", "refused", "banking"}
  /\ runDay \in 1..MaxDay
  /\ todo \in SUBSET Subject /\ cur \in Subject \cup {Nothing}
  /\ mine \in SUBSET Attempt
  /\ peer \in {"away", "test", "testSent", "incremental", "incrementalSent"}
  /\ peerListing \in Listing
  /\ copies \in [Attempt -> 0..2]
  /\ crashes \in Nat /\ faults \in Nat /\ edits \in Nat

\* Telegram takes the message of an attempt at most once, whatever crashes and
\* failed appends leave behind (prepare_routine_delivery's quarantine and
\* transition_routine_delivery's table).
OneCopyPerAttempt == \A a \in Attempt : copies[a] <= 1

\* A message on its way to Telegram announces a property that neither file has
\* as delivered: not by an earlier run whose ledger append was lost, not by Test
\* Push or the incremental worker since the plan, not after the recipient was
\* removed and added again (deliver's check under recipient_delivery_lock).
LastLookHolds ==
  pc \in {"prepared", "staged"} /\ cur \in Message
  => Announces[cur] \notin LedgerKeys \cup AcceptedKeys

\* The ledger claims no scheduled delivery the journal does not know as
\* accepted that day (mark_seen "only ever called after a confirmed send").
LedgerIsEarned ==
  \A row \in ledger :
    row.channel = "scheduled" /\ row.key \in Listing
    => \E a \in Attempt : /\ journal[a] = "accepted" /\ a[1] = row.day
                          /\ a[2] \in Message /\ Announces[a[2]] = row.key

\* README.md: a person is only pushed to once per local calendar day.  When a
\* run calls Telegram, everything accepted that day was accepted in that run.
OnePushADay ==
  pc = "staged" => \A a \in Attempt : journal[a] = "accepted" /\ a[1] = runDay => a \in mine

\* An attempt, as the abstract promise sees it.
FateOf(a) ==
  CASE journal[a] \in {"none", "prepared", "failed"} -> "open"
    [] journal[a] = "sending" -> "onWire"
    [] journal[a] = "accepted" -> "delivered"
    [] journal[a] = "uncertain" -> "unknown"

Promise == INSTANCE AlertPromise WITH Row <- Attempt, fate <- [a \in Attempt |-> FateOf(a)]

\* The journal keeps the same promise as the incremental outbox, attempt by
\* attempt: an attempt that may have arrived is never offered again.
KeepsPromise == Promise!Spec

\* deliver_source_outage_notices: "if the source recovers later the same day,
\* the real listings must still be able to go out".  After the outage notice
\* alone, the day is still open.
OutageLeavesDayOpen ==
  /\ journal[<<today, Outage>>] = "accepted"
  /\ \A m \in Message \cup {Notice} : journal[<<today, m>>] # "accepted"
  /\ \A row \in ledger : row.day # today
  => ~SentOn(today)
=============================================================================
