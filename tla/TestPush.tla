------------------------------- MODULE TestPush -------------------------------
(***************************************************************************)
(* One dashboard's Test Push (test_push.py): a preview of cached listings  *)
(* built from what the recipient's files say at that moment, a confirmation*)
(* that may come much later, and a multipart delivery under the recipient's*)
(* delivery lock that looks at the settings and the allowlist again before *)
(* every part and banks each listing of a part once Telegram took it.      *)
(* Recipients puts the people who edit, and the other senders, around it.  *)
(***************************************************************************)
EXTENDS Integers, FiniteSets

CONSTANTS
  Id,            \* Telegram IDs
  Listing,       \* normalized properties
  Person,        \* the people who hold the IDs
  MaxParts,      \* messages of one push
  MaxUpsets,     \* edits, crashes, and failed reads and writes
  MaxTurns,      \* previews, and messages of the other senders
  None

Looks == {"paused", "v1", "v2"}     \* paused, or a name and active preferences
Entries == [who : Person, look : Looks]

ASSUME NoneAssumption == None \notin Id \cup Person \cup Entries
\* The cache is a file.
ASSUME ListingAssumption == IsFiniteSet(Listing)
ASSUME PushBounds == MaxParts \in Nat \ {0} /\ MaxUpsets \in Nat /\ MaxTurns \in Nat

VARIABLES
  entry,         \* the allowlist: what each ID's entry says, or None
  live,          \* live_push_enabled
  ledger,        \* suppressing keys of each ID's seen ledger, within retention
  journal,       \* accepted keys of each ID's delivery journal, within retention
  lock,          \* holder of each ID's delivery lock
  pc, plan,      \* where the push is, and what was previewed
  todo, cur,     \* parts left to send, and the one being sent
  unbanked,      \* listings of an accepted part without a bank row yet
  accepted,      \* len(message_ids)
  result,        \* the status the operator is shown
  told,          \* times a recipient got a listing unasked while a record of it
                 \* exists or is being written (history)
  arrived,       \* parts of this push Telegram took (history)
  since,         \* ... since the recipient last was as previewed (history)
  upsets, turns

files == <<ledger, journal>>
working == <<todo, cur, unbanked>>
push == <<pc, plan, working, accepted, result>>
shared == <<entry, live>>

Pair == Id \X Listing
Statuses == {"success", "partial", "failed", "uncertain"}

NoPlan == [id |-> None, holder |-> None, parts |-> {}, repeat |-> FALSE]

Listed == {i \in Id : entry[i] # None}
\* _active_person
Active(i) == i \in Listed /\ entry[i].look # "paused"
\* active_seen_keys
Bank(i) == ledger[i] \cup journal[i]

\* The recipient and the live flag are what the preview showed.  The preview's
\* fingerprint stands for the ID, the name and the active preferences.
AsPreviewed == live /\ entry[plan.id] = plan.holder

PushInit ==
  /\ live = TRUE
  /\ \E i \in Id, p \in Person :
       entry = [k \in Id |-> IF k = i THEN [who |-> p, look |-> "v1"] ELSE None]
  /\ ledger = [i \in Id |-> {}] /\ journal = [i \in Id |-> {}]
  /\ lock = [i \in Id |-> "free"]
  /\ pc = "idle" /\ plan = NoPlan
  /\ todo = {} /\ cur = {} /\ unbanked = {} /\ accepted = 0
  /\ result = "none"
  /\ told = [p \in Pair |-> 0]
  /\ arrived = 0 /\ since = 0
  /\ upsets = 0 /\ turns = 0
-----------------------------------------------------------------------------
(* Bounds, and bookkeeping of the histories. *)

Upset == upsets < MaxUpsets /\ upsets' = upsets + 1
Turn == turns < MaxTurns /\ turns' = turns + 1

Capped(n) == IF n < 2 THEN n + 1 ELSE n

Tells(i, ls) ==
  told' = [p \in Pair |-> IF p[1] = i /\ p[2] \in ls THEN Capped(told[p]) ELSE told[p]]

\* No file has ls as delivered to i any more, or ever will.
Forgets(i, ls) ==
  told' = [p \in Pair |-> IF p[1] = i /\ p[2] \in ls THEN 0 ELSE told[p]]

\* Parts Telegram took since the recipient last was as previewed.
Watch ==
  since' = IF plan'.id = None \/ AsPreviewed' THEN 0
           ELSE since + (IF arrived' > arrived THEN 1 ELSE 0)
-----------------------------------------------------------------------------
(* The preview and the confirmation. *)

\* _latest_zillow_cache: the listings of the newest compatible cache that match.
Pools == SUBSET Listing

\* The keys a preview offers out of the matching cached listings: unseen ones,
\* or, when there is none, seen ones as an announced repeat.  daily_cap may
\* leave some out.
Offers(i, pool) ==
  LET fresh == pool \ Bank(i)
  IN {ks \in SUBSET (IF fresh # {} THEN fresh ELSE pool) : ks = {} <=> pool = {}}

\* _render_messages: the cards split into parts.  One part may have none, only
\* the searches that nothing matched; more of these would not differ.
Layouts(keys) ==
  {ps \in SUBSET SUBSET keys :
     /\ UNION ps = keys /\ Cardinality(ps) \in 1..MaxParts
     /\ \A p, q \in ps : p # q => p \cap q = {}}

\* prepare_test_push.  Everything that blocks it changes nothing.
Preview(i, pool) ==
  /\ Turn /\ pc = "idle" /\ live /\ Active(i)
  /\ \E keys \in Offers(i, pool) : \E ps \in Layouts(keys) :
       plan' = [id |-> i, holder |-> entry[i], parts |-> ps,
                repeat |-> keys # {} /\ pool \subseteq Bank(i)]
  /\ pc' = "previewed"
  /\ UNCHANGED <<shared, files, lock, working, accepted, result, told, arrived, upsets>>

Rest ==
  /\ pc' = "idle" /\ plan' = NoPlan
  /\ todo' = {} /\ cur' = {} /\ unbanked' = {} /\ accepted' = 0
  /\ result' = "none" /\ arrived' = 0

Cancel ==
  /\ pc = "previewed" /\ Rest
  /\ UNCHANGED <<shared, files, lock, told, upsets, turns>>

Confirm ==
  /\ pc = "previewed" /\ pc' = "confirmed"
  /\ UNCHANGED <<shared, files, lock, plan, working, accepted, result, told, arrived,
                 upsets, turns>>
-----------------------------------------------------------------------------
(* deliver_test_push. *)

\* finish(status): the audit comes next.
Finishes(status) ==
  /\ pc' = "audit" /\ result' = status
  /\ todo' = {} /\ cur' = {} /\ unbanked' = {}

\* No usable bot token any more: nothing is locked or sent.
NoSender ==
  /\ pc = "confirmed" /\ Finishes("failed")
  /\ UNCHANGED <<shared, files, lock, plan, accepted, told, arrived, upsets, turns>>

\* The bank is not what the preview saw: a planned listing was delivered since,
\* or a planned repeat is not on record any more.
HistoryChanged ==
  LET keys == UNION plan.parts
  IN IF plan.repeat THEN ~(keys \subseteq Bank(plan.id)) ELSE keys \cap Bank(plan.id) # {}

\* Mutation: the confirmation trusts the preview.
TakeLockTrusting ==
  /\ pc = "confirmed" /\ lock[plan.id] = "free"
  /\ lock' = [lock EXCEPT ![plan.id] = "push"]
  /\ pc' = "ready" /\ todo' = plan.parts /\ UNCHANGED result
  /\ UNCHANGED <<shared, files, plan, cur, unbanked, accepted, told, arrived, upsets, turns>>

TakeLock ==
  /\ pc = "confirmed" /\ lock[plan.id] = "free"
  /\ lock' = [lock EXCEPT ![plan.id] = "push"]
  /\ \/ HistoryChanged /\ Finishes("failed")
     \/ ~HistoryChanged /\ pc' = "ready" /\ todo' = plan.parts /\ UNCHANGED <<cur, unbanked, result>>
  /\ UNCHANGED <<shared, files, plan, accepted, told, arrived, upsets, turns>>

\* Mutation: only the first part is checked.
CheckFirstOnly(part) ==
  /\ pc = "ready" /\ part \in todo /\ (AsPreviewed \/ accepted > 0)
  /\ pc' = "cleared" /\ cur' = part
  /\ UNCHANGED <<shared, files, lock, plan, todo, unbanked, accepted, result, told, arrived, upsets, turns>>

\* The last look at the settings and the allowlist before a part.
CheckPasses(part) ==
  /\ pc = "ready" /\ part \in todo /\ AsPreviewed
  /\ pc' = "cleared" /\ cur' = part
  /\ UNCHANGED <<shared, files, lock, plan, todo, unbanked, accepted, result, told, arrived, upsets, turns>>

\* Mutation: the sender's own word for a refusal is passed on.
StatusVerbatim == "rejected"

StatusShort == IF accepted > 0 THEN "partial" ELSE "failed"

\* ... stops the push when it changed or a file cannot be read.
CheckStops ==
  /\ pc = "ready"
  /\ IF AsPreviewed THEN Upset ELSE UNCHANGED upsets
  /\ Finishes(StatusShort)
  /\ UNCHANGED <<shared, files, lock, plan, accepted, told, arrived, turns>>

SendAccepted ==
  /\ pc = "cleared" /\ pc' = "banking"
  /\ unbanked' = cur /\ accepted' = accepted + 1 /\ arrived' = arrived + 1
  /\ IF plan.repeat THEN UNCHANGED told ELSE Tells(plan.id, cur)
  /\ UNCHANGED <<shared, files, lock, plan, todo, cur, result, upsets, turns>>

SendRefused ==
  /\ pc = "cleared" /\ Finishes(StatusShort)
  /\ UNCHANGED <<shared, files, lock, plan, accepted, told, arrived, upsets, turns>>

\* Mutation: an answer that proves nothing counts as a refusal.
SendAmbiguousAsRefused(taken) ==
  /\ pc = "cleared"
  /\ Finishes(StatusShort)
  /\ arrived' = arrived + (IF taken THEN 1 ELSE 0)
  /\ UNCHANGED <<shared, files, lock, plan, accepted, told, upsets, turns>>

\* A timeout, or an answer without a verifiable receipt.
SendAmbiguous(taken) ==
  /\ pc = "cleared"
  /\ Finishes(IF accepted > 0 THEN "partial" ELSE "uncertain")
  /\ arrived' = arrived + (IF taken THEN 1 ELSE 0)
  /\ UNCHANGED <<shared, files, lock, plan, accepted, told, upsets, turns>>

\* record_delivery.  A repeat's row is kept for the audit only.
BankOne(l) ==
  /\ pc = "banking" /\ l \in unbanked
  /\ plan.repeat \/ l \notin ledger[plan.id]
  /\ ledger' = IF plan.repeat THEN ledger ELSE [ledger EXCEPT ![plan.id] = @ \cup {l}]
  /\ unbanked' = unbanked \ {l}
  /\ UNCHANGED <<shared, journal, lock, pc, plan, todo, cur, accepted, result, told, arrived, upsets, turns>>

\* The append fails, or finds the key already there: the rest of the part stays
\* without a row.
BankFails ==
  /\ pc = "banking" /\ unbanked # {}
  /\ IF plan.repeat \/ unbanked \cap ledger[plan.id] = {} THEN Upset ELSE UNCHANGED upsets
  /\ Finishes(IF accepted < Cardinality(plan.parts) THEN "partial" ELSE "uncertain")
  /\ IF plan.repeat THEN UNCHANGED told ELSE Forgets(plan.id, unbanked \ Bank(plan.id))
  /\ UNCHANGED <<shared, files, lock, plan, accepted, arrived, turns>>

FreeLock == [i \in Id |-> IF lock[i] = "push" THEN "free" ELSE lock[i]]

\* The next part, or the end of the plan, where the lock is let go before the
\* success is recorded.
PartBanked ==
  /\ pc = "banking" /\ unbanked = {}
  /\ IF todo = {cur} THEN Finishes("success") /\ lock' = FreeLock
     ELSE /\ pc' = "ready" /\ todo' = todo \ {cur} /\ cur' = {}
          /\ UNCHANGED <<unbanked, result, lock>>
  /\ UNCHANGED <<shared, files, plan, accepted, told, arrived, upsets, turns>>

\* _audited: without its record a success is not claimed.  Everything but a
\* success is recorded under the lock, which is let go here.
Audit ==
  /\ pc = "audit" /\ pc' = "done"
  /\ lock' = FreeLock
  /\ \/ UNCHANGED <<result, upsets>>
     \/ /\ Upset
        /\ result' = IF result = "success" THEN "uncertain" ELSE result
  /\ UNCHANGED <<shared, files, plan, working, accepted, told, arrived, turns>>

\* The operator has read the status.
Close ==
  /\ pc = "done" /\ Rest
  /\ UNCHANGED <<shared, files, lock, told, upsets, turns>>

\* The dashboard dies, or an error leaves deliver_test_push before a status is
\* known; either frees the lock.
PushCrash ==
  /\ pc # "idle" /\ Upset
  /\ Rest
  /\ lock' = FreeLock
  /\ IF pc = "banking" /\ ~plan.repeat THEN Forgets(plan.id, unbanked \ Bank(plan.id))
     ELSE UNCHANGED told
  /\ UNCHANGED <<shared, files, turns>>
-----------------------------------------------------------------------------
PushStep ==
  \/ \E i \in Id, pool \in Pools : Preview(i, pool)
  \/ Cancel \/ Confirm \/ NoSender \/ TakeLock
  \/ \E part \in SUBSET Listing : CheckPasses(part)
  \/ CheckStops \/ SendAccepted \/ SendRefused
  \/ \E taken \in BOOLEAN : SendAmbiguous(taken)
  \/ \E l \in Listing : BankOne(l)
  \/ BankFails \/ PartBanked \/ Audit \/ Close \/ PushCrash
-----------------------------------------------------------------------------
(* Properties *)

\* What the operator reads at the end is what happened: "failed" may simply be
\* pressed again, for Telegram took nothing of this push; "partial" means it
\* took something; "success" means it took every part, each with a receipt, and
\* no listing of it is left without a row (deliver_test_push's status rules).
StatusIsHonest ==
  pc = "done" =>
    /\ result = "failed" => arrived = 0
    /\ result = "partial" => arrived > 0
    /\ result = "success" =>
         arrived = Cardinality(plan.parts) /\ accepted = arrived

\* Once the recipient is paused, edited, moved or removed, or live delivery is
\* switched off, at most the part already on its way leaves.
EditsStopThePush == since <= 1

\* A recipient is not sent a listing that a file of theirs has as delivered, or
\* that another sender is about to record, unless the push was announced as a
\* repeat (the bank check under recipient_delivery_lock).
RepeatsAreForgotten == \A p \in Pair : told[p] <= 1
=============================================================================
