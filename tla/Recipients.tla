------------------------------ MODULE Recipients ------------------------------
(***************************************************************************)
(* The allowlist and its recipients over time: the owner adds, pauses and  *)
(* removes people and corrects their Telegram IDs (controller.py).  The    *)
(* last two are sequences of separate writes, to the outbox, the           *)
(* allowlist, the settings and the recipient's files, that a crash may     *)
(* cut, while a Test Push is in progress and the daily path and the        *)
(* incremental worker send to the same IDs.  These sequences come one at a *)
(* time, for one dashboard makes them; everything else may come between    *)
(* their steps.                                                            *)
(***************************************************************************)
EXTENDS TestPush

VARIABLES
  canary,        \* incremental_canary_telegram_ids
  adm,           \* the change the owner has in progress
  purging,       \* IDs whose ledger it still has to remove
  peer,          \* the daily path or the incremental worker
  enrolled,      \* people the owner chose as canaries (history)
  cut            \* an ID correction was cut short since that choice (history)

member == <<canary, enrolled, cut>>
change == <<adm, purging>>
owner == <<member, change>>
calm == <<shared, files, lock, push, told, arrived, turns>>
pushVars == <<calm, upsets>>
vars == <<pushVars, since, owner, peer>>

Away == [at |-> "away", path |-> "none", id |-> None, listing |-> None]
NoChange == [at |-> "idle", from |-> None, to |-> None]

Init ==
  /\ PushInit
  /\ canary \in {{}, Listed}
  /\ enrolled = {entry[i].who : i \in canary} /\ cut = FALSE
  /\ adm = NoChange /\ purging = {}
  /\ peer = Away
-----------------------------------------------------------------------------
(* One-step changes. *)

\* add_person: a profile without searches.
Add(i, p) ==
  /\ Upset /\ entry[i] = None
  /\ \A k \in Listed : entry[k].who # p
  /\ entry' = [entry EXCEPT ![i] = [who |-> p, look |-> "paused"]]
  /\ UNCHANGED <<live, files, lock, push, told, arrived, turns, member, change, peer>>

\* set_person_active, the profile and search forms, a new display name.
Edit(i, look) ==
  /\ Upset /\ i \in Listed /\ entry[i].look # look
  /\ entry' = [entry EXCEPT ![i].look = look]
  /\ UNCHANGED <<live, files, lock, push, told, arrived, turns, member, change, peer>>

\* The Config form's live switch.
Switch ==
  /\ Upset /\ live' = ~live
  /\ UNCHANGED <<entry, files, lock, push, told, arrived, turns, member, change, peer>>

\* update_incremental_settings: canaries are chosen among the listed IDs.  (The
\* code looks at the allowlist before it locks the settings; here no member
\* change comes in between.)
ChooseCanaries(ids) ==
  /\ Upset /\ adm = NoChange /\ ids \subseteq Listed
  /\ canary' = ids /\ enrolled' = {entry[i].who : i \in ids} /\ cut' = FALSE
  /\ UNCHANGED <<calm, change, peer>>

\* The retention window of a delivery ends: not while something is sent, which
\* takes seconds of its ninety days.
Expire(i, l) ==
  /\ Upset /\ l \in Bank(i) /\ lock[i] = "free"
  /\ ledger' = [ledger EXCEPT ![i] = @ \ {l}]
  /\ journal' = [journal EXCEPT ![i] = @ \ {l}]
  /\ Forgets(i, {l})
  /\ UNCHANGED <<shared, lock, push, arrived, turns, member, change, peer>>
-----------------------------------------------------------------------------
(* update_person with a new ID: cancel, rename, remap, purge. *)

\* The ID's alerts are cancelled first, in the outbox (DeliveryWorker).
ChangeId(i, j) ==
  /\ Upset /\ adm = NoChange
  /\ i \in Listed /\ j \notin Listed /\ i # j
  /\ adm' = [at |-> "rename", from |-> i, to |-> j]
  /\ UNCHANGED <<calm, canary, enrolled, cut, purging, peer>>

\* The allowlist is written unless the new ID was added meanwhile.
Rename ==
  /\ adm.at = "rename"
  /\ IF adm.to \in Listed THEN adm' = NoChange /\ UNCHANGED entry
     ELSE /\ entry' = [entry EXCEPT ![adm.to] = entry[adm.from], ![adm.from] = None]
          /\ adm' = [adm EXCEPT !.at = "remap"]
  /\ UNCHANGED <<live, files, lock, push, told, arrived, upsets, turns, member, purging, peer>>

\* Mutation: the canary list is left alone.
RemapNothing ==
  /\ adm.at = "remap"
  /\ adm' = [adm EXCEPT !.at = "purge"] /\ purging' = {adm.from, adm.to}
  /\ UNCHANGED <<pushVars, member, peer>>

Remap ==
  /\ adm.at = "remap"
  /\ canary' = IF adm.from \in canary THEN (canary \ {adm.from}) \cup {adm.to} ELSE canary
  /\ adm' = [adm EXCEPT !.at = "purge"] /\ purging' = {adm.from, adm.to}
  /\ UNCHANGED <<pushVars, enrolled, cut, peer>>

(* remove_person: cancel, take off the canary list, unlist, purge. *)

\* Here too the outbox comes first.
Remove(i) ==
  /\ Upset /\ adm = NoChange /\ i \in Listed
  /\ adm' = [at |-> "uncanary", from |-> i, to |-> None]
  /\ UNCHANGED <<calm, canary, enrolled, cut, purging, peer>>

Uncanary ==
  /\ adm.at = "uncanary"
  /\ canary' = canary \ {adm.from} /\ enrolled' = enrolled \ {entry[adm.from].who}
  /\ adm' = [adm EXCEPT !.at = "unlist"]
  /\ UNCHANGED <<pushVars, cut, purging, peer>>

Unlist ==
  /\ adm.at = "unlist"
  /\ entry' = [entry EXCEPT ![adm.from] = None]
  /\ adm' = [adm EXCEPT !.at = "purge"] /\ purging' = {adm.from}
  /\ UNCHANGED <<live, files, lock, push, told, arrived, upsets, turns, member, peer>>

\* What a sender has sent to i and is about to record.
InFlight(i) ==
  (IF pc = "banking" /\ plan.id = i /\ ~plan.repeat THEN unbanked ELSE {})
    \cup (IF peer.at = "sent" /\ peer.id = i THEN {peer.listing} ELSE {})

\* purge_seen_ledgers, one file at a time; the journal stays.
Purge(i) ==
  /\ adm.at = "purge" /\ i \in purging
  /\ ledger' = [ledger EXCEPT ![i] = {}]
  /\ Forgets(i, Listing \ (journal[i] \cup InFlight(i)))
  /\ purging' = purging \ {i}
  /\ adm' = IF purging = {i} THEN NoChange ELSE adm
  /\ UNCHANGED <<shared, journal, lock, push, arrived, upsets, turns, member, peer>>

\* The process that makes the change dies between two of its writes.
ChangeCrash ==
  /\ adm # NoChange /\ Upset
  /\ adm' = NoChange /\ purging' = {}
  /\ cut' = (cut \/ adm.at = "remap")
  /\ UNCHANGED <<shared, files, lock, push, told, arrived, turns, canary, enrolled, peer>>
-----------------------------------------------------------------------------
(* The other senders, as far as the recipients' files see them. *)

MaySend(path, i) == Active(i) /\ (path = "incremental" => i \in canary)

\* The last look before a message, under the recipient's delivery lock.
PeerClears(path, i, l) ==
  /\ Turn /\ peer = Away /\ lock[i] = "free" /\ lock' = [lock EXCEPT ![i] = "peer"]
  /\ MaySend(path, i) /\ l \notin Bank(i)
  /\ peer' = [at |-> "cleared", path |-> path, id |-> i, listing |-> l]
  /\ UNCHANGED <<shared, files, push, told, arrived, upsets, owner>>

PeerSends ==
  /\ peer.at = "cleared" /\ peer' = [peer EXCEPT !.at = "sent"]
  /\ Tells(peer.id, {peer.listing})
  /\ UNCHANGED <<shared, files, lock, push, arrived, upsets, turns, owner>>

\* The daily path logs the receipt in the journal first.
PeerLogs ==
  /\ peer.at = "sent" /\ peer.path = "daily" /\ peer' = [peer EXCEPT !.at = "logged"]
  /\ journal' = [journal EXCEPT ![peer.id] = @ \cup {peer.listing}]
  /\ UNCHANGED <<shared, ledger, lock, push, told, arrived, upsets, turns, owner>>

FreePeerLock == [i \in Id |-> IF lock[i] = "peer" THEN "free" ELSE lock[i]]

PeerBanks ==
  /\ peer.at = IF peer.path = "daily" THEN "logged" ELSE "sent"
  /\ ledger' = [ledger EXCEPT ![peer.id] = @ \cup {peer.listing}]
  /\ lock' = FreePeerLock /\ peer' = Away
  /\ UNCHANGED <<shared, journal, push, told, arrived, upsets, turns, canary, enrolled, cut, change>>

\* It gives up, or dies; what it sent and did not record is forgotten.
PeerLeaves ==
  /\ peer # Away /\ peer' = Away /\ lock' = FreePeerLock
  /\ IF peer.at = "sent" THEN Forgets(peer.id, {peer.listing} \ Bank(peer.id)) ELSE UNCHANGED told
  /\ UNCHANGED <<shared, files, push, arrived, upsets, turns, owner>>
-----------------------------------------------------------------------------
OwnerStep ==
  \/ \E i \in Id : \/ \E p \in Person : Add(i, p)
                   \/ \E look \in Looks : Edit(i, look)
                   \/ \E l \in Listing : Expire(i, l)
                   \/ \E j \in Id : ChangeId(i, j)
                   \/ Remove(i) \/ Purge(i)
  \/ Switch
  \/ \E ids \in SUBSET Id : ChooseCanaries(ids)
  \/ Rename \/ Remap \/ Uncanary \/ Unlist \/ ChangeCrash

PeerStep ==
  \/ \E path \in {"daily", "incremental"}, i \in Id, l \in Listing : PeerClears(path, i, l)
  \/ PeerSends \/ PeerLogs \/ PeerBanks \/ PeerLeaves

Next ==
  /\ \/ PushStep /\ UNCHANGED <<owner, peer>>
     \/ OwnerStep
     \/ PeerStep
  /\ Watch

Spec == Init /\ [][Next]_vars
-----------------------------------------------------------------------------
(* Properties *)

\* Every variable has its type.
TypeOK ==
  /\ entry \in [Id -> Entries \cup {None}] /\ live \in BOOLEAN
  /\ ledger \in [Id -> SUBSET Listing] /\ journal \in [Id -> SUBSET Listing]
  /\ lock \in [Id -> {"free", "push", "peer"}]
  /\ pc \in {"idle", "previewed", "confirmed", "ready", "cleared", "banking", "audit", "done"}
  /\ plan = NoPlan \/ plan \in [id : Id, holder : Entries, parts : SUBSET SUBSET Listing,
                                repeat : BOOLEAN]
  /\ todo \subseteq plan.parts /\ cur \subseteq Listing /\ unbanked \subseteq cur
  /\ accepted \in 0..MaxParts /\ arrived \in 0..MaxParts /\ since \in 0..MaxParts
  /\ result \in Statuses \cup {"none"}
  /\ told \in [Pair -> 0..2]
  /\ canary \subseteq Id /\ enrolled \subseteq Person /\ cut \in BOOLEAN
  /\ adm.at \in {"idle", "rename", "remap", "uncanary", "unlist", "purge"}
  /\ purging \subseteq Id
  /\ peer.at \in {"away", "cleared", "sent", "logged"}
  /\ upsets \in 0..MaxUpsets
  /\ turns \in 0..MaxTurns

\* The canary list names the people the owner chose, whatever IDs they have
\* been given since and whoever has their old ones: an ID correction takes the
\* membership along, a removal ends it before anyone else can get the ID, cut
\* short or not.  (An ID correction that a crash cuts between the allowlist and
\* the settings leaves the membership with the old ID.)
EnrolmentFollowsThePerson ==
  \/ cut \/ adm.at = "remap"
  \/ /\ canary \subseteq Listed
     /\ \A i \in Listed : i \in canary <=> entry[i].who \in enrolled
=============================================================================
