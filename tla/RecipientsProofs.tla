--------------------------- MODULE RecipientsProofs ---------------------------
(***************************************************************************)
(* Proofs about Recipients, for any people, IDs, listings and bounds.      *)
(* Inv has four parts: the shape of a push in progress with the account of *)
(* its parts, the moment of the last look, the two users of a recipient's  *)
(* delivery lock, and what the recipient's files must hold for every       *)
(* listing told.                                                           *)
(***************************************************************************)
EXTENDS Recipients, TLAPS, FiniteSetTheorems

Points == {"idle", "previewed", "confirmed", "ready", "cleared", "banking", "audit", "done"}

\* A push in progress has disjoint parts, and is at one of those left.
Shape ==
  /\ pc \in Points
  /\ accepted \in Nat /\ arrived \in Nat
  /\ pc # "idle" =>
       /\ plan.id \in Id
       /\ plan.parts \subseteq SUBSET Listing /\ IsFiniteSet(plan.parts)
       /\ \A p, q \in plan.parts : p # q => p \cap q = {}
  /\ pc \in {"ready", "cleared", "banking"} => todo \subseteq plan.parts
  /\ pc \in {"cleared", "banking"} => cur \in todo
  /\ pc = "banking" => unbanked \subseteq cur

\* Until something goes wrong every part Telegram took has its receipt, and no
\* part is left out or sent twice.
Account ==
  /\ pc \in {"idle", "previewed", "confirmed"} => arrived = 0 /\ accepted = 0
  /\ pc \in {"ready", "cleared", "banking"} => arrived = accepted
  /\ pc \in {"ready", "cleared"} => accepted + Cardinality(todo) = Cardinality(plan.parts)
  /\ pc = "banking" => /\ accepted + Cardinality(todo) = Cardinality(plan.parts) + 1
                       /\ accepted > 0
  /\ pc \in {"audit", "done"} =>
       /\ result = "failed" => arrived = 0
       /\ result = "partial" => arrived > 0
       /\ result = "success" => arrived = Cardinality(plan.parts) /\ accepted = arrived

\* A part that passed the last look has nothing before it that should not have left.
LastLook ==
  /\ since \in {0, 1}
  /\ pc = "cleared" => since = 0

Peers == [at : {"cleared", "sent", "logged"}, path : {"daily", "incremental"}, id : Id,
          listing : Listing]

\* Never two senders at one recipient.
Locks ==
  /\ lock \in [Id -> {"free", "push", "peer"}]
  /\ pc \in {"ready", "cleared", "banking"} => lock[plan.id] = "push"
  /\ peer # Away => peer \in Peers /\ lock[peer.id] = "peer"

\* The listings the push has not begun to send.
Ahead ==
  IF pc \in {"ready", "cleared"} THEN UNION todo
  ELSE IF pc = "banking" THEN UNION (todo \ {cur}) ELSE {}

\* What a recipient was told is on file or about to be; what a sender is about
\* to send is not on file.
Records ==
  /\ ledger \in [Id -> SUBSET Listing] /\ journal \in [Id -> SUBSET Listing]
  /\ told \in [Pair -> {0, 1}]
  /\ \A i \in Id, l \in Listing : told[<<i, l>>] = 1 => l \in Bank(i) \cup InFlight(i)
  /\ ~plan.repeat => Ahead \cap Bank(plan.id) = {}
  /\ peer.at = "cleared" => peer.listing \notin Bank(peer.id)

Inv == Shape /\ Account /\ LastLook /\ Locks /\ Records
-----------------------------------------------------------------------------
(* The push's own steps. *)

LEMMA OthersLeaveThePush ==
  ASSUME OwnerStep \/ PeerStep
  PROVE  UNCHANGED <<push, arrived>>
<1>1. CASE OwnerStep
  BY <1>1 DEF OwnerStep, Add, Edit, Expire, ChangeId, Remove, Purge, Switch, ChooseCanaries,
       Rename, Remap, Uncanary, Unlist, ChangeCrash, calm, pushVars
<1>2. CASE PeerStep
  BY <1>2 DEF PeerStep, PeerClears, PeerSends, PeerLogs, PeerBanks, PeerLeaves
<1> QED
  BY <1>1, <1>2

LEMMA LayoutsAreParts ==
  ASSUME NEW i \in Id, NEW pool \in Pools, NEW keys \in Offers(i, pool),
         NEW ps \in Layouts(keys)
  PROVE  /\ ps \subseteq SUBSET Listing /\ IsFiniteSet(ps)
         /\ \A p, q \in ps : p # q => p \cap q = {}
<1>1. keys \subseteq Listing
  BY DEF Offers, Pools
<1>2. ps \subseteq SUBSET Listing /\ \A p, q \in ps : p # q => p \cap q = {}
  BY <1>1 DEF Layouts
<1>3. IsFiniteSet(SUBSET Listing)
  BY FS_SUBSET, ListingAssumption
<1> QED
  BY <1>2, <1>3, FS_Subset

LEMMA ShapeInit ==
  ASSUME PushInit
  PROVE  Shape /\ Account
BY DEF PushInit, Shape, Account, Points

LEMMA ShapePush ==
  ASSUME Shape, Account, PushStep
  PROVE  Shape' /\ Account'
<1> USE DEF Shape, Points, Account, working
<1>1. ASSUME NEW i \in Id, NEW pool \in Pools, Preview(i, pool)
      PROVE  Shape' /\ Account'
  <2>1. PICK keys \in Offers(i, pool) : \E ps \in Layouts(keys) :
          plan' = [id |-> i, holder |-> entry[i], parts |-> ps,
                   repeat |-> keys # {} /\ pool \subseteq Bank(i)]
    BY <1>1 DEF Preview
  <2>2. PICK ps \in Layouts(keys) :
          plan' = [id |-> i, holder |-> entry[i], parts |-> ps,
                   repeat |-> keys # {} /\ pool \subseteq Bank(i)]
    BY <2>1
  <2>3. plan'.id = i /\ plan'.parts = ps
    BY <2>2
  <2>4. /\ plan'.parts \subseteq SUBSET Listing /\ IsFiniteSet(plan'.parts)
        /\ \A p, q \in plan'.parts : p # q => p \cap q = {}
    BY <2>3, LayoutsAreParts
  <2>5. pc = "idle" /\ pc' = "previewed" /\ UNCHANGED <<working, accepted, arrived>>
    BY <1>1 DEF Preview
  <2>6. accepted = 0 /\ arrived = 0
    BY <2>5
  <2> QED
    BY <2>3, <2>4, <2>5, <2>6
<1>2. CASE Cancel \/ Close \/ PushCrash
  BY <1>2 DEF Cancel, Close, PushCrash, Rest
<1>3. CASE Confirm
  BY <1>3 DEF Confirm
<1>4. CASE NoSender
  BY <1>4 DEF NoSender, Finishes
<1>5. CASE TakeLock
  <2>1. Cardinality(plan.parts) \in Nat
    BY <1>5, FS_CardinalityType DEF TakeLock
  <2>2. CASE HistoryChanged
    BY <1>5, <2>2 DEF TakeLock, Finishes
  <2>3. CASE ~HistoryChanged
    BY <1>5, <2>1, <2>3 DEF TakeLock
  <2> QED
    BY <2>2, <2>3
<1>6. ASSUME NEW part \in SUBSET Listing, CheckPasses(part)
      PROVE  Shape' /\ Account'
  BY <1>6 DEF CheckPasses
<1>7. CASE CheckStops
  BY <1>7 DEF CheckStops, Finishes, StatusShort
<1>8. CASE SendAccepted
  <2>1. Cardinality(todo) \in Nat /\ Cardinality(plan.parts) \in Nat
    BY <1>8, FS_Subset, FS_CardinalityType DEF SendAccepted
  <2> QED
    BY <1>8, <2>1 DEF SendAccepted
<1>9. CASE SendRefused
  BY <1>9 DEF SendRefused, Finishes, StatusShort
<1>10. ASSUME NEW taken \in BOOLEAN, SendAmbiguous(taken)
       PROVE  Shape' /\ Account'
  BY <1>10 DEF SendAmbiguous, Finishes
<1>11. ASSUME NEW l \in Listing, BankOne(l)
       PROVE  Shape' /\ Account'
  BY <1>11 DEF BankOne
<1>12. CASE BankFails
  BY <1>12 DEF BankFails, Finishes
<1>13. CASE PartBanked
  <2>1. IsFiniteSet(todo) /\ cur \in todo
    BY <1>13, FS_Subset DEF PartBanked
  <2>2. Cardinality(todo \ {cur}) = Cardinality(todo) - 1 /\ Cardinality(todo) \in Nat
    BY <2>1, FS_RemoveElement, FS_CardinalityType
  <2>3. Cardinality(plan.parts) \in Nat
    BY <1>13, FS_CardinalityType DEF PartBanked
  <2>4. CASE todo = {cur}
    <3>1. Cardinality(todo) = 1
      BY <2>4, FS_Singleton
    <3> QED
      BY <1>13, <2>3, <2>4, <3>1 DEF PartBanked, Finishes
  <2>5. CASE todo # {cur}
    <3>1. /\ pc = "banking" /\ pc' = "ready" /\ todo' = todo \ {cur}
          /\ UNCHANGED <<plan, accepted, arrived>>
      BY <1>13, <2>5 DEF PartBanked
    <3>2. Shape'
      BY <3>1
    <3>3. accepted' + Cardinality(todo') = Cardinality(plan'.parts)
      BY <2>2, <2>3, <3>1
    <3> QED
      BY <3>1, <3>2, <3>3
  <2> QED
    BY <2>4, <2>5
<1>14. CASE Audit
  BY <1>14 DEF Audit
<1> QED
  BY <1>1, <1>2, <1>3, <1>4, <1>5, <1>6, <1>7, <1>8, <1>9, <1>10, <1>11, <1>12, <1>13, <1>14
     DEF PushStep

LEMMA ShapeStep ==
  ASSUME Shape, Account, [Next]_vars
  PROVE  Shape' /\ Account'
<1>1. CASE PushStep
  BY <1>1, ShapePush
<1>2. CASE OwnerStep \/ PeerStep
  BY <1>2, OthersLeaveThePush DEF Shape, Account, push, working
<1>3. CASE UNCHANGED vars
  BY <1>3 DEF Shape, Account, vars, pushVars, calm, push, working
<1> QED
  BY <1>1, <1>2, <1>3 DEF Next

\* Only a send makes arrived grow, and only the last look leads to one.
LEMMA LastLookStep ==
  ASSUME Shape, LastLook, [Next]_vars
  PROVE  LastLook'
<1>1. CASE UNCHANGED vars
  BY <1>1 DEF LastLook, vars, pushVars, calm, push
<1>2. CASE Next
  <2>1. Watch /\ since \in {0, 1} /\ arrived \in Nat
    BY <1>2 DEF Next, Shape, LastLook
  <2>2. CASE SendAccepted
    <3>1. since = 0 /\ pc' # "cleared"
      BY <2>2 DEF SendAccepted, LastLook
    <3> QED
      BY <2>1, <3>1 DEF Watch, LastLook
  <2>3. ASSUME NEW taken \in BOOLEAN, SendAmbiguous(taken)
        PROVE  LastLook'
    <3>1. since = 0 /\ pc' # "cleared"
      BY <2>3 DEF SendAmbiguous, Finishes, LastLook
    <3> QED
      BY <2>1, <3>1 DEF Watch, LastLook
  <2>4. ASSUME NEW part \in SUBSET Listing, CheckPasses(part)
        PROVE  LastLook'
    <3>1. AsPreviewed'
      BY <2>4 DEF CheckPasses, AsPreviewed, shared
    <3> QED
      BY <2>1, <3>1 DEF Watch, LastLook
  <2>5. CASE Cancel \/ Close \/ PushCrash
    <3>1. arrived' = 0 /\ pc' = "idle"
      BY <2>5 DEF Cancel, Close, PushCrash, Rest
    <3> QED
      BY <2>1, <3>1 DEF Watch, LastLook
  <2>6. ASSUME NEW i \in Id, NEW pool \in Pools, Preview(i, pool)
        PROVE  LastLook'
    <3>1. arrived' = arrived /\ pc' # "cleared"
      BY <2>6 DEF Preview
    <3> QED
      BY <2>1, <3>1 DEF Watch, LastLook
  <2>7. ASSUME NEW l \in Listing, BankOne(l)
        PROVE  LastLook'
    <3>1. arrived' = arrived /\ pc' # "cleared"
      BY <2>7 DEF BankOne
    <3> QED
      BY <2>1, <3>1 DEF Watch, LastLook
  <2>8. CASE \/ Confirm \/ NoSender \/ TakeLock \/ CheckStops \/ SendRefused
            \/ BankFails \/ PartBanked \/ Audit
    <3>1. arrived' = arrived /\ pc' # "cleared"
      BY <2>8 DEF Confirm, NoSender, TakeLock, CheckStops, SendRefused, BankFails, PartBanked,
           Audit, Finishes
    <3> QED
      BY <2>1, <3>1 DEF Watch, LastLook
  <2>9. CASE OwnerStep \/ PeerStep
    <3>1. arrived' = arrived /\ pc' = pc
      BY <2>9, OthersLeaveThePush DEF push
    <3> QED
      BY <2>1, <3>1 DEF Watch, LastLook
  <2>10. PushStep \/ OwnerStep \/ PeerStep
    BY <1>2 DEF Next
  <2> QED
    BY <2>2, <2>3, <2>4, <2>5, <2>6, <2>7, <2>8, <2>9, <2>10 DEF PushStep
<1> QED
  BY <1>1, <1>2
-----------------------------------------------------------------------------
(* The delivery locks. *)

\* The push lets go of its own lock and of no other.
LEMMA LockFreed ==
  ASSUME Locks
  PROVE  /\ FreeLock \in [Id -> {"free", "push", "peer"}]
         /\ peer # Away => FreeLock[peer.id] = "peer"
BY DEF FreeLock, Locks, Peers

LEMMA LocksStep ==
  ASSUME Shape, Locks, [Next]_vars
  PROVE  Locks'
<1>1. CASE UNCHANGED vars
  BY <1>1 DEF Locks, vars, pushVars, calm, push
<1>2. CASE PushStep /\ UNCHANGED <<owner, peer>>
  <2>1. CASE TakeLock
    BY <1>2, <2>1 DEF TakeLock, Finishes, Locks, Shape, Peers, Away
  <2>2. CASE Audit \/ PushCrash
    <3>1. pc' \in {"idle", "done"} /\ lock' = FreeLock /\ peer' = peer
      BY <1>2, <2>2 DEF Audit, PushCrash, Rest
    <3> QED
      BY <3>1, LockFreed DEF Locks
  <2>3. CASE Cancel \/ Close
    BY <1>2, <2>3 DEF Cancel, Close, Rest, Locks
  <2>4. ASSUME NEW i \in Id, NEW pool \in Pools, Preview(i, pool)
        PROVE  Locks'
    BY <1>2, <2>4 DEF Preview, Locks
  <2>5. CASE Confirm \/ NoSender
    BY <1>2, <2>5 DEF Confirm, NoSender, Finishes, Locks
  <2>6. ASSUME NEW part \in SUBSET Listing, CheckPasses(part)
        PROVE  Locks'
    BY <1>2, <2>6 DEF CheckPasses, Locks
  <2>7. ASSUME NEW taken \in BOOLEAN, SendAmbiguous(taken)
        PROVE  Locks'
    BY <1>2, <2>7 DEF SendAmbiguous, Finishes, Locks
  <2>8. ASSUME NEW l \in Listing, BankOne(l)
        PROVE  Locks'
    BY <1>2, <2>8 DEF BankOne, Locks
  <2>9. CASE CheckStops \/ SendAccepted \/ SendRefused \/ BankFails
    BY <1>2, <2>9 DEF CheckStops, SendAccepted, SendRefused, BankFails, Finishes, Locks
  <2>10. CASE PartBanked /\ todo = {cur}
    <3>1. pc' = "audit" /\ lock' = FreeLock /\ peer' = peer
      BY <1>2, <2>10 DEF PartBanked, Finishes
    <3> QED
      BY <3>1, LockFreed DEF Locks
  <2>11. CASE PartBanked /\ todo # {cur}
    BY <1>2, <2>11 DEF PartBanked, Locks
  <2> QED
    BY <1>2, <2>1, <2>2, <2>3, <2>4, <2>5, <2>6, <2>7, <2>8, <2>9, <2>10, <2>11 DEF PushStep
<1>3. CASE OwnerStep
  BY <1>3 DEF OwnerStep, Add, Edit, Expire, ChangeId, Remove, Purge, Switch, ChooseCanaries,
       Rename, Remap, Uncanary, Unlist, ChangeCrash, calm, pushVars, push, Locks
<1>4. CASE PeerStep
  <2>1. ASSUME NEW path \in {"daily", "incremental"}, NEW i \in Id, NEW l \in Listing,
               PeerClears(path, i, l)
        PROVE  Locks'
    BY <2>1 DEF PeerClears, push, Locks, Peers, Shape
  <2>2. CASE PeerSends \/ PeerLogs
    BY <2>2 DEF PeerSends, PeerLogs, push, Locks, Peers, Away
  <2>3. CASE PeerBanks \/ PeerLeaves
    <3>1. peer' = Away /\ lock' = FreePeerLock /\ UNCHANGED push
      BY <2>3 DEF PeerBanks, PeerLeaves
    <3>2. FreePeerLock \in [Id -> {"free", "push", "peer"}]
      BY DEF FreePeerLock, Locks
    <3>3. pc \in {"ready", "cleared", "banking"} => FreePeerLock[plan.id] = "push"
      BY DEF FreePeerLock, Locks, Shape
    <3> QED
      BY <3>1, <3>2, <3>3 DEF Locks, push
  <2> QED
    BY <1>4, <2>1, <2>2, <2>3 DEF PeerStep
<1> QED
  BY <1>1, <1>2, <1>3, <1>4 DEF Next
-----------------------------------------------------------------------------
(* The files and what was told. *)

LEMMA ForgetsOnly ==
  ASSUME told \in [Pair -> {0, 1}], NEW i, NEW ls, Forgets(i, ls)
  PROVE  /\ told' \in [Pair -> {0, 1}]
         /\ \A k \in Id, l \in Listing :
              told'[<<k, l>>] = IF k = i /\ l \in ls THEN 0 ELSE told[<<k, l>>]
BY DEF Forgets, Pair

LEMMA TellsOnly ==
  ASSUME told \in [Pair -> {0, 1}], NEW i \in Id, NEW ls \in SUBSET Listing, Tells(i, ls),
         \A l \in ls : told[<<i, l>>] = 0
  PROVE  /\ told' \in [Pair -> {0, 1}]
         /\ \A k \in Id, l \in Listing :
              told'[<<k, l>>] = IF k = i /\ l \in ls THEN 1 ELSE told[<<k, l>>]
<1>1. \A p \in Pair : p[1] = i /\ p[2] \in ls => told[p] = 0
  BY DEF Pair
<1>2. told' = [p \in Pair |-> IF p[1] = i /\ p[2] \in ls THEN 1 ELSE told[p]]
  BY <1>1 DEF Tells, Capped
<1> QED
  BY <1>2 DEF Pair

\* A step that leaves the files and what was told alone, and does not begin or
\* end the recording of a part.
LEMMA RecordsStay ==
  ASSUME Records, UNCHANGED <<ledger, journal, told, peer>>,
         \/ pc # "banking" /\ pc' # "banking"
         \/ UNCHANGED <<pc, plan, unbanked>>,
         ~plan'.repeat => Ahead' \cap Bank(plan'.id) = {}
  PROVE  Records'
<1>1. \A i : InFlight(i)' = InFlight(i) /\ Bank(i)' = Bank(i)
  BY DEF InFlight, Bank
<1> QED
  BY <1>1 DEF Records, Bank

LEMMA RecordsPush ==
  ASSUME Shape, Locks, Records, PushStep, UNCHANGED peer
  PROVE  Records'
<1>1. ASSUME NEW i \in Id, NEW pool \in Pools, Preview(i, pool)
      PROVE  Records'
  <2>1. pc # "banking" /\ pc' = "previewed" /\ UNCHANGED <<ledger, journal, told>>
    BY <1>1 DEF Preview, files
  <2> QED
    BY <2>1, RecordsStay DEF Ahead
<1>2. CASE Cancel \/ Close
  <2>1. pc # "banking" /\ pc' = "idle" /\ UNCHANGED <<ledger, journal, told>>
    BY <1>2 DEF Cancel, Close, Rest, files
  <2> QED
    BY <2>1, RecordsStay DEF Ahead
<1>3. CASE Confirm \/ NoSender \/ CheckStops \/ SendRefused \/ Audit
  <2>1. /\ pc # "banking" /\ pc' \in {"confirmed", "audit", "done"}
        /\ UNCHANGED <<ledger, journal, told>>
    BY <1>3 DEF Confirm, NoSender, CheckStops, SendRefused, Audit, Finishes, files
  <2> QED
    BY <2>1, RecordsStay DEF Ahead
<1>4. CASE TakeLock
  <2>1. /\ pc = "confirmed" /\ pc' \in {"audit", "ready"}
        /\ UNCHANGED <<ledger, journal, told, plan>>
        /\ pc' = "ready" => ~HistoryChanged /\ todo' = plan.parts
    BY <1>4 DEF TakeLock, Finishes, files
  <2>2. ~plan'.repeat => Ahead' \cap Bank(plan'.id) = {}
    BY <2>1 DEF Ahead, HistoryChanged
  <2> QED
    BY <2>1, <2>2, RecordsStay
<1>5. ASSUME NEW part \in SUBSET Listing, CheckPasses(part)
      PROVE  Records'
  <2>1. /\ pc = "ready" /\ pc' = "cleared"
        /\ UNCHANGED <<ledger, journal, told, plan, todo>>
    BY <1>5 DEF CheckPasses, files
  <2> QED
    BY <2>1, RecordsStay DEF Ahead, Records
<1>6. ASSUME NEW taken \in BOOLEAN, SendAmbiguous(taken)
      PROVE  Records'
  <2>1. pc # "banking" /\ pc' = "audit" /\ UNCHANGED <<ledger, journal, told>>
    BY <1>6 DEF SendAmbiguous, Finishes, files
  <2> QED
    BY <2>1, RecordsStay DEF Ahead
<1>7. CASE SendAccepted
  <2>1. /\ pc = "cleared" /\ pc' = "banking" /\ unbanked' = cur
        /\ UNCHANGED <<ledger, journal, plan, todo, cur>>
    BY <1>7 DEF SendAccepted, files
  <2>2. cur \in todo /\ cur \subseteq Listing /\ plan.id \in Id
    BY <2>1 DEF Shape
  <2>3. \A i : Bank(i)' = Bank(i)
    BY <2>1 DEF Bank
  <2>4. ~plan'.repeat => Ahead' \cap Bank(plan'.id) = {}
    BY <2>1 DEF Ahead, Records
  <2>5. CASE plan.repeat
    <3>1. told' = told /\ \A i : InFlight(i)' = InFlight(i)
      BY <1>7, <2>1, <2>5 DEF SendAccepted, InFlight
    <3> QED
      BY <2>1, <2>3, <2>4, <3>1 DEF Records
  <2>6. CASE ~plan.repeat
    <3>1. \A l \in cur : l \notin Bank(plan.id) /\ l \notin InFlight(plan.id)
      <4>1. cur \cap Bank(plan.id) = {}
        BY <2>1, <2>2, <2>6 DEF Records, Ahead
      <4>2. lock[plan.id] = "push"
        BY <2>1 DEF Locks
      <4>3. InFlight(plan.id) = {}
        BY <2>1, <4>2 DEF InFlight, Locks, Away
      <4> QED
        BY <4>1, <4>3
    <3>2. \A l \in cur : told[<<plan.id, l>>] = 0
      BY <2>2, <3>1 DEF Records, Pair
    <3>3. /\ told' \in [Pair -> {0, 1}]
          /\ \A k \in Id, l \in Listing :
               told'[<<k, l>>] = IF k = plan.id /\ l \in cur THEN 1 ELSE told[<<k, l>>]
      <4>1. Tells(plan.id, cur)
        BY <1>7, <2>6 DEF SendAccepted
      <4> QED
        BY <2>2, <3>2, <4>1, TellsOnly DEF Records
    <3>4. \A i : InFlight(i) \subseteq InFlight(i)' /\ (i = plan.id => cur \subseteq InFlight(i)')
      BY <2>1, <2>6 DEF InFlight
    <3>5. \A k \in Id, l \in Listing :
            told'[<<k, l>>] = 1 => l \in Bank(k)' \cup InFlight(k)'
      BY <2>3, <3>3, <3>4 DEF Records
    <3> QED
      BY <2>1, <2>3, <2>4, <3>3, <3>5 DEF Records
  <2> QED
    BY <2>5, <2>6
<1>8. ASSUME NEW l \in Listing, BankOne(l)
      PROVE  Records'
  <2>1. /\ pc = "banking" /\ l \in unbanked /\ unbanked' = unbanked \ {l}
        /\ UNCHANGED <<pc, journal, told, plan, todo, cur>>
    BY <1>8 DEF BankOne
  <2>2. plan.id \in Id /\ lock[plan.id] = "push" /\ cur \in todo /\ l \in cur
    BY <2>1 DEF Shape, Locks
  <2>3. CASE plan.repeat
    <3>1. \A i : InFlight(i)' = InFlight(i) /\ Bank(i)' = Bank(i)
      BY <1>8, <2>1, <2>3 DEF BankOne, InFlight, Bank
    <3> QED
      BY <1>8, <2>1, <2>3, <3>1 DEF BankOne, Records
  <2>4. CASE ~plan.repeat
    <3>1. ledger' = [ledger EXCEPT ![plan.id] = @ \cup {l}]
      BY <1>8, <2>4 DEF BankOne
    <3>2. /\ ledger' \in [Id -> SUBSET Listing]
          /\ \A i \in Id : Bank(i)' = IF i = plan.id THEN Bank(i) \cup {l} ELSE Bank(i)
      BY <2>1, <2>2, <3>1 DEF Records, Bank
    <3>3. \A i \in Id : InFlight(i) \subseteq
                          InFlight(i)' \cup (IF i = plan.id THEN {l} ELSE {})
      BY <2>1, <2>4 DEF InFlight
    <3>4. Ahead' \cap Bank(plan.id)' = {}
      <4>1. \A q \in todo \ {cur} : l \notin q
        BY <2>1, <2>2 DEF Shape
      <4>2. Ahead' = UNION (todo \ {cur}) /\ Ahead = UNION (todo \ {cur})
        BY <2>1 DEF Ahead
      <4>3. Ahead \cap Bank(plan.id) = {}
        BY <2>4 DEF Records
      <4> QED
        BY <2>1, <2>2, <3>2, <4>1, <4>2, <4>3
    <3>5. peer.at = "cleared" => peer.listing \notin Bank(peer.id)'
      <4>1. peer.at = "cleared" => peer.id \in Id /\ peer.id # plan.id
        BY <2>2 DEF Locks, Peers, Away
      <4> QED
        BY <3>2, <4>1 DEF Records
    <3>6. \A i \in Id, m \in Listing : told'[<<i, m>>] = 1 => m \in Bank(i)' \cup InFlight(i)'
      BY <2>1, <3>2, <3>3 DEF Records
    <3> QED
      BY <2>1, <3>2, <3>4, <3>5, <3>6 DEF Records
  <2> QED
    BY <2>3, <2>4
<1>9. CASE BankFails \/ PushCrash
  <2>1. /\ pc' \in {"audit", "idle"} /\ UNCHANGED <<ledger, journal>>
    BY <1>9 DEF BankFails, PushCrash, Finishes, Rest, files
  <2>2. \A i : Bank(i)' = Bank(i)
    BY <2>1 DEF Bank
  <2>3. Ahead' = {}
    BY <2>1 DEF Ahead
  <2>4. CASE pc = "banking" /\ ~plan.repeat
    <3>1. Forgets(plan.id, unbanked \ Bank(plan.id))
      BY <1>9, <2>4 DEF BankFails, PushCrash
    <3>2. /\ told' \in [Pair -> {0, 1}]
          /\ \A k \in Id, m \in Listing :
               told'[<<k, m>>] = IF k = plan.id /\ m \in unbanked \ Bank(plan.id)
                                 THEN 0 ELSE told[<<k, m>>]
      BY <3>1, ForgetsOnly DEF Records
    <3>3. \A k : InFlight(k) \subseteq InFlight(k)' \cup (IF k = plan.id THEN unbanked ELSE {})
      BY <2>1, <2>4 DEF InFlight
    <3>4. \A k \in Id, m \in Listing : told'[<<k, m>>] = 1 => m \in Bank(k)' \cup InFlight(k)'
      BY <2>2, <3>2, <3>3 DEF Records
    <3> QED
      BY <2>1, <2>2, <2>3, <3>2, <3>4 DEF Records
  <2>5. CASE ~(pc = "banking" /\ ~plan.repeat)
    <3>1. told' = told
      BY <1>9, <2>5 DEF BankFails, PushCrash
    <3>2. \A k : InFlight(k)' = InFlight(k)
      BY <2>1, <2>5 DEF InFlight
    <3> QED
      BY <2>1, <2>2, <2>3, <3>1, <3>2 DEF Records
  <2> QED
    BY <2>4, <2>5
<1>10. CASE PartBanked
  <2>1. /\ pc = "banking" /\ unbanked = {} /\ pc' \in {"audit", "ready"}
        /\ UNCHANGED <<ledger, journal, told, plan>>
        /\ pc' = "ready" => todo' = todo \ {cur}
    BY <1>10 DEF PartBanked, Finishes, files
  <2>2. \A i : Bank(i)' = Bank(i) /\ InFlight(i)' = InFlight(i)
    BY <2>1 DEF Bank, InFlight
  <2>3. Ahead' \subseteq Ahead
    BY <2>1 DEF Ahead
  <2> QED
    BY <2>1, <2>2, <2>3 DEF Records
<1> QED
  BY <1>1, <1>2, <1>3, <1>4, <1>5, <1>6, <1>7, <1>8, <1>9, <1>10 DEF PushStep

LEMMA RecordsOwner ==
  ASSUME Shape, Locks, Records, OwnerStep, UNCHANGED peer
  PROVE  Records'
<1>1. UNCHANGED push
  BY OthersLeaveThePush
<1>2. Ahead' = Ahead /\ \A i : InFlight(i)' = InFlight(i)
  BY <1>1 DEF Ahead, InFlight, push, working
<1>3. CASE UNCHANGED <<ledger, journal, told>>
  BY <1>1, <1>2, <1>3, RecordsStay DEF Records, push, working, Bank
<1>4. ASSUME NEW i \in Id, NEW l \in Listing, Expire(i, l)
      PROVE  Records'
  <2>1. /\ ledger' = [ledger EXCEPT ![i] = @ \ {l}]
        /\ journal' = [journal EXCEPT ![i] = @ \ {l}]
        /\ Forgets(i, {l})
    BY <1>4 DEF Expire
  <2>2. /\ told' \in [Pair -> {0, 1}]
        /\ \A k \in Id, m \in Listing :
             told'[<<k, m>>] = IF k = i /\ m \in {l} THEN 0 ELSE told[<<k, m>>]
    BY <2>1, ForgetsOnly DEF Records
  <2>3. /\ ledger' \in [Id -> SUBSET Listing] /\ journal' \in [Id -> SUBSET Listing]
        /\ \A k \in Id : Bank(k)' = IF k = i THEN Bank(k) \ {l} ELSE Bank(k)
    BY <2>1 DEF Records, Bank
  <2>4. plan.id \in Id \/ Ahead = {}
    BY DEF Ahead, Shape
  <2>5. peer.at = "cleared" => peer.id \in Id
    BY DEF Locks, Peers, Away
  <2>6. \A k \in Id, m \in Listing : told'[<<k, m>>] = 1 => m \in Bank(k)' \cup InFlight(k)'
    BY <1>2, <2>2, <2>3 DEF Records
  <2>7. ~plan.repeat => Ahead \cap Bank(plan.id)' = {}
    BY <1>1, <2>3, <2>4 DEF Records, push
  <2> QED
    BY <1>1, <1>2, <2>2, <2>3, <2>5, <2>6, <2>7 DEF Records, push
<1>5. ASSUME NEW i \in Id, Purge(i)
      PROVE  Records'
  <2>1. /\ ledger' = [ledger EXCEPT ![i] = {}] /\ journal' = journal
        /\ Forgets(i, Listing \ (journal[i] \cup InFlight(i)))
    BY <1>5 DEF Purge
  <2>2. /\ told' \in [Pair -> {0, 1}]
        /\ \A k \in Id, m \in Listing :
             told'[<<k, m>>] = IF k = i /\ m \in Listing \ (journal[i] \cup InFlight(i))
                               THEN 0 ELSE told[<<k, m>>]
    BY <2>1, ForgetsOnly DEF Records
  <2>3. /\ ledger' \in [Id -> SUBSET Listing]
        /\ \A k \in Id : Bank(k)' = IF k = i THEN journal[k] ELSE Bank(k)
    BY <2>1 DEF Records, Bank
  <2>4. plan.id \in Id \/ Ahead = {}
    BY DEF Ahead, Shape
  <2>5. peer.at = "cleared" => peer.id \in Id
    BY DEF Locks, Peers, Away
  <2>6. \A k \in Id, m \in Listing : told'[<<k, m>>] = 1 => m \in Bank(k)' \cup InFlight(k)'
    BY <1>2, <2>2, <2>3 DEF Records
  <2>7. \A k \in Id : Bank(k)' \subseteq Bank(k)
    BY <2>3 DEF Bank
  <2>8. ~plan.repeat => Ahead \cap Bank(plan.id)' = {}
    BY <1>1, <2>4, <2>7 DEF Records, push
  <2> QED
    BY <1>1, <1>2, <2>1, <2>2, <2>3, <2>5, <2>6, <2>7, <2>8 DEF Records, push
<1>6. \/ UNCHANGED <<ledger, journal, told>>
      \/ \E i \in Id, l \in Listing : Expire(i, l)
      \/ \E i \in Id : Purge(i)
  BY DEF OwnerStep, Add, Edit, ChangeId, Remove, Switch, ChooseCanaries, Rename, Remap, Uncanary,
     Unlist, ChangeCrash, calm, pushVars, files
<1> QED
  BY <1>3, <1>4, <1>5, <1>6

LEMMA RecordsPeer ==
  ASSUME Shape, Locks, Records, PeerStep
  PROVE  Records'
<1>1. UNCHANGED push
  BY OthersLeaveThePush
<1>2. Ahead' = Ahead
  BY <1>1 DEF Ahead, push, working
<1>3. Ahead # {} => plan.id \in Id /\ lock[plan.id] = "push"
  BY DEF Ahead, Shape, Locks
<1>4. ASSUME NEW path \in {"daily", "incremental"}, NEW i \in Id, NEW l \in Listing,
             PeerClears(path, i, l)
      PROVE  Records'
  <2>1. /\ UNCHANGED <<ledger, journal, told>> /\ peer = Away
        /\ peer' = [at |-> "cleared", path |-> path, id |-> i, listing |-> l]
        /\ l \notin Bank(i)
    BY <1>4 DEF PeerClears, files
  <2>2. \A k : Bank(k)' = Bank(k) /\ InFlight(k)' = InFlight(k)
    BY <1>1, <2>1 DEF Bank, InFlight, Away, push, working
  <2> QED
    BY <1>1, <1>2, <2>1, <2>2 DEF Records, push
<1>5. CASE PeerSends
  <2>1. /\ peer.at = "cleared" /\ peer' = [peer EXCEPT !.at = "sent"]
        /\ Tells(peer.id, {peer.listing}) /\ UNCHANGED <<ledger, journal>>
    BY <1>5 DEF PeerSends, files
  <2>2. /\ peer \in Peers /\ peer.id \in Id /\ peer.listing \in Listing
        /\ lock[peer.id] = "peer"
    BY <2>1 DEF Locks, Peers, Away
  <2>3. peer'.at = "sent" /\ peer'.id = peer.id /\ peer'.listing = peer.listing
    BY <2>1, <2>2 DEF Peers
  <2>4. InFlight(peer.id) = {}
    BY <2>1, <2>2 DEF InFlight, Locks
  <2>5. told[<<peer.id, peer.listing>>] = 0
    BY <2>1, <2>2, <2>4 DEF Records, Pair
  <2>6. /\ told' \in [Pair -> {0, 1}]
        /\ \A k \in Id, m \in Listing :
             told'[<<k, m>>] = IF k = peer.id /\ m \in {peer.listing} THEN 1 ELSE told[<<k, m>>]
    BY <2>1, <2>2, <2>5, TellsOnly DEF Records
  <2>7. \A k : /\ Bank(k)' = Bank(k) /\ InFlight(k) \subseteq InFlight(k)'
               /\ k = peer.id => peer.listing \in InFlight(k)'
    BY <1>1, <2>1, <2>3 DEF Bank, InFlight, push, working
  <2>8. \A k \in Id, m \in Listing : told'[<<k, m>>] = 1 => m \in Bank(k)' \cup InFlight(k)'
    BY <2>6, <2>7 DEF Records
  <2> QED
    BY <1>1, <1>2, <2>1, <2>3, <2>6, <2>7, <2>8 DEF Records, push
<1>6. CASE PeerLogs \/ PeerBanks
  <2>1. /\ peer.at \in {"sent", "logged"} /\ told' = told /\ peer'.at \in {"logged", "away"}
        /\ UNCHANGED push
        /\ \/ /\ journal' = [journal EXCEPT ![peer.id] = @ \cup {peer.listing}]
              /\ UNCHANGED ledger
           \/ /\ ledger' = [ledger EXCEPT ![peer.id] = @ \cup {peer.listing}]
              /\ UNCHANGED journal
    <3>1. CASE PeerLogs
      <4>1. peer \in Peers
        BY <3>1 DEF PeerLogs, Locks, Away
      <4> QED
        BY <1>1, <3>1, <4>1 DEF PeerLogs, Peers
    <3>2. CASE PeerBanks
      BY <1>1, <3>2 DEF PeerBanks, Away
    <3> QED
      BY <1>6, <3>1, <3>2
  <2>2. peer.id \in Id /\ peer.listing \in Listing /\ lock[peer.id] = "peer"
    BY <2>1 DEF Locks, Peers, Away
  <2>3. /\ ledger' \in [Id -> SUBSET Listing] /\ journal' \in [Id -> SUBSET Listing]
        /\ \A k \in Id : Bank(k)' = IF k = peer.id THEN Bank(k) \cup {peer.listing} ELSE Bank(k)
    <3>1. CASE /\ journal' = [journal EXCEPT ![peer.id] = @ \cup {peer.listing}]
               /\ UNCHANGED ledger
      BY <2>2, <3>1 DEF Records, Bank
    <3>2. CASE /\ ledger' = [ledger EXCEPT ![peer.id] = @ \cup {peer.listing}]
               /\ UNCHANGED journal
      BY <2>2, <3>2 DEF Records, Bank
    <3> QED
      BY <2>1, <3>1, <3>2
  <2>4. \A k : InFlight(k) \subseteq InFlight(k)' \cup (IF k = peer.id THEN {peer.listing} ELSE {})
    BY <2>1 DEF InFlight, push, working
  <2>5. \A k \in Id, m \in Listing : told'[<<k, m>>] = 1 => m \in Bank(k)' \cup InFlight(k)'
    BY <2>1, <2>3, <2>4 DEF Records
  <2>6. ~plan.repeat => Ahead \cap Bank(plan.id)' = {}
    BY <1>1, <1>3, <2>2, <2>3 DEF Records, push
  <2> QED
    BY <1>2, <2>1, <2>3, <2>5, <2>6 DEF Records, push
<1>7. CASE PeerLeaves
  <2>1. peer # Away /\ peer' = Away /\ UNCHANGED <<ledger, journal>>
    BY <1>7 DEF PeerLeaves, files
  <2>2. \A k : Bank(k)' = Bank(k)
    BY <2>1 DEF Bank
  <2>3. CASE peer.at = "sent"
    <3>1. /\ told' \in [Pair -> {0, 1}]
          /\ \A k \in Id, m \in Listing :
               told'[<<k, m>>] = IF k = peer.id /\ m \in {peer.listing} \ Bank(peer.id)
                                 THEN 0 ELSE told[<<k, m>>]
      BY <1>7, <2>3, ForgetsOnly DEF PeerLeaves, Records
    <3>2. \A k : InFlight(k) \subseteq
                   InFlight(k)' \cup (IF k = peer.id THEN {peer.listing} ELSE {})
      BY <1>1 DEF InFlight, push, working
    <3>3. \A k \in Id, m \in Listing : told'[<<k, m>>] = 1 => m \in Bank(k)' \cup InFlight(k)'
      BY <2>2, <3>1, <3>2 DEF Records
    <3> QED
      BY <1>1, <1>2, <2>1, <2>2, <3>1, <3>3 DEF Records, Away, push
  <2>4. CASE peer.at # "sent"
    <3>1. told' = told
      BY <1>7, <2>4 DEF PeerLeaves
    <3>2. \A k : InFlight(k)' = InFlight(k)
      BY <1>1, <2>1, <2>4 DEF InFlight, Away, push, working
    <3> QED
      BY <1>1, <1>2, <2>1, <2>2, <3>1, <3>2 DEF Records, Away, push
  <2> QED
    BY <2>3, <2>4
<1> QED
  BY <1>4, <1>5, <1>6, <1>7 DEF PeerStep
-----------------------------------------------------------------------------
LEMMA InvInit == Init => Inv
<1> SUFFICES ASSUME Init PROVE Inv
  OBVIOUS
<1>1. Shape /\ Account
  BY ShapeInit DEF Init
<1>2. LastLook /\ Locks
  BY DEF Init, PushInit, LastLook, Locks
<1>3. Records
  BY DEF Init, PushInit, Records, Ahead, Pair, Away
<1> QED
  BY <1>1, <1>2, <1>3 DEF Inv

LEMMA InvStep == Inv /\ [Next]_vars => Inv'
<1> SUFFICES ASSUME Inv, [Next]_vars PROVE Inv'
  OBVIOUS
<1>1. Shape' /\ Account'
  BY ShapeStep DEF Inv
<1>2. LastLook' /\ Locks'
  BY LastLookStep, LocksStep DEF Inv
<1>3. Records'
  <2>1. CASE PushStep /\ UNCHANGED <<owner, peer>>
    BY <2>1, RecordsPush DEF Inv
  <2>2. CASE OwnerStep
    <3>1. CASE UNCHANGED peer
      BY <2>2, <3>1, RecordsOwner DEF Inv
    <3> QED
      BY <2>2, <3>1 DEF OwnerStep, Add, Edit, Expire, ChangeId, Remove, Purge, Switch,
         ChooseCanaries, Rename, Remap, Uncanary, Unlist, ChangeCrash
  <2>3. CASE PeerStep
    BY <2>3, RecordsPeer DEF Inv
  <2>4. CASE UNCHANGED vars
    BY <2>4, RecordsStay DEF Inv, Records, vars, pushVars, calm, files, push, working, Ahead, Bank
  <2> QED
    BY <2>1, <2>2, <2>3, <2>4 DEF Next
<1> QED
  BY <1>1, <1>2, <1>3 DEF Inv

\* The four parts hold together in every reachable state.
THEOREM PushInvariant == Spec => []Inv
BY InvInit, InvStep, PTL DEF Spec

\* The status the operator reads at the end of a Test Push is what happened,
\* whatever the people who edit and the other senders do meanwhile.
THEOREM HonestStatus == Spec => []StatusIsHonest
<1>1. Inv => StatusIsHonest
  BY DEF Inv, Account, StatusIsHonest
<1> QED
  BY <1>1, PushInvariant, PTL

\* After an edit, a pause, a removal, an ID correction or the live switch, at
\* most the part already on its way leaves: for pushes of any length.
THEOREM EditsReachThePush == Spec => []EditsStopThePush
<1>1. Inv => EditsStopThePush
  BY DEF Inv, LastLook, EditsStopThePush
<1> QED
  BY <1>1, PushInvariant, PTL

\* Nobody is told a listing a second time while a file has the first, whichever
\* of the three senders told it and however the IDs were moved in between.
THEOREM RepeatsOnlyOfTheForgotten == Spec => []RepeatsAreForgotten
<1>1. Inv => RepeatsAreForgotten
  BY DEF Inv, Records, RepeatsAreForgotten
<1> QED
  BY <1>1, PushInvariant, PTL
-----------------------------------------------------------------------------
(***************************************************************************)
(* The canary list.  Between the allowlist and the settings of an ID       *)
(* correction the moved person's membership is still with the old ID, which*)
(* may already be someone else's.                                          *)
(***************************************************************************)
Changes == [at : {"idle", "rename", "remap", "uncanary", "unlist", "purge"},
            from : Id \cup {None}, to : Id \cup {None}]

\* Everyone has at most one ID, and a member change under way is of a member.
Members ==
  /\ entry \in [Id -> Entries \cup {None}]
  /\ \A i, j \in Listed : entry[i].who = entry[j].who => i = j
  /\ adm \in Changes
  /\ adm.at \in {"rename", "uncanary", "unlist"} => adm.from \in Listed
  /\ adm.at = "rename" => adm.to \in Id /\ adm.to # adm.from
  /\ adm.at = "remap" => adm.to \in Listed /\ adm.from \in Id /\ adm.to # adm.from

\* Whom the list names while nothing is half done, and while the settings have
\* not followed the allowlist yet.
Settled ==
  /\ canary \subseteq Listed
  /\ \A i \in Listed : i \in canary <=> entry[i].who \in enrolled

HalfMoved ==
  /\ canary \subseteq (Listed \ {adm.to}) \cup {adm.from}
  /\ \A i \in Listed \ {adm.from, adm.to} : i \in canary <=> entry[i].who \in enrolled
  /\ adm.from \in canary <=> entry[adm.to].who \in enrolled
  /\ adm.from \in Listed => entry[adm.from].who \notin enrolled

Enrolment ==
  ~cut =>
    /\ enrolled \subseteq {entry[i].who : i \in Listed}
    /\ IF adm.at = "remap" THEN HalfMoved ELSE Settled
    /\ adm.at = "unlist" => adm.from \notin canary

LEMMA EnrolmentInit ==
  ASSUME Init
  PROVE  Members /\ Enrolment
<1>1. Members
  BY NoneAssumption DEF Init, PushInit, Members, Listed, Entries, Looks, Changes, NoChange
<1>2. Enrolment
  <2>1. adm.at = "idle"
    BY DEF Init, NoChange
  <2>2. canary \subseteq Listed /\ enrolled = {entry[i].who : i \in canary}
    BY DEF Init, Listed
  <2>3. Settled
    BY <1>1, <2>2 DEF Settled, Members
  <2> QED
    BY <2>1, <2>2, <2>3 DEF Enrolment
<1> QED
  BY <1>1, <1>2

LEMMA EnrolmentOwner ==
  ASSUME Members, Enrolment, OwnerStep
  PROVE  Members' /\ Enrolment'
<1> USE NoneAssumption
<1>1. CASE UNCHANGED <<entry, canary, enrolled, cut, adm>>
  BY <1>1 DEF Members, Enrolment, Listed, Settled, HalfMoved
<1>2. ASSUME NEW i \in Id, NEW p \in Person, Add(i, p)
      PROVE  Members' /\ Enrolment'
  <2>1. /\ entry[i] = None /\ \A k \in Listed : entry[k].who # p
        /\ entry' = [entry EXCEPT ![i] = [who |-> p, look |-> "paused"]]
        /\ UNCHANGED <<canary, enrolled, cut, adm>>
    BY <1>2 DEF Add, member, change
  <2>2. /\ entry' \in [Id -> Entries \cup {None}] /\ entry'[i].who = p
        /\ \A k \in Id \ {i} : entry'[k] = entry[k]
        /\ Listed' = Listed \cup {i} /\ i \notin Listed
    BY <2>1 DEF Members, Entries, Looks, Listed
  <2>3. Members'
    BY <2>1, <2>2 DEF Members, Listed
  <2>4. ~cut => p \notin enrolled
    BY <2>1 DEF Enrolment
  <2>5. ~cut /\ i \in canary => adm.at = "remap" /\ i = adm.from
    BY <2>2 DEF Enrolment, Settled, HalfMoved
  <2>6. Enrolment'
    <3>1. CASE cut
      BY <2>1, <3>1 DEF Enrolment
    <3>2. CASE ~cut /\ adm.at # "remap"
      <4>1. Settled'
        BY <2>1, <2>2, <2>4, <2>5, <3>2 DEF Enrolment, Settled, Listed
      <4>2. enrolled' \subseteq {entry'[k].who : k \in Listed'}
        BY <2>1, <2>2, <3>2 DEF Enrolment, Listed
      <4> QED
        BY <2>1, <3>2, <4>1, <4>2 DEF Enrolment
    <3>3. CASE ~cut /\ adm.at = "remap"
      <4>1. HalfMoved'
        BY <2>1, <2>2, <2>4, <2>5, <3>3 DEF Enrolment, HalfMoved, Listed, Members
      <4>2. enrolled' \subseteq {entry'[k].who : k \in Listed'}
        BY <2>1, <2>2, <3>3 DEF Enrolment, Listed
      <4> QED
        BY <2>1, <3>3, <4>1, <4>2 DEF Enrolment
    <3> QED
      BY <3>1, <3>2, <3>3
  <2> QED
    BY <2>3, <2>6
<1>3. ASSUME NEW i \in Id, NEW look \in Looks, Edit(i, look)
      PROVE  Members' /\ Enrolment'
  <2>1. /\ i \in Listed /\ entry' = [entry EXCEPT ![i].look = look]
        /\ UNCHANGED <<canary, enrolled, cut, adm>>
    BY <1>3 DEF Edit, member, change
  <2>2. entry[i] \in Entries
    BY <2>1 DEF Members, Listed
  <2>3. /\ entry' \in [Id -> Entries \cup {None}] /\ Listed' = Listed
        /\ \A k \in Listed : entry'[k].who = entry[k].who
    BY <2>1, <2>2 DEF Members, Listed, Entries
  <2>4. Members'
    BY <2>1, <2>3 DEF Members
  <2>5. {entry'[k].who : k \in Listed'} = {entry[k].who : k \in Listed}
    BY <2>3
  <2>6. adm.at = "remap" => adm.to \in Listed
    BY DEF Members
  <2>7. Enrolment'
    BY <2>1, <2>3, <2>5, <2>6 DEF Enrolment, Settled, HalfMoved
  <2> QED
    BY <2>4, <2>7
<1>4. ASSUME NEW ids \in SUBSET Id, ChooseCanaries(ids)
      PROVE  Members' /\ Enrolment'
  <2>1. /\ ids \subseteq Listed /\ canary' = ids /\ enrolled' = {entry[i].who : i \in ids}
        /\ adm = NoChange /\ UNCHANGED <<entry, adm>>
    BY <1>4 DEF ChooseCanaries, calm, shared, change
  <2>2. Members' /\ Listed' = Listed
    BY <2>1 DEF Members, Listed
  <2>3. Settled'
    BY <2>1, <2>2 DEF Settled, Members
  <2> QED
    BY <2>1, <2>2, <2>3 DEF Enrolment, NoChange
<1>5. ASSUME NEW i \in Id, NEW j \in Id, ChangeId(i, j)
      PROVE  Members' /\ Enrolment'
  <2>1. /\ adm = NoChange /\ i \in Listed /\ i # j
        /\ adm' = [at |-> "rename", from |-> i, to |-> j]
        /\ UNCHANGED <<entry, canary, enrolled, cut>>
    BY <1>5 DEF ChangeId, calm, shared
  <2> QED
    BY <2>1 DEF Members, Enrolment, Listed, Settled, Changes, NoChange
<1>6. ASSUME NEW i \in Id, Remove(i)
      PROVE  Members' /\ Enrolment'
  <2>1. /\ adm = NoChange /\ i \in Listed
        /\ adm' = [at |-> "uncanary", from |-> i, to |-> None]
        /\ UNCHANGED <<entry, canary, enrolled, cut>>
    BY <1>6 DEF Remove, calm, shared
  <2> QED
    BY <2>1 DEF Members, Enrolment, Listed, Settled, Changes, NoChange
<1>7. CASE Rename
  <2>1. adm.at = "rename" /\ UNCHANGED <<canary, enrolled, cut>>
    BY <1>7 DEF Rename, member
  <2>2. CASE adm.to \in Listed
    <3>1. adm' = NoChange /\ UNCHANGED entry
      BY <1>7, <2>2 DEF Rename
    <3> QED
      BY <2>1, <3>1 DEF Members, Enrolment, Listed, Settled, Changes, NoChange
  <2>3. CASE adm.to \notin Listed
    <3>1. /\ entry' = [entry EXCEPT ![adm.to] = entry[adm.from], ![adm.from] = None]
          /\ adm' = [adm EXCEPT !.at = "remap"]
      BY <1>7, <2>3 DEF Rename
    <3>2. /\ adm.from \in Listed /\ adm.to \in Id /\ adm.to # adm.from /\ adm \in Changes
          /\ entry[adm.from] \in Entries
      BY <2>1 DEF Members, Listed
    <3>3. adm'.at = "remap" /\ adm'.from = adm.from /\ adm'.to = adm.to /\ adm' \in Changes
      BY <3>1, <3>2 DEF Changes
    <3>4. /\ entry' \in [Id -> Entries \cup {None}]
          /\ entry'[adm.to] = entry[adm.from] /\ entry'[adm.from] = None
          /\ \A k \in Id \ {adm.from, adm.to} : entry'[k] = entry[k]
      BY <3>1, <3>2 DEF Members, Listed
    <3>5. Listed' = (Listed \ {adm.from}) \cup {adm.to}
      BY <3>2, <3>4 DEF Listed
    <3>6. Members'
      BY <3>2, <3>3, <3>4, <3>5 DEF Members, Listed
    <3>7. CASE cut
      BY <2>1, <3>6, <3>7 DEF Enrolment
    <3>8. CASE ~cut
      <4>1. Settled /\ enrolled \subseteq {entry[k].who : k \in Listed}
        BY <2>1, <3>8 DEF Enrolment
      <4>2. HalfMoved'
        BY <2>1, <2>3, <3>2, <3>3, <3>4, <3>5, <4>1 DEF Settled, HalfMoved, Listed
      <4>3. enrolled' \subseteq {entry'[k].who : k \in Listed'}
        <5>1. SUFFICES ASSUME NEW k \in Listed
                       PROVE  \E m \in Listed' : entry'[m].who = entry[k].who
          BY <2>1, <4>1
        <5>2. CASE k = adm.from
          BY <3>4, <3>5, <5>2
        <5>3. CASE k # adm.from
          BY <2>3, <3>4, <3>5, <5>3 DEF Listed
        <5> QED
          BY <5>2, <5>3
      <4> QED
        BY <3>3, <3>6, <4>2, <4>3 DEF Enrolment
    <3> QED
      BY <3>7, <3>8
  <2> QED
    BY <2>2, <2>3
<1>8. CASE Remap
  <2>1. /\ adm.at = "remap" /\ adm' = [adm EXCEPT !.at = "purge"]
        /\ canary' = IF adm.from \in canary THEN (canary \ {adm.from}) \cup {adm.to} ELSE canary
        /\ UNCHANGED <<entry, enrolled, cut>>
    BY <1>8 DEF Remap, pushVars, calm, shared
  <2>2. adm.to \in Listed /\ adm.to # adm.from /\ adm'.at = "purge" /\ adm' \in Changes
    BY <2>1 DEF Members, Changes
  <2>3. Members' /\ Listed' = Listed
    BY <2>1, <2>2 DEF Members, Listed
  <2>4. ~cut => Settled'
    BY <2>1, <2>2, <2>3 DEF Enrolment, HalfMoved, Settled
  <2> QED
    BY <2>1, <2>2, <2>3, <2>4 DEF Enrolment
<1>9. CASE Uncanary
  <2>1. /\ adm.at = "uncanary" /\ adm' = [adm EXCEPT !.at = "unlist"]
        /\ canary' = canary \ {adm.from} /\ enrolled' = enrolled \ {entry[adm.from].who}
        /\ UNCHANGED <<entry, cut>>
    BY <1>9 DEF Uncanary, pushVars, calm, shared
  <2>2. adm.from \in Listed /\ adm'.at = "unlist" /\ adm'.from = adm.from /\ adm' \in Changes
    BY <2>1 DEF Members, Changes
  <2>3. Members' /\ Listed' = Listed
    BY <2>1, <2>2 DEF Members, Listed
  <2>4. ~cut => Settled'
    BY <2>1, <2>2, <2>3 DEF Enrolment, Settled, Members
  <2> QED
    BY <2>1, <2>2, <2>3, <2>4 DEF Enrolment
<1>10. CASE Unlist
  <2>1. /\ adm.at = "unlist" /\ adm' = [adm EXCEPT !.at = "purge"]
        /\ entry' = [entry EXCEPT ![adm.from] = None]
        /\ UNCHANGED <<canary, enrolled, cut>>
    BY <1>10 DEF Unlist, member
  <2>2. /\ adm.from \in Listed /\ adm'.at = "purge" /\ adm' \in Changes
    BY <2>1 DEF Members, Changes
  <2>3. /\ entry' \in [Id -> Entries \cup {None}] /\ Listed' = Listed \ {adm.from}
        /\ \A k \in Listed' : entry'[k] = entry[k]
    BY <2>1, <2>2 DEF Members, Listed
  <2>4. Members'
    BY <2>1, <2>2, <2>3 DEF Members
  <2>5. CASE cut
    BY <2>1, <2>4, <2>5 DEF Enrolment
  <2>6. CASE ~cut
    <3>1. Settled /\ adm.from \notin canary /\ enrolled \subseteq {entry[k].who : k \in Listed}
      BY <2>1, <2>6 DEF Enrolment
    <3>2. Settled' /\ enrolled' \subseteq {entry'[k].who : k \in Listed'}
      BY <2>1, <2>2, <2>3, <3>1 DEF Settled
    <3> QED
      BY <2>2, <2>4, <3>2 DEF Enrolment
  <2> QED
    BY <2>5, <2>6
<1>11. ASSUME NEW i \in Id, Purge(i)
       PROVE  Members' /\ Enrolment'
  <2>1. /\ adm.at = "purge" /\ adm' \in {NoChange, adm} /\ UNCHANGED <<entry, canary, enrolled, cut>>
    BY <1>11 DEF Purge, shared, member
  <2> QED
    BY <2>1 DEF Members, Enrolment, Listed, Settled, Changes, NoChange
<1>12. CASE ChangeCrash
  <2>1. /\ adm' = NoChange /\ cut' = (cut \/ adm.at = "remap")
        /\ UNCHANGED <<entry, canary, enrolled>>
    BY <1>12 DEF ChangeCrash, shared
  <2>2. Members' /\ Listed' = Listed
    BY <2>1 DEF Members, Listed, Changes, NoChange
  <2>3. ~cut' => Settled' /\ enrolled \subseteq {entry[k].who : k \in Listed}
    BY <2>1, <2>2 DEF Enrolment, Settled
  <2> QED
    BY <2>1, <2>2, <2>3 DEF Enrolment, NoChange
<1>13. \/ UNCHANGED <<entry, canary, enrolled, cut, adm>>
       \/ \E i \in Id : \/ \E p \in Person : Add(i, p)
                        \/ \E look \in Looks : Edit(i, look)
                        \/ \E j \in Id : ChangeId(i, j)
                        \/ Remove(i) \/ Purge(i)
       \/ \E ids \in SUBSET Id : ChooseCanaries(ids)
       \/ Rename \/ Remap \/ Uncanary \/ Unlist \/ ChangeCrash
  BY DEF OwnerStep, Expire, Switch, shared, member, change
<1> QED
  BY <1>1, <1>2, <1>3, <1>4, <1>5, <1>6, <1>7, <1>8, <1>9, <1>10, <1>11, <1>12, <1>13

LEMMA EnrolmentStep == Members /\ Enrolment /\ [Next]_vars => (Members /\ Enrolment)'
<1> SUFFICES ASSUME Members, Enrolment, [Next]_vars
             PROVE  Members' /\ Enrolment'
  OBVIOUS
<1>1. CASE OwnerStep
  BY <1>1, EnrolmentOwner
<1>2. CASE ~OwnerStep
  <2>1. UNCHANGED <<entry, canary, enrolled, cut, adm>>
    <3>1. CASE PushStep /\ UNCHANGED <<owner, peer>>
      BY <3>1 DEF PushStep, Preview, Cancel, Confirm, NoSender, TakeLock, CheckPasses, CheckStops,
         SendAccepted, SendRefused, SendAmbiguous, BankOne, BankFails, PartBanked, Audit, Close,
         PushCrash, shared, owner, member, change
    <3>2. CASE PeerStep
      BY <3>2 DEF PeerStep, PeerClears, PeerSends, PeerLogs, PeerBanks, PeerLeaves,
         shared, owner, member, change
    <3>3. CASE UNCHANGED vars
      BY <3>3 DEF vars, pushVars, calm, shared, owner, member, change
    <3> QED
      BY <1>2, <3>1, <3>2, <3>3 DEF Next
  <2> QED
    BY <2>1 DEF Members, Enrolment, Listed, Settled, HalfMoved
<1> QED
  BY <1>1, <1>2

\* The canary list follows the person through any number of additions, removals
\* and ID corrections, also when old IDs are given to others and removals are
\* cut short.
THEOREM EnrolmentIsKept == Spec => []EnrolmentFollowsThePerson
<1>1. Init => Members /\ Enrolment
  BY EnrolmentInit
<1>2. Members /\ Enrolment => EnrolmentFollowsThePerson
  BY DEF Enrolment, EnrolmentFollowsThePerson, Settled
<1> QED
  BY <1>1, <1>2, EnrolmentStep, PTL DEF Spec
-----------------------------------------------------------------------------
(* Type correctness, from what is known of the push and of the members. *)

Plans == [id : Id, holder : Entries, parts : SUBSET SUBSET Listing, repeat : BOOLEAN]

\* A plan is typed and short enough, and what is being sent is set only while
\* something is.
PlanTypes ==
  /\ IF pc = "idle" THEN plan = NoPlan ELSE plan \in Plans /\ Cardinality(plan.parts) <= MaxParts
  /\ pc \notin {"ready", "cleared", "banking"} => todo = {}
  /\ pc \notin {"cleared", "banking"} => cur = {}
  /\ pc # "banking" => unbanked = {}
  /\ accepted <= MaxParts /\ arrived <= MaxParts
  /\ result \in Statuses \cup {"none"}

Flags == live \in BOOLEAN /\ cut \in BOOLEAN

OwnerTypes ==
  /\ canary \subseteq Id /\ enrolled \subseteq Person /\ purging \subseteq Id
  /\ upsets \in 0..MaxUpsets /\ turns \in 0..MaxTurns

TypeInv == Inv /\ Members /\ PlanTypes /\ Flags /\ OwnerTypes

\* The parts left are no more than the plan has, and one is left while one is sent.
LEMMA PartsLeft ==
  ASSUME Shape, Account, PlanTypes
  PROVE  /\ pc # "idle" => Cardinality(plan.parts) \in Nat
         /\ pc \in {"ready", "cleared", "banking"} => Cardinality(todo) \in Nat
         /\ pc \in {"cleared", "banking"} => Cardinality(todo) > 0
         /\ pc = "cleared" => accepted < MaxParts /\ arrived < MaxParts
<1>1. pc # "idle" => Cardinality(plan.parts) \in Nat
  BY FS_CardinalityType DEF Shape
<1>2. pc \in {"ready", "cleared", "banking"} => IsFiniteSet(todo) /\ Cardinality(todo) \in Nat
  BY FS_Subset, FS_CardinalityType DEF Shape
<1>3. pc \in {"cleared", "banking"} => Cardinality(todo) > 0
  BY <1>2, FS_EmptySet DEF Shape
<1> QED
  BY <1>1, <1>2, <1>3, PushBounds DEF Shape, Account, PlanTypes

LEMMA PlanTypesPush ==
  ASSUME Shape, Account, Members, PlanTypes, PushStep
  PROVE  PlanTypes'
<1> USE PushBounds DEF PlanTypes, Shape, working, Statuses
<1>1. ASSUME NEW i \in Id, NEW pool \in Pools, Preview(i, pool)
      PROVE  PlanTypes'
  <2>1. PICK keys \in Offers(i, pool) : \E ps \in Layouts(keys) :
          plan' = [id |-> i, holder |-> entry[i], parts |-> ps,
                   repeat |-> keys # {} /\ pool \subseteq Bank(i)]
    BY <1>1 DEF Preview
  <2>2. PICK ps \in Layouts(keys) :
          plan' = [id |-> i, holder |-> entry[i], parts |-> ps,
                   repeat |-> keys # {} /\ pool \subseteq Bank(i)]
    BY <2>1
  <2>3. ps \subseteq SUBSET Listing /\ Cardinality(ps) <= MaxParts
    BY LayoutsAreParts DEF Layouts
  <2>4. entry[i] \in Entries
    BY <1>1 DEF Preview, Active, Listed, Members
  <2>5. plan' \in Plans /\ plan'.parts = ps
    BY <2>2, <2>3, <2>4 DEF Plans
  <2> QED
    BY <1>1, <2>3, <2>5 DEF Preview
<1>2. CASE Cancel \/ Close \/ PushCrash
  BY <1>2 DEF Cancel, Close, PushCrash, Rest
<1>3. CASE Confirm
  BY <1>3 DEF Confirm
<1>4. CASE NoSender
  BY <1>4 DEF NoSender, Finishes
<1>5. CASE TakeLock
  BY <1>5 DEF TakeLock, Finishes
<1>6. ASSUME NEW part \in SUBSET Listing, CheckPasses(part)
      PROVE  PlanTypes'
  BY <1>6 DEF CheckPasses
<1>7. CASE CheckStops \/ SendRefused
  BY <1>7 DEF CheckStops, SendRefused, Finishes, StatusShort
<1>8. CASE SendAccepted
  BY <1>8, PartsLeft DEF SendAccepted
<1>9. ASSUME NEW taken \in BOOLEAN, SendAmbiguous(taken)
      PROVE  PlanTypes'
  BY <1>9, PartsLeft DEF SendAmbiguous, Finishes
<1>10. ASSUME NEW l \in Listing, BankOne(l)
       PROVE  PlanTypes'
  BY <1>10 DEF BankOne
<1>11. CASE BankFails
  BY <1>11 DEF BankFails, Finishes
<1>12. CASE PartBanked
  BY <1>12 DEF PartBanked, Finishes
<1>13. CASE Audit
  BY <1>13 DEF Audit
<1> QED
  BY ONLY PushStep, <1>1, <1>2, <1>3, <1>4, <1>5, <1>6, <1>7, <1>8, <1>9, <1>10, <1>11, <1>12, <1>13
     DEF PushStep

LEMMA FlagsStep ==
  ASSUME Flags, (PushStep /\ UNCHANGED owner) \/ OwnerStep \/ PeerStep
  PROVE  Flags'
<1>1. \/ UNCHANGED <<live, cut>>
      \/ Switch \/ ChangeCrash \/ \E ids \in SUBSET Id : ChooseCanaries(ids)
  <2>1. CASE PushStep /\ UNCHANGED owner
    BY <2>1 DEF PushStep, Preview, Cancel, Confirm, NoSender, TakeLock, CheckPasses, CheckStops,
       SendAccepted, SendRefused, SendAmbiguous, BankOne, BankFails, PartBanked, Audit, Close,
       PushCrash, shared, owner, member
  <2>2. CASE PeerStep
    BY <2>2 DEF PeerStep, PeerClears, PeerSends, PeerLogs, PeerBanks, PeerLeaves,
       shared, owner, member
  <2>3. CASE OwnerStep
    BY <2>3 DEF OwnerStep, Add, Edit, Expire, ChangeId, Remove, Purge, Rename, Remap, Uncanary,
       Unlist, pushVars, calm, shared, member
  <2> QED
    BY <2>1, <2>2, <2>3
<1>2. CASE Switch
  BY <1>2, Zenon DEF Switch, member, Flags
<1>3. CASE ChangeCrash
  BY <1>3, Zenon DEF ChangeCrash, shared, Flags
<1>4. ASSUME NEW ids \in SUBSET Id, ChooseCanaries(ids)
      PROVE  Flags'
  BY <1>4, Zenon DEF ChooseCanaries, calm, shared, Flags
<1> QED
  BY <1>1, <1>2, <1>3, <1>4 DEF Flags

LEMMA OwnerTypesStep ==
  ASSUME Members, OwnerTypes, (PushStep /\ UNCHANGED owner) \/ OwnerStep \/ PeerStep
  PROVE  OwnerTypes'
<1> USE PushBounds DEF OwnerTypes, Upset, Turn
<1>1. CASE PushStep /\ UNCHANGED owner
  BY <1>1 DEF PushStep, Preview, Cancel, Confirm, NoSender, TakeLock, CheckPasses, CheckStops,
     SendAccepted, SendRefused, SendAmbiguous, BankOne, BankFails, PartBanked, Audit, Close,
     PushCrash, shared, owner, member, change
<1>2. CASE PeerStep
  BY <1>2 DEF PeerStep, PeerClears, PeerSends, PeerLogs, PeerBanks, PeerLeaves,
     shared, owner, member, change
<1>3. ASSUME NEW ids \in SUBSET Id, ChooseCanaries(ids)
      PROVE  OwnerTypes'
  <2>1. \A i \in ids : entry[i].who \in Person
    BY <1>3 DEF ChooseCanaries, Members, Listed, Entries
  <2> QED
    BY <1>3, <2>1 DEF ChooseCanaries, calm, shared, change
<1>4. CASE Remap
  BY <1>4 DEF Remap, Members, Listed, pushVars, calm, shared
<1>5. CASE Unlist \/ Uncanary
  BY <1>5 DEF Unlist, Uncanary, Members, Listed, pushVars, calm, shared, member
<1>6. CASE ChangeCrash \/ Rename \/ Switch
  BY <1>6 DEF ChangeCrash, Rename, Switch, shared, member, change
<1>7. ASSUME NEW i \in Id,
             \/ \E p \in Person : Add(i, p)
             \/ \E look \in Looks : Edit(i, look)
             \/ \E l \in Listing : Expire(i, l)
      PROVE  OwnerTypes'
  <2>1. Upset /\ UNCHANGED <<turns, member, change>>
    BY <1>7 DEF Add, Edit, Expire
  <2> QED
    BY <2>1 DEF member, change
<1>8. ASSUME NEW i \in Id, Remove(i) \/ \E j \in Id : ChangeId(i, j)
      PROVE  OwnerTypes'
  BY <1>8 DEF ChangeId, Remove, calm
<1>9. ASSUME NEW i \in Id, Purge(i)
      PROVE  OwnerTypes'
  BY <1>9 DEF Purge, member
<1> QED
  BY ONLY <1>1, <1>2, <1>3, <1>4, <1>5, <1>6, <1>7, <1>8, <1>9,
     (PushStep /\ UNCHANGED owner) \/ OwnerStep \/ PeerStep DEF OwnerStep

LEMMA TypeInit == Init => TypeInv
<1> SUFFICES ASSUME Init PROVE TypeInv
  OBVIOUS
<1>1. Inv /\ Members
  BY InvInit, EnrolmentInit
<1>2. PlanTypes
  BY PushBounds DEF Init, PushInit, PlanTypes
<1>3. OwnerTypes
  <2>1. canary \subseteq Id /\ enrolled \subseteq Person
    BY <1>1 DEF Init, Members, Listed, Entries
  <2> QED
    BY <2>1, PushBounds DEF Init, PushInit, OwnerTypes
<1>4. Flags
  BY Zenon DEF Init, PushInit, Flags
<1> QED
  BY <1>1, <1>2, <1>3, <1>4 DEF TypeInv

LEMMA TypeStep == TypeInv /\ Enrolment /\ [Next]_vars => TypeInv'
<1> SUFFICES ASSUME TypeInv, Enrolment, [Next]_vars PROVE TypeInv'
  OBVIOUS
<1>1. Inv' /\ Members'
  BY InvStep, EnrolmentStep DEF TypeInv
<1>2. CASE UNCHANGED vars
  <2>1. PlanTypes' /\ OwnerTypes'
    BY <1>2 DEF TypeInv, PlanTypes, OwnerTypes, vars, pushVars, calm, push, working,
       owner, member, change
  <2>2. Flags'
    BY <1>2 DEF TypeInv, Flags, vars, pushVars, calm, shared, owner, member
  <2> QED
    BY <1>1, <2>1, <2>2 DEF TypeInv
<1>3. CASE Next
  <2>1. PlanTypes'
    <3>1. CASE PushStep
      BY <3>1, PlanTypesPush DEF TypeInv, Inv
    <3>2. CASE OwnerStep \/ PeerStep
      BY <3>2, OthersLeaveThePush DEF TypeInv, PlanTypes, push, working
    <3> QED
      BY <1>3, <3>1, <3>2 DEF Next
  <2>2. OwnerTypes' /\ Flags'
    <3>1. (PushStep /\ UNCHANGED owner) \/ OwnerStep \/ PeerStep
      BY <1>3 DEF Next
    <3> QED
      BY <3>1, OwnerTypesStep, FlagsStep DEF TypeInv
  <2> QED
    BY <1>1, <2>1, <2>2 DEF TypeInv
<1> QED
  BY <1>2, <1>3

\* Every variable keeps its type: the plans and the counts of a push as well,
\* which no part that arrives without an answer takes past the parts there are.
THEOREM TypeCorrect == Spec => []TypeOK
<1>1. TypeInv => TypeOK
  <2> SUFFICES ASSUME TypeInv PROVE TypeOK
    OBVIOUS
  <2> USE DEF TypeInv, Inv
  <2>1. /\ pc \in {"idle", "previewed", "confirmed", "ready", "cleared", "banking", "audit", "done"}
        /\ plan = NoPlan \/ plan \in Plans
        /\ result \in Statuses \cup {"none"}
    BY DEF Shape, Points, PlanTypes
  <2>2. todo \subseteq plan.parts /\ cur \subseteq Listing /\ unbanked \subseteq cur
    BY DEF Shape, PlanTypes
  <2>3. accepted \in 0..MaxParts /\ arrived \in 0..MaxParts /\ since \in 0..MaxParts
    BY PushBounds DEF Shape, PlanTypes, LastLook
  <2>4. peer.at \in {"away", "cleared", "sent", "logged"}
    BY DEF Locks, Peers, Away
  <2>5. adm.at \in {"idle", "rename", "remap", "uncanary", "unlist", "purge"}
    BY DEF Members, Changes
  <2>6. told \in [Pair -> 0..2]
    BY DEF Records
  <2>7. /\ entry \in [Id -> Entries \cup {None}]
        /\ ledger \in [Id -> SUBSET Listing] /\ journal \in [Id -> SUBSET Listing]
        /\ lock \in [Id -> {"free", "push", "peer"}]
    BY DEF Members, Records, Locks
  <2> QED
    BY <2>1, <2>2, <2>3, <2>4, <2>5, <2>6, <2>7, Zenon DEF TypeOK, Plans, OwnerTypes, Flags
<1> QED
  BY <1>1, TypeInit, TypeStep, EnrolmentInit, EnrolmentStep, PTL DEF Spec
=============================================================================
