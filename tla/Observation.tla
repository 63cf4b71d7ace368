----------------------------- MODULE Observation ------------------------------
(***************************************************************************)
(* What becomes of a dataset once it is paid for: the observation of its   *)
(* listings in one transaction, which decides for each whether it is news  *)
(* to the query scope; the planning of alerts for the recipients whose     *)
(* searches watch the scope; one transaction per alert, under the daily    *)
(* cap of the search; and the mark that the run is processed.  A tick may  *)
(* die between any two of them, and a later tick then reads the dataset    *)
(* and goes through all of them again.  Baselines are reset, recipients    *)
(* removed, searches switched off and listings delivered meanwhile, and    *)
(* old history is pruned.                                                  *)
(***************************************************************************)
EXTENDS Integers, Sequences, FiniteSets

CONSTANTS
  Query,       \* query scopes
  Home,        \* listing identities
  Version,     \* material versions of a listing
  Person,      \* telegram_ids
  Search,      \* saved searches
  OwnerOf,     \* the person of each search
  ScopeOf,     \* the query scope of each search
  Wants,       \* the versions that match each search
  Rank,        \* the order of the searches in a profile
  Cap,         \* daily_cap
  Retention,   \* incremental_event_retention_days
  Datasets,    \* what a run may return
  MaxRuns, MaxDays, MaxCrashes, MaxEdits   \* bounds of what may happen

Item == Home \X Version

ASSUME SearchAssumption ==
  /\ OwnerOf \in [Search -> Person] /\ ScopeOf \in [Search -> Query]
  /\ Wants \in [Search -> SUBSET Version]
  /\ Rank \in [Search -> Nat] /\ \A s, t \in Search : Rank[s] = Rank[t] => s = t
ASSUME DatasetAssumption ==
  \A d \in Datasets : d \in Seq(Item) /\ \A i, j \in DOMAIN d : d[i] = d[j] => i = j
ASSUME BoundAssumption ==
  /\ {Cap, Retention, MaxRuns, MaxCrashes, MaxEdits} \subseteq Nat
  /\ MaxDays \in Nat \ {0}

VARIABLES
  base,        \* query_scopes.baseline_state
  runs,        \* source_runs, in the order they were started
  events,      \* listing_events, each with the observation it comes with
  outbox,      \* the alerts queued
  bank,        \* active_seen_keys: what each person was sent
  listed,      \* allowlisted people
  active,      \* active searches
  day,         \* the recipients' local day
  pc, batch, cur,   \* where the tick is, the collections it still processes
  todo, try,   \* alerts it still plans; the one it works at, with its searches
  touched,     \* people edited or removed since the tick began (history)
  crashes, edits

ledger == <<base, runs, events, outbox>>
owner == <<listed, active>>
tick == <<pc, batch, cur, todo, try, touched>>
budget == <<crashes, edits>>
vars == <<ledger, bank, owner, day, tick, budget>>

NoTry == [person |-> "none", item |-> <<>>, searches |-> {}]
Types == {"baseline", "new", "change", "duplicate"}
Runs == DOMAIN runs

Init ==
  /\ base = [q \in Query |-> "pending"]
  /\ runs = <<>> /\ events = {} /\ outbox = {} /\ bank = {}
  /\ listed = Person /\ active = Search
  /\ day = 1
  /\ pc = "idle" /\ batch = {} /\ cur = 0 /\ todo = {} /\ try = NoTry
  /\ touched = {}
  /\ crashes = 0 /\ edits = 0
-----------------------------------------------------------------------------
(* Collection, as far as observation depends on it. *)

Goto(p) == pc' = p

\* The scope has a run that is open, or paid for and not processed.
InFlight(q) == \E r \in Runs : runs[r].query = q /\ runs[r].status \in {"running", "succeeded"}

\* A tick takes run.lock and reads again the datasets of some of the runs that
\* were paid for and not processed (_recover_succeeded); the others it cannot read.
Begin ==
  /\ pc = "idle" /\ Goto("collect") /\ touched' = {}
  /\ batch' \in SUBSET {r \in Runs : runs[r].status = "succeeded"}
  /\ UNCHANGED <<ledger, bank, owner, day, cur, todo, try, budget>>

Planned(q) == \E s \in active : ScopeOf[s] = q /\ OwnerOf[s] \in listed

\* create_source_run; "silent" is what the scope's baseline asks of the run.
StartRun(q) ==
  /\ pc = "collect" /\ Planned(q) /\ ~InFlight(q) /\ Len(runs) < MaxRuns
  /\ runs' = Append(runs, [query |-> q, status |-> "running", items |-> <<>>, day |-> day,
                           silent |-> base[q] # "established"])
  /\ UNCHANGED <<base, events, outbox, bank, owner, day, tick, budget>>

\* finish_source_run, with the dataset d or without one.
FinishRun(r, d) ==
  /\ pc = "collect" /\ runs[r].status = "running"
  /\ \/ /\ runs' = [runs EXCEPT ![r].status = "succeeded", ![r].items = d, ![r].day = day]
        /\ batch' = batch \cup {r}
     \/ /\ runs' = [runs EXCEPT ![r].status = "failed", ![r].day = day]
        /\ UNCHANGED batch
  /\ UNCHANGED <<base, events, outbox, bank, owner, day, pc, cur, todo, try, touched, budget>>

EndCollect ==
  /\ pc = "collect" /\ Goto("observe")
  /\ UNCHANGED <<ledger, bank, owner, day, batch, cur, todo, try, touched, budget>>
-----------------------------------------------------------------------------
(* record_observations *)

EventsOf(r) == {e \in events : e.run = r}

\* Observations of the scope that precede the i-th item of run r.
Before(r, i) ==
  {e.item : e \in {f \in events : runs[f.run].query = runs[r].query}}
    \cup {runs[r].items[j] : j \in 1..(i - 1)}

IsBaseline(r) == base[runs[r].query] # "established"

\* The scope has observed the listing before, in whatever version.
ScopeSeen(r, i) == \E seen \in Before(r, i) : seen[1] = runs[r].items[i][1]

\* Mutation: a version the scope has not seen makes the listing new.
KindByVersion(r, i) ==
  CASE IsBaseline(r) -> "baseline"
    [] ~IsBaseline(r) /\ runs[r].items[i] \notin Before(r, i) -> "new"
    [] OTHER -> "duplicate"

Kind(r, i) ==
  CASE IsBaseline(r) -> "baseline"
    [] ~IsBaseline(r) /\ ~ScopeSeen(r, i) -> "new"
    [] ~IsBaseline(r) /\ ScopeSeen(r, i) /\ runs[r].items[i] \notin Before(r, i) -> "change"
    [] OTHER -> "duplicate"

Event(r, i, kind) == [run |-> r, item |-> runs[r].items[i], type |-> kind]

\* Mutation: a replay judges the listings again.
JudgeAgain(r) ==
  (events \ EventsOf(r)) \cup {Event(r, i, Kind(r, i)) : i \in DOMAIN runs[r].items}

\* A listing that this run has an event for keeps it.
Judged(r) ==
  events \cup {Event(r, i, Kind(r, i)) :
                 i \in {j \in DOMAIN runs[r].items :
                          \A e \in EventsOf(r) : e.item # runs[r].items[j]}}

Observe(r) ==
  /\ pc = "observe" /\ r \in batch
  /\ events' = Judged(r)
  /\ base' = [base EXCEPT ![runs[r].query] = "established"]
  /\ cur' = r /\ Goto("plan")
  /\ UNCHANGED <<runs, outbox, bank, owner, day, batch, todo, try, touched, budget>>
-----------------------------------------------------------------------------
(* plan_shadow_notifications and enqueue_shadow *)

News(r) == {e.item : e \in {f \in EventsOf(r) : f.type = "new"}}

\* The searches of p that an item of a scope is news for.
Wanting(q, p, item) ==
  {s \in active : ScopeOf[s] = q /\ OwnerOf[s] = p /\ p \in listed /\ item[2] \in Wants[s]}

\* The allowlist is loaded once; it decides who is to be told of what.
Plan ==
  /\ pc = "plan" /\ Goto("queue")
  /\ todo' = {t \in [person : Person, item : News(cur), searches : SUBSET Search] :
                /\ t.searches # {}
                /\ t.searches = Wanting(runs[cur].query, t.person, t.item)}
  /\ UNCHANGED <<ledger, bank, owner, day, batch, cur, try, touched, budget>>

\* What the recipient was sent before is not queued.
Look(t) ==
  /\ pc = "queue" /\ t \in todo
  /\ todo' = todo \ {t}
  /\ IF <<t.person, t.item[1]>> \in bank
     THEN UNCHANGED <<try, pc>>
     ELSE try' = t /\ Goto("try")
  /\ UNCHANGED <<ledger, bank, owner, day, batch, cur, touched, budget>>

\* The search tried next: searches are tried in the order of the profile.
First(S) == CHOOSE s \in S : \A t \in S : Rank[s] <= Rank[t]

\* Mutation: the idempotency key has the search in it.
KeyWithSearch(x) == <<x.person, x.item, x.search>>

\* _idempotency_key: the person and the event, whatever search it matched.
Key(x) == <<x.person, x.item>>

Alert(s) ==
  [person |-> try.person, item |-> try.item, search |-> s, day |-> day, status |-> "shadow"]

Queued(s) == \E x \in outbox : Key(x) = Key(Alert(s))

\* Mutation: only the rows that still wait count.
UsedByShadow(s) ==
  Cardinality({x \in outbox : x.search = s /\ x.day = day /\ x.status = "shadow"})

Used(s) ==
  Cardinality({x \in outbox : x.search = s /\ x.day = day /\ x.status # "cancelled"})

Queue ==
  /\ pc = "try" /\ try' = NoTry /\ Goto("queue")
  /\ LET s == First(try.searches)
     IN \/ Queued(s) /\ UNCHANGED outbox
        \/ ~Queued(s) /\ Used(s) < Cap /\ outbox' = outbox \cup {Alert(s)}
  /\ UNCHANGED <<base, runs, events, bank, owner, day, batch, cur, todo, touched, budget>>

\* Mutation: the last search is not the last.
CapTriesOn ==
  /\ pc = "try"
  /\ LET s == First(try.searches)
     IN /\ ~Queued(s) /\ Used(s) >= Cap
        /\ try' = [try EXCEPT !.searches = @ \ {s}]
  /\ UNCHANGED <<ledger, bank, owner, day, pc, batch, cur, todo, touched, budget>>

\* The cap of the search is reached: its next search is tried, if there is one.
CapReached ==
  /\ pc = "try"
  /\ LET s == First(try.searches)
         others == try.searches \ {s}
     IN /\ ~Queued(s) /\ Used(s) >= Cap
        /\ IF others = {} THEN try' = NoTry /\ Goto("queue")
           ELSE try' = [try EXCEPT !.searches = others] /\ UNCHANGED pc
  /\ UNCHANGED <<ledger, bank, owner, day, batch, cur, todo, touched, budget>>

\* Mutation: the run is marked before its alerts are queued.
MarkEarly ==
  /\ pc = "queue" /\ Goto("observe")
  /\ runs' = [runs EXCEPT ![cur].status = "processed"]
  /\ batch' = batch \ {cur} /\ cur' = 0 /\ todo' = {}
  /\ UNCHANGED <<base, events, outbox, bank, owner, day, try, touched, budget>>

\* mark_source_run_processed
Mark ==
  /\ pc = "queue" /\ todo = {} /\ Goto("observe")
  /\ runs' = [runs EXCEPT ![cur].status = "processed"]
  /\ batch' = batch \ {cur} /\ cur' = 0
  /\ UNCHANGED <<base, events, outbox, bank, owner, day, todo, try, touched, budget>>

\* Ages are counted in whole days.
Old(d) == d + Retention <= day

\* prune_history, at the end of the tick: a run goes with its observations and
\* events.
EndTick ==
  /\ pc = "observe" /\ batch = {} /\ Goto("idle")
  /\ LET gone == {r \in Runs : runs[r].status \in {"failed", "processed"} /\ Old(runs[r].day)}
     IN /\ runs' = [r \in Runs |-> IF r \in gone THEN [runs[r] EXCEPT !.status = "pruned"]
                                   ELSE runs[r]]
        /\ events' = {e \in events : e.run \notin gone}
  /\ outbox' = {x \in outbox : ~(x.status \in {"sent", "cancelled"} /\ Old(x.day))}
  /\ UNCHANGED <<base, bank, owner, day, batch, cur, todo, try, touched, budget>>

\* A shadow cycle processes and does not prune.
EndCycle ==
  /\ pc = "observe" /\ batch = {} /\ Goto("idle")
  /\ UNCHANGED <<ledger, bank, owner, day, batch, cur, todo, try, touched, budget>>

\* The tick dies, or an exception ends its processing.
Crash ==
  /\ pc # "idle" /\ Goto("idle")
  /\ batch' = {} /\ cur' = 0 /\ todo' = {} /\ try' = NoTry
  /\ crashes < MaxCrashes /\ crashes' = crashes + 1
  /\ UNCHANGED <<ledger, bank, owner, day, touched, edits>>
-----------------------------------------------------------------------------
(* Around the tick. *)

NewDay ==
  /\ pc = "idle" /\ day < MaxDays /\ day' = day + 1
  /\ UNCHANGED <<ledger, bank, owner, tick, budget>>

\* The delivery worker, under run.lock as well, sends a row or cancels it.
Deliver(x) ==
  /\ pc = "idle" /\ x \in outbox /\ x.status = "shadow"
  /\ \/ /\ x.person \in listed
        /\ outbox' = (outbox \ {x}) \cup {[x EXCEPT !.status = "sent"]}
        /\ bank' = bank \cup {<<x.person, x.item[1]>>}
     \/ /\ outbox' = (outbox \ {x}) \cup {[x EXCEPT !.status = "cancelled"]}
        /\ UNCHANGED bank
  /\ UNCHANGED <<base, runs, events, owner, day, tick, budget>>

Edit == edits < MaxEdits /\ edits' = edits + 1 /\ UNCHANGED crashes

\* Test Push delivers without run.lock.
TestPush(p, h) ==
  /\ Edit /\ p \in listed
  /\ bank' = bank \cup {<<p, h>>}
  /\ UNCHANGED <<ledger, owner, day, tick>>

\* Mutation: an unprocessed run does not keep the owner from resetting.
ResetAnyway(q) ==
  /\ Edit
  /\ base' = [base EXCEPT ![q] = "reset_pending"]
  /\ UNCHANGED <<runs, events, outbox, bank, owner, day, tick>>

\* reset_query_baseline
Reset(q) ==
  /\ Edit /\ ~InFlight(q)
  /\ base' = [base EXCEPT ![q] = "reset_pending"]
  /\ UNCHANGED <<runs, events, outbox, bank, owner, day, tick>>

\* remove_person, the writes to its rows, the allowlist and the ledger at once.
Remove(p) ==
  /\ Edit /\ p \in listed
  /\ outbox' = {IF x.person = p /\ x.status = "shadow" THEN [x EXCEPT !.status = "cancelled"]
                ELSE x : x \in outbox}
  /\ listed' = listed \ {p}
  /\ bank' = {b \in bank : b[1] # p}
  /\ touched' = touched \cup {p}
  /\ UNCHANGED <<base, runs, events, active, day, pc, batch, cur, todo, try>>

\* A search is paused, or taken up again.
Switch(s) ==
  /\ Edit /\ OwnerOf[s] \in listed
  /\ active' = IF s \in active THEN active \ {s} ELSE active \cup {s}
  /\ touched' = touched \cup {OwnerOf[s]}
  /\ UNCHANGED <<ledger, bank, listed, day, pc, batch, cur, todo, try>>
-----------------------------------------------------------------------------
Next ==
  \/ Begin \/ EndCollect \/ Plan \/ Queue \/ CapReached \/ Mark \/ EndTick \/ EndCycle \/ Crash \/ NewDay
  \/ \E q \in Query : StartRun(q) \/ Reset(q)
  \/ \E r \in Runs : Observe(r) \/ \E d \in Datasets : FinishRun(r, d)
  \/ \E t \in todo : Look(t)
  \/ \E x \in outbox : Deliver(x)
  \/ \E p \in Person : Remove(p) \/ \E h \in Home : TestPush(p, h)
  \/ \E s \in Search : Switch(s)

Spec == Init /\ [][Next]_vars
-----------------------------------------------------------------------------
(* Properties *)

\* Every variable has its type.
TypeOK ==
  /\ base \in [Query -> {"pending", "established", "reset_pending"}]
  /\ Len(runs) <= MaxRuns
  /\ \A r \in Runs : /\ runs[r].query \in Query /\ runs[r].items \in Datasets \cup {<<>>}
                     /\ runs[r].status \in {"running", "succeeded", "failed", "processed", "pruned"}
                     /\ runs[r].day \in 1..MaxDays /\ runs[r].silent \in BOOLEAN
  /\ events \subseteq [run : Runs, item : Item, type : Types]
  /\ outbox \subseteq [person : Person, item : Item, search : Search, day : 1..MaxDays,
                       status : {"shadow", "sent", "cancelled"}]
  /\ bank \subseteq Person \X Home
  /\ listed \subseteq Person /\ active \subseteq Search
  /\ day \in 1..MaxDays
  /\ pc \in {"idle", "collect", "observe", "plan", "queue", "try"}
  /\ batch \subseteq Runs /\ cur \in Runs \cup {0}
  /\ (pc \in {"plan", "queue", "try"}) = (cur \in batch)
  /\ try.searches \subseteq Search /\ (pc = "try") = (try.searches # {})
  /\ crashes \in 0..MaxCrashes /\ edits \in 0..MaxEdits

\* A run that is observed again after a crash says of every listing what it
\* said before, although the scope's baseline and history have changed since.
ReplaySaysTheSame ==
  [][\A r \in Runs : EventsOf(r) # {} /\ runs'[r].status # "pruned" => EventsOf(r)' = EventsOf(r)]_vars

\* Whether a run is a silent baseline is settled when it is started: a reset, or
\* another run, never silences or opens a run that was paid for before it.
SilenceIsSettledAtStart ==
  \A e \in events : e.type = "baseline" <=> runs[e.run].silent

\* A listing is news to a scope only if nothing the ledger retains shows that the
\* scope has seen it before, in whatever version.
NewsOnlyOnce ==
  \A e, f \in events :
    e.type = "new" /\ f # e /\ runs[e.run].query = runs[f.run].query /\ e.item[1] = f.item[1]
      => f.run > e.run \/ (f.run = e.run /\ f.type # "new")

\* Several searches and scopes may match one event: a person has one alert of it.
OneAlertPerEvent ==
  \A x, y \in outbox : x.person = y.person /\ x.item = y.item => x = y

\* No search is given more alerts a day than its cap, in whatever state they are
\* and however often a run was processed.
CapHolds ==
  \A s \in Search, d \in 1..MaxDays :
    Cardinality({x \in outbox : x.search = s /\ x.day = d /\ x.status # "cancelled"}) <= Cap

\* A run is done with only when everyone who waits for its news is served: the
\* alert is queued, the listing is theirs already, or their caps are reached.
\* Crashes between the event and the alert lose nothing.
ProcessedIsAnswered ==
  [][\A r \in Runs : runs[r].status = "succeeded" /\ runs'[r].status = "processed" =>
       \A p \in Person \ touched, item \in News(r) :
         LET wanting == Wanting(runs[r].query, p, item)
         IN \/ wanting = {} \/ <<p, item[1]>> \in bank
            \/ \E x \in outbox : x.person = p /\ x.item = item
            \/ \A s \in wanting : Used(s) >= Cap]_vars
=============================================================================
