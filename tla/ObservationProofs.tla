-------------------------- MODULE ObservationProofs ---------------------------
(***************************************************************************)
(* Proofs about Observation, for any scopes, searches, people, datasets    *)
(* and bounds.  Inv has three parts: the history of the scopes (base, runs *)
(* and events), which six actions write; the place of the tick; and the    *)
(* outbox, with the account of who still waits for the news of the run     *)
(* that is processed.                                                      *)
(***************************************************************************)
EXTENDS Observation, TLAPS, FiniteSetTheorems

Statuses == {"running", "succeeded", "failed", "processed", "pruned"}
Run == [query : Query, status : Statuses, items : Datasets \cup {<<>>}, day : 1..MaxDays,
        silent : BOOLEAN]
Row == [person : Person, item : Item, search : Search, day : 1..MaxDays,
        status : {"shadow", "sent", "cancelled"}]
Jobs == [person : Person, item : Item, searches : SUBSET Search]
Working == {"plan", "queue", "try"}

HistoryTypes ==
  /\ base \in [Query -> {"pending", "established", "reset_pending"}]
  /\ runs \in Seq(Run) /\ Len(runs) <= MaxRuns
  /\ events \subseteq [run : Runs, item : Item, type : Types]

Open(r) == runs[r].status \in {"running", "succeeded"}

\* A scope has one open run at most, and it is the last of the scope.
OneOpenRun == \A r, u \in Runs : runs[r].query = runs[u].query /\ r < u => ~Open(r)

\* A run's listings are judged all at once: it has an event for each or for none.
Judgements ==
  /\ \A r \in Runs : runs[r].status = "running" => runs[r].items = <<>>
  /\ \A e \in events :
       /\ runs[e.run].status \in {"succeeded", "processed"}
       /\ \E i \in DOMAIN runs[e.run].items : e.item = runs[e.run].items[i]
  /\ \A r \in Runs : EventsOf(r) # {} =>
       \A i \in DOMAIN runs[r].items : \E e \in EventsOf(r) : e.item = runs[r].items[i]

\* Until its listings are judged an open run is silent just when the baseline of
\* its scope is not established.
Silence ==
  \A r \in Runs : Open(r) =>
    \/ EventsOf(r) # {}
    \/ runs[r].status = "succeeded" /\ runs[r].items = <<>>
    \/ runs[r].silent <=> base[runs[r].query] # "established"

History ==
  /\ HistoryTypes /\ OneOpenRun /\ Judgements /\ Silence
  /\ SilenceIsSettledAtStart /\ NewsOnlyOnce

\* Where the tick is, and what it has in hand there.
Place ==
  /\ pc \in {"idle", "collect", "observe", "plan", "queue", "try"}
  /\ pc # "try" => try = NoTry
  /\ pc = "try" => try \in Jobs /\ try.searches # {}
  /\ todo \subseteq Jobs /\ \A t \in todo : t.searches # {}
  /\ pc \notin {"queue", "try"} => todo = {}
  /\ pc = "idle" => batch = {}
  /\ batch \subseteq Runs
  /\ IF pc \in Working THEN cur \in batch ELSE cur = 0
  /\ \A r \in batch : runs[r].status = "succeeded"
-----------------------------------------------------------------------------
(* What is chosen and what is written. *)

\* The search tried first is one of those that are left.
LEMMA FirstIsLeast ==
  ASSUME NEW S \in SUBSET Search, S # {}
  PROVE  First(S) \in S /\ \A t \in S : Rank[First(S)] <= Rank[t]
<1> DEFINE Downs == {0..Rank[s] : s \in S}
<1>1. \A s \in S : Rank[s] \in Nat
  BY SearchAssumption
<1>2. Downs \subseteq FiniteSubsetsOf(Nat) /\ Downs # {}
  <2>1. \A s \in S : IsFiniteSet(0..Rank[s])
    BY <1>1, FS_Interval
  <2>2. \A s \in S : 0..Rank[s] \subseteq Nat
    BY <1>1
  <2> QED
    BY <2>1, <2>2 DEF FiniteSubsetsOf
<1>3. PICK D \in Downs : \A C \in Downs : <<C, D>> \notin StrictSubsetOrdering(Nat)
  <2> HIDE DEF Downs
  <2> QED
    BY <1>2, FS_StrictSubsetOrderingWellFounded, WFMin
<1>4. PICK s \in S : D = 0..Rank[s]
  BY <1>3
<1>5. ASSUME NEW t \in S, Rank[t] < Rank[s]  PROVE FALSE
  <2>1. 0..Rank[t] \subseteq 0..Rank[s] /\ 0..Rank[t] \subseteq Nat /\ 0..Rank[s] \subseteq Nat
    BY <1>1, <1>5
  <2>2. Rank[s] \in 0..Rank[s] /\ Rank[s] \notin 0..Rank[t]
    BY <1>1, <1>5
  <2>3. <<0..Rank[t], D>> \notin StrictSubsetOrdering(Nat)
    BY <1>3
  <2> QED
    BY <2>1, <2>2, <2>3, <1>4 DEF StrictSubsetOrdering
<1>6. \A t \in S : Rank[s] <= Rank[t]
  BY <1>1, <1>5
<1> QED
  BY <1>6 DEF First

\* What a run in the ledger is made of.
LEMMA RunParts ==
  ASSUME HistoryTypes, NEW r \in Runs
  PROVE  /\ runs[r] \in Run /\ runs[r].query \in Query /\ runs[r].items \in Seq(Item)
         /\ r \in Nat
<1>1. runs[r] \in Run /\ r \in Nat
  BY DEF HistoryTypes, Runs
<1>2. runs[r].query \in Query /\ runs[r].items \in Datasets \cup {<<>>}
  BY <1>1 DEF Run
<1>3. <<>> \in Seq(Item) /\ \A d \in Datasets : d \in Seq(Item)
  BY DatasetAssumption
<1> QED
  BY <1>1, <1>2, <1>3

\* A run that takes another status, and one that takes its dataset, is still a run,
\* and the others are as they were.
LEMMA RunRewritten ==
  ASSUME NEW f \in Seq(Run), NEW r \in DOMAIN f, NEW w \in Run
  PROVE  LET g == [f EXCEPT ![r] = w]
         IN g \in Seq(Run) /\ DOMAIN g = DOMAIN f /\ Len(g) = Len(f)
<1> QED
  BY DEF Run

LEMMA MarkWrites ==
  ASSUME NEW f \in Seq(Run), NEW r \in DOMAIN f, NEW x \in Statuses
  PROVE  LET g == [f EXCEPT ![r].status = x]
         IN /\ g \in Seq(Run) /\ DOMAIN g = DOMAIN f /\ Len(g) = Len(f)
            /\ \A u \in DOMAIN f : u # r => g[u] = f[u]
            /\ g[r] = [f[r] EXCEPT !.status = x]
<1> DEFINE w == [f[r] EXCEPT !.status = x]
<1>1. f[r] \in Run
  OBVIOUS
<1>2. w \in Run
  BY <1>1 DEF Run
<1>3. [f EXCEPT ![r].status = x] = [f EXCEPT ![r] = w]
  OBVIOUS
<1> HIDE DEF w
<1>4. [f EXCEPT ![r] = w][r] = w
  OBVIOUS
<1> QED
  BY <1>2, <1>3, <1>4, RunRewritten DEF w

\* A dataset comes with the status "succeeded".
LEMMA DatasetWrites ==
  ASSUME NEW f \in Seq(Run), NEW r \in DOMAIN f, NEW d \in Datasets, NEW n \in 1..MaxDays
  PROVE  LET g == [f EXCEPT ![r].status = "succeeded", ![r].items = d, ![r].day = n]
         IN /\ g \in Seq(Run) /\ DOMAIN g = DOMAIN f /\ Len(g) = Len(f)
            /\ \A u \in DOMAIN f : u # r => g[u] = f[u]
            /\ g[r] = [f[r] EXCEPT !.status = "succeeded", !.items = d, !.day = n]
<1> DEFINE w == [f[r] EXCEPT !.status = "succeeded", !.items = d, !.day = n]
<1>1. f[r] \in Run
  OBVIOUS
<1>2. w \in Run
  BY <1>1 DEF Run, Statuses
<1>3. [f EXCEPT ![r].status = "succeeded", ![r].items = d, ![r].day = n] = [f EXCEPT ![r] = w]
  OBVIOUS
<1> HIDE DEF w
<1>4. [f EXCEPT ![r] = w][r] = w
  OBVIOUS
<1> QED
  BY <1>2, <1>3, <1>4, RunRewritten DEF w

\* A run without a dataset is "failed".
LEMMA FailureWrites ==
  ASSUME NEW f \in Seq(Run), NEW r \in DOMAIN f, NEW n \in 1..MaxDays
  PROVE  LET g == [f EXCEPT ![r].status = "failed", ![r].day = n]
         IN /\ g \in Seq(Run) /\ DOMAIN g = DOMAIN f /\ Len(g) = Len(f)
            /\ \A u \in DOMAIN f : u # r => g[u] = f[u]
            /\ g[r] = [f[r] EXCEPT !.status = "failed", !.day = n]
<1> DEFINE w == [f[r] EXCEPT !.status = "failed", !.day = n]
<1>1. f[r] \in Run
  OBVIOUS
<1>2. w \in Run
  BY <1>1 DEF Run, Statuses
<1>3. [f EXCEPT ![r].status = "failed", ![r].day = n] = [f EXCEPT ![r] = w]
  OBVIOUS
<1> HIDE DEF w
<1>4. [f EXCEPT ![r] = w][r] = w
  OBVIOUS
<1> QED
  BY <1>2, <1>3, <1>4, RunRewritten DEF w

\* A run that is started comes after those there are, and is silent as its
\* scope's baseline asks.
LEMMA StartWrites ==
  ASSUME HistoryTypes, day \in 1..MaxDays, NEW q \in Query, StartRun(q)
  PROVE  LET n == Len(runs) + 1
         IN /\ runs' \in Seq(Run) /\ Len(runs') = n /\ n <= MaxRuns
            /\ DOMAIN runs' = Runs \cup {n} /\ n \notin Runs
            /\ \A u \in Runs : runs'[u] = runs[u]
            /\ runs'[n].query = q /\ runs'[n].status = "running" /\ runs'[n].items = <<>>
            /\ runs'[n].silent <=> base[q] # "established"
<1> DEFINE w == [query |-> q, status |-> "running", items |-> <<>>, day |-> day,
                 silent |-> base[q] # "established"]
<1>1. w.silent \in BOOLEAN /\ (w.silent <=> base[q] # "established")
  BY Zenon
<1>2. w.query = q /\ w.status = "running" /\ w.items = <<>>
  OBVIOUS
<1>3. w \in Run
  <2>1. (base[q] # "established") \in BOOLEAN
    BY Zenon
  <2> DEFINE b == base[q] # "established"
  <2>2. b \in BOOLEAN
    BY <2>1
  <2> HIDE DEF b
  <2>3. [query |-> q, status |-> "running", items |-> <<>>, day |-> day, silent |-> b] \in Run
    BY <2>2 DEF Run, Statuses
  <2> QED
    BY <2>3 DEF b
<1>4. runs' = Append(runs, w) /\ Len(runs) < MaxRuns
  BY DEF StartRun
<1> HIDE DEF w
<1>5. /\ runs' \in Seq(Run) /\ Len(runs') = Len(runs) + 1
      /\ DOMAIN runs' = Runs \cup {Len(runs) + 1} /\ Len(runs) + 1 \notin Runs
      /\ \A u \in Runs : runs'[u] = runs[u]
      /\ runs'[Len(runs) + 1] = w
  BY <1>3, <1>4 DEF HistoryTypes, Runs
<1>6. Len(runs) + 1 <= MaxRuns
  BY <1>4, BoundAssumption DEF HistoryTypes
<1> QED
  BY <1>1, <1>2, <1>5, <1>6

\* Pruning takes the judgements of some of the runs that are closed, and leaves
\* those of the others as they are.
LEMMA PruneWrites ==
  ASSUME HistoryTypes, EndTick
  PROVE  /\ runs' \in Seq(Run) /\ DOMAIN runs' = Runs /\ Len(runs') = Len(runs)
         /\ events' \subseteq events
         /\ \A u \in Runs :
              /\ \/ runs'[u] = runs[u] /\ \A e \in events : e.run = u => e \in events'
                 \/ /\ runs[u].status \in {"failed", "processed"}
                    /\ runs'[u] = [runs[u] EXCEPT !.status = "pruned"]
                    /\ \A e \in events' : e.run # u
<1> DEFINE gone == {r \in Runs : runs[r].status \in {"failed", "processed"} /\ Old(runs[r].day)}
           w(r) == IF r \in gone THEN [runs[r] EXCEPT !.status = "pruned"] ELSE runs[r]
<1>1. runs' = [r \in Runs |-> w(r)] /\ events' = {e \in events : e.run \notin gone}
  BY DEF EndTick
<1>2. \A r \in Runs : w(r) \in Run
  <2>1. \A r \in Runs : runs[r] \in Run
    BY DEF HistoryTypes, Runs
  <2> QED
    BY <2>1 DEF Run, Statuses
<1>3. \A r \in gone : runs[r].status \in {"failed", "processed"}
  OBVIOUS
<1>4. \A r \in Runs : IF r \in gone THEN w(r) = [runs[r] EXCEPT !.status = "pruned"]
                      ELSE w(r) = runs[r]
  OBVIOUS
<1> HIDE DEF w, gone
<1>5. Runs = 1..Len(runs) /\ Len(runs) \in Nat
  BY DEF HistoryTypes, Runs
<1>6. runs' \in Seq(Run) /\ DOMAIN runs' = Runs /\ Len(runs') = Len(runs)
  BY <1>1, <1>2, <1>5
<1> QED
  BY <1>1, <1>3, <1>4, <1>6
-----------------------------------------------------------------------------
(* The history of the scopes. *)

\* What may become of a run, and of its judgements with it.
Move(u) ==
  LET kept == \A e \in events : e.run = u => e \in events'
      became(s) == runs'[u].status = s
      same == runs'[u].items = runs[u].items
  IN /\ runs'[u].query = runs[u].query /\ runs'[u].silent = runs[u].silent
     /\ \/ became(runs[u].status) /\ same /\ kept
        \/ runs[u].status = "running" /\ became("succeeded")
        \/ runs[u].status = "running" /\ became("failed")
        \/ runs[u].status = "succeeded" /\ became("processed") /\ same /\ kept
        \/ /\ runs[u].status \in {"failed", "processed"} /\ became("pruned") /\ same
           /\ \A e \in events' : e.run # u

Moves ==
  /\ runs' \in Seq(Run) /\ DOMAIN runs' = Runs /\ Len(runs') = Len(runs)
  /\ events' \subseteq events
  /\ \A u \in Runs : Move(u)

LEMMA MovesKeepHistory ==
  ASSUME History, Moves, base' = base
  PROVE  History'
<1>1. \A e \in events : e.run \in Runs /\ e = [run |-> e.run, item |-> e.item, type |-> e.type]
  BY DEF History, HistoryTypes
<1>2. \A u \in Runs : runs[u].status = "running" => EventsOf(u) = {}
  BY DEF History, Judgements, EventsOf
<1>3. HistoryTypes'
  BY DEF History, HistoryTypes, Moves, Runs
<1>4. OneOpenRun'
  <2>1. \A u \in Runs : runs'[u].query = runs[u].query
    BY DEF Moves, Move
  <2>2. \A u \in Runs : Open(u)' => Open(u)
    BY DEF Moves, Move, Open
  <2> QED
    BY <2>1, <2>2 DEF History, OneOpenRun, Moves, Runs
<1>5. \A e \in events' : /\ e \in events /\ e.run \in Runs
                         /\ runs[e.run].status \in {"succeeded", "processed"}
                         /\ runs'[e.run].status \in {"succeeded", "processed"}
                         /\ runs'[e.run].items = runs[e.run].items
                         /\ runs'[e.run].query = runs[e.run].query
                         /\ runs'[e.run].silent = runs[e.run].silent
                         /\ \A f \in events : f.run = e.run => f \in events'
  BY <1>1 DEF History, Judgements, Moves, Move
<1>6. Judgements'
  <2>1. ASSUME NEW r \in Runs, runs'[r].status = "running"  PROVE runs'[r].items = <<>>
    BY <2>1 DEF History, Judgements, Moves, Move
  <2>2. ASSUME NEW e \in events'
        PROVE  /\ runs'[e.run].status \in {"succeeded", "processed"}
               /\ \E i \in DOMAIN runs'[e.run].items : e.item = runs'[e.run].items[i]
    BY <1>5 DEF History, Judgements
  <2>3. ASSUME NEW r \in Runs, EventsOf(r)' # {}, NEW i \in DOMAIN runs'[r].items
        PROVE  \E e \in EventsOf(r)' : e.item = runs'[r].items[i]
    <3>1. PICK f \in events' : f.run = r
      BY <2>3 DEF EventsOf
    <3>2. f \in EventsOf(r) /\ i \in DOMAIN runs[r].items /\ runs'[r].items = runs[r].items
      BY <1>5, <3>1, <2>3 DEF EventsOf
    <3>3. PICK e \in EventsOf(r) : e.item = runs[r].items[i]
      BY <3>2 DEF History, Judgements
    <3>4. e \in EventsOf(r)'
      BY <3>3, <3>1, <1>5 DEF EventsOf
    <3> QED
      BY <3>2, <3>3, <3>4
  <2> QED
    BY <2>1, <2>2, <2>3 DEF Judgements, Moves, Runs
<1>7. Silence'
  <2> SUFFICES ASSUME NEW r \in Runs, Open(r)'
               PROVE  \/ EventsOf(r)' # {}
                      \/ runs'[r].status = "succeeded" /\ runs'[r].items = <<>>
                      \/ runs'[r].silent <=> base[runs'[r].query] # "established"
    BY DEF Silence, Moves, Runs
  <2>1. Open(r) /\ runs'[r].silent = runs[r].silent /\ runs'[r].query = runs[r].query
    BY DEF Moves, Move, Open
  <2>2. CASE EventsOf(r) # {}
    <3>1. runs[r].status # "running"
      BY <1>2, <2>2
    <3>2. \A e \in events : e.run = r => e \in events'
      BY <3>1, <2>1 DEF Moves, Move, Open
    <3> QED
      BY <3>2, <2>2 DEF EventsOf
  <2>3. CASE runs[r].status = "succeeded" /\ runs[r].items = <<>>
    BY <2>3 DEF Moves, Move, Open
  <2>4. CASE runs[r].silent <=> base[runs[r].query] # "established"
    BY <2>1, <2>4
  <2> QED
    BY <2>1, <2>2, <2>3, <2>4 DEF History, Silence
<1>8. SilenceIsSettledAtStart'
  BY <1>5 DEF History, SilenceIsSettledAtStart
<1>9. NewsOnlyOnce'
  BY <1>5 DEF History, NewsOnlyOnce
<1> QED
  BY <1>3, <1>4, <1>6, <1>7, <1>8, <1>9 DEF History

LEMMA FinishMoves ==
  ASSUME History, day \in 1..MaxDays, NEW r \in Runs, NEW d \in Datasets, FinishRun(r, d)
  PROVE  Moves
<1>1. runs[r].status = "running" /\ events' = events /\ runs \in Seq(Run)
  BY DEF FinishRun, History, HistoryTypes
<1>2. \A u \in Runs : runs[u] \in Run
  BY <1>1 DEF Runs
<1>3. CASE runs' = [runs EXCEPT ![r].status = "succeeded", ![r].items = d, ![r].day = day]
  <2>1. /\ runs' \in Seq(Run) /\ DOMAIN runs' = Runs /\ Len(runs') = Len(runs)
        /\ \A u \in Runs : u # r => runs'[u] = runs[u]
        /\ runs'[r] = [runs[r] EXCEPT !.status = "succeeded", !.items = d, !.day = day]
    <3> DEFINE g == [runs EXCEPT ![r].status = "succeeded", ![r].items = d, ![r].day = day]
    <3>1. /\ g \in Seq(Run) /\ DOMAIN g = DOMAIN runs /\ Len(g) = Len(runs)
          /\ \A u \in DOMAIN runs : u # r => g[u] = runs[u]
          /\ g[r] = [runs[r] EXCEPT !.status = "succeeded", !.items = d, !.day = day]
      <4>1. r \in DOMAIN runs
        BY DEF Runs
      <4> QED
        BY ONLY <1>1, <4>1, d \in Datasets, day \in 1..MaxDays, DatasetWrites
    <3>2. runs' = g
      BY <1>3
    <3> HIDE DEF g
    <3> QED
      BY <3>1, <3>2 DEF Runs
  <2>2. Move(r)
    BY <1>1, <1>2, <2>1 DEF Move, Run
  <2>3. \A u \in Runs : u # r => Move(u)
    BY <1>1, <2>1 DEF Move
  <2> QED
    BY <1>1, <2>1, <2>2, <2>3 DEF Moves
<1>4. CASE runs' = [runs EXCEPT ![r].status = "failed", ![r].day = day]
  <2>1. /\ runs' \in Seq(Run) /\ DOMAIN runs' = Runs /\ Len(runs') = Len(runs)
        /\ \A u \in Runs : u # r => runs'[u] = runs[u]
        /\ runs'[r] = [runs[r] EXCEPT !.status = "failed", !.day = day]
    <3> DEFINE g == [runs EXCEPT ![r].status = "failed", ![r].day = day]
    <3>1. /\ g \in Seq(Run) /\ DOMAIN g = DOMAIN runs /\ Len(g) = Len(runs)
          /\ \A u \in DOMAIN runs : u # r => g[u] = runs[u]
          /\ g[r] = [runs[r] EXCEPT !.status = "failed", !.day = day]
      <4>1. r \in DOMAIN runs
        BY DEF Runs
      <4> QED
        BY ONLY <1>1, <4>1, d \in Datasets, day \in 1..MaxDays, FailureWrites
    <3>2. runs' = g
      BY <1>4
    <3> HIDE DEF g
    <3> QED
      BY <3>1, <3>2 DEF Runs
  <2>2. Move(r)
    BY <1>1, <1>2, <2>1 DEF Move, Run
  <2>3. \A u \in Runs : u # r => Move(u)
    BY <1>1, <2>1 DEF Move
  <2> QED
    BY <1>1, <2>1, <2>2, <2>3 DEF Moves
<1> QED
  BY <1>3, <1>4 DEF FinishRun

LEMMA MarkMoves ==
  ASSUME History, Place, Mark
  PROVE  Moves
<1>1. cur \in Runs /\ runs[cur].status = "succeeded" /\ events' = events /\ runs \in Seq(Run)
  BY DEF Mark, Place, Working, History, HistoryTypes
<1>2. \A u \in Runs : runs[u] \in Run
  BY <1>1 DEF Runs
<1>3. /\ runs' \in Seq(Run) /\ DOMAIN runs' = Runs /\ Len(runs') = Len(runs)
      /\ \A u \in Runs : u # cur => runs'[u] = runs[u]
      /\ runs'[cur] = [runs[cur] EXCEPT !.status = "processed"]
  BY <1>1, MarkWrites DEF Runs, Mark, Statuses
<1>4. Move(cur)
  BY <1>1, <1>2, <1>3 DEF Move, Run
<1>5. \A u \in Runs : u # cur => Move(u)
  BY <1>1, <1>3 DEF Move
<1> QED
  BY <1>1, <1>3, <1>4, <1>5 DEF Moves

LEMMA EndTickMoves ==
  ASSUME History, EndTick
  PROVE  Moves
<1>1. \A u \in Runs : runs[u] \in Run
  BY DEF Runs, History, HistoryTypes
<1> QED
  BY <1>1, PruneWrites DEF Moves, Move, Run, History

LEMMA StartKeepsHistory ==
  ASSUME History, day \in 1..MaxDays, NEW q \in Query, StartRun(q)
  PROVE  History'
<1> DEFINE n == Len(runs) + 1
<1>1. /\ runs' \in Seq(Run) /\ Len(runs') = n /\ n <= MaxRuns
      /\ DOMAIN runs' = Runs \cup {n} /\ n \notin Runs
      /\ \A u \in Runs : runs'[u] = runs[u]
      /\ runs'[n].query = q /\ runs'[n].status = "running" /\ runs'[n].items = <<>>
      /\ runs'[n].silent <=> base[q] # "established"
  BY StartWrites DEF History
<1>2. base' = base /\ events' = events /\ ~InFlight(q)
  BY DEF StartRun
<1>3. \A u \in Runs : u < n
  BY DEF Runs, History, HistoryTypes
<1>4. \A e \in events : e.run \in Runs
  BY DEF History, HistoryTypes
<1> HIDE DEF n
<1>5. HistoryTypes'
  BY <1>1, <1>2 DEF History, HistoryTypes, Runs
<1>6. OneOpenRun'
  <2>1. \A u \in Runs : runs[u].query = q => ~Open(u)
    BY <1>2 DEF InFlight, Open
  <2>2. \A u \in Runs : Open(u)' <=> Open(u)
    BY <1>1 DEF Open
  <2>3. ASSUME NEW r \in DOMAIN runs', NEW u \in DOMAIN runs',
               runs'[r].query = runs'[u].query, r < u, Open(r)'
        PROVE  FALSE
    <3>1. r \in Runs
      <4>1. r = n => u \in Runs
        BY <1>1, <2>3
      <4>2. n \in Nat /\ \A v \in Runs : v \in Nat
        BY DEF n, History, HistoryTypes, Runs
      <4> QED
        BY <1>1, <1>3, <2>3, <4>1, <4>2
    <3> QED
      BY <1>1, <2>1, <2>2, <2>3, <3>1 DEF History, OneOpenRun
  <2> QED
    BY <2>3 DEF OneOpenRun, Runs
<1>7. Judgements'
  BY <1>1, <1>2, <1>4 DEF History, Judgements, EventsOf, Runs
<1>8. Silence'
  BY <1>1, <1>2 DEF History, Silence, EventsOf, Runs, Open
<1>9. SilenceIsSettledAtStart' /\ NewsOnlyOnce'
  BY <1>1, <1>2, <1>4 DEF History, SilenceIsSettledAtStart, NewsOnlyOnce
<1> QED
  BY <1>5, <1>6, <1>7, <1>8, <1>9 DEF History

LEMMA ResetKeepsHistory ==
  ASSUME History, NEW q \in Query, Reset(q)
  PROVE  History'
<1>1. /\ runs' = runs /\ events' = events /\ ~InFlight(q)
      /\ base' = [base EXCEPT ![q] = "reset_pending"]
  BY DEF Reset
<1>2. HistoryTypes' /\ OneOpenRun' /\ Judgements' /\ SilenceIsSettledAtStart' /\ NewsOnlyOnce'
  BY <1>1 DEF History, HistoryTypes, OneOpenRun, Judgements, SilenceIsSettledAtStart,
     NewsOnlyOnce, Runs, EventsOf, Open
<1>3. Silence'
  <2>1. \A r \in Runs : Open(r) => runs[r].query # q
    BY <1>1 DEF InFlight, Open
  <2>2. \A r \in Runs : Open(r) => base'[runs[r].query] = base[runs[r].query]
    BY <1>1, <2>1 DEF History, HistoryTypes, Runs, Run
  <2> QED
    BY <1>1, <2>2 DEF History, Silence, Runs, EventsOf, Open
<1> QED
  BY <1>2, <1>3 DEF History

\* What the kind of a listing says: silent or not, and whether it was seen before.
LEMMA KindSays ==
  ASSUME NEW r, NEW i
  PROVE  /\ Kind(r, i) \in Types
         /\ Kind(r, i) = "baseline" <=> base[runs[r].query] # "established"
         /\ Kind(r, i) = "new" <=> /\ base[runs[r].query] = "established"
                                  /\ \A s \in Before(r, i) : s[1] # runs[r].items[i][1]
<1>1. CASE IsBaseline(r)
  <2>1. Kind(r, i) = "baseline"
    BY <1>1 DEF Kind
  <2> QED
    BY <1>1, <2>1 DEF IsBaseline, Types
<1>2. CASE ~IsBaseline(r) /\ ~ScopeSeen(r, i)
  <2>1. Kind(r, i) = "new"
    BY <1>2 DEF Kind
  <2> QED
    BY <1>2, <2>1 DEF IsBaseline, ScopeSeen, Types
<1>3. CASE ~IsBaseline(r) /\ ScopeSeen(r, i)
  <2>1. Kind(r, i) \in {"change", "duplicate"}
    BY <1>3 DEF Kind
  <2> QED
    BY <1>3, <2>1 DEF IsBaseline, ScopeSeen, Types
<1>4. IsBaseline(r) \/ (~IsBaseline(r) /\ ~ScopeSeen(r, i)) \/ (~IsBaseline(r) /\ ScopeSeen(r, i))
  OBVIOUS
<1> QED
  BY ONLY <1>1, <1>2, <1>3, <1>4

\* Observing a run again changes nothing; the first time it judges every listing.
LEMMA JudgedAtOnce ==
  ASSUME History, NEW r \in Runs
  PROVE  /\ EventsOf(r) # {} => Judged(r) = events
         /\ EventsOf(r) = {} =>
              Judged(r) = events \cup {Event(r, i, Kind(r, i)) : i \in DOMAIN runs[r].items}
<1>1. CASE EventsOf(r) # {}
  <2>1. {j \in DOMAIN runs[r].items : \A e \in EventsOf(r) : e.item # runs[r].items[j]} = {}
    BY <1>1 DEF History, Judgements
  <2> QED
    BY <1>1, <2>1 DEF Judged
<1>2. CASE EventsOf(r) = {}
  <2>1. {j \in DOMAIN runs[r].items : \A e \in EventsOf(r) : e.item # runs[r].items[j]}
          = DOMAIN runs[r].items
    BY <1>2
  <2> QED
    BY <1>2, <2>1 DEF Judged
<1> QED
  BY <1>1, <1>2

\* The first observation: what its events are.
LEMMA FirstJudgement ==
  ASSUME History, NEW r \in Runs, EventsOf(r) = {}, runs[r].status = "succeeded",
         events' = Judged(r)
  PROVE  /\ events \subseteq events'
         /\ \A e \in events' \ events :
              /\ e \in [run : Runs, item : Item, type : Types] /\ e.run = r
              /\ \E i \in DOMAIN runs[r].items : e = Event(r, i, Kind(r, i))
         /\ \A i \in DOMAIN runs[r].items : Event(r, i, Kind(r, i)) \in events'
<1>1. events' = events \cup {Event(r, i, Kind(r, i)) : i \in DOMAIN runs[r].items}
  BY JudgedAtOnce
<1>2. runs[r].items \in Seq(Item)
  BY RunParts DEF History
<1>3. \A i \in DOMAIN runs[r].items :
        /\ Event(r, i, Kind(r, i)) \in [run : Runs, item : Item, type : Types]
        /\ Event(r, i, Kind(r, i)).run = r
  <2> SUFFICES ASSUME NEW i \in DOMAIN runs[r].items
               PROVE  /\ Event(r, i, Kind(r, i)) \in [run : Runs, item : Item, type : Types]
                      /\ Event(r, i, Kind(r, i)).run = r
    OBVIOUS
  <2>1. runs[r].items[i] \in Item
    BY <1>2
  <2>2. Kind(r, i) \in Types
    BY KindSays
  <2> QED
    BY <2>1, <2>2 DEF Event
<1> QED
  BY <1>1, <1>3

LEMMA ObserveKeepsHistory ==
  ASSUME History, Place, NEW r \in Runs, Observe(r)
  PROVE  History'
<1>1. /\ runs' = runs /\ events' = Judged(r) /\ runs[r].status = "succeeded"
      /\ base' = [base EXCEPT ![runs[r].query] = "established"]
  BY DEF Observe, Place
<1>2. /\ base' \in [Query -> {"pending", "established", "reset_pending"}]
      /\ base'[runs[r].query] = "established"
      /\ \A q \in Query : q # runs[r].query => base'[q] = base[q]
  BY <1>1, RunParts DEF History, HistoryTypes
<1>3. OneOpenRun'
  BY <1>1 DEF History, OneOpenRun, Open, Runs
<1>4. \A u \in Runs : Open(u) /\ runs[u].query = runs[r].query => u = r
  <2>1. Open(r)
    BY <1>1 DEF Open
  <2>2. \A u \in Runs : u \in Nat
    BY DEF Runs, History, HistoryTypes
  <2> QED
    BY <2>1, <2>2 DEF History, OneOpenRun
<1>5. CASE EventsOf(r) # {}
  <2>1. events' = events
    BY <1>1, <1>5, JudgedAtOnce
  <2>2. HistoryTypes' /\ Judgements' /\ SilenceIsSettledAtStart' /\ NewsOnlyOnce'
    BY <1>1, <1>2, <2>1 DEF History, HistoryTypes, Judgements, SilenceIsSettledAtStart,
       NewsOnlyOnce, Runs, EventsOf
  <2>3. Silence'
    <3>1. \A u \in Runs : Open(u) => EventsOf(u) # {} \/ base'[runs[u].query] = base[runs[u].query]
      BY <1>2, <1>4, <1>5, RunParts DEF History
    <3> QED
      BY <1>1, <2>1, <3>1 DEF History, Silence, Runs, EventsOf, Open
  <2> QED
    BY <1>3, <2>2, <2>3 DEF History
<1>6. CASE EventsOf(r) = {}
  <2>1. /\ events \subseteq events'
        /\ \A e \in events' \ events :
             /\ e \in [run : Runs, item : Item, type : Types] /\ e.run = r
             /\ \E i \in DOMAIN runs[r].items : e = Event(r, i, Kind(r, i))
        /\ \A i \in DOMAIN runs[r].items : Event(r, i, Kind(r, i)) \in events'
    BY <1>1, <1>6, FirstJudgement
  <2>2. HistoryTypes'
    BY <1>1, <1>2, <2>1 DEF History, HistoryTypes, Runs
  <2>3. Judgements'
    <3>1. \A u \in Runs : u # r => EventsOf(u)' = EventsOf(u)
      BY <2>1 DEF EventsOf
    <3>2. \A i \in DOMAIN runs[r].items :
            Event(r, i, Kind(r, i)) \in EventsOf(r)'
              /\ Event(r, i, Kind(r, i)).item = runs[r].items[i]
      BY <2>1 DEF EventsOf, Event
    <3>3. \A e \in events' \ events :
            e.run = r /\ \E i \in DOMAIN runs[r].items : e.item = runs[r].items[i]
      BY <2>1 DEF Event
    <3>4. \A e \in events' :
            /\ runs[e.run].status \in {"succeeded", "processed"}
            /\ \E i \in DOMAIN runs[e.run].items : e.item = runs[e.run].items[i]
      BY <1>1, <3>3 DEF History, Judgements
    <3>5. \A u \in Runs : EventsOf(u)' # {} =>
            \A i \in DOMAIN runs[u].items : \E e \in EventsOf(u)' : e.item = runs[u].items[i]
      BY <3>1, <3>2 DEF History, Judgements
    <3> QED
      BY <1>1, <3>4, <3>5 DEF History, Judgements, Runs
  <2>4. Silence'
    <3>1. \A u \in Runs : EventsOf(u) \subseteq EventsOf(u)'
      BY <2>1 DEF EventsOf
    <3>2. \A u \in Runs : u # r /\ Open(u) => base'[runs[u].query] = base[runs[u].query]
      BY <1>2, <1>4, RunParts DEF History
    <3>3. EventsOf(r)' # {} \/ runs[r].items = <<>>
      <4>1. runs[r].items \in Seq(Item)
        BY RunParts DEF History
      <4>2. ASSUME NEW i \in DOMAIN runs[r].items  PROVE EventsOf(r)' # {}
        <5>1. Event(r, i, Kind(r, i)) \in events' /\ Event(r, i, Kind(r, i)).run = r
          BY <2>1 DEF Event
        <5> QED
          BY <5>1 DEF EventsOf
      <4>3. CASE DOMAIN runs[r].items = {}
        <5>1. DOMAIN runs[r].items = 1..Len(runs[r].items) /\ Len(runs[r].items) \in Nat
          BY <4>1
        <5>2. 1 \notin 1..Len(runs[r].items)
          BY <4>3, <5>1
        <5> QED
          BY <4>1, <5>1, <5>2
      <4> QED
        BY <4>2, <4>3
    <3>4. \A u \in Runs : Open(u) =>
             \/ EventsOf(u)' # {}
             \/ runs[u].status = "succeeded" /\ runs[u].items = <<>>
             \/ runs[u].silent <=> base'[runs[u].query] # "established"
      BY <1>1, <3>1, <3>2, <3>3 DEF History, Silence
    <3> QED
      BY <1>1, <3>4 DEF Silence, Runs, Open
  <2>5. SilenceIsSettledAtStart'
    <3>1. Open(r)
      BY <1>1 DEF Open
    <3>2. DOMAIN runs[r].items # {} => (runs[r].silent <=> base[runs[r].query] # "established")
      BY <1>6, <3>1 DEF History, Silence
    <3>3. \A e \in events' \ events :
            e.run = r /\ (e.type = "baseline" <=> base[runs[r].query] # "established")
               /\ DOMAIN runs[r].items # {}
      BY <2>1, KindSays DEF Event
    <3> QED
      BY <1>1, <3>2, <3>3 DEF History, SilenceIsSettledAtStart
  <2>6. NewsOnlyOnce'
    <3> SUFFICES ASSUME NEW e \in events', NEW f \in events', e.type = "new", f # e,
                        runs[e.run].query = runs[f.run].query, e.item[1] = f.item[1]
                 PROVE  f.run > e.run \/ (f.run = e.run /\ f.type # "new")
      BY <1>1 DEF NewsOnlyOnce
    <3>1. CASE e \in events /\ f \in events
      BY <3>1 DEF History, NewsOnlyOnce
    <3>2. CASE e \notin events /\ f \in events
      <4>1. PICK i \in DOMAIN runs[r].items : e = Event(r, i, Kind(r, i)) /\ e.run = r
        BY <2>1, <3>2
      <4>2. f.item \in Before(r, i)
        BY <3>2, <4>1 DEF Before
      <4>3. e.item = runs[r].items[i] /\ e.type = Kind(r, i)
        BY <4>1 DEF Event
      <4> QED
        BY <4>2, <4>3, KindSays
    <3>3. CASE e \in events /\ f \notin events
      <4>1. f.run = r /\ e.run \in Runs /\ e.run # r
        BY <1>6, <2>1, <3>3 DEF EventsOf, History, HistoryTypes
      <4>2. Open(r) /\ \A u \in Runs : u \in Nat
        BY <1>1 DEF Open, Runs, History, HistoryTypes
      <4> QED
        BY <4>1, <4>2 DEF History, OneOpenRun
    <3>4. CASE e \notin events /\ f \notin events
      <4>1. PICK i \in DOMAIN runs[r].items : e = Event(r, i, Kind(r, i)) /\ e.run = r
        BY <2>1, <3>4
      <4>2. PICK j \in DOMAIN runs[r].items : f = Event(r, j, Kind(r, j)) /\ f.run = r
        BY <2>1, <3>4
      <4>3. /\ e.item = runs[r].items[i] /\ e.type = Kind(r, i)
            /\ f.item = runs[r].items[j] /\ f.type = Kind(r, j)
        BY <4>1, <4>2 DEF Event
      <4>4. i # j /\ i \in Nat \ {0} /\ j \in Nat \ {0}
        <5>1. runs[r].items \in Seq(Item)
          BY RunParts DEF History
        <5> QED
          BY <4>1, <4>2, <5>1
      <4>5. CASE j < i
        <5>1. f.item \in Before(r, i)
          BY <4>3, <4>4, <4>5 DEF Before
        <5> QED
          BY <4>3, <5>1, KindSays
      <4>6. CASE i < j
        <5>1. e.item \in Before(r, j)
          BY <4>3, <4>4, <4>6 DEF Before
        <5>2. Kind(r, j) # "new"
          BY <4>3, <5>1, KindSays
        <5> QED
          BY <4>1, <4>2, <4>3, <5>2
      <4> QED
        BY <4>4, <4>5, <4>6
    <3> QED
      BY <3>1, <3>2, <3>3, <3>4
  <2> QED
    BY <1>3, <2>2, <2>3, <2>4, <2>5, <2>6 DEF History
<1> QED
  BY <1>5, <1>6

\* The steps of the tick between the two ends of a run, and what happens around it.
Aside ==
  \/ Begin \/ EndCollect \/ Plan \/ Queue \/ CapReached \/ EndCycle \/ Crash \/ NewDay
  \/ \E t \in todo : Look(t)
  \/ \E x \in outbox : Deliver(x)
  \/ \E p \in Person : Remove(p) \/ \E h \in Home : TestPush(p, h)
  \/ \E s \in Search : Switch(s)

LEMMA AsideLeavesHistory ==
  ASSUME Aside
  PROVE  base' = base /\ runs' = runs /\ events' = events
<1>1. CASE Begin \/ EndCollect \/ Plan
  BY <1>1 DEF Begin, EndCollect, Plan, ledger
<1>2. CASE Queue \/ CapReached \/ EndCycle \/ Crash \/ NewDay
  BY <1>2 DEF Queue, CapReached, EndCycle, Crash, NewDay, ledger
<1>3. CASE \E t \in todo : Look(t)
  BY <1>3 DEF Look, ledger
<1>4. CASE \E x \in outbox : Deliver(x)
  BY <1>4 DEF Deliver
<1>5. CASE \E p \in Person : Remove(p) \/ \E h \in Home : TestPush(p, h)
  BY <1>5 DEF Remove, TestPush, ledger
<1>6. CASE \E s \in Search : Switch(s)
  BY <1>6 DEF Switch, ledger
<1> QED
  BY ONLY <1>1, <1>2, <1>3, <1>4, <1>5, <1>6, Aside DEF Aside

LEMMA SameHistory ==
  ASSUME History, base' = base, runs' = runs, events' = events
  PROVE  History'
BY DEF History, HistoryTypes, OneOpenRun, Judgements, Silence, SilenceIsSettledAtStart,
   NewsOnlyOnce, Runs, EventsOf, Open

\* Next, with the steps that write the history apart.
LEMMA StepsApart ==
  ASSUME Next
  PROVE  \/ Aside \/ Mark \/ EndTick
         \/ \E q \in Query : StartRun(q) \/ Reset(q)
         \/ \E r \in Runs : Observe(r) \/ \E d \in Datasets : FinishRun(r, d)
BY DEF Next, Aside

LEMMA HistoryStep ==
  ASSUME History, Place, day \in 1..MaxDays, [Next]_vars
  PROVE  History'
<1>1. CASE Aside
  BY <1>1, AsideLeavesHistory, SameHistory
<1>2. CASE Mark
  <2>1. base' = base
    BY <1>2 DEF Mark
  <2> QED
    BY <1>2, <2>1, MarkMoves, MovesKeepHistory
<1>3. CASE EndTick
  <2>1. base' = base
    BY <1>3 DEF EndTick
  <2> QED
    BY <1>3, <2>1, EndTickMoves, MovesKeepHistory
<1>4. CASE \E q \in Query : StartRun(q) \/ Reset(q)
  BY <1>4, StartKeepsHistory, ResetKeepsHistory
<1>5. CASE \E r \in Runs : Observe(r)
  BY <1>5, ObserveKeepsHistory
<1>6. CASE \E r \in Runs : \E d \in Datasets : FinishRun(r, d)
  <2>1. base' = base
    BY <1>6 DEF FinishRun
  <2> QED
    BY <1>6, <2>1, FinishMoves, MovesKeepHistory
<1>7. CASE UNCHANGED vars
  <2>1. base' = base /\ runs' = runs /\ events' = events
    BY <1>7 DEF vars, ledger
  <2> QED
    BY <2>1, SameHistory
<1> QED
  BY <1>1, <1>2, <1>3, <1>4, <1>5, <1>6, <1>7, StepsApart

LEMMA HistoryInit ==
  ASSUME Init
  PROVE  History
<1>1. runs = <<>> /\ events = {} /\ base = [q \in Query |-> "pending"]
  BY DEF Init
<1>2. runs \in Seq(Run) /\ Len(runs) = 0 /\ Runs = {}
  BY <1>1 DEF Runs
<1> QED
  BY <1>1, <1>2, BoundAssumption DEF History, HistoryTypes, OneOpenRun, Judgements, Silence,
     SilenceIsSettledAtStart, NewsOnlyOnce
-----------------------------------------------------------------------------
(* The place of the tick. *)

LEMMA PlaceStep ==
  ASSUME History, Place, day \in 1..MaxDays, [Next]_vars
  PROVE  Place'
<1>1. CASE Begin
  BY <1>1 DEF Begin, Goto, Place, Working, ledger, Runs
<1>2. CASE EndCollect \/ EndCycle
  BY <1>2 DEF EndCollect, EndCycle, Goto, Place, Working, ledger, Runs
<1>3. CASE Crash
  BY <1>3 DEF Crash, Goto, Place, Working, ledger, Runs
<1>4. CASE Plan
  <2>1. /\ pc = "plan" /\ pc' = "queue" /\ batch' = batch /\ cur' = cur /\ try' = try
        /\ runs' = runs
    BY <1>4 DEF Plan, Goto, ledger
  <2>2. \A t \in todo' : t \in [person : Person, item : News(cur), searches : SUBSET Search]
    BY <1>4 DEF Plan
  <2>3. News(cur) \subseteq Item
    BY DEF News, EventsOf, History, HistoryTypes
  <2>4. todo' \subseteq Jobs /\ \A t \in todo' : t.searches # {}
    <3>1. \A t \in todo' : t.searches # {}
      BY <1>4 DEF Plan
    <3> QED
      BY <2>2, <2>3, <3>1 DEF Jobs
  <2> QED
    BY <2>1, <2>4 DEF Place, Working, Runs
<1>5. CASE \E t \in todo : Look(t)
  <2>1. PICK t \in todo : Look(t)
    BY <1>5
  <2>2. /\ pc = "queue" /\ todo' = todo \ {t} /\ batch' = batch /\ cur' = cur /\ runs' = runs
        /\ (try' = try /\ pc' = pc) \/ (try' = t /\ pc' = "try")
    BY <2>1 DEF Look, Goto, ledger
  <2> QED
    BY <2>2 DEF Place, Working, Runs
<1>6. CASE Queue
  <2>1. /\ pc = "try" /\ pc' = "queue" /\ try' = NoTry /\ todo' = todo /\ batch' = batch
        /\ cur' = cur /\ runs' = runs
    BY <1>6 DEF Queue, Goto
  <2> QED
    BY <2>1 DEF Place, Working, Runs
<1>7. CASE CapReached
  <2>1. /\ pc = "try" /\ todo' = todo /\ batch' = batch /\ cur' = cur /\ runs' = runs
    BY <1>7 DEF CapReached, ledger
  <2>2. \/ try' = NoTry /\ pc' = "queue"
        \/ \E s \in try.searches :
             /\ try.searches \ {s} # {} /\ pc' = pc
             /\ try' = [try EXCEPT !.searches = try.searches \ {s}]
    BY <1>7, <2>1, FirstIsLeast DEF CapReached, Goto, Place, Jobs
  <2> QED
    BY <2>1, <2>2 DEF Place, Working, Runs, Jobs
<1>8. CASE Mark
  <2>1. /\ pc = "queue" /\ pc' = "observe" /\ try' = try /\ todo' = todo /\ todo = {}
        /\ batch' = batch \ {cur} /\ cur' = 0 /\ cur \in Runs
    BY <1>8 DEF Mark, Goto, Place, Working
  <2>2. DOMAIN runs' = Runs /\ \A u \in Runs : u # cur => runs'[u] = runs[u]
    BY <1>8 DEF Mark, Runs
  <2> QED
    BY <2>1, <2>2 DEF Place, Working, Runs
<1>9. CASE EndTick
  <2>1. /\ pc' = "idle" /\ batch = {} /\ UNCHANGED <<batch, cur, todo, try>> /\ pc = "observe"
    BY <1>9 DEF EndTick, Goto
  <2> QED
    BY <2>1 DEF Place, Working, Runs
<1>10. CASE \E q \in Query : StartRun(q)
  <2>1. PICK q \in Query : StartRun(q)
    BY <1>10
  <2>2. UNCHANGED <<pc, batch, cur, todo, try>>
    BY <2>1 DEF StartRun, tick
  <2>3. Runs \subseteq DOMAIN runs' /\ \A u \in Runs : runs'[u] = runs[u]
    BY <2>1, StartWrites DEF History
  <2> QED
    BY <2>2, <2>3 DEF Place, Working, Runs
<1>11. CASE \E r \in Runs, d \in Datasets : FinishRun(r, d)
  <2>1. PICK r \in Runs, d \in Datasets : FinishRun(r, d)
    BY <1>11
  <2>2. /\ pc = "collect" /\ runs[r].status = "running" /\ UNCHANGED <<pc, cur, todo, try>>
        /\ \/ batch' = batch \cup {r} /\ runs'[r].status = "succeeded"
           \/ batch' = batch
        /\ DOMAIN runs' = Runs /\ \A u \in Runs : u # r => runs'[u] = runs[u]
    <3>1. /\ pc = "collect" /\ runs[r].status = "running" /\ UNCHANGED <<pc, cur, todo, try>>
          /\ batch' = batch \cup {r} \/ batch' = batch
      BY <2>1 DEF FinishRun
    <3>2. DOMAIN runs' = Runs /\ \A u \in Runs : u # r => runs'[u] = runs[u]
      BY <2>1 DEF FinishRun, Runs
    <3>3. batch' = batch \/ runs'[r].status = "succeeded"
      <4>1. ASSUME runs' = [runs EXCEPT ![r].status = "succeeded", ![r].items = d, ![r].day = day]
            PROVE  runs'[r].status = "succeeded"
        <5> DEFINE g == [runs EXCEPT ![r].status = "succeeded", ![r].items = d, ![r].day = day]
        <5>1. runs \in Seq(Run) /\ r \in DOMAIN runs
          BY DEF History, HistoryTypes, Runs
        <5>2. g[r] = [runs[r] EXCEPT !.status = "succeeded", !.items = d, !.day = day]
          BY ONLY <5>1, d \in Datasets, day \in 1..MaxDays, DatasetWrites
        <5>3. runs[r] \in Run
          BY RunParts DEF History
        <5>4. runs' = g
          BY <4>1
        <5> HIDE DEF g
        <5> QED
          BY <5>2, <5>3, <5>4 DEF Run
      <4> QED
        BY <2>1, <4>1 DEF FinishRun
    <3> QED
      BY <3>1, <3>2, <3>3
  <2> QED
    BY <2>2 DEF Place, Working, Runs
<1>12. CASE \E r \in Runs : Observe(r)
  BY <1>12 DEF Observe, Goto, Place, Working, Runs
<1>13. CASE NewDay \/ (\E q \in Query : Reset(q)) \/ UNCHANGED vars
         \/ \E s \in Search : Switch(s)
  <2>1. UNCHANGED <<pc, batch, cur, todo, try, runs>>
    BY <1>13 DEF NewDay, Reset, Switch, vars, tick, ledger
  <2> QED
    BY <2>1 DEF Place, Working, Runs
<1>14. CASE \/ \E x \in outbox : Deliver(x)
            \/ \E p \in Person : Remove(p) \/ \E h \in Home : TestPush(p, h)
  <2>1. UNCHANGED <<pc, batch, cur, todo, try, runs>>
    BY <1>14 DEF Deliver, Remove, TestPush, tick, ledger
  <2> QED
    BY <2>1 DEF Place, Working, Runs
<1> QED
  BY ONLY <1>1, <1>2, <1>3, <1>4, <1>5, <1>6, <1>7, <1>8, <1>9, <1>10, <1>11, <1>12, <1>13,
     <1>14, [Next]_vars DEF Next
-----------------------------------------------------------------------------
(* The outbox. *)

\* What is around the tick, and the budgets of what may happen.
Around ==
  /\ bank \subseteq Person \X Home
  /\ listed \subseteq Person /\ active \subseteq Search
  /\ day \in 1..MaxDays
  /\ crashes \in 0..MaxCrashes /\ edits \in 0..MaxEdits

\* The rows of the ledger: each is of the owner of its search, no two are one
\* person's of one listing, and no search has more of a day than its cap.
Rows ==
  /\ outbox \subseteq Row /\ IsFiniteSet(outbox)
  /\ \A x \in outbox : OwnerOf[x.search] = x.person
  /\ OneAlertPerEvent /\ CapHolds

\* The alerts in hand are for the owners of their searches.
Hands ==
  /\ \A t \in todo : \A s \in t.searches : OwnerOf[s] = t.person
  /\ \A s \in try.searches : OwnerOf[s] = try.person

\* The rows of a day that count against the cap of a search.
Live(o, s, d) == {x \in o : x.search = s /\ x.day = d /\ x.status # "cancelled"}

LEMMA LiveCount ==
  ASSUME NEW o, NEW s, NEW d, IsFiniteSet(o)
  PROVE  IsFiniteSet(Live(o, s, d)) /\ Cardinality(Live(o, s, d)) \in Nat
<1>1. Live(o, s, d) \in SUBSET o
  BY DEF Live
<1>2. IsFiniteSet(Live(o, s, d))
  BY <1>1, FS_Subset
<1> QED
  BY <1>2, FS_CardinalityType

\* Rows that are dropped or cancelled make room, never the reverse.
LEMMA LiveShrinks ==
  ASSUME NEW o, NEW n, IsFiniteSet(o), NEW s, NEW d, Live(n, s, d) \subseteq Live(o, s, d)
  PROVE  Cardinality(Live(n, s, d)) <= Cardinality(Live(o, s, d))
<1>1. Live(n, s, d) \in SUBSET Live(o, s, d) /\ IsFiniteSet(Live(o, s, d))
  BY LiveCount
<1> QED
  BY <1>1, FS_Subset

\* A row that is sent counts as it did while it waited.
LEMMA LiveReplaced ==
  ASSUME NEW o, NEW x \in o, NEW y, IsFiniteSet(o), NEW s, NEW d,
         x.search = y.search, x.day = y.day, x.status # "cancelled"
  PROVE  Cardinality(Live((o \ {x}) \cup {y}, s, d)) <= Cardinality(Live(o, s, d))
<1> DEFINE L == Live(o, s, d)
           N == Live((o \ {x}) \cup {y}, s, d)
<1>1. IsFiniteSet(L) /\ Cardinality(L) \in Nat
  BY LiveCount
<1>2. CASE x \in L
  <2>1. N \subseteq (L \ {x}) \cup {y}
    BY DEF Live
  <2>2. IsFiniteSet(L \ {x}) /\ Cardinality(L \ {x}) = Cardinality(L) - 1
    BY <1>1, <1>2, FS_RemoveElement
  <2>3. /\ IsFiniteSet((L \ {x}) \cup {y})
        /\ Cardinality((L \ {x}) \cup {y})
             = IF y \in L \ {x} THEN Cardinality(L \ {x}) ELSE Cardinality(L \ {x}) + 1
    BY <2>2, FS_AddElement
  <2>4. Cardinality((L \ {x}) \cup {y}) <= Cardinality(L)
    BY <1>1, <2>2, <2>3
  <2> HIDE DEF L, N
  <2>5. N \in SUBSET ((L \ {x}) \cup {y})
    BY <2>1
  <2>6. IsFiniteSet(N) /\ Cardinality(N) <= Cardinality((L \ {x}) \cup {y})
    BY <2>3, <2>5, FS_Subset
  <2>7. Cardinality(N) \in Nat /\ Cardinality((L \ {x}) \cup {y}) \in Nat
    BY <2>3, <2>6, FS_CardinalityType
  <2> QED
    BY <1>1, <2>4, <2>6, <2>7 DEF L, N
<1>3. CASE x \notin L
  <2>1. N \subseteq L
    BY <1>3 DEF Live
  <2> QED
    BY <2>1, LiveShrinks
<1> QED
  BY <1>2, <1>3

LEMMA CapByLive ==
  CapHolds <=> \A s \in Search, d \in 1..MaxDays : Cardinality(Live(outbox, s, d)) <= Cap
BY DEF CapHolds, Live

\* Rows that only shrink in number or change to "cancelled" keep to the cap.
LEMMA CapByShrinking ==
  ASSUME CapHolds, IsFiniteSet(outbox), IsFiniteSet(outbox'),
         \A s \in Search, d \in 1..MaxDays :
           Cardinality(Live(outbox', s, d)) <= Cardinality(Live(outbox, s, d))
  PROVE  CapHolds'
<1>1. \A s \in Search, d \in 1..MaxDays :
        /\ Cardinality(Live(outbox, s, d)) \in Nat
        /\ Cardinality(Live(outbox', s, d)) \in Nat
        /\ Cardinality(Live(outbox, s, d)) <= Cap
  BY LiveCount, CapByLive
<1>2. \A s \in Search, d \in 1..MaxDays : Cardinality(Live(outbox', s, d)) <= Cap
  BY <1>1, BoundAssumption
<1> QED
  BY <1>2 DEF CapHolds, Live

LEMMA DeliverKeepsRows ==
  ASSUME Rows, NEW x \in outbox, Deliver(x)
  PROVE  Rows'
<1>1. PICK w \in {"sent", "cancelled"} : outbox' = (outbox \ {x}) \cup {[x EXCEPT !.status = w]}
  BY DEF Deliver
<1> DEFINE y == [x EXCEPT !.status = w]
<1>2. x \in Row /\ x.status = "shadow"
  BY DEF Rows, Deliver
<1>3. y \in Row /\ y.person = x.person /\ y.item = x.item /\ y.search = x.search /\ y.day = x.day
  BY <1>2 DEF Row
<1>4. outbox' = (outbox \ {x}) \cup {y}
  BY <1>1
<1> HIDE DEF y
<1>5. IsFiniteSet(outbox')
  <2>1. IsFiniteSet(outbox \ {x})
    BY FS_RemoveElement DEF Rows
  <2> QED
    BY <1>4, <2>1, FS_AddElement
<1>6. OneAlertPerEvent'
  BY <1>3, <1>4 DEF Rows, OneAlertPerEvent
<1>7. CapHolds'
  <2>1. \A s \in Search, d \in 1..MaxDays :
          Cardinality(Live(outbox', s, d)) <= Cardinality(Live(outbox, s, d))
    BY <1>2, <1>3, <1>4, LiveReplaced DEF Rows
  <2> QED
    BY <1>5, <2>1, CapByShrinking DEF Rows
<1> QED
  BY <1>3, <1>4, <1>5, <1>6, <1>7 DEF Rows

LEMMA RemoveKeepsRows ==
  ASSUME Rows, NEW p \in Person, Remove(p)
  PROVE  Rows'
<1> DEFINE f == [x \in outbox |-> IF x.person = p /\ x.status = "shadow"
                                  THEN [x EXCEPT !.status = "cancelled"] ELSE x]
<1>1. outbox' = {f[x] : x \in outbox}
  BY DEF Remove
<1>2. \A x \in outbox : /\ f[x] \in Row /\ f[x].person = x.person /\ f[x].item = x.item
                        /\ f[x].search = x.search /\ f[x].day = x.day
                        /\ f[x] = x \/ f[x].status = "cancelled"
  <2>1. \A x \in outbox : x \in Row
    BY DEF Rows
  <2> QED
    BY <2>1 DEF Row
<1>3. f \in [outbox -> outbox']
  BY <1>1
<1> HIDE DEF f
<1>4. f \in Surjection(outbox, outbox')
  BY <1>1, <1>3 DEF Surjection
<1>5. IsFiniteSet(outbox')
  BY <1>4, FS_Surjection DEF Rows
<1>6. OneAlertPerEvent'
  BY <1>1, <1>2 DEF Rows, OneAlertPerEvent
<1>7. CapHolds'
  <2>1. \A s \in Search, d \in 1..MaxDays : Live(outbox', s, d) \subseteq Live(outbox, s, d)
    BY <1>1, <1>2 DEF Live
  <2>2. \A s \in Search, d \in 1..MaxDays :
          Cardinality(Live(outbox', s, d)) <= Cardinality(Live(outbox, s, d))
    BY <2>1, LiveShrinks DEF Rows
  <2> QED
    BY <1>5, <2>2, CapByShrinking DEF Rows
<1> QED
  BY <1>1, <1>2, <1>5, <1>6, <1>7 DEF Rows

LEMMA EndTickKeepsRows ==
  ASSUME Rows, EndTick
  PROVE  Rows'
<1>1. outbox' \subseteq outbox
  BY DEF EndTick
<1>2. IsFiniteSet(outbox')
  BY <1>1, FS_Subset DEF Rows
<1>3. \A s \in Search, d \in 1..MaxDays : Live(outbox', s, d) \subseteq Live(outbox, s, d)
  BY <1>1 DEF Live
<1>4. \A s \in Search, d \in 1..MaxDays :
        Cardinality(Live(outbox', s, d)) <= Cardinality(Live(outbox, s, d))
  BY <1>3, LiveShrinks DEF Rows
<1>5. CapHolds'
  BY <1>2, <1>4, CapByShrinking DEF Rows
<1> QED
  BY <1>1, <1>2, <1>5 DEF Rows, OneAlertPerEvent

LEMMA QueueKeepsRows ==
  ASSUME Rows, Hands, Place, Around, Queue
  PROVE  Rows'
<1> DEFINE s == First(try.searches)
           a == Alert(s)
<1>1. try \in Jobs /\ try.searches # {}
  BY DEF Queue, Place
<1>2. s \in try.searches /\ s \in Search
  BY <1>1, FirstIsLeast DEF Jobs
<1>3. a \in Row /\ a.search = s /\ a.day = day /\ a.person = try.person /\ a.item = try.item
        /\ a.status # "cancelled"
  BY <1>1, <1>2 DEF Alert, Row, Jobs, Around
<1>4. OwnerOf[s] = try.person
  BY <1>2 DEF Hands
<1>5. \/ outbox' = outbox
      \/ ~Queued(s) /\ Used(s) < Cap /\ outbox' = outbox \cup {a}
  BY DEF Queue
<1>6. CASE outbox' = outbox
  BY <1>6 DEF Rows, OneAlertPerEvent, CapHolds
<1>7. CASE ~Queued(s) /\ Used(s) < Cap /\ outbox' = outbox \cup {a}
  <2>1. \A x \in outbox : ~(x.person = try.person /\ x.item = try.item)
    BY <1>3, <1>7 DEF Queued, Key
  <2> HIDE DEF a, s
  <2>2. OneAlertPerEvent'
    BY <1>3, <1>7, <2>1 DEF Rows, OneAlertPerEvent
  <2>3. IsFiniteSet(outbox')
    BY <1>7, FS_AddElement DEF Rows
  <2>4. Cardinality(Live(outbox, s, day)) < Cap
    BY <1>7 DEF Used, Live
  <2>5. ASSUME NEW u \in Search, NEW d \in 1..MaxDays
        PROVE  Cardinality(Live(outbox', u, d)) <= Cap
    <3>1. CASE u = s /\ d = day
      <4>1. Live(outbox', u, d) = Live(outbox, s, day) \cup {a}
        BY <1>3, <1>7, <3>1 DEF Live
      <4>2. IsFiniteSet(Live(outbox, s, day)) /\ Cardinality(Live(outbox, s, day)) \in Nat
        BY LiveCount DEF Rows
      <4>3. Cardinality(Live(outbox, s, day) \cup {a})
              = IF a \in Live(outbox, s, day) THEN Cardinality(Live(outbox, s, day))
                ELSE Cardinality(Live(outbox, s, day)) + 1
        BY <4>2, FS_AddElement
      <4>4. Cap \in Nat
        BY BoundAssumption
      <4> QED
        BY <2>4, <4>1, <4>2, <4>3, <4>4
    <3>2. CASE ~(u = s /\ d = day)
      <4>1. Live(outbox', u, d) = Live(outbox, u, d)
        BY <1>3, <1>7, <3>2 DEF Live
      <4> QED
        BY <4>1, CapByLive DEF Rows
    <3> QED
      BY <3>1, <3>2
  <2>6. CapHolds'
    BY <2>5 DEF CapHolds, Live
  <2>7. outbox' \subseteq Row /\ \A x \in outbox' : OwnerOf[x.search] = x.person
    BY <1>3, <1>4, <1>7 DEF Rows
  <2> QED
    BY <2>2, <2>3, <2>6, <2>7 DEF Rows
<1> QED
  BY ONLY <1>5, <1>6, <1>7

LEMMA RowsStep ==
  ASSUME Place, Around, Hands, Rows, [Next]_vars
  PROVE  Rows'
<1>1. CASE outbox' = outbox
  BY <1>1 DEF Rows, OneAlertPerEvent, CapHolds
<1>2. CASE Queue
  BY <1>2, QueueKeepsRows
<1>3. CASE EndTick
  BY <1>3, EndTickKeepsRows
<1>4. CASE \E x \in outbox : Deliver(x)
  BY <1>4, DeliverKeepsRows
<1>5. CASE \E p \in Person : Remove(p)
  BY <1>5, RemoveKeepsRows
<1>6. CASE Begin \/ EndCollect \/ Plan \/ CapReached \/ Mark \/ EndCycle \/ Crash \/ NewDay
  <2>1. outbox' = outbox
    BY <1>6 DEF Begin, EndCollect, Plan, CapReached, Mark, EndCycle, Crash, NewDay, ledger
  <2> QED
    BY <2>1, <1>1
<1>7. CASE \/ \E q \in Query : StartRun(q) \/ Reset(q)
           \/ \E r \in Runs : Observe(r) \/ \E d \in Datasets : FinishRun(r, d)
  <2>1. outbox' = outbox
    BY <1>7 DEF StartRun, Reset, Observe, FinishRun
  <2> QED
    BY <2>1, <1>1
<1>8. CASE \/ \E t \in todo : Look(t)
           \/ \E p \in Person, h \in Home : TestPush(p, h)
           \/ \E s \in Search : Switch(s)
           \/ UNCHANGED vars
  <2>1. outbox' = outbox
    BY <1>8 DEF Look, TestPush, Switch, vars, ledger
  <2> QED
    BY <2>1, <1>1
<1> QED
  BY ONLY <1>2, <1>3, <1>4, <1>5, <1>6, <1>7, <1>8, [Next]_vars DEF Next

LEMMA AroundStep ==
  ASSUME Around, Rows, [Next]_vars
  PROVE  Around'
<1>1. CASE UNCHANGED <<bank, owner, day, crashes, edits>>
  BY <1>1 DEF Around, owner
<1>2. CASE Begin \/ EndCollect \/ Plan \/ Queue \/ CapReached \/ Mark \/ EndTick \/ EndCycle
  BY <1>1, <1>2 DEF Begin, EndCollect, Plan, Queue, CapReached, Mark, EndTick, EndCycle, budget
<1>3. CASE Crash
  <2>1. UNCHANGED <<bank, owner, day, edits>> /\ crashes < MaxCrashes /\ crashes' = crashes + 1
    BY <1>3 DEF Crash
  <2> QED
    BY <2>1, BoundAssumption DEF Around, owner
<1>4. CASE NewDay
  <2>1. UNCHANGED <<bank, owner, crashes, edits>> /\ day < MaxDays /\ day' = day + 1
    BY <1>4 DEF NewDay, budget
  <2> QED
    BY <2>1, BoundAssumption DEF Around, owner
<1>5. CASE \/ \E q \in Query : StartRun(q)
           \/ \E r \in Runs : Observe(r) \/ \E d \in Datasets : FinishRun(r, d)
           \/ \E t \in todo : Look(t)
           \/ UNCHANGED vars
  BY <1>1, <1>5 DEF StartRun, Observe, FinishRun, Look, vars, budget
<1>6. CASE \E x \in outbox : Deliver(x)
  <2>1. PICK x \in outbox : Deliver(x)
    BY <1>6
  <2>2. /\ UNCHANGED <<owner, day, crashes, edits>>
        /\ bank' = bank \/ bank' = bank \cup {<<x.person, x.item[1]>>}
    BY <2>1 DEF Deliver, budget
  <2>3. x.person \in Person /\ x.item[1] \in Home
    BY DEF Rows, Row, Item
  <2> QED
    BY <2>2, <2>3 DEF Around, owner
<1>7. CASE \E p \in Person : Remove(p)
  <2>1. PICK p \in Person : Remove(p)
    BY <1>7
  <2>2. /\ edits < MaxEdits /\ edits' = edits + 1 /\ UNCHANGED <<crashes, active, day>>
        /\ listed' \subseteq listed /\ bank' \subseteq bank
    BY <2>1 DEF Remove, Edit
  <2> QED
    BY <2>2, BoundAssumption DEF Around
<1>8. CASE \E p \in Person : \E h \in Home : TestPush(p, h)
  <2>1. PICK p \in Person, h \in Home : TestPush(p, h)
    BY <1>8
  <2>2. /\ edits < MaxEdits /\ edits' = edits + 1 /\ UNCHANGED <<crashes, owner, day>>
        /\ bank' = bank \cup {<<p, h>>}
    BY <2>1 DEF TestPush, Edit
  <2> QED
    BY <2>2, BoundAssumption DEF Around, owner
<1>9. CASE \E s \in Search : Switch(s)
  <2>1. PICK s \in Search : Switch(s)
    BY <1>9
  <2>2. /\ edits < MaxEdits /\ edits' = edits + 1 /\ UNCHANGED <<crashes, bank, listed, day>>
        /\ active' \subseteq active \cup {s}
    BY <2>1 DEF Switch, Edit
  <2> QED
    BY <2>2, BoundAssumption DEF Around
<1>10. CASE \E q \in Query : Reset(q)
  <2>1. edits < MaxEdits /\ edits' = edits + 1 /\ UNCHANGED <<crashes, bank, owner, day>>
    BY <1>10 DEF Reset, Edit
  <2> QED
    BY <2>1, BoundAssumption DEF Around, owner
<1> QED
  BY ONLY <1>2, <1>3, <1>4, <1>5, <1>6, <1>7, <1>8, <1>9, <1>10, [Next]_vars DEF Next

LEMMA HandsStep ==
  ASSUME Place, Hands, [Next]_vars
  PROVE  Hands'
<1>1. CASE todo' \subseteq todo /\ try'.searches \subseteq try.searches /\ try'.person = try.person
  BY <1>1 DEF Hands
<1>2. CASE Plan
  <2>1. try' = try
    BY <1>2 DEF Plan
  <2>2. \A t \in todo' : \E q, item : t.searches = Wanting(q, t.person, item)
    BY <1>2 DEF Plan
  <2>3. \A t \in todo' : \A s \in t.searches : OwnerOf[s] = t.person
    BY <2>2 DEF Wanting
  <2> QED
    BY <2>1, <2>3 DEF Hands
<1>3. CASE \E t \in todo : Look(t)
  <2>1. PICK t \in todo : Look(t)
    BY <1>3
  <2>2. todo' = todo \ {t} /\ (try' = try \/ try' = t)
    BY <2>1 DEF Look
  <2> QED
    BY <2>2 DEF Hands
<1>4. CASE Queue \/ CapReached
  <2>1. /\ todo' = todo
        /\ \/ try' = NoTry
           \/ \E s : try' = [try EXCEPT !.searches = try.searches \ {s}]
    BY <1>4 DEF Queue, CapReached
  <2>2. try \in Jobs
    BY <1>4 DEF Queue, CapReached, Place
  <2> QED
    BY <2>1, <2>2 DEF Hands, NoTry, Jobs
<1>5. CASE Crash
  BY <1>5 DEF Crash, Hands, NoTry
<1>6. CASE Begin \/ EndCollect \/ Mark \/ EndTick \/ EndCycle \/ NewDay \/ UNCHANGED vars
  <2>1. UNCHANGED <<todo, try>>
    BY <1>6 DEF Begin, EndCollect, Mark, EndTick, EndCycle, NewDay, tick, vars
  <2> QED
    BY <1>1, <2>1
<1>7. CASE \/ \E q \in Query : StartRun(q) \/ Reset(q)
           \/ \E r \in Runs : Observe(r) \/ \E d \in Datasets : FinishRun(r, d)
  <2>1. UNCHANGED <<todo, try>>
    BY <1>7 DEF StartRun, Reset, Observe, FinishRun, tick
  <2> QED
    BY <1>1, <2>1
<1>8. CASE \/ \E x \in outbox : Deliver(x)
           \/ \E p \in Person : Remove(p) \/ \E h \in Home : TestPush(p, h)
           \/ \E s \in Search : Switch(s)
  <2>1. UNCHANGED <<todo, try>>
    BY <1>8 DEF Deliver, Remove, TestPush, Switch, tick
  <2> QED
    BY <1>1, <2>1
<1> QED
  BY ONLY <1>2, <1>3, <1>4, <1>5, <1>6, <1>7, <1>8, [Next]_vars DEF Next
-----------------------------------------------------------------------------
(* Who is answered. *)

\* A person who waits for an item of the run that is processed is answered, or has
\* no search left that waits for it.
Served(p, item) ==
  LET wanting == Wanting(runs[cur].query, p, item)
  IN \/ wanting = {} \/ <<p, item[1]>> \in bank
     \/ \E x \in outbox : x.person = p /\ x.item = item
     \/ \A s \in wanting : Used(s) >= Cap

\* The alert is still to be queued.
Pending(p, item) ==
  \/ \E t \in todo : t.person = p /\ t.item = item
  \/ pc = "try" /\ try.person = p /\ try.item = item

\* The searches of an alert in hand are those that wait for it; a search that was
\* passed over has no room that day.
Current ==
  /\ \A t \in todo : t.person \notin touched =>
       t.searches = Wanting(runs[cur].query, t.person, t.item)
  /\ pc = "try" /\ try.person \notin touched =>
       LET wanting == Wanting(runs[cur].query, try.person, try.item)
       IN try.searches \subseteq wanting /\ \A s \in wanting \ try.searches : Used(s) >= Cap

Answering ==
  /\ pc \in {"queue", "try"} =>
       \A p \in Person \ touched, item \in News(cur) : Served(p, item) \/ Pending(p, item)
  /\ Current

Inv == History /\ Place /\ Around /\ Rows /\ Hands /\ Answering

\* What a step leaves to everyone it does not touch, while a run is processed.
Onward ==
  /\ runs' = runs /\ events' = events /\ cur' = cur /\ day' = day /\ touched \subseteq touched'
  /\ \A p \in Person \ touched' :
       /\ \A q, item : Wanting(q, p, item)' = Wanting(q, p, item)
       /\ \A h : <<p, h>> \in bank => <<p, h>> \in bank'
       /\ \A x \in outbox : x.person = p => x \in outbox'

LEMMA OnwardSteps ==
  ASSUME \/ Plan \/ Queue \/ CapReached \/ UNCHANGED vars
         \/ \E t \in todo : Look(t)
         \/ \E q \in Query : Reset(q)
         \/ \E p \in Person : Remove(p) \/ \E h \in Home : TestPush(p, h)
         \/ \E s \in Search : Switch(s)
  PROVE  Onward
<1>1. CASE Plan \/ CapReached \/ (\E t \in todo : Look(t)) \/ (\E q \in Query : Reset(q))
             \/ UNCHANGED vars
  <2>1. UNCHANGED <<runs, events, cur, day, touched, listed, active, bank, outbox>>
    BY <1>1 DEF Plan, CapReached, Look, Reset, vars, ledger, owner, tick
  <2> QED
    BY <2>1 DEF Onward, Wanting
<1>2. CASE Queue
  <2>1. UNCHANGED <<runs, events, cur, day, touched, listed, active, bank>>
    BY <1>2 DEF Queue, owner
  <2>2. outbox \subseteq outbox'
    BY <1>2 DEF Queue
  <2> QED
    BY <2>1, <2>2 DEF Onward, Wanting
<1>3. CASE \E p \in Person : Remove(p)
  <2>1. PICK p \in Person : Remove(p)
    BY <1>3
  <2>2. /\ UNCHANGED <<runs, events, cur, day, active>> /\ touched' = touched \cup {p}
        /\ listed' = listed \ {p} /\ bank' = {b \in bank : b[1] # p}
    BY <2>1 DEF Remove
  <2>3. \A x \in outbox : x.person # p => x \in outbox'
    BY <2>1 DEF Remove
  <2> QED
    BY <2>2, <2>3 DEF Onward, Wanting
<1>4. CASE \E p \in Person : \E h \in Home : TestPush(p, h)
  <2>1. /\ UNCHANGED <<runs, events, cur, day, touched, listed, active, outbox>>
        /\ bank \subseteq bank'
    BY <1>4 DEF TestPush, ledger, owner, tick
  <2> QED
    BY <2>1 DEF Onward, Wanting
<1>5. CASE \E s \in Search : Switch(s)
  <2>1. PICK s \in Search : Switch(s)
    BY <1>5
  <2>2. /\ UNCHANGED <<runs, events, cur, day, listed, bank, outbox>>
        /\ touched' = touched \cup {OwnerOf[s]}
        /\ \A u : u # s => (u \in active' <=> u \in active)
    BY <2>1 DEF Switch, ledger
  <2>3. \A p \in Person \ touched' : \A q, item : Wanting(q, p, item)' = Wanting(q, p, item)
    BY <2>2 DEF Wanting
  <2> QED
    BY <2>2, <2>3 DEF Onward
<1> QED
  BY <1>1, <1>2, <1>3, <1>4, <1>5

\* What a search has of a day only grows while a run is processed.
LEMMA UsedGrows ==
  ASSUME Onward, Rows, Rows', NEW s, OwnerOf[s] \in Person \ touched', Used(s) >= Cap
  PROVE  Used(s)' >= Cap
<1>1. Used(s) = Cardinality(Live(outbox, s, day)) /\ Used(s)' = Cardinality(Live(outbox', s, day))
  BY DEF Used, Live, Onward
<1>2. Live(outbox, s, day) \subseteq Live(outbox', s, day)
  BY DEF Live, Onward, Rows
<1>3. Cardinality(Live(outbox, s, day)) <= Cardinality(Live(outbox', s, day))
  BY <1>2, LiveShrinks DEF Rows
<1>4. /\ Cardinality(Live(outbox, s, day)) \in Nat
      /\ Cardinality(Live(outbox', s, day)) \in Nat /\ Cap \in Nat
  BY LiveCount, BoundAssumption DEF Rows
<1> QED
  BY <1>1, <1>3, <1>4

\* Whoever is served stays served.
LEMMA ServedStays ==
  ASSUME Onward, Rows, Rows', NEW p \in Person \ touched', NEW item, Served(p, item)
  PROVE  Served(p, item)'
<1> DEFINE q == runs[cur].query
<1>1. Wanting(q, p, item)' = Wanting(q, p, item) /\ runs'[cur'].query = q
  BY DEF Onward
<1>2. \A s \in Wanting(q, p, item) : OwnerOf[s] = p
  BY DEF Wanting
<1>3. CASE Wanting(q, p, item) = {}
  BY <1>1, <1>3 DEF Served, Onward
<1>4. CASE <<p, item[1]>> \in bank
  BY <1>4 DEF Served, Onward
<1>5. CASE \E x \in outbox : x.person = p /\ x.item = item
  BY <1>5 DEF Served, Onward
<1>6. CASE \A s \in Wanting(q, p, item) : Used(s) >= Cap
  <2>1. \A s \in Wanting(q, p, item) : Used(s)' >= Cap
    BY <1>2, <1>6, UsedGrows
  <2> QED
    BY <1>1, <2>1 DEF Served, Onward
<1> QED
  BY <1>3, <1>4, <1>5, <1>6 DEF Served

\* The searches of an alert in hand stay what they are, and so does the room of
\* those passed over.
LEMMA CurrentStays ==
  ASSUME Onward, Rows, Rows', Place, Current, UNCHANGED <<todo, try, pc>>
  PROVE  Current'
<1>1. \A t \in todo : t.person \in Person
  BY DEF Place, Jobs
<1>2. ASSUME NEW t \in todo, t.person \notin touched'
      PROVE  t.searches = Wanting(runs[cur].query, t.person, t.item)'
  BY <1>1, <1>2 DEF Onward, Current
<1>3. ASSUME pc = "try", try.person \notin touched'
      PROVE  LET wanting == Wanting(runs[cur].query, try.person, try.item)'
             IN try.searches \subseteq wanting /\ \A s \in wanting \ try.searches : Used(s)' >= Cap
  <2>1. try.person \in Person /\ try.person \notin touched
    BY <1>3 DEF Place, Jobs, Onward
  <2> DEFINE wanting == Wanting(runs[cur].query, try.person, try.item)
  <2>2. wanting' = wanting
    BY <1>3, <2>1 DEF Onward
  <2>3. try.searches \subseteq wanting /\ \A s \in wanting \ try.searches : Used(s) >= Cap
    BY <1>3, <2>1 DEF Current
  <2>4. \A s \in wanting : OwnerOf[s] = try.person
    BY DEF Wanting
  <2>5. \A s \in wanting \ try.searches : Used(s)' >= Cap
    BY <1>3, <2>1, <2>3, <2>4, UsedGrows
  <2> QED
    BY <2>2, <2>3, <2>5
<1> QED
  BY <1>2, <1>3 DEF Current

LEMMA NewsStays ==
  ASSUME Onward
  PROVE  News(cur)' = News(cur)
BY DEF News, EventsOf, Onward

LEMMA PlanAnswers ==
  ASSUME Inv, Plan
  PROVE  Answering'
<1> DEFINE q == runs[cur].query
<1>1. /\ pc' = "queue" /\ UNCHANGED <<runs, events, outbox, bank, listed, active, day, cur, touched>>
      /\ todo' = {t \in [person : Person, item : News(cur), searches : SUBSET Search] :
                    t.searches # {} /\ t.searches = Wanting(q, t.person, t.item)}
  BY DEF Plan, Goto, ledger, owner
<1>2. \A p, item : Wanting(q, p, item)' = Wanting(q, p, item) /\ runs'[cur'].query = q
  BY <1>1 DEF Wanting
<1>3. ASSUME NEW p \in Person, NEW item \in News(cur)
      PROVE  Served(p, item)' \/ Pending(p, item)'
  <2>1. CASE Wanting(q, p, item) = {}
    BY <1>2, <2>1 DEF Served
  <2>2. CASE Wanting(q, p, item) # {}
    <3> DEFINE t == [person |-> p, item |-> item, searches |-> Wanting(q, p, item)]
    <3>1. Wanting(q, p, item) \in SUBSET Search
      BY DEF Wanting, Inv, Around
    <3>2. t \in todo'
      BY <1>1, <2>2, <3>1
    <3> QED
      BY <3>2 DEF Pending
  <2> QED
    BY <2>1, <2>2
<1>4. News(cur)' = News(cur)
  BY <1>1 DEF News, EventsOf
<1>5. \A t \in todo' : t.searches = Wanting(runs[cur].query, t.person, t.item)'
  BY <1>1, <1>2
<1> QED
  BY <1>1, <1>3, <1>4, <1>5 DEF Answering, Current

LEMMA LookAnswers ==
  ASSUME Inv, Rows', NEW t \in todo, Look(t)
  PROVE  Answering'
<1>1. Onward
  BY OnwardSteps
<1>2. /\ pc = "queue" /\ todo' = todo \ {t} /\ touched' = touched
      /\ \/ <<t.person, t.item[1]>> \in bank /\ try' = try /\ pc' = pc
         \/ try' = t /\ pc' = "try"
  BY DEF Look, Goto
<1>3. t \in Jobs /\ Current
  BY DEF Inv, Place, Answering
<1>4. ASSUME NEW p \in Person \ touched', NEW item \in News(cur)
      PROVE  Served(p, item)' \/ Pending(p, item)'
  <2>1. CASE Served(p, item)
    BY <1>1, <1>4, <2>1, ServedStays DEF Inv
  <2>2. CASE Pending(p, item)
    <3>1. PICK u \in todo : u.person = p /\ u.item = item
      BY <1>2, <2>2 DEF Pending
    <3>2. CASE u # t
      BY <1>2, <3>1, <3>2 DEF Pending
    <3>3. CASE u = t
      <4>1. <<t.person, t.item[1]>> \in bank => Served(p, item)
        BY <3>1, <3>3 DEF Served
      <4>2. try' = t /\ pc' = "try" => Pending(p, item)'
        BY <3>1, <3>3 DEF Pending
      <4> QED
        BY <1>1, <1>2, <1>4, <4>1, <4>2, ServedStays DEF Inv
    <3> QED
      BY <3>2, <3>3
  <2> QED
    BY <1>2, <1>4, <2>1, <2>2 DEF Inv, Answering
<1>5. \A p \in Person \ touched : \A q, item : Wanting(q, p, item)' = Wanting(q, p, item)
  BY <1>1, <1>2 DEF Onward
<1>6. Current'
  <2>1. ASSUME NEW u \in todo, u.person \notin touched
        PROVE  u.searches = Wanting(runs[cur].query, u.person, u.item)'
    <3>1. u.person \in Person
      BY DEF Inv, Place, Jobs
    <3> QED
      BY <1>1, <1>3, <1>5, <2>1, <3>1 DEF Current, Onward
  <2> QED
    BY <1>2, <2>1 DEF Current
<1> QED
  BY <1>1, <1>2, <1>4, <1>6, NewsStays DEF Answering

LEMMA QueueAnswers ==
  ASSUME Inv, Rows', Queue
  PROVE  Answering'
<1>1. Onward
  BY OnwardSteps
<1>2. /\ pc = "try" /\ pc' = "queue" /\ todo' = todo /\ touched' = touched
      /\ \/ Queued(First(try.searches)) /\ outbox' = outbox
         \/ outbox' = outbox \cup {Alert(First(try.searches))}
  BY DEF Queue, Goto
<1>3. \E x \in outbox' : x.person = try.person /\ x.item = try.item
  <2>1. CASE Queued(First(try.searches)) /\ outbox' = outbox
    BY <2>1 DEF Queued, Key, Alert
  <2>2. CASE outbox' = outbox \cup {Alert(First(try.searches))}
    <3> DEFINE a == Alert(First(try.searches))
    <3>1. a.person = try.person /\ a.item = try.item
      BY DEF Alert
    <3> HIDE DEF a
    <3> QED
      BY <2>2, <3>1 DEF a
  <2> QED
    BY <1>2, <2>1, <2>2
<1>4. ASSUME NEW p \in Person \ touched', NEW item \in News(cur)
      PROVE  Served(p, item)' \/ Pending(p, item)'
  <2>1. CASE Served(p, item)
    BY <1>1, <1>4, <2>1, ServedStays DEF Inv
  <2>2. CASE try.person = p /\ try.item = item
    BY <1>3, <2>2 DEF Served
  <2>3. CASE \E t \in todo : t.person = p /\ t.item = item
    BY <1>2, <2>3 DEF Pending
  <2> QED
    BY <1>2, <1>4, <2>1, <2>2, <2>3 DEF Inv, Answering, Pending
<1>5. Current'
  <2>1. ASSUME NEW u \in todo, u.person \notin touched
        PROVE  u.searches = Wanting(runs[cur].query, u.person, u.item)'
    <3>1. u.person \in Person
      BY DEF Inv, Place, Jobs
    <3> QED
      BY <1>1, <1>2, <2>1, <3>1 DEF Inv, Answering, Current, Onward
  <2> QED
    BY <1>2, <2>1 DEF Current
<1> QED
  BY <1>1, <1>2, <1>4, <1>5, NewsStays DEF Answering

LEMMA CapAnswers ==
  ASSUME Inv, Rows', CapReached
  PROVE  Answering'
<1> DEFINE s == First(try.searches)
           others == try.searches \ {s}
           wanting == Wanting(runs[cur].query, try.person, try.item)
<1>1. Onward
  BY OnwardSteps
<1>2. /\ pc = "try" /\ todo' = todo /\ touched' = touched /\ Used(s) >= Cap
      /\ UNCHANGED <<runs, events, outbox, bank, listed, active, day, cur>>
      /\ \/ others = {} /\ try' = NoTry /\ pc' = "queue"
         \/ try' = [try EXCEPT !.searches = others] /\ pc' = pc
  BY DEF CapReached, Goto, ledger, owner
<1>3. try \in Jobs /\ Current
  BY <1>2 DEF Inv, Place, Answering
<1> HIDE DEF s
<1>4. try.person \notin touched => \A u \in wanting \ others : Used(u) >= Cap
  BY <1>2, <1>3 DEF Current
<1>5. \A u : Used(u)' = Used(u)
  BY <1>2 DEF Used
<1>6. \A p, item : Wanting(runs[cur].query, p, item)' = Wanting(runs[cur].query, p, item)
  BY <1>2 DEF Wanting
<1>7. ASSUME NEW p \in Person \ touched', NEW item \in News(cur)
      PROVE  Served(p, item)' \/ Pending(p, item)'
  <2>1. CASE Served(p, item)
    BY <1>1, <1>7, <2>1, ServedStays DEF Inv
  <2>2. CASE try.person = p /\ try.item = item
    <3>1. CASE others = {}
      <4>1. Served(p, item)
        BY <1>2, <1>4, <1>7, <2>2, <3>1 DEF Served
      <4> QED
        BY <1>1, <1>7, <4>1, ServedStays DEF Inv
    <3>2. CASE try' = [try EXCEPT !.searches = others] /\ pc' = pc
      <4>1. try'.person = p /\ try'.item = item
        BY <1>3, <2>2, <3>2 DEF Jobs
      <4> QED
        BY <1>2, <3>2, <4>1 DEF Pending
    <3> QED
      BY <1>2, <3>1, <3>2
  <2>3. CASE \E t \in todo : t.person = p /\ t.item = item
    BY <1>2, <2>3 DEF Pending
  <2> QED
    BY <1>2, <1>7, <2>1, <2>2, <2>3 DEF Inv, Answering, Pending
<1>8. Current'
  <2>1. \A t \in todo : t.person \notin touched =>
          t.searches = Wanting(runs[cur].query, t.person, t.item)'
    BY <1>3, <1>6 DEF Current
  <2>2. CASE pc' = "queue"
    BY <1>2, <2>1, <2>2 DEF Current
  <2>3. CASE try' = [try EXCEPT !.searches = others] /\ pc' = pc
    <3>1. try'.person = try.person /\ try'.item = try.item /\ try'.searches = others
      BY <1>3, <2>3 DEF Jobs
    <3>2. try.person \notin touched => others \subseteq wanting
      BY <1>2, <1>3 DEF Current
    <3> QED
      BY <1>2, <1>4, <1>5, <1>6, <2>1, <3>1, <3>2 DEF Current
  <2> QED
    BY <1>2, <2>2, <2>3
<1> QED
  BY <1>1, <1>2, <1>7, <1>8, NewsStays DEF Answering

\* An owner's edit, a reset or a Test Push leaves the tick where it is.
LEMMA EditAnswers ==
  ASSUME Inv, Rows', Onward, UNCHANGED <<todo, try, pc>>
  PROVE  Answering'
<1>1. Current'
  BY CurrentStays DEF Inv, Answering
<1>2. ASSUME pc \in {"queue", "try"}, NEW p \in Person \ touched', NEW item \in News(cur)
      PROVE  Served(p, item)' \/ Pending(p, item)'
  <2>1. p \notin touched
    BY <1>2 DEF Onward
  <2>2. Served(p, item) => Served(p, item)'
    BY <1>2, ServedStays DEF Inv
  <2>3. Pending(p, item) => Pending(p, item)'
    BY DEF Pending
  <2> QED
    BY <1>2, <2>1, <2>2, <2>3 DEF Inv, Answering
<1> QED
  BY <1>1, <1>2, NewsStays DEF Answering

\* Away from the two points where alerts are queued nothing is in hand.
LEMMA IdleAnswers ==
  ASSUME Place', pc' \notin {"queue", "try"}
  PROVE  Answering'
BY DEF Place, Answering, Current

LEMMA AnsweringStep ==
  ASSUME Inv, Rows', Place', [Next]_vars
  PROVE  Answering'
<1>1. CASE Plan
  BY <1>1, PlanAnswers
<1>2. CASE \E t \in todo : Look(t)
  BY <1>2, LookAnswers
<1>3. CASE Queue
  BY <1>3, QueueAnswers
<1>4. CASE CapReached
  BY <1>4, CapAnswers
<1>5. CASE \/ \E q \in Query : Reset(q)
           \/ \E p \in Person : Remove(p) \/ \E h \in Home : TestPush(p, h)
           \/ \E s \in Search : Switch(s)
           \/ UNCHANGED vars
  <2>1. Onward
    BY <1>5, OnwardSteps
  <2>2. UNCHANGED <<todo, try, pc>>
    BY <1>5 DEF Reset, Remove, TestPush, Switch, vars, tick
  <2> QED
    BY <2>1, <2>2, EditAnswers
<1>6. CASE Begin \/ EndCollect \/ Mark \/ EndTick \/ EndCycle \/ Crash \/ NewDay
  <2>1. pc' \notin {"queue", "try"}
    BY <1>6 DEF Begin, EndCollect, Mark, EndTick, EndCycle, Crash, NewDay, Goto, tick
  <2> QED
    BY <2>1, IdleAnswers
<1>7. CASE \/ \E q \in Query : StartRun(q)
           \/ \E r \in Runs : Observe(r) \/ \E d \in Datasets : FinishRun(r, d)
           \/ \E x \in outbox : Deliver(x)
  <2>1. pc' \notin {"queue", "try"}
    BY <1>7 DEF StartRun, Observe, FinishRun, Deliver, Goto, tick
  <2> QED
    BY <2>1, IdleAnswers
<1> QED
  BY ONLY <1>1, <1>2, <1>3, <1>4, <1>5, <1>6, <1>7, [Next]_vars DEF Next
-----------------------------------------------------------------------------
(* Theorems. *)

LEMMA InvInit ==
  ASSUME Init
  PROVE  Inv
<1>1. outbox = {} /\ todo = {} /\ try = NoTry /\ batch = {} /\ cur = 0 /\ pc = "idle"
  BY DEF Init
<1>2. bank = {} /\ listed = Person /\ active = Search /\ day = 1 /\ crashes = 0 /\ edits = 0
  BY DEF Init
<1>3. Place
  BY <1>1 DEF Place, Working
<1>4. Around
  BY <1>2, BoundAssumption DEF Around
<1>5. Rows
  <2>1. \A s, d : Live(outbox, s, d) = {}
    BY <1>1 DEF Live
  <2>2. IsFiniteSet(outbox) /\ Cardinality({}) = 0
    BY <1>1, FS_EmptySet
  <2>3. CapHolds
    BY <2>1, <2>2, CapByLive, BoundAssumption
  <2> QED
    BY <1>1, <2>2, <2>3 DEF Rows, OneAlertPerEvent
<1>6. Hands /\ Answering
  BY <1>1 DEF Hands, NoTry, Answering, Current
<1> QED
  BY <1>3, <1>4, <1>5, <1>6, HistoryInit DEF Inv

LEMMA InvStep ==
  ASSUME Inv, [Next]_vars
  PROVE  Inv'
<1>1. History' /\ Place'
  BY HistoryStep, PlaceStep DEF Inv, Around
<1>2. Rows' /\ Around' /\ Hands'
  BY RowsStep, AroundStep, HandsStep DEF Inv
<1>3. Answering'
  BY <1>1, <1>2, AnsweringStep
<1> QED
  BY <1>1, <1>2, <1>3 DEF Inv

\* The ledger, the tick and everything around it keep to Inv.
THEOREM InvariantHolds == Spec => []Inv
<1>1. Init => Inv
  BY InvInit
<1>2. Inv /\ [Next]_vars => Inv'
  BY InvStep
<1> QED
  BY <1>1, <1>2, PTL DEF Spec

\* Every variable has its type.
THEOREM TypeCorrect == Spec => []TypeOK
<1>1. Inv => TypeOK
  <2> SUFFICES ASSUME Inv  PROVE TypeOK
    OBVIOUS
  <2>1. \A r \in Runs : /\ runs[r].query \in Query /\ runs[r].items \in Datasets \cup {<<>>}
                        /\ runs[r].status \in Statuses
                        /\ runs[r].day \in 1..MaxDays /\ runs[r].silent \in BOOLEAN
    BY RunParts DEF Inv, History, Run
  <2>2. 0 \notin Runs
    BY DEF Inv, History, HistoryTypes, Runs
  <2>3. batch \subseteq Runs /\ cur \in Runs \cup {0} /\ (pc \in Working <=> cur \in batch)
    BY <2>2 DEF Inv, Place
  <2>4. (pc \in {"plan", "queue", "try"}) = (cur \in batch)
    BY <2>3 DEF Working
  <2>5. try.searches \subseteq Search /\ (pc = "try" <=> try.searches # {})
    BY DEF Inv, Place, Jobs, NoTry
  <2>6. (pc = "try") = (try.searches # {})
    BY <2>5
  <2> QED
    BY <2>1, <2>3, <2>4, <2>5, <2>6
       DEF Inv, History, HistoryTypes, Place, Around, Rows, Row, Statuses, TypeOK
<1> QED
  BY <1>1, InvariantHolds, PTL

\* Whether a run is a silent baseline is settled when it is started, whatever is
\* reset or observed before its dataset is: reset_query_baseline refuses a scope
\* with an open run, and a scope has one open run at most.
THEOREM SilenceSettled == Spec => []SilenceIsSettledAtStart
<1>1. Inv => SilenceIsSettledAtStart
  BY DEF Inv, History
<1> QED
  BY <1>1, InvariantHolds, PTL

\* record_observations calls a listing new once, of all that the ledger retains.
THEOREM NewsOnce == Spec => []NewsOnlyOnce
<1>1. Inv => NewsOnlyOnce
  BY DEF Inv, History
<1> QED
  BY <1>1, InvariantHolds, PTL

\* enqueue_shadow has one row for a person and a listing, whatever searches match.
THEOREM OneAlert == Spec => []OneAlertPerEvent
<1>1. Inv => OneAlertPerEvent
  BY DEF Inv, Rows
<1> QED
  BY <1>1, InvariantHolds, PTL

\* enqueue_shadow keeps each search to its daily cap, over crashes, replays and
\* deliveries of the same day.
THEOREM CapKept == Spec => []CapHolds
<1>1. Inv => CapHolds
  BY DEF Inv, Rows
<1> QED
  BY <1>1, InvariantHolds, PTL

\* A dataset that is observed again after a crash is judged as it was.
THEOREM ReplayIsQuiet == Spec => ReplaySaysTheSame
<1>1. Inv /\ [Next]_vars =>
        [\A r \in Runs : EventsOf(r) # {} /\ runs'[r].status # "pruned"
            => EventsOf(r)' = EventsOf(r)]_vars
  <2> SUFFICES ASSUME Inv, Next, NEW r \in Runs, EventsOf(r) # {}, runs'[r].status # "pruned"
               PROVE  EventsOf(r)' = EventsOf(r)
    OBVIOUS
  <2>1. CASE events' = events
    BY <2>1 DEF EventsOf
  <2>2. CASE Aside
    BY <2>1, <2>2, AsideLeavesHistory
  <2>3. CASE Mark \/ \E q \in Query : StartRun(q) \/ Reset(q)
    BY <2>1, <2>3 DEF Mark, StartRun, Reset
  <2>4. CASE \E u \in Runs : \E d \in Datasets : FinishRun(u, d)
    BY <2>1, <2>4 DEF FinishRun
  <2>5. CASE EndTick
    <3>1. runs[r] \in Run
      BY RunParts DEF Inv, History
    <3>2. \A e \in events : e.run = r => e \in events'
      BY <2>5, <3>1, PruneWrites DEF Inv, History, Run
    <3>3. events' \subseteq events
      BY <2>5 DEF EndTick
    <3> QED
      BY <3>2, <3>3 DEF EventsOf
  <2>6. CASE \E u \in Runs : Observe(u)
    <3>1. PICK u \in Runs : Observe(u)
      BY <2>6
    <3>2. events' = Judged(u) /\ runs[u].status = "succeeded"
      BY <3>1 DEF Observe, Inv, Place
    <3>3. CASE EventsOf(u) # {}
      BY <2>1, <3>2, <3>3, JudgedAtOnce DEF Inv
    <3>4. CASE EventsOf(u) = {}
      <4>1. u # r
        BY <3>4
      <4>2. events \subseteq events' /\ \A e \in events' \ events : e.run = u
        BY <3>2, <3>4, FirstJudgement DEF Inv
      <4> QED
        BY <4>1, <4>2 DEF EventsOf
    <3> QED
      BY <3>3, <3>4
  <2> QED
    BY <2>2, <2>3, <2>4, <2>5, <2>6, StepsApart
<1> QED
  BY <1>1, InvariantHolds, PTL DEF Spec, ReplaySaysTheSame

\* mark_source_run_processed closes a run only when each person who waits for its
\* news has the alert, the listing, or no room left that day: nothing is lost to
\* a crash between an event and its alert.
THEOREM NobodyForgotten == Spec => ProcessedIsAnswered
<1>1. Inv /\ [Next]_vars =>
        [\A r \in Runs : runs[r].status = "succeeded" /\ runs'[r].status = "processed" =>
           \A p \in Person \ touched, item \in News(r) :
             LET wanting == Wanting(runs[r].query, p, item)
             IN \/ wanting = {} \/ <<p, item[1]>> \in bank
                \/ \E x \in outbox : x.person = p /\ x.item = item
                \/ \A s \in wanting : Used(s) >= Cap]_vars
  <2> SUFFICES ASSUME Inv, Next, NEW r \in Runs,
                      runs[r].status = "succeeded", runs'[r].status = "processed",
                      NEW p \in Person \ touched, NEW item \in News(r)
               PROVE  LET wanting == Wanting(runs[r].query, p, item)
                      IN \/ wanting = {} \/ <<p, item[1]>> \in bank
                         \/ \E x \in outbox : x.person = p /\ x.item = item
                         \/ \A s \in wanting : Used(s) >= Cap
    OBVIOUS
  <2>1. CASE runs'[r].status = runs[r].status
    BY <2>1
  <2>2. CASE Aside
    BY <2>1, <2>2, AsideLeavesHistory
  <2>3. CASE EndTick
    <3>1. runs'[r] = runs[r]
      BY <2>3, PruneWrites DEF Inv, History
    <3> QED
      BY <2>1, <3>1
  <2>4. CASE \E q \in Query : StartRun(q) \/ Reset(q)
    <3>1. runs'[r] = runs[r]
      BY <2>4, StartWrites DEF Inv, History, Around, Reset
    <3> QED
      BY <2>1, <3>1
  <2>5. CASE \E u \in Runs : Observe(u)
    BY <2>1, <2>5 DEF Observe
  <2>6. CASE \E u \in Runs : \E d \in Datasets : FinishRun(u, d)
    <3>1. PICK u \in Runs, d \in Datasets : FinishRun(u, d)
      BY <2>6
    <3>2. runs[u].status = "running" /\ \A v \in Runs : v # u => runs'[v] = runs[v]
      BY <3>1 DEF FinishRun, Runs
    <3> QED
      BY <2>1, <3>2
  <2>7. CASE Mark
    <3>1. pc = "queue" /\ todo = {} /\ \A v \in Runs : v # cur => runs'[v] = runs[v]
      BY <2>7 DEF Mark, Runs
    <3>2. r = cur
      BY <2>1, <3>1
    <3>3. ~Pending(p, item)
      BY <3>1 DEF Pending
    <3>4. Served(p, item)
      BY <3>1, <3>2, <3>3 DEF Inv, Answering
    <3> QED
      BY <3>2, <3>4 DEF Served
  <2> QED
    BY <2>2, <2>3, <2>4, <2>5, <2>6, <2>7, StepsApart
<1> QED
  BY <1>1, InvariantHolds, PTL DEF Spec, ProcessedIsAnswered
=============================================================================
