------------------------------ MODULE DailyFetch ------------------------------
(***************************************************************************)
(* The paid half of the daily path on one scrape day: `scrape` (or `run`)  *)
(* sweeps the watched cities page by page under the day's request budget,  *)
(* with one retry per page, gives back what a rejected token did not use,  *)
(* blocks the source for the day, and saves the pool with metadata that    *)
(* say what it covers; later runs, and `deliver`, act on the saved pool.   *)
(* Runs exclude each other by run.lock.  Every request and every file      *)
(* write is a step, a run may die between any two, and the dashboard       *)
(* changes the watched cities at any time.                                 *)
(***************************************************************************)
EXTENDS Integers, FiniteSets

CONSTANTS
  City,        \* (city, state) pairs searches may ask for
  Budget,      \* the lesser of the source's and the global daily budget
  MaxPages,    \* MAX_PAGES_PER_QUERY
  MaxCrashes, MaxEdits,   \* bounds of what may happen
  NoCity, NoPool, NoMeta

ASSUME CityAssumption == NoCity \notin City
ASSUME LimitAssumption ==
  {Budget, MaxCrashes, MaxEdits} \subseteq Nat /\ MaxPages \in Nat \ {0}
ASSUME NothingAssumption ==
  /\ \A s \in SUBSET City : NoPool # s
  /\ \A s, c \in SUBSET City, b \in BOOLEAN : NoMeta # [scope |-> s, completed |-> c, clean |-> b]

VARIABLES
  watched,     \* cities the active searches ask for
  late,        \* scrape_time has come
  used,        \* the day's quota file
  blocked,     \* the day's breaker file
  pool,        \* the day's cache: the cities it holds all pages of
  meta,        \* its metadata file
  last,        \* status of the latest scrape record
  pc, plan, todo, cur, page, attempt,   \* where the run is
  whole, completed, clean, mine,        \* its report
  spent,       \* requests the source took today (history)
  sweeps,      \* sweeps that spent any (history)
  overdrawn,   \* units given back for a request the source took (history)
  crashes, edits

files == <<used, blocked, pool, meta, last>>
place == <<pc, plan, todo, cur, page, attempt>>
report == <<whole, completed, clean, mine>>
history == <<spent, sweeps, overdrawn>>
budget == <<crashes, edits>>
vars == <<watched, late, files, place, report, history, budget>>

\* clean: neither truncated nor with an error.
Init ==
  /\ watched \in SUBSET City
  /\ late \in BOOLEAN
  /\ used = 0 /\ blocked = FALSE /\ pool = NoPool /\ meta = NoMeta /\ last = "none"
  /\ pc = "idle" /\ plan = {} /\ todo = {} /\ cur = NoCity /\ page = 0 /\ attempt = 0
  /\ whole = {} /\ completed = {} /\ clean = TRUE /\ mine = 0
  /\ spent = 0 /\ sweeps = 0 /\ overdrawn = 0 /\ crashes = 0 /\ edits = 0
-----------------------------------------------------------------------------
Goto(p) == pc' = p

\* What a run knows ends with it.
Rest ==
  /\ Goto("idle") /\ plan' = {} /\ todo' = {} /\ cur' = NoCity /\ page' = 0 /\ attempt' = 0
  /\ whole' = {} /\ completed' = {} /\ clean' = TRUE /\ mine' = 0

\* _cached_report: the pool is there, and its metadata are of the same cities.
Usable == watched # {} /\ pool # NoPool /\ meta # NoMeta /\ meta.scope = watched

\* PoolFetchReport.complete
Complete == Usable /\ meta.clean

\* _record_daily_run, of a scrape that did not fetch.
Record(status) == last' = status /\ UNCHANGED <<used, blocked, pool, meta>>

\* No adapter: no token, a switch, or no result budget is left at Apify.
NoAdapter ==
  /\ pc = "idle" /\ Record("skipped")
  /\ UNCHANGED <<watched, late, place, report, history, budget>>

\* No search to fetch for, or before scrape_time.
Wait ==
  /\ pc = "idle" /\ ~Usable /\ (watched = {} \/ ~late)
  /\ Record("waiting")
  /\ UNCHANGED <<watched, late, place, report, history, budget>>

Cached ==
  /\ pc = "idle" /\ Usable /\ Record("cached")
  /\ UNCHANGED <<watched, late, place, report, history, budget>>

Blocked ==
  /\ pc = "idle" /\ watched # {} /\ ~Usable /\ late /\ blocked
  /\ Record("failed")
  /\ UNCHANGED <<watched, late, place, report, history, budget>>

\* fetch_daily goes to the network.
Begin ==
  /\ pc = "idle" /\ watched # {} /\ ~Usable /\ late /\ ~blocked
  /\ plan' = watched /\ todo' = watched /\ Goto("sweep")
  /\ UNCHANGED <<watched, late, files, cur, page, attempt, report, history, budget>>

NextQuery(c) ==
  /\ pc = "sweep" /\ c \in todo
  /\ todo' = todo \ {c} /\ cur' = c /\ page' = 1 /\ Goto("reserve")
  /\ UNCHANGED <<watched, late, files, plan, attempt, report, history, budget>>

EndSweep ==
  /\ pc = "sweep" /\ todo = {} /\ Goto("finish")
  /\ UNCHANGED <<watched, late, files, plan, todo, cur, page, attempt, report, history, budget>>

\* A query that ends without an error or with one; it counts as completed if it
\* has a page.
Done(query) == completed' = completed \cup query
Some == IF page > 1 THEN {cur} ELSE {}

\* Mutation: the claim forgets the ceilings.
ReserveFreely ==
  /\ pc = "reserve"
  /\ used' = used + 1 /\ mine' = mine + 1 /\ attempt' = 1 /\ Goto("request")
  /\ UNCHANGED <<watched, late, blocked, pool, meta, last, plan, todo, cur, page, whole,
                 completed, clean, history, budget>>

\* reserve_request
Reserve ==
  /\ pc = "reserve" /\ used < Budget
  /\ used' = used + 1 /\ mine' = mine + 1 /\ attempt' = 1 /\ Goto("request")
  /\ UNCHANGED <<watched, late, blocked, pool, meta, last, plan, todo, cur, page, whole,
                 completed, clean, history, budget>>

\* A spent budget ends the sweep.
BudgetSpent ==
  /\ pc = "reserve" /\ used >= Budget
  /\ Done(Some) /\ clean' = FALSE /\ Goto("finish")
  /\ UNCHANGED <<watched, late, files, plan, todo, cur, page, attempt, whole, mine, history,
                 budget>>

\* The source takes the request: an actor run that it bills.
Billed ==
  /\ pc = "request"
  /\ spent' = spent + 1 /\ sweeps' = IF mine = 1 THEN sweeps + 1 ELSE sweeps
  /\ UNCHANGED <<watched, late, files, plan, todo, mine, budget>>

Taken == Billed /\ UNCHANGED overdrawn

LastPage ==
  /\ Taken /\ Goto("sweep")
  /\ whole' = whole \cup {cur} /\ Done({cur})
  /\ UNCHANGED <<cur, page, attempt, clean>>

MorePages ==
  /\ Taken /\ UNCHANGED <<cur, attempt, whole>>
  /\ \/ /\ page < MaxPages /\ page' = page + 1 /\ Goto("reserve")
        /\ UNCHANGED <<completed, clean>>
     \/ /\ page = MaxPages /\ Goto("sweep")
        /\ Done({cur}) /\ clean' = FALSE /\ UNCHANGED page

\* A 429 or a transient failure is retried once.
Fails ==
  /\ Taken /\ UNCHANGED <<cur, page, attempt, whole>>
  /\ \/ attempt = 1 /\ Goto("retry") /\ UNCHANGED <<completed, clean>>
     \/ attempt = 2 /\ Goto("sweep") /\ Done(Some) /\ clean' = FALSE

Retry ==
  /\ pc = "retry"
  /\ \/ /\ used < Budget /\ used' = used + 1 /\ mine' = mine + 1
        /\ attempt' = 2 /\ Goto("request") /\ UNCHANGED <<completed, clean>>
     \/ /\ used >= Budget /\ Goto("sweep") /\ Done(Some) /\ clean' = FALSE
        /\ UNCHANGED <<used, mine, attempt>>
  /\ UNCHANGED <<watched, late, blocked, pool, meta, last, plan, todo, cur, page, whole, history,
                 budget>>

\* The token is rejected: the request was not one.
Rejected ==
  /\ pc = "request" /\ Goto("refund")
  /\ UNCHANGED <<watched, late, files, plan, todo, cur, page, attempt, report, history, budget>>

\* The token is rejected when the actor's run is polled or its dataset read.
RejectedLate ==
  /\ Billed /\ Goto("refund") /\ overdrawn' = overdrawn + 1
  /\ UNCHANGED <<cur, page, attempt, whole, completed, clean>>

\* Mutation: the unit of a rejected request is not given back.
RefundNothing ==
  /\ pc = "refund" /\ Goto("block") /\ mine' = mine - 1
  /\ UNCHANGED <<watched, late, files, plan, todo, cur, page, attempt, whole, completed, clean,
                 history, budget>>

\* Mutation: the whole sweep's units are given back.
RefundAll ==
  /\ pc = "refund" /\ Goto("block")
  /\ used' = used - mine /\ mine' = mine - 1
  /\ UNCHANGED <<watched, late, blocked, pool, meta, last, plan, todo, cur, page, attempt, whole,
                 completed, clean, history, budget>>

\* refund_request
Refund ==
  /\ pc = "refund" /\ Goto("block")
  /\ used' = IF used > 0 THEN used - 1 ELSE used
  /\ mine' = mine - 1
  /\ UNCHANGED <<watched, late, blocked, pool, meta, last, plan, todo, cur, page, attempt, whole,
                 completed, clean, history, budget>>

\* block_source_for_day; the query it happened in does not count.
Block ==
  /\ pc = "block" /\ Goto("finish")
  /\ blocked' = TRUE /\ clean' = FALSE
  /\ UNCHANGED <<watched, late, used, pool, meta, last, plan, todo, cur, page, attempt, whole,
                 completed, mine, history, budget>>

\* Mutation: a sweep without any result is not worth a cache.
FinishUsable ==
  /\ pc = "finish" /\ Goto(IF completed # {} THEN "unlink" ELSE "record")
  /\ UNCHANGED <<watched, late, files, plan, todo, cur, page, attempt, report, history, budget>>

\* A sweep that spent requests is cached, whatever it brought.
Finish ==
  /\ pc = "finish" /\ Goto(IF mine > 0 THEN "unlink" ELSE "record")
  /\ UNCHANGED <<watched, late, files, plan, todo, cur, page, attempt, report, history, budget>>

\* Mutation: the old metadata stay until the new are written.
LeaveMeta ==
  /\ pc = "unlink" /\ Goto("data")
  /\ UNCHANGED <<watched, late, files, plan, todo, cur, page, attempt, report, history, budget>>

\* cache_raw: metadata away, data, metadata.
Unlink ==
  /\ pc = "unlink" /\ Goto("data") /\ meta' = NoMeta
  /\ UNCHANGED <<watched, late, used, blocked, pool, last, plan, todo, cur, page, attempt, report,
                 history, budget>>

WriteData ==
  /\ pc = "data" /\ Goto("meta") /\ pool' = whole
  /\ UNCHANGED <<watched, late, used, blocked, meta, last, plan, todo, cur, page, attempt, report,
                 history, budget>>

WriteMeta ==
  /\ pc = "meta" /\ Goto("record")
  /\ meta' = [scope |-> plan, completed |-> completed, clean |-> clean]
  /\ UNCHANGED <<watched, late, used, blocked, pool, last, plan, todo, cur, page, attempt, report,
                 history, budget>>

\* _cmd_scrape's record: a pool without a completed query is a failed scrape.
RecordScrape ==
  /\ pc = "record" /\ Rest
  /\ Record(IF completed # {} THEN "fetched" ELSE "failed")
  /\ UNCHANGED <<watched, late, history, budget>>

Crash ==
  /\ pc # "idle" /\ Rest
  /\ crashes < MaxCrashes /\ crashes' = crashes + 1
  /\ UNCHANGED <<watched, late, files, history, edits>>
-----------------------------------------------------------------------------
(* Around the run. *)

ScrapeTime ==
  /\ ~late /\ late' = TRUE
  /\ UNCHANGED <<watched, files, place, report, history, budget>>

\* The dashboard adds the first search of a city or removes its last.
Edit(c) ==
  /\ edits < MaxEdits /\ edits' = edits + 1
  /\ watched' = IF c \in watched THEN watched \ {c} ELSE watched \cup {c}
  /\ UNCHANGED <<late, files, place, report, history, crashes>>

\* The incremental collector, under run.lock too, takes its starts from the same
\* budget and never gives one back.
IncrementalStart ==
  /\ pc = "idle" /\ used < Budget
  /\ used' = used + 1 /\ spent' = spent + 1
  /\ UNCHANGED <<watched, late, blocked, pool, meta, last, place, report, sweeps, overdrawn, budget>>
-----------------------------------------------------------------------------
Next ==
  \/ NoAdapter \/ Wait \/ Cached \/ Blocked \/ Begin
  \/ EndSweep \/ Reserve \/ BudgetSpent
  \/ LastPage \/ MorePages \/ Fails \/ Retry \/ Rejected \/ RejectedLate \/ Refund \/ Block
  \/ Finish \/ Unlink \/ WriteData \/ WriteMeta \/ RecordScrape
  \/ Crash \/ ScrapeTime \/ IncrementalStart
  \/ \E c \in City : NextQuery(c) \/ Edit(c)

Spec == Init /\ [][Next]_vars
-----------------------------------------------------------------------------
(* Properties *)

\* Every variable has its type; the quota file never shows more than the budget.
TypeOK ==
  /\ watched \subseteq City /\ late \in BOOLEAN
  /\ used \in 0..Budget /\ blocked \in BOOLEAN
  /\ pool \in (SUBSET City) \cup {NoPool}
  /\ meta \in [scope : SUBSET City, completed : SUBSET City, clean : BOOLEAN] \cup {NoMeta}
  /\ last \in {"none", "skipped", "waiting", "cached", "fetched", "failed"}
  /\ pc \in {"idle", "sweep", "reserve", "request", "retry", "refund", "block", "finish",
             "unlink", "data", "meta", "record"}
  /\ plan \subseteq City /\ todo \subseteq plan /\ cur \in City \cup {NoCity}
  /\ page \in 0..MaxPages /\ attempt \in 0..2
  /\ whole \subseteq completed /\ completed \subseteq plan
  /\ clean \in BOOLEAN /\ mine \in 0..Budget
  /\ spent \in Nat /\ sweeps \in Nat /\ overdrawn \in Nat
  /\ crashes \in 0..MaxCrashes /\ edits \in 0..MaxEdits

\* The source takes no more requests than the budget, whatever is refunded,
\* retried, and asked again after a crash (reserve_request, refund_request).  Only
\* a token rejected after its request was taken gives a unit back that was
\* spent, and the day's breaker keeps that from happening again.
BudgetHolds == spent <= Budget + overdrawn /\ overdrawn <= 1 + crashes

\* A rejected token costs nothing: between runs the quota file holds what was
\* spent, and a unit more only for a run that died (refund_request's docstring).
UnitsAreNotLost == pc = "idle" => used <= spent + crashes

\* A day's pool is paid for once: a further paid sweep needs a changed search or
\* a run that died, however badly the sweeps before went.
SweepsAreBounded == sweeps <= 1 + crashes + edits

\* When a delivery may tell a recipient that there is nothing, every page of
\* every watched city is in the pool it looked at: also after edits, partial
\* sweeps, and a run that died between the writes of the cache.
CompleteIsHonest == pc = "idle" /\ Complete => watched \subseteq pool

\* fetch.py: "a sweep where every query failed must NOT flow onward".  After a
\* failed scrape `deliver` finds no usable pool, and reports the outage instead.
FailureStopsDelivery == pc = "idle" /\ last = "failed" => ~Usable
=============================================================================
