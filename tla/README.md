# CHC_Rental: specifications, model checking, proofs

CHC_Rental looks for rental listings, matches them with the searches of the
people on an allowlist, and pushes them by Telegram: once a day from a saved
pool (`run`, `deliver`), and, for a few "canary" recipients, as alerts a few
minutes after a listing appears (`alerts tick`, `alerts deliver`). Everything
runs as short processes that cron, launchd or the owner starts; what they know
of each other is in files, in one SQLite ledger and in advisory locks. Almost
every rule of the program is about not sending twice, not paying twice and not
losing what was paid for or sent, with a process that may die at any line.
That is what these modules model, check and prove.

## Inventory

Paths are relative to `src/src/chc_rental/`.

| Component | State | Operations | Correct when |
|---|---|---|---|
| Incremental delivery worker (`delivery_worker.py`) | place in its run, claimed row, loaded settings | promote, reconcile, recover stale, release retries, precancel, claim, check, send, record | no row is sent twice; every row comes to an end; no other path sends between the check and the send |
| Alert outbox (`event_store.py`, `outbox`, `delivery_receipts`) | status, attempts, `not_before`, `claimed_at` of each row; receipts | enqueue, promote, cancel, claim, sent, failure, return, recover, retry | a receipt is that of a message Telegram took; "uncertain" is final |
| Daily delivery (`pipeline.py`) | plan, message being sent | plan, reconcile, last look, prepare, send, record, bank; notices | one push a day; nothing delivered is sent again |
| Delivery journal and seen ledger (`store.py`, `delivery_history.py`) | append-only events per attempt; append-only delivered keys | prepare, transition, annotate, mark seen, mark notified, reconcile, purge | the ledger claims nothing the journal does not know; an interrupted send is never retried |
| Source collection (`incremental.py`, `source_runs`, `query_scopes`) | run status, processed flag, lease, next due time | resume, poll, recover, claim scope, reserve, start, finish, release | a scope is not paid for twice; a paid dataset is processed |
| Circuit breaker (`source_breakers`) | state, failures, retry time, pending alert | failure, success, start allowed, release probe, acknowledge | nothing starts while it is open; every probe ends; the owner hears of an outage and of its end |
| Scheduler tick (`scheduler.py`) | holder of `run.lock` | collect, process, deliver, alert, back up, prune | at most one tick; a failed stage does not stop the next |
| Observation (`events.py`, `record_observations`) | baseline, observations, versions, events | observe, reset baseline | a listing is "new" once per scope; observing a run again changes nothing |
| Outbox planning (`outbox.py`) | - | match events with watches, enqueue under the cap | one row per event and recipient, also when repeated |
| Daily fetch, cache, quota (`fetch.py`, `store.py`) | cache with metadata, requests used, breaker for the day | sweep, reserve, refund, cache, fall back | the budget holds; a partial pool is not taken for a complete one |
| Test Push (`test_push.py`) | preview with its fingerprint, parts left, listings of a part without a row, status | preview, confirm, look again before each part, send, bank, audit | its status says what happened; an edit stops it; nothing is sent as new twice |
| Recipient administration (`tui/controller.py`) | allowlist, canaries, the change in progress | add, pause, edit, choose canaries, remove, change ID | the canary list stays with the people it names, also when a change is cut short; a purge forgets nothing that is being sent |
| Notification schedule (`notification_schedule.py`) | - | due gate, day window, earliest time of an alert | due once a local day; no alert in the quiet hours, none put off for ever |
| Result budget (`cost.py`, `sources/__init__.py`) | - | limit and charge of a run from the platform's usage | a run never exceeds the owner's limit, the days' runs together not the cap's share |
| Matching (`matching.py`) and planner (`sources/planner.py`, `sources/zillow.py`) | - | match a listing, envelope of a city's searches, filters of the URL | the query hides nothing that a search wants |
| Identity and models (`dedup.py`, `models.py`) | - | keys, validators | - |
| Config store, migrations, backups, pruning, rollout readiness (`store.py`, `event_store.py`, `operations.py`) | YAML files, schema version, backup files | edit, migrate, back up, drill, prune, attest | restartable |
| Command line and dashboard (`cli.py`, `tui/`) | - | parse, show, call the above | - |

How they interact:

- `run.lock` (`try_run_lock`) is taken without waiting by `run`, `scrape`,
  `deliver`, the scheduler's tick, `alerts deliver`, the backup command and the
  dashboard's shadow cycle. Who finds it taken does nothing.
- The delivery lock of a recipient (`recipient_delivery_lock`) is waited for by
  the daily path, the notices, Test Push and the worker, around "look at the
  bank, send, record". Removing or editing a recipient takes neither lock.
- Both are `flock` locks: a process that dies frees them.
- Each SQLite method is one transaction; each append to the journal or to the
  seen ledger is one write; nothing spans two of them.
- The *bank* of a recipient (`active_seen_keys`) is the seen ledger together
  with the journal's accepted listings. All paths read it as the last thing
  before they send.

What is hard to test here: a process that dies between two writes; a Telegram
or Apify call whose outcome is not known; the dashboard changing what a run has
read; a repair that the next run must make; alerts about alerts. The hazards
are listed with their lines in `PROJECT.json`.

## Modules

| Module | Models | Size of the instance |
|---|---|---|
| `AlertPromise` | abstract: what any sending path promises about one message | - |
| `DeliveryWorker` | the incremental worker, its outbox rows, the dashboard, and the paths that share the recipient's lock | `MCDeliveryWorker` |
| `DeliveryWorkerProofs` | theorems about `DeliveryWorker`, and that it implements `AlertPromise` | every instance |
| `RoutineDelivery` | the daily path, its journal and ledger, the notices, and the peers | `MCRoutineDelivery` |
| `RoutineDeliveryProofs` | theorems about `RoutineDelivery`, and that it implements `AlertPromise` | every instance |
| `ScopePromise` | abstract: what the collection promises about one query scope | - |
| `SourceCollection` | the collection cycle, the run ledger, the breaker and the owner's alerts | `MCSourceCollection` |
| `SourceCollectionProofs` | theorems about `SourceCollection`, and that it implements `ScopePromise` | every instance |
| `Observation` | what becomes of a paid dataset: baselines, events, the planning of alerts under the cap, pruning | `MCObservation` |
| `ObservationProofs` | theorems about `Observation` | every instance |
| `DailyFetch` | the paid half of the daily path: sweep, quota, the day's breaker, the cache with its metadata | `MCDailyFetch` |
| `DailyFetchProofs` | theorems about `DailyFetch` | every instance |
| `TestPush` | one Test Push: preview, confirmation, parts, bank, audit | with `Recipients` |
| `Recipients` | `TestPush` composed with the owner's changes to people and with the other senders | `MCRecipients` |
| `RecipientsProofs` | theorems about `Recipients` | every instance |
| `QueryPlan` | matching and the query planner: operators | - |
| `ResultBudget` | the spend gate: operators | - |
| `ScrapeProofs` | theorems about `QueryPlan` and `ResultBudget` | every input |
| `Schedule` | the due gate, the day window and the earliest time of an alert: operators and theorems | every input |

`DeliveryWorker` and `RoutineDelivery` both implement `AlertPromise`, under the
mappings at their ends (`FateOf`), and `SourceCollection` implements `ScopePromise` (`DealOf`).
A definition named in a comment that begins
with "Mutation:" is not part of a specification. Each is a plausible bug, and is
used to show that a property can fail.

### AlertPromise

A message is offered, taken by Telegram at most once, and then delivered or
unknown; it comes back to be offered again only when Telegram certainly did not
take it. A message that may have been taken is never offered again, and nothing
leaves "unknown". A message can be withdrawn while it is with a worker; then
Telegram may still take it once ("recalled").

### ScopePromise

A scope's run is asked for, one scope at a time; it is seen to start, runs, and leaves a
dataset that was paid for, which a tick reads and then closes. Who dies while asking leaves a run
of which nobody knows whether it started ("unsure"): such a run can only be given up. Who dies
between reading and closing leaves the dataset to be read again. There is no step
from "unsure" to a dataset, none that closes a dataset nobody has read, and no second run before
the first is closed or given up. Phases, leases, due times, the breaker and the budget are not part of it.

### DeliveryWorker

One recipient: recipients share nothing but `run.lock`. The state is that of
the code: `status`, `attempts`, `wait` (`not_before`), `age` (`claimed_at`),
`receipt`, the recipient's `bank`, the two locks, and per process its place `pc`,
its claimed row `cur` and what it loaded (`target`, `left`). `config` stands
for the settings and the allowlist entry as far as this recipient goes: `gate`
for the three global switches, `wanted` for "some active search still matches".

One action is one transaction, file write or Telegram call:

| Code | Actions |
|---|---|
| `run`, `promote` | `Begin`, `Promote` |
| `deliver_due` | `Load`, `Reconcile`, `RecoverStale`, `ReleaseRetries`, `Precancel`, `Claim`, `TakeLock`, `Finish` |
| `_deliver_claimed` | `CheckPasses`, `CheckDrops`, `CheckReturns`, `Transport`, `RecordSent`, `RecordFailure`, `BankIt` |
| exceptions nobody catches | `Raise` (an UPDATE that expects `sending` finds none) |
| `enqueue_shadow` | `Enqueue` |
| the dashboard | `Edit`, `RetryFailed`, `RemoveCancels`, `RemoveUncanary`, `RemoveUnlist`, `RemovePurge`, `RemoveDies`, `AddPerson` |
| daily path, Test Push | `PeerLocks`, `PeerSends`, `PeerBanks`, `PeerUnlocks`, `PeerDies` |
| the world | `Crash`, `TimePasses` |

Abstracted: `Promote` and `Precancel` handle all rows in one step, although the
code does so row by row (both only look at settings loaded before and change
each row once). Time is counted in units that pass between runs, since a run
reads the clock once. A definite refusal (`refused`, `rejected`) means that Telegram
did not take the message. Retention cutoffs, the `outbox_id` and `telegram_ids`
filters of the command line and a Test Push with the repeat override (which
leaves the bank as it is) are left out.

### RoutineDelivery

One recipient over a few local days. `journal` holds the folded status of
every attempt, an attempt being a day and an exact message, as
`_routine_attempt_identity` has it; `ledger` holds the rows of the seen ledger,
whose file exists when it has any. `Announces` maps messages to properties:
the same property reworded is a different attempt. A run plans (`Plan`,
`PlanOutage`), takes the lock, repairs the ledger (`Reconcile`) and goes through
its messages in any order: `Suppress`, `Prepare`, `Quarantine`, `WriteFails`,
`Stage`, `Send`, `RecordAccepted`, `ReceiptLost`, `RecordOther`, `BankIt`.
A run plans either listings or one notice, since `plan_pushes` puts a person
into one list or the other. Days, delivery time, removal, re-adding, Test Push
and the incremental worker go on around it.

### SourceCollection

One source, a few query scopes. `runs[q]` is the scope's latest run; a finished
or processed run counts as "none". A tick goes through the phases resume,
recover, start, process and alert; `verdict` is the outcome that a phase learns about
one run and hands to the breaker (`Health`). `belief` is a history variable:
what the owner was last told. Which of the due scopes the searches still plan, the active
window and the monthly budget are a free choice (`Allow`, `NoStarts`).
`process_incremental_report` is one step per run (`Process`) that may fail
(`ProcessFails`); delivery, which comes between processing and the alerts, is
`DeliveryWorker`'s. A crash between Apify's start and `attach_apify_run` is a crash
at "created": the next tick gives the reservation up. Error classes are merged
where the code treats them alike (`dataset_failed` with `poll_failed`;
`timed_out` and `cancelled` with `failed`), which merges some "escalated" news.

### Observation

The ledger behind the alerts, and a tick that goes over the runs it has
collected. `runs` are the source runs in the order of their starts, `events`
the listing events, each standing also for the observation it comes with,
`outbox` the queued alerts, `bank` what each person was sent. A listing is an
identity with a material version. `Datasets` are the results that a run may have,
each a sequence, since the second copy of a listing in one dataset is judged after
the first.

| Code | Actions |
|---|---|
| `_recover_succeeded`, `create_source_run`, `finish_source_run` | `Begin`, `StartRun`, `FinishRun`, `EndCollect` |
| `record_observations` | `Observe` (with `Kind`, `Judged`) |
| `plan_shadow_notifications` | `Plan`, `Look` |
| `enqueue_shadow` | `Queue`, `CapReached` |
| `mark_source_run_processed` | `Mark` |
| `prune_history`, the end of a tick or of a shadow cycle | `EndTick`, `EndCycle` |
| the delivery worker, Test Push | `Deliver`, `TestPush` |
| the dashboard | `Reset`, `Remove`, `Switch` |
| the world | `Crash`, `NewDay` |

Abstracted: price changes and material changes are one kind of event, since
neither is queued. `base` of a scope is what the run asks of it at its
observation; `silent` remembers what it was at the run's start. Days are
whole, and all recipients share the local day. The retirement of idle query scopes by
pruning, adding a person again, and the truncation of a dataset are left out.

### DailyFetch

One scrape day. The files are `used` (quota), `blocked` (breaker of the day), `pool`
and `meta` (the cache and its metadata), `last` (status of the scrape record); `pool`
is the set of cities whose pages are all in it, which is what completeness is
about. `whole`, `completed`, `clean` and `mine` are the report of the run in
progress. `spent`, `sweeps` and `overdrawn` are history: what the source billed, how many
sweeps cost anything, how many units were given back for a request the source had billed.

| Code | Actions |
|---|---|
| `fetch_daily` before the network | `NoAdapter`, `Wait`, `Cached`, `Blocked`, `Begin` |
| the sweep and its pages | `NextQuery`, `LastPage`, `MorePages`, `Fails`, `Retry`, `EndSweep` |
| `reserve_request`, `refund_request`, `block_source_for_day` | `Reserve`, `BudgetSpent`, `Rejected`, `RejectedLate`, `Refund`, `Block` |
| `cache_raw` and what decides on it | `Finish`, `Unlink`, `WriteData`, `WriteMeta` |
| `_cmd_scrape`'s record | `RecordScrape` |
| around the run | `ScrapeTime`, `Edit`, `IncrementalStart`, `Crash` |

Abstracted: there is one source, so that its own ceiling and the global one are one
number. Pages are those of a paging source; Zillow's adapter always has one, which is
the instance `MaxPages = 1` of the same code. Runs exclude each other by `run.lock`, hence
one process. The incremental collector, also under that lock, takes its starts
from the same quota file. `deliver` only reads: it is the definitions `Usable` and `Complete`.

### TestPush and Recipients

`TestPush` is the dashboard's `prepare_test_push` and `deliver_test_push`; `Recipients`
extends it with everything that may come between two of its steps. The files are `entry`
(the allowlist; an entry is a person and a look, either paused or one of two versions of name
and preferences), `ledger` and `journal` per Telegram ID, `canary`, and the delivery `lock`s.
`plan` is what was previewed, with the entry as the fingerprint has it.

| Code | Actions |
|---|---|
| `prepare_test_push`, the confirmation screen | `Preview`, `Cancel`, `Confirm`, `Close` |
| `deliver_test_push` | `NoSender`, `TakeLock`, `CheckPasses`, `CheckStops`, `SendAccepted`, `SendRefused`, `SendAmbiguous`, `BankOne`, `BankFails`, `PartBanked`, `Audit` |
| `add_person`, `set_person_active` and the forms, the Config form, `update_incremental_settings` | `Add`, `Edit`, `Switch`, `ChooseCanaries` |
| `update_person` with a new ID | `ChangeId`, `Rename`, `Remap`, `Purge` |
| `remove_person` | `Remove`, `Uncanary`, `Unlist`, `Purge` |
| daily path, incremental worker | `PeerClears`, `PeerSends`, `PeerLogs`, `PeerBanks`, `PeerLeaves` |
| the end of retention; a process that dies | `Expire`; `PushCrash`, `ChangeCrash`, `PeerLeaves` |

`told`, `arrived`, `since`, `enrolled` and `cut` are history. `told` counts how often a
listing was sent to an ID unasked while a file has it, or is about to have it; it starts anew
when all files have forgotten the listing, be it by a lost write, the end of retention
or a purge. `enrolled` are the people chosen as canaries, whatever IDs they have.

Every outcome but a success is audited under the delivery lock; a success is audited after it was
let go (`test_push.py:623`), so that a sender may come between its last bank row and its audit.

Abstracted: which listings `daily_cap` leaves out and how they are split into parts is any
choice; the wording is left out. The cancelling of alerts with which both changes begin is
`DeliveryWorker`'s. The changes of one dashboard come one at a time. The app also keeps its
screens shut during a push; the model lets other processes edit then, as they may. Retention does not
end within the seconds of a delivery.

### QueryPlan, ResultBudget, Schedule

Pure functions of the code as operators, with what they promise as theorems over all inputs;
there is nothing to run. `QueryPlan` has searches, queries and listings as records with
the code's fields; `Matches` is `matches_search`, `IsEnvelope` says what `_envelope_query`
computes, `Shows` what a source that honours the filters of `rental_search_url` returns.
`ResultBudget` has `plan_result_budget` (`Allowed`), the limit and the charge that the adapter
makes of it (`RunLimit`, `Belt`), money in whole units. `Schedule` has
`is_profile_due`, `notification_day_window` and `notification_not_before` over minutes, with local
days of 1440 of them: a day of 23 or 25 hours is not covered.

## Runs

The bounds are in the `.cfg` files, each with its name in the module.

| Run | Checks | Instance | Distinct states |
|---|---|---|---|
| `DeliveryWorkerSafety` | `TypeOK`, `AtMostOneCopy`, `ReceiptsAreEarned`, `LastLookHolds`, `ReceiptGuardsListing`, `OnlyOrphansAreStale`, `KeepsPromise` | 2 processes, 2 rows for one property, 1 crash, 2 edits, 1 failed write | 2.2 million |
| `DeliveryWorkerLiveness` | `BankCatchesUp`, `OrphansSurface`, `AlertsDrain` | 1 process, 1 row, 1 crash, 2 edits, 1 lost write | 200 thousand |
| `RoutineDeliverySafety` | `TypeOK`, `OneCopyPerAttempt`, `LastLookHolds`, `LedgerIsEarned`, `KeepsPromise` | 2 days, 2 wordings of one property, Test Push, 1 crash, 1 lost write, removal and re-adding | 500 thousand |
| `RoutineDeliveryDay` | `OnePushADay` | 1 day, 2 properties, both notices, both peers, 1 crash, 1 lost write | 1.6 million |
| `SourceCollectionSafety` | `TypeOK`, `NoStartWhileOpen`, `RecoveryIsNews`, `KeepsPromise` | 2 scopes, threshold 2, 1 crash, 1 processing error | 300 thousand |
| `SourceCollectionRecovery` | `PaidRunsAreProcessed`, `OutageIsTold`, `ProbeResolvesUncrashed` | 1 scope, 2 crashes, 2 processing errors | 100 thousand |
| `ObservationSafety` | `TypeOK`, `SilenceIsSettledAtStart`, `NewsOnlyOnce`, `OneAlertPerEvent`, `CapHolds`, `ReplaySaysTheSame`, `ProcessedIsAnswered` | 2 scopes, 3 searches of one person, 3 runs, 2 days, 1 crash, 1 edit | 3.8 million |
| `DailyFetchSafety` | `TypeOK`, `BudgetHolds`, `UnitsAreNotLost`, `SweepsAreBounded`, `CompleteIsHonest` | 2 cities, 2 pages, budget 5, 2 crashes, 2 edits | 3.0 million |
| `RecipientsSafety` | `TypeOK`, `StatusIsHonest`, `EditsStopThePush`, `RepeatsAreForgotten`, `EnrolmentFollowsThePerson` | 2 IDs, 2 people, 2 listings, 2 parts, 3 upsets, 2 turns | 3.5 million |

Why the bounds are enough to mean something. Two rows for the same property and
two processes are the least with which one row's receipt can matter to another
row, and a crash of the one process can meet the other; two edits allow a
removal with all its writes during a send and one more change, or a change and its
reversal; `MaxAttempts` 2 has a first refusal that is retried and a last one that
is not. Two days with two wordings let a property come back reworded on the
same and on the next day after a lost write. Two scopes let the breaker open
between two starts, and threshold 2 has a first failure and a last one.
`ReceiptGuardsListing` says itself that it holds up to two edits and without a failed write: a recipient
who is removed, added and made a canary again (three edits) starts from an empty bank, while
old rows keep their receipts. `OnePushADay` is checked for an established
recipient (see below). The safety runs of the two delivery modules do not check
for deadlock, since the edits and days are bounded, and neither do those of
`Observation`, `DailyFetch` and `Recipients`; those of `SourceCollection` do.

In `Observation`, two searches on one scope and one on another are the least with
which an event can reach a person by two searches and a listing by two scopes; three runs
let a listing be seen before, repriced and pruned (a retention of one day
within two days); a cap of one makes the second alert of a search the one that tries
the next search. In `DailyFetch`, budget 5 lets two cities with two pages each
and one retry come to their ends, or run out of units at every place of the sweep; two crashes
with two edits allow a crash in each of two sweeps for different cities.

In `Recipients`, an upset is an edit, a crash or a failed write, and a turn a preview or a
message of another sender. Two IDs are the least between which a person can move and with
which an ID can come to someone else; three upsets are a change of ID that dies and one more change by
somebody, or an edit, a purge and a failed write in one push; two turns are a push that
meets another sender, or the push that follows one. Two parts are the least with which a push can stop
half way. IDs, listings and people are symmetric.

What the properties say:

- `AtMostOneCopy`, `OneCopyPerAttempt`: whatever crashes, retries and
  quarantines come between, Telegram takes a message once.
- `KeepsPromise`: the sending path implements `AlertPromise` (`DeliveryWorker`,
  `RoutineDelivery`), the collection cycle implements `ScopePromise` (`SourceCollection`).
- `ReceiptsAreEarned`, `LedgerIsEarned`: what is recorded as delivered was delivered.
- `LastLookHolds` (both modules), `ReceiptGuardsListing`: nothing comes between
  the last look at the bank and the send, and the bank that is looked at knows
  the receipts of runs that died.
- `OnlyOrphansAreStale`: recovery by the clock never takes a row from a living worker.
- `OnePushADay`: when a run sends, nothing was accepted that day by another run.
- `NoStartWhileOpen`: nothing is bought while the breaker is open, also when it opens between
  two starts of one tick.
- `RecoveryIsNews`: a recovery is news only for an owner who heard of the failure.
- `ReplaySaysTheSame`, `ProcessedIsAnswered`: a tick that dies between observing,
  queueing and marking is made good by going over the run again, which neither changes
  what was said of a listing nor forgets anybody.
- `SilenceIsSettledAtStart`: the owner's reset of a baseline never swallows a run
  that was paid for before it.
- `NewsOnlyOnce`, `OneAlertPerEvent`, `CapHolds`: a listing is news once to a scope,
  an alert once to a person, and a search never gets more than its cap in a day.
- `BudgetHolds`, `UnitsAreNotLost`: the source bills no more than the budget,
  plus one unit for a token rejected after it billed, once a day and once more
  per crash; and a rejected token costs nothing.
- `SweepsAreBounded`: a day's pool is paid for once, and again only after a crash or
  an edit.
- `CompleteIsHonest`: what `deliver` calls complete covers every watched city.
- `StatusIsHonest`: what the operator reads after a Test Push is neither better nor worse than what
  happened; a push that "failed" can be pressed again.
- `EditsStopThePush`: once the recipient is not as previewed, one part at most leaves.
- `RepeatsAreForgotten`: across all senders, purges, moves and lost writes, a listing comes a second
  time only when it is announced as a repeat or no file knows of the first.
- `EnrolmentFollowsThePerson`: an ID correction takes the canary membership along and a removal ends
  it, before the ID can come to somebody else.
- `BankCatchesUp`, `OrphansSurface`, `AlertsDrain`, `PaidRunsAreProcessed`,
  `OutageIsTold`, `ProbeResolvesUncrashed`: what has to happen, happens.

### Fairness

The liveness runs assume that launchd starts the job again and again
(`Begin`), that a process that runs goes on, that time goes on between runs,
that the delivery lock is not kept from a waiting worker for ever by paths that
come a few times a day (strong fairness of `TakeLock`), and, for the source, that a
run polled for ever is seen to end, a dataset read for ever is read, and the
owner's Telegram does not refuse for ever. Nothing is assumed about the
dashboard, about Telegram's answers to alerts for recipients, or about crashes other than
their number. `BankCatchesUp`, `OrphansSurface` and `AlertsDrain` also suppose
that the gates stay open from some time on: the code does nothing behind a
closed gate.

### Where the code does something else than its documents say

Each is a run that TLC ends with a counterexample.

- `RoutineDeliveryOutage` (`OutageLeavesDayOpen`). The outage notice does not
  stamp the ledger, so that listings can still go out the same day; but
  `last_sent_at` counts the notice's accepted journal entry all the same.
- `SourceCollectionStuck` (`ProbeResolves`). After the cooldown one probe is to be
  permitted. A tick that dies between claiming the probe and reserving its
  run leaves the breaker half open, and nothing starts any more.
- `DailyFetchOutage` (`FailureStopsDelivery`). `fetch.py` says that a sweep in which every
  query failed must not flow onward. Such a sweep is recorded as "failed" and cached,
  since its requests are spent; the cached pool is then "usable" to `deliver`,
  which sends nothing and never reaches the source-outage notice that it keeps for days
  on which the scrape failed.

Proved, and not in a run:

- `OtherIsHidden` of `ScrapeProofs`, with `EnvelopeCovers`. The envelope of a city is documented as a
  superset of every search it covers (`sources/planner.py:14-17`). It is one, save for listings
  of type "other", which the source has no filter for: as soon as any search of the city names
  a type that it can filter on, nobody there is shown them any more. This takes the source to
  hide, under a type filter, whatever the adapter labels "other"; the source is external.
- `TwoRunsOverdrawTheDay` of `ScrapeProofs`. The gate computes what "today's scrape may buy"
  (`cost.py:1`) and the adapter takes it as the limit of each run, of which a scrape has one per
  city and retry.
- `RunawayTakesHalfMore` of `ScrapeProofs`. The charge at which the platform stops a run, so that it
  cannot bill past what it was authorised to buy (`sources/__init__.py`), lies above that as soon as
  the configured charge does, by a half at the most; a configured charge of zero is not passed on and
  stops nothing.

Seen while reading, and not in a run:

- Daily path. `last_sent_at` is empty for a recipient without a ledger file, so a failed first
  append or a notice sent before it allows a second push that day (`README.md:205` says one). An
  uncertain daily send is offered again on the next local day as a new attempt (`README.md:124`
  says never).
- Worker. `recipient_delivery_lock` is documented to be held until the accepted receipt has been
  recorded. Removing a recipient cancels rows that are `sending`; `mark_outbox_sent` then raises
  and the run ends, with the lock free, the message taken and no receipt (`Raise` at
  "accepted"). An attempt counts when a row is claimed, so a row returned by quiet hours
  loses one. A row can be queued for a recipient who was removed after the plan was made.
- Source. A rate-limited poll returns a probe that another run has spent. A recovery alert that is still
  pending is erased by a second success, and a success while a newer failure alert is pending
  raises none (`event_store.py:1613-1631`, against `docs/INCREMENTAL_OPERATIONS.md:123-125`). The owner
  alert on failed rows names ten and marks all. An Apify run whose start or poll is given up goes on
  billing while the daily path asks for the page again.
- Observation. The first run of a scope that succeeds is its silent baseline, also when its dataset
  is empty or cut short, and everything the next one finds is news. `docs/DECISIONS.md:121` speaks of
  the first "usable" run and does not say what makes one usable, so that no property is about it. An
  established scope that stays idle longer than the retention keeps its baseline
  and loses all its observations, so that its next run announces everything as new
  (`docs/DECISIONS.md:106-107` speaks of listings first observed after the baseline). Events
  suppressed by the cap are lost for good.
- Recipients. An ID change "starts recipient history fresh" (`tui/controller.py:110`,
  `docs/DECISIONS.md:204`), but the purge leaves the journal of the new ID, which counts
  towards its bank if somebody had that ID before. What is sent to the new ID between rename and purge is
  banked and then purged. The lock that the purge takes is the ledger's and not the delivery lock, so it
  may come between a sender's look and its record. A crash between rename and remap leaves the old ID
  a canary and loses the person's membership (`cut`). Alerts that are planned between the cancelling
  and the rename stay queued for the old ID. The settings form can save as a canary an ID that was renamed since
  it looked.
- Store. The configuration's migration is two writes, which readers without the lock can see half
  done. `migrate` is documented as atomic and commits step by step. A backup made the same
  day by an older version fails the verification of the newer. `_prune_seen` rewrites a ledger under its own
  lock, and a purge in between can be undone.

## Proofs

### DeliveryWorkerProofs

It proves, for any set of workers, rows and properties and
any limits that satisfy the assumptions of `DeliveryWorker`:

| Theorem | States |
|---|---|
| `TypeCorrect` | `Spec => []TypeOK` |
| `InvariantHolds` | `Spec => []IInv` |
| `CopiesAreBounded` | `Spec => []AtMostOneCopy` |
| `ReceiptsHold` | `Spec => []ReceiptsAreEarned` |
| `LastLookStands` | `Spec => []LastLookHolds` |
| `OrphansOnly` | `Spec => OnlyOrphansAreStale` |
| `ReceiptsGuard` | `Spec => []ReceiptGuardsListing` |
| `PromiseIsKept` | `Spec => KeepsPromise` |

The argument. `AtMostOneCopy` is not inductive: from a state with one copy and
a row that is `pending`, a worker would send again. The inductive invariant
`IInv` adds what makes that state impossible:

- `RunsAlone`, `LockHeld`: a worker inside a run holds `run.lock`, so there is
  at most one; a worker between look and record holds the delivery lock;
- `CopiedOnce`: a row that Telegram took is `sent`, `uncertain` or `cancelled`,
  or is in the hand of a worker that has not yet recorded the answer;
- `InHand`: a worker before its send holds a row with no copy that is still
  `sending` or was cancelled under it; after it, the copies are those its answer allows;
- `ReceiptsAreEarned` and `LastLookHolds` themselves.

Each step of `Next` preserves it (`InvStep`, one step per action), and the
temporal theorems follow. `OrphansOnly` is an action property that follows from
`IInv`: stale rows are recovered under `run.lock` by the one worker that runs, at a
place where it holds no row. `PromiseIsKept` is a step simulation from `IInv`: between claims
no row is awaited, and a step over many rows withdraws or quarantines them (`PromiseRun`); with a row
in hand the step moves this row's fate alone, and `InHand` says how many copies it has
(`PromiseDeliver`); around the worker only the cancel of a removal moves fates, to "recalled"
for the row in the worker's hands (`PromiseAround`). `ReceiptsGuard` has an invariant of its own,
`GuardInv`: once a run is past its reconciliation, every receipt is in the bank, or is in the hands of the worker
that earned it (`Reconciled`), as long as no write failed and `Distance` is below three. `Distance` counts the
edits made and those still needed before the worker sends to the recipient again; a removal
that purges the bank leaves it at three or more (`RemovalCounts`), which is why the property holds up to
two edits. `RunsAlone` is what makes "awaited" a matter of
one worker (`OneHand`). The proofs rest on `WorkerAssumption`,
`RowAssumption` and `NumberAssumption`, which TLC evaluates in every run. The last
conjunct of the third, that the backoff's powers of two are natural numbers, is
there because the library has no facts about exponents.

### DailyFetchProofs

For any cities, any budget, any number of pages, and any number of crashes and edits:

| Theorem | States |
|---|---|
| `TypeCorrect` | `Spec => []TypeOK` |
| `InvariantHolds` | `Spec => []IInv` |
| `BudgetIsKept` | `Spec => []BudgetHolds` |
| `UnitsComeBack` | `Spec => []UnitsAreNotLost` |
| `SweepsAreFew` | `Spec => []SweepsAreBounded` |
| `CompletenessIsHonest` | `Spec => []CompleteIsHonest` |

The argument. What the run checks speaks of the files between runs; the
inductive invariant says what holds at every place of a run:

- `InHand`: a query in progress has a city, a request has its unit;
- `Accounts`: the quota file and what the source billed differ by the unit just
  reserved or about to be given back, by those of runs that died, and by those
  given back too late. Without the unit in flight neither inequality is inductive;
- `Tripped`: a run that can still send found no breaker, and the one late refund that it may
  make is followed by the breaker, or by a crash;
- `Coverage`: a sweep without a mishap has all pages of the queries it has left behind;
- `Sealed`: metadata are on disk only beside the pool they describe, because they are
  unlinked before the data are replaced;
- `Turns`: `Slack`, which is one more than crashes and edits less paid sweeps, is never
  negative. A run that has not paid yet needs one; a state with none left has a usable
  pool or the breaker, so that no sweep begins. An edit, which makes the pool
  unusable, brings one.

`InvStep` has one lemma for each part, and each lemma one step for each action. The
proofs rest on `CityAssumption`, `LimitAssumption` and `NothingAssumption`; the
last says that "no pool" and "no metadata" are neither a pool nor metadata.

### RoutineDeliveryProofs

For any messages, listings and notices, any days, crashes, lost writes and edits, and any peers:

| Theorem | States |
|---|---|
| `TypeCorrect` | `Spec => []TypeOK` |
| `InvariantHolds` | `Spec => []IInv` |
| `CopiesAreBounded` | `Spec => []OneCopyPerAttempt` |
| `LastLookStands` | `Spec => []LastLookHolds` |
| `LedgerEarned` | `Spec => []LedgerIsEarned` |
| `PromiseIsKept` | `Spec => KeepsPromise` |
| `OnePush` | `Spec => []OnePushADay`, if `Established` and `MaxEdits = 0` |

The argument. `IInv` adds to what the runs check who holds the delivery lock (`LockHeld`), what the
journal says of the attempt in hand at each place of the run (`InHand`), and that an attempt that was
taken is "sending", "accepted" or "uncertain", the three from which nothing is sent
(`CopiedOnce`). A step then changes the journal at one attempt at most, and `JournalSteps` lists the
changes there are; `PromiseIsKept` maps each to a step of `AlertPromise`.

`OnePush` needs two hypotheses, without which the code does not keep the property: the
recipient's ledger exists (otherwise `last_sent_at` ignores the journal) and nobody is removed, which
purges it. Its invariant `DayInv` says that the ledger stays, that nothing on record lies in the
future of the run in progress (`Order`), and that what was accepted on the run's day was accepted
by this run, from the moment it found the day open (`DayIsMine`).

### SourceCollectionProofs

For any scopes, thresholds, delays, crashes and processing errors:

| Theorem | States |
|---|---|
| `TypeCorrect` | `Spec => []TypeOK` |
| `InvariantHolds` | `Spec => []IInv` |
| `BreakerStopsStarts` | `Spec => NoStartWhileOpen` |
| `PaidOnce` | `Spec => NeverPaidTwice` (in the module of the proofs) |
| `RecoveriesAreNews` | `Spec => RecoveryIsNews` |
| `PromiseIsKept` | `Spec => KeepsPromise` |

The argument. The properties speak of single steps; the invariant says what must hold on the way
there. `Shut`: while starts are left, the breaker is not open, since `Health` empties the list
when it opens. `Fresh`: the scopes left to start, and the one that is claimed, have no run, which the
tick found when it asked for due scopes and which only it could change. `Told`: while failures are
counted, a failure that is marked as told was told; a recovery waits for its announcement only while no
failure is counted; and between the alert and its acknowledgement the owner knows what is
pending. After a crash between these two `alerted` may be out of date, and the next failure, a
first one, is always news and clears it (`FailureIsTold`). `Handled`: what a tick believes of a run is what
the ledger says. A run about to be finished is open, and one reported as a success is running; a
dataset that is collected, or read for a second time, belongs to a run that succeeded.

`PromiseIsKept` maps a scope to its deal by its run and by what the tick knows (`DealOf`). A step that
touches the ledger or the collected datasets moves one deal (`OneMoves`); a step that ends the tick's knowledge,
orderly or not, is a lapse of all the scopes it knew about (`TickForgets`); everything else leaves what the deals are
read from (`DealStays`). `Fresh` is needed for asking, `Handled` for finishing, reading and closing.

### RecipientsProofs

For any IDs, people, finite set of listings, parts and bounds:

| Theorem | States |
|---|---|
| `PushInvariant` | `Spec => []Inv` |
| `HonestStatus` | `Spec => []StatusIsHonest` |
| `EditsReachThePush` | `Spec => []EditsStopThePush` |
| `RepeatsOnlyOfTheForgotten` | `Spec => []RepeatsAreForgotten` |
| `EnrolmentIsKept` | `Spec => []EnrolmentFollowsThePerson` |
| `TypeCorrect` | `Spec => []TypeOK` |

The argument. `Shape` and `Account`: the parts of a push are disjoint, and accepted parts and parts
left add up to the plan until something goes wrong, when the status is chosen from what was
accepted. `LastLook`: a part that was cleared has nothing before it that left too late. `Locks`: push
and peer have the delivery lock of the ID they send to. `Records`: what was told to an ID once is in a
file of it, or in the hands of the sender that has the lock; so a sender that holds the lock
and finds the listing in no file is the first to tell it. Enrolment is an argument of its own: `Members` says which
writes of the change in progress are still to come, `Settled` what holds between changes, and `HalfMoved` what
holds between rename and remap. The type invariant comes last, since it needs the others: that the parts
accepted and arrived are never more than `MaxParts` takes counting those left (`Shape`, `PlanTypes`).

### ObservationProofs

For any scopes, people, searches, caps, datasets and days, and any crashes and edits:

| Theorem | States |
|---|---|
| `InvariantHolds` | `Spec => []Inv` |
| `TypeCorrect` | `Spec => []TypeOK` |
| `SilenceSettled` | `Spec => []SilenceIsSettledAtStart` |
| `NewsOnce` | `Spec => []NewsOnlyOnce` |
| `OneAlert` | `Spec => []OneAlertPerEvent` |
| `CapKept` | `Spec => []CapHolds` |
| `ReplayIsQuiet` | `Spec => ReplaySaysTheSame` |
| `NobodyForgotten` | `Spec => ProcessedIsAnswered` |

The argument. None of the properties is inductive, and each asks for something else:

- `History`: a scope has one open run, its last (`OneOpenRun`); a run's listings are judged all at once
  (`Judgements`), so that a replay finds an event for each and adds none; and until they are judged, whether
  the run is silent is what the scope's baseline still says (`Silence`). With two open runs of a
  scope, the first observed would decide for the second, and `SilenceIsSettledAtStart` would be lost.
- `Place`: what a tick has in hand where; only runs that succeeded are in its batch.
- `Rows`: the rows are finitely many, of the owners of their searches, one to a person and
  item, within the cap. Finiteness is what lets rows be counted: a row more is one more of its search and
  day (`LiveCount`), and pruning or cancelling never makes more (`LiveShrinks`).
- `Hands`, `Around`: the alerts in hand are for the owners of their searches; the budgets.
- `Answering`: while a run is processed, whoever waits for its news is served or still in the tick's hands
  (`Served`, `Pending`), and a search that was passed over had no room left (`Current`). Only an edit of
  the person themselves can change what was loaded, which is why the property speaks of people not `touched`.

`HistoryStep`, `PlaceStep`, `AroundStep`, `RowsStep`, `HandsStep` and `AnsweringStep` prove the parts, one
step for each action. What a step does to the sequence of runs is said once, by five lemmas (`MarkWrites`,
`DatasetWrites`, `FailureWrites`, `StartWrites`, `PruneWrites`), and those that only change statuses are treated
together (`Moves`). That a least search exists (`FirstIsLeast`) is well-foundedness of a finite set.
The proof of `KindSays` showed that the cases of `Kind` overlapped, which leaves the choice open in TLA+
though TLC takes the first; they exclude each other now.

### ScrapeProofs, Schedule

Theorems about the operators of `QueryPlan`, `ResultBudget` and `Schedule`, for all inputs; there is no state.

| Theorem | Says |
|---|---|
| `EnvelopeCovers`, `OtherIsHidden`, `MoreSearchesShowMore` | what a city's query shows to each of its searches, what it hides, and that another search takes nothing away |
| `LimitIsACeiling`, `NoTrickle` | the gate stays within the configured limit, and buys the floor or nothing |
| `OneRunADayKeepsTheShare`, `TwoRunsOverdrawTheDay`, `RunawayTakesHalfMore` | what runs at the day's limit cost by the end of the cycle, and how far a run can bill past it |
| `WindowIsTheDate`, `DueOnceADay` | caps and due gate count by the recipient's local date |
| `NeverInQuietHours`, `WaitsAtMostADay`, `ComesDue` | an alert is never timed into quiet hours, waits a day at most, and may be sent at the time it was given |

Every invariant and every action property that a passing run checks is also a theorem (`OnePushADay`
under the two hypotheses named above). Model-checked only is
what is out of the prover's reach: liveness (`BankCatchesUp`, `OrphansSurface`, `AlertsDrain`,
`PaidRunsAreProcessed`, `OutageIsTold`, `ProbeResolvesUncrashed`), which rests on fairness and hence on ENABLED, and
the three counterexamples.

## Not modelled, and the plan

Not modelled because they keep no state or are data: identity keys and validators, the mapping of
dataset items to listings, YAML, the screens and the parsing of commands; readiness reports, which are computed
from the ledger, and attestations, which only they read; backups, which SQLite makes. Apify's
and Telegram's own state is outside: the modules have the answers of both, the late and the
lost ones too.

Partly modelled: of the scheduler's tick the alert on terminally failed rows and the backup stage are
missing; of the journal its legacy import, its annotations and its retention; of the outbox its
audit rows; of the daily plan the caps of each search.

Next, in this order:

1. The fold of a journal with damaged lines (`delivery_history.py`) as a recursive function over
   sequences, checked against the folded status that `RoutineDelivery` takes for granted.
2. The terminal-failure alert of the tick: ten rows named, all marked.
3. Ledger migrations that fail between two steps and run again.
4. A composition of `Recipients` with `DeliveryWorker`'s outbox, so that alerts queued for an ID
   that moves are followed to their end.
5. `Observation` under the same promise as `SourceCollection`: both keep a scope to one open run, and only the
   first is shown to implement `ScopePromise`.
