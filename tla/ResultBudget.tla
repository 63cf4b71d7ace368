----------------------------- MODULE ResultBudget -----------------------------
(***************************************************************************)
(* The spend gate of a scrape (cost.py): how many paid results it may buy, *)
(* from what the source's platform says of the billing cycle, and what the *)
(* adapter then makes of the answer (sources/__init__.py): a limit of each *)
(* of its runs, one per query.  Money is counted in a unit small enough    *)
(* for the price of a result to be whole; the reading m has the fields     *)
(*   configured  zillow_results_limit                                      *)
(*   floor       zillow_min_results_floor                                  *)
(*   price       zillow_price_per_result_usd                               *)
(*   target      the platform's cap, times zillow_budget_target_share      *)
(*   maxCharge   zillow_max_charge_usd                                     *)
(*   usage       what the cycle has cost so far                            *)
(*   readable    usage and cap are known, and the cap is not zero          *)
(*   cycleEnd    last day of the cycle, or Unknown                            *)
(*   today                                                                 *)
(***************************************************************************)
EXTENDS Integers

CONSTANT Unknown   \* a date or a charge that is not set

\* _days_left, today included.  An unknown cycle is not divided.
DaysLeft(m) ==
  IF m.cycleEnd = Unknown \/ m.cycleEnd <= m.today THEN 1 ELSE m.cycleEnd - m.today + 1

Spendable(m) == m.target - m.usage

\* int(per_day / price)
Affordable(m) == Spendable(m) \div (DaysLeft(m) * m.price)

\* plan_result_budget's and read_result_budget's allowed.
Allowed(m) ==
  IF m.configured <= 0 THEN 0
  ELSE IF ~m.readable THEN m.configured
  ELSE IF Spendable(m) <= 0 \/ Affordable(m) < m.floor THEN 0
  ELSE IF Affordable(m) <= m.configured THEN Affordable(m) ELSE m.configured

\* configured_adapters: the results each run may return; with none, no run
\* starts.
RunLimit(m) == IF Allowed(m) <= m.configured THEN Allowed(m) ELSE m.configured

\* What a run is authorised to buy.
Full(m) == RunLimit(m) * m.price

\* Twice max_charge_usd, the charge at which the platform stops a run.  A zero is
\* not passed on: there is no such charge.
Belt(m) == IF m.maxCharge = 0 THEN Unknown
           ELSE IF 2 * m.maxCharge <= 3 * Full(m) THEN 2 * m.maxCharge ELSE 3 * Full(m)

\* What a scrape of so many runs costs, when each returns its limit at the
\* configured price, or is stopped.
Stopped(m) == m.maxCharge # 0 /\ m.maxCharge < Full(m)
Cost(m, runs) == runs * (IF Stopped(m) THEN m.maxCharge ELSE Full(m))

IsReading(m) ==
  /\ {m.configured, m.floor, m.usage, m.today, m.target, m.maxCharge} \subseteq Nat
  /\ m.price \in Nat \ {0} /\ m.readable \in BOOLEAN
  /\ m.cycleEnd \in Int \cup {Unknown}
  /\ Unknown \notin Int
=============================================================================
