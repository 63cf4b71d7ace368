---------------------------- MODULE ScrapeProofs ----------------------------
(***************************************************************************)
(* What one scrape asks for and what it may spend: proofs about QueryPlan  *)
(* and ResultBudget, for every set of searches and every reading of the    *)
(* account.                                                                *)
(***************************************************************************)
EXTENDS QueryPlan, ResultBudget, TLAPS

-----------------------------------------------------------------------------
(* What the envelope promises. *)

\* A type's group is one the source filters on, or "other".
LEMMA GroupTypes ==
  ASSUME NEW t \in PropertyTypes
  PROVE  Group(t) \in Filterable \cup {"other"}
BY DEF PropertyTypes, Group, Filterable

\* Bounds of rent, beds and baths: whatever any search of the city asks for lies
\* within them (the "widest span" of _envelope_query).
LEMMA EnvelopeIsWide ==
  ASSUME NEW S, NEW s \in S, \A x \in S : HasNumbers(x), NEW q, IsEnvelope(q, S),
         NEW l, IsListing(l), Matches(l, s)
  PROVE  /\ q.price_min <= l.price /\ l.price <= q.price_max
         /\ q.beds_min <= l.beds /\ l.beds <= q.beds_max
         /\ q.baths_min <= l.baths
<1>1. /\ q.price_min \in Int /\ q.price_max \in Int /\ q.beds_min \in Int
      /\ q.beds_max \in Int /\ q.baths_min \in Int
  BY DEF IsEnvelope, IsLeast, IsGreatest, HasNumbers
<1>2. /\ q.price_min <= s.price_min /\ s.price_max <= q.price_max
      /\ q.beds_min <= s.bed_min /\ s.bed_max <= q.beds_max
      /\ q.baths_min <= s.bath_min
  BY DEF IsEnvelope, IsLeast, IsGreatest
<1> QED
  BY <1>1, <1>2 DEF HasNumbers, IsListing, Matches

\* planner.py: the envelope is "a SUPERSET of every search it covers, so no
\* watcher's match is filtered out at the source".  True of every listing whose
\* type the source can filter on, and of all others in a city where no search
\* names such a type.
THEOREM EnvelopeCovers ==
  ASSUME NEW S, NEW s \in S, \A x \in S : HasNumbers(x), NEW q, IsEnvelope(q, S),
         NEW l, IsListing(l), Matches(l, s),
         Group(l.property_type) \in Filterable \/ \A x \in S : Types(x) = {}
  PROVE  Shows(q, l)
<1>1. q.property_types # {} => Group(l.property_type) \in q.property_types
  <2>1. CASE Group(l.property_type) \in Filterable
    <3>1. Group(l.property_type) \in Types(s)
      BY <2>1 DEF Matches, Types
    <3> QED
      BY <3>1 DEF IsEnvelope
  <2>2. CASE \A x \in S : Types(x) = {}
    BY <2>2 DEF IsEnvelope
  <2> QED
    BY <2>1, <2>2
<1> QED
  BY <1>1, EnvelopeIsWide DEF Shows

\* And of no other: when any search of the query names a type the source can
\* filter on, no listing of type "other" is shown, also to the search that asks
\* for them.  This takes the source to hide, under a type filter, whatever the
\* adapter labels "other" (Shows): the source is external.
THEOREM OtherIsHidden ==
  ASSUME NEW S, NEW x \in S, Types(x) # {}, NEW q, IsEnvelope(q, S),
         NEW l, Group(l.property_type) = "other"
  PROVE  ~Shows(q, l)
<1>1. q.property_types # {} /\ q.property_types \subseteq Filterable
  BY DEF IsEnvelope, Types
<1>2. "other" \notin Filterable
  BY DEF Filterable
<1> QED
  BY <1>1, <1>2 DEF Shows

\* Another search in the city, someone else's as well, takes nothing from what
\* the city's query shows, once the query has a type filter at all.  (Without
\* one it may: OtherIsHidden.)
THEOREM MoreSearchesShowMore ==
  ASSUME NEW S, NEW T, S \subseteq T, S # {}, \A x \in T : HasNumbers(x),
         NEW p, IsEnvelope(p, S), p.property_types # {}, NEW q, IsEnvelope(q, T),
         NEW l, IsListing(l), Shows(p, l)
  PROVE  Shows(q, l)
<1>1. /\ p.price_min \in Int /\ p.price_max \in Int /\ p.beds_min \in Int
      /\ p.beds_max \in Int /\ p.baths_min \in Int
  BY DEF IsEnvelope, IsLeast, IsGreatest, HasNumbers
<1>2. /\ q.price_min \in Int /\ q.price_max \in Int /\ q.beds_min \in Int
      /\ q.beds_max \in Int /\ q.baths_min \in Int
  BY DEF IsEnvelope, IsLeast, IsGreatest, HasNumbers
<1>3. /\ q.price_min <= p.price_min /\ p.price_max <= q.price_max
      /\ q.beds_min <= p.beds_min /\ p.beds_max <= q.beds_max
      /\ q.baths_min <= p.baths_min
  BY DEF IsEnvelope, IsLeast, IsGreatest
<1>4. p.property_types \subseteq q.property_types
  BY DEF IsEnvelope
<1> QED
  BY <1>1, <1>2, <1>3, <1>4 DEF Shows, IsListing
-----------------------------------------------------------------------------
(* What the budget promises. *)

\* The days left of the cycle can be divided by.
LEMMA DaysLeftPositive ==
  ASSUME NEW m, IsReading(m)
  PROVE  DaysLeft(m) \in Nat \ {0}
BY DEF IsReading, DaysLeft

\* A product of positive numbers is positive.
LEMMA Products ==
  ASSUME NEW a \in Nat \ {0}, NEW b \in Nat \ {0}
  PROVE  a * b \in Nat \ {0}
OBVIOUS

\* The larger of two numbers stays the larger when both are multiplied.
LEMMA ScaleUp ==
  ASSUME NEW k \in Nat, NEW a \in Nat, NEW b \in Nat, a <= b
  PROVE  k * a \in Nat /\ k * b \in Nat /\ k * a <= k * b
OBVIOUS

\* What a division rounds down to, times the divisor.
LEMMA DivLower ==
  ASSUME NEW a \in Nat, NEW b \in Nat \ {0}
  PROVE  a \div b \in Nat /\ b * (a \div b) <= a
OBVIOUS

\* What a division leaves over is less than the divisor.
LEMMA DivUpper ==
  ASSUME NEW a \in Nat, NEW b \in Nat \ {0}
  PROVE  a < b * (a \div b + 1)
OBVIOUS

\* The gate never raises the configured limit ("must never exceed
\* zillow_results_limit", tests/test_result_budget.py), whatever it reads.
THEOREM LimitIsACeiling ==
  ASSUME NEW m, IsReading(m)
  PROVE  RunLimit(m) \in 0..m.configured
<1>1. DaysLeft(m) * m.price \in Nat \ {0}
  BY DaysLeftPositive, Products DEF IsReading
<1>2. Spendable(m) > 0 => Affordable(m) \in Nat
  BY <1>1, DivLower DEF Spendable, Affordable, IsReading
<1> QED
  BY <1>2 DEF Allowed, RunLimit, IsReading, Spendable

\* "A trickle below the floor buys nothing at all" (tests/test_result_budget.py):
\* with a readable usage a run is worth the floor, or what the owner configured
\* below it.
THEOREM NoTrickle ==
  ASSUME NEW m, IsReading(m), m.readable, RunLimit(m) > 0
  PROVE  RunLimit(m) >= m.floor \/ RunLimit(m) = m.configured
<1>1. DaysLeft(m) * m.price \in Nat \ {0}
  BY DaysLeftPositive, Products DEF IsReading
<1>2. Spendable(m) > 0 => Affordable(m) \in Nat
  BY <1>1, DivLower DEF Spendable, Affordable, IsReading
<1> QED
  BY <1>2 DEF Allowed, RunLimit, IsReading, Spendable

\* What the runs of the days left buy together.
LEMMA SharesFit ==
  ASSUME NEW m, IsReading(m), m.readable, RunLimit(m) > 0
  PROVE  /\ Full(m) \in Nat /\ Spendable(m) \in Nat
         /\ DaysLeft(m) * Full(m) <= Spendable(m)
<1> DEFINE d == DaysLeft(m)
           a == Affordable(m)
           n == RunLimit(m)
           sp == Spendable(m)
<1>1. d \in Nat \ {0} /\ m.price \in Nat \ {0}
  BY DaysLeftPositive DEF IsReading
<1>2. sp \in Nat
  BY DEF Spendable, IsReading, RunLimit, Allowed
<1>3. d * m.price \in Nat \ {0}
  BY <1>1, Products
<1>4. a \in Nat /\ (d * m.price) * a <= sp
  BY <1>2, <1>3, DivLower DEF Affordable
<1>5. n \in Nat /\ n <= a
  BY <1>4 DEF RunLimit, Allowed, IsReading
<1>6. Full(m) \in Nat /\ d * Full(m) = (d * m.price) * n
  <2>1. Full(m) = n * m.price
    BY DEF Full
  <2> HIDE DEF n, d
  <2> QED
    BY <1>1, <1>5, <2>1
<1>7. (d * m.price) * n <= (d * m.price) * a /\ (d * m.price) * n \in Nat /\ (d * m.price) * a \in Nat
  <2> HIDE DEF n, a, d
  <2> QED
    BY <1>3, <1>4, <1>5, ScaleUp
<1> HIDE DEF a, n, sp
<1> QED
  BY <1>2, <1>4, <1>6, <1>7 DEF sp

\* cost.py: "the gate spends against zillow_budget_target_share of the cap and
\* leaves the rest untouched".  One run on each day left of the cycle, each with
\* today's limit, stays within the share.
THEOREM OneRunADayKeepsTheShare ==
  ASSUME NEW m, IsReading(m), m.readable, RunLimit(m) > 0
  PROVE  m.usage + DaysLeft(m) * Cost(m, 1) <= m.target
<1>1. Cost(m, 1) \in Nat /\ Cost(m, 1) <= Full(m) /\ Full(m) \in Nat
  <2> DEFINE x == IF Stopped(m) THEN m.maxCharge ELSE Full(m)
  <2>1. Full(m) \in Nat
    BY SharesFit
  <2>2. x \in Nat /\ x <= Full(m)
    BY <2>1 DEF Stopped, IsReading
  <2>3. Cost(m, 1) = 1 * x
    BY DEF Cost
  <2> HIDE DEF x
  <2> QED
    BY <2>1, <2>2, <2>3
<1>2. DaysLeft(m) * Cost(m, 1) <= DaysLeft(m) * Full(m) /\ DaysLeft(m) * Cost(m, 1) \in Nat
      /\ DaysLeft(m) * Full(m) \in Nat
  BY <1>1, DaysLeftPositive, ScaleUp
<1>3. DaysLeft(m) * Full(m) <= m.target - m.usage
  BY SharesFit DEF Spendable
<1> HIDE DEF Cost
<1> QED
  BY <1>2, <1>3 DEF IsReading

\* sources/__init__.py: "even a runaway actor cannot bill past what this run was
\* authorised to buy".  It can, by a half at the most: as soon as the owner's
\* charge limit is above what a run was authorised to buy, so is the charge at
\* which the run is stopped, and one such run a day stays within one and a half
\* times what is left of the share.  Where the owner sets the charge to zero,
\* nothing stops the run.
THEOREM RunawayTakesHalfMore ==
  ASSUME NEW m, IsReading(m), m.readable, RunLimit(m) > 0
  PROVE  IF m.maxCharge = 0 THEN Belt(m) = Unknown
         ELSE /\ m.maxCharge > Full(m) => Belt(m) > 2 * Full(m)
              /\ Belt(m) <= 3 * Full(m)
              /\ DaysLeft(m) * Belt(m) <= 3 * Spendable(m)
<1>1. CASE m.maxCharge = 0
  BY <1>1 DEF Belt
<1>2. CASE m.maxCharge # 0
  <2>1. Full(m) \in Nat /\ Spendable(m) \in Nat /\ DaysLeft(m) * Full(m) <= Spendable(m)
    BY SharesFit
  <2>2. Full(m) > 0
    <3>1. RunLimit(m) \in Nat \ {0} /\ m.price \in Nat \ {0}
      <4>1. m.configured \in Nat /\ m.price \in Nat \ {0}
        BY DEF IsReading
      <4>2. RunLimit(m) \in 0..m.configured
        BY LimitIsACeiling
      <4> QED
        BY <4>1, <4>2
    <3>2. RunLimit(m) * m.price \in Nat \ {0}
      BY <3>1, Products
    <3> QED
      BY <3>2 DEF Full
  <2>3. Belt(m) \in Nat /\ Belt(m) <= 3 * Full(m) /\ 3 * Full(m) \in Nat
    BY <1>2, <2>1 DEF Belt, IsReading
  <2>4. m.maxCharge > Full(m) => Belt(m) > 2 * Full(m)
    BY <1>2, <2>1, <2>2 DEF Belt, IsReading
  <2>5. DaysLeft(m) * Belt(m) <= DaysLeft(m) * (3 * Full(m)) /\ DaysLeft(m) * Belt(m) \in Nat
    BY <2>3, DaysLeftPositive, ScaleUp
  <2>6. DaysLeft(m) * (3 * Full(m)) = 3 * (DaysLeft(m) * Full(m)) /\ DaysLeft(m) * Full(m) \in Nat
    BY <2>1, DaysLeftPositive
  <2> QED
    BY <1>2, <2>1, <2>3, <2>4, <2>5, <2>6
<1> QED
  BY <1>1, <1>2

\* Of two runs a day that does not hold.  A scrape has a run for every city of
\* the plan (and another one for a page that is retried), each with a limit of
\* its own, while cost.py counts "how many paid results today's scrape may buy":
\* when the limit is what the day affords, two whole runs cost more than the day's
\* share of what is left, and on the last day of the cycle more than the target
\* share of the cap.
THEOREM TwoRunsOverdrawTheDay ==
  ASSUME NEW m, IsReading(m), m.readable, RunLimit(m) > 0, RunLimit(m) = Affordable(m),
         ~Stopped(m)
  PROVE  DaysLeft(m) * Cost(m, 2) > Spendable(m)
<1> DEFINE d == DaysLeft(m)
           a == Affordable(m)
           sp == Spendable(m)
<1>1. d \in Nat \ {0} /\ m.price \in Nat \ {0}
  BY DaysLeftPositive DEF IsReading
<1>2. sp \in Nat
  BY DEF Spendable, IsReading, RunLimit, Allowed
<1>3. d * m.price \in Nat \ {0}
  BY <1>1, Products
<1>4. a \in Nat \ {0} /\ sp < (d * m.price) * (a + 1)
  BY <1>2, <1>3, DivUpper, DivLower DEF Affordable
<1>5. (d * m.price) * (a + 1) <= (d * m.price) * (2 * a)
  <2> HIDE DEF a, d
  <2> QED
    BY <1>3, <1>4, ScaleUp
<1>6. d * Cost(m, 2) = (d * m.price) * (2 * a)
  <2>1. Cost(m, 2) = 2 * (a * m.price)
    BY DEF Cost, Full
  <2> HIDE DEF a, d
  <2> QED
    BY <1>1, <1>4, <2>1
<1> QED
  BY <1>2, <1>3, <1>4, <1>5, <1>6
=============================================================================
