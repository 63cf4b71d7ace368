--------------------------- MODULE DailyFetchProofs ---------------------------
(***************************************************************************)
(* Proofs about DailyFetch for every set of cities, every budget and page  *)
(* limit, and any number of crashes and edits: its type invariant and the  *)
(* four invariants its run checks.  Each is the visible part of a fact     *)
(* about every place of the run: what it holds, which unit is reserved but *)
(* not spent, what a sweep has covered, and who may begin the next one.    *)
(***************************************************************************)
EXTENDS DailyFetch, TLAPS

-----------------------------------------------------------------------------
(* The invariant. *)

Querying == {"reserve", "request", "retry", "refund", "block"}
Sweeping == {"sweep", "reserve", "request", "retry"}

\* A query has a city and a page, and a request its unit of the quota file;
\* a process that is gone has no report.
InHand ==
  /\ pc \in Querying => cur \in plan /\ page >= 1
  /\ pc \in {"request", "retry", "refund"} => mine >= 1
  /\ mine <= used
  /\ pc = "idle" => completed = {}

\* The unit that is reserved and not spent, or spent and not yet given back.
Pending == IF pc \in {"request", "refund"} THEN 1 ELSE 0

\* The quota file and the source's own count agree, but for that unit, the ones
\* of runs that died and the ones given back too late.
Accounts ==
  /\ spent + Pending <= used + overdrawn
  /\ used <= spent + crashes + Pending

\* The day's breaker keeps every run from the source.
Tripped ==
  /\ pc \in Sweeping \cup {"refund", "block"} => ~blocked
  /\ overdrawn <= 1 + crashes
  /\ ~blocked /\ pc \notin {"refund", "block"} => overdrawn <= crashes

\* A sweep without a mishap has the pages of all queries it is done with.
Coverage ==
  /\ pc = "sweep" /\ clean => plan \subseteq todo \cup whole
  /\ pc \in {"reserve", "request", "retry"} /\ clean => plan \subseteq todo \cup whole \cup {cur}
  /\ pc \in {"finish", "unlink", "data", "meta"} /\ clean => plan \subseteq whole

\* Metadata are only found beside the pool they describe.
Sealed ==
  /\ pc \in {"data", "meta"} => meta = NoMeta
  /\ pc = "meta" => pool = whole
  /\ meta # NoMeta /\ meta.clean /\ pool # NoPool => meta.scope \subseteq pool

\* Paid sweeps that crashes and edits still account for.
Slack == 1 + crashes + edits - sweeps

\* At least n of them are left, and one more when the searches are no longer
\* those the run asks for.
Left(n) == Slack >= n /\ (plan = watched \/ Slack >= n + 1)

Unpaid == mine = 0 \/ (pc = "request" /\ mine = 1)

\* Who has none left finds a usable pool, or the breaker.
Turns ==
  /\ Slack >= 0
  /\ pc # "idle" => plan # {}
  /\ pc \in Sweeping => IF Unpaid THEN Left(1) ELSE Left(0)
  /\ pc = "finish" => blocked \/ IF Unpaid THEN Left(1) ELSE Left(0)
  /\ pc \in {"unlink", "data", "meta"} => blocked \/ Left(0)
  /\ pc \in {"record", "idle"} => blocked \/ Usable \/ Slack >= 1

IInv == TypeOK /\ InHand /\ Accounts /\ Tripped /\ Coverage /\ Sealed /\ Turns
-----------------------------------------------------------------------------
(* The steps. *)

\* Every request, write, edit and crash keeps the types.
LEMMA TypeStep == TypeOK /\ InHand /\ [Next]_vars => TypeOK'
<1> SUFFICES ASSUME TypeOK /\ InHand, [Next]_vars
             PROVE  TypeOK'
  OBVIOUS
<1> USE LimitAssumption, CityAssumption, NothingAssumption
    DEF TypeOK, InHand, Querying, Goto, files, place, report, history, budget
<1>1. CASE NoAdapter
  BY <1>1 DEF NoAdapter, Record
<1>2. CASE Wait
  BY <1>2 DEF Wait, Record
<1>3. CASE Cached
  BY <1>3 DEF Cached, Record
<1>4. CASE Blocked
  BY <1>4 DEF Blocked, Record
<1>5. CASE Begin
  BY <1>5 DEF Begin
<1>6. CASE EndSweep
  BY <1>6 DEF EndSweep
<1>7. CASE Reserve
  BY <1>7 DEF Reserve
<1>8. CASE BudgetSpent
  BY <1>8 DEF BudgetSpent, Done, Some
<1>9. CASE LastPage
  BY <1>9 DEF LastPage, Taken, Billed, Done
<1>10. CASE MorePages
  <2>1. CASE page < MaxPages /\ page' = page + 1 /\ Goto("reserve") /\ UNCHANGED <<completed, clean>>
    BY <1>10, <2>1 DEF MorePages, Taken, Billed
  <2>2. CASE page = MaxPages /\ Goto("sweep") /\ Done({cur}) /\ clean' = FALSE /\ UNCHANGED page
    <3>1. whole' \subseteq completed' /\ completed' \subseteq plan'
      BY <1>10, <2>2 DEF MorePages, Taken, Billed, Done
    <3>2. clean' \in BOOLEAN
      BY <1>10, <2>2 DEF MorePages, Taken, Billed
    <3>q. QED
      BY <1>10, <2>2, <3>1, <3>2 DEF MorePages, Taken, Billed
  <2>q. QED
    BY <1>10, <2>1, <2>2 DEF MorePages
<1>11. CASE Fails
  <2>1. CASE attempt = 1 /\ Goto("retry") /\ UNCHANGED <<completed, clean>>
    BY <1>11, <2>1 DEF Fails, Taken, Billed
  <2>2. CASE attempt = 2 /\ Goto("sweep") /\ Done(Some) /\ clean' = FALSE
    <3>1. whole' \subseteq completed' /\ completed' \subseteq plan'
      BY <1>11, <2>2 DEF Fails, Taken, Billed, Done, Some
    <3>2. clean' \in BOOLEAN
      BY <1>11, <2>2 DEF Fails, Taken, Billed
    <3>q. QED
      BY <1>11, <2>2, <3>1, <3>2 DEF Fails, Taken, Billed
  <2>q. QED
    BY <1>11, <2>1, <2>2 DEF Fails
<1>12. CASE Retry
  <2>1. CASE used < Budget
    BY <1>12, <2>1 DEF Retry
  <2>2. CASE used >= Budget
    <3>1. whole' \subseteq completed' /\ completed' \subseteq plan'
      BY <1>12, <2>2 DEF Retry, Done, Some
    <3>2. clean' \in BOOLEAN
      BY <1>12, <2>2 DEF Retry
    <3>q. QED
      BY <1>12, <2>2, <3>1, <3>2 DEF Retry
  <2>q. QED
    BY <2>1, <2>2
<1>13. CASE Rejected
  BY <1>13 DEF Rejected
<1>14. CASE RejectedLate
  BY <1>14 DEF RejectedLate, Billed
<1>15. CASE Refund
  BY <1>15 DEF Refund
<1>16. CASE Block
  BY <1>16 DEF Block
<1>17. CASE Finish
  BY <1>17 DEF Finish
<1>18. CASE Unlink
  BY <1>18 DEF Unlink
<1>19. CASE WriteData
  BY <1>19 DEF WriteData
<1>20. CASE WriteMeta
  BY <1>20 DEF WriteMeta
<1>21. CASE RecordScrape
  BY <1>21 DEF RecordScrape, Rest, Record
<1>22. CASE Crash
  BY <1>22 DEF Crash, Rest
<1>23. CASE ScrapeTime
  BY <1>23 DEF ScrapeTime
<1>24. CASE IncrementalStart
  BY <1>24 DEF IncrementalStart
<1>25. CASE \E c \in City : NextQuery(c)
  BY <1>25 DEF NextQuery
<1>26. CASE \E c \in City : Edit(c)
  BY <1>26 DEF Edit
<1>27. CASE UNCHANGED vars
  BY <1>27 DEF vars
<1>q. QED
  BY <1>1, <1>2, <1>3, <1>4, <1>5, <1>6, <1>7, <1>8, <1>9, <1>10, <1>11, <1>12, <1>13, <1>14, <1>15, <1>16, <1>17, <1>18, <1>19, <1>20, <1>21, <1>22, <1>23, <1>24, <1>25, <1>26, <1>27 DEF Next

\* A query keeps its city, and a request its unit.
LEMMA InHandStep == TypeOK /\ InHand /\ [Next]_vars => InHand'
<1> SUFFICES ASSUME TypeOK /\ InHand, [Next]_vars
             PROVE  InHand'
  OBVIOUS
<1> USE LimitAssumption, CityAssumption, NothingAssumption
    DEF TypeOK, InHand, Querying, Goto, files, place, report, history, budget
<1>1. CASE NoAdapter
  BY <1>1 DEF NoAdapter, Record
<1>2. CASE Wait
  BY <1>2 DEF Wait, Record
<1>3. CASE Cached
  BY <1>3 DEF Cached, Record
<1>4. CASE Blocked
  BY <1>4 DEF Blocked, Record
<1>5. CASE Begin
  BY <1>5 DEF Begin
<1>6. CASE EndSweep
  BY <1>6 DEF EndSweep
<1>7. CASE Reserve
  BY <1>7 DEF Reserve
<1>8. CASE BudgetSpent
  BY <1>8 DEF BudgetSpent, Done, Some
<1>9. CASE LastPage
  BY <1>9 DEF LastPage, Taken, Billed, Done
<1>10. CASE MorePages
  BY <1>10 DEF MorePages, Taken, Billed, Done
<1>11. CASE Fails
  BY <1>11 DEF Fails, Taken, Billed, Done, Some
<1>12. CASE Retry
  BY <1>12 DEF Retry, Done, Some
<1>13. CASE Rejected
  BY <1>13 DEF Rejected
<1>14. CASE RejectedLate
  BY <1>14 DEF RejectedLate, Billed
<1>15. CASE Refund
  BY <1>15 DEF Refund
<1>16. CASE Block
  BY <1>16 DEF Block
<1>17. CASE Finish
  BY <1>17 DEF Finish
<1>18. CASE Unlink
  BY <1>18 DEF Unlink
<1>19. CASE WriteData
  BY <1>19 DEF WriteData
<1>20. CASE WriteMeta
  BY <1>20 DEF WriteMeta
<1>21. CASE RecordScrape
  BY <1>21 DEF RecordScrape, Rest, Record
<1>22. CASE Crash
  BY <1>22 DEF Crash, Rest
<1>23. CASE ScrapeTime
  BY <1>23 DEF ScrapeTime
<1>24. CASE IncrementalStart
  BY <1>24 DEF IncrementalStart
<1>25. CASE \E c \in City : NextQuery(c)
  BY <1>25 DEF NextQuery
<1>26. CASE \E c \in City : Edit(c)
  BY <1>26 DEF Edit
<1>27. CASE UNCHANGED vars
  BY <1>27 DEF vars
<1>q. QED
  BY <1>1, <1>2, <1>3, <1>4, <1>5, <1>6, <1>7, <1>8, <1>9, <1>10, <1>11, <1>12, <1>13, <1>14, <1>15, <1>16, <1>17, <1>18, <1>19, <1>20, <1>21, <1>22, <1>23, <1>24, <1>25, <1>26, <1>27 DEF Next

\* Reservations, refunds, requests and crashes keep the accounts.
LEMMA AccountsStep == TypeOK /\ InHand /\ Accounts /\ [Next]_vars => Accounts'
<1> SUFFICES ASSUME TypeOK /\ InHand /\ Accounts, [Next]_vars
             PROVE  Accounts'
  OBVIOUS
<1> USE LimitAssumption, CityAssumption, NothingAssumption
    DEF TypeOK, InHand, Querying, Accounts, Pending, Goto, files, place, report, history, budget
<1>1. CASE NoAdapter
  BY <1>1 DEF NoAdapter, Record
<1>2. CASE Wait
  BY <1>2 DEF Wait, Record
<1>3. CASE Cached
  BY <1>3 DEF Cached, Record
<1>4. CASE Blocked
  BY <1>4 DEF Blocked, Record
<1>5. CASE Begin
  BY <1>5 DEF Begin
<1>6. CASE EndSweep
  BY <1>6 DEF EndSweep
<1>7. CASE Reserve
  BY <1>7 DEF Reserve
<1>8. CASE BudgetSpent
  BY <1>8 DEF BudgetSpent, Done, Some
<1>9. CASE LastPage
  BY <1>9 DEF LastPage, Taken, Billed, Done
<1>10. CASE MorePages
  BY <1>10 DEF MorePages, Taken, Billed, Done
<1>11. CASE Fails
  BY <1>11 DEF Fails, Taken, Billed, Done, Some
<1>12. CASE Retry
  BY <1>12 DEF Retry, Done, Some
<1>13. CASE Rejected
  BY <1>13 DEF Rejected
<1>14. CASE RejectedLate
  BY <1>14 DEF RejectedLate, Billed
<1>15. CASE Refund
  BY <1>15 DEF Refund
<1>16. CASE Block
  BY <1>16 DEF Block
<1>17. CASE Finish
  BY <1>17 DEF Finish
<1>18. CASE Unlink
  BY <1>18 DEF Unlink
<1>19. CASE WriteData
  BY <1>19 DEF WriteData
<1>20. CASE WriteMeta
  BY <1>20 DEF WriteMeta
<1>21. CASE RecordScrape
  BY <1>21 DEF RecordScrape, Rest, Record
<1>22. CASE Crash
  BY <1>22 DEF Crash, Rest
<1>23. CASE ScrapeTime
  BY <1>23 DEF ScrapeTime
<1>24. CASE IncrementalStart
  BY <1>24 DEF IncrementalStart
<1>25. CASE \E c \in City : NextQuery(c)
  BY <1>25 DEF NextQuery
<1>26. CASE \E c \in City : Edit(c)
  BY <1>26 DEF Edit
<1>27. CASE UNCHANGED vars
  BY <1>27 DEF vars
<1>q. QED
  BY <1>1, <1>2, <1>3, <1>4, <1>5, <1>6, <1>7, <1>8, <1>9, <1>10, <1>11, <1>12, <1>13, <1>14, <1>15, <1>16, <1>17, <1>18, <1>19, <1>20, <1>21, <1>22, <1>23, <1>24, <1>25, <1>26, <1>27 DEF Next

\* Nothing goes on behind the breaker.
LEMMA TrippedStep == TypeOK /\ Tripped /\ [Next]_vars => Tripped'
<1> SUFFICES ASSUME TypeOK /\ Tripped, [Next]_vars
             PROVE  Tripped'
  OBVIOUS
<1> USE LimitAssumption, CityAssumption, NothingAssumption
    DEF TypeOK, Tripped, Sweeping, Goto, files, place, report, history, budget
<1>1. CASE NoAdapter
  BY <1>1 DEF NoAdapter, Record
<1>2. CASE Wait
  BY <1>2 DEF Wait, Record
<1>3. CASE Cached
  BY <1>3 DEF Cached, Record
<1>4. CASE Blocked
  BY <1>4 DEF Blocked, Record
<1>5. CASE Begin
  BY <1>5 DEF Begin
<1>6. CASE EndSweep
  BY <1>6 DEF EndSweep
<1>7. CASE Reserve
  BY <1>7 DEF Reserve
<1>8. CASE BudgetSpent
  BY <1>8 DEF BudgetSpent, Done, Some
<1>9. CASE LastPage
  BY <1>9 DEF LastPage, Taken, Billed, Done
<1>10. CASE MorePages
  BY <1>10 DEF MorePages, Taken, Billed, Done
<1>11. CASE Fails
  BY <1>11 DEF Fails, Taken, Billed, Done, Some
<1>12. CASE Retry
  BY <1>12 DEF Retry, Done, Some
<1>13. CASE Rejected
  BY <1>13 DEF Rejected
<1>14. CASE RejectedLate
  BY <1>14 DEF RejectedLate, Billed
<1>15. CASE Refund
  BY <1>15 DEF Refund
<1>16. CASE Block
  BY <1>16 DEF Block
<1>17. CASE Finish
  BY <1>17 DEF Finish
<1>18. CASE Unlink
  BY <1>18 DEF Unlink
<1>19. CASE WriteData
  BY <1>19 DEF WriteData
<1>20. CASE WriteMeta
  BY <1>20 DEF WriteMeta
<1>21. CASE RecordScrape
  BY <1>21 DEF RecordScrape, Rest, Record
<1>22. CASE Crash
  BY <1>22 DEF Crash, Rest
<1>23. CASE ScrapeTime
  BY <1>23 DEF ScrapeTime
<1>24. CASE IncrementalStart
  BY <1>24 DEF IncrementalStart
<1>25. CASE \E c \in City : NextQuery(c)
  BY <1>25 DEF NextQuery
<1>26. CASE \E c \in City : Edit(c)
  BY <1>26 DEF Edit
<1>27. CASE UNCHANGED vars
  BY <1>27 DEF vars
<1>q. QED
  BY <1>1, <1>2, <1>3, <1>4, <1>5, <1>6, <1>7, <1>8, <1>9, <1>10, <1>11, <1>12, <1>13, <1>14, <1>15, <1>16, <1>17, <1>18, <1>19, <1>20, <1>21, <1>22, <1>23, <1>24, <1>25, <1>26, <1>27 DEF Next

\* Whatever ends a query early leaves a mark on the sweep.
LEMMA CoverageStep == TypeOK /\ Coverage /\ [Next]_vars => Coverage'
<1> SUFFICES ASSUME TypeOK /\ Coverage, [Next]_vars
             PROVE  Coverage'
  OBVIOUS
<1> USE LimitAssumption, CityAssumption, NothingAssumption
    DEF TypeOK, Coverage, Goto, files, place, report, history, budget
<1>1. CASE NoAdapter
  BY <1>1 DEF NoAdapter, Record
<1>2. CASE Wait
  BY <1>2 DEF Wait, Record
<1>3. CASE Cached
  BY <1>3 DEF Cached, Record
<1>4. CASE Blocked
  BY <1>4 DEF Blocked, Record
<1>5. CASE Begin
  BY <1>5 DEF Begin
<1>6. CASE EndSweep
  BY <1>6 DEF EndSweep
<1>7. CASE Reserve
  BY <1>7 DEF Reserve
<1>8. CASE BudgetSpent
  BY <1>8 DEF BudgetSpent, Done, Some
<1>9. CASE LastPage
  BY <1>9 DEF LastPage, Taken, Billed, Done
<1>10. CASE MorePages
  BY <1>10 DEF MorePages, Taken, Billed, Done
<1>11. CASE Fails
  BY <1>11 DEF Fails, Taken, Billed, Done, Some
<1>12. CASE Retry
  BY <1>12 DEF Retry, Done, Some
<1>13. CASE Rejected
  BY <1>13 DEF Rejected
<1>14. CASE RejectedLate
  BY <1>14 DEF RejectedLate, Billed
<1>15. CASE Refund
  BY <1>15 DEF Refund
<1>16. CASE Block
  BY <1>16 DEF Block
<1>17. CASE Finish
  BY <1>17 DEF Finish
<1>18. CASE Unlink
  BY <1>18 DEF Unlink
<1>19. CASE WriteData
  BY <1>19 DEF WriteData
<1>20. CASE WriteMeta
  BY <1>20 DEF WriteMeta
<1>21. CASE RecordScrape
  BY <1>21 DEF RecordScrape, Rest, Record
<1>22. CASE Crash
  BY <1>22 DEF Crash, Rest
<1>23. CASE ScrapeTime
  BY <1>23 DEF ScrapeTime
<1>24. CASE IncrementalStart
  BY <1>24 DEF IncrementalStart
<1>25. CASE \E c \in City : NextQuery(c)
  BY <1>25 DEF NextQuery
<1>26. CASE \E c \in City : Edit(c)
  BY <1>26 DEF Edit
<1>27. CASE UNCHANGED vars
  BY <1>27 DEF vars
<1>q. QED
  BY <1>1, <1>2, <1>3, <1>4, <1>5, <1>6, <1>7, <1>8, <1>9, <1>10, <1>11, <1>12, <1>13, <1>14, <1>15, <1>16, <1>17, <1>18, <1>19, <1>20, <1>21, <1>22, <1>23, <1>24, <1>25, <1>26, <1>27 DEF Next

\* The order of the cache's writes keeps metadata and pool together.
LEMMA SealedStep == TypeOK /\ Coverage /\ Sealed /\ [Next]_vars => Sealed'
<1> SUFFICES ASSUME TypeOK /\ Coverage /\ Sealed, [Next]_vars
             PROVE  Sealed'
  OBVIOUS
<1> USE LimitAssumption, CityAssumption, NothingAssumption
    DEF TypeOK, Coverage, Sealed, Goto, files, place, report, history, budget
<1>1. CASE NoAdapter
  BY <1>1 DEF NoAdapter, Record
<1>2. CASE Wait
  BY <1>2 DEF Wait, Record
<1>3. CASE Cached
  BY <1>3 DEF Cached, Record
<1>4. CASE Blocked
  BY <1>4 DEF Blocked, Record
<1>5. CASE Begin
  BY <1>5 DEF Begin
<1>6. CASE EndSweep
  BY <1>6 DEF EndSweep
<1>7. CASE Reserve
  BY <1>7 DEF Reserve
<1>8. CASE BudgetSpent
  BY <1>8 DEF BudgetSpent, Done, Some
<1>9. CASE LastPage
  BY <1>9 DEF LastPage, Taken, Billed, Done
<1>10. CASE MorePages
  BY <1>10 DEF MorePages, Taken, Billed, Done
<1>11. CASE Fails
  BY <1>11 DEF Fails, Taken, Billed, Done, Some
<1>12. CASE Retry
  BY <1>12 DEF Retry, Done, Some
<1>13. CASE Rejected
  BY <1>13 DEF Rejected
<1>14. CASE RejectedLate
  BY <1>14 DEF RejectedLate, Billed
<1>15. CASE Refund
  BY <1>15 DEF Refund
<1>16. CASE Block
  BY <1>16 DEF Block
<1>17. CASE Finish
  BY <1>17 DEF Finish
<1>18. CASE Unlink
  BY <1>18 DEF Unlink
<1>19. CASE WriteData
  BY <1>19 DEF WriteData
<1>20. CASE WriteMeta
  BY <1>20 DEF WriteMeta
<1>21. CASE RecordScrape
  BY <1>21 DEF RecordScrape, Rest, Record
<1>22. CASE Crash
  BY <1>22 DEF Crash, Rest
<1>23. CASE ScrapeTime
  BY <1>23 DEF ScrapeTime
<1>24. CASE IncrementalStart
  BY <1>24 DEF IncrementalStart
<1>25. CASE \E c \in City : NextQuery(c)
  BY <1>25 DEF NextQuery
<1>26. CASE \E c \in City : Edit(c)
  BY <1>26 DEF Edit
<1>27. CASE UNCHANGED vars
  BY <1>27 DEF vars
<1>q. QED
  BY <1>1, <1>2, <1>3, <1>4, <1>5, <1>6, <1>7, <1>8, <1>9, <1>10, <1>11, <1>12, <1>13, <1>14, <1>15, <1>16, <1>17, <1>18, <1>19, <1>20, <1>21, <1>22, <1>23, <1>24, <1>25, <1>26, <1>27 DEF Next

\* A sweep that is paid for leaves a usable pool or the breaker behind.
LEMMA TurnsStep == TypeOK /\ InHand /\ Tripped /\ Sealed /\ Turns /\ [Next]_vars => Turns'
<1> SUFFICES ASSUME TypeOK /\ InHand /\ Tripped /\ Sealed /\ Turns, [Next]_vars
             PROVE  Turns'
  OBVIOUS
<1> USE LimitAssumption, CityAssumption, NothingAssumption
    DEF TypeOK, InHand, Querying, Tripped, Sealed, Turns, Sweeping, Left, Unpaid, Slack, Usable, Goto, files, place, report, history, budget
<1>1. CASE NoAdapter
  BY <1>1 DEF NoAdapter, Record
<1>2. CASE Wait
  BY <1>2 DEF Wait, Record
<1>3. CASE Cached
  BY <1>3 DEF Cached, Record
<1>4. CASE Blocked
  BY <1>4 DEF Blocked, Record
<1>5. CASE Begin
  BY <1>5 DEF Begin
<1>6. CASE EndSweep
  BY <1>6 DEF EndSweep
<1>7. CASE Reserve
  BY <1>7 DEF Reserve
<1>8. CASE BudgetSpent
  BY <1>8 DEF BudgetSpent, Done, Some
<1>9. CASE LastPage
  BY <1>9 DEF LastPage, Taken, Billed, Done
<1>10. CASE MorePages
  BY <1>10 DEF MorePages, Taken, Billed, Done
<1>11. CASE Fails
  BY <1>11 DEF Fails, Taken, Billed, Done, Some
<1>12. CASE Retry
  BY <1>12 DEF Retry, Done, Some
<1>13. CASE Rejected
  BY <1>13 DEF Rejected
<1>14. CASE RejectedLate
  BY <1>14 DEF RejectedLate, Billed
<1>15. CASE Refund
  BY <1>15 DEF Refund
<1>16. CASE Block
  BY <1>16 DEF Block
<1>17. CASE Finish
  BY <1>17 DEF Finish
<1>18. CASE Unlink
  BY <1>18 DEF Unlink
<1>19. CASE WriteData
  BY <1>19 DEF WriteData
<1>20. CASE WriteMeta
  BY <1>20 DEF WriteMeta
<1>21. CASE RecordScrape
  BY <1>21 DEF RecordScrape, Rest, Record
<1>22. CASE Crash
  BY <1>22 DEF Crash, Rest
<1>23. CASE ScrapeTime
  BY <1>23 DEF ScrapeTime
<1>24. CASE IncrementalStart
  BY <1>24 DEF IncrementalStart
<1>25. CASE \E c \in City : NextQuery(c)
  BY <1>25 DEF NextQuery
<1>26. CASE \E c \in City : Edit(c)
  BY <1>26 DEF Edit
<1>27. CASE UNCHANGED vars
  BY <1>27 DEF vars
<1>q. QED
  BY <1>1, <1>2, <1>3, <1>4, <1>5, <1>6, <1>7, <1>8, <1>9, <1>10, <1>11, <1>12, <1>13, <1>14, <1>15, <1>16, <1>17, <1>18, <1>19, <1>20, <1>21, <1>22, <1>23, <1>24, <1>25, <1>26, <1>27 DEF Next

-----------------------------------------------------------------------------
(* The theorems. *)

\* The empty day satisfies the invariant.
LEMMA InvInit == Init => IInv
<1> SUFFICES ASSUME Init
             PROVE  IInv
  OBVIOUS
<1> USE LimitAssumption DEF Init
<1>1. TypeOK
  <2>1. late \in BOOLEAN /\ blocked \in BOOLEAN /\ clean \in BOOLEAN
    OBVIOUS
  <2>2. watched \subseteq City /\ plan \subseteq City /\ todo \subseteq plan
    OBVIOUS
  <2>q. QED
    BY <2>1, <2>2 DEF TypeOK
<1>2. InHand /\ Accounts /\ Tripped
  BY DEF InHand, Querying, Accounts, Pending, Tripped, Sweeping
<1>3. Coverage /\ Sealed
  BY DEF Coverage, Sealed
<1>4. Turns
  BY DEF Turns, Sweeping, Slack
<1>q. QED
  BY <1>1, <1>2, <1>3, <1>4 DEF IInv

\* Every step keeps it.
LEMMA InvStep == IInv /\ [Next]_vars => IInv'
BY TypeStep, InHandStep, AccountsStep, TrippedStep, CoverageStep, SealedStep, TurnsStep DEF IInv

\* The paid half of the daily path satisfies the invariant at every place of
\* every run (fetch_daily and what it calls).
THEOREM InvariantHolds == Spec => []IInv
BY InvInit, InvStep, PTL DEF Spec

\* Every variable keeps its type; the quota file never exceeds the budget.
THEOREM TypeCorrect == Spec => []TypeOK
<1>1. IInv => TypeOK
  BY DEF IInv
<1>q. QED
  BY <1>1, InvariantHolds, PTL

\* The source takes no more requests than the budget, but one a day, and one for
\* each run that died, whose token was rejected late (reserve_request,
\* refund_request, block_source_for_day).
THEOREM BudgetIsKept == Spec => []BudgetHolds
<1>1. IInv => BudgetHolds
  BY LimitAssumption DEF IInv, TypeOK, Accounts, Pending, Tripped, BudgetHolds
<1>q. QED
  BY <1>1, InvariantHolds, PTL

\* A rejected token costs no unit of the day's budget (refund_request).
THEOREM UnitsComeBack == Spec => []UnitsAreNotLost
<1>1. IInv => UnitsAreNotLost
  BY DEF IInv, TypeOK, Accounts, Pending, UnitsAreNotLost
<1>q. QED
  BY <1>1, InvariantHolds, PTL

\* The pool of a day is paid for once, and once more for each edit and each run
\* that died (fetch_daily's cache of whatever the sweep brought).
THEOREM SweepsAreFew == Spec => []SweepsAreBounded
<1>1. IInv => SweepsAreBounded
  BY LimitAssumption DEF IInv, TypeOK, Turns, Slack, SweepsAreBounded
<1>q. QED
  BY <1>1, InvariantHolds, PTL

\* A pool called complete has every page of every watched city (cache_raw,
\* _cached_report, PoolFetchReport.complete).
THEOREM CompletenessIsHonest == Spec => []CompleteIsHonest
<1>1. IInv => CompleteIsHonest
  BY DEF IInv, Sealed, Complete, Usable, CompleteIsHonest
<1>q. QED
  BY <1>1, InvariantHolds, PTL
=============================================================================
