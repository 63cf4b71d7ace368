------------------------------- MODULE Schedule -------------------------------
(***************************************************************************)
(* When a recipient may be written to (notification_schedule.py): the due  *)
(* gate of the daily path, the local day its caps count by, and the        *)
(* earliest time of an alert.  Times are minutes of the recipient's local  *)
(* clock, counted from a midnight; the code compares hours and minutes     *)
(* only.  Clock changes are not modelled: every day has 1440 minutes.  A   *)
(* profile p has the fields                                                *)
(*   mode         "daily" or "immediate"                                   *)
(*   delivery     delivery_time                                            *)
(*   quietStart, quietEnd   the quiet hours, or None for both              *)
(***************************************************************************)
EXTENDS Integers, TLAPS

CONSTANT None

Day == 1440
Clock == 0..(Day - 1)

\* The clock's reading, the day, and the time a clock reading has on a day.
TimeOf(t) == t % Day
DateOf(t) == t \div Day
At(date, clock) == Day * date + clock

\* is_profile_due
IsDue(p, now, lastSent) ==
  /\ p.delivery <= TimeOf(now)
  /\ lastSent # None => DateOf(lastSent) # DateOf(now)

HasQuietHours(p) == p.quietStart # None /\ p.quietEnd # None

\* The quiet hours, which may go over midnight.
InQuietHours(p, clock) ==
  IF p.quietStart < p.quietEnd THEN p.quietStart <= clock /\ clock < p.quietEnd
  ELSE p.quietStart <= clock \/ clock < p.quietEnd

\* notification_not_before
NotBefore(p, now) ==
  IF p.mode = "daily"
  THEN At(IF TimeOf(now) < p.delivery THEN DateOf(now) ELSE DateOf(now) + 1, p.delivery)
  ELSE IF ~HasQuietHours(p) \/ ~InQuietHours(p, TimeOf(now)) THEN now
  ELSE At(IF p.quietStart >= p.quietEnd /\ p.quietStart <= TimeOf(now)
          THEN DateOf(now) + 1 ELSE DateOf(now),
          p.quietEnd)

\* local_day_window_utc
DayStart(now) == At(DateOf(now), 0)
DayEnd(now) == At(DateOf(now) + 1, 0)

\* Profile's validators: quiet hours are set together and are not a whole day.
IsProfile(p) ==
  /\ p.mode \in {"daily", "immediate"}
  /\ p.delivery \in Clock
  /\ \/ p.quietStart = None /\ p.quietEnd = None
     \/ p.quietStart \in Clock /\ p.quietEnd \in Clock /\ p.quietStart # p.quietEnd
-----------------------------------------------------------------------------
LEMMA Split ==
  ASSUME NEW t \in Nat
  PROVE  /\ TimeOf(t) \in Clock /\ DateOf(t) \in Nat
         /\ t = At(DateOf(t), TimeOf(t))
BY DEF TimeOf, DateOf, At, Clock, Day

LEMMA Join ==
  ASSUME NEW date \in Nat, NEW clock \in Clock
  PROVE  /\ At(date, clock) \in Nat
         /\ TimeOf(At(date, clock)) = clock /\ DateOf(At(date, clock)) = date
BY DEF TimeOf, DateOf, At, Clock, Day

\* A day has the moments from its midnight up to the next.
LEMMA DayBounds ==
  ASSUME NEW t \in Nat
  PROVE  /\ DateOf(t) \in Nat
         /\ 1440 * DateOf(t) <= t /\ t < 1440 * DateOf(t) + 1440
BY DEF DateOf, Day

LEMMA DayDecides ==
  ASSUME NEW t \in Nat, NEW date \in Nat, 1440 * date <= t, t < 1440 * date + 1440
  PROVE  DateOf(t) = date
<1>1. /\ DateOf(t) \in Nat
      /\ 1440 * DateOf(t) <= t /\ t < 1440 * DateOf(t) + 1440
  BY DayBounds
<1>2. \A d \in Nat : 1440 * d <= t /\ t < 1440 * d + 1440 => d = date
  OBVIOUS
<1> QED
  BY <1>1, <1>2

LEMMA ClockIsInt ==
  ASSUME NEW c \in Clock
  PROVE  c \in Int /\ 0 <= c /\ c < 1440
BY DEF Clock, Day

\* A time of the same day is at or after now when its clock is, and the same time
\* of the next day is when it is not; both are within a day.
LEMMA NextTime ==
  ASSUME NEW now \in Nat, NEW e \in Clock
  PROVE  /\ TimeOf(now) < e => now < At(DateOf(now), e) /\ At(DateOf(now), e) <= now + Day
         /\ e <= TimeOf(now) => now < At(DateOf(now) + 1, e) /\ At(DateOf(now) + 1, e) <= now + Day
<1>1. \A d \in Nat, c \in Int, x \in Int :
        0 <= c /\ c < 1440 /\ 0 <= x /\ x < 1440 /\ now = 1440 * d + c =>
          /\ c < x => now < 1440 * d + x /\ 1440 * d + x <= now + 1440
          /\ x <= c => now < 1440 * (d + 1) + x /\ 1440 * (d + 1) + x <= now + 1440
  OBVIOUS
<1>2. /\ DateOf(now) \in Nat /\ TimeOf(now) \in Int
      /\ 0 <= TimeOf(now) /\ TimeOf(now) < 1440
      /\ now = 1440 * DateOf(now) + TimeOf(now)
  <2>1. TimeOf(now) \in Clock /\ DateOf(now) \in Nat
    BY Split
  <2>2. now = At(DateOf(now), TimeOf(now))
    BY Split
  <2> QED
    BY <2>1, <2>2, ClockIsInt DEF At, Day
<1>3. e \in Int /\ 0 <= e /\ e < 1440
  BY ClockIsInt
<1> QED
  BY <1>1, <1>2, <1>3 DEF At, Day

\* A day's window holds the moment it is asked for and every other moment of that
\* local date, and no moment of another: the daily caps count by it.
THEOREM WindowIsTheDate ==
  ASSUME NEW t \in Nat, NEW u \in Nat
  PROVE  DayStart(t) <= u /\ u < DayEnd(t) <=> DateOf(u) = DateOf(t)
<1>1. DayStart(t) = 1440 * DateOf(t) /\ DayEnd(t) = 1440 * DateOf(t) + 1440
  BY DayBounds DEF DayStart, DayEnd, At, Day
<1>2. ASSUME DayStart(t) <= u, u < DayEnd(t)
      PROVE  DateOf(u) = DateOf(t)
  BY <1>1, <1>2, DayBounds, DayDecides
<1>3. ASSUME DateOf(u) = DateOf(t)
      PROVE  DayStart(t) <= u /\ u < DayEnd(t)
  BY <1>1, <1>3, DayBounds
<1> QED
  BY <1>2, <1>3

\* README.md: a person is only pushed to once per local calendar day.  What was
\* sent closes the gate until the date changes, and on the next date it opens
\* again at the delivery time.
THEOREM DueOnceADay ==
  ASSUME NEW p, IsProfile(p), NEW t \in Nat, NEW u \in Nat, t <= u, None \notin Nat
  PROVE  IsDue(p, u, t) <=> DateOf(t) < DateOf(u) /\ p.delivery <= TimeOf(u)
<1>1. /\ DateOf(t) \in Nat /\ DateOf(u) \in Nat
      /\ 1440 * DateOf(t) <= t /\ u < 1440 * DateOf(u) + 1440
  BY DayBounds
<1>2. DateOf(t) <= DateOf(u)
  BY <1>1
<1>3. t # None
  OBVIOUS
<1> QED
  BY <1>1, <1>2, <1>3 DEF IsDue

\* An alert of a recipient who wants them at once is never timed into the quiet
\* hours ("earliest send time respecting delivery mode and local quiet hours").
THEOREM NeverInQuietHours ==
  ASSUME NEW p, IsProfile(p), p.mode = "immediate", HasQuietHours(p), NEW now \in Nat
  PROVE  ~InQuietHours(p, TimeOf(NotBefore(p, now)))
<1>1. TimeOf(now) \in Clock /\ DateOf(now) \in Nat
  BY Split
<1>2. p.quietStart \in Clock /\ p.quietEnd \in Clock /\ p.quietStart # p.quietEnd
  BY DEF IsProfile, HasQuietHours
<1>3. ~InQuietHours(p, p.quietEnd)
  <2>1. p.quietStart \in Int /\ p.quietEnd \in Int
    BY <1>2, ClockIsInt
  <2>2. CASE p.quietStart < p.quietEnd
    BY <2>1, <2>2 DEF InQuietHours
  <2>3. CASE p.quietEnd < p.quietStart
    BY <2>1, <2>3 DEF InQuietHours
  <2>4. p.quietStart < p.quietEnd \/ p.quietEnd < p.quietStart
    BY <1>2, <2>1
  <2> QED
    BY <2>2, <2>3, <2>4
<1>4. CASE ~InQuietHours(p, TimeOf(now))
  BY <1>4 DEF NotBefore
<1>5. CASE InQuietHours(p, TimeOf(now))
  <2>1. \E date \in Nat : NotBefore(p, now) = At(date, p.quietEnd)
    BY <1>1, <1>5 DEF NotBefore
  <2>2. TimeOf(NotBefore(p, now)) = p.quietEnd
    BY <1>2, <2>1, Join
  <2> QED
    BY <1>3, <2>2
<1> QED
  BY <1>4, <1>5

\* An alert waits for at most a day, never for a moment that has passed, and a
\* daily recipient's for the delivery time.
THEOREM WaitsAtMostADay ==
  ASSUME NEW p, IsProfile(p), NEW now \in Nat
  PROVE  /\ now <= NotBefore(p, now) /\ NotBefore(p, now) <= now + Day
         /\ p.mode = "daily" => now < NotBefore(p, now) /\ TimeOf(NotBefore(p, now)) = p.delivery
<1>1. TimeOf(now) \in Clock /\ DateOf(now) \in Nat /\ DateOf(now) + 1 \in Nat
  BY Split
<1>2. TimeOf(now) \in Int
  BY <1>1, ClockIsInt
<1>3. CASE p.mode = "daily"
  <2>1. p.delivery \in Clock /\ p.delivery \in Int
    BY ClockIsInt DEF IsProfile
  <2>2. CASE TimeOf(now) < p.delivery
    <3>1. NotBefore(p, now) = At(DateOf(now), p.delivery)
      BY <1>3, <2>2 DEF NotBefore
    <3>2. now < NotBefore(p, now) /\ NotBefore(p, now) <= now + Day
      BY <2>1, <2>2, <3>1, NextTime
    <3>3. NotBefore(p, now) \in Nat /\ TimeOf(NotBefore(p, now)) = p.delivery
      BY <1>1, <2>1, <3>1, Join
    <3> QED
      BY <3>2, <3>3
  <2>3. CASE ~(TimeOf(now) < p.delivery)
    <3>1. NotBefore(p, now) = At(DateOf(now) + 1, p.delivery)
      BY <1>3, <2>3 DEF NotBefore
    <3>2. p.delivery <= TimeOf(now)
      BY <1>2, <2>1, <2>3
    <3>3. now < NotBefore(p, now) /\ NotBefore(p, now) <= now + Day
      BY <2>1, <3>1, <3>2, NextTime
    <3>4. NotBefore(p, now) \in Nat /\ TimeOf(NotBefore(p, now)) = p.delivery
      BY <1>1, <2>1, <3>1, Join
    <3> QED
      BY <3>3, <3>4
  <2> QED
    BY <2>2, <2>3
<1>4. CASE p.mode # "daily" /\ (~HasQuietHours(p) \/ ~InQuietHours(p, TimeOf(now)))
  BY <1>4 DEF NotBefore, Day
<1>5. CASE p.mode # "daily" /\ HasQuietHours(p) /\ InQuietHours(p, TimeOf(now))
  <2>1. p.quietStart \in Clock /\ p.quietEnd \in Clock
    BY <1>5 DEF IsProfile, HasQuietHours
  <2>2. p.quietStart \in Int /\ p.quietEnd \in Int
    BY <2>1, ClockIsInt
  <2>3. CASE p.quietStart >= p.quietEnd /\ p.quietStart <= TimeOf(now)
    <3>1. NotBefore(p, now) = At(DateOf(now) + 1, p.quietEnd)
      BY <1>5, <2>3 DEF NotBefore
    <3>2. p.quietEnd <= TimeOf(now)
      BY <1>2, <2>2, <2>3
    <3>3. now < NotBefore(p, now) /\ NotBefore(p, now) <= now + Day
      BY <2>1, <3>1, <3>2, NextTime
    <3>4. NotBefore(p, now) \in Nat
      BY <1>1, <2>1, <3>1, Join
    <3> QED
      BY <1>5, <3>3, <3>4
  <2>4. CASE ~(p.quietStart >= p.quietEnd /\ p.quietStart <= TimeOf(now))
    <3>1. NotBefore(p, now) = At(DateOf(now), p.quietEnd)
      BY <1>5, <2>4 DEF NotBefore
    <3>2. TimeOf(now) < p.quietEnd
      <4>1. CASE p.quietStart < p.quietEnd
        BY <1>5, <4>1 DEF InQuietHours
      <4>2. CASE ~(p.quietStart < p.quietEnd)
        <5>1. p.quietStart <= TimeOf(now) \/ TimeOf(now) < p.quietEnd
          BY <1>5, <4>2 DEF InQuietHours
        <5>2. p.quietStart >= p.quietEnd
          BY <2>2, <4>2
        <5> QED
          BY <2>4, <5>1, <5>2
      <4> QED
        BY <4>1, <4>2
    <3>3. now < NotBefore(p, now) /\ NotBefore(p, now) <= now + Day
      BY <2>1, <3>1, <3>2, NextTime
    <3>4. NotBefore(p, now) \in Nat
      BY <1>1, <2>1, <3>1, Join
    <3> QED
      BY <1>5, <3>3, <3>4
  <2> QED
    BY <2>3, <2>4
<1> QED
  BY <1>3, <1>4, <1>5

\* The worker asks again before it sends (delivery_worker.py, current_due): asked
\* at the very time it gave before, for the same profile, it gives that time.
\* (Asked later, in the quiet hours of the next day, it puts the alert off.)
THEOREM ComesDue ==
  ASSUME NEW p, IsProfile(p), p.mode = "immediate", NEW now \in Nat
  PROVE  NotBefore(p, NotBefore(p, now)) = NotBefore(p, now)
<1>1. CASE HasQuietHours(p)
  BY <1>1, NeverInQuietHours DEF NotBefore
<1>2. CASE ~HasQuietHours(p)
  BY <1>2 DEF NotBefore
<1> QED
  BY <1>1, <1>2
=============================================================================
