---------------------------- MODULE CalendarProofs ----------------------------
(***************************************************************************)
(* Proofs about Calendar, for every registry whose sessions are in order   *)
(* (RegistryAssumption), every zone that changes its offset in a weekend   *)
(* (ZoneAssumption), and any lengths of the day, the search and the wait.  *)
(***************************************************************************)
EXTENDS Calendar, FiniteSetTheorems, WellFoundedInduction, TLAPS

-------------------------------------------------------------------------------
\* The least of a set of integers, which Min names.

Less == {pair \in Nat \X Nat : pair[1] < pair[2]}

LEMMA LessIsWellFounded == IsWellFoundedOn(Less, Nat)
  BY NatLessThanWellFounded DEF OpToRel, Less

\* A set of naturals has a least element.
LEMMA Least ==
  ASSUME NEW T, T \subseteq Nat, T # {}
  PROVE  \E x \in T : \A y \in T : x <= y
<1>1. PICK x \in T : \A y \in T : <<y, x>> \notin Less
  BY LessIsWellFounded, WFMin
<1>2. ASSUME NEW y \in T PROVE x <= y
  <2>1. x \in Nat /\ y \in Nat
    OBVIOUS
  <2>2. ~(y < x)
    BY <1>1, <2>1 DEF Less
  <2> QED
    BY <2>1, <2>2
<1> QED
  BY <1>2

\* Min() of a set of integers with a lower bound is its least element.
LEMMA MinIsLeast ==
  ASSUME NEW S, S \subseteq Int, S # {}, NEW b \in Int, \A y \in S : b <= y
  PROVE  Min(S) \in S /\ \A y \in S : Min(S) <= y
<1> DEFINE T == {n \in Nat : b + n \in S}
<1>1. T # {}
  <2>1. PICK y \in S : TRUE
    OBVIOUS
  <2>2. y - b \in T
    BY <2>1
  <2> QED
    BY <2>2
<1>2. PICK x \in T : \A n \in T : x <= n
  <2> HIDE DEF T
  <2>1. T \subseteq Nat
    BY DEF T
  <2> QED
    BY <2>1, <1>1, Least
<1>3. b + x \in S /\ \A y \in S : b + x <= y
  <2>1. \A y \in S : y - b \in T
    OBVIOUS
  <2> QED
    BY <1>2, <2>1
<1>4. \E m \in S : \A y \in S : m =< y
  BY <1>3
<1> QED
  BY <1>4, Zenon DEF Min

-------------------------------------------------------------------------------
\* Days and the time of day.

\* A local time is its day and its time of day.
LEMMA Split ==
  \A l \in Int : /\ Day(l) \in Int /\ Time(l) \in Times
                 /\ l = Day(l) * DayLength + Time(l)
  BY CalendarAssumption DEF Day, Time, Times

\* A later day begins when the earlier one has ended.
LEMMA Apart ==
  ASSUME NEW a \in Int, NEW b \in Int, a < b
  PROVE  a * DayLength + DayLength <= b * DayLength
<1>1. DayLength \in Nat
  BY CalendarAssumption
<1>2. (a + 1) * DayLength <= b * DayLength
  <2>1. b - (a + 1) \in Nat
    OBVIOUS
  <2>2. (b - (a + 1)) * DayLength >= 0
    BY <2>1, <1>1
  <2> QED
    BY <2>2, <1>1
<1>3. (a + 1) * DayLength = a * DayLength + DayLength
  BY <1>1
<1> QED
  BY <1>1, <1>2, <1>3

\* A day and a time of day are those of their sum.
LEMMA OfDay ==
  ASSUME NEW d \in Int, NEW t \in Times
  PROVE  /\ d * DayLength + t \in Int
         /\ Day(d * DayLength + t) = d
         /\ Time(d * DayLength + t) = t
<1> DEFINE l == d * DayLength + t
<1>0. DayLength \in Nat /\ t \in Int /\ 0 <= t /\ t < DayLength
  BY CalendarAssumption DEF Times
<1>1. l \in Int
  BY <1>0
<1>2. /\ Day(l) \in Int /\ Time(l) \in Int /\ 0 <= Time(l) /\ Time(l) < DayLength
      /\ l = Day(l) * DayLength + Time(l)
  BY <1>0, <1>1, Split DEF Times
<1>3. d * DayLength \in Int /\ Day(l) * DayLength \in Int
  BY <1>0, <1>2
<1>4. ~(d < Day(l))
  <2>1. SUFFICES ASSUME d < Day(l) PROVE FALSE
    OBVIOUS
  <2>2. d * DayLength + DayLength <= Day(l) * DayLength
    BY <2>1, <1>2, Apart
  <2> QED
    BY <2>2, <1>0, <1>2, <1>3
<1>5. ~(Day(l) < d)
  <2>1. SUFFICES ASSUME Day(l) < d PROVE FALSE
    OBVIOUS
  <2>2. Day(l) * DayLength + DayLength <= d * DayLength
    BY <2>1, <1>2, Apart
  <2> QED
    BY <2>2, <1>0, <1>2, <1>3
<1>6. Day(l) = d
  BY <1>2, <1>4, <1>5
<1> QED
  BY <1>0, <1>1, <1>2, <1>3, <1>6

\* Days do not run backwards.
LEMMA DaysInOrder ==
  ASSUME NEW l \in Int, NEW k \in Int, l <= k
  PROVE  Day(l) <= Day(k)
<1>0. DayLength \in Nat
  BY CalendarAssumption
<1>1. /\ Day(l) \in Int /\ Time(l) \in Int /\ 0 <= Time(l) /\ Time(l) < DayLength
      /\ l = Day(l) * DayLength + Time(l)
  BY <1>0, Split DEF Times
<1>2. /\ Day(k) \in Int /\ Time(k) \in Int /\ 0 <= Time(k) /\ Time(k) < DayLength
      /\ k = Day(k) * DayLength + Time(k)
  BY <1>0, Split DEF Times
<1>3. SUFFICES ASSUME Day(k) < Day(l) PROVE FALSE
  BY <1>1, <1>2
<1>4. Day(k) * DayLength + DayLength <= Day(l) * DayLength
  BY <1>3, <1>1, <1>2, Apart
<1>5. Day(k) * DayLength \in Int /\ Day(l) * DayLength \in Int
  BY <1>0, <1>1, <1>2
<1> QED
  BY <1>0, <1>1, <1>2, <1>4, <1>5

\* Within a day the time moves with the clock.
LEMMA WithinDay ==
  ASSUME NEW l \in Int, NEW k \in Int, Time(l) + k \in Times
  PROVE  Day(l + k) = Day(l) /\ Time(l + k) = Time(l) + k
<1>1. Day(l) \in Int /\ Time(l) \in Int /\ l = Day(l) * DayLength + Time(l)
  BY Split DEF Times
<1>2. Day(l) * DayLength \in Int
  BY <1>1, CalendarAssumption
<1>3. l + k = Day(l) * DayLength + (Time(l) + k)
  BY <1>1, <1>2
<1> QED
  BY <1>1, <1>3, OfDay

-------------------------------------------------------------------------------
\* The zone.

\* Either the offset stays, or it changes within one day, of a weekend.
LEMMA Zone ==
  ASSUME offset \in Offsets
  PROVE  /\ offset[1] \in Int /\ offset[2] \in Int /\ ChangesAt \in Int
         /\ \/ offset[1] = offset[2]
            \/ /\ Day(ChangesAt - 1 + offset[1]) = Day(ChangesAt + offset[2])
               /\ Weekend(Day(ChangesAt + offset[2]))
  BY CalendarAssumption, ZoneAssumption

LEMMA LocalType ==
  ASSUME offset \in Offsets, NEW t \in Int
  PROVE  OffsetAt(t) \in Int /\ Local(t) \in Int
  BY Zone DEF OffsetAt, Local

\* Local days do not run backwards, whatever the zone does.
LEMMA LocalDaysInOrder ==
  ASSUME offset \in Offsets, NEW t \in Int, NEW u \in Int, t <= u
  PROVE  Day(Local(t)) <= Day(Local(u))
<1>0. /\ Local(t) \in Int /\ Local(u) \in Int
      /\ offset[1] \in Int /\ offset[2] \in Int /\ ChangesAt \in Int
  BY Zone, LocalType
<1>1. CASE Local(t) <= Local(u)
  BY <1>0, <1>1, DaysInOrder
<1>2. CASE ~(Local(t) <= Local(u))
  <2>1. /\ t < ChangesAt /\ ChangesAt <= u /\ offset[1] # offset[2]
        /\ Local(t) = t + offset[1] /\ Local(u) = u + offset[2]
    BY <1>0, <1>2 DEF Local, OffsetAt
  <2>2. Day(Local(t)) <= Day(ChangesAt - 1 + offset[1])
    <3>1. Local(t) <= ChangesAt - 1 + offset[1]
      BY <1>0, <2>1
    <3> QED
      BY <1>0, <3>1, DaysInOrder
  <2>3. Day(ChangesAt + offset[2]) <= Day(Local(u))
    <3>1. ChangesAt + offset[2] <= Local(u)
      BY <1>0, <2>1
    <3> QED
      BY <1>0, <3>1, DaysInOrder
  <2>4. Day(ChangesAt - 1 + offset[1]) = Day(ChangesAt + offset[2])
    BY <2>1, Zone
  <2>5. /\ Day(Local(t)) \in Int /\ Day(Local(u)) \in Int
        /\ Day(ChangesAt + offset[2]) \in Int
    BY <1>0, Split
  <2> QED
    BY <2>2, <2>3, <2>4, <2>5
<1> QED
  BY <1>1, <1>2

\* Between two times of one day that is not in a weekend the offset stays.
LEMMA SteadyZone ==
  ASSUME offset \in Offsets, NEW t \in Int, NEW u \in Int, t <= u,
         Day(Local(t)) = Day(Local(u)), ~Weekend(Day(Local(t)))
  PROVE  Local(u) = Local(t) + (u - t)
<1>0. /\ Local(t) \in Int /\ Local(u) \in Int
      /\ offset[1] \in Int /\ offset[2] \in Int /\ ChangesAt \in Int
  BY Zone, LocalType
<1>1. CASE OffsetAt(t) = OffsetAt(u)
  BY <1>0, <1>1 DEF Local, OffsetAt
<1>2. CASE OffsetAt(t) # OffsetAt(u)
  <2>1. /\ t <= ChangesAt - 1 /\ ChangesAt <= u /\ offset[1] # offset[2]
        /\ Local(ChangesAt) = ChangesAt + offset[2]
    BY <1>0, <1>2 DEF OffsetAt, Local
  <2>2. /\ Day(Local(t)) <= Day(Local(ChangesAt))
        /\ Day(Local(ChangesAt)) <= Day(Local(u))
    BY <1>0, <2>1, LocalDaysInOrder
  <2>3. Weekend(Day(Local(ChangesAt)))
    BY <2>1, Zone
  <2>4. /\ Day(Local(t)) \in Int /\ Day(Local(u)) \in Int
        /\ Day(Local(ChangesAt)) \in Int
    BY <1>0, Split, LocalType
  <2>5. Day(Local(t)) = Day(Local(ChangesAt))
    BY <2>2, <2>4
  <2> QED
    BY <2>3, <2>5
<1> QED
  BY <1>1, <1>2

\* Outside weekends the local clock goes on by one with the clock.
LEMMA Neighbours ==
  ASSUME offset \in Offsets, NEW t \in Int,
         ~Weekend(Day(Local(t))) \/ ~Weekend(Day(Local(t - 1)))
  PROVE  Local(t) = Local(t - 1) + 1
<1>0. /\ offset[1] \in Int /\ offset[2] \in Int /\ ChangesAt \in Int
  BY Zone
<1>1. CASE OffsetAt(t) = OffsetAt(t - 1)
  BY <1>0, <1>1 DEF Local, OffsetAt
<1>2. CASE OffsetAt(t) # OffsetAt(t - 1)
  <2>1. /\ t = ChangesAt /\ offset[1] # offset[2]
        /\ Local(t) = ChangesAt + offset[2] /\ Local(t - 1) = ChangesAt - 1 + offset[1]
    BY <1>0, <1>2 DEF OffsetAt, Local
  <2> QED
    BY <2>1, Zone
<1> QED
  BY <1>1, <1>2

\* local_to_utc() and back is the same day and time, outside weekends.
LEMMA ThereAndBack ==
  ASSUME offset \in Offsets, NEW d \in Int, ~Weekend(d), NEW time \in Times
  PROVE  /\ LocalToUtc(d, time) \in Int
         /\ Local(LocalToUtc(d, time)) = d * DayLength + time
         /\ Day(Local(LocalToUtc(d, time))) = d
         /\ Time(Local(LocalToUtc(d, time))) = time
<1> DEFINE l == d * DayLength + time
           t == LocalToUtc(d, time)
<1>0. /\ offset[1] \in Int /\ offset[2] \in Int /\ ChangesAt \in Int
  BY Zone
<1>1. l \in Int /\ Day(l) = d /\ Time(l) = time
  BY OfDay
<1>2. t = IF l - offset[2] >= ChangesAt THEN l - offset[2] ELSE l - offset[1]
  BY <1>0, CalendarAssumption DEF LocalToUtc, Times
<1> HIDE DEF l, t
<1>3. CASE l - offset[2] >= ChangesAt
  BY <1>0, <1>1, <1>2, <1>3 DEF Local, OffsetAt, l, t
<1>4. CASE ~(l - offset[2] >= ChangesAt)
  <2>1. l - offset[1] < ChangesAt
    <3>1. SUFFICES ASSUME ~(l - offset[1] < ChangesAt) PROVE FALSE
      OBVIOUS
    <3>2. /\ ChangesAt - 1 + offset[1] <= l /\ l <= ChangesAt + offset[2]
          /\ offset[1] # offset[2]
      BY <1>0, <1>1, <1>4, <3>1
    <3>3. Day(ChangesAt - 1 + offset[1]) <= d /\ d <= Day(ChangesAt + offset[2])
      BY <1>0, <1>1, <3>2, DaysInOrder
    <3>4. Day(ChangesAt + offset[2]) \in Int
      BY <1>0, Split
    <3>5. Day(ChangesAt - 1 + offset[1]) = Day(ChangesAt + offset[2]) /\ Weekend(Day(ChangesAt + offset[2]))
      BY <3>2, Zone
    <3>6. d = Day(ChangesAt + offset[2])
      BY <3>3, <3>4, <3>5
    <3> QED
      BY <3>5, <3>6
  <2> QED
    BY <1>0, <1>1, <1>2, <1>4, <2>1 DEF Local, OffsetAt, l, t
<1> QED
  BY <1>3, <1>4, <1>1 DEF l, t

-------------------------------------------------------------------------------
\* The sessions of a day.

\* What is in the table: a day is closed or not, and an early close fits the hours
\* of the exchange.
Table ==
    /\ DOMAIN holidays \subseteq Int
    /\ IsFiniteSet(DOMAIN holidays)
    /\ Cardinality(DOMAIN holidays) <= Capacity
    /\ \A d \in DOMAIN holidays :
          /\ holidays[d].closed \in BOOLEAN
          /\ holidays[d].early \in Times \cup {None}
          /\ holidays[d].early # None => Fits(holidays[d].early, ex)

\* What the schedule of a day is computed from.
Schedule ==
    /\ ex \in Exchanges \cup {Builtin, None}
    /\ offset \in Offsets
    /\ Table

\* What calendar_status() answers on a day with trading.
Session(day, time) ==
    IF In(ex.pre, time) THEN "pre"
    ELSE IF In(ex.lunch, time) THEN "lunch_break"
    ELSE IF ex.open <= time /\ time < CloseOf(day)
         THEN (IF EarlyClose(day) # None THEN "early_close" ELSE "open")
    ELSE IF In(ex.after, time) THEN "after"
    ELSE "closed"

LEMMA StatusOfDay ==
  \A t : Status(t) = IF ex = None \/ NoTrading(Day(Local(t))) THEN "closed"
                     ELSE Session(Day(Local(t)), Time(Local(t)))
  BY DEF Status, Session

\* The order of the hours of a day, with its own close.
Hours(d) ==
    /\ ex.open \in Times /\ CloseOf(d) \in Times /\ ex.open < CloseOf(d)
    /\ ex.pre # None => /\ ex.pre[1] \in Times /\ ex.pre[2] \in Times
                        /\ ex.pre[1] < ex.pre[2] /\ ex.pre[2] <= ex.open
    /\ ex.lunch # None => /\ ex.lunch[1] \in Times /\ ex.lunch[2] \in Times
                          /\ ex.open < ex.lunch[1] /\ ex.lunch[1] < ex.lunch[2]
                          /\ CloseOf(d) <= ex.lunch[1] \/ ex.lunch[2] < CloseOf(d)
    /\ ex.after # None => /\ ex.after[1] \in Times /\ ex.after[2] \in Times
                          /\ CloseOf(d) <= ex.after[1] /\ ex.after[1] < ex.after[2]
                          /\ ex.lunch # None => ex.lunch[2] < ex.after[1]

\* An early close leaves the hours of the day in order.
LEMMA HoursInOrder ==
  ASSUME Schedule, ex # None, NEW d
  PROVE  Hours(d)
<1>1. /\ ex \in Exchange /\ InOrder(ex)
  BY CalendarAssumption, RegistryAssumption DEF Schedule
<1>2. /\ ex.pre \in Spans /\ ex.lunch \in Spans /\ ex.after \in Spans
      /\ ex.open \in Times /\ ex.close \in Times
  BY <1>1 DEF Exchange
<1>3. \A t \in Times : t \in Int
  BY CalendarAssumption DEF Times
<1>4. \A s \in Spans : s # None => s[1] \in Times /\ s[2] \in Times
  BY DEF Spans
<1>5. EarlyClose(d) \in Times \cup {None} /\ (EarlyClose(d) # None => Fits(EarlyClose(d), ex))
  BY DEF Schedule, Table, EarlyClose, Listed
<1>6. /\ CloseOf(d) \in Times
      /\ CloseOf(d) = ex.close \/ Fits(CloseOf(d), ex)
  BY <1>2, <1>5 DEF CloseOf
<1>7. /\ ex.open < CloseOf(d) /\ CloseOf(d) <= ex.close
      /\ ex.lunch # None => CloseOf(d) <= ex.lunch[1] \/ ex.lunch[2] < CloseOf(d)
  <2>1. CASE CloseOf(d) = ex.close
    BY <1>1, <1>2, <1>3, <2>1 DEF InOrder
  <2>2. CASE Fits(CloseOf(d), ex)
    BY <2>2 DEF Fits
  <2> QED
    BY <1>6, <2>1, <2>2
<1>8. ex.pre # None => /\ ex.pre[1] \in Times /\ ex.pre[2] \in Times
                       /\ ex.pre[1] < ex.pre[2] /\ ex.pre[2] <= ex.open
  BY <1>1, <1>2, <1>4 DEF InOrder
<1>9. ex.lunch # None => /\ ex.lunch[1] \in Times /\ ex.lunch[2] \in Times
                         /\ ex.open < ex.lunch[1] /\ ex.lunch[1] < ex.lunch[2]
                         /\ ex.lunch[2] < ex.close
  BY <1>1, <1>2, <1>4 DEF InOrder
<1>10. ex.after # None => /\ ex.after[1] \in Times /\ ex.after[2] \in Times
                          /\ ex.close <= ex.after[1] /\ ex.after[1] < ex.after[2]
  BY <1>1, <1>2, <1>4 DEF InOrder
<1>11. ex.after # None => CloseOf(d) <= ex.after[1] /\ (ex.lunch # None => ex.lunch[2] < ex.after[1])
  BY <1>2, <1>3, <1>6, <1>7, <1>9, <1>10
<1> QED
  BY <1>2, <1>6, <1>7, <1>8, <1>9, <1>10, <1>11 DEF Hours

\* Every boundary of a day is a time of the day, and its close is one of them.
LEMMA BoundariesOfDay ==
  ASSUME Schedule, ex # None, NEW d
  PROVE  /\ Boundaries(d) \subseteq Times
         /\ ex.open \in Boundaries(d) /\ CloseOf(d) \in Boundaries(d)
         /\ ex.pre # None => ex.pre[1] \in Boundaries(d) /\ ex.pre[2] \in Boundaries(d)
         /\ ex.lunch # None => ex.lunch[1] \in Boundaries(d) /\ ex.lunch[2] \in Boundaries(d)
         /\ ex.after # None => ex.after[1] \in Boundaries(d) /\ ex.after[2] \in Boundaries(d)
  BY HoursInOrder DEF Hours, Boundaries, Ends

\* Between two boundaries the session is the same.
LEMMA SteadySession ==
  ASSUME Schedule, ex # None, NEW d, NEW t \in Times, NEW u \in Times, t <= u,
         \A b \in Boundaries(d) : ~(t < b /\ b <= u)
  PROVE  Session(d, t) = Session(d, u)
<1>1. Hours(d)
  BY HoursInOrder
<1>2. t \in Int /\ u \in Int /\ \A v \in Times : v \in Int
  BY CalendarAssumption DEF Times
<1>3. \A b \in Boundaries(d) : (b <= t) <=> (b <= u)
  <2>1. Boundaries(d) \subseteq Times
    BY BoundariesOfDay
  <2>2. ASSUME NEW b \in Boundaries(d) PROVE (b <= t) <=> (b <= u)
    <3>1. b \in Int /\ ~(t < b /\ b <= u)
      BY <1>2, <2>1
    <3> QED
      BY <1>2, <3>1
  <2> QED
    BY <2>2
<1>4. \A span \in {ex.pre, ex.lunch, ex.after} :
         span # None => /\ span[1] \in Int /\ span[2] \in Int
                        /\ (span[1] <= t) <=> (span[1] <= u)
                        /\ (span[2] <= t) <=> (span[2] <= u)
  <2>1. CASE ex.pre # None
    BY <1>1, <1>2, <1>3, <2>1, BoundariesOfDay DEF Hours
  <2> QED
    BY <1>1, <1>2, <1>3, BoundariesOfDay DEF Hours
<1>5. \A span \in {ex.pre, ex.lunch, ex.after} : In(span, t) <=> In(span, u)
  BY <1>2, <1>4 DEF In
<1>6. (ex.open <= t /\ t < CloseOf(d)) <=> (ex.open <= u /\ u < CloseOf(d))
  <2>1. (ex.open <= t) <=> (ex.open <= u)
    BY <1>3, BoundariesOfDay
  <2>2. (CloseOf(d) <= t) <=> (CloseOf(d) <= u)
    BY <1>3, BoundariesOfDay
  <2>3. CloseOf(d) \in Int
    BY <1>1, <1>2 DEF Hours
  <2> QED
    BY <1>2, <2>1, <2>2, <2>3
<1> QED
  BY <1>5, <1>6 DEF Session

\* The exchange is open from its open to its close, but for the lunch break.
LEMMA OpenSession ==
  ASSUME Schedule, ex # None, NEW d, NEW t \in Times
  PROVE  /\ Session(d, t) \in {"open", "early_close"}
              <=> ex.open <= t /\ t < CloseOf(d) /\ ~In(ex.lunch, t)
         /\ Session(d, t) = "lunch_break" <=> In(ex.lunch, t)
<1>1. Hours(d)
  BY HoursInOrder
<1>2. t \in Int /\ \A v \in Times : v \in Int
  BY CalendarAssumption DEF Times
<1>3. In(ex.pre, t) => ~(ex.open <= t) /\ ~In(ex.lunch, t)
  <2>1. SUFFICES ASSUME In(ex.pre, t)
                 PROVE  ~(ex.open <= t) /\ ~In(ex.lunch, t)
    OBVIOUS
  <2>2. ex.pre # None /\ t < ex.pre[2]
    BY <2>1 DEF In
  <2>3. ex.pre[2] \in Int /\ ex.open \in Int /\ ex.pre[2] <= ex.open
    BY <1>1, <1>2, <2>2 DEF Hours
  <2>4. t < ex.open
    BY <1>2, <2>2, <2>3
  <2>5. In(ex.lunch, t) => ex.lunch[1] \in Int /\ ex.open < ex.lunch[1] /\ ex.lunch[1] <= t
    BY <1>1, <1>2 DEF Hours, In
  <2> QED
    BY <1>2, <2>3, <2>4, <2>5
<1> QED
  BY <1>3 DEF Session

\* At each boundary the session changes.
LEMMA SessionChanges ==
  ASSUME Schedule, ex # None, NEW d, NEW b \in Boundaries(d), b # 0
  PROVE  b - 1 \in Times /\ Session(d, b) # Session(d, b - 1)
<1>1. Hours(d)
  BY HoursInOrder
<1>2. \A v \in Times : v \in Int
  BY CalendarAssumption DEF Times
<1>3. b \in Times /\ b - 1 \in Times /\ b \in Int
  BY CalendarAssumption, BoundariesOfDay DEF Times
<1>4. ASSUME NEW span, span # None, span[1] \in Int, span[2] \in Int, span[1] < span[2]
      PROVE  /\ b = span[1] => In(span, b) /\ ~In(span, b - 1)
             /\ b = span[2] => ~In(span, b) /\ In(span, b - 1)
  BY <1>3, <1>4 DEF In
<1>5. CASE ex.pre # None /\ (b = ex.pre[1] \/ b = ex.pre[2])
  <2>1. ex.pre[1] \in Int /\ ex.pre[2] \in Int /\ ex.pre[1] < ex.pre[2]
    BY <1>1, <1>2, <1>5 DEF Hours
  <2>2. \/ In(ex.pre, b) /\ ~In(ex.pre, b - 1)
        \/ ~In(ex.pre, b) /\ In(ex.pre, b - 1)
    BY <1>4, <1>5, <2>1
  <2> QED
    BY <1>3, <2>2 DEF Session
<1>6. CASE ex.lunch # None /\ (b = ex.lunch[1] \/ b = ex.lunch[2])
  <2>1. ex.lunch[1] \in Int /\ ex.lunch[2] \in Int /\ ex.lunch[1] < ex.lunch[2]
    BY <1>1, <1>2, <1>6 DEF Hours
  <2>2. \/ In(ex.lunch, b) /\ ~In(ex.lunch, b - 1)
        \/ ~In(ex.lunch, b) /\ In(ex.lunch, b - 1)
    BY <1>4, <1>6, <2>1
  <2> QED
    BY <1>3, <2>2, OpenSession
<1>7. CASE b = ex.open \/ b = CloseOf(d)
  <2>1. ex.open \in Int /\ CloseOf(d) \in Int /\ ex.open < CloseOf(d)
    BY <1>1, <1>2 DEF Hours
  <2>2. ex.lunch # None =>
          /\ ex.lunch[1] \in Int /\ ex.lunch[2] \in Int
          /\ ex.open < ex.lunch[1] /\ ex.lunch[1] < ex.lunch[2]
          /\ CloseOf(d) <= ex.lunch[1] \/ ex.lunch[2] < CloseOf(d)
    BY <1>1, <1>2 DEF Hours
  <2>3. CASE b = ex.open
    <3>1. ~In(ex.lunch, b)
      BY <2>1, <2>2, <2>3 DEF In
    <3>2. Session(d, b) \in {"open", "early_close"}
      BY <1>3, <2>1, <2>3, <3>1, OpenSession
    <3>3. ~(ex.open <= b - 1)
      BY <2>1, <2>3
    <3>4. ~(Session(d, b - 1) \in {"open", "early_close"})
      BY <1>3, <3>3, OpenSession
    <3> QED
      BY <1>3, <3>2, <3>4
  <2>4. CASE b = CloseOf(d)
    <3>1. ~In(ex.lunch, b - 1)
      BY <2>1, <2>2, <2>4 DEF In
    <3>2. ex.open <= b - 1 /\ b - 1 < CloseOf(d) /\ ~(b < CloseOf(d))
      BY <2>1, <2>4
    <3>3. Session(d, b - 1) \in {"open", "early_close"}
      BY <1>3, <3>1, <3>2, OpenSession
    <3>4. ~(Session(d, b) \in {"open", "early_close"})
      BY <1>3, <3>2, OpenSession
    <3> QED
      BY <1>3, <3>3, <3>4
  <2> QED
    BY <1>7, <2>3, <2>4
<1>8. CASE ex.after # None /\ (b = ex.after[1] \/ b = ex.after[2])
  <2>1. /\ ex.after[1] \in Int /\ ex.after[2] \in Int /\ ex.after[1] < ex.after[2]
        /\ ex.open \in Int /\ CloseOf(d) \in Int
        /\ ex.open < CloseOf(d) /\ CloseOf(d) <= ex.after[1]
    BY <1>1, <1>2, <1>8 DEF Hours
  <2>2. ASSUME NEW v \in Int, In(ex.after, v)
        PROVE  ~(v < CloseOf(d)) /\ ~In(ex.lunch, v) /\ ~In(ex.pre, v)
    <3>1. ex.after[1] <= v
      BY <2>2 DEF In
    <3>2. ~(v < CloseOf(d)) /\ ~(v < ex.open)
      BY <2>1, <2>2, <3>1
    <3>3. ex.lunch # None => ex.lunch[2] \in Int /\ ex.lunch[2] < ex.after[1]
      BY <1>1, <1>2, <1>8 DEF Hours
    <3>4. ~In(ex.lunch, v)
      BY <2>1, <2>2, <3>1, <3>3 DEF In
    <3>5. ex.pre # None => ex.pre[2] \in Int /\ ex.pre[2] <= ex.open
      BY <1>1, <1>2 DEF Hours
    <3>6. ~In(ex.pre, v)
      BY <2>1, <2>2, <3>2, <3>5 DEF In
    <3> QED
      BY <3>2, <3>4, <3>6
  <2>3. ASSUME NEW v \in Int, In(ex.after, v)
        PROVE  Session(d, v) = "after"
    BY <2>2, <2>3 DEF Session
  <2>4. ASSUME NEW v, ~In(ex.after, v)
        PROVE  Session(d, v) # "after"
    BY <2>4 DEF Session
  <2>5. \/ In(ex.after, b) /\ ~In(ex.after, b - 1)
        \/ ~In(ex.after, b) /\ In(ex.after, b - 1)
    BY <1>4, <1>8, <2>1
  <2> QED
    BY <1>3, <2>3, <2>4, <2>5
<1> QED
  BY <1>5, <1>6, <1>7, <1>8 DEF Boundaries, Ends

\* After the last boundary of a day, and at its very end, there is no session.
LEMMA ClosedAfter ==
  ASSUME Schedule, ex # None, NEW d, NEW t \in Times,
         (\A b \in Boundaries(d) : b <= t) \/ t = DayLength - 1
  PROVE  Session(d, t) = "closed"
<1>1. Hours(d)
  BY HoursInOrder
<1>2. \A v \in Times : v \in Int /\ v <= DayLength - 1
  BY CalendarAssumption DEF Times
<1>3. \A b \in Boundaries(d) : b \in Int /\ b <= t
  BY <1>2, BoundariesOfDay
<1>4. t \in Int /\ CloseOf(d) \in Int /\ CloseOf(d) <= t
  BY <1>2, <1>3, BoundariesOfDay
<1>5. \A span \in {ex.pre, ex.lunch, ex.after} :
         span # None => span[2] \in Int /\ span[2] <= t
  BY <1>3, BoundariesOfDay
<1>6. \A span \in {ex.pre, ex.lunch, ex.after} : ~In(span, t)
  BY <1>4, <1>5 DEF In
<1>7. ~(t < CloseOf(d))
  BY <1>4
<1> QED
  BY <1>6, <1>7 DEF Session

\* Before the first session of a day the exchange is closed, and then it is not.
LEMMA ClosedBefore ==
  ASSUME Schedule, ex # None, NEW d, NEW t \in Times
  PROVE  /\ OpenOfFirst(d) \in Times
         /\ t < OpenOfFirst(d) => Session(d, t) = "closed"
         /\ Session(d, OpenOfFirst(d)) # "closed"
<1>1. Hours(d)
  BY HoursInOrder
<1>2. t \in Int /\ \A v \in Times : v \in Int
  BY CalendarAssumption DEF Times
<1>3. /\ OpenOfFirst(d) \in Times /\ OpenOfFirst(d) \in Int
      /\ ex.open \in Int /\ OpenOfFirst(d) <= ex.open
      /\ CloseOf(d) \in Int /\ ex.open < CloseOf(d)
  <2>1. /\ ex.open \in Times /\ ex.open \in Int /\ CloseOf(d) \in Int
        /\ ex.open < CloseOf(d)
    BY <1>1, <1>2 DEF Hours
  <2>2. CASE ex.pre = None
    BY <2>1, <2>2 DEF OpenOfFirst
  <2>3. CASE ex.pre # None
    <3>1. /\ ex.pre[1] \in Times /\ ex.pre[1] \in Int /\ ex.pre[2] \in Int
          /\ ex.pre[1] < ex.pre[2] /\ ex.pre[2] <= ex.open
      BY <1>1, <1>2, <2>3 DEF Hours
    <3>2. OpenOfFirst(d) = ex.pre[1]
      BY <2>3 DEF OpenOfFirst
    <3> QED
      BY <2>1, <3>1, <3>2
  <2> QED
    BY <2>2, <2>3
<1>4. ASSUME t < OpenOfFirst(d)
      PROVE  Session(d, t) = "closed"
  <2>1. ~In(ex.pre, t)
    BY <1>2, <1>3, <1>4 DEF OpenOfFirst, In
  <2>2. ~In(ex.lunch, t)
    <3>1. ex.lunch # None => ex.lunch[1] \in Int /\ ex.open < ex.lunch[1]
      BY <1>1, <1>2 DEF Hours
    <3> QED
      BY <1>2, <1>3, <1>4, <3>1 DEF In
  <2>3. ~In(ex.after, t)
    <3>1. ex.after # None => ex.after[1] \in Int /\ CloseOf(d) <= ex.after[1]
      BY <1>1, <1>2 DEF Hours
    <3> QED
      BY <1>2, <1>3, <1>4, <3>1 DEF In
  <2>4. ~(ex.open <= t)
    BY <1>2, <1>3, <1>4
  <2> QED
    BY <2>1, <2>2, <2>3, <2>4 DEF Session
<1>5. Session(d, OpenOfFirst(d)) # "closed"
  <2>1. CASE ex.pre # None
    <3>1. ex.pre[1] \in Int /\ ex.pre[2] \in Int /\ ex.pre[1] < ex.pre[2]
      BY <1>1, <1>2, <2>1 DEF Hours
    <3>2. In(ex.pre, OpenOfFirst(d))
      BY <2>1, <3>1 DEF OpenOfFirst, In
    <3> QED
      BY <3>2 DEF Session
  <2>2. CASE ex.pre = None
    <3>1. OpenOfFirst(d) = ex.open
      BY <2>2 DEF OpenOfFirst
    <3>2. ex.open <= ex.open /\ ex.open < CloseOf(d)
      BY <1>3
    <3> QED
      BY <3>1, <3>2 DEF Session
  <2> QED
    BY <2>1, <2>2
<1> QED
  BY <1>3, <1>4, <1>5

-------------------------------------------------------------------------------
\* The countdown.

\* While the offset stays the local clock moves with the clock.
LEMMA LocalGoesOn ==
  ASSUME offset \in Offsets, NEW t \in Int, NEW u \in Int, NEW v \in Int,
         t <= u, u <= v, OffsetAt(t) = OffsetAt(v)
  PROVE  Local(u) = Local(t) + (u - t)
<1>1. OffsetAt(u) = OffsetAt(t)
  BY Zone DEF OffsetAt
<1>2. OffsetAt(t) \in Int
  BY LocalType
<1> QED
  BY <1>1, <1>2 DEF Local

\* The next trading day is a trading day, and there is none before it.
LEMMA NextTradingDayIsNext ==
  ASSUME NEW day \in Int, NextTradingDay(day) # None
  PROVE  /\ NextTradingDay(day) \in Int /\ day < NextTradingDay(day)
         /\ ~NoTrading(NextTradingDay(day))
         /\ \A d \in Int : day < d /\ d < NextTradingDay(day) => NoTrading(d)
<1> DEFINE days == {d \in (day + 1)..(day + Ahead) : ~NoTrading(d)}
<1>1. days # {} /\ NextTradingDay(day) = Min(days)
  BY DEF NextTradingDay
<1>2. Ahead \in Int
  BY CalendarAssumption
<1>3. days \subseteq Int /\ \A d \in days : day + 1 <= d
  BY <1>2
<1>4. Min(days) \in days /\ \A d \in days : Min(days) <= d
  <2>1. day + 1 \in Int
    OBVIOUS
  <2> HIDE DEF days
  <2> QED
    BY <1>1, <1>3, <2>1, MinIsLeast
<1>5. Min(days) \in Int /\ day < Min(days) /\ Min(days) <= day + Ahead /\ ~NoTrading(Min(days))
  BY <1>2, <1>4
<1>6. ASSUME NEW d \in Int, day < d, d < Min(days) PROVE NoTrading(d)
  <2>1. ~(Min(days) <= d)
    BY <1>5, <1>6
  <2>2. d \notin days
    BY <1>4, <2>1
  <2>3. d \in (day + 1)..(day + Ahead)
    BY <1>2, <1>5, <1>6
  <2> QED
    BY <2>2, <2>3
<1> HIDE DEF days
<1> QED
  BY <1>1, <1>5, <1>6

\* The countdown ends at the first boundary left in the day, or else with the first
\* session of the next trading day.
LEMMA CountdownEnds ==
  ASSUME Schedule, NEW t \in Int, UntilChange(t) # None,
         NEW day, day = Day(Local(t)), NEW time, time = Time(Local(t))
  PROVE  /\ ex # None /\ day \in Int /\ time \in Times
         /\ \/ /\ ~NoTrading(day)
               /\ \E b \in Boundaries(day) :
                     /\ time < b /\ UntilChange(t) = b - time
                     /\ \A c \in Boundaries(day) : time < c => b <= c
            \/ /\ NoTrading(day) \/ \A b \in Boundaries(day) : b <= time
               /\ \E next \in Int :
                     /\ day < next /\ ~NoTrading(next)
                     /\ \A d \in Int : day < d /\ d < next => NoTrading(d)
                     /\ UntilChange(t) = (next - day) * DayLength - time + OpenOfFirst(next)
<1> DEFINE later == IF NoTrading(day) THEN {} ELSE {b \in Boundaries(day) : b > time}
           next == NextTradingDay(day)
<1>1. ex # None
  BY DEF UntilChange
<1>2. day \in Int /\ time \in Times /\ time \in Int
  BY CalendarAssumption, LocalType, Split DEF Schedule, Times
<1>3. UntilChange(t) = IF later # {} THEN Min(later) - time
                       ELSE IF next = None THEN None
                       ELSE (next - day) * DayLength - time + OpenOfFirst(next)
  BY <1>1 DEF UntilChange
<1>4. Boundaries(day) \subseteq Int
  BY <1>1, BoundariesOfDay, CalendarAssumption DEF Times
<1>5. CASE later # {}
  <2>1. ~NoTrading(day) /\ later = {b \in Boundaries(day) : b > time}
    BY <1>5
  <2>2. later \subseteq Int /\ \A b \in later : time <= b
    BY <1>2, <1>4, <2>1
  <2>3. Min(later) \in later /\ \A b \in later : Min(later) <= b
    <3> HIDE DEF later
    <3> QED
      BY <1>2, <1>5, <2>2, MinIsLeast
  <2>4. Min(later) \in Boundaries(day) /\ time < Min(later)
    BY <1>2, <1>4, <2>1, <2>3
  <2>5. \A c \in Boundaries(day) : time < c => Min(later) <= c
    BY <1>2, <1>4, <2>1, <2>3
  <2>6. UntilChange(t) = Min(later) - time
    BY <1>3, <1>5
  <2> HIDE DEF later
  <2> QED
    BY <1>1, <1>2, <2>1, <2>4, <2>5, <2>6
<1>6. CASE later = {}
  <2>1. NoTrading(day) \/ \A b \in Boundaries(day) : b <= time
    BY <1>2, <1>4, <1>6
  <2>2. next # None /\ UntilChange(t) = (next - day) * DayLength - time + OpenOfFirst(next)
    BY <1>3, <1>6
  <2> HIDE DEF later
  <2> QED
    BY <1>1, <1>2, <2>1, <2>2, NextTradingDayIsNext
<1> QED
  BY <1>5, <1>6

\* The countdown ends when the status changes, and not before.
LEMMA CountdownStep ==
  ASSUME Schedule, now \in Int
  PROVE  CountdownIsHonest
<1> DEFINE n == UntilChange(now)
           day == Day(Local(now))
           time == Time(Local(now))
           Honest == /\ n > 0
                     /\ \A u \in now..(now + n - 1) : Status(u) = Status(now)
                     /\ Status(now + n) # Status(now)
<1>0. SUFFICES ASSUME n # None, OffsetAt(now) = OffsetAt(now + n)
               PROVE  Honest
  BY DEF CountdownIsHonest
<1>1. /\ Local(now) \in Int /\ day \in Int /\ time \in Times /\ time \in Int /\ 0 <= time
      /\ time < DayLength /\ DayLength \in Int
      /\ Local(now) = day * DayLength + time
      /\ day * DayLength \in Int
  <2>1. Local(now) \in Int /\ DayLength \in Int
    BY CalendarAssumption, LocalType DEF Schedule
  <2>2. day \in Int /\ time \in Times /\ Local(now) = day * DayLength + time
    BY <2>1, Split
  <2> HIDE DEF day, time
  <2> QED
    BY <2>1, <2>2 DEF Times
<1>2. ex # None
  BY <1>0, CountdownEnds
<1>3. ASSUME NEW b \in Boundaries(day), ~NoTrading(day), time < b, n = b - time,
             \A c \in Boundaries(day) : time < c => b <= c
      PROVE  Honest
  <2>1. b \in Times /\ b \in Int /\ b < DayLength
    BY <1>1, <1>2, BoundariesOfDay DEF Times
  <2>2. ASSUME NEW k \in Int, 0 <= k, k <= n
        PROVE  Status(now + k) = Session(day, time + k) /\ time + k \in Times
    <3>1. Local(now + k) = Local(now) + k
      <4>1. n \in Int /\ now <= now + k /\ now + k <= now + n /\ now + k - now = k
        BY <1>1, <1>3, <2>1, <2>2
      <4> HIDE DEF n
      <4> QED
        BY <1>0, <2>2, <4>1, LocalGoesOn DEF Schedule
    <3>2. time + k \in Times
      BY <1>1, <1>3, <2>1, <2>2 DEF Times
    <3>3. Day(Local(now + k)) = day /\ Time(Local(now + k)) = time + k
      BY <1>1, <2>2, <3>1, <3>2, WithinDay
    <3> QED
      BY <1>2, <1>3, <3>2, <3>3, StatusOfDay
  <2> HIDE DEF n, day, time
  <2>3. n \in Int /\ n > 0 /\ time + n = b /\ time + (n - 1) = b - 1 /\ time + 0 = time /\ now + 0 = now
    BY <1>1, <1>3, <2>1
  <2>4. Status(now) = Session(day, time)
    BY <2>2, <2>3
  <2>5. ASSUME NEW k \in Int, 0 <= k, k <= n - 1
        PROVE  Status(now + k) = Session(day, time)
    <3>1. Status(now + k) = Session(day, time + k) /\ time + k \in Times
      BY <2>2, <2>3, <2>5
    <3>2. time + k \in Int /\ time <= time + k /\ time + k < b
      BY <1>1, <2>1, <2>3, <2>5
    <3>3. \A c \in Boundaries(day) : c \in Int
      BY <1>2, BoundariesOfDay, CalendarAssumption DEF Times
    <3>4. \A c \in Boundaries(day) : ~(time < c /\ c <= time + k)
      BY <1>1, <1>3, <2>1, <3>2, <3>3
    <3>5. Session(day, time) = Session(day, time + k)
      BY <1>1, <1>2, <3>1, <3>2, <3>4, SteadySession
    <3> QED
      BY <3>1, <3>5
  <2>6. ASSUME NEW u \in now..(now + n - 1) PROVE Status(u) = Status(now)
    <3>1. u - now \in Int /\ 0 <= u - now /\ u - now <= n - 1 /\ now + (u - now) = u
      BY <2>3
    <3> QED
      BY <2>4, <2>5, <3>1
  <2>7. Status(now + n) # Status(now)
    <3>1. Status(now + n) = Session(day, b)
      BY <2>2, <2>3
    <3>2. Status(now + (n - 1)) = Session(day, b - 1) /\ Status(now + (n - 1)) = Session(day, time)
      BY <2>2, <2>3, <2>5
    <3>3. b # 0
      BY <1>1, <1>3, <2>1
    <3>4. Session(day, b) # Session(day, b - 1)
      BY <1>2, <3>3, SessionChanges
    <3> QED
      BY <2>4, <3>1, <3>2, <3>4
  <2> QED
    BY <2>3, <2>6, <2>7
<1>4. ASSUME NEW next \in Int, NoTrading(day) \/ \A b \in Boundaries(day) : b <= time,
             day < next, ~NoTrading(next),
             \A d \in Int : day < d /\ d < next => NoTrading(d),
             n = (next - day) * DayLength - time + OpenOfFirst(next)
      PROVE  Honest
  <2>1. /\ OpenOfFirst(next) \in Times /\ OpenOfFirst(next) \in Int /\ 0 <= OpenOfFirst(next)
        /\ Session(next, OpenOfFirst(next)) # "closed"
    BY <1>1, <1>2, ClosedBefore DEF Times
  <2>2. /\ next * DayLength \in Int
        /\ (next - day) * DayLength = next * DayLength - day * DayLength
        /\ day * DayLength + DayLength <= next * DayLength
    <3>1. day * DayLength + DayLength <= next * DayLength
      BY <1>1, <1>4, Apart
    <3> QED
      BY <1>1, <3>1
  <2>3. n \in Int /\ n > 0 /\ Local(now) + n = next * DayLength + OpenOfFirst(next)
    <3> HIDE DEF day, time
    <3> QED
      BY <1>1, <1>4, <2>1, <2>2
  <2>4. ASSUME NEW k \in Int, 0 <= k, k <= n
        PROVE  Local(now + k) = Local(now) + k
    <3>1. now <= now + k /\ now + k <= now + n /\ now + k - now = k
      BY <2>3, <2>4
    <3> HIDE DEF n
    <3> QED
      BY <1>0, <2>3, <2>4, <3>1, LocalGoesOn DEF Schedule
  <2>5. Status(now + n) = Session(next, OpenOfFirst(next))
    <3>1. Local(now + n) = next * DayLength + OpenOfFirst(next)
      BY <2>3, <2>4
    <3>2. Day(Local(now + n)) = next /\ Time(Local(now + n)) = OpenOfFirst(next)
      BY <2>1, <3>1, OfDay
    <3> QED
      BY <1>2, <1>4, <3>2, StatusOfDay
  <2>6. ASSUME NEW k \in Int, 0 <= k, k < n
        PROVE  Status(now + k) = "closed"
    <3> DEFINE l == Local(now) + k
    <3>1. l \in Int /\ Local(now) <= l /\ l < next * DayLength + OpenOfFirst(next)
      BY <1>1, <2>3, <2>6
    <3>2. /\ Day(l) \in Int /\ Time(l) \in Times /\ Time(l) \in Int /\ 0 <= Time(l)
          /\ l = Day(l) * DayLength + Time(l) /\ Day(l) * DayLength \in Int
      BY <1>1, <3>1, Split DEF Times
    <3>3. Status(now + k) = IF NoTrading(Day(l)) THEN "closed" ELSE Session(Day(l), Time(l))
      BY <1>2, <2>3, <2>4, <2>6, StatusOfDay
    <3>4. day <= Day(l)
      BY <1>1, <3>1, DaysInOrder
    <3> HIDE DEF l, n
    <3>5. CASE Day(l) = day
      <4>1. time <= Time(l)
        <5> HIDE DEF day, time
        <5> QED
          BY <1>1, <3>1, <3>2, <3>5
      <4>2. CASE NoTrading(day)
        BY <3>3, <3>5, <4>2
      <4>3. CASE ~NoTrading(day)
        <5>1. \A b \in Boundaries(day) : b \in Int /\ b <= time
          BY <1>2, <1>4, <4>3, BoundariesOfDay, CalendarAssumption DEF Times
        <5>2. \A b \in Boundaries(day) : b <= Time(l)
          <6> HIDE DEF day, time
          <6> QED
            BY <1>1, <3>2, <4>1, <5>1
        <5>3. Session(day, Time(l)) = "closed"
          BY <1>2, <3>2, <5>2, ClosedAfter
        <5> QED
          BY <3>3, <3>5, <5>3
      <4> QED
        BY <4>2, <4>3
    <3>6. CASE day < Day(l) /\ Day(l) < next
      BY <1>4, <3>2, <3>3, <3>6
    <3>7. CASE Day(l) = next
      <4>1. Time(l) < OpenOfFirst(next)
        BY <2>1, <2>2, <3>1, <3>2, <3>7
      <4>2. Session(next, Time(l)) = "closed"
        BY <1>2, <3>2, <4>1, ClosedBefore
      <4> QED
        BY <3>3, <3>7, <4>2
    <3>8. ~(next < Day(l))
      <4>1. SUFFICES ASSUME next < Day(l) PROVE FALSE
        OBVIOUS
      <4>2. next * DayLength + DayLength <= Day(l) * DayLength
        BY <3>2, <4>1, Apart
      <4>3. OpenOfFirst(next) < DayLength
        BY <1>1, <2>1 DEF Times
      <4> QED
        BY <1>1, <2>1, <2>2, <3>1, <3>2, <4>2, <4>3
    <3> QED
      <4> HIDE DEF day
      <4> QED
        BY <1>1, <3>2, <3>4, <3>5, <3>6, <3>7, <3>8
  <2> HIDE DEF n
  <2>7. Status(now) = "closed"
    <3>1. now + 0 = now
      OBVIOUS
    <3> QED
      BY <2>3, <2>6, <3>1
  <2>8. ASSUME NEW u \in now..(now + n - 1) PROVE Status(u) = Status(now)
    <3>1. u - now \in Int /\ 0 <= u - now /\ u - now < n /\ now + (u - now) = u
      BY <2>3
    <3> QED
      BY <2>6, <2>7, <3>1
  <2> QED
    BY <2>1, <2>3, <2>5, <2>7, <2>8
<1> HIDE DEF Honest
<1> QED
  BY <1>0, <1>3, <1>4, CountdownEnds

-------------------------------------------------------------------------------
\* Openings and closes.

LEMMA IsOpenAt ==
  ASSUME Schedule, NEW t \in Int
  PROVE  /\ Day(Local(t)) \in Int /\ Time(Local(t)) \in Times
         /\ Time(Local(t)) \in Int /\ 0 <= Time(Local(t)) /\ Time(Local(t)) <= DayLength - 1
         /\ IsOpen(t) <=> /\ ex # None /\ ~NoTrading(Day(Local(t)))
                          /\ ex.open <= Time(Local(t))
                          /\ Time(Local(t)) < CloseOf(Day(Local(t)))
                          /\ ~In(ex.lunch, Time(Local(t)))
         /\ Status(t) = "lunch_break" <=> /\ ex # None /\ ~NoTrading(Day(Local(t)))
                                          /\ In(ex.lunch, Time(Local(t)))
<1>1. Day(Local(t)) \in Int /\ Time(Local(t)) \in Times
  BY LocalType, Split DEF Schedule
<1>2. /\ Time(Local(t)) \in Int /\ 0 <= Time(Local(t)) /\ Time(Local(t)) <= DayLength - 1
  BY <1>1, CalendarAssumption DEF Times
<1>3. CASE ex = None \/ NoTrading(Day(Local(t)))
  <2>1. Status(t) = "closed"
    BY <1>3, StatusOfDay
  <2> QED
    BY <1>1, <1>2, <1>3, <2>1 DEF IsOpen
<1>4. CASE ex # None /\ ~NoTrading(Day(Local(t)))
  <2>1. Status(t) = Session(Day(Local(t)), Time(Local(t)))
    BY <1>4, StatusOfDay
  <2> QED
    BY <1>1, <1>2, <1>4, <2>1, OpenSession DEF IsOpen
<1> QED
  BY <1>3, <1>4

\* A unit before a time of a day outside weekends, within the day.
LEMMA UnitBefore ==
  ASSUME Schedule, NEW t \in Int,
         \/ ~NoTrading(Day(Local(t))) /\ 0 < Time(Local(t))
         \/ ~NoTrading(Day(Local(t - 1))) /\ Time(Local(t - 1)) < DayLength - 1
  PROVE  /\ Day(Local(t - 1)) = Day(Local(t))
         /\ Time(Local(t - 1)) = Time(Local(t)) - 1
<1>1. /\ Local(t) \in Int /\ Local(t - 1) \in Int
  BY LocalType DEF Schedule
<1>2. Local(t) = Local(t - 1) + 1
  BY Neighbours DEF Schedule, NoTrading
<1>3. /\ Time(Local(t)) \in Int /\ 0 <= Time(Local(t)) /\ Time(Local(t)) <= DayLength - 1
      /\ Time(Local(t - 1)) \in Int /\ 0 <= Time(Local(t - 1))
      /\ Time(Local(t - 1)) <= DayLength - 1 /\ DayLength \in Int
  <2>1. t - 1 \in Int
    OBVIOUS
  <2>2. /\ Time(Local(t - 1)) \in Int /\ 0 <= Time(Local(t - 1))
        /\ Time(Local(t - 1)) <= DayLength - 1
    BY <2>1, IsOpenAt
  <2>3. DayLength \in Int
    BY CalendarAssumption
  <2> QED
    BY <2>2, <2>3, IsOpenAt
<1>4. CASE 0 < Time(Local(t))
  <2>1. Time(Local(t)) + (-1) \in Times
    BY <1>3, <1>4 DEF Times
  <2>2. Local(t - 1) = Local(t) + (-1)
    BY <1>1, <1>2
  <2>3. Day(Local(t) + (-1)) = Day(Local(t)) /\ Time(Local(t) + (-1)) = Time(Local(t)) + (-1)
    BY <1>1, <2>1, WithinDay
  <2> QED
    BY <1>3, <2>2, <2>3
<1>5. CASE Time(Local(t - 1)) < DayLength - 1
  <2>1. Time(Local(t - 1)) + 1 \in Times
    BY <1>3, <1>5 DEF Times
  <2>2. Day(Local(t - 1) + 1) = Day(Local(t - 1)) /\ Time(Local(t - 1) + 1) = Time(Local(t - 1)) + 1
    BY <1>1, <2>1, WithinDay
  <2> QED
    BY <1>2, <1>3, <2>2
<1> QED
  BY <1>4, <1>5

\* A unit before a day outside weekends begins, the day before ends.
LEMMA UnitBeforeDay ==
  ASSUME Schedule, NEW t \in Int, ~NoTrading(Day(Local(t))), Time(Local(t)) = 0
  PROVE  Time(Local(t - 1)) = DayLength - 1
<1>1. /\ Local(t) \in Int /\ Local(t - 1) \in Int
  BY LocalType DEF Schedule
<1>2. Local(t) = Local(t - 1) + 1
  BY Neighbours DEF Schedule, NoTrading
<1>3. /\ Time(Local(t - 1)) \in Int /\ 0 <= Time(Local(t - 1))
      /\ Time(Local(t - 1)) <= DayLength - 1 /\ DayLength \in Int
  <2>1. t - 1 \in Int
    OBVIOUS
  <2>2. /\ Time(Local(t - 1)) \in Int /\ 0 <= Time(Local(t - 1))
        /\ Time(Local(t - 1)) <= DayLength - 1
    BY <2>1, IsOpenAt
  <2>3. DayLength \in Int
    BY CalendarAssumption
  <2> QED
    BY <2>2, <2>3, IsOpenAt
<1>4. SUFFICES ASSUME Time(Local(t - 1)) < DayLength - 1 PROVE FALSE
  BY <1>3
<1>5. Time(Local(t - 1)) + 1 \in Times
  BY <1>3, <1>4 DEF Times
<1>6. Time(Local(t - 1) + 1) = Time(Local(t - 1)) + 1
  BY <1>1, <1>5, WithinDay
<1> QED
  BY <1>2, <1>3, <1>6

\* calendar_status() shows an opening at the open of each trading day and at no
\* other time.
LEMMA OpensAtOpen ==
  ASSUME Schedule, ex # None, NEW t \in Int
  PROVE  Opens(t) <=> ~NoTrading(Day(Local(t))) /\ Time(Local(t)) = ex.open
<1> DEFINE d == Day(Local(t))
           tm == Time(Local(t))
<1>1. /\ d \in Int /\ tm \in Int /\ 0 <= tm /\ tm <= DayLength - 1 /\ DayLength \in Int
  BY IsOpenAt, CalendarAssumption
<1>2. /\ Time(Local(t - 1)) \in Times
  BY IsOpenAt
<1>3. /\ ex.open \in Int /\ 0 <= ex.open /\ CloseOf(d) \in Int /\ ex.open < CloseOf(d)
      /\ ex.lunch # None => ex.lunch[1] \in Int /\ ex.lunch[2] \in Int /\ ex.open < ex.lunch[1]
  <2>1. Hours(d)
    BY HoursInOrder
  <2>2. \A v \in Times : v \in Int /\ 0 <= v
    BY CalendarAssumption DEF Times
  <2> QED
    BY <2>1, <2>2 DEF Hours
<1>4. ASSUME ~NoTrading(d), tm = ex.open PROVE Opens(t)
  <2>1. ~In(ex.lunch, tm)
    BY <1>1, <1>3, <1>4 DEF In
  <2>2. IsOpen(t)
    <3>1. ex.open <= tm /\ tm < CloseOf(d)
      BY <1>1, <1>3, <1>4
    <3> QED
      BY <1>4, <2>1, <3>1, IsOpenAt
  <2>3. CASE 0 < tm
    <3>1. Day(Local(t - 1)) = d /\ Time(Local(t - 1)) = tm - 1
      BY <1>4, <2>3, UnitBefore
    <3>2. ~(ex.open <= tm - 1) /\ ~In(ex.lunch, tm - 1)
      BY <1>1, <1>3, <1>4 DEF In
    <3> QED
      BY <2>2, <3>1, <3>2, IsOpenAt DEF Opens
  <2>4. CASE tm = 0
    <3>1. Time(Local(t - 1)) = DayLength - 1
      BY <1>4, <2>4, UnitBeforeDay
    <3>2. Status(t - 1) = "closed"
      <4>1. Session(Day(Local(t - 1)), Time(Local(t - 1))) = "closed"
        BY <1>2, <3>1, ClosedAfter
      <4> QED
        BY <4>1, StatusOfDay
    <3> QED
      BY <2>2, <3>2 DEF Opens, IsOpen
  <2> QED
    BY <1>1, <2>3, <2>4
<1>5. ASSUME Opens(t) PROVE ~NoTrading(d) /\ tm = ex.open
  <2>1. ~NoTrading(d) /\ ex.open <= tm /\ tm < CloseOf(d)
    BY <1>5, IsOpenAt DEF Opens
  <2>2. SUFFICES ASSUME ex.open < tm PROVE FALSE
    BY <1>1, <1>3, <2>1
  <2>3. Day(Local(t - 1)) = d /\ Time(Local(t - 1)) = tm - 1
    BY <1>1, <1>3, <2>1, <2>2, UnitBefore
  <2>4. ex.open <= tm - 1 /\ tm - 1 < CloseOf(d)
    BY <1>1, <1>3, <2>1, <2>2
  <2>5. IsOpen(t - 1) \/ Status(t - 1) = "lunch_break"
    BY <2>1, <2>3, <2>4, IsOpenAt
  <2> QED
    BY <1>5, <2>5 DEF Opens
<1> QED
  BY <1>4, <1>5

\* It shows a close at the close of each trading day, the early one if there is
\* one, and at no other time but when a lunch break begins.
LEMMA ClosesAtClose ==
  ASSUME Schedule, ex # None, NEW t \in Int
  PROVE  /\ ~NoTrading(Day(Local(t))) /\ Time(Local(t)) = CloseOf(Day(Local(t)))
              => Closes(t)
         /\ Closes(t) /\ Status(t) # "lunch_break"
              => ~NoTrading(Day(Local(t))) /\ Time(Local(t)) = CloseOf(Day(Local(t)))
<1> DEFINE d == Day(Local(t))
           tm == Time(Local(t))
<1>1. /\ d \in Int /\ tm \in Int /\ 0 <= tm /\ tm <= DayLength - 1 /\ DayLength \in Int
      /\ Day(Local(t - 1)) \in Int
      /\ Time(Local(t - 1)) \in Int /\ Time(Local(t - 1)) <= DayLength - 1
  BY IsOpenAt, CalendarAssumption
<1>2. ASSUME NEW c \in Int
      PROVE  /\ ex.open \in Int /\ 0 <= ex.open /\ CloseOf(c) \in Int /\ ex.open < CloseOf(c)
             /\ CloseOf(c) <= DayLength - 1
             /\ ex.lunch # None => /\ ex.lunch[1] \in Int /\ ex.lunch[2] \in Int
                                   /\ CloseOf(c) <= ex.lunch[1] \/ ex.lunch[2] < CloseOf(c)
  <2>1. Hours(c)
    BY HoursInOrder
  <2>2. \A v \in Times : v \in Int /\ 0 <= v /\ v <= DayLength - 1
    BY CalendarAssumption DEF Times
  <2>3. /\ ex.open \in Int /\ 0 <= ex.open /\ CloseOf(c) \in Int /\ ex.open < CloseOf(c)
        /\ CloseOf(c) <= DayLength - 1
    BY <2>1, <2>2 DEF Hours
  <2> QED
    BY <2>1, <2>2, <2>3 DEF Hours
<1>3. ASSUME ~NoTrading(d), tm = CloseOf(d) PROVE Closes(t)
  <2>1. 0 < tm /\ ex.open <= tm - 1 /\ tm - 1 < CloseOf(d) /\ ~(tm < CloseOf(d))
    BY <1>1, <1>2, <1>3
  <2>2. ~In(ex.lunch, tm - 1)
    BY <1>1, <1>2, <1>3 DEF In
  <2>3. Day(Local(t - 1)) = d /\ Time(Local(t - 1)) = tm - 1
    BY <1>3, <2>1, UnitBefore
  <2>4. IsOpen(t - 1)
    BY <1>3, <2>1, <2>2, <2>3, IsOpenAt
  <2>5. ~IsOpen(t)
    BY <2>1, IsOpenAt
  <2> QED
    BY <2>4, <2>5 DEF Closes
<1>4. ASSUME Closes(t), Status(t) # "lunch_break"
      PROVE  ~NoTrading(d) /\ tm = CloseOf(d)
  <2> DEFINE c == Day(Local(t - 1))
  <2>1. /\ ~NoTrading(c) /\ ex.open <= Time(Local(t - 1)) /\ Time(Local(t - 1)) < CloseOf(c)
    BY <1>4, IsOpenAt DEF Closes
  <2>2. Time(Local(t - 1)) < DayLength - 1
    BY <1>1, <1>2, <2>1
  <2>3. c = d /\ Time(Local(t - 1)) = tm - 1
    BY <2>1, <2>2, UnitBefore
  <2>4. ~NoTrading(d) /\ ex.open <= tm /\ tm - 1 < CloseOf(d)
    BY <1>1, <1>2, <2>1, <2>3
  <2>5. ~(tm < CloseOf(d))
    BY <1>4, <2>4, IsOpenAt DEF Closes
  <2> QED
    BY <1>1, <1>2, <2>4, <2>5
<1> QED
  BY <1>3, <1>4

-------------------------------------------------------------------------------
\* What the two commands wait for.

LEMMA TargetOfDay ==
  ASSUME Schedule, ex # None, NEW wantOpen \in BOOLEAN, NEW d
  PROVE  Target(wantOpen, d) \in Times /\ Target(wantOpen, d) \in Int
<1>1. ex.open \in Times /\ CloseOf(d) \in Times
  BY HoursInOrder DEF Hours
<1> QED
  BY <1>1, CalendarAssumption DEF Target, OpenOf, Times

\* The day of the boundary: the first one from today on at which it is still to come.
LEMMA BoundaryDay ==
  ASSUME Schedule, NEW wantOpen \in BOOLEAN, NEW t \in Int, NextBoundary(wantOpen, t) # None,
         NEW day, day = Day(Local(t)), NEW time, time = Time(Local(t))
  PROVE  /\ ex # None
         /\ \E d \in Int :
               /\ day <= d /\ ~NoTrading(d)
               /\ d = day => time < Target(wantOpen, d)
               /\ \A c \in Int : day <= c /\ c < d /\ ~NoTrading(c)
                                    => c = day /\ ~(time < Target(wantOpen, c))
               /\ NextBoundary(wantOpen, t) = LocalToUtc(d, Target(wantOpen, d))
<1> DEFINE days == {d \in day..(day + Ahead) :
                      ~NoTrading(d) /\ (d = day => Target(wantOpen, d) > time)}
<1>1. /\ ex # None /\ days # {}
      /\ NextBoundary(wantOpen, t) = LocalToUtc(Min(days), Target(wantOpen, Min(days)))
  BY DEF NextBoundary
<1>2. day \in Int /\ time \in Int /\ Ahead \in Int
  BY CalendarAssumption, IsOpenAt
<1>3. days \subseteq Int /\ \A d \in days : day <= d
  BY <1>2
<1>4. Min(days) \in days /\ \A d \in days : Min(days) <= d
  <2> HIDE DEF days
  <2> QED
    BY <1>1, <1>2, <1>3, MinIsLeast
<1>5. /\ Min(days) \in Int /\ day <= Min(days) /\ Min(days) <= day + Ahead
      /\ ~NoTrading(Min(days))
      /\ Min(days) = day => Target(wantOpen, Min(days)) > time
  BY <1>2, <1>4
<1>6. Min(days) = day => time < Target(wantOpen, Min(days))
  <2>1. Target(wantOpen, Min(days)) \in Int
    BY <1>1, TargetOfDay
  <2> HIDE DEF days
  <2> QED
    BY <1>2, <1>5, <2>1
<1>7. ASSUME NEW c \in Int, day <= c, c < Min(days), ~NoTrading(c)
      PROVE  c = day /\ ~(time < Target(wantOpen, c))
  <2>1. c \in day..(day + Ahead) /\ ~(Min(days) <= c)
    BY <1>2, <1>5, <1>7
  <2>2. c \notin days
    BY <1>4, <2>1
  <2>3. c = day /\ ~(Target(wantOpen, c) > time)
    BY <1>7, <2>1, <2>2
  <2>4. Target(wantOpen, c) \in Int
    BY <1>1, TargetOfDay
  <2> QED
    BY <1>2, <2>3, <2>4
<1> HIDE DEF days
<1> QED
  BY <1>1, <1>5, <1>6, <1>7

\* The boundary lies ahead, on a trading day at the time looked for, and no trading
\* day has that time before it.
LEMMA BoundaryAhead ==
  ASSUME Schedule, NEW wantOpen \in BOOLEAN, now \in Int, NextBoundary(wantOpen, now) # None,
         NEW t, t = NextBoundary(wantOpen, now)
  PROVE  /\ ex # None /\ t \in Int /\ t > now
         /\ ~NoTrading(Day(Local(t)))
         /\ Time(Local(t)) = Target(wantOpen, Day(Local(t)))
         /\ \A u \in (now + 1)..(t - 1) :
               ~NoTrading(Day(Local(u))) => Time(Local(u)) # Target(wantOpen, Day(Local(u)))
<1> DEFINE day == Day(Local(now))
           time == Time(Local(now))
<1>1. ex # None
  BY BoundaryDay
<1>2. PICK d \in Int :
               /\ day <= d /\ ~NoTrading(d)
               /\ d = day => time < Target(wantOpen, d)
               /\ \A c \in Int : day <= c /\ c < d /\ ~NoTrading(c)
                                    => c = day /\ ~(time < Target(wantOpen, c))
               /\ t = LocalToUtc(d, Target(wantOpen, d))
  BY BoundaryDay
<1>3. \A c : Target(wantOpen, c) \in Times /\ Target(wantOpen, c) \in Int
  BY <1>1, TargetOfDay
<1>4. /\ t \in Int /\ Local(t) = d * DayLength + Target(wantOpen, d)
      /\ Day(Local(t)) = d /\ Time(Local(t)) = Target(wantOpen, d)
  BY <1>2, <1>3, ThereAndBack DEF Schedule, NoTrading
<1>5. ASSUME NEW u \in Int
      PROVE  /\ Local(u) \in Int /\ Day(Local(u)) \in Int /\ Time(Local(u)) \in Int
             /\ Day(Local(u)) * DayLength \in Int
             /\ Local(u) = Day(Local(u)) * DayLength + Time(Local(u))
  <2>1. Local(u) \in Int
    BY LocalType DEF Schedule
  <2>2. Time(Local(u)) \in Int
    BY IsOpenAt
  <2>3. Day(Local(u)) \in Int /\ DayLength \in Int
    BY <2>1, Split, CalendarAssumption
  <2> QED
    BY <2>1, <2>2, <2>3, Split
<1>6. t > now
  <2>1. SUFFICES ASSUME t <= now PROVE FALSE
    BY <1>4
  <2>2. Day(Local(t)) <= day
    BY <1>4, <2>1, LocalDaysInOrder DEF Schedule
  <2>3. day \in Int /\ time \in Int
    BY <1>5
  <2>4. d = day
    <3> HIDE DEF day
    <3> QED
      BY <1>2, <1>4, <2>2, <2>3
  <2>5. Local(now) = Local(t) + (now - t)
    BY <1>2, <1>4, <2>1, <2>4, SteadyZone DEF Schedule, NoTrading
  <2>6. time < Target(wantOpen, d)
    BY <1>2, <2>4
  <2>7. Local(now) < Local(t)
    BY <1>3, <1>4, <1>5, <2>4, <2>6
  <2> QED
    BY <1>4, <1>5, <2>1, <2>5, <2>7
<1>7. ASSUME NEW u \in (now + 1)..(t - 1), ~NoTrading(Day(Local(u))),
             Time(Local(u)) = Target(wantOpen, Day(Local(u)))
      PROVE  FALSE
  <2> DEFINE c == Day(Local(u))
  <2>1. u \in Int /\ now <= u /\ u <= t /\ now < u /\ u < t
    BY <1>4
  <2>2. /\ c \in Int /\ Local(u) = c * DayLength + Target(wantOpen, c)
        /\ day \in Int /\ time \in Int
        /\ day <= c /\ c <= d
    <3>1. day <= c
      BY <2>1, LocalDaysInOrder DEF Schedule
    <3>2. c <= d
      BY <1>4, <2>1, LocalDaysInOrder DEF Schedule
    <3> QED
      BY <1>5, <1>7, <2>1, <3>1, <3>2
  <2>3. CASE c = d
    <3>1. Local(t) = Local(u) + (t - u)
      BY <1>2, <1>4, <2>1, <2>3, SteadyZone DEF Schedule, NoTrading
    <3>2. Local(t) = Local(u)
      BY <1>4, <2>2, <2>3
    <3> QED
      BY <1>4, <1>5, <2>1, <3>1, <3>2
  <2>4. CASE c < d
    <3>1. c = day /\ ~(time < Target(wantOpen, c))
      BY <1>2, <1>7, <2>2, <2>4
    <3>2. Local(u) = Local(now) + (u - now)
      BY <1>7, <2>1, <3>1, SteadyZone DEF Schedule, NoTrading
    <3>3. Local(now) < Local(u)
      BY <1>5, <2>1, <3>2
    <3>4. Local(now) = c * DayLength + time /\ c * DayLength \in Int
      BY <1>5, <3>1
    <3> HIDE DEF c, time, day
    <3> QED
      BY <1>3, <2>2, <3>1, <3>3, <3>4
  <2> HIDE DEF c
  <2> QED
    BY <2>2, <2>3, <2>4
<1> QED
  BY <1>1, <1>2, <1>4, <1>6, <1>7

\* The two boundaries are the first opening and the first close.
LEMMA BoundaryStep ==
  ASSUME Schedule, now \in Int
  PROVE  NextBoundaryIsFirst
<1>1. ASSUME NextOpen(now) # None
      PROVE  /\ NextOpen(now) > now /\ Opens(NextOpen(now))
             /\ \A u \in (now + 1)..(NextOpen(now) - 1) : ~Opens(u)
  <2> DEFINE t == NextOpen(now)
  <2>1. /\ ex # None /\ t \in Int /\ t > now
        /\ ~NoTrading(Day(Local(t))) /\ Time(Local(t)) = ex.open
        /\ \A u \in (now + 1)..(t - 1) :
               ~NoTrading(Day(Local(u))) => Time(Local(u)) # ex.open
    BY <1>1, BoundaryAhead DEF NextOpen, Target, OpenOf
  <2> HIDE DEF t
  <2>2. Opens(t)
    BY <2>1, OpensAtOpen
  <2>3. ASSUME NEW u \in (now + 1)..(t - 1) PROVE ~Opens(u)
    <3>1. u \in Int
      BY <2>1
    <3> QED
      BY <2>1, <3>1, OpensAtOpen
  <2> QED
    BY <2>1, <2>2, <2>3 DEF t
<1>2. ASSUME NextClose(now) # None
      PROVE  /\ NextClose(now) > now /\ Closes(NextClose(now))
             /\ \A u \in (now + 1)..(NextClose(now) - 1) :
                   Closes(u) => Status(u) = "lunch_break"
  <2> DEFINE t == NextClose(now)
  <2>1. /\ ex # None /\ t \in Int /\ t > now
        /\ ~NoTrading(Day(Local(t))) /\ Time(Local(t)) = CloseOf(Day(Local(t)))
        /\ \A u \in (now + 1)..(t - 1) :
               ~NoTrading(Day(Local(u))) => Time(Local(u)) # CloseOf(Day(Local(u)))
    BY <1>2, BoundaryAhead DEF NextClose, Target
  <2> HIDE DEF t
  <2>2. Closes(t)
    BY <2>1, ClosesAtClose
  <2>3. ASSUME NEW u \in (now + 1)..(t - 1), Closes(u) PROVE Status(u) = "lunch_break"
    <3>1. u \in Int
      BY <2>1
    <3> QED
      BY <2>1, <2>3, <3>1, ClosesAtClose
  <2> QED
    BY <2>1, <2>2, <2>3 DEF t
<1> QED
  BY <1>1, <1>2 DEF NextBoundaryIsFirst

-------------------------------------------------------------------------------
\* No answer.  The three computations give up after Ahead days, and the search for
\* a boundary also at the end of what the registry covers; up to there nothing is
\* missed.

Beyond(d) == \/ d > Day(Local(now)) + Ahead
             \/ ex.until # None /\ d > ex.until

MissesNothing ==
    ex # None =>
        /\ NextOpen(now) = None =>
              \A u \in Int : now < u /\ Opens(u) => Beyond(Day(Local(u)))
        /\ NextClose(now) = None =>
              \A u \in Int : now < u /\ Closes(u) /\ Status(u) # "lunch_break"
                                => Beyond(Day(Local(u)))
        /\ UntilChange(now) = None =>
              \A u \in Int : now <= u /\ Day(Local(u)) <= Day(Local(now)) + Ahead
                                => Status(u) = "closed"

\* A time that is looked for and not found lies beyond the search.
LEMMA NoBoundary ==
  ASSUME Schedule, ex # None, NEW wantOpen \in BOOLEAN, now \in Int,
         NextBoundary(wantOpen, now) = None, NEW u \in Int, now < u,
         ~NoTrading(Day(Local(u))), Time(Local(u)) = Target(wantOpen, Day(Local(u)))
  PROVE  Beyond(Day(Local(u)))
<1> DEFINE day == Day(Local(now))
           time == Time(Local(now))
           d == Day(Local(u))
           days == {c \in day..(day + Ahead) :
                      ~NoTrading(c) /\ (c = day => Target(wantOpen, c) > time)}
<1>1. /\ day \in Int /\ time \in Int /\ d \in Int /\ Ahead \in Int
      /\ Time(Local(u)) \in Int /\ Local(now) \in Int /\ Local(u) \in Int
      /\ None \notin Int
  <2>1. Local(now) \in Int /\ Local(u) \in Int
    BY LocalType DEF Schedule
  <2>2. Ahead \in Int /\ None \notin Int
    BY CalendarAssumption
  <2> QED
    BY <2>1, <2>2, IsOpenAt
<1>2. day <= d
  BY LocalDaysInOrder DEF Schedule
<1>3. SUFFICES ASSUME d <= day + Ahead
               PROVE  ex.until # None /\ d > ex.until
  BY <1>1 DEF Beyond
<1>4. d = day => time < Target(wantOpen, d)
  <2>1. SUFFICES ASSUME d = day PROVE time < Time(Local(u))
    OBVIOUS
  <2>2. Local(u) = Local(now) + (u - now)
    BY <2>1, SteadyZone DEF Schedule, NoTrading
  <2>3. /\ Local(u) = d * DayLength + Time(Local(u))
        /\ Local(now) = day * DayLength + time
    BY <1>1, Split
  <2>4. d * DayLength \in Int
    <3>1. DayLength \in Int
      BY CalendarAssumption
    <3> HIDE DEF d
    <3> QED
      BY <1>1, <3>1
  <2> HIDE DEF d, day, time
  <2> QED
    BY <1>1, <2>1, <2>2, <2>3, <2>4
<1>5. d \in days
  <2>1. d = day => Target(wantOpen, d) > time
    BY <1>1, <1>4
  <2> QED
    BY <1>1, <1>2, <1>3, <2>1
<1>6. Min(days) \in days /\ Min(days) <= d
  <2>1. days \subseteq Int /\ \A c \in days : day <= c
    BY <1>1
  <2> HIDE DEF days, d, day
  <2> QED
    BY <1>1, <1>5, <2>1, MinIsLeast
<1>7. LocalToUtc(Min(days), Target(wantOpen, Min(days))) # None
  <2>1. Min(days) \in Int /\ ~NoTrading(Min(days))
    BY <1>1, <1>6
  <2>2. Target(wantOpen, Min(days)) \in Times
    BY TargetOfDay
  <2> HIDE DEF days
  <2>3. LocalToUtc(Min(days), Target(wantOpen, Min(days))) \in Int
    BY <2>1, <2>2, ThereAndBack DEF Schedule, NoTrading
  <2> QED
    BY <1>1, <2>3
<1>8. ex.until # None /\ Min(days) > ex.until
  BY <1>5, <1>7 DEF NextBoundary
<1>9. ex.until \in Int
  BY <1>8, CalendarAssumption DEF Schedule, Exchange
<1>10. Min(days) \in Int
  BY <1>1, <1>6
<1> HIDE DEF days, d
<1> QED
  BY <1>1, <1>6, <1>8, <1>9, <1>10

\* Without a countdown, the exchange is closed as far as the countdown looks.
LEMMA NoCountdown ==
  ASSUME Schedule, ex # None, now \in Int, UntilChange(now) = None, NEW u \in Int, now <= u,
         Day(Local(u)) <= Day(Local(now)) + Ahead
  PROVE  Status(u) = "closed"
<1> DEFINE day == Day(Local(now))
           time == Time(Local(now))
           d == Day(Local(u))
           later == IF NoTrading(day) THEN {} ELSE {b \in Boundaries(day) : b > time}
           next == NextTradingDay(day)
<1>1. /\ day \in Int /\ time \in Int /\ d \in Int /\ Ahead \in Int
      /\ Time(Local(u)) \in Int /\ Time(Local(u)) \in Times
      /\ Local(now) \in Int /\ Local(u) \in Int /\ DayLength \in Int
      /\ None \notin Int
  <2>1. Local(now) \in Int /\ Local(u) \in Int
    BY LocalType DEF Schedule
  <2>2. Ahead \in Int /\ DayLength \in Int /\ None \notin Int
    BY CalendarAssumption
  <2> QED
    BY <2>1, <2>2, IsOpenAt
<1>2. Boundaries(day) \subseteq Int
  BY BoundariesOfDay, CalendarAssumption DEF Times
<1>3. UntilChange(now) = IF later # {} THEN Min(later) - time
                         ELSE IF next = None THEN None
                         ELSE (next - day) * DayLength - time + OpenOfFirst(next)
  BY DEF UntilChange
<1>4. later = {}
  <2>1. SUFFICES ASSUME later # {} PROVE FALSE
    OBVIOUS
  <2>2. later \subseteq Int /\ \A b \in later : time <= b
    BY <1>1, <1>2
  <2>3. UntilChange(now) = Min(later) - time
    BY <1>3, <2>1
  <2> HIDE DEF later, time
  <2>4. Min(later) \in Int
    BY <1>1, <2>1, <2>2, MinIsLeast
  <2> QED
    BY <1>1, <2>3, <2>4
<1>5. next = None
  <2>1. SUFFICES ASSUME next # None PROVE FALSE
    OBVIOUS
  <2>2. next \in Int
    BY <1>1, <2>1, NextTradingDayIsNext
  <2>3. OpenOfFirst(next) \in Int
    <3>1. OpenOfFirst(next) \in Times
      BY <1>1, ClosedBefore
    <3> QED
      BY <3>1, CalendarAssumption DEF Times
  <2>4. UntilChange(now) = (next - day) * DayLength - time + OpenOfFirst(next)
    BY <1>3, <1>4, <2>1
  <2> HIDE DEF next, day, time
  <2> QED
    BY <1>1, <2>2, <2>3, <2>4
<1>6. \A c \in (day + 1)..(day + Ahead) : NoTrading(c)
  <2> DEFINE days == {c \in (day + 1)..(day + Ahead) : ~NoTrading(c)}
  <2>1. SUFFICES ASSUME days # {} PROVE FALSE
    OBVIOUS
  <2>2. days \subseteq Int /\ day + 1 \in Int /\ \A c \in days : day + 1 <= c
    BY <1>1
  <2>3. next = Min(days)
    BY <2>1 DEF NextTradingDay
  <2> HIDE DEF days, next, day
  <2>4. Min(days) \in Int
    BY <2>1, <2>2, MinIsLeast
  <2> QED
    BY <1>1, <1>5, <2>3, <2>4
<1>7. day <= d
  BY LocalDaysInOrder DEF Schedule
<1>8. CASE NoTrading(d)
  BY <1>8, StatusOfDay
<1>9. CASE ~NoTrading(d)
  <2>1. d = day
    <3>1. d \notin (day + 1)..(day + Ahead)
      BY <1>6, <1>9
    <3> HIDE DEF d, day
    <3>2. ~(day + 1 <= d /\ d <= day + Ahead)
      BY <1>1, <3>1
    <3> QED
      BY <1>1, <1>7, <3>2 DEF d, day
  <2>2. Local(u) = Local(now) + (u - now)
    BY <1>9, <2>1, SteadyZone DEF Schedule, NoTrading
  <2>3. time <= Time(Local(u))
    <3>1. /\ Local(u) = d * DayLength + Time(Local(u))
          /\ Local(now) = day * DayLength + time /\ d * DayLength \in Int
      BY <1>1, Split
    <3> HIDE DEF d, day, time
    <3> QED
      BY <1>1, <2>1, <2>2, <3>1
  <2>4. \A b \in Boundaries(d) : b <= Time(Local(u))
    <3>1. \A b \in Boundaries(day) : b \in Int /\ ~(b > time)
      BY <1>2, <1>4, <1>9, <2>1
    <3> HIDE DEF d, day, time
    <3> QED
      BY <1>1, <2>1, <2>3, <3>1
  <2>5. Session(d, Time(Local(u))) = "closed"
    BY <1>1, <2>4, ClosedAfter
  <2> QED
    BY <1>9, <2>5, StatusOfDay
<1> QED
  BY <1>8, <1>9

LEMMA MissStep ==
  ASSUME Schedule, now \in Int
  PROVE  MissesNothing
<1> SUFFICES ASSUME ex # None PROVE MissesNothing
  BY DEF MissesNothing
<1>1. ASSUME NextOpen(now) = None, NEW u \in Int, now < u, Opens(u)
      PROVE  Beyond(Day(Local(u)))
  <2>1. ~NoTrading(Day(Local(u))) /\ Time(Local(u)) = ex.open
    BY <1>1, OpensAtOpen
  <2>2. Time(Local(u)) = Target(TRUE, Day(Local(u))) /\ NextBoundary(TRUE, now) = None
    BY <1>1, <2>1 DEF Target, OpenOf, NextOpen
  <2> QED
    BY <1>1, <2>1, <2>2, NoBoundary
<1>2. ASSUME NextClose(now) = None, NEW u \in Int, now < u, Closes(u), Status(u) # "lunch_break"
      PROVE  Beyond(Day(Local(u)))
  <2>1. ~NoTrading(Day(Local(u))) /\ Time(Local(u)) = CloseOf(Day(Local(u)))
    BY <1>2, ClosesAtClose
  <2>2. Time(Local(u)) = Target(FALSE, Day(Local(u))) /\ NextBoundary(FALSE, now) = None
    BY <1>2, <2>1 DEF Target, NextClose
  <2> QED
    BY <1>2, <2>1, <2>2, NoBoundary
<1> QED
  BY <1>1, <1>2, NoCountdown DEF MissesNothing

-------------------------------------------------------------------------------
\* The inductive invariant: what is read and what is still to be read fits the
\* hours of the exchange, and what the shell waits for is an opening or a close
\* that has not passed.

Reading ==
    /\ unread \in Seq(Entries)
    /\ \A i \in DOMAIN unread :
          unread[i].status = "early_close" => unread[i].at = None \/ Fits(unread[i].at, ex)

Promised ==
    wait # None =>
        /\ unread = <<>>
        /\ wait.minutes \in Minutes \cup {None} /\ wait.until \in Int
        /\ wait.minutes = None => Opens(wait.until) /\ now <= wait.until
        /\ wait.minutes # None => /\ Closes(wait.until + wait.minutes)
                                  /\ now <= wait.until + wait.minutes

IInv ==
    /\ Schedule
    /\ Reading
    /\ now \in 0..Horizon
    /\ Promised

LEMMA InvariantAtStart == Init => IInv
<1> SUFFICES ASSUME Init PROVE IInv
  OBVIOUS
<1>1. Schedule
  <2>1. DOMAIN holidays = {}
    BY DEF Init, NoHolidays
  <2>2. IsFiniteSet(DOMAIN holidays) /\ Cardinality(DOMAIN holidays) = 0
    BY <2>1, FS_EmptySet
  <2>3. 0 <= Capacity
    BY CalendarAssumption
  <2>4. Table
    BY <2>1, <2>2, <2>3 DEF Table
  <2> QED
    BY <2>4 DEF Init, Schedule
<1>2. Reading
  <2>1. CASE ex \in Exchanges /\ unread \in Registries[ex]
    BY <2>1, CalendarAssumption, RegistryAssumption DEF Reading
  <2>2. CASE unread = <<>>
    BY <2>2 DEF Reading
  <2> QED
    BY <2>1, <2>2 DEF Init
<1>3. now \in 0..Horizon /\ Promised
  BY CalendarAssumption DEF Init, Promised
<1> QED
  BY <1>1, <1>2, <1>3 DEF IInv

\* A round of parse_holiday_array() keeps the table within its capacity, and puts
\* into it what fits the exchange.
LEMMA ReadEntryKeeps ==
  ASSUME IInv, ReadEntry
  PROVE  IInv'
<1> DEFINE e == Head(unread)
           days == DOMAIN holidays
<1>1. /\ unread # <<>> /\ unread \in Seq(Entries)
      /\ unread' = Tail(unread) /\ holidays' = AddHoliday(holidays, e)
      /\ ex' = ex /\ offset' = offset /\ now' = now /\ wait' = wait
  BY DEF ReadEntry, IInv, Reading
<1>2. e \in Entries /\ (e.status = "early_close" => e.at = None \/ Fits(e.at, ex))
  <2>1. 1 \in DOMAIN unread /\ e = unread[1]
    BY <1>1
  <2>2. e \in Entries
    BY <1>1, <2>1
  <2> QED
    BY <2>1, <2>2 DEF IInv, Reading
<1>3. Reading'
  <2>1. Tail(unread) \in Seq(Entries)
    BY <1>1
  <2>2. ASSUME NEW i \in DOMAIN Tail(unread)
        PROVE  Tail(unread)[i].status = "early_close"
                  => Tail(unread)[i].at = None \/ Fits(Tail(unread)[i].at, ex)
    <3>1. i + 1 \in DOMAIN unread /\ Tail(unread)[i] = unread[i + 1]
      BY <1>1
    <3> QED
      BY <3>1 DEF IInv, Reading
  <2> QED
    BY <1>1, <2>1, <2>2 DEF Reading
<1>4. Table'
  <2>1. /\ days \subseteq Int /\ IsFiniteSet(days) /\ Cardinality(days) <= Capacity
        /\ \A d \in days : /\ holidays[d].closed \in BOOLEAN
                           /\ holidays[d].early \in Times \cup {None}
                           /\ holidays[d].early # None => Fits(holidays[d].early, ex)
    BY DEF IInv, Schedule, Table
  <2>2. CASE ~(e.day \in days \/ Cardinality(days) < Capacity)
    <3>1. holidays' = holidays
      BY <1>1, <2>2 DEF AddHoliday
    <3> QED
      BY <1>1, <2>1, <3>1 DEF Table
  <2>3. CASE e.day \in days \/ Cardinality(days) < Capacity
    <3>1. holidays' = [d \in days \cup {e.day} |-> IF d = e.day THEN Kind(e) ELSE holidays[d]]
      BY <1>1, <2>3 DEF AddHoliday
    <3>2. DOMAIN holidays' = days \cup {e.day} /\ e.day \in Int
      BY <1>2, <3>1 DEF Entries
    <3>3. IsFiniteSet(days \cup {e.day}) /\ Cardinality(days \cup {e.day}) <= Capacity
      <4>1. Cardinality(days) \in Int /\ Capacity \in Int
        BY <2>1, FS_CardinalityType, CalendarAssumption
      <4>2. /\ IsFiniteSet(days \cup {e.day})
            /\ Cardinality(days \cup {e.day})
                  = IF e.day \in days THEN Cardinality(days) ELSE Cardinality(days) + 1
        BY <2>1, FS_AddElement
      <4> QED
        BY <2>1, <2>3, <4>1, <4>2
    <3>4. /\ Kind(e).closed \in BOOLEAN /\ Kind(e).early \in Times \cup {None}
          /\ Kind(e).early # None => Fits(Kind(e).early, ex)
      BY <1>2 DEF Kind, Entries
    <3>5. \A d \in DOMAIN holidays' :
             /\ holidays'[d].closed \in BOOLEAN
             /\ holidays'[d].early \in Times \cup {None}
             /\ holidays'[d].early # None => Fits(holidays'[d].early, ex)
      BY <2>1, <3>1, <3>4
    <3> HIDE DEF days, e
    <3> QED
      BY <1>1, <2>1, <3>2, <3>3, <3>5 DEF Table
  <2> QED
    BY <2>2, <2>3
<1>5. wait = None
  BY <1>1 DEF IInv, Promised
<1> QED
  BY <1>1, <1>3, <1>4, <1>5 DEF IInv, Schedule, Promised

\* What the schedule shows does not change with the clock or with a wait.
LEMMA ScheduleStays ==
  ASSUME UNCHANGED <<ex, holidays, offset>>, NEW t
  PROVE  (Opens(t)' <=> Opens(t)) /\ (Closes(t)' <=> Closes(t))
<1>1. \A s : Status(s)' = Status(s)
  BY DEF Status, Local, OffsetAt, NoTrading, Listed, EarlyClose, CloseOf, In
<1>2. \A s : IsOpen(s)' <=> IsOpen(s)
  BY <1>1 DEF IsOpen
<1> QED
  BY <1>1, <1>2 DEF Opens, Closes

LEMMA InvariantKept ==
  ASSUME IInv, [Next]_vars
  PROVE  IInv'
<1>1. CASE ReadEntry
  BY <1>1, ReadEntryKeeps
<1>2. ASSUME UNCHANGED <<ex, unread, holidays, offset>>
      PROVE  (Schedule /\ Reading)'
  BY <1>2 DEF IInv, Schedule, Table, Reading
<1>3. now \in Int /\ Horizon \in Int
  BY CalendarAssumption DEF IInv
<1>4. CASE Tick
  <2>1. /\ UNCHANGED <<ex, unread, holidays, offset, wait>> /\ now' = now + 1
        /\ now < Horizon /\ ~Due
    BY <1>4 DEF Tick
  <2>2. now' \in 0..Horizon
    BY <1>3, <2>1 DEF IInv
  <2>3. Promised'
    <3>1. SUFFICES ASSUME wait # None PROVE Promised'
      BY <2>1 DEF Promised
    <3>2. wait.until \in Int /\ now < wait.until
      BY <1>3, <2>1, <3>1 DEF Due, IInv, Promised
    <3>3. wait.minutes # None => wait.minutes \in Nat
      BY <3>1, CalendarAssumption DEF IInv, Promised
    <3>4. /\ wait.minutes = None => now + 1 <= wait.until
          /\ wait.minutes # None => now + 1 <= wait.until + wait.minutes
      BY <1>3, <3>2, <3>3
    <3>5. /\ unread = <<>> /\ wait.minutes \in Minutes \cup {None}
          /\ wait.minutes = None => Opens(wait.until)
          /\ wait.minutes # None => Closes(wait.until + wait.minutes)
      BY <3>1 DEF IInv, Promised
    <3>6. /\ wait.minutes = None => Opens(wait.until)'
          /\ wait.minutes # None => Closes(wait.until + wait.minutes)'
      BY <2>1, <3>5, ScheduleStays
    <3> QED
      BY <2>1, <3>2, <3>4, <3>5, <3>6 DEF Promised
  <2> QED
    BY <1>2, <2>1, <2>2, <2>3 DEF IInv
<1>5. CASE WaitForOpen
  <2>0. PICK t : t = NextOpen(now)
    OBVIOUS
  <2>1. /\ UNCHANGED <<ex, unread, holidays, offset, now>> /\ unread = <<>>
        /\ t # None /\ wait' = [minutes |-> None, until |-> t]
    BY <1>5, <2>0 DEF WaitForOpen
  <2>2. t \in Int /\ t > now
    BY <1>3, <2>0, <2>1, BoundaryAhead DEF IInv, NextOpen
  <2>3. Opens(t)
    BY <1>3, <2>0, <2>1, BoundaryStep DEF IInv, NextBoundaryIsFirst
  <2>4. Opens(t)'
    BY <2>1, <2>3, ScheduleStays
  <2>5. wait'.minutes = None /\ wait'.until = t /\ now <= t
    BY <1>3, <2>1, <2>2
  <2>6. Opens(wait.until)'
    BY <2>4, <2>5
  <2>7. Promised'
    BY <2>1, <2>2, <2>5, <2>6 DEF Promised
  <2> QED
    BY <1>2, <2>1, <2>7 DEF IInv
<1>6. ASSUME NEW m \in Minutes, WaitForClose(m) PROVE IInv'
  <2>0. PICK t : t = NextClose(now)
    OBVIOUS
  <2>1. /\ UNCHANGED <<ex, unread, holidays, offset, now>> /\ unread = <<>>
        /\ t # None /\ wait' = [minutes |-> m, until |-> t - m]
    BY <1>6, <2>0 DEF WaitForClose
  <2>2. t \in Int /\ t > now /\ m \in Int /\ m # None
    <3>1. m \in Int /\ m # None
      BY CalendarAssumption
    <3>2. t \in Int /\ t > now
      BY <1>3, <2>0, <2>1, BoundaryAhead DEF IInv, NextClose
    <3> QED
      BY <3>1, <3>2
  <2>3. Closes(t)
    BY <1>3, <2>0, <2>1, BoundaryStep DEF IInv, NextBoundaryIsFirst
  <2>4. Closes(t)'
    BY <2>1, <2>3, ScheduleStays
  <2>5. /\ wait'.minutes = m /\ wait'.until = t - m /\ t - m \in Int
        /\ (t - m) + m = t /\ now <= t
    BY <1>3, <2>1, <2>2
  <2>6. Closes(wait.until + wait.minutes)'
    BY <2>4, <2>5
  <2>7. Promised'
    BY <2>1, <2>2, <2>5, <2>6 DEF Promised
  <2> QED
    BY <1>2, <2>1, <2>7 DEF IInv
<1>7. CASE Run
  <2>1. UNCHANGED <<ex, unread, holidays, offset, now>> /\ wait' = None
    BY <1>7 DEF Run
  <2> QED
    BY <1>2, <2>1 DEF IInv, Promised
<1>8. CASE UNCHANGED vars
  <2>1. UNCHANGED <<ex, unread, holidays, offset, now, wait>>
    BY <1>8 DEF vars
  <2>2. Promised'
    <3>1. SUFFICES ASSUME wait # None PROVE Promised'
      BY <2>1 DEF Promised
    <3>2. /\ wait.minutes = None => Opens(wait.until)'
          /\ wait.minutes # None => Closes(wait.until + wait.minutes)'
      BY <2>1, <3>1, ScheduleStays DEF IInv, Promised
    <3> QED
      BY <2>1, <3>1, <3>2 DEF IInv, Promised
  <2> QED
    BY <1>2, <2>1, <2>2 DEF IInv
<1> QED
  BY <1>1, <1>4, <1>5, <1>6, <1>7, <1>8 DEF Next

LEMMA Invariance == Spec => []IInv
<1>1. IInv /\ [Next]_vars => IInv'
  BY InvariantKept
<1> QED
  BY <1>1, InvariantAtStart, PTL DEF Spec

-------------------------------------------------------------------------------
\* Whatever a registry lists, the variables keep their types, the table its
\* capacity, and no early close comes before the day's opening.
THEOREM TypesHold == Spec => []TypeOK
<1>1. IInv => TypeOK
  <2> SUFFICES ASSUME IInv PROVE TypeOK
    OBVIOUS
  <2>1. wait # None => wait.minutes \in Minutes \cup {None} /\ wait.until \in Int
    BY DEF IInv, Promised
  <2>2. ex # None => \A d \in DOMAIN holidays : ex.open < CloseOf(d)
    BY HoursInOrder DEF IInv, Hours
  <2> QED
    BY <2>1, <2>2 DEF IInv, Schedule, Table, Reading, TypeOK
<1> QED
  BY <1>1, Invariance, PTL

\* calendar_minutes_until_change() counts to the moment at which
\* calendar_status() changes, and to no earlier or later one, on every day.
THEOREM CountdownsAreHonest == Spec => []CountdownIsHonest
<1>1. IInv => CountdownIsHonest
  BY CountdownStep, CalendarAssumption DEF IInv
<1> QED
  BY <1>1, Invariance, PTL

\* calendar_next_open_time() and calendar_next_close_time() name the first opening
\* and the first close that calendar_status() will show.
THEOREM BoundariesAreFirst == Spec => []NextBoundaryIsFirst
<1>1. IInv => NextBoundaryIsFirst
  BY BoundaryStep, CalendarAssumption DEF IInv
<1> QED
  BY <1>1, Invariance, PTL

\* A command that has waited with @next_open runs in an open market; one that has
\* waited with @before_close runs before the close, by no more than it asked for.
THEOREM CommandsRunInTime == Spec => RunsInTime
<1>1. IInv /\ [Next]_vars =>
         [Run => IF wait.minutes = None THEN IsOpen(now)
                 ELSE \E c \in now..(now + wait.minutes) : Closes(c)]_vars
  <2> SUFFICES ASSUME IInv, Run
               PROVE  IF wait.minutes = None THEN IsOpen(now)
                      ELSE \E c \in now..(now + wait.minutes) : Closes(c)
    OBVIOUS
  <2>1. wait # None /\ wait.until <= now /\ now \in Int
    BY CalendarAssumption DEF Run, Due, IInv
  <2>2. /\ wait.until \in Int
        /\ wait.minutes \in Minutes \cup {None}
        /\ wait.minutes = None => Opens(wait.until) /\ now <= wait.until
        /\ wait.minutes # None => /\ Closes(wait.until + wait.minutes)
                                  /\ now <= wait.until + wait.minutes
    BY <2>1 DEF IInv, Promised
  <2>3. CASE wait.minutes = None
    <3>1. now = wait.until
      BY <2>1, <2>2, <2>3
    <3> QED
      BY <2>2, <2>3, <3>1 DEF Opens
  <2>4. CASE wait.minutes # None
    <3>1. wait.minutes \in Int
      BY <2>2, <2>4, CalendarAssumption
    <3>2. wait.until + wait.minutes \in now..(now + wait.minutes)
      BY <2>1, <2>2, <2>4, <3>1
    <3> QED
      BY <2>2, <2>4, <3>2
  <2> QED
    BY <2>3, <2>4
<1> QED
  BY <1>1, Invariance, PTL DEF Spec, RunsInTime

\* When the three computations give no answer there is none to give: no opening, no
\* close and no change of the status up to the end of the search or the registry.
THEOREM SearchesMissNothing == Spec => []MissesNothing
<1>1. IInv => MissesNothing
  BY MissStep, CalendarAssumption DEF IInv
<1> QED
  BY <1>1, Invariance, PTL

===============================================================================
