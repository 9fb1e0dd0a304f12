------------------------------- MODULE Calendar -------------------------------
(***************************************************************************)
(* The exchange calendar (src/src/calendar.c) and the two commands that    *)
(* wait for it (handle_market_wait_operator() in src/src/operators.c).     *)
(* Status, the countdown to its next change and the next opening or        *)
(* closing are three computations over one day's schedule; @next_open and  *)
(* @before_close wait for what the third one answered.                     *)
(*                                                                         *)
(* Time is counted in units of which a day has DayLength (minutes in the   *)
(* code); a date is the number of its day.  One exchange is looked at; an  *)
(* alias and the MIC it stands for are one name.  What Ctrl-C and shutdown *)
(* do to a wait is in Session.                                             *)
(***************************************************************************)
EXTENDS Integers, FiniteSetsExt, Sequences

CONSTANTS
    DayLength,
    Exchanges,   \* entries of the registry, see Exchange
    Builtin,     \* install_builtin_nyse_fallback()
    Registries,  \* holidays of each: explicit, generated, ad hoc, in turn
    Capacity,    \* CAL_MAX_HOLIDAYS
    FirstDay,    \* weekday of day 0 (0 is Sunday)
    Offsets,     \* pairs of offsets to UTC, before and after ChangesAt
    ChangesAt,   \* when the zone's offset changes (UTC)
    Ahead,       \* days the two searches go through (30 and 400 in the code)
    Minutes,     \* arguments of @before_close
    Horizon,     \* bound on the time that passes
    None

Times == 0..(DayLength - 1)
Spans == {None} \cup (Times \X Times)

\* pre, lunch and after are spans of the day, or None; until is the last day of
\* generation_range, or None.
Exchange == [pre : Spans, open : Times, close : Times, lunch : Spans, after : Spans,
             until : Int \cup {None}]

Entries == [day : Int, status : {"closed", "early_close", "delayed_open"},
            at : Times \cup {None}]

ASSUME CalendarAssumption ==
    /\ DayLength \in Nat \ {0} /\ FirstDay \in 0..6
    /\ Capacity \in Nat /\ Ahead \in Nat /\ Horizon \in Nat
    /\ Exchanges \cup {Builtin} \subseteq Exchange
    /\ \A e \in Exchanges : \A r \in Registries[e] : r \in Seq(Entries)
    /\ Offsets \subseteq Int \X Int /\ ChangesAt \in Int
    /\ Minutes \subseteq Nat
    /\ None \notin Int /\ None \notin Exchange

\* calendar.c takes the hours and the holidays of an exchange as they are
\* written.  In src/calendar.json every exchange has them in this order: its
\* sessions follow one another, and an early close is not after the lunch break
\* has begun.
InOrder(e) ==
    /\ e.open < e.close
    /\ e.pre # None => e.pre[1] < e.pre[2] /\ e.pre[2] <= e.open
    /\ e.lunch # None => /\ e.open < e.lunch[1] /\ e.lunch[1] < e.lunch[2]
                         /\ e.lunch[2] < e.close
    /\ e.after # None => e.close <= e.after[1] /\ e.after[1] < e.after[2]

Fits(at, e) == /\ e.open < at /\ at <= e.close
               /\ e.lunch # None => at <= e.lunch[1]

ASSUME RegistryAssumption ==
    /\ \A e \in Exchanges \cup {Builtin} : InOrder(e)
    /\ \A e \in Exchanges : \A r \in Registries[e] : \A i \in DOMAIN r :
          r[i].status = "early_close" => r[i].at = None \/ Fits(r[i].at, e)

VARIABLES
    ex,        \* the exchange the commands name, or None if it is not loaded
    unread,    \* its entries that are still to be read
    holidays,  \* its holidays: what a day is, for the days that are listed
    offset,    \* the zone's two offsets
    now,       \* time(NULL)
    wait       \* what the shell waits for and until when, or None

vars == <<ex, unread, holidays, offset, now, wait>>

-------------------------------------------------------------------------------
\* Dates and times.

Day(l) == l \div DayLength
Time(l) == l % DayLength
Weekday(day) == (day + FirstDay) % 7
Weekend(day) == Weekday(day) \in {0, 6}

OffsetAt(t) == IF t < ChangesAt THEN offset[1] ELSE offset[2]

\* utc_to_local()
Local(t) == t + OffsetAt(t)

\* Mistake: the offset in force now is used for the date to come.
LocalToUtcNow(day, time) == day * DayLength + time - OffsetAt(now)

\* local_to_utc(), with the offset in force at that date
LocalToUtc(day, time) ==
    LET after == day * DayLength + time - offset[2]
    IN IF after >= ChangesAt THEN after ELSE day * DayLength + time - offset[1]

\* The zones of src/calendar.json change their offset within a Sunday, if they do.
ASSUME ZoneAssumption ==
    \A o \in Offsets : o[1] # o[2] =>
        LET last == Day(ChangesAt - 1 + o[1]) first == Day(ChangesAt + o[2])
        IN last = first /\ Weekend(first)

-------------------------------------------------------------------------------
\* Loading: the holidays of the three arrays, in turn.  A later entry for a day
\* replaces an earlier one; a day for which there is no room is dropped.  A
\* status that is neither "closed" nor "early_close" leaves a normal day.

Kind(e) == [closed |-> e.status = "closed",
            early  |-> IF e.status = "early_close" THEN e.at ELSE None]

\* Mistake: the table is never full.
AddHolidayAlways(h, e) ==
    [d \in DOMAIN h \cup {e.day} |-> IF d = e.day THEN Kind(e) ELSE h[d]]

AddHoliday(h, e) ==
    IF e.day \in DOMAIN h \/ Cardinality(DOMAIN h) < Capacity
    THEN [d \in DOMAIN h \cup {e.day} |-> IF d = e.day THEN Kind(e) ELSE h[d]]
    ELSE h

NoHolidays == [d \in {} |-> [closed |-> FALSE, early |-> None]]

\* calendar_init(): the registry, or the built-in exchange without holidays.
Init ==
    /\ \/ ex \in Exchanges /\ unread \in Registries[ex]
       \/ ex \in {Builtin, None} /\ unread = <<>>
    /\ holidays = NoHolidays
    /\ offset \in Offsets
    /\ now = 0
    /\ wait = None

\* One round of parse_holiday_array(); no command runs before the last.
ReadEntry ==
    /\ unread # <<>>
    /\ unread' = Tail(unread)
    /\ holidays' = AddHoliday(holidays, Head(unread))
    /\ UNCHANGED <<ex, offset, now, wait>>

-------------------------------------------------------------------------------
\* compute_day_schedule()

Listed(day) == ~Weekend(day) /\ day \in DOMAIN holidays

NoTrading(day) == Weekend(day) \/ (Listed(day) /\ holidays[day].closed)

EarlyClose(day) ==
    IF Listed(day) /\ ~holidays[day].closed THEN holidays[day].early ELSE None

CloseOf(day) == IF EarlyClose(day) = None THEN ex.close ELSE EarlyClose(day)

In(span, time) == span # None /\ span[1] <= time /\ time < span[2]

\* calendar_status()
Status(t) ==
    LET day == Day(Local(t))
        time == Time(Local(t))
    IN IF ex = None \/ NoTrading(day) THEN "closed"
       ELSE IF In(ex.pre, time) THEN "pre"
       ELSE IF In(ex.lunch, time) THEN "lunch_break"
       ELSE IF ex.open <= time /\ time < CloseOf(day)
            THEN (IF EarlyClose(day) # None THEN "early_close" ELSE "open")
       ELSE IF In(ex.after, time) THEN "after"
       ELSE "closed"

\* calendar_is_open()
IsOpen(t) == Status(t) \in {"open", "early_close"}

Ends(span) == IF span = None THEN {} ELSE {span[1], span[2]}

\* Mistake: the countdown looks for the usual close on every day.
BoundariesUsual(day) ==
    Ends(ex.pre) \cup Ends(ex.lunch) \cup Ends(ex.after) \cup {ex.open, ex.close}

Boundaries(day) ==
    Ends(ex.pre) \cup Ends(ex.lunch) \cup Ends(ex.after) \cup {ex.open, CloseOf(day)}

\* The first of the next days on which there is trading, or None.
NextTradingDay(day) ==
    LET days == {d \in (day + 1)..(day + Ahead) : ~NoTrading(d)}
    IN IF days = {} THEN None ELSE Min(days)

\* When the first session of a day begins.
OpenOfFirst(day) == IF ex.pre # None THEN ex.pre[1] ELSE ex.open

\* calendar_minutes_until_change(); None where the code returns -1
UntilChange(t) ==
    LET day == Day(Local(t))
        time == Time(Local(t))
        later == IF NoTrading(day) THEN {} ELSE {b \in Boundaries(day) : b > time}
        next == NextTradingDay(day)
    IN IF ex = None THEN None
       ELSE IF later # {} THEN Min(later) - time
       ELSE IF next = None THEN None
       ELSE (next - day) * DayLength - time
              + OpenOfFirst(next)

OpenOf(day) == ex.open

\* What is looked for on a day.
Target(wantOpen, day) == IF wantOpen THEN OpenOf(day) ELSE CloseOf(day)

\* find_next_boundary(); None where the code returns 0
NextBoundary(wantOpen, t) ==
    LET day == Day(Local(t))
        days == {d \in day..(day + Ahead) :
                   /\ ~NoTrading(d)
                   /\ d = day => Target(wantOpen, d) > Time(Local(t))}
    IN IF ex = None \/ days = {} THEN None
       ELSE IF ex.until # None /\ Min(days) > ex.until THEN None
       ELSE LocalToUtc(Min(days), Target(wantOpen, Min(days)))

NextOpen(t) == NextBoundary(TRUE, t)
NextClose(t) == NextBoundary(FALSE, t)

-------------------------------------------------------------------------------
\* The two commands that wait.  wait_until_epoch() looks at the clock every
\* second, so a command runs in the minute it has waited for.

Due == wait # None /\ wait.until <= now

Tick ==
    /\ unread = <<>>
    /\ now < Horizon
    /\ ~Due
    /\ now' = now + 1
    /\ UNCHANGED <<ex, unread, holidays, offset, wait>>

\* @next_open: an exchange or a time that is not known ends the line.
WaitForOpen ==
    /\ unread = <<>>
    /\ wait = None
    /\ NextOpen(now) # None
    /\ wait' = [minutes |-> None, until |-> NextOpen(now)]
    /\ UNCHANGED <<ex, unread, holidays, offset, now>>

\* @before_close M
WaitForClose(m) ==
    /\ unread = <<>>
    /\ wait = None
    /\ NextClose(now) # None
    /\ wait' = [minutes |-> m, until |-> NextClose(now) - m]
    /\ UNCHANGED <<ex, unread, holidays, offset, now>>

\* The command that stands after it on the line.
Run ==
    /\ unread = <<>>
    /\ Due
    /\ wait' = None
    /\ UNCHANGED <<ex, unread, holidays, offset, now>>

Next ==
    \/ ReadEntry
    \/ Tick
    \/ WaitForOpen
    \/ \E m \in Minutes : WaitForClose(m)
    \/ Run

Spec == Init /\ [][Next]_vars

-------------------------------------------------------------------------------
\* The variables are of their types, and a close is never earlier than the day's
\* opening.
TypeOK ==
    /\ ex \in Exchanges \cup {Builtin, None}
    /\ unread \in Seq(Entries)
    /\ Cardinality(DOMAIN holidays) <= Capacity
    /\ offset \in Offsets
    /\ now \in 0..Horizon
    /\ wait # None => wait.minutes \in Minutes \cup {None} /\ wait.until \in Int
    /\ ex # None => \A d \in DOMAIN holidays : ex.open < CloseOf(d)

\* The status holds until the countdown says it will change, and then it does
\* change: on normal, early-close and closed days, over lunch, nights, weekends
\* and holidays.  (The countdown counts the minutes of the local clock: it is out
\* by the difference when the zone changes its offset before it ends.)
CountdownIsHonest ==
    LET n == UntilChange(now)
    IN n # None /\ OffsetAt(now) = OffsetAt(now + n) =>
        /\ n > 0
        /\ \A u \in now..(now + n - 1) : Status(u) = Status(now)
        /\ Status(now + n) # Status(now)

Opens(t) == IsOpen(t) /\ ~IsOpen(t - 1) /\ Status(t - 1) # "lunch_break"
Closes(t) == IsOpen(t - 1) /\ ~IsOpen(t)

\* What @next_open and @before_close wait for is an opening and a close of the
\* exchange as calendar_status() tells them, and no opening or close comes before
\* it, whatever the zone does in between; a lunch break is neither.
NextBoundaryIsFirst ==
    /\ LET t == NextOpen(now)
       IN t # None => /\ t > now /\ Opens(t)
                      /\ \A u \in (now + 1)..(t - 1) : ~Opens(u)
    /\ LET t == NextClose(now)
       IN t # None => /\ t > now /\ Closes(t)
                      /\ \A u \in (now + 1)..(t - 1) :
                            Closes(u) => Status(u) = "lunch_break"

\* A command released by @next_open runs while the exchange is open; one released
\* by @before_close M runs with at most M left to a close that has not passed.
RunsInTime ==
    [][Run => IF wait.minutes = None THEN IsOpen(now)
              ELSE \E c \in now..(now + wait.minutes) : Closes(c)]_vars

===============================================================================
