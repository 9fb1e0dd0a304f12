------------------------------- MODULE Session --------------------------------
(***************************************************************************)
(* One interactive shell between its signals and what it is doing:         *)
(* shell_loop() (src/src/main.c), the waits and the job table of           *)
(* operators.c, watch, fg and jobs of Commands.c, while blocks (script.c)  *)
(* and the sources of $<() (streaming_sub.c).  The signal handlers only    *)
(* set flags; each loop polls the ones it polls.                           *)
(*                                                                         *)
(* What a line says is chosen freely, also inside watch and while.  Time   *)
(* is the time of day in Day units; the clock runs on while the shell      *)
(* works.  A child in the foreground and a source may die of a SIGINT or   *)
(* not, so they end when they like.                                        *)
(***************************************************************************)
EXTENDS Integers, Sequences, FiniteSets

CONSTANTS
    Day,       \* units in a day
    Resync,    \* a wait looks at the clock when its countdown is a multiple of it
    MaxLag,    \* bound on the units that pass between two of those looks
    MaxJobs,   \* size of the job table
    MaxSubs,   \* MAX_STREAM_SUBS
    MaxProcs,  \* bound on the background processes started
    MaxDepth,  \* bound on watch and while inside one another
    MaxMore    \* bound on the commands of a line after the first

ASSUME SessionAssumption ==
    /\ Day \in Nat \ {0} /\ Resync \in Nat \ {0} /\ MaxLag \in Nat \ {0}
    /\ MaxJobs \in Nat /\ MaxSubs \in Nat
    /\ MaxProcs \in Nat /\ MaxDepth \in Nat /\ MaxMore \in Nat

\* The blocks a command can be in: watch, a while with a condition, and one
\* that reads a source.
Blocks == {"watch", "while", "stream"}

VARIABLES
    sigint, sigterm,  \* g_sigint_received, g_sigterm_received
    stop,     \* watch_stop
    pc,       \* what the shell is doing
    blocks,   \* the blocks it is in, the innermost last
    more,     \* the commands still to come on the line that was read
    now,      \* the time of day
    target, delta,    \* wait_until(): the time waited for and its countdown
    since,    \* the units since it looked at the clock
    due,      \* the time until the instant waited for, below 0 what it is late by
    wrap,     \* whether that instant is on the next day
    table,    \* jobs[]
    fgjob,    \* the job fg waits for
    proc,     \* the background processes: "running", "zombie" or "reaped"
    open,     \* the blocks with an open source
    registry  \* those of them in g_registry

flags == <<sigint, sigterm, stop>>
wait == <<target, delta, since, due, wrap>>
jobs == <<table, fgjob, proc>>
subs == <<open, registry>>
vars == <<flags, pc, blocks, more, now, wait, jobs, subs>>

-------------------------------------------------------------------------------
At(l) == pc = l
Depth == Len(blocks)

\* A restored job is in the table but is no child of this shell.
Restored == 0

Finished(i) ==
    /\ table[i].active /\ table[i].proc # Restored
    /\ proc[table[i].proc] = "zombie"

\* clean_jobs()
CleanJobs ==
    /\ table' = [i \in DOMAIN table |->
                    [table[i] EXCEPT !.active = @ /\ ~Finished(i)]]
    /\ proc' = [p \in DOMAIN proc |->
                    IF \E i \in DOMAIN table : Finished(i) /\ table[i].proc = p
                    THEN "reaped" ELSE proc[p]]
    /\ UNCHANGED fgjob

\* stream_sub_close_all()
CloseAll == open' = open \ registry /\ registry' = {}

Init ==
    /\ sigint = FALSE /\ sigterm = FALSE /\ stop = FALSE
    /\ pc = "poll"
    /\ blocks = <<>>
    /\ more = 0
    /\ now \in 0..(Day - 1)
    /\ target = 0 /\ delta = 0 /\ since = 0 /\ due = 0 /\ wrap = FALSE
    /\ table \in {<<>>} \cup
                 IF MaxJobs = 0 THEN {} ELSE {<<[proc |-> Restored, active |-> TRUE]>>}
    /\ fgjob = 0
    /\ proc = <<>>
    /\ open = {} /\ registry = {}

-------------------------------------------------------------------------------
(* The loop and the prompt *)

\* SIGTERM: save, stop the thread, exit.
PollTerm ==
    /\ At("poll") /\ sigterm
    /\ CleanJobs
    /\ pc' = "terminated"
    /\ UNCHANGED <<flags, blocks, more, now, wait, subs>>

\* A SIGINT that arrived while the shell was busy.
Interrupted ==
    /\ sigint' = FALSE
    /\ stop' = TRUE
    /\ CloseAll

Poll ==
    /\ At("poll") /\ ~sigterm
    /\ CleanJobs
    /\ IF sigint THEN Interrupted ELSE UNCHANGED <<sigint, stop, subs>>
    /\ pc' = "read"
    /\ UNCHANGED <<sigterm, blocks, more, now, wait>>

\* A line of 1 + more' commands, or none.
ReadLine ==
    /\ At("read")
    /\ \/ pc' = "poll" /\ UNCHANGED more
       \/ pc' = "line" /\ more' \in 0..MaxMore
    /\ UNCHANGED <<flags, blocks, now, wait, jobs, subs>>

\* readline() gives up: for a SIGINT, or at the end of the input, which is a
\* clean exit and deletes the checkpoint.
ReadNull ==
    /\ At("read")
    /\ IF sigint THEN Interrupted /\ pc' = "poll"
                 ELSE UNCHANGED <<sigint, stop, subs>> /\ pc' = "left"
    /\ UNCHANGED <<sigterm, blocks, more, now, wait, jobs>>

\* The next command.  execute_sequence() looks at the jobs before each.
Node ==
    /\ At("line")
    /\ \/ CleanJobs
       \/ more = 0 /\ UNCHANGED jobs
    /\ pc' = "command"
    /\ UNCHANGED <<flags, blocks, more, now, wait, subs>>

\* A command has ended: the next one, or what the block does next.
Next1 ==
    /\ At("next")
    /\ \/ /\ blocks = <<>> /\ more > 0
          /\ more' = more - 1 /\ pc' = "line"
       \/ /\ blocks = <<>> /\ more = 0
          /\ pc' = "poll" /\ UNCHANGED more
       \/ /\ blocks # <<>>
          /\ pc' \in {"turn"} \cup IF blocks[Depth] = "watch" THEN {} ELSE {"line"}
          /\ UNCHANGED more
    /\ UNCHANGED <<flags, blocks, now, wait, jobs, subs>>

-------------------------------------------------------------------------------
(* Commands *)

\* exit, also from inside a block.
Exit ==
    /\ At("command")
    /\ pc' = "left"
    /\ UNCHANGED <<flags, blocks, more, now, wait, jobs, subs>>

\* A builtin that does not wait, or a child in the foreground.
Execute ==
    /\ At("command")
    /\ pc' \in {"next", "child"}
    /\ UNCHANGED <<flags, blocks, more, now, wait, jobs, subs>>

ChildEnds ==
    /\ At("child")
    /\ pc' = "next"
    /\ UNCHANGED <<flags, blocks, more, now, wait, jobs, subs>>

\* Mistake: the table is not looked at.
BackgroundUnbounded ==
    /\ At("command")
    /\ Len(proc) < MaxProcs
    /\ proc' = Append(proc, "running")
    /\ table' = Append(table, [proc |-> Len(proc) + 1, active |-> TRUE])
    /\ pc' = "next"
    /\ UNCHANGED <<flags, blocks, more, now, wait, fgjob, subs>>

\* command &: a full table is full for good, its entries are never reused.
Background ==
    /\ At("command")
    /\ Len(proc) < MaxProcs
    /\ proc' = Append(proc, "running")
    /\ table' = IF Len(table) < MaxJobs
                THEN Append(table, [proc |-> Len(proc) + 1, active |-> TRUE])
                ELSE table
    /\ pc' = "next"
    /\ UNCHANGED <<flags, blocks, more, now, wait, fgjob, subs>>

ProcEnds ==
    /\ \E p \in DOMAIN proc :
          proc[p] = "running" /\ proc' = [proc EXCEPT ![p] = "zombie"]
    /\ UNCHANGED <<flags, pc, blocks, more, now, wait, table, fgjob, subs>>

Jobs ==
    /\ At("command")
    /\ CleanJobs
    /\ pc' = "next"
    /\ UNCHANGED <<flags, blocks, more, now, wait, subs>>

Fg ==
    /\ At("command")
    /\ \E i \in DOMAIN table : table[i].active /\ fgjob' = i
    /\ pc' = "fg"
    /\ UNCHANGED <<flags, blocks, more, now, wait, table, proc, subs>>

\* Mistake: the job stays active.
FgEndsActive ==
    /\ At("fg")
    /\ LET p == table[fgjob].proc
       IN  IF p = Restored THEN UNCHANGED proc
           ELSE proc[p] = "zombie" /\ proc' = [proc EXCEPT ![p] = "reaped"]
    /\ fgjob' = 0
    /\ pc' = "next"
    /\ UNCHANGED <<flags, blocks, more, now, wait, table, subs>>

\* waitpid() returns, for a restored job at once.
FgEnds ==
    /\ At("fg")
    /\ LET p == table[fgjob].proc
       IN  IF p = Restored THEN UNCHANGED proc
           ELSE proc[p] = "zombie" /\ proc' = [proc EXCEPT ![p] = "reaped"]
    /\ table' = [table EXCEPT ![fgjob].active = FALSE]
    /\ fgjob' = 0
    /\ pc' = "next"
    /\ UNCHANGED <<flags, blocks, more, now, wait, subs>>

-------------------------------------------------------------------------------
(* Waits.  The command behind one is the next command of the line. *)

NoWait == target' = 0 /\ delta' = 0 /\ since' = 0 /\ due' = 0 /\ wrap' = FALSE

\* @HH:MM:SS
Time ==
    /\ At("command")
    /\ \E t \in 0..(Day - 1) :
          IF t = now THEN pc' = "command" /\ UNCHANGED wait
          ELSE /\ target' = t
               /\ delta' = (t - now) % Day
               /\ due' = (t - now) % Day
               /\ wrap' = (t < now)
               /\ since' = 0
               /\ pc' = "time"
    /\ UNCHANGED <<flags, blocks, more, now, jobs, subs>>

\* Mistake: a time that the clock has passed is taken for the next day's, as
\* when the wait is set.
TimeStepNextDay ==
    /\ At("time") /\ delta > 0 /\ ~stop
    /\ delta' = IF (delta - 1) % Resync # 0 THEN delta - 1 ELSE (target - now) % Day
    /\ since' = IF (delta - 1) % Resync = 0 /\ delta' > 0 THEN 0 ELSE since
    /\ UNCHANGED <<flags, pc, blocks, more, now, target, due, wrap, jobs, subs>>

\* A tenth of a second: one less, or what the clock says.
TimeStep ==
    /\ At("time") /\ delta > 0 /\ ~stop
    /\ delta' = IF (delta - 1) % Resync # 0 THEN delta - 1
                ELSE IF target < now THEN 0 ELSE target - now
    /\ since' = IF (delta - 1) % Resync = 0 /\ delta' > 0 THEN 0 ELSE since
    /\ UNCHANGED <<flags, pc, blocks, more, now, target, due, wrap, jobs, subs>>

TimeEnds ==
    /\ At("time") /\ (delta = 0 \/ stop)
    /\ NoWait
    /\ pc' = "command"
    /\ UNCHANGED <<flags, blocks, more, now, jobs, subs>>

\* @next_open, @before_close
Epoch ==
    /\ At("command")
    /\ \E d \in 0..Day :
          IF d = 0 THEN pc' = "command" /\ UNCHANGED due
          ELSE pc' = "epoch" /\ due' = d
    /\ UNCHANGED <<flags, blocks, more, now, target, delta, since, wrap, jobs, subs>>

EpochOver == due <= 0 \/ stop \/ sigint \/ sigterm

\* Mistake: the SIGTERM is taken for dealt with.
EpochCancelledAll ==
    /\ At("epoch") /\ EpochOver
    /\ sigint \/ sigterm \/ stop
    /\ sigint' = FALSE
    /\ sigterm' = FALSE
    /\ NoWait
    /\ pc' = "next"
    /\ UNCHANGED <<stop, blocks, more, now, jobs, subs>>

\* A SIGINT is dealt with here, a SIGTERM by the loop.
EpochCancelled ==
    /\ At("epoch") /\ EpochOver
    /\ sigint \/ sigterm \/ stop
    /\ sigint' = FALSE
    /\ NoWait
    /\ pc' = "next"
    /\ UNCHANGED <<sigterm, stop, blocks, more, now, jobs, subs>>

EpochFires ==
    /\ At("epoch") /\ EpochOver
    /\ ~sigint /\ ~sigterm /\ ~stop
    /\ NoWait
    /\ pc' = "command"
    /\ UNCHANGED <<flags, blocks, more, now, jobs, subs>>

-------------------------------------------------------------------------------
(* Blocks *)

\* watch, or a script with a while block; a source that cannot be opened ends
\* the block at once.
Enter ==
    /\ At("command") /\ Depth < MaxDepth
    /\ \E b \in Blocks :
          /\ blocks' = Append(blocks, b)
          /\ IF b = "stream"
             THEN /\ open' = open \cup {Depth + 1}
                  /\ registry' = IF Cardinality(registry) < MaxSubs
                                 THEN registry \cup {Depth + 1} ELSE registry
             ELSE UNCHANGED subs
    /\ pc' = "turn"
    /\ UNCHANGED <<flags, more, now, wait, jobs>>

\* The innermost block is left and its source closed.
Leave ==
    /\ blocks' = SubSeq(blocks, 1, Depth - 1)
    /\ open' = open \ {Depth}
    /\ registry' = registry \ {Depth}
    /\ pc' = "next"
    /\ UNCHANGED <<more, now, wait, jobs>>

\* watch runs its command until the flag is set, which it resets.
WatchTurn ==
    /\ At("turn") /\ blocks[Depth] = "watch" /\ ~stop
    /\ pc' = "line"
    /\ UNCHANGED <<flags, blocks, more, now, wait, jobs, subs>>

WatchEnds ==
    /\ At("turn") /\ blocks[Depth] = "watch" /\ stop
    /\ stop' = FALSE
    /\ Leave
    /\ UNCHANGED <<sigint, sigterm>>

\* A while whose condition holds, or whose source has another line.
WhileTurn ==
    /\ At("turn") /\ blocks[Depth] # "watch" /\ ~stop
    /\ pc' = "line"
    /\ UNCHANGED <<flags, blocks, more, now, wait, jobs, subs>>

\* The flag, the condition, the end of the source, or the bound on the turns.
WhileEnds ==
    /\ At("turn") /\ blocks[Depth] # "watch"
    /\ Leave
    /\ UNCHANGED flags

\* Mistake: break returns without closing the source.
BreakLeaks ==
    /\ At("command") /\ blocks # <<>> /\ blocks[Depth] # "watch"
    /\ blocks' = SubSeq(blocks, 1, Depth - 1)
    /\ pc' = "next"
    /\ UNCHANGED <<flags, more, now, wait, jobs, subs>>

Break ==
    /\ At("command") /\ blocks # <<>> /\ blocks[Depth] # "watch"
    /\ Leave
    /\ UNCHANGED flags

-------------------------------------------------------------------------------
(* What happens around the shell *)

Running == pc \notin {"terminated", "left"}

Sigint ==
    /\ Running /\ sigint' = TRUE
    /\ UNCHANGED <<sigterm, stop, pc, blocks, more, now, wait, jobs, subs>>

Sigterm ==
    /\ Running /\ sigterm' = TRUE
    /\ UNCHANGED <<sigint, stop, pc, blocks, more, now, wait, jobs, subs>>

\* A shell that waits for a time is not kept from the clock for longer than
\* MaxLag: it sleeps a tenth of a second at a time.  What is late by that much
\* is not told apart from what is later.
Tick ==
    /\ Running
    /\ At("time") => since < MaxLag
    /\ now' = (now + 1) % Day
    /\ since' = IF At("time") THEN since + 1 ELSE since
    /\ due' = IF due > (IF At("time") THEN -MaxLag ELSE 0) THEN due - 1 ELSE due
    /\ UNCHANGED <<flags, pc, blocks, more, target, delta, wrap, jobs, subs>>

\* The steps that wait for nobody.
Shell ==
    \/ PollTerm \/ Poll \/ Node \/ Next1
    \/ Exit \/ Execute \/ Background \/ Jobs \/ Fg
    \/ Time \/ TimeStep \/ TimeEnds \/ Epoch \/ EpochCancelled \/ EpochFires
    \/ Enter \/ WatchTurn \/ WatchEnds \/ WhileTurn \/ WhileEnds \/ Break

Others ==
    \/ ReadLine \/ ReadNull \/ ChildEnds \/ FgEnds
    \/ ProcEnds \/ Sigint \/ Sigterm \/ Tick

Next == Shell \/ Others

Spec == Init /\ [][Next]_vars

\* The shell gets the processor.  Users, children, signals and the clock come
\* when they like, if at all.
FairSpec == Spec /\ WF_vars(Shell)

-------------------------------------------------------------------------------
(* Properties *)

Job == [proc : Restored..Len(proc), active : BOOLEAN]

\* Types: a job names a process that was started, the tables keep their sizes,
\* and there are two waits, in each of which its variables mean something
\* (operators.c:203-216, streaming_sub.c:47-55).
TypeOK ==
    /\ {sigint, sigterm, stop, wrap} \subseteq BOOLEAN
    /\ pc \in {"poll", "read", "line", "command", "next", "child", "fg", "time",
               "epoch", "turn", "terminated", "left"}
    /\ blocks \in Seq(Blocks) /\ Depth <= MaxDepth
    /\ more \in 0..MaxMore
    /\ now \in 0..(Day - 1) /\ target \in 0..(Day - 1)
    /\ delta \in 0..(Day - 1) /\ since \in 0..MaxLag /\ due \in -MaxLag..Day
    /\ proc \in Seq({"running", "zombie", "reaped"}) /\ Len(proc) <= MaxProcs
    /\ table \in Seq(Job) /\ Len(table) <= MaxJobs
    /\ fgjob \in 0..Len(table) /\ (fgjob = 0 <=> pc # "fg")
    /\ registry \subseteq open /\ open \subseteq 1..MaxDepth
    /\ Cardinality(registry) <= MaxSubs

\* Every process in the background that has not been waited for has one active
\* entry as long as the table has never been full, and no active entry, full table
\* or not, names one that has been: its number may be another's, which clean_jobs()
\* and fg would wait for (operators.c:207-230, Commands.c:800-812).
JobsMatch ==
    /\ \A i \in DOMAIN table : table[i].active =>
          /\ table[i].proc = Restored \/ proc[table[i].proc] # "reaped"
          /\ \A j \in DOMAIN table : table[j].active /\ table[j].proc = table[i].proc
                                      => j = i
    /\ Len(table) < MaxJobs =>
          \A p \in DOMAIN proc : proc[p] # "reaped" =>
              \E i \in DOMAIN table : table[i].active /\ table[i].proc = p

\* Ctrl+C or SIGTERM ends a wait for the market though no clock brings its
\* instant (operators.c:82-83, what FIX M3-P6-1 was about); and a SIGTERM, on the
\* last command of a line, ends the shell with its state saved: the wait leaves
\* that flag to the loop (operators.c:91-96).
WaitEnds ==
    /\ (At("epoch") /\ (sigint \/ sigterm)) ~> ~At("epoch")
    /\ (blocks = <<>> /\ more = 0 /\ At("epoch") /\ sigterm) ~> At("terminated")

\* A command behind @HH:MM:SS whose time is still to come on this day does not
\* run before it, and runs less than the gap between two looks at the clock after
\* it, unless midnight can lie in that gap: then operators.c:25 takes the time to
\* be a day away (operators.c:18-29).  A time already past (wrap) and a wait that
\* finds watch_stop set are not this promise's: both run at once.
AtItsTime ==
    [][At("time") /\ pc' = "command" /\ ~wrap /\ ~stop =>
          /\ due <= 0
          /\ target + MaxLag <= Day => due > -MaxLag]_vars

\* Each source is open exactly while the block that reads it runs, so that the
\* prompt, where the only sweep is, finds none: break, end and flag all close it
\* (script.c:286, streaming_sub.c:248-291).
StreamsClosed ==
    open = {i \in DOMAIN blocks : blocks[i] = "stream"}

===============================================================================
