# Las_shell: verification project

Las_shell is an interactive shell in C for trading desks: a command loop with operators of its own (`|>` logs
to CSV, `?>` is a risk gate, `~>` backtests), a paper trading account, broker adapters, an audit trail and crash
recovery. This directory holds TLA+ models of its stateful parts, the TLC configurations that check them and the
proofs TLAPS checks. All paths below are relative to the repository; the code is cited as `file:line`.

1. [The system](#1-the-system)  2. [Plan](#2-plan)  3. [Modules and code](#3-modules-and-code)
4. [Runs](#4-runs)  5. [Proofs](#5-proofs)  6. [Disagreements between code and text](#6-disagreements-between-code-and-text)
7. [Not modelled](#7-not-modelled)

## 1. The system

One process runs `shell_loop()` (`src/main.c`). It reads a line, expands aliases and substitutions, splits the line
into operator nodes and executes them; builtins run in the process itself, everything else in a child. Capturing
operators run builtins too in a child, as `las_shell -c <text>`. A second thread saves a checkpoint
periodically. All state that outlives the process is in dot files of the home directory, shared without
coordination by every shell of the user.

| Component | State | Operations | Talks to | Hard part |
|---|---|---|---|---|
| Crash recovery, `crash_recovery.c` | `~/.las_shell_state`, temporary file, thread, lock, pointer to the environment array | periodic save, `checkpoint save/restore/delete`, save at SIGTERM, start-up restore, clean exit | main loop (environment array), job and alias tables | two threads in one save routine; crash inside a save; array freed under a reader; join at exit |
| Operators, `operators.c`, `redirection.c` | list of nodes, position, last status | `&& \|\| ; & \|> ?> ~> \|`, groups, market waits | children, gate's checker, risk limits, logs | each handler runs both its operands on the turn of the right one; two copies of the gate |
| Paper account, `broker.c` | account in memory, account file, daily counter file, order log | `order`, `close_all`, `reset_paper`, `positions`, `balance` | risk configuration, quote script, environment | one copy per process; files truncated in place; checks and updates apart |
| Broker adapters, `broker.c` with curl | none but the log | order, cancel, positions over HTTP | broker, `sim_server.py` | lost answers and retries |
| Simulation server, `scripts/sim_server.py` | account, orders, state file | POST/DELETE/GET | adapters | crash while the state is rewritten |
| Audit, `audit.c` | last hash in memory, log, genesis file; a pipe and a thread per command | start a session, capture and log a command, verify, export | every top-level command | sessions appending to one chain; partial lines; a full pipe |
| Risk configuration, `risk_config.c` | limits | load, reload, validate, `assert` | gate, orders | reload clears before it reads |
| Signals and waits, `main.c`, `history.c`, `prompt.c`, `operators.c` | SIGINT, SIGTERM, watch flags | Ctrl+C, `watch`, `@HH:MM:SS`, `@next_open` | all loops | who polls which flag |
| Jobs, `operators.c`, `Commands.c` | table of 100 | `&`, `fg`, `bg`, reaping | children, crash recovery | a full table |
| Scripts, `script.c` | block stack | if/while/for, `execute_command_line` | operators | early exits, nesting |
| Streaming `$<()`, `streaming_sub.c` | registry of 32 | open, read a line, close, close all | children | a full registry, reaping |
| Aliases, trading environment | tables, dot files | alias, save/load | main loop | files rewritten in place |
| Calendar, currency | registries, read only after start | status, next boundary, conversions | waits, prompt | early closes, boundaries |
| Pipeline stages, scripts | none; the live feed has a cache file | stdin to stdout | operators | bounds; lost cache updates |

What makes each of the modelled parts correct:

- Crash recovery: a kill at any step of the thread's save leaves the old image or the new one; whatever the saves made of the
  file, a restore merges one image into the environment, all of it, or nothing; rubbish comes from a freed array only; a clean
  exit leaves nothing to restore.
- Operators: each command runs at most once and in its turn; nothing behind a gate that refused runs; a line means the
  list of items it reads as.
- Paper account: no account is overdrawn anywhere; file, memory and log agree between commands; the limit of orders
  per day holds; one shell behaves as one account.
- Signals and jobs: a command that waits for the market never runs after Ctrl+C and does not outlast it; a timed command
  runs at its time, neither before nor long after, unless midnight comes in between; the job table names what has not been
  waited for; sources end with their loops.
- Audit: a log that nobody tampered with verifies, just when no command in it spans lines; a log that verifies misses nothing;
  auditing a command neither blocks it nor loses its output.
- Live orders: the order log never calls an order filled that was not, or refused one that the broker fills later, but for one
  kind of failure (section 6); an answered fill is still there after a restart of the server; every order that leaves the shell
  ends in a line.
- Risk gate: the file read last decides, all of it and nothing older; one bad line refuses the whole text; what does
  not fit the buffer is never passed over in silence.
- Calendar: status, countdown and next boundary agree with each other at every minute; what waits for an opening runs
  while the exchange is open.

`PROJECT.json` lists the hazards at their lines, covered or not.

## 2. Plan

In the order of importance; the first eight and the last are done.

1. **Checkpoint** with the abstract `SessionStore`: the only truly concurrent part of the process.
2. **OperatorChain** with the abstract `CommandList`: decides what runs at all.
3. **PaperLedger** with the abstract `PaperAccount`: the state users care about, shared between processes.
4. **AuditLog** and **AuditCapture**: sessions appending to one hash chain and what verify accepts; the capture of a
   command's output.
5. **Session**: signal flags against what polls them (prompt, `watch`, waits, blocks), the job table, sources of `$<()`.
6. **RiskGate**: load, reload and `assert` of the limits, the checks of `?>`, the buffer of 64 KB, both copies.
7. **LiveBroker** over **SimServer**: adapters and `sim_server.py`, lost answers, restarts, timeouts.
8. **Calendar**: status, countdown and next boundary, each against what the status shows unit by unit.
9. **ScriptBlocks**, **TradingEnv**, the C pipeline stages, the live feed cache; `AuditLog` with the order log.
10. Theorems: every invariant, action property and refinement that a passing run checks is stated by a theorem (section 5
    has the hypotheses of some); what is left to TLC alone is liveness.

Modules are written to be proved about: constants with named assumptions, one action per operation, no recursive
operator. The number of runs is kept small: components with several modes of use carry the mode in a variable
(`world` in PaperLedger) or in the enumerated inputs (`Lines` in OperatorChain).

## 3. Modules and code

### Checkpoint (`crash_recovery.c`, callers in `main.c`, `Commands.c`)

A process id lives once; a restarted shell and a second shell are both simply another element of `Pid`. A writer is a
thread, `<<p, "main">>` or `<<p, "thread">>`, and both go through the steps of `checkpoint_save_now()`: `OpenTmp`,
`Serialise`, `WriteChunk` (one per `write(2)`), `Rename`, each with its failure. Files are inodes whose content is a
function from write position to what was written there, so that a truncation by one writer and a later write at an old
offset by another give a hole, as they do on disk. `refLive` says whether the pointer the thread was given still leads to
the live array: `SetenvNew` and `Unsetenv` reallocate it, a restore at the prompt too, and only the one at start-up is
seen by the thread. The main thread's path through start-up, commands, `Stop`, the save at SIGTERM and `Delete` is `pc`. A
process in `Batch` is a script or a child `las_shell -c`: it restores like any other (`main.c:652`), has no thread
(`StartBatch`), and ends after its last line without a stop or a deletion (`Return`), unless that line is `exit`.
`Commands[p]` is what process `p` may be told. An environment is a function from `Var` to values or `Absent`. `Kept` is
what a save keeps of it: a variable of more than 4096 characters is left out and a backslash followed by an `n` comes back
as a newline, which is what `Reread` may say of a value. `Restore` is the merge of `checkpoint_restore()`
(`crash_recovery.c:657-693`): a saved variable is set, one that is not in the image stays as it was, which for a new
process is what its parent gave it. `Garbage` in place of a value is what a read of a freed array may give, and a
nondeterministic choice. The array has fewer variables than `CHECKPOINT_MAX_ENV` (1024), at which the code stops.

`Crash` is a kill or a fault: it ends a process at any step, what it had in flight is lost and what `write(2)` took stays.
A loss of power is not modelled: the code does not `fsync()` before the rename (`crash_recovery.c:268-278`), so the file
it publishes may then be anything (section 6). Nor is a process whose number an earlier one had, which finds its temporary
file; the first thing a save does to it is to truncate it.

`taken` is a history: what every save has read from its array, for the two properties that ask where variables come from.

`SessionStore` has one stored session that is replaced and removed as a whole, and merged as a whole into the environment
of the shell that restores it; the mapping `Stored` reads the state file as the restore does.

### OperatorChain (`operators.c`, `redirection.c`)

A line is a sequence of nodes with a kind and the operator after them, as `split_on_operators()` makes them (`Parsed`).
`node` is the loop's position and `Before` the operator the loop looks at. One action per branch of `execute_sequence()`;
what a handler runs is the argument of `Run`. The gate has its exits as alternatives (`GateBreaks`, `GateLimits`,
`GateRejects`, `GatePasses`), and its second copy is `GateLogged`. Exit statuses are chosen freely. `runs`, `verdict`
and `skipped` record what happened, for the properties. `CommandList` is what a line means to its author.

### PaperLedger (`broker.c`)

| Module | Code |
|---|---|
| `loaded`, `held`, `book` | `g_paper`: loaded flag, tickers with a slot, cash and quantities |
| `file`, `base` | `~/.las_shell_paper_account`, `~/.las_shell_daily_baseline`; a missing and an empty file are read alike |
| `log`, `fills` | history: what the FILLED records of `~/.las_shell_order_log` add up to, and how many fills a day had |
| `Place`, `Passes` | `command_order()` up to the dispatch, with the three checks; an order that fails one changes nothing |
| `Load` | `paper_load()`, which reads the file in the first call only |
| `Fill`, `Reject`, `Save` | `paper_execute_buy/sell()` and `paper_save()`: truncation and write are two steps |
| `Count`, `Empty`, `Write` | `update_daily_loss_tracking()`: read, truncate, write |
| `Log` | `order_log_append()` |
| `CloseAll`, `CloseNext`, `CloseDone` | `command_close_all()`: one order per position through the same checks |
| `Reset`, `ResetSave`, `ResetCount` | `command_reset_paper()` |
| `Spawn` | a builtin run in a child by a capturing operator (`redirection.c:203`), while the shell waits |
| `Start`, `Exit`, `Kill`, `NewDay` | processes and the date |

`world` is how the shells are used: `alone` (one process at a time, restarts), `child` (a shell and the children it
waits for), `any` (side by side, with kills and saves that fail). It never changes. `PaperAccount` is the account as
its owner sees it: orders filled completely or not at all, and never beyond the cash or the position.

The order of positions in `close_all` is left open and the price of a market order is drawn when the order is placed;
neither can be told apart by the properties. Order numbers, average cost and P&L are left out.

### AuditLog (`audit.c`, entry points in `main.c`, `script.c`, `Commands.c`)

A chain hash is the genesis and the bodies it was computed from (SHA-256 without collisions), so that `LineVerifies` is
the recomputation `audit verify` makes, from the last hash above the line (`Before`). A body names the session and the
number of the command; the log is the sequence of its lines without the comments, `tail` the state of the last one.
`Start` to `Mark` is `audit_init()`: the genesis file is read (`ReadGenesis`), created and filled (`CreateGenesis`,
`WriteGenesis`) or read again (`RereadGenesis`), the chain is seeded from the last well-formed line (`SeedChain`), and the
session marker, a comment, ends a line that was cut. `Run` executes a command and advances the hash in memory; `LogWrite`
appends the record: wholly, in part, or not at all. A command may span lines (`spanning`): `$(...)` keeps the newlines
within an output, and so does the quoting of a record (section 6). Its record is one to its writer and several lines to
both readers: the first has the hash and a command that ends too early (`FirstLine`), the last no hash, unless it is a
comment. `audit verify` starts with the genesis file as well and then judges by `Accepts`.

`world` is `alone` (one process at a time, killed at any point) or `any` (side by side, with failing writes).

### AuditCapture (`audit_log_command()`)

Output is counted in units; `left` is what a command and a process it leaves in the background have still to write, `holds` who
has the pipe's write end open. `Drain` is the thread, which reads on when the buffer is full or missing; `Restore`, `Join`,
`Echo` are the shell. When no thread could be created the shell reads afterwards (`ReadLate`), and a command
that does not fit the pipe hangs, as the code warns.

### Session (`main.c`, `operators.c`, `Commands.c`, `script.c`, `streaming_sub.c`)

`pc` is what the shell is doing: the poll at the top of `shell_loop()`, the prompt, between commands, waiting for a child (`child`,
`fg`), for a time of day (`time`, `wait_until()`) or for the market (`epoch`, `wait_until_epoch()`), or at the head of a
block (`turn`). `blocks` is the stack of `watch` and `while` blocks it is in; what a line says is chosen freely, at the prompt
and in blocks. `Sigint` and `Sigterm` only set flags, as the handlers do. `now` is the clock of `localtime()`; `due` is the time
left until the instant a wait is for, below zero what the wait is late by, so that `TimeStep`, with its countdown `delta` in the
wrong unit and its correction, can be compared with it. `Resync` stands for the 10 of `delta % 10`, `since` is the time since the
last look at the clock; at most `MaxLag` passes between two looks. `table` and `proc` are `jobs[]` and the processes themselves;
`ProcEnds` makes a zombie, `CleanJobs` and `FgEnds` reap it. A restored job is an entry without a process of this shell.
`open` has the blocks whose source is open, `registry` those of them the sweep would find.

### LiveBroker over SimServer (`broker.c` sections 5 to 7, `scripts/sim_server.py`)

| Module | Code |
|---|---|
| `wire`, `up` | connections the server has accepted and not yet read; whether it listens |
| `job` | the request the one thread of the server is at: `open`, `write` (of the state file), `reply` |
| `acct`, `disk` | `_state`, `STATE_FILE`; `Torn` is the file between `open(..., "w")` and the dump |
| `TakeOrder`, `TakeCancel`, `TakeOther` | `do_POST`, `do_DELETE`, `do_GET` with their refusals and codes |
| `Save`, `Start` | `_save_state()` with an `OSError` it swallows; `main()` with `_load_state()` or `--reset` |
| `cur`, `answer` | the request `curl_easy_perform()` is in; what has come back |
| `CommandOrder`, `Refusal` | `command_order()` with its checks, confirmation and configuration |
| `AlpacaPath`... , `AlpacaStatus`... | what each adapter asks for, and the line it writes for each outcome |
| `Timeout`, `Receive`, `ShellDies` | the end of the wait |

A request is numbered by its command; `olog[n]` is the status of the line for order `n`. A timeout leaves the request with
the server, which may serve it later: that is why `REJECTED_TIMEOUT` is not among the `Refusals` of `LogIsTrue`. `Broken`
stands for the failures of a transfer the adapters log as `UNKNOWN_STATE_NO_CONFIRM`, `Failed` for all others, such as an
answer the shell has no memory for (`broker.c:666`); whatever comes back can turn into `Failed` (`Comes`), and `unread`
remembers the orders it happened to. `ran` and `forgot` are histories: what was filled at any time, and whether a start
ever found no account or a save failed. `order_log_append()` is taken to succeed (it returns in silence if it cannot open
the file, `broker.c:145-146`). The wait for a quote of a market order is a free choice of price. The daily count the
shell's check reads is a constant, since no adapter increments it.

### RiskGate (`risk_config.c`, `redirection.c`)

| Module | Code |
|---|---|
| `file`, `limits`, `loaded`, `line` | `~/.las_shell_risk`, `g_risk_cfg`, its flag, the line `fgets()` is at |
| `read` | history: the contents being read, or read last |
| `Open`, `ReadLine`, `EndOfFile` | `parse_config_file()` over `set_defaults()`, a line at a time while `at = "parse"`; a list is cut where `line[1024]` ends |
| `Reload`, `ReloadBase` | `riskconfig reload` and what it starts from |
| `Capture` | one `read()` of the left command's pipe, into `captured[65536]` |
| `LinesOf`, `ParsedLine` | the lines of the captured text, and what `parse_order_line()` makes of each |
| `Validate` | `validate_order_against_risk()` |
| `EndOfOutput`, `Checker`, `CheckerGone` | the checks, the checker's exit status, SIGPIPE |
| `CommandAssert` | `assert_risk_limits()` |

The output of the left command is cut to what the capture tells apart: an order line is a head (symbol and side) and a
tail (size, price, newline), a read brings some of them, and lengths count in such units. A dropped read may therefore
take the end of one line and the beginning of the next, and what is left is parsed as the code would.

### Calendar (`calendar.c`, waits in `operators.c`)

`Status` is `compute_day_schedule()` with `calendar_status()`, `UntilChange` is `calendar_minutes_until_change()` with its
`Boundaries`, `NextBoundary` is `find_next_boundary()`, and `LocalToUtc` the conversion with the offset of that date.
`ReadEntry` is a round of `parse_holiday_array()` over the three arrays of the exchange, one after the other: `AddHoliday`
puts an entry into its table, or drops it. `ex` is what `calendar_init()` finds, the built-in exchange or none; no command
runs before the last entry is read, and neither `ex` nor `holidays` changes afterwards. `Tick` is the clock;
`WaitForOpen`, `WaitForClose` and `Run` are `@next_open` and `@before_close M`. A pure module in all but these: the
properties compare the three computations with one another at every unit of a horizon. Two assumptions say what the code
takes for granted of its data, and what `src/calendar.json` is like for all its exchanges: the sessions of a day follow
one another and an early close fits among them (`RegistryAssumption`), and a zone changes its offset within a Sunday
(`ZoneAssumption`). The code checks neither.

## 4. Runs

| Run | Checks | Instance and why it is enough |
|---|---|---|
| `ck_thread` | `PublishedWhole`, `ImplementsStore` | two shells side by side in which only the threads save; they restore at start-up, give their variable another value in place, delete the file, exit and are killed, and every call of a save fails but the unchecked `fclose()`; one variable with a value that is kept and one that is not, so that images take one and two writes and a short one can meet the tail of a long one |
| `ck_all` | `TypeOK`, `CleanExitLeavesNothing`, `EnvIsReal`, `RestoresOneSave` | an interactive shell that sets new variables, removes them, saves and restores at the prompt, exits and gets SIGTERM, so that its two threads save at once and from freed arrays; a flush lost unseen, a fault in a freed page as the only crash; before or after it, not beside it, a batch shell that restores at its start, and saves and restores: that is the second life of the file. One variable: that a merge is one save in all its variables is what the theorem adds |
| `oc_lines` | `TypeOK`, `RunsBounded`, `FormsRunOnce`, `FormsAreGated`, `ImplementsList` | all lines of up to three items of documented forms (up to twelve nodes, so that a gate meets every neighbour) and all lines of three nodes of any kind |
| `ledger` | `TypeOK`, `NeverOverdrawn`, `LedgerIsLog`, `OrdersPerDay`, `ImplementsAccount` | three tickers and two slots (so that the table fills), five commands alone, four with children, two side by side (one overwrites the other), two days, two orders a day |
| `audit` | `TypeOK`, `LogVerifies`, `AcceptedHasNoGap`, `BreaksOnlyAtSeams` | four processes in turn with three commands each, so that a log is seeded, continued and verified; two side by side with two each, whose lines are cut and lost; two commands that span lines, so that one can follow the other and one can be the last |
| `capture` | `CaptureTypeOK`, `EchoesOutput`, `Returns` | a pipe and a read of two units, a buffer of three, up to four units from each process: each of the three can be full while the others are not |
| `session` | `TypeOK`, `JobsMatch`, `StreamsClosed`, `AtItsTime`, `WaitEnds` | a day of four units with a correction every two, and up to two units between two looks, so that waits are corrected, run late and lose their instant at midnight; a table of two and two processes, one place taken by a restored job or not; one registered source and two blocks; two commands a line |
| `live_broker` | `TypeOK`, `LogIsTrue`, `KeptAnswers`, `OrderEnds` | three commands through any adapter, so that an order can lie in the queue of a server that is killed, restarted, reset or cannot save while a second is filled and a third cancels it; connections that break and answers that cannot be taken in; capital for one order, so that the second buy is refused and a sell is possible after the first; one symbol, since no property depends on which (the refusal of a symbol is covered by the proofs only) |
| `risk_gate` | `TypeOK`, `PolicyInForce`, `LossIsReported` | nine files (limits set twice, replaced and empty lists, a list longer than a line), edits, reloads, `assert`; up to six units of output in reads of one or two with room for four, so that a read in the middle is dropped and the next one fits |
| `calendar` | `TypeOK`, `CountdownIsHonest`, `NextBoundaryIsFirst`, `RunsInTime` | four shapes of session (pre and after, lunch, both, pre only) and the built-in one; every choice of up to three holidays in a table of two, each closed, early or delayed; five days from a Friday by the hour, the last of them the last the registry covers; no change of the offset or one on the Sunday, either way |
| `oc_skipped`, `rg_logged` | one property each | the disagreements of section 6 |

`CHECK_DEADLOCK FALSE` stands where the system really stops: all processes have ended (`ck_*`), the line is at its end
(`oc_*`), no process may be started any more (`audit`), the command has returned or hangs for good (`capture`), the shell
has left (`session`), all commands are given and answered (`live_broker`), the horizon is reached (`calendar`). In
`ledger` a shell can always be started again, and in `risk_gate` a gate.

Bounds: `MaxLive` (shells at a time), `MaxSize` (writes per image), `Inode` (files), `MaxCommands` (commands per world; in
the audit trail, per session), `MaxSpanning` (commands that span lines), `MaxLag` (time between two looks at the clock),
`MaxDay`, `MaxStarts` (processes per world), `MaxOut` (output of a process), `MaxProcs`, `MaxDepth` and `MaxMore`
(background processes, nesting, commands of a line), `MaxRequests` (commands of a live session), `MaxRead` and `MaxChunk`
(units a left command writes, and of one read), `Horizon` (units the clock runs). `Room`, `ListRoom`, `Capacity` and
`Ahead` are the code's own limits, made small: 64 KB, a line of 1024, 256 holidays, 30 and 400 days. Symmetry of shells
(and tickers) is used in `ck_thread`, `ledger` and `audit`, whose properties are all safety. `ck_thread` has a view that
leaves out `taken`, which none of its properties names, and `ck_all` one of its own (`MCView`): states count as one that
differ in what no later step and no property reads, which is the result of an earlier restore, the array of a shell that
has ended, a buffer already written and the bytes of an inode nobody names or has open, since the next `fopen()` truncates
it.

Two clocks are assumed to be polled: `Session!Tick` does not move on while a timed wait has not looked at the clock for
`MaxLag`, since the wait sleeps a tenth of a second at a time and looks every ten of them, and `Calendar!Tick` not while
the instant a wait is for has come (`~Due`), so that `RunsInTime` holds of a shell that is scheduled within the minute.

Fairness. `AuditCapture!FairCapture`: weak fairness of the shell, the thread and the command in the foreground, which get
the processor; a process in the background writes what it has to when the pipe has room, but need not end; `Returns` also
says that it is never blocked. `Session!FairSpec`: weak fairness of the steps in which the shell waits for nobody; neither
users nor children, signals nor even the clock are fair, so that `WaitEnds` is not owed to the clock.
`LiveBroker!FairSpec`: weak fairness of `Timeout`, because libcurl's clock runs whatever the server does, and of
`Receive`; the server is not fair, so that `OrderEnds` is owed to the timeout alone.

Each property has a mutant in `PROJECT.json`: a plausible slip in the modelled code under which the same run fails.

## 5. Proofs

All theorems hold for every value of the constants that satisfies the named assumptions (`CheckpointAssumption`,
`OperatorAssumption`, `LedgerAssumption` and so on: types of the constants, positive sizes and prices, special values outside
the ordinary ones; for Calendar also the order of its data, section 3). Where a theorem has a hypothesis of its own, section 6
says what goes wrong without it. Each invariant below was checked by TLC first, then proved inductive: `Init` gives it, every
action keeps it.

**CheckpointProofs.**

- `TypesHold` rests on `WriterOK`, what a save has in hand at each of its steps (an open file exactly between
  open and close, an offset inside its image), and `ThreadInv`, where the thread can be for each position of the main
  thread.
- `CleanExit` (`CleanExitLeavesNothing`) adds ownership: an inode is used by at most one process (`OwnInv`), so that a
  state file left by another shell cannot be written by this one, and once its threads are joined nothing of it can be
  published (`ExitInv`).
- `RealEnvironments` (`EnvIsReal`) and `OneSaveRestored` (`RestoresOneSave`) have every command and fault, any number of
  processes and of variables. What a save holds and every byte on disk are of an image some save took (`HistoryInv`), and
  a restore accepts only bytes that are all of one image, so that what it merges is one of those; rubbish enters only with
  a read of an array its shell has replaced, and a reference that is dead stays dead (`ReferencesDie`).
- `QuietPublishedWhole` (`PublishedWhole`) covers sessions in which only the thread saves and no flush fails unseen
  (`QuietSession`): the file under the temporary name holds exactly the prefix written so far (`FillInv`), so a rename
  publishes a whole image. The hypothesis is needed: with two saving threads it is false, and `RealEnvironments`
  and `OneSaveRestored` are what still holds then.
- `SavesAreAtomic` (`ImplementsStore`), where moreover no shell with a thread uses a command that replaces its array,
  `setenv` of a new variable, `unsetenv` or `checkpoint restore` (`AtomicSession`): what the thread renames is what a save
  keeps of the environment its shell has at that instant (`HeldInv`), because the lock was held since it was read
  (`StableStep`). So the rename is the save of `SessionStore`, a restore its merge, and every other step a stutter, a
  removal or an update. Batch shells have no thread and may use all commands that do not save. Without the hypothesis a
  save is of an array that is no longer the shell's (section 6).

**OperatorChainProofs.** All rests on `StepShape`: a turn runs a set of commands between the left operand and the place
it goes to, and the left operand only if the operator captures.

- `RunsAreBounded` needs `BoundInv` (nothing ahead has run, nothing behind the left operand runs again) and holds of every line.
- `FormsRunAtMostOnce` (`FormsRunOnce`) and `FormsAreAlwaysGated` (`FormsAreGated`) are about lines of documented forms, of any
  length. They share `FormInv`: a left operand still waiting is the first of its item and has not run yet
  (`Pending`), and nothing joined behind a gate that refused is still ahead (`Behind`).
- `LinesRunAsLists` (`ImplementsList`): each turn of such a line is a turn of `CommandList` or none of its own. A turn defers the
  operand of a capturing operator, passes over an item that its connective skips, or runs an item to its end
  (`TurnDefers`, `TurnPasses`, `TurnRuns`), and only the last two change what the list sees.

**LedgerProofs.**

- `TypesHold` and `AccountsAreSound` (`NeverOverdrawn`) share one invariant, since the size of a closing order is a
  natural number only because accounts are sound: types, soundness of every account in memory and on disk, and that a
  process at work has an order in hand (`InHand`). They hold with any number of shells side by side.
- `FileFollowsLog` (`LedgerIsLog`) is about one shell at a time: `Agree` states for each point of a command how file, memory and log
  are related — equal at rest, the memory one order ahead between `Fill` and `Log`, the file behind it until `Save` — and `Single`
  that only one process runs.
- `DailyLimitHolds` (`OrdersPerDay`) covers shells in turn and shells with children. At most one process is busy; the
  fills of the day are at most the counter, one more between a fill and its count, and the count in hand while the file is
  rewritten (`Counted`). The day may change at any of these points.
- `LedgerIsAnAccount` (`ImplementsAccount`): one shell at a time is `PaperAccount`. The account is the memory of the shell if
  it has loaded it, and what a load would make of the file otherwise; a fill is an order of the account, everything else
  a stutter or a reset. `Selling` is needed for `close_all`: what it has still to sell is held, whatever it sells before.

**AuditProofs.** `TypesHold` carries the well-formedness of every seed and chain.

- `LogAlwaysVerifies` (`LogVerifies`) is about processes in turn, any number of them and of commands, spanning lines or
  not: every line verifies, or is the first of a command that spans lines, or has no hash and is right behind such a line
  (`Linked`); the genesis on disk is the one every record starts from, and the chain of the session at work is that of the
  last hash in the log (`Relies`). Hence the log verifies just when no command in it spans lines.
- `ChainBreaksOnlyAtSeams` (`BreaksOnlyAtSeams`) needs no such order. By `ChainInv` a hash in the log is that of one
  command of one session, the session at work goes on from the hash of its command before (`Remembered`), and so whoever
  has the hash of a command before it finds that a whole record extends it (`Seams`), whatever is missing, cut or spans
  lines between the two.
- `AcceptedLogsHaveNoGap` (`AcceptedHasNoGap`) does not either: each record was computed over the command before it in its
  session (`Carries`), so that a log in which a command is missing before a later one of the same session has a line that
  verify cannot recompute.

`OutputIsEchoed` (`EchoesOutput`) and `CaptureTypesHold` are
about AuditCapture: while the thread is there, what is captured is what was written minus what is in the pipe, up to `Cap`;
when the thread has ended, nobody can write.

**SessionProofs.** `JobsAlwaysMatch` (`JobsMatch`) rests on `JobInv`: no active entry is stale, no process has two (else
reaping through one would leave the other), and the job `fg` waits for stays active until it ends. `StreamsAlwaysClosed`
(`StreamsClosed`) needs that the prompt is reached outside every block, so that its sweep has nothing to take from a loop
that is still reading. `TypesHold` carries the bounds of table, registry and nesting. `TimesAreKept` (`AtItsTime`) is an
action property, for a time still to come on the day of the wait: what is left of it is what the clock says and the
countdown does not end before (`NotBefore`), and after a look at the clock past the instant it ends, so that it is late by
less than `MaxLag` unless the next day can have begun by then (`NotLong`), whatever the unit of the countdown.

**BrokerProofs** are about any number of commands, through any adapter, with every fault of shell and server.

- `TypesHold` (`TypeOK`): the server checks cash and position itself, so neither falls below zero even though its answers are lost.
- `LogsAreTrue` (`LogIsTrue`): requests are numbered increasingly along the wire, after the one being served and all that
  were filled (`Numbers`), so a request that was answered cannot be served again. What the log says and what the
  answer on its way will make it say agree with what was filled (`Truth`, `OrderAsked`); IBKR's orders reach no path the
  server has, so nothing of them is ever filled. A `REJECTED_NETWORK` for a transfer that failed after the request had gone out is
  excepted (section 6); one for a request that never left is not.
- `AnsweredFillsAreKept` (`KeptAnswers`): the server saves before it answers, so a fill is on disk when its 201 goes out,
  and a cancelled order is never a filled one (`Kept`).

**GateProofs** are about files of any length and any sizes of buffer. A list may be longer than a line; `PolicyInForce`
says nothing of such a file, whose list the code cuts (section 6).

- `PolicyIsInForce` (`PolicyInForce`): at every line of the file the limits are what the lines so far make of the defaults
  (`InForce`), so at its end the last setting of each counts, and nothing of an earlier file. `CheckIsPolicy` shows that the checks,
  in the code's order, pass exactly the permitted orders; `Judged` and `Asserted` carry that to the gate and to `assert`.
- `LossesAreReported` (`LossIsReported`): without a warning, what is captured is what was written (`Held`). `TypesHold` shares it.

**CalendarProofs** are about any number of exchanges and holidays, any length of the day, of the search and of the table, and
any hours and zone within the two assumptions of section 3.

- `Min` of a set is its least element (`MinIsLeast`): a set of naturals has one because `<` is well-founded, which is all the
  induction needed. `Split`, `Apart` and `OfDay` do the arithmetic of days whose length is a constant.
- The zone: local days never run backwards (`LocalDaysInOrder`), between two times of a day outside weekends the offset stays
  (`SteadyZone`), and on such a day `local_to_utc()` is the inverse of `utc_to_local()` (`ThereAndBack`).
- `CountdownsAreHonest` (`CountdownIsHonest`): an early close leaves the hours of its day in order (`HoursInOrder`), so
  the session is the same between two boundaries (`SteadySession`) and another one at each (`SessionChanges`), and after
  the last of a day and before the first of the next trading day the exchange is closed.
- `BoundariesAreFirst` (`NextBoundaryIsFirst`): the status shows an opening at the open of each trading day and at no other
  time (`OpensAtOpen`), and a close at its close (`ClosesAtClose`); no trading day with such a time to come lies
  before the day the search stops at (`BoundaryAhead`).
- `SearchesMissNothing`: those two say nothing where the code gives no answer (-1, or no time). Then there is none to give up to
  the end of the search (`Ahead`) or of the years the registry covers (`until`). No run checks this one.
- `TypesHold` and `CommandsRunInTime` (`RunsInTime`) need the inductive invariant `IInv`: what is in the table and what is
  still to be read fits the exchange (`Table`, `Reading`), and what the shell waits for is an opening, or a close
  `minutes` later, that has not passed (`Promised`).

**Only model-checked.** Liveness (`Returns`, `WaitEnds`, `OrderEnds`): fairness is about `ENABLED`, which is out of the
prover's reach. Their runs cover the instances of section 4.

## 6. Disagreements between code and text

Shown by runs (the quotations are in `PROJECT.json`):

- `oc_skipped`: what `&&` skips is run by the capturing operator behind it. Two shipped scripts have this form.
- `rg_logged`: the copy of the gate used with `|>` does not compare with the configured limits (`redirection.c:306`), though
  `redirection.c:266` calls the steps identical.

Met while modelling, without a run of their own.

Crash recovery and operators:

- The SIGTERM save and the thread's save share one temporary name (`crash_recovery.c:24-26`, `main.c:154`); the published
  file can be a mixture. `RestoresOneSave` of `ck_all` holds because the restore checks what it reads.
- The thread's reference to the environment is main()'s variable, which the shell loop no longer updates: after the first
  new variable it saves from a freed array (`main.c:758`, against the comment at `main.c:755-756`). In the model `SetenvNew`
  makes `refLive` false for good.
- A flush that fails in `fclose()` is ignored (`crash_recovery.c:269`); with `"fclose"` in `Faults` and a saving shell,
  `PublishedWhole` fails.
- "Atomic replace" (`crash_recovery.c:277`) holds for a kill, not for a loss of power: nothing is synced before the rename.
- A restore is a merge: what the saved shell had removed or never had stays in the shell that restores
  (`crash_recovery.c:657-693`), so that its environment afterwards may be one that no shell had before. No text promises
  more; `RestoresOneSave` says just this.
- `unsetenv` and `checkpoint restore` free the array without the lock, under the feet of the thread's save (`Commands.c:735`,
  `crash_recovery.c:691-693`): in the model what that save reads may be rubbish or kill the shell, and `EnvIsReal` allows for it.
- `crash_recovery.c:17-20` promises a warning for a live process; there is no such check.
- `a | b && c` before any other operator leaves a bar in the argument list of `a` (`operators.c:638-643`).
- On `a ?> c | n | e` the last `|` runs `n` and `e` although `c` refused (`operators.c:637`, against `redirection.c:401-402`);
  in `oc_lines` the documented forms do not have it and `FormsAreGated` holds.

Paper account:

- `close_all` cannot close a position larger than `MAX_POSITION_SIZE`, and returns 0 (`broker.c:1453`, `:1292`, against
  `broker.h:86`).
- A fill made in a child (`order buy ... |> trades.csv`) is overwritten by the next fill of a shell that had loaded its
  account before (`broker.c:330`): without `world = "alone"`, `LedgerIsLog` fails.
- The day's baseline is the cash after the first fill, and a purchase counts as a loss (`broker.c:207-235`).
- A full ledger refuses an order without a record in the log (`broker.c:433-438`), which is to have "every fill /
  rejection" (`broker.c:26`).
- `DAILY_LOSS` is set in the C library's environment (`broker.c:237`), while `assert_risk_limits()` reads the shell's own array
  (`risk_config.c:517`), so a bare `assert` does not see it, contrary to the comment at `broker.c:175-181`.

Audit:

- A command with a newline in it breaks the log of a single untouched session: `$(...)` keeps the newlines within an
  output (`substitution.c:53-57`) and is put in before the command is audited (`script.c:803-809`), a record keeps them
  too (`audit.c:288-300`), and both readers take the log line by line (`audit.c:381`, `:653`). `LogVerifies` says that
  nothing else does.
- Audited sessions side by side give two records the same predecessor; the lock covers the write, not the hash
  (`audit.c:329`). `BreaksOnlyAtSeams` says where the chain may break.
- Under `--audit`, plain commands, builtins and pipes typed at the prompt run in `shell_loop()` without
  `execute_command_line()` and are not logged, though `main.c:710` announces "All commands will be logged"; neither is `exit`.
- `cmd &` under `--audit` keeps the pipe's write end, so that the join waits for it: `audit.c:521-522` takes the shell's own for the
  last one. `Returns` states the exception.
- Only the first 64 KB of an audited command's output are shown, though "the user still sees all output" (`audit.c:455`).
- A shell killed between creating the genesis file and writing to it leaves it blank for good: every later process draws a
  genesis of its own and no log verifies; a second process that reads it in between does the same (`audit.c:239-240`: "so
  both sides agree").
- When memory is short, `chain_advance()` leaves the old hash in place and the record is written with it (`audit.c:309`).

Signals and scripts:

- After a Ctrl+C at the prompt every `@HH:MM:SS` runs its command at once, and one for the next day runs within a second anyway
  (`operators.c:21`, against `README.md:225`). `AtItsTime` leaves out both.
- A `@HH:MM:SS` whose instant and the midnight behind it fall between two looks at the clock takes the instant to be
  almost a day away (`operators.c:21-26` adds no day and knows no date) and runs the command on the next day. `AtItsTime`
  excepts the last `MaxLag` of a day.
- `watch` polls a flag that no signal handler sets (`Commands.c:1046`: "Loop until SIGINT (Ctrl+C) sets watch_stop flag"), so Ctrl+C
  does not end it; in the model `WatchTurn` needs `~stop`, which only the prompt makes false. A SIGTERM does not end `watch`,
  `while` or `@HH:MM:SS` either.
- `exit` inside a `while` on a source leaves that source open: `stream_sub_close_all()` is not called at exit
  (`streaming_sub.c:282`: "called from SIGINT handler and shell exit").

Live orders and the simulation server:

- A timeout is logged `REJECTED_TIMEOUT` although the broker may have the order and fill it later (`broker.c:791-800`).
- A transfer that fails after the request has gone out, with an error the adapters do not list, is logged
  `REJECTED_NETWORK` though the order may be filled (`broker.c:799-804`, `:1041`). A short count from the write callback
  (`broker.c:666`, `CURLE_WRITE_ERROR`) is one, although `broker.c:790-794` names it among the outcomes that are not known
  and not safe to retry. `LogIsTrue` excepts such lines.
- `ACCOUNT=PAPER` with a `BROKER_API` is refused without `LAS_SHELL_LIVE_CONFIRMED`, with the message that ACCOUNT is not `PAPER`
  (`broker.c:1337-1342`).
- An adapter without `BROKER_API` or `IBKR_ACCOUNT_ID` returns before it logs anything (`broker.c:742`, `:971`).
- Live orders are not counted, so `MAX_ORDERS_PER_DAY` does not limit them (`broker.c:1309-1311`, against
  `config/las_shell_risk.example:25`).
- Stop orders are sent without their price; the simulation server fills them at 0. It serves neither Alpaca's `/v2/positions` nor
  any path of IBKR.
- After a start with a fresh account, ids begin again, and `cancel` may name another order than the one meant.

Risk configuration and gate:

- `config/las_shell_risk.example:22` says of the notional limit "Orders with no price supplied skip this check"; the code rejects
  them. `:30` has the drawdown limit for "assert / ?> gate"; only `assert` compares it.
- `order` compares with the maximal size, the allowed symbols and the daily count only; blocked symbols, the minimal size and the
  notional are the gate's (`broker.c:1288-1315`).
- Without a file "all orders pass" (`risk_config.h:143`), yet the gate compares with the defaults: `load_risk_config()`
  sets `g_risk_loaded` all the same (`risk_config.c:257`, `:397`), as `:254` says, "defaults are in effect". `assert`,
  however, passes whatever they say (`:498-501`). `PolicyInForce` has what the code does.
- A directive is cut at 1024 characters (`risk_config.c:127`), so that a list never holds the 256 symbols it has room for.
- A captured chunk that does not fit is dropped and a later one appended, so that parts of two orders can meet on one
  line; the plain gate warns, the one used with `|>` does not.
- A checker that exits before it has read its input ends the shell, and with it the session, by SIGPIPE (`redirection.c:545`).
  `CheckerGone` models it; no property forbids it.

Calendar:

- `calendar.h:144-145` and `:158` promise a boundary "at or after now"; at the minute of an opening the next one is returned.
- The countdown is in minutes of the local clock and off by an hour across a change of the zone's offset.
- `delayed_open` days open at the usual time, since only `closed` and `early_close` are read.
- The comment at `calendar.c:245-249` puts generated holidays above explicit ones and says that explicit ones are authoritative.
- Weekends are Saturday and Sunday everywhere, also for the exchange that trades from Sunday to Thursday.
- On a half-day that ends at noon the lunch break is still reported after the close.

## 7. Not modelled

`PROJECT.json` has every component with its reason. Planned: the rest of the scripts (`if`, collecting of blocks), aliases
and trading environment, the pipeline stages, the live feed's cache. Not planned: tokenizer and helpers, prompt rendering, external
pipelines (pure plumbing or formatting), currencies, stateless scripts, strategies, build and tests.
