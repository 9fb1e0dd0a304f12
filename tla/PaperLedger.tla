----------------------------- MODULE PaperLedger -----------------------------
(***************************************************************************)
(* The in-process paper account of Las_shell (src/src/broker.c): orders,   *)
(* close_all and reset_paper of several shell processes over the account   *)
(* file, the daily order counter and the order log they share.  Each       *)
(* process loads the account once and then trusts its own copy.            *)
(*                                                                         *)
(* A missing file and an empty one are read alike, so both are NoAccount   *)
(* (NoBaseline).  Average costs, P&L and order numbers are not in the      *)
(* state; nor are DAILY_LOSS and ORDERS_TODAY of the C library's           *)
(* environment, which nothing here reads.                                  *)
(***************************************************************************)
EXTENDS Integers, FiniteSets

CONSTANTS
    Shells,      \* shell processes (a process that ended may be another later)
    Tickers,
    Allowed,     \* ALLOWED_SYMBOLS
    Slots,       \* MAX_POSITIONS
    MaxSize,     \* MAX_POSITION_SIZE
    MaxOrders,   \* MAX_ORDERS_PER_DAY
    Default,     \* cash of an account that was never saved
    Capitals,    \* amounts given to reset_paper
    Sizes,       \* sizes of orders
    Prices,      \* limit prices and market quotes
    Worlds,      \* how the shells of this instance are used
    MaxDay,      \* bound on the days that pass
    MaxCommands, \* bound on the commands given in each world
    NoAccount,
    NoBaseline

(* One shell at a time; a shell that waits for a child running one of its  *)
(* commands (las_shell -c, for |>, ?> and |); or any number side by side,  *)
(* with kills and failing saves.                                           *)
AllWorlds == {"alone", "child", "any"}

Accounts == [cash : Int, qty : [Tickers -> Int]]
Counters == [day : Nat, orders : Nat]

ASSUME LedgerAssumption ==
    /\ Allowed \subseteq Tickers
    /\ Slots \in Nat /\ MaxSize \in Nat /\ MaxOrders \in Nat \ {0}
    /\ Default \in Nat /\ Capitals \subseteq Nat \ {0}
    /\ Sizes \subseteq Nat \ {0} /\ Prices \subseteq Nat \ {0}
    /\ Worlds \subseteq AllWorlds
    /\ MaxDay \in Nat \ {0} /\ MaxCommands \in [AllWorlds -> Nat]
    /\ NoAccount \notin Accounts
    /\ NoBaseline \notin Counters

VARIABLES
    world,   \* which of Worlds this behaviour is in
    day,     \* the date
    file,    \* ~/.las_shell_paper_account
    base,    \* ~/.las_shell_daily_baseline
    pc,      \* pc[p]: where process p is in a command; "off" if it does not run
    loaded,  \* loaded[p]: g_paper.loaded
    held,    \* held[p]: the tickers with a slot in g_paper.positions
    book,    \* book[p]: cash and quantities of g_paper
    order,   \* order[p]: the order it is executing
    todo,    \* todo[p]: positions close_all has not come to
    seen,    \* seen[p]: the date and the count it is about to write to base
    given,   \* the number of commands given
    log,     \* history: the account the fills in the order log add up to
    fills    \* history: fills[d]: fills of day d, since the last reset

procVars == <<pc, loaded, held, book, order, todo, seen>>
history == <<log, fills>>
vars == <<world, day, file, base, procVars, given, history>>

-------------------------------------------------------------------------------
Opened(c) == [cash |-> c, qty |-> [t \in Tickers |-> 0]]
NoOrder == [side |-> "none"]
Orders == [side : {"buy", "sell"}, ticker : Tickers, size : Nat,
           price : Prices, back : {"idle", "closing"}]

\* Mistake: without a file only the cash is set, the quantities stay unwritten.
StoredRaw == IF file = NoAccount
             THEN [cash |-> Default, qty |-> [t \in Tickers |-> NoAccount]]
             ELSE file

\* What paper_load() finds.
Stored == IF file = NoAccount THEN Opened(Default) ELSE file

\* peek_orders_today()
OrdersToday ==
    IF base # NoBaseline /\ base.day = day THEN base.orders ELSE 0

\* Mistake: the last order of the day is one too many.
PassesOneMore(t, q) ==
    /\ q <= MaxSize
    /\ t \in Allowed
    /\ OrdersToday <= MaxOrders

\* The pre-trade checks of command_order().
Passes(t, q) ==
    /\ q <= MaxSize
    /\ t \in Allowed
    /\ OrdersToday < MaxOrders

\* Mistake: the cash is compared with the price of one share.
CanFillByPrice(p, o) ==
    IF o.side = "buy"
    THEN /\ book[p].cash >= o.price
         /\ o.ticker \in held[p] \/ Cardinality(held[p]) < Slots
    ELSE o.ticker \in held[p] /\ book[p].qty[o.ticker] >= o.size

\* Mistake: a sale only looks for the position, not at its quantity.
CanFillAnyPosition(p, o) ==
    IF o.side = "buy"
    THEN /\ book[p].cash >= o.price * o.size
         /\ o.ticker \in held[p] \/ Cardinality(held[p]) < Slots
    ELSE o.ticker \in held[p]

CanFill(p, o) ==
    IF o.side = "buy"
    THEN /\ book[p].cash >= o.price * o.size
         /\ o.ticker \in held[p] \/ Cardinality(held[p]) < Slots
    ELSE o.ticker \in held[p] /\ book[p].qty[o.ticker] >= o.size

After(acct, o) ==
    IF o.side = "buy"
    THEN [cash |-> acct.cash - o.price * o.size,
          qty  |-> [acct.qty EXCEPT ![o.ticker] = @ + o.size]]
    ELSE [cash |-> acct.cash + o.price * o.size,
          qty  |-> [acct.qty EXCEPT ![o.ticker] = @ - o.size]]

Init ==
    /\ world \in Worlds
    /\ day = 1
    /\ file = NoAccount
    /\ base = NoBaseline
    /\ pc = [p \in Shells |-> "off"]
    /\ loaded = [p \in Shells |-> FALSE]
    /\ held = [p \in Shells |-> {}]
    /\ book = [p \in Shells |-> Opened(Default)]
    /\ order = [p \in Shells |-> NoOrder]
    /\ todo = [p \in Shells |-> {}]
    /\ seen = [p \in Shells |-> NoBaseline]
    /\ given = 0
    /\ log = Opened(Default)
    /\ fills = [d \in 1..MaxDay |-> 0]

-------------------------------------------------------------------------------
\* Processes.

Goto(p, l) == pc' = [pc EXCEPT ![p] = l]
At(p, l) == pc[p] = l
Nobody == \A p \in Shells : At(p, "off")
AtRest == \A p \in Shells : pc[p] \in {"off", "idle"}

Start(p) ==
    /\ At(p, "off")
    /\ world = "any" \/ Nobody
    /\ Goto(p, "idle")
    /\ UNCHANGED <<world, day, file, base, loaded, held, book, order, todo, seen,
                   given, history>>

\* g_paper is gone.
Forget(p) ==
    /\ loaded' = [loaded EXCEPT ![p] = FALSE]
    /\ held' = [held EXCEPT ![p] = {}]
    /\ book' = [book EXCEPT ![p] = Opened(Default)]
    /\ order' = [order EXCEPT ![p] = NoOrder]
    /\ todo' = [todo EXCEPT ![p] = {}]
    /\ seen' = [seen EXCEPT ![p] = NoBaseline]
    /\ UNCHANGED <<world, day, file, base, given, history>>

\* A shell that was waiting for p goes on.
Exit(p) ==
    /\ At(p, "idle")
    /\ pc' = [q \in Shells |-> IF q = p THEN "off"
                               ELSE IF At(q, "waiting") THEN "idle" ELSE pc[q]]
    /\ Forget(p)

Kill(p) ==
    /\ world = "any"
    /\ ~At(p, "off")
    /\ Goto(p, "off")
    /\ Forget(p)

\* A command of p is run by another process, which starts with an empty
\* g_paper; p waits for it.
Spawn(p, c) ==
    /\ world = "child"
    /\ At(p, "idle") /\ At(c, "off")
    /\ \A q \in Shells : ~At(q, "waiting")
    /\ pc' = [pc EXCEPT ![p] = "waiting", ![c] = "idle"]
    /\ UNCHANGED <<world, day, file, base, loaded, held, book, order, todo, seen,
                   given, history>>

NewDay ==
    /\ day < MaxDay
    /\ day' = day + 1
    /\ UNCHANGED <<world, file, base, procVars, given, history>>

-------------------------------------------------------------------------------
\* Commands.

Command(p) ==
    /\ At(p, "idle")
    /\ given < MaxCommands[world]
    /\ given' = given + 1

\* paper_load(): only the first call reads the file.
LoadAccount(p) ==
    /\ loaded' = [loaded EXCEPT ![p] = TRUE]
    /\ IF loaded[p]
       THEN UNCHANGED <<held, book>>
       ELSE /\ book' = [book EXCEPT ![p] = Stored]
            /\ held' = [held EXCEPT ![p] = {t \in Tickers : Stored.qty[t] # 0}]

\* positions, balance and broker_status look at the account.
Look(p) ==
    /\ At(p, "idle") /\ ~loaded[p]
    /\ LoadAccount(p)
    /\ UNCHANGED <<world, day, file, base, pc, order, todo, seen, given, history>>

\* An order that passes the checks; one that does not is only logged.  The
\* price is the limit, or what the quote that is asked for later will say.
Place(p) ==
    /\ Command(p)
    /\ \E s \in {"buy", "sell"}, t \in Tickers, q \in Sizes, price \in Prices :
          /\ Passes(t, q)
          /\ order' = [order EXCEPT ![p] =
                [side |-> s, ticker |-> t, size |-> q, price |-> price, back |-> "idle"]]
    /\ Goto(p, "load")
    /\ UNCHANGED <<world, day, file, base, loaded, held, book, todo, seen, history>>

Load(p) ==
    /\ At(p, "load")
    /\ LoadAccount(p)
    /\ Goto(p, "fill")
    /\ UNCHANGED <<world, day, file, base, order, todo, seen, given, history>>

\* The command, or the order close_all gave, is over.
Return(p) ==
    /\ Goto(p, order[p].back)
    /\ order' = [order EXCEPT ![p] = NoOrder]

\* Cash, position or slots do not suffice: at most a line in the log.
Reject(p) ==
    /\ At(p, "fill")
    /\ ~CanFill(p, order[p])
    /\ Return(p)
    /\ UNCHANGED <<world, day, file, base, loaded, held, book, todo, seen, given, history>>

\* The copy in memory changes, then paper_save() truncates the file.  If it
\* cannot be opened the file stays as it was and the order is filled all the same.
Fill(p) ==
    /\ At(p, "fill")
    /\ CanFill(p, order[p])
    /\ book' = [book EXCEPT ![p] = After(@, order[p])]
    /\ held' = [held EXCEPT ![p] = @ \cup {order[p].ticker}]
    /\ fills' = [fills EXCEPT ![day] = @ + 1]
    /\ \/ file' = NoAccount /\ Goto(p, "save")
       \/ world = "any" /\ file' = file /\ Goto(p, "count")
    /\ UNCHANGED <<world, day, base, loaded, order, todo, seen, given, log>>

Save(p) ==
    /\ At(p, "save")
    /\ file' = book[p]
    /\ Goto(p, "count")
    /\ UNCHANGED <<world, day, base, loaded, held, book, order, todo, seen, given, history>>

\* update_daily_loss_tracking(): read, truncate, write.
Count(p) ==
    /\ At(p, "count")
    /\ seen' = [seen EXCEPT ![p] = [day |-> day, orders |-> OrdersToday + 1]]
    /\ Goto(p, "empty")
    /\ UNCHANGED <<world, day, file, base, loaded, held, book, order, todo, given, history>>

Empty(p) ==
    /\ At(p, "empty")
    /\ base' = NoBaseline
    /\ Goto(p, "write")
    /\ UNCHANGED <<world, day, file, loaded, held, book, order, todo, seen, given, history>>

Write(p) ==
    /\ At(p, "write")
    /\ base' = seen[p]
    /\ seen' = [seen EXCEPT ![p] = NoBaseline]
    /\ Goto(p, "log")
    /\ UNCHANGED <<world, day, file, loaded, held, book, order, todo, given, history>>

Log(p) ==
    /\ At(p, "log")
    /\ log' = After(log, order[p])
    /\ Return(p)
    /\ UNCHANGED <<world, day, file, base, loaded, held, book, todo, seen, given, fills>>

\* close_all: a market order for each position, in any order.
CloseAll(p) ==
    /\ Command(p)
    /\ LoadAccount(p)
    /\ todo' = [todo EXCEPT ![p] = {t \in held'[p] : book'[p].qty[t] # 0}]
    /\ Goto(p, "closing")
    /\ UNCHANGED <<world, day, file, base, order, seen, history>>

CloseNext(p) ==
    /\ At(p, "closing")
    /\ \E t \in todo[p] :
          LET q == book[p].qty[t]
          IN  /\ todo' = [todo EXCEPT ![p] = @ \ {t}]
              /\ \/ /\ Passes(t, q)
                    /\ \E price \in Prices :
                          order' = [order EXCEPT ![p] =
                             [side |-> "sell", ticker |-> t, size |-> q,
                              price |-> price, back |-> "closing"]]
                    /\ Goto(p, "load")
                 \/ /\ ~Passes(t, q)
                    /\ UNCHANGED <<order, pc>>
    /\ UNCHANGED <<world, day, file, base, loaded, held, book, seen, given, history>>

CloseDone(p) ==
    /\ At(p, "closing") /\ todo[p] = {}
    /\ Goto(p, "idle")
    /\ UNCHANGED <<world, day, file, base, loaded, held, book, order, todo, seen,
                   given, history>>

\* reset_paper --yes: unlink and create, write, then unlink the counter.
Reset(p) ==
    /\ Command(p)
    /\ \E c \in Capitals : book' = [book EXCEPT ![p] = Opened(c)]
    /\ held' = [held EXCEPT ![p] = {}]
    /\ loaded' = [loaded EXCEPT ![p] = TRUE]
    /\ file' = NoAccount
    /\ Goto(p, "resave")
    /\ UNCHANGED <<world, day, base, order, todo, seen, history>>

\* Mistake: reset_paper changes the account in memory only.
ResetNoSave(p) ==
    /\ At(p, "resave")
    /\ log' = book[p]
    /\ Goto(p, "uncount")
    /\ UNCHANGED <<world, day, file, base, loaded, held, book, order, todo, seen, given, fills>>

ResetSave(p) ==
    /\ At(p, "resave")
    /\ file' = book[p] \/ (world = "any" /\ file' = file)
    /\ log' = book[p]
    /\ Goto(p, "uncount")
    /\ UNCHANGED <<world, day, base, loaded, held, book, order, todo, seen, given, fills>>

ResetCount(p) ==
    /\ At(p, "uncount")
    /\ base' = NoBaseline
    /\ fills' = [d \in 1..MaxDay |-> 0]
    /\ Goto(p, "idle")
    /\ UNCHANGED <<world, day, file, loaded, held, book, order, todo, seen, given, log>>

Step(p) ==
    \/ Start(p) \/ Exit(p) \/ Kill(p) \/ Look(p)
    \/ Place(p) \/ Load(p) \/ Reject(p) \/ Fill(p) \/ Save(p)
    \/ Count(p) \/ Empty(p) \/ Write(p) \/ Log(p)
    \/ CloseAll(p) \/ CloseNext(p) \/ CloseDone(p)
    \/ Reset(p) \/ ResetSave(p) \/ ResetCount(p)

Next ==
    \/ NewDay
    \/ \E p \in Shells : Step(p) \/ \E c \in Shells : Spawn(p, c)

Spec == Init /\ [][Next]_vars

-------------------------------------------------------------------------------
(* Properties *)

Labels == {"off", "idle", "waiting", "load", "fill", "save", "count", "empty",
           "write", "log", "closing", "resave", "uncount"}

\* Every variable has its type; in particular an account in memory is never
\* the content of a truncated file (paper_load() keeps the defaults).
TypeOK ==
    /\ world \in AllWorlds
    /\ day \in Nat
    /\ file \in Accounts \cup {NoAccount}
    /\ base \in Counters \cup {NoBaseline}
    /\ pc \in [Shells -> Labels]
    /\ loaded \in [Shells -> BOOLEAN]
    /\ held \in [Shells -> SUBSET Tickers]
    /\ book \in [Shells -> Accounts]
    /\ order \in [Shells -> Orders \cup {NoOrder}]
    /\ todo \in [Shells -> SUBSET Tickers]
    /\ seen \in [Shells -> Counters \cup {NoBaseline}]
    /\ given \in Nat
    /\ log \in Accounts
    /\ fills \in [1..MaxDay -> Nat]

Sound(a) == a.cash >= 0 /\ \A t \in Tickers : a.qty[t] >= 0

\* No process ever holds, and no process ever finds on disk, an account that
\* is overdrawn or short of shares, whatever shells do side by side to the
\* file they share, wherever they are killed and whichever save fails.
NeverOverdrawn ==
    /\ \A p \in Shells : Sound(book[p])
    /\ file # NoAccount => Sound(file)

\* Between commands the account file holds what the fills in the order log
\* add up to since the last reset.
FileIsLog == AtRest => Stored = log

\* So it is as long as one shell at a time is used, over any number of loads,
\* saves, restarts, closed positions and resets.
LedgerIsLog == world = "alone" => FileIsLog

\* No day has more fills than MAX_ORDERS_PER_DAY unless the account was reset,
\* also when the date changes within an order and when a command runs in a
\* child while the shell waits: the counter is read and written in the order.
OrdersPerDay == world # "any" => \A d \in DOMAIN fills : fills[d] <= MaxOrders

\* One shell at a time behaves as the account a trader thinks of.
Promise ==
    INSTANCE PaperAccount WITH
        account <- IF \E p \in Shells : loaded[p]
                   THEN book[CHOOSE p \in Shells : loaded[p]] ELSE Stored
ImplementsAccount ==
    /\ world = "alone" => Promise!Init
    /\ [][world = "alone" => Promise!Next]_(Promise!vars)

===============================================================================
