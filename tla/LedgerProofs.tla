----------------------------- MODULE LedgerProofs -----------------------------
(***************************************************************************)
(* Theorems about PaperLedger, for any shells, tickers, prices and limits: *)
(* no account is ever overdrawn, one shell at a time keeps the account     *)
(* file equal to what the order log adds up to and behaves as the account  *)
(* of PaperAccount, and no day has more fills than the limit.              *)
(***************************************************************************)
EXTENDS PaperLedger, TLAPS

-------------------------------------------------------------------------------
(* The account *)

\* A new account is an account, and nothing in it is negative.
LEMMA OpenedSound ==
    ASSUME NEW c \in Nat
    PROVE  Opened(c) \in Accounts /\ Sound(Opened(c))
BY DEF Opened, Accounts, Sound

\* An order leaves an account.
LEMMA AfterType ==
    ASSUME NEW a \in Accounts, NEW o \in Orders
    PROVE  After(a, o) \in Accounts
<1>1. o.price \in Nat /\ o.size \in Nat /\ o.ticker \in Tickers
    BY LedgerAssumption DEF Orders
<1>2. o.price * o.size \in Nat
    BY <1>1
<1>3. a.cash \in Int /\ a.qty \in [Tickers -> Int]
    BY DEF Accounts
<1>. DEFINE m == o.price * o.size
<1>4. m \in Nat
    BY <1>2
<1>. HIDE DEF m
<1>5. After(a, o) =
        IF o.side = "buy"
        THEN [cash |-> a.cash - m, qty |-> [a.qty EXCEPT ![o.ticker] = @ + o.size]]
        ELSE [cash |-> a.cash + m, qty |-> [a.qty EXCEPT ![o.ticker] = @ - o.size]]
    BY DEF After, m
<1>. QED
    BY <1>1, <1>3, <1>4, <1>5 DEF Accounts

\* An order that can be filled leaves a sound account.
LEMMA AfterSound ==
    ASSUME NEW p \in Shells, NEW o \in Orders, book[p] \in Accounts,
           Sound(book[p]), CanFill(p, o)
    PROVE  Sound(After(book[p], o))
<1>. DEFINE a == book[p]
            m == o.price * o.size
<1>1. o.price \in Nat /\ o.size \in Nat /\ o.ticker \in Tickers
    BY LedgerAssumption DEF Orders
<1>2. m \in Nat
    BY <1>1
<1>3. a.cash \in Nat /\ a.qty \in [Tickers -> Int] /\ \A t \in Tickers : a.qty[t] >= 0
    BY DEF Accounts, Sound
<1>4. IF o.side = "buy" THEN a.cash >= m ELSE a.qty[o.ticker] >= o.size
    BY DEF CanFill
<1>5. After(a, o) =
        IF o.side = "buy"
        THEN [cash |-> a.cash - m, qty |-> [a.qty EXCEPT ![o.ticker] = @ + o.size]]
        ELSE [cash |-> a.cash + m, qty |-> [a.qty EXCEPT ![o.ticker] = @ - o.size]]
    BY DEF After
<1>. HIDE DEF a, m
<1>6. Sound(After(a, o))
    BY <1>1, <1>2, <1>3, <1>4, <1>5 DEF Sound
<1>. QED
    BY <1>6 DEF a

\* What paper_load() finds is a sound account.
LEMMA StoredSound ==
    ASSUME TypeOK, NeverOverdrawn
    PROVE  Stored \in Accounts /\ Sound(Stored)
<1>1. Opened(Default) \in Accounts /\ Sound(Opened(Default))
    BY OpenedSound, LedgerAssumption
<1>. QED
    BY <1>1 DEF Stored, TypeOK, NeverOverdrawn

-------------------------------------------------------------------------------
(* Types, and accounts that are never overdrawn *)

Working == {"load", "fill", "save", "count", "empty", "write", "log"}

\* A process that works on an order has one, and the line it is about to write.
InHand ==
    \A p \in Shells :
        /\ pc[p] \in Working => order[p] \in Orders
        /\ pc[p] \in {"empty", "write"} => seen[p] \in Counters

Inv == TypeOK /\ InHand /\ NeverOverdrawn

LEMMA InitInv == Init => Inv
<1>. SUFFICES ASSUME Init PROVE Inv
    OBVIOUS
<1>1. Opened(Default) \in Accounts /\ Sound(Opened(Default))
    BY OpenedSound, LedgerAssumption
<1>2. TypeOK
    BY <1>1, LedgerAssumption DEF Init, TypeOK, Labels
<1>3. InHand
    BY DEF Init, InHand, Working
<1>4. NeverOverdrawn
    BY <1>1 DEF Init, NeverOverdrawn
<1>. QED
    BY <1>2, <1>3, <1>4 DEF Inv

\* A step that only moves p to a label where it has no order in hand.
LEMMA MoveInv ==
    ASSUME Inv, NEW p \in Shells, NEW l \in Labels \ Working, Goto(p, l),
           UNCHANGED <<world, file, loaded, held, book, order, seen, log, fills>>,
           day' \in Nat, given' \in Nat, base' \in Counters \cup {NoBaseline},
           todo' \in [Shells -> SUBSET Tickers]
    PROVE  Inv'
<1>1. TypeOK'
    BY DEF Inv, TypeOK, Goto
<1>2. InHand'
    BY DEF Inv, TypeOK, InHand, Goto, Working
<1>3. NeverOverdrawn'
    BY DEF Inv, NeverOverdrawn, Sound
<1>. QED
    BY <1>1, <1>2, <1>3 DEF Inv

LEMMA StartInv ==
    ASSUME Inv, NEW p \in Shells, Start(p)
    PROVE  Inv'
<1>1. "idle" \in Labels \ Working
    BY DEF Labels, Working
<1>. QED
    BY <1>1, MoveInv DEF Start, Inv, TypeOK, history

\* What it means that p has forgotten everything, whatever the labels become.
LEMMA ForgetInv ==
    ASSUME Inv, NEW p \in Shells, Forget(p), pc' \in [Shells -> Labels],
           \A q \in Shells : q # p /\ pc'[q] \in Working => pc'[q] = pc[q],
           pc'[p] \notin Working
    PROVE  Inv'
<1>1. Opened(Default) \in Accounts /\ Sound(Opened(Default))
    BY OpenedSound, LedgerAssumption
<1>2. TypeOK'
    BY <1>1 DEF Inv, TypeOK, Forget, history
<1>3. InHand'
    BY DEF Inv, TypeOK, InHand, Forget, Working
<1>4. NeverOverdrawn'
    BY <1>1 DEF Inv, TypeOK, NeverOverdrawn, Forget, Sound, history
<1>. QED
    BY <1>2, <1>3, <1>4 DEF Inv

LEMMA ExitInv ==
    ASSUME Inv, NEW p \in Shells, Exit(p)
    PROVE  Inv'
BY ForgetInv DEF Exit, Inv, TypeOK, Labels, Working, At

LEMMA KillInv ==
    ASSUME Inv, NEW p \in Shells, Kill(p)
    PROVE  Inv'
BY ForgetInv DEF Kill, Goto, Inv, TypeOK, Labels, Working

LEMMA SpawnInv ==
    ASSUME Inv, NEW p \in Shells, NEW c \in Shells, Spawn(p, c)
    PROVE  Inv'
<1>1. TypeOK'
    BY DEF Inv, TypeOK, Spawn, Labels, history
<1>2. InHand'
    BY DEF Inv, TypeOK, InHand, Spawn, Working
<1>3. NeverOverdrawn'
    BY DEF Inv, NeverOverdrawn, Spawn, Sound
<1>. QED
    BY <1>1, <1>2, <1>3 DEF Inv

LEMMA NewDayInv ==
    ASSUME Inv, NewDay
    PROVE  Inv'
<1>1. TypeOK'
    BY DEF Inv, TypeOK, NewDay, procVars, history
<1>2. InHand'
    BY DEF Inv, InHand, NewDay, procVars
<1>3. NeverOverdrawn'
    BY DEF Inv, NewDay, procVars, NeverOverdrawn, Sound
<1>. QED
    BY <1>1, <1>2, <1>3 DEF Inv

-------------------------------------------------------------------------------

\* paper_load() leaves a sound account in memory.
LEMMA LoadSound ==
    ASSUME Inv, NEW p \in Shells, LoadAccount(p)
    PROVE  /\ loaded' \in [Shells -> BOOLEAN]
           /\ held' \in [Shells -> SUBSET Tickers]
           /\ book' \in [Shells -> Accounts]
           /\ \A q \in Shells : Sound(book'[q])
<1>1. Stored \in Accounts /\ Sound(Stored)
    BY StoredSound DEF Inv
<1>2. CASE loaded[p]
    BY <1>2 DEF LoadAccount, Inv, TypeOK, NeverOverdrawn
<1>3. CASE ~loaded[p]
    <2>1. {t \in Tickers : Stored.qty[t] # 0} \in SUBSET Tickers
        OBVIOUS
    <2>2. /\ book' = [book EXCEPT ![p] = Stored]
          /\ held' = [held EXCEPT ![p] = {t \in Tickers : Stored.qty[t] # 0}]
          /\ loaded' = [loaded EXCEPT ![p] = TRUE]
        BY <1>3 DEF LoadAccount
    <2>. QED
        BY <1>1, <2>1, <2>2 DEF Inv, TypeOK, NeverOverdrawn
<1>. QED
    BY <1>2, <1>3

LEMMA LookInv ==
    ASSUME Inv, NEW p \in Shells, Look(p)
    PROVE  Inv'
<1>1. /\ loaded' \in [Shells -> BOOLEAN]
      /\ held' \in [Shells -> SUBSET Tickers]
      /\ book' \in [Shells -> Accounts]
      /\ \A q \in Shells : Sound(book'[q])
    BY LoadSound DEF Look
<1>2. TypeOK'
    BY <1>1 DEF Inv, TypeOK, Look, history
<1>3. InHand'
    BY DEF Inv, InHand, Look
<1>4. NeverOverdrawn'
    BY <1>1 DEF Inv, NeverOverdrawn, Look, Sound
<1>. QED
    BY <1>2, <1>3, <1>4 DEF Inv

LEMMA LoadInv ==
    ASSUME Inv, NEW p \in Shells, Load(p)
    PROVE  Inv'
<1>1. /\ loaded' \in [Shells -> BOOLEAN]
      /\ held' \in [Shells -> SUBSET Tickers]
      /\ book' \in [Shells -> Accounts]
      /\ \A q \in Shells : Sound(book'[q])
    BY LoadSound DEF Load
<1>2. TypeOK'
    BY <1>1 DEF Inv, TypeOK, Load, Goto, Labels, history
<1>3. InHand'
    BY DEF Inv, TypeOK, InHand, Load, Goto, At, Working
<1>4. NeverOverdrawn'
    BY <1>1 DEF Inv, NeverOverdrawn, Load, Sound
<1>. QED
    BY <1>2, <1>3, <1>4 DEF Inv

LEMMA PlaceInv ==
    ASSUME Inv, NEW p \in Shells, Place(p)
    PROVE  Inv'
<1>1. PICK s \in {"buy", "sell"}, t \in Tickers, q \in Sizes, price \in Prices :
          order' = [order EXCEPT ![p] =
             [side |-> s, ticker |-> t, size |-> q, price |-> price, back |-> "idle"]]
    BY DEF Place
<1>2. [side |-> s, ticker |-> t, size |-> q, price |-> price, back |-> "idle"] \in Orders
    BY LedgerAssumption DEF Orders
<1>3. TypeOK'
    BY <1>1, <1>2 DEF Inv, TypeOK, Place, Command, Goto, Labels, history
<1>4. InHand'
    BY <1>1, <1>2 DEF Inv, TypeOK, InHand, Place, Command, Goto, Working
<1>5. NeverOverdrawn'
    BY DEF Inv, NeverOverdrawn, Place, Sound
<1>. QED
    BY <1>3, <1>4, <1>5 DEF Inv

\* The end of an order.
LEMMA ReturnInv ==
    ASSUME Inv, NEW p \in Shells, pc[p] \in Working, Return(p),
           UNCHANGED <<world, day, file, base, loaded, held, book, todo, seen, given, fills>>,
           log' \in Accounts
    PROVE  Inv'
<1>1. order[p].back \in {"idle", "closing"}
    BY DEF Inv, InHand, Orders
<1>2. TypeOK'
    BY <1>1 DEF Inv, TypeOK, Return, Goto, Labels
<1>3. InHand'
    BY <1>1 DEF Inv, TypeOK, InHand, Return, Goto, Working
<1>4. NeverOverdrawn'
    BY DEF Inv, NeverOverdrawn, Sound
<1>. QED
    BY <1>2, <1>3, <1>4 DEF Inv

LEMMA RejectInv ==
    ASSUME Inv, NEW p \in Shells, Reject(p)
    PROVE  Inv'
BY ReturnInv DEF Reject, At, Working, Inv, TypeOK, history

LEMMA LogInv ==
    ASSUME Inv, NEW p \in Shells, Log(p)
    PROVE  Inv'
<1>1. pc[p] \in Working /\ order[p] \in Orders
    BY DEF Log, At, Working, Inv, InHand
<1>2. log' \in Accounts
    BY <1>1, AfterType DEF Log, Inv, TypeOK
<1>. QED
    BY <1>1, <1>2, ReturnInv DEF Log

LEMMA FillInv ==
    ASSUME Inv, NEW p \in Shells, Fill(p)
    PROVE  Inv'
<1>1. order[p] \in Orders /\ book[p] \in Accounts /\ Sound(book[p])
    BY DEF Fill, At, Working, Inv, InHand, TypeOK, NeverOverdrawn
<1>2. After(book[p], order[p]) \in Accounts /\ Sound(After(book[p], order[p]))
    BY <1>1, AfterType, AfterSound DEF Fill
<1>3. book' = [book EXCEPT ![p] = After(book[p], order[p])]
    BY DEF Fill
<1>4. /\ pc' \in [Shells -> Labels]
      /\ \A q \in Shells : pc'[q] = pc[q] \/ (q = p /\ pc'[q] \in {"save", "count"})
      /\ file' \in {file, NoAccount}
    BY DEF Fill, Goto, Inv, TypeOK, Labels
<1>5. held' \in [Shells -> SUBSET Tickers]
    <2>1. order[p].ticker \in Tickers
        BY <1>1 DEF Orders
    <2>. QED
        BY <2>1 DEF Fill, Inv, TypeOK
<1>6. fills' \in [1..MaxDay -> Nat]
    <2>1. fills \in [1..MaxDay -> Nat]
        BY DEF Inv, TypeOK
    <2>2. fills' = [d \in 1..MaxDay |-> IF d = day THEN fills[d] + 1 ELSE fills[d]]
        BY <2>1 DEF Fill
    <2>. QED
        BY <2>1, <2>2
<1>7. TypeOK'
    BY <1>2, <1>3, <1>4, <1>5, <1>6 DEF Fill, Inv, TypeOK
<1>8. InHand'
    BY <1>1, <1>4 DEF Fill, Inv, InHand, Working
<1>9. NeverOverdrawn'
    BY <1>2, <1>3, <1>4 DEF Inv, TypeOK, NeverOverdrawn, Sound
<1>. QED
    BY <1>7, <1>8, <1>9 DEF Inv

LEMMA SaveInv ==
    ASSUME Inv, NEW p \in Shells, Save(p)
    PROVE  Inv'
<1>1. TypeOK'
    BY DEF Inv, TypeOK, Save, Goto, Labels, history
<1>2. InHand'
    BY DEF Inv, TypeOK, InHand, Save, Goto, At, Working
<1>3. NeverOverdrawn'
    BY DEF Inv, NeverOverdrawn, Save, Sound
<1>. QED
    BY <1>1, <1>2, <1>3 DEF Inv

LEMMA CountInv ==
    ASSUME Inv, NEW p \in Shells, Count(p)
    PROVE  Inv'
<1>1. OrdersToday \in Nat
    BY DEF Inv, TypeOK, OrdersToday, Counters
<1>2. [day |-> day, orders |-> OrdersToday + 1] \in Counters
    BY <1>1 DEF Inv, TypeOK, Counters
<1>3. TypeOK'
    BY <1>2 DEF Inv, TypeOK, Count, Goto, Labels, history
<1>4. InHand'
    BY <1>2 DEF Inv, TypeOK, InHand, Count, Goto, At, Working
<1>5. NeverOverdrawn'
    BY DEF Inv, NeverOverdrawn, Count, Sound
<1>. QED
    BY <1>3, <1>4, <1>5 DEF Inv

LEMMA EmptyInv ==
    ASSUME Inv, NEW p \in Shells, Empty(p)
    PROVE  Inv'
<1>1. TypeOK'
    BY DEF Inv, TypeOK, Empty, Goto, Labels, history
<1>2. InHand'
    BY DEF Inv, TypeOK, InHand, Empty, Goto, At, Working
<1>3. NeverOverdrawn'
    BY DEF Inv, NeverOverdrawn, Empty, Sound
<1>. QED
    BY <1>1, <1>2, <1>3 DEF Inv

LEMMA WriteInv ==
    ASSUME Inv, NEW p \in Shells, Write(p)
    PROVE  Inv'
<1>1. TypeOK'
    BY DEF Inv, TypeOK, InHand, Write, At, Goto, Labels, history
<1>2. InHand'
    BY DEF Inv, TypeOK, InHand, Write, Goto, At, Working
<1>3. NeverOverdrawn'
    BY DEF Inv, NeverOverdrawn, Write, Sound
<1>. QED
    BY <1>1, <1>2, <1>3 DEF Inv

LEMMA CloseAllInv ==
    ASSUME Inv, NEW p \in Shells, CloseAll(p)
    PROVE  Inv'
<1>1. /\ loaded' \in [Shells -> BOOLEAN]
      /\ held' \in [Shells -> SUBSET Tickers]
      /\ book' \in [Shells -> Accounts]
      /\ \A q \in Shells : Sound(book'[q])
    BY LoadSound DEF CloseAll
<1>2. {t \in held'[p] : book'[p].qty[t] # 0} \in SUBSET Tickers
    BY <1>1
<1>3. todo' \in [Shells -> SUBSET Tickers]
    BY <1>2 DEF CloseAll, Inv, TypeOK
<1>4. TypeOK'
    BY <1>1, <1>3 DEF Inv, TypeOK, CloseAll, Command, Goto, Labels, history
<1>5. InHand'
    BY DEF Inv, TypeOK, InHand, CloseAll, Goto, Working
<1>6. NeverOverdrawn'
    BY <1>1 DEF Inv, NeverOverdrawn, CloseAll, Sound
<1>. QED
    BY <1>4, <1>5, <1>6 DEF Inv

LEMMA CloseNextInv ==
    ASSUME Inv, NEW p \in Shells, CloseNext(p)
    PROVE  Inv'
<1>1. PICK t \in todo[p] :
        /\ todo' = [todo EXCEPT ![p] = @ \ {t}]
        /\ \/ /\ \E price \in Prices :
                    order' = [order EXCEPT ![p] =
                       [side |-> "sell", ticker |-> t, size |-> book[p].qty[t],
                        price |-> price, back |-> "closing"]]
              /\ Goto(p, "load")
           \/ UNCHANGED <<order, pc>>
    BY DEF CloseNext
<1>2. t \in Tickers /\ book[p].qty[t] \in Nat
    <2>1. t \in Tickers
        BY DEF Inv, TypeOK
    <2>2. book[p].qty[t] \in Int /\ book[p].qty[t] >= 0
        BY <2>1 DEF Inv, TypeOK, NeverOverdrawn, Sound, Accounts
    <2>. QED
        BY <2>1, <2>2
<1>3. todo' \in [Shells -> SUBSET Tickers]
    BY <1>1 DEF Inv, TypeOK
<1>4. CASE UNCHANGED <<order, pc>>
    <2>1. TypeOK'
        BY <1>3, <1>4 DEF Inv, TypeOK, CloseNext, history
    <2>2. InHand'
        BY <1>4 DEF Inv, InHand, CloseNext
    <2>3. NeverOverdrawn'
        BY DEF Inv, NeverOverdrawn, CloseNext, Sound
    <2>. QED
        BY <2>1, <2>2, <2>3 DEF Inv
<1>5. CASE Goto(p, "load") /\ ~UNCHANGED <<order, pc>>
    <2>1. PICK price \in Prices :
            order' = [order EXCEPT ![p] =
               [side |-> "sell", ticker |-> t, size |-> book[p].qty[t],
                price |-> price, back |-> "closing"]]
        BY <1>1, <1>5
    <2>2. [side |-> "sell", ticker |-> t, size |-> book[p].qty[t],
           price |-> price, back |-> "closing"] \in Orders
        BY <1>2 DEF Orders
    <2>3. TypeOK'
        BY <1>3, <1>5, <2>1, <2>2 DEF Inv, TypeOK, CloseNext, Goto, Labels, history
    <2>4. InHand'
        BY <1>5, <2>1, <2>2 DEF Inv, TypeOK, InHand, CloseNext, Goto, Working
    <2>5. NeverOverdrawn'
        BY DEF Inv, NeverOverdrawn, CloseNext, Sound
    <2>. QED
        BY <2>3, <2>4, <2>5 DEF Inv
<1>. QED
    BY <1>1, <1>4, <1>5

LEMMA CloseDoneInv ==
    ASSUME Inv, NEW p \in Shells, CloseDone(p)
    PROVE  Inv'
<1>1. "idle" \in Labels \ Working
    BY DEF Labels, Working
<1>. QED
    BY <1>1, MoveInv DEF CloseDone, Inv, TypeOK, history

LEMMA ResetInv ==
    ASSUME Inv, NEW p \in Shells, Reset(p)
    PROVE  Inv'
<1>1. PICK c \in Capitals : book' = [book EXCEPT ![p] = Opened(c)]
    BY DEF Reset
<1>2. Opened(c) \in Accounts /\ Sound(Opened(c))
    BY OpenedSound, LedgerAssumption
<1>3. TypeOK'
    BY <1>1, <1>2 DEF Inv, TypeOK, Reset, Command, Goto, Labels, history
<1>4. InHand'
    BY DEF Inv, TypeOK, InHand, Reset, Goto, Working
<1>5. NeverOverdrawn'
    BY <1>1, <1>2 DEF Inv, TypeOK, NeverOverdrawn, Reset, Sound
<1>. QED
    BY <1>3, <1>4, <1>5 DEF Inv

LEMMA ResetSaveInv ==
    ASSUME Inv, NEW p \in Shells, ResetSave(p)
    PROVE  Inv'
<1>1. file' \in {file, book[p]}
    BY DEF ResetSave
<1>2. TypeOK'
    BY <1>1 DEF Inv, TypeOK, ResetSave, Goto, Labels, history
<1>3. InHand'
    BY DEF Inv, TypeOK, InHand, ResetSave, Goto, Working
<1>4. NeverOverdrawn'
    BY <1>1 DEF Inv, NeverOverdrawn, ResetSave, Sound
<1>. QED
    BY <1>2, <1>3, <1>4 DEF Inv

LEMMA ResetCountInv ==
    ASSUME Inv, NEW p \in Shells, ResetCount(p)
    PROVE  Inv'
<1>1. TypeOK'
    BY DEF Inv, TypeOK, ResetCount, Goto, Labels
<1>2. InHand'
    BY DEF Inv, TypeOK, InHand, ResetCount, Goto, Working
<1>3. NeverOverdrawn'
    BY DEF Inv, NeverOverdrawn, ResetCount, Sound
<1>. QED
    BY <1>1, <1>2, <1>3 DEF Inv

LEMMA NextInv == Inv /\ [Next]_vars => Inv'
<1>. SUFFICES ASSUME Inv, [Next]_vars PROVE Inv'
    OBVIOUS
<1>1. CASE UNCHANGED vars
    <2>1. TypeOK'
        BY <1>1 DEF Inv, TypeOK, vars, procVars, history
    <2>2. InHand'
        BY <1>1 DEF Inv, InHand, vars, procVars, history
    <2>3. NeverOverdrawn'
        BY <1>1 DEF Inv, NeverOverdrawn, Sound, vars, procVars, history
    <2>. QED
        BY <2>1, <2>2, <2>3 DEF Inv
<1>2. CASE NewDay
    BY <1>2, NewDayInv
<1>3. ASSUME NEW p \in Shells, NEW c \in Shells, Spawn(p, c) PROVE Inv'
    BY <1>3, SpawnInv
<1>4. ASSUME NEW p \in Shells, Step(p) PROVE Inv'
    BY <1>4, StartInv, ExitInv, KillInv, LookInv, PlaceInv, LoadInv, RejectInv,
       FillInv, SaveInv, CountInv, EmptyInv, WriteInv, LogInv, CloseAllInv,
       CloseNextInv, CloseDoneInv, ResetInv, ResetSaveInv, ResetCountInv DEF Step
<1>. QED
    BY <1>1, <1>2, <1>3, <1>4 DEF Next

\* Every variable keeps its type: in particular every account a process loads is
\* an account, also when it finds the file truncated by another process.
THEOREM TypesHold == Spec => []TypeOK
<1>1. Inv => TypeOK
    BY DEF Inv
<1>. QED
    BY <1>1, InitInv, NextInv, PTL DEF Spec

\* However many shells share the account file, whatever they do to it side by
\* side, wherever they are killed and whichever save fails: no process holds or
\* finds an account that is overdrawn or short of shares.
THEOREM AccountsAreSound == Spec => []NeverOverdrawn
<1>1. Inv => NeverOverdrawn
    BY DEF Inv
<1>. QED
    BY <1>1, InitInv, NextInv, PTL DEF Spec

-------------------------------------------------------------------------------
(* One shell at a time *)

\* What the file, the memory and the log have to do with each other at each point
\* of a command.  Between Fill and Log the memory is one order ahead of the log;
\* between Fill and Save it is ahead of the file as well.
Agree(p) ==
    /\ pc[p] # "waiting"
    /\ pc[p] = "off" => ~loaded[p]
    /\ pc[p] \in {"idle", "load", "fill", "closing"} => Stored = log
    /\ pc[p] \in {"idle", "load", "fill", "closing"} /\ loaded[p] => book[p] = log
    /\ pc[p] \in {"fill", "closing"} => loaded[p]
    /\ pc[p] \in {"save", "count", "empty", "write", "log"} =>
          book[p] = After(log, order[p]) /\ loaded[p]
    /\ pc[p] \in {"count", "empty", "write", "log"} => file = book[p]
    /\ pc[p] \in {"resave", "uncount"} => loaded[p]
    /\ pc[p] = "uncount" => file = book[p] /\ log = book[p]

Single ==
    /\ \A p, q \in Shells : pc[p] # "off" /\ pc[q] # "off" => p = q
    /\ (\A p \in Shells : pc[p] = "off") => Stored = log
    /\ \A p \in Shells : Agree(p)

One == Inv /\ (world = "alone" => Single)

\* A file that holds an account is what the next process loads.
LEMMA StoredIsFile ==
    ASSUME file \in Accounts
    PROVE  Stored = file
BY LedgerAssumption DEF Stored

\* The process that runs is p; afterwards it is still the only one.
LEMMA OnlyOne ==
    ASSUME TypeOK, Single, NEW p \in Shells, pc[p] # "off",
           NEW l \in Labels, pc' = [pc EXCEPT ![p] = l],
           (l = "off") => (Stored = log)', Agree(p)',
           \A q \in Shells : q # p => loaded'[q] = loaded[q]
    PROVE  Single'
<1>1. \A q \in Shells : q # p => pc[q] = "off" /\ pc'[q] = "off"
    BY DEF Single, TypeOK
<1>2. pc'[p] = l
    BY DEF TypeOK
<1>3. \A q \in Shells : q # p => Agree(q)'
    BY <1>1 DEF Agree, Single
<1>. QED
    BY <1>1, <1>2, <1>3 DEF Single

LEMMA StartOne ==
    ASSUME Inv, Single, world = "alone", NEW p \in Shells, Start(p)
    PROVE  Single'
<1>1. \A q \in Shells : pc[q] = "off"
    BY DEF Start, Nobody, At
<1>2. pc' = [pc EXCEPT ![p] = "idle"]
    BY DEF Start, Goto
<1>3. Stored = log /\ (Stored = log)'
    BY <1>1 DEF Single, Start, Stored, history
<1>4. \A q \in Shells : ~loaded[q] /\ ~loaded'[q] /\ pc'[q] \in {"off", "idle"}
    BY <1>1, <1>2 DEF Single, Agree, Inv, TypeOK, Start
<1>5. \A q \in Shells : Agree(q)'
    BY <1>3, <1>4 DEF Agree
<1>. QED
    BY <1>1, <1>2, <1>5 DEF Single, Inv, TypeOK

LEMMA ExitOne ==
    ASSUME Inv, Single, world = "alone", NEW p \in Shells, Exit(p)
    PROVE  Single'
<1>1. \A q \in Shells : pc'[q] = "off"
    BY DEF Exit, At, Single, Inv, TypeOK
<1>2. (Stored = log)'
    BY DEF Exit, Forget, At, Single, Agree, Stored, history
<1>3. \A q \in Shells : Agree(q)'
    <2>1. \A q \in Shells : ~loaded'[q]
        BY DEF Exit, Forget, At, Single, Agree, Inv, TypeOK
    <2>. QED
        BY <1>1, <2>1 DEF Agree
<1>. QED
    BY <1>1, <1>2, <1>3 DEF Single

LEMMA PlaceOne ==
    ASSUME Inv, Single, NEW p \in Shells, Place(p)
    PROVE  Single'
<1>1. pc[p] = "idle" /\ pc' = [pc EXCEPT ![p] = "load"]
    BY DEF Place, Command, At, Goto
<1>2. Agree(p)'
    BY <1>1 DEF Inv, TypeOK, Single, Agree, Place, Stored, history
<1>. QED
    BY <1>1, <1>2, OnlyOne DEF Inv, TypeOK, Labels, Place

LEMMA SaveOne ==
    ASSUME Inv, Single, NEW p \in Shells, Save(p)
    PROVE  Single'
<1>1. Agree(p)'
    BY DEF Inv, TypeOK, Single, Agree, Save, Goto, At, Stored, After, history
<1>. QED
    BY <1>1, OnlyOne DEF Inv, TypeOK, Save, Goto, At, Labels

LEMMA CountOne ==
    ASSUME Inv, Single, NEW p \in Shells, Count(p)
    PROVE  Single'
<1>1. Agree(p)'
    BY DEF Inv, TypeOK, Single, Agree, Count, Goto, At, Stored, After, history
<1>. QED
    BY <1>1, OnlyOne DEF Inv, TypeOK, Count, Goto, At, Labels

LEMMA EmptyOne ==
    ASSUME Inv, Single, NEW p \in Shells, Empty(p)
    PROVE  Single'
<1>1. Agree(p)'
    BY DEF Inv, TypeOK, Single, Agree, Empty, Goto, At, Stored, After, history
<1>. QED
    BY <1>1, OnlyOne DEF Inv, TypeOK, Empty, Goto, At, Labels

LEMMA WriteOne ==
    ASSUME Inv, Single, NEW p \in Shells, Write(p)
    PROVE  Single'
<1>1. Agree(p)'
    BY DEF Inv, TypeOK, Single, Agree, Write, Goto, At, Stored, After, history
<1>. QED
    BY <1>1, OnlyOne DEF Inv, TypeOK, Write, Goto, At, Labels

LEMMA CloseDoneOne ==
    ASSUME Inv, Single, NEW p \in Shells, CloseDone(p)
    PROVE  Single'
<1>1. Agree(p)'
    BY DEF Inv, TypeOK, Single, Agree, CloseDone, Goto, At, Stored, After, history
<1>. QED
    BY <1>1, OnlyOne DEF Inv, TypeOK, CloseDone, Goto, At, Labels

LEMMA ResetSaveOne ==
    ASSUME Inv, Single, world = "alone", NEW p \in Shells, ResetSave(p)
    PROVE  Single'
<1>1. pc[p] = "resave" /\ pc' = [pc EXCEPT ![p] = "uncount"]
    BY DEF ResetSave, At, Goto
<1>2. Agree(p)'
    BY <1>1 DEF Inv, TypeOK, Single, Agree, ResetSave
<1>. QED
    BY <1>1, <1>2, OnlyOne DEF Inv, TypeOK, Labels, ResetSave

LEMMA ResetCountOne ==
    ASSUME Inv, Single, NEW p \in Shells, ResetCount(p)
    PROVE  Single'
<1>1. pc[p] = "uncount" /\ pc' = [pc EXCEPT ![p] = "idle"]
    BY DEF ResetCount, At, Goto
<1>2. file = book[p] /\ log = book[p] /\ file \in Accounts
    BY <1>1 DEF Single, Agree, Inv, TypeOK
<1>3. (Stored = log)'
    BY <1>2, StoredIsFile DEF ResetCount, Stored
<1>4. Agree(p)'
    BY <1>1, <1>2, <1>3 DEF Inv, TypeOK, Agree, ResetCount
<1>. QED
    BY <1>1, <1>4, OnlyOne DEF Inv, TypeOK, Labels, ResetCount

LEMMA ResetOne ==
    ASSUME Inv, Single, NEW p \in Shells, Reset(p)
    PROVE  Single'
<1>1. pc[p] = "idle" /\ pc' = [pc EXCEPT ![p] = "resave"]
    BY DEF Reset, Command, At, Goto
<1>2. Agree(p)'
    BY <1>1 DEF Inv, TypeOK, Agree, Reset
<1>. QED
    BY <1>1, <1>2, OnlyOne DEF Inv, TypeOK, Labels, Reset

\* After paper_load() the memory is what the log adds up to.
LEMMA LoadAgrees ==
    ASSUME Inv, Single, NEW p \in Shells, LoadAccount(p),
           pc[p] \in {"idle", "load"}
    PROVE  loaded'[p] /\ book'[p] = log
<1>1. Stored = log /\ (loaded[p] => book[p] = log)
    BY DEF Single, Agree
<1>. QED
    BY <1>1 DEF LoadAccount, Inv, TypeOK

LEMMA LookOne ==
    ASSUME Inv, Single, NEW p \in Shells, Look(p)
    PROVE  Single'
<1>1. pc[p] = "idle" /\ pc' = [pc EXCEPT ![p] = "idle"]
    BY DEF Look, At, Inv, TypeOK
<1>2. loaded'[p] /\ book'[p] = log
    BY <1>1, LoadAgrees DEF Look
<1>3. Agree(p)'
    BY <1>1, <1>2 DEF Inv, TypeOK, Single, Agree, Look, Stored, history
<1>. QED
    BY <1>1, <1>3, OnlyOne DEF Inv, TypeOK, Labels, Look, LoadAccount

LEMMA LoadOne ==
    ASSUME Inv, Single, NEW p \in Shells, Load(p)
    PROVE  Single'
<1>1. pc[p] = "load" /\ pc' = [pc EXCEPT ![p] = "fill"]
    BY DEF Load, At, Goto
<1>2. loaded'[p] /\ book'[p] = log
    BY <1>1, LoadAgrees DEF Load
<1>3. Agree(p)'
    BY <1>1, <1>2 DEF Inv, TypeOK, Single, Agree, Load, Stored, history
<1>. QED
    BY <1>1, <1>3, OnlyOne DEF Inv, TypeOK, Labels, Load, LoadAccount

LEMMA CloseAllOne ==
    ASSUME Inv, Single, NEW p \in Shells, CloseAll(p)
    PROVE  Single'
<1>1. pc[p] = "idle" /\ pc' = [pc EXCEPT ![p] = "closing"]
    BY DEF CloseAll, Command, At, Goto
<1>2. loaded'[p] /\ book'[p] = log
    BY <1>1, LoadAgrees DEF CloseAll
<1>3. Agree(p)'
    BY <1>1, <1>2 DEF Inv, TypeOK, Single, Agree, CloseAll, Stored, history
<1>. QED
    BY <1>1, <1>3, OnlyOne DEF Inv, TypeOK, Labels, CloseAll, LoadAccount

LEMMA CloseNextOne ==
    ASSUME Inv, Single, NEW p \in Shells, CloseNext(p)
    PROVE  Single'
<1>1. PICK l \in {"load", "closing"} : pc' = [pc EXCEPT ![p] = l]
    BY DEF CloseNext, Goto, At, Inv, TypeOK
<1>2. pc[p] = "closing"
    BY DEF CloseNext, At
<1>3. Agree(p)'
    BY <1>1, <1>2 DEF Inv, TypeOK, Single, Agree, CloseNext, Stored, history
<1>. QED
    BY <1>1, <1>2, <1>3, OnlyOne DEF Inv, TypeOK, Labels, CloseNext

LEMMA RejectOne ==
    ASSUME Inv, Single, NEW p \in Shells, Reject(p)
    PROVE  Single'
<1>1. pc[p] = "fill"
    BY DEF Reject, At
<1>2. PICK l \in {"idle", "closing"} : pc' = [pc EXCEPT ![p] = l]
    BY <1>1 DEF Reject, Return, Goto, Inv, InHand, Working, Orders
<1>3. Agree(p)'
    BY <1>1, <1>2 DEF Inv, TypeOK, Single, Agree, Reject, Stored, history
<1>. QED
    BY <1>1, <1>2, <1>3, OnlyOne DEF Inv, TypeOK, Labels, Reject

\* The memory gets ahead of file and log.
LEMMA FillOne ==
    ASSUME Inv, Single, world = "alone", NEW p \in Shells, Fill(p)
    PROVE  Single'
<1>1. pc[p] = "fill" /\ pc' = [pc EXCEPT ![p] = "save"]
    BY DEF Fill, At, Goto
<1>2. book[p] = log /\ loaded[p]
    BY <1>1 DEF Single, Agree
<1>3. book'[p] = After(log, order[p]) /\ log' = log /\ order' = order /\ loaded' = loaded
    BY <1>2 DEF Fill, Inv, TypeOK
<1>4. book'[p] = After(log, order[p])'
    BY <1>3 DEF After
<1>5. Agree(p)'
    BY <1>1, <1>2, <1>3, <1>4 DEF Inv, TypeOK, Agree
<1>. QED
    BY <1>1, <1>5, OnlyOne DEF Inv, TypeOK, Labels, Fill

\* The log catches up.
LEMMA LogOne ==
    ASSUME Inv, Single, NEW p \in Shells, Log(p)
    PROVE  Single'
<1>1. pc[p] = "log"
    BY DEF Log, At
<1>2. PICK l \in {"idle", "closing"} : pc' = [pc EXCEPT ![p] = l]
    BY <1>1 DEF Log, Return, Goto, Inv, InHand, Working, Orders
<1>3. book[p] = After(log, order[p]) /\ file = book[p] /\ loaded[p] /\ file \in Accounts
    BY <1>1 DEF Single, Agree, Inv, TypeOK
<1>4. log' = book[p] /\ file' = file /\ book' = book /\ loaded' = loaded
    BY <1>3 DEF Log
<1>5. Stored' = log'
    BY <1>3, <1>4, StoredIsFile DEF Stored
<1>6. Agree(p)'
    BY <1>1, <1>2, <1>3, <1>4, <1>5 DEF Inv, TypeOK, Agree
<1>. QED
    BY <1>1, <1>2, <1>6, OnlyOne DEF Inv, TypeOK, Labels, Log

\* No command and no step between two commands changes the world.
LEMMA WorldStays == [Next]_vars => world' = world
BY DEF Next, Step, Start, Exit, Kill, Look, Place, Load, Reject, Fill, Save, Count,
       Empty, Write, Log, CloseAll, CloseNext, CloseDone, Reset, ResetSave,
       ResetCount, NewDay, Spawn, Forget, vars

LEMMA InitOne == Init => One
<1>. SUFFICES ASSUME Init PROVE One
    OBVIOUS
<1>1. Single
    BY DEF Init, Single, Agree, Stored
<1>. QED
    BY <1>1, InitInv DEF One

LEMMA NextOne == One /\ [Next]_vars => One'
<1>. SUFFICES ASSUME One, [Next]_vars PROVE One'
    OBVIOUS
<1>1. Inv /\ Inv'
    BY NextInv DEF One
<1>2. world' = world
    BY WorldStays
<1>3. SUFFICES ASSUME world = "alone" PROVE Single'
    BY <1>1, <1>2 DEF One
<1>4. Single
    BY <1>3 DEF One
<1>5. CASE UNCHANGED vars
    BY <1>4, <1>5 DEF Single, Agree, Stored, After, vars, procVars, history
<1>6. CASE NewDay
    BY <1>4, <1>6 DEF Single, Agree, Stored, After, NewDay, procVars, history
<1>7. ASSUME NEW p \in Shells, NEW c \in Shells, Spawn(p, c) PROVE Single'
    BY <1>3, <1>7 DEF Spawn
<1>8. ASSUME NEW p \in Shells, Step(p) PROVE Single'
    <2>1. ~Kill(p)
        BY <1>3 DEF Kill
    <2>. QED
        BY <1>1, <1>3, <1>4, <1>8, <2>1, StartOne, ExitOne, LookOne, PlaceOne, LoadOne,
           RejectOne, FillOne, SaveOne, CountOne, EmptyOne, WriteOne, LogOne, CloseAllOne,
           CloseNextOne, CloseDoneOne, ResetOne, ResetSaveOne, ResetCountOne DEF Step
<1>. QED
    BY <1>5, <1>6, <1>7, <1>8 DEF Next

\* With one shell at a time the account file is, between commands, exactly what the
\* fills of the order log add up to since the last reset, whatever was bought, sold,
\* closed or reset and however often the shell was left and started again.
THEOREM FileFollowsLog == Spec => []LedgerIsLog
<1>1. One => LedgerIsLog
    <2>. SUFFICES ASSUME One, world = "alone", AtRest PROVE Stored = log
        BY DEF LedgerIsLog, FileIsLog
    <2>1. Single
        BY DEF One
    <2>2. CASE \A p \in Shells : pc[p] = "off"
        BY <2>1, <2>2 DEF Single
    <2>3. CASE \E p \in Shells : pc[p] = "idle"
        BY <2>1, <2>3 DEF Single, Agree
    <2>. QED
        BY <2>2, <2>3 DEF AtRest
<1>. QED
    BY <1>1, InitOne, NextOne, PTL DEF Spec

-------------------------------------------------------------------------------
(* The limit on the orders of a day *)

\* The processes that neither run nor wait for another.
Busy == {p \in Shells : pc[p] \notin {"off", "waiting"}}
Waiting == {p \in Shells : pc[p] = "waiting"}

\* Shells one at a time, or one that waits for the other.
OneBusy ==
    /\ \A p, q \in Busy : p = q
    /\ \A p, q \in Waiting : p = q

\* The fills of the date are at most the counter: less than the limit while an
\* order that passed the checks is under way, one more between its fill and the
\* new count, and the count in hand while the file is rewritten.
Counted(p) ==
    /\ pc[p] \in {"load", "fill"} => fills[day] < MaxOrders
    /\ pc[p] \in {"save", "count"} => fills[day] <= OrdersToday + 1
    /\ pc[p] \in {"empty", "write"} =>
          fills[day] <= (IF seen[p].day = day THEN seen[p].orders ELSE 0)

Rewriting == {"save", "count", "empty", "write"}

Limited ==
    /\ OneBusy
    /\ day \in 1..MaxDay
    /\ \A d \in 1..MaxDay : fills[d] <= MaxOrders /\ (d > day => fills[d] = 0)
    /\ \A p \in Shells :
          pc[p] \in Working => order[p].back \in {"idle", "closing"}
    /\ \A p \in Shells : Counted(p)
    /\ (\A p \in Shells : pc[p] \notin Rewriting) => fills[day] <= OrdersToday

Daily == Inv /\ (world # "any" => Limited)

\* A step of the busy process: the others do not move.
LEMMA LimitedStep ==
    ASSUME Inv, Limited, NEW p \in Busy, NEW l \in Labels \ {"waiting"},
           pc' = [pc EXCEPT ![p] = l], day' = day,
           \A q \in Shells : q # p => order'[q] = order[q],
           l \in Working => order'[p].back \in {"idle", "closing"},
           \A d \in 1..MaxDay : fills'[d] <= MaxOrders /\ (d > day => fills'[d] = 0),
           Counted(p)', l \notin Rewriting => (fills[day] <= OrdersToday)'
    PROVE  Limited'
<1>1. \A q \in Shells : q # p => pc[q] \in {"off", "waiting"} /\ pc'[q] = pc[q]
    BY DEF Limited, OneBusy, Busy, Inv, TypeOK
<1>2. pc'[p] = l /\ p \in Shells
    BY DEF Busy, Inv, TypeOK
<1>3. OneBusy'
    BY <1>1, <1>2 DEF Limited, OneBusy, Busy, Waiting
<1>4. \A q \in Shells : Counted(q)'
    BY <1>1 DEF Counted
<1>5. \A q \in Shells : pc'[q] \in Working => order'[q].back \in {"idle", "closing"}
    BY <1>1, <1>2 DEF Limited, Working
<1>6. (\A q \in Shells : pc[q] \notin Rewriting)' => (fills[day] <= OrdersToday)'
    BY <1>2
<1>. QED
    BY <1>3, <1>4, <1>5, <1>6 DEF Limited

\* So it is when neither the date nor the fills nor the counter change.
LEMMA QuietStep ==
    ASSUME Inv, Limited, NEW p \in Busy, NEW l \in Labels \ {"waiting"},
           pc' = [pc EXCEPT ![p] = l], UNCHANGED <<day, fills, base>>,
           \A q \in Shells : q # p => order'[q] = order[q],
           l \in Working => order'[p].back \in {"idle", "closing"},
           Counted(p)', pc[p] \notin Rewriting \/ l \in Rewriting
    PROVE  Limited'
<1>1. pc[p] \notin Rewriting => \A q \in Shells : pc[q] \notin Rewriting
    BY DEF Limited, OneBusy, Busy, Rewriting
<1>2. OrdersToday' = OrdersToday
    BY DEF OrdersToday
<1>3. l \notin Rewriting => (fills[day] <= OrdersToday)'
    BY <1>1, <1>2 DEF Limited
<1>4. \A d \in 1..MaxDay : fills'[d] <= MaxOrders /\ (d > day => fills'[d] = 0)
    BY DEF Limited
<1>. QED
    BY <1>3, <1>4, LimitedStep

LEMMA StartLimited ==
    ASSUME Inv, Limited, world # "any", NEW p \in Shells, Start(p)
    PROVE  Limited'
<1>1. \A q \in Shells : pc[q] = "off"
    BY DEF Start, Nobody, At
<1>2. \A q \in Shells : pc'[q] = IF q = p THEN "idle" ELSE "off"
    BY <1>1 DEF Start, Goto, Inv, TypeOK
<1>3. OneBusy'
    BY <1>2 DEF OneBusy, Busy, Waiting
<1>4. /\ \A q \in Shells : pc'[q] \notin Working /\ pc'[q] \notin Rewriting /\ Counted(q)'
      /\ \A q \in Shells : pc[q] \notin Rewriting
    BY <1>1, <1>2 DEF Working, Rewriting, Counted
<1>5. UNCHANGED <<day, base, fills>> /\ OrdersToday' = OrdersToday
    BY DEF Start, history, OrdersToday
<1>. QED
    BY <1>3, <1>4, <1>5 DEF Limited

LEMMA ExitLimited ==
    ASSUME Inv, Limited, NEW p \in Shells, Exit(p)
    PROVE  Limited'
<1>1. \A q \in Shells : q # p => pc[q] \in {"off", "waiting"}
    BY DEF Exit, At, Limited, OneBusy, Busy
<1>2. pc[p] = "idle" /\ pc'[p] = "off"
    BY DEF Exit, At
<1>3. \A q \in Shells : q # p => pc'[q] = IF pc[q] = "waiting" THEN "idle" ELSE "off"
    BY <1>1 DEF Exit, At
<1>4. OneBusy'
    BY <1>2, <1>3 DEF Limited, OneBusy, Busy, Waiting
<1>5. /\ \A q \in Shells : pc'[q] \notin Working /\ pc'[q] \notin Rewriting /\ Counted(q)'
      /\ \A q \in Shells : pc[q] \notin Rewriting
    BY <1>1, <1>2, <1>3 DEF Working, Rewriting, Counted
<1>6. UNCHANGED <<day, base, fills>> /\ OrdersToday' = OrdersToday
    BY DEF Exit, Forget, history, OrdersToday
<1>. QED
    BY <1>4, <1>5, <1>6 DEF Limited

LEMMA SpawnLimited ==
    ASSUME Inv, Limited, NEW p \in Shells, NEW c \in Shells, Spawn(p, c)
    PROVE  Limited'
<1>1. \A q \in Shells : q # p => pc[q] = "off"
    BY DEF Spawn, At, Limited, OneBusy, Busy
<1>2. pc[p] = "idle" /\ p # c
    BY DEF Spawn, At
<1>3. \A q \in Shells : pc'[q] = IF q = p THEN "waiting" ELSE IF q = c THEN "idle" ELSE "off"
    BY <1>1, <1>2 DEF Spawn, Inv, TypeOK
<1>4. OneBusy'
    BY <1>3 DEF OneBusy, Busy, Waiting
<1>5. /\ \A q \in Shells : pc'[q] \notin Working /\ pc'[q] \notin Rewriting /\ Counted(q)'
      /\ \A q \in Shells : pc[q] \notin Rewriting
    BY <1>1, <1>2, <1>3 DEF Working, Rewriting, Counted
<1>6. UNCHANGED <<day, base, fills>> /\ OrdersToday' = OrdersToday
    BY DEF Spawn, history, OrdersToday
<1>. QED
    BY <1>4, <1>5, <1>6 DEF Limited

\* A new date has no fills yet, whatever the order under way has counted.
LEMMA NewDayLimited ==
    ASSUME Inv, Limited, NewDay
    PROVE  Limited'
<1>1. day' = day + 1 /\ day' \in 1..MaxDay /\ fills[day'] = 0
    BY LedgerAssumption DEF NewDay, Limited, Inv, TypeOK
<1>2. UNCHANGED <<pc, order, seen, base, fills>>
    BY DEF NewDay, procVars, history
<1>3. base \in Counters \cup {NoBaseline}
    BY DEF Inv, TypeOK
<1>4. OrdersToday' \in Nat
    BY <1>2, <1>3 DEF OrdersToday, Counters
<1>5. (fills[day] <= OrdersToday)'
    BY <1>1, <1>2, <1>4
<1>6. ASSUME NEW q \in Shells PROVE Counted(q)'
    <2>1. pc[q] \in {"empty", "write"} => seen[q] \in Counters
        BY DEF Inv, InHand
    <2>2. pc[q] \in {"empty", "write"} => (IF seen[q].day = day' THEN seen[q].orders ELSE 0) \in Nat
        BY <2>1 DEF Counters
    <2>. QED
        BY <1>1, <1>2, <1>4, <2>2, LedgerAssumption DEF Counted
<1>7. \A d \in 1..MaxDay : fills'[d] <= MaxOrders /\ (d > day' => fills'[d] = 0)
    BY <1>1, <1>2 DEF Limited, Inv, TypeOK
<1>. QED
    BY <1>1, <1>2, <1>5, <1>6, <1>7 DEF Limited, OneBusy, Busy, Waiting

LEMMA LookLimited ==
    ASSUME Inv, Limited, NEW p \in Shells, Look(p)
    PROVE  Limited'
<1>1. p \in Busy /\ pc[p] = "idle" /\ pc' = [pc EXCEPT ![p] = "idle"]
    BY DEF Look, At, Busy, Inv, TypeOK
<1>2. Counted(p)'
    BY <1>1 DEF Counted, Inv, TypeOK
<1>. QED
    BY <1>1, <1>2, QuietStep DEF Look, history, Labels, Working, Rewriting

\* The checks of an order that is placed read the counter between orders.
LEMMA PassesLimit ==
    ASSUME Inv, Limited, NEW p \in Busy, pc[p] \notin Rewriting,
           NEW t, NEW q, Passes(t, q)
    PROVE  fills[day] < MaxOrders
<1>1. \A r \in Shells : pc[r] \notin Rewriting
    BY DEF Limited, OneBusy, Busy, Rewriting
<1>2. fills[day] \in Nat /\ OrdersToday \in Nat
    BY DEF Limited, Inv, TypeOK, OrdersToday, Counters
<1>. QED
    BY <1>1, <1>2, LedgerAssumption DEF Limited, Passes

LEMMA PlaceLimited ==
    ASSUME Inv, Limited, NEW p \in Shells, Place(p)
    PROVE  Limited'
<1>1. p \in Busy /\ pc[p] = "idle" /\ pc' = [pc EXCEPT ![p] = "load"]
    BY DEF Place, Command, Goto, At, Busy
<1>2. PICK s \in {"buy", "sell"}, t \in Tickers, q \in Sizes, price \in Prices :
          /\ Passes(t, q)
          /\ order' = [order EXCEPT ![p] =
             [side |-> s, ticker |-> t, size |-> q, price |-> price, back |-> "idle"]]
    BY DEF Place
<1>3. fills[day] < MaxOrders
    BY <1>1, <1>2, PassesLimit DEF Rewriting
<1>4. /\ order'[p].back = "idle"
      /\ \A r \in Shells : r # p => order'[r] = order[r]
    BY <1>2 DEF Inv, TypeOK
<1>5. UNCHANGED <<day, base, fills>>
    BY DEF Place, history
<1>6. Counted(p)'
    BY <1>1, <1>3, <1>5 DEF Counted, Inv, TypeOK
<1>. QED
    BY <1>1, <1>4, <1>5, <1>6, QuietStep DEF Labels, Rewriting

LEMMA LoadLimited ==
    ASSUME Inv, Limited, NEW p \in Shells, Load(p)
    PROVE  Limited'
<1>1. p \in Busy /\ pc[p] = "load" /\ pc' = [pc EXCEPT ![p] = "fill"]
    BY DEF Load, Goto, At, Busy
<1>2. UNCHANGED <<day, base, order, fills>>
    BY DEF Load, history
<1>3. Counted(p)'
    BY <1>1, <1>2 DEF Counted, Limited, Inv, TypeOK
<1>4. order[p].back \in {"idle", "closing"}
    BY <1>1 DEF Limited, Working
<1>. QED
    BY <1>1, <1>2, <1>3, <1>4, QuietStep DEF Labels, Rewriting

\* The end of an order, filled or not.
LEMMA ReturnLimited ==
    ASSUME Inv, Limited, NEW p \in Shells, pc[p] \in {"fill", "log"}, Return(p),
           UNCHANGED <<day, base, fills>>
    PROVE  Limited'
<1>1. PICK l \in {"idle", "closing"} : pc' = [pc EXCEPT ![p] = l]
    BY DEF Return, Goto, Limited, Working
<1>2. p \in Busy
    BY DEF Busy
<1>3. Counted(p)'
    BY <1>1 DEF Counted, Inv, TypeOK
<1>4. \A q \in Shells : q # p => order'[q] = order[q]
    BY DEF Return, Inv, TypeOK
<1>. QED
    BY <1>1, <1>2, <1>3, <1>4, QuietStep DEF Labels, Working, Rewriting

LEMMA RejectLimited ==
    ASSUME Inv, Limited, NEW p \in Shells, Reject(p)
    PROVE  Limited'
BY ReturnLimited DEF Reject, At, history

LEMMA LogLimited ==
    ASSUME Inv, Limited, NEW p \in Shells, Log(p)
    PROVE  Limited'
BY ReturnLimited DEF Log, At

\* The fill is in before the counter knows it.
LEMMA FillLimited ==
    ASSUME Inv, Limited, NEW p \in Shells, Fill(p)
    PROVE  Limited'
<1>1. PICK l \in {"save", "count"} : pc' = [pc EXCEPT ![p] = l]
    BY DEF Fill, Goto
<1>2. p \in Busy /\ pc[p] = "fill" /\ UNCHANGED <<day, base, order>>
    BY DEF Fill, At, Busy
<1>3. fills \in [1..MaxDay -> Nat] /\ day \in 1..MaxDay
    BY DEF Limited, Inv, TypeOK
<1>4. fills' = [fills EXCEPT ![day] = fills[day] + 1]
    BY DEF Fill
<1>5. fills[day] < MaxOrders
    BY <1>2 DEF Limited, Counted
<1>6. \A d \in 1..MaxDay : fills'[d] <= MaxOrders /\ (d > day => fills'[d] = 0)
    BY <1>3, <1>4, <1>5, LedgerAssumption DEF Limited
<1>7. \A q \in Shells : pc[q] \notin Rewriting
    BY <1>2 DEF Limited, OneBusy, Busy, Rewriting
<1>8. fills'[day] <= OrdersToday + 1
    <2>1. fills[day] <= OrdersToday /\ OrdersToday \in Nat
        BY <1>7 DEF Limited, Inv, TypeOK, OrdersToday, Counters
    <2>. QED
        BY <1>3, <1>4, <2>1
<1>9. Counted(p)'
    BY <1>1, <1>2, <1>8 DEF Counted, Inv, TypeOK, OrdersToday
<1>10. order[p].back \in {"idle", "closing"}
    BY <1>2 DEF Limited, Working
<1>. QED
    BY <1>1, <1>2, <1>6, <1>9, <1>10, LimitedStep DEF Labels, Rewriting

LEMMA SaveLimited ==
    ASSUME Inv, Limited, NEW p \in Shells, Save(p)
    PROVE  Limited'
<1>1. p \in Busy /\ pc[p] = "save" /\ pc' = [pc EXCEPT ![p] = "count"]
    BY DEF Save, Goto, At, Busy
<1>2. UNCHANGED <<day, base, order, fills>>
    BY DEF Save, history
<1>3. Counted(p)'
    BY <1>1, <1>2 DEF Counted, Limited, Inv, TypeOK, OrdersToday
<1>4. order[p].back \in {"idle", "closing"}
    BY <1>1 DEF Limited, Working
<1>. QED
    BY <1>1, <1>2, <1>3, <1>4, QuietStep DEF Labels, Rewriting

\* The count that will be written covers the fill, unless the date has changed.
LEMMA CountLimited ==
    ASSUME Inv, Limited, NEW p \in Shells, Count(p)
    PROVE  Limited'
<1>1. p \in Busy /\ pc[p] = "count" /\ pc' = [pc EXCEPT ![p] = "empty"]
    BY DEF Count, Goto, At, Busy
<1>2. UNCHANGED <<day, base, order, fills>>
    BY DEF Count, history
<1>3. seen'[p] = [day |-> day, orders |-> OrdersToday + 1]
    BY DEF Count, Inv, TypeOK
<1>4. Counted(p)'
    BY <1>1, <1>2, <1>3 DEF Counted, Limited, Inv, TypeOK
<1>5. order[p].back \in {"idle", "closing"}
    BY <1>1 DEF Limited, Working
<1>. QED
    BY <1>1, <1>2, <1>4, <1>5, QuietStep DEF Labels, Rewriting

LEMMA EmptyLimited ==
    ASSUME Inv, Limited, NEW p \in Shells, Empty(p)
    PROVE  Limited'
<1>1. p \in Busy /\ pc[p] = "empty" /\ pc' = [pc EXCEPT ![p] = "write"]
    BY DEF Empty, Goto, At, Busy
<1>2. UNCHANGED <<day, order, seen, fills>>
    BY DEF Empty, history
<1>3. Counted(p)'
    BY <1>1, <1>2 DEF Counted, Limited, Inv, TypeOK
<1>4. order[p].back \in {"idle", "closing"}
    BY <1>1 DEF Limited, Working
<1>5. \A d \in 1..MaxDay : fills'[d] <= MaxOrders /\ (d > day => fills'[d] = 0)
    BY <1>2 DEF Limited
<1>. QED
    BY <1>1, <1>2, <1>3, <1>4, <1>5, LimitedStep DEF Labels, Rewriting

LEMMA WriteLimited ==
    ASSUME Inv, Limited, NEW p \in Shells, Write(p)
    PROVE  Limited'
<1>1. p \in Busy /\ pc[p] = "write" /\ pc' = [pc EXCEPT ![p] = "log"]
    BY DEF Write, Goto, At, Busy
<1>2. UNCHANGED <<day, order, fills>> /\ base' = seen[p] /\ seen[p] \in Counters
    BY <1>1 DEF Write, history, Inv, InHand
<1>3. Counted(p)'
    BY <1>1 DEF Counted, Inv, TypeOK
<1>4. (fills[day] <= OrdersToday)'
    BY <1>1, <1>2, LedgerAssumption DEF Limited, Counted, OrdersToday
<1>5. order[p].back \in {"idle", "closing"}
    BY <1>1 DEF Limited, Working
<1>6. \A d \in 1..MaxDay : fills'[d] <= MaxOrders /\ (d > day => fills'[d] = 0)
    BY <1>2 DEF Limited
<1>. QED
    BY <1>1, <1>2, <1>3, <1>4, <1>5, <1>6, LimitedStep DEF Labels

LEMMA CloseAllLimited ==
    ASSUME Inv, Limited, NEW p \in Shells, CloseAll(p)
    PROVE  Limited'
<1>1. p \in Busy /\ pc[p] = "idle" /\ pc' = [pc EXCEPT ![p] = "closing"]
    BY DEF CloseAll, Command, Goto, At, Busy
<1>2. Counted(p)'
    BY <1>1 DEF Counted, Inv, TypeOK
<1>. QED
    BY <1>1, <1>2, QuietStep DEF CloseAll, history, Labels, Working, Rewriting

LEMMA CloseNextLimited ==
    ASSUME Inv, Limited, NEW p \in Shells, CloseNext(p)
    PROVE  Limited'
<1>1. p \in Busy /\ pc[p] = "closing" /\ UNCHANGED <<day, base, fills>>
    BY DEF CloseNext, At, Busy, history
<1>2. PICK t \in todo[p] :
         \/ /\ Passes(t, book[p].qty[t])
            /\ \E price \in Prices :
                  order' = [order EXCEPT ![p] =
                     [side |-> "sell", ticker |-> t, size |-> book[p].qty[t],
                      price |-> price, back |-> "closing"]]
            /\ Goto(p, "load")
         \/ UNCHANGED <<order, pc>>
    BY DEF CloseNext
<1>3. CASE UNCHANGED <<order, pc>>
    <2>1. pc' = [pc EXCEPT ![p] = "closing"]
        BY <1>1, <1>3 DEF Inv, TypeOK
    <2>2. Counted(p)'
        BY <1>1, <1>3 DEF Counted
    <2>. QED
        BY <1>1, <1>3, <2>1, <2>2, QuietStep DEF Labels, Working, Rewriting
<1>4. CASE ~UNCHANGED <<order, pc>>
    <2>1. fills[day] < MaxOrders
        BY <1>1, <1>2, <1>4, PassesLimit DEF Rewriting
    <2>2. pc' = [pc EXCEPT ![p] = "load"]
        BY <1>2, <1>4 DEF Goto
    <2>3. order'[p].back = "closing" /\ \A q \in Shells : q # p => order'[q] = order[q]
        BY <1>2, <1>4 DEF Inv, TypeOK
    <2>4. Counted(p)'
        BY <1>1, <2>1, <2>2 DEF Counted, Inv, TypeOK
    <2>. QED
        BY <1>1, <2>2, <2>3, <2>4, QuietStep DEF Labels, Rewriting
<1>. QED
    BY <1>3, <1>4

LEMMA CloseDoneLimited ==
    ASSUME Inv, Limited, NEW p \in Shells, CloseDone(p)
    PROVE  Limited'
<1>1. p \in Busy /\ pc[p] = "closing" /\ pc' = [pc EXCEPT ![p] = "idle"]
    BY DEF CloseDone, Goto, At, Busy
<1>2. Counted(p)'
    BY <1>1 DEF Counted, Inv, TypeOK
<1>. QED
    BY <1>1, <1>2, QuietStep DEF CloseDone, history, Labels, Working, Rewriting

LEMMA ResetLimited ==
    ASSUME Inv, Limited, NEW p \in Shells, Reset(p)
    PROVE  Limited'
<1>1. p \in Busy /\ pc[p] = "idle" /\ pc' = [pc EXCEPT ![p] = "resave"]
    BY DEF Reset, Command, Goto, At, Busy
<1>2. Counted(p)'
    BY <1>1 DEF Counted, Inv, TypeOK
<1>. QED
    BY <1>1, <1>2, QuietStep DEF Reset, history, Labels, Working, Rewriting

LEMMA ResetSaveLimited ==
    ASSUME Inv, Limited, NEW p \in Shells, ResetSave(p)
    PROVE  Limited'
<1>1. p \in Busy /\ pc[p] = "resave" /\ pc' = [pc EXCEPT ![p] = "uncount"]
    BY DEF ResetSave, Goto, At, Busy
<1>2. Counted(p)'
    BY <1>1 DEF Counted, Inv, TypeOK
<1>. QED
    BY <1>1, <1>2, QuietStep DEF ResetSave, Labels, Working, Rewriting

LEMMA ResetCountLimited ==
    ASSUME Inv, Limited, NEW p \in Shells, ResetCount(p)
    PROVE  Limited'
<1>1. p \in Busy /\ pc[p] = "uncount" /\ pc' = [pc EXCEPT ![p] = "idle"]
    BY DEF ResetCount, Goto, At, Busy
<1>2. UNCHANGED <<day, order>> /\ base' = NoBaseline /\ fills' = [d \in 1..MaxDay |-> 0]
    BY DEF ResetCount
<1>3. Counted(p)'
    BY <1>1 DEF Counted, Inv, TypeOK
<1>4. (fills[day] <= OrdersToday)'
    BY <1>2 DEF OrdersToday, Limited
<1>5. \A d \in 1..MaxDay : fills'[d] <= MaxOrders /\ (d > day => fills'[d] = 0)
    BY <1>2, LedgerAssumption
<1>. QED
    BY <1>1, <1>2, <1>3, <1>4, <1>5, LimitedStep DEF Labels, Working

LEMMA InitDaily == Init => Daily
<1>. SUFFICES ASSUME Init PROVE Daily
    OBVIOUS
<1>1. Limited
    BY LedgerAssumption
    DEF Init, Limited, OneBusy, Busy, Waiting, Counted, Working, OrdersToday
<1>. QED
    BY <1>1, InitInv DEF Daily

LEMMA NextDaily == Daily /\ [Next]_vars => Daily'
<1>. SUFFICES ASSUME Daily, [Next]_vars PROVE Daily'
    OBVIOUS
<1>1. Inv /\ Inv'
    BY NextInv DEF Daily
<1>2. SUFFICES ASSUME world # "any" PROVE Limited'
    BY <1>1, WorldStays DEF Daily
<1>3. Limited
    BY <1>2 DEF Daily
<1>4. CASE UNCHANGED vars
    BY <1>3, <1>4
    DEF Limited, OneBusy, Busy, Waiting, Counted, OrdersToday, vars, procVars, history
<1>5. CASE NewDay
    BY <1>1, <1>3, <1>5, NewDayLimited
<1>6. ASSUME NEW p \in Shells, NEW c \in Shells, Spawn(p, c) PROVE Limited'
    BY <1>1, <1>3, <1>6, SpawnLimited
<1>7. ASSUME NEW p \in Shells, Step(p) PROVE Limited'
    <2>1. ~Kill(p)
        BY <1>2 DEF Kill
    <2>. QED
        BY <1>1, <1>2, <1>3, <1>7, <2>1, StartLimited, ExitLimited, LookLimited,
           PlaceLimited, LoadLimited, RejectLimited, FillLimited, SaveLimited,
           CountLimited, EmptyLimited, WriteLimited, LogLimited, CloseAllLimited,
           CloseNextLimited, CloseDoneLimited, ResetLimited, ResetSaveLimited,
           ResetCountLimited DEF Step
<1>. QED
    BY <1>4, <1>5, <1>6, <1>7 DEF Next

\* MAX_ORDERS_PER_DAY holds for any limit: with one shell at a time, or one that
\* waits for the commands it has started, no day has more fills than the limit
\* since the last reset, whenever the date changes within an order.
THEOREM DailyLimitHolds == Spec => []OrdersPerDay
<1>1. Daily => OrdersPerDay
    BY DEF Daily, Limited, OrdersPerDay, Inv, TypeOK
<1>. QED
    BY <1>1, InitDaily, NextDaily, PTL DEF Spec

-------------------------------------------------------------------------------
(* One shell at a time is the account of PaperAccount *)

\* Nothing close_all has still to sell is touched by what it sells before, and
\* the order under way is one the account promises to fill.
Wanted(p) ==
    /\ \A t \in todo[p] : book[p].qty[t] > 0
    /\ todo[p] # {} =>
          /\ loaded[p]
          /\ \/ pc[p] = "closing"
             \/ /\ pc[p] \in Working /\ order[p].back = "closing"
                /\ order[p].ticker \notin todo[p]
    /\ pc[p] \in Working => order[p].size >= 1
    /\ pc[p] \in Working /\ order[p].side = "buy" => order[p].size \in Sizes

Selling == \A p \in Shells : Wanted(p)

Kept == One /\ Selling

\* A step that leaves what Wanted looks at alone, or drops what was wanted.
LEMMA WantedStays ==
    ASSUME Inv, NEW q \in Shells, Wanted(q),
           pc'[q] = pc[q] \/ (todo[q] = {} /\ pc'[q] \notin Working),
           loaded'[q] = loaded[q], book'[q] = book[q], order'[q] = order[q],
           todo'[q] = todo[q]
    PROVE  Wanted(q)'
BY DEF Wanted

\* Only p moves; the others want what they wanted.
LEMMA SellingStep ==
    ASSUME Inv, Selling, NEW p \in Shells, Wanted(p)',
           \A q \in Shells : q # p =>
              /\ pc'[q] = pc[q] /\ loaded'[q] = loaded[q] /\ book'[q] = book[q]
              /\ order'[q] = order[q] /\ todo'[q] = todo[q]
    PROVE  Selling'
<1>1. ASSUME NEW q \in Shells, q # p PROVE Wanted(q)'
    BY <1>1, WantedStays DEF Selling
<1>. QED
    BY <1>1 DEF Selling

\* Between commands nothing is left to sell.
LEMMA NothingWanted ==
    ASSUME Selling, NEW p \in Shells,
           pc[p] \notin Working \cup {"closing"}
    PROVE  todo[p] = {}
BY DEF Selling, Wanted

LEMMA ForgetSelling ==
    ASSUME Inv, Selling, NEW p \in Shells, Forget(p), pc'[p] = "off",
           \A q \in Shells : q # p => pc'[q] = pc[q]
                                   \/ (pc[q] = "waiting" /\ pc'[q] = "idle")
    PROVE  Selling'
<1>1. Wanted(p)'
    BY DEF Forget, Wanted, Inv, TypeOK, Working
<1>2. ASSUME NEW q \in Shells, q # p PROVE Wanted(q)'
    <2>1. pc[q] = "waiting" => todo[q] = {}
        BY NothingWanted DEF Working
    <2>. QED
        BY <1>2, <2>1, WantedStays DEF Selling, Forget, Inv, TypeOK, Working
<1>. QED
    BY <1>1, <1>2 DEF Selling

LEMMA SpawnSelling ==
    ASSUME Inv, Selling, NEW p \in Shells, NEW c \in Shells, Spawn(p, c)
    PROVE  Selling'
<1>1. ASSUME NEW q \in Shells PROVE Wanted(q)'
    <2>1. pc[q] \in {"idle", "off"} => todo[q] = {}
        BY NothingWanted DEF Working
    <2>2. Wanted(q)
        BY DEF Selling
    <2>3. \/ pc'[q] = pc[q]
          \/ pc[q] \in {"idle", "off"} /\ pc'[q] \in {"waiting", "idle"}
        BY DEF Spawn, At, Inv, TypeOK
    <2>. QED
        BY <2>1, <2>2, <2>3, WantedStays DEF Spawn, Working
<1>. QED
    BY <1>1 DEF Selling

LEMMA PlaceSelling ==
    ASSUME Inv, Selling, NEW p \in Shells, Place(p)
    PROVE  Selling'
<1>1. PICK s \in {"buy", "sell"}, t \in Tickers, q \in Sizes, price \in Prices :
          order' = [order EXCEPT ![p] =
             [side |-> s, ticker |-> t, size |-> q, price |-> price, back |-> "idle"]]
    BY DEF Place
<1>2. order'[p].size \in Sizes /\ order'[p].size >= 1
    BY <1>1, LedgerAssumption DEF Inv, TypeOK
<1>3. todo'[p] = {}
    BY NothingWanted DEF Place, Command, At, Working
<1>4. Wanted(p)'
    BY <1>2, <1>3 DEF Wanted
<1>. QED
    BY <1>1, <1>4, SellingStep DEF Place, Goto, Inv, TypeOK

\* paper_load() in the middle of close_all finds the account loaded.
LEMMA LoadWanted ==
    ASSUME Inv, NEW p \in Shells, Wanted(p), LoadAccount(p)
    PROVE  /\ \A t \in todo[p] : book'[p].qty[t] > 0
           /\ todo[p] # {} => loaded'[p]
           /\ \A q \in Shells : q # p => loaded'[q] = loaded[q] /\ book'[q] = book[q]
BY DEF Wanted, LoadAccount, Inv, TypeOK

LEMMA LookSelling ==
    ASSUME Inv, Selling, NEW p \in Shells, Look(p)
    PROVE  Selling'
<1>1. todo'[p] = {} /\ pc'[p] \notin Working
    BY NothingWanted DEF Look, At, Working
<1>2. Wanted(p)'
    BY <1>1 DEF Wanted
<1>. QED
    BY <1>2, LoadWanted, SellingStep DEF Look, Selling

LEMMA LoadSelling ==
    ASSUME Inv, Selling, NEW p \in Shells, Load(p)
    PROVE  Selling'
<1>1. Wanted(p) /\ pc[p] = "load" /\ pc' = [pc EXCEPT ![p] = "fill"]
    BY DEF Selling, Load, At, Goto
<1>2. UNCHANGED <<order, todo>>
    BY DEF Load
<1>3. /\ \A t \in todo[p] : book'[p].qty[t] > 0
      /\ todo[p] # {} => loaded'[p]
      /\ \A q \in Shells : q # p => loaded'[q] = loaded[q] /\ book'[q] = book[q]
    BY <1>1, LoadWanted DEF Load
<1>4. Wanted(p)'
    BY <1>1, <1>2, <1>3 DEF Wanted, Working, Inv, TypeOK
<1>. QED
    BY <1>1, <1>2, <1>3, <1>4, SellingStep DEF Inv, TypeOK

\* The order that is over is not one of those still to come.
LEMMA ReturnSelling ==
    ASSUME Inv, Selling, NEW p \in Shells, pc[p] \in Working, Return(p),
           UNCHANGED <<loaded, book, todo>>
    PROVE  Selling'
<1>1. order[p].back \in {"idle", "closing"} /\ Wanted(p)
    BY DEF Inv, InHand, Orders, Selling
<1>2. pc'[p] = order[p].back /\ \A q \in Shells : q # p => pc'[q] = pc[q] /\ order'[q] = order[q]
    BY DEF Return, Goto, Inv, TypeOK
<1>3. Wanted(p)'
    BY <1>1, <1>2 DEF Wanted, Working
<1>. QED
    BY <1>2, <1>3, SellingStep

\* What is sold is not wanted any more, and nothing else becomes less.
LEMMA FillSelling ==
    ASSUME Inv, Selling, NEW p \in Shells, Fill(p)
    PROVE  Selling'
<1>1. Wanted(p) /\ pc[p] = "fill" /\ order[p] \in Orders /\ book[p] \in Accounts
    BY DEF Selling, Fill, At, Inv, InHand, TypeOK, Working
<1>2. /\ book'[p] = After(book[p], order[p])
      /\ \A q \in Shells : q # p => book'[q] = book[q] /\ pc'[q] = pc[q]
      /\ pc'[p] \in {"save", "count"} /\ UNCHANGED <<order, todo, loaded>>
    BY DEF Fill, Goto, Inv, TypeOK
<1>3. ASSUME NEW t \in todo[p] PROVE book'[p].qty[t] > 0
    <2>1. t \in Tickers /\ t # order[p].ticker /\ book[p].qty[t] > 0
        BY <1>1, <1>3 DEF Wanted, Inv, TypeOK
    <2>2. book'[p].qty[t] = book[p].qty[t]
        BY <1>1, <1>2, <2>1 DEF After, Accounts
    <2>. QED
        BY <2>1, <2>2
<1>4. Wanted(p)'
    BY <1>1, <1>2, <1>3 DEF Wanted, Working
<1>. QED
    BY <1>2, <1>4, SellingStep

\* Nothing p does on the way from one label of an order to the next matters.
LEMMA WorkSelling ==
    ASSUME Inv, Selling, NEW p \in Shells, pc[p] \in Working,
           NEW l \in Working, Goto(p, l), UNCHANGED <<loaded, book, order, todo>>
    PROVE  Selling'
<1>1. pc'[p] = l /\ \A q \in Shells : q # p => pc'[q] = pc[q]
    BY DEF Goto, Inv, TypeOK
<1>2. Wanted(p)'
    BY <1>1 DEF Selling, Wanted, Working
<1>. QED
    BY <1>1, <1>2, SellingStep

\* Nothing is wanted outside orders and close_all.
LEMMA RestSelling ==
    ASSUME Inv, Selling, NEW p \in Shells, todo'[p] = {},
           NEW l \in Labels \ Working, Goto(p, l),
           \A q \in Shells : q # p =>
              /\ loaded'[q] = loaded[q] /\ book'[q] = book[q]
              /\ order'[q] = order[q] /\ todo'[q] = todo[q]
    PROVE  Selling'
<1>1. pc'[p] = l /\ \A q \in Shells : q # p => pc'[q] = pc[q]
    BY DEF Goto, Inv, TypeOK
<1>2. Wanted(p)'
    BY <1>1 DEF Wanted
<1>. QED
    BY <1>1, <1>2, SellingStep

LEMMA CloseAllSelling ==
    ASSUME Inv, Selling, NEW p \in Shells, CloseAll(p)
    PROVE  Selling'
<1>1. /\ book' \in [Shells -> Accounts] /\ held' \in [Shells -> SUBSET Tickers]
      /\ \A q \in Shells : Sound(book'[q])
    BY LoadSound DEF CloseAll
<1>2. /\ pc'[p] = "closing" /\ todo'[p] = {t \in held'[p] : book'[p].qty[t] # 0}
      /\ \A q \in Shells : q # p => pc'[q] = pc[q] /\ todo'[q] = todo[q]
    BY DEF CloseAll, Goto, Inv, TypeOK
<1>3. loaded'[p]
    BY DEF CloseAll, LoadAccount, Inv, TypeOK
<1>4. ASSUME NEW t \in todo'[p] PROVE book'[p].qty[t] > 0
    <2>1. t \in Tickers /\ book'[p].qty[t] # 0
        BY <1>1, <1>2
    <2>2. book'[p].qty[t] \in Int /\ book'[p].qty[t] >= 0
        BY <1>1, <2>1 DEF Accounts, Sound
    <2>. QED
        BY <2>1, <2>2
<1>5. Wanted(p)'
    BY <1>2, <1>3, <1>4 DEF Wanted, Working
<1>. QED
    BY <1>2, <1>5, LoadWanted, SellingStep DEF CloseAll, Selling

LEMMA CloseNextSelling ==
    ASSUME Inv, Selling, NEW p \in Shells, CloseNext(p)
    PROVE  Selling'
<1>1. PICK t \in todo[p] :
        /\ todo' = [todo EXCEPT ![p] = @ \ {t}]
        /\ \/ /\ \E price \in Prices :
                    order' = [order EXCEPT ![p] =
                       [side |-> "sell", ticker |-> t, size |-> book[p].qty[t],
                        price |-> price, back |-> "closing"]]
              /\ Goto(p, "load")
           \/ UNCHANGED <<order, pc>>
    BY DEF CloseNext
<1>2. Wanted(p) /\ pc[p] = "closing" /\ UNCHANGED <<loaded, book>>
    BY DEF Selling, CloseNext, At
<1>3. todo'[p] = todo[p] \ {t} /\ \A q \in Shells : q # p => todo'[q] = todo[q]
    BY <1>1 DEF Inv, TypeOK
<1>4. loaded[p] /\ book[p].qty[t] > 0 /\ t \in Tickers
    BY <1>2 DEF Wanted, Inv, TypeOK
<1>5. book[p].qty[t] \in Int
    BY <1>4 DEF Inv, TypeOK, Accounts
<1>6. CASE UNCHANGED <<order, pc>>
    <2>1. Wanted(p)'
        BY <1>2, <1>3, <1>6 DEF Wanted, Working
    <2>. QED
        BY <1>2, <1>3, <1>6, <2>1, SellingStep
<1>7. CASE ~UNCHANGED <<order, pc>>
    <2>1. PICK price \in Prices :
            order' = [order EXCEPT ![p] =
               [side |-> "sell", ticker |-> t, size |-> book[p].qty[t],
                price |-> price, back |-> "closing"]]
        BY <1>1, <1>7
    <2>2. /\ order'[p] = [side |-> "sell", ticker |-> t, size |-> book[p].qty[t],
                          price |-> price, back |-> "closing"]
          /\ \A q \in Shells : q # p => order'[q] = order[q]
        BY <2>1 DEF Inv, TypeOK
    <2>3. pc'[p] = "load" /\ \A q \in Shells : q # p => pc'[q] = pc[q]
        BY <1>1, <1>7 DEF Goto, Inv, TypeOK
    <2>4. Wanted(p)'
        BY <1>2, <1>3, <1>4, <1>5, <2>2, <2>3 DEF Wanted, Working
    <2>. QED
        BY <1>2, <1>3, <2>2, <2>3, <2>4, SellingStep
<1>. QED
    BY <1>6, <1>7

LEMMA InitSelling == Init => Selling
BY DEF Init, Selling, Wanted, Working

LEMMA NextSelling ==
    ASSUME Inv, Selling, [Next]_vars
    PROVE  Selling'
<1>1. CASE UNCHANGED vars
    BY <1>1 DEF Selling, Wanted, vars, procVars
<1>2. CASE NewDay
    BY <1>2 DEF Selling, Wanted, NewDay, procVars
<1>3. ASSUME NEW p \in Shells, NEW c \in Shells, Spawn(p, c) PROVE Selling'
    BY <1>3, SpawnSelling
<1>4. ASSUME NEW p \in Shells, Step(p) PROVE Selling'
    <2>1. CASE Start(p)
        BY <2>1, RestSelling, NothingWanted DEF Start, At, Working, Labels
    <2>2. CASE Exit(p)
        BY <2>2, ForgetSelling DEF Exit, At, Inv, TypeOK
    <2>3. CASE Kill(p)
        BY <2>3, ForgetSelling DEF Kill, Goto, Inv, TypeOK
    <2>4. CASE Look(p)
        BY <2>4, LookSelling
    <2>5. CASE Place(p)
        BY <2>5, PlaceSelling
    <2>6. CASE Load(p)
        BY <2>6, LoadSelling
    <2>7. CASE Reject(p) \/ Log(p)
        BY <2>7, ReturnSelling DEF Reject, Log, At, Working
    <2>8. CASE Fill(p)
        BY <2>8, FillSelling
    <2>9. CASE Save(p) \/ Count(p) \/ Empty(p) \/ Write(p)
        BY <2>9, WorkSelling DEF Save, Count, Empty, Write, At, Working
    <2>10. CASE CloseAll(p)
        BY <2>10, CloseAllSelling
    <2>11. CASE CloseNext(p)
        BY <2>11, CloseNextSelling
    <2>12. CASE CloseDone(p)
        BY <2>12, RestSelling DEF CloseDone, At, Working, Labels
    <2>13. CASE Reset(p)
        <3>1. todo'[p] = {}
            BY <2>13, NothingWanted DEF Reset, Command, At, Working
        <3>. QED
            BY <2>13, <3>1, RestSelling DEF Reset, Working, Labels, Inv, TypeOK
    <2>14. CASE ResetSave(p) \/ ResetCount(p)
        <3>1. todo'[p] = {}
            BY <2>14, NothingWanted DEF ResetSave, ResetCount, At, Working
        <3>. QED
            BY <2>14, <3>1, RestSelling DEF ResetSave, ResetCount, Working, Labels
    <2>. QED
        BY <1>4, <2>1, <2>2, <2>3, <2>4, <2>5, <2>6, <2>7, <2>8, <2>9, <2>10, <2>11,
           <2>12, <2>13, <2>14 DEF Step
<1>. QED
    BY <1>1, <1>2, <1>3, <1>4 DEF Next

LEMMA InitKept == Init => Kept
BY InitOne, InitSelling DEF Kept

LEMMA NextKept == Kept /\ [Next]_vars => Kept'
BY NextOne, NextSelling DEF Kept, One

-------------------------------------------------------------------------------
\* The account the promise is about.
Account == IF \E p \in Shells : loaded[p]
           THEN book[CHOOSE p \in Shells : loaded[p]] ELSE Stored

\* It is the memory of the one shell that has loaded it.
LEMMA AccountLoaded ==
    ASSUME Single, NEW p \in Shells, loaded[p]
    PROVE  Account = book[p]
<1>1. \A q \in Shells : loaded[q] => q = p
    BY DEF Single, Agree
<1>. QED
    BY <1>1 DEF Account

\* It is the log's account as long as no shell has loaded it.
LEMMA AccountStored ==
    ASSUME Single, NEW p \in Shells,
           pc[p] \in {"off", "idle", "load"}, \A q \in Shells : q # p => pc[q] = "off",
           Stored = log
    PROVE  Account = log
<1>1. \A q \in Shells : q # p => ~loaded[q]
    BY DEF Single, Agree
<1>2. loaded[p] => book[p] = log
    BY DEF Single, Agree
<1>. QED
    BY <1>1, <1>2, AccountLoaded DEF Account

LEMMA AccountLoadedNext ==
    ASSUME Single', NEW p \in Shells, loaded'[p]
    PROVE  Account' = book'[p]
<1>1. \A q \in Shells : loaded'[q] => q = p
    BY DEF Single, Agree
<1>. QED
    BY <1>1 DEF Account

\* Another process of which the shells are none is at work.
LEMMA OthersOff ==
    ASSUME Single, NEW p \in Shells, pc[p] # "off"
    PROVE  \A q \in Shells : q # p => pc[q] = "off"
BY DEF Single

\* The account is what it was.
LEMMA AccountStays ==
    ASSUME UNCHANGED <<loaded, book, file>>
    PROVE  Account' = Account
BY DEF Account, Stored

LEMMA AccountSaved ==
    ASSUME Single, Single', NEW p \in Shells, loaded[p], UNCHANGED <<loaded, book>>
    PROVE  Account' = Account
BY AccountLoaded, AccountLoadedNext

LEMMA AccountRead ==
    ASSUME Inv, Single, Single', NEW p \in Shells, pc[p] \in {"idle", "load"},
           LoadAccount(p)
    PROVE  Account' = Account
<1>1. Stored = log
    BY DEF Single, Agree
<1>2. Account = log
    BY <1>1, OthersOff, AccountStored
<1>3. loaded'[p] /\ book'[p] = log
    BY LoadAgrees
<1>. QED
    BY <1>2, <1>3, AccountLoadedNext

LEMMA AccountLeft ==
    ASSUME Inv, Single, Single', NEW p \in Shells, Exit(p)
    PROVE  Account' = Account
<1>1. pc[p] = "idle" /\ \A q \in Shells : q # p => pc[q] = "off"
    BY OthersOff DEF Exit, At
<1>2. Stored = log /\ Stored' = Stored
    BY <1>1 DEF Single, Agree, Exit, Forget, Stored
<1>3. Account = log
    BY <1>1, <1>2, AccountStored
<1>4. \A q \in Shells : ~loaded'[q]
    BY <1>1 DEF Single, Agree, Exit, Forget, Inv, TypeOK
<1>. QED
    BY <1>2, <1>3, <1>4 DEF Account

\* A fill is what the account promises: all of the order, and only if it can be paid.
LEMMA AccountFilled ==
    ASSUME Inv, Selling, Single, Single', NEW p \in Shells, Fill(p)
    PROVE  \E t \in Tickers, price \in Prices :
              \/ \E q \in Sizes :
                    /\ Account.cash >= price * q
                    /\ Account' = [cash |-> Account.cash - price * q,
                                   qty |-> [Account.qty EXCEPT ![t] = @ + q]]
              \/ \E q \in 1..Account.qty[t] :
                    /\ Account.qty[t] >= q
                    /\ Account' = [cash |-> Account.cash + price * q,
                                   qty |-> [Account.qty EXCEPT ![t] = @ - q]]
<1>1. pc[p] = "fill" /\ order[p] \in Orders /\ CanFill(p, order[p]) /\ Wanted(p)
    BY DEF Fill, At, Inv, InHand, Working, Selling
<1>2. loaded[p] /\ loaded'[p]
    BY <1>1 DEF Single, Agree, Fill
<1>3. Account = book[p]
    BY <1>2, AccountLoaded
<1>4. book'[p] = After(book[p], order[p])
    BY DEF Fill, Inv, TypeOK
<1>5. Account' = After(Account, order[p])
    BY <1>2, <1>3, <1>4, AccountLoadedNext
<1>6. order[p].ticker \in Tickers /\ order[p].price \in Prices /\ order[p].size \in Nat
    BY <1>1 DEF Orders
<1>7. CASE order[p].side = "buy"
    <2>1. order[p].size \in Sizes /\ Account.cash >= order[p].price * order[p].size
        BY <1>1, <1>3, <1>7 DEF Wanted, Working, CanFill
    <2>2. Account' = [cash |-> Account.cash - order[p].price * order[p].size,
                      qty |-> [Account.qty EXCEPT ![order[p].ticker] = @ + order[p].size]]
        BY <1>5, <1>7 DEF After
    <2>. QED
        BY <1>6, <2>1, <2>2
<1>8. CASE order[p].side # "buy"
    <2>1. order[p].size >= 1 /\ Account.qty[order[p].ticker] >= order[p].size
        BY <1>1, <1>3, <1>8 DEF Wanted, Working, CanFill
    <2>2. Account.qty[order[p].ticker] \in Int
        BY <1>3, <1>6 DEF Inv, TypeOK, Accounts
    <2>3. order[p].size \in 1..Account.qty[order[p].ticker]
        BY <1>6, <2>1, <2>2
    <2>4. Account' = [cash |-> Account.cash + order[p].price * order[p].size,
                      qty |-> [Account.qty EXCEPT ![order[p].ticker] = @ - order[p].size]]
        BY <1>5, <1>8 DEF After
    <2>. QED
        BY <1>6, <2>1, <2>3, <2>4
<1>. QED
    BY <1>7, <1>8

LEMMA AccountReset ==
    ASSUME Inv, Single', NEW p \in Shells, Reset(p)
    PROVE  \E c \in Capitals : Account' = Opened(c)
<1>1. loaded'[p]
    BY DEF Reset, Inv, TypeOK
<1>2. \E c \in Capitals : book'[p] = Opened(c)
    BY DEF Reset, Inv, TypeOK
<1>. QED
    BY <1>1, <1>2, AccountLoadedNext

\* Each step of the ledger is one of the promised account, or none.
LEMMA AccountStep ==
    ASSUME Kept, Kept', world = "alone", [Next]_vars
    PROVE  Promise!Next \/ Account' = Account
<1>1. Inv /\ Single /\ Single' /\ Selling
    BY WorldStays DEF Kept, One
<1>2. CASE UNCHANGED vars \/ NewDay
    BY <1>2, AccountStays DEF vars, NewDay, procVars
<1>3. ASSUME NEW p \in Shells, NEW c \in Shells, Spawn(p, c) PROVE FALSE
    BY <1>3 DEF Spawn
<1>4. ASSUME NEW p \in Shells, Step(p) PROVE Promise!Next \/ Account' = Account
    <2>1. CASE \/ Start(p) \/ Place(p) \/ Reject(p) \/ Count(p) \/ Empty(p) \/ Write(p)
               \/ Log(p) \/ CloseNext(p) \/ CloseDone(p) \/ ResetCount(p)
        BY <2>1, AccountStays DEF Start, Place, Reject, Count, Empty, Write, Log,
                                  CloseNext, CloseDone, ResetCount
    <2>2. CASE Save(p) \/ ResetSave(p)
        <3>1. loaded[p] /\ UNCHANGED <<loaded, book>>
            BY <1>1, <2>2 DEF Single, Agree, Save, ResetSave, At
        <3>. QED
            BY <1>1, <3>1, AccountSaved
    <2>3. CASE Look(p) \/ Load(p) \/ CloseAll(p)
        BY <1>1, <2>3, AccountRead DEF Look, Load, CloseAll, Command, At
    <2>4. CASE Exit(p)
        BY <1>1, <2>4, AccountLeft
    <2>5. CASE Kill(p)
        BY <2>5 DEF Kill
    <2>6. CASE Fill(p)
        BY <1>1, <2>6, AccountFilled DEF Promise!Next, Promise!Buy, Promise!Sell, Account
    <2>7. CASE Reset(p)
        BY <1>1, <2>7, AccountReset
        DEF Promise!Next, Promise!Reset, Promise!Opened, Opened, Account
    <2>. QED
        BY <1>4, <2>1, <2>2, <2>3, <2>4, <2>5, <2>6, <2>7 DEF Step
<1>. QED
    BY <1>2, <1>3, <1>4 DEF Next

LEMMA AccountInit ==
    ASSUME Init
    PROVE  Promise!Init
BY DEF Init, Stored, Opened, Promise!Init, Promise!Opened

\* One shell at a time is the account a trader thinks of, for any tickers, prices
\* and sizes: each order is filled completely and at once or not at all, and only
\* orders and resets change the account, although every order is ten steps over
\* a memory, a file, a counter and a log.
THEOREM LedgerIsAnAccount == Spec => ImplementsAccount
<1>1. Init => (world = "alone" => Promise!Init)
    BY AccountInit
<1>2. Kept /\ Kept' /\ [Next]_vars => [world = "alone" => Promise!Next]_(Promise!vars)
    <2>. SUFFICES ASSUME Kept, Kept', [Next]_vars, world = "alone"
                  PROVE  Promise!Next \/ UNCHANGED Promise!vars
        OBVIOUS
    <2>1. Promise!Next \/ Account' = Account
        BY AccountStep
    <2>. QED
        BY <2>1 DEF Promise!vars, Account
<1>. QED
    BY <1>1, <1>2, InitKept, NextKept, PTL DEF Spec, ImplementsAccount

===============================================================================
