----------------------------- MODULE BrokerProofs -----------------------------
(***************************************************************************)
(* Theorems about LiveBroker, for any symbols, prices, sizes and number of *)
(* requests, and whichever faults the instance has: the server's account   *)
(* is never overdrawn, the order log never lies, and a fill that was       *)
(* answered is kept across restarts.                                       *)
(***************************************************************************)
EXTENDS LiveBroker, TLAPS

-------------------------------------------------------------------------------
(* Types, and an account that is never overdrawn *)

Requests ==
    [n : 1..MaxRequests, path : {"/orders"}, of : {Body(o) : o \in Orders}]
    \cup [n : 1..MaxRequests, path : {"/orders/ID"}, of : [id : 1..MaxRequests]]
    \cup [n : 1..MaxRequests, path : {"read", "unknown"}, of : {None}]

Jobs == [req : 1..MaxRequests, step : {"open", "write", "reply"},
         code : {200, 201, 204, 404, 422}]

Calls == [n : 1..MaxRequests, order : BOOLEAN,
          broker : {"alpaca", "ibkr", "generic"}]

Answers == {Broken, Failed, 200, 201, 204, 404, 422}

Sound(a) ==
    /\ a \in Accounts
    /\ a.cash >= 0 /\ \A s \in Symbols : a.qty[s] >= 0
    /\ \A i \in DOMAIN a.orders : a.orders[i].req \in 1..MaxRequests

\* TypeOK, of the state file too.
Types ==
    /\ wire \in Seq(Requests)
    /\ up \in BOOLEAN
    /\ job \in {None} \cup Jobs
    /\ Sound(acct)
    /\ disk \in {NoFile, Torn} \/ Sound(disk)
    /\ ran \subseteq 1..MaxRequests
    /\ sent \in 0..MaxRequests
    /\ cur \in {None} \cup Calls
    /\ answer \in {None} \cup Answers
    /\ olog \in [1..MaxRequests -> {None} \cup OrderLines]
    /\ unread \subseteq 1..MaxRequests

-------------------------------------------------------------------------------
(* Requests are numbered in the order they are sent and served *)

Numbers ==
    /\ \A i \in DOMAIN wire : wire[i].n <= sent
    /\ \A i, j \in DOMAIN wire : i < j => wire[i].n < wire[j].n
    /\ job # None =>
          up /\ job.req <= sent /\ \A i \in DOMAIN wire : job.req < wire[i].n
    /\ \A n \in ran : n <= sent /\ \A i \in DOMAIN wire : n < wire[i].n
    /\ cur # None => cur.n = sent
    /\ cur = None => answer = None

OnWire(n) == \E i \in DOMAIN wire : wire[i].n = n

\* What the order log says of order n.
Told(n) ==
    /\ n > sent => olog[n] = None
    /\ olog[n] = "FILLED" => n \in ran
    /\ olog[n] \in Refusals =>
          (n \notin ran /\ ~OnWire(n)) \/ (n \in unread /\ olog[n] = "REJECTED_NETWORK")

\* What the order log says, and what the answer that is on its way will make
\* it say.
Truth ==
    /\ \A n \in 1..MaxRequests : Told(n)
    /\ job # None => ((job.code = 201) <=> (job.req \in ran))
    /\ cur # None /\ answer \notin {None, Broken, Failed} => ~OnWire(cur.n)

\* The paths an order may be sent to.
OrderPaths(broker) == IF broker = "ibkr" THEN {"unknown"} ELSE {"/orders", "unknown"}

OrderAsked ==
    cur # None /\ cur.order =>
        /\ \A i \in DOMAIN wire : wire[i].n = cur.n =>
              wire[i].path \in OrderPaths(cur.broker)
        /\ cur.broker = "ibkr" => cur.n \notin ran
        /\ job # None /\ job.req = cur.n => job.code # 200
        /\ answer # 200
        /\ answer = 201 => cur.n \in ran
        /\ answer \notin {None, Broken, Failed, 201} => cur.n \notin ran

-------------------------------------------------------------------------------
(* Fills that were answered *)

Settled(n) ==
    olog[n] = "FILLED" \/ (cur # None /\ cur.order /\ cur.n = n /\ answer = 201)

Kept ==
    ~forgot =>
        /\ \A n \in 1..MaxRequests :
              Settled(n) =>
                  /\ up => Has(acct, n)
                  /\ disk # NoFile
                  /\ disk # Torn => Has(disk, n)
        /\ job # None /\ job.code = 201 =>
              Has(acct, job.req) /\ (job.step = "reply" => disk = acct)

-------------------------------------------------------------------------------
(* What a command does *)

\* Request q goes out, and the shell waits for it in call c.
Asks(q, c) ==
    /\ up
    /\ q \in Requests /\ q.n = sent + 1
    /\ c \in Calls /\ c.n = sent + 1
    /\ c.order => q.path \in OrderPaths(c.broker)
    /\ wire' = Append(wire, q)
    /\ cur' = c
    /\ olog' = olog

\* Nothing goes out; an order may have been refused.
Declines ==
    /\ wire' = wire /\ cur' = cur
    /\ \/ olog' = olog
       \/ \E s \in Refusals : olog' = [olog EXCEPT ![sent + 1] = s]

Commanded ==
    /\ Idle
    /\ sent' = sent + 1
    /\ UNCHANGED <<up, job, acct, disk, ran, forgot, answer, orphans, unread>>
    /\ Declines \/ \E q, c : Asks(q, c)

\* An order without a stop price is still the order of a symbol and a size.
LEMMA BodyType ==
    ASSUME NEW o \in Orders
    PROVE  /\ Body(o).side \in {"buy", "sell"} /\ Body(o).symbol \in Symbols
           /\ Body(o).size \in Sizes /\ Body(o).limit \in {0} \cup Prices
           /\ Body(o).type \in {"market", "limit", "stop"}
BY DEF Body, Orders

\* What an adapter sends is a request, and an order goes to a path of orders.
LEMMA PerformAsks ==
    ASSUME Types, sent < MaxRequests, NEW kind, NEW of, NEW e \in Environments,
           \/ kind = "order" /\ of \in {Body(o) : o \in Orders}
           \/ kind = "cancel" /\ of \in [id : 1..MaxRequests]
           \/ kind \in {"positions", "balance"} /\ of = None,
           Perform(kind, of, e)
    PROVE  /\ UNCHANGED <<up, job, acct, disk, ran, forgot, answer, orphans, unread>>
           /\ \E q, c : Asks(q, c)
<1>. DEFINE path == Path(kind, e.broker)
            q == [n |-> sent + 1, path |-> path,
                  of |-> IF path = "unknown" THEN None ELSE of]
            c == [n |-> sent + 1, order |-> kind = "order", broker |-> e.broker]
<1>1. sent + 1 \in 1..MaxRequests /\ e.broker \in {"alpaca", "ibkr", "generic"}
    BY BrokerAssumption DEF Types, Environments
<1>2. CASE kind = "order"
    <2>1. path \in OrderPaths(e.broker) /\ of \in {Body(o) : o \in Orders}
        BY <1>1, <1>2 DEF Path, AlpacaPath, IbkrPath, GenericPath, OrderPaths
    <2>2. path \in {"/orders", "unknown"}
        BY <2>1 DEF OrderPaths
    <2>. HIDE DEF path
    <2>3. q \in Requests
        BY <1>1, <2>1, <2>2 DEF Requests
    <2>4. c \in Calls
        BY <1>1 DEF Calls
    <2>. QED
        BY <1>1, <2>1, <2>3, <2>4 DEF Asks, Perform, Accept, path
<1>3. CASE kind = "cancel"
    <2>1. path = "/orders/ID" /\ of \in [id : 1..MaxRequests]
        BY <1>1, <1>3 DEF Path, AlpacaPath, IbkrPath, GenericPath
    <2>3. q \in Requests
        BY <1>1, <2>1 DEF Requests
    <2>4. c \in Calls /\ ~c.order
        BY <1>1, <1>3 DEF Calls
    <2>. QED
        BY <1>1, <2>3, <2>4 DEF Asks, Perform, Accept
<1>4. CASE kind \in {"positions", "balance"}
    <2>1. path \in {"read", "unknown"} /\ of = None
        BY <1>1, <1>4 DEF Path, AlpacaPath, IbkrPath, GenericPath
    <2>3. q \in Requests
        BY <1>1, <2>1 DEF Requests
    <2>4. c \in Calls /\ ~c.order
        BY <1>1, <1>4 DEF Calls
    <2>. QED
        BY <1>1, <2>3, <2>4 DEF Asks, Perform, Accept
<1>. QED
    BY <1>2, <1>3, <1>4

LEMMA CommandMoves ==
    ASSUME Types, Command
    PROVE  Commanded
<1>1. PICK e \in Environments :
          \/ \E o \in Orders : CommandOrder(o, e)
          \/ \E id \in 1..MaxRequests : CommandCancel(id, e)
          \/ CommandPositions(e)
          \/ CommandBalance(e)
    BY DEF Command
<1>2. ASSUME NEW o \in Orders, CommandOrder(o, e)
      PROVE  Commanded
    <2>1. Idle /\ sent' = sent + 1
        BY <1>2 DEF CommandOrder
    <2>2. CASE Perform("order", Body(o), e)
        BY <2>1, <2>2, PerformAsks DEF Idle, Commanded
    <2>3. CASE ~Perform("order", Body(o), e)
        <3>1. UNCHANGED <<serverVars, cur, answer, orphans, unread>>
            BY <1>2, <2>3 DEF CommandOrder
        <3>2. olog' = olog \/ \E s \in Refusals : Log(sent + 1, s)
            <4>1. Refusal(o, e) = "none" \/ Refusal(o, e) \in Refusals
                BY DEF Refusal, Refusals
            <4>2. "REJECTED_NETWORK" \in Refusals
                BY DEF Refusals
            <4>. QED
                BY <1>2, <2>3, <4>1, <4>2 DEF CommandOrder
        <3>. QED
            BY <2>1, <3>1, <3>2 DEF Commanded, Declines, Log, serverVars
    <2>. QED
        BY <2>2, <2>3
<1>3. ASSUME NEW kind, NEW of, CommandOther(kind, of, e),
             \/ kind = "cancel" /\ of \in [id : 1..MaxRequests]
             \/ kind \in {"positions", "balance"} /\ of = None
      PROVE  Commanded
    <2>1. Idle /\ sent' = sent + 1
        BY <1>3 DEF CommandOther
    <2>2. CASE Perform(kind, of, e)
        BY <1>3, <2>1, <2>2, PerformAsks DEF Idle, Commanded
    <2>3. CASE ~Perform(kind, of, e)
        BY <1>3, <2>1, <2>3 DEF CommandOther, Commanded, Declines, serverVars
    <2>. QED
        BY <2>2, <2>3
<1>. QED
    BY <1>1, <1>2, <1>3 DEF CommandCancel, CommandPositions, CommandBalance

-------------------------------------------------------------------------------
(* What the wire does *)

\* A request that goes out is the last of the wire.
LEMMA WireGrows ==
    ASSUME NEW q \in Requests, wire \in Seq(Requests), wire' = Append(wire, q)
    PROVE  /\ wire' \in Seq(Requests)
           /\ \A i \in DOMAIN wire' :
                 \/ i \in DOMAIN wire /\ wire'[i] = wire[i]
                 \/ i = Len(wire) + 1 /\ wire'[i] = q
           /\ DOMAIN wire = 1..Len(wire)
OBVIOUS

\* A request that is taken was the first, and those behind it move up.
LEMMA WireShrinks ==
    ASSUME NEW P, wire \in Seq(Requests), Take(P)
    PROVE  /\ Head(wire) \in Requests /\ Head(wire).path \in P
           /\ 1 \in DOMAIN wire /\ Head(wire) = wire[1]
           /\ wire' \in Seq(Requests)
           /\ \A i \in DOMAIN wire' : /\ i + 1 \in DOMAIN wire
                                      /\ wire'[i] = wire[i + 1]
                                      /\ i \in Nat /\ i >= 1
BY DEF Take

-------------------------------------------------------------------------------
(* The account *)

\* A request at the path of orders carries one.
LEMMA OrderRequest ==
    ASSUME NEW q \in Requests, q.path = "/orders"
    PROVE  q.n \in 1..MaxRequests /\ \E o \in Orders : q.of = Body(o)
BY DEF Requests

LEMMA CancelRequest ==
    ASSUME NEW q \in Requests, q.path = "/orders/ID"
    PROVE  q.n \in 1..MaxRequests /\ q.of.id \in 1..MaxRequests
BY DEF Requests

\* An order that is listed leaves a sound account and stands at its end.
LEMMA ListedSound ==
    ASSUME NEW a, Sound(a), NEW q \in Requests, NEW s \in Statuses
    PROVE  Sound(Listed(a, q, s))
<1>1. q.n \in 1..MaxRequests /\ q.n \in Nat
    BY BrokerAssumption DEF Requests
<1>. DEFINE line == [req |-> q.n, status |-> s]
            L == [req : Nat, status : Statuses]
<1>2. line \in L /\ line.req \in 1..MaxRequests
    BY <1>1
<1>3. a.orders \in Seq(L) /\ \A i \in DOMAIN a.orders : a.orders[i].req \in 1..MaxRequests
    BY DEF Sound, Accounts
<1>4. Listed(a, q, s) = [cash |-> a.cash, qty |-> a.qty,
                         orders |-> Append(a.orders, line)]
    BY DEF Listed
<1>5. a.cash \in Int /\ a.qty \in [Symbols -> Int] /\ a.cash >= 0
      /\ \A t \in Symbols : a.qty[t] >= 0
    BY DEF Sound, Accounts
<1>. HIDE DEF line, L
<1>6. /\ Append(a.orders, line) \in Seq(L)
      /\ \A i \in DOMAIN Append(a.orders, line) :
            Append(a.orders, line)[i].req \in 1..MaxRequests
    BY <1>2, <1>3
<1>. QED
    BY <1>4, <1>5, <1>6 DEF Sound, Accounts, L

\* An order that can be filled leaves a sound account, at any price.
LEMMA FilledSound ==
    ASSUME NEW q \in Requests, q.path = "/orders", NEW market \in Prices,
           Sound(acct), CanFill(q, FillPrice(q, market))
    PROVE  Sound(Filled(acct, q, FillPrice(q, market)))
<1>. DEFINE price == FillPrice(q, market)
            m == price * q.of.size
            d == IF q.of.side = "buy" THEN q.of.size ELSE -q.of.size
<1>1. /\ q.of.side \in {"buy", "sell"} /\ q.of.symbol \in Symbols
      /\ q.of.size \in Nat /\ price \in Nat
    <2>1. PICK o \in Orders : q.of = Body(o)
        BY OrderRequest
    <2>2. /\ q.of.side \in {"buy", "sell"} /\ q.of.symbol \in Symbols
          /\ q.of.size \in Nat /\ q.of.limit \in Nat
        <3>1. /\ Body(o).side \in {"buy", "sell"} /\ Body(o).symbol \in Symbols
              /\ Body(o).size \in Sizes /\ Body(o).limit \in {0} \cup Prices
            BY BodyType
        <3>2. Sizes \subseteq Nat /\ {0} \cup Prices \subseteq Nat
            BY ServerAssumption, BrokerAssumption
        <3>. QED
            BY <2>1, <3>1, <3>2
    <2>3. price \in Nat
        BY <2>2, ServerAssumption DEF FillPrice
    <2>. QED
        BY <2>2, <2>3
<1>2. m \in Nat
    BY <1>1
<1>3. price * d = IF q.of.side = "buy" THEN m ELSE -m
    BY <1>1
<1>4. IF q.of.side = "buy" THEN acct.cash >= m ELSE acct.qty[q.of.symbol] >= q.of.size
    BY DEF CanFill
<1>5. acct.cash \in Int /\ acct.qty \in [Symbols -> Int] /\ acct.cash >= 0
      /\ \A t \in Symbols : acct.qty[t] >= 0
    BY DEF Sound, Accounts
<1>. DEFINE cash == acct.cash - price * d
            qty == [acct.qty EXCEPT ![q.of.symbol] = @ + d]
<1>6. Filled(acct, q, price) = [cash |-> cash, qty |-> qty, orders |-> acct.orders]
    BY DEF Filled
<1>7. cash \in Int /\ cash >= 0
    <2>. HIDE DEF m
    <2>. QED
        BY <1>1, <1>2, <1>3, <1>4, <1>5
<1>8. qty \in [Symbols -> Int] /\ \A t \in Symbols : qty[t] >= 0
    <2>. HIDE DEF m
    <2>. QED
        BY <1>1, <1>4, <1>5
<1>. HIDE DEF price, cash, qty
<1>. QED
    BY <1>6, <1>7, <1>8 DEF Sound, Accounts, price

\* Cancelling an order leaves a sound account, and every fill in it.
LEMMA CancelledSound ==
    ASSUME Sound(acct), NEW id \in DOMAIN acct.orders,
           acct.orders[id].status # "filled",
           acct' = Cancelled(acct, id)
    PROVE  Sound(acct)' /\ \A n : Has(acct, n) => Has(acct', n)
<1>. DEFINE L == [req : Nat, status : Statuses]
            line == [req |-> acct.orders[id].req, status |-> "cancelled"]
            cancelled == [acct.orders EXCEPT ![id] = line]
<1>1. acct.orders \in Seq(L) /\ \A i \in DOMAIN acct.orders : acct.orders[i] \in L
    <2>1. acct.orders \in Seq(L)
        BY DEF Sound, Accounts
    <2>. HIDE DEF L
    <2>. QED
        BY <2>1
<1>2. acct' = [cash |-> acct.cash, qty |-> acct.qty, orders |-> cancelled]
    BY DEF Cancelled
<1>3. DOMAIN cancelled = DOMAIN acct.orders
      /\ \A i \in DOMAIN acct.orders : i # id => cancelled[i] = acct.orders[i]
    BY <1>1
<1>4. line \in L /\ cancelled[id] = line /\ line.req = acct.orders[id].req
    BY <1>1 DEF Statuses
<1>. HIDE DEF L, line
<1>6. cancelled \in Seq(L)
    BY <1>1, <1>4
<1>. HIDE DEF cancelled
<1>7. Sound(acct)'
    <2>1. acct.cash \in Int /\ acct.qty \in [Symbols -> Int] /\ acct.cash >= 0
          /\ \A t \in Symbols : acct.qty[t] >= 0
        BY DEF Sound, Accounts
    <2>2. \A i \in DOMAIN cancelled : cancelled[i].req \in 1..MaxRequests
        BY <1>3, <1>4 DEF Sound
    <2>3. acct' \in Accounts
        BY <1>2, <1>6, <2>1 DEF Accounts, L
    <2>. QED
        BY <1>2, <2>1, <2>2, <2>3 DEF Sound
<1>8. ASSUME NEW n, Has(acct, n)
      PROVE  Has(acct', n)
    BY <1>2, <1>3, <1>8 DEF Has
<1>. QED
    BY <1>7, <1>8

\* An order that is listed leaves what was listed.
LEMMA ListedHas ==
    ASSUME NEW a, a \in Accounts, NEW q \in Requests, NEW s \in Statuses, NEW n
    PROVE  /\ Has(a, n) => Has(Listed(a, q, s), n)
           /\ s = "filled" => Has(Listed(a, q, s), q.n)
<1>. DEFINE line == [req |-> q.n, status |-> s]
            L == [req : Nat, status : Statuses]
<1>1. q.n \in Nat
    BY BrokerAssumption DEF Requests
<1>2. a.orders \in Seq(L) /\ line \in L
    BY <1>1 DEF Accounts
<1>3. Listed(a, q, s).orders = Append(a.orders, line)
    BY DEF Listed, Accounts
<1>4. s = "filled" => line = [req |-> q.n, status |-> "filled"]
    OBVIOUS
<1>. HIDE DEF line, L
<1>5. /\ Append(a.orders, line)[Len(a.orders) + 1] = line
      /\ Len(a.orders) + 1 \in DOMAIN Append(a.orders, line)
      /\ \A i \in DOMAIN a.orders : /\ i \in DOMAIN Append(a.orders, line)
                                    /\ Append(a.orders, line)[i] = a.orders[i]
    BY <1>2
<1>. QED
    BY <1>3, <1>4, <1>5 DEF Has

-------------------------------------------------------------------------------
(* What taking a request does *)

\* The request that was first is now the job, with this answer to come.
Takes(q, step, code) ==
    /\ job' = [req |-> q.n, step |-> step, code |-> code]
    /\ code = 201 => /\ q.path = "/orders" /\ step = "open"
                     /\ ran' = ran \cup {q.n} /\ Has(acct', q.n)
    /\ code # 201 => ran' = ran
    /\ code = 200 => q.path = "read"
    /\ Sound(acct')
    /\ \A n : Has(acct, n) => Has(acct', n)

TakeRequest == TakeOrder \/ TakeCancel \/ TakeOther

LEMMA OrderTaken ==
    ASSUME Types, TakeOrder
    PROVE  \E code \in {201, 422} : Takes(Head(wire), "open", code)
<1>. DEFINE q == Head(wire)
<1>1. q \in Requests /\ q.path = "/orders"
    BY WireShrinks DEF Types, TakeOrder
<1>2. PICK market \in Prices :
         IF CanFill(q, FillPrice(q, market))
         THEN /\ Job(q, "open", 201)
              /\ acct' = Listed(Filled(acct, q, FillPrice(q, market)), q, "filled")
              /\ ran' = ran \cup {q.n}
         ELSE /\ Job(q, "open", 422)
              /\ acct' = Listed(acct, q, "rejected")
              /\ UNCHANGED ran
    BY DEF TakeOrder, OrderStep
<1>. HIDE DEF q
<1>. DEFINE a == Filled(acct, q, FillPrice(q, market))
<1>3. Sound(acct) /\ acct \in Accounts
    BY DEF Types, Sound
<1>4. "filled" \in Statuses /\ "rejected" \in Statuses
    BY DEF Statuses
<1>5. CASE CanFill(q, FillPrice(q, market))
    <2>1. Sound(a) /\ a \in Accounts
        BY <1>1, <1>3, <1>5, FilledSound DEF Sound
    <2>2. a.orders = acct.orders
        BY DEF Filled
    <2>3. acct' = Listed(a, q, "filled") /\ job' = [req |-> q.n, step |-> "open", code |-> 201]
          /\ ran' = ran \cup {q.n}
        BY <1>2, <1>5 DEF Job
    <2>4. Sound(acct')
        BY <1>1, <1>4, <2>1, <2>3, ListedSound
    <2>. HIDE DEF a
    <2>5. Has(acct', q.n) /\ \A n : Has(a, n) => Has(acct', n)
        BY <1>1, <1>4, <2>1, <2>3, ListedHas
    <2>6. \A n : Has(acct, n) => Has(a, n)
        BY <2>2 DEF Has
    <2>7. Takes(q, "open", 201)
        BY <1>1, <2>3, <2>4, <2>5, <2>6 DEF Takes
    <2>. QED
        BY <2>7 DEF q
<1>6. CASE ~CanFill(q, FillPrice(q, market))
    <2>3. acct' = Listed(acct, q, "rejected") /\ ran' = ran
          /\ job' = [req |-> q.n, step |-> "open", code |-> 422]
        BY <1>2, <1>6 DEF Job
    <2>4. Sound(acct')
        BY <1>1, <1>3, <1>4, <2>3, ListedSound
    <2>5. \A n : Has(acct, n) => Has(acct', n)
        BY <1>1, <1>3, <1>4, <2>3, ListedHas
    <2>7. Takes(q, "open", 422)
        BY <1>1, <2>3, <2>4, <2>5 DEF Takes
    <2>. QED
        BY <2>7 DEF q
<1>. QED
    BY <1>5, <1>6

LEMMA CancelTaken ==
    ASSUME Types, TakeCancel
    PROVE  \E step \in {"open", "reply"}, code \in {204, 404, 422} :
               Takes(Head(wire), step, code)
<1>. DEFINE q == Head(wire)
<1>0. ran' = ran
    BY DEF TakeCancel
<1>1. \/ (Job(q, "reply", 404) \/ Job(q, "reply", 422)) /\ acct' = acct
      \/ /\ q.of.id \in DOMAIN acct.orders
         /\ acct.orders[q.of.id].status # "filled"
         /\ Job(q, "open", 204)
         /\ acct' = Cancelled(acct, q.of.id)
    BY DEF TakeCancel
<1>2. Sound(acct)
    BY DEF Types
<1>3. Sound(acct') /\ \A n : Has(acct, n) => Has(acct', n)
    <2>1. CASE acct' = acct
        BY <1>2, <2>1
    <2>2. CASE /\ q.of.id \in DOMAIN acct.orders
               /\ acct.orders[q.of.id].status # "filled"
               /\ acct' = Cancelled(acct, q.of.id)
        BY <1>2, <2>2, CancelledSound
    <2>. QED
        BY <1>1, <2>1, <2>2
<1>. HIDE DEF q
<1>4. \/ job' = [req |-> q.n, step |-> "reply", code |-> 404]
      \/ job' = [req |-> q.n, step |-> "reply", code |-> 422]
      \/ job' = [req |-> q.n, step |-> "open", code |-> 204]
    BY <1>1 DEF Job
<1>5. \E step \in {"open", "reply"}, code \in {204, 404, 422} : Takes(q, step, code)
    BY <1>0, <1>3, <1>4 DEF Takes
<1>. QED
    BY <1>5 DEF q

LEMMA OtherTaken ==
    ASSUME Types, TakeOther
    PROVE  \E code \in {200, 404} : Takes(Head(wire), "reply", code)
<1>. DEFINE q == Head(wire)
<1>1. q.path \in {"read", "unknown"}
    BY WireShrinks DEF Types, TakeOther
<1>2. acct' = acct /\ ran' = ran /\ Sound(acct)
    BY DEF TakeOther, Types
<1>3. Job(q, "reply", IF q.path = "unknown" THEN 404 ELSE 200)
    BY DEF TakeOther
<1>. HIDE DEF q
<1>4. \E code \in {200, 404} : Takes(q, "reply", code)
    BY <1>1, <1>2, <1>3 DEF Takes, Job
<1>. QED
    BY <1>4 DEF q

LEMMA RequestTaken ==
    ASSUME Types, TakeRequest
    PROVE  /\ \E step \in {"open", "reply"}, code \in {200, 201, 204, 404, 422} :
                  Takes(Head(wire), step, code)
           /\ \E P : Take(P)
           /\ up /\ job = None /\ UNCHANGED <<up, disk, forgot>>
<1>1. \E step \in {"open", "reply"}, code \in {200, 201, 204, 404, 422} :
          Takes(Head(wire), step, code)
    <2>1. CASE TakeOrder
        <3>1. PICK code \in {201, 422} : Takes(Head(wire), "open", code)
            BY <2>1, OrderTaken
        <3>. QED
            BY <3>1
    <2>2. CASE TakeCancel
        <3>1. PICK step \in {"open", "reply"}, code \in {204, 404, 422} :
                  Takes(Head(wire), step, code)
            BY <2>2, CancelTaken
        <3>. QED
            BY <3>1
    <2>3. CASE TakeOther
        <3>1. PICK code \in {200, 404} : Takes(Head(wire), "reply", code)
            BY <2>3, OtherTaken
        <3>. QED
            BY <3>1
    <2>. QED
        BY <2>1, <2>2, <2>3 DEF TakeRequest
<1>2. \E P : Take(P)
    BY DEF TakeRequest, TakeOrder, TakeCancel, TakeOther
<1>3. up /\ job = None /\ UNCHANGED <<up, disk, forgot>>
    BY <1>2 DEF Take
<1>. QED
    BY <1>1, <1>2, <1>3

\* An adapter writes a line of the order log.
LEMMA StatusLine ==
    ASSUME NEW c \in Calls, NEW a
    PROVE  /\ StatusOf(c, a) \in OrderLines
           /\ StatusOf(c, a) = "FILLED" => a = 200 \/ a = 201
           /\ StatusOf(c, a) \in Refusals =>
                 a # Broken /\ (c.broker # "ibkr" => a \notin {200, 201})
           /\ a = Failed => StatusOf(c, a) = "REJECTED_NETWORK"
BY DEF Calls, StatusOf, AlpacaStatus, IbkrStatus, GenericStatus, OrderLines,
       Refusals, Broken, Failed

\* A session's step, a job in place of nothing taken apart.
LEMMA StepCases ==
    ASSUME Types, [Next]_vars
    PROVE  \/ Commanded
           \/ Timeout \/ Receive \/ ShellDies
           \/ TakeRequest /\ UNCHANGED shellVars
           \/ Save /\ UNCHANGED shellVars
           \/ Start /\ UNCHANGED shellVars
           \/ Answered \/ ServerKilled
           \/ UNCHANGED vars
BY CommandMoves DEF Next, ServerStep, TakeRequest

-------------------------------------------------------------------------------
(* The types hold *)

\* A set that gains at most one element of another stays within it.
LEMMA Added ==
    ASSUME NEW S, NEW A, A \subseteq S, NEW x \in S, NEW B, B = A \/ B = A \cup {x}
    PROVE  B \subseteq S
OBVIOUS

LEMMA TypesStart ==
    ASSUME Init
    PROVE  Types
<1>1. Sound(Fresh)
    BY ServerAssumption DEF Fresh, Sound, Accounts
<1>. QED
    BY <1>1, BrokerAssumption DEF Init, ServerInit, Types

LEMMA TypesStep ==
    ASSUME Types, [Next]_vars
    PROVE  Types'
<1>. USE DEF Types
<1>1. CASE Commanded
    <2>1. sent' \in 0..MaxRequests /\ sent + 1 \in 1..MaxRequests
        BY <1>1, BrokerAssumption DEF Commanded, Idle
    <2>2. Sound(acct)' /\ (disk \in {NoFile, Torn} \/ Sound(disk))'
        BY <1>1 DEF Commanded
    <2>3. olog' \in [1..MaxRequests -> {None} \cup OrderLines]
        <3>1. Refusals \subseteq OrderLines
            BY DEF Refusals, OrderLines
        <3>2. olog' = olog \/ \E s \in Refusals : olog' = [olog EXCEPT ![sent + 1] = s]
            BY <1>1 DEF Commanded, Declines, Asks
        <3>. QED
            BY <2>1, <3>1, <3>2
    <2>4. wire' \in Seq(Requests) /\ cur' \in {None} \cup Calls
        <3>1. CASE Declines
            BY <3>1 DEF Declines
        <3>2. CASE \E q, c : Asks(q, c)
            BY <3>2, WireGrows DEF Asks
        <3>. QED
            BY <1>1, <3>1, <3>2 DEF Commanded
    <2>5. UNCHANGED <<up, job, ran, answer, unread>>
        BY <1>1 DEF Commanded
    <2>. QED
        BY <2>1, <2>2, <2>3, <2>4, <2>5
<1>2. CASE Timeout \/ Receive
    <2>1. cur' = None /\ answer' = None /\ UNCHANGED <<serverVars, sent>>
        BY <1>2 DEF Timeout, Receive, Return
    <2>2. olog' \in [1..MaxRequests -> {None} \cup OrderLines]
        <3>1. "REJECTED_TIMEOUT" \in OrderLines
            BY DEF OrderLines
        <3>2. cur \in Calls => StatusOf(cur, answer) \in OrderLines
            BY StatusLine
        <3>3. cur \in Calls
            BY <1>2 DEF Timeout, Receive, Waiting
        <3>4. olog' = olog \/ \E s \in OrderLines : olog' = [olog EXCEPT ![cur.n] = s]
            BY <1>2, <3>1, <3>2, <3>3 DEF Timeout, Receive, Log
        <3>. QED
            BY <3>4
    <2>3. UNCHANGED <<wire, up, job, acct, disk, ran>>
        BY <2>1 DEF serverVars
    <2>5. unread' \subseteq 1..MaxRequests
        <3>1. unread' = unread \/ unread' = unread \cup {cur.n}
            BY <1>2 DEF Timeout, Receive
        <3>2. cur.n \in 1..MaxRequests
            BY <1>2 DEF Timeout, Receive, Waiting, Calls
        <3>3. unread \subseteq 1..MaxRequests
            OBVIOUS
        <3>. HIDE DEF Types
        <3>. QED
            BY <3>1, <3>2, <3>3, Added
    <2>4. Sound(acct)' /\ (disk \in {NoFile, Torn} \/ Sound(disk))'
        BY <2>3
    <2>. QED
        BY <2>1, <2>2, <2>3, <2>4, <2>5
<1>3. CASE ShellDies
    <2>1. UNCHANGED <<wire, up, job, acct, disk, ran, sent, olog, unread>>
          /\ cur' = None /\ answer' = None
        BY <1>3 DEF ShellDies, serverVars
    <2>2. Sound(acct)' /\ (disk \in {NoFile, Torn} \/ Sound(disk))'
        BY <2>1
    <2>. QED
        BY <2>1, <2>2
<1>4. CASE TakeRequest /\ UNCHANGED shellVars
    <2>1. PICK step \in {"open", "reply"}, code \in {200, 201, 204, 404, 422} :
              Takes(Head(wire), step, code)
        BY <1>4, RequestTaken
    <2>2. Head(wire) \in Requests /\ wire' \in Seq(Requests)
        BY <1>4, RequestTaken, WireShrinks
    <2>3. Head(wire).n \in 1..MaxRequests
        BY <2>2 DEF Requests
    <2>4. job' \in Jobs
        BY <2>1, <2>3 DEF Takes, Jobs
    <2>5. ran' \subseteq 1..MaxRequests
        <3>1. PICK m \in 1..MaxRequests : ran' = ran \/ ran' = ran \cup {m}
            BY <2>1, <2>3 DEF Takes
        <3>2. ran \subseteq 1..MaxRequests
            OBVIOUS
        <3>. HIDE DEF Types
        <3>. QED
            BY <3>1, <3>2, Added
    <2>6. Sound(acct)'
        BY <2>1 DEF Takes
    <2>7. (disk \in {NoFile, Torn} \/ Sound(disk))' /\ up' \in BOOLEAN
        BY <1>4, RequestTaken
    <2>. QED
        BY <1>4, <2>2, <2>4, <2>5, <2>6, <2>7 DEF shellVars
<1>5. CASE Save /\ UNCHANGED shellVars
    <2>1. job' \in Jobs
        BY <1>5 DEF Save, SaveOpen, SaveWrite, SaveFails, At, JobGoesTo, Jobs
    <2>2. disk' \in {disk, Torn, acct} /\ UNCHANGED <<wire, up, acct, ran>>
        BY <1>5 DEF Save, SaveOpen, SaveWrite, SaveFails
    <2>3. Sound(acct)' /\ (disk \in {NoFile, Torn} \/ Sound(disk))'
        BY <2>2
    <2>. QED
        BY <1>5, <2>1, <2>2, <2>3 DEF shellVars
<1>6. CASE Start /\ UNCHANGED shellVars
    <2>1. Sound(Fresh)
        BY ServerAssumption DEF Fresh, Sound, Accounts
    <2>2. up' = TRUE /\ UNCHANGED <<wire, job, ran>>
          /\ (acct' = LoadState \/ acct' = Fresh) /\ (disk' = disk \/ disk' = NoFile)
        BY <1>6 DEF Start
    <2>3. Sound(LoadState)
        BY <2>1 DEF LoadState
    <2>4. Sound(acct)' /\ (disk \in {NoFile, Torn} \/ Sound(disk))'
        BY <2>1, <2>2, <2>3
    <2>. QED
        BY <1>6, <2>2, <2>4 DEF shellVars
<1>7. CASE Answered
    <2>1. job' = None /\ UNCHANGED <<wire, up, acct, disk, ran, sent, cur, olog, unread>>
        BY <1>7 DEF Answered, Reply
    <2>2. answer' \in {None} \cup Answers
        <3>1. job \in Jobs
            BY <1>7 DEF Answered, Reply, At
        <3>2. job.code \in Answers
            BY <3>1 DEF Jobs, Answers
        <3>3. answer' \in {job.code, Failed, answer}
            BY <1>7 DEF Answered, Comes
        <3>. QED
            BY <3>2, <3>3 DEF Answers
    <2>3. Sound(acct)' /\ (disk \in {NoFile, Torn} \/ Sound(disk))'
        BY <2>1
    <2>. QED
        BY <2>1, <2>2, <2>3
<1>8. CASE ServerKilled
    <2>1. job' = None /\ up' = FALSE /\ wire' = <<>>
          /\ UNCHANGED <<acct, disk, ran, sent, cur, olog, unread>>
        BY <1>8 DEF ServerKilled, Kill
    <2>4. wire' \in Seq(Requests)
        BY <2>1
    <2>2. answer' \in {None} \cup Answers
        <3>1. answer' \in {Broken, Failed, answer}
            BY <1>8 DEF ServerKilled, Comes
        <3>. QED
            BY <3>1 DEF Answers
    <2>3. Sound(acct)' /\ (disk \in {NoFile, Torn} \/ Sound(disk))'
        BY <2>1
    <2>. QED
        BY <2>1, <2>2, <2>3, <2>4
<1>9. CASE UNCHANGED vars
    <2>1. UNCHANGED <<wire, up, job, acct, disk, ran, sent, cur, answer, olog, unread>>
        BY <1>9 DEF vars, serverVars, shellVars
    <2>2. Sound(acct)' /\ (disk \in {NoFile, Torn} \/ Sound(disk))'
        BY <2>1
    <2>. QED
        BY <2>1, <2>2
<1>. QED
    BY <1>1, <1>2, <1>3, <1>4, <1>5, <1>6, <1>7, <1>8, <1>9, StepCases

\* An element of the wire is what TypeOK says a request is.
LEMMA RequestShape ==
    ASSUME NEW q \in Requests
    PROVE  IsRequest(q)
BY DEF Requests, IsRequest

\* The types are what TypeOK asks for.
LEMMA TypesGiveTypeOK ==
    ASSUME Types
    PROVE  TypeOK
<1>1. \A i \in DOMAIN wire : IsRequest(wire[i])
    BY RequestShape DEF Types
<1>2. \A i \in DOMAIN acct.orders :
         acct.orders[i] \in [req : 1..MaxRequests, status : Statuses]
    <2>. SUFFICES ASSUME NEW i \in DOMAIN acct.orders
                  PROVE  acct.orders[i] \in [req : 1..MaxRequests, status : Statuses]
        OBVIOUS
    <2>. DEFINE L == [req : Nat, status : Statuses]
    <2>1. acct.orders[i] \in L
        <3>1. acct.orders \in Seq(L)
            BY DEF Types, Sound, Accounts
        <3>. HIDE DEF L
        <3>. QED
            BY <3>1
    <2>2. acct.orders[i].req \in 1..MaxRequests
        BY DEF Types, Sound
    <2>. QED
        BY <2>1, <2>2
<1>3. acct.cash >= 0 /\ \A s \in Symbols : acct.qty[s] >= 0
    BY DEF Types, Sound
<1>. QED
    BY <1>1, <1>2, <1>3 DEF TypeOK, Types, Jobs, Calls, Answers

\* The variables are of their types, and the server's account is never
\* overdrawn: no order takes its cash or a position below zero, at whatever price
\* it is filled (_place_order() of sim_server.py).
THEOREM TypesHold == Spec => []TypeOK
<1>1. Init => Types
    BY TypesStart
<1>2. Types /\ [Next]_vars => Types'
    BY TypesStep
<1>3. Types => TypeOK
    BY TypesGiveTypeOK
<1>. QED
    BY <1>1, <1>2, <1>3, PTL DEF Spec

-------------------------------------------------------------------------------
(* Numbers only grow along the wire *)

LEMMA JobIsSome ==
    ASSUME NEW j \in Jobs
    PROVE  j # None
<1>1. j.req \in Nat /\ j.code \in Nat /\ j.step \in {"open", "write", "reply"}
    BY BrokerAssumption DEF Jobs
<1>2. j = [req |-> j.req, step |-> j.step, code |-> j.code]
    BY DEF Jobs
<1>3. j \in [req : Nat, step : {"open", "write", "reply"}, code : Nat]
    BY <1>1, <1>2
<1>. QED
    BY <1>3, ServerAssumption

\* Saving does not change which request the job is for, or its answer.
LEMMA SaveKeepsJob ==
    ASSUME Types, Save
    PROVE  /\ up /\ job # None /\ job' # None
           /\ job' = [job EXCEPT !.step = job'.step]
           /\ job'.req = job.req /\ job'.code = job.code
           /\ UNCHANGED <<wire, up, acct, ran>>
<1>1. job \in Jobs /\ up /\ job # None /\ UNCHANGED <<wire, up, acct, ran>>
    BY DEF Types, Save, SaveOpen, SaveWrite, SaveFails, At
<1>2. \E step \in {"write", "reply"} : job' = [job EXCEPT !.step = step]
    BY DEF Save, SaveOpen, SaveWrite, SaveFails, JobGoesTo
<1>3. job' \in Jobs /\ job'.req = job.req /\ job'.code = job.code
      /\ job' = [job EXCEPT !.step = job'.step]
    BY <1>1, <1>2 DEF Jobs
<1>4. job' # None
    BY <1>3, JobIsSome
<1>. QED
    BY <1>1, <1>3, <1>4

LEMMA NumbersStep ==
    ASSUME Types, Numbers, [Next]_vars
    PROVE  Numbers'
<1>0. /\ wire \in Seq(Requests) /\ sent \in Nat
      /\ \A i \in DOMAIN wire : wire[i].n \in Nat
    BY DEF Types, Requests
<1>1. CASE Commanded
    <2>1. /\ cur = None /\ sent' = sent + 1 /\ answer' = answer
          /\ UNCHANGED <<up, job, ran>>
        BY <1>1 DEF Commanded, Idle
    <2>2. \A n \in ran : n \in Nat
        BY DEF Types
    <2>3. job # None => job.req \in Nat
        BY DEF Types, Jobs
    <2>4. CASE Declines
        BY <1>0, <2>1, <2>2, <2>3, <2>4 DEF Declines, Numbers
    <2>5. CASE \E q, c : Asks(q, c)
        <3>1. PICK q, c : Asks(q, c)
            BY <2>5
        <3>2. /\ \A i \in DOMAIN wire' :
                    \/ i \in DOMAIN wire /\ wire'[i] = wire[i]
                    \/ i = Len(wire) + 1 /\ wire'[i] = q
              /\ DOMAIN wire = 1..Len(wire) /\ q.n = sent + 1
            BY <1>0, <3>1, WireGrows DEF Asks
        <3>3. cur' = c /\ c.n = sent + 1 /\ c \in Calls
            BY <3>1 DEF Asks
        <3>4. Len(wire) \in Nat
            BY <1>0
        <3>5. \A i \in DOMAIN wire' : wire'[i].n <= sent'
            BY <1>0, <2>1, <3>2 DEF Numbers
        <3>6. \A i, j \in DOMAIN wire' : i < j => wire'[i].n < wire'[j].n
            BY <1>0, <3>2, <3>4 DEF Numbers
        <3>7. job' # None => up' /\ job'.req <= sent'
                              /\ \A i \in DOMAIN wire' : job'.req < wire'[i].n
            BY <1>0, <2>1, <2>3, <3>2 DEF Numbers
        <3>8. \A n \in ran' : n <= sent' /\ \A i \in DOMAIN wire' : n < wire'[i].n
            BY <1>0, <2>1, <2>2, <3>2 DEF Numbers
        <3>9. answer' = None
            BY <2>1 DEF Numbers
        <3>. QED
            BY <2>1, <3>3, <3>5, <3>6, <3>7, <3>8, <3>9 DEF Numbers
    <2>. QED
        BY <1>1, <2>4, <2>5 DEF Commanded
<1>2. CASE Timeout \/ Receive \/ ShellDies
    <2>1. cur' = None /\ answer' = None /\ UNCHANGED <<wire, job, up, ran, sent>>
        BY <1>2 DEF Timeout, Receive, ShellDies, Return, serverVars
    <2>. QED
        BY <2>1 DEF Numbers
<1>3. CASE TakeRequest /\ UNCHANGED shellVars
    <2>1. PICK step \in {"open", "reply"}, code \in {200, 201, 204, 404, 422} :
              Takes(Head(wire), step, code)
        BY <1>3, RequestTaken
    <2>2. /\ 1 \in DOMAIN wire /\ Head(wire) = wire[1]
          /\ \A i \in DOMAIN wire' : /\ i + 1 \in DOMAIN wire
                                     /\ wire'[i] = wire[i + 1]
                                     /\ i \in Nat /\ i >= 1
        BY <1>0, <1>3, RequestTaken, WireShrinks
    <2>3. up' /\ UNCHANGED <<sent, cur, answer>>
        BY <1>3, RequestTaken DEF shellVars
    <2>4. job'.req = wire[1].n /\ (ran' = ran \/ ran' = ran \cup {wire[1].n})
        BY <2>1, <2>2 DEF Takes
    <2>5. \A i \in DOMAIN wire' : wire[1].n < wire'[i].n
        BY <1>0, <2>2 DEF Numbers
    <2>6. \A i \in DOMAIN wire' : wire'[i].n <= sent'
        BY <2>2, <2>3 DEF Numbers
    <2>7. \A i, j \in DOMAIN wire' : i < j => wire'[i].n < wire'[j].n
        BY <1>0, <2>2 DEF Numbers
    <2>8. wire[1].n <= sent'
        BY <2>2, <2>3 DEF Numbers
    <2>9. \A n \in ran' : n <= sent' /\ \A i \in DOMAIN wire' : n < wire'[i].n
        <3>1. \A n \in ran : n <= sent' /\ \A i \in DOMAIN wire' : n < wire'[i].n
            BY <2>2, <2>3 DEF Numbers
        <3>. QED
            BY <2>4, <2>5, <2>8, <3>1
    <2>10. job' # None => up' /\ job'.req <= sent'
                           /\ \A i \in DOMAIN wire' : job'.req < wire'[i].n
        BY <2>3, <2>4, <2>5, <2>8
    <2>. QED
        BY <2>3, <2>6, <2>7, <2>9, <2>10 DEF Numbers
<1>4. CASE Save /\ UNCHANGED shellVars
    <2>1. up /\ job # None /\ job'.req = job.req /\ UNCHANGED <<wire, up, ran>>
        BY <1>4, SaveKeepsJob
    <2>. QED
        BY <1>4, <2>1 DEF Numbers, shellVars
<1>5. CASE Start /\ UNCHANGED shellVars
    BY <1>5 DEF Start, Numbers, shellVars
<1>6. CASE Answered
    <2>1. job' = None /\ UNCHANGED <<wire, up, ran, sent, cur>>
          /\ (cur = None => answer' = answer)
        BY <1>6 DEF Answered, Reply, Waiting
    <2>. QED
        BY <2>1 DEF Numbers
<1>7. CASE ServerKilled
    <2>1. job' = None /\ wire' = <<>> /\ UNCHANGED <<ran, sent, cur>>
          /\ (cur = None => answer' = answer)
        BY <1>7 DEF ServerKilled, Kill, Waiting
    <2>2. DOMAIN wire' = {}
        BY <2>1
    <2>. QED
        BY <2>1, <2>2 DEF Numbers
<1>8. CASE UNCHANGED vars
    BY <1>8 DEF Numbers, vars, serverVars, shellVars
<1>. QED
    BY <1>1, <1>2, <1>3, <1>4, <1>5, <1>6, <1>7, <1>8, StepCases

-------------------------------------------------------------------------------
(* The order log does not lie *)

LEMMA WireLeft ==
    ASSUME NEW P, wire \in Seq(Requests), Take(P)
    PROVE  /\ \A n : OnWire(n)' => OnWire(n)
           /\ OnWire(Head(wire).n)
BY WireShrinks DEF OnWire

\* No refusal is a fill, a timeout or nothing at all.
LEMMA RefusalsAreLines ==
    /\ None \notin Refusals /\ "FILLED" \notin Refusals /\ None # "FILLED"
    /\ "REJECTED_TIMEOUT" \notin Refusals
BY BrokerAssumption DEF Refusals, OrderLines

LEMMA TruthCommanded ==
    ASSUME Types, Numbers, Truth, Commanded
    PROVE  Truth'
<1>0. /\ wire \in Seq(Requests) /\ sent \in Nat /\ sent + 1 \in 1..MaxRequests
      /\ olog \in [1..MaxRequests -> {None} \cup OrderLines] /\ 1..MaxRequests \subseteq Nat
    BY BrokerAssumption DEF Types, Commanded, Idle
<1>1. /\ sent' = sent + 1 /\ cur = None /\ answer' = answer /\ answer = None
      /\ UNCHANGED <<job, ran, unread>>
    BY DEF Commanded, Idle, Numbers
<1>2. sent + 1 \notin ran /\ ~OnWire(sent + 1)
    BY <1>0 DEF Numbers, OnWire
<1>3. ASSUME NEW n \in 1..MaxRequests
      PROVE  Told(n)'
    <2>0. n \in Nat /\ Told(n)
        BY <1>0 DEF Truth, Told
    <2>1. CASE Declines
        <3>1. wire' = wire
            BY <2>1 DEF Declines
        <3>2. CASE n = sent + 1 /\ olog' # olog
            <4>1. olog'[n] \in Refusals
                BY <1>0, <2>1, <3>2 DEF Declines
            <4>. QED
                BY <1>0, <1>1, <1>2, <3>1, <3>2, <4>1, RefusalsAreLines
                DEF Told, OnWire
        <3>3. CASE n # sent + 1 \/ olog' = olog
            <4>1. olog'[n] = olog[n]
                BY <1>0, <2>1, <3>3 DEF Declines
            <4>. QED
                BY <1>0, <1>1, <2>0, <3>1, <4>1 DEF Told, OnWire
        <3>. QED
            BY <3>2, <3>3
    <2>2. CASE \E q, c : Asks(q, c)
        <3>1. PICK q, c : Asks(q, c)
            BY <2>2
        <3>2. /\ \A i \in DOMAIN wire' :
                    \/ i \in DOMAIN wire /\ wire'[i] = wire[i]
                    \/ i = Len(wire) + 1 /\ wire'[i] = q
              /\ q.n = sent + 1 /\ olog' = olog
            BY <1>0, <3>1, WireGrows DEF Asks
        <3>3. olog[n] \in Refusals => n # sent + 1
            BY <1>0, <2>0, RefusalsAreLines DEF Told
        <3>4. OnWire(n)' => OnWire(n) \/ n = sent + 1
            BY <3>2 DEF OnWire
        <3>. QED
            BY <1>0, <1>1, <2>0, <3>2, <3>3, <3>4 DEF Told
    <2>. QED
        BY <2>1, <2>2 DEF Commanded
<1>4. cur' # None /\ answer' \notin {None, Broken, Failed} => FALSE
    BY <1>1 DEF Commanded, Declines, Asks
<1>5. job' # None => ((job'.code = 201) <=> (job'.req \in ran'))
    BY <1>1 DEF Truth
<1>. QED
    BY <1>3, <1>4, <1>5 DEF Truth

LEMMA TruthReturned ==
    ASSUME Types, Numbers, Truth, OrderAsked, Timeout \/ Receive \/ ShellDies
    PROVE  Truth'
<1>0. /\ olog \in [1..MaxRequests -> {None} \cup OrderLines] /\ 1..MaxRequests \subseteq Nat
      /\ sent \in Nat /\ cur \in Calls /\ cur # None /\ cur.n = sent
    BY DEF Types, Timeout, Receive, ShellDies, Waiting, Numbers
<1>1. cur' = None /\ UNCHANGED <<wire, job, ran, sent>> /\ unread \subseteq unread'
    BY DEF Timeout, Receive, ShellDies, Return, serverVars
<1>2. ASSUME NEW n \in 1..MaxRequests, n # cur.n
      PROVE  Told(n)'
    <2>1. olog'[n] = olog[n]
        BY <1>0, <1>2 DEF Timeout, Receive, ShellDies, Log
    <2>. QED
        BY <1>1, <2>1 DEF Truth, Told, OnWire
<1>3. ASSUME NEW n \in 1..MaxRequests, n = cur.n
      PROVE  Told(n)'
    <2>1. CASE olog' = olog
        BY <1>1, <1>3, <2>1 DEF Truth, Told, OnWire
    <2>2. CASE Timeout /\ cur.order
        <3>1. olog'[n] = "REJECTED_TIMEOUT"
            BY <1>0, <1>3, <2>2 DEF Timeout, Log, IsOrder
        <3>. QED
            BY <1>0, <1>1, <1>3, <3>1, RefusalsAreLines DEF Told
    <2>3. CASE Receive /\ cur.order
        <3>1. olog'[n] = StatusOf(cur, answer) /\ answer # None
            BY <1>0, <1>3, <2>3 DEF Receive, Log, IsOrder
        <3>2. ASSUME olog'[n] = "FILLED"
              PROVE  n \in ran
            <4>0. StatusOf(cur, answer) = "FILLED" => answer = 200 \/ answer = 201
                BY <1>0, StatusLine
            <4>1. answer = 200 \/ answer = 201
                BY <3>1, <3>2, <4>0
            <4>. QED
                BY <1>0, <1>3, <2>3, <4>1 DEF OrderAsked
        <3>5. ASSUME answer = Failed
              PROVE  n \in unread' /\ olog'[n] = "REJECTED_NETWORK"
            <4>1. unread' = unread \cup {cur.n}
                BY <2>3, <3>5 DEF Receive, IsOrder
            <4>. QED
                BY <1>0, <1>3, <3>1, <3>5, <4>1, StatusLine
        <3>3. ASSUME olog'[n] \in Refusals, answer # Failed
              PROVE  n \notin ran
            <4>1. answer # Broken /\ (cur.broker # "ibkr" => answer \notin {200, 201})
                BY <1>0, <3>1, <3>3, StatusLine
            <4>. QED
                BY <1>0, <1>3, <2>3, <3>1, <3>3, <4>1 DEF OrderAsked
        <3>4. ASSUME olog'[n] \in Refusals, answer # Failed
              PROVE  ~OnWire(n)
            <4>1. answer # Broken
                BY <1>0, <3>1, <3>4, StatusLine
            <4>. QED
                BY <1>0, <1>3, <3>1, <3>4, <4>1 DEF Truth
        <3>. QED
            BY <1>0, <1>1, <1>3, <3>2, <3>3, <3>4, <3>5 DEF Told, OnWire
    <2>. QED
        BY <2>1, <2>2, <2>3 DEF Timeout, Receive, ShellDies, IsOrder
<1>. QED
    BY <1>1, <1>2, <1>3 DEF Truth

LEMMA TruthTaken ==
    ASSUME Types, Numbers, Truth, TakeRequest, UNCHANGED shellVars
    PROVE  Truth'
<1>. DEFINE h == Head(wire).n
<1>1. PICK step \in {"open", "reply"}, code \in {200, 201, 204, 404, 422} :
          Takes(Head(wire), step, code)
    BY RequestTaken
<1>2. /\ \A n : OnWire(n)' => OnWire(n)
      /\ OnWire(h)
    BY RequestTaken, WireLeft DEF Types
<1>3. job' = [req |-> h, step |-> step, code |-> code]
      /\ (code = 201 => ran' = ran \cup {h}) /\ (code # 201 => ran' = ran)
    BY <1>1 DEF Takes
<1>4. h \notin ran
    <2>1. 1 \in DOMAIN wire /\ h = wire[1].n /\ wire[1].n \in Nat
        BY RequestTaken, WireShrinks DEF Types, Requests
    <2>. QED
        BY <2>1 DEF Numbers
<1>. HIDE DEF h
<1>5. UNCHANGED <<sent, cur, answer, olog, unread>>
    BY DEF shellVars
<1>6. ASSUME NEW n \in 1..MaxRequests
      PROVE  Told(n)'
    <2>1. Told(n)
        BY DEF Truth, Told
    <2>2. n \in ran' => n \in ran \/ n = h
        BY <1>3
    <2>3. n \in ran => n \in ran'
        BY <1>3
    <2>. QED
        BY <1>2, <1>5, <2>1, <2>2, <2>3 DEF Told
<1>7. job' # None => ((job'.code = 201) <=> (job'.req \in ran'))
    BY <1>3, <1>4
<1>8. (cur # None /\ answer \notin {None, Broken, Failed} => ~OnWire(cur.n))'
    BY <1>2, <1>5 DEF Truth
<1>. QED
    BY <1>6, <1>7, <1>8 DEF Truth

LEMMA TruthStep ==
    ASSUME Types, Numbers, Truth, OrderAsked, [Next]_vars
    PROVE  Truth'
<1>1. CASE Save /\ UNCHANGED shellVars
    BY <1>1, SaveKeepsJob DEF Truth, Told, OnWire, shellVars
<1>2. CASE Start /\ UNCHANGED shellVars
    BY <1>2 DEF Start, Truth, Told, OnWire, shellVars
<1>3. CASE Answered
    <2>1. job' = None /\ UNCHANGED <<wire, ran, sent, cur, olog, unread>>
          /\ \/ answer' = answer \/ answer' = Failed
             \/ Waiting /\ cur.n = job.req /\ answer' = job.code
        BY <1>3 DEF Answered, Reply, Comes
    <2>2. job # None
        BY <1>3 DEF Answered, Reply, At
    <2>3. ~OnWire(job.req)
        <3>1. job.req \in Nat /\ \A i \in DOMAIN wire : wire[i].n \in Nat
            BY <2>2 DEF Types, Jobs, Requests
        <3>. QED
            BY <2>2, <3>1 DEF Numbers, OnWire
    <2>4. (cur # None /\ answer \notin {None, Broken, Failed} => ~OnWire(cur.n))'
        BY <2>1, <2>3 DEF Truth, OnWire, Waiting
    <2>5. \A n \in 1..MaxRequests : Told(n)'
        BY <2>1 DEF Told, Truth, OnWire
    <2>. QED
        BY <2>1, <2>4, <2>5 DEF Truth
<1>4. CASE ServerKilled
    <2>1. job' = None /\ wire' = <<>> /\ UNCHANGED <<ran, sent, cur, olog, unread>>
        BY <1>4 DEF ServerKilled, Kill
    <2>2. \A n : ~OnWire(n)'
        BY <2>1 DEF OnWire
    <2>3. \A n \in 1..MaxRequests : Told(n)'
        BY <2>1, <2>2 DEF Told, Truth
    <2>4. (cur # None /\ answer \notin {None, Broken, Failed} => ~OnWire(cur.n))'
        BY <2>2
    <2>. QED
        BY <2>1, <2>3, <2>4 DEF Truth
<1>5. CASE UNCHANGED vars
    BY <1>5 DEF Truth, Told, OnWire, vars, serverVars, shellVars
<1>. QED
    BY <1>1, <1>2, <1>3, <1>4, <1>5, StepCases, TruthCommanded, TruthReturned,
       TruthTaken

-------------------------------------------------------------------------------
(* What the answer to an order says *)

\* The request of the call the shell waits in, if it is still to be served, is
\* for a path of orders.
LEMMA AskedStep ==
    ASSUME Types, Numbers, Truth, OrderAsked, [Next]_vars
    PROVE  OrderAsked'
<1>0. /\ wire \in Seq(Requests) /\ sent \in Nat
      /\ \A i \in DOMAIN wire : wire[i].n \in Nat
    BY DEF Types, Requests
<1>1. CASE Commanded
    <2>1. /\ sent' = sent + 1 /\ cur = None /\ answer' = None
          /\ UNCHANGED <<job, ran>>
        BY <1>1 DEF Commanded, Idle, Numbers
    <2>2. CASE Declines
        BY <2>1, <2>2 DEF Declines, OrderAsked
    <2>3. CASE \E q, c : Asks(q, c)
        <3>1. PICK q, c : Asks(q, c)
            BY <2>3
        <3>2. /\ \A i \in DOMAIN wire' :
                    \/ i \in DOMAIN wire /\ wire'[i] = wire[i]
                    \/ i = Len(wire) + 1 /\ wire'[i] = q
              /\ cur' = c /\ c.n = sent + 1
              /\ c.order => q.path \in OrderPaths(c.broker)
            BY <1>0, <3>1, WireGrows DEF Asks
        <3>3. c.n \notin ran
            BY <1>0, <3>2 DEF Numbers
        <3>4. job # None => job.req # c.n
            <4>1. job # None => job.req \in Nat /\ job.req <= sent
                BY DEF Types, Jobs, Numbers
            <4>. QED
                BY <1>0, <3>2, <4>1
        <3>5. \A i \in DOMAIN wire' : wire'[i].n = c.n => wire'[i] = q
            BY <1>0, <3>2 DEF Numbers
        <3>6. None # 200 /\ None # 201
            BY BrokerAssumption
        <3>. QED
            BY <2>1, <3>2, <3>3, <3>4, <3>5, <3>6 DEF OrderAsked
    <2>. QED
        BY <1>1, <2>2, <2>3 DEF Commanded
<1>2. CASE Timeout \/ Receive \/ ShellDies
    BY <1>2 DEF Timeout, Receive, ShellDies, Return, OrderAsked
<1>3. CASE TakeRequest /\ UNCHANGED shellVars
    <2>1. PICK step \in {"open", "reply"}, code \in {200, 201, 204, 404, 422} :
              Takes(Head(wire), step, code)
        BY <1>3, RequestTaken
    <2>2. /\ 1 \in DOMAIN wire /\ Head(wire) = wire[1]
          /\ \A i \in DOMAIN wire' : /\ i + 1 \in DOMAIN wire
                                     /\ wire'[i] = wire[i + 1]
        BY <1>0, <1>3, RequestTaken, WireShrinks
    <2>3. UNCHANGED <<cur, answer>>
        BY <1>3 DEF shellVars
    <2>. DEFINE h == wire[1]
    <2>4. /\ job' = [req |-> h.n, step |-> step, code |-> code]
          /\ code = 201 => h.path = "/orders" /\ ran' = ran \cup {h.n}
          /\ code # 201 => ran' = ran
          /\ code = 200 => h.path = "read"
        BY <2>1, <2>2 DEF Takes
    <2>5. ASSUME cur # None, cur.order
          PROVE  OrderAsked'
        <3>1. h.n = cur.n => h.path \in OrderPaths(cur.broker)
            BY <2>2, <2>5 DEF OrderAsked
        <3>2. \A i \in DOMAIN wire' : wire'[i].n = cur.n =>
                  wire'[i].path \in OrderPaths(cur.broker)
            BY <2>2, <2>5 DEF OrderAsked
        <3>3. answer \notin {None, Broken, Failed} => h.n # cur.n
            BY <2>2, <2>5 DEF Truth, OnWire
        <3>. HIDE DEF h
        <3>4. cur.broker = "ibkr" => cur.n \notin ran'
            BY <2>4, <2>5, <3>1 DEF OrderAsked, OrderPaths
        <3>5. job'.req = cur.n => job'.code # 200
            BY <2>4, <3>1 DEF OrderPaths
        <3>6. /\ answer # 200
              /\ answer = 201 => cur.n \in ran'
              /\ answer \notin {None, Broken, Failed, 201} => cur.n \notin ran'
            BY <2>4, <2>5, <3>3 DEF OrderAsked
        <3>. QED
            BY <2>3, <3>2, <3>4, <3>5, <3>6 DEF OrderAsked
    <2>. QED
        BY <2>3, <2>5 DEF OrderAsked
<1>4. CASE Save /\ UNCHANGED shellVars
    BY <1>4, SaveKeepsJob DEF OrderAsked, shellVars
<1>5. CASE Start /\ UNCHANGED shellVars
    BY <1>5 DEF Start, OrderAsked, shellVars
<1>6. CASE Answered
    <2>1. /\ job # None /\ job' = None /\ UNCHANGED <<wire, ran, cur>>
          /\ \/ answer' = answer \/ answer' = Failed
             \/ Waiting /\ cur.n = job.req /\ answer' = job.code
        BY <1>6 DEF Answered, Reply, At, Comes
    <2>2. ASSUME cur # None, cur.order, cur.n = job.req
          PROVE  /\ job.code # 200
                 /\ (job.code = 201) <=> (cur.n \in ran)
        BY <2>1, <2>2 DEF OrderAsked, Truth
    <2>3. ASSUME cur # None, cur.order
          PROVE  OrderAsked'
        BY <2>1, <2>2, <2>3 DEF OrderAsked, Waiting, Failed
    <2>. QED
        BY <2>1, <2>3 DEF OrderAsked
<1>7. CASE ServerKilled
    <2>1. /\ job' = None /\ wire' = <<>> /\ UNCHANGED <<ran, cur>>
          /\ answer' \in {Broken, Failed, answer}
        BY <1>7 DEF ServerKilled, Kill, Comes
    <2>2. DOMAIN wire' = {} /\ Broken \notin {200, 201} /\ Failed \notin {200, 201}
        BY <2>1 DEF Broken, Failed
    <2>. QED
        BY <2>1, <2>2 DEF OrderAsked
<1>8. CASE UNCHANGED vars
    BY <1>8 DEF OrderAsked, vars, serverVars, shellVars
<1>. QED
    BY <1>1, <1>2, <1>3, <1>4, <1>5, <1>6, <1>7, <1>8, StepCases

Loyal == Types /\ Numbers /\ Truth /\ OrderAsked

LEMMA LoyalStart ==
    ASSUME Init
    PROVE  Loyal
<1>1. wire = <<>> /\ DOMAIN wire = {} /\ job = None /\ cur = None /\ answer = None
      /\ ran = {} /\ unread = {} /\ olog = [n \in 1..MaxRequests |-> None]
    BY DEF Init, ServerInit
<1>2. Truth
    BY <1>1, RefusalsAreLines DEF Truth, Told
<1>. QED
    BY <1>1, <1>2, TypesStart DEF Loyal, Numbers, OrderAsked

\* The order log does not lie, now or later: what it calls FILLED the broker has
\* filled, and what it calls refused the broker never fills, however long a
\* request lies in its queue, but for the REJECTED_NETWORK of a transfer that
\* failed, after it was sent, with an error the adapters do not list
\* (alpaca_order(), ibkr_order() and generic_order() of broker.c).
THEOREM LogsAreTrue == Spec => []LogIsTrue
<1>1. Init => Loyal
    BY LoyalStart
<1>2. Loyal /\ [Next]_vars => Loyal'
    BY TypesStep, NumbersStep, TruthStep, AskedStep DEF Loyal
<1>3. Loyal => LogIsTrue
    BY DEF Loyal, Truth, Told, LogIsTrue
<1>. QED
    BY <1>1, <1>2, <1>3, PTL DEF Spec

-------------------------------------------------------------------------------
(* A fill that was answered is kept *)

\* What an answered fill n may count on.
Secure(n) ==
    /\ up => Has(acct, n)
    /\ disk # NoFile
    /\ disk # Torn => Has(disk, n)

JobKept ==
    job # None /\ job.code = 201 =>
        Has(acct, job.req) /\ (job.step = "reply" => disk = acct)

LEMMA KeptParts == Kept <=> (~forgot => JobKept /\ \A n \in 1..MaxRequests :
                                           Settled(n) => Secure(n))
BY DEF Kept, JobKept, Secure

\* An account that could be read is neither of the files that cannot.
LEMMA AccountIsFile ==
    ASSUME NEW a, Sound(a)
    PROVE  a # NoFile /\ a # Torn
BY ServerAssumption DEF Sound

\* Commands, and what the shell does with an answer, settle nothing new.
LEMMA ShellSettles ==
    ASSUME Types, Numbers, OrderAsked, Commanded \/ Timeout \/ Receive \/ ShellDies,
           NEW n \in 1..MaxRequests, Settled(n)'
    PROVE  Settled(n)
<1>0. olog \in [1..MaxRequests -> {None} \cup OrderLines]
    BY DEF Types
<1>1. CASE Commanded
    <2>1. sent + 1 \in 1..MaxRequests /\ answer' = None /\ cur = None
        BY <1>1, BrokerAssumption DEF Commanded, Idle, Types, Numbers
    <2>2. olog'[n] = "FILLED"
        BY <2>1, BrokerAssumption DEF Settled
    <2>3. olog' = olog \/ \E s \in Refusals : olog' = [olog EXCEPT ![sent + 1] = s]
        BY <1>1 DEF Commanded, Declines, Asks
    <2>4. olog[n] = "FILLED"
        BY <1>0, <2>1, <2>2, <2>3, RefusalsAreLines
    <2>. QED
        BY <2>4 DEF Settled
<1>2. CASE Timeout \/ Receive \/ ShellDies
    <2>1. cur' = None /\ cur # None
        BY <1>2 DEF Timeout, Receive, ShellDies, Return, Waiting
    <2>2. olog'[n] = "FILLED"
        BY <2>1 DEF Settled
    <2>3. CASE olog'[n] = olog[n]
        BY <2>2, <2>3 DEF Settled
    <2>4. CASE olog'[n] # olog[n]
        <3>1. cur \in Calls /\ cur.order /\ cur.n = n /\ ~ShellDies
            BY <1>0, <1>2, <2>1, <2>4 DEF Types, Timeout, Receive, ShellDies, Log, IsOrder
        <3>2. ~Timeout
            <4>1. Timeout => olog' = [olog EXCEPT ![cur.n] = "REJECTED_TIMEOUT"]
                BY <3>1 DEF Timeout, Log, IsOrder
            <4>. QED
                BY <1>0, <2>2, <3>1, <4>1
        <3>3. olog' = [olog EXCEPT ![cur.n] = StatusOf(cur, answer)]
            BY <1>2, <3>1, <3>2 DEF Receive, Log, IsOrder
        <3>4. StatusOf(cur, answer) = "FILLED"
            BY <1>0, <2>2, <3>1, <3>3
        <3>5. answer = 200 \/ answer = 201
            BY <3>1, <3>4, StatusLine
        <3>. QED
            BY <2>1, <3>1, <3>5 DEF OrderAsked, Settled
    <2>. QED
        BY <2>3, <2>4
<1>. QED
    BY <1>1, <1>2

LEMMA KeptStep ==
    ASSUME Loyal, Kept, [Next]_vars
    PROVE  Kept'
<1>0. Types /\ Numbers /\ Truth /\ OrderAsked
    BY DEF Loyal
<1>. SUFFICES ASSUME ~forgot'
              PROVE  JobKept' /\ \A n \in 1..MaxRequests : Settled(n)' => Secure(n)'
    BY DEF Kept, JobKept, Secure
<1>1. CASE Commanded \/ Timeout \/ Receive \/ ShellDies
    <2>1. UNCHANGED <<up, job, acct, disk, forgot>>
        BY <1>1 DEF Commanded, Timeout, Receive, ShellDies, Return, serverVars
    <2>2. \A n \in 1..MaxRequests : Settled(n)' => Settled(n)
        BY <1>0, <1>1, ShellSettles
    <2>. QED
        BY <2>1, <2>2, KeptParts DEF JobKept, Secure, Has
<1>2. CASE TakeRequest /\ UNCHANGED shellVars
    <2>1. PICK step \in {"open", "reply"}, code \in {200, 201, 204, 404, 422} :
              Takes(Head(wire), step, code)
        BY <1>0, <1>2, RequestTaken
    <2>2. UNCHANGED <<up, disk, forgot>>
        BY <1>0, <1>2, RequestTaken
    <2>3. \A n : Has(acct, n) => Has(acct', n)
        BY <2>1 DEF Takes
    <2>4. \A n \in 1..MaxRequests : Settled(n)' => Settled(n)
        BY <1>2 DEF Settled, shellVars
    <2>. DEFINE h == Head(wire).n
    <2>5. job' = [req |-> h, step |-> step, code |-> code]
          /\ (code = 201 => Has(acct', h) /\ step = "open")
        BY <2>1 DEF Takes
    <2>. HIDE DEF h
    <2>6. JobKept'
        BY <2>5 DEF JobKept
    <2>7. \A n \in 1..MaxRequests : Secure(n) => Secure(n)'
        <3>. SUFFICES ASSUME NEW n \in 1..MaxRequests, Secure(n)
                      PROVE  Secure(n)'
            OBVIOUS
        <3>1. (up => Has(acct, n)) /\ disk # NoFile /\ (disk # Torn => Has(disk, n))
            BY DEF Secure
        <3>2. (up' => Has(acct', n)) /\ disk' # NoFile /\ (disk' # Torn => Has(disk', n))
            BY <2>2, <2>3, <3>1
        <3>. QED
            BY <3>2 DEF Secure
    <2>. QED
        BY <2>2, <2>4, <2>6, <2>7, KeptParts
<1>3. CASE Save /\ UNCHANGED shellVars
    <2>1. up /\ job # None /\ job' # None /\ job'.req = job.req /\ job'.code = job.code
          /\ UNCHANGED <<up, acct>>
        BY <1>0, <1>3, SaveKeepsJob
    <2>2. \A n \in 1..MaxRequests : Settled(n)' => Settled(n)
        BY <1>3 DEF Settled, shellVars
    <2>3. ~SaveFails /\ ~forgot
        BY <1>3 DEF Save, SaveOpen, SaveWrite, SaveFails
    <2>4. Sound(acct) /\ job \in Jobs
        BY <1>0, <2>1 DEF Types
    <2>5. CASE SaveOpen
        <3>1. disk' = Torn /\ job'.step = "write"
            BY <2>4, <2>5 DEF SaveOpen, JobGoesTo, Jobs
        <3>2. Torn # NoFile
            BY ServerAssumption
        <3>. QED
            BY <2>1, <2>2, <2>3, <3>1, <3>2, KeptParts DEF JobKept, Secure, Has
    <2>6. CASE SaveWrite
        <3>1. disk' = acct
            BY <2>6 DEF SaveWrite
        <3>2. acct # NoFile
            BY <2>4, AccountIsFile
        <3>. QED
            BY <2>1, <2>2, <2>3, <3>1, <3>2, KeptParts DEF JobKept, Secure, Has
    <2>. QED
        BY <1>3, <2>3, <2>5, <2>6 DEF Save
<1>4. CASE Start /\ UNCHANGED shellVars
    <2>1. ~forgot /\ disk \notin {NoFile, Torn} /\ disk' # NoFile /\ ~up
          /\ UNCHANGED job
        BY <1>4 DEF Start
    <2>2. disk' = disk /\ acct' = disk
        BY <1>4, <2>1 DEF Start, LoadState
    <2>3. job = None
        BY <1>0, <2>1 DEF Numbers
    <2>4. \A n \in 1..MaxRequests : Settled(n)' => Settled(n)
        BY <1>4 DEF Settled, shellVars
    <2>. QED
        BY <2>1, <2>2, <2>3, <2>4, KeptParts DEF JobKept, Secure, Has
<1>5. CASE Answered
    <2>1. /\ up /\ job # None /\ job.step = "reply" /\ job' = None
          /\ UNCHANGED <<up, acct, disk, forgot, cur, olog>>
          /\ \/ answer' = answer \/ answer' = Failed
             \/ Waiting /\ cur.n = job.req /\ answer' = job.code
        BY <1>5 DEF Answered, Reply, At, Comes
    <2>2. ASSUME NEW n \in 1..MaxRequests, Settled(n)', ~Settled(n)
          PROVE  job.req = n /\ job.code = 201
        BY <2>1, <2>2 DEF Settled, Waiting, Failed
    <2>3. acct # NoFile
        BY <1>0, AccountIsFile DEF Types
    <2>4. ASSUME NEW n \in 1..MaxRequests, Settled(n)'
          PROVE  Secure(n)'
        <3>1. CASE Settled(n)
            BY <2>1, <3>1, KeptParts DEF Secure, Has
        <3>2. CASE ~Settled(n)
            <4>1. Has(acct, n) /\ disk = acct
                BY <2>1, <2>2, <2>4, <3>2, KeptParts DEF JobKept
            <4>. QED
                BY <2>1, <2>3, <4>1 DEF Secure, Has
        <3>. QED
            BY <3>1, <3>2
    <2>. QED
        BY <2>1, <2>4 DEF JobKept
<1>6. CASE ServerKilled
    <2>1. /\ up' = FALSE /\ job' = None /\ UNCHANGED <<acct, disk, forgot, cur, olog>>
          /\ answer' \in {Broken, Failed, answer}
        BY <1>6 DEF ServerKilled, Kill, Comes
    <2>2. Broken # 201 /\ Failed # 201
        BY DEF Broken, Failed
    <2>3. \A n \in 1..MaxRequests : Settled(n)' => Settled(n)
        BY <2>1, <2>2 DEF Settled
    <2>. QED
        BY <2>1, <2>3, KeptParts DEF JobKept, Secure, Has
<1>7. CASE UNCHANGED vars
    BY <1>7, KeptParts DEF JobKept, Secure, Has, Settled, vars, serverVars, shellVars
<1>. QED
    BY <1>0, <1>1, <1>2, <1>3, <1>4, <1>5, <1>6, <1>7, StepCases

\* An order the log calls FILLED is in the server's account and in every state
\* file that can be read, across any number of restarts, unless a start found no
\* account or a save failed: _place_order() saves before it answers.
THEOREM AnsweredFillsAreKept == Spec => []KeptAnswers
<1>1. Init => Loyal /\ Kept
    <2>1. Init => \A n \in 1..MaxRequests : ~Settled(n)
        BY RefusalsAreLines DEF Init, Settled
    <2>2. Init => job = None
        BY DEF Init, ServerInit
    <2>. QED
        BY <2>1, <2>2, LoyalStart DEF Kept
<1>2. Loyal /\ Kept /\ [Next]_vars => Loyal' /\ Kept'
    BY TypesStep, NumbersStep, TruthStep, AskedStep, KeptStep DEF Loyal
<1>3. Kept => KeptAnswers
    BY DEF Kept, Settled, KeptAnswers
<1>. QED
    BY <1>1, <1>2, <1>3, PTL DEF Spec


===============================================================================
