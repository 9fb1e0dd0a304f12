------------------------------- MODULE SimServer -------------------------------
(***************************************************************************)
(* The simulation server behind BROKER_API (src/scripts/sim_server.py): an *)
(* HTTP server with one thread, an account in memory, and a state file it  *)
(* rewrites in place after every order.  It serves one request at a time   *)
(* in the order they arrived, whether or not the client still waits.       *)
(*                                                                         *)
(* Average costs, the list of fills and the JSON around them are not in    *)
(* the state.  An order is known by the request that placed it; its id is  *)
(* its place in the account's sequence (order_seq starts at 1000).         *)
(***************************************************************************)
EXTENDS Integers, Sequences

CONSTANTS
    Symbols,
    Prices,      \* prices get_price() may return
    Capital,     \* --capital
    ServerFaults, \* the faults of this instance, see below
    NoFile,
    Torn,        \* what open(STATE_FILE, "w") leaves until the dump is written
    None

(* "kill": the server ends at any point; "save": STATE_FILE cannot be      *)
(* opened or written; "reset": it is started with --reset.                 *)
AllServerFaults == {"kill", "save", "reset"}

Statuses == {"filled", "rejected", "cancelled"}
Accounts == [cash : Int, qty : [Symbols -> Int],
             orders : Seq([req : Nat, status : Statuses])]

ASSUME ServerAssumption ==
    /\ Prices \subseteq Nat \ {0} /\ Capital \in Nat
    /\ ServerFaults \subseteq AllServerFaults
    /\ NoFile \notin Accounts /\ Torn \notin Accounts /\ NoFile # Torn
    /\ None \notin [req : Nat, step : {"open", "write", "reply"}, code : Nat]

VARIABLES
    wire,    \* requests accepted and not yet read, oldest first
    up,      \* the server is listening
    job,     \* the request it is at: its number, the next step, the HTTP code
    acct,    \* _state
    disk,    \* STATE_FILE
    ran,     \* history: the numbers of the requests whose order was filled
    forgot   \* history: some start did not find the account, or a save failed

serverVars == <<wire, up, job, acct, disk, ran, forgot>>

-------------------------------------------------------------------------------
\* _default_state()
Fresh == [cash |-> Capital, qty |-> [s \in Symbols |-> 0], orders |-> <<>>]

\* _load_state(): no file and one that is not JSON are a fresh account alike.
LoadState == IF disk \in {NoFile, Torn} THEN Fresh ELSE disk

\* limit_price, 0 if the body has none, is the price of all but market orders.
FillPrice(q, market) == IF q.of.type = "market" THEN market ELSE q.of.limit

\* Mistake: a sale does not look at the position.
CanFillBlind(q, price) == q.of.side = "sell" \/ acct.cash >= price * q.of.size

CanFill(q, price) ==
    IF q.of.side = "buy" THEN acct.cash >= price * q.of.size
                         ELSE acct.qty[q.of.symbol] >= q.of.size

Filled(a, q, price) ==
    LET d == IF q.of.side = "buy" THEN q.of.size ELSE -q.of.size
    IN [cash |-> a.cash - price * d,
        qty |-> [a.qty EXCEPT ![q.of.symbol] = @ + d],
        orders |-> a.orders]

Listed(a, q, s) ==
    [cash |-> a.cash, qty |-> a.qty,
     orders |-> Append(a.orders, [req |-> q.n, status |-> s])]

Cancelled(a, id) ==
    [cash |-> a.cash, qty |-> a.qty,
     orders |-> [a.orders EXCEPT ![id] = [req |-> @.req, status |-> "cancelled"]]]

ServerInit ==
    /\ wire = <<>>
    /\ up = TRUE
    /\ job = None
    /\ acct = Fresh
    /\ disk = NoFile
    /\ ran = {}
    /\ forgot = FALSE

Accept(q) ==
    /\ up
    /\ wire' = Append(wire, q)
    /\ UNCHANGED <<up, job, acct, disk, ran, forgot>>

Job(q, step, code) == job' = [req |-> q.n, step |-> step, code |-> code]

\* The next request, if it is for one of these paths.  Only an order that was
\* filled, rejected or cancelled is followed by a save.
Take(paths) ==
    /\ up /\ job = None /\ wire # <<>>
    /\ Head(wire).path \in paths
    /\ wire' = Tail(wire)
    /\ UNCHANGED <<up, disk, forgot>>

\* Mistake: the order is answered first and saved with the next one.
OrderStepUnsaved == "reply"

\* After the order is in the account comes the save.
OrderStep == "open"

\* POST /orders: do_POST() and _place_order()
TakeOrder ==
    /\ Take({"/orders"})
    /\ \E market \in Prices :
         LET q == Head(wire)
             price == FillPrice(q, market)
         IN IF CanFill(q, price)
            THEN /\ Job(q, OrderStep, 201)
                 /\ acct' = Listed(Filled(acct, q, price), q, "filled")
                 /\ ran' = ran \cup {q.n}
            ELSE /\ Job(q, OrderStep, 422)
                 /\ acct' = Listed(acct, q, "rejected")
                 /\ UNCHANGED ran

\* DELETE /orders/ID: do_DELETE()
TakeCancel ==
    /\ Take({"/orders/ID"})
    /\ LET q == Head(wire)
       IN CASE q.of.id \notin DOMAIN acct.orders ->
                 Job(q, "reply", 404) /\ UNCHANGED acct
            [] q.of.id \in DOMAIN acct.orders
                 /\ acct.orders[q.of.id].status = "filled" ->
                 Job(q, "reply", 422) /\ UNCHANGED acct
            [] OTHER ->
                 /\ Job(q, "open", 204)
                 /\ acct' = Cancelled(acct, q.of.id)
    /\ UNCHANGED ran

\* The rest: do_GET() of /positions and /account, and the 404 of every method.
TakeOther ==
    /\ Take({"read", "unknown"})
    /\ Job(Head(wire), "reply", IF Head(wire).path = "unknown" THEN 404 ELSE 200)
    /\ UNCHANGED <<acct, ran>>

-------------------------------------------------------------------------------
\* _save_state(): an OSError is caught, and the answer goes out all the same.

At(step) == up /\ job # None /\ job.step = step
JobGoesTo(step) == job' = [job EXCEPT !.step = step]

SaveOpen ==
    /\ At("open")
    /\ disk' = Torn
    /\ JobGoesTo("write")
    /\ UNCHANGED <<wire, up, acct, ran, forgot>>

SaveWrite ==
    /\ At("write")
    /\ disk' = acct
    /\ JobGoesTo("reply")
    /\ UNCHANGED <<wire, up, acct, ran, forgot>>

SaveFails ==
    /\ "save" \in ServerFaults
    /\ At("open") \/ At("write")
    /\ forgot' = TRUE
    /\ JobGoesTo("reply")
    /\ UNCHANGED <<wire, up, acct, disk, ran>>

\* _send_json(): what becomes of the answer is the client's matter.
Reply ==
    /\ At("reply")
    /\ job' = None
    /\ UNCHANGED <<wire, up, acct, disk, ran, forgot>>

Save == SaveOpen \/ SaveWrite \/ SaveFails

-------------------------------------------------------------------------------
\* The process ends, by Ctrl-C or otherwise, between any two steps.
Kill ==
    /\ "kill" \in ServerFaults
    /\ up
    /\ up' = FALSE
    /\ job' = None
    /\ wire' = <<>>
    /\ UNCHANGED <<acct, disk, ran, forgot>>

\* main(); --reset removes the file first.
Start ==
    /\ ~up
    /\ up' = TRUE
    /\ \/ acct' = LoadState /\ UNCHANGED disk
       \/ "reset" \in ServerFaults /\ acct' = Fresh /\ disk' = NoFile
    /\ forgot' = (forgot \/ disk \in {NoFile, Torn} \/ disk' = NoFile)
    /\ UNCHANGED <<wire, job, ran>>

===============================================================================
