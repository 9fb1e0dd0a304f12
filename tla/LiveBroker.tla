------------------------------ MODULE LiveBroker ------------------------------
(***************************************************************************)
(* Orders that leave the shell (src/src/broker.c, sections 5 to 7, built   *)
(* with libcurl): the checks and refusals of command_order(), the Alpaca,  *)
(* IBKR and generic adapters, and the line each outcome leaves in the      *)
(* order log, against the simulation server of SimServer.  A request       *)
(* blocks the shell until an answer, a broken connection or curl's timeout *)
(* (10 s, 15 s for IBKR); what was sent stays with the server.             *)
(*                                                                         *)
(* The in-process paper account, which no request leaves for, is           *)
(* PaperLedger.  Its daily counter is the one the checks read here: orders *)
(* of the adapters are not counted, so PaperToday is a constant.           *)
(***************************************************************************)
EXTENDS SimServer

CONSTANTS
    Allowed,     \* ALLOWED_SYMBOLS
    MaxPosition, \* MAX_POSITION_SIZE
    MaxPerDay,   \* MAX_ORDERS_PER_DAY
    PaperToday,  \* peek_orders_today()
    Sizes,       \* sizes of orders
    ShellFaults, \* the faults of this instance, see below
    MaxRequests  \* bound on the commands given

(* "send": libcurl cannot connect or send although the server is up;       *)
(* "crash": the shell ends while it waits, and another takes its place;    *)
(* "read": libcurl fails after the request has gone out, in a way the      *)
(* adapters do not list, as when curl_write_cb() returns less than it got. *)
AllShellFaults == {"send", "crash", "read"}

\* The lines of the order log that an adapter, or a check before it, writes.
OrderLines == {"REJECTED_RISK_SIZE", "REJECTED_RISK_SYMBOL",
               "REJECTED_RISK_ORDER_COUNT", "REJECTED_LIVE_NOT_CONFIRMED",
               "REJECTED_NETWORK", "REJECTED_TIMEOUT", "REJECTED_API",
               "UNKNOWN_STATE_NO_CONFIRM", "FILLED", "SUBMITTED"}

ASSUME BrokerAssumption ==
    /\ Allowed \subseteq Symbols
    /\ MaxPosition \in Nat \ {0} /\ MaxPerDay \in Nat \ {0} /\ PaperToday \in Nat
    /\ Sizes \subseteq Nat \ {0}
    /\ ShellFaults \subseteq AllShellFaults
    /\ MaxRequests \in Nat
    /\ None \notin OrderLines /\ None \notin Nat

VARIABLES
    sent,    \* commands given so far; the number of a request is its command's
    cur,     \* the request curl_easy_perform() is in, or None
    answer,  \* what has come back: an HTTP code, Broken, Failed, or None
    olog,    \* olog[n]: the status order_log_append() wrote for order n, or None
    orphans, \* history: the orders whose shell ended while it waited
    unread   \* history: the orders libcurl failed at after they had gone out

shellVars == <<sent, cur, answer, olog, orphans, unread>>
vars == <<serverVars, shellVars>>

-------------------------------------------------------------------------------
\* What detect_broker() makes of ACCOUNT, BROKER and BROKER_API, and whether
\* LAS_SHELL_LIVE_CONFIRMED, BROKER_API and IBKR_ACCOUNT_ID are set.
Environments == [broker : {"alpaca", "ibkr", "generic"},
                 confirmed : BOOLEAN, api : BOOLEAN, account : BOOLEAN]

Orders == {o \in [side : {"buy", "sell"}, symbol : Symbols, size : Sizes,
                  type : {"market", "limit", "stop"}, limit : {0} \cup Prices] :
               (o.type = "market") = (o.limit = 0)}

\* What is sent of an order: a stop goes without its price.
Body(o) == IF o.type = "stop" THEN [o EXCEPT !.limit = 0] ELSE o

\* The path each adapter asks for, as the server knows it: Alpaca's /v2/account
\* but not /v2/positions, none of the IBKR gateway's.
AlpacaPath(kind) ==
    CASE kind = "order" -> "/orders"
      [] kind = "cancel" -> "/orders/ID"
      [] kind = "balance" -> "read"
      [] OTHER -> "unknown"

\* Orders of IBKR are cancelled by generic_cancel().
IbkrPath(kind) == IF kind = "cancel" THEN "/orders/ID" ELSE "unknown"

GenericPath(kind) ==
    CASE kind = "order" -> "/orders"
      [] kind = "cancel" -> "/orders/ID"
      [] OTHER -> "read"

Path(kind, broker) ==
    CASE broker = "alpaca"  -> AlpacaPath(kind)
      [] broker = "ibkr"    -> IbkrPath(kind)
      [] broker = "generic" -> GenericPath(kind)

\* The checks of command_order(), in its order.
Refusal(o, e) ==
    IF o.size > MaxPosition          THEN "REJECTED_RISK_SIZE"
    ELSE IF o.symbol \notin Allowed  THEN "REJECTED_RISK_SYMBOL"
    ELSE IF PaperToday >= MaxPerDay  THEN "REJECTED_RISK_ORDER_COUNT"
    ELSE IF ~e.confirmed             THEN "REJECTED_LIVE_NOT_CONFIRMED"
    ELSE "none"

\* An adapter without its configuration returns before it logs anything.
Configured(e) == e.api /\ (e.broker = "ibkr" => e.account)

\* In place of a code: the connection broke before the answer was whole
\* (CURLE_PARTIAL_FILE, CURLE_GOT_NOTHING, CURLE_RECV_ERROR), or the transfer
\* failed otherwise (CURLE_WRITE_ERROR and the rest).
Broken == 0
Failed == 1

\* The status for an answer, or for a transfer that ended without one, in each of
\* the three adapters.
AlpacaStatus(a) ==
    CASE a = Broken -> "UNKNOWN_STATE_NO_CONFIRM"
      [] a = Failed -> "REJECTED_NETWORK"
      [] a \in {200, 201} -> "FILLED"
      [] OTHER -> "REJECTED_API"

IbkrStatus(a) ==
    CASE a = Broken -> "UNKNOWN_STATE_NO_CONFIRM"
      [] a = Failed -> "REJECTED_NETWORK"
      [] a = 200 -> "SUBMITTED"
      [] OTHER -> "REJECTED_API"

\* Mistake: a connection that broke is a network failure like any other.
GenericStatusBroken(a) ==
    CASE a \in {Broken, Failed} -> "REJECTED_NETWORK"
      [] a \in {200, 201} -> "FILLED"
      [] OTHER -> "REJECTED_API"

GenericStatus(a) ==
    CASE a = Broken -> "UNKNOWN_STATE_NO_CONFIRM"
      [] a = Failed -> "REJECTED_NETWORK"
      [] a \in {200, 201} -> "FILLED"
      [] OTHER -> "REJECTED_API"

StatusOf(q, a) ==
    CASE q.broker = "alpaca"  -> AlpacaStatus(a)
      [] q.broker = "ibkr"    -> IbkrStatus(a)
      [] q.broker = "generic" -> GenericStatus(a)

Init ==
    /\ ServerInit
    /\ sent = 0
    /\ cur = None
    /\ answer = None
    /\ olog = [n \in 1..MaxRequests |-> None]
    /\ orphans = {}
    /\ unread = {}

-------------------------------------------------------------------------------
Idle == cur = None /\ sent < MaxRequests

\* order_log_append(), as long as it can open the file; if not, it says nothing.
Log(n, status) == olog' = [olog EXCEPT ![n] = status]

\* curl_easy_perform() with a server that cannot be reached.
CannotSend == ~up \/ "send" \in ShellFaults

\* The request goes out; its body, the order or the id, is read only at a path
\* the server knows.
Perform(kind, of, e) ==
    /\ Accept([n |-> sent + 1, path |-> Path(kind, e.broker),
               of |-> IF Path(kind, e.broker) = "unknown" THEN None ELSE of])
    /\ cur' = [n |-> sent + 1, order |-> kind = "order", broker |-> e.broker]
    /\ UNCHANGED <<answer, olog, orphans, unread>>

\* order, up to the request or to the refusal
CommandOrder(o, e) ==
    /\ Idle
    /\ sent' = sent + 1
    /\ IF Refusal(o, e) # "none"
       THEN /\ Log(sent + 1, Refusal(o, e))
            /\ UNCHANGED <<serverVars, cur, answer, orphans, unread>>
       ELSE IF ~Configured(e)
       THEN UNCHANGED <<serverVars, cur, answer, olog, orphans, unread>>
       ELSE \/ /\ CannotSend
               /\ Log(sent + 1, "REJECTED_NETWORK")
               /\ UNCHANGED <<serverVars, cur, answer, orphans, unread>>
            \/ Perform("order", Body(o), e)

\* cancel, positions and balance; they keep no record
CommandOther(kind, of, e) ==
    /\ Idle
    /\ sent' = sent + 1
    /\ \/ /\ ~e.api \/ CannotSend
          /\ UNCHANGED <<serverVars, cur, answer, olog, orphans, unread>>
       \/ e.api /\ Perform(kind, of, e)

CommandCancel(id, e) == CommandOther("cancel", [id |-> id], e)
CommandPositions(e)  == CommandOther("positions", None, e)
CommandBalance(e)    == CommandOther("balance", None, e)

-------------------------------------------------------------------------------
Waiting == cur # None
IsOrder == cur.order

Return ==
    /\ cur' = None
    /\ answer' = None
    /\ UNCHANGED <<serverVars, sent, orphans>>

\* Mistake: the return on a timeout comes before the line is written.
TimeoutUnlogged == Waiting /\ answer = None /\ Return /\ UNCHANGED <<olog, unread>>

\* CURLOPT_TIMEOUT; the request is not taken back.
Timeout ==
    /\ Waiting /\ answer = None
    /\ Return
    /\ IF IsOrder THEN Log(cur.n, "REJECTED_TIMEOUT") ELSE UNCHANGED olog
    /\ UNCHANGED unread

\* What follows curl_easy_perform() in each adapter.
Receive ==
    /\ Waiting /\ answer # None
    /\ Return
    /\ IF IsOrder THEN Log(cur.n, StatusOf(cur, answer)) ELSE UNCHANGED olog
    /\ unread' = IF IsOrder /\ answer = Failed THEN unread \cup {cur.n} ELSE unread

ShellDies ==
    /\ "crash" \in ShellFaults
    /\ Waiting
    /\ cur' = None
    /\ answer' = None
    /\ orphans' = IF IsOrder THEN orphans \cup {cur.n} ELSE orphans
    /\ UNCHANGED <<serverVars, sent, olog, unread>>

\* What curl_easy_perform() makes of what comes back.
Comes(a) == answer' \in {a} \cup IF "read" \in ShellFaults THEN {Failed} ELSE {}

\* The answer reaches the shell if it still waits for this request.
Answered ==
    /\ Reply
    /\ IF Waiting /\ cur.n = job.req THEN Comes(job.code) ELSE UNCHANGED answer
    /\ UNCHANGED <<sent, cur, olog, orphans, unread>>

\* A request that was accepted and not answered ends in a broken connection.
ServerKilled ==
    /\ Kill
    /\ IF Waiting /\ answer = None THEN Comes(Broken) ELSE UNCHANGED answer
    /\ UNCHANGED <<sent, cur, olog, orphans, unread>>

ServerStep ==
    /\ TakeOrder \/ TakeCancel \/ TakeOther \/ Save \/ Start
    /\ UNCHANGED shellVars

Command ==
    \E e \in Environments :
        \/ \E o \in Orders : CommandOrder(o, e)
        \/ \E id \in 1..MaxRequests : CommandCancel(id, e)
        \/ CommandPositions(e)
        \/ CommandBalance(e)

Next ==
    \/ Command
    \/ Timeout \/ Receive \/ ShellDies
    \/ ServerStep \/ Answered \/ ServerKilled

Spec == Init /\ [][Next]_vars

\* libcurl's clock runs whatever the server does, and an adapter that has its
\* answer goes on.
FairSpec == Spec /\ WF_vars(Timeout) /\ WF_vars(Receive)

-------------------------------------------------------------------------------
IsRequest(q) ==
    /\ DOMAIN q = {"n", "path", "of"}
    /\ q.n \in 1..MaxRequests
    /\ CASE q.path = "/orders"    -> q.of \in {Body(o) : o \in Orders}
         [] q.path = "/orders/ID" -> q.of \in [id : 1..MaxRequests]
         [] OTHER -> q.path \in {"read", "unknown"} /\ q.of = None

\* The variables are of their types; cash and quantities never fall below
\* zero, at whatever price an order is filled.
TypeOK ==
    /\ \A i \in DOMAIN wire : IsRequest(wire[i])
    /\ up \in BOOLEAN
    /\ job \in {None} \cup [req : 1..MaxRequests, step : {"open", "write", "reply"},
                           code : {200, 201, 204, 404, 422}]
    /\ acct.cash >= 0 /\ \A s \in Symbols : acct.qty[s] >= 0
    /\ \A i \in DOMAIN acct.orders :
           acct.orders[i] \in [req : 1..MaxRequests, status : Statuses]
    /\ ran \subseteq 1..MaxRequests
    /\ sent \in 0..MaxRequests
    /\ cur \in {None} \cup [n : 1..MaxRequests, order : BOOLEAN,
                        broker : {"alpaca", "ibkr", "generic"}]
    /\ answer \in {None, Broken, Failed, 200, 201, 204, 404, 422}
    /\ olog \in [1..MaxRequests -> {None} \cup OrderLines]
    /\ unread \subseteq 1..MaxRequests

\* The lines after which an order may be repeated as if it had not been given:
\* every refusal but REJECTED_TIMEOUT.
Refusals == {"REJECTED_RISK_SIZE", "REJECTED_RISK_SYMBOL",
             "REJECTED_RISK_ORDER_COUNT", "REJECTED_LIVE_NOT_CONFIRMED",
             "REJECTED_NETWORK", "REJECTED_API"}

\* The order log does not lie, now or later: what it calls FILLED the broker
\* filled, and what it calls rejected the broker never fills, however long a
\* request lies in its queue.  The exception is REJECTED_NETWORK for a transfer
\* that failed after the request had gone out with an error that broker.c:799-804
\* does not list: the order may be filled, though broker.c:790-794 counts a short
\* write among what is not safe to retry.
LogIsTrue ==
    \A n \in 1..MaxRequests :
        /\ olog[n] = "FILLED" => n \in ran
        /\ olog[n] \in Refusals =>
              n \notin ran \/ (n \in unread /\ olog[n] = "REJECTED_NETWORK")

Has(a, n) == \E i \in DOMAIN a.orders : a.orders[i] = [req |-> n, status |-> "filled"]

\* An order the log calls FILLED is in the server's account and in every state
\* file that can be read, across any number of restarts, unless a start has
\* found no account or a save failed.
KeptAnswers ==
    \A n \in 1..MaxRequests :
        olog[n] = "FILLED" /\ ~forgot =>
            /\ up => Has(acct, n)
            /\ disk # NoFile
            /\ disk # Torn => Has(disk, n)

\* Every order that leaves the shell, which is the command given last for as
\* long as the shell waits, ends in a line of the order log, whatever becomes of
\* the server, unless the shell itself ends first.  Since no command need follow,
\* no later one makes up for a line that is missing.
OrderEnds ==
    (Waiting /\ IsOrder)
        ~> (~Waiting /\ sent \in {n \in DOMAIN olog : olog[n] # None} \cup orphans)

===============================================================================
