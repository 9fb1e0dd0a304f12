----------------------------- MODULE PaperAccount -----------------------------
(***************************************************************************)
(* What a paper trading account promises its owner: every order is filled  *)
(* at once and completely or not at all, it never spends money or sells    *)
(* shares the account does not have, and nothing but an order or a reset   *)
(* changes the account.  PaperLedger is shown to implement it.             *)
(***************************************************************************)
EXTENDS Integers

CONSTANTS Tickers, Sizes, Prices, Capitals, Default

VARIABLE account

vars == account

Opened(c) == [cash |-> c, qty |-> [t \in Tickers |-> 0]]

Init == account = Opened(Default)

Buy(t, q, price) ==
    /\ account.cash >= price * q
    /\ account' = [cash |-> account.cash - price * q,
                   qty  |-> [account.qty EXCEPT ![t] = @ + q]]

\* close_all sells what there is, whatever its size.
Sell(t, q, price) ==
    /\ account.qty[t] >= q
    /\ account' = [cash |-> account.cash + price * q,
                   qty  |-> [account.qty EXCEPT ![t] = @ - q]]

Reset(c) == account' = Opened(c)

Next ==
    \/ \E t \in Tickers, price \in Prices :
          \/ \E q \in Sizes : Buy(t, q, price)
          \/ \E q \in 1..account.qty[t] : Sell(t, q, price)
    \/ \E c \in Capitals : Reset(c)

Spec == Init /\ [][Next]_vars

===============================================================================
