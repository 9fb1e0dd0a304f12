----------------------------- MODULE CommandList -----------------------------
(***************************************************************************)
(* What a line with operators means: a list of items, each a command or a  *)
(* chain of commands joined by capturing operators, performed one after    *)
(* the other as units.  && and || compare with the value of the last item  *)
(* performed; ; and & do not.  OperatorChain is shown to implement it.     *)
(***************************************************************************)
EXTENDS Integers, Sequences

VARIABLES
    items,  \* the list: the kind of each item and the operator after it
    at,     \* the item that is next
    value,  \* the exit status so far
    done    \* the items performed

vars == <<items, at, value, done>>

Init ==
    /\ \A i \in 1..Len(items) : items[i].op \in {";", "&", "&&", "||", "end"}
    /\ at = 1
    /\ value = 0
    /\ done = {}

Empty == items[at].kind = "blank"
More == at <= Len(items)
After(op) == at > 1 /\ items[at - 1].op = op
Due == ~(After("&&") /\ value # 0) /\ ~(After("||") /\ value = 0)

\* Not due, or nothing there: the value stays what it was.
Pass ==
    /\ More
    /\ ~Due \/ Empty
    /\ at' = at + 1
    /\ UNCHANGED <<items, value, done>>

Perform ==
    /\ More /\ Due /\ ~Empty
    /\ at' = at + 1
    /\ value' \in {0, 1}
    /\ done' = done \cup {at}
    /\ UNCHANGED items

\* It could not be started.
Fail ==
    /\ More /\ Due /\ ~Empty
    /\ at' = at + 1
    /\ value' = 1
    /\ UNCHANGED <<items, done>>

Next == Pass \/ Perform \/ Fail

Spec == Init /\ [][Next]_vars

===============================================================================
