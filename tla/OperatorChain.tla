---------------------------- MODULE OperatorChain ----------------------------
(***************************************************************************)
(* Lines with operators: execute_sequence() of src/src/operators.c and the *)
(* handlers it calls for |>, ?>, ~> and |.  parse_operators() has made a   *)
(* list of nodes, each with the operator AFTER it; the loop looks at the   *)
(* previous node's operator to decide what to do with a node, and the      *)
(* handler of a capturing operator runs BOTH of its operands when it gets  *)
(* to the right one.                                                       *)
(*                                                                         *)
(* A command is its position in the line; it exits 0 or 1 each time it     *)
(* runs.  What the properties tell apart of the text is the node's kind.   *)
(***************************************************************************)
EXTENDS Integers, Sequences, FiniteSets

CONSTANTS
    Lines,   \* the lines typed
    Faults   \* "pipe": a pipe() or fork() fails, or an @ prefix is refused;
             \* "log": the file of |> does not open

ListOps == {";", "&", "&&", "||"}
CaptureOps == {"|>", "?>", "~>", "|"}

\* piped: `a | b` before the first operator, one operand with a bar in its argv.
\* group: { ... }.  blank: nothing but spaces.  The last two have no args[0].
Kinds == {"cmd", "piped", "group", "blank"}
Node == [kind : Kinds, op : ListOps \cup CaptureOps \cup {"end"}]

\* What split_on_operators() can produce: a bare | splits only after another
\* operator has been seen, and a bar stays inside the first operand only.
Parsed(l) ==
    /\ l # <<>>
    /\ l[1].op # "|"
    /\ \A i \in 1..Len(l) : (l[i].kind = "piped" => i = 1) /\ (l[i].op = "end" => i = Len(l))

ASSUME OperatorAssumption ==
    /\ Lines \subseteq Seq(Node)
    /\ \A l \in Lines : Parsed(l)
    /\ Faults \subseteq {"pipe", "log"}

VARIABLES
    line,     \* the line being executed
    node,     \* the position execute_sequence() is at; prev is the one before
    status,   \* last_status
    runs,     \* runs[i]: how often command i has been run
    verdict,  \* verdict[i]: what the gate that used command i as checker said
    skipped   \* the nodes passed over by && and ||

vars == <<line, node, status, runs, verdict, skipped>>

-------------------------------------------------------------------------------
Init ==
    /\ line \in Lines
    /\ node = 1
    /\ status = 0
    /\ runs = [i \in 1..Len(line) |-> 0]
    /\ verdict = [i \in 1..Len(line) |-> "none"]
    /\ skipped = {}

Before == IF node = 1 THEN "start" ELSE line[node - 1].op
At == node <= Len(line)
HasArgs(i) == i <= Len(line) /\ line[i].kind \in {"cmd", "piped"}

\* The commands of S run once more, and the loop goes on at `to`.
Run(S, to) ==
    /\ runs' = [i \in DOMAIN runs |-> IF i \in S THEN runs[i] + 1 ELSE runs[i]]
    /\ node' = to
    /\ UNCHANGED line

Exit == status' \in {0, 1}
GhostsSame == UNCHANGED <<verdict, skipped>>

\* A node without a command is passed over before anything else is looked at.
Blank ==
    /\ At
    /\ line[node].kind = "blank"
    /\ Run({}, node + 1)
    /\ UNCHANGED status /\ GhostsSame

Passes(op) == At /\ line[node].kind # "blank" /\ Before = op

-------------------------------------------------------------------------------
(* The operators whose handler looks at the node before. *)

\* Mutant: the skipped operand of || counts as failed.
SkipOrFails ==
    /\ Passes("||") /\ status = 0
    /\ skipped' = skipped \cup {node}
    /\ Run({}, node + 1)
    /\ status' = 1
    /\ UNCHANGED verdict

SkipAnd ==
    /\ Passes("&&") /\ status # 0
    /\ skipped' = skipped \cup {node}
    /\ Run({}, node + 1)
    /\ UNCHANGED <<status, verdict>>

SkipOr ==
    /\ Passes("||") /\ status = 0
    /\ skipped' = skipped \cup {node}
    /\ Run({}, node + 1)
    /\ UNCHANGED <<status, verdict>>

\* left |> file.  A brace group has no args: nothing to do on the right, an
\* error on the left.
CsvLog ==
    /\ Passes("|>")
    /\ \/ ~HasArgs(node) /\ Run({}, node + 1) /\ UNCHANGED status
       \/ HasArgs(node) /\ HasArgs(node - 1) /\ Run({node - 1}, node + 1) /\ Exit
       \/ /\ HasArgs(node)
          /\ ~HasArgs(node - 1) \/ "pipe" \in Faults
          /\ Run({}, node + 1) /\ status' = 1
       \/ /\ HasArgs(node) /\ HasArgs(node - 1) /\ "log" \in Faults
          /\ Run({node - 1}, node + 1) /\ status' = 1
    /\ GhostsSame

\* Mutant: the wait status is returned as it is.
BacktestRaw ==
    /\ Passes("~>")
    /\ HasArgs(node)
    /\ Run({node - 1}, node + 1)
    /\ status' \in {0, 256}
    /\ GhostsSame

\* left ~> dates: the range is parsed first, then left runs in this shell.
Backtest ==
    /\ Passes("~>")
    /\ \/ HasArgs(node) /\ Run(IF HasArgs(node - 1) THEN {node - 1} ELSE {}, node + 1) /\ Exit
       \/ Run({}, node + 1) /\ status' = 1
    /\ GhostsSame

\* left | right, after another operator: both are forked, right's exit counts.
Pipe ==
    /\ Passes("|")
    /\ \/ ~HasArgs(node) /\ Run({}, node + 1) /\ UNCHANGED status
       \/ /\ HasArgs(node)
          /\ Run({node} \cup (IF HasArgs(node - 1) THEN {node - 1} ELSE {}), node + 1)
          /\ Exit
       \/ /\ HasArgs(node) /\ "pipe" \in Faults
          /\ \E S \in SUBSET {i \in {node - 1, node} : HasArgs(i)} :
                /\ Run(S, node + 1)
                /\ IF node \in S THEN Exit ELSE status' = 1
    /\ GhostsSame

-------------------------------------------------------------------------------
(* left ?> checker, and the two longer forms that run the next command too. *)

GateBreaks(to) ==
    /\ \/ ~HasArgs(node - 1) /\ Run({}, to)
       \/ /\ HasArgs(node - 1) /\ "pipe" \in Faults
          /\ \E S \in {{}, {node - 1}, {node - 1, node}} : Run(S, to)
    /\ verdict' = [verdict EXCEPT ![node] = "broken"]
    /\ status' = 1
    /\ UNCHANGED skipped

\* A captured line is over a limit of ~/.las_shell_risk: the checker never runs.
GateLimits(to) ==
    /\ HasArgs(node - 1)
    /\ Run({node - 1}, to)
    /\ verdict' = [verdict EXCEPT ![node] = "limits"]
    /\ status' = 1
    /\ UNCHANGED skipped

GateRejects(to) ==
    /\ HasArgs(node - 1)
    /\ Run({node - 1, node}, to)
    /\ verdict' = [verdict EXCEPT ![node] = "reject"]
    /\ status' = 1
    /\ UNCHANGED skipped

\* The checker exits 0: `next` runs on what was captured.
GatePasses(next, to) ==
    /\ HasArgs(node - 1)
    /\ Run({node - 1, node} \cup next, to)
    /\ verdict' = [verdict EXCEPT ![node] = "pass"]
    /\ IF next = {} THEN status' = 0 ELSE Exit
    /\ UNCHANGED skipped

\* Mutant: the checker's exit status is not looked at.
GateUngated(next, to) ==
    \/ GateBreaks(to) \/ GateLimits(to)
    \/ /\ HasArgs(node - 1)
       /\ Run({node - 1, node} \cup next, to)
       /\ \E v \in {"reject", "pass"} : verdict' = [verdict EXCEPT ![node] = v]
       /\ IF next = {} THEN status' = 0 ELSE Exit
       /\ UNCHANGED skipped

\* execute_risk_gate_chained(): limits, checker, next.
Gate(next, to) ==
    \/ GateBreaks(to) \/ GateLimits(to) \/ GateRejects(to)
    \/ GatePasses(next, to)

\* execute_risk_gate_chained_logged(): checker and next only, whatever was captured.
GateLogged(next, to) ==
    GateBreaks(to) \/ GateRejects(to) \/ GatePasses(next, to)

\* checker | next, and checker | next |> file.
Chained == HasArgs(node) /\ line[node].op = "|" /\ HasArgs(node + 1)
Logged == Chained /\ line[node + 1].op = "|>" /\ HasArgs(node + 2)

GateAlone == Passes("?>") /\ HasArgs(node) /\ ~Chained /\ Gate({}, node + 1)

GateNoChecker ==
    /\ Passes("?>") /\ ~HasArgs(node)
    /\ Run({}, node + 1)
    /\ status' = 1
    /\ GhostsSame

\* Mutant: next stays in the list.
GateThenNextKept == Passes("?>") /\ Chained /\ ~Logged /\ Gate({node + 1}, node + 1)

GateThenNext == Passes("?>") /\ Chained /\ ~Logged /\ Gate({node + 1}, node + 2)

\* Mutant: the file of |> is left to the loop, which runs next again.
GateThenNextAgain == Passes("?>") /\ Logged /\ GateLogged({node + 1}, node + 2)

GateThenLoggedNext == Passes("?>") /\ Logged /\ GateLogged({node + 1}, node + 3)

-------------------------------------------------------------------------------
(* A node that no handler took: after ;, &, the start, or && and || that hold. *)

Free ==
    \/ Passes("start") \/ Passes(";") \/ Passes("&")
    \/ Passes("&&") /\ status = 0
    \/ Passes("||") /\ status # 0

Group ==
    /\ Free /\ line[node].kind = "group"
    /\ \/ Run({node}, node + 1) /\ IF line[node].op = "&" THEN status' = 0 ELSE Exit
       \/ line[node].op = "&" /\ "pipe" \in Faults /\ Run({}, node + 1) /\ status' = 1
    /\ GhostsSame

\* The left operand of a capturing operator waits for the handler.
Defer ==
    /\ Free /\ HasArgs(node) /\ line[node].op \in CaptureOps
    /\ Run({}, node + 1)
    /\ UNCHANGED status /\ GhostsSame

\* Builtin or fork and exec, with the node's own argv.
Execute ==
    /\ Free /\ HasArgs(node) /\ line[node].op \notin CaptureOps
    /\ \/ /\ Run({node}, node + 1)
          /\ IF line[node].op = "&" THEN status' = 0 ELSE Exit
       \/ "pipe" \in Faults /\ Run({}, node + 1) /\ status' = 1
    /\ UNCHANGED <<verdict, skipped>>

Next ==
    \/ Blank \/ SkipAnd \/ SkipOr \/ CsvLog \/ Backtest \/ Pipe
    \/ GateAlone \/ GateNoChecker \/ GateThenNext \/ GateThenLoggedNext
    \/ Group \/ Defer \/ Execute

Spec == Init /\ [][Next]_vars

-------------------------------------------------------------------------------
(* Properties. *)

TypeOK ==
    /\ line \in Seq(Node) /\ Parsed(line)
    /\ node \in 1..Len(line) + 1
    /\ status \in {0, 1}
    /\ runs \in [1..Len(line) -> Nat]
    /\ verdict \in [1..Len(line) -> {"none", "broken", "limits", "reject", "pass"}]
    /\ skipped \subseteq 1..Len(line)

\* The commands that capturing operators join to i, on its right.
Joined(i) == {j \in i..Len(line) : \A k \in i..j - 1 : line[k].op \in CaptureOps}

\* No command of a line runs twice: an order is placed once (the comment before
\* the deferral in execute_sequence(), about orders that fired twice).
Once == \A i \in 1..Len(line) : runs[i] <= 1

\* Nothing joined behind a checker that refused, or could not be asked, ever runs:
\* not by the gate and not by a later turn of the loop.
RefusedNeverReaches ==
    \A c \in 1..Len(line) :
        verdict[c] \in {"broken", "limits", "reject"} =>
            \A j \in Joined(c) \ {c} : runs[j] = 0

\* What && or || passes over does not run, not even as the left operand of the
\* operator that follows it.
SkippedNeverRuns == \A i \in skipped : \A j \in Joined(i) : runs[j] = 0

\* On every line, sensible or not: no command runs before its turn or more than
\* twice (once on each side of an operator), and no { group } more than once.
RunsBounded ==
    \A i \in 1..Len(line) :
        /\ i >= node => runs[i] = 0
        /\ runs[i] <= IF line[i].kind = "group" THEN 1 ELSE 2

-------------------------------------------------------------------------------
(* The forms the documentation shows: a |> f, a ?> c, a ~> d, a | b,       *)
(* a ?> c | n and a ?> c | n |> f, at the start of the line or after ; or  *)
(* &, of commands, with list operators between them.                       *)

Capt(l, i) == i \in 1..Len(l) /\ l[i].op \in CaptureOps

Documented(l) ==
    \A i \in 1..Len(l) : Capt(l, i) =>
        /\ l[i].kind \in {"cmd", "piped"}
        /\ i < Len(l) /\ l[i + 1].kind = "cmd"
        /\ \/ i = 1
           \/ l[i - 1].op \in {";", "&"}
           \/ l[i - 1].op = "?>" /\ l[i].op = "|"
           \/ i > 2 /\ l[i - 2].op = "?>" /\ l[i - 1].op = "|" /\ l[i].op = "|>"

\* The line as CommandList sees it: what capturing operators join is one item.
ItemEnd(n) == n.op \notin CaptureOps
ItemOf(i) == Cardinality({e \in 1..i - 1 : ItemEnd(line[e])}) + 1
LastOf(n) == CHOOSE e \in 1..Len(line) : ItemEnd(line[e]) /\ ItemOf(e) = n
Items == [n \in 1..ItemOf(Len(line) + 1) - 1 |-> line[LastOf(n)]]
Done == {ItemOf(i) : i \in {j \in 1..Len(line) : runs[j] > 0}}

List == INSTANCE CommandList WITH items <- Items, at <- ItemOf(node), value <- status, done <- Done

\* On the documented forms no command of a line runs twice.
FormsRunOnce == Documented(line) => Once

\* On the documented forms nothing behind a refusing checker ever runs.
FormsAreGated == Documented(line) => RefusedNeverReaches

\* A line of documented forms runs as the list it reads as: each item as one unit,
\* at most once, when && and || say so and in no other case.
ImplementsList ==
    /\ Documented(line) => List!Init
    /\ [][Documented(line) => List!Next]_(List!vars)

===============================================================================
