------------------------- MODULE OperatorChainProofs -------------------------
(***************************************************************************)
(* Theorems about OperatorChain, for lines of any length.  Everything      *)
(* rests on one lemma, StepShape: what a turn of the loop may run.         *)
(***************************************************************************)
EXTENDS OperatorChain, FiniteSetTheorems, WellFoundedInduction, TLAPS

Verdicts == {"none", "broken", "limits", "reject", "pass"}

LineInv == line \in Seq(Node) /\ Parsed(line) /\ node \in 1..Len(line) + 1

RunsInv ==
    /\ runs \in [1..Len(line) -> Nat]
    /\ verdict \in [1..Len(line) -> Verdicts]
    /\ status \in {0, 1}

\* A turn goes forward and runs nothing behind the left operand of the operator
\* at hand or ahead of where it goes; it runs that left operand only when the
\* operator captures.
Shape(S, to) ==
    /\ Run(S, to)
    /\ to \in node + 1..Len(line) + 1
    /\ S \subseteq {i \in 1..Len(line) : node - 1 <= i /\ i < to}
    /\ node - 1 \in S => Before \in CaptureOps /\ HasArgs(node - 1)
    /\ \A i \in S : HasArgs(i) \/ i = node

LEMMA GateShape ==
    ASSUME NEW next, NEW to, LineInv, At, Before = "?>", HasArgs(node),
           to \in node + 1..Len(line) + 1,
           next \subseteq {i \in 1..Len(line) : node < i /\ i < to /\ HasArgs(i)},
           Gate(next, to) \/ GateLogged(next, to)
    PROVE  \E S : Shape(S, to) /\ (S = {} => status' = 1)
<1>0. node > 1 /\ node - 1 \in 1..Len(line) /\ node \in 1..Len(line) /\ Before \in CaptureOps
  BY DEF LineInv, At, Before, CaptureOps
<1>1. CASE GateBreaks(to)
  <2>1. CASE ~HasArgs(node - 1)
    <3>1. Run({}, to)
      BY <1>1, <2>1, Zenon DEF GateBreaks
    <3>2. Shape({}, to)
      BY <3>1 DEF Shape
    <3> QED
      BY <1>1, <3>2 DEF GateBreaks
  <2>2. CASE HasArgs(node - 1)
    <3>1. PICK S \in {{}, {node - 1}, {node - 1, node}} : Run(S, to)
      BY <1>1, <2>2, Zenon DEF GateBreaks
    <3>2. Shape(S, to)
      BY <3>1, <2>2, <1>0 DEF Shape, LineInv
    <3> QED
      BY <1>1, <3>2 DEF GateBreaks
  <2> QED
    BY <2>1, <2>2
<1>2. CASE GateLimits(to)
  <2>1. HasArgs(node - 1) /\ Run({node - 1}, to)
    BY <1>2 DEF GateLimits
  <2>2. Shape({node - 1}, to)
    BY <2>1, <1>0 DEF Shape, LineInv
  <2> QED
    BY <2>2
<1>3. CASE GateRejects(to)
  <2>1. HasArgs(node - 1) /\ Run({node - 1, node}, to)
    BY <1>3 DEF GateRejects
  <2>2. Shape({node - 1, node}, to)
    BY <2>1, <1>0 DEF Shape, LineInv
  <2> QED
    BY <2>2
<1>4. CASE GatePasses(next, to)
  <2> DEFINE S == {node - 1, node} \cup next
  <2>1. HasArgs(node - 1) /\ Run(S, to)
    BY <1>4 DEF GatePasses
  <2>2. S \subseteq {i \in 1..Len(line) : node - 1 <= i /\ i < to}
    BY <1>0 DEF LineInv
  <2>3. \A i \in S : HasArgs(i) \/ i = node
    BY <2>1
  <2>4. Shape(S, to)
    BY <2>1, <2>2, <2>3, <1>0 DEF Shape
  <2> QED
    BY <2>4
<1> QED
  BY <1>1, <1>2, <1>3, <1>4 DEF Gate, GateLogged

LEMMA OperandShape ==
    ASSUME LineInv, At, Before \in CaptureOps,
           NEW S, S \subseteq {i \in {node - 1, node} : HasArgs(i)}, Run(S, node + 1)
    PROVE  Shape(S, node + 1)
<1>1. node > 1 /\ node \in 1..Len(line) /\ node + 1 \in node + 1..Len(line) + 1
  BY DEF LineInv, At, Before, CaptureOps
<1>2. S \subseteq {i \in 1..Len(line) : node - 1 <= i /\ i < node + 1}
  BY <1>1 DEF LineInv
<1> QED
  BY <1>1, <1>2 DEF Shape

LEMMA StepShape ==
    ASSUME LineInv, Next
    PROVE  \E S, to : Shape(S, to)
<1> USE DEF LineInv
<1>a. At => node \in 1..Len(line) /\ node + 1 \in node + 1..Len(line) + 1
  BY DEF At
<1>b. SUFFICES ASSUME At PROVE \E S, to : Shape(S, to)
  BY DEF Next, Blank, SkipAnd, SkipOr, CsvLog, Backtest, Pipe, GateAlone, GateNoChecker,
         GateThenNext, GateThenLoggedNext, Group, Defer, Execute, Free, Passes
<1>c. Shape({}, node + 1) <=> Run({}, node + 1)
  BY <1>a, <1>b DEF Shape
<1>d. ASSUME Run({node}, node + 1) PROVE Shape({node}, node + 1)
  BY <1>a, <1>b, <1>d DEF Shape
<1>e. ASSUME Before \in CaptureOps, NEW S, S \subseteq {i \in {node - 1, node} : HasArgs(i)},
             Run(S, node + 1)
      PROVE  Shape(S, node + 1)
  BY <1>b, <1>e, OperandShape
<1>1. CASE Blank \/ SkipAnd \/ SkipOr \/ GateNoChecker \/ Defer
  <2>1. Run({}, node + 1)
    BY <1>1, Zenon DEF Blank, SkipAnd, SkipOr, GateNoChecker, Defer
  <2> QED
    BY <2>1, <1>c
<1>2. CASE CsvLog
  <2>1. Before \in CaptureOps
    BY <1>2 DEF CsvLog, Passes, CaptureOps
  <2>2. Run({}, node + 1) \/ (HasArgs(node - 1) /\ Run({node - 1}, node + 1))
    BY <1>2, Zenon DEF CsvLog
  <2>3. CASE HasArgs(node - 1) /\ Run({node - 1}, node + 1)
    BY <1>e, <2>1, <2>3
  <2> QED
    BY <1>c, <2>2, <2>3
<1>3. CASE Backtest
  <2>1. Before \in CaptureOps
    BY <1>3 DEF Backtest, Passes, CaptureOps
  <2>2. Run({}, node + 1) \/ (HasArgs(node - 1) /\ Run({node - 1}, node + 1))
    BY <1>3 DEF Backtest
  <2>3. CASE HasArgs(node - 1) /\ Run({node - 1}, node + 1)
    BY <1>e, <2>1, <2>3
  <2> QED
    BY <1>c, <2>2, <2>3
<1>4. CASE Pipe
  <2>1. PICK S \in SUBSET {i \in {node - 1, node} : HasArgs(i)} : Run(S, node + 1)
    BY <1>4 DEF Pipe
  <2>2. Before \in CaptureOps
    BY <1>4 DEF Pipe, Passes, CaptureOps
  <2>3. Shape(S, node + 1)
    BY <1>e, <2>1, <2>2
  <2> QED
    BY <2>3
<1>5. CASE GateAlone
  <2>1. Before = "?>" /\ HasArgs(node) /\ Gate({}, node + 1)
    BY <1>5 DEF GateAlone, Passes
  <2> QED
    BY <1>a, <1>b, <2>1, GateShape
<1>6. CASE GateThenNext
  <2>1. Before = "?>" /\ HasArgs(node) /\ HasArgs(node + 1) /\ Gate({node + 1}, node + 2)
    BY <1>6 DEF GateThenNext, Passes, Chained
  <2>2. node + 1 \in 1..Len(line) /\ node + 2 \in node + 1..Len(line) + 1
    BY <1>a, <1>b, <2>1 DEF HasArgs
  <2>3. {node + 1} \subseteq {i \in 1..Len(line) : node < i /\ i < node + 2 /\ HasArgs(i)}
    BY <2>1, <2>2
  <2> QED
    BY <1>b, <2>1, <2>2, <2>3, GateShape
<1>7. CASE GateThenLoggedNext
  <2>1. /\ Before = "?>" /\ HasArgs(node) /\ HasArgs(node + 1) /\ HasArgs(node + 2)
        /\ GateLogged({node + 1}, node + 3)
    BY <1>7 DEF GateThenLoggedNext, Passes, Logged, Chained
  <2>2. node + 1 \in 1..Len(line) /\ node + 3 \in node + 1..Len(line) + 1
    BY <1>a, <1>b, <2>1 DEF HasArgs
  <2>3. {node + 1} \subseteq {i \in 1..Len(line) : node < i /\ i < node + 3 /\ HasArgs(i)}
    BY <2>1, <2>2
  <2> QED
    BY <1>b, <2>1, <2>2, <2>3, GateShape
<1>8. CASE Group \/ Execute
  <2>1. Run({}, node + 1) \/ Run({node}, node + 1)
    BY <1>8, Zenon DEF Group, Execute
  <2> QED
    BY <2>1, <1>c, <1>d
<1> QED
  BY <1>1, <1>2, <1>3, <1>4, <1>5, <1>6, <1>7, <1>8 DEF Next

-------------------------------------------------------------------------------
(* Types. *)

LEMMA TypeInit == Init => TypeOK
  BY OperatorAssumption DEF Init, TypeOK, Parsed

LEMMA LineFromType == TypeOK => LineInv
  BY DEF TypeOK, LineInv

LEMMA RunType ==
    ASSUME TypeOK, NEW S, NEW to, Run(S, to), to \in 1..Len(line) + 1
    PROVE  /\ line' \in Seq(Node) /\ Parsed(line')
           /\ node' \in 1..Len(line') + 1
           /\ runs' \in [1..Len(line') -> Nat]
           /\ line' = line
  BY DEF TypeOK, Run

LEMMA GateType ==
    ASSUME TypeOK, NEW next, NEW to, At, Gate(next, to) \/ GateLogged(next, to)
    PROVE  /\ status' \in {0, 1}
           /\ verdict' \in [1..Len(line) -> Verdicts]
           /\ skipped' \subseteq 1..Len(line)
<1>1. node \in 1..Len(line)
  BY DEF TypeOK, At
<1>2. CASE GateBreaks(to) \/ GateLimits(to) \/ GateRejects(to)
  BY <1>1, <1>2 DEF GateBreaks, GateLimits, GateRejects, TypeOK, Verdicts
<1>3. CASE GatePasses(next, to)
  <2>1. status' \in {0, 1}
    BY <1>3 DEF GatePasses, Exit
  <2> QED
    BY <1>1, <1>3, <2>1 DEF GatePasses, TypeOK, Verdicts
<1> QED
  BY <1>2, <1>3 DEF Gate, GateLogged

LEMMA TypeStep == TypeOK /\ [Next]_vars => TypeOK'
<1> SUFFICES ASSUME TypeOK, [Next]_vars PROVE TypeOK'
  OBVIOUS
<1>1. CASE UNCHANGED vars
  BY <1>1 DEF vars, TypeOK
<1>2. CASE Next
  <2>1. PICK S, to : Shape(S, to)
    BY <1>2, StepShape, LineFromType
  <2>2. /\ line' \in Seq(Node) /\ Parsed(line')
        /\ node' \in 1..Len(line') + 1
        /\ runs' \in [1..Len(line') -> Nat]
        /\ line' = line
    BY <2>1, RunType, LineFromType DEF Shape, LineInv
  <2>3. At => node \in 1..Len(line)
    BY DEF TypeOK, At
  <2>4. SUFFICES /\ status' \in {0, 1}
                 /\ verdict' \in [1..Len(line) -> Verdicts]
                 /\ skipped' \subseteq 1..Len(line)
          BY <2>2 DEF TypeOK, Verdicts
  <2>5. CASE GateAlone \/ GateThenNext \/ GateThenLoggedNext
    BY <2>5, GateType DEF GateAlone, GateThenNext, GateThenLoggedNext, Passes
  <2>6. CASE Blank \/ GateNoChecker \/ Defer
    BY <2>6 DEF Blank, GateNoChecker, Defer, GhostsSame, TypeOK, Verdicts
  <2>7. CASE SkipAnd \/ SkipOr
    BY <2>3, <2>7 DEF SkipAnd, SkipOr, Passes, TypeOK, Verdicts
  <2>8. CASE CsvLog \/ Backtest \/ Pipe
    BY <2>8 DEF CsvLog, Backtest, Pipe, Exit, GhostsSame, TypeOK, Verdicts
  <2>9. CASE Group \/ Execute
    <3>1. status' \in {0, 1}
      BY <2>9 DEF Group, Execute, Exit
    <3> QED
      BY <2>9, <3>1 DEF Group, Execute, GhostsSame, TypeOK, Verdicts
  <2> QED
    BY <1>2, <2>5, <2>6, <2>7, <2>8, <2>9 DEF Next
<1> QED
  BY <1>1, <1>2

\* Every reachable state of execute_sequence() is well typed: the loop never
\* steps past the end of the node list and the status stays an exit status.
THEOREM TypesHold == Spec => []TypeOK
<1> QED
  BY TypeInit, TypeStep, PTL DEF Spec

-------------------------------------------------------------------------------
(* How often a command can run on a line nobody checked. *)

BoundInv ==
    \A i \in 1..Len(line) :
        /\ i >= node => runs[i] = 0
        /\ i = node - 1 => runs[i] <= 1
        /\ runs[i] <= IF line[i].kind = "group" THEN 1 ELSE 2

LEMMA BoundStep == TypeOK /\ BoundInv /\ [Next]_vars => BoundInv'
<1> SUFFICES ASSUME TypeOK, BoundInv, [Next]_vars PROVE BoundInv'
  OBVIOUS
<1>1. CASE UNCHANGED vars
  BY <1>1 DEF vars, BoundInv
<1>2. CASE Next
  <2>1. PICK S, to : Shape(S, to)
    BY <1>2, StepShape, LineFromType
  <2>2. line' = line /\ node' = to /\ node \in 1..Len(line) + 1 /\ to \in node + 1..Len(line) + 1
    BY <2>1 DEF Shape, Run, TypeOK
  <2> SUFFICES ASSUME NEW i \in 1..Len(line)
               PROVE  /\ i >= to => runs'[i] = 0
                      /\ i = to - 1 => runs'[i] <= 1
                      /\ runs'[i] <= IF line[i].kind = "group" THEN 1 ELSE 2
    BY <2>2 DEF BoundInv
  <2>3. runs[i] \in Nat /\ runs'[i] = IF i \in S THEN runs[i] + 1 ELSE runs[i]
    BY <2>1 DEF TypeOK, Shape, Run
  <2>4. CASE i \notin S
    BY <2>2, <2>3, <2>4 DEF BoundInv
  <2>5. CASE i \in S
    <3>1. node - 1 <= i /\ i < to
      BY <2>1, <2>5 DEF Shape
    <3>2. CASE i = node - 1
      <4>1. line[i].kind # "group"
        BY <2>1, <2>5, <3>2 DEF Shape, HasArgs
      <4>2. runs[i] <= 1
        BY <3>2 DEF BoundInv
      <4> QED
        BY <2>2, <2>3, <2>5, <3>1, <3>2, <4>1, <4>2
    <3>3. CASE i >= node
      <4>1. runs[i] = 0
        BY <3>3 DEF BoundInv
      <4> QED
        BY <2>2, <2>3, <2>5, <3>1, <4>1
    <3> QED
      BY <2>2, <3>1, <3>2, <3>3
  <2> QED
    BY <2>4, <2>5
<1> QED
  BY <1>1, <1>2

LEMMA BoundInit == Init => BoundInv
  BY OperatorAssumption DEF Init, BoundInv, Parsed

\* On every line, however odd, no command runs ahead of its turn or more than
\* twice, and no { group } more than once.
THEOREM RunsAreBounded == Spec => []RunsBounded
<1>1. BoundInv => RunsBounded
  BY DEF BoundInv, RunsBounded
<1> QED
  BY <1>1, BoundInit, BoundStep, TypesHold, PTL DEF Spec

-------------------------------------------------------------------------------
(* Lines in documented forms: no command twice, nothing behind a refusal.  *)

ItemStart(i) == i = 1 \/ line[i - 1].op \in {";", "&"}

\* A left operand still waiting is the first command of its item.
Pending ==
    node > 1 /\ line[node - 1].op \in CaptureOps
        => node - 1 \in 1..Len(line) /\ ItemStart(node - 1) /\ runs[node - 1] = 0

\* A gate that has spoken is done with all it joins.
Behind ==
    \A c \in 1..Len(line) : verdict[c] # "none" => c < node /\ \A j \in Joined(c) : j < node

FormInv == Documented(line) /\ Once /\ Pending /\ Behind /\ RefusedNeverReaches

Refused == {"broken", "limits", "reject"}

\* The verdict a turn may give, and what it may run when it is a refusal.
Speaks(S) ==
    \/ verdict' = verdict
    \/ \E v \in Verdicts :
          /\ verdict' = [verdict EXCEPT ![node] = v]
          /\ v \in Refused => S \subseteq {node - 1, node}

LEMMA GateSpeaks ==
    ASSUME NEW next, NEW to, Gate(next, to) \/ GateLogged(next, to), LineInv, At,
           Before = "?>", HasArgs(node), to \in node + 1..Len(line) + 1,
           next \subseteq {i \in 1..Len(line) : node < i /\ i < to /\ HasArgs(i)}
    PROVE  \E S : Shape(S, to) /\ Speaks(S)
<1>0. node > 1 /\ node - 1 \in 1..Len(line) /\ node \in 1..Len(line) /\ Before \in CaptureOps
  BY DEF LineInv, At, Before, CaptureOps
<1>1. CASE GateBreaks(to)
  <2>1. PICK S \in {{}, {node - 1}, {node - 1, node}} :
           Run(S, to) /\ (HasArgs(node - 1) \/ S = {})
    BY <1>1, Zenon DEF GateBreaks
  <2>2. Shape(S, to)
    BY <2>1, <1>0 DEF Shape, LineInv
  <2>3. Speaks(S)
    BY <1>1, <2>1 DEF GateBreaks, Speaks, Verdicts
  <2> QED
    BY <2>2, <2>3
<1>2. CASE GateLimits(to)
  <2>1. Shape({node - 1}, to)
    BY <1>2, <1>0 DEF GateLimits, Shape, LineInv
  <2>2. Speaks({node - 1})
    BY <1>2 DEF GateLimits, Speaks, Verdicts
  <2> QED
    BY <2>1, <2>2
<1>3. CASE GateRejects(to)
  <2>1. Shape({node - 1, node}, to)
    BY <1>3, <1>0 DEF GateRejects, Shape, LineInv
  <2>2. Speaks({node - 1, node})
    BY <1>3 DEF GateRejects, Speaks, Verdicts
  <2> QED
    BY <2>1, <2>2
<1>4. CASE GatePasses(next, to)
  <2> DEFINE S == {node - 1, node} \cup next
  <2>1. HasArgs(node - 1) /\ Run(S, to)
    BY <1>4 DEF GatePasses
  <2>2. S \subseteq {i \in 1..Len(line) : node - 1 <= i /\ i < to}
    BY <1>0 DEF LineInv
  <2>3. Shape(S, to)
    BY <2>1, <2>2, <1>0 DEF Shape
  <2>4. Speaks(S)
    BY <1>4 DEF GatePasses, Speaks, Verdicts, Refused
  <2> QED
    BY <2>3, <2>4
<1> QED
  BY <1>1, <1>2, <1>3, <1>4 DEF Gate, GateLogged

LEMMA DocumentedAt ==
    ASSUME Documented(line), NEW i \in 1..Len(line), Capt(line, i)
    PROVE  /\ line[i].kind \in {"cmd", "piped"}
           /\ i < Len(line) /\ line[i + 1].kind = "cmd"
           /\ \/ i = 1
              \/ line[i - 1].op \in {";", "&"}
              \/ line[i - 1].op = "?>" /\ line[i].op = "|"
              \/ i > 2 /\ line[i - 2].op = "?>" /\ line[i - 1].op = "|" /\ line[i].op = "|>"
  BY Zenon DEF Documented

\* The same, looked at from the node before.
LEMMA CaptAfter ==
    ASSUME Documented(line), NEW i \in 1..Len(line), NEW p \in 1..Len(line), p = i - 1,
           Capt(line, i)
    PROVE  /\ i < Len(line) /\ line[i + 1].kind = "cmd"
           /\ \/ line[p].op \in {";", "&"}
              \/ line[p].op = "?>" /\ line[i].op = "|"
              \/ p > 1 /\ line[p - 1].op = "?>" /\ line[p].op = "|" /\ line[i].op = "|>"
<1>1. /\ i < Len(line) /\ line[i + 1].kind = "cmd"
      /\ \/ i = 1
         \/ line[i - 1].op \in {";", "&"}
         \/ line[i - 1].op = "?>" /\ line[i].op = "|"
         \/ i > 2 /\ line[i - 2].op = "?>" /\ line[i - 1].op = "|" /\ line[i].op = "|>"
  BY DocumentedAt
<1>2. i # 1 /\ i - 2 = p - 1 /\ (i > 2 => p > 1)
  OBVIOUS
<1> QED
  BY <1>1, <1>2

\* An operand of |>, ~> or | ends its item: only a gate can go on.
LEMMA OperandEnds ==
    ASSUME LineInv, At, Documented(line), Pending, Before \in {"|>", "~>", "|"}
    PROVE  /\ node > 1 /\ HasArgs(node - 1) /\ HasArgs(node)
           /\ line[node].op \notin CaptureOps
<1>1. /\ node \in 1..Len(line) /\ node > 1
      /\ line[node - 1].op \in {"|>", "~>", "|"}
  BY DEF LineInv, At, Before
<1>2. PICK p \in 1..Len(line) : p = node - 1
  BY <1>1
<1>3. Capt(line, p) /\ ItemStart(p) /\ node = p + 1
  BY <1>1, <1>2 DEF Pending, Capt, CaptureOps
<1>4. line[p].kind \in {"cmd", "piped"} /\ line[node].kind = "cmd"
  BY <1>3, DocumentedAt
<1>5. ASSUME Capt(line, node) PROVE FALSE
  <2>1. p > 1 /\ line[p - 1].op = "?>" /\ line[p].op = "|"
    BY <1>1, <1>2, <1>5, CaptAfter
  <2> QED
    BY <1>3, <2>1 DEF ItemStart
<1> QED
  BY <1>1, <1>2, <1>4, <1>5 DEF HasArgs, Capt

\* Where the item of a gate ends.
LEMMA GateEnds ==
    ASSUME LineInv, At, Documented(line), Before = "?>", HasArgs(node)
    PROVE  /\ ~Chained => line[node].op \notin CaptureOps
           /\ Chained /\ ~Logged => line[node + 1].op \notin CaptureOps
           /\ Logged => line[node + 2].op \notin CaptureOps
<1>1. node \in 1..Len(line) /\ node > 1 /\ line[node - 1].op = "?>"
  BY DEF LineInv, At, Before
<1>2. ASSUME ~Chained, Capt(line, node) PROVE FALSE
  <2>1. PICK p \in 1..Len(line) : p = node - 1 /\ line[p].op = "?>"
    BY <1>1
  <2>2. line[node].op = "|" /\ node < Len(line) /\ line[node + 1].kind = "cmd"
    BY <1>1, <1>2, <2>1, CaptAfter
  <2> QED
    BY <1>1, <1>2, <2>2 DEF Chained, HasArgs
<1>3. ASSUME Chained, ~Logged, Capt(line, node + 1) PROVE FALSE
  <2>1. line[node].op = "|"
    BY <1>3 DEF Chained
  <2>2. PICK i \in 1..Len(line) : i = node + 1 /\ node = i - 1 /\ Capt(line, i)
    BY <1>1, <1>3 DEF Capt
  <2>3. i < Len(line) /\ line[i + 1].kind = "cmd" /\ line[i].op = "|>"
    BY <1>1, <2>1, <2>2, CaptAfter
  <2>4. line[node + 1].op = "|>" /\ HasArgs(node + 2)
    BY <1>1, <2>2, <2>3 DEF HasArgs
  <2> QED
    BY <1>3, <2>4 DEF Logged
<1>4. ASSUME Logged, Capt(line, node + 2) PROVE FALSE
  <2>1. node + 1 \in 1..Len(line) /\ line[node + 1].op = "|>"
    BY <1>1, <1>4 DEF Logged, Chained, HasArgs
  <2>2. PICK i \in 1..Len(line) : i = node + 2 /\ Capt(line, i)
    BY <1>1, <1>4 DEF Capt
  <2>3. PICK p \in 1..Len(line) : p = node + 1 /\ p = i - 1 /\ line[p].op = "|>"
    BY <1>1, <2>1, <2>2
  <2> QED
    BY <2>2, <2>3, CaptAfter
<1>5. Chained => node + 1 \in 1..Len(line)
  BY <1>1 DEF Chained, HasArgs
<1>6. Logged => node + 2 \in 1..Len(line)
  BY <1>1 DEF Logged, HasArgs
<1> QED
  BY <1>1, <1>2, <1>3, <1>4, <1>5, <1>6 DEF Capt, Logged

\* A turn on a documented line either puts the first command of an item off, or
\* goes to the node after the end of an item.
LEMMA FormShape ==
    ASSUME LineInv, Documented(line), Pending, Next
    PROVE  \E S, to :
              /\ Shape(S, to) /\ Speaks(S)
              /\ \/ line[to - 1].op \notin CaptureOps
                 \/ S = {} /\ to = node + 1 /\ ItemStart(node) /\ verdict' = verdict
<1> USE DEF LineInv
<1>a. At
  BY DEF Next, Blank, SkipAnd, SkipOr, CsvLog, Backtest, Pipe, GateAlone, GateNoChecker,
         GateThenNext, GateThenLoggedNext, Group, Defer, Execute, Free, Passes
<1>b. node \in 1..Len(line) /\ node + 1 \in node + 1..Len(line) + 1 /\ (node + 1) - 1 = node
  BY <1>a DEF At
<1>c. PICK S, to : Shape(S, to)
  BY StepShape
<1>1. CASE Defer
  <2>1. Run({}, node + 1) /\ verdict' = verdict
    BY <1>1 DEF Defer, GhostsSame
  <2>2. Shape({}, node + 1) /\ Speaks({})
    BY <1>b, <2>1 DEF Shape, Speaks
  <2>3. Capt(line, node) /\ Before \in {"start", ";", "&", "&&", "||"}
    BY <1>1, <1>b DEF Defer, Free, Passes, Capt
  <2>4. ItemStart(node)
    BY <2>3, <1>b DEF Documented, ItemStart, Before
  <2> QED
    BY <2>1, <2>2, <2>4
<1>2. CASE Blank \/ SkipAnd \/ SkipOr \/ CsvLog \/ Backtest \/ Pipe \/ GateNoChecker \/ Group \/ Execute
  <2>1. verdict' = verdict /\ node' = node + 1
    BY <1>2 DEF Blank, SkipAnd, SkipOr, CsvLog, Backtest, Pipe, GateNoChecker, Group, Execute,
                GhostsSame, Run
  <2>2. to = node + 1
    BY <1>c, <2>1 DEF Shape, Run
  <2>3. line[node].op \notin CaptureOps
    <3>1. SUFFICES ASSUME Capt(line, node) PROVE FALSE
      BY <1>b DEF Capt
    <3>2. line[node].kind \in {"cmd", "piped"}
      BY <1>b, <3>1 DEF Documented
    <3>3. HasArgs(node)
      BY <1>b, <3>2 DEF HasArgs
    <3>4. CASE Blank \/ Group \/ GateNoChecker
      BY <3>2, <3>3, <3>4 DEF Blank, Group, GateNoChecker
    <3>5. CASE Execute
      BY <3>1, <3>5 DEF Execute, Capt
    <3>6. CASE SkipAnd \/ SkipOr
      BY <1>b, <3>1, <3>6 DEF SkipAnd, SkipOr, Passes, Before, Documented
    <3>7. CASE CsvLog \/ Backtest \/ Pipe
      BY <1>a, <3>1, <3>7, OperandEnds DEF CsvLog, Backtest, Pipe, Passes, Capt
    <3> QED
      BY <1>2, <3>4, <3>5, <3>6, <3>7
  <2> QED
    BY <1>c, <1>b, <2>1, <2>2, <2>3 DEF Speaks
<1>3. CASE GateAlone
  <2>1. Before = "?>" /\ HasArgs(node) /\ ~Chained /\ Gate({}, node + 1)
    BY <1>3 DEF GateAlone, Passes
  <2>2. \E T : Shape(T, node + 1) /\ Speaks(T)
    BY <1>a, <1>b, <2>1, GateSpeaks
  <2>3. line[node].op \notin CaptureOps
    BY <1>a, <2>1, GateEnds
  <2> QED
    BY <1>b, <2>2, <2>3
<1>4. CASE GateThenNext
  <2>1. /\ Before = "?>" /\ HasArgs(node) /\ HasArgs(node + 1) /\ line[node].op = "|"
        /\ Chained /\ ~Logged /\ Gate({node + 1}, node + 2)
    BY <1>4 DEF GateThenNext, Passes, Chained
  <2>2. /\ node + 1 \in 1..Len(line) /\ node + 2 \in node + 1..Len(line) + 1
        /\ (node + 2) - 1 = node + 1
    BY <1>b, <2>1 DEF HasArgs
  <2>3. {node + 1} \subseteq {i \in 1..Len(line) : node < i /\ i < node + 2 /\ HasArgs(i)}
    BY <2>1, <2>2
  <2>4. \E T : Shape(T, node + 2) /\ Speaks(T)
    BY <1>a, <2>1, <2>2, <2>3, GateSpeaks
  <2>5. line[node + 1].op \notin CaptureOps
    BY <1>a, <2>1, GateEnds
  <2> QED
    BY <2>2, <2>4, <2>5
<1>5. CASE GateThenLoggedNext
  <2>1. /\ Before = "?>" /\ HasArgs(node) /\ HasArgs(node + 1) /\ HasArgs(node + 2)
        /\ Logged /\ GateLogged({node + 1}, node + 3)
    BY <1>5 DEF GateThenLoggedNext, Passes, Logged, Chained
  <2>2. /\ node + 1 \in 1..Len(line) /\ node + 2 \in 1..Len(line)
        /\ node + 3 \in node + 1..Len(line) + 1 /\ (node + 3) - 1 = node + 2
    BY <1>b, <2>1 DEF HasArgs
  <2>3. {node + 1} \subseteq {i \in 1..Len(line) : node < i /\ i < node + 3 /\ HasArgs(i)}
    BY <2>1, <2>2
  <2>4. \E T : Shape(T, node + 3) /\ Speaks(T)
    BY <1>a, <2>1, <2>2, <2>3, GateSpeaks
  <2>5. line[node + 2].op \notin CaptureOps
    BY <1>a, <2>1, GateEnds
  <2> QED
    BY <2>2, <2>4, <2>5
<1> QED
  BY <1>1, <1>2, <1>3, <1>4, <1>5 DEF Next

LEMMA FormStep == TypeOK /\ BoundInv /\ FormInv /\ [Next]_vars => FormInv'
<1> SUFFICES ASSUME TypeOK, BoundInv, FormInv, [Next]_vars PROVE FormInv'
  OBVIOUS
<1> USE DEF FormInv
<1>1. CASE UNCHANGED vars
  BY <1>1 DEF vars, Once, Pending, Behind, RefusedNeverReaches, ItemStart, Joined
<1>2. CASE Next
  <2>1. PICK S, to :
           /\ Shape(S, to) /\ Speaks(S)
           /\ \/ line[to - 1].op \notin CaptureOps
              \/ S = {} /\ to = node + 1 /\ ItemStart(node) /\ verdict' = verdict
    BY <1>2, FormShape, LineFromType
  <2>2. /\ line' = line /\ node' = to
        /\ node \in 1..Len(line) /\ to \in node + 1..Len(line) + 1
    BY <2>1 DEF Shape, Run, TypeOK
  <2>3. ASSUME NEW i \in 1..Len(line)
        PROVE  runs[i] \in Nat /\ runs'[i] = IF i \in S THEN runs[i] + 1 ELSE runs[i]
    BY <2>1 DEF TypeOK, Shape, Run
  <2>4. \A i \in S : node - 1 <= i /\ i < to /\ i \in 1..Len(line)
    BY <2>1 DEF Shape
  <2>5. node - 1 \in S => node > 1 /\ line[node - 1].op \in CaptureOps
    BY <2>1, <2>2 DEF Shape, Before, CaptureOps
  <2>6. Once'
    <3> SUFFICES ASSUME NEW i \in 1..Len(line) PROVE runs'[i] <= 1
      BY <2>2 DEF Once
    <3>1. CASE i \notin S
      BY <2>3, <3>1 DEF Once
    <3>2. CASE i \in S
      <4>1. CASE i >= node
        BY <2>3, <3>2, <4>1 DEF BoundInv
      <4>2. CASE i = node - 1
        <5>1. runs[i] = 0
          BY <2>5, <3>2, <4>2 DEF Pending
        <5> QED
          BY <2>3, <3>2, <5>1
      <4> QED
        BY <2>2, <2>4, <3>2, <4>1, <4>2
    <3> QED
      BY <3>1, <3>2
  <2>7. Pending'
    <3> SUFFICES ASSUME line[to - 1].op \in CaptureOps
                 PROVE  to - 1 \in 1..Len(line) /\ ItemStart(to - 1) /\ runs'[to - 1] = 0
      BY <2>2 DEF Pending, ItemStart
    <3>1. S = {} /\ to - 1 = node /\ ItemStart(node)
      BY <2>1, <2>2
    <3>2. runs[node] = 0
      BY <2>2 DEF BoundInv
    <3> QED
      BY <2>2, <2>3, <3>1, <3>2
  <2>8. Behind'
    <3> SUFFICES ASSUME NEW c \in 1..Len(line), verdict'[c] # "none"
                 PROVE  c < to /\ \A j \in Joined(c) : j < to
      BY <2>2 DEF Behind, Joined
    <3>1. CASE verdict'[c] = verdict[c]
      <4>1. c < node /\ \A j \in Joined(c) : j < node
        BY <3>1 DEF Behind
      <4>2. \A j \in Joined(c) : j \in Int
        BY DEF Joined
      <4> QED
        BY <2>2, <4>1, <4>2
    <3>2. CASE verdict'[c] # verdict[c]
      <4>1. c = node
        BY <2>1, <3>2 DEF Speaks, TypeOK
      <4>2. line[to - 1].op \notin CaptureOps
        BY <2>1, <3>2
      <4>3. ASSUME NEW j \in Joined(node) PROVE j < to
        <5>1. j \in Int /\ \A k \in node..j - 1 : line[k].op \in CaptureOps
          BY DEF Joined
        <5>2. j >= to => to - 1 \in node..j - 1
          BY <2>2, <5>1
        <5> QED
          BY <2>2, <4>2, <5>1, <5>2
      <4> QED
        BY <2>2, <4>1, <4>3
    <3> QED
      BY <3>1, <3>2
  <2>9. RefusedNeverReaches'
    <3> SUFFICES ASSUME NEW c \in 1..Len(line), verdict'[c] \in Refused,
                        NEW j \in Joined(c) \ {c}
                 PROVE  runs'[j] = 0
      BY <2>2 DEF RefusedNeverReaches, Joined, Refused
    <3>1. /\ j \in c..Len(line) /\ j > c /\ j \in 1..Len(line)
          /\ \A k \in c..j - 1 : line[k].op \in CaptureOps
      BY DEF Joined
    <3>2. CASE verdict'[c] = verdict[c]
      <4>1. runs[j] = 0 /\ c < node /\ \A h \in Joined(c) : h < node
        BY <3>2 DEF RefusedNeverReaches, Behind, Refused
      <4>2. node \notin Joined(c) /\ j < node
        BY <2>2, <4>1
      <4>3. j \notin S
        <5> SUFFICES ASSUME j \in S PROVE FALSE
          OBVIOUS
        <5>1. j = node - 1 /\ line[node - 1].op \in CaptureOps
          BY <2>2, <2>4, <2>5, <3>1, <4>2
        <5>2. \A k \in c..node - 1 : line[k].op \in CaptureOps
          BY <2>2, <3>1, <5>1
        <5> QED
          BY <2>2, <4>1, <4>2, <5>2 DEF Joined
      <4> QED
        BY <2>3, <3>1, <4>1, <4>3
    <3>3. CASE verdict'[c] # verdict[c]
      <4>1. c = node /\ S \subseteq {node - 1, node}
        BY <2>1, <3>3 DEF Speaks, TypeOK
      <4>2. runs[j] = 0 /\ j \notin S
        BY <2>2, <3>1, <4>1 DEF BoundInv
      <4> QED
        BY <2>3, <3>1, <4>2
    <3> QED
      BY <3>2, <3>3
  <2> QED
    BY <2>2, <2>6, <2>7, <2>8, <2>9
<1> QED
  BY <1>1, <1>2

\* What is inductive, whatever the line: the line stays, and a documented one
\* keeps FormInv.
FormsInv == Documented(line) => FormInv

LEMMA FormsStep == TypeOK /\ BoundInv /\ FormsInv /\ [Next]_vars => FormsInv'
<1> SUFFICES ASSUME TypeOK, BoundInv, FormsInv, [Next]_vars PROVE FormsInv'
  OBVIOUS
<1>1. line' = line
  <2>1. CASE UNCHANGED vars
    BY <2>1 DEF vars
  <2>2. CASE Next
    BY <2>2, StepShape, LineFromType DEF Shape, Run
  <2> QED
    BY <2>1, <2>2
<1>2. Documented(line') <=> Documented(line)
  BY <1>1
<1>3. CASE Documented(line)
  BY <1>3, FormStep DEF FormsInv
<1>4. CASE ~Documented(line)
  BY <1>2, <1>4 DEF FormsInv
<1> QED
  BY <1>3, <1>4

LEMMA FormInit == Init => FormsInv
  BY OperatorAssumption
     DEF Init, FormsInv, FormInv, Once, Pending, Behind, RefusedNeverReaches, Joined, Parsed

\* On every line of documented forms, of any length and with every fault, no
\* command runs twice.
THEOREM FormsRunAtMostOnce == Spec => []FormsRunOnce
<1>1. Spec => [](TypeOK /\ BoundInv)
  BY TypeInit, TypeStep, BoundInit, BoundStep, PTL DEF Spec
<1>2. FormsInv => FormsRunOnce
  BY DEF FormsInv, FormInv, FormsRunOnce
<1> QED
  BY <1>1, <1>2, FormInit, FormsStep, PTL DEF Spec

\* On the same lines nothing joined behind a refusing checker runs at all.
THEOREM FormsAreAlwaysGated == Spec => []FormsAreGated
<1>1. Spec => [](TypeOK /\ BoundInv)
  BY TypeInit, TypeStep, BoundInit, BoundStep, PTL DEF Spec
<1>2. FormsInv => FormsAreGated
  BY DEF FormsInv, FormInv, FormsAreGated
<1> QED
  BY <1>1, <1>2, FormInit, FormsStep, PTL DEF Spec

-------------------------------------------------------------------------------
(* The items of a line: how positions and items count each other.          *)

Ends(i) == {e \in 1..i - 1 : ItemEnd(line[e])}

LEMMA EndsFinite ==
    ASSUME LineInv, NEW i \in 1..Len(line) + 1
    PROVE  IsFiniteSet(Ends(i)) /\ Cardinality(Ends(i)) \in Nat
<1>1. IsFiniteSet(1..i - 1)
  BY FS_Interval DEF LineInv
<1>2. Ends(i) \in SUBSET (1..i - 1)
  BY DEF Ends
<1>3. IsFiniteSet(Ends(i))
  BY <1>1, <1>2, FS_Subset, Zenon
<1> QED
  BY <1>3, FS_CardinalityType

\* The next position is in the next item exactly after the end of one.
LEMMA ItemOfNext ==
    ASSUME LineInv, NEW i \in 1..Len(line)
    PROVE  /\ ItemOf(i) \in Nat \ {0} /\ ItemOf(i + 1) \in Nat \ {0}
           /\ ItemOf(i + 1) = IF ItemEnd(line[i]) THEN ItemOf(i) + 1 ELSE ItemOf(i)
<1>0. Len(line) \in Nat /\ i + 1 \in 1..Len(line) + 1 /\ i \in 1..Len(line) + 1
  BY DEF LineInv
<1>1. ItemOf(i) = Cardinality(Ends(i)) + 1 /\ ItemOf(i + 1) = Cardinality(Ends(i + 1)) + 1
  BY DEF ItemOf, Ends
<1>2. IsFiniteSet(Ends(i)) /\ Cardinality(Ends(i)) \in Nat /\ Cardinality(Ends(i + 1)) \in Nat
  BY <1>0, EndsFinite
<1>3. CASE ItemEnd(line[i])
  <2>1. Ends(i + 1) = Ends(i) \cup {i} /\ i \notin Ends(i)
    BY <1>0, <1>3 DEF Ends
  <2>2. Cardinality(Ends(i + 1)) = Cardinality(Ends(i)) + 1
    BY <1>2, <2>1, FS_AddElement
  <2> QED
    BY <1>1, <1>2, <1>3, <2>2
<1>4. CASE ~ItemEnd(line[i])
  <2>1. Ends(i + 1) = Ends(i)
    BY <1>0, <1>4 DEF Ends
  <2> QED
    BY <1>1, <1>2, <1>4, <2>1
<1> QED
  BY <1>3, <1>4

LEMMA ItemOfOrder ==
    ASSUME LineInv, NEW i \in 1..Len(line) + 1, NEW j \in i..Len(line) + 1
    PROVE  ItemOf(i) <= ItemOf(j) /\ ItemOf(i) \in Nat \ {0} /\ ItemOf(j) \in Nat \ {0}
<1>1. j \in 1..Len(line) + 1 /\ Ends(i) \in SUBSET Ends(j)
  BY DEF Ends, LineInv
<1>2. /\ IsFiniteSet(Ends(j)) /\ Cardinality(Ends(j)) \in Nat
      /\ Cardinality(Ends(i)) \in Nat
  BY <1>1, EndsFinite
<1>3. Cardinality(Ends(i)) <= Cardinality(Ends(j))
  BY <1>1, <1>2, FS_Subset
<1>4. ItemOf(i) = Cardinality(Ends(i)) + 1 /\ ItemOf(j) = Cardinality(Ends(j)) + 1
  BY DEF ItemOf, Ends
<1> QED
  BY <1>2, <1>3, <1>4

LEMMA ItemOfFirst == ItemOf(1) = 1
<1>1. {e \in 1..1 - 1 : ItemEnd(line[e])} = {}
  OBVIOUS
<1> QED
  BY <1>1, FS_EmptySet DEF ItemOf

\* An item is known by its last node.
LEMMA ItemsAt ==
    ASSUME LineInv, NEW e \in 1..Len(line), ItemEnd(line[e])
    PROVE  /\ ItemOf(e) \in 1..ItemOf(Len(line) + 1) - 1
           /\ Items[ItemOf(e)] = line[e]
<1>0. Len(line) \in Nat
  BY DEF LineInv
<1>1. ItemOf(e) \in Nat \ {0} /\ ItemOf(e + 1) = ItemOf(e) + 1
  BY ItemOfNext
<1>2. e + 1 \in 1..Len(line) + 1 /\ Len(line) + 1 \in e + 1..Len(line) + 1
  BY <1>0
<1>3. ItemOf(e + 1) <= ItemOf(Len(line) + 1) /\ ItemOf(Len(line) + 1) \in Nat
  BY <1>2, ItemOfOrder
<1>4. ItemOf(e) \in 1..ItemOf(Len(line) + 1) - 1
  BY <1>1, <1>3
<1>5. ASSUME NEW f \in 1..Len(line), ItemEnd(line[f]), ItemOf(f) = ItemOf(e)
      PROVE  f = e
  <2>1. ItemOf(f) \in Nat \ {0} /\ ItemOf(f + 1) = ItemOf(f) + 1
    BY <1>5, ItemOfNext
  <2>2. CASE f < e
    <3>1. f + 1 \in 1..Len(line) + 1 /\ e \in f + 1..Len(line) + 1
      BY <1>0, <2>2
    <3> QED
      BY <1>1, <1>5, <2>1, <3>1, ItemOfOrder
  <2>3. CASE e < f
    <3>1. f \in e + 1..Len(line) + 1
      BY <1>0, <2>3
    <3> QED
      BY <1>1, <1>2, <1>5, <2>1, <3>1, ItemOfOrder
  <2> QED
    BY <1>0, <2>2, <2>3
<1>6. LastOf(ItemOf(e)) = e
  BY <1>5 DEF LastOf
<1> QED
  BY <1>4, <1>6 DEF Items

\* The items are a sequence of nodes, each the end of its item.
LEMMA ItemsType ==
    ASSUME LineInv
    PROVE  /\ DOMAIN Items = 1..ItemOf(Len(line) + 1) - 1
           /\ Len(Items) = ItemOf(Len(line) + 1) - 1
<1>0. Len(line) \in Nat /\ Len(line) + 1 \in 1..Len(line) + 1
  BY DEF LineInv
<1>1. ItemOf(Len(line) + 1) - 1 \in Nat
  BY <1>0, ItemOfOrder
<1>2. DOMAIN Items = 1..ItemOf(Len(line) + 1) - 1
  BY DEF Items
<1> QED
  BY <1>1, <1>2

\* A set of positions has a first one.
LEMMA FirstOf ==
    ASSUME NEW D, D \subseteq Nat, D # {}
    PROVE  \E d \in D : \A c \in D : d <= c
<1> DEFINE R == OpToRel(<, Nat)
<1>1. IsWellFoundedOn(R, Nat)
  BY NatLessThanWellFounded
<1>2. \A c, d \in Nat : c < d => <<c, d>> \in R
  BY DEF OpToRel
<1> HIDE DEF R
<1>3. PICK d \in D : \A c \in D : ~(<<c, d>> \in R)
  BY <1>1, WFMin
<1>4. ASSUME NEW c \in D
      PROVE  d <= c
  <2>1. c \in Nat /\ d \in Nat /\ ~(c < d)
    BY <1>2, <1>3
  <2> QED
    BY <2>1
<1> QED
  BY <1>4

\* Every number below the count of items is the number of one.
LEMMA ItemsOnto ==
    ASSUME LineInv, NEW n \in 1..ItemOf(Len(line) + 1) - 1
    PROVE  \E e \in 1..Len(line) : ItemEnd(line[e]) /\ ItemOf(e) = n /\ Items[n] = line[e]
<1> DEFINE N == Len(line)
           D == {j \in 1..N + 1 : ItemOf(j) > n}
<1>0. N \in Nat /\ n \in Nat /\ n >= 1 /\ N + 1 \in 1..N + 1
  <2>1. N \in Nat
    BY DEF LineInv
  <2>2. ItemOf(N + 1) \in Nat
    BY <2>1, ItemOfOrder
  <2> QED
    BY <2>1, <2>2
<1>1. ItemOf(N + 1) > n
  BY <1>0, ItemOfOrder
<1>2. PICK j \in D : \A k \in D : j <= k
  <2>1. D \subseteq Nat /\ N + 1 \in D
    BY <1>0, <1>1
  <2> QED
    BY <2>1, FirstOf
<1>3. j # 1
  BY <1>0, ItemOfFirst
<1>4. PICK e : e = j - 1
  OBVIOUS
<1>5. e \in 1..N /\ j = e + 1 /\ e \notin D /\ e \in 1..N + 1
  BY <1>0, <1>2, <1>3, <1>4
<1>6. /\ ItemOf(e) \in Nat
      /\ ItemOf(j) = IF ItemEnd(line[e]) THEN ItemOf(e) + 1 ELSE ItemOf(e)
  BY <1>5, ItemOfNext
<1>7. ItemEnd(line[e]) /\ ItemOf(e) = n
  BY <1>0, <1>5, <1>6
<1> QED
  BY <1>5, <1>7, ItemsAt

LEMMA ListInit == Init => List!Init
<1> SUFFICES ASSUME Init PROVE List!Init
  OBVIOUS
<1>1. LineInv /\ node = 1 /\ status = 0
  BY OperatorAssumption DEF Init, LineInv, Parsed
<1>2. ItemOf(node) = 1
  BY <1>1, ItemOfFirst
<1>3. Done = {}
  BY DEF Init, Done
<1>4. ASSUME NEW n \in 1..Len(Items)
      PROVE  Items[n].op \in {";", "&", "&&", "||", "end"}
  <2>1. PICK e \in 1..Len(line) : ItemEnd(line[e]) /\ Items[n] = line[e]
    BY <1>1, <1>4, ItemsType, ItemsOnto
  <2>2. line[e] \in Node
    BY <1>1 DEF LineInv
  <2> QED
    BY <2>1, <2>2 DEF ItemEnd, Node, ListOps
<1> QED
  BY <1>1, <1>2, <1>3, <1>4 DEF List!Init

-------------------------------------------------------------------------------
(* A line of documented forms runs as the list it reads as.                *)

\* From node to the end of an item.
Within(to) ==
    /\ to \in node + 1..Len(line) + 1
    /\ ItemEnd(line[to - 1]) /\ line[to - 1].kind # "blank"
    /\ \A k \in node..to - 2 : ~ItemEnd(line[k])

TurnDefers == Capt(line, node) /\ node' = node + 1 /\ UNCHANGED <<line, status, runs>>

TurnPasses ==
    /\ ItemEnd(line[node]) /\ node' = node + 1
    /\ UNCHANGED <<line, status, runs>>
    /\ \/ line[node].kind = "blank"
       \/ Before = "&&" /\ status # 0
       \/ Before = "||" /\ status = 0

TurnRuns(S, to) ==
    /\ Shape(S, to) /\ Within(to)
    /\ Before \in CaptureOps \/ Free
    /\ status' \in {0, 1} /\ (S = {} => status' = 1)

LEMMA RunNothing == Run({}, node + 1) => node' = node + 1 /\ UNCHANGED line
  BY DEF Run

LEMMA ListTurn ==
    ASSUME TypeOK, Documented(line), Pending, Next
    PROVE  TurnDefers \/ TurnPasses \/ \E S, to : TurnRuns(S, to)
<1>a. At /\ LineInv
  BY LineFromType DEF Next, Blank, SkipAnd, SkipOr, CsvLog, Backtest, Pipe, GateAlone, GateNoChecker,
         GateThenNext, GateThenLoggedNext, Group, Defer, Execute, Free, Passes
<1>b. node \in 1..Len(line) /\ node + 1 \in node + 1..Len(line) + 1 /\ (node + 1) - 1 = node
  BY <1>a DEF At, LineInv
<1>c. ASSUME Run({}, node + 1)
      PROVE  node' = node + 1 /\ UNCHANGED <<line, runs>> /\ Shape({}, node + 1)
  <2>1. runs' = [i \in DOMAIN runs |-> runs[i]] /\ node' = node + 1 /\ UNCHANGED line
    BY <1>c DEF Run
  <2>2. runs' = runs
    BY <2>1 DEF TypeOK
  <2> QED
    BY <1>b, <1>c, <2>1, <2>2 DEF Shape
<1>d. Capt(line, node) => line[node].kind \in {"cmd", "piped"} /\ HasArgs(node)
  <2>1. Capt(line, node) => line[node].kind \in {"cmd", "piped"}
    BY <1>b, DocumentedAt
  <2> QED
    BY <1>b, <2>1 DEF HasArgs
<1>e. \A k \in 1..Len(line) : ItemEnd(line[k]) <=> ~Capt(line, k)
  BY DEF ItemEnd, Capt
<1>f. Within(node + 1) <=> ItemEnd(line[node]) /\ line[node].kind # "blank"
  BY <1>b DEF Within
<1>1. CASE Defer
  BY <1>1, <1>b, <1>c DEF Defer, TurnDefers, Capt
<1>2. CASE Blank
  BY <1>2, <1>b, <1>c, <1>d, <1>e DEF Blank, TurnPasses
<1>3. CASE SkipAnd \/ SkipOr
  <2>1. ItemEnd(line[node])
    BY <1>b, <1>e, <1>3 DEF SkipAnd, SkipOr, Passes, Before, Documented
  <2> QED
    BY <1>3, <1>c, <2>1 DEF SkipAnd, SkipOr, Passes, TurnPasses
<1>4. CASE CsvLog \/ Backtest \/ Pipe
  <2>1. Before \in {"|>", "~>", "|"} /\ Before \in CaptureOps
    BY <1>4 DEF CsvLog, Backtest, Pipe, Passes, CaptureOps
  <2>5. HasArgs(node - 1) /\ HasArgs(node) /\ ItemEnd(line[node])
    BY <1>a, <2>1, OperandEnds DEF ItemEnd
  <2>7. \E S \in SUBSET {node - 1, node} :
            Run(S, node + 1) /\ status' \in {0, 1} /\ (S = {} => status' = 1)
    <3>1. CASE CsvLog
      <4>1. \/ Run({node - 1}, node + 1) /\ status' \in {0, 1}
            \/ Run({}, node + 1) /\ status' = 1
        BY <3>1, <2>5, Zenon DEF CsvLog, Exit
      <4> QED
        BY <4>1
    <3>2. CASE Backtest
      <4>1. \/ Run({node - 1}, node + 1) /\ status' \in {0, 1}
            \/ Run({}, node + 1) /\ status' = 1
        BY <3>2, <2>5 DEF Backtest, Exit
      <4> QED
        BY <4>1
    <3>3. CASE Pipe
      <4>1. \/ Run({node} \cup {node - 1}, node + 1) /\ status' \in {0, 1}
            \/ \E S \in SUBSET {i \in {node - 1, node} : HasArgs(i)} :
                  Run(S, node + 1) /\ (IF node \in S THEN status' \in {0, 1} ELSE status' = 1)
        BY <3>3, <2>5 DEF Pipe, Exit
      <4> QED
        BY <4>1
    <3> QED
      BY <1>4, <3>1, <3>2, <3>3
  <2>8. PICK S \in SUBSET {node - 1, node} :
            Run(S, node + 1) /\ status' \in {0, 1} /\ (S = {} => status' = 1)
    BY <2>7
  <2>9. Shape(S, node + 1)
    BY <1>a, <2>1, <2>5, <2>8, OperandShape
  <2> QED
    BY <1>f, <2>1, <2>5, <2>8, <2>9 DEF TurnRuns, HasArgs
<1>5. CASE Group \/ Execute
  <2>1. Free /\ ItemEnd(line[node]) /\ line[node].kind # "blank"
    BY <1>5, <1>b, <1>d, <1>e DEF Group, Execute, HasArgs, ItemEnd, Capt
  <2>2. \/ Run({node}, node + 1) /\ status' \in {0, 1}
        \/ Run({}, node + 1) /\ status' = 1
    BY <1>5 DEF Group, Execute, Exit
  <2>3. ASSUME Run({node}, node + 1) PROVE Shape({node}, node + 1)
    BY <1>b, <2>3 DEF Shape
  <2>4. \E S : Shape(S, node + 1) /\ status' \in {0, 1} /\ (S = {} => status' = 1)
    BY <1>c, <2>2, <2>3
  <2> QED
    BY <1>f, <2>1, <2>4 DEF TurnRuns
<1>6. CASE GateNoChecker
  <2>1. node > 1 /\ line[node - 1].op = "?>"
    BY <1>6, <1>b DEF GateNoChecker, Passes, Before
  <2>2. PICK p \in 1..Len(line) : p = node - 1
    BY <1>b, <2>1
  <2>3. Capt(line, p) /\ node = p + 1
    BY <1>b, <2>1, <2>2 DEF Capt, CaptureOps
  <2>4. HasArgs(node)
    <3>1. line[node].kind = "cmd"
      BY <2>3, DocumentedAt
    <3> QED
      BY <1>b, <3>1 DEF HasArgs
  <2> QED
    BY <1>6, <2>4 DEF GateNoChecker
<1>7. CASE GateAlone \/ GateThenNext \/ GateThenLoggedNext
  <2>1. Before = "?>" /\ Before \in CaptureOps /\ HasArgs(node)
    BY <1>7 DEF GateAlone, GateThenNext, GateThenLoggedNext, Passes, Chained, Logged, CaptureOps
  <2>2. ASSUME NEW next, NEW to, to \in node + 1..Len(line) + 1,
               Gate(next, to) \/ GateLogged(next, to),
               next \subseteq {i \in 1..Len(line) : node < i /\ i < to /\ HasArgs(i)},
               Within(to)
        PROVE  \E S : TurnRuns(S, to)
    <3>1. PICK S : Shape(S, to) /\ (S = {} => status' = 1)
      BY <1>a, <2>1, <2>2, GateShape
    <3>2. status' \in {0, 1}
      BY <1>a, <2>2, GateType
    <3> QED
      BY <2>1, <2>2, <3>1, <3>2 DEF TurnRuns
  <2>3. CASE GateAlone
    <3>1. Within(node + 1) /\ Gate({}, node + 1)
      BY <1>a, <1>f, <2>1, <2>3, GateEnds DEF GateAlone, ItemEnd, HasArgs
    <3> QED
      BY <1>b, <2>2, <3>1
  <2>4. CASE GateThenNext
    <3>1. /\ HasArgs(node + 1) /\ line[node].op = "|" /\ Chained /\ ~Logged
          /\ Gate({node + 1}, node + 2)
      BY <2>4 DEF GateThenNext, Chained
    <3>2. /\ node + 1 \in 1..Len(line) /\ node + 2 \in node + 1..Len(line) + 1
          /\ (node + 2) - 1 = node + 1 /\ (node + 2) - 2 = node
      BY <1>a, <1>b, <3>1 DEF HasArgs, LineInv
    <3>3. ItemEnd(line[node + 1]) /\ ~ItemEnd(line[node])
      BY <1>a, <2>1, <3>1, GateEnds DEF ItemEnd, CaptureOps
    <3>4. Within(node + 2)
      BY <1>b, <3>1, <3>2, <3>3 DEF Within, HasArgs
    <3>5. {node + 1} \subseteq {i \in 1..Len(line) : node < i /\ i < node + 2 /\ HasArgs(i)}
      BY <3>1, <3>2
    <3> QED
      BY <2>2, <3>1, <3>2, <3>4, <3>5
  <2>5. CASE GateThenLoggedNext
    <3>1. /\ HasArgs(node + 1) /\ HasArgs(node + 2) /\ line[node].op = "|"
          /\ line[node + 1].op = "|>" /\ Logged /\ GateLogged({node + 1}, node + 3)
      BY <2>5 DEF GateThenLoggedNext, Logged, Chained
    <3>2. /\ node + 1 \in 1..Len(line) /\ node + 2 \in 1..Len(line)
          /\ node + 3 \in node + 1..Len(line) + 1
          /\ (node + 3) - 1 = node + 2 /\ (node + 3) - 2 = node + 1
      BY <1>a, <1>b, <3>1 DEF HasArgs, LineInv
    <3>3. ItemEnd(line[node + 2]) /\ ~ItemEnd(line[node]) /\ ~ItemEnd(line[node + 1])
      BY <1>a, <2>1, <3>1, GateEnds DEF ItemEnd, CaptureOps
    <3>4. Within(node + 3)
      BY <1>b, <3>1, <3>2, <3>3 DEF Within, HasArgs
    <3>5. {node + 1} \subseteq {i \in 1..Len(line) : node < i /\ i < node + 3 /\ HasArgs(i)}
      BY <1>b, <3>1, <3>2
    <3> QED
      BY <2>2, <3>1, <3>2, <3>4, <3>5
  <2> QED
    BY <1>7, <2>3, <2>4, <2>5
<1> QED
  BY <1>1, <1>2, <1>3, <1>4, <1>5, <1>6, <1>7 DEF Next

\* Positions with no end between them are in one item.
LEMMA SameItem ==
    ASSUME LineInv, NEW i \in 1..Len(line) + 1, NEW j \in i..Len(line) + 1,
           \A k \in i..j - 1 : ~ItemEnd(line[k])
    PROVE  ItemOf(j) = ItemOf(i)
<1>1. Ends(j) = Ends(i)
  BY DEF Ends
<1> QED
  BY <1>1 DEF ItemOf, Ends

\* What CommandList sees before the item that is next is what the loop sees
\* before its node; a waiting left operand is the start of an item.
LEMMA BeforeItem ==
    ASSUME LineInv, Pending, node \in 1..Len(line)
    PROVE  \A op \in {"&&", "||"} :
             ItemOf(node) > 1 /\ Items[ItemOf(node) - 1].op = op <=> Before = op
<1>0. ASSUME NEW p \in 1..Len(line), ItemEnd(line[p])
      PROVE  ItemOf(p + 1) > 1 /\ Items[ItemOf(p + 1) - 1] = line[p]
  <2>1. ItemOf(p) \in Nat \ {0} /\ ItemOf(p + 1) = ItemOf(p) + 1 /\ Items[ItemOf(p)] = line[p]
    BY <1>0, ItemOfNext, ItemsAt
  <2> QED
    BY <2>1
<1>1. CASE node = 1
  BY <1>1, ItemOfFirst DEF Before
<1>2. CASE node > 1 /\ Before \notin CaptureOps
  <2>1. PICK p \in 1..Len(line) : node = p + 1 /\ p = node - 1
    BY <1>2 DEF LineInv
  <2>2. Before = line[p].op /\ ItemEnd(line[p])
    BY <1>2, <2>1 DEF Before, ItemEnd
  <2> QED
    BY <1>0, <2>1, <2>2
<1>3. CASE node > 1 /\ Before \in CaptureOps
  <2>1. PICK p \in 1..Len(line) : node = p + 1 /\ p = node - 1
    BY <1>3 DEF LineInv
  <2>2. ItemStart(p) /\ ~ItemEnd(line[p])
    BY <1>3, <2>1 DEF Before, ItemEnd, Pending
  <2>3. ItemOf(node) = ItemOf(p)
    BY <2>1, <2>2, ItemOfNext
  <2>4. Before # "&&" /\ Before # "||"
    BY <1>3 DEF CaptureOps
  <2>5. CASE p = 1
    BY <2>3, <2>4, <2>5, ItemOfFirst
  <2>6. CASE p # 1
    <3>1. PICK q \in 1..Len(line) : p = q + 1 /\ q = p - 1
      BY <2>6 DEF LineInv
    <3>2. line[q].op \in {";", "&"} /\ ItemEnd(line[q])
      BY <2>2, <2>6, <3>1 DEF ItemStart, ItemEnd, CaptureOps
    <3> QED
      BY <1>0, <2>3, <2>4, <3>1, <3>2
  <2> QED
    BY <2>5, <2>6
<1> QED
  BY <1>1, <1>2, <1>3 DEF LineInv

LEMMA ListStep ==
    ASSUME TypeOK, FormInv, Next
    PROVE  List!Next \/ UNCHANGED List!vars
<1>0. LineInv /\ Documented(line) /\ Pending /\ Len(line) \in Nat
  BY LineFromType DEF FormInv, LineInv
<1>a. /\ At /\ node \in 1..Len(line) /\ node \in 1..Len(line) + 1
      /\ line[node] \in Node
  <2>1. At
    BY DEF Next, Blank, SkipAnd, SkipOr, CsvLog, Backtest, Pipe, GateAlone, GateNoChecker,
           GateThenNext, GateThenLoggedNext, Group, Defer, Execute, Free, Passes
  <2> QED
    BY <1>0, <2>1 DEF At, LineInv
<1> DEFINE at == ItemOf(node)
<1>b. at \in Nat \ {0}
  BY <1>0, <1>a, ItemOfNext
<1>c. ASSUME line' = line
      PROVE  Items' = Items /\ ItemOf(node)' = ItemOf(node')
  BY <1>c DEF Items, ItemOf, LastOf, ItemEnd
<1>d. ASSUME line' = line
      PROVE  Done' = {ItemOf(i) : i \in {j \in 1..Len(line) : runs'[j] > 0}}
  BY <1>d DEF Done, ItemOf, ItemEnd
<1>e. \A op \in {"&&", "||"} : List!After(op) <=> Before = op
  BY <1>0, <1>a, BeforeItem DEF List!After
<1>f. DOMAIN Items = 1..Len(Items) /\ Len(Items) = ItemOf(Len(line) + 1) - 1
  BY <1>0, ItemsType
<1>1. CASE TurnDefers
  <2>1. node' = node + 1 /\ UNCHANGED <<line, status, runs>> /\ ~ItemEnd(line[node])
    BY <1>1 DEF TurnDefers, Capt, ItemEnd
  <2>2. ItemOf(node + 1) = ItemOf(node)
    BY <1>0, <1>a, <2>1, ItemOfNext
  <2>3. UNCHANGED <<Items, ItemOf(node), status, Done>>
    BY <1>c, <1>d, <2>1, <2>2 DEF Done
  <2> QED
    BY <2>3 DEF List!vars
<1>2. CASE TurnPasses
  <2>1. node' = node + 1 /\ UNCHANGED <<line, status, runs>> /\ ItemEnd(line[node])
    BY <1>2 DEF TurnPasses
  <2>2. ItemOf(node + 1) = at + 1 /\ at \in 1..Len(Items) /\ Items[at] = line[node]
    BY <1>0, <1>a, <1>f, <2>1, ItemOfNext, ItemsAt
  <2>3. /\ UNCHANGED <<Items, status, Done>>
        /\ ItemOf(node)' = at + 1
    BY <1>c, <1>d, <2>1, <2>2 DEF Done
  <2>4. ~List!Due \/ List!Empty
    BY <1>2, <1>e, <2>2 DEF TurnPasses, List!Due, List!Empty
  <2>5. List!More
    BY <2>2 DEF List!More
  <2> QED
    BY <2>3, <2>4, <2>5 DEF List!Next, List!Pass
<1>3. ASSUME NEW S, NEW to, TurnRuns(S, to)
      PROVE  List!Next
  <2>1. /\ Run(S, to) /\ S \subseteq {i \in 1..Len(line) : node - 1 <= i /\ i < to}
        /\ node - 1 \in S => Before \in CaptureOps
        /\ to \in node + 1..Len(line) + 1
        /\ line' = line /\ node' = to
    BY <1>3 DEF TurnRuns, Shape, Run
  <2>2. PICK e \in 1..Len(line) : e = to - 1 /\ to = e + 1 /\ e \in node..Len(line) + 1
    BY <1>0, <1>a, <2>1
  <2>3. /\ ItemEnd(line[e]) /\ line[e].kind # "blank"
        /\ \A k \in node..e - 1 : ~ItemEnd(line[k])
    BY <1>a, <1>3, <2>2 DEF TurnRuns, Within
  <2>4. \A j \in node..e : ItemOf(j) = at
    <3>1. ASSUME NEW j \in node..e PROVE ItemOf(j) = at
      <4>1. j \in node..Len(line) + 1 /\ \A k \in node..j - 1 : ~ItemEnd(line[k])
        BY <1>0, <1>a, <2>2, <2>3, <3>1
      <4> QED
        BY <1>0, <1>a, <4>1, SameItem
    <3> QED
      BY <3>1
  <2>5. ItemOf(to) = at + 1 /\ at \in 1..Len(Items) /\ Items[at] = line[e]
    <3>1. ItemOf(e) = at
      BY <1>a, <2>2, <2>4
    <3> QED
      BY <1>0, <1>f, <2>2, <2>3, <3>1, ItemOfNext, ItemsAt
  <2>6. \A i \in S : i \in 1..Len(line) /\ ItemOf(i) = at
    <3>1. ASSUME NEW i \in S PROVE i \in 1..Len(line) /\ ItemOf(i) = at
      <4>1. i \in 1..Len(line) /\ (i = node - 1 \/ i \in node..e)
        BY <1>a, <2>1, <2>2, <3>1
      <4>2. CASE i = node - 1
        <5>1. Before \in CaptureOps /\ node = i + 1 /\ node # 1
          BY <1>a, <2>1, <3>1, <4>1, <4>2
        <5>2. ~ItemEnd(line[i])
          BY <4>2, <5>1 DEF Before, ItemEnd
        <5> QED
          BY <1>0, <4>1, <5>1, <5>2, ItemOfNext
      <4> QED
        BY <2>4, <4>1, <4>2
    <3> QED
      BY <3>1
  <2>7. \A j \in 1..Len(line) : runs'[j] > 0 <=> runs[j] > 0 \/ j \in S
    BY <2>1 DEF TypeOK, Run
  <2>8. Done' = IF S = {} THEN Done ELSE Done \cup {at}
    BY <1>d, <2>1, <2>6, <2>7 DEF Done
  <2>9. Items' = Items /\ ItemOf(node)' = at + 1
    BY <1>c, <2>1, <2>5
  <2>10. List!More /\ ~List!Empty
    BY <2>3, <2>5 DEF List!More, List!Empty
  <2>11. List!Due
    <3>1. Before \in CaptureOps \/ Free
      BY <1>3 DEF TurnRuns
    <3>2. Free => (Before = "&&" => status = 0) /\ (Before = "||" => status # 0)
      BY DEF Free, Passes
    <3> QED
      BY <1>e, <3>1, <3>2 DEF List!Due, CaptureOps
  <2>12. status' \in {0, 1} /\ (S = {} => status' = 1)
    BY <1>3 DEF TurnRuns
  <2> QED
    BY <2>8, <2>9, <2>10, <2>11, <2>12 DEF List!Next, List!Perform, List!Fail
<1> QED
  BY <1>0, <1>1, <1>2, <1>3, ListTurn

\* On every line of documented forms, of any length, with any exit statuses and
\* faults, the loop with its deferrals, gates and skips is the plain reading of
\* the line: its items as units, in order, as && and || say.
THEOREM LinesRunAsLists == Spec => ImplementsList
<1>1. Init => (Documented(line) => List!Init)
  BY ListInit
<1>2. TypeOK /\ FormsInv /\ [Next]_vars => [Documented(line) => List!Next]_(List!vars)
  <2> SUFFICES ASSUME TypeOK, FormsInv, [Next]_vars, Documented(line)
               PROVE  List!Next \/ UNCHANGED List!vars
    OBVIOUS
  <2>1. CASE Next
    BY <2>1, ListStep DEF FormsInv
  <2>2. CASE UNCHANGED vars
    BY <2>2 DEF vars, List!vars, Items, ItemOf, LastOf, ItemEnd, Done
  <2> QED
    BY <2>1, <2>2
<1>3. Spec => []FormsInv
  <2>1. Spec => [](TypeOK /\ BoundInv)
    BY TypeInit, TypeStep, BoundInit, BoundStep, PTL DEF Spec
  <2> QED
    BY <2>1, FormInit, FormsStep, PTL DEF Spec
<1> QED
  BY <1>1, <1>2, <1>3, TypesHold, PTL DEF Spec, ImplementsList

===============================================================================
