----------------------------- MODULE AuditProofs ------------------------------
(***************************************************************************)
(* Theorems about AuditLog, for any processes and any number of sessions:  *)
(* a log one process at a time has written verifies unless a command spans *)
(* lines, one that verifies has no hole, and whatever happens the chain    *)
(* only breaks at a seam or at a command that spans lines; and, for        *)
(* AuditCapture, that a command's output is captured whole.                *)
(***************************************************************************)
EXTENDS AuditLog, AuditCapture, WellFoundedInduction, TLAPS

-------------------------------------------------------------------------------
(* Chains and lines *)

LEMMA FirstType ==
    ASSUME NEW g \in Genesis
    PROVE  First(g) \in Chain
BY DEF First, Chain

LEMMA ExtendType ==
    ASSUME NEW c \in Chain, NEW b \in Body
    PROVE  Extend(c, b) \in Chain
BY DEF Extend, Chain

\* A set of natural numbers has a least element.
LEMMA Least ==
    ASSUME NEW T, T \subseteq Nat, T # {}
    PROVE  \E x \in T : \A y \in T : x <= y
<1>. DEFINE R == OpToRel(<, Nat)
<1>1. IsWellFoundedOn(R, Nat)
    BY NatLessThanWellFounded
<1>2. R = {ss \in Nat \X Nat : ss[1] < ss[2]}
    BY DEF R, OpToRel
<1>. HIDE DEF R
<1>3. PICK x \in T : \A y \in T : ~(<<y, x>> \in R)
    BY <1>1, WFMin
<1>4. ASSUME NEW y \in T PROVE x <= y
    <2>1. x \in Nat /\ y \in Nat
        OBVIOUS
    <2>2. y < x => <<y, x>> \in R
        BY <1>2, <2>1
    <2>. QED
        BY <1>3, <2>1, <2>2
<1>. QED
    BY <1>3, <1>4

\* In a part of the log with lines that have a hash there is a last one.
LEMMA LastHashed ==
    ASSUME NEW k \in Nat, NEW H, H \subseteq 1..k, H # {}
    PROVE  \E i \in H : \A j \in H : j <= i
<1>. DEFINE D == {k - i : i \in H}
<1>1. \A i \in H : i \in 1..k /\ k - i \in Nat
    OBVIOUS
<1>2. D \subseteq Nat /\ D # {}
    BY <1>1
<1>. HIDE DEF D
<1>3. PICK n \in D : \A m \in D : n <= m
    BY <1>2, Least
<1>. USE DEF D
<1>4. PICK i \in H : n = k - i
    BY <1>3
<1>5. ASSUME NEW j \in H PROVE j <= i
    <2>1. k - j \in D
        OBVIOUS
    <2>2. n <= k - j
        BY <1>3, <2>1
    <2>. QED
        BY <1>1, <1>4, <2>2
<1>. QED
    BY <1>5

\* It is where a reader of those lines takes the hash from.
LEMMA LastHashFound ==
    ASSUME NEW lines \in Seq(Line), NEW k \in 0..Len(lines), NEW g,
           NEW i \in 1..k, WellFormed(lines[i]),
           \A j \in (i + 1)..k : ~WellFormed(lines[j])
    PROVE  LastHash(lines, k, g) = lines[i].chain
<1>. DEFINE H == {j \in 1..k : WellFormed(lines[j])}
            m == CHOOSE n \in H : \A j \in H : j <= n
<1>1. i \in H /\ k \in Nat /\ H \subseteq 1..k
    OBVIOUS
<1>. HIDE DEF H
<1>6. \E n \in H : \A j \in H : j <= n
    BY <1>1, LastHashed
<1>2. m \in H /\ \A j \in H : j <= m
    BY <1>6
<1>. USE DEF H
<1>3. LastHash(lines, k, g) = lines[m].chain
    BY <1>1 DEF LastHash
<1>. HIDE DEF m
<1>4. i <= m /\ m \in 1..k /\ WellFormed(lines[m])
    BY <1>1, <1>2
<1>5. m = i
    BY <1>4
<1>. QED
    BY <1>3, <1>5

\* A reader has a chain to go on from.
LEMMA LastHashType ==
    ASSUME NEW lines \in Seq(Line), NEW k \in 0..Len(lines), NEW g \in Genesis
    PROVE  LastHash(lines, k, g) \in Chain
<1>. DEFINE H == {i \in 1..k : WellFormed(lines[i])}
<1>1. CASE H = {}
    BY <1>1, FirstType DEF LastHash
<1>2. CASE H # {}
    <2>0. k \in Nat /\ H \subseteq 1..k
        OBVIOUS
    <2>. HIDE DEF H
    <2>1. PICK i \in H : \A j \in H : j <= i
        BY <1>2, <2>0, LastHashed
    <2>. USE DEF H
    <2>2. i \in 1..k /\ WellFormed(lines[i]) /\ \A j \in (i + 1)..k : ~WellFormed(lines[j])
        BY <2>1
    <2>3. LastHash(lines, k, g) = lines[i].chain
        BY <2>2, LastHashFound
    <2>4. lines[i] \in Line /\ lines[i].chain # NoChain
        BY <2>2 DEF WellFormed
    <2>. QED
        BY <2>3, <2>4 DEF Line
<1>. QED
    BY <1>1, <1>2

LEMMA SeedOfType ==
    ASSUME log \in Seq(Line), NEW g \in Genesis
    PROVE  SeedOf(g) \in Chain
BY LastHashType DEF SeedOf

\* What follows does not change what a reader finds.
LEMMA LastHashKept ==
    ASSUME NEW old \in Seq(Line), NEW new \in Seq(Line), NEW k \in 0..Len(old),
           Len(new) >= k, \A i \in 1..k : new[i] = old[i], NEW g
    PROVE  LastHash(new, k, g) = LastHash(old, k, g)
<1>. DEFINE H == {i \in 1..k : WellFormed(old[i])}
<1>1. {i \in 1..k : WellFormed(new[i])} = H
    OBVIOUS
<1>2. CASE H = {}
    BY <1>1, <1>2 DEF LastHash
<1>3. CASE H # {}
    <2>0. k \in Nat /\ H \subseteq 1..k
        OBVIOUS
    <2>. HIDE DEF H
    <2>1. PICK i \in H : \A j \in H : j <= i
        BY <1>3, <2>0, LastHashed
    <2>. USE DEF H
    <2>2. i \in 1..k /\ WellFormed(old[i]) /\ \A j \in (i + 1)..k : ~WellFormed(old[j])
        BY <2>1
    <2>3. WellFormed(new[i]) /\ \A j \in (i + 1)..k : ~WellFormed(new[j])
        BY <2>2
    <2>4. k \in 0..Len(new)
        OBVIOUS
    <2>5. LastHash(old, k, g) = old[i].chain
        BY <2>2, LastHashFound
    <2>6. LastHash(new, k, g) = new[i].chain
        BY <2>2, <2>3, <2>4, LastHashFound
    <2>. QED
        BY <2>2, <2>5, <2>6
<1>. QED
    BY <1>2, <1>3

-------------------------------------------------------------------------------
(* Types *)

Inv == TypeOK /\ (tail = "cut" => log # <<>>)

LEMMA InitInv == Init => Inv
<1>. SUFFICES ASSUME Init PROVE Inv
    OBVIOUS
<1>1. First(0) \in Chain
    BY FirstType DEF Genesis
<1>. QED
    BY <1>1, AuditAssumption DEF Init, Inv, TypeOK, Labels, Genesis

\* A step that leaves the log alone.
LEMMA MoveInv ==
    ASSUME Inv, NEW p \in Shells, NEW l \in Labels, Goto(p, l),
           UNCHANGED <<world, log, tail>>, spanning' \subseteq Body,
           gfile' \in Genesis \cup {NoFile, Blank}, drawn' \in Nat, starts' \in Nat,
           task' \in [Shells -> {"audit", "verify"}], sid' \in [Shells -> Nat],
           seed' \in [Shells -> Genesis], chain' \in [Shells -> Chain],
           count' \in [Shells -> Nat]
    PROVE  Inv'
BY DEF Inv, TypeOK, Goto

\* A step of one process that changes the log.
LEMMA LogInv ==
    ASSUME Inv, NEW p \in Shells, Goto(p, "ready"),
           log' \in Seq(Line), tail' \in {"whole", "cut", "comment"},
           tail' = "cut" => log' # <<>>,
           UNCHANGED <<world, drawn, spanning, starts, gfile, task, sid, seed, chain, count>>
    PROVE  Inv'
BY DEF Inv, TypeOK, Goto, Labels

LEMMA RecordType ==
    ASSUME Inv, NEW p \in Shells
    PROVE  Record(p) \in Line
BY DEF Inv, TypeOK, Record, Line, Body

LEMMA StrayType == Stray \in Line
BY DEF Line, Stray

LEMMA FirstLineType ==
    ASSUME NEW r \in Line
    PROVE  /\ Cut(r) \in Line /\ FirstLine(r) \in Line
           /\ Cut(r).body = Garbled /\ Cut(r).chain = r.chain
           /\ FirstLine(r) \in {r, Cut(r)}
<1>1. Cut(r) \in Line
    BY DEF Line, Cut
<1>2. Cut(r).body = Garbled /\ Cut(r).chain = r.chain
    BY DEF Line, Cut
<1>. QED
    BY <1>1, <1>2 DEF FirstLine

\* What a text leaves of the lines of the log, and how its own are found.
LEMMA PutLines ==
    ASSUME Inv, NEW l \in Line, NEW others \in {<<>>, <<Stray>>}, NEW e, Put(l, others, e)
    PROVE  /\ log' \in Seq(Line) /\ Len(log') >= Len(log)
           /\ tail # "comment" \/ others # <<>> => log' # <<>>
           /\ \A i \in 1..Len(log') :
                 \/ i \in 1..Len(log) /\ log'[i] = log[i]
                 \/ /\ i \in 1..Len(log) /\ log'[i].body = Garbled
                    /\ log'[i].chain \in {log[i].chain, NoChain, l.chain}
                 \/ i = Len(log) + 1 /\ log'[i] = l
                 \/ log'[i] = Stray
<1>1. log \in Seq(Line) /\ Len(log) \in Nat /\ Stray \in Line
    BY StrayType DEF Inv, TypeOK
<1>2. CASE tail = "whole" /\ log' = Append(log, l) \o others
    <2>1. CASE others = <<>>
        <3>1. log' = Append(log, l)
            BY <1>1, <1>2, <2>1
        <3>. QED
            BY <1>1, <3>1
    <2>2. CASE others = <<Stray>>
        <3>1. log' = Append(Append(log, l), Stray)
            BY <1>1, <1>2, <2>2
        <3>. QED
            BY <1>1, <3>1
    <2>. QED
        BY <2>1, <2>2
<1>3. CASE tail = "cut"
    <2>. DEFINE n == Len(log)
    <2>1. log # <<>> /\ n \in 1..n /\ log[n] \in Line
        BY <1>1, <1>3 DEF Inv
    <2>2. PICK c \in {log[n].chain, NoChain, l.chain} :
              log' = [log EXCEPT ![n] = [body |-> Garbled, chain |-> c]] \o others
        BY <1>3 DEF Put
    <2>. DEFINE d == [body |-> Garbled, chain |-> c]
                s == [log EXCEPT ![n] = d]
    <2>3. d \in Line /\ d.body = Garbled /\ d.chain = c
        BY <2>1, <2>2 DEF Line
    <2>. HIDE DEF d
    <2>4. s \in Seq(Line) /\ Len(s) = n /\ s[n] = d /\ \A i \in 1..n : i # n => s[i] = log[i]
        BY <1>1, <2>1, <2>3
    <2>7. log' = s \o others
        BY <2>2 DEF d
    <2>. HIDE DEF s
    <2>5. CASE others = <<>>
        <3>2. s \o <<>> = s
            BY <2>4
        <3>1. log' = s
            BY <2>5, <2>7, <3>2
        <3>3. log' \in Seq(Line) /\ Len(log') = n /\ log' # <<>>
            BY <2>1, <2>4, <3>1
        <3>4. log'[n].body = Garbled /\ log'[n].chain \in {log[n].chain, NoChain, l.chain}
            BY <2>2, <2>3, <2>4, <3>1
        <3>5. \A i \in 1..n : i # n => log'[i] = log[i]
            BY <2>4, <3>1
        <3>. QED
            BY <1>1, <2>1, <3>3, <3>4, <3>5
    <2>6. CASE others = <<Stray>>
        <3>1. log' = Append(s, Stray)
            BY <1>1, <2>4, <2>6, <2>7
        <3>2. Len(log') = n + 1 /\ log'[n + 1] = Stray /\ \A i \in 1..n : log'[i] = s[i]
            BY <1>1, <2>4, <3>1
        <3>. QED
            BY <1>1, <2>1, <2>2, <2>3, <2>4, <3>1, <3>2
    <2>. QED
        BY <2>5, <2>6
<1>4. CASE tail = "comment" /\ log' = log \o others
    <2>1. CASE others = <<>>
        BY <1>1, <1>4, <2>1
    <2>2. CASE others = <<Stray>>
        <3>1. log' = Append(log, Stray)
            BY <1>1, <1>4, <2>2
        <3>. QED
            BY <1>1, <3>1
    <2>. QED
        BY <2>1, <2>2
<1>. QED
    BY <1>2, <1>3, <1>4 DEF Put

\* What log_write() does to the log is to put some text there.
LEMMA WritePuts ==
    ASSUME Inv, NEW r \in Line, AppendWhole(r) \/ AppendPart(r)
    PROVE  \E l \in {FirstLine(r), Cut(r), Stray}, others \in {<<>>, <<Stray>>},
              e \in {"whole", "cut", "comment"} :
              Put(l, others, e) /\ (e = "cut" => tail # "comment" \/ others # <<>>)
<1>1. CASE AppendWhole(r)
    BY <1>1 DEF AppendWhole
<1>2. CASE AppendPart(r)
    BY <1>2 DEF AppendPart
<1>. QED
    BY <1>1, <1>2

LEMMA WriteInv ==
    ASSUME Inv, NEW r \in Line, AppendWhole(r) \/ AppendPart(r) \/ UNCHANGED <<log, tail>>
    PROVE  /\ log' \in Seq(Line) /\ tail' \in {"whole", "cut", "comment"}
           /\ tail' = "cut" => log' # <<>>
<1>1. CASE UNCHANGED <<log, tail>>
    BY <1>1 DEF Inv, TypeOK
<1>2. CASE AppendWhole(r) \/ AppendPart(r)
    <2>1. PICK l \in {FirstLine(r), Cut(r), Stray}, others \in {<<>>, <<Stray>>},
              e \in {"whole", "cut", "comment"} :
              Put(l, others, e) /\ (e = "cut" => tail # "comment" \/ others # <<>>)
        BY <1>2, WritePuts
    <2>2. l \in Line /\ tail' = e
        BY <2>1, FirstLineType, StrayType DEF Put
    <2>. QED
        BY <2>1, <2>2, PutLines
<1>. QED
    BY <1>1, <1>2

LEMMA NextInv == Inv /\ [Next]_vars => Inv'
<1>. SUFFICES ASSUME Inv, [Next]_vars PROVE Inv'
    OBVIOUS
<1>1. ASSUME NEW p \in Shells, Start(p) PROVE Inv'
    <2>1. PICK t \in {"audit", "verify"} : task' = [task EXCEPT ![p] = t]
        BY <1>1 DEF Start
    <2>2. task' \in [Shells -> {"audit", "verify"}] /\ starts' \in Nat
        BY <1>1, <2>1 DEF Start, Inv, TypeOK
    <2>3. sid' \in [Shells -> Nat]
        BY <1>1 DEF Start, Inv, TypeOK
    <2>4. "genesis" \in Labels
        BY DEF Labels
    <2>. QED
        BY <1>1, <2>2, <2>3, <2>4, MoveInv DEF Start, Inv, TypeOK, files
<1>2. ASSUME NEW p \in Shells, ReadGenesis(p) PROVE Inv'
    <2>1. "seeded" \in Labels /\ "create" \in Labels
        BY DEF Labels
    <2>2. seed' \in [Shells -> Genesis] /\ drawn' \in Nat
        BY <1>2 DEF ReadGenesis, Inv, TypeOK, Genesis
    <2>. QED
        BY <1>2, <2>1, <2>2, MoveInv DEF ReadGenesis, Inv, TypeOK, files
<1>3. ASSUME NEW p \in Shells, CreateGenesis(p) PROVE Inv'
    BY <1>3, MoveInv DEF CreateGenesis, Inv, TypeOK, Labels
<1>4. ASSUME NEW p \in Shells, WriteGenesis(p) PROVE Inv'
    BY <1>4, MoveInv DEF WriteGenesis, Inv, TypeOK, Labels
<1>5. ASSUME NEW p \in Shells, RereadGenesis(p) PROVE Inv'
    BY <1>5, MoveInv DEF RereadGenesis, Inv, TypeOK, Labels, files
<1>6. ASSUME NEW p \in Shells, Leave(p) PROVE Inv'
    <2>1. First(0) \in Chain /\ 0 \in Genesis
        BY FirstType DEF Genesis
    <2>. QED
        BY <1>6, <2>1, MoveInv DEF Leave, Inv, TypeOK, Labels, files
<1>7. ASSUME NEW p \in Shells, SeedChain(p) PROVE Inv'
    <2>1. SeedOf(seed[p]) \in Chain
        BY SeedOfType DEF Inv, TypeOK
    <2>. QED
        BY <1>7, <2>1, MoveInv DEF SeedChain, Inv, TypeOK, Labels, files
<1>8. ASSUME NEW p \in Shells, Mark(p) PROVE Inv'
    <2>1. CASE tail = "cut"
        <3>1. log \in Seq(Line) /\ log # <<>>
            BY <2>1 DEF Inv, TypeOK
        <3>. DEFINE n == Len(log)
                    l == [log[n] EXCEPT !.body = Garbled]
        <3>4. n \in 1..n /\ log[n] \in Line
            BY <3>1
        <3>2. l \in Line
            BY <3>4 DEF Line
        <3>5. log' = [log EXCEPT ![n] = l] \/ log' = log
            BY <1>8, <2>1 DEF Mark
        <3>. HIDE DEF l
        <3>3. log' \in Seq(Line) /\ log' # <<>>
            BY <3>1, <3>4, <3>2, <3>5
        <3>. QED
            BY <1>8, <3>3, LogInv DEF Mark, Inv, TypeOK
    <2>2. CASE tail # "cut"
        BY <1>8, <2>2, LogInv DEF Mark, Inv, TypeOK
    <2>. QED
        BY <2>1, <2>2
<1>9. ASSUME NEW p \in Shells, Run(p) PROVE Inv'
    <2>1. [by |-> sid[p], no |-> count[p] + 1] \in Body
        BY DEF Inv, TypeOK, Body
    <2>2. Extend(chain[p], [by |-> sid[p], no |-> count[p] + 1]) \in Chain
        BY <2>1, ExtendType DEF Inv, TypeOK
    <2>3. chain' \in [Shells -> Chain]
        BY <1>9, <2>2 DEF Run, Inv, TypeOK
    <2>4. count' \in [Shells -> Nat]
        BY <1>9 DEF Run, Inv, TypeOK
    <2>5. "log" \in Labels
        BY DEF Labels
    <2>6. spanning' \subseteq Body
        BY <1>9, <2>1 DEF Run, Inv, TypeOK
    <2>. QED
        BY <1>9, <2>3, <2>4, <2>5, <2>6, MoveInv DEF Run, Inv, TypeOK, files
<1>10. ASSUME NEW p \in Shells, LogWrite(p) PROVE Inv'
    <2>1. Record(p) \in Line
        BY RecordType
    <2>2. log' \in Seq(Line) /\ tail' \in {"whole", "cut", "comment"} /\ (tail' = "cut" => log' # <<>>)
        BY <1>10, <2>1, WriteInv DEF LogWrite
    <2>. QED
        BY <1>10, <2>2, LogInv DEF LogWrite
<1>11. CASE UNCHANGED vars
    BY <1>11 DEF Inv, TypeOK, vars, files, procVars
<1>. QED
    BY <1>1, <1>2, <1>3, <1>4, <1>5, <1>6, <1>7, <1>8, <1>9, <1>10, <1>11
    DEF Next, Step, Verify, End

\* The types, and where every session's chain comes from, at every step.
LEMMA InvHolds == Spec => []Inv
BY InitInv, NextInv, PTL DEF Spec

\* Every variable keeps its type: a malformed line is never taken for the
\* predecessor of a record (audit_init(), audit.c:350-415).
THEOREM TypesHold == Spec => []TypeOK
<1>1. Inv => TypeOK
    BY DEF Inv
<1>. QED
    BY InvHolds, <1>1, PTL

-------------------------------------------------------------------------------
(* Any processes: what the hashes of the log were computed for *)

Running(p) == pc[p] # "off"

\* The last body a chain was computed from is b.
EndsWith(c, b) == c.bodies # <<>> /\ c.bodies[Len(c.bodies)] = b

\* The body of the command before b in the same session.
Previous(b) == [b EXCEPT !.no = @ - 1]

\* A chain that ends with b was computed from that body just before.
Carries(c, b) ==
    b.no > 1 => Len(c.bodies) >= 2 /\ c.bodies[Len(c.bodies) - 1] = Previous(b)

\* Chain c is the hash of a line of the log; l is a line that is there whole.
Logged(c) == c # NoChain /\ \E i \in 1..Len(log) : log[i].chain = c
Whole(l) == l.body # Garbled /\ \E i \in 1..Len(log) : log[i] = l

\* What the chain of a session is about at each point of it.
Tells(p) ==
    /\ pc[p] \notin {"ready", "log"} => count[p] = 0
    /\ pc[p] = "ready" /\ count[p] > 0 => EndsWith(chain[p], Record(p).body)
    /\ pc[p] = "log" => /\ count[p] > 0
                        /\ EndsWith(chain[p], Record(p).body)
                        /\ Carries(chain[p], Record(p).body)

\* How the hash of command b of the session of p relates to p's memory.
Remembers(p, c, b) ==
    \/ /\ pc[p] = "ready" /\ b.no <= count[p]
       /\ b.no = count[p] => chain[p] = c
    \/ /\ pc[p] = "log" /\ b.no < count[p]
       /\ b.no + 1 = count[p] => chain[p] = Extend(c, Record(p).body)

\* No two sessions have the same number.
Sessions ==
    /\ \A p \in Shells : Running(p) => sid[p] \in 1..starts
    /\ \A p, q \in Shells : Running(p) /\ Running(q) /\ sid[p] = sid[q] => p = q
    /\ \A p \in Shells : Tells(p)

\* Every hash is that of some session's command, and every whole line has its own.
Hashes ==
    /\ \A c \in Chain : Logged(c) => \E b \in Body : EndsWith(c, b) /\ b.by \in 1..starts
    /\ \A l \in Line : Whole(l) => /\ Logged(l.chain) /\ l.body \notin spanning
                                   /\ EndsWith(l.chain, l.body) /\ Carries(l.chain, l.body)

Remembered ==
    \A p \in Shells, c \in Chain, b \in Body :
        Running(p) /\ Logged(c) /\ EndsWith(c, b) /\ b.by = sid[p] => Remembers(p, c, b)

\* The seams, wherever the two lines are.
Seams ==
    \A c \in Chain, l \in Line :
        Logged(c) /\ Whole(l) /\ EndsWith(c, Previous(l.body)) => l.chain = Extend(c, l.body)

ChainInv == Sessions /\ Hashes /\ Remembered /\ Seams

LEMMA InitChain == Init => ChainInv
BY DEF Init, ChainInv, Sessions, Hashes, Remembered, Seams, Running, Logged, Whole, Tells

LEMMA ExtendEnds ==
    ASSUME NEW c \in Chain, NEW b \in Body
    PROVE  /\ EndsWith(Extend(c, b), b)
           /\ \A a : EndsWith(c, a) =>
                 /\ Len(Extend(c, b).bodies) >= 2
                 /\ Extend(c, b).bodies[Len(Extend(c, b).bodies) - 1] = a
<1>1. c.bodies \in Seq(Body) /\ Extend(c, b).bodies = Append(c.bodies, b)
    BY DEF Chain, Extend
<1>. DEFINE s == c.bodies
            n == Len(s)
<1>2. n \in Nat /\ Len(Append(s, b)) = n + 1 /\ Append(s, b)[n + 1] = b
      /\ Append(s, b) # <<>> /\ \A i \in 1..n : Append(s, b)[i] = s[i]
    BY <1>1
<1>3. EndsWith(Extend(c, b), b)
    BY <1>1, <1>2 DEF EndsWith
<1>4. ASSUME NEW a, EndsWith(c, a)
      PROVE  Len(Append(s, b)) >= 2 /\ Append(s, b)[Len(Append(s, b)) - 1] = a
    <2>1. n >= 1 /\ s[n] = a
        BY <1>1, <1>4 DEF EndsWith
    <2>2. n \in 1..n /\ Len(Append(s, b)) - 1 = n
        BY <1>2, <2>1
    <2>. QED
        BY <1>2, <2>1, <2>2
<1>. QED
    BY <1>1, <1>3, <1>4

LEMMA PreviousIs ==
    ASSUME NEW b \in Body
    PROVE  Previous(b) = [by |-> b.by, no |-> b.no - 1]
<1>1. PICK by \in Nat, no \in Nat : b = [by |-> by, no |-> no]
    BY DEF Body
<1>. QED
    BY <1>1 DEF Previous

LEMMA EndType ==
    ASSUME NEW c \in Chain, NEW b, EndsWith(c, b)
    PROVE  b \in Body
<1>1. c.bodies \in Seq(Body) /\ c.bodies # <<>>
    BY DEF Chain, EndsWith
<1>2. Len(c.bodies) \in 1..Len(c.bodies)
    BY <1>1
<1>. QED
    BY <1>1, <1>2 DEF EndsWith

LEMMA WholeType ==
    ASSUME Inv, NEW l \in Line, Whole(l)
    PROVE  l.body \in Body
BY DEF Whole, Line

\* What a process is, for the others.
Same(q) == pc'[q] = pc[q] /\ sid'[q] = sid[q] /\ count'[q] = count[q] /\ chain'[q] = chain[q]

LEMMA SameKeeps ==
    ASSUME NEW q \in Shells, Same(q)
    PROVE  /\ Running(q)' = Running(q) /\ Tells(q)' = Tells(q)
           /\ \A c, b : Remembers(q, c, b)' = Remembers(q, c, b)
BY DEF Same, Running, Tells, Remembers, Record, EndsWith, Carries, Previous, Extend

\* A step of p that leaves the log alone, and either starts a session, ends
\* one, or leaves what p has in memory of its records.
LEMMA MoveChain ==
    ASSUME Inv, ChainInv, NEW p \in Shells, log' = log, starts' \in Nat, starts' >= starts,
           \A l \in Line : Whole(l) => l.body \notin spanning',
           \A q \in Shells : q # p => Same(q), Tells(p)',
           Running(p)' => \/ sid'[p] = starts + 1 /\ starts' = starts + 1
                          \/ /\ Running(p) /\ sid'[p] = sid[p]
                             /\ \A c \in Chain, b \in Body :
                                   Logged(c) /\ EndsWith(c, b) /\ b.by = sid[p]
                                   => Remembers(p, c, b)'
    PROVE  ChainInv'
<1>0. starts \in Nat /\ Sessions /\ Hashes /\ Remembered /\ Seams
    BY DEF Inv, TypeOK, ChainInv
<1>1. \A c : Logged(c)' = Logged(c) /\ Whole(c)' = Whole(c)
    BY DEF Logged, Whole
<1>2. \A q \in Shells : q # p => Running(q)' = Running(q) /\ sid'[q] = sid[q]
    BY SameKeeps DEF Same
<1>3. Sessions'
    <2>1. \A q \in Shells : Running(q)' => sid'[q] \in 1..starts'
        BY <1>0, <1>2 DEF Sessions
    <2>2. \A q, r \in Shells : Running(q)' /\ Running(r)' /\ sid'[q] = sid'[r] => q = r
        BY <1>0, <1>2 DEF Sessions
    <2>3. \A q \in Shells : Tells(q)'
        BY <1>0, SameKeeps DEF Sessions
    <2>. QED
        BY <2>1, <2>2, <2>3 DEF Sessions
<1>4. Hashes'
    <2>1. \A c \in Chain : Logged(c) => \E b \in Body : EndsWith(c, b) /\ b.by \in 1..starts'
        BY <1>0 DEF Hashes
    <2>. QED
        BY <1>0, <1>1, <2>1 DEF Hashes, EndsWith, Carries, Previous
<1>5. ASSUME NEW q \in Shells, NEW c \in Chain, NEW b \in Body,
             Running(q)', Logged(c), EndsWith(c, b), b.by = sid'[q]
      PROVE  Remembers(q, c, b)'
    <2>1. CASE q = p
        <3>1. PICK a \in Body : EndsWith(c, a) /\ a.by \in 1..starts
            BY <1>0, <1>5 DEF Hashes
        <3>2. b = a
            BY <1>5, <3>1 DEF EndsWith
        <3>3. sid'[p] # starts + 1
            BY <1>0, <1>5, <2>1, <3>1, <3>2
        <3>. QED
            BY <1>5, <2>1, <3>3
    <2>2. CASE q # p
        <3>1. Remembers(q, c, b)
            BY <1>0, <1>2, <1>5, <2>2 DEF Remembered
        <3>. QED
            BY <3>1, <2>2, SameKeeps
    <2>. QED
        BY <2>1, <2>2
<1>6. Remembered'
    BY <1>1, <1>5 DEF Remembered, EndsWith
<1>7. Seams'
    BY <1>0, <1>1 DEF Seams, EndsWith, Previous, Extend
<1>. QED
    BY <1>3, <1>4, <1>6, <1>7 DEF ChainInv

\* The lines after a step that may have written record r.
Kept(r) ==
    /\ \A c \in Chain : Logged(c)' => Logged(c) \/ c = r.chain
    /\ \A l \in Line : Whole(l)' => \/ Whole(l)
                                    \/ l = r /\ r.body \notin spanning

LEMMA WriteKept ==
    ASSUME Inv, NEW r \in Line,
           AppendWhole(r) \/ AppendPart(r) \/ UNCHANGED <<log, tail>>
    PROVE  Kept(r)
<1>1. CASE UNCHANGED <<log, tail>>
    BY <1>1 DEF Kept, Logged, Whole
<1>2. CASE AppendWhole(r) \/ AppendPart(r)
    <2>1. PICK l \in {FirstLine(r), Cut(r), Stray}, others \in {<<>>, <<Stray>>},
              e \in {"whole", "cut", "comment"} : Put(l, others, e)
        BY <1>2, WritePuts
    <2>2. l \in Line /\ l.chain \in {r.chain, NoChain}
          /\ (l.body # Garbled => l = r /\ r.body \notin spanning)
        BY <2>1, FirstLineType, StrayType DEF Stray, FirstLine
    <2>3. \A i \in 1..Len(log') :
             \/ i \in 1..Len(log) /\ log'[i] = log[i]
             \/ /\ i \in 1..Len(log) /\ log'[i].body = Garbled
                /\ log'[i].chain \in {log[i].chain, NoChain, l.chain}
             \/ i = Len(log) + 1 /\ log'[i] = l
             \/ log'[i] = Stray
        BY <2>1, <2>2, PutLines
    <2>4. Stray.body = Garbled /\ Stray.chain = NoChain
        BY DEF Stray
    <2>5. ASSUME NEW c \in Chain, Logged(c)' PROVE Logged(c) \/ c = r.chain
        <3>1. PICK i \in 1..Len(log') : log'[i].chain = c /\ c # NoChain
            BY <2>5 DEF Logged
        <3>. QED
            BY <2>2, <2>3, <2>4, <3>1 DEF Logged
    <2>6. ASSUME NEW k \in Line, Whole(k)'
          PROVE  Whole(k) \/ (k = r /\ r.body \notin spanning)
        <3>1. PICK i \in 1..Len(log') : log'[i] = k /\ k.body # Garbled
            BY <2>6 DEF Whole
        <3>. QED
            BY <2>2, <2>3, <2>4, <3>1 DEF Whole
    <2>. QED
        BY <2>5, <2>6 DEF Kept
<1>. QED
    BY <1>1, <1>2

LEMMA LogWriteChain ==
    ASSUME Inv, ChainInv, NEW p \in Shells, LogWrite(p)
    PROVE  ChainInv'
<1>. DEFINE r == Record(p)
<1>0. starts \in Nat /\ Sessions /\ Hashes /\ Remembered /\ Seams
    BY DEF Inv, TypeOK, ChainInv
<1>1. pc[p] = "log" /\ pc'[p] = "ready" /\ UNCHANGED <<starts, sid, chain, count, spanning>>
      /\ \A q \in Shells : q # p => pc'[q] = pc[q]
    BY DEF LogWrite, At, Goto, Inv, TypeOK
<1>2. r \in Line /\ r.chain = chain[p] /\ r.body \in Body /\ r.chain \in Chain
      /\ r.body.by = sid[p] /\ r.body.no = count[p] /\ r' = r /\ count[p] \in Nat
    BY <1>1, RecordType DEF Record, Inv, TypeOK, Body
<1>3. count[p] > 0 /\ EndsWith(r.chain, r.body) /\ Carries(r.chain, r.body)
    BY <1>0, <1>1, <1>2 DEF Sessions, Tells
<1>4. Kept(r)
    BY <1>2, WriteKept DEF LogWrite
<1>5. Running(p) /\ \A q \in Shells : q # p => Same(q)
    BY <1>1 DEF Running, Same
<1>6. \A c \in Chain, b \in Body : Logged(c) /\ EndsWith(c, b) /\ b.by = sid[p] =>
          b.no < count[p] /\ (b.no + 1 = count[p] => r.chain = Extend(c, r.body))
    BY <1>0, <1>1, <1>2, <1>5 DEF Remembered, Remembers
<1>7. sid[p] \in 1..starts /\ \A q \in Shells : Running(q) /\ sid[q] = sid[p] => q = p
    BY <1>0, <1>5 DEF Sessions
<1>8. Sessions'
    <2>1. \A q \in Shells : Running(q)' = Running(q)
        BY <1>1 DEF Running
    <2>2. Tells(p)'
        BY <1>1, <1>2, <1>3 DEF Tells, EndsWith
    <2>3. \A q \in Shells : Tells(q)'
        BY <1>0, <1>5, <2>2, SameKeeps DEF Sessions
    <2>. QED
        BY <1>0, <1>1, <2>1, <2>3 DEF Sessions
<1>9. Hashes'
    <2>1. ASSUME NEW c \in Chain, Logged(c)'
          PROVE  \E b \in Body : EndsWith(c, b) /\ b.by \in 1..starts
        BY <1>0, <1>2, <1>3, <1>4, <1>7, <2>1 DEF Kept, Hashes
    <2>2. ASSUME NEW l \in Line, Whole(l)'
          PROVE  /\ Logged(l.chain)' /\ l.body \notin spanning
                 /\ EndsWith(l.chain, l.body) /\ Carries(l.chain, l.body)
        <3>1. EndsWith(l.chain, l.body) /\ Carries(l.chain, l.body)
              /\ l.body \notin spanning /\ l.chain # NoChain
            <4>1. CASE Whole(l)
                BY <1>0, <4>1 DEF Hashes, Logged
            <4>2. CASE l = r /\ r.body \notin spanning
                BY <1>2, <1>3, <4>2, AuditAssumption
            <4>. QED
                BY <1>4, <2>2, <4>1, <4>2 DEF Kept
        <3>. QED
            BY <2>2, <3>1 DEF Whole, Logged
    <2>. QED
        BY <1>1, <2>1, <2>2 DEF Hashes, EndsWith, Carries, Previous
<1>10. ASSUME NEW q \in Shells, NEW c \in Chain, NEW b \in Body,
              Running(q)', Logged(c)', EndsWith(c, b), b.by = sid[q]
       PROVE  Remembers(q, c, b)'
    <2>1. CASE q = p /\ Logged(c)
        <3>1. b.no < count[p] /\ b.no \in Nat
            BY <1>6, <1>10, <2>1 DEF Body
        <3>. QED
            BY <1>1, <1>2, <2>1, <3>1 DEF Remembers
    <2>2. CASE q = p /\ c = r.chain
        <3>1. b = r.body
            BY <1>3, <1>10, <2>2 DEF EndsWith
        <3>. QED
            BY <1>1, <1>2, <2>2, <3>1 DEF Remembers
    <2>3. CASE q # p /\ Logged(c)
        <3>1. Running(q) /\ Remembers(q, c, b)
            BY <1>0, <1>5, <1>10, <2>3, SameKeeps DEF Remembered
        <3>. QED
            BY <1>5, <2>3, <3>1, SameKeeps
    <2>4. CASE q # p /\ c = r.chain
        <3>1. b = r.body
            BY <1>3, <1>10, <2>4 DEF EndsWith
        <3>2. Running(q)
            BY <1>5, <1>10, <2>4, SameKeeps
        <3>. QED
            BY <1>2, <1>7, <1>10, <2>4, <3>1, <3>2
    <2>. QED
        BY <1>4, <1>10, <2>1, <2>2, <2>3, <2>4 DEF Kept
<1>11. Remembered'
    BY <1>1, <1>10 DEF Remembered, EndsWith
<1>12. ASSUME NEW c \in Chain, NEW l \in Line, Logged(c)', Whole(l)',
              EndsWith(c, Previous(l.body))
       PROVE  l.chain = Extend(c, l.body)
    <2>1. CASE Logged(c) /\ Whole(l)
        BY <1>0, <1>12, <2>1 DEF Seams
    <2>2. CASE Logged(c) /\ l = r
        <3>. DEFINE b == Previous(r.body)
        <3>1. b \in Body
            BY <1>12, <2>2, EndType
        <3>2. b.by = sid[p] /\ b.no + 1 = count[p]
            BY <1>2 DEF Previous, Body
        <3>. QED
            BY <1>6, <1>12, <2>2, <3>1, <3>2
    <2>3. CASE c = r.chain /\ Whole(l)
        <3>1. Previous(l.body) = r.body /\ l.body \in Body
            BY <1>3, <1>12, <2>3, WholeType DEF EndsWith
        <3>2. l.body.by = sid[p] /\ l.body.no - 1 = count[p] /\ l.body.no \in Nat
            BY <1>2, <3>1 DEF Previous, Body
        <3>3. Logged(l.chain) /\ EndsWith(l.chain, l.body)
            BY <1>0, <2>3 DEF Hashes
        <3>4. l.chain \in Chain
            BY <3>3 DEF Logged, Line
        <3>5. l.body.no < count[p]
            BY <1>6, <3>1, <3>2, <3>3, <3>4
        <3>. QED
            BY <1>2, <3>2, <3>5
    <2>4. CASE c = r.chain /\ l = r
        <3>1. Previous(r.body) = r.body
            BY <1>3, <1>12, <2>4 DEF EndsWith
        <3>. QED
            BY <1>2, <3>1 DEF Previous, Body
    <2>. QED
        BY <1>4, <1>12, <2>1, <2>2, <2>3, <2>4 DEF Kept
<1>13. Seams'
    BY <1>12 DEF Seams, EndsWith, Previous, Extend
<1>. QED
    BY <1>8, <1>9, <1>11, <1>13 DEF ChainInv

\* SESSION_START adds no hash and no record, and its session has none yet.
LEMMA MarkKept ==
    ASSUME Inv, NEW p \in Shells, Mark(p)
    PROVE  /\ \A c \in Chain : Logged(c)' => Logged(c)
           /\ \A l \in Line : Whole(l)' => Whole(l)
<1>1. CASE log' = log
    BY <1>1 DEF Logged, Whole
<1>2. CASE tail = "cut" /\ log' = [log EXCEPT ![Len(log)].body = Garbled]
    <2>. DEFINE n == Len(log)
                l == [log[n] EXCEPT !.body = Garbled]
    <2>1. n \in 1..n /\ log \in Seq(Line) /\ log[n] \in Line
        BY <1>2 DEF Inv, TypeOK
    <2>2. l.body = Garbled /\ l.chain = log[n].chain /\ l \in Line
        BY <2>1 DEF Line
    <2>3. log' = [log EXCEPT ![n] = l]
        BY <1>2
    <2>. HIDE DEF l
    <2>4. Len(log') = n /\ log'[n] = l /\ \A i \in 1..n : i # n => log'[i] = log[i]
        BY <2>1, <2>2, <2>3
    <2>. QED
        BY <2>1, <2>2, <2>4 DEF Logged, Whole
<1>. QED
    BY <1>1, <1>2 DEF Mark

LEMMA MarkChain ==
    ASSUME Inv, ChainInv, NEW p \in Shells, Mark(p)
    PROVE  ChainInv'
<1>0. Sessions /\ Hashes /\ Remembered /\ Seams
    BY DEF ChainInv
<1>1. pc[p] = "mark" /\ pc'[p] = "ready" /\ UNCHANGED <<starts, sid, chain, count, spanning>>
      /\ \A q \in Shells : q # p => pc'[q] = pc[q]
    BY DEF Mark, At, Goto, Inv, TypeOK
<1>2. Running(p) /\ count[p] = 0 /\ \A q \in Shells : q # p => Same(q)
    BY <1>0, <1>1 DEF Running, Same, Sessions, Tells
<1>3. \A c \in Chain, b \in Body : Logged(c) /\ EndsWith(c, b) => b.by # sid[p]
    BY <1>0, <1>1, <1>2 DEF Remembered, Remembers
<1>4. Sessions'
    <2>1. \A q \in Shells : Running(q)' = Running(q)
        BY <1>1 DEF Running
    <2>2. Tells(p)'
        BY <1>1, <1>2 DEF Tells
    <2>. QED
        BY <1>0, <1>1, <1>2, <2>1, <2>2, SameKeeps DEF Sessions
<1>5. Hashes'
    <2>1. ASSUME NEW l \in Line, Whole(l)' PROVE Logged(l.chain)'
        <3>1. l.chain # NoChain
            BY <1>0, <2>1, MarkKept DEF Hashes, Logged
        <3>. QED
            BY <2>1, <3>1 DEF Whole, Logged
    <2>. QED
        BY <1>0, <1>1, <2>1, MarkKept DEF Hashes, EndsWith, Carries, Previous
<1>6. ASSUME NEW q \in Shells, NEW c \in Chain, NEW b \in Body,
             Running(q)', Logged(c), EndsWith(c, b), b.by = sid[q]
      PROVE  Remembers(q, c, b)'
    <2>1. q # p
        BY <1>3, <1>6
    <2>2. Running(q) /\ Remembers(q, c, b)
        BY <1>0, <1>2, <1>6, <2>1, SameKeeps DEF Remembered
    <2>. QED
        BY <1>2, <2>1, <2>2, SameKeeps
<1>7. Remembered'
    BY <1>1, <1>6, MarkKept DEF Remembered, EndsWith
<1>8. Seams'
    BY <1>0, MarkKept DEF Seams, EndsWith, Previous, Extend
<1>. QED
    BY <1>4, <1>5, <1>7, <1>8 DEF ChainInv

LEMMA RunChain ==
    ASSUME Inv, ChainInv, NEW p \in Shells, Run(p)
    PROVE  ChainInv'
<1>. DEFINE b == [by |-> sid[p], no |-> count[p] + 1]
<1>0. starts \in Nat /\ Sessions /\ Hashes /\ Remembered
    BY DEF ChainInv, Inv, TypeOK
<1>1. log' = log /\ starts' = starts /\ sid' = sid /\ Running(p) /\ pc[p] = "ready"
      /\ pc'[p] = "log" /\ \A q \in Shells : q # p => Same(q)
    BY DEF Run, At, Goto, Running, Same, files, Inv, TypeOK
<1>2. count'[p] = count[p] + 1 /\ chain'[p] = Extend(chain[p], b)
      /\ count[p] \in Nat /\ sid[p] \in Nat /\ chain[p] \in Chain
      /\ spanning' \subseteq spanning \cup {b}
    BY DEF Run, Inv, TypeOK
<1>3. b \in Body /\ b.by = sid[p] /\ b.no = count[p] + 1
    BY <1>2 DEF Body
<1>4. Record(p)'.body = b
    BY <1>1, <1>2 DEF Record
<1>10. count[p] > 0 => Record(p).body = Previous(b)
    BY <1>2 DEF Record, Previous
<1>. HIDE DEF b
<1>5. EndsWith(Extend(chain[p], b), b)
    BY <1>2, <1>3, ExtendEnds
<1>6. Carries(Extend(chain[p], b), b)
    <2>. SUFFICES ASSUME b.no > 1
                  PROVE  /\ Len(Extend(chain[p], b).bodies) >= 2
                         /\ Extend(chain[p], b).bodies[Len(Extend(chain[p], b).bodies) - 1]
                               = Previous(b)
        BY DEF Carries
    <2>1. EndsWith(chain[p], Previous(b))
        BY <1>0, <1>1, <1>2, <1>3, <1>10 DEF Sessions, Tells
    <2>. QED
        BY <1>2, <1>3, <2>1, ExtendEnds
<1>7. Tells(p)'
    BY <1>1, <1>2, <1>4, <1>5, <1>6 DEF Tells, EndsWith, Carries, Previous
<1>8. \A c \in Chain, a \in Body : Logged(c) /\ EndsWith(c, a) /\ a.by = sid[p] =>
          a.no <= count[p] /\ (a.no = count[p] => chain[p] = c)
    BY <1>0, <1>1 DEF Remembered, Remembers
<1>9. ASSUME NEW l \in Line, Whole(l) PROVE l.body \notin spanning'
    <2>1. l.body \notin spanning /\ Logged(l.chain) /\ EndsWith(l.chain, l.body)
        BY <1>0, <1>9 DEF Hashes
    <2>2. l.chain \in Chain
        BY <2>1 DEF Logged, Line
    <2>3. l.body # b
        BY <1>2, <1>3, <1>8, <2>1, <2>2
    <2>. QED
        BY <1>2, <2>1, <2>3
<1>11. ASSUME NEW c \in Chain, NEW a \in Body, Logged(c), EndsWith(c, a), a.by = sid[p]
       PROVE  Remembers(p, c, a)'
    <2>1. a.no \in Nat /\ a.no <= count[p] /\ (a.no = count[p] => chain[p] = c)
        BY <1>8, <1>11 DEF Body
    <2>2. a.no < count'[p] /\ (a.no + 1 = count'[p] => chain'[p] = Extend(c, b))
        BY <1>2, <2>1
    <2>. QED
        BY <1>1, <1>4, <2>2 DEF Remembers, Extend
<1>. QED
    BY <1>0, <1>1, <1>7, <1>9, <1>11, MoveChain

LEMMA NextChain == Inv /\ ChainInv /\ [Next]_vars => ChainInv'
<1>. SUFFICES ASSUME Inv, ChainInv, [Next]_vars PROVE ChainInv'
    OBVIOUS
<1>0. starts \in Nat /\ Sessions /\ Remembered
      /\ \A l \in Line : Whole(l) => l.body \notin spanning
    BY DEF Inv, TypeOK, ChainInv, Hashes
<1>1. ASSUME NEW p \in Shells, Start(p) PROVE ChainInv'
    <2>1. log' = log /\ starts' = starts + 1 /\ sid'[p] = starts + 1 /\ spanning' = spanning
          /\ pc[p] = "off" /\ pc'[p] = "genesis" /\ count' = count
          /\ \A q \in Shells : q # p => Same(q)
        BY <1>1 DEF Start, At, Goto, Same, files, Inv, TypeOK
    <2>2. Tells(p)'
        BY <1>0, <2>1 DEF Sessions, Tells
    <2>. QED
        BY <1>0, <2>1, <2>2, MoveChain
<1>2. ASSUME NEW p \in Shells,
             \/ ReadGenesis(p) \/ CreateGenesis(p) \/ WriteGenesis(p) \/ RereadGenesis(p)
             \/ SeedChain(p)
      PROVE  ChainInv'
    <2>1. log' = log /\ starts' = starts /\ sid' = sid /\ spanning' = spanning /\ Running(p)
          /\ count' = count /\ \A q \in Shells : q # p => Same(q)
        BY <1>2
        DEF ReadGenesis, CreateGenesis, WriteGenesis, RereadGenesis, SeedChain, At, Goto,
            Running, Same, files, Inv, TypeOK
    <2>2. pc[p] \notin {"ready", "log"} /\ pc'[p] \notin {"ready", "log"}
        BY <1>2
        DEF ReadGenesis, CreateGenesis, WriteGenesis, RereadGenesis, SeedChain, At, Goto,
            Inv, TypeOK
    <2>3. \A c \in Chain, b \in Body : Logged(c) /\ EndsWith(c, b) => b.by # sid[p]
        BY <1>0, <2>1, <2>2 DEF Remembered, Remembers
    <2>4. Tells(p)'
        BY <1>0, <2>1, <2>2 DEF Sessions, Tells
    <2>. QED
        BY <1>0, <2>1, <2>3, <2>4, MoveChain
<1>3. ASSUME NEW p \in Shells, Leave(p) PROVE ChainInv'
    <2>1. log' = log /\ starts' = starts /\ spanning' = spanning /\ pc'[p] = "off"
          /\ count'[p] = 0 /\ \A q \in Shells : q # p => Same(q)
        BY <1>3 DEF Leave, Goto, Same, files, Inv, TypeOK
    <2>2. ~Running(p)' /\ Tells(p)'
        BY <2>1 DEF Running, Tells
    <2>. QED
        BY <1>0, <2>1, <2>2, MoveChain
<1>4. CASE UNCHANGED vars
    <2>1. UNCHANGED <<log, spanning, starts, pc, sid, count, chain>>
        BY <1>4 DEF vars, files, procVars
    <2>2. \A q \in Shells : Same(q)
        BY <2>1 DEF Same
    <2>3. \A x : Logged(x)' = Logged(x) /\ Whole(x)' = Whole(x)
        BY <2>1 DEF Logged, Whole
    <2>4. Sessions'
        BY <2>1, <2>2, SameKeeps DEF ChainInv, Sessions
    <2>5. Hashes'
        BY <2>1, <2>3 DEF ChainInv, Hashes, EndsWith, Carries, Previous
    <2>6. Remembered'
        BY <2>1, <2>2, <2>3, SameKeeps DEF ChainInv, Remembered, EndsWith
    <2>7. Seams'
        BY <2>1, <2>3 DEF ChainInv, Seams, EndsWith, Previous, Extend
    <2>. QED
        BY <2>4, <2>5, <2>6, <2>7 DEF ChainInv
<1>. QED
    BY <1>1, <1>2, <1>3, <1>4, MarkChain, RunChain, LogWriteChain DEF Next, Step, Verify, End

LEMMA ChainHolds == Spec => []ChainInv
BY InitChain, NextChain, InvHolds, PTL DEF Spec

-------------------------------------------------------------------------------
(* Any processes: the chain only breaks at a seam, and what verifies has no gap *)

LEMMA SeamsBreak == Inv /\ ChainInv => BreaksOnlyAtSeams
<1>. SUFFICES ASSUME Inv, ChainInv, NEW i \in 2..Len(log), NEW j \in 1..(i - 1),
                     log[i].body # Garbled,
                     HashFor(log[j], Previous(log[i].body)),
                     \A k \in (j + 1)..(i - 1) : ~WellFormed(log[k])
              PROVE  LineVerifies(i, 0)
    BY DEF BreaksOnlyAtSeams, Previous
<1>1. log \in Seq(Line) /\ Len(log) \in Nat /\ i \in 1..Len(log) /\ j \in 1..Len(log)
      /\ i - 1 \in 0..Len(log)
    BY DEF Inv, TypeOK
<1>2. log[i] \in Line /\ log[j] \in Line
    BY <1>1
<1>3. Whole(log[i])
    BY <1>1 DEF Whole
<1>4. Logged(log[j].chain) /\ EndsWith(log[j].chain, Previous(log[i].body))
      /\ WellFormed(log[j])
    BY <1>1 DEF HashFor, WellFormed, Logged, EndsWith
<1>5. log[j].chain \in Chain
    BY <1>2, <1>4 DEF Line, WellFormed
<1>6. log[i].chain = Extend(log[j].chain, log[i].body)
    BY <1>2, <1>3, <1>4, <1>5 DEF ChainInv, Seams
<1>7. WellFormed(log[i])
    BY <1>2, <1>3 DEF ChainInv, Hashes, Logged, WellFormed
<1>8. Before(i, 0) = log[j].chain
    BY <1>1, <1>4, LastHashFound DEF Before
<1>. QED
    BY <1>6, <1>7, <1>8 DEF LineVerifies

\* Whoever writes to the log at the same time, whatever is lost or cut and
\* whatever spans lines, a record that is there whole verifies if the hash
\* before it is that of the command before it in its session (chain_advance()
\* and audit_log_command(), audit.c:306-612; audit_verify_log(), :653-769).
THEOREM ChainBreaksOnlyAtSeams == Spec => []BreaksOnlyAtSeams
BY ChainHolds, InvHolds, SeamsBreak, PTL

\* In a log that verifies the hash of a line was computed from the line before it.
LEMMA AcceptedCarries ==
    ASSUME Inv, ChainInv, NEW g \in Genesis, Accepts(g), NEW i \in DOMAIN log,
           log[i].body.no > 1
    PROVE  Follows(log[i].body, i)
<1>1. log \in Seq(Line) /\ i \in 1..Len(log) /\ Len(log) \in Nat /\ i - 1 \in 0..Len(log)
    BY DEF Inv, TypeOK
<1>2. \A j \in 1..Len(log) : log[j] \in Line /\ LineVerifies(j, g)
    BY <1>1 DEF Accepts
<1>3. \A j \in 1..Len(log) : /\ WellFormed(log[j]) /\ Whole(log[j])
                             /\ log[j].body \in Body /\ log[j].chain \in Chain
    BY <1>2 DEF Line, LineVerifies, WellFormed, Whole
<1>4. log[i].chain = Extend(Before(i, g), log[i].body)
    BY <1>1, <1>2 DEF LineVerifies
<1>5. Carries(log[i].chain, log[i].body)
    BY <1>1, <1>2, <1>3 DEF ChainInv, Hashes
<1>6. CASE i = 1
    <2>1. Before(i, g) = First(g)
        BY <1>6 DEF Before, LastHash
    <2>2. log[i].chain.bodies = Append(<<>>, log[i].body)
        BY <1>4, <2>1 DEF First, Extend
    <2>3. Len(log[i].chain.bodies) = 1
        BY <2>2
    <2>. QED
        BY <1>5, <2>3 DEF Carries
<1>7. CASE i # 1
    <2>1. i - 1 \in 1..Len(log) /\ i - 1 \in 1..(i - 1)
        BY <1>1, <1>7
    <2>2. \A k \in ((i - 1) + 1)..(i - 1) : ~WellFormed(log[k])
        BY <1>1
    <2>3. Before(i, g) = log[i - 1].chain
        BY <1>1, <1>3, <2>1, <2>2, LastHashFound DEF Before
    <2>4. EndsWith(log[i - 1].chain, log[i - 1].body)
        BY <1>2, <1>3, <2>1 DEF ChainInv, Hashes
    <2>5. log[i].chain.bodies[Len(log[i].chain.bodies) - 1] = log[i - 1].body
        BY <1>1, <1>3, <1>4, <2>1, <2>3, <2>4, ExtendEnds
    <2>8. log[i].chain.bodies[Len(log[i].chain.bodies) - 1] = Previous(log[i].body)
        BY <1>5 DEF Carries
    <2>6. log[i - 1].body = Previous(log[i].body)
        BY <2>5, <2>8
    <2>7. Previous(log[i].body) = [by |-> log[i].body.by, no |-> log[i].body.no - 1]
        BY <1>1, <1>3, PreviousIs
    <2>. QED
        BY <2>1, <2>6, <2>7 DEF Follows
<1>. QED
    BY <1>6, <1>7

LEMMA CarriesNoGap == Inv /\ ChainInv => AcceptedHasNoGap
BY AcceptedCarries DEF AcceptedHasNoGap

\* A log that verifies has no hole, for any number of processes that wrote it side
\* by side, failed to write or were killed: before each record of a session is
\* that of the command before it (audit_log_command() and audit_verify_log(),
\* audit.c:561-786).
THEOREM AcceptedLogsHaveNoGap == Spec => []AcceptedHasNoGap
BY ChainHolds, InvHolds, CarriesNoGap, PTL

-------------------------------------------------------------------------------
(* One process at a time: the log verifies unless a command spans lines *)

\* The line was written for a command that spans lines.
Spans(l) == \E b \in spanning : HashFor(l, b)

\* A line that verifies, or the first of a command that spans lines, or one
\* without a hash right behind such a line.
Linked(g) ==
    \A i \in 1..Len(log) : \/ LineVerifies(i, g)
                           \/ Spans(log[i])
                           \/ ~WellFormed(log[i]) /\ i > 1 /\ Spans(log[i - 1])

Sound ==
    /\ tail = "whole"
    /\ gfile \in Genesis => Linked(gfile)
    /\ gfile = NoFile => log = <<>>

Sole == \A p, q \in Shells : pc[p] # "off" /\ pc[q] # "off" => p = q

\* What a process relies on at each point of its session.
Relies(p) ==
    /\ pc[p] = "create" => gfile \notin Genesis
    /\ pc[p] = "write" => gfile = Blank /\ log = <<>>
    /\ pc[p] = "reread" => gfile = Blank
    /\ pc[p] \in {"seeded", "mark", "ready", "log"} =>
          gfile # NoFile /\ (gfile \in Genesis => seed[p] = gfile)
    /\ gfile \in Genesis =>
          /\ pc[p] \in {"mark", "ready"} => chain[p] = SeedOf(gfile)
          /\ pc[p] = "log" => chain[p] = Extend(SeedOf(gfile), Record(p).body)

AloneInv == world = "alone" => Sound /\ Sole /\ \A p \in Shells : Relies(p)

LEMMA InitAlone == Init => AloneInv
BY AuditAssumption DEF Init, AloneInv, Sound, Sole, Relies

\* The other processes are not running, and a step of p starts none.
LEMMA OthersOff ==
    ASSUME Inv, AloneInv, world = "alone", NEW p \in Shells, Step(p), pc[p] # "off",
           NEW q \in Shells, q # p
    PROVE  pc'[q] = "off"
<1>1. pc[q] = "off"
    BY DEF AloneInv, Sole
<1>2. pc' = [pc EXCEPT ![p] = pc'[p]]
    BY DEF Step, Start, ReadGenesis, CreateGenesis, WriteGenesis, RereadGenesis, Verify,
           SeedChain, Mark, Run, LogWrite, End, Leave, Goto, Inv, TypeOK
<1>. QED
    BY <1>1, <1>2 DEF Inv, TypeOK

\* So a step of p keeps the invariant if the log stays sound and p can go on.
LEMMA FrameAlone ==
    ASSUME Inv, AloneInv, world = "alone", NEW p \in Shells, Step(p), pc[p] # "off",
           Sound', Relies(p)'
    PROVE  AloneInv'
<1>1. \A q \in Shells : q # p => pc'[q] = "off"
    BY OthersOff
<1>2. Sole'
    BY <1>1 DEF Sole
<1>3. \A q \in Shells : Relies(q)'
    BY <1>1 DEF Relies
<1>. QED
    BY <1>2, <1>3 DEF AloneInv

\* A log that is not written to stays linked, whatever command is next.
LEMMA StaysLinked ==
    ASSUME log' = log, spanning \subseteq spanning', NEW g, Linked(g)
    PROVE  Linked(g)'
<1>1. \A l : Spans(l) => Spans(l)'
    BY DEF Spans, HashFor, WellFormed
<1>2. \A i : LineVerifies(i, g)' = LineVerifies(i, g)
    BY DEF LineVerifies, Before, LastHash, WellFormed, First, Extend
<1>. QED
    BY <1>1, <1>2 DEF Linked, WellFormed

LEMMA StartAlone ==
    ASSUME Inv, AloneInv, world = "alone", NEW p \in Shells, Start(p)
    PROVE  AloneInv'
<1>1. \A q \in Shells : q # p => pc'[q] = "off"
    BY DEF Start, At, Goto, Inv, TypeOK
<1>2. pc'[p] = "genesis"
    BY DEF Start, Goto, Inv, TypeOK
<1>3. Sound'
    BY StaysLinked DEF Start, AloneInv, Sound, files
<1>. QED
    BY <1>1, <1>2, <1>3 DEF AloneInv, Sole, Relies

\* What the steps before a session has its chain leave.
LEMMA GenesisAlone ==
    ASSUME Inv, AloneInv, world = "alone", NEW p \in Shells,
           ReadGenesis(p) \/ CreateGenesis(p) \/ WriteGenesis(p) \/ RereadGenesis(p)
    PROVE  Sound' /\ Relies(p)'
<1>. USE AuditAssumption DEF AloneInv
<1>1. UNCHANGED <<log, tail, spanning>> /\ pc' = [pc EXCEPT ![p] = pc'[p]]
    BY DEF ReadGenesis, CreateGenesis, WriteGenesis, RereadGenesis, Goto, files, Inv, TypeOK
<1>2. gfile \in Genesis => gfile' = gfile /\ Linked(gfile)'
    BY <1>1, StaysLinked
    DEF ReadGenesis, CreateGenesis, WriteGenesis, RereadGenesis, At, Sound, Relies, files
<1>3. gfile' \in Genesis /\ gfile \notin Genesis => log' = <<>>
    BY <1>1
    DEF ReadGenesis, CreateGenesis, WriteGenesis, RereadGenesis, At, Relies, files
<1>4. log' = <<>> => \A g : Linked(g)'
    BY DEF Linked
<1>5. gfile' = NoFile => gfile = NoFile
    BY DEF ReadGenesis, CreateGenesis, WriteGenesis, RereadGenesis, At, Relies, files,
           Inv, TypeOK
<1>6. Sound'
    BY <1>1, <1>2, <1>3, <1>4, <1>5 DEF Sound
<1>7. Relies(p)'
    <2>1. CASE ReadGenesis(p)
        BY <2>1 DEF ReadGenesis, At, Goto, Relies, files, Inv, TypeOK
    <2>2. CASE CreateGenesis(p)
        BY <2>2 DEF CreateGenesis, At, Goto, Sound, Relies, Inv, TypeOK
    <2>3. CASE WriteGenesis(p)
        BY <2>3 DEF WriteGenesis, At, Goto, Relies, Inv, TypeOK
    <2>4. CASE RereadGenesis(p)
        BY <2>4 DEF RereadGenesis, At, Goto, Relies, files, Inv, TypeOK
    <2>. QED
        BY <2>1, <2>2, <2>3, <2>4
<1>. QED
    BY <1>6, <1>7

LEMMA SameSeed == log' = log => \A g : SeedOf(g)' = SeedOf(g)
BY DEF SeedOf, LastHash, WellFormed, First

\* What the steps of a session leave.
LEMMA SessionAlone ==
    ASSUME Inv, AloneInv, world = "alone", NEW p \in Shells,
           SeedChain(p) \/ Mark(p) \/ Run(p)
    PROVE  Sound' /\ Relies(p)'
<1>1. log' = log /\ tail' = "whole" /\ gfile' = gfile /\ spanning \subseteq spanning'
      /\ \A g : SeedOf(g)' = SeedOf(g)
    <2>1. log' = log /\ tail' = "whole" /\ gfile' = gfile /\ spanning \subseteq spanning'
        BY DEF SeedChain, Mark, Run, AloneInv, Sound, files
    <2>. QED
        BY <2>1, SameSeed
<1>2. Sound'
    BY <1>1, StaysLinked DEF AloneInv, Sound
<1>3. CASE SeedChain(p)
    <2>1. pc[p] = "seeded" /\ pc'[p] = "mark" /\ seed' = seed /\ chain'[p] = SeedOf(seed[p])
        BY <1>3 DEF SeedChain, At, Goto, Inv, TypeOK
    <2>2. gfile # NoFile /\ (gfile \in Genesis => seed[p] = gfile)
        BY <2>1 DEF AloneInv, Relies
    <2>3. gfile' \in Genesis => chain'[p] = SeedOf(gfile)'
        BY <1>1, <2>1, <2>2
    <2>. QED
        BY <1>1, <1>2, <2>1, <2>2, <2>3 DEF Relies
<1>4. CASE Mark(p)
    <2>1. pc[p] = "mark" /\ pc'[p] = "ready" /\ seed' = seed /\ chain' = chain
        BY <1>4 DEF Mark, At, Goto, Inv, TypeOK
    <2>2. gfile # NoFile
          /\ (gfile \in Genesis => seed[p] = gfile /\ chain[p] = SeedOf(gfile))
        BY <2>1 DEF AloneInv, Relies
    <2>3. gfile' \in Genesis => chain'[p] = SeedOf(gfile)'
        BY <1>1, <2>1, <2>2
    <2>. QED
        BY <1>1, <1>2, <2>1, <2>2, <2>3 DEF Relies
<1>5. CASE Run(p)
    <2>. DEFINE b == [by |-> sid[p], no |-> count[p] + 1]
    <2>1. pc[p] = "ready" /\ pc'[p] = "log" /\ count'[p] = count[p] + 1
          /\ sid' = sid /\ seed' = seed /\ chain'[p] = Extend(chain[p], b)
        BY <1>5 DEF Run, At, Goto, Inv, TypeOK
    <2>2. Record(p)'.body = b
        BY <2>1 DEF Record
    <2>. HIDE DEF b
    <2>3. gfile # NoFile
          /\ (gfile \in Genesis => seed[p] = gfile /\ chain[p] = SeedOf(gfile))
        BY <2>1 DEF AloneInv, Relies
    <2>4. gfile' \in Genesis => chain'[p] = Extend(SeedOf(gfile)', Record(p)'.body)
        BY <1>1, <2>1, <2>2, <2>3
    <2>. QED
        BY <1>1, <1>2, <2>1, <2>3, <2>4 DEF Relies, Extend
<1>. QED
    BY <1>2, <1>3, <1>4, <1>5

\* The record of a command is linked to the line before it, or spans lines.
LEMMA LogWriteAlone ==
    ASSUME Inv, AloneInv, world = "alone", NEW p \in Shells, LogWrite(p)
    PROVE  Sound' /\ Relies(p)'
<1>. DEFINE r == Record(p)
            n == Len(log)
            l == FirstLine(r)
<1>1. r \in Line /\ r.chain = chain[p] /\ r.body \in Body /\ r.chain \in Chain
    BY RecordType DEF Record, Inv, TypeOK, Body
<1>2. pc[p] = "log" /\ pc'[p] = "ready" /\ UNCHANGED <<gfile, seed, chain, spanning>>
    BY DEF LogWrite, At, Goto, Inv, TypeOK
<1>3. log \in Seq(Line) /\ n \in Nat /\ tail = "whole" /\ gfile # NoFile
    BY <1>2 DEF AloneInv, Sound, Relies, Inv, TypeOK
<1>4. gfile \in Genesis =>
          /\ Linked(gfile) /\ seed[p] = gfile /\ r.chain = Extend(SeedOf(gfile), r.body)
    BY <1>1, <1>2 DEF AloneInv, Sound, Relies
<1>5. l \in Line /\ l.chain = r.chain /\ WellFormed(l)
      /\ (r.body \in spanning \/ l = r)
    BY <1>1, FirstLineType, AuditAssumption DEF FirstLine, WellFormed
<1>6. /\ tail' = "whole"
      /\ \/ log' = Append(log, l)
         \/ r.body \in spanning /\ log' = Append(Append(log, l), Stray)
    <2>1. AppendWhole(r)
        BY DEF LogWrite, AloneInv
    <2>2. /\ tail' = "whole"
          /\ \/ log' = Append(log, l) \o <<>>
             \/ r.body \in spanning /\ log' = Append(log, l) \o <<Stray>>
        BY <1>3, <2>1 DEF AppendWhole, Put
    <2>3. Append(log, l) \in Seq(Line)
        BY <1>3, <1>5
    <2>. HIDE DEF l
    <2>4. Append(log, l) \o <<>> = Append(log, l)
          /\ Append(log, l) \o <<Stray>> = Append(Append(log, l), Stray)
        BY <2>3, StrayType
    <2>. QED
        BY <2>2, <2>4
<1>. HIDE DEF r, l
<1>7. /\ log' \in Seq(Line) /\ n + 1 \in 1..Len(log') /\ Len(log') \in {n + 1, n + 2}
      /\ \A i \in 1..n : log'[i] = log[i]
      /\ log'[n + 1] = l
      /\ Len(log') = n + 2 => r.body \in spanning /\ log'[n + 2] = Stray
    <2>1. CASE log' = Append(log, l)
        BY <1>3, <1>5, <2>1
    <2>2. CASE r.body \in spanning /\ log' = Append(Append(log, l), Stray)
        BY <1>3, <1>5, <2>2, StrayType
    <2>. QED
        BY <1>6, <2>1, <2>2
<1>8. ~WellFormed(Stray)
    BY DEF Stray, WellFormed
<1>9. ASSUME gfile \in Genesis PROVE Linked(gfile)' /\ SeedOf(gfile)' = r.chain
    <2>. DEFINE g == gfile
    <2>1. \A k \in 0..n : LastHash(log', k, g) = LastHash(log, k, g)
        BY <1>3, <1>7, LastHashKept
    <2>2. SeedOf(g) \in Chain /\ SeedOf(g) = LastHash(log, n, g)
        BY <1>3, <1>9, SeedOfType DEF SeedOf
    <2>3. r.body \in spanning => Spans(l)
        <3>1. EndsWith(r.chain, r.body)
            BY <1>1, <1>4, <1>9, <2>2, ExtendEnds
        <3>. QED
            BY <1>5, <3>1 DEF Spans, HashFor, EndsWith
    <2>4. ASSUME NEW i \in 1..Len(log')
          PROVE  \/ LineVerifies(i, g)'
                 \/ Spans(log'[i])
                 \/ ~WellFormed(log'[i]) /\ i > 1 /\ Spans(log'[i - 1])
        <3>1. CASE i \in 1..n
            <4>1. log'[i] = log[i] /\ (i > 1 => log'[i - 1] = log[i - 1])
                BY <1>3, <1>7, <3>1
            <4>2. i - 1 \in 0..n
                BY <1>3, <3>1
            <4>3. LineVerifies(i, g)' = LineVerifies(i, g)
                BY <1>2, <2>1, <4>1, <4>2 DEF LineVerifies, Before, WellFormed, Extend
            <4>. QED
                BY <1>4, <1>9, <3>1, <4>1, <4>3 DEF Linked
        <3>2. CASE i = n + 1
            <4>1. CASE r.body \in spanning
                BY <1>7, <2>3, <3>2, <4>1
            <4>2. CASE r.body \notin spanning
                <5>1. log'[i] = r /\ WellFormed(r) /\ r.body # Garbled
                    BY <1>1, <1>5, <1>7, <3>2, <4>2, AuditAssumption
                <5>2. LastHash(log', i - 1, g) = SeedOf(g)
                    BY <1>3, <2>1, <2>2, <3>2
                <5>3. r.chain = Extend(LastHash(log', i - 1, g), r.body)
                    BY <1>4, <1>9, <5>2
                <5>. QED
                    BY <1>2, <5>1, <5>3 DEF LineVerifies, Before, WellFormed, Extend
            <4>. QED
                BY <4>1, <4>2
        <3>3. CASE i = n + 2
            <4>1. Len(log') = n + 2 /\ i - 1 = n + 1 /\ i > 1
                BY <1>3, <1>7, <3>3
            <4>2. log'[i] = Stray /\ Spans(log'[i - 1])
                BY <1>7, <2>3, <3>3, <4>1
            <4>. QED
                BY <1>8, <4>1, <4>2
        <3>. QED
            BY <1>3, <1>7, <3>1, <3>2, <3>3
    <2>5. Linked(g)'
        <3>1. \A k : Spans(k)' = Spans(k)
            BY <1>2 DEF Spans, HashFor, WellFormed
        <3>. QED
            BY <1>2, <2>4, <3>1 DEF Linked, WellFormed
    <2>6. LastHash(log', Len(log'), g) = r.chain
        <3>1. \A j \in ((n + 1) + 1)..Len(log') : ~WellFormed(log'[j])
            BY <1>3, <1>7, <1>8
        <3>2. Len(log') \in 0..Len(log') /\ n + 1 \in 1..Len(log') /\ WellFormed(log'[n + 1])
            BY <1>3, <1>5, <1>7
        <3>3. LastHash(log', Len(log'), g) = log'[n + 1].chain
            BY <1>7, <3>1, <3>2, LastHashFound
        <3>. QED
            BY <1>5, <1>7, <3>3
    <2>7. SeedOf(g)' = r.chain
        BY <1>2, <2>6 DEF SeedOf
    <2>. QED
        BY <2>5, <2>7
<1>10. Sound'
    BY <1>2, <1>3, <1>6, <1>9 DEF Sound
<1>11. Relies(p)'
    BY <1>1, <1>2, <1>3, <1>4, <1>9 DEF Relies
<1>. QED
    BY <1>10, <1>11

LEMMA NextAlone == Inv /\ AloneInv /\ [Next]_vars => AloneInv'
<1>. SUFFICES ASSUME Inv, AloneInv, [Next]_vars PROVE AloneInv'
    OBVIOUS
<1>1. world' = world
    BY DEF Next, Step, Start, ReadGenesis, CreateGenesis, WriteGenesis, RereadGenesis,
           Verify, SeedChain, Mark, Run, LogWrite, End, Leave, vars
<1>2. CASE world # "alone"
    BY <1>1, <1>2 DEF AloneInv
<1>3. ASSUME world = "alone", NEW p \in Shells, Step(p) PROVE AloneInv'
    <2>1. CASE Start(p)
        BY <1>3, <2>1, StartAlone
    <2>2. CASE ReadGenesis(p) \/ CreateGenesis(p) \/ WriteGenesis(p) \/ RereadGenesis(p)
        <3>1. pc[p] # "off"
            BY <2>2 DEF ReadGenesis, CreateGenesis, WriteGenesis, RereadGenesis, At
        <3>. QED
            BY <1>3, <2>2, <3>1, GenesisAlone, FrameAlone
    <2>3. CASE SeedChain(p) \/ Mark(p) \/ Run(p)
        <3>1. pc[p] # "off"
            BY <2>3 DEF SeedChain, Mark, Run, At
        <3>. QED
            BY <1>3, <2>3, <3>1, SessionAlone, FrameAlone
    <2>4. CASE LogWrite(p)
        <3>1. pc[p] # "off"
            BY <2>4 DEF LogWrite, At
        <3>. QED
            BY <1>3, <2>4, <3>1, LogWriteAlone, FrameAlone
    <2>5. CASE Verify(p) \/ End(p)
        <3>1. pc[p] # "off" /\ pc'[p] = "off"
            BY <2>5 DEF Verify, End, Leave, At, Goto, Inv, TypeOK
        <3>2. Sound'
            BY <1>3, <2>5, StaysLinked DEF Verify, End, Leave, files, AloneInv, Sound
        <3>. QED
            BY <1>3, <3>1, <3>2, FrameAlone DEF Relies
    <2>. QED
        BY <1>3, <2>1, <2>2, <2>3, <2>4, <2>5 DEF Step
<1>4. CASE UNCHANGED vars
    <2>1. UNCHANGED <<world, gfile, spanning, log, tail, pc, sid, seed, chain, count>>
        BY <1>4 DEF vars, files, procVars
    <2>2. Sound => Sound'
        BY <2>1, StaysLinked DEF Sound
    <2>3. \A p \in Shells : Relies(p) => Relies(p)'
        BY <2>1, SameSeed DEF Relies, Record, Extend
    <2>. QED
        BY <2>1, <2>2, <2>3 DEF AloneInv, Sole
<1>. QED
    BY <1>2, <1>3, <1>4 DEF Next

LEMMA LinkedVerifies == Inv /\ ChainInv /\ AloneInv => LogVerifies
<1>. SUFFICES ASSUME Inv, ChainInv, AloneInv, world = "alone", gfile \in Genesis
              PROVE  Accepts(gfile) <=> \A i \in DOMAIN log, b \in spanning : ~HashFor(log[i], b)
    BY DEF LogVerifies
<1>1. log \in Seq(Line) /\ DOMAIN log = 1..Len(log) /\ Len(log) \in Nat
    BY DEF Inv, TypeOK
<1>2. ASSUME Accepts(gfile), NEW i \in DOMAIN log, NEW b \in spanning, HashFor(log[i], b)
      PROVE  FALSE
    <2>1. LineVerifies(i, gfile) /\ log[i] \in Line
        BY <1>1, <1>2 DEF Accepts
    <2>2. Whole(log[i])
        BY <1>1, <2>1 DEF Whole, LineVerifies
    <2>3. log[i].body \notin spanning /\ EndsWith(log[i].chain, log[i].body)
        BY <2>1, <2>2 DEF ChainInv, Hashes
    <2>. QED
        BY <1>2, <2>3 DEF HashFor, EndsWith
<1>3. ASSUME \A i \in DOMAIN log, b \in spanning : ~HashFor(log[i], b)
      PROVE  Accepts(gfile)
    <2>1. \A i \in 1..Len(log) : ~Spans(log[i])
        BY <1>1, <1>3 DEF Spans
    <2>2. \A i \in 1..Len(log) : i > 1 => i - 1 \in 1..Len(log)
        BY <1>1
    <2>. QED
        BY <1>1, <2>1, <2>2 DEF Accepts, AloneInv, Sound, Linked
<1>. QED
    BY <1>2, <1>3

\* A log that one process at a time has written verifies, over any number of
\* sessions, verifications and kills, exactly if none of its commands spans
\* lines (audit_init(), audit_log_command() and audit_verify_log(),
\* audit.c:288-300 and :350-786).
THEOREM LogAlwaysVerifies == Spec => []LogVerifies
<1>1. Spec => []AloneInv
    BY InitAlone, NextAlone, InvHolds, PTL DEF Spec
<1>. QED
    BY <1>1, ChainHolds, InvHolds, LinkedVerifies, PTL

-------------------------------------------------------------------------------
(* The capture of a command's output                                       *)
(*                                                                         *)
(* What is shown and hashed is all the output there is room for, for any   *)
(* sizes of pipe, read and buffer.                                         *)

\* What has left the pipe is captured as far as there is room, and the thread
\* has only ended when nothing more can come.
Captured ==
    /\ made >= pipe
    /\ Drained /\ alloc => cap = AtMost(made - pipe, Cap)
    /\ thread = "ended" => pipe = 0 /\ holds = {}
    /\ at \in {"echo", "done"} /\ Drained => thread = "ended"
    /\ at = "drain" => ~Drained
    /\ at = "done" => seen = cap

CaptureInv == CaptureTypeOK /\ Captured

LEMMA CaptureStarts == CaptureInit => CaptureInv
BY CaptureAssumption
DEF CaptureInit, CaptureInv, CaptureTypeOK, Captured, Drained, AtMost, Writers

LEMMA CaptureWrites ==
    ASSUME CaptureInv, NEW w \in Writers, Write(w)
    PROVE  CaptureInv'
<1>1. CaptureTypeOK'
    BY CaptureAssumption DEF CaptureInv, CaptureTypeOK, Write
<1>2. made' - pipe' = made - pipe /\ made' >= pipe' /\ w \in holds
    BY CaptureAssumption DEF CaptureInv, CaptureTypeOK, Captured, Write
<1>3. Captured'
    BY <1>2 DEF CaptureInv, Captured, Write, Drained, AtMost
<1>. QED
    BY <1>1, <1>3 DEF CaptureInv

LEMMA CaptureDrains ==
    ASSUME CaptureInv, Drain
    PROVE  CaptureInv'
<1>1. PICK n \in 1..AtMost(pipe, Chunk) :
          /\ pipe' = pipe - n
          /\ cap' = IF alloc THEN cap + AtMost(n, Cap - cap) ELSE cap
    BY DEF Drain
<1>2. n \in 1..pipe /\ pipe \in 0..PipeSize /\ made \in Nat /\ cap \in 0..Cap
    BY CaptureAssumption DEF AtMost, CaptureInv, CaptureTypeOK
<1>3. cap' \in 0..Cap /\ pipe' \in 0..PipeSize /\ made' = made
    BY <1>1, <1>2, CaptureAssumption DEF AtMost, Drain
<1>4. CaptureTypeOK'
    BY <1>3 DEF CaptureInv, CaptureTypeOK, Drain
<1>5. alloc => cap' = AtMost(made - pipe', Cap)
    <2>1. alloc => cap = AtMost(made - pipe, Cap) /\ made >= pipe
        BY DEF CaptureInv, Captured, Drained, Drain
    <2>. QED
        BY <1>1, <1>2, <2>1, CaptureAssumption DEF AtMost
<1>6. made' >= pipe'
    BY <1>1, <1>2, <1>3 DEF CaptureInv, Captured
<1>7. Captured'
    BY <1>5, <1>6, <1>3
    DEF CaptureInv, CaptureTypeOK, Captured, Drained, Drain
<1>. QED
    BY <1>4, <1>7 DEF CaptureInv

LEMMA CaptureReadsLate ==
    ASSUME CaptureInv, ReadLate
    PROVE  CaptureInv'
<1>1. ~Drained /\ pipe \in 0..PipeSize /\ made \in Nat /\ cap \in 0..Cap
    BY DEF CaptureInv, CaptureTypeOK, Captured, ReadLate
<1>2. pipe' \in 0..PipeSize /\ pipe' <= pipe /\ cap' \in 0..Cap
    BY <1>1, CaptureAssumption DEF ReadLate, AtMost
<1>3. CaptureTypeOK'
    BY <1>2 DEF CaptureInv, CaptureTypeOK, ReadLate
<1>4. Captured'
    BY <1>1, <1>2 DEF CaptureInv, Captured, Drained, ReadLate
<1>. QED
    BY <1>3, <1>4 DEF CaptureInv

LEMMA CaptureGoesOn == CaptureInv /\ [CaptureNext]_captureVars => CaptureInv'
<1>. SUFFICES ASSUME CaptureInv, [CaptureNext]_captureVars PROVE CaptureInv'
    OBVIOUS
<1>1. ASSUME NEW w \in Writers, Finish(w) PROVE CaptureInv'
    BY <1>1
    DEF CaptureInv, CaptureTypeOK, Captured, Finish, Drained, AtMost
<1>2. CASE DrainEnds
    BY <1>2
    DEF CaptureInv, CaptureTypeOK, Captured, DrainEnds, Drained, AtMost
<1>3. CASE Restore
    BY <1>3
    DEF CaptureInv, CaptureTypeOK, Captured, Restore, Drained, AtMost
<1>4. CASE Exit
    BY <1>4
    DEF CaptureInv, CaptureTypeOK, Captured, Exit, Drained, AtMost
<1>5. CASE Join
    BY <1>5
    DEF CaptureInv, CaptureTypeOK, Captured, Join, Drained, AtMost
<1>6. CASE ReadLateEnds
    BY <1>6
    DEF CaptureInv, CaptureTypeOK, Captured, ReadLateEnds, Drained, AtMost
<1>7. CASE Echo
    BY <1>7
    DEF CaptureInv, CaptureTypeOK, Captured, Echo, Drained, AtMost
<1>8. CASE UNCHANGED captureVars
    BY <1>8
    DEF CaptureInv, CaptureTypeOK, Captured, captureVars, Drained, AtMost
<1>. QED
    BY <1>1, <1>2, <1>3, <1>4, <1>5, <1>6, <1>7, <1>8, CaptureWrites, CaptureDrains, CaptureReadsLate
    DEF CaptureNext, Shell, Thread, Process

\* A command whose pipe is drained has all its output shown and hashed, up to
\* AUDIT_CAP, for any sizes and any scheduling of the writers and the thread
\* (audit_drain_thread_fn() and audit_log_command(), audit.c:431-560).
THEOREM OutputIsEchoed == CaptureSpec => []EchoesOutput
<1>1. CaptureInv => EchoesOutput
    BY DEF CaptureInv, CaptureTypeOK, Captured, EchoesOutput, AtMost
<1>2. CaptureSpec => []CaptureInv
    BY CaptureStarts, CaptureGoesOn, PTL DEF CaptureSpec
<1>. QED
    BY <1>1, <1>2, PTL

\* Nor is more ever captured than there is room for (audit.c:436-441).
THEOREM CaptureTypesHold == CaptureSpec => []CaptureTypeOK
<1>1. CaptureInv => CaptureTypeOK
    BY DEF CaptureInv
<1>. QED
    BY CaptureStarts, CaptureGoesOn, <1>1, PTL DEF CaptureSpec

===============================================================================
