------------------------------ MODULE AuditLog --------------------------------
(***************************************************************************)
(* The audit trail of `las_shell --audit` (src/src/audit.c): sessions that *)
(* append records to one log, each record carrying a hash of the record    *)
(* before it and of its own body, and `audit verify`, which replays them.  *)
(*                                                                         *)
(* SHA-256 is taken to have no collisions: a chain hash is the genesis and *)
(* the bodies it was computed from.  A body is the session that wrote it   *)
(* and the number of the command in that session; random genesis values    *)
(* are numbered as they are drawn.  Comment lines are not in the state:    *)
(* both readers skip them.  A command may span lines: the output of $(...) *)
(* keeps its inner newlines and so does the quoting of a record, while     *)
(* both readers read the log line by line.  The capture of a command's     *)
(* output is AuditCapture.                                                 *)
(***************************************************************************)
EXTENDS Integers, Sequences, FiniteSets

CONSTANTS
    Shells,      \* shell processes (a process that ended may be another later)
    Worlds,      \* how the shells of this instance are used
    MaxStarts,   \* bound on the processes started in each world
    MaxCommands, \* bound on the commands of a session in each world
    MaxSpanning, \* bound on the commands that span lines
    NoFile, Blank,   \* what the genesis file is without a valid genesis
    NoChain,     \* a line without a valid hash field
    Garbled      \* the body of a line that is not a whole record

(* One process at a time, or any number side by side with failing writes.  *)
AllWorlds == {"alone", "any"}

Genesis == Nat
Body == [by : Nat, no : Nat]
Chain == [genesis : Genesis, bodies : Seq(Body)]
Line == [body : Body \cup {Garbled}, chain : Chain \cup {NoChain}]

ASSUME AuditAssumption ==
    /\ Worlds \subseteq AllWorlds
    /\ MaxStarts \in [AllWorlds -> Nat] /\ MaxCommands \in [AllWorlds -> Nat]
    /\ MaxSpanning \in Nat
    /\ NoFile \notin Genesis /\ Blank \notin Genesis /\ NoFile # Blank
    /\ NoChain \notin Chain /\ Garbled \notin Body

VARIABLES
    world,   \* which of Worlds this behaviour is in
    gfile,   \* ~/.las_shell_audit_genesis
    drawn,   \* the number of random values drawn
    spanning, \* the bodies of the commands that span lines
    log,     \* the lines of ~/.las_shell_audit
    tail,    \* "whole", or what the last line of the log is: "cut" | "comment"
    starts,  \* the number of processes started
    pc,      \* pc[p]: where process p is; "off" if it does not run
    task,    \* task[p]: "audit" or "verify"
    sid,     \* sid[p]: which process of them all p is
    seed,    \* seed[p]: what get_or_create_genesis() found or drew
    chain,   \* chain[p]: g_chain_hash
    count    \* count[p]: the commands of this session

files == <<gfile, log, tail>>
procVars == <<pc, task, sid, seed, chain, count>>
vars == <<world, drawn, spanning, starts, files, procVars>>

-------------------------------------------------------------------------------
First(g) == [genesis |-> g, bodies |-> <<>>]

\* SHA256(prev || body)
Extend(c, b) == [genesis |-> c.genesis, bodies |-> Append(c.bodies, b)]

WellFormed(l) == l.chain # NoChain

\* Mistake: the chain of a new session starts at the genesis again.
SeedOfGenesis(g) == First(g)

\* Mistake: the last line is trusted to have a hash.
SeedOfLastLine(g) == IF log = <<>> THEN First(g) ELSE log[Len(log)].chain

\* The last hash in the first k of these lines, or the genesis: both readers
\* pass over lines without a hash.
LastHash(lines, k, g) ==
    LET hashed == {i \in 1..k : WellFormed(lines[i])}
    IN  IF hashed = {} THEN First(g)
        ELSE lines[CHOOSE i \in hashed : \A j \in hashed : j <= i].chain

\* What audit_init() seeds the chain with.
SeedOf(g) == LastHash(log, Len(log), g)

\* Mistake: verify does not go on from the hash of a line it has found broken.
BeforeOfWhole(i, g) ==
    LET whole == {j \in 1..(i - 1) : log[j].body # Garbled}
    IN  IF whole = {} THEN First(g)
        ELSE log[CHOOSE j \in whole : \A k \in whole : k <= j].chain

\* The hash that verify takes for the predecessor's at line i.
Before(i, g) == LastHash(log, i - 1, g)

LineVerifies(i, g) ==
    /\ WellFormed(log[i])
    /\ log[i].body # Garbled
    /\ log[i].chain = Extend(Before(i, g), log[i].body)

\* audit_verify_log() with genesis g says INTEGRITY OK.
Accepts(g) == \A i \in DOMAIN log : LineVerifies(i, g)

Init ==
    /\ world \in Worlds
    /\ gfile = NoFile
    /\ drawn = 0
    /\ spanning = {}
    /\ log = <<>>
    /\ tail = "whole"
    /\ starts = 0
    /\ pc = [p \in Shells |-> "off"]
    /\ task = [p \in Shells |-> "audit"]
    /\ sid = [p \in Shells |-> 0]
    /\ seed = [p \in Shells |-> 0]
    /\ chain = [p \in Shells |-> First(0)]
    /\ count = [p \in Shells |-> 0]

-------------------------------------------------------------------------------
At(p, l) == pc[p] = l
Goto(p, l) == pc' = [pc EXCEPT ![p] = l]

\* las_shell --audit, or `audit verify` of a shell without --audit once there
\* is a log.  A log that cannot be opened leaves either without effect.
Start(p) ==
    /\ At(p, "off")
    /\ world = "any" \/ \A q \in Shells : At(q, "off")
    /\ starts < MaxStarts[world]
    /\ starts' = starts + 1
    /\ sid' = [sid EXCEPT ![p] = starts + 1]
    /\ \E t \in {"audit", "verify"} :
          /\ t = "verify" => starts > 0
          /\ task' = [task EXCEPT ![p] = t]
    /\ Goto(p, "genesis")
    /\ UNCHANGED <<world, drawn, spanning, files, seed, chain, count>>

\* get_or_create_genesis(): the value on disk, else a random one ...
ReadGenesis(p) ==
    /\ At(p, "genesis")
    /\ IF gfile \in Genesis
       THEN /\ seed' = [seed EXCEPT ![p] = gfile]
            /\ Goto(p, "seeded")
            /\ UNCHANGED drawn
       ELSE /\ seed' = [seed EXCEPT ![p] = drawn + 1]
            /\ drawn' = drawn + 1
            /\ Goto(p, "create")
    /\ UNCHANGED <<world, spanning, starts, files, task, sid, chain, count>>

\* ... that is written to a file nobody has created (O_EXCL).
CreateGenesis(p) ==
    /\ At(p, "create")
    /\ \/ gfile = NoFile /\ gfile' = Blank /\ Goto(p, "write")
       \/ gfile # NoFile /\ gfile' = gfile /\ Goto(p, "reread")
       \/ world = "any" /\ gfile' = gfile /\ Goto(p, "seeded")
    /\ UNCHANGED <<world, drawn, spanning, starts, log, tail, task, sid, seed, chain, count>>

WriteGenesis(p) ==
    /\ At(p, "write")
    /\ gfile' = seed[p] \/ (world = "any" /\ gfile' = gfile)
    /\ Goto(p, "seeded")
    /\ UNCHANGED <<world, drawn, spanning, starts, log, tail, task, sid, seed, chain, count>>

RereadGenesis(p) ==
    /\ At(p, "reread")
    /\ seed' = [seed EXCEPT ![p] = IF gfile \in Genesis THEN gfile ELSE @]
    /\ Goto(p, "seeded")
    /\ UNCHANGED <<world, drawn, spanning, starts, files, task, sid, chain, count>>

\* Process p ends.
Leave(p) ==
    /\ Goto(p, "off")
    /\ task' = [task EXCEPT ![p] = "audit"]
    /\ sid' = [sid EXCEPT ![p] = 0]
    /\ seed' = [seed EXCEPT ![p] = 0]
    /\ chain' = [chain EXCEPT ![p] = First(0)]
    /\ count' = [count EXCEPT ![p] = 0]
    /\ UNCHANGED <<world, drawn, spanning, starts, files>>

\* The verdict is Accepts(seed[p]).
Verify(p) == At(p, "seeded") /\ task[p] = "verify" /\ Leave(p)

SeedChain(p) ==
    /\ At(p, "seeded") /\ task[p] = "audit"
    /\ chain' = [chain EXCEPT ![p] = SeedOf(seed[p])]
    /\ Goto(p, "mark")
    /\ UNCHANGED <<world, drawn, spanning, starts, files, task, sid, seed, count>>

\* The SESSION_START comment is part of a line that was cut, and ends it; or
\* it is cut itself, or not written at all.
Mark(p) ==
    /\ At(p, "mark")
    /\ \/ /\ tail = "cut"
          /\ log' = [log EXCEPT ![Len(log)].body = Garbled]
          /\ tail' = "whole" \/ tail' = "cut"
       \/ /\ tail # "cut"
          /\ tail' = "whole" \/ (world = "any" /\ tail' = "comment")
          /\ log' = log
       \/ world = "any" /\ UNCHANGED <<log, tail>>
    /\ Goto(p, "ready")
    /\ UNCHANGED <<world, drawn, spanning, starts, gfile, task, sid, seed, chain, count>>

\* A command, which may be one that spans lines, is executed and its record is
\* made up; only then is g_chain_hash the hash of that record.
Run(p) ==
    LET b == [by |-> sid[p], no |-> count[p] + 1]
    IN  /\ At(p, "ready")
        /\ count[p] < MaxCommands[world]
        /\ count' = [count EXCEPT ![p] = @ + 1]
        /\ \/ spanning' = spanning
           \/ Cardinality(spanning) < MaxSpanning /\ spanning' = spanning \cup {b}
        /\ chain' = [chain EXCEPT ![p] = Extend(@, b)]
        /\ Goto(p, "log")
        /\ UNCHANGED <<world, drawn, starts, files, task, sid, seed>>

Record(p) == [body |-> [by |-> sid[p], no |-> count[p]], chain |-> chain[p]]

Cut(r) == [r EXCEPT !.body = Garbled]
Stray == [body |-> Garbled, chain |-> NoChain]

\* What the readers find of r in its first line: all, if the command is on it.
FirstLine(r) == IF r.body \in spanning THEN Cut(r) ELSE r

\* Text whose first line is l, and whose others hold no record, reaches the
\* log; e is what it leaves of its last.  If l is the end of a line that was
\* cut, that line has the hash of either; the end of a comment is none.
Put(l, others, e) ==
    /\ \/ tail = "whole" /\ log' = Append(log, l) \o others
       \/ /\ tail = "cut"
          /\ LET last == log[Len(log)]
             IN  \E c \in IF WellFormed(last) THEN {last.chain} ELSE {NoChain, l.chain} :
                    log' = [log EXCEPT ![Len(log)] = [body |-> Garbled, chain |-> c]] \o others
       \/ tail = "comment" /\ log' = log \o others
    /\ tail' = e

\* All of r reaches the log.  The second line of a command that spans lines
\* has no hash, or is a comment.
AppendWhole(r) ==
    \/ Put(FirstLine(r), <<>>, "whole")
    \/ r.body \in spanning /\ Put(FirstLine(r), <<Stray>>, "whole")

\* A part of r does: some of the first line, with the hash or without, or all
\* but its end; or some of the second as well.
AppendPart(r) ==
    \/ \E l \in {FirstLine(r), Cut(r), Stray} :
          Put(l, <<>>, IF tail = "comment" THEN "comment" ELSE "cut")
    \/ r.body \in spanning /\ Put(FirstLine(r), <<Stray>>, "cut")
    \/ r.body \in spanning /\ Put(FirstLine(r), <<>>, "whole")
    \/ r.body \in spanning /\ Put(FirstLine(r), <<>>, "comment")

\* Mistake: a record that could not be written is taken out of the chain.
LogWriteOrForget(p) ==
    /\ At(p, "log")
    /\ \/ AppendWhole(Record(p)) /\ UNCHANGED chain
       \/ /\ world = "any" /\ UNCHANGED <<log, tail>>
          /\ chain' = [chain EXCEPT ![p].bodies = SubSeq(@, 1, Len(@) - 1)]
    /\ Goto(p, "ready")
    /\ UNCHANGED <<world, drawn, spanning, starts, gfile, task, sid, seed, count>>

\* log_write(): whatever becomes of the record, the chain has moved on.
LogWrite(p) ==
    /\ At(p, "log")
    /\ \/ AppendWhole(Record(p))
       \/ world = "any" /\ AppendPart(Record(p))
       \/ world = "any" /\ UNCHANGED <<log, tail>>
    /\ Goto(p, "ready")
    /\ UNCHANGED <<world, drawn, spanning, starts, gfile, task, sid, seed, chain, count>>

\* The end of the input, the exit command, or a kill.
End(p) == ~At(p, "off") /\ Leave(p)

Step(p) ==
    \/ Start(p) \/ ReadGenesis(p) \/ CreateGenesis(p) \/ WriteGenesis(p)
    \/ RereadGenesis(p) \/ Verify(p) \/ SeedChain(p) \/ Mark(p)
    \/ Run(p) \/ LogWrite(p) \/ End(p)

Next == \E p \in Shells : Step(p)

Spec == Init /\ [][Next]_vars

-------------------------------------------------------------------------------
(* Properties *)

Labels == {"off", "genesis", "create", "write", "reread", "seeded", "mark",
           "ready", "log"}

\* Every variable has its type; in particular the chain of a session is never
\* the missing hash of a malformed line.
TypeOK ==
    /\ world \in AllWorlds
    /\ gfile \in Genesis \cup {NoFile, Blank}
    /\ drawn \in Nat
    /\ spanning \subseteq Body
    /\ log \in Seq(Line)
    /\ tail \in {"whole", "cut", "comment"}
    /\ starts \in Nat
    /\ pc \in [Shells -> Labels]
    /\ task \in [Shells -> {"audit", "verify"}]
    /\ sid \in [Shells -> Nat]
    /\ seed \in [Shells -> Genesis]
    /\ chain \in [Shells -> Chain]
    /\ count \in [Shells -> Nat]

\* The hash of line l was computed for body b.
HashFor(l, b) ==
    /\ WellFormed(l)
    /\ l.chain.bodies # <<>> /\ l.chain.bodies[Len(l.chain.bodies)] = b

\* A log that one process at a time has written, killed wherever it may have
\* been, verifies unless one of its commands spans lines -- or a process was
\* killed between creating the genesis file and writing to it, after which no
\* process has the genesis of another.
LogVerifies ==
    world = "alone" /\ gfile \in Genesis =>
        (Accepts(gfile) <=> \A i \in DOMAIN log, b \in spanning : ~HashFor(log[i], b))

\* A log that verifies, whatever the genesis and whoever wrote it at the same
\* time or failed to, has no hole: before each record of a session is the
\* record of the command before it in that session.
Follows(b, i) == \E j \in 1..(i - 1) : log[j].body = [by |-> b.by, no |-> b.no - 1]
AcceptedHasNoGap ==
    \A g \in {gfile} \cup {seed[p] : p \in Shells} :
        g \in Genesis /\ Accepts(g) =>
            \A i \in DOMAIN log : log[i].body.no > 1 => Follows(log[i].body, i)

\* The chain only breaks at a seam: a record that is there whole, on one line,
\* verifies if the hash before it is that of the command before it -- also if
\* that command spans lines or its line was cut, other records are missing or
\* sessions took turns.
BreaksOnlyAtSeams ==
    \A i \in 2..Len(log) : \A j \in 1..(i - 1) :
        /\ log[i].body # Garbled
        /\ HashFor(log[j], [log[i].body EXCEPT !.no = @ - 1])
        /\ \A k \in (j + 1)..(i - 1) : ~WellFormed(log[k])
        => LineVerifies(i, 0)

===============================================================================
