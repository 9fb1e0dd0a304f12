---------------------------- MODULE AuditCapture ------------------------------
(***************************************************************************)
(* How audit_log_command() (src/src/audit.c) captures what a command       *)
(* writes: standard output is a pipe, a thread drains it while the command *)
(* runs, and the shell joins the thread, shows the user what was captured  *)
(* and hashes it.  One command line; it may leave a process in the         *)
(* background, which inherits the pipe.                                    *)
(*                                                                         *)
(* Output is counted in units, of which the pipe, a read and the capture   *)
(* hold a few.                                                             *)
(***************************************************************************)
EXTENDS Integers

CONSTANTS
    PipeSize,  \* units a pipe holds
    Chunk,     \* units one read() of the thread takes
    Cap,       \* AUDIT_CAP
    MaxOut     \* bound on the output of one process

ASSUME CaptureAssumption ==
    /\ PipeSize \in Nat \ {0} /\ Chunk \in Nat \ {0}
    /\ Cap \in Nat /\ MaxOut \in Nat

\* The command in the foreground (a builtin runs in the shell), and what it
\* leaves in the background.
Writers == {"fg", "bg"}

VARIABLES
    at,      \* where the shell is in audit_log_command()
    left,    \* left[w]: what w has still to write
    holds,   \* who has the write end of the pipe open
    thread,  \* the drain thread: "none" if it could not be created
    pipe,    \* units in the pipe
    alloc,   \* whether there is a buffer
    cap,     \* units captured
    seen,    \* units shown to the user
    made     \* history: units written to the pipe

captureVars == <<at, left, holds, thread, pipe, alloc, cap, seen, made>>

AtMost(a, b) == IF a <= b THEN a ELSE b

-------------------------------------------------------------------------------
\* A pipe, a buffer and a thread, the last two if they are to be had; then
\* the command.  Without a pipe it runs as if there were no audit.
CaptureInit ==
    /\ at = "run"
    /\ left \in [Writers -> 0..MaxOut]
    /\ \E bg \in SUBSET {"bg"} : holds = {"shell", "fg"} \cup bg
    /\ thread \in {"reading", "none"}
    /\ pipe = 0
    /\ alloc \in BOOLEAN
    /\ cap = 0
    /\ seen = 0
    /\ made = 0

\* write() blocks while the pipe is full, also when nobody will read: w has
\* inherited the read end too, so there is no SIGPIPE.
Write(w) ==
    /\ w \in holds /\ left[w] > 0
    /\ pipe < PipeSize
    /\ pipe' = pipe + 1
    /\ made' = made + 1
    /\ left' = [left EXCEPT ![w] = @ - 1]
    /\ UNCHANGED <<at, holds, thread, alloc, cap, seen>>

\* A process that has written everything ends.
Finish(w) ==
    /\ w \in holds /\ left[w] = 0
    /\ holds' = holds \ {w}
    /\ UNCHANGED <<at, left, thread, pipe, alloc, cap, seen, made>>

\* Mistake: the thread does not look at the room that is left.
DrainUnbounded ==
    /\ thread = "reading" /\ pipe > 0
    /\ \E n \in 1..AtMost(pipe, Chunk) :
          /\ pipe' = pipe - n
          /\ cap' = IF alloc THEN cap + n ELSE cap
    /\ UNCHANGED <<at, left, holds, thread, alloc, seen, made>>

\* Mistake: the thread does not read what it cannot keep.
DrainWhileRoom ==
    /\ thread = "reading" /\ pipe > 0
    /\ \E n \in 1..AtMost(AtMost(pipe, Chunk), Cap - cap) :
          /\ pipe' = pipe - n
          /\ cap' = IF alloc THEN cap + n ELSE cap
    /\ UNCHANGED <<at, left, holds, thread, alloc, seen, made>>

\* The thread reads on when the buffer is full or missing.
Drain ==
    /\ thread = "reading" /\ pipe > 0
    /\ \E n \in 1..AtMost(pipe, Chunk) :
          /\ pipe' = pipe - n
          /\ cap' = IF alloc THEN cap + AtMost(n, Cap - cap) ELSE cap
    /\ UNCHANGED <<at, left, holds, thread, alloc, seen, made>>

\* read() returns 0: nobody can write any more.
DrainEnds ==
    /\ thread = "reading" /\ pipe = 0 /\ holds = {}
    /\ thread' = "ended"
    /\ UNCHANGED <<at, left, holds, pipe, alloc, cap, seen, made>>

\* execute_command_line() has returned: standard output is restored, which
\* closes the shell's write end.
Restore ==
    /\ at = "run" /\ "fg" \notin holds
    /\ holds' = holds \ {"shell"}
    /\ at' = IF thread = "none" THEN "drain" ELSE "join"
    /\ UNCHANGED <<left, thread, pipe, alloc, cap, seen, made>>

\* The command was exit: the process and its thread are gone.
Exit ==
    /\ at = "run" /\ "fg" \notin holds
    /\ holds' = holds \ {"shell"}
    /\ at' = "gone"
    /\ thread' = "none"
    /\ UNCHANGED <<left, pipe, alloc, cap, seen, made>>

\* Mistake: cap_len is read without waiting for the thread.
JoinEarly ==
    /\ at = "join"
    /\ at' = "echo"
    /\ UNCHANGED <<left, holds, thread, pipe, alloc, cap, seen, made>>

Join ==
    /\ at = "join" /\ thread = "ended"
    /\ at' = "echo"
    /\ UNCHANGED <<left, holds, thread, pipe, alloc, cap, seen, made>>

\* Without a thread the shell reads now, until the buffer is full or nobody
\* can write any more.
ReadLate ==
    /\ at = "drain" /\ alloc /\ cap < Cap
    /\ \/ /\ pipe > 0
          /\ \E n \in 1..AtMost(pipe, Cap - cap) : pipe' = pipe - n /\ cap' = cap + n
          /\ at' = at
       \/ /\ pipe = 0 /\ holds = {}
          /\ at' = "echo"
          /\ UNCHANGED <<pipe, cap>>
    /\ UNCHANGED <<left, holds, thread, alloc, seen, made>>

ReadLateEnds ==
    /\ at = "drain" /\ (~alloc \/ cap = Cap)
    /\ at' = "echo"
    /\ UNCHANGED <<left, holds, thread, pipe, alloc, cap, seen, made>>

\* The read end is closed, what was captured is shown, hashed and logged.
Echo ==
    /\ at = "echo"
    /\ seen' = cap
    /\ at' = "done"
    /\ UNCHANGED <<left, holds, thread, pipe, alloc, cap, made>>

Shell == Restore \/ Join \/ ReadLate \/ ReadLateEnds \/ Echo
Thread == Drain \/ DrainEnds
Process(w) == Write(w) \/ Finish(w)

CaptureNext == Shell \/ Exit \/ Thread \/ \E w \in Writers : Process(w)

CaptureSpec == CaptureInit /\ [][CaptureNext]_captureVars

\* Processes and threads are scheduled and the command in the foreground ends
\* by itself once it has written everything; what it leaves in the background
\* need not.
FairCapture ==
    /\ CaptureSpec
    /\ WF_captureVars(Shell) /\ WF_captureVars(Thread) /\ WF_captureVars(Process("fg")) /\ WF_captureVars(Write("bg"))

-------------------------------------------------------------------------------
(* Properties *)

\* Every variable has its type; in particular no more is captured than there
\* is room for.
CaptureTypeOK ==
    /\ at \in {"run", "join", "drain", "echo", "done", "gone"}
    /\ left \in [Writers -> 0..MaxOut]
    /\ holds \subseteq Writers \cup {"shell"}
    /\ thread \in {"none", "reading", "ended"}
    /\ pipe \in 0..PipeSize
    /\ alloc \in BOOLEAN
    /\ cap \in 0..Cap
    /\ seen \in 0..Cap
    /\ made \in Nat

Drained == thread # "none"

\* A command whose pipe is drained has its output shown and hashed up to
\* AUDIT_CAP, all of it, that of the process in the background included, in
\* whatever pieces it was written and read.
EchoesOutput == at = "done" /\ Drained /\ alloc => seen = AtMost(made, Cap)

\* A command whose pipe is drained returns however much it writes, also if
\* there is no buffer; one whose pipe is not, if its output fits the pipe.  It
\* does not return while a process in the background runs, which in turn can
\* write all it has to unless the shell ends.
Fits == left["fg"] + (IF "bg" \in holds THEN left["bg"] ELSE 0) <= PipeSize
Returns ==
    /\ (at = "run" /\ made = 0 /\ (Drained \/ Fits))
          ~> (at \in {"done", "gone"} \/ []("bg" \in holds))
    /\ (at = "run" /\ Drained) ~> (at = "gone" \/ "bg" \notin holds \/ left["bg"] = 0)

===============================================================================
