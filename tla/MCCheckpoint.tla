----------------------------- MODULE MCCheckpoint -----------------------------
(* Two shells side by side in which only the threads save.  One variable with  *)
(* a value that is kept and one that is too long for the file: an image        *)
(* without it takes one write and one with it takes two, so that a shorter     *)
(* image can be followed by the tail of a longer one.                          *)
EXTENDS Checkpoint, TLC

CONSTANTS v1, short, long, p1, p2

MCReread == (short :> short) @@ (long :> Absent)
MCSize == [e \in Array |-> IF e = NoVariables THEN 1 ELSE 2]
MCCommands == [p \in Pid |-> {"setenv", "exit", "delete"}]
Symmetry == Permutations({p1, p2})

\* What has been taken from the arrays is a memory no step here depends on.
MCView == <<procVars, step, fd, image, off, fileVars>>

===============================================================================
