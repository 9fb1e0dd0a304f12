-------------------------- MODULE MCCheckpointRestore --------------------------
(* A shell with all its commands, whose two threads save at the same time, and  *)
(* a batch shell before or after it that restores, and saves for it to restore. *)
EXTENDS Checkpoint

CONSTANTS v1, x1, p1, p2

MCReread == [x \in Value |-> x]
MCSize == [e \in Array |-> IF e = NoVariables THEN 1 ELSE 2]
MCCommands == [p \in Pid |-> IF p \in Batch THEN {"restore", "save"}
                             ELSE {"setenv_new", "unsetenv", "restore", "save", "exit", "sigterm"}]

\* What the next steps depend on: not the result of an earlier restore, the array of a
\* shell that has ended, a buffer already written or the bytes of an inode nobody
\* names or has open, which the next fopen() truncates.
MCView == <<pc, thread, refLive, step, fd, tmp, state, taken,
            [p \in Pid |-> IF pc[p] \in Ended THEN <<>> ELSE env[p]],
            [w \in Writer |-> IF step[w] = "write" THEN <<image[w], off[w]>> ELSE <<>>],
            [i \in Inode |-> IF FreeInode(i) THEN <<>> ELSE data[i]]>>

===============================================================================
