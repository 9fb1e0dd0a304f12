------------------------------ MODULE Checkpoint ------------------------------
(***************************************************************************)
(* Crash recovery of Las_shell (src/src/crash_recovery.c with its callers  *)
(* in main.c and Commands.c): the periodic checkpoint thread, the main     *)
(* thread's own saves, the temporary and the state file, the lock, the     *)
(* environment array the thread reads, and start-up, exit and crash.       *)
(*                                                                         *)
(* A process id lives once; a later shell is another Pid, so restarts and  *)
(* shells that run side by side are the same thing.  The main thread is    *)
(* <<p, "main">>, the checkpoint thread <<p, "thread">>; both save with    *)
(* checkpoint_save_now(), which takes no lock itself.                      *)
(***************************************************************************)
EXTENDS Integers, FiniteSets

CONSTANTS
    Pid,        \* shell processes
    Var,        \* names of environment variables
    Value,      \* their values
    Absent,     \* in place of the value of a variable that is not there
    Garbage,    \* what a read of a freed array may yield instead of a value
    Reread,     \* what each value is after a save and a restore
    Hole,       \* bytes of a file never written
    None,       \* no file, no descriptor, nothing stored
    Inode,      \* inode numbers
    Size,       \* number of write(2) calls an image of each content takes
    MaxSize,    \* bound on Size
    Batch,      \* those started as `las_shell -c` or with a script to run
    Commands,   \* what user and supervisor do to each shell in this instance
    Faults,     \* the failures of this instance
    MaxLive     \* bound on the shells that run at the same time

AllCommands == {"setenv", "setenv_new", "unsetenv", "save", "restore",
                "delete", "exit", "sigterm"}
\* The contents of an environment array; and those a read of a freed one yields.
Env == [Var -> Value \cup {Absent}]
Array == [Var -> Value \cup {Absent, Garbage}]

AllFaults == {"crash", "fopen", "fwrite", "fclose", "rename", "pthread_create"}

ASSUME CheckpointAssumption ==
    /\ Absent \notin Value
    /\ Garbage \notin Value \cup {Absent}
    /\ Reread \in [Value -> Value \cup {Absent}]
    /\ None \notin Inode
    /\ Inode \subseteq Nat
    /\ Hole \notin [pid : Pid, env : Array, by : {"main", "thread"}]
    /\ None \notin [pid : Pid, env : Array, by : {"main", "thread"}]
    /\ None \notin [pid : Pid, env : Array] \cup Pid
    /\ MaxSize \in Nat \ {0}
    /\ Size \in [Array -> 1..MaxSize]
    /\ Batch \subseteq Pid
    /\ Commands \in [Pid -> SUBSET AllCommands]
    /\ Faults \subseteq AllFaults
    /\ MaxLive \in Nat

VARIABLES
    pc,        \* pc[p]: where the main thread of p is
    thread,    \* thread[p]: its checkpoint thread: "none", "run" or "done"
    env,       \* env[p]: content of the array shell_loop() works on
    refLive,   \* refLive[p]: no read of *g_env_ptr_ref meets freed memory
    restored,  \* restored[p]: result of the last checkpoint_restore()
    step,      \* step[w]: where thread w is in checkpoint_save_now()
    fd,        \* fd[w]: the inode its FILE* is open on
    image,     \* image[w]: the bytes it serialised
    off,       \* off[w]: how many of its writes reached the file
    taken,     \* history: the [pid, env] of every image serialised so far
    data,      \* data[i]: content of inode i, write by write
    tmp,       \* tmp[p]: inode named <state>.tmp.<pid>
    state      \* inode named ~/.las_shell_state

procVars == <<pc, thread, env, refLive, restored>>
saveVars == <<step, fd, image, off, taken>>
fileVars == <<data, tmp, state>>
vars == <<procVars, saveVars, fileVars>>

Writer == Pid \X {"main", "thread"}
\* The bytes of one save.  "by" stands for the TIMESTAMP line: saves that overlap
\* are one by each thread, and differ in it once the overlap spans a second.
Image == [pid : Pid, env : Array, by : {"main", "thread"}]
Content == [1..MaxSize -> Image \cup {Hole}]

Running == {"boot", "ready", "prompt", "save", "termsave", "stop", "termstop",
            "join", "termjoin", "delete"}
Ended == {"exited", "termed", "crashed", "returned"}
Live(p) == pc[p] \in Running

\* What a save keeps of an environment: a variable of more than 4096 characters is
\* left out, and a backslash followed by an n comes back as a newline.
Kept(e) == [v \in Var |-> IF e[v] \in Value THEN Reread[e[v]] ELSE e[v]]

\* checkpoint_restore() merges: a saved variable replaces the one of that name or is
\* added, and what the shell has besides stays.
Merge(cur, saved) == [v \in Var |-> IF saved[v] = Absent THEN cur[v] ELSE saved[v]]
NoVariables == [v \in Var |-> Absent]

\* The bytes write_checkpoint_to_fd() produces for m, its CRC line included.
ImageOf(m) == [i \in 1..MaxSize |-> IF i <= Size[m.env] THEN m ELSE Hole]
Empty == [i \in 1..MaxSize |-> Hole]

\* The checksum test of checkpoint_restore(): all of one image, nothing else.
Whole(c) == c[1] # Hole /\ c = ImageOf(c[1])
\* What its parser reads from the bytes; from a mixture, nobody's environment.
ImageIn(c) == IF Whole(c) THEN c[1] ELSE [pid |-> None, env |-> [v \in Var |-> Garbage], by |-> "main"]

\* g_chk_mutex.  The critical sections of the main thread are single actions
\* here, so the lock is taken exactly while the thread is inside its save.
LockFree(p) == step[<<p, "thread">>] = "none"

FreeInode(i) ==
    /\ i # state
    /\ \A p \in Pid : tmp[p] # i
    /\ \A w \in Writer : fd[w] # i

-------------------------------------------------------------------------------
Init ==
    /\ pc = [p \in Pid |-> "unborn"]
    /\ thread = [p \in Pid |-> "none"]
    /\ env \in [Pid -> Env]
    /\ refLive = [p \in Pid |-> TRUE]
    /\ restored = [p \in Pid |-> "never"]
    /\ step = [w \in Writer |-> "none"]
    /\ fd = [w \in Writer |-> None]
    /\ image = [w \in Writer |-> None]
    /\ off = [w \in Writer |-> 0]
    /\ taken = {}
    /\ data = [i \in Inode |-> Empty]
    /\ tmp = [p \in Pid |-> None]
    /\ state = None

Goto(p, from, to) == pc[p] = from /\ pc' = [pc EXCEPT ![p] = to]

-------------------------------------------------------------------------------
(* checkpoint_save_now(), run by the main thread or the checkpoint thread. *)

BeginSave(w) == step' = [step EXCEPT ![w] = "open"]

\* What follows the call: the prompt, the rest of the SIGTERM branch, or the
\* unlock in checkpoint_thread_fn().
EndSave(w) ==
    /\ step' = [step EXCEPT ![w] = "none"]
    /\ fd' = [fd EXCEPT ![w] = None]
    /\ image' = [image EXCEPT ![w] = None]
    /\ off' = [off EXCEPT ![w] = 0]
    /\ IF w[2] = "main"
       THEN pc' = [pc EXCEPT ![w[1]] = IF @ = "save" THEN "prompt" ELSE "termstop"]
       ELSE UNCHANGED pc
    /\ UNCHANGED <<thread, env, refLive, restored, taken>>

\* fopen(tmp_path, "w") truncates the file if the name exists, whoever has it
\* open, and creates it otherwise.
OpenTmp(w) ==
    LET p == w[1] IN
    /\ step[w] = "open"
    /\ \E i \in Inode :
        /\ IF tmp[p] = None
           THEN FreeInode(i) /\ \A j \in Inode : FreeInode(j) => i <= j
           ELSE i = tmp[p]
        /\ tmp' = [tmp EXCEPT ![p] = i]
        /\ data' = [data EXCEPT ![i] = Empty]
        /\ fd' = [fd EXCEPT ![w] = i]
    /\ step' = [step EXCEPT ![w] = "serialise"]
    /\ UNCHANGED <<procVars, image, off, taken, state>>

OpenFails(w) ==
    /\ "fopen" \in Faults
    /\ step[w] = "open"
    /\ EndSave(w)
    /\ UNCHANGED fileVars

\* The array a save reads: `checkpoint save` passes the live one, the thread
\* and the SIGTERM branch pass *g_env_ptr_ref, which may be freed memory.
ReadsLive(w) == refLive[w[1]] \/ (w[2] = "main" /\ pc[w[1]] = "save")

Serialise(w) ==
    LET p == w[1] IN
    /\ step[w] = "serialise"
    /\ \E e \in IF ReadsLive(w) THEN {env[p]} ELSE Array :
        /\ image' = [image EXCEPT ![w] = [pid |-> p, env |-> Kept(e), by |-> w[2]]]
        /\ taken' = taken \cup {[pid |-> p, env |-> Kept(e)]}
    /\ step' = [step EXCEPT ![w] = "write"]
    /\ UNCHANGED <<procVars, fd, off, fileVars>>

\* Mutant: the loop runs one write past the image.
WriteChunkPastEnd(w) ==
    /\ step[w] = "write"
    /\ data' = [data EXCEPT ![fd[w]][off[w] + 1] = image[w]]
    /\ off' = [off EXCEPT ![w] = @ + 1]
    /\ IF off[w] + 1 > Size[image[w].env]
       THEN /\ step' = [step EXCEPT ![w] = "rename"]
            /\ fd' = [fd EXCEPT ![w] = None]
       ELSE UNCHANGED <<step, fd>>
    /\ UNCHANGED <<procVars, image, taken, tmp, state>>

\* One write(2) at the descriptor's own offset; fclose() makes the last one.
WriteChunk(w) ==
    /\ step[w] = "write"
    /\ data' = [data EXCEPT ![fd[w]][off[w] + 1] = image[w]]
    /\ off' = [off EXCEPT ![w] = @ + 1]
    /\ IF off[w] + 1 = Size[image[w].env]
       THEN /\ step' = [step EXCEPT ![w] = "rename"]
            /\ fd' = [fd EXCEPT ![w] = None]
       ELSE UNCHANGED <<step, fd>>
    /\ UNCHANGED <<procVars, image, taken, tmp, state>>

\* Mutant: the short count is not looked at.
WriteFailsUnchecked(w) ==
    /\ "fwrite" \in Faults
    /\ step[w] = "write"
    /\ off[w] + 1 < Size[image[w].env]
    /\ step' = [step EXCEPT ![w] = "rename"]
    /\ fd' = [fd EXCEPT ![w] = None]
    /\ UNCHANGED <<procVars, image, off, taken, fileVars>>

\* fwrite() comes up short: the temporary name is removed.
WriteFails(w) ==
    /\ "fwrite" \in Faults
    /\ step[w] = "write"
    /\ off[w] + 1 < Size[image[w].env]
    /\ tmp' = [tmp EXCEPT ![w[1]] = None]
    /\ EndSave(w)
    /\ UNCHANGED <<data, state>>

\* The flush inside fclose() fails; its result is not looked at.
FlushLost(w) ==
    /\ "fclose" \in Faults
    /\ step[w] = "write"
    /\ off[w] + 1 = Size[image[w].env]
    /\ step' = [step EXCEPT ![w] = "rename"]
    /\ fd' = [fd EXCEPT ![w] = None]
    /\ UNCHANGED <<procVars, image, off, taken, fileVars>>

\* rename() works on names: it publishes whatever the name stands for now.
Rename(w) ==
    /\ step[w] = "rename"
    /\ tmp[w[1]] # None
    /\ state' = tmp[w[1]]
    /\ tmp' = [tmp EXCEPT ![w[1]] = None]
    /\ EndSave(w)
    /\ UNCHANGED data

\* ENOENT (the other thread renamed it first) or an injected failure.
RenameFails(w) ==
    /\ step[w] = "rename"
    /\ tmp[w[1]] = None \/ "rename" \in Faults
    /\ tmp' = [tmp EXCEPT ![w[1]] = None]
    /\ EndSave(w)
    /\ UNCHANGED <<data, state>>

SaveStep(w) ==
    \/ OpenTmp(w) \/ OpenFails(w) \/ Serialise(w) \/ WriteChunk(w)
    \/ WriteFails(w) \/ FlushLost(w) \/ Rename(w) \/ RenameFails(w)

-------------------------------------------------------------------------------
(* checkpoint_restore(). *)

\* Mutant: no checksum test.
RestoreResultUnchecked(p) ==
    IF state = None THEN "none"
    ELSE IF ImageIn(data[state]).pid = p THEN "stale" ELSE "ok"

RestoreResult(p) ==
    IF state = None THEN "none"
    ELSE IF ~Whole(data[state]) THEN "corrupt"
    ELSE IF ImageIn(data[state]).pid = p THEN "stale" ELSE "ok"

\* Mutant: the image replaces the environment.
RestoreReplaces(p) ==
    /\ restored' = [restored EXCEPT ![p] = RestoreResult(p)]
    /\ IF RestoreResult(p) = "ok"
       THEN /\ env' = [env EXCEPT ![p] = ImageIn(data[state]).env]
            /\ refLive' = [refLive EXCEPT ![p] = @ /\ pc[p] = "boot"]
       ELSE UNCHANGED <<env, refLive>>

\* On "ok" the merged array replaces the old one, which is freed; nothing here
\* takes the lock.  *env_ptr is g_env_ptr_ref's target only before start.  An image
\* without variables replaces nothing.
Restore(p) ==
    /\ restored' = [restored EXCEPT ![p] = RestoreResult(p)]
    /\ IF RestoreResult(p) = "ok"
       THEN LET saved == ImageIn(data[state]).env IN
            /\ env' = [env EXCEPT ![p] = Merge(@, saved)]
            /\ refLive' = [refLive EXCEPT ![p] = @ /\ (pc[p] = "boot" \/ saved = NoVariables)]
       ELSE UNCHANGED <<env, refLive>>

-------------------------------------------------------------------------------
(* The checkpoint thread. *)

\* pthread_cond_timedwait() times out and the stop flag is clear: save, with
\* the lock held to the end of the save.
ThreadWakes(p) ==
    /\ thread[p] = "run"
    /\ LockFree(p)
    /\ pc[p] \notin {"join", "termjoin"}
    /\ BeginSave(<<p, "thread">>)
    /\ UNCHANGED <<procVars, fd, image, off, taken, fileVars>>

\* The stop flag is set: leave the loop.
ThreadStops(p) ==
    /\ thread[p] = "run"
    /\ LockFree(p)
    /\ pc[p] \in {"join", "termjoin"}
    /\ thread' = [thread EXCEPT ![p] = "done"]
    /\ UNCHANGED <<pc, env, refLive, restored, saveVars, fileVars>>

-------------------------------------------------------------------------------
(* The main thread: start-up. *)

Launch(p) ==
    /\ Cardinality({q \in Pid : Live(q)}) < MaxLive
    /\ Goto(p, "unborn", "boot")
    /\ UNCHANGED <<thread, env, refLive, restored, saveVars, fileVars>>

BootRestore(p) ==
    /\ Goto(p, "boot", "ready")
    /\ Restore(p)
    /\ UNCHANGED <<thread, saveVars, fileVars>>

\* checkpoint_start(&env, 0), then shell_loop(env).
StartThread(p) ==
    /\ p \notin Batch
    /\ Goto(p, "ready", "prompt")
    /\ refLive' = [refLive EXCEPT ![p] = TRUE]
    /\ \/ thread' = [thread EXCEPT ![p] = "run"]
       \/ "pthread_create" \in Faults /\ UNCHANGED thread
    /\ UNCHANGED <<env, restored, saveVars, fileVars>>

\* -c and script mode: no thread; the next line of the script is its prompt.
StartBatch(p) ==
    /\ p \in Batch
    /\ Goto(p, "ready", "prompt")
    /\ UNCHANGED <<thread, env, refLive, restored, saveVars, fileVars>>

\* The last line has run: main() returns, nothing is stopped or deleted.
Return(p) ==
    /\ p \in Batch
    /\ Goto(p, "prompt", "returned")
    /\ UNCHANGED <<thread, env, refLive, restored, saveVars, fileVars>>

-------------------------------------------------------------------------------
(* The main thread: commands, each at the prompt. *)

Can(p, c) == c \in Commands[p] /\ pc[p] = "prompt"

\* Mutant: the same without the lock.
SetenvReplaceUnlocked(p) ==
    /\ Can(p, "setenv")
    /\ \E v \in Var, x \in Value : env[p][v] # Absent /\ env' = [env EXCEPT ![p][v] = x]
    /\ UNCHANGED <<pc, thread, refLive, restored, saveVars, fileVars>>

\* setenv of a variable that exists: one slot of the array, under the lock.
SetenvReplace(p) ==
    /\ Can(p, "setenv")
    /\ LockFree(p)
    /\ \E v \in Var, x \in Value : env[p][v] # Absent /\ env' = [env EXCEPT ![p][v] = x]
    /\ UNCHANGED <<pc, thread, refLive, restored, saveVars, fileVars>>

\* setenv of a new variable: a longer array; the old one is freed under the
\* lock, and g_env_ptr_ref still leads to it.
SetenvNew(p) ==
    /\ Can(p, "setenv_new")
    /\ LockFree(p)
    /\ \E v \in Var, x \in Value : env[p][v] = Absent /\ env' = [env EXCEPT ![p][v] = x]
    /\ refLive' = [refLive EXCEPT ![p] = FALSE]
    /\ UNCHANGED <<pc, thread, restored, saveVars, fileVars>>

\* unsetenv of a variable that exists: the old array is freed without the lock.
Unsetenv(p) ==
    /\ Can(p, "unsetenv")
    /\ \E v \in Var : env[p][v] # Absent /\ env' = [env EXCEPT ![p][v] = Absent]
    /\ refLive' = [refLive EXCEPT ![p] = FALSE]
    /\ UNCHANGED <<pc, thread, restored, saveVars, fileVars>>

\* checkpoint save: no lock.
CommandSave(p) ==
    /\ Can(p, "save")
    /\ Goto(p, "prompt", "save")
    /\ BeginSave(<<p, "main">>)
    /\ UNCHANGED <<thread, env, refLive, restored, fd, image, off, taken, fileVars>>

CommandRestore(p) ==
    /\ Can(p, "restore")
    /\ Restore(p)
    /\ UNCHANGED <<pc, thread, saveVars, fileVars>>

CommandDelete(p) ==
    /\ Can(p, "delete")
    /\ state' = None
    /\ UNCHANGED <<procVars, saveVars, data, tmp>>

\* SIGTERM seen by the poll at the top of shell_loop(): save, stop, no delete.
Sigterm(p) ==
    /\ p \notin Batch
    /\ Can(p, "sigterm")
    /\ LockFree(p)
    /\ Goto(p, "prompt", "termsave")
    /\ BeginSave(<<p, "main">>)
    /\ UNCHANGED <<thread, env, refLive, restored, fd, image, off, taken, fileVars>>

\* exit, or end of input: stop, delete.
CommandExit(p) ==
    /\ Can(p, "exit")
    /\ Goto(p, "prompt", "stop")
    /\ UNCHANGED <<thread, env, refLive, restored, saveVars, fileVars>>

\* Mutant: the flag is set and nobody joins.
StopWithoutJoin(p, from, join, next) ==
    /\ LockFree(p)
    /\ Goto(p, from, next)
    /\ UNCHANGED <<thread, env, refLive, restored, saveVars, fileVars>>

\* checkpoint_stop(): returns at once without a thread; otherwise sets the flag
\* under the lock and joins.
Stop(p, from, join, next) ==
    /\ \/ thread[p] = "none" /\ Goto(p, from, next)
       \/ thread[p] # "none" /\ LockFree(p) /\ Goto(p, from, join)
       \/ thread[p] = "done" /\ Goto(p, join, next)
    /\ UNCHANGED <<thread, env, refLive, restored, saveVars, fileVars>>

\* checkpoint_delete(), then the process ends.
Delete(p) ==
    /\ Goto(p, "delete", "exited")
    /\ state' = None
    /\ UNCHANGED <<thread, env, refLive, restored, saveVars, data, tmp>>

StopStep(p) ==
    \/ Stop(p, "stop", "join", "delete")
    \/ Stop(p, "termstop", "termjoin", "termed")

Command(p) ==
    \/ SetenvReplace(p) \/ SetenvNew(p) \/ Unsetenv(p)
    \/ CommandSave(p) \/ CommandRestore(p) \/ CommandDelete(p)
    \/ Sigterm(p) \/ CommandExit(p)

-------------------------------------------------------------------------------
(* The end of a process that did not choose it: SIGKILL, or a segmentation *)
(* fault in a save that walks a freed array.  What was written or renamed  *)
(* before it stays; a power failure, which may lose it, is not a Crash.    *)

FaultingRead(p) ==
    \E w \in Writer : w[1] = p /\ step[w] = "serialise" /\ ~ReadsLive(w)

Crash(p) ==
    /\ Live(p)
    /\ "crash" \in Faults \/ FaultingRead(p)
    /\ pc' = [pc EXCEPT ![p] = "crashed"]
    /\ thread' = [thread EXCEPT ![p] = "none"]
    /\ step' = [w \in Writer |-> IF w[1] = p THEN "none" ELSE step[w]]
    /\ fd' = [w \in Writer |-> IF w[1] = p THEN None ELSE fd[w]]
    /\ image' = [w \in Writer |-> IF w[1] = p THEN None ELSE image[w]]
    /\ off' = [w \in Writer |-> IF w[1] = p THEN 0 ELSE off[w]]
    /\ UNCHANGED <<env, refLive, restored, taken, fileVars>>

-------------------------------------------------------------------------------
Process(p) ==
    \/ Launch(p) \/ BootRestore(p) \/ StartThread(p) \/ StartBatch(p) \/ Return(p)
    \/ Command(p) \/ StopStep(p) \/ Delete(p) \/ Crash(p)
    \/ ThreadWakes(p) \/ ThreadStops(p)

Next ==
    \/ \E p \in Pid : Process(p)
    \/ \E w \in Writer : SaveStep(w)

Spec == Init /\ [][Next]_vars

-------------------------------------------------------------------------------
(* Properties. *)

TypeOK ==
    /\ pc \in [Pid -> {"unborn"} \cup Running \cup Ended]
    /\ thread \in [Pid -> {"none", "run", "done"}]
    /\ env \in [Pid -> Array]
    /\ refLive \in [Pid -> BOOLEAN]
    /\ restored \in [Pid -> {"never", "none", "corrupt", "stale", "ok"}]
    /\ step \in [Writer -> {"none", "open", "serialise", "write", "rename"}]
    /\ fd \in [Writer -> Inode \cup {None}]
    /\ image \in [Writer -> Image \cup {None}]
    /\ off \in [Writer -> 0..MaxSize]
    /\ taken \subseteq [pid : Pid, env : Array]
    /\ data \in [Inode -> Content]
    /\ tmp \in [Pid -> Inode \cup {None}]
    /\ state \in Inode \cup {None}

\* A clean exit is final: whatever saves were under way when it began, nothing
\* that shell wrote is left for the next start-up to restore, and its temporary
\* file is gone (command_exit(), main(): stop and join first, delete second).
CleanExitLeavesNothing ==
    \A p \in Pid : pc[p] = "exited" =>
        /\ tmp[p] = None
        /\ state # None =>
            \A i \in 1..MaxSize : data[state][i] # Hole => data[state][i].pid # p

\* Freed memory is the only source of rubbish.  A shell finds rubbish in a variable
\* only if some save really read it there from an array that a command had pulled
\* from under it; no mixture of two images, no image cut off or with a lost write,
\* no restore at start-up or at the prompt, before or after, brings it about
\* (checkpoint_restore()'s checksum, checkpoint_get_live_env()).
EnvIsReal ==
    \A p \in Pid, v \in Var : env[p][v] = Garbage =>
        \E m \in taken : m.env[v] = Garbage /\ ~refLive[m.pid]

\* A restore takes over one save of one other shell, all of it, and leaves what is not
\* in it alone: however two saves were mixed on disk, an environment changes only by
\* the command of its user, one variable at a time, or by the merge of one image
\* that some save took from an array (checkpoint_restore(), at start-up and at the
\* prompt, with freed arrays or without).
RestoresOneSave ==
    [][\A p \in Pid : env'[p] # env[p] =>
         \/ /\ pc[p] = "prompt"
            /\ \E v \in Var, x \in Value \cup {Absent} : env'[p] = [env[p] EXCEPT ![v] = x]
         \/ \E m \in taken : m.pid # p /\ env'[p] = Merge(env[p], m.env)]_vars

\* At every instant, so after a crash at any instant, the state file is absent
\* or exactly one complete image.
PublishedWhole == state # None => Whole(data[state])

\* The sessions of which that can be proved: no main thread saves, and no flush
\* fails unseen.  Everything else may happen.
QuietSession ==
    /\ \A p \in Pid : Commands[p] \cap {"save", "sigterm"} = {}
    /\ "fclose" \notin Faults

\* With one thread saving, a checkpoint is as good as one atomic step.
Stored ==
    IF state = None THEN None
    ELSE IF Whole(data[state])
         THEN [pid |-> ImageIn(data[state]).pid, env |-> ImageIn(data[state]).env]
         ELSE [pid |-> None, env |-> [v \in Var |-> Garbage]]

Store == INSTANCE SessionStore WITH stored <- Stored
ImplementsStore == Store!Spec

===============================================================================
