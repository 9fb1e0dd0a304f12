--------------------------- MODULE CheckpointProofs ---------------------------
(***************************************************************************)
(* Proofs about Checkpoint, for any number of shells, any environments,    *)
(* image sizes and faults.                                                 *)
(***************************************************************************)
EXTENDS Checkpoint, TLAPS

\* A writer is one of the two threads of a process.
LEMMA WriterParts ==
    \A w \in Writer : w = <<w[1], w[2]>> /\ w[1] \in Pid /\ w[2] \in {"main", "thread"}
  BY DEF Writer

LEMMA TwoWriters ==
    \A p \in Pid : <<p, "main">> \in Writer /\ <<p, "thread">> \in Writer
  BY DEF Writer

\* What an image turns into on disk is a content; the empty file is one.
LEMMA ContentTypes ==
    /\ Empty \in Content
    /\ \A m \in Image : ImageOf(m) \in Content
    /\ \A m \in Image : Size[m.env] \in 1..MaxSize
    /\ \A c \in Content : \A k \in 1..MaxSize : c[k] \in Image \cup {Hole}
    /\ 1 \in 1..MaxSize
    /\ Hole \notin Image
    /\ None \notin Image
  BY CheckpointAssumption DEF Empty, Content, ImageOf, Image

\* What a save keeps of an array and what a restore makes of two is an array.
LEMMA ArrayTypes ==
    /\ \A e \in Array : Kept(e) \in Array
    /\ \A c, e \in Array : Merge(c, e) \in Array
    /\ [v \in Var |-> Garbage] \in Array
    /\ \A e \in Env : e \in Array
    /\ \A e \in Array, v \in Var, x \in Value \cup {Absent} : [e EXCEPT ![v] = x] \in Array
  BY CheckpointAssumption DEF Kept, Merge, Array, Env

-------------------------------------------------------------------------------
(* Types. *)

\* What a save has in hand at each of its steps.
WriterOK ==
    \A w \in Writer :
        /\ step[w] \in {"serialise", "write"} => fd[w] \in Inode
        /\ step[w] \notin {"serialise", "write"} => fd[w] = None
        /\ step[w] \in {"write", "rename"} => image[w] \in Image
        /\ step[w] = "write" => off[w] < Size[image[w].env]
        /\ step[w] \in {"none", "open", "serialise"} => off[w] = 0

TypeInv == TypeOK /\ WriterOK

\* The bookkeeping at the end of a save keeps the types.
LEMMA EndSaveType ==
    ASSUME TypeInv, NEW w \in Writer, EndSave(w)
    PROVE  /\ pc' \in [Pid -> {"unborn"} \cup Running \cup Ended]
           /\ thread' \in [Pid -> {"none", "run", "done"}]
           /\ env' \in [Pid -> Array]
           /\ refLive' \in [Pid -> BOOLEAN]
           /\ restored' \in [Pid -> {"never", "none", "corrupt", "stale", "ok"}]
           /\ step' \in [Writer -> {"none", "open", "serialise", "write", "rename"}]
           /\ fd' \in [Writer -> Inode \cup {None}]
           /\ image' \in [Writer -> Image \cup {None}]
           /\ off' \in [Writer -> 0..MaxSize]
           /\ taken' \subseteq [pid : Pid, env : Array]
           /\ WriterOK'
  <1>1. 0 \in 0..MaxSize
    BY CheckpointAssumption
  <1>2. pc' \in [Pid -> {"unborn"} \cup Running \cup Ended]
    BY WriterParts DEF EndSave, TypeInv, TypeOK, Running
  <1>3. WriterOK'
    BY <1>1 DEF EndSave, TypeInv, TypeOK, WriterOK
  <1> QED
    BY <1>1, <1>2, <1>3 DEF EndSave, TypeInv, TypeOK

\* Whatever restore reads is an environment or freed bytes.
LEMMA RestoreType ==
    ASSUME TypeInv, NEW p \in Pid, Restore(p)
    PROVE  /\ env' \in [Pid -> Array]
           /\ refLive' \in [Pid -> BOOLEAN]
           /\ restored' \in [Pid -> {"never", "none", "corrupt", "stale", "ok"}]
  <1>1. RestoreResult(p) \in {"none", "corrupt", "stale", "ok"}
    BY DEF RestoreResult
  <1>2. ASSUME RestoreResult(p) = "ok"
        PROVE  Merge(env[p], ImageIn(data[state]).env) \in Array
    <2>1. state \in Inode
      BY <1>2 DEF RestoreResult, TypeInv, TypeOK
    <2>2. data[state] \in Content
      BY <2>1 DEF TypeInv, TypeOK
    <2>3. Whole(data[state])
      BY <1>2 DEF RestoreResult
    <2>4. ImageIn(data[state]).env \in Array
      BY <2>2, <2>3, ContentTypes DEF ImageIn, Whole, Image
    <2> QED
      BY <2>4, ArrayTypes DEF TypeInv, TypeOK
  <1> QED
    BY <1>1, <1>2 DEF Restore, TypeInv, TypeOK

\* The commands of the user change one variable, to a value or to none.
LEMMA UserSets ==
    ASSUME TypeInv, NEW p \in Pid, SetenvReplace(p) \/ SetenvNew(p) \/ Unsetenv(p)
    PROVE  /\ \E v \in Var, x \in Value \cup {Absent} :
                env' = [env EXCEPT ![p] = [env[p] EXCEPT ![v] = x]]
           /\ env' \in [Pid -> Array]
  <1>1. PICK v \in Var, x \in Value \cup {Absent} : env' = [env EXCEPT ![p][v] = x]
    BY DEF SetenvReplace, SetenvNew, Unsetenv
  <1>2. env' = [env EXCEPT ![p] = [env[p] EXCEPT ![v] = x]]
    BY <1>1
  <1>3. env[p] \in Array
    BY DEF TypeInv, TypeOK
  <1>4. [env[p] EXCEPT ![v] = x] \in Array
    BY <1>3, ArrayTypes
  <1>5. env' \in [Pid -> Array]
    BY <1>2, <1>4 DEF TypeInv, TypeOK
  <1> QED
    BY <1>2, <1>5

LEMMA TypeInit == Init => TypeInv
  BY CheckpointAssumption, ContentTypes, ArrayTypes DEF Init, TypeInv, TypeOK, WriterOK, Running

LEMMA TypeSave ==
    ASSUME TypeInv, NEW w \in Writer, SaveStep(w)
    PROVE  TypeInv'
  <1>1. CASE OpenTmp(w)
    BY <1>1, WriterParts, ContentTypes, CheckpointAssumption
    DEF OpenTmp, procVars, TypeInv, TypeOK, WriterOK
  <1>2. CASE OpenFails(w)
    BY <1>2, EndSaveType DEF OpenFails, fileVars, TypeInv, TypeOK
  <1>3. CASE Serialise(w)
    <2>1. PICK e \in Array :
            /\ image' = [image EXCEPT ![w] = [pid |-> w[1], env |-> Kept(e), by |-> w[2]]]
            /\ taken' = taken \cup {[pid |-> w[1], env |-> Kept(e)]}
      BY <1>3, WriterParts DEF Serialise, TypeInv, TypeOK
    <2>2. [pid |-> w[1], env |-> Kept(e), by |-> w[2]] \in Image
      BY WriterParts, ArrayTypes DEF Image
    <2>3. image' \in [Writer -> Image \cup {None}] /\ image'[w] \in Image
      BY <2>1, <2>2 DEF TypeInv, TypeOK
    <2>4. Size[image'[w].env] \in 1..MaxSize
      BY <2>3, ContentTypes
    <2>5. \A v \in Writer : v # w => image'[v] = image[v]
      BY <2>1 DEF TypeInv, TypeOK
    <2>6. taken' \subseteq [pid : Pid, env : Array]
      BY <2>1, ArrayTypes, WriterParts DEF TypeInv, TypeOK
    <2> QED
      BY <1>3, <2>3, <2>4, <2>5, <2>6 DEF Serialise, procVars, fileVars, TypeInv, TypeOK, WriterOK
  <1>4. CASE WriteChunk(w)
    <2>1. fd[w] \in Inode /\ image[w] \in Image /\ off[w] < Size[image[w].env]
      BY <1>4 DEF WriteChunk, TypeInv, WriterOK
    <2>2. Size[image[w].env] \in 1..MaxSize
      BY <2>1, ContentTypes
    <2>3. off[w] + 1 \in 1..MaxSize
      BY <2>1, <2>2, CheckpointAssumption DEF TypeInv, TypeOK
    <2>4. data' \in [Inode -> Content]
      BY <1>4, <2>1, <2>3 DEF WriteChunk, TypeInv, TypeOK, Content
    <2>5. MaxSize \in Nat /\ None \notin Inode
      BY CheckpointAssumption
    <2>6. off' \in [Writer -> 0..MaxSize]
      BY <1>4, <2>1, <2>2, <2>3, <2>5 DEF WriteChunk, TypeInv, TypeOK
    <2>7. TypeOK'
      BY <1>4, <2>4, <2>6 DEF WriteChunk, procVars, TypeInv, TypeOK
    <2>8. WriterOK'
      <3>1. /\ image' = image /\ off'[w] = off[w] + 1
            /\ \/ off[w] + 1 < Size[image[w].env] /\ step' = step /\ fd' = fd
               \/ step'[w] = "rename" /\ fd'[w] = None
        BY <1>4, <2>1, <2>2, <2>3, <2>5 DEF WriteChunk, TypeInv, TypeOK
      <3>2. \A u \in Writer : u # w => step'[u] = step[u] /\ fd'[u] = fd[u] /\ off'[u] = off[u]
        BY <1>4 DEF WriteChunk, TypeInv, TypeOK
      <3>3. step[w] = "write"
        BY <1>4 DEF WriteChunk
      <3> QED
        BY <2>1, <2>5, <3>1, <3>2, <3>3 DEF TypeInv, WriterOK
    <2> QED
      BY <2>7, <2>8 DEF TypeInv
  <1>5. CASE WriteFails(w)
    BY <1>5, EndSaveType, WriterParts DEF WriteFails, TypeInv, TypeOK
  <1>6. CASE FlushLost(w)
    BY <1>6 DEF FlushLost, procVars, fileVars, TypeInv, TypeOK, WriterOK
  <1>7. CASE Rename(w)
    BY <1>7, EndSaveType, WriterParts DEF Rename, TypeInv, TypeOK
  <1>8. CASE RenameFails(w)
    BY <1>8, EndSaveType, WriterParts DEF RenameFails, TypeInv, TypeOK
  <1> QED
    BY <1>1, <1>2, <1>3, <1>4, <1>5, <1>6, <1>7, <1>8 DEF SaveStep

\* Starting a save from rest keeps the types of the writers.
LEMMA BeginSaveType ==
    ASSUME TypeInv, NEW w \in Writer, BeginSave(w), step[w] = "none",
           UNCHANGED <<fd, image, off>>
    PROVE  /\ step' \in [Writer -> {"none", "open", "serialise", "write", "rename"}]
           /\ WriterOK'
  BY DEF BeginSave, TypeInv, TypeOK, WriterOK

LEMMA TypeProcess ==
    ASSUME TypeInv, NEW p \in Pid, Process(p),
           thread[p] = "run" \/ step[<<p, "thread">>] = "none",
           pc[p] = "prompt" => step[<<p, "main">>] = "none"
    PROVE  TypeInv'
  <1> USE TwoWriters DEF Running, Ended
  <1>1. CASE Launch(p)
    BY <1>1 DEF Launch, Goto, saveVars, fileVars, TypeInv, TypeOK, WriterOK
  <1>2. CASE BootRestore(p)
    BY <1>2, RestoreType DEF BootRestore, Goto, saveVars, fileVars, TypeInv, TypeOK, WriterOK
  <1>3. CASE StartThread(p)
    BY <1>3 DEF StartThread, Goto, saveVars, fileVars, TypeInv, TypeOK, WriterOK
  <1>4. CASE SetenvReplace(p) \/ SetenvNew(p) \/ Unsetenv(p)
    <2>1. env' \in [Pid -> Array]
      BY <1>4, UserSets
    <2>2. /\ refLive' = refLive \/ refLive' = [refLive EXCEPT ![p] = FALSE]
          /\ UNCHANGED <<pc, thread, restored, saveVars, fileVars>>
      BY <1>4 DEF SetenvReplace, SetenvNew, Unsetenv
    <2> QED
      BY <2>1, <2>2 DEF saveVars, fileVars, TypeInv, TypeOK, WriterOK
  <1>5. CASE CommandSave(p) \/ Sigterm(p)
    <2>1. /\ step' \in [Writer -> {"none", "open", "serialise", "write", "rename"}]
          /\ WriterOK'
      BY <1>5, BeginSaveType DEF CommandSave, Sigterm, Can
    <2> QED
      BY <1>5, <2>1 DEF CommandSave, Sigterm, Goto, fileVars, TypeInv, TypeOK
  <1>6. CASE CommandRestore(p)
    BY <1>6, RestoreType DEF CommandRestore, saveVars, fileVars, TypeInv, TypeOK, WriterOK
  <1>7. CASE CommandDelete(p)
    BY <1>7 DEF CommandDelete, procVars, saveVars, TypeInv, TypeOK, WriterOK
  <1>8. CASE CommandExit(p)
    BY <1>8 DEF CommandExit, Goto, saveVars, fileVars, TypeInv, TypeOK, WriterOK
  <1>9. CASE StopStep(p)
    BY <1>9 DEF StopStep, Stop, Goto, saveVars, fileVars, TypeInv, TypeOK, WriterOK
  <1>10. CASE Delete(p)
    BY <1>10 DEF Delete, Goto, saveVars, TypeInv, TypeOK, WriterOK
  <1>11. CASE Crash(p)
    <2>1. 0 \in 0..MaxSize
      BY CheckpointAssumption
    <2> QED
      BY <1>11, <2>1 DEF Crash, fileVars, TypeInv, TypeOK, WriterOK
  <1>12. CASE ThreadWakes(p)
    <2>1. /\ step' \in [Writer -> {"none", "open", "serialise", "write", "rename"}]
          /\ WriterOK'
      BY <1>12, BeginSaveType DEF ThreadWakes, LockFree
    <2> QED
      BY <1>12, <2>1 DEF ThreadWakes, procVars, fileVars, TypeInv, TypeOK
  <1>13. CASE ThreadStops(p)
    BY <1>13 DEF ThreadStops, saveVars, fileVars, TypeInv, TypeOK, WriterOK
  <1>14. CASE StartBatch(p) \/ Return(p)
    BY <1>14 DEF StartBatch, Return, Goto, saveVars, fileVars, TypeInv, TypeOK, WriterOK
  <1> QED
    BY <1>1, <1>2, <1>3, <1>4, <1>5, <1>6, <1>7, <1>8, <1>9, <1>10, <1>11, <1>12, <1>13, <1>14
    DEF Process, Command

-------------------------------------------------------------------------------
(* Who is where: how the two threads of a process constrain each other.    *)

PositionOK(p) ==
    /\ step[<<p, "main">>] # "none" <=> pc[p] \in {"save", "termsave"}
    /\ step[<<p, "thread">>] # "none" => thread[p] = "run"
    /\ thread[p] # "none" => (Live(p) \/ thread[p] = "done") /\ p \notin Batch
    /\ pc[p] \in {"unborn", "boot", "ready", "crashed"} => thread[p] = "none"
    /\ pc[p] \in {"delete", "exited", "termed"} => thread[p] # "run"

ThreadInv == \A p \in Pid : PositionOK(p)

\* Types and thread positions, together, are inductive.
LEMMA ThreadInit == Init => ThreadInv
  <1> SUFFICES ASSUME Init, NEW p \in Pid
               PROVE  PositionOK(p)
    BY DEF ThreadInv
  <1>1. pc[p] = "unborn" /\ thread[p] = "none"
    BY DEF Init
  <1>2. step[<<p, "main">>] = "none" /\ step[<<p, "thread">>] = "none"
    BY TwoWriters DEF Init
  <1> QED
    BY <1>1, <1>2 DEF PositionOK

LEMMA ThreadSave ==
    ASSUME TypeInv, ThreadInv, NEW w \in Writer, SaveStep(w)
    PROVE  ThreadInv'
  <1> SUFFICES ASSUME NEW q \in Pid
               PROVE  PositionOK(q)'
    BY DEF ThreadInv
  <1> DEFINE m == <<q, "main">>
             t == <<q, "thread">>
  <1>0. PositionOK(q) /\ m \in Writer /\ t \in Writer /\ m # t
    BY TwoWriters DEF ThreadInv
  <1>1. CASE OpenTmp(w) \/ Serialise(w) \/ WriteChunk(w) \/ FlushLost(w)
    <2>1. UNCHANGED <<pc, thread>>
      BY <1>1 DEF OpenTmp, Serialise, WriteChunk, FlushLost, procVars
    <2>2. step[w] # "none" /\ step'[w] # "none" /\ \A v \in Writer : v # w => step'[v] = step[v]
      BY <1>1 DEF OpenTmp, Serialise, WriteChunk, FlushLost, TypeInv, TypeOK
    <2>3. (step'[m] # "none" <=> step[m] # "none") /\ (step'[t] # "none" <=> step[t] # "none")
      BY <1>0, <2>2
    <2> QED
      BY <1>0, <2>1, <2>3 DEF PositionOK, Live
  <1>2. CASE EndSave(w) /\ step[w] # "none"
    <2>1. step' = [step EXCEPT ![w] = "none"] /\ thread' = thread
      BY <1>2 DEF EndSave
    <2>2. step'[w] = "none" /\ \A v \in Writer : v # w => step'[v] = step[v]
      BY <2>1 DEF TypeInv, TypeOK
    <2>3. CASE w = m
      <3>1. w[1] = q /\ w[2] = "main"
        BY <2>3
      <3>2. pc[q] \in {"save", "termsave"}
        BY <1>0, <1>2, <2>3 DEF PositionOK
      <3>3. pc'[q] \in {"prompt", "termstop"}
        BY <1>2, <3>1, <3>2 DEF EndSave, TypeInv, TypeOK
      <3>4. step'[m] = "none" /\ step'[t] = step[t]
        BY <1>0, <2>2, <2>3
      <3> QED
        BY <1>0, <2>1, <3>2, <3>3, <3>4 DEF PositionOK, Live, Running
    <2>4. CASE w # m
      <3>1. pc'[q] = pc[q]
        <4>1. w[2] = "main" => w[1] # q
          BY <2>4, WriterParts
        <4> QED
          BY <1>2, <4>1 DEF EndSave, TypeInv, TypeOK
      <3>2. step'[m] = step[m] /\ step'[t] \in {step[t], "none"}
        BY <1>0, <2>2, <2>4
      <3> QED
        BY <1>0, <2>1, <3>1, <3>2 DEF PositionOK, Live
    <2> QED
      BY <2>3, <2>4
  <1> QED
    BY <1>1, <1>2 DEF SaveStep, OpenFails, WriteFails, Rename, RenameFails

LEMMA ThreadProcess ==
    ASSUME TypeInv, ThreadInv, NEW p \in Pid, Process(p)
    PROVE  ThreadInv'
  <1> SUFFICES ASSUME NEW q \in Pid
               PROVE  PositionOK(q)'
    BY DEF ThreadInv
  <1> DEFINE m == <<q, "main">>
             t == <<q, "thread">>
  <1>0. PositionOK(q) /\ m \in Writer /\ t \in Writer /\ m # t /\ m[1] = q /\ t[1] = q
    BY TwoWriters DEF ThreadInv
  <1> USE <1>0 DEF Live, Running, PositionOK, TypeInv, TypeOK
  <1>1. CASE Launch(p) \/ BootRestore(p) \/ StartThread(p) \/ StartBatch(p) \/ Return(p)
    BY <1>1 DEF Launch, BootRestore, StartThread, StartBatch, Return, Goto, saveVars
  <1>2. CASE SetenvReplace(p) \/ SetenvNew(p) \/ Unsetenv(p) \/ CommandRestore(p) \/ CommandDelete(p)
    BY <1>2 DEF SetenvReplace, SetenvNew, Unsetenv, CommandRestore, CommandDelete,
                procVars, saveVars
  <1>3. CASE CommandSave(p) \/ Sigterm(p)
    <2>1. /\ pc[p] = "prompt" /\ pc'[p] \in {"save", "termsave"}
          /\ p # q => pc'[q] = pc[q]
          /\ thread' = thread
          /\ step' = [step EXCEPT ![<<p, "main">>] = "open"]
      BY <1>3 DEF CommandSave, Sigterm, Goto, BeginSave
    <2>2. step'[t] = step[t] /\ step'[m] = IF p = q THEN "open" ELSE step[m]
      BY <2>1
    <2> QED
      BY <2>1, <2>2
  <1>4. CASE CommandExit(p) \/ Delete(p)
    BY <1>4 DEF CommandExit, Delete, Goto, saveVars
  <1>5. CASE StopStep(p)
    <2>1. UNCHANGED <<step, thread>> /\ (p # q => pc'[q] = pc[q])
      BY <1>5 DEF StopStep, Stop, Goto, saveVars
    <2>2. CASE p = q
      <3>1. /\ pc[q] \in {"stop", "termstop", "join", "termjoin"}
            /\ \/ pc'[q] \in {"join", "termjoin"} /\ thread[q] # "none"
               \/ pc'[q] \in {"delete", "termed"} /\ thread[q] \in {"none", "done"}
        BY <1>5, <2>2 DEF StopStep, Stop, Goto
      <3> QED
        BY <2>1, <3>1
    <2> QED
      BY <2>1, <2>2
  <1>6. CASE Crash(p)
    <2>1. CASE p = q
      BY <1>6, <2>1 DEF Crash
    <2>2. CASE p # q
      BY <1>6, <2>2 DEF Crash
    <2> QED
      BY <2>1, <2>2
  <1>7. CASE ThreadWakes(p)
    <2>1. UNCHANGED <<pc, thread>> /\ thread[p] = "run"
      BY <1>7 DEF ThreadWakes, procVars
    <2>2. step' = [step EXCEPT ![<<p, "thread">>] = "open"]
      BY <1>7 DEF ThreadWakes, BeginSave
    <2>3. step'[m] = step[m] /\ step'[t] = IF p = q THEN "open" ELSE step[t]
      BY <2>2
    <2> QED
      BY <2>1, <2>3
  <1>8. CASE ThreadStops(p)
    <2>1. UNCHANGED <<pc, step>> /\ step[<<p, "thread">>] = "none"
      BY <1>8 DEF ThreadStops, LockFree, saveVars
    <2>2. thread[p] = "run" /\ thread' = [thread EXCEPT ![p] = "done"]
      BY <1>8 DEF ThreadStops
    <2> QED
      BY <2>1, <2>2
  <1> QED
    BY <1>1, <1>2, <1>3, <1>4, <1>5, <1>6, <1>7, <1>8 DEF Process, Command

\* Type correctness, for every instance: no interleaving of the two threads, no
\* fault and no command leaves the declared ranges; in particular no write of a
\* save ever lands beyond the end of its image or without an open descriptor.
THEOREM TypeCorrect == Spec => [](TypeInv /\ ThreadInv)
  <1>1. Init => TypeInv /\ ThreadInv
    BY TypeInit, ThreadInit
  <1>2. TypeInv /\ ThreadInv /\ [Next]_vars => TypeInv' /\ ThreadInv'
    <2> SUFFICES ASSUME TypeInv, ThreadInv, [Next]_vars
                 PROVE  TypeInv' /\ ThreadInv'
      OBVIOUS
    <2>1. CASE \E w \in Writer : SaveStep(w)
      BY <2>1, TypeSave, ThreadSave
    <2>2. ASSUME NEW p \in Pid, Process(p)
          PROVE  TypeInv' /\ ThreadInv'
      <3>1. /\ thread[p] = "run" \/ step[<<p, "thread">>] = "none"
            /\ pc[p] = "prompt" => step[<<p, "main">>] = "none"
        BY DEF ThreadInv, PositionOK
      <3> QED
        BY <2>2, <3>1, TypeProcess, ThreadProcess
    <2>3. CASE UNCHANGED vars
      BY <2>3 DEF vars, procVars, saveVars, fileVars, TypeInv, TypeOK, WriterOK,
                  ThreadInv, PositionOK, Live
    <2> QED
      BY <2>1, <2>2, <2>3 DEF Next
  <1> QED
    BY <1>1, <1>2, PTL DEF Spec

THEOREM TypesHold == Spec => []TypeOK
  BY TypeCorrect, PTL DEF TypeInv

-------------------------------------------------------------------------------
(* A clean exit leaves nothing behind.                                     *)
(*                                                                         *)
(* The argument is about whose bytes an inode holds.  Temporary names      *)
(* carry the process id, so an inode that a process names or has open is   *)
(* its own and holds only its bytes; a process that exited has no save     *)
(* under way, because the join came before the delete, so what others      *)
(* publish or write later is never its.                                    *)

Uses(p, i) == i # None /\ (tmp[p] = i \/ \E w \in Writer : w[1] = p /\ fd[w] = i)

BytesOf(i, P) == \A k \in 1..MaxSize : data[i][k] # Hole => data[i][k].pid \in P

Saving(p) == \E w \in Writer : w[1] = p /\ step[w] \in {"serialise", "write", "rename"}

OwnInv ==
    /\ \A w \in Writer : step[w] = "write" => image[w].pid = w[1]
    /\ \A p, q \in Pid : \A i \in Inode : Uses(p, i) /\ Uses(q, i) => p = q
    /\ \A p \in Pid : \A i \in Inode : Uses(p, i) => BytesOf(i, {p})

ExitInv ==
    \A p \in Pid :
        /\ tmp[p] # None /\ pc[p] # "crashed" => Saving(p)
        /\ pc[p] = "exited" /\ state # None => BytesOf(state, Pid \ {p})

\* The steps of a save that only give up what the process used.
LEMMA OwnShrinks ==
    ASSUME TypeInv, OwnInv,
           \A p \in Pid : \A i \in Inode : Uses(p, i)' => Uses(p, i),
           data' = data,
           \A w \in Writer : step'[w] = "write" => step[w] = "write" /\ image'[w] = image[w]
    PROVE  OwnInv'
  BY DEF OwnInv, BytesOf

\* The steps in which process p comes to use inode i, or writes to it.
LEMMA OwnGrows ==
    ASSUME TypeInv, OwnInv, NEW p \in Pid, NEW i \in Inode,
           \A q \in Pid : Uses(q, i) => q = p,
           \A q \in Pid : \A j \in Inode : Uses(q, j)' => Uses(q, j) \/ (q = p /\ j = i),
           BytesOf(i, {p})',
           \A j \in Inode : j # i => data'[j] = data[j],
           \A w \in Writer : step'[w] = "write" => step[w] = "write" /\ image'[w] = image[w]
    PROVE  OwnInv'
  <1>1. \A w \in Writer : step'[w] = "write" => image'[w].pid = w[1]
    BY DEF OwnInv
  <1>2. \A q, r \in Pid : \A j \in Inode : Uses(q, j)' /\ Uses(r, j)' => q = r
    BY DEF OwnInv
  <1>3. ASSUME NEW q \in Pid, NEW j \in Inode, Uses(q, j)'
        PROVE  BytesOf(j, {q})'
    <2>1. CASE j = i
      BY <1>3, <2>1
    <2>2. CASE j # i
      BY <1>3, <2>2 DEF OwnInv, BytesOf
    <2> QED
      BY <2>1, <2>2
  <1> QED
    BY <1>1, <1>2, <1>3 DEF OwnInv

LEMMA OwnSave ==
    ASSUME TypeInv, OwnInv, NEW w \in Writer, SaveStep(w)
    PROVE  OwnInv'
  <1> DEFINE p == w[1]
  <1>0. p \in Pid
    BY WriterParts
  <1>1. CASE OpenTmp(w)
    <2>1. PICK i \in Inode :
            /\ tmp[p] = None => FreeInode(i)
            /\ tmp[p] # None => i = tmp[p]
            /\ tmp' = [tmp EXCEPT ![p] = i]
            /\ data' = [data EXCEPT ![i] = Empty]
            /\ fd' = [fd EXCEPT ![w] = i]
      BY <1>1, Zenon DEF OpenTmp
    <2>2. \A q \in Pid : Uses(q, i) => q = p
      BY <1>0, <2>1 DEF FreeInode, Uses, OwnInv, TypeInv, TypeOK
    <2>3. \A q \in Pid : \A j \in Inode : Uses(q, j)' => Uses(q, j) \/ (q = p /\ j = i)
      BY <1>0, <2>1 DEF Uses, TypeInv, TypeOK
    <2>4. \A P : BytesOf(i, P)'
      BY <2>1 DEF BytesOf, Empty, TypeInv, TypeOK
    <2>5. \A j \in Inode : j # i => data'[j] = data[j]
      BY <2>1 DEF TypeInv, TypeOK
    <2>6. \A v \in Writer : step'[v] = "write" => step[v] = "write" /\ image'[v] = image[v]
      BY <1>1 DEF OpenTmp, TypeInv, TypeOK
    <2> QED
      BY <1>0, <2>2, <2>3, <2>4, <2>5, <2>6, OwnGrows
  <1>2. CASE Serialise(w)
    <2>1. /\ UNCHANGED <<fd, tmp, data>>
          /\ step' = [step EXCEPT ![w] = "write"]
      BY <1>2 DEF Serialise, fileVars
    <2>2. image'[w].pid = p /\ \A v \in Writer : v # w => image'[v] = image[v]
      BY <1>2 DEF Serialise, TypeInv, TypeOK
    <2>3. \A q \in Pid : \A j \in Inode : Uses(q, j)' <=> Uses(q, j)
      BY <2>1 DEF Uses
    <2> QED
      BY <2>1, <2>2, <2>3 DEF OwnInv, BytesOf, TypeInv, TypeOK
  <1>3. CASE WriteChunk(w)
    <2>1. PICK i \in Inode : i = fd[w] /\ i # None
      BY <1>3, CheckpointAssumption DEF WriteChunk, TypeInv, WriterOK
    <2>2. image[w].pid = p
      BY <1>3 DEF WriteChunk, OwnInv
    <2>3. data' = [data EXCEPT ![i] = [data[i] EXCEPT ![off[w] + 1] = image[w]]]
      BY <1>3, <2>1 DEF WriteChunk
    <2>4. Uses(p, i)
      BY <2>1 DEF Uses
    <2>5. BytesOf(i, {p})'
      <3>1. BytesOf(i, {p})
        BY <1>0, <2>4 DEF OwnInv
      <3>2. \A k \in 1..MaxSize : data'[i][k] \in {data[i][k], image[w]}
        BY <2>3 DEF TypeInv, TypeOK, Content
      <3> QED
        BY <2>2, <3>1, <3>2 DEF BytesOf
    <2>6. \A j \in Inode : j # i => data'[j] = data[j]
      BY <2>3 DEF TypeInv, TypeOK
    <2>7. \A q \in Pid : \A j \in Inode : Uses(q, j)' => Uses(q, j)
      BY <1>3 DEF WriteChunk, Uses, TypeInv, TypeOK
    <2>8. \A v \in Writer : step'[v] = "write" => step[v] = "write" /\ image'[v] = image[v]
      BY <1>3 DEF WriteChunk, TypeInv, TypeOK
    <2>9. \A q \in Pid : Uses(q, i) => q = p
      BY <1>0, <2>4 DEF OwnInv
    <2> QED
      BY <1>0, <2>5, <2>6, <2>7, <2>8, <2>9, OwnGrows
  <1>4. CASE EndSave(w) /\ data' = data /\ tmp' \in {tmp, [tmp EXCEPT ![p] = None]}
    <2>1. \A q \in Pid : \A j \in Inode : Uses(q, j)' => Uses(q, j)
      BY <1>0, <1>4 DEF EndSave, Uses, TypeInv, TypeOK
    <2>2. \A v \in Writer : step'[v] = "write" => step[v] = "write" /\ image'[v] = image[v]
      BY <1>4 DEF EndSave, TypeInv, TypeOK
    <2> QED
      BY <1>4, <2>1, <2>2, OwnShrinks
  <1>5. CASE FlushLost(w)
    <2>1. \A q \in Pid : \A j \in Inode : Uses(q, j)' => Uses(q, j)
      BY <1>5 DEF FlushLost, fileVars, Uses, TypeInv, TypeOK
    <2>2. \A v \in Writer : step'[v] = "write" => step[v] = "write" /\ image'[v] = image[v]
      BY <1>5 DEF FlushLost, TypeInv, TypeOK
    <2> QED
      BY <1>5, <2>1, <2>2, OwnShrinks DEF FlushLost, fileVars
  <1> QED
    BY <1>1, <1>2, <1>3, <1>4, <1>5
    DEF SaveStep, OpenFails, WriteFails, Rename, RenameFails, fileVars

LEMMA OwnProcess ==
    ASSUME TypeInv, OwnInv, NEW p \in Pid, Process(p)
    PROVE  OwnInv'
  <1>1. data' = data /\ tmp' = tmp
    BY DEF Process, Launch, BootRestore, StartThread, StartBatch, Return, Command, SetenvReplace, SetenvNew,
           Unsetenv, CommandSave, CommandRestore, CommandDelete, Sigterm, CommandExit,
           StopStep, Stop, Delete, Crash, ThreadWakes, ThreadStops, fileVars
  <1>2. CASE Crash(p)
    <2>1. \A q \in Pid : \A i \in Inode : Uses(q, i)' => Uses(q, i)
      BY <1>1, <1>2 DEF Crash, Uses
    <2>2. \A v \in Writer : step'[v] = "write" => step[v] = "write" /\ image'[v] = image[v]
      BY <1>2 DEF Crash, TypeInv, TypeOK
    <2> QED
      BY <1>1, <2>1, <2>2, OwnShrinks
  <1>3. CASE ~Crash(p)
    <2>1. fd' = fd /\ image' = image
      BY <1>3 DEF Process, Launch, BootRestore, StartThread, StartBatch, Return, Command, SetenvReplace,
             SetenvNew, Unsetenv, CommandSave, CommandRestore, CommandDelete, Sigterm,
             CommandExit, StopStep, Stop, Delete, ThreadWakes, ThreadStops, saveVars
    <2>2. step' = step \/ \E v \in Writer : step' = [step EXCEPT ![v] = "open"]
      BY <1>3, TwoWriters DEF Process, Launch, BootRestore, StartThread, StartBatch, Return, Command, SetenvReplace,
             SetenvNew, Unsetenv, CommandSave, CommandRestore, CommandDelete, Sigterm,
             CommandExit, StopStep, Stop, Delete, ThreadWakes, ThreadStops, saveVars, BeginSave
    <2>3. \A q \in Pid : \A i \in Inode : Uses(q, i)' => Uses(q, i)
      BY <1>1, <2>1 DEF Uses
    <2>4. \A v \in Writer : step'[v] = "write" => step[v] = "write" /\ image'[v] = image[v]
      BY <2>1, <2>2 DEF TypeInv, TypeOK
    <2> QED
      BY <1>1, <2>3, <2>4, OwnShrinks
  <1> QED
    BY <1>2, <1>3

LEMMA ExitSave ==
    ASSUME TypeInv, ThreadInv, OwnInv, ExitInv, NEW w \in Writer, SaveStep(w)
    PROVE  ExitInv'
  <1> DEFINE p == w[1]
  <1>0. p \in Pid /\ step[w] # "none"
    BY WriterParts DEF SaveStep, OpenTmp, OpenFails, Serialise, WriteChunk, WriteFails,
                       FlushLost, Rename, RenameFails
  <1>1. pc[p] # "exited"
    <2>1. w = <<p, "main">> \/ w = <<p, "thread">>
      BY WriterParts
    <2> QED
      BY <1>0, <2>1 DEF ThreadInv, PositionOK
  <1>2. \A q \in Pid : pc'[q] \in {"exited", "crashed"} <=> pc[q] \in {"exited", "crashed"}
    <2>1. pc[p] # "crashed"
      <3>1. w = <<p, "main">> \/ w = <<p, "thread">>
        BY WriterParts
      <3> QED
        BY <1>0, <3>1 DEF ThreadInv, PositionOK
    <2> QED
      BY <1>0, <1>1, <2>1 DEF SaveStep, OpenTmp, OpenFails, Serialise, WriteChunk, WriteFails,
                       FlushLost, Rename, RenameFails, EndSave, procVars, TypeInv, TypeOK
  <1>3. \A q \in Pid : pc'[q] = "exited" => pc[q] = "exited" /\ q # p
    BY <1>1, <1>2 DEF SaveStep, OpenTmp, OpenFails, Serialise, WriteChunk, WriteFails,
                      FlushLost, Rename, RenameFails, EndSave, procVars, TypeInv, TypeOK
  <1>4. \A q \in Pid : pc'[q] # "crashed" => pc[q] # "crashed"
    BY <1>2, <1>3 DEF SaveStep, OpenTmp, OpenFails, Serialise, WriteChunk, WriteFails,
                      FlushLost, Rename, RenameFails, EndSave, procVars, TypeInv, TypeOK
  <1>5. CASE OpenTmp(w)
    <2>1. PICK i \in Inode :
            /\ tmp' = [tmp EXCEPT ![p] = i]
            /\ data' = [data EXCEPT ![i] = Empty]
      BY <1>5, Zenon DEF OpenTmp
    <2>2. step' = [step EXCEPT ![w] = "serialise"] /\ state' = state
      BY <1>5 DEF OpenTmp
    <2>3. \A q \in Pid : Saving(q) => Saving(q)'
      BY <2>2 DEF Saving, TypeInv, TypeOK
    <2>4. Saving(p)'
      BY <2>2 DEF Saving, TypeInv, TypeOK
    <2>5. \A q \in Pid : state # None /\ BytesOf(state, Pid \ {q}) => BytesOf(state, Pid \ {q})'
      BY <2>1, <2>2 DEF BytesOf, Empty, TypeInv, TypeOK
    <2>6. \A q \in Pid : q # p => tmp'[q] = tmp[q]
      BY <2>1 DEF TypeInv, TypeOK
    <2> QED
      BY <1>3, <1>4, <2>2, <2>3, <2>4, <2>5, <2>6 DEF ExitInv
  <1>6. CASE Serialise(w) \/ FlushLost(w)
    <2>1. UNCHANGED fileVars /\ \E s \in {"write", "rename"} : step' = [step EXCEPT ![w] = s]
      BY <1>6 DEF Serialise, FlushLost
    <2>2. \A q \in Pid : Saving(q) => Saving(q)'
      BY <2>1 DEF Saving, TypeInv, TypeOK
    <2> QED
      BY <1>3, <1>4, <2>1, <2>2 DEF ExitInv, BytesOf, fileVars
  <1>7. CASE WriteChunk(w)
    <2>1. /\ step' \in {step, [step EXCEPT ![w] = "rename"]}
          /\ step[w] = "write"
          /\ tmp' = tmp /\ state' = state
      BY <1>7 DEF WriteChunk
    <2>2. \A q \in Pid : Saving(q) => Saving(q)'
      BY <2>1 DEF Saving, TypeInv, TypeOK
    <2>3. image[w].pid = p /\ fd[w] \in Inode
      BY <2>1 DEF OwnInv, TypeInv, WriterOK
    <2>4. \A i \in Inode : \A k \in 1..MaxSize : data'[i][k] \in {data[i][k], image[w]}
      BY <1>7, <2>3 DEF WriteChunk, TypeInv, TypeOK, Content
    <2>5. \A q \in Pid : q # p /\ state # None /\ BytesOf(state, Pid \ {q})
                            => BytesOf(state, Pid \ {q})'
      BY <1>0, <2>1, <2>3, <2>4 DEF BytesOf, TypeInv, TypeOK
    <2> QED
      BY <1>3, <1>4, <2>1, <2>2, <2>5 DEF ExitInv
  <1>8. CASE EndSave(w) /\ data' = data /\ tmp' = [tmp EXCEPT ![p] = None]
             /\ (state' = state \/ (state' = tmp[p] /\ tmp[p] # None))
    <2>1. step' = [step EXCEPT ![w] = "none"]
      BY <1>8 DEF EndSave
    <2>2. \A q \in Pid : q # p /\ Saving(q) => Saving(q)'
      BY <2>1 DEF Saving, TypeInv, TypeOK
    <2>3. tmp[p] # None => BytesOf(tmp[p], {p})
      BY <1>0 DEF OwnInv, Uses, TypeInv, TypeOK
    <2>4. \A q \in Pid : tmp'[q] # None => q # p /\ tmp[q] # None
      BY <1>0, <1>8 DEF TypeInv, TypeOK
    <2>5. ASSUME NEW q \in Pid, pc'[q] = "exited", state' # None
          PROVE  BytesOf(state, Pid \ {q})'
      <3>1. q # p /\ pc[q] = "exited"
        BY <1>3, <2>5
      <3>2. CASE state' = state
        BY <1>8, <2>5, <3>1, <3>2 DEF ExitInv, BytesOf
      <3>3. CASE state' = tmp[p] /\ tmp[p] # None
        BY <1>0, <1>8, <2>3, <3>1, <3>3 DEF BytesOf
      <3> QED
        BY <1>8, <3>2, <3>3
    <2> QED
      BY <1>4, <2>2, <2>4, <2>5 DEF ExitInv
  <1>9. CASE OpenFails(w)
    <2>1. step' = [step EXCEPT ![w] = "none"] /\ step[w] = "open" /\ UNCHANGED fileVars
      BY <1>9 DEF OpenFails, EndSave
    <2>2. \A q \in Pid : Saving(q) => Saving(q)'
      BY <2>1 DEF Saving, TypeInv, TypeOK
    <2> QED
      BY <1>3, <1>4, <2>1, <2>2 DEF ExitInv, BytesOf, fileVars
  <1> QED
    BY <1>5, <1>6, <1>7, <1>8, <1>9 DEF SaveStep, WriteFails, Rename, RenameFails

LEMMA ExitProcess ==
    ASSUME TypeInv, ThreadInv, ExitInv, NEW p \in Pid, Process(p)
    PROVE  ExitInv'
  <1> SUFFICES ASSUME NEW q \in Pid
               PROVE  /\ tmp'[q] # None /\ pc'[q] # "crashed" => Saving(q)'
                      /\ pc'[q] = "exited" /\ state' # None => BytesOf(state, Pid \ {q})'
    BY DEF ExitInv
  <1>1. data' = data /\ tmp' = tmp /\ state' \in {state, None}
    BY DEF Process, Launch, BootRestore, StartThread, StartBatch, Return, Command, SetenvReplace, SetenvNew,
           Unsetenv, CommandSave, CommandRestore, CommandDelete, Sigterm, CommandExit,
           StopStep, Stop, Delete, Crash, ThreadWakes, ThreadStops, fileVars
  <1>2. pc'[q] # "crashed" => pc[q] # "crashed"
    BY DEF Process, Launch, BootRestore, StartThread, StartBatch, Return, Command, SetenvReplace, SetenvNew,
           Unsetenv, CommandSave, CommandRestore, CommandDelete, Sigterm, CommandExit, Can,
           StopStep, Stop, Delete, Crash, Live, Running, ThreadWakes, ThreadStops, Goto, procVars,
           TypeInv, TypeOK
  <1>3. pc'[q] = "exited" => pc[q] = "exited" \/ state' = None
    BY DEF Process, Launch, BootRestore, StartThread, StartBatch, Return, Command, SetenvReplace, SetenvNew,
           Unsetenv, CommandSave, CommandRestore, CommandDelete, Sigterm, CommandExit,
           StopStep, Stop, Delete, Crash, ThreadWakes, ThreadStops, Goto, procVars,
           TypeInv, TypeOK
  <1>4. pc'[q] # "crashed" => (Saving(q) => Saving(q)')
    <2>1. CASE Crash(p)
      BY <2>1 DEF Crash, Saving, TypeInv, TypeOK
    <2>2. CASE BeginSave(<<p, "main">>) /\ pc[p] = "prompt"
      <3>1. step[<<p, "main">>] = "none"
        BY <2>2 DEF ThreadInv, PositionOK
      <3> QED
        BY <2>2, <3>1 DEF BeginSave, Saving, TypeInv, TypeOK
    <2>3. CASE BeginSave(<<p, "thread">>) /\ LockFree(p)
      BY <2>3 DEF BeginSave, LockFree, Saving, TypeInv, TypeOK
    <2>4. CASE step' = step
      BY <2>4 DEF Saving
    <2> QED
      BY <2>1, <2>2, <2>3, <2>4
      DEF Process, Launch, BootRestore, StartThread, StartBatch, Return, Command, SetenvReplace, SetenvNew,
          Unsetenv, CommandSave, CommandRestore, CommandDelete, Sigterm, CommandExit, Can,
          StopStep, Stop, Delete, ThreadWakes, ThreadStops, saveVars
  <1> QED
    BY <1>1, <1>2, <1>3, <1>4 DEF ExitInv, BytesOf

\* Whatever saves, faults and other shells do, a shell that exited cleanly leaves
\* neither a temporary file nor any byte of its own in the state file.
THEOREM CleanExit == Spec => []CleanExitLeavesNothing
  <1>1. Init => OwnInv /\ ExitInv
    BY DEF Init, OwnInv, ExitInv, Uses
  <1>2. TypeInv /\ ThreadInv /\ OwnInv /\ ExitInv /\ [Next]_vars => OwnInv' /\ ExitInv'
    <2> SUFFICES ASSUME TypeInv, ThreadInv, OwnInv, ExitInv, [Next]_vars
                 PROVE  OwnInv' /\ ExitInv'
      OBVIOUS
    <2>1. CASE Next
      BY <2>1, OwnSave, OwnProcess, ExitSave, ExitProcess DEF Next
    <2>2. CASE UNCHANGED vars
      BY <2>2 DEF vars, procVars, saveVars, fileVars, OwnInv, ExitInv, Uses, BytesOf, Saving
    <2> QED
      BY <2>1, <2>2
  <1>3. TypeInv /\ ThreadInv /\ ExitInv => CleanExitLeavesNothing
    <2> SUFFICES ASSUME TypeInv, ThreadInv, ExitInv, NEW p \in Pid, pc[p] = "exited"
                 PROVE  /\ tmp[p] = None
                        /\ state # None =>
                             \A i \in 1..MaxSize : data[state][i] # Hole => data[state][i].pid # p
      BY DEF CleanExitLeavesNothing
    <2>1. ~Saving(p)
      <3>1. step[<<p, "main">>] = "none" /\ step[<<p, "thread">>] = "none"
        BY DEF ThreadInv, PositionOK
      <3> QED
        BY <3>1, WriterParts DEF Saving
    <2> QED
      BY <2>1 DEF ExitInv, BytesOf
  <1> QED
    BY <1>1, <1>2, <1>3, TypeCorrect, PTL DEF Spec

-------------------------------------------------------------------------------
(* The state file is whole at every instant of a quiet session.            *)
(*                                                                         *)
(* With one saving thread per process, the temporary name stands for the   *)
(* inode that thread fills, that inode is never the published one, and it  *)
(* holds just the writes made so far; so what is renamed is complete.      *)

T(p) == <<p, "thread">>

FillOK(p) ==
    /\ step[<<p, "main">>] = "none"
    /\ step[T(p)] \in {"serialise", "write"} => tmp[p] = fd[T(p)] /\ tmp[p] # None
    /\ step[T(p)] = "serialise" => data[tmp[p]] = Empty
    /\ step[T(p)] = "write" =>
         \A k \in 1..MaxSize : data[tmp[p]][k] = IF k <= off[T(p)] THEN image[T(p)] ELSE Hole
    /\ step[T(p)] = "rename" => tmp[p] # None /\ data[tmp[p]] = ImageOf(image[T(p)])
    /\ tmp[p] # None => tmp[p] # state

FillInv == (\A p \in Pid : FillOK(p)) /\ PublishedWhole

\* An image on disk passes the checksum.
LEMMA ImageIsWhole == \A m \in Image : Whole(ImageOf(m))
  BY ContentTypes, CheckpointAssumption DEF Whole, ImageOf

\* What another process does to its own inodes does not disturb a save.
LEMMA FillElsewhere ==
    ASSUME TypeInv, OwnInv, NEW q \in Pid, FillOK(q),
           UNCHANGED <<step[<<q, "main">>], step[T(q)], fd[T(q)], image[T(q)], off[T(q)], tmp[q]>>,
           tmp[q] # None => data'[tmp[q]] = data[tmp[q]] /\ tmp[q] # state'
    PROVE  FillOK(q)'
  BY DEF FillOK, T

LEMMA FillSave ==
    ASSUME QuietSession, TypeInv, OwnInv, FillInv, NEW w \in Writer, SaveStep(w)
    PROVE  FillInv'
  <1> DEFINE p == w[1]
  <1>0. p \in Pid /\ w = T(p) /\ w[2] = "thread" /\ FillOK(p)
    <2>1. step[w] # "none"
      BY DEF SaveStep, OpenTmp, OpenFails, Serialise, WriteChunk, WriteFails,
             FlushLost, Rename, RenameFails
    <2> QED
      BY <2>1, WriterParts DEF FillInv, FillOK, T
  <1>1. \A q \in Pid : q # p => T(q) # w /\ <<q, "main">> # w
    BY <1>0 DEF T
  <1>2. \A q \in Pid : q # p /\ tmp[q] # None => tmp[q] # tmp[p]
    BY <1>0 DEF OwnInv, Uses, TypeInv, TypeOK
  <1>3. <<p, "main">> \in Writer /\ <<p, "main">> # w
    BY <1>0, TwoWriters DEF T
  <1>4. \A q \in Pid : <<q, "main">> \in Writer /\ T(q) \in Writer
    BY TwoWriters DEF T
  <1>5. CASE OpenTmp(w)
    <2>1. PICK i \in Inode :
            /\ tmp[p] = None => FreeInode(i)
            /\ tmp[p] # None => i = tmp[p]
            /\ tmp' = [tmp EXCEPT ![p] = i]
            /\ data' = [data EXCEPT ![i] = Empty]
            /\ fd' = [fd EXCEPT ![w] = i]
      BY <1>5, Zenon DEF OpenTmp
    <2>2. /\ step' = [step EXCEPT ![w] = "serialise"]
          /\ UNCHANGED <<image, off, state>>
      BY <1>5 DEF OpenTmp
    <2>3. i # None /\ i # state
      BY <1>0, <2>1, CheckpointAssumption DEF FillOK, FreeInode
    <2>4. FillOK(p)'
      BY <1>0, <1>3, <2>1, <2>2, <2>3 DEF FillOK, T, TypeInv, TypeOK
    <2>5. \A q \in Pid : q # p => tmp[q] # i
      BY <1>2, <2>1 DEF FreeInode
    <2>6. ASSUME NEW q \in Pid, q # p
          PROVE  FillOK(q)'
      <3>1. UNCHANGED <<step[<<q, "main">>], step[T(q)], fd[T(q)], image[T(q)], off[T(q)], tmp[q]>>
        BY <1>1, <1>4, <2>1, <2>2, <2>6 DEF TypeInv, TypeOK
      <3>2. tmp[q] # None => data'[tmp[q]] = data[tmp[q]] /\ tmp[q] # state'
        BY <2>1, <2>2, <2>5, <2>6 DEF FillInv, FillOK, TypeInv, TypeOK
      <3> QED
        BY <3>1, <3>2, FillElsewhere DEF FillInv
    <2>7. PublishedWhole'
      BY <2>1, <2>2, <2>3 DEF FillInv, PublishedWhole, TypeInv, TypeOK
    <2> QED
      BY <2>4, <2>6, <2>7 DEF FillInv
  <1>6. CASE Serialise(w)
    <2>1. /\ step[w] = "serialise" /\ step' = [step EXCEPT ![w] = "write"]
          /\ UNCHANGED <<fd, off, data, tmp, state>>
          /\ \A v \in Writer : v # w => image'[v] = image[v]
      BY <1>6 DEF Serialise, fileVars, TypeInv, TypeOK
    <2>2. off[w] = 0
      BY <2>1 DEF TypeInv, WriterOK
    <2>3. FillOK(p)'
      <3>1. /\ step'[w] = "write" /\ step'[<<p, "main">>] = "none"
            /\ off'[w] = 0 /\ tmp'[p] = fd'[w] /\ tmp'[p] # None /\ tmp'[p] # state'
            /\ data'[tmp'[p]] = Empty
        BY <1>0, <1>3, <2>1, <2>2 DEF FillOK, TypeInv, TypeOK
      <3>2. \A k \in 1..MaxSize : Empty[k] = Hole /\ ~(k <= 0)
        BY CheckpointAssumption DEF Empty
      <3> QED
        BY <1>0, <3>1, <3>2 DEF FillOK
    <2>4. ASSUME NEW q \in Pid, q # p
          PROVE  FillOK(q)'
      BY <1>1, <1>4, <2>1, <2>4, FillElsewhere DEF FillInv, FillOK, TypeInv, TypeOK
    <2> QED
      BY <2>1, <2>3, <2>4 DEF FillInv, PublishedWhole
  <1>7. CASE WriteChunk(w)
    <2>1. PICK i \in Inode : i = fd[w] /\ i = tmp[p] /\ i # None /\ i # state
      BY <1>0, <1>7 DEF WriteChunk, TypeInv, WriterOK, FillOK
    <2>2. /\ step[w] = "write"
          /\ data' = [data EXCEPT ![i] = [data[i] EXCEPT ![off[w] + 1] = image[w]]]
          /\ off' = [off EXCEPT ![w] = off[w] + 1]
          /\ UNCHANGED <<image, tmp, state>>
      BY <1>7, <2>1 DEF WriteChunk
    <2>3. /\ off[w] \in Nat /\ off[w] < Size[image[w].env]
          /\ Size[image[w].env] \in 1..MaxSize
          /\ image[w] \in Image
          /\ MaxSize \in Nat
      BY <2>2, ContentTypes, CheckpointAssumption DEF TypeInv, TypeOK, WriterOK
    <2>4. data'[i] \in Content /\ \A k \in 1..MaxSize :
            data'[i][k] = IF k <= off[w] + 1 THEN image[w] ELSE Hole
      <3>1. \A k \in 1..MaxSize : data[i][k] = IF k <= off[w] THEN image[w] ELSE Hole
        BY <1>0, <2>1, <2>2 DEF FillOK
      <3>2. data[i] \in [1..MaxSize -> Image \cup {Hole}]
        BY DEF TypeInv, TypeOK, Content
      <3>3. data'[i] = [data[i] EXCEPT ![off[w] + 1] = image[w]]
        BY <2>2 DEF TypeInv, TypeOK
      <3> QED
        BY <2>3, <3>1, <3>2, <3>3 DEF Content
    <2>5. FillOK(p)'
      <3>1. CASE off[w] + 1 = Size[image[w].env]
        <4>1. data'[i] = ImageOf(image[w])
          BY <2>3, <2>4, <3>1 DEF ImageOf, Content
        <4>2. step' = [step EXCEPT ![w] = "rename"]
          BY <1>7, <3>1 DEF WriteChunk
        <4> QED
          BY <1>0, <1>3, <2>1, <2>2, <4>1, <4>2 DEF FillOK, T, TypeInv, TypeOK
      <3>2. CASE off[w] + 1 # Size[image[w].env]
        <4>1. step' = step /\ fd' = fd
          BY <1>7, <3>2 DEF WriteChunk
        <4>2. off'[w] = off[w] + 1
          BY <2>2 DEF TypeInv, TypeOK
        <4> QED
          BY <1>0, <1>3, <2>1, <2>2, <2>4, <4>1, <4>2 DEF FillOK
      <3> QED
        BY <3>1, <3>2
    <2>6. ASSUME NEW q \in Pid, q # p
          PROVE  FillOK(q)'
      <3>1. UNCHANGED <<step[<<q, "main">>], step[T(q)], fd[T(q)], image[T(q)], off[T(q)], tmp[q]>>
        BY <1>1, <1>4, <1>7, <2>2, <2>6 DEF WriteChunk, TypeInv, TypeOK
      <3>2. tmp[q] # None => data'[tmp[q]] = data[tmp[q]] /\ tmp[q] # state'
        BY <1>2, <2>1, <2>2, <2>6 DEF FillInv, FillOK, TypeInv, TypeOK
      <3> QED
        BY <3>1, <3>2, FillElsewhere DEF FillInv
    <2>7. PublishedWhole'
      BY <2>1, <2>2 DEF FillInv, PublishedWhole, TypeInv, TypeOK
    <2> QED
      BY <2>5, <2>6, <2>7 DEF FillInv
  <1>8. CASE FlushLost(w)
    BY <1>8 DEF FlushLost, QuietSession
  <1>9. CASE /\ EndSave(w) /\ data' = data
             /\ \/ tmp' = tmp /\ state' = state
                \/ tmp' = [tmp EXCEPT ![p] = None] /\ state' = state
                \/ /\ tmp' = [tmp EXCEPT ![p] = None]
                   /\ state' = tmp[p] /\ step[w] = "rename"
    <2>1. /\ step' = [step EXCEPT ![w] = "none"]
          /\ fd' = [fd EXCEPT ![w] = None]
          /\ image' = [image EXCEPT ![w] = None]
          /\ off' = [off EXCEPT ![w] = 0]
      BY <1>9 DEF EndSave
    <2>2. FillOK(p)'
      <3>1. step'[<<p, "main">>] = "none" /\ step'[T(p)] = "none"
        BY <1>0, <1>3, <2>1 DEF FillOK, TypeInv, TypeOK
      <3>2. tmp'[p] # None => tmp'[p] = tmp[p] /\ state' = state
        BY <1>0, <1>9 DEF TypeInv, TypeOK
      <3> QED
        BY <1>0, <3>1, <3>2 DEF FillOK
    <2>3. ASSUME NEW q \in Pid, q # p
          PROVE  FillOK(q)'
      <3>1. UNCHANGED <<step[<<q, "main">>], step[T(q)], fd[T(q)], image[T(q)], off[T(q)], tmp[q]>>
        BY <1>1, <1>4, <1>9, <2>1, <2>3 DEF TypeInv, TypeOK
      <3>2. tmp[q] # None => data'[tmp[q]] = data[tmp[q]] /\ tmp[q] # state'
        BY <1>2, <1>9, <2>3 DEF FillInv, FillOK
      <3> QED
        BY <3>1, <3>2, FillElsewhere DEF FillInv
    <2>4. PublishedWhole'
      <3>1. CASE state' = state
        BY <1>9, <3>1 DEF FillInv, PublishedWhole
      <3>2. CASE state' = tmp[p] /\ step[w] = "rename"
        <4>1. data[tmp[p]] = ImageOf(image[w]) /\ image[w] \in Image
          BY <1>0, <3>2 DEF FillOK, TypeInv, WriterOK
        <4> QED
          BY <1>9, <3>2, <4>1, ImageIsWhole DEF PublishedWhole
      <3> QED
        BY <1>9, <3>1, <3>2
    <2> QED
      BY <2>2, <2>3, <2>4 DEF FillInv
  <1> QED
    BY <1>5, <1>6, <1>7, <1>8, <1>9
    DEF SaveStep, OpenFails, WriteFails, Rename, RenameFails, fileVars

LEMMA FillProcess ==
    ASSUME QuietSession, TypeInv, OwnInv, FillInv, NEW p \in Pid, Process(p)
    PROVE  FillInv'
  <1>1. data' = data /\ tmp' = tmp /\ state' \in {state, None}
    BY DEF Process, Launch, BootRestore, StartThread, StartBatch, Return, Command, SetenvReplace, SetenvNew,
           Unsetenv, CommandSave, CommandRestore, CommandDelete, Sigterm, CommandExit,
           StopStep, Stop, Delete, Crash, ThreadWakes, ThreadStops, fileVars
  <1>2. PublishedWhole'
    BY <1>1 DEF FillInv, PublishedWhole
  <1>3. ASSUME NEW q \in Pid
        PROVE  FillOK(q)'
    <2>0. FillOK(q) /\ <<q, "main">> \in Writer /\ T(q) \in Writer /\ <<q, "main">> # T(q)
      BY TwoWriters DEF FillInv, T
    <2>1. tmp'[q] # None => tmp'[q] # state'
      BY <1>1, <2>0 DEF FillOK
    <2>2. CASE Crash(p)
      <3>1. CASE p = q
        BY <1>1, <2>0, <2>1, <2>2, <3>1 DEF Crash, FillOK, T
      <3>2. CASE p # q
        <4>1. UNCHANGED <<step[<<q, "main">>], step[T(q)], fd[T(q)], image[T(q)], off[T(q)]>>
          BY <2>0, <2>2, <3>2 DEF Crash, T
        <4> QED
          BY <1>1, <2>0, <2>1, <4>1, FillElsewhere
      <3> QED
        BY <3>1, <3>2
    <2>3. CASE ThreadWakes(p)
      <3>1. /\ step' = [step EXCEPT ![T(p)] = "open"]
            /\ UNCHANGED <<fd, image, off>>
        BY <2>3 DEF ThreadWakes, BeginSave, T
      <3>2. step'[<<q, "main">>] = step[<<q, "main">>]
            /\ step'[T(q)] = IF p = q THEN "open" ELSE step[T(q)]
        BY <2>0, <3>1 DEF T, TypeInv, TypeOK
      <3> QED
        BY <1>1, <2>0, <2>1, <3>1, <3>2 DEF FillOK
    <2>4. CASE UNCHANGED saveVars
      BY <1>1, <2>0, <2>1, <2>4 DEF saveVars, FillOK
    <2> QED
      BY <2>2, <2>3, <2>4
      DEF Process, Launch, BootRestore, StartThread, StartBatch, Return, Command, SetenvReplace, SetenvNew,
          Unsetenv, CommandSave, CommandRestore, CommandDelete, Sigterm, CommandExit,
          StopStep, Stop, Delete, ThreadStops, Can, QuietSession
  <1> QED
    BY <1>2, <1>3 DEF FillInv

\* In a session whose saves are all the periodic thread's, and whose flushes fail
\* only when checked, a crash at any instant finds the state file absent or whole.
THEOREM QuietPublishedWhole == ASSUME QuietSession PROVE Spec => []PublishedWhole
  <1>1. Init => OwnInv /\ FillInv
    BY TwoWriters DEF Init, OwnInv, Uses, FillInv, FillOK, T, PublishedWhole
  <1>2. TypeInv /\ OwnInv /\ FillInv /\ [Next]_vars => OwnInv' /\ FillInv'
    <2> SUFFICES ASSUME TypeInv, OwnInv, FillInv, [Next]_vars
                 PROVE  OwnInv' /\ FillInv'
      OBVIOUS
    <2>1. CASE Next
      BY <2>1, OwnSave, OwnProcess, FillSave, FillProcess DEF Next
    <2>2. CASE UNCHANGED vars
      BY <2>2 DEF vars, procVars, saveVars, fileVars, OwnInv, Uses, BytesOf, FillInv, FillOK,
                  PublishedWhole
    <2> QED
      BY <2>1, <2>2
  <1>3. FillInv => PublishedWhole
    BY DEF FillInv
  <1> QED
    BY <1>1, <1>2, <1>3, TypeCorrect, PTL DEF Spec

-------------------------------------------------------------------------------
(* Where the variables of a shell come from.                               *)
(*                                                                         *)
(* Every image in the hands of a save and every byte on disk is of an      *)
(* image some save took (HistoryInv).  A restore accepts a file only when  *)
(* all of it is one image, so what it merges is one of those, however the  *)
(* bytes got there; and rubbish enters the memory only with a read of an   *)
(* array that its shell has replaced, which it never takes back.           *)

\* What the saves of a state have in hand.
Session(m) == [pid |-> m.pid, env |-> m.env]
InHand == {Session(image[w]) : w \in {u \in Writer : image[u] # None}}

Blamed(v) == \E m \in taken : m.env[v] = Garbage /\ ~refLive[m.pid]

HistoryInv ==
    /\ \A p \in Pid : pc[p] \in {"unborn", "boot", "ready"} => refLive[p]
    /\ \A w \in Writer : image[w] # None => Session(image[w]) \in taken
    /\ \A i \in Inode, k \in 1..MaxSize : data[i][k] # Hole => Session(data[i][k]) \in taken
    /\ \A m \in taken, v \in Var : m.env[v] = Garbage => Blamed(v)
    /\ \A p \in Pid, v \in Var : env[p][v] = Garbage => Blamed(v)

\* No reference comes back to life, and none is dead before the prompt.
LEMMA ReferencesDie ==
    ASSUME TypeInv, Next, \A p \in Pid : pc[p] \in {"unborn", "boot", "ready"} => refLive[p]
    PROVE  /\ \A p \in Pid : ~refLive[p] => ~refLive'[p]
           /\ \A p \in Pid : pc'[p] \in {"unborn", "boot", "ready"} => refLive'[p]
  <1>1. CASE \E w \in Writer : SaveStep(w)
    <2>1. PICK w \in Writer : SaveStep(w)
      BY <1>1
    <2>2. refLive' = refLive
      BY <2>1 DEF SaveStep, OpenTmp, OpenFails, Serialise, WriteChunk, WriteFails, FlushLost,
                  Rename, RenameFails, EndSave, procVars
    <2>3. \A p \in Pid : pc'[p] \in {"unborn", "boot", "ready"} => pc[p] = pc'[p]
      BY <2>1 DEF SaveStep, OpenTmp, OpenFails, Serialise, WriteChunk, WriteFails, FlushLost,
                  Rename, RenameFails, EndSave, procVars, TypeInv, TypeOK
    <2> QED
      BY <2>2, <2>3
  <1>2. ASSUME NEW p \in Pid, Process(p)
        PROVE  /\ \A q \in Pid : ~refLive[q] => ~refLive'[q]
               /\ \A q \in Pid : pc'[q] \in {"unborn", "boot", "ready"} => refLive'[q]
    <2> USE DEF TypeInv, TypeOK
    <2>1. CASE BootRestore(p)
      BY <2>1 DEF BootRestore, Restore, Goto
    <2>2. CASE CommandRestore(p)
      BY <2>2 DEF CommandRestore, Restore, Can
    <2>3. CASE StartThread(p)
      BY <2>3 DEF StartThread, Goto
    <2>4. CASE SetenvNew(p) \/ Unsetenv(p)
      BY <2>4 DEF SetenvNew, Unsetenv, Can
    <2>5. CASE ~(BootRestore(p) \/ CommandRestore(p) \/ StartThread(p) \/ SetenvNew(p) \/ Unsetenv(p))
      <3>1. refLive' = refLive
        BY <1>2, <2>5 DEF Process, Launch, StartBatch, Return, Command, SetenvReplace, CommandSave,
              CommandDelete, Sigterm, CommandExit, StopStep, Stop, Delete, Crash, ThreadWakes,
              ThreadStops, procVars
      <3>2. \A q \in Pid : pc'[q] \in {"unborn", "boot", "ready"}
                              => pc[q] \in {"unborn", "boot", "ready"}
        BY <1>2, <2>5 DEF Process, Launch, StartBatch, Return, Command, SetenvReplace, CommandSave,
              CommandDelete, Sigterm, CommandExit, StopStep, Stop, Delete, Crash, ThreadWakes,
              ThreadStops, Goto, procVars
      <3> QED
        BY <3>1, <3>2
    <2> QED
      BY <2>1, <2>2, <2>3, <2>4, <2>5
  <1> QED
    BY <1>1, <1>2 DEF Next

\* What a step puts into the hands of a save is an image that was there, or one
\* that this step reads from an array.
LEMMA ImagesTaken ==
    ASSUME TypeInv, Next, NEW w \in Writer, image'[w] # None
    PROVE  \/ image'[w] = image[w]
           \/ /\ Serialise(w) /\ UNCHANGED refLive
              /\ \E e \in IF ReadsLive(w) THEN {env[w[1]]} ELSE Array :
                   image'[w] = [pid |-> w[1], env |-> Kept(e), by |-> w[2]]
  <1>1. CASE \E u \in Writer : SaveStep(u)
    <2>1. PICK u \in Writer : SaveStep(u)
      BY <1>1
    <2>2. CASE Serialise(u)
      <3>1. PICK e \in IF ReadsLive(u) THEN {env[u[1]]} ELSE Array :
              image' = [image EXCEPT ![u] = [pid |-> u[1], env |-> Kept(e), by |-> u[2]]]
        BY <2>2 DEF Serialise
      <3> QED
        BY <2>2, <3>1 DEF Serialise, procVars, TypeInv, TypeOK
    <2>3. CASE ~Serialise(u)
      BY <2>1, <2>3 DEF SaveStep, OpenTmp, OpenFails, WriteChunk, WriteFails, FlushLost,
                        Rename, RenameFails, EndSave, TypeInv, TypeOK
    <2> QED
      BY <2>2, <2>3
  <1>2. ASSUME NEW p \in Pid, Process(p)
        PROVE  image'[w] = image[w]
    BY <1>2 DEF Process, Launch, BootRestore, StartThread, StartBatch, Return, Command,
         SetenvReplace, SetenvNew, Unsetenv, CommandSave, CommandRestore, CommandDelete, Sigterm,
         CommandExit, StopStep, Stop, Delete, Crash, ThreadWakes, ThreadStops, fileVars, saveVars
  <1> QED
    BY <1>1, <1>2 DEF Next

\* The memory has what was in the hands of a save, and nothing else.
LEMMA TakenGrows ==
    ASSUME TypeInv, HistoryInv, Next
    PROVE  taken' = taken \cup InHand'
  <1>1. ASSUME NEW u \in Writer, Serialise(u)
        PROVE  taken' = taken \cup InHand'
    <2>1. PICK e \in IF ReadsLive(u) THEN {env[u[1]]} ELSE Array :
            /\ image' = [image EXCEPT ![u] = [pid |-> u[1], env |-> Kept(e), by |-> u[2]]]
            /\ taken' = taken \cup {[pid |-> u[1], env |-> Kept(e)]}
      BY <1>1 DEF Serialise
    <2>2. u[1] \in Pid /\ u[2] \in {"main", "thread"} /\ e \in Array
      BY <2>1, WriterParts DEF TypeInv, TypeOK
    <2>3. image'[u] = [pid |-> u[1], env |-> Kept(e), by |-> u[2]]
      BY <2>1 DEF TypeInv, TypeOK
    <2>4. image'[u] # None
      BY <2>2, <2>3, ArrayTypes, CheckpointAssumption
    <2>5. Session(image'[u]) = [pid |-> u[1], env |-> Kept(e)]
      BY <2>3 DEF Session
    <2>6. \A w \in Writer : w # u => image'[w] = image[w]
      BY <2>1 DEF TypeInv, TypeOK
    <2>7. \A w \in Writer : w # u /\ image'[w] # None => Session(image'[w]) \in taken
      BY <2>6 DEF HistoryInv
    <2>8. \A m \in InHand' : m \in taken'
      BY <2>1, <2>5, <2>7 DEF InHand
    <2>9. [pid |-> u[1], env |-> Kept(e)] \in InHand'
      BY <2>4, <2>5 DEF InHand
    <2> QED
      BY <2>1, <2>8, <2>9
  <1>2. ASSUME ~\E u \in Writer : Serialise(u)
        PROVE  taken' = taken \cup InHand'
    <2>1. \A w \in Writer : image'[w] # None => Session(image'[w]) \in taken
      BY <1>2, ImagesTaken DEF HistoryInv
    <2>2. \A m \in InHand' : m \in taken
      BY <2>1 DEF InHand
    <2>3. ASSUME NEW u \in Writer, SaveStep(u)
          PROVE  taken' = taken
      BY <1>2, <2>3 DEF SaveStep, OpenTmp, OpenFails, WriteChunk, WriteFails, FlushLost,
                        Rename, RenameFails, EndSave
    <2>4. ASSUME NEW p \in Pid, Process(p)
          PROVE  taken' = taken
      BY <2>4 DEF Process, Launch, BootRestore, StartThread, StartBatch, Return, Command,
           SetenvReplace, SetenvNew, Unsetenv, CommandSave, CommandRestore, CommandDelete, Sigterm,
           CommandExit, StopStep, Stop, Delete, Crash, ThreadWakes, ThreadStops, saveVars
    <2>5. taken' = taken
      BY <2>3, <2>4 DEF Next
    <2> QED
      BY <2>2, <2>5
  <1> QED
    BY <1>1, <1>2

\* Bytes get to the disk only from the hands of a save.
LEMMA BytesTaken ==
    ASSUME TypeInv, Next, NEW i \in Inode, NEW k \in 1..MaxSize, data'[i][k] # Hole
    PROVE  data'[i][k] = data[i][k] \/ \E w \in Writer : image[w] \in Image /\ data'[i][k] = image[w]
  <1>1. CASE \E u \in Writer : SaveStep(u)
    <2>1. PICK u \in Writer : SaveStep(u)
      BY <1>1
    <2>2. CASE OpenTmp(u)
      <3>1. \E j \in Inode : data' = [data EXCEPT ![j] = Empty]
        BY <2>2 DEF OpenTmp
      <3> QED
        BY <3>1 DEF Empty, TypeInv, TypeOK
    <2>3. CASE WriteChunk(u)
      <3>1. image[u] \in Image /\ fd[u] \in Inode
        BY <2>3 DEF WriteChunk, TypeInv, WriterOK
      <3>2. data'[i][k] \in {data[i][k], image[u]}
        BY <2>3, <3>1 DEF WriteChunk, TypeInv, TypeOK, Content
      <3> QED
        BY <3>1, <3>2
    <2>4. CASE ~OpenTmp(u) /\ ~WriteChunk(u)
      <3>1. data' = data
        BY <2>1, <2>4 DEF SaveStep, OpenFails, Serialise, WriteFails, FlushLost, Rename,
                          RenameFails, fileVars
      <3> QED
        BY <3>1
    <2> QED
      BY <2>2, <2>3, <2>4
  <1>2. ASSUME NEW p \in Pid, Process(p)
        PROVE  data' = data
    BY <1>2 DEF Process, Launch, BootRestore, StartThread, StartBatch, Return, Command,
         SetenvReplace, SetenvNew, Unsetenv, CommandSave, CommandRestore, CommandDelete, Sigterm,
         CommandExit, StopStep, Stop, Delete, Crash, ThreadWakes, ThreadStops, fileVars, saveVars
  <1> QED
    BY <1>1, <1>2 DEF Next

\* An environment changes by a command of its user or by one whole image.
LEMMA EnvChanges ==
    ASSUME TypeInv, HistoryInv, Next, NEW p \in Pid, env'[p] # env[p]
    PROVE  \/ /\ pc[p] = "prompt"
              /\ \E v \in Var, x \in Value \cup {Absent} : env'[p] = [env[p] EXCEPT ![v] = x]
           \/ \E m \in taken : m.pid # p /\ env'[p] = Merge(env[p], m.env)
  <1>1. ~\E w \in Writer : SaveStep(w)
    BY DEF SaveStep, OpenTmp, OpenFails, Serialise, WriteChunk, WriteFails, FlushLost,
           Rename, RenameFails, EndSave, procVars
  <1>2. PICK q \in Pid : Process(q)
    BY <1>1 DEF Next
  <1>3. CASE BootRestore(q) \/ CommandRestore(q)
    <2>1. Restore(q)
      BY <1>3 DEF BootRestore, CommandRestore
    <2>2. /\ RestoreResult(q) = "ok"
          /\ env' = [env EXCEPT ![q] = Merge(env[q], ImageIn(data[state]).env)]
      BY <2>1 DEF Restore
    <2>3. q = p /\ env'[p] = Merge(env[p], ImageIn(data[state]).env)
      BY <2>2 DEF TypeInv, TypeOK
    <2>4. /\ state \in Inode /\ Whole(data[state])
          /\ ImageIn(data[state]).pid # p
      BY <2>2, <2>3 DEF RestoreResult, TypeInv, TypeOK
    <2>5. ImageIn(data[state]) = data[state][1] /\ data[state][1] # Hole
      BY <2>4 DEF ImageIn, Whole
    <2>6. Session(data[state][1]) \in taken
      BY <2>4, <2>5, ContentTypes DEF HistoryInv
    <2> QED
      BY <2>3, <2>4, <2>5, <2>6 DEF Session
  <1>4. CASE SetenvReplace(q) \/ SetenvNew(q) \/ Unsetenv(q)
    <2>1. PICK v \in Var, x \in Value \cup {Absent} :
            env' = [env EXCEPT ![q] = [env[q] EXCEPT ![v] = x]]
      BY <1>4, UserSets
    <2>2. q = p /\ env'[p] = [env[p] EXCEPT ![v] = x]
      BY <2>1 DEF TypeInv, TypeOK
    <2>3. pc[p] = "prompt"
      BY <1>4, <2>2 DEF SetenvReplace, SetenvNew, Unsetenv, Can
    <2> QED
      BY <2>2, <2>3
  <1>5. CASE ~(BootRestore(q) \/ CommandRestore(q) \/ SetenvReplace(q) \/ SetenvNew(q)
               \/ Unsetenv(q))
    BY <1>2, <1>5 DEF Process, Launch, StartThread, StartBatch, Return, Command, CommandSave,
         CommandDelete, Sigterm, CommandExit, StopStep, Stop, Delete, Crash, ThreadWakes,
         ThreadStops, procVars
  <1> QED
    BY <1>3, <1>4, <1>5

LEMMA HistoryStep ==
    ASSUME TypeInv, HistoryInv, Next
    PROVE  HistoryInv'
  <1>0. taken' = taken \cup InHand'
    BY TakenGrows
  <1>1. /\ \A p \in Pid : ~refLive[p] => ~refLive'[p]
        /\ \A p \in Pid : pc'[p] \in {"unborn", "boot", "ready"} => refLive'[p]
    BY <1>0, ReferencesDie DEF HistoryInv
  <1>2. \A v \in Var : Blamed(v) => Blamed(v)'
    BY <1>0, <1>1 DEF Blamed, TypeInv, TypeOK
  <1>3. \A w \in Writer : image'[w] # None => Session(image'[w]) \in taken'
    BY <1>0 DEF InHand
  <1>4. ASSUME NEW w \in Writer, image'[w] # None
        PROVE  \A v \in Var : image'[w].env[v] = Garbage => Blamed(v)'
    <2>1. CASE image'[w] = image[w]
      <3>1. Session(image[w]) \in taken /\ Session(image[w]).env = image[w].env
        BY <1>4, <2>1 DEF HistoryInv, Session
      <3> QED
        BY <1>2, <2>1, <3>1 DEF HistoryInv
    <2>2. CASE image'[w] # image[w]
      <3>1. PICK e \in IF ReadsLive(w) THEN {env[w[1]]} ELSE Array :
              refLive' = refLive /\ image'[w] = [pid |-> w[1], env |-> Kept(e), by |-> w[2]]
        BY <1>0, <1>4, <2>2, ImagesTaken
      <3>2. w[1] \in Pid /\ e \in Array
        BY <3>1, WriterParts DEF TypeInv, TypeOK
      <3>3. Session(image'[w]) = [pid |-> w[1], env |-> Kept(e)]
        BY <3>1 DEF Session
      <3>4. ASSUME NEW v \in Var, image'[w].env[v] = Garbage
            PROVE  Blamed(v)'
        <4>1. e[v] = Garbage
          BY <3>1, <3>2, <3>4, CheckpointAssumption DEF Kept, Array
        <4>2. CASE ReadsLive(w)
          BY <1>2, <3>1, <3>2, <4>1, <4>2 DEF HistoryInv
        <4>3. CASE ~ReadsLive(w)
          <5>1. ~refLive'[w[1]]
            BY <3>1, <4>3 DEF ReadsLive
          <5>2. Session(image'[w]) \in taken' /\ Session(image'[w]).env[v] = Garbage
            BY <1>3, <1>4, <3>1, <3>3, <3>4
          <5> QED
            BY <3>3, <5>1, <5>2 DEF Blamed
        <4> QED
          BY <4>2, <4>3
      <3> QED
        BY <3>4
    <2> QED
      BY <2>1, <2>2
  <1>5. \A m \in InHand', v \in Var : m.env[v] = Garbage => Blamed(v)'
    BY <1>4 DEF InHand, Session
  <1>6. \A m \in taken', v \in Var : m.env[v] = Garbage => Blamed(v)'
    BY <1>0, <1>2, <1>5 DEF HistoryInv
  <1>7. \A i \in Inode, k \in 1..MaxSize : data'[i][k] # Hole => Session(data'[i][k]) \in taken'
    <2> SUFFICES ASSUME NEW i \in Inode, NEW k \in 1..MaxSize, data'[i][k] # Hole
                 PROVE  Session(data'[i][k]) \in taken'
      OBVIOUS
    <2>1. data'[i][k] = data[i][k] \/ \E w \in Writer : image[w] \in Image /\ data'[i][k] = image[w]
      BY <1>0, BytesTaken
    <2>2. Session(data'[i][k]) \in taken
      BY <2>1, ContentTypes DEF HistoryInv
    <2> QED
      BY <1>0, <2>2
  <1>8. \A p \in Pid, v \in Var : env'[p][v] = Garbage => Blamed(v)'
    <2> SUFFICES ASSUME NEW p \in Pid, NEW v \in Var, env'[p][v] = Garbage
                 PROVE  Blamed(v)
      BY <1>2
    <2>0. env[p] \in Array
      BY DEF TypeInv, TypeOK
    <2>1. CASE env'[p] = env[p]
      BY <2>1 DEF HistoryInv
    <2>2. CASE \E u \in Var, x \in Value \cup {Absent} : env'[p] = [env[p] EXCEPT ![u] = x]
      <3>1. env[p][v] = Garbage
        BY <2>0, <2>2, CheckpointAssumption DEF Array
      <3> QED
        BY <3>1 DEF HistoryInv
    <2>3. CASE \E m \in taken : env'[p] = Merge(env[p], m.env)
      <3>1. PICK m \in taken : env'[p] = Merge(env[p], m.env)
        BY <2>3
      <3>2. env[p][v] = Garbage \/ m.env[v] = Garbage
        BY <3>1 DEF Merge
      <3> QED
        BY <3>1, <3>2 DEF HistoryInv
    <2> QED
      BY <1>0, <2>1, <2>2, <2>3, EnvChanges
  <1> QED
    BY <1>1, <1>3, <1>6, <1>7, <1>8 DEF HistoryInv

LEMMA HistoryHolds == Spec => [](TypeInv /\ HistoryInv)
  <1>1. Init => HistoryInv
    <2> SUFFICES ASSUME Init
                 PROVE  HistoryInv
      OBVIOUS
    <2>1. \A p \in Pid, v \in Var : env[p][v] # Garbage
      BY CheckpointAssumption DEF Init, Init, Env
    <2> QED
      BY <2>1, ContentTypes DEF Init, Init, HistoryInv, Empty
  <1>2. TypeInv /\ HistoryInv /\ [Next]_vars => HistoryInv'
    <2> SUFFICES ASSUME TypeInv, HistoryInv, [Next]_vars
                 PROVE  HistoryInv'
      OBVIOUS
    <2>1. CASE UNCHANGED vars
      BY <2>1 DEF vars, vars, procVars, saveVars, fileVars, HistoryInv, Blamed
    <2> QED
      BY <2>1, HistoryStep
  <1> QED
    BY <1>1, <1>2, TypeCorrect, PTL DEF Spec

\* Whatever saves overlap, are cut off or lose their last write, whoever deletes
\* and restores, at start-up or at the prompt: a shell has rubbish in a variable
\* only if some save read it there from an array that a command had replaced.
THEOREM RealEnvironments == Spec => []EnvIsReal
  <1>1. HistoryInv => EnvIsReal
    BY DEF HistoryInv, EnvIsReal, Blamed
  <1> QED
    BY <1>1, HistoryHolds, PTL

\* Every change of an environment is its user's, of one variable, or the merge of
\* one image that a save of another shell took, all of it and nothing else, for
\* any number of variables, shells, overlapping saves and faults.
THEOREM OneSaveRestored == Spec => RestoresOneSave
  <1>1. TypeInv /\ HistoryInv /\ [Next]_vars =>
          [\A p \in Pid : env'[p] # env[p] =>
             \/ /\ pc[p] = "prompt"
                /\ \E v \in Var, x \in Value \cup {Absent} : env'[p] = [env[p] EXCEPT ![v] = x]
             \/ \E m \in taken : m.pid # p /\ env'[p] = Merge(env[p], m.env)]_vars
    BY EnvChanges DEF Next
  <1> QED
    BY <1>1, HistoryHolds, PTL DEF Spec, RestoresOneSave

-------------------------------------------------------------------------------
(* What the lock is worth: the commands that take it never pull the array  *)
(* from under the thread; `unsetenv` and `checkpoint restore` do not take  *)
(* it, so in the sessions of the theorem only batch shells, which have no  *)
(* thread, use those two.                                                  *)

LockedSession == \A p \in Pid \ Batch : Commands[p] \cap {"unsetenv", "restore"} = {}

LEMMA StableStep ==
    ASSUME LockedSession, TypeInv, ThreadInv, Next, NEW p \in Pid, ~LockFree(p), Live(p)
    PROVE  UNCHANGED <<env[p], refLive[p]>>
  <1>1. thread[p] = "run" /\ pc[p] \notin {"unborn", "boot", "ready"} /\ p \notin Batch
    BY TwoWriters DEF LockFree, ThreadInv, PositionOK
  <1>2. CASE \E w \in Writer : SaveStep(w)
    BY <1>2 DEF SaveStep, OpenTmp, OpenFails, Serialise, WriteChunk, WriteFails, FlushLost,
                Rename, RenameFails, EndSave, procVars
  <1>3. ASSUME NEW q \in Pid, Process(q)
        PROVE  UNCHANGED <<env[p], refLive[p]>>
    <2>1. CASE q = p
      <3>1. ~BootRestore(q) /\ ~StartThread(q) /\ ~SetenvReplace(q) /\ ~SetenvNew(q)
        BY <1>1, <2>1 DEF BootRestore, StartThread, SetenvReplace, SetenvNew, Goto
      <3>2. ~Unsetenv(q) /\ ~CommandRestore(q)
        BY <1>1, <2>1 DEF LockedSession, Unsetenv, CommandRestore, Can
      <3> QED
        BY <1>3, <3>1, <3>2
        DEF Process, Launch, StartBatch, Return, Command, CommandSave, CommandDelete, Sigterm,
            CommandExit, StopStep, Stop, Delete, Crash, ThreadWakes, ThreadStops, procVars
    <2>2. CASE q # p
      BY <1>3, <2>2
      DEF Process, Launch, BootRestore, StartThread, StartBatch, Return, Restore, Command,
          SetenvReplace, SetenvNew, Unsetenv, CommandSave, CommandRestore, CommandDelete, Sigterm,
          CommandExit, StopStep, Stop, Delete, Crash, ThreadWakes, ThreadStops, procVars,
          TypeInv, TypeOK
    <2> QED
      BY <2>1, <2>2
  <1> QED
    BY <1>2, <1>3 DEF Next

-------------------------------------------------------------------------------
(* A checkpoint is as good as one atomic step.                             *)
(*                                                                         *)
(* The step of SessionStore that a save implements is taken at its rename. *)
(* What is renamed is a complete image (FillInv) of the environment the    *)
(* shell has at that instant (HeldInv): nothing changed it since the       *)
(* thread read it, because the lock was held all that time.                *)

AtomicSession ==
    /\ QuietSession
    /\ LockedSession
    /\ \A p \in Pid \ Batch : "setenv_new" \notin Commands[p]

HeldInv ==
    /\ \A p \in Pid \ Batch : refLive[p]
    /\ \A p \in Pid : step[T(p)] \in {"write", "rename"} =>
         image[T(p)] = [pid |-> p, env |-> Kept(env[p]), by |-> "thread"]

LEMMA HeldSave ==
    ASSUME TypeInv, ThreadInv, FillInv, HeldInv, NEW w \in Writer, SaveStep(w)
    PROVE  HeldInv'
  <1>0. refLive' = refLive /\ env' = env /\ \A p \in Pid : T(p) \in Writer
    BY TwoWriters DEF T, SaveStep, OpenTmp, OpenFails, Serialise, WriteChunk, WriteFails,
                      FlushLost, Rename, RenameFails, EndSave, procVars
  <1>1. CASE Serialise(w)
    <2>1. PICK p \in Pid : w = T(p) /\ w[1] = p /\ w[2] = "thread"
      BY <1>1, WriterParts DEF Serialise, FillInv, FillOK, T
    <2>2. refLive[p]
      BY <1>1, <2>1 DEF Serialise, ThreadInv, PositionOK, HeldInv, T
    <2>3. image' = [image EXCEPT ![w] = [pid |-> p, env |-> Kept(env[p]), by |-> "thread"]]
      BY <1>1, <2>1, <2>2 DEF Serialise, ReadsLive
    <2>4. step' = [step EXCEPT ![w] = "write"]
      BY <1>1 DEF Serialise
    <2>5. ASSUME NEW q \in Pid, step'[T(q)] \in {"write", "rename"}
          PROVE  image'[T(q)] = [pid |-> q, env |-> Kept(env[q]), by |-> "thread"]
      <3>1. CASE q = p
        BY <1>0, <2>1, <2>3, <3>1 DEF TypeInv, TypeOK
      <3>2. CASE q # p
        <4>1. T(q) # w /\ T(q) \in Writer
          BY <1>0, <2>1, <3>2 DEF T
        <4>2. image'[T(q)] = image[T(q)] /\ step'[T(q)] = step[T(q)]
          BY <2>3, <2>4, <4>1 DEF TypeInv, TypeOK
        <4> QED
          BY <2>5, <4>2 DEF HeldInv
      <3> QED
        BY <3>1, <3>2
    <2> QED
      BY <1>0, <2>5 DEF HeldInv
  <1>2. CASE ~Serialise(w)
    <2>1. \A v \in Writer : step'[v] \in {"write", "rename"} =>
            step[v] \in {"write", "rename"} /\ image'[v] = image[v]
      BY <1>2 DEF SaveStep, OpenTmp, OpenFails, WriteChunk, WriteFails, FlushLost, Rename,
                  RenameFails, EndSave, TypeInv, TypeOK
    <2> QED
      BY <1>0, <2>1 DEF HeldInv
  <1> QED
    BY <1>1, <1>2

LEMMA HeldProcess ==
    ASSUME AtomicSession, TypeInv, ThreadInv, HeldInv, NEW p \in Pid, Process(p)
    PROVE  HeldInv'
  <1>0. \A q \in Pid : T(q) \in Writer /\ T(q) = <<q, "thread">>
    BY TwoWriters DEF T
  <1>1. ASSUME NEW q \in Pid \ Batch
        PROVE  refLive'[q]
    <2>1. CASE q = p
      <3>1. ~SetenvNew(p) /\ ~Unsetenv(p) /\ ~CommandRestore(p)
        BY <2>1 DEF AtomicSession, LockedSession, SetenvNew, Unsetenv, CommandRestore, Can
      <3>2. CASE BootRestore(p)
        BY <2>1, <3>2 DEF BootRestore, Restore, Goto, HeldInv, TypeInv, TypeOK
      <3> QED
        BY <2>1, <3>1, <3>2
        DEF Process, Launch, StartThread, StartBatch, Return, Command, SetenvReplace, CommandSave,
            CommandDelete, Sigterm, CommandExit, StopStep, Stop, Delete, Crash, ThreadWakes,
            ThreadStops, procVars, HeldInv, TypeInv, TypeOK
    <2>2. CASE q # p
      BY <2>2
      DEF Process, Launch, BootRestore, StartThread, StartBatch, Return, Restore, Command,
          SetenvReplace, SetenvNew, Unsetenv, CommandSave, CommandRestore, CommandDelete, Sigterm,
          CommandExit, StopStep, Stop, Delete, Crash, ThreadWakes, ThreadStops, procVars,
          HeldInv, TypeInv, TypeOK
    <2> QED
      BY <2>1, <2>2
  <1>2. ASSUME NEW q \in Pid, step'[T(q)] \in {"write", "rename"}
        PROVE  step[T(q)] \in {"write", "rename"} /\ image'[T(q)] = image[T(q)]
    <2>1. CASE Crash(p)
      BY <1>0, <1>2, <2>1 DEF Crash
    <2>2. CASE ~Crash(p)
      <3>1. image' = image
        BY <2>2
        DEF Process, Launch, BootRestore, StartThread, StartBatch, Return, Command, SetenvReplace,
            SetenvNew, Unsetenv, CommandSave, CommandRestore, CommandDelete, Sigterm, CommandExit,
            StopStep, Stop, Delete, ThreadWakes, ThreadStops, saveVars
      <3>2. step' = step \/ \E v \in Writer : step' = [step EXCEPT ![v] = "open"]
        BY <2>2, TwoWriters
        DEF Process, Launch, BootRestore, StartThread, StartBatch, Return, Command, SetenvReplace,
            SetenvNew, Unsetenv, CommandSave, CommandRestore, CommandDelete, Sigterm, CommandExit,
            StopStep, Stop, Delete, ThreadWakes, ThreadStops, saveVars, BeginSave
      <3> QED
        BY <1>0, <1>2, <3>1, <3>2 DEF TypeInv, TypeOK
    <2> QED
      BY <2>1, <2>2
  <1>3. ASSUME NEW q \in Pid, step'[T(q)] \in {"write", "rename"}
        PROVE  env'[q] = env[q]
    <2>1. ~LockFree(q) /\ Live(q)
      BY <1>0, <1>2, <1>3 DEF LockFree, ThreadInv, PositionOK
    <2> QED
      BY <2>1, StableStep DEF Next, AtomicSession
  <1> QED
    BY <1>1, <1>2, <1>3 DEF HeldInv

\* A whole file is stored as the pair it was saved as.
LEMMA StoredWhole ==
    ASSUME state # None, Whole(data[state])
    PROVE  Stored = [pid |-> data[state][1].pid, env |-> data[state][1].env]
  BY DEF Stored, ImageIn

LEMMA StoreSave ==
    ASSUME TypeInv, ThreadInv, OwnInv, FillInv, HeldInv, NEW w \in Writer, SaveStep(w)
    PROVE  Store!Next \/ UNCHANGED Store!vars
  <1>0. PICK p \in Pid : w = T(p) /\ FillOK(p) /\ w[1] = p
    <2>1. step[w] # "none"
      BY DEF SaveStep, OpenTmp, OpenFails, Serialise, WriteChunk, WriteFails,
             FlushLost, Rename, RenameFails
    <2> QED
      BY <2>1, WriterParts DEF FillInv, FillOK, T
  <1>1. env' = env /\ restored' = restored
    BY DEF SaveStep, OpenTmp, OpenFails, Serialise, WriteChunk, WriteFails,
           FlushLost, Rename, RenameFails, EndSave, procVars
  <1>2. CASE Rename(w)
    <2>1. /\ state' = tmp[p] /\ data' = data /\ tmp[p] # None /\ step[w] = "rename"
      BY <1>0, <1>2 DEF Rename
    <2>2. image[w] = [pid |-> p, env |-> Kept(env[p]), by |-> "thread"] /\ image[w] \in Image
      BY <1>0, <2>1 DEF HeldInv, TypeInv, WriterOK
    <2>3. data[tmp[p]] = ImageOf(image[w])
      BY <1>0, <2>1 DEF FillOK
    <2>4. ImageOf(image[w])[1] = image[w] /\ Whole(ImageOf(image[w]))
      BY <2>2, ContentTypes, ImageIsWhole, CheckpointAssumption DEF ImageOf
    <2>5. Stored' = [pid |-> p, env |-> Kept(env[p])]
      <3>1. state' # None /\ Whole(data'[state']) /\ data'[state'][1] = image[w]
        BY <2>1, <2>3, <2>4
      <3> QED
        BY <2>2, <3>1 DEF Stored, Whole, ImageIn, ImageOf
    <2>6. Store!Kept(env[p]) = Kept(env[p])
      BY DEF Kept, Store!Kept
    <2>7. Store!Save(p)
      BY <1>1, <2>5, <2>6 DEF Store!Save
    <2> QED
      BY <2>7 DEF Store!Next
  <1>3. CASE ~Rename(w)
    <2>1. state' = state /\ (state # None => data'[state] = data[state])
      <3>1. CASE OpenTmp(w)
        <4>1. PICK i \in Inode :
                /\ tmp[p] = None => FreeInode(i)
                /\ tmp[p] # None => i = tmp[p]
                /\ data' = [data EXCEPT ![i] = Empty]
          BY <1>0, <3>1, Zenon DEF OpenTmp
        <4>2. i # state
          BY <1>0, <4>1 DEF FillOK, FreeInode
        <4> QED
          BY <3>1, <4>1, <4>2 DEF OpenTmp, TypeInv, TypeOK
      <3>2. CASE WriteChunk(w)
        <4>1. fd[w] # state
          BY <1>0, <3>2 DEF WriteChunk, FillOK
        <4> QED
          BY <3>2, <4>1 DEF WriteChunk, TypeInv, TypeOK
      <3> QED
        BY <1>3, <3>1, <3>2 DEF SaveStep, OpenFails, Serialise, WriteFails, FlushLost,
                               RenameFails, EndSave, fileVars
    <2>2. Stored' = Stored
      BY <2>1 DEF Stored, Whole, ImageIn, ImageOf
    <2> QED
      BY <1>1, <2>2 DEF Store!vars
  <1> QED
    BY <1>2, <1>3

LEMMA StoreRestore ==
    ASSUME TypeInv, PublishedWhole, NEW p \in Pid, Restore(p), UNCHANGED fileVars
    PROVE  Store!Restore(p)
  <1>1. Stored' = Stored
    BY DEF Stored, Whole, ImageIn, ImageOf, fileVars
  <1>2. CASE state = None
    BY <1>1, <1>2 DEF Restore, RestoreResult, Stored, Store!Restore
  <1>3. CASE state # None
    <2>1. Whole(data[state]) /\ ImageIn(data[state]) = data[state][1]
      BY <1>3 DEF PublishedWhole, ImageIn
    <2>2. Stored = [pid |-> data[state][1].pid, env |-> data[state][1].env]
      BY <1>3, <2>1, StoredWhole
    <2>3. Stored # None
      <3>1. data[state][1] \in Image
        BY <1>3, <2>1, ContentTypes DEF Whole, TypeInv, TypeOK
      <3> QED
        BY <2>2, <3>1, CheckpointAssumption DEF Image
    <2>4. CASE data[state][1].pid = p
      BY <1>1, <1>3, <2>1, <2>2, <2>3, <2>4 DEF Restore, RestoreResult, Store!Restore
    <2>5. CASE data[state][1].pid # p
      <3>1. RestoreResult(p) = "ok"
        BY <1>3, <2>1, <2>5 DEF RestoreResult
      <3>2. /\ restored' = [restored EXCEPT ![p] = "ok"]
            /\ env' = [env EXCEPT ![p] = Merge(env[p], data[state][1].env)]
        BY <2>1, <3>1 DEF Restore
      <3>3. Store!Merge(env[p], data[state][1].env) = Merge(env[p], data[state][1].env)
        BY DEF Merge, Store!Merge
      <3>4. Stored.pid # p /\ Stored.env = data[state][1].env
        BY <2>2, <2>5
      <3> QED
        BY <1>1, <2>3, <3>2, <3>3, <3>4 DEF Store!Restore
    <2> QED
      BY <2>4, <2>5
  <1> QED
    BY <1>2, <1>3

LEMMA StoreProcess ==
    ASSUME TypeInv, PublishedWhole, NEW p \in Pid, Process(p)
    PROVE  Store!Next \/ UNCHANGED Store!vars
  <1>1. CASE BootRestore(p) \/ CommandRestore(p)
    BY <1>1, StoreRestore DEF BootRestore, CommandRestore, Store!Next
  <1>2. CASE SetenvReplace(p) \/ SetenvNew(p) \/ Unsetenv(p)
    <2>1. /\ \E v \in Var, x \in Value \cup {Absent} : env' = [env EXCEPT ![p][v] = x]
          /\ UNCHANGED <<restored, data, state>>
      BY <1>2 DEF SetenvReplace, SetenvNew, Unsetenv, fileVars
    <2>2. Stored' = Stored
      BY <2>1 DEF Stored, Whole, ImageIn, ImageOf
    <2> QED
      BY <2>1, <2>2 DEF Store!Next, Store!SetEnv
  <1>3. CASE CommandDelete(p) \/ Delete(p)
    <2>1. state' = None /\ UNCHANGED <<env, restored>>
      BY <1>3 DEF CommandDelete, Delete, procVars
    <2>2. Stored' = None
      BY <2>1 DEF Stored
    <2> QED
      BY <2>1, <2>2 DEF Store!Next, Store!Remove
  <1>4. CASE ~(BootRestore(p) \/ CommandRestore(p) \/ SetenvReplace(p) \/ SetenvNew(p)
               \/ Unsetenv(p) \/ CommandDelete(p) \/ Delete(p))
    <2>1. UNCHANGED <<env, restored, data, state>>
      BY <1>4 DEF Process, Launch, StartThread, StartBatch, Return, Command, CommandSave, Sigterm,
                  CommandExit, StopStep, Stop, Crash, ThreadWakes, ThreadStops, procVars, fileVars
    <2>2. Stored' = Stored
      BY <2>1 DEF Stored, Whole, ImageIn, ImageOf
    <2> QED
      BY <2>1, <2>2 DEF Store!vars
  <1> QED
    BY <1>1, <1>2, <1>3, <1>4

\* With one saving thread in each shell and an array that only the locked commands
\* change, the whole machinery (two files, a thread, a lock, crashes, short writes)
\* is indistinguishable from a store that is replaced, removed and read at once.
THEOREM SavesAreAtomic == ASSUME AtomicSession PROVE Spec => ImplementsStore
  <1>1. Init => OwnInv /\ FillInv /\ HeldInv /\ Store!Init
    <2> SUFFICES ASSUME Init
                 PROVE  OwnInv /\ FillInv /\ HeldInv /\ Store!Init
      OBVIOUS
    <2>1. OwnInv /\ FillInv /\ HeldInv
      BY TwoWriters DEF Init, OwnInv, Uses, FillInv, FillOK, T, PublishedWhole, HeldInv
    <2>2. Store!Init
      BY DEF Init, Stored, Env, Store!Env, Store!Init
    <2> QED
      BY <2>1, <2>2
  <1>2. TypeInv /\ ThreadInv /\ OwnInv /\ FillInv /\ HeldInv /\ [Next]_vars
          => OwnInv' /\ FillInv' /\ HeldInv' /\ [Store!Next]_(Store!vars)
    <2> SUFFICES ASSUME TypeInv, ThreadInv, OwnInv, FillInv, HeldInv, [Next]_vars
                 PROVE  OwnInv' /\ FillInv' /\ HeldInv' /\ [Store!Next]_(Store!vars)
      OBVIOUS
    <2>0. QuietSession
      BY DEF AtomicSession
    <2>1. CASE Next
      <3>1. OwnInv' /\ FillInv' /\ HeldInv'
        BY <2>0, <2>1, OwnSave, OwnProcess, FillSave, FillProcess, HeldSave, HeldProcess DEF Next
      <3>2. Store!Next \/ UNCHANGED Store!vars
        BY <2>1, StoreSave, StoreProcess DEF Next, FillInv
      <3> QED
        BY <3>1, <3>2
    <2>2. CASE UNCHANGED vars
      <3>1. OwnInv' /\ FillInv' /\ HeldInv'
        BY <2>2 DEF vars, procVars, saveVars, fileVars, OwnInv, Uses, BytesOf, FillInv, FillOK,
                    PublishedWhole, HeldInv
      <3>2. UNCHANGED Store!vars
        BY <2>2 DEF vars, procVars, fileVars, Store!vars, Stored, Whole, ImageIn, ImageOf
      <3> QED
        BY <3>1, <3>2
    <2> QED
      BY <2>1, <2>2
  <1> QED
    BY <1>1, <1>2, TypeCorrect, PTL DEF Spec, ImplementsStore, Store!Spec

===============================================================================
