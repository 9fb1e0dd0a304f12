---------------------------- MODULE SessionProofs -----------------------------
(* The job table, the sources and the waits of Session, for every size of the  *)
(* tables, every length of a day and every bound.                              *)
EXTENDS Session, FiniteSetTheorems, TLAPS

\* What the job table is made of.
JobTypes ==
    /\ proc \in Seq({"running", "zombie", "reaped"})
    /\ table \in Seq(Job)

\* No active entry names a process that has been waited for.
NoneStale ==
    \A i \in DOMAIN table : table[i].active =>
        table[i].proc = Restored \/ proc[table[i].proc] # "reaped"

\* No process has two active entries.
OnePerProcess ==
    \A i, j \in DOMAIN table :
        table[i].active /\ table[j].active /\ table[i].proc = table[j].proc => i = j

\* A process that has not been waited for has an entry.
AllListed ==
    Len(table) < MaxJobs =>
        \A p \in DOMAIN proc : proc[p] # "reaped" =>
            \E i \in DOMAIN table : table[i].active /\ table[i].proc = p

\* fg waits for an active job.
FgInHand == pc = "fg" => fgjob \in DOMAIN table /\ table[fgjob].active

JobInv == JobTypes /\ NoneStale /\ OnePerProcess /\ AllListed /\ FgInHand

LEMMA MatchFollows ==
    ASSUME JobInv
    PROVE  JobsMatch
  BY DEF JobInv, NoneStale, OnePerProcess, AllListed, JobsMatch

\* clean_jobs() makes inactive exactly what it reaps.
LEMMA CleaningKeeps ==
    ASSUME JobInv, CleanJobs
    PROVE  JobTypes' /\ NoneStale' /\ OnePerProcess' /\ AllListed'
<1> USE DEF JobInv
<1>1. DOMAIN table = 1..Len(table) /\ DOMAIN proc = 1..Len(proc)
  BY DEF JobTypes
<1>2. /\ \A i \in DOMAIN table : table[i] \in [proc : Restored..Len(proc), active : BOOLEAN]
      /\ Len(proc) \in Nat /\ Len(table) \in Nat
  <2>1. \A i \in DOMAIN table : table[i] \in Job
    BY DEF JobTypes
  <2>2. Len(proc) \in Nat /\ Len(table) \in Nat
    BY DEF JobTypes
  <2> QED BY <2>1, <2>2 DEF Job
<1>3. /\ table' = [i \in 1..Len(table) |-> [table[i] EXCEPT !.active = @ /\ ~Finished(i)]]
      /\ proc' = [p \in 1..Len(proc) |->
                     IF \E i \in DOMAIN table : Finished(i) /\ table[i].proc = p
                     THEN "reaped" ELSE proc[p]]
  BY <1>1 DEF CleanJobs
<1>4. /\ proc' \in Seq({"running", "zombie", "reaped"}) /\ Len(proc') = Len(proc)
  <2>1. \A p \in 1..Len(proc) : proc'[p] \in {"running", "zombie", "reaped"}
    BY <1>3, <1>1 DEF JobTypes
  <2> QED BY <2>1, <1>3, <1>2
<1>5. \A i \in DOMAIN table : /\ table'[i].proc = table[i].proc
                              /\ table'[i].active <=> table[i].active /\ ~Finished(i)
                              /\ table'[i] \in [proc : Restored..Len(proc), active : BOOLEAN]
  BY <1>1, <1>2, <1>3
<1>6. table' \in Seq(Job)' /\ Len(table') = Len(table) /\ DOMAIN table' = DOMAIN table
  BY <1>1, <1>2, <1>3, <1>4, <1>5 DEF Job
<1>7. JobTypes'
  BY <1>4, <1>6 DEF JobTypes
<1>8. NoneStale'
  <2> SUFFICES ASSUME NEW i \in DOMAIN table, table'[i].active, table[i].proc # Restored,
                      proc'[table[i].proc] = "reaped"
               PROVE  FALSE
    BY <1>5, <1>6 DEF NoneStale
  <2>1. table[i].active /\ ~Finished(i) /\ proc[table[i].proc] # "reaped"
    BY <1>5 DEF NoneStale
  <2>2. table[i].proc \in 1..Len(proc)
    BY <1>2, <1>1 DEF Restored
  <2>3. PICK j \in DOMAIN table : Finished(j) /\ table[j].proc = table[i].proc
    BY <1>3, <2>1, <2>2
  <2> QED BY <2>1, <2>3 DEF Finished
<1>9. OnePerProcess'
  BY <1>5, <1>6 DEF OnePerProcess
<1>10. AllListed'
  <2> SUFFICES ASSUME Len(table) < MaxJobs, NEW p \in 1..Len(proc), proc'[p] # "reaped"
               PROVE  \E i \in DOMAIN table : table'[i].active /\ table'[i].proc = p
    BY <1>3, <1>4, <1>6 DEF AllListed
  <2>1. /\ ~ \E i \in DOMAIN table : Finished(i) /\ table[i].proc = p
        /\ proc[p] # "reaped"
    BY <1>3
  <2>2. PICK i \in DOMAIN table : table[i].active /\ table[i].proc = p
    BY <2>1, <1>1 DEF AllListed
  <2> QED BY <1>5, <2>1, <2>2
<1> QED BY <1>7, <1>8, <1>9, <1>10

LEMMA JobsStart ==
    ASSUME Init
    PROVE  JobInv
<1>1. CASE table = <<>>
  BY <1>1 DEF Init, JobInv, JobTypes, NoneStale, OnePerProcess, AllListed, FgInHand
<1>2. CASE table = <<[proc |-> Restored, active |-> TRUE]>>
  <2>1. Len(table) = 1 /\ DOMAIN table = {1} /\ table[1] = [proc |-> Restored, active |-> TRUE]
    BY <1>2
  <2>2. Len(proc) = 0 /\ DOMAIN proc = {} /\ proc \in Seq({"running", "zombie", "reaped"})
    BY DEF Init
  <2>3. [proc |-> Restored, active |-> TRUE] \in Job
    BY <2>2 DEF Job, Restored
  <2>4. table \in Seq(Job)
    BY <1>2, <2>3
  <2> QED BY <2>1, <2>2, <2>4
          DEF Init, JobInv, JobTypes, NoneStale, OnePerProcess, AllListed, FgInHand, Restored
<1> QED BY <1>1, <1>2 DEF Init

\* Steps that leave the table and the processes alone.
LEMMA OthersKeep ==
    ASSUME JobInv, UNCHANGED jobs, pc' = "fg" => pc = "fg"
    PROVE  JobInv'
  BY DEF JobInv, JobTypes, Job, NoneStale, OnePerProcess, AllListed, FgInHand, jobs

LEMMA BackgroundKeeps ==
    ASSUME JobInv, Background
    PROVE  JobInv'
<1> USE DEF JobInv
<1> DEFINE n == Len(proc) + 1
           job == [proc |-> n, active |-> TRUE]
<1>1. /\ proc \in Seq({"running", "zombie", "reaped"}) /\ table \in Seq(Job)
      /\ Len(proc) \in Nat /\ Len(table) \in Nat
      /\ DOMAIN table = 1..Len(table) /\ DOMAIN proc = 1..Len(proc)
  BY DEF JobTypes
<1>2. \A i \in DOMAIN table : table[i] \in [proc : Restored..Len(proc), active : BOOLEAN]
  <2>1. \A i \in DOMAIN table : table[i] \in Job
    BY <1>1
  <2> QED BY <2>1 DEF Job
<1>3. /\ proc' \in Seq({"running", "zombie", "reaped"})
      /\ Len(proc') = n /\ DOMAIN proc' = 1..n
      /\ proc'[n] = "running" /\ \A p \in 1..Len(proc) : proc'[p] = proc[p]
  <2>1. proc' = Append(proc, "running")
    BY DEF Background
  <2> QED BY <1>1, <2>1
<1>4. job \in Job' /\ \A i \in DOMAIN table : table[i] \in Job'
  BY <1>1, <1>2, <1>3 DEF Job, Restored
<1>5. pc' # "fg"
  BY DEF Background
<1>6. CASE Len(table) < MaxJobs
  <2>1. table' = Append(table, job)
    BY <1>6 DEF Background
  <2>2. table \in Seq(Job')
    BY <1>1, <1>4
  <2>3. /\ table' \in Seq(Job') /\ Len(table') = Len(table) + 1
        /\ DOMAIN table' = 1..Len(table) + 1 /\ table'[Len(table) + 1] = job
        /\ \A i \in 1..Len(table) : table'[i] = table[i]
    BY <1>1, <1>4, <2>1, <2>2
  <2>4. JobTypes'
    BY <1>3, <2>3 DEF JobTypes
  <2>5. NoneStale'
    <3> SUFFICES ASSUME NEW i \in DOMAIN table', table'[i].active, table'[i].proc # Restored
                 PROVE  proc'[table'[i].proc] # "reaped"
      BY DEF NoneStale
    <3>1. CASE i = Len(table) + 1
      BY <3>1, <1>3, <2>3
    <3>2. CASE i \in 1..Len(table)
      <4>1. table[i].active /\ table[i].proc # Restored /\ table[i].proc \in 1..Len(proc)
        BY <3>2, <2>3, <1>1, <1>2 DEF Restored
      <4> QED BY <4>1, <3>2, <2>3, <1>1, <1>3 DEF NoneStale
    <3> QED BY <3>1, <3>2, <2>3, <1>1
  <2>6. OnePerProcess'
    <3>1. \A i \in 1..Len(table) : table[i].proc # n
      BY <1>1, <1>2 DEF Restored
    <3> QED BY <3>1, <2>3, <1>1 DEF OnePerProcess
  <2>7. AllListed'
    <3> SUFFICES ASSUME NEW p \in 1..n, proc'[p] # "reaped"
                 PROVE  \E i \in DOMAIN table' : table'[i].active /\ table'[i].proc = p
      BY <1>3 DEF AllListed
    <3>1. CASE p = n
      BY <3>1, <2>3, <1>1
    <3>2. CASE p \in 1..Len(proc)
      <4>1. PICK i \in DOMAIN table : table[i].active /\ table[i].proc = p
        BY <3>2, <1>1, <1>3, <1>6 DEF AllListed
      <4> QED BY <4>1, <2>3, <1>1
    <3> QED BY <3>1, <3>2, <1>1
  <2> QED BY <1>5, <2>4, <2>5, <2>6, <2>7 DEF FgInHand
<1>7. CASE ~(Len(table) < MaxJobs)
  <2>1. table' = table
    BY <1>7 DEF Background
  <2>2. JobTypes'
    BY <1>1, <1>3, <1>4, <2>1 DEF JobTypes
  <2>3. NoneStale'
    <3> SUFFICES ASSUME NEW i \in DOMAIN table, table[i].active, table[i].proc # Restored
                 PROVE  proc'[table[i].proc] # "reaped"
      BY <2>1 DEF NoneStale
    <3>1. table[i].proc \in 1..Len(proc)
      BY <1>1, <1>2 DEF Restored
    <3> QED BY <3>1, <1>3 DEF NoneStale
  <2>4. OnePerProcess' /\ AllListed'
    BY <1>7, <2>1 DEF OnePerProcess, AllListed
  <2> QED BY <1>5, <2>2, <2>3, <2>4 DEF FgInHand
<1> QED BY <1>6, <1>7

\* A process that ends, ends unreaped.
LEMMA EndingKeeps ==
    ASSUME JobInv, ProcEnds
    PROVE  JobInv'
<1> USE DEF JobInv
<1>1. PICK p \in DOMAIN proc : proc[p] = "running" /\ proc' = [proc EXCEPT ![p] = "zombie"]
  BY DEF ProcEnds
<1>2. /\ proc' \in Seq({"running", "zombie", "reaped"}) /\ Len(proc') = Len(proc)
      /\ DOMAIN proc' = DOMAIN proc
      /\ \A q \in DOMAIN proc : proc'[q] # "reaped" <=> proc[q] # "reaped"
  BY <1>1 DEF JobTypes
<1>3. table' = table /\ pc' = pc /\ fgjob' = fgjob /\ Job' = Job
  BY <1>2 DEF ProcEnds, Job
<1>4. JobTypes'
  BY <1>2, <1>3 DEF JobTypes
<1>5. NoneStale'
  <2> SUFFICES ASSUME NEW i \in DOMAIN table, table[i].active, table[i].proc # Restored
               PROVE  proc'[table[i].proc] # "reaped"
    BY <1>3 DEF NoneStale
  <2>1. table[i] \in Job
    BY DEF JobTypes
  <2>2. table[i].proc \in DOMAIN proc
    BY <2>1 DEF Job, Restored, JobTypes
  <2> QED BY <2>2, <1>2 DEF NoneStale
<1> QED BY <1>2, <1>3, <1>4, <1>5 DEF OnePerProcess, AllListed, FgInHand

\* fg makes inactive what it has waited for.
LEMMA FgKeeps ==
    ASSUME JobInv, FgEnds
    PROVE  JobInv'
<1> USE DEF JobInv
<1> DEFINE q == table[fgjob].proc
<1>1. fgjob \in DOMAIN table /\ table[fgjob].active
  BY DEF FgEnds, At, FgInHand
<1>2. /\ \A i \in DOMAIN table : table[i] \in Job
      /\ DOMAIN table = 1..Len(table) /\ DOMAIN proc = 1..Len(proc)
      /\ Len(table) \in Nat /\ Len(proc) \in Nat
  BY DEF JobTypes
<1>3. /\ proc' \in Seq({"running", "zombie", "reaped"}) /\ Len(proc') = Len(proc)
      /\ DOMAIN proc' = DOMAIN proc
      /\ \A p \in DOMAIN proc : p # q => proc'[p] = proc[p]
      /\ q # Restored => proc'[q] = "reaped"
  <2>1. CASE q = Restored
    BY <2>1 DEF FgEnds, JobTypes
  <2>2. CASE q # Restored
    <3>1. q \in DOMAIN proc
      BY <2>2, <1>1, <1>2 DEF Job, Restored
    <3>2. proc' = [proc EXCEPT ![q] = "reaped"]
      BY <2>2 DEF FgEnds
    <3> QED BY <3>1, <3>2 DEF JobTypes
  <2> QED BY <2>1, <2>2
<1>4. table' = [table EXCEPT ![fgjob].active = FALSE] /\ pc' # "fg" /\ Job' = Job
  BY <1>3 DEF FgEnds, Job
<1>5. /\ DOMAIN table' = DOMAIN table /\ Len(table') = Len(table)
      /\ \A i \in DOMAIN table : table'[i].proc = table[i].proc
      /\ \A i \in DOMAIN table : table'[i].active <=> table[i].active /\ i # fgjob
      /\ table' \in Seq(Job)
  <2> DEFINE done == [table[fgjob] EXCEPT !.active = FALSE]
  <2>1. table \in Seq(Job) /\ table[fgjob] \in Job
    BY <1>1, <1>2 DEF JobTypes
  <2>2. done \in Job /\ done.proc = table[fgjob].proc /\ done.active = FALSE
    BY <2>1 DEF Job
  <2>3. table' = [table EXCEPT ![fgjob] = done]
    BY <1>4
  <2>4. /\ table' \in Seq(Job) /\ DOMAIN table' = DOMAIN table /\ Len(table') = Len(table)
        /\ table'[fgjob] = done /\ \A i \in DOMAIN table : i # fgjob => table'[i] = table[i]
    <3> HIDE DEF done
    <3> QED BY <1>1, <2>1, <2>2, <2>3
  <2> QED BY <1>1, <2>2, <2>4
<1>6. JobTypes'
  BY <1>3, <1>4, <1>5 DEF JobTypes
<1>7. NoneStale'
  <2> SUFFICES ASSUME NEW i \in DOMAIN table, table'[i].active, table[i].proc # Restored
               PROVE  proc'[table[i].proc] # "reaped"
    BY <1>5 DEF NoneStale
  <2>1. table[i].active /\ i # fgjob /\ table[i].proc # q
    BY <1>1, <1>5 DEF OnePerProcess
  <2>2. table[i].proc \in DOMAIN proc
    BY <1>2 DEF Job, Restored
  <2> QED BY <2>1, <2>2, <1>3 DEF NoneStale
<1>8. OnePerProcess'
  BY <1>5 DEF OnePerProcess
<1>9. AllListed'
  <2> SUFFICES ASSUME Len(table) < MaxJobs, NEW p \in DOMAIN proc, proc'[p] # "reaped"
               PROVE  \E i \in DOMAIN table : table'[i].active /\ table[i].proc = p
    BY <1>3, <1>5 DEF AllListed
  <2>1. p # q
    BY <1>2, <1>3 DEF Restored
  <2>2. PICK i \in DOMAIN table : table[i].active /\ table[i].proc = p
    BY <2>1, <1>3 DEF AllListed
  <2> QED BY <2>1, <2>2, <1>5
<1> QED BY <1>4, <1>6, <1>7, <1>8, <1>9 DEF FgInHand

LEMMA JobsStep == JobInv /\ [Next]_vars => JobInv'
<1> SUFFICES ASSUME JobInv, [Next]_vars
             PROVE  JobInv'
  OBVIOUS
<1>1. CASE UNCHANGED vars
  BY <1>1, OthersKeep DEF vars, jobs
<1>2. CASE PollTerm \/ Poll \/ Jobs
  <2>1. CleanJobs /\ pc' # "fg"
    BY <1>2 DEF PollTerm, Poll, Jobs
  <2> QED BY <2>1, CleaningKeeps DEF JobInv, FgInHand
<1>3. CASE Node
  <2>1. pc' # "fg" /\ (CleanJobs \/ UNCHANGED jobs)
    BY <1>3 DEF Node
  <2>2. CASE CleanJobs
    BY <2>1, <2>2, CleaningKeeps DEF JobInv, FgInHand
  <2>3. CASE UNCHANGED jobs
    BY <2>1, <2>3, OthersKeep
  <2> QED BY <2>1, <2>2, <2>3
<1>4. CASE Background
  BY <1>4, BackgroundKeeps
<1>5. CASE ProcEnds
  BY <1>5, EndingKeeps
<1>6. CASE FgEnds
  BY <1>6, FgKeeps
<1>7. CASE Fg
  BY <1>7 DEF Fg, JobInv, JobTypes, Job, NoneStale, OnePerProcess, AllListed, FgInHand
<1>8. CASE \/ Next1 \/ Exit \/ Execute \/ ReadLine \/ ReadNull \/ ChildEnds
  BY <1>8, OthersKeep DEF Next1, Exit, Execute, ReadLine, ReadNull, ChildEnds, At
<1>9. CASE Time \/ TimeStep \/ TimeEnds \/ Epoch \/ EpochCancelled \/ EpochFires
  BY <1>9, OthersKeep DEF Time, TimeStep, TimeEnds, Epoch, EpochCancelled, EpochFires, At
<1>10. CASE Enter \/ WatchTurn \/ WatchEnds \/ WhileTurn \/ WhileEnds \/ Break
  BY <1>10, OthersKeep DEF Enter, WatchTurn, WatchEnds, WhileTurn, WhileEnds, Break, Leave, At
<1>11. CASE Sigint \/ Sigterm \/ Tick
  BY <1>11, OthersKeep DEF Sigint, Sigterm, Tick
<1> QED BY <1>1, <1>2, <1>3, <1>4, <1>5, <1>6, <1>7, <1>8, <1>9, <1>10, <1>11
        DEF Next, Shell, Others

LEMMA JobsHold == Spec => []JobInv
<1>1. Init => JobInv
  BY JobsStart
<1> QED BY <1>1, JobsStep, PTL DEF Spec

\* Every process in the background that has not been waited for has one active
\* entry while the table has room, and no active entry names one that has been
\* (add_job(), clean_jobs() and command_fg()).
THEOREM JobsAlwaysMatch == Spec => []JobsMatch
<1>1. JobInv => JobsMatch
  BY MatchFollows
<1> QED BY <1>1, JobsHold, PTL

-------------------------------------------------------------------------------
\* The prompt is outside every block, the head of one inside, and the registry
\* has open sources only.
StreamInv ==
    /\ blocks \in Seq(Blocks)
    /\ pc \in {"poll", "read"} => blocks = <<>>
    /\ pc = "turn" => blocks # <<>>
    /\ registry \subseteq open
    /\ StreamsClosed

\* Leaving a block closes its source and no other.
LEMMA LeavingCloses ==
    ASSUME StreamInv, blocks # <<>>, Leave
    PROVE  StreamInv'
<1>1. /\ Depth = Len(blocks) /\ Len(blocks) \in Nat \ {0}
      /\ blocks' = SubSeq(blocks, 1, Len(blocks) - 1)
  BY DEF StreamInv, Depth, Leave
<1>2. /\ blocks' \in Seq(Blocks) /\ DOMAIN blocks' = 1..Len(blocks) - 1
      /\ \A i \in 1..Len(blocks) - 1 : blocks'[i] = blocks[i]
  BY <1>1 DEF StreamInv
<1>3. open = {i \in 1..Len(blocks) : blocks[i] = "stream"}
  BY DEF StreamInv, StreamsClosed
<1>4. open' = open \ {Len(blocks)} /\ registry' = registry \ {Len(blocks)}
  BY <1>1 DEF Leave
<1>5. open' = {i \in DOMAIN blocks' : blocks'[i] = "stream"}
  BY <1>1, <1>2, <1>3, <1>4
<1> QED BY <1>2, <1>4, <1>5 DEF StreamInv, StreamsClosed, Leave

\* Entering one opens its source, if it reads any.
LEMMA EnteringOpens ==
    ASSUME StreamInv, Enter
    PROVE  StreamInv'
<1>1. PICK b \in Blocks :
         /\ blocks' = Append(blocks, b)
         /\ IF b = "stream"
            THEN /\ open' = open \cup {Depth + 1}
                 /\ registry' = IF Cardinality(registry) < MaxSubs
                                THEN registry \cup {Depth + 1} ELSE registry
            ELSE UNCHANGED subs
  BY DEF Enter
<1>2. /\ blocks' \in Seq(Blocks) /\ Depth = Len(blocks) /\ Len(blocks) \in Nat
      /\ DOMAIN blocks' = 1..Len(blocks) + 1 /\ blocks'[Len(blocks) + 1] = b
      /\ \A i \in 1..Len(blocks) : blocks'[i] = blocks[i]
  BY <1>1 DEF StreamInv, Depth
<1>3. open = {i \in 1..Len(blocks) : blocks[i] = "stream"}
  BY DEF StreamInv, StreamsClosed
<1>4. registry' \subseteq open'
  BY <1>1 DEF StreamInv, subs
<1>5. open' = {i \in DOMAIN blocks' : blocks'[i] = "stream"}
  BY <1>1, <1>2, <1>3 DEF subs
<1> QED BY <1>2, <1>4, <1>5 DEF StreamInv, StreamsClosed, Enter

LEMMA StreamsStep == StreamInv /\ [Next]_vars => StreamInv'
<1> SUFFICES ASSUME StreamInv, [Next]_vars
             PROVE  StreamInv'
  OBVIOUS
<1> DEFINE Kept == UNCHANGED <<blocks, open, registry>>
                   /\ (pc' \in {"poll", "read"} => blocks = <<>>)
                   /\ (pc' = "turn" => blocks # <<>>)
<1>1. ASSUME Kept PROVE StreamInv'
  BY <1>1 DEF StreamInv, StreamsClosed
<1>2. CASE UNCHANGED vars
  BY <1>2, <1>1 DEF vars, subs, StreamInv
<1>3. CASE Poll \/ ReadNull
  <2>1. blocks = <<>> /\ open = {} /\ registry = {}
    BY <1>3 DEF Poll, ReadNull, At, StreamInv, StreamsClosed
  <2>2. UNCHANGED <<blocks, open, registry>> /\ pc' # "turn"
    BY <1>3, <2>1 DEF Poll, ReadNull, Interrupted, CloseAll, subs
  <2> QED BY <2>1, <2>2, <1>1
<1>4. CASE PollTerm \/ ReadLine \/ Node \/ Exit \/ Execute \/ ChildEnds
  BY <1>4, <1>1 DEF PollTerm, ReadLine, Node, Exit, Execute, ChildEnds, At, subs, StreamInv
<1>5. CASE Next1
  BY <1>5, <1>1 DEF Next1, subs
<1>6. CASE Background \/ ProcEnds \/ Jobs \/ Fg \/ FgEnds
  BY <1>6, <1>1 DEF Background, ProcEnds, Jobs, Fg, FgEnds, subs, StreamInv
<1>7. CASE Time \/ TimeStep \/ TimeEnds \/ Epoch \/ EpochCancelled \/ EpochFires
  BY <1>7, <1>1
     DEF Time, TimeStep, TimeEnds, Epoch, EpochCancelled, EpochFires, At, subs, StreamInv
<1>8. CASE Enter
  BY <1>8, EnteringOpens
<1>9. CASE WatchTurn \/ WhileTurn \/ Sigint \/ Sigterm \/ Tick
  BY <1>9, <1>1 DEF WatchTurn, WhileTurn, Sigint, Sigterm, Tick, subs, StreamInv
<1>10. CASE WatchEnds \/ WhileEnds \/ Break
  <2>1. Leave
    BY <1>10 DEF WatchEnds, WhileEnds, Break
  <2>2. blocks # <<>>
    BY <1>10 DEF WatchEnds, WhileEnds, Break, At, StreamInv
  <2> QED BY <2>1, <2>2, LeavingCloses
<1> QED BY <1>2, <1>3, <1>4, <1>5, <1>6, <1>7, <1>8, <1>9, <1>10 DEF Next, Shell, Others

LEMMA StreamsHold == Spec => []StreamInv
<1>1. Init => StreamInv
  BY DEF Init, StreamInv, StreamsClosed
<1> QED BY <1>1, StreamsStep, PTL DEF Spec

\* Whatever ends a block, its source is closed, and at the prompt none is open
\* (execute_while_block(), stream_sub_close()).
THEOREM StreamsAlwaysClosed == Spec => []StreamsClosed
<1>1. StreamInv => StreamsClosed
  BY DEF StreamInv
<1> QED BY <1>1, StreamsHold, PTL

-------------------------------------------------------------------------------
(* Types *)

Labels == {"poll", "read", "line", "command", "next", "child", "fg", "time",
           "epoch", "turn", "terminated", "left"}

FlagTypes == {sigint, sigterm, stop, wrap} \subseteq BOOLEAN /\ pc \in Labels

LineTypes == Depth <= MaxDepth /\ more \in 0..MaxMore

ClockTypes ==
    /\ now \in 0..(Day - 1) /\ target \in 0..(Day - 1)
    /\ delta \in 0..(Day - 1) /\ since \in 0..MaxLag /\ due \in -MaxLag..Day

\* The job table and the processes have their bounds, and fg has its job.
JobBounds ==
    /\ Len(proc) <= MaxProcs /\ Len(table) <= MaxJobs
    /\ fgjob \in 0..Len(table) /\ (fgjob = 0 <=> pc # "fg")

\* No more sources are registered than the registry has entries.
SourceTypes ==
    /\ open \subseteq 1..MaxDepth
    /\ Cardinality(registry) <= MaxSubs

Types == FlagTypes /\ LineTypes /\ ClockTypes /\ JobBounds /\ SourceTypes

LEMMA TypesStart == Init => Types
<1> SUFFICES ASSUME Init PROVE Types
  OBVIOUS
<1>1. FlagTypes
  BY DEF Init, FlagTypes, Labels
<1>2. LineTypes
  BY SessionAssumption DEF Init, LineTypes, Depth
<1>3. ClockTypes
  BY SessionAssumption DEF Init, ClockTypes
<1>4. JobBounds
  <2>1. Len(table) \in 0..MaxJobs
    <3>1. CASE table = <<>>
      BY <3>1, SessionAssumption
    <3>2. CASE MaxJobs # 0 /\ table = <<[proc |-> Restored, active |-> TRUE]>>
      BY <3>2, SessionAssumption
    <3> QED BY <3>1, <3>2 DEF Init
  <2>2. proc = <<>> /\ fgjob = 0 /\ pc = "poll"
    BY DEF Init
  <2> QED BY <2>1, <2>2, SessionAssumption DEF JobBounds
<1>5. SourceTypes
  BY FS_EmptySet, SessionAssumption DEF Init, SourceTypes
<1> QED BY <1>1, <1>2, <1>3, <1>4, <1>5 DEF Types

LEMMA FlagsStep ==
    ASSUME FlagTypes, ClockTypes, [Next]_vars
    PROVE  FlagTypes'
<1> USE DEF FlagTypes, Labels
<1>1. CASE UNCHANGED vars
  BY <1>1 DEF vars, flags, wait
<1>2. CASE PollTerm \/ Poll \/ ReadLine \/ ReadNull \/ Node \/ Next1
  BY <1>2 DEF PollTerm, Poll, ReadLine, ReadNull, Node, Next1, Interrupted, flags, wait
<1>3. CASE Exit \/ Execute \/ ChildEnds \/ Background \/ ProcEnds \/ Jobs \/ Fg \/ FgEnds
  BY <1>3 DEF Exit, Execute, ChildEnds, Background, ProcEnds, Jobs, Fg, FgEnds, flags, wait
<1>4. CASE Time
  <2>1. PICK t : IF t = now THEN pc' = "command" /\ wrap' = wrap
                 ELSE pc' = "time" /\ wrap' = (t < now)
    BY <1>4 DEF Time, wait
  <2>2. (t < now) \in BOOLEAN
    OBVIOUS
  <2>3. wrap' \in BOOLEAN /\ pc' \in Labels
    BY <2>1, <2>2
  <2> QED BY <1>4, <2>3 DEF Time, flags
<1>5. CASE TimeStep \/ TimeEnds \/ Epoch \/ EpochCancelled \/ EpochFires
  BY <1>5 DEF TimeStep, TimeEnds, Epoch, EpochCancelled, EpochFires, NoWait, flags
<1>6. CASE Enter \/ WatchTurn \/ WatchEnds \/ WhileTurn \/ WhileEnds \/ Break
  BY <1>6 DEF Enter, WatchTurn, WatchEnds, WhileTurn, WhileEnds, Break, Leave, flags, wait
<1>7. CASE Sigint \/ Sigterm \/ Tick
  BY <1>7 DEF Sigint, Sigterm, Tick, flags, wait
<1> QED BY <1>1, <1>2, <1>3, <1>4, <1>5, <1>6, <1>7 DEF Next, Shell, Others

LEMMA LinesStep ==
    ASSUME LineTypes, StreamInv, [Next]_vars
    PROVE  LineTypes'
<1> USE DEF LineTypes, Depth
<1>1. Len(blocks) \in Nat /\ MaxMore \in Nat
  BY SessionAssumption DEF StreamInv
<1>2. CASE UNCHANGED <<blocks, more>>
  BY <1>2
<1>3. CASE ReadLine \/ Next1
  BY <1>1, <1>3 DEF ReadLine, Next1
<1>4. CASE Enter
  <2>1. PICK b \in Blocks : blocks' = Append(blocks, b)
    BY <1>4 DEF Enter
  <2>2. Len(blocks') = Len(blocks) + 1
    BY <2>1 DEF StreamInv
  <2> QED BY <1>1, <1>4, <2>2, SessionAssumption DEF Enter
<1>5. CASE WatchEnds \/ WhileEnds \/ Break
  <2>1. blocks # <<>> /\ Leave
    BY <1>5 DEF WatchEnds, WhileEnds, Break, At, StreamInv
  <2>2. blocks' = SubSeq(blocks, 1, Len(blocks) - 1) /\ more' = more
    BY <2>1 DEF Leave
  <2>3. blocks' \in Seq(Blocks) /\ DOMAIN blocks' = 1..(Len(blocks) - 1)
    BY <1>1, <2>1, <2>2 DEF StreamInv
  <2>4. Len(blocks') = Len(blocks) - 1
    BY <1>1, <2>1, <2>3 DEF StreamInv
  <2> QED BY <1>1, <2>2, <2>4, SessionAssumption
<1> QED
  BY <1>2, <1>3, <1>4, <1>5
  DEF Next, Shell, Others, vars, PollTerm, Poll, Node, Exit, Execute, Background, Jobs, Fg,
      Time, TimeStep, TimeEnds, Epoch, EpochCancelled, EpochFires, WatchTurn, WhileTurn,
      ReadNull, ChildEnds, FgEnds, ProcEnds, Sigint, Sigterm, Tick

\* The clock and the countdown stay within a day, also over midnight.
LEMMA ClocksStep ==
    ASSUME ClockTypes, [Next]_vars
    PROVE  ClockTypes'
<1> USE DEF ClockTypes
<1>0. Day \in Nat \ {0} /\ MaxLag \in Nat \ {0}
  BY SessionAssumption
<1>1. CASE UNCHANGED <<now, target, delta, since, due>>
  BY <1>1
<1>2. CASE Time
  <2>1. PICK t \in 0..(Day - 1) :
           IF t = now THEN UNCHANGED wait
           ELSE target' = t /\ delta' = (t - now) % Day /\ due' = (t - now) % Day /\ since' = 0
    BY <1>2 DEF Time
  <2>2. (t - now) % Day \in 0..(Day - 1)
    BY <1>0
  <2>3. now' = now
    BY <1>2 DEF Time
  <2> QED BY <1>0, <2>1, <2>2, <2>3 DEF wait
<1>3. CASE TimeStep
  <2>1. delta > 0 /\ UNCHANGED <<now, target, due>> /\ since' \in {0, since}
    BY <1>3 DEF TimeStep
  <2>2. delta' = delta - 1 \/ delta' = IF target < now THEN 0 ELSE target - now
    BY <1>3 DEF TimeStep
  <2> QED BY <1>0, <2>1, <2>2
<1>4. CASE TimeEnds \/ EpochCancelled \/ EpochFires
  BY <1>0, <1>4 DEF TimeEnds, EpochCancelled, EpochFires, NoWait
<1>5. CASE Epoch
  BY <1>0, <1>5 DEF Epoch
<1>6. CASE Tick
  <2>1. now' \in 0..(Day - 1)
    BY <1>0, <1>6 DEF Tick
  <2>2. since' \in 0..MaxLag
    BY <1>0, <1>6 DEF Tick, At
  <2>3. due' \in -MaxLag..Day
    BY <1>0, <1>6 DEF Tick
  <2> QED BY <1>6, <2>1, <2>2, <2>3 DEF Tick
<1> QED
  BY <1>1, <1>2, <1>3, <1>4, <1>5, <1>6
  DEF Next, Shell, Others, vars, wait, PollTerm, Poll, Node, Next1, Exit, Execute, Background,
      Jobs, Fg, Enter, WatchTurn, WatchEnds, WhileTurn, WhileEnds, Break, Leave, ReadLine,
      ReadNull, ChildEnds, FgEnds, ProcEnds, Sigint, Sigterm

\* A full table stays full: neither it nor the list of processes outgrows its bound.
LEMMA BoundsStep ==
    ASSUME JobBounds, JobInv, [Next]_vars
    PROVE  JobBounds'
<1> USE DEF JobBounds
<1>1. /\ Len(proc) \in Nat /\ Len(table) \in Nat
      /\ DOMAIN proc = 1..Len(proc) /\ DOMAIN table = 1..Len(table)
      /\ proc \in Seq({"running", "zombie", "reaped"}) /\ table \in Seq(Job)
  BY DEF JobInv, JobTypes
<1>2. MaxProcs \in Nat /\ MaxJobs \in Nat
  BY SessionAssumption
<1>3. CASE CleanJobs /\ pc' # "fg" /\ pc # "fg"
  <2>1. Len(table') = Len(table) /\ Len(proc') = Len(proc) /\ fgjob' = fgjob
    BY <1>1, <1>3 DEF CleanJobs
  <2> QED BY <1>3, <2>1
<1>4. CASE UNCHANGED jobs /\ (pc' = "fg" <=> pc = "fg")
  BY <1>4 DEF jobs
<1>5. CASE Background
  <2>1. Len(proc') = Len(proc) + 1
    BY <1>1, <1>5 DEF Background
  <2>2. Len(table') = IF Len(table) < MaxJobs THEN Len(table) + 1 ELSE Len(table)
    <3> DEFINE job == [proc |-> Len(proc) + 1, active |-> TRUE]
               S == Job \cup {job}
    <3>1. table' = IF Len(table) < MaxJobs THEN Append(table, job) ELSE table
      BY <1>5 DEF Background
    <3>2. job \in S /\ \A i \in DOMAIN table : table[i] \in S
      BY <1>1
    <3> HIDE DEF job, S
    <3>3. table \in Seq(S)
      BY <1>1, <3>2
    <3> QED BY <3>1, <3>2, <3>3
  <2>3. fgjob' = fgjob /\ pc = "command" /\ pc' = "next" /\ Len(proc) < MaxProcs
    BY <1>5 DEF Background, At
  <2> QED BY <1>1, <1>2, <2>1, <2>2, <2>3
<1>6. CASE ProcEnds
  <2>1. Len(proc') = Len(proc)
    BY <1>1, <1>6 DEF ProcEnds
  <2> QED BY <1>6, <2>1 DEF ProcEnds
<1>7. CASE Fg
  <2>1. PICK i \in 1..Len(table) : fgjob' = i
    BY <1>1, <1>7 DEF Fg
  <2> QED BY <1>1, <1>7, <2>1 DEF Fg
<1>8. CASE FgEnds
  <2>1. fgjob \in DOMAIN table
    BY <1>1, <1>8 DEF FgEnds, At
  <2>2. Len(table') = Len(table)
    BY <1>1, <1>8, <2>1 DEF FgEnds
  <2>3. proc' = proc \/ \E q : proc' = [proc EXCEPT ![q] = "reaped"]
    BY <1>8 DEF FgEnds
  <2>4. Len(proc') = Len(proc)
    BY <1>1, <2>3
  <2> QED BY <1>1, <1>8, <2>2, <2>4 DEF FgEnds
<1>9. CASE PollTerm \/ Poll \/ Jobs \/ Node
  BY <1>3, <1>4, <1>9 DEF PollTerm, Poll, Jobs, Node, At
<1>10. CASE \/ Next1 \/ Exit \/ Execute \/ ReadLine \/ ReadNull \/ ChildEnds
  BY <1>10, <1>4 DEF Next1, Exit, Execute, ReadLine, ReadNull, ChildEnds, At
<1>11. CASE Time \/ TimeStep \/ TimeEnds \/ Epoch \/ EpochCancelled \/ EpochFires
  BY <1>11, <1>4 DEF Time, TimeStep, TimeEnds, Epoch, EpochCancelled, EpochFires, At
<1>12. CASE Enter \/ WatchTurn \/ WatchEnds \/ WhileTurn \/ WhileEnds \/ Break
  BY <1>12, <1>4 DEF Enter, WatchTurn, WatchEnds, WhileTurn, WhileEnds, Break, Leave, At
<1>13. CASE Sigint \/ Sigterm \/ Tick \/ UNCHANGED vars
  BY <1>13, <1>4 DEF Sigint, Sigterm, Tick, vars
<1> QED
  BY <1>5, <1>6, <1>7, <1>8, <1>9, <1>10, <1>11, <1>12, <1>13 DEF Next, Shell, Others

\* A source is opened at the depth of its block, and registered if there is room.
LEMMA SourcesStep ==
    ASSUME SourceTypes, StreamInv, [Next]_vars
    PROVE  SourceTypes'
<1> USE DEF SourceTypes
<1>1. MaxDepth \in Nat /\ MaxSubs \in Nat /\ Depth \in Nat
  BY SessionAssumption DEF StreamInv, Depth
<1>2. IsFiniteSet(registry) /\ Cardinality(registry) \in Nat
  <2>1. IsFiniteSet(1..MaxDepth)
    BY <1>1, FS_Interval
  <2>2. registry \subseteq 1..MaxDepth
    BY DEF StreamInv
  <2>3. IsFiniteSet(registry)
    BY <2>1, <2>2, FS_Subset
  <2> QED BY <2>3, FS_CardinalityType
<1>3. CASE UNCHANGED subs
  BY <1>3 DEF subs
<1>4. CASE Interrupted
  <2>1. open' \subseteq open /\ registry' = {}
    BY <1>4 DEF Interrupted, CloseAll
  <2>2. Cardinality(registry') = 0
    BY <2>1, FS_EmptySet
  <2> QED BY <1>1, <2>1, <2>2
<1>5. CASE Enter
  <2>1. PICK b \in Blocks :
           IF b = "stream"
           THEN /\ open' = open \cup {Depth + 1}
                /\ registry' = IF Cardinality(registry) < MaxSubs
                               THEN registry \cup {Depth + 1} ELSE registry
           ELSE UNCHANGED subs
    BY <1>5 DEF Enter
  <2>2. Depth + 1 \in 1..MaxDepth
    BY <1>1, <1>5 DEF Enter
  <2>3. Cardinality(registry \cup {Depth + 1}) <= Cardinality(registry) + 1
    BY <1>2, FS_AddElement
  <2>4. /\ IsFiniteSet(registry \cup {Depth + 1})
        /\ Cardinality(registry \cup {Depth + 1}) \in Nat
    BY <1>2, FS_AddElement, FS_CardinalityType
  <2>5. open' \subseteq open \cup {Depth + 1}
    BY <2>1 DEF subs
  <2>6. \/ registry' = registry
        \/ Cardinality(registry) < MaxSubs /\ registry' = registry \cup {Depth + 1}
    BY <2>1 DEF subs
  <2>7. Cardinality(registry') <= MaxSubs
    BY <1>1, <1>2, <2>3, <2>4, <2>6
  <2> QED BY <2>2, <2>5, <2>7
<1>6. CASE Leave
  <2>1. open' = open \ {Depth} /\ registry' = registry \ {Depth}
    BY <1>6 DEF Leave
  <2>2. Cardinality(registry \ {Depth}) <= Cardinality(registry)
        /\ Cardinality(registry \ {Depth}) \in Nat
    <3>1. registry \ {Depth} \subseteq registry
      OBVIOUS
    <3> QED BY <1>2, <3>1, FS_Subset, FS_CardinalityType
  <2> QED BY <1>1, <1>2, <2>1, <2>2
<1> QED
  BY <1>3, <1>4, <1>5, <1>6
  DEF Next, Shell, Others, vars, PollTerm, Poll, Node, Next1, Exit, Execute, Background, Jobs,
      Fg, Time, TimeStep, TimeEnds, Epoch, EpochCancelled, EpochFires, WatchTurn, WatchEnds,
      WhileTurn, WhileEnds, Break, ReadLine, ReadNull, ChildEnds, FgEnds, ProcEnds, Sigint,
      Sigterm, Tick

LEMMA TypesAlways == Spec => []Types
<1>1. Types /\ JobInv /\ StreamInv /\ [Next]_vars => Types'
  BY FlagsStep, LinesStep, ClocksStep, BoundsStep, SourcesStep DEF Types
<1> QED BY <1>1, TypesStart, JobsHold, StreamsHold, PTL DEF Spec

\* Every variable keeps its type, for tables of every size: the job table, the
\* registry of sources and the countdowns stay within their bounds, and fg always
\* has the job it waits for (operators.c:203-216, streaming_sub.c:47-55).
THEOREM TypesHold == Spec => []TypeOK
<1>1. Types /\ JobInv /\ StreamInv => TypeOK
  BY DEF Types, FlagTypes, Labels, LineTypes, ClockTypes, JobBounds, SourceTypes, JobInv,
         JobTypes, StreamInv, TypeOK
<1> QED BY <1>1, TypesAlways, JobsHold, StreamsHold, PTL

-------------------------------------------------------------------------------
(* A command at its time *)

\* While the shell waits for a time of the same day, what is left of the wait is
\* what the clock says, and the countdown never ends before it.
NotBefore ==
    /\ due > 0 => due = target - now
    /\ delta = 0 => due <= 0

\* And where midnight is too far off to come between two looks at the clock, the
\* last look was before the time, and the clock has not started the next day.
NotLong ==
    target + MaxLag <= Day => due = target - now /\ due + since > 0

SameDay == At("time") /\ ~wrap => NotBefore /\ NotLong

LEMMA SameDayStep ==
    ASSUME SameDay, Types, [Next]_vars
    PROVE  SameDay'
<1> USE DEF SameDay, NotBefore, NotLong, At
<1>0. /\ Day \in Nat \ {0} /\ Resync \in Nat \ {0} /\ MaxLag \in Nat \ {0}
      /\ now \in 0..(Day - 1) /\ target \in 0..(Day - 1)
      /\ delta \in 0..(Day - 1) /\ since \in 0..MaxLag /\ due \in -MaxLag..Day
  BY SessionAssumption DEF Types, ClockTypes
<1>1. CASE pc' # "time"
  BY <1>1
<1>2. CASE UNCHANGED <<pc, now, wait>>
  BY <1>2 DEF wait
<1>3. CASE Time
  <2>1. PICK t \in 0..(Day - 1) :
           IF t = now THEN pc' = "command"
           ELSE target' = t /\ delta' = (t - now) % Day /\ due' = (t - now) % Day
                /\ wrap' = (t < now) /\ since' = 0
    BY <1>3 DEF Time
  <2>2. CASE t > now
    <3>1. (t - now) % Day = t - now
      BY <1>0, <2>2
    <3>2. target' = t /\ delta' = t - now /\ due' = t - now /\ since' = 0 /\ now' = now
      BY <1>3, <2>1, <2>2, <3>1 DEF Time
    <3> QED BY <1>0, <2>2, <3>2
  <2>3. CASE t = now
    BY <2>1, <2>3
  <2>4. CASE t < now
    BY <2>1, <2>4
  <2> QED BY <1>0, <2>2, <2>3, <2>4
<1>4. CASE TimeStep
  <2>1. At("time") /\ delta > 0 /\ UNCHANGED <<now, target, due, wrap>>
    BY <1>4 DEF TimeStep
  <2>2. CASE (delta - 1) % Resync # 0
    <3>1. 0 % Resync = 0
      BY <1>0
    <3>2. delta' = delta - 1 /\ delta - 1 # 0 /\ since' = since
      BY <1>4, <2>2, <3>1 DEF TimeStep
    <3> QED BY <1>0, <2>1, <3>2
  <2>3. CASE (delta - 1) % Resync = 0
    <3>1. /\ delta' = IF target < now THEN 0 ELSE target - now
          /\ since' = IF delta' > 0 THEN 0 ELSE since
      BY <1>4, <2>3 DEF TimeStep
    <3>2. NotBefore' \/ wrap
      BY <1>0, <2>1, <3>1
    <3>3. NotLong' \/ wrap
      BY <1>0, <2>1, <3>1
    <3> QED BY <2>1, <3>2, <3>3
  <2> QED BY <2>2, <2>3
<1>5. CASE Tick /\ pc = "time" /\ ~wrap
  <2>1. /\ now' = (now + 1) % Day /\ since < MaxLag /\ since' = since + 1
        /\ due' = IF due > -MaxLag THEN due - 1 ELSE due
        /\ UNCHANGED <<pc, target, delta, wrap>>
    BY <1>5 DEF Tick
  <2>2. now + 1 < Day => now' = now + 1
    BY <1>0, <2>1
  <2>3. NotBefore'
    BY <1>0, <1>5, <2>1, <2>2
  <2>4. ASSUME target + MaxLag <= Day
        PROVE  due' = target - now' /\ due' + since' > 0
    <3>1. due = target - now /\ due + since > 0
      BY <1>5, <2>4
    <3>2. due > 1 - MaxLag /\ due' = due - 1
      BY <1>0, <2>1, <3>1
    <3>3. now' = now + 1
      BY <1>0, <2>2, <2>4, <3>1, <3>2
    <3> QED BY <1>0, <2>1, <3>1, <3>2, <3>3
  <2> QED BY <2>1, <2>3, <2>4
<1>6. CASE Tick /\ (pc # "time" \/ wrap)
  BY <1>6 DEF Tick
<1> QED
  BY <1>1, <1>2, <1>3, <1>4, <1>5, <1>6
  DEF Next, Shell, Others, vars, PollTerm, Poll, Node, Next1, Exit, Execute, Background, Jobs,
      Fg, TimeEnds, Epoch, EpochCancelled, EpochFires, Enter, WatchTurn, WatchEnds, WhileTurn,
      WhileEnds, Break, Leave, ReadLine, ReadNull, ChildEnds, FgEnds, ProcEnds, Sigint, Sigterm

\* A command behind @HH:MM:SS whose time is still to come never runs before it, and
\* runs less than the gap between two looks at the clock after it unless midnight
\* can lie in that gap, for any length of the day, of the gap and of the countdown
\* between two looks (operators.c:18-29).
THEOREM TimesAreKept == Spec => AtItsTime
<1>1. Init => SameDay
  BY DEF Init, SameDay, At
<1>2. SameDay /\ Types /\ [Next]_vars => SameDay'
  BY SameDayStep
<1>3. SameDay /\ Types /\ [Next]_vars
         => [At("time") /\ pc' = "command" /\ ~wrap /\ ~stop =>
                /\ due <= 0
                /\ target + MaxLag <= Day => due > -MaxLag]_vars
  <2> SUFFICES ASSUME SameDay, Types, Next, At("time"), pc' = "command", ~wrap, ~stop
               PROVE  due <= 0 /\ (target + MaxLag <= Day => due > -MaxLag)
    BY DEF vars
  <2>1. TimeEnds
    BY DEF At, Next, Shell, Others, PollTerm, Poll, Node, Next1, Exit, Execute, Background,
           Jobs, Fg, Time, TimeStep, Epoch, EpochCancelled, EpochFires, Enter, WatchTurn,
           WatchEnds, WhileTurn, WhileEnds, Break, Leave, ReadLine, ReadNull, ChildEnds,
           FgEnds, ProcEnds, Sigint, Sigterm, Tick
  <2>2. delta = 0 /\ NotBefore /\ NotLong
    BY <2>1 DEF TimeEnds, SameDay
  <2>3. MaxLag \in Nat /\ since \in 0..MaxLag /\ due \in -MaxLag..Day
    BY SessionAssumption DEF Types, ClockTypes
  <2> QED BY <2>2, <2>3, SessionAssumption DEF NotBefore, NotLong
<1> QED BY <1>1, <1>2, <1>3, TypesAlways, PTL DEF Spec, AtItsTime

===============================================================================
