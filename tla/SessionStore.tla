----------------------------- MODULE SessionStore -----------------------------
(***************************************************************************)
(* What the checkpoint component promises its users, with no file system,  *)
(* no thread and no lock: one stored session, replaced as a whole by what  *)
(* a save keeps of the CURRENT environment of a running shell, removed as  *)
(* a whole, and on a restore merged as a whole into what the shell has.    *)
(* Checkpoint.tla is shown to implement this module in the sessions where  *)
(* only the periodic thread saves.                                         *)
(***************************************************************************)

CONSTANTS
    Pid,      \* shell processes, each of which lives once
    Var,      \* names of environment variables
    Value,    \* their values
    Absent,   \* in place of the value of a variable that is not there
    Reread,   \* what each value is after a save and a restore
    None      \* nothing stored

VARIABLES
    env,      \* the environment each shell runs with
    stored,   \* None, or the session [pid, env] on disk
    restored  \* what the last restore of each shell returned

vars == <<env, stored, restored>>

Env == [Var -> Value \cup {Absent}]

Init ==
    /\ env \in [Pid -> Env]
    /\ stored = None
    /\ restored = [p \in Pid |-> "never"]

\* The user sets or removes one variable.
SetEnv(p) ==
    /\ \E v \in Var, x \in Value \cup {Absent} : env' = [env EXCEPT ![p][v] = x]
    /\ UNCHANGED <<stored, restored>>

\* What a save keeps: no variable that is too long for a line of the file.
Kept(e) == [v \in Var |-> IF e[v] \in Value THEN Reread[e[v]] ELSE e[v]]

\* A save is one step: what is stored is what the shell has at that step.
Save(p) ==
    /\ stored' = [pid |-> p, env |-> Kept(env[p])]
    /\ UNCHANGED <<env, restored>>

\* A clean exit, or the user, removes the stored session.
Remove ==
    /\ stored' = None
    /\ UNCHANGED <<env, restored>>

\* The union of two environments, in which the saved one decides.
Merge(cur, saved) == [v \in Var |-> IF saved[v] = Absent THEN cur[v] ELSE saved[v]]

\* A restore finds nothing, its own session (skipped), or another's: all of its
\* variables are taken over, and the shell keeps those that are not saved in it.
Restore(p) ==
    \/ /\ stored = None
       /\ restored' = [restored EXCEPT ![p] = "none"]
       /\ UNCHANGED <<env, stored>>
    \/ /\ stored # None
       /\ stored.pid = p
       /\ restored' = [restored EXCEPT ![p] = "stale"]
       /\ UNCHANGED <<env, stored>>
    \/ /\ stored # None
       /\ stored.pid # p
       /\ restored' = [restored EXCEPT ![p] = "ok"]
       /\ env' = [env EXCEPT ![p] = Merge(@, stored.env)]
       /\ UNCHANGED stored

Next ==
    \/ Remove
    \/ \E p \in Pid : SetEnv(p) \/ Save(p) \/ Restore(p)

Spec == Init /\ [][Next]_vars

===============================================================================
