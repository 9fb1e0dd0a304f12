------------------------------- MODULE MCAudit --------------------------------
(* Instances of AuditLog: more processes where one follows another than       *)
(* where they run side by side; they are interchangeable.                     *)
EXTENDS AuditLog, TLC

MCStarts == [alone |-> 4, any |-> 2]
MCCommands == [alone |-> 3, any |-> 2]

Symmetry == Permutations(Shells)

===============================================================================
