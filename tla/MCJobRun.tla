------------------------------- MODULE MCJobRun -------------------------------
(* Job a, which dumps two databases and whose runs may overlap, and job b,   *)
(* which dumps to the second of these files and backs up to the same         *)
(* repository: beside b, only the second file of a is shared.                *)
EXTENDS JobRun, TLC

CONSTANTS r1, r2, m, a, b, repo, db1, db2

MCNameOf == [j \in {a, b} |-> j]
MCRepoOf == [j \in {a, b} |-> repo]
MCPlan   == [j \in {a, b} |-> IF j = a THEN <<db1, db2, Backup>>
                              ELSE <<db2, Backup, Script>>]

(* The two runs are alike: which of them is which tells nothing apart. *)
Runs == Permutations({r1, r2})
===============================================================================
