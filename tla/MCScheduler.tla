----------------------------- MODULE MCScheduler -----------------------------
(* Two versions of job a and a job b whose schedule names a time zone.     *)
EXTENDS Scheduler

CONSTANTS a1, a2, b

MCJob     == {a1, a2, b}
MCNames   == {"a", "b"}
MCNameOf  == [j \in MCJob |-> IF j = b THEN "b" ELSE "a"]
MCLists   == {<<a1, b>>, <<a2>>, <<b, a2>>}
===============================================================================
