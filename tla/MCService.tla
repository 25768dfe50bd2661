------------------------------- MODULE MCService -------------------------------
(* Two versions of a job, and a job whose schedule names a time zone. *)
EXTENDS Service

CONSTANTS a1, a2, b

MCJob    == {a1, a2, b}
MCNames  == {"a", "b"}
MCNameOf == [j \in MCJob |-> IF j = b THEN "b" ELSE "a"]
MCLists  == {<<a1>>, <<a2, b>>}
===============================================================================
