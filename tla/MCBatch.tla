------------------------------- MODULE MCBatch -------------------------------
(* Three jobs, two with the same name, two with the same repository.        *)
EXTENDS Batch

CONSTANTS a, b, c, x, y, z, r, s

MCNameOf == [j \in {a, b, c} |-> IF j = b THEN y ELSE x]
MCRepoOf == [j \in {a, b, c} |-> IF j = a THEN r ELSE s]
MCJobLists == {<<a, b>>, <<c, b, a>>}

Line(u, ba, re, o, g) ==
  [unlock |-> u, backup |-> ba, restore |-> re, once |-> o, gateway |-> g]

MCCommandLines ==
  { Line(<<>>, <<>>, <<>>, FALSE, FALSE),
    Line(<<>>, <<"all">>, <<>>, TRUE, TRUE),
    Line(<<x>>, <<y, x>>, <<>>, TRUE, FALSE),
    Line(<<"all", z>>, <<x>>, <<y>>, FALSE, TRUE),
    Line(<<>>, <<z, y>>, <<x>>, TRUE, TRUE),
    Line(<<>>, <<x, x>>, <<y, z>>, TRUE, TRUE),
    Line(<<z>>, <<"all">>, <<>>, FALSE, FALSE) }
===============================================================================
