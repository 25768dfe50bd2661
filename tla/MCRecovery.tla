------------------------------ MODULE MCRecovery ------------------------------
(* Two databases, given to the job as blocks of its own and of its tasks.  *)
EXTENDS Recovery

CONSTANTS d1, d2, p1, p2, q

MCDumpTo == [d \in {d1, d2} |-> IF d = d1 THEN p1 ELSE p2]

Both == {"backup", "restore"}
Task(n, my, pg, lite, pre, post) ==
  [name |-> n, mysql |-> my, postgres |-> pg, sqlite |-> lite, pre |-> pre, post |-> post]
Of(my, pg, lite, ts, ps, out, back) ==
  [header |-> "valid", config |-> "valid", mysql |-> my, postgres |-> pg, sqlite |-> lite,
   tasks |-> ts, paths |-> ps, excludes |-> out, restores |-> back]

(* Two at the top; one in a task, whose dump the paths cover; one in a     *)
(* task without; one at the top and a postgres block in a task.  With      *)
(* scripts on both occasions, on one, or on different ones; with all files *)
(* restored to their places, or some; with a dump that backup_opts leave   *)
(* out.                                                                    *)
AtTop    == Of(<<d1>>, <<d2>>, <<>>, <<>>, {q}, {}, {p1, p2})
Covered  == Of(<<>>, <<>>, <<>>,
               <<Task("app", <<d2>>, <<>>, <<>>, <<{"backup"}>>, <<{"backup"}, {"restore"}>>)>>,
               {p2}, {}, {p2})
InTask   == Of(<<>>, <<>>, <<>>,
               <<Task("app", <<>>, <<>>, <<d1>>, <<{"restore"}>>, <<Both>>),
                 Task("web", <<>>, <<>>, <<>>, <<Both>>, <<{"backup"}>>)>>, {q}, {}, {})
Postgres == Of(<<d1>>, <<>>, <<>>,
               <<Task("app", <<>>, <<d2>>, <<>>, <<>>, <<{}>>)>>, {q}, {p1}, {})

(* And three jobs that Validate refuses. *)
NoConfig == [AtTop EXCEPT !.config = "absent"]
NoPaths  == [AtTop EXCEPT !.paths = {}]
NoName   == Of(<<d1>>, <<d2>>, <<>>, <<Task("", <<>>, <<>>, <<>>, <<>>, <<>>)>>, {q}, {}, {})

MCSavedByOther == {{p1}, {p1, p2}}
MCConfig == {AtTop, Covered, InTask, Postgres, NoConfig, NoPaths, NoName}
===============================================================================
