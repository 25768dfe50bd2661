------------------------------- MODULE MCConfig -------------------------------
(* Two job files; files that are good, empty, broken, or lean on their      *)
(* default_config.                                                          *)
EXTENDS Config

CONSTANTS q

AJob(h, c) ==
  [header |-> h, config |-> c, mysql |-> <<>>, postgres |-> <<>>, sqlite |-> <<>>,
   excludes |-> {}, restores |-> {},
   tasks |-> <<>>, paths |-> {q}]
File(dec, def, js) == [decodes |-> dec, default |-> def, jobs |-> js]

One     == File(TRUE, "absent", <<AJob("valid", "valid")>>)
Two     == File(TRUE, "absent", <<AJob("valid", "valid"), AJob("valid", "valid")>>)
Leaning == File(TRUE, "valid", <<AJob("valid", "absent"), AJob("valid", "valid")>>)
Mixed   == File(TRUE, "absent", <<AJob("valid", "valid"), AJob("invalid", "valid")>>)
Empty   == File(TRUE, "absent", <<>>)
Broken  == File(FALSE, "absent", <<>>)

MCPaths  == <<"a.hcl", "b.hcl">>
MCFiles  == {One, Two, Leaning, Mixed, Empty, Broken}
MCDumpTo == <<>>
===============================================================================
