------------------------------- MODULE Capture -------------------------------
(***************************************************************************)
(* shell.go and restic.go: what a CapturedLogWriter keeps of a command's   *)
(* output, and what RunRestic and ReadSnapshots make of it.  The pipe      *)
(* hands the output over in pieces of any size, one Write for each, and    *)
(* every piece is split into lines by itself.                              *)
(*                                                                         *)
(* A text is a sequence of tokens; a token is what no piece cuts in two.   *)
(***************************************************************************)
EXTENDS SequencesExt, Naturals

NL == "newline"

(* The message RunRestic looks for.  A piece may end in the middle of it. *)
MissingMessage == <<"Is there a repository at", "the following location?">>

(* What restic prints when it cannot open the config file of a repository: *)
(* the repository is missing, or the disk, the host or a permission fails. *)
NoConfig == <<"Fatal", NL>> \o MissingMessage \o <<NL, "repo", NL>>

(* What restic prints for n snapshots as JSON.  A piece may end in the     *)
(* middle of a string.                                                     *)
Listing(n) ==
  <<"[">> \o [i \in 1..(2 * n) |-> IF i % 2 = 1 THEN "{sna" ELSE "pshot}"] \o <<"]">>

Token == {NL, "Fatal", "repo", "[", "{sna", "pshot}", "]"} \cup ToSet(MissingMessage)

-------------------------------------------------------------------------------
(* strings.Split(text, "\n") *)
SplitLines(text) ==
  FoldLeft(LAMBDA lines, t : IF t = NL THEN Append(lines, <<>>)
                             ELSE Append(Front(lines), Append(Last(lines), t)),
           << <<>> >>, text)

\* Mutated: a token a line, as of a writer that flushes all the time.
WriteTokens(lines, content) == lines \o [i \in DOMAIN content |-> <<content[i]>>]

Write(lines, content) == lines \o SplitLines(content)

(* strings.Join(lines, sep) *)
Join(lines, sep) ==
  FlattenSeq([k \in DOMAIN lines |-> IF k = 1 THEN lines[k] ELSE sep \o lines[k]])

(* RunRestic: the lines of stderr tell that there is no repository. *)
RepoMissing(lines) == MissingMessage \in SubSeqs(Join(lines, <<NL>>))

\* Mutated: the lines are put together again with line breaks.
SnapshotsInLines(lines) ==
  {n \in 0..Len(Join(lines, <<>>)) : Join(lines, <<NL>>) = Listing(n) \o <<NL>>}

(* ReadSnapshots: how many snapshots the lines of stdout list; none if     *)
(* there are no lines or they do not parse.                                *)
SnapshotsIn(lines) ==
  {n \in 0..Len(Join(lines, <<>>)) : Join(lines, <<>>) = Listing(n)}
===============================================================================
