----------------------------- MODULE MCWorkspace -----------------------------
(* Small instances of Workspace: a source file and a configuration file, two *)
(* nazg processes, and the option records of their commands.                 *)
EXTENDS Workspace, TLC

CONSTANTS p1, p2, src, conf, c1, c2, t1

Full == [mode |-> "full", only |-> FALSE, include |-> {}, exclude |-> {}, dry_run |-> FALSE]
Smart == [Full EXCEPT !.mode = "smart"]

\* restore --full, --smart, --smart --only src, --exclude conf, --partial, and
\* --full --only conf --dry-run
ContentRestores ==
    {Full, Smart,
     [Smart EXCEPT !.only = TRUE, !.include = {src}],
     [Full EXCEPT !.exclude = {conf}],
     [Full EXCEPT !.mode = "partial"],
     [Full EXCEPT !.only = TRUE, !.include = {conf}, !.dry_run = TRUE]}

Old == [by |-> "days", n |-> 1, untagged_only |-> FALSE, dry_run |-> FALSE]
Keep(n) == [Old EXCEPT !.by = "keep", !.n = n]

\* prune --days, whose cutoff is a second ago
OldPrunes == {Old}

\* prune --keep 1, --keep 2, both --untagged-only, and --keep 1 --dry-run
KeepPrunes ==
    {Keep(1), Keep(2), [Keep(1) EXCEPT !.untagged_only = TRUE], [Keep(1) EXCEPT !.dry_run = TRUE]}

\* processes are alike, and so are contents
Symmetric == Permutations(Procs) \cup Permutations(Contents)

FullOnly == {Full}
SmartOnly == {Smart}
NoPrune == {}
NoRestore == {}
=============================================================================
