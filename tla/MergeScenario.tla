--------------------------- MODULE MergeScenario ---------------------------
(***************************************************************************)
(* `nazg test git merge collision` (testsuite/src/commands.cpp): build a   *)
(* project, push it to a bare repository, clone it, change the same file   *)
(* in both copies, and show that the second push is refused and the pull   *)
(* conflicts.  Each step is a command of its own; one that goes over the   *)
(* network may fail before or after it took effect.                        *)
(***************************************************************************)
EXTENDS Naturals, Sequences

CONSTANTS
    Options     \* command lines: [mode, shell, label, lang, cleanup, valid]

VARIABLES
    opts,       \* MergeScenarioOptions
    pcs,        \* the next step, or "ended"
    bare,       \* commits of main in the bare repository; <<"absent">> before it exists
    one,        \* project_one: [commits, file]
    two,        \* project_two: [commits, file, state]
    temp_root,  \* the workspace exists
    step_log,   \* StepResults: [name, expected_success, success]
    aborted,
    exitCode    \* what the command returned

mergeVars == <<opts, pcs, bare, one, two, temp_root, step_log, aborted, exitCode>>

NoCopy == [commits |-> <<>>, file |-> "none", state |-> "none"]

MergeInit ==
    /\ opts \in Options /\ pcs = "options"
    /\ bare = <<"absent">> /\ one = NoCopy /\ two = NoCopy
    /\ temp_root = FALSE /\ step_log = <<>> /\ aborted = FALSE /\ exitCode = 0

Remote == opts.mode = "remote"

----------------------------------------------------------------------------
(* Before the first step                                                    *)

\* what the command line leaves open comes from git.servers.<label>, in remote mode and
\* with a label only
load_defaults_from_config(o) ==
    IF o.mode = "local" \/ o.label = "none" THEN {o} ELSE {o, [o EXCEPT !.valid = TRUE]}

\* remote mode needs a host, a repository base and, without --git-shell, an
\* administrator who is not the git user
ValidateOptions ==
    /\ pcs = "options"
    /\ opts' \in load_defaults_from_config(opts)
    /\ IF Remote /\ ~opts'.valid THEN pcs' = "ended" /\ exitCode' = 1
       ELSE pcs' = "admin" /\ UNCHANGED exitCode
    /\ UNCHANGED <<bare, one, two, temp_root, step_log, aborted>>

\* an administrator who cannot be reached: the user takes the git-shell fallback or
\* cancels.  The language is looked at after the network, and before the workspace is made.
ReachAdmin ==
    /\ pcs = "admin"
    /\ \E reached \in BOOLEAN, fallback \in BOOLEAN :
          LET asks == Remote /\ ~opts.shell /\ ~reached IN
          IF (asks /\ ~fallback) \/ opts.lang \notin {"c", "cpp", "python"}
          THEN pcs' = "ended" /\ exitCode' = 1 /\ UNCHANGED <<opts, temp_root>>
          ELSE /\ opts' = [opts EXCEPT !.shell = @ \/ asks]
               /\ temp_root' = TRUE /\ pcs' = "provision" /\ UNCHANGED exitCode
    /\ UNCHANGED <<bare, one, two, step_log, aborted>>

\* a repository that cannot be made ends the command and its workspace; in git-shell mode
\* it must be there already (somebody made it), or the user goes on without
ProvisionRepository ==
    /\ pcs = "provision"
    /\ \E there \in BOOLEAN, goesOn \in BOOLEAN :
          IF there \/ (Remote /\ opts.shell /\ goesOn)
          THEN /\ bare' = IF there THEN <<>> ELSE bare
               /\ pcs' = "register" /\ UNCHANGED <<temp_root, exitCode>>
          ELSE pcs' = "ended" /\ exitCode' = 1 /\ temp_root' = FALSE /\ UNCHANGED bare
    /\ UNCHANGED <<opts, one, two, step_log, aborted>>

----------------------------------------------------------------------------
(* The steps                                                                *)

\* a step that was to succeed and did, or was to fail and did, is a success
run_shell_step(name, worked, expected) ==
    Append(step_log, [name |-> name, expected_success |-> expected, success |-> worked = expected])

\* the outcome of a step whose failure stops the scenario
GoOn(name, worked, expected, next) ==
    /\ step_log' = run_shell_step(name, worked, expected)
    /\ IF worked = expected THEN pcs' = next /\ UNCHANGED aborted ELSE pcs' = "summary" /\ aborted' = TRUE

\* a failed registration is neither logged nor a reason to stop
RegisterServer ==
    /\ pcs = "register"
    /\ pcs' = "scaffold"
    /\ \E worked \in BOOLEAN :
          step_log' = IF Remote /\ ~opts.shell /\ opts.label # "none" /\ worked
                      THEN run_shell_step("register", TRUE, TRUE) ELSE step_log
    /\ UNCHANGED <<opts, bare, one, two, temp_root, aborted, exitCode>>

\* nazg init --yes --minimal, then CONFLICT.md, nazg git add, nazg git commit: any of them
\* may fail (git has no identity configured)
ScaffoldAndCommit ==
    /\ pcs = "scaffold"
    /\ \E worked \in BOOLEAN :
          /\ GoOn("initial commit", worked, TRUE, "push initial")
          /\ one' = IF worked THEN [commits |-> <<"initial">>, file |-> "base", state |-> "clean"] ELSE one
    /\ UNCHANGED <<opts, bare, two, temp_root, exitCode>>

IsBehind(copy) == ~(Len(copy.commits) >= Len(bare) /\ SubSeq(copy.commits, 1, Len(bare)) = bare)

\* git push of a copy: the repository must exist and hold nothing the copy lacks.  Over the
\* network it may fail, or take effect and be reported as failed.
Push(copy, worked) ==
    \/ worked /\ bare # <<"absent">> /\ ~IsBehind(copy) /\ bare' = copy.commits
    \/ ~worked /\ (bare = <<"absent">> \/ IsBehind(copy) \/ Remote) /\ UNCHANGED bare
    \/ ~worked /\ Remote /\ bare # <<"absent">> /\ ~IsBehind(copy) /\ bare' = copy.commits

PushInitial ==
    /\ pcs = "push initial"
    /\ \E worked \in BOOLEAN : Push(one, worked) /\ GoOn("push initial", worked, TRUE, "clone")
    /\ UNCHANGED <<opts, one, two, temp_root, exitCode>>

\* git clone, then git checkout main (there may be no such branch)
CloneAndCheckout ==
    /\ pcs = "clone"
    /\ \E worked \in BOOLEAN :
          /\ GoOn("clone", worked, TRUE, "primary change")
          /\ two' = IF worked THEN [commits |-> bare, file |-> "base", state |-> "clean"] ELSE two
    /\ UNCHANGED <<opts, bare, one, temp_root, exitCode>>

PrimaryChange ==
    /\ pcs = "primary change"
    /\ \E worked \in BOOLEAN :
          /\ GoOn("commit primary", worked, TRUE, "push primary")
          /\ one' = [one EXCEPT !.file = "first",
                                !.commits = IF worked THEN Append(@, "primary") ELSE @]
    /\ UNCHANGED <<opts, bare, two, temp_root, exitCode>>

PushPrimary ==
    /\ pcs = "push primary"
    /\ \E worked \in BOOLEAN : Push(one, worked) /\ GoOn("push primary", worked, TRUE, "secondary change")
    /\ UNCHANGED <<opts, one, two, temp_root, exitCode>>

SecondaryChange ==
    /\ pcs = "secondary change"
    /\ \E worked \in BOOLEAN :
          /\ GoOn("commit secondary", worked, TRUE, "push secondary")
          /\ two' = [two EXCEPT !.file = "second",
                                !.commits = IF worked THEN Append(@, "secondary") ELSE @]
    /\ UNCHANGED <<opts, bare, one, temp_root, exitCode>>

\* the push that is expected to fail
PushSecondary ==
    /\ pcs = "push secondary"
    /\ \E worked \in BOOLEAN : Push(two, worked) /\ GoOn("push secondary", worked, FALSE, "pull")
    /\ UNCHANGED <<opts, one, two, temp_root, exitCode>>

\* (mutant) the pull takes its own side of a conflict
PullResolves ==
    /\ pcs = "pull" /\ pcs' = "status"
    /\ two' = [two EXCEPT !.commits = bare \o <<"secondary">>]
    /\ step_log' = run_shell_step("pull", TRUE, FALSE)
    /\ UNCHANGED <<opts, bare, one, temp_root, aborted, exitCode>>

\* git pull --rebase, expected to fail: both copies changed the file.  An unexpected
\* success does not stop the scenario; a network failure looks like the conflict.
PullRebase ==
    /\ pcs = "pull" /\ pcs' = "status"
    /\ \E reached \in BOOLEAN :
          /\ ~reached => Remote
          /\ LET conflicts == reached /\ IsBehind(two) IN
             /\ two' = IF conflicts THEN [two EXCEPT !.state = "conflict"] ELSE two
             /\ step_log' = run_shell_step("pull", reached /\ ~conflicts, FALSE)
    /\ UNCHANGED <<opts, bare, one, temp_root, aborted, exitCode>>

ShowStatus ==
    /\ pcs = "status" /\ pcs' = "summary"
    /\ \E worked \in BOOLEAN : step_log' = run_shell_step("status", worked, TRUE)
    /\ UNCHANGED <<opts, bare, one, two, temp_root, aborted, exitCode>>

\* the workspace goes (remove_all may fail), the bare repository stays; 1 for an aborted
\* scenario and for a failed step that was to succeed
Summary ==
    /\ pcs = "summary" /\ pcs' = "ended"
    /\ \E removed \in BOOLEAN : temp_root' = ~(opts.cleanup /\ removed)
    /\ exitCode' = IF aborted \/ \E i \in DOMAIN step_log : ~step_log[i].success /\ step_log[i].expected_success
                   THEN 1 ELSE 0
    /\ UNCHANGED <<opts, bare, one, two, step_log, aborted>>

MergeNext ==
    \/ ValidateOptions \/ ReachAdmin \/ ProvisionRepository \/ RegisterServer
    \/ ScaffoldAndCommit \/ PushInitial \/ CloneAndCheckout \/ PrimaryChange \/ PushPrimary
    \/ SecondaryChange \/ PushSecondary \/ PullRebase \/ ShowStatus \/ Summary

MergeSpec == MergeInit /\ [][MergeNext]_mergeVars

----------------------------------------------------------------------------
(* A scenario that passes has shown what it is for: the second copy's push   *)
(* was refused, so the first one's commit is the head of the bare repository *)
(* and nothing of the second is in it; on one machine the second copy is     *)
(* left in the conflict.  Steps may fail, or fail after they took effect     *)
(* (run_git_merge_collision_scenario and its exit code).                     *)
PassMeansCollision ==
    pcs = "ended" /\ exitCode = 0 =>
        /\ bare = <<"initial", "primary">>
        /\ two.commits = <<"initial", "secondary">>
        /\ ~Remote => two.state = "conflict"
=============================================================================
