----------------------------- MODULE SmartBuild -----------------------------
(***************************************************************************)
(* `nazg build` and `nazg why` (brain/src/commands.cpp): detect the        *)
(* project, hash its tree, compare with the latest stored snapshot, decide, *)
(* run the build.  Several commands may run in one project while its files *)
(* are edited; each may be killed between two steps.                       *)
(***************************************************************************)
EXTENDS Integers, Sequences, FiniteSetsExt

CONSTANTS
    Shells,      \* terminals in which the commands are run
    Contents,    \* contents the project's files can have
    Trees,       \* what the project is made of: [files, counts]
    MaxBuilds,   \* commands started in a behaviour
    MaxEdits,    \* edits of the project's files
    MaxTick      \* seconds the clock may advance

ASSUME SmartBuildAssumption == {MaxBuilds, MaxEdits, MaxTick} \subseteq Nat /\ Contents # {}

VARIABLES
    project,    \* row of projects for the root path: 0 or its id
    seen,       \* content of the files the snapshot hashes
    kind,       \* what the project is made of, a member of Trees
    facts,      \* namespace "detector" of facts
    snaps,      \* rows of snapshots
    second,     \* now_timestamp()
    cmds,       \* the command in each terminal
    ran,        \* history: hashes whose command ran a build or the tests
    cutShort,   \* history: hashes whose command had to run them and died first
    builds,     \* commands started
    edits       \* edits made

buildVars == <<project, seen, kind, facts, snaps, second, cmds, ran,
               cutShort, builds, edits>>

Nothing == [pc |-> "idle", what |-> "build", pid |-> 0, info |-> [build |-> "unknown",
            tests |-> "none"], hash |-> "", previous |-> FALSE, changed |-> FALSE,
            plan |-> "none", exit |-> 0]

BuildInit ==
    /\ project = 0 /\ facts = << >> /\ snaps = {} /\ second = 0
    /\ seen = (CHOOSE c \in Contents : TRUE) /\ kind \in Trees
    /\ cmds = [s \in Shells |-> Nothing]
    /\ ran = {} /\ cutShort = {} /\ builds = 0 /\ edits = 0

----------------------------------------------------------------------------
(* Detector                                                                 *)

\* the language with the most files; an earlier one wins a tie
detect_language(counts) ==
    LET order == <<"cpp", "c", "python", "rust", "go", "javascript">>
        most(i) == \A j \in 1..6 : IF j < i THEN counts[order[j]] < counts[order[i]]
                                   ELSE counts[order[j]] <= counts[order[i]]
    IN IF \A i \in 1..6 : counts[order[i]] = 0 THEN "unknown"
       ELSE order[CHOOSE i \in 1..6 : most(i)]

\* the value of the first rule whose marker is among the files
FirstRule(rules, files, default) ==
    LET hits == {i \in 1..Len(rules) : rules[i][1] \in files}
    IN IF hits = {} THEN default ELSE rules[Min(hits)][2]

detect_build_system(files) ==
    FirstRule(<< <<"CMakeLists.txt", "cmake">>, <<"Makefile", "make">>, <<"Cargo.toml", "cargo">>,
                 <<"package.json", "npm">>, <<"build.gradle", "gradle">> >>, files, "unknown")

\* for C and C++ the last rule that applies wins, and two look into CMakeLists.txt
detect_test_framework(files, language) ==
    CASE language \in {"cpp", "c"} ->
           FirstRule(<< <<"catch2", "catch2">>, <<"gtest", "gtest">>, <<"enable_testing", "ctest">> >>,
                     IF "CMakeLists.txt" \in files THEN files ELSE files \cap {"catch2"}, "none")
      [] language = "python" ->
           IF files \cap {"pytest.ini", "pyproject.toml", "*_test.py"} # {} THEN "pytest" ELSE "none"
      [] language = "rust" -> IF detect_build_system(files) = "cargo" THEN "cargo" ELSE "none"
      [] language = "javascript" -> FirstRule(<< <<"jest", "jest">>, <<"vitest", "vitest">> >>, files, "none")
      [] language = "go" -> IF "*_test.go" \in files THEN "go" ELSE "none"
      [] OTHER -> "none"

detect(t) ==
    LET language == detect_language(t.counts)
    IN [build |-> detect_build_system(t.files),
        tests |-> detect_test_framework(t.files, language)]

\* a fact is written over but never removed: tests that go away stay recorded
store_facts(info) ==
    IF info.tests = "none"
    THEN [k \in DOMAIN facts \cup {"build_system"} |->
            IF k = "build_system" THEN info.build ELSE facts[k]]
    ELSE [k \in DOMAIN facts \cup {"build_system", "test_framework"} |->
            IF k = "build_system" THEN info.build
            ELSE IF k = "test_framework" THEN info.tests ELSE facts[k]]

----------------------------------------------------------------------------
(* Snapshotter and Planner                                                  *)

\* the hash covers the files that should_exclude keeps, and only those
compute_tree_hash == seen

\* ORDER BY created_at DESC LIMIT 1: among the rows of the last second, any
latest_snapshot(pid) ==
    {s \in snaps : s.pid = pid /\ \A t \in snaps : t.pid = pid => t.at <= s.at}

generate_build_plan(info) ==
    IF info.build \in {"cmake", "make", "cargo", "npm"} THEN "BUILD" ELSE "UNKNOWN"

\* every framework the detector names has a command
generate_test_plan(info) == "TEST"

decide(info, changed, previous) ==
    IF ~changed /\ previous
    THEN IF info.tests # "none" THEN generate_test_plan(info) ELSE "SKIP"
    ELSE IF info.build # "unknown" THEN generate_build_plan(info)
    ELSE IF info.tests # "none" THEN generate_test_plan(info) ELSE "UNKNOWN"

----------------------------------------------------------------------------
(* nazg build, nazg why                                                     *)

Now(s, pc) == cmds[s].pc = pc

\* the row for the current directory, 0 when there is none
get_project_by_path == project

StartBuild(s, what) ==
    /\ Now(s, "idle")
    /\ builds < MaxBuilds
    /\ builds' = builds + 1
    /\ cmds' = [cmds EXCEPT ![s] = [Nothing EXCEPT !.pc = "insert", !.what = what,
                                    !.pid = get_project_by_path]]
    /\ UNCHANGED <<project, seen, kind, facts, snaps, second, ran, cutShort, edits>>

\* ensure_project after its SELECT: the INSERT of a path that another command
\* inserted meanwhile is refused, and the command goes on as project -1
ensure_project(s) ==
    /\ Now(s, "insert")
    /\ project' = 1
    /\ cmds' = [cmds EXCEPT ![s].pc = "detect",
                            ![s].pid = IF @ # 0 THEN @ ELSE IF project = 0 THEN 1 ELSE -1]
    /\ UNCHANGED <<seen, kind, facts, snaps, second, ran, cutShort, builds, edits>>

\* detect and store_facts; every write for project -1 is refused
Detect(s) ==
    /\ Now(s, "detect")
    /\ LET info == detect(kind)
       IN /\ cmds' = [cmds EXCEPT ![s].pc = "compute", ![s].info = info]
          /\ facts' = IF cmds[s].pid = 1 THEN store_facts(info) ELSE facts
    /\ UNCHANGED <<project, seen, kind, snaps, second, ran, cutShort, builds, edits>>

\* mutant: the command's own snapshot is among those it compares with
ComputeAfterStore(s) ==
    /\ Now(s, "compute")
    /\ snaps' = snaps \cup {[pid |-> cmds[s].pid, hash |-> compute_tree_hash, at |-> second]}
    /\ cmds' = [cmds EXCEPT ![s].pc = "store", ![s].hash = compute_tree_hash,
                            ![s].changed = FALSE, ![s].previous = TRUE]
    /\ UNCHANGED <<project, seen, kind, facts, second, ran, cutShort, builds, edits>>

\* compute: hash, then read the latest row
compute(s) ==
    /\ Now(s, "compute")
    /\ \/ /\ latest_snapshot(cmds[s].pid) = {}
          /\ cmds' = [cmds EXCEPT ![s].pc = "store", ![s].hash = compute_tree_hash,
                                  ![s].changed = TRUE]
       \/ \E prev \in latest_snapshot(cmds[s].pid) :
             cmds' = [cmds EXCEPT ![s].pc = "store", ![s].hash = compute_tree_hash,
                                  ![s].previous = TRUE,
                                  ![s].changed = prev.hash # compute_tree_hash]
    /\ UNCHANGED <<project, seen, kind, facts, snaps, second, ran, cutShort, builds, edits>>

\* cmd_build stores the snapshot before it knows whether the build works;
\* cmd_why does not store it
store_snapshot(s) ==
    /\ Now(s, "store")
    /\ snaps' = IF cmds[s].what = "build" /\ cmds[s].pid = 1
                THEN snaps \cup {[pid |-> 1, hash |-> cmds[s].hash, at |-> second]}
                ELSE snaps
    /\ cmds' = [cmds EXCEPT ![s].pc = "decide"]
    /\ UNCHANGED <<project, seen, kind, facts, second, ran, cutShort, builds, edits>>

\* cmd_why prints the plan and ends; what led to the plan is forgotten
Decide(s) ==
    /\ Now(s, "decide")
    /\ LET c == cmds[s]
       IN cmds' = [cmds EXCEPT ![s] = [Nothing EXCEPT !.plan = decide(c.info, c.changed, c.previous), !.hash = c.hash,
                                         !.pc = IF c.what = "why" THEN "done" ELSE "run"]]
    /\ UNCHANGED <<project, seen, kind, facts, snaps, second, ran, cutShort, builds, edits>>

\* a `nazg build` past its snapshot, for which decide has or will have something to run
HasToRun(c) ==
    \/ c.pc = "decide" /\ c.what = "build" /\ decide(c.info, c.changed, c.previous) \in {"BUILD", "TEST"}
    \/ c.pc = "run" /\ c.plan \in {"BUILD", "TEST"}

\* the exit status of the shell command, which may fail for its own reasons
execute(ok) == IF ok THEN 0 ELSE 1

\* Builder::build: SKIP succeeds and UNKNOWN fails without running anything
build(s, ok) ==
    /\ Now(s, "run")
    /\ LET plan == cmds[s].plan
       IN /\ plan = "SKIP" => ok
          /\ plan = "UNKNOWN" => ~ok
          /\ cmds' = [cmds EXCEPT ![s].pc = "done",
                         ![s].exit = IF plan = "TEST" THEN 1 ELSE execute(ok)]
          /\ ran' = IF HasToRun(cmds[s]) THEN ran \cup {cmds[s].hash} ELSE ran
    /\ UNCHANGED <<project, seen, kind, facts, snaps, second, cutShort, builds, edits>>

\* record_build and the result line; a test plan ends as "? UNKNOWN" with exit 1
record_build(s) ==
    /\ Now(s, "done")
    /\ cmds' = [cmds EXCEPT ![s] = Nothing]
    /\ UNCHANGED <<project, seen, kind, facts, snaps, second, ran, cutShort, builds, edits>>

KillBuild(s) ==
    /\ ~Now(s, "idle")
    /\ cutShort' = IF HasToRun(cmds[s]) THEN cutShort \cup {cmds[s].hash} ELSE cutShort
    /\ cmds' = [cmds EXCEPT ![s] = Nothing]
    /\ UNCHANGED <<project, seen, kind, facts, snaps, second, ran, builds, edits>>

----------------------------------------------------------------------------

\* an edit of an excluded file changes nothing nazg looks at
Edit ==
    /\ edits < MaxEdits
    /\ edits' = edits + 1
    /\ seen' \in Contents \ {seen}
    /\ UNCHANGED <<project, kind, facts, snaps, second, cmds, ran, cutShort, builds>>

BuildTick ==
    /\ second < MaxTick
    /\ second' = second + 1
    /\ UNCHANGED <<project, seen, kind, facts, snaps, cmds, ran, cutShort, builds, edits>>

BuildNext ==
    \/ Edit \/ BuildTick
    \/ \E s \in Shells :
          \/ \E what \in {"build", "why"} : StartBuild(s, what)
          \/ ensure_project(s) \/ Detect(s) \/ compute(s) \/ store_snapshot(s) \/ Decide(s)
          \/ \E ok \in BOOLEAN : build(s, ok)
          \/ record_build(s) \/ KillBuild(s)

BuildSpec == BuildInit /\ [][BuildNext]_buildVars

----------------------------------------------------------------------------

\* a project there is nothing to run for: its plan is UNKNOWN, its snapshot is stored
Unbuildable == generate_build_plan(detect(kind)) = "UNKNOWN"

(* No chain of skips rests on nothing.  `nazg build` skips a tree only if   *)
(* some command that found the same hash ran a build for it, successfully   *)
(* or not, still has to, or was killed before it could (store_snapshot      *)
(* comes before decide and build) - or if nazg has nothing to run for such  *)
(* a project.  A skip never grounds a skip: two commands that both find the *)
(* snapshot the other one stored would both skip a tree nobody built.  What *)
(* was built is what the tree had become by then, if it was edited after it *)
(* was hashed.                                                              *)
SkipIsGrounded ==
    \A s \in Shells :
        cmds[s].plan = "SKIP" =>
            \/ Unbuildable
            \/ cmds[s].hash \in ran \cup cutShort
            \/ \E q \in Shells : HasToRun(cmds[q]) /\ cmds[q].hash = cmds[s].hash
=============================================================================
