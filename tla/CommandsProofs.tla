--------------------------- MODULE CommandsProofs ---------------------------
(***************************************************************************)
(* What the commands of nazg leave in its tables and on machines, and what *)
(* they tell the user of it, for any number of terminals: builds           *)
(* (SmartBuild), tests (TestRuns), the merge scenario (MergeScenario), the *)
(* bots' registry and history (Bots), git servers (GitServers) and what is *)
(* learned from failures (FailureLearning).  The parts share no variable;  *)
(* each has its own invariant and section.                                 *)
(***************************************************************************)
EXTENDS SmartBuild, FailureLearning, GitServers, TestRuns, MergeScenario, Bots,
        SequenceTheorems, FiniteSetTheorems, TLAPS

----------------------------------------------------------------------------
(* nazg build                                                               *)

BuildSteps == {"idle", "insert", "detect", "compute", "store", "decide", "run", "done"}
Infos == {detect(t) : t \in Trees} \cup {Nothing.info}
BuildCommands ==
    [pc : BuildSteps, what : {"build", "why"}, pid : Int, info : Infos, hash : Contents \cup {""}, previous : BOOLEAN,
     changed : BOOLEAN, plan : {"none", "BUILD", "UNKNOWN", "TEST", "SKIP"}, exit : Int]

\* a command works with what the project is made of, which no edit changes
BuildTyped ==
    /\ cmds \in [Shells -> BuildCommands] /\ seen \in Contents /\ kind \in Trees /\ project \in Int
    /\ \A s \in Shells : cmds[s].pc \in {"compute", "store", "decide"} => cmds[s].info = detect(kind)

\* a command that decide will not let skip
Tries(c) == c.changed \/ ~c.previous \/ c.info.tests # "none"

\* a tree that was built, that a command has to build, or whose command died first
OwesBuild(c, hash) == HasToRun(c) /\ c.hash = hash
Grounded(hash) == Unbuildable \/ hash \in ran \cup cutShort \/ \E s \in Shells : OwesBuild(cmds[s], hash)

\* a command that is to skip has seen a stored snapshot of its tree
SkipsStored ==
    \A s \in Shells : cmds[s].pc \in {"store", "decide"} /\ ~Tries(cmds[s]) => \E row \in snaps : row.hash = cmds[s].hash

SkipsGrounded ==
    \A s \in Shells : /\ cmds[s].plan # "none" => cmds[s].pc \in {"run", "done"}
                      /\ cmds[s].plan = "SKIP" => Grounded(cmds[s].hash)

BuildInv == BuildTyped /\ SkipsStored /\ SkipsGrounded /\ \A row \in snaps : Grounded(row.hash)

LEMMA NothingTyped == Nothing \in BuildCommands /\ Nothing.pc = "idle" /\ Nothing.plan = "none"
<1>1. Nothing.info \in Infos
  BY DEF Infos
<1>2. Nothing.pc = "idle" /\ Nothing.plan = "none"
  BY DEF Nothing
<1> DEFINE info == [build |-> "unknown", tests |-> "none"]
<1>3. info \in Infos
  BY <1>1 DEF Nothing
<1> HIDE DEF info
<1>4. [pc |-> "idle", what |-> "build", pid |-> 0, info |-> info, hash |-> "", previous |-> FALSE,
       changed |-> FALSE, plan |-> "none", exit |-> 0] \in BuildCommands
  BY <1>3 DEF BuildCommands, BuildSteps
<1> QED BY <1>2, <1>4, Zenon DEF Nothing, info

LEMMA BuildStart == BuildInit => BuildInv
<1> SUFFICES ASSUME BuildInit PROVE BuildInv
  OBVIOUS
<1>1. seen \in Contents
  BY SmartBuildAssumption DEF BuildInit
<1>2. \A s \in Shells : cmds[s] = Nothing
  BY DEF BuildInit
<1>3. BuildTyped
  BY <1>1, NothingTyped DEF BuildInit, BuildTyped
<1>4. SkipsStored /\ SkipsGrounded
  BY <1>2, NothingTyped DEF SkipsStored, SkipsGrounded
<1> QED BY <1>3, <1>4 DEF BuildInit, BuildInv

\* one command takes a step: what it grounds stays grounded, and so is what it stores
LEMMA BuildMoves ==
  ASSUME BuildInv, NEW s \in Shells, NEW c \in BuildCommands, cmds' = [cmds EXCEPT ![s] = c],
         project' \in Int, UNCHANGED <<seen, kind>>,
         ran \subseteq ran', cutShort \subseteq cutShort', snaps \subseteq snaps',
         HasToRun(cmds[s]) => cmds[s].hash \in ran' \cup cutShort' \/ OwesBuild(c, cmds[s].hash),
         \A row \in snaps' : \/ row \in snaps
                             \/ Unbuildable \/ OwesBuild(c, row.hash)
                             \/ \E old \in snaps : old.hash = row.hash,
         c.pc \in {"compute", "store", "decide"} => c.info = detect(kind),
         c.pc \in {"store", "decide"} /\ ~Tries(c) => \E row \in snaps' : row.hash = c.hash,
         c.plan # "none" => c.pc \in {"run", "done"},
         c.plan = "SKIP" => Grounded(c.hash)
  PROVE  BuildInv'
<1>1. cmds'[s] = c /\ \A q \in Shells : q # s => cmds'[q] = cmds[q]
  BY DEF BuildInv, BuildTyped
<1>2. BuildTyped'
  BY <1>1 DEF BuildInv, BuildTyped
<1> DEFINE StillGrounded(hash) == Unbuildable \/ hash \in ran' \cup cutShort' \/ \E q \in Shells : OwesBuild(cmds'[q], hash)
<1>3. ASSUME NEW hash, Grounded(hash) PROVE StillGrounded(hash)
  <2>1. CASE Unbuildable \/ hash \in ran \cup cutShort
    BY <2>1
  <2>2. ASSUME NEW q \in Shells, OwesBuild(cmds[q], hash) PROVE hash \in ran' \cup cutShort' \/ OwesBuild(cmds'[q], hash)
    <3>1. CASE q = s
      BY <1>1, <2>2, <3>1 DEF OwesBuild
    <3>2. CASE q # s
      BY <1>1, <2>2, <3>2
    <3> QED BY <3>1, <3>2
  <2> QED BY <1>3, <2>1, <2>2 DEF Grounded
<1>4. \A row \in snaps' : StillGrounded(row.hash)
  <2> SUFFICES ASSUME NEW row \in snaps' PROVE StillGrounded(row.hash)
    OBVIOUS
  <2>1. CASE row \in snaps \/ \E old \in snaps : old.hash = row.hash
    <3>1. Grounded(row.hash)
      BY <2>1 DEF BuildInv
    <3> QED BY <3>1, <1>3
  <2>2. CASE Unbuildable \/ OwesBuild(c, row.hash)
    BY <1>1, <2>2
  <2> QED BY <2>1, <2>2
<1>5. SkipsStored'
  <2> SUFFICES ASSUME NEW q \in Shells, cmds'[q].pc \in {"store", "decide"}, ~Tries(cmds'[q])
               PROVE  \E row \in snaps' : row.hash = cmds'[q].hash
    BY DEF SkipsStored, Tries
  <2> QED BY <1>1 DEF BuildInv, SkipsStored
<1>6. ASSUME NEW q \in Shells
      PROVE  /\ cmds'[q].plan # "none" => cmds'[q].pc \in {"run", "done"}
             /\ cmds'[q].plan = "SKIP" => StillGrounded(cmds'[q].hash)
  <2>1. cmds'[q].plan = "SKIP" => Grounded(cmds'[q].hash)
    BY <1>1 DEF BuildInv, SkipsGrounded
  <2>2. cmds'[q].plan = "SKIP" => StillGrounded(cmds'[q].hash)
    BY <1>3, <2>1
  <2> QED BY <1>1, <2>2 DEF BuildInv, SkipsGrounded
<1>7. SkipsGrounded' /\ \A row \in snaps' : Grounded(row.hash)'
  BY <1>4, <1>6 DEF SkipsGrounded, Grounded, Unbuildable, OwesBuild, HasToRun
<1> QED BY <1>2, <1>5, <1>7 DEF BuildInv

LEMMA DecidesToSkip == \A info, changed, previous :
    decide(info, changed, previous) = "SKIP" => ~changed /\ previous /\ info.tests = "none"
  BY DEF decide, generate_build_plan, generate_test_plan

LEMMA DecidesSomething == \A info, changed, previous :
    decide(info, changed, previous) \in {"BUILD", "UNKNOWN", "TEST", "SKIP"}
  BY DEF decide, generate_build_plan, generate_test_plan

\* a decision to run nothing, though there is no unchanged snapshot, is one for a project that cannot be built
LEMMA DecidesUnknown == \A info, changed, previous :
    decide(info, changed, previous) = "UNKNOWN" => generate_build_plan(info) = "UNKNOWN"
  BY DEF decide, generate_build_plan, generate_test_plan

LEMMA BuildStep == BuildInv /\ [BuildNext]_buildVars => BuildInv'
<1> SUFFICES ASSUME BuildInv, [BuildNext]_buildVars PROVE BuildInv'
  OBVIOUS
<1>0. CASE UNCHANGED <<cmds, kind, project, snaps, ran, cutShort>> /\ seen' \in Contents
  BY <1>0 DEF BuildInv, BuildTyped, SkipsStored, SkipsGrounded, Grounded, Unbuildable, OwesBuild, HasToRun, Tries
<1>c. \A s \in Shells : cmds[s] \in BuildCommands
  BY DEF BuildInv, BuildTyped
<1>1. ASSUME NEW s \in Shells, NEW what \in {"build", "why"}, StartBuild(s, what) PROVE BuildInv'
  <2> DEFINE q == Nothing
             c == [q EXCEPT !.pc = "insert", !.what = what, !.pid = project]
  <2>1. cmds' = [cmds EXCEPT ![s] = c] /\ cmds[s].pc = "idle"
    BY <1>1 DEF StartBuild, Now, get_project_by_path
  <2>2. UNCHANGED <<project, seen, kind, snaps, ran, cutShort>>
    BY <1>1 DEF StartBuild
  <2>3. q \in BuildCommands /\ q.plan = "none" /\ project \in Int
    BY NothingTyped DEF BuildInv, BuildTyped
  <2> HIDE DEF q
  <2>4. c \in BuildCommands /\ c.pc = "insert" /\ c.plan = "none"
    BY <2>3 DEF BuildCommands, BuildSteps
  <2> HIDE DEF c
  <2> QED BY <2>1, <2>2, <2>3, <2>4, BuildMoves DEF HasToRun
<1>2. ASSUME NEW s \in Shells, ensure_project(s) PROVE BuildInv'
  <2> DEFINE q == cmds[s]
             pid == IF q.pid # 0 THEN q.pid ELSE IF project = 0 THEN 1 ELSE -1
             c == [q EXCEPT !.pc = "detect", !.pid = pid]
  <2>1. cmds' = [cmds EXCEPT ![s] = c] /\ q.pc = "insert" /\ q = cmds[s] /\ q \in BuildCommands
    BY <1>2, <1>c DEF ensure_project, Now
  <2>2. UNCHANGED <<seen, kind, snaps, ran, cutShort>> /\ project' \in Int
    BY <1>2 DEF ensure_project
  <2>3. pid \in Int /\ q.plan = "none"
    <3>1. q.pid \in Int
      BY <2>1 DEF BuildCommands
    <3>2. q.plan = "none"
      BY <2>1 DEF BuildInv, SkipsGrounded
    <3> QED BY <3>1, <3>2
  <2> HIDE DEF q, pid
  <2>4. c \in BuildCommands /\ c.pc = "detect" /\ c.plan = "none"
    BY <2>1, <2>3 DEF BuildCommands, BuildSteps
  <2> HIDE DEF c
  <2> QED BY <2>1, <2>2, <2>4, BuildMoves DEF HasToRun
<1>3. ASSUME NEW s \in Shells, Detect(s) PROVE BuildInv'
  <2> DEFINE q == cmds[s]
             info == detect(kind)
             c == [q EXCEPT !.pc = "compute", !.info = info]
  <2>1. cmds' = [cmds EXCEPT ![s] = c] /\ q.pc = "detect" /\ q = cmds[s] /\ q \in BuildCommands
    BY <1>3, <1>c DEF Detect, Now
  <2>2. UNCHANGED <<project, seen, kind, snaps, ran, cutShort>> /\ project \in Int
    BY <1>3 DEF Detect, BuildInv, BuildTyped
  <2>3. info \in Infos /\ q.plan = "none" /\ info = detect(kind)
    BY <2>1 DEF Infos, BuildInv, BuildTyped, SkipsGrounded
  <2> HIDE DEF q, info
  <2>4. c \in BuildCommands /\ c.pc = "compute" /\ c.plan = "none" /\ c.info = detect(kind)
    BY <2>1, <2>3 DEF BuildCommands, BuildSteps
  <2> HIDE DEF c
  <2> QED BY <2>1, <2>2, <2>4, BuildMoves DEF HasToRun
<1>4. ASSUME NEW s \in Shells, compute(s) PROVE BuildInv'
  <2> DEFINE q == cmds[s]
  <2>1. q.pc = "compute" /\ q = cmds[s] /\ q \in BuildCommands
    BY <1>4, <1>c DEF compute, Now
  <2>2. UNCHANGED <<project, seen, kind, snaps, ran, cutShort>> /\ project \in Int /\ seen \in Contents
    BY <1>4 DEF compute, BuildInv, BuildTyped
  <2>3. q.plan = "none" /\ q.info = detect(kind)
    BY <2>1 DEF BuildInv, BuildTyped, SkipsGrounded
  <2>4. CASE cmds' = [cmds EXCEPT ![s].pc = "store", ![s].hash = compute_tree_hash, ![s].changed = TRUE]
    <3> DEFINE c == [q EXCEPT !.pc = "store", !.hash = seen, !.changed = TRUE]
    <3>1. cmds' = [cmds EXCEPT ![s] = c]
      BY <2>4, Zenon DEF compute_tree_hash
    <3> HIDE DEF q
    <3>2. c \in BuildCommands /\ c.pc = "store" /\ c.plan = "none" /\ c.changed /\ c.info = detect(kind)
      BY <2>1, <2>2, <2>3 DEF BuildCommands, BuildSteps
    <3> HIDE DEF c
    <3> QED BY <2>1, <2>2, <3>1, <3>2, BuildMoves DEF HasToRun, Tries
  <2>5. ASSUME NEW prev \in snaps,
               cmds' = [cmds EXCEPT ![s].pc = "store", ![s].hash = compute_tree_hash, ![s].previous = TRUE,
                                    ![s].changed = prev.hash # compute_tree_hash]
        PROVE  BuildInv'
    <3> DEFINE changed == prev.hash # seen
               c == [q EXCEPT !.pc = "store", !.hash = seen, !.previous = TRUE, !.changed = changed]
    <3>1. cmds' = [cmds EXCEPT ![s] = c]
      BY <2>5, Zenon DEF compute_tree_hash
    <3>0. changed \in BOOLEAN /\ (~changed => prev.hash = seen)
      OBVIOUS
    <3> HIDE DEF q, changed
    <3>2. /\ c \in BuildCommands /\ c.pc = "store" /\ c.plan = "none" /\ c.changed = changed /\ c.hash = seen
          /\ c.info = detect(kind)
      BY <2>1, <2>2, <2>3, <3>0 DEF BuildCommands, BuildSteps
    <3> HIDE DEF c
    <3>3. ~Tries(c) => prev \in snaps' /\ prev.hash = c.hash
      BY <2>2, <3>0, <3>2 DEF Tries
    <3> QED BY <2>1, <2>2, <3>1, <3>2, <3>3, BuildMoves DEF HasToRun
  <2>6. \A prev \in latest_snapshot(cmds[s].pid) : prev \in snaps
    BY DEF latest_snapshot
  <2> QED BY <1>4, <2>4, <2>5, <2>6 DEF compute
<1>5. ASSUME NEW s \in Shells, store_snapshot(s) PROVE BuildInv'
  <2> DEFINE q == cmds[s]
             c == [q EXCEPT !.pc = "decide"]
  <2>1. cmds' = [cmds EXCEPT ![s] = c] /\ q.pc = "store" /\ q = cmds[s] /\ q \in BuildCommands
    BY <1>5, <1>c DEF store_snapshot, Now
  <2>2. UNCHANGED <<project, seen, kind, ran, cutShort>> /\ project \in Int
    BY <1>5 DEF store_snapshot, BuildInv, BuildTyped
  <2>3. q.plan = "none" /\ q.info = detect(kind)
    BY <2>1 DEF BuildInv, BuildTyped, SkipsGrounded
  <2>4. /\ snaps \subseteq snaps'
        /\ \A row \in snaps' : row \in snaps \/ (row.hash = q.hash /\ q.what = "build")
    <3>1. snaps' = snaps \/ (q.what = "build" /\ snaps' = snaps \cup {[pid |-> 1, hash |-> q.hash, at |-> second]})
      BY <1>5 DEF store_snapshot
    <3> QED BY <3>1
  <2> HIDE DEF q
  <2>5. /\ c \in BuildCommands /\ c.pc = "decide" /\ c.plan = "none" /\ c.hash = q.hash /\ c.what = q.what
        /\ c.changed = q.changed /\ c.previous = q.previous /\ c.info = q.info
    BY <2>1, <2>3 DEF BuildCommands, BuildSteps
  <2> HIDE DEF c
  <2>6. ~Tries(q) => \E row \in snaps : row.hash = q.hash
    BY <2>1 DEF BuildInv, SkipsStored
  <2>7. Tries(c) <=> Tries(q)
    BY <2>5 DEF Tries
  <2>8. ASSUME NEW row \in snaps'
        PROVE  row \in snaps \/ Unbuildable \/ OwesBuild(c, row.hash) \/ \E old \in snaps : old.hash = row.hash
    <3> DEFINE plan == decide(c.info, c.changed, c.previous)
    <3>1. plan \in {"BUILD", "UNKNOWN", "TEST", "SKIP"} /\ (plan = "SKIP" => ~Tries(c))
      BY DecidesToSkip, DecidesSomething DEF Tries
    <3>2. plan = "UNKNOWN" => Unbuildable
      BY <2>3, <2>5, DecidesUnknown DEF Unbuildable
    <3>3. plan \in {"BUILD", "TEST"} /\ q.what = "build" => HasToRun(c)
      BY <2>5 DEF HasToRun
    <3> HIDE DEF plan
    <3> QED BY <2>4, <2>5, <2>6, <2>7, <3>1, <3>2, <3>3 DEF OwesBuild
  <2>9. ~Tries(c) => \E row \in snaps' : row.hash = c.hash
    BY <2>4, <2>5, <2>6, <2>7
  <2>10. ~HasToRun(cmds[s])
    BY <2>1 DEF HasToRun
  <2>11. c.plan # "SKIP" /\ (c.plan # "none" => c.pc \in {"run", "done"}) /\ c.info = detect(kind)
    BY <2>3, <2>5
  <2>12. snaps \subseteq snaps'
    BY <2>4
  <2> QED BY <2>1, <2>2, <2>5, <2>8, <2>9, <2>10, <2>11, <2>12, BuildMoves
<1>6. ASSUME NEW s \in Shells, Decide(s) PROVE BuildInv'
  <2> DEFINE q == cmds[s]
             o == Nothing
             plan == decide(q.info, q.changed, q.previous)
             hash == q.hash
             pc == IF q.what = "why" THEN "done" ELSE "run"
             c == [o EXCEPT !.plan = plan, !.hash = hash, !.pc = pc]
  <2>1. cmds' = [cmds EXCEPT ![s] = c] /\ q.pc = "decide" /\ q = cmds[s] /\ q \in BuildCommands
    BY <1>6, <1>c DEF Decide, Now
  <2>2. UNCHANGED <<project, seen, kind, snaps, ran, cutShort>> /\ project \in Int
    BY <1>6 DEF Decide, BuildInv, BuildTyped
  <2>3. HasToRun(q) => plan \in {"BUILD", "TEST"} /\ pc = "run"
    BY <2>1 DEF HasToRun
  <2>4. plan \in {"BUILD", "UNKNOWN", "TEST", "SKIP"} /\ (plan = "SKIP" => ~Tries(q))
    BY DecidesToSkip, DecidesSomething DEF Tries
  <2>5. o \in BuildCommands /\ hash = q.hash /\ hash \in Contents \cup {""} /\ pc \in {"run", "done"}
    BY <2>1, NothingTyped DEF BuildCommands
  <2> HIDE DEF q, plan, o, hash, pc
  <2>6. c \in BuildCommands /\ c.pc = pc /\ c.hash = q.hash /\ c.plan = plan
    BY <2>4, <2>5 DEF BuildCommands, BuildSteps
  <2> HIDE DEF c
  <2>7. c.plan = "SKIP" => Grounded(c.hash)
    BY <2>1, <2>4, <2>6 DEF BuildInv, SkipsStored
  <2>8. HasToRun(cmds[s]) => OwesBuild(c, cmds[s].hash)
    BY <2>1, <2>3, <2>6 DEF HasToRun, OwesBuild
  <2>9. c.pc \in {"run", "done"}
    BY <2>5, <2>6
  <2> QED BY <2>1, <2>2, <2>6, <2>7, <2>8, <2>9, BuildMoves
<1>7. ASSUME NEW s \in Shells, NEW ok \in BOOLEAN, build(s, ok) PROVE BuildInv'
  <2> DEFINE q == cmds[s]
             exit == IF q.plan = "TEST" THEN 1 ELSE execute(ok)
             c == [q EXCEPT !.pc = "done", !.exit = exit]
  <2>1. cmds' = [cmds EXCEPT ![s] = c] /\ q.pc = "run" /\ q = cmds[s] /\ q \in BuildCommands
    BY <1>7, <1>c DEF build, Now
  <2>2. UNCHANGED <<project, seen, kind, snaps, cutShort>> /\ project \in Int
    BY <1>7 DEF build, BuildInv, BuildTyped
  <2>r. ran \subseteq ran' /\ (HasToRun(q) => q.hash \in ran')
    BY <1>7 DEF build
  <2>3. exit \in Int
    BY DEF execute
  <2> HIDE DEF q, exit
  <2>4. c \in BuildCommands /\ c.pc = "done" /\ c.plan = q.plan /\ c.hash = q.hash
    BY <2>1, <2>3 DEF BuildCommands, BuildSteps
  <2> HIDE DEF c
  <2>5. c.plan = "SKIP" => Grounded(c.hash)
    BY <2>1, <2>4 DEF BuildInv, SkipsGrounded
  <2> QED BY <2>r, <2>1, <2>2, <2>4, <2>5, BuildMoves
<1>8. ASSUME NEW s \in Shells, record_build(s) \/ KillBuild(s) PROVE BuildInv'
  <2>1. cmds' = [cmds EXCEPT ![s] = Nothing] /\ UNCHANGED <<project, seen, kind, snaps, ran>> /\ project \in Int
    BY <1>8 DEF record_build, KillBuild, BuildInv, BuildTyped
  <2>2. cutShort \subseteq cutShort' /\ (HasToRun(cmds[s]) => cmds[s].hash \in cutShort')
    BY <1>8 DEF record_build, KillBuild, Now, HasToRun
  <2> QED BY <2>1, <2>2, NothingTyped, BuildMoves
<1>9. CASE Edit \/ BuildTick \/ UNCHANGED buildVars
  BY <1>0, <1>9 DEF Edit, BuildTick, buildVars, BuildInv, BuildTyped
<1> QED BY <1>1, <1>2, <1>3, <1>4, <1>5, <1>6, <1>7, <1>8, <1>9 DEF BuildNext

(* SmartBuild: in any number of terminals, whatever the clock, the edits and *)
(* the kills, no chain of `nazg build` skips rests on nothing: some command  *)
(* with the same hash ran a build, has to, or was killed before it could, or *)
(* there is nothing to run for such a project (compute before                *)
(* store_snapshot before decide before build).                               *)
THEOREM BuildSkipsAreGrounded == BuildSpec => []SkipIsGrounded
<1>1. BuildInv => SkipIsGrounded
  BY DEF BuildInv, SkipsGrounded, Grounded, OwesBuild, SkipIsGrounded
<1> QED BY <1>1, BuildStart, BuildStep, PTL DEF BuildSpec

----------------------------------------------------------------------------
(* nazg test framework                                                      *)

TestSteps == {"idle", "execute", "add_run", "add_results", "print"}
Parsed == {parse_output(a, o, h) : a \in {"ctest", "pytest"}, o \in Outputs, h \in Leftovers} \cup {<<>>}
TestCommands ==
    [pc : TestSteps, framework : Frameworks \cup {"none"}, pid : Testers \cup {-1, 0}, run : Parsed, id : Nat, next : Nat,
     exit : Int]
StoredRuns == [project : Testers, framework : Frameworks \cup {"none"}, at : Nat, run : Parsed]
StoredResults == [run : Nat, name : Nat, status : {run.cases[i] : run \in Parsed, i \in Nat}]

TestsTyped ==
    /\ testers \in [Testers -> TestCommands] /\ testSecond \in Nat
    /\ test_runs \in Seq(StoredRuns) /\ test_results \in Seq(StoredResults)
    /\ shown \in [Testers -> SUBSET (1..Len(test_results))]

\* a command that stores its results stores them for its own run, after those it has stored
StoresItsOwn ==
    \A t \in Testers : testers[t].pc = "add_results" =>
        /\ testers[t].id \in 1..Len(test_runs)
        /\ test_runs[testers[t].id].run = testers[t].run
        /\ \A i \in 1..Len(test_results) :
              test_results[i].run = testers[t].id => test_results[i].name < testers[t].next

OneRunEach ==
    \A t, u \in Testers : /\ testers[t].pc = "add_results" /\ testers[u].pc = "add_results"
                          /\ testers[t].id = testers[u].id
                          => t = u

CaseOfItsRun(r) ==
    /\ r.run \in 1..Len(test_runs)
    /\ r.name <= Len(test_runs[r.run].run.cases)
    /\ test_runs[r.run].run.cases[r.name] = r.status

ResultsStored ==
    \A i \in 1..Len(test_results) :
        /\ CaseOfItsRun(test_results[i])
        /\ \A j \in 1..(i - 1) : test_results[j].run = test_results[i].run => test_results[j].name < test_results[i].name

ResultsShown ==
    \A t \in Testers : \A i, j \in shown[t] :
        test_results[i].run = test_results[j].run /\ test_runs[test_results[i].run].project = t

TestsInv == TestsTyped /\ StoresItsOwn /\ OneRunEach /\ ResultsStored /\ ResultsShown

LEMMA NoTestsTyped == NoTests \in TestCommands /\ NoTests.pc = "idle"
  BY DEF NoTests, TestCommands, TestSteps, Parsed

LEMMA TestsStart == TestInit => TestsInv
<1> SUFFICES ASSUME TestInit PROVE TestsInv
  OBVIOUS
<1>1. test_runs = <<>> /\ test_results = <<>> /\ Len(test_results) = 0
  BY DEF TestInit
<1>2. testers \in [Testers -> TestCommands] /\ \A t \in Testers : testers[t].pc = "idle"
  BY NoTestsTyped DEF TestInit
<1>3. TestsTyped
  BY <1>1, <1>2 DEF TestInit, TestsTyped
<1>4. ResultsShown
  BY DEF TestInit, ResultsShown
<1> QED BY <1>1, <1>2, <1>3, <1>4 DEF TestsInv, StoresItsOwn, OneRunEach, ResultsStored

\* a command goes on, with the run it stores for if it does, and nothing is stored
LEMMA TestMoves ==
  ASSUME TestsInv, NEW t \in Testers, NEW c \in TestCommands, testers' = [testers EXCEPT ![t] = c], c.pc # "add_results",
         UNCHANGED <<test_runs, test_results, shown, testSecond>>
  PROVE  TestsInv'
<1>1. testers'[t] = c /\ \A u \in Testers : u # t => testers'[u] = testers[u]
  BY DEF TestsInv, TestsTyped
<1>2. \A u \in Testers : testers'[u].pc = "add_results" => testers'[u] = testers[u]
  BY <1>1
<1>3. TestsTyped'
  BY DEF TestsInv, TestsTyped
<1>4. StoresItsOwn' /\ OneRunEach'
  BY <1>2 DEF TestsInv, StoresItsOwn, OneRunEach
<1>5. ResultsStored' /\ ResultsShown'
  BY DEF TestsInv, ResultsStored, ResultsShown, CaseOfItsRun
<1> QED BY <1>3, <1>4, <1>5 DEF TestsInv

\* a refused or a killed command
LEMMA TestsEnd ==
  ASSUME TestsInv, NEW t \in Testers, NEW x \in Int, testers' = [testers EXCEPT ![t] = [NoTests EXCEPT !.exit = x]],
         UNCHANGED <<test_runs, test_results, shown, testSecond>>
  PROVE  TestsInv'
<1> DEFINE q == NoTests
           c == [q EXCEPT !.exit = x]
<1>1. q \in TestCommands /\ q.pc = "idle" /\ testers' = [testers EXCEPT ![t] = c]
  BY NoTestsTyped
<1> HIDE DEF q
<1>2. c \in TestCommands /\ c.pc = "idle"
  BY <1>1 DEF TestCommands
<1> HIDE DEF c
<1> QED BY <1>1, <1>2, TestMoves

LEMMA TestsStep == TestsInv /\ [TestNext]_testVars => TestsInv'
<1> SUFFICES ASSUME TestsInv, [TestNext]_testVars PROVE TestsInv'
  OBVIOUS
<1>0. CASE UNCHANGED testVars \/ TestTick
  BY <1>0 DEF TestTick, testVars, TestsInv, TestsTyped, StoresItsOwn, OneRunEach, ResultsStored, ResultsShown, CaseOfItsRun
<1>c. \A t \in Testers : testers[t] \in TestCommands
  BY DEF TestsInv, TestsTyped
<1>1. ASSUME NEW t \in Testers, NEW f \in Frameworks, cmd_test(t, f) PROVE TestsInv'
  <2>1. UNCHANGED <<test_runs, test_results, shown, testSecond>>
    BY <1>1 DEF cmd_test
  <2>2. CASE f = "none"
    BY <1>1, <2>1, <2>2, TestsEnd DEF cmd_test
  <2>3. CASE f # "none"
    <3>1. PICK pid \in {t, -1} :
            testers' = [testers EXCEPT ![t] = [NoTests EXCEPT !.pc = "execute", !.framework = f, !.pid = pid]]
      BY <1>1, <2>3 DEF cmd_test
    <3> DEFINE q == NoTests
               c == [q EXCEPT !.pc = "execute", !.framework = f, !.pid = pid]
    <3>2. q \in TestCommands /\ testers' = [testers EXCEPT ![t] = c]
      BY <3>1, NoTestsTyped
    <3> HIDE DEF q
    <3>3. c \in TestCommands /\ c.pc = "execute"
      BY <3>2 DEF TestCommands, TestSteps
    <3> HIDE DEF c
    <3> QED BY <2>1, <3>2, <3>3, TestMoves
  <2> QED BY <2>2, <2>3
<1>2. ASSUME NEW t \in Testers, runner_execute(t) PROVE TestsInv'
  <2>1. UNCHANGED <<test_runs, test_results, shown, testSecond>>
    BY <1>2 DEF runner_execute
  <2> DEFINE a == get_adapter(testers[t].framework)
  <2>2. CASE a = "none"
    BY <1>2, <2>1, <2>2, TestsEnd DEF runner_execute
  <2>3. CASE a # "none"
    <3>1. PICK output \in Outputs, held \in Leftovers :
            testers' = [testers EXCEPT ![t] = [testers[t] EXCEPT !.pc = "add_run", !.run = parse_output(a, output, held)]]
      BY <1>2, <2>3 DEF runner_execute
    <3>2. a \in {"ctest", "pytest"}
      BY <2>3 DEF get_adapter
    <3> DEFINE q == testers[t]
               run == parse_output(a, output, held)
               c == [q EXCEPT !.pc = "add_run", !.run = run]
    <3>3. q \in TestCommands /\ testers' = [testers EXCEPT ![t] = c]
      BY <3>1, <1>c
    <3>4. run \in Parsed
      BY <3>2 DEF Parsed
    <3> HIDE DEF q, run
    <3>5. c \in TestCommands /\ c.pc = "add_run"
      BY <3>3, <3>4 DEF TestCommands, TestSteps
    <3> HIDE DEF c
    <3> QED BY <2>1, <3>3, <3>5, TestMoves
  <2> QED BY <2>2, <2>3
<1>3. ASSUME NEW t \in Testers, add_test_run(t) PROVE TestsInv'
  <2>0. UNCHANGED <<test_results, shown, testSecond>> /\ testers[t] \in TestCommands
    BY <1>3, <1>c DEF add_test_run
  <2>1. CASE testers' = [testers EXCEPT ![t].pc = "print"] /\ UNCHANGED test_runs
    <3> DEFINE c == [testers[t] EXCEPT !.pc = "print"]
    <3>1. c \in TestCommands /\ c.pc = "print"
      BY <2>0 DEF TestCommands, TestSteps
    <3>2. testers' = [testers EXCEPT ![t] = c]
      BY <2>1
    <3> HIDE DEF c
    <3> QED BY <2>0, <2>1, <3>1, <3>2, TestMoves
  <2>2. CASE /\ test_runs' = Append(test_runs, [project |-> t, framework |-> testers[t].framework, at |-> testSecond,
                                               run |-> testers[t].run])
             /\ testers' = [testers EXCEPT ![t] = [NoTests EXCEPT !.pc = "add_results", !.run = testers[t].run,
                                                                  !.id = Len(test_runs) + 1]]
    <3> DEFINE o == NoTests
               run == testers[t].run
               n == Len(test_runs) + 1
               c == [o EXCEPT !.pc = "add_results", !.run = run, !.id = n]
               row == [project |-> t, framework |-> testers[t].framework, at |-> testSecond, run |-> run]
    <3>1. testers' = [testers EXCEPT ![t] = c] /\ o \in TestCommands /\ test_runs' = Append(test_runs, row)
      BY <2>2, NoTestsTyped
    <3>2. run \in Parsed /\ n \in Nat /\ testers[t].framework \in Frameworks \cup {"none"} /\ testSecond \in Nat
      BY <2>0 DEF TestCommands, TestsInv, TestsTyped
    <3>3. row \in StoredRuns /\ row.run = run
      BY <3>2 DEF StoredRuns
    <3> HIDE DEF o, run, row
    <3>4. c \in TestCommands /\ c.pc = "add_results" /\ c.run = run /\ c.id = n
      BY <3>1, <3>2 DEF TestCommands, TestSteps
    <3> HIDE DEF c
    <3>5. /\ test_runs' \in Seq(StoredRuns) /\ Len(test_runs') = n /\ test_runs'[n] = row
          /\ \A i \in 1..Len(test_runs) : test_runs'[i] = test_runs[i]
      BY <3>1, <3>3, AppendProperties DEF TestsInv, TestsTyped
    <3>6. testers'[t] = c /\ \A u \in Testers : u # t => testers'[u] = testers[u]
      BY <3>1 DEF TestsInv, TestsTyped
    <3>7. Len(test_runs) \in Nat /\ n \notin 1..Len(test_runs) /\ 1..Len(test_runs) \subseteq 1..n /\ n \in 1..n
      BY DEF TestsInv, TestsTyped
    <3> HIDE DEF n
    <3>8. TestsTyped'
      BY <2>0, <3>1, <3>4, <3>5 DEF TestsInv, TestsTyped
    <3>9. \A i \in 1..Len(test_results) : test_results[i].run \in 1..Len(test_runs)
      BY DEF TestsInv, ResultsStored, CaseOfItsRun
    <3>10. StoresItsOwn'
      <4> SUFFICES ASSUME NEW u \in Testers, testers'[u].pc = "add_results"
                   PROVE  /\ testers'[u].id \in 1..n
                          /\ test_runs'[testers'[u].id].run = testers'[u].run
                          /\ \A i \in 1..Len(test_results) :
                                test_results[i].run = testers'[u].id => test_results[i].name < testers'[u].next
        BY <2>0, <3>5 DEF StoresItsOwn
      <4>1. CASE u = t
        BY <3>3, <3>4, <3>5, <3>6, <3>7, <3>9, <4>1
      <4>2. CASE u # t
        BY <3>5, <3>6, <3>7, <4>2 DEF TestsInv, StoresItsOwn
      <4> QED BY <4>1, <4>2
    <3>11. OneRunEach'
      BY <3>4, <3>6, <3>7 DEF TestsInv, OneRunEach, StoresItsOwn
    <3>12. ResultsStored'
      <4> SUFFICES ASSUME NEW i \in 1..Len(test_results)
                   PROVE  /\ test_results[i].run \in 1..n
                          /\ test_results[i].name <= Len(test_runs'[test_results[i].run].run.cases)
                          /\ test_runs'[test_results[i].run].run.cases[test_results[i].name] = test_results[i].status
                          /\ \A j \in 1..(i - 1) :
                                test_results[j].run = test_results[i].run => test_results[j].name < test_results[i].name
        BY <2>0, <3>5 DEF ResultsStored, CaseOfItsRun
      <4>1. test_runs'[test_results[i].run] = test_runs[test_results[i].run]
        BY <3>5, <3>9
      <4> QED BY <3>7, <3>9, <4>1 DEF TestsInv, ResultsStored, CaseOfItsRun
    <3>13. ResultsShown'
      <4>1. \A u \in Testers : \A i \in shown[u] : test_runs'[test_results[i].run] = test_runs[test_results[i].run]
        BY <3>5, <3>9 DEF TestsInv, TestsTyped
      <4> QED BY <2>0, <4>1 DEF TestsInv, ResultsShown
    <3> QED BY <3>8, <3>10, <3>11, <3>12, <3>13 DEF TestsInv
  <2> QED BY <1>3, <2>1, <2>2 DEF add_test_run
<1>4. ASSUME NEW t \in Testers, add_test_result(t) PROVE TestsInv'
  <2> DEFINE q == testers[t]
             k == q.next + 1
             c == [q EXCEPT !.next = k]
             row == [run |-> q.id, name |-> q.next, status |-> q.run.cases[q.next]]
  <2>1. /\ testers' = [testers EXCEPT ![t] = c] /\ q.pc = "add_results" /\ q.next <= Len(q.run.cases)
        /\ UNCHANGED <<test_runs, shown, testSecond>>
    BY <1>4 DEF add_test_result
  <2>2. test_results' = Append(test_results, row) \/ test_results' = test_results
    BY <1>4 DEF add_test_result
  <2>3. q \in TestCommands /\ q = testers[t] /\ q.next \in Nat /\ q.id \in Nat /\ k \in Nat /\ k = q.next + 1
    BY <1>c DEF TestCommands
  <2>4. row \in StoredResults /\ row.run = q.id /\ row.name = q.next /\ row.status = q.run.cases[q.next]
    BY <2>3 DEF StoredResults, TestCommands
  <2> HIDE DEF q, k, row
  <2>5. c \in TestCommands /\ c.pc = "add_results" /\ c.run = q.run /\ c.id = q.id /\ c.next = q.next + 1
    BY <2>1, <2>3 DEF TestCommands
  <2> HIDE DEF c
  <2>6. testers'[t] = c /\ \A u \in Testers : u # t => testers'[u] = testers[u]
    BY <2>1 DEF TestsInv, TestsTyped
  <2>7. /\ q.id \in 1..Len(test_runs) /\ test_runs[q.id].run = q.run
        /\ \A i \in 1..Len(test_results) : test_results[i].run = q.id => test_results[i].name < q.next
    BY <2>1, <2>3 DEF TestsInv, StoresItsOwn
  <2>8. \A i \in 1..Len(test_results) : test_results[i].name \in Nat
    <3>1. \A i \in 1..Len(test_results) : test_results[i] \in StoredResults
      BY DEF TestsInv, TestsTyped
    <3> QED BY <3>1 DEF StoredResults
  <2>9. OneRunEach'
    BY <2>1, <2>3, <2>5, <2>6 DEF TestsInv, OneRunEach
  <2>10. CASE test_results' = test_results
    <3>1. TestsTyped'
      BY <2>1, <2>5, <2>10 DEF TestsInv, TestsTyped
    <3>2. StoresItsOwn'
      BY <2>1, <2>3, <2>5, <2>6, <2>7, <2>8, <2>10 DEF TestsInv, StoresItsOwn
    <3> QED BY <2>1, <2>9, <2>10, <3>1, <3>2 DEF TestsInv, ResultsStored, ResultsShown, CaseOfItsRun
  <2>11. CASE test_results' = Append(test_results, row)
    <3> DEFINE n == Len(test_results) + 1
    <3>1. /\ test_results' \in Seq(StoredResults) /\ Len(test_results') = n /\ test_results'[n] = row
          /\ \A i \in 1..Len(test_results) : test_results'[i] = test_results[i]
      BY <2>4, <2>11, AppendProperties DEF TestsInv, TestsTyped
    <3>2. /\ Len(test_results) \in Nat /\ 1..n = 1..Len(test_results) \cup {n} /\ 1..(n - 1) = 1..Len(test_results)
          /\ 1..Len(test_results) \subseteq 1..n
          /\ \A i \in 1..Len(test_results) : 1..(i - 1) \subseteq 1..Len(test_results)
      BY DEF TestsInv, TestsTyped
    <3> HIDE DEF n
    <3>3. TestsTyped'
      BY <2>1, <2>5, <3>1, <3>2 DEF TestsInv, TestsTyped
    <3>4. StoresItsOwn'
      <4> SUFFICES ASSUME NEW u \in Testers, testers'[u].pc = "add_results"
                   PROVE  /\ testers'[u].id \in 1..Len(test_runs)
                          /\ test_runs[testers'[u].id].run = testers'[u].run
                          /\ \A i \in 1..n :
                                test_results'[i].run = testers'[u].id => test_results'[i].name < testers'[u].next
        BY <2>1, <3>1 DEF StoresItsOwn
      <4>1. CASE u = t
        <5>1. \A i \in 1..Len(test_results) : test_results'[i].run = q.id => test_results'[i].name < q.next + 1
          <6> SUFFICES ASSUME NEW i \in 1..Len(test_results), test_results'[i].run = q.id
                       PROVE  test_results'[i].name < q.next + 1
            OBVIOUS
          <6>1. test_results'[i] = test_results[i]
            BY <3>1
          <6>2. test_results[i].name \in Nat /\ test_results[i].name < q.next
            BY <2>7, <2>8, <6>1
          <6> QED BY <2>3, <6>1, <6>2
        <5>2. test_results'[n].name < q.next + 1
          BY <2>3, <2>4, <3>1
        <5> QED BY <2>5, <2>6, <2>7, <3>2, <4>1, <5>1, <5>2
      <4>2. CASE u # t
        <5>1. testers'[u] = testers[u] /\ testers[u].id # q.id
          BY <2>1, <2>3, <2>6, <4>2 DEF TestsInv, OneRunEach
        <5> QED BY <2>4, <3>1, <3>2, <5>1 DEF TestsInv, StoresItsOwn
      <4> QED BY <4>1, <4>2
    <3>5. ResultsStored'
      <4> SUFFICES ASSUME NEW i \in 1..n
                   PROVE  /\ CaseOfItsRun(test_results'[i])
                          /\ \A j \in 1..(i - 1) :
                                test_results'[j].run = test_results'[i].run => test_results'[j].name < test_results'[i].name
        BY <2>1, <3>1 DEF ResultsStored, CaseOfItsRun
      <4>1. CASE i = n
        BY <2>1, <2>4, <2>7, <3>1, <3>2, <4>1 DEF CaseOfItsRun
      <4>2. CASE i \in 1..Len(test_results)
        BY <3>1, <3>2, <4>2 DEF TestsInv, ResultsStored
      <4> QED BY <3>2, <4>1, <4>2
    <3>6. ResultsShown'
      <4>1. \A u \in Testers : \A i \in shown[u] : test_results'[i] = test_results[i]
        BY <3>1 DEF TestsInv, TestsTyped
      <4> QED BY <2>1, <4>1 DEF TestsInv, ResultsShown
    <3> QED BY <2>9, <3>3, <3>4, <3>5, <3>6 DEF TestsInv
  <2> QED BY <2>2, <2>10, <2>11
<1>5. ASSUME NEW t \in Testers, parse_coverage(t) PROVE TestsInv'
  <2> DEFINE c == [testers[t] EXCEPT !.pc = "print"]
  <2>1. testers' = [testers EXCEPT ![t] = c] /\ UNCHANGED <<test_runs, test_results, shown, testSecond>>
    BY <1>5 DEF parse_coverage
  <2>2. c \in TestCommands /\ c.pc = "print"
    BY <1>c DEF TestCommands, TestSteps
  <2> HIDE DEF c
  <2> QED BY <2>1, <2>2, TestMoves
<1>6. ASSUME NEW t \in Testers, PrintVerdict(t) \/ KillTests(t) PROVE TestsInv'
  <2>1. verdict(testers[t].run) \in Int
    BY DEF verdict
  <2> QED BY <1>6, <2>1, TestsEnd DEF PrintVerdict, KillTests
<1>7. ASSUME NEW t \in Testers, cmd_test_results(t) PROVE TestsInv'
  <2>1. PICK failedOnly \in BOOLEAN, id \in get_test_runs(t) :
           shown' = [shown EXCEPT ![t] = get_test_results(id, failedOnly)]
    BY <1>7 DEF cmd_test_results
  <2>2. UNCHANGED <<test_runs, test_results, testers, testSecond>>
    BY <1>7 DEF cmd_test_results
  <2>3. test_runs[id].project = t
    BY DEF get_test_runs
  <2> DEFINE rows == get_test_results(id, failedOnly)
  <2>4. rows \subseteq 1..Len(test_results) /\ \A i \in rows : test_results[i].run = id
    BY DEF get_test_results, TestsInv, TestsTyped
  <2>5. shown' = [shown EXCEPT ![t] = rows]
    BY <2>1
  <2> HIDE DEF rows
  <2>6. TestsTyped'
    BY <2>2, <2>4, <2>5 DEF TestsInv, TestsTyped
  <2>7. ResultsShown'
    BY <2>2, <2>3, <2>4, <2>5 DEF TestsInv, TestsTyped, ResultsShown
  <2> QED BY <2>2, <2>6, <2>7 DEF TestsInv, StoresItsOwn, OneRunEach, ResultsStored, CaseOfItsRun
<1> QED BY <1>0, <1>1, <1>2, <1>3, <1>4, <1>5, <1>6, <1>7 DEF TestNext

(* TestRuns: however many terminals store results at once, and whatever is   *)
(* refused or killed, every stored result is a case of the run it names,     *)
(* once and in order, and test-results prints one run of the project asked   *)
(* about (add_test_run's id carried through Runner::execute).                *)
THEOREM TestResultsAreOfTheirRun == TestSpec => []ResultsAreOfTheirRun
<1>1. TestsInv => ResultsAreOfTheirRun
  <2> SUFFICES ASSUME TestsInv PROVE ResultsAreOfTheirRun
    OBVIOUS
  <2>1. DOMAIN test_results = 1..Len(test_results) /\ DOMAIN test_runs = 1..Len(test_runs)
    BY DEF TestsInv, TestsTyped
  <2>2. \A t \in Testers : \A i, j \in shown[t] :
          test_results[i].run = test_results[j].run /\ test_runs[test_results[i].run].project = t
    BY DEF TestsInv, ResultsShown
  <2>3. ASSUME NEW i \in DOMAIN test_results
        PROVE  LET row == test_results[i] IN
               /\ row.run \in DOMAIN test_runs
               /\ row.name <= Len(test_runs[row.run].run.cases)
               /\ test_runs[row.run].run.cases[row.name] = row.status
               /\ \A j \in 1..(i - 1) : test_results[j].run = row.run => test_results[j].name < row.name
    BY <2>1 DEF TestsInv, ResultsStored, CaseOfItsRun
  <2> QED BY <2>2, <2>3 DEF ResultsAreOfTheirRun
<1> QED BY <1>1, TestsStart, TestsStep, PTL DEF TestSpec

----------------------------------------------------------------------------
(* nazg test git merge collision                                            *)

Histories == {<<>>, <<"initial">>, <<"initial", "primary">>, <<"initial", "secondary">>}
Copies == [commits : Histories, file : {"none", "base", "first", "second"}, state : {"none", "clean", "conflict"}]

Collided ==
    /\ bare = <<"initial", "primary">> /\ two.commits = <<"initial", "secondary">>
    /\ ~Remote => two.state = "conflict"

\* what the steps so far have left behind
Staged ==
    /\ pcs = "push initial" => one.commits = <<"initial">>
    /\ pcs = "clone" => one.commits = <<"initial">> /\ bare = <<"initial">>
    /\ pcs = "primary change" => one.commits = <<"initial">> /\ bare = <<"initial">> /\ two.commits = <<"initial">>
    /\ pcs = "push primary" => one.commits = <<"initial", "primary">> /\ two.commits = <<"initial">>
    /\ pcs = "secondary change" => bare = <<"initial", "primary">> /\ two.commits = <<"initial">>
    /\ pcs \in {"push secondary", "pull"} => bare = <<"initial", "primary">> /\ two.commits = <<"initial", "secondary">>
    /\ pcs = "status" => Collided
    /\ pcs = "summary" => aborted \/ Collided
    /\ pcs = "ended" => exitCode = 1 \/ Collided

MergeInv == one \in Copies /\ two \in Copies /\ Staged

LEMMA MergeStart == MergeInit => MergeInv
<1> SUFFICES ASSUME MergeInit PROVE MergeInv
  OBVIOUS
<1> DEFINE h == <<>>
<1>0. h \in Histories
  BY DEF Histories
<1> HIDE DEF h
<1>1. [commits |-> h, file |-> "none", state |-> "none"] \in Copies
  BY <1>0 DEF Copies
<1>2. NoCopy \in Copies
  BY <1>1, Zenon DEF NoCopy, h
<1> QED BY <1>2 DEF MergeInit, MergeInv, Staged

\* the second copy lacks what the first has pushed
LEMMA SecondIsBehind ==
  ASSUME bare = <<"initial", "primary">>, two.commits = <<"initial", "secondary">>
  PROVE  IsBehind(two)
<1> DEFINE c == two.commits
           b == SubSeq(c, 1, Len(bare))
<1>1. c \in Seq({"initial", "secondary"}) /\ Len(c) = 2 /\ c[2] = "secondary" /\ Len(bare) = 2 /\ bare[2] = "primary"
  OBVIOUS
<1> HIDE DEF c
<1>2. b[2] = c[2]
  BY <1>1
<1> QED BY <1>1, <1>2 DEF IsBehind, c

LEMMA AppendToOne ==
  ASSUME NEW S, NEW x \in S, NEW w \in S
  PROVE  Append(<<x>>, w) = <<x, w>>
<1> DEFINE s == <<x>>
           b == <<x, w>>
<1>1. s \in Seq(S) /\ Len(s) = 1 /\ s[1] = x
  OBVIOUS
<1>2. b \in Seq(S) /\ Len(b) = 2 /\ b[1] = x /\ b[2] = w
  OBVIOUS
<1> HIDE DEF s, b
<1>3. Append(s, w) \in Seq(S) /\ Len(Append(s, w)) = Len(s) + 1 /\ Append(s, w)[Len(s) + 1] = w
  BY <1>1, AppendProperties
<1>4. \A i \in 1..Len(s) : Append(s, w)[i] = s[i]
  BY <1>1, AppendProperties
<1> DEFINE a == Append(s, w)
<1>5. a \in Seq(S) /\ Len(a) = 2 /\ a[1] = x /\ a[2] = w
  BY <1>1, <1>3, <1>4
<1> HIDE DEF a
<1>6. \A i \in 1..Len(a) : a[i] = b[i]
  <2> SUFFICES ASSUME NEW i \in 1..2 PROVE a[i] = b[i]
    BY <1>5
  <2>1. i = 1 \/ i = 2
    OBVIOUS
  <2> QED BY <1>2, <1>5, <2>1
<1>7. a = b
  BY <1>2, <1>5, <1>6, SeqEqual
<1> QED BY <1>7 DEF a, b, s

LEMMA MergeStep == MergeInv /\ [MergeNext]_mergeVars => MergeInv'
<1> SUFFICES ASSUME MergeInv, [MergeNext]_mergeVars PROVE MergeInv'
  OBVIOUS
<1> USE DEF MergeInv
<1>0. CASE UNCHANGED mergeVars
  BY <1>0 DEF mergeVars, Staged, Collided, Remote
<1>1. CASE ValidateOptions
  BY <1>1 DEF ValidateOptions, Staged
<1>2. CASE ReachAdmin
  BY <1>2 DEF ReachAdmin, Staged
<1>3. CASE ProvisionRepository
  BY <1>3 DEF ProvisionRepository, Staged
<1>4. CASE RegisterServer
  BY <1>4 DEF RegisterServer, Staged
<1>5. CASE ScaffoldAndCommit
  <2> DEFINE h == <<"initial">>
  <2>0. PICK worked \in BOOLEAN :
          /\ GoOn("initial commit", worked, TRUE, "push initial")
          /\ one' = IF worked THEN [commits |-> h, file |-> "base", state |-> "clean"] ELSE one
    BY <1>5, Zenon DEF ScaffoldAndCommit
  <2>1. h \in Histories /\ two' = two
    BY <1>5 DEF Histories, ScaffoldAndCommit
  <2> HIDE DEF h
  <2>2. one' \in Copies /\ (worked => one'.commits = h)
    BY <2>0, <2>1 DEF Copies
  <2>3. (pcs' = "push initial" /\ one'.commits = h) \/ (pcs' = "summary" /\ aborted')
    BY <2>0, <2>2 DEF GoOn
  <2>4. (pcs' = "push initial" /\ one'.commits = <<"initial">>) \/ (pcs' = "summary" /\ aborted')
    BY <2>3 DEF h
  <2> QED BY <2>1, <2>2, <2>4 DEF Staged
<1>6. CASE PushInitial
  <2>1. PICK worked \in BOOLEAN : Push(one, worked) /\ GoOn("push initial", worked, TRUE, "clone")
    BY <1>6 DEF PushInitial
  <2>2. UNCHANGED <<opts, one, two>> /\ one.commits = <<"initial">>
    BY <1>6 DEF PushInitial, Staged
  <2>3. (pcs' = "clone" /\ bare' = <<"initial">>) \/ (pcs' = "summary" /\ aborted')
    BY <2>1, <2>2 DEF Push, GoOn
  <2> QED BY <2>2, <2>3 DEF Staged
<1>7. CASE CloneAndCheckout
  <2>1. PICK worked \in BOOLEAN :
          /\ GoOn("clone", worked, TRUE, "primary change")
          /\ two' = IF worked THEN [commits |-> bare, file |-> "base", state |-> "clean"] ELSE two
    BY <1>7 DEF CloneAndCheckout
  <2>2. UNCHANGED <<opts, bare, one>> /\ one.commits = <<"initial">> /\ bare = <<"initial">>
    BY <1>7 DEF CloneAndCheckout, Staged
  <2>3. two' \in Copies
    BY <2>1, <2>2 DEF Copies
  <2>4. (pcs' = "primary change" /\ two'.commits = <<"initial">>) \/ (pcs' = "summary" /\ aborted')
    BY <2>1, <2>2 DEF GoOn
  <2> QED BY <2>2, <2>3, <2>4 DEF Staged
<1>8. CASE PrimaryChange
  <2>1. PICK worked \in BOOLEAN :
          /\ GoOn("commit primary", worked, TRUE, "push primary")
          /\ one' = [one EXCEPT !.file = "first", !.commits = IF worked THEN Append(@, "primary") ELSE @]
    BY <1>8 DEF PrimaryChange
  <2>2. UNCHANGED <<opts, bare, two>> /\ one.commits = <<"initial">> /\ two.commits = <<"initial">>
    BY <1>8 DEF PrimaryChange, Staged
  <2> DEFINE q == one
             h == IF worked THEN Append(q.commits, "primary") ELSE q.commits
             c == [q EXCEPT !.file = "first", !.commits = h]
  <2>a. one' = c /\ q = one
    BY <2>1
  <2>b. h \in Histories /\ (worked => h = <<"initial", "primary">>)
    <3>1. q.commits \in Histories /\ q.commits = <<"initial">>
      BY <2>2 DEF Copies, MergeInv
    <3>2. Append(<<"initial">>, "primary") = <<"initial", "primary">>
      <4>1. "initial" \in {"initial", "primary"} /\ "primary" \in {"initial", "primary"}
        OBVIOUS
      <4> QED BY <4>1, AppendToOne, Zenon
    <3>3. <<"initial", "primary">> \in Histories
      BY DEF Histories
    <3> QED BY <3>1, <3>2, <3>3
  <2> HIDE DEF q, h
  <2>c. c \in Copies /\ c.commits = h
    BY <2>a, <2>b DEF Copies
  <2> HIDE DEF c
  <2>3. one' \in Copies /\ (worked => one'.commits = <<"initial", "primary">>)
    BY <2>a, <2>b, <2>c
  <2>4. (pcs' = "push primary" /\ worked) \/ (pcs' = "summary" /\ aborted')
    BY <2>1 DEF GoOn
  <2> QED BY <2>2, <2>3, <2>4 DEF Staged
<1>9. CASE PushPrimary
  <2>1. PICK worked \in BOOLEAN : Push(one, worked) /\ GoOn("push primary", worked, TRUE, "secondary change")
    BY <1>9 DEF PushPrimary
  <2>2. UNCHANGED <<opts, one, two>> /\ one.commits = <<"initial", "primary">> /\ two.commits = <<"initial">>
    BY <1>9 DEF PushPrimary, Staged
  <2>3. (pcs' = "secondary change" /\ bare' = <<"initial", "primary">>) \/ (pcs' = "summary" /\ aborted')
    BY <2>1, <2>2 DEF Push, GoOn
  <2> QED BY <2>2, <2>3 DEF Staged
<1>10. CASE SecondaryChange
  <2>1. PICK worked \in BOOLEAN :
          /\ GoOn("commit secondary", worked, TRUE, "push secondary")
          /\ two' = [two EXCEPT !.file = "second", !.commits = IF worked THEN Append(@, "secondary") ELSE @]
    BY <1>10 DEF SecondaryChange
  <2>2. UNCHANGED <<opts, bare, one>> /\ bare = <<"initial", "primary">> /\ two.commits = <<"initial">>
    BY <1>10 DEF SecondaryChange, Staged
  <2> DEFINE q == two
             h == IF worked THEN Append(q.commits, "secondary") ELSE q.commits
             c == [q EXCEPT !.file = "second", !.commits = h]
  <2>a. two' = c /\ q = two
    BY <2>1
  <2>b. h \in Histories /\ (worked => h = <<"initial", "secondary">>)
    <3>1. q.commits \in Histories /\ q.commits = <<"initial">>
      BY <2>2 DEF Copies, MergeInv
    <3>2. Append(<<"initial">>, "secondary") = <<"initial", "secondary">>
      <4>1. "initial" \in {"initial", "secondary"} /\ "secondary" \in {"initial", "secondary"}
        OBVIOUS
      <4> QED BY <4>1, AppendToOne, Zenon
    <3>3. <<"initial", "secondary">> \in Histories
      BY DEF Histories
    <3> QED BY <3>1, <3>2, <3>3
  <2> HIDE DEF q, h
  <2>c. c \in Copies /\ c.commits = h
    BY <2>a, <2>b DEF Copies
  <2> HIDE DEF c
  <2>3. two' \in Copies /\ (worked => two'.commits = <<"initial", "secondary">>)
    BY <2>a, <2>b, <2>c
  <2>4. (pcs' = "push secondary" /\ worked) \/ (pcs' = "summary" /\ aborted')
    BY <2>1 DEF GoOn
  <2> QED BY <2>2, <2>3, <2>4 DEF Staged
<1>11. CASE PushSecondary
  <2>1. PICK worked \in BOOLEAN : Push(two, worked) /\ GoOn("push secondary", worked, FALSE, "pull")
    BY <1>11 DEF PushSecondary
  <2>2. UNCHANGED <<opts, one, two>> /\ bare = <<"initial", "primary">> /\ two.commits = <<"initial", "secondary">>
    BY <1>11 DEF PushSecondary, Staged
  <2>3. IsBehind(two)
    BY <2>2, SecondIsBehind
  <2>4. bare' = bare /\ pcs' = "pull"
    BY <2>1, <2>3 DEF Push, GoOn
  <2> QED BY <2>2, <2>4 DEF Staged
<1>12. CASE PullRebase
  <2>1. UNCHANGED <<opts, bare, one>> /\ bare = <<"initial", "primary">> /\ two.commits = <<"initial", "secondary">>
    BY <1>12 DEF PullRebase, Staged
  <2>2. IsBehind(two)
    BY <2>1, SecondIsBehind
  <2>3. (two' = [two EXCEPT !.state = "conflict"]) \/ (two' = two /\ Remote)
    BY <1>12, <2>2 DEF PullRebase
  <2>4. two' \in Copies /\ two'.commits = two.commits /\ (~Remote => two'.state = "conflict")
    BY <2>3 DEF Copies
  <2>5. pcs' = "status" /\ Remote' = Remote
    BY <1>12, <2>1 DEF PullRebase, Remote
  <2>6. Collided'
    BY <2>1, <2>4, <2>5 DEF Collided
  <2> QED BY <2>1, <2>4, <2>5, <2>6 DEF Staged
<1>13. CASE ShowStatus
  BY <1>13 DEF ShowStatus, Staged, Collided, Remote
<1>14. CASE Summary
  <2>1. pcs' = "ended" /\ UNCHANGED <<opts, bare, one, two>> /\ (aborted \/ Collided)
    BY <1>14 DEF Summary, Staged
  <2>2. aborted => exitCode' = 1
    BY <1>14 DEF Summary
  <2> QED BY <2>1, <2>2 DEF Staged, Collided, Remote
<1> QED BY <1>0, <1>1, <1>2, <1>3, <1>4, <1>5, <1>6, <1>7, <1>8, <1>9, <1>10, <1>11, <1>12, <1>13, <1>14 DEF MergeNext

(* MergeScenario: for every command line, and whatever fails before or after *)
(* it took effect, a scenario that exits with 0 has shown the refused push   *)
(* and, when it ran on one machine, the conflict; against a remote a failed  *)
(* pull passes for the conflict (run_git_merge_collision_scenario).          *)
THEOREM PassedScenariosCollided == MergeSpec => []PassMeansCollision
<1>1. MergeInv => PassMeansCollision
  BY DEF MergeInv, Staged, Collided, PassMeansCollision
<1> QED BY <1>1, MergeStart, MergeStep, PTL DEF MergeSpec

----------------------------------------------------------------------------
(* The bot registry and run history                                         *)

Finals == {"success", "warning", "critical", "error"}
BotSteps == {"idle", "lookup", "add", "begin", "execute", "finish", "report", "status", "offer", "manage"}
AnyLabel == HostLabels \cup {"none"}

HostRows == [label : AnyLabel, config : {"spawn", "setup", "edited"}, last_status : Finals \cup {"none"}, born : Nat]
RunRows == [host : Int, status : Finals \cup {"running"}, born : Nat]
BotCommands ==
    [pc : BotSteps, bot : {"none", "doctor", "git-doctor"}, label : AnyLabel, host : Int, born : Nat, run : Int,
     status : Finals \cup {"none"}, report : BOOLEAN, retried : BOOLEAN, refused : BOOLEAN,
     copy : HostRows \cup {<<>>}]

HostsTyped ==
    /\ hostIds \in Nat /\ born \in Nat
    /\ bot_hosts \in [DOMAIN bot_hosts -> HostRows]
    /\ DOMAIN bot_hosts \subseteq 1..hostIds

RunsTyped ==
    /\ runIds \in Nat
    /\ bot_runs \in [DOMAIN bot_runs -> RunRows]
    /\ DOMAIN bot_runs \subseteq 1..runIds
    /\ bot_reports \subseteq [run : Int, status : Finals]

CommandsTyped ==
    /\ bots \in [Terminals -> BotCommands]
    /\ \A t \in Terminals : bots[t].pc = "manage" => bots[t].copy \in HostRows

\* a command that is past the lookup of its host; one that is past begin_bot_run; past the bot
Hosted(c) == c.pc \in {"begin", "execute", "finish", "report", "status", "offer"}
Recorded(c) == c.pc \in {"execute", "finish", "report", "status"}
Resulted(c) == c.pc \in {"finish", "report", "status"}

\* the host a command has in mind is still the one it looked up, or it is gone for good
KnowsItsHost(c) ==
    Hosted(c) => /\ c.host <= hostIds
                 /\ c.host \in DOMAIN bot_hosts => bot_hosts[c.host].born = c.born

\* its run, if it got one that is still there, is one on that host and as far as the command is
KnowsItsRun(c) ==
    Recorded(c) =>
        /\ c.run <= runIds
        /\ Running(c.run) =>
             /\ bot_runs[c.run].born = c.born
             /\ IF c.pc \in {"execute", "finish"}
                THEN bot_runs[c.run].status = "running" /\ \A p \in bot_reports : p.run # c.run
                ELSE bot_runs[c.run].status \in {"running", c.status}

KnowsItsResult(c) == Resulted(c) => c.status \in Finals /\ <<c.born, c.status>> \in earned

AttemptOk(c) == KnowsItsHost(c) /\ KnowsItsRun(c) /\ KnowsItsResult(c)

Attempts == \A t \in Terminals : AttemptOk(bots[t])

OwnRuns ==
    \A t, u \in Terminals :
        Recorded(bots[t]) /\ Recorded(bots[u]) /\ bots[t].run = bots[u].run /\ Running(bots[t].run) => t = u

BotsInv ==
    /\ HostsTyped /\ RunsTyped /\ CommandsTyped /\ Attempts /\ OwnRuns
    /\ HistoryGoesWithHost /\ StatusIsEarned

LEMMA NoBotTyped == NoBot \in BotCommands /\ NoBot.pc = "idle"
  BY DEF NoBot, BotCommands, BotSteps, AnyLabel

LEMMA BotsStart == BotsInit => BotsInv
<1> SUFFICES ASSUME BotsInit PROVE BotsInv
  OBVIOUS
<1>1. DOMAIN bot_hosts = {} /\ DOMAIN bot_runs = {}
  BY DEF BotsInit
<1>2. HostsTyped /\ RunsTyped
  BY <1>1 DEF BotsInit, HostsTyped, RunsTyped
<1>3. bots = [t \in Terminals |-> NoBot]
  BY DEF BotsInit
<1>4. CommandsTyped /\ \A t \in Terminals : bots[t].pc = "idle"
  BY <1>3, NoBotTyped DEF CommandsTyped
<1>5. Attempts /\ OwnRuns
  BY <1>4 DEF Attempts, AttemptOk, KnowsItsHost, KnowsItsRun, KnowsItsResult, OwnRuns, Hosted, Recorded, Resulted
<1> QED BY <1>1, <1>2, <1>4, <1>5 DEF BotsInit, BotsInv, HistoryGoesWithHost, StatusIsEarned

\* rows under ids that were in use stay as they are, but for the run `mine`
OnlyMine(mine) ==
    /\ hostIds <= hostIds' /\ runIds <= runIds' /\ earned \subseteq earned'
    /\ \A h \in DOMAIN bot_hosts' : h <= hostIds => h \in DOMAIN bot_hosts /\ bot_hosts'[h].born = bot_hosts[h].born
    /\ \A r \in DOMAIN bot_runs' : r <= runIds /\ r # mine =>
          r \in DOMAIN bot_runs /\ bot_runs'[r].born = bot_runs[r].born /\ bot_runs'[r].status = bot_runs[r].status
    /\ \A p \in bot_reports' : p.run # mine => p \in bot_reports
    /\ DOMAIN bot_runs' \subseteq DOMAIN bot_runs \cup {runIds + 1}

\* the other commands know as much after it
LEMMA OthersKnow ==
  ASSUME BotsInv, HostsTyped', RunsTyped', NEW mine, OnlyMine(mine), NEW c \in BotCommands, AttemptOk(c),
         Recorded(c) /\ c.run = mine => mine \notin DOMAIN bot_runs'
  PROVE  AttemptOk(c)'
<1>0. hostIds \in Int /\ hostIds' \in Int /\ runIds \in Int /\ runIds' \in Int /\ c.host \in Int /\ c.run \in Int
  BY DEF BotsInv, HostsTyped, RunsTyped, BotCommands
<1>1. KnowsItsHost(c)'
  BY <1>0 DEF AttemptOk, KnowsItsHost, OnlyMine, Hosted
<1>2. KnowsItsResult(c)'
  BY DEF AttemptOk, KnowsItsResult, OnlyMine, Resulted
<1>3. KnowsItsRun(c)'
  <2> SUFFICES ASSUME Recorded(c)
               PROVE  /\ c.run <= runIds'
                      /\ c.run \in DOMAIN bot_runs' =>
                           /\ bot_runs'[c.run].born = c.born
                           /\ IF c.pc \in {"execute", "finish"}
                              THEN bot_runs'[c.run].status = "running" /\ \A p \in bot_reports' : p.run # c.run
                              ELSE bot_runs'[c.run].status \in {"running", c.status}
    BY DEF KnowsItsRun, Recorded, Running
  <2>1. c.run <= runIds /\ c.run <= runIds'
    BY <1>0 DEF AttemptOk, KnowsItsRun, OnlyMine
  <2>2. ASSUME c.run \in DOMAIN bot_runs'
        PROVE  /\ c.run # mine /\ c.run \in DOMAIN bot_runs /\ bot_runs'[c.run].born = bot_runs[c.run].born
               /\ bot_runs'[c.run].status = bot_runs[c.run].status
               /\ \A p \in bot_reports' : p.run = c.run => p \in bot_reports
    BY <2>1, <2>2 DEF OnlyMine
  <2> QED BY <2>1, <2>2 DEF AttemptOk, KnowsItsRun, Running
<1> QED BY <1>1, <1>2, <1>3 DEF AttemptOk

\* a step of the command in t, which is c afterwards, that may change its own run
LEMMA CommandSteps ==
  ASSUME BotsInv, NEW t \in Terminals, NEW c \in BotCommands, bots' = [bots EXCEPT ![t] = c],
         c.pc = "manage" => c.copy \in HostRows,
         HostsTyped', RunsTyped', HistoryGoesWithHost', StatusIsEarned', NEW mine, OnlyMine(mine), AttemptOk(c)',
         \A u \in Terminals : u # t /\ Recorded(bots[u]) /\ bots[u].run = mine => mine \notin DOMAIN bot_runs',
         Recorded(c) => \A u \in Terminals :
             u # t /\ Recorded(bots[u]) /\ bots[u].run = c.run => c.run \notin DOMAIN bot_runs'
  PROVE  BotsInv'
<1>1. bots'[t] = c /\ \A u \in Terminals : u # t => bots'[u] = bots[u]
  BY DEF BotsInv, CommandsTyped
<1>2. CommandsTyped'
  BY <1>1 DEF BotsInv, CommandsTyped
<1>3. ASSUME NEW u \in Terminals PROVE AttemptOk(bots[u])'
  <2>1. CASE u = t
    BY <2>1, <1>1 DEF AttemptOk, KnowsItsHost, KnowsItsRun, KnowsItsResult, Hosted, Recorded, Resulted, Running
  <2>2. CASE u # t
    <3> DEFINE d == bots[u]
    <3>1. d \in BotCommands /\ AttemptOk(d) /\ (Recorded(d) /\ d.run = mine => mine \notin DOMAIN bot_runs') /\ bots'[u] = d
      BY <2>2, <1>1 DEF BotsInv, CommandsTyped, Attempts
    <3> SUFFICES AttemptOk(bots[u])'
      OBVIOUS
    <3>2. \A e \in BotCommands : AttemptOk(e) /\ (Recorded(e) /\ e.run = mine => mine \notin DOMAIN bot_runs') => AttemptOk(e)'
      BY OthersKnow
    <3>3. PICK e \in BotCommands : e = bots'[u] /\ AttemptOk(e)'
      BY <3>1, <3>2
    <3> QED BY <3>3 DEF AttemptOk, KnowsItsHost, KnowsItsRun, KnowsItsResult, Hosted, Recorded, Resulted, Running
  <2> QED BY <2>1, <2>2
<1>4. Attempts'
  BY <1>3 DEF Attempts
<1>5. OwnRuns'
  <2> SUFFICES ASSUME NEW u \in Terminals, NEW v \in Terminals, Recorded(bots'[u]), Recorded(bots'[v]), u # v,
                      bots'[u].run = bots'[v].run, bots'[u].run \in DOMAIN bot_runs'
               PROVE  FALSE
    BY DEF OwnRuns, Running, Recorded
  <2>1. CASE u = t
    BY <2>1, <1>1
  <2>2. CASE v = t
    BY <2>2, <1>1
  <2>3. CASE u # t /\ v # t
    <3>1. bots[u].run \in Int /\ bots[u].run <= runIds /\ runIds \in Int
      BY <2>3, <1>1 DEF BotsInv, CommandsTyped, BotCommands, Attempts, AttemptOk, KnowsItsRun, RunsTyped
    <3>2. bots[u].run \in DOMAIN bot_runs
      BY <3>1, <2>3, <1>1 DEF OnlyMine
    <3> QED BY <3>2, <2>3, <1>1 DEF BotsInv, OwnRuns, Running
  <2> QED BY <2>1, <2>2, <2>3
<1> QED BY <1>2, <1>4, <1>5 DEF BotsInv

\* a command that goes on with the same host, or forgets it, and touches no table
LEMMA CommandMoves ==
  ASSUME BotsInv, NEW t \in Terminals, NEW c \in BotCommands, bots' = [bots EXCEPT ![t] = c],
         c.pc = "manage" => c.copy \in HostRows, ~ Recorded(c), KnowsItsHost(c),
         UNCHANGED <<bot_hosts, bot_runs, bot_reports, hostIds, runIds, born, earned>>
  PROVE  BotsInv'
<1>1. HostsTyped' /\ RunsTyped' /\ HistoryGoesWithHost' /\ StatusIsEarned'
  BY DEF BotsInv, HostsTyped, RunsTyped, HistoryGoesWithHost, StatusIsEarned, Running
<1>2. OnlyMine(-1)
  BY DEF OnlyMine, BotsInv, HostsTyped, RunsTyped
<1>3. AttemptOk(c)'
  BY DEF AttemptOk, KnowsItsHost, KnowsItsRun, KnowsItsResult, Recorded, Resulted, Hosted
<1>4. -1 \notin DOMAIN bot_runs'
  BY DEF BotsInv, RunsTyped
<1> QED BY <1>1, <1>2, <1>3, <1>4, CommandSteps

\* registering a host: its id is new, and every other host stays as it is
LEMMA HostAdded ==
  ASSUME BotsInv, NEW l \in AnyLabel, NEW cfg \in {"spawn", "setup"}, bot_hosts' = NewHost(hostIds + 1, l, cfg),
         hostIds' = hostIds + 1, born' = born + 1
  PROVE  /\ HostsTyped'
         /\ DOMAIN bot_hosts' = DOMAIN bot_hosts \cup {hostIds + 1} /\ hostIds + 1 \notin DOMAIN bot_hosts
         /\ \A h \in DOMAIN bot_hosts : bot_hosts'[h] = bot_hosts[h]
         /\ bot_hosts'[hostIds + 1].born = born + 1 /\ bot_hosts'[hostIds + 1].last_status = "none"
<1> DEFINE row == [label |-> l, config |-> cfg, last_status |-> "none", born |-> born + 1]
           n == hostIds + 1
<1>1. row \in HostRows /\ row.born = born + 1 /\ row.last_status = "none"
  BY DEF BotsInv, HostsTyped, HostRows
<1> HIDE DEF row
<1>2. hostIds \in Nat /\ n \in Nat /\ n \notin DOMAIN bot_hosts
  BY DEF BotsInv, HostsTyped
<1>3. bot_hosts' = [h \in DOMAIN bot_hosts \cup {n} |-> IF h = n THEN row ELSE bot_hosts[h]]
  BY DEF NewHost, WithRow, row
<1> HIDE DEF n
<1>4. DOMAIN bot_hosts' = DOMAIN bot_hosts \cup {n} /\ bot_hosts'[n] = row
      /\ \A h \in DOMAIN bot_hosts : bot_hosts'[h] = bot_hosts[h]
  BY <1>2, <1>3
<1>5. bot_hosts' \in [DOMAIN bot_hosts' -> HostRows]
  BY <1>1, <1>3, <1>4 DEF BotsInv, HostsTyped
<1>6. HostsTyped'
  BY <1>2, <1>4, <1>5 DEF BotsInv, HostsTyped, n
<1> QED BY <1>1, <1>2, <1>4, <1>6 DEF n

\* a command registers a host and goes on without a run of its own
LEMMA Registers ==
  ASSUME BotsInv, NEW t \in Terminals, NEW c \in BotCommands, bots' = [bots EXCEPT ![t] = c],
         NEW l \in AnyLabel, NEW cfg \in {"spawn", "setup"}, bot_hosts' = NewHost(hostIds + 1, l, cfg),
         hostIds' = hostIds + 1, born' = born + 1, ~ Recorded(c), c.pc # "manage",
         Hosted(c) => c.host <= hostIds + 1 /\ (c.host \in DOMAIN bot_hosts' => bot_hosts'[c.host].born = c.born),
         UNCHANGED <<bot_runs, bot_reports, runIds, earned>>
  PROVE  BotsInv'
<1>1. /\ HostsTyped'
      /\ DOMAIN bot_hosts' = DOMAIN bot_hosts \cup {hostIds + 1} /\ hostIds + 1 \notin DOMAIN bot_hosts
      /\ \A h \in DOMAIN bot_hosts : bot_hosts'[h] = bot_hosts[h]
      /\ bot_hosts'[hostIds + 1].last_status = "none"
  BY HostAdded
<1>2. RunsTyped' /\ HistoryGoesWithHost' /\ StatusIsEarned'
  BY <1>1 DEF BotsInv, RunsTyped, HistoryGoesWithHost, StatusIsEarned, Running
<1>3. hostIds \in Nat
  BY DEF BotsInv, HostsTyped
<1>4. OnlyMine(-1)
  BY <1>1, <1>3 DEF OnlyMine, BotsInv, RunsTyped
<1>5. AttemptOk(c)'
  BY DEF AttemptOk, KnowsItsHost, KnowsItsRun, KnowsItsResult, Recorded, Resulted, Hosted
<1>6. -1 \notin DOMAIN bot_runs'
  BY DEF BotsInv, RunsTyped
<1> QED BY <1>1, <1>2, <1>4, <1>5, <1>6, CommandSteps

LEMMA ParsedIsFinal == \A m : parse_report(git_doctor_script(m)) \in Finals
<1>1. \A m : git_doctor_script(m) \in {"critical", "warning", "ok"}
  BY DEF git_doctor_script
<1> QED BY <1>1 DEF parse_report, Finals

\* setting up a label's machine, and what the command does next if that works
LEMMA SetsUp ==
  ASSUME BotsInv, NEW t \in Terminals, NEW l \in AnyLabel, NEW after \in BotCommands, SetUp(t, l, after),
         ~ Recorded(after), after.pc # "manage", KnowsItsHost(after),
         UNCHANGED <<bot_runs, bot_reports, runIds, earned>>
  PROVE  BotsInv'
<1>1. CASE bots' = [bots EXCEPT ![t] = NoBot] /\ UNCHANGED <<bot_hosts, hostIds, born>>
  BY <1>1, NoBotTyped, CommandMoves DEF Hosted, Recorded, KnowsItsHost
<1>2. CASE bots' = [bots EXCEPT ![t] = after] /\ UNCHANGED <<bot_hosts, hostIds, born>>
  BY <1>2, CommandMoves
<1>3. CASE /\ bots' = [bots EXCEPT ![t] = after] /\ bot_hosts' = NewHost(hostIds + 1, l, "setup")
           /\ hostIds' = hostIds + 1 /\ born' = born + 1
  <2>1. DOMAIN bot_hosts' = DOMAIN bot_hosts \cup {hostIds + 1} /\ \A h \in DOMAIN bot_hosts : bot_hosts'[h] = bot_hosts[h]
    BY <1>3, HostAdded
  <2>2. hostIds \in Nat /\ after.host \in Int
    BY DEF BotsInv, HostsTyped, BotCommands
  <2>3. Hosted(after) => /\ after.host <= hostIds + 1
                         /\ after.host \in DOMAIN bot_hosts' => bot_hosts'[after.host].born = after.born
    BY <2>1, <2>2 DEF KnowsItsHost
  <2> QED BY <1>3, <2>3, Registers
<1> QED BY <1>1, <1>2, <1>3 DEF SetUp

LEMMA BotsStep == BotsInv /\ [BotsNext]_botVars => BotsInv'
<1> SUFFICES ASSUME BotsInv, [BotsNext]_botVars PROVE BotsInv'
  OBVIOUS
<1>0. CASE UNCHANGED botVars
  BY <1>0 DEF botVars, BotsInv, HostsTyped, RunsTyped, CommandsTyped, Attempts, AttemptOk, KnowsItsHost, KnowsItsRun,
              KnowsItsResult, OwnRuns, HistoryGoesWithHost, StatusIsEarned, Running
<1>00. ASSUME NEW t \in Terminals, bots' = [bots EXCEPT ![t] = NoBot],
              UNCHANGED <<bot_hosts, bot_runs, bot_reports, hostIds, runIds, born, earned>>
       PROVE  BotsInv'
  BY <1>00, NoBotTyped, CommandMoves DEF Hosted, Recorded, KnowsItsHost
<1>c. \A t \in Terminals : bots[t] \in BotCommands /\ AttemptOk(bots[t])
  BY DEF BotsInv, CommandsTyped, Attempts
<1>n. /\ hostIds \in Nat /\ born \in Nat /\ runIds \in Nat /\ DOMAIN bot_hosts \subseteq 1..hostIds
      /\ DOMAIN bot_runs \subseteq 1..runIds
  BY DEF BotsInv, HostsTyped, RunsTyped
<1>o. \A t, u \in Terminals : Recorded(bots[t]) /\ Recorded(bots[u]) /\ bots[t].run = bots[u].run /\ t # u =>
          bots[t].run \notin DOMAIN bot_runs
  BY DEF BotsInv, OwnRuns, Running
<1>1. ASSUME NEW t \in Terminals, NEW b \in BotNames, NEW l \in HostLabels, cmd_bot_spawn(t, b, l) PROVE BotsInv'
  <2>1. UNCHANGED <<bot_hosts, bot_runs, bot_reports, hostIds, runIds, born, earned>>
    BY <1>1 DEF cmd_bot_spawn
  <2>2. CASE b \notin {"doctor", "git-doctor"}
    BY <1>1, <2>1, <2>2, <1>00 DEF cmd_bot_spawn
  <2>3. CASE b \in {"doctor", "git-doctor"}
    <3> DEFINE q == NoBot
               c == [q EXCEPT !.pc = "lookup", !.bot = b, !.label = l]
    <3>0. q \in BotCommands /\ l \in AnyLabel
      BY NoBotTyped DEF AnyLabel
    <3>2. bots' = [bots EXCEPT ![t] = c]
      BY <1>1, <2>3 DEF cmd_bot_spawn
    <3> HIDE DEF q
    <3>1. c \in BotCommands /\ c.pc = "lookup"
      BY <2>3, <3>0 DEF BotCommands, BotSteps
    <3> HIDE DEF c
    <3> QED BY <2>1, <3>1, <3>2, CommandMoves DEF Hosted, Recorded, KnowsItsHost
  <2> QED BY <2>2, <2>3
<1>2. ASSUME NEW t \in Terminals, get_bot_host_id(t) PROVE BotsInv'
  <2>1. UNCHANGED <<bot_hosts, bot_runs, bot_reports, hostIds, runIds, born, earned>>
    BY <1>2 DEF get_bot_host_id
  <2>2. CASE HostOf(bots[t].label) = {}
    <3> DEFINE c == [bots[t] EXCEPT !.pc = "add"]
    <3>1. c \in BotCommands /\ c.pc = "add"
      BY <1>c DEF BotCommands, BotSteps
    <3>2. bots' = [bots EXCEPT ![t] = c]
      BY <1>2, <2>2 DEF get_bot_host_id
    <3> HIDE DEF c
    <3> QED BY <2>1, <3>1, <3>2, CommandMoves DEF Hosted, Recorded, KnowsItsHost
  <2>3. CASE HostOf(bots[t].label) # {}
    <3>1. PICK h \in DOMAIN bot_hosts :
            bots' = [bots EXCEPT ![t] = [bots[t] EXCEPT !.pc = "begin", !.host = h, !.born = bot_hosts[h].born]]
      <4> DEFINE h == CHOOSE x \in HostOf(bots[t].label) : TRUE
      <4>1. h \in HostOf(bots[t].label)
        BY <2>3
      <4>2. h \in DOMAIN bot_hosts
        BY <4>1 DEF HostOf
      <4>3. bots' = [bots EXCEPT ![t] = [bots[t] EXCEPT !.pc = "begin", !.host = h, !.born = bot_hosts[h].born]]
        BY <1>2, <2>3 DEF get_bot_host_id
      <4> QED BY <4>2, <4>3
    <3>2. h \in 1..hostIds /\ bot_hosts[h].born \in Nat
      BY DEF BotsInv, HostsTyped, HostRows
    <3> DEFINE q == bots[t]
               b == bot_hosts[h].born
               c == [q EXCEPT !.pc = "begin", !.host = h, !.born = b]
    <3>4. bots' = [bots EXCEPT ![t] = c] /\ h <= hostIds /\ h \in Int
      BY <3>1, <3>2 DEF BotsInv, HostsTyped
    <3>5. q \in BotCommands /\ b \in Nat /\ b = bot_hosts[h].born
      BY <1>c, <3>2
    <3> HIDE DEF q, b
    <3>3. c \in BotCommands /\ c.pc = "begin" /\ c.host = h /\ c.born = bot_hosts[h].born
      BY <3>4, <3>5 DEF BotCommands, BotSteps
    <3> HIDE DEF c
    <3> QED BY <2>1, <3>3, <3>4, CommandMoves DEF Hosted, Recorded, KnowsItsHost
  <2> QED BY <2>2, <2>3
<1>3. ASSUME NEW t \in Terminals, add_bot_host(t) PROVE BotsInv'
  <2>0. bots[t].label \in AnyLabel
    BY <1>c DEF BotCommands
  <2> DEFINE q == bots[t]
             n == -1
             refused == [q EXCEPT !.pc = "begin", !.host = n]
             id == hostIds + 1
             b == born + 1
             added == [q EXCEPT !.pc = "begin", !.host = id, !.born = b]
  <2>1. CASE bots' = [bots EXCEPT ![t] = refused] /\ UNCHANGED <<bot_hosts, hostIds, born>>
    <3> DEFINE c == refused
    <3>0. q \in BotCommands /\ n \in Int
      BY <1>c
    <3>2. bots' = [bots EXCEPT ![t] = c] /\ UNCHANGED <<bot_hosts, bot_runs, bot_reports, hostIds, runIds, born, earned>>
      BY <1>3, <2>1 DEF add_bot_host
    <3>3. n <= hostIds /\ n \notin DOMAIN bot_hosts
      BY DEF BotsInv, HostsTyped
    <3> HIDE DEF q, n
    <3>1. c \in BotCommands /\ c.pc = "begin" /\ c.host = n
      BY <3>0 DEF BotCommands, BotSteps
    <3> HIDE DEF c
    <3> QED BY <3>1, <3>2, <3>3, CommandMoves DEF Hosted, Recorded, KnowsItsHost
  <2>2. CASE /\ bot_hosts' = NewHost(id, bots[t].label, "spawn") /\ hostIds' = id /\ born' = b
             /\ bots' = [bots EXCEPT ![t] = added]
    <3> DEFINE c == added
    <3>0. q \in BotCommands /\ id \in Int /\ b \in Nat
      BY <1>c, <1>n
    <3>2. /\ bots' = [bots EXCEPT ![t] = c] /\ bot_hosts' = NewHost(hostIds + 1, bots[t].label, "spawn")
          /\ hostIds' = hostIds + 1 /\ born' = born + 1 /\ UNCHANGED <<bot_runs, bot_reports, runIds, earned>>
      BY <1>3, <2>2 DEF add_bot_host
    <3>3. bot_hosts'[hostIds + 1].born = born + 1
      BY <2>0, <3>2, HostAdded
    <3>i. id = hostIds + 1 /\ b = born + 1
      OBVIOUS
    <3> HIDE DEF q, id, b
    <3>1. c \in BotCommands /\ c.pc = "begin" /\ c.host = id /\ c.born = b
      BY <3>0 DEF BotCommands, BotSteps
    <3> HIDE DEF c
    <3>4. ~ Recorded(c) /\ c.pc # "manage" /\ c.host <= hostIds + 1
      BY <1>n, <3>1, <3>i DEF Recorded
    <3> QED BY <2>0, <3>1, <3>2, <3>3, <3>4, <3>i, Registers
  <2> HIDE DEF refused, added
  <2>3. \/ bots' = [bots EXCEPT ![t] = refused] /\ UNCHANGED <<bot_hosts, hostIds, born>>
        \/ /\ bot_hosts' = NewHost(id, bots[t].label, "spawn") /\ hostIds' = id /\ born' = b
           /\ bots' = [bots EXCEPT ![t] = added]
    BY <1>3 DEF add_bot_host, refused, added
  <2> QED BY <2>1, <2>2, <2>3
<1>4. ASSUME NEW t \in Terminals, begin_bot_run(t) PROVE BotsInv'
  <2> DEFINE q == bots[t]
             row == [host |-> q.host, status |-> "running", born |-> q.born]
             With(n) == [q EXCEPT !.pc = "execute", !.run = n]
  <2>1. UNCHANGED <<bot_hosts, bot_reports, hostIds, born, earned>> /\ Hosted(q) /\ q \in BotCommands /\ AttemptOk(q)
    BY <1>4, <1>c DEF begin_bot_run, Hosted
  <2>2. PICK n \in {runIds + 1, -1} :
           /\ bots' = [bots EXCEPT ![t] = With(n)]
           /\ \/ /\ n = runIds + 1 /\ runIds' = n /\ q.host \in DOMAIN bot_hosts /\ bot_runs' = WithRow(bot_runs, n, row)
              \/ n = -1 /\ UNCHANGED <<bot_runs, runIds>>
    BY <1>4 DEF begin_bot_run
  <2> HIDE DEF q
  <2>3. PICK c \in BotCommands :
           c = With(n) /\ c.pc = "execute" /\ c.run = n /\ c.host = q.host /\ c.born = q.born
    <3> DEFINE next == With(n)
    <3>1. n \in Int
      BY <1>n
    <3>2. /\ next \in BotCommands /\ next.pc = "execute" /\ next.run = n
          /\ next.host = q.host /\ next.born = q.born
      BY <2>1, <3>1 DEF BotCommands, BotSteps
    <3>3. next = With(n)
      OBVIOUS
    <3> HIDE DEF next
    <3> QED BY <3>2, <3>3
  <2>4. KnowsItsHost(c) /\ KnowsItsHost(q) /\ q.host \in Int /\ q.born \in Nat
    BY <2>1, <2>3 DEF AttemptOk, KnowsItsHost, Hosted, BotCommands
  <2>5. /\ bot_runs' = bot_runs /\ n = -1 /\ runIds' = runIds /\ n \notin DOMAIN bot_runs'
        \/ /\ DOMAIN bot_runs' = DOMAIN bot_runs \cup {n} /\ bot_runs'[n] = row /\ n = runIds + 1 /\ runIds' = n
           /\ \A r \in DOMAIN bot_runs : bot_runs'[r] = bot_runs[r]
           /\ q.host \in DOMAIN bot_hosts
    BY <2>2, <1>n DEF WithRow
  <2>6. row \in RunRows /\ row.host = q.host /\ row.status = "running" /\ row.born = q.born
    BY <2>4 DEF RunRows
  <2> HIDE DEF row
  <2>7. HostsTyped' /\ RunsTyped'
    <3>1. bot_runs' \in [DOMAIN bot_runs' -> RunRows]
      BY <2>2, <2>6 DEF BotsInv, RunsTyped, WithRow
    <3> QED BY <2>1, <2>5, <3>1, <1>n DEF BotsInv, HostsTyped, RunsTyped
  <2>8. OnlyMine(n)
    BY <2>1, <2>5, <1>n DEF OnlyMine
  <2>9. \A p \in bot_reports : p.run # n
    BY <2>5, <1>n DEF BotsInv, HistoryGoesWithHost, Running
  <2>10. AttemptOk(c)'
    <3>1. KnowsItsHost(c)'
      BY <2>1, <2>4 DEF KnowsItsHost, Hosted
    <3>2. KnowsItsRun(c)'
      BY <2>1, <2>3, <2>5, <2>6, <2>9, <1>n DEF KnowsItsRun, Running, Recorded
    <3>3. KnowsItsResult(c)'
      BY <2>3 DEF KnowsItsResult, Resulted
    <3> QED BY <3>1, <3>2, <3>3 DEF AttemptOk
  <2>11. HistoryGoesWithHost'
    <3>1. \A r \in DOMAIN bot_runs' :
             bot_runs'[r].host \in DOMAIN bot_hosts /\ bot_hosts[bot_runs'[r].host].born = bot_runs'[r].born
      BY <2>1, <2>4, <2>5, <2>6 DEF BotsInv, HistoryGoesWithHost, KnowsItsHost
    <3>2. \A p \in bot_reports : p.run \in DOMAIN bot_runs' /\ bot_runs'[p.run].status \in {p.status, "running"}
      BY <2>5 DEF BotsInv, HistoryGoesWithHost, Running
    <3> QED BY <2>1, <3>1, <3>2 DEF HistoryGoesWithHost, Running
  <2>12. StatusIsEarned'
    BY <2>1, <2>5, <2>6 DEF BotsInv, StatusIsEarned
  <2>13. \A u \in Terminals : Recorded(bots[u]) /\ bots[u].run = n => n \notin DOMAIN bot_runs'
    <3>1. \A u \in Terminals : Recorded(bots[u]) => bots[u].run <= runIds
      BY <1>c DEF AttemptOk, KnowsItsRun
    <3> QED BY <3>1, <2>5, <1>n
  <2> HIDE DEF With
  <2>14. bots' = [bots EXCEPT ![t] = c] /\ c.pc # "manage"
    BY <2>2, <2>3
  <2> QED BY <2>3, <2>7, <2>8, <2>10, <2>11, <2>12, <2>13, <2>14, CommandSteps
<1>5. ASSUME NEW t \in Terminals, execute_bot(t) PROVE BotsInv'
  <2>1. UNCHANGED <<bot_hosts, bot_runs, bot_reports, hostIds, runIds, born>> /\ bots[t].pc = "execute"
    BY <1>5 DEF execute_bot
  <2> DEFINE q == bots[t]
             Ran(status, report) == [q EXCEPT !.pc = "finish", !.status = status, !.report = report]
             Result(status, report, refused) ==
               [Ran(status, report) EXCEPT !.refused = refused, !.bot = "none", !.retried = FALSE]
  <2>2. PICK status \in Finals, report \in BOOLEAN, refused \in BOOLEAN :
            bots' = [bots EXCEPT ![t] = Result(status, report, refused)] /\ earned' = earned \cup {<<q.born, status>>}
    <3>0. ASSUME NEW output, NEW exit, BotOutcome(t, output, exit), exit = 0 => parse_report(output) \in Finals
          PROVE  \E status \in Finals, report \in BOOLEAN, refused \in BOOLEAN :
                    bots' = [bots EXCEPT ![t] = Result(status, report, refused)] /\ earned' = earned \cup {<<q.born, status>>}
      <4> DEFINE status == IF exit = 0 THEN parse_report(output) ELSE "error"
                 report == exit = 0 /\ output # ""
                 refused == exit = 255 /\ bots[t].bot = "doctor" /\ ~bots[t].retried
      <4>1. bots' = [bots EXCEPT ![t] = Result(status, report, refused)] /\ earned' = earned \cup {<<q.born, status>>}
        BY <3>0, Zenon DEF BotOutcome
      <4>2. status \in Finals
        BY <3>0 DEF Finals
      <4>3. report \in BOOLEAN /\ refused \in BOOLEAN
        OBVIOUS
      <4> HIDE DEF status, report, refused, Result
      <4> QED BY <4>1, <4>2, <4>3
    <3>1. parse_report("") \in Finals
      BY DEF parse_report, Finals
    <3>2. CASE BotOutcome(t, "", 255) \/ BotOutcome(t, "", 0) \/ BotOutcome(t, "", 1)
      BY <3>0, <3>1, <3>2
    <3>3. CASE \E m \in MachineStates : BotOutcome(t, git_doctor_script(m), 0)
      BY <3>0, <3>3, ParsedIsFinal
    <3> QED BY <1>5, <3>2, <3>3 DEF execute_bot
  <2> DEFINE d == Ran(status, report)
             next == [d EXCEPT !.refused = refused, !.bot = "none", !.retried = FALSE]
  <2>3. q \in BotCommands /\ AttemptOk(q) /\ q.pc = "execute"
    BY <1>c, <2>1
  <2>4. bots' = [bots EXCEPT ![t] = next] /\ earned' = earned \cup {<<q.born, status>>}
    BY <2>2
  <2>o. \A u \in Terminals : u # t /\ Recorded(bots[u]) /\ bots[u].run = q.run => q.run \notin DOMAIN bot_runs
    BY <2>1, <1>o DEF Recorded
  <2> HIDE DEF q
  <2>5. PICK c \in BotCommands :
           /\ c = next /\ c.pc = "finish" /\ c.status = status
           /\ c.host = q.host /\ c.run = q.run /\ c.born = q.born
    <3>1. d \in BotCommands /\ d.pc = "finish" /\ d.status = status /\ d.host = q.host /\ d.run = q.run /\ d.born = q.born
      BY <2>3 DEF BotCommands, BotSteps
    <3> HIDE DEF d
    <3>2. /\ next \in BotCommands /\ next.pc = "finish" /\ next.status = status
          /\ next.host = q.host /\ next.run = q.run /\ next.born = q.born
      BY <3>1 DEF BotCommands
    <3> HIDE DEF next
    <3> QED BY <3>2
  <2> HIDE DEF next, d
  <2>6. HostsTyped' /\ RunsTyped' /\ HistoryGoesWithHost' /\ StatusIsEarned'
    BY <2>1, <2>4 DEF BotsInv, HostsTyped, RunsTyped, HistoryGoesWithHost, StatusIsEarned, Running
  <2>7. OnlyMine(-1) /\ -1 \notin DOMAIN bot_runs'
    BY <2>1, <2>4, <1>n DEF OnlyMine
  <2>8. AttemptOk(c)'
    <3>1. KnowsItsHost(c)'
      BY <2>1, <2>3, <2>5 DEF AttemptOk, KnowsItsHost, Hosted
    <3>2. KnowsItsRun(c)'
      BY <2>1, <2>3, <2>5 DEF AttemptOk, KnowsItsRun, Running, Recorded
    <3>3. KnowsItsResult(c)'
      BY <2>4, <2>5 DEF KnowsItsResult, Resulted
    <3> QED BY <3>1, <3>2, <3>3 DEF AttemptOk
  <2> QED BY <2>1, <2>4, <2>5, <2>6, <2>7, <2>8, <2>o, CommandSteps
<1>6. ASSUME NEW t \in Terminals, finish_bot_run(t) PROVE BotsInv'
  <2> DEFINE q == bots[t]
             next == [q EXCEPT !.pc = "report"]
             row == [bot_runs[q.run] EXCEPT !.status = q.status]
  <2>1. bots' = [bots EXCEPT ![t] = next] /\ q.pc = "finish" /\ q \in BotCommands /\ q = bots[t] /\ AttemptOk(q)
    BY <1>6, <1>c DEF finish_bot_run
  <2>u. UNCHANGED <<bot_hosts, bot_reports, hostIds, runIds, born, earned>>
    BY <1>6 DEF finish_bot_run
  <2>2. bot_runs' = bot_runs \/ (Running(q.run) /\ bot_runs' = [bot_runs EXCEPT ![q.run] = row])
    BY <1>6 DEF finish_bot_run, Running
  <2>o. \A u \in Terminals : u # t /\ Recorded(bots[u]) /\ bots[u].run = q.run => q.run \notin DOMAIN bot_runs
    BY <2>1, <1>o DEF Recorded
  <2> HIDE DEF q
  <2>3. PICK c \in BotCommands :
           /\ c = next /\ c.pc = "report" /\ c.host = q.host /\ c.run = q.run
           /\ c.born = q.born /\ c.status = q.status
    <3>1. /\ next \in BotCommands /\ next.pc = "report" /\ next.host = q.host /\ next.run = q.run
          /\ next.born = q.born /\ next.status = q.status
      BY <2>1 DEF BotCommands, BotSteps
    <3> HIDE DEF next
    <3> QED BY <3>1
  <2> HIDE DEF next
  <2>4. /\ q.status \in Finals /\ <<q.born, q.status>> \in earned /\ q.run <= runIds
        /\ Running(q.run) => /\ bot_runs[q.run].born = q.born /\ bot_runs[q.run].status = "running"
                             /\ \A p \in bot_reports : p.run # q.run
    BY <2>1 DEF AttemptOk, KnowsItsResult, KnowsItsRun, Resulted, Recorded
  <2>5. Running(q.run) => /\ row \in RunRows /\ row.status = q.status /\ row.host = bot_runs[q.run].host
                          /\ row.born = bot_runs[q.run].born
    BY <2>4 DEF BotsInv, RunsTyped, Running, RunRows
  <2> HIDE DEF row
  <2>6. /\ DOMAIN bot_runs' = DOMAIN bot_runs /\ bot_runs' \in [DOMAIN bot_runs -> RunRows]
        /\ \A r \in DOMAIN bot_runs :
              /\ bot_runs'[r].host = bot_runs[r].host /\ bot_runs'[r].born = bot_runs[r].born
              /\ bot_runs'[r].status = bot_runs[r].status \/ (r = q.run /\ bot_runs'[r].status = q.status)
    BY <2>2, <2>5 DEF BotsInv, RunsTyped, Running
  <2>7. HostsTyped' /\ RunsTyped'
    BY <2>u, <2>6 DEF BotsInv, HostsTyped, RunsTyped
  <2>8. HistoryGoesWithHost'
    <3>1. \A p \in bot_reports : p.run \in DOMAIN bot_runs' /\ bot_runs'[p.run].status \in {p.status, "running"}
      BY <2>4, <2>6 DEF BotsInv, HistoryGoesWithHost, Running
    <3>2. \A r \in DOMAIN bot_runs' :
             bot_runs'[r].host \in DOMAIN bot_hosts /\ bot_hosts[bot_runs'[r].host].born = bot_runs'[r].born
      BY <2>6 DEF BotsInv, HistoryGoesWithHost
    <3> QED BY <2>u, <3>1, <3>2 DEF HistoryGoesWithHost, Running
  <2>9. StatusIsEarned'
    BY <2>u, <2>4, <2>6 DEF BotsInv, StatusIsEarned, Running
  <2>10. OnlyMine(q.run)
    BY <2>u, <2>6, <1>n DEF OnlyMine
  <2>11. AttemptOk(c)'
    <3>1. KnowsItsHost(c)'
      BY <2>u, <2>1, <2>3 DEF AttemptOk, KnowsItsHost, Hosted
    <3>2. KnowsItsRun(c)'
      BY <2>u, <2>3, <2>4, <2>6 DEF KnowsItsRun, Running, Recorded
    <3>3. KnowsItsResult(c)'
      BY <2>u, <2>3, <2>4 DEF KnowsItsResult, Resulted
    <3> QED BY <3>1, <3>2, <3>3 DEF AttemptOk
  <2>12. bots' = [bots EXCEPT ![t] = c] /\ c.pc # "manage"
    BY <2>1, <2>3
  <2>13. \A u \in Terminals : u # t /\ Recorded(bots[u]) /\ bots[u].run = q.run => q.run \notin DOMAIN bot_runs'
    BY <2>o, <2>6
  <2>14. c.run = q.run
    BY <2>3
  <2> QED BY <2>7, <2>8, <2>9, <2>10, <2>11, <2>12, <2>13, <2>14, CommandSteps
<1>7. ASSUME NEW t \in Terminals, add_bot_report(t) PROVE BotsInv'
  <2> DEFINE q == bots[t]
             next == [q EXCEPT !.pc = "status", !.run = 0, !.report = FALSE]
             report == [run |-> q.run, status |-> q.status]
  <2>1. bots' = [bots EXCEPT ![t] = next] /\ q.pc = "report" /\ q \in BotCommands /\ q = bots[t] /\ AttemptOk(q)
    BY <1>7, <1>c DEF add_bot_report
  <2>u. UNCHANGED <<bot_hosts, bot_runs, hostIds, runIds, born, earned>>
    BY <1>7 DEF add_bot_report
  <2>2. bot_reports' = bot_reports \/ (Running(q.run) /\ bot_reports' = bot_reports \cup {report})
    BY <1>7 DEF add_bot_report
  <2>o. \A u \in Terminals : u # t /\ Recorded(bots[u]) /\ bots[u].run = q.run => q.run \notin DOMAIN bot_runs
    BY <2>1, <1>o DEF Recorded
  <2> HIDE DEF q
  <2>3. PICK c \in BotCommands :
           /\ c = next /\ c.pc = "status" /\ c.host = q.host /\ c.run = 0
           /\ c.born = q.born /\ c.status = q.status
    <3>1. /\ next.pc = "status" /\ next.host = q.host /\ next.run = 0
          /\ next.born = q.born /\ next.status = q.status
      BY <2>1 DEF BotCommands
    <3>2. next \in BotCommands
      <4> DEFINE moved == [q EXCEPT !.pc = "status"]
                 freed == [moved EXCEPT !.run = 0]
      <4>1. moved \in BotCommands
        BY <2>1 DEF BotCommands, BotSteps
      <4>2. next = [freed EXCEPT !.report = FALSE]
        OBVIOUS
      <4> HIDE DEF moved
      <4>3. freed \in BotCommands
        BY <4>1 DEF BotCommands
      <4> HIDE DEF freed, next
      <4> QED BY <4>2, <4>3 DEF BotCommands
    <3> HIDE DEF next
    <3> QED BY <3>1, <3>2
  <2> HIDE DEF next
  <2>0. runIds \in Nat /\ 0 \notin DOMAIN bot_runs
    BY DEF BotsInv, RunsTyped
  <2>4. /\ q.status \in Finals /\ <<q.born, q.status>> \in earned /\ q.run <= runIds /\ q.run \in Int
        /\ Running(q.run) => bot_runs[q.run].born = q.born /\ bot_runs[q.run].status \in {"running", q.status}
    BY <2>1 DEF AttemptOk, KnowsItsResult, KnowsItsRun, Resulted, Recorded, BotCommands
  <2>5. HostsTyped' /\ RunsTyped'
    BY <2>u, <2>2, <2>4 DEF BotsInv, HostsTyped, RunsTyped
  <2>6. HistoryGoesWithHost'
    <3>1. \A p \in bot_reports' : p.run \in DOMAIN bot_runs /\ bot_runs[p.run].status \in {p.status, "running"}
      BY <2>2, <2>4 DEF BotsInv, HistoryGoesWithHost, Running
    <3> QED BY <2>u, <3>1 DEF BotsInv, HistoryGoesWithHost, Running
  <2>7. StatusIsEarned'
    BY <2>u DEF BotsInv, StatusIsEarned
  <2>8. OnlyMine(q.run)
    BY <2>u, <2>2, <1>n DEF OnlyMine
  <2>9. AttemptOk(c)'
    <3>1. KnowsItsHost(c)'
      BY <2>u, <2>1, <2>3 DEF AttemptOk, KnowsItsHost, Hosted
    <3>2. KnowsItsRun(c)'
      BY <2>u, <2>3, <2>0 DEF KnowsItsRun, Running, Recorded
    <3>3. KnowsItsResult(c)'
      BY <2>u, <2>3, <2>4 DEF KnowsItsResult, Resulted
    <3> QED BY <3>1, <3>2, <3>3 DEF AttemptOk
  <2> QED BY <2>u, <2>0, <2>1, <2>3, <2>5, <2>6, <2>7, <2>8, <2>9, <2>o, CommandSteps
<1>8. ASSUME NEW t \in Terminals, update_bot_host_status(t) PROVE BotsInv'
  <2> DEFINE q == bots[t]
             offer == [q EXCEPT !.pc = "offer"]
             row == [bot_hosts[q.host] EXCEPT !.last_status = q.status]
             Here == q.host \in DOMAIN bot_hosts
  <2>1. q.pc = "status" /\ q \in BotCommands /\ q = bots[t] /\ AttemptOk(q)
    BY <1>8, <1>c DEF update_bot_host_status, StoresStatus
  <2>2. PICK c \in {offer, NoBot} : bots' = [bots EXCEPT ![t] = c]
    BY <1>8 DEF update_bot_host_status, StoresStatus
  <2>3. bot_hosts' = bot_hosts \/ (Here /\ bot_hosts' = [bot_hosts EXCEPT ![q.host] = row])
    BY <1>8 DEF update_bot_host_status, StoresStatus
  <2>u. UNCHANGED <<bot_runs, bot_reports, hostIds, runIds, born, earned>>
    BY <1>8 DEF update_bot_host_status, StoresStatus
  <2> HIDE DEF q
  <2>4. c \in BotCommands /\ (c.pc = "idle" \/ (c.pc = "offer" /\ c.host = q.host /\ c.born = q.born))
    BY <2>1, <2>2, NoBotTyped DEF BotCommands, BotSteps
  <2> HIDE DEF offer
  <2>5. /\ q.status \in Finals /\ <<q.born, q.status>> \in earned /\ q.host <= hostIds
        /\ Here => bot_hosts[q.host].born = q.born
    BY <2>1 DEF AttemptOk, KnowsItsResult, KnowsItsHost, Resulted, Hosted
  <2>6. Here => /\ row \in HostRows /\ row.last_status = q.status /\ row.born = bot_hosts[q.host].born
    BY <2>5 DEF BotsInv, HostsTyped, HostRows
  <2> HIDE DEF row
  <2>7. /\ DOMAIN bot_hosts' = DOMAIN bot_hosts /\ bot_hosts' \in [DOMAIN bot_hosts -> HostRows]
        /\ \A h \in DOMAIN bot_hosts :
             /\ bot_hosts'[h].born = bot_hosts[h].born
             /\ bot_hosts'[h].last_status = bot_hosts[h].last_status \/ (h = q.host /\ bot_hosts'[h].last_status = q.status)
    BY <2>3, <2>6 DEF BotsInv, HostsTyped
  <2>8. HostsTyped' /\ RunsTyped'
    BY <2>u, <2>7 DEF BotsInv, HostsTyped, RunsTyped
  <2>9. HistoryGoesWithHost' /\ StatusIsEarned'
    BY <2>u, <2>5, <2>7 DEF BotsInv, HistoryGoesWithHost, StatusIsEarned, Running
  <2>10. OnlyMine(-1) /\ -1 \notin DOMAIN bot_runs'
    BY <2>u, <2>7, <1>n DEF OnlyMine
  <2>11. ~ Recorded(c) /\ c.pc # "manage" /\ AttemptOk(c)'
    BY <2>u, <2>4, <2>5, <2>7 DEF AttemptOk, KnowsItsHost, KnowsItsRun, KnowsItsResult, Recorded, Resulted, Hosted
  <2> QED BY <2>2, <2>4, <2>8, <2>9, <2>10, <2>11, CommandSteps
<1>9. ASSUME NEW t \in Terminals, NEW l \in HostLabels, cmd_bot_setup(t, l) PROVE BotsInv'
  <2>1. SetUp(t, l, NoBot) /\ UNCHANGED <<bot_runs, bot_reports, runIds, earned>> /\ l \in AnyLabel
    BY <1>9 DEF cmd_bot_setup, AnyLabel
  <2> QED BY <2>1, NoBotTyped, SetsUp DEF Hosted, Recorded, KnowsItsHost
<1>10. ASSUME NEW t \in Terminals, OfferSetup(t) PROVE BotsInv'
  <2>1. CASE bots' = [bots EXCEPT ![t] = NoBot] /\ UNCHANGED <<bot_hosts, hostIds, born>>
    BY <1>10, <2>1, <1>00 DEF OfferSetup
  <2>2. CASE SetUp(t, bots[t].label, [bots[t] EXCEPT !.pc = "begin", !.bot = "doctor", !.retried = TRUE])
    <3> DEFINE c == [bots[t] EXCEPT !.pc = "begin", !.bot = "doctor", !.retried = TRUE]
    <3>1. c \in BotCommands /\ c.pc = "begin" /\ c.host = bots[t].host /\ c.born = bots[t].born /\ bots[t].label \in AnyLabel
      BY <1>c DEF BotCommands, BotSteps
    <3> HIDE DEF c
    <3>2. bots[t].pc = "offer" /\ AttemptOk(bots[t])
      BY <1>10, <1>c DEF OfferSetup
    <3>3. UNCHANGED <<bot_runs, bot_reports, runIds, earned>> /\ SetUp(t, bots[t].label, c)
      BY <1>10, <2>2 DEF OfferSetup, c
    <3>4. ~ Recorded(c) /\ c.pc # "manage" /\ KnowsItsHost(c)
      BY <3>1, <3>2 DEF Recorded, AttemptOk, KnowsItsHost, Hosted
    <3> QED BY <3>1, <3>3, <3>4, SetsUp
  <2> QED BY <1>10, <2>1, <2>2 DEF OfferSetup
<1>11. ASSUME NEW t \in Terminals, cmd_bot_manage(t) PROVE BotsInv'
  <2>1. PICK h \in DOMAIN bot_hosts :
          bots' = [bots EXCEPT ![t] = [NoBot EXCEPT !.pc = "manage", !.host = h, !.copy = bot_hosts[h]]]
    BY <1>11 DEF cmd_bot_manage
  <2> DEFINE q == NoBot
             row == bot_hosts[h]
             c == [q EXCEPT !.pc = "manage", !.host = h, !.copy = row]
  <2>2. h \in Int /\ row \in HostRows /\ q \in BotCommands
    BY NoBotTyped DEF BotsInv, HostsTyped
  <2>4. bots' = [bots EXCEPT ![t] = c] /\ UNCHANGED <<bot_hosts, bot_runs, bot_reports, hostIds, runIds, born, earned>>
    BY <1>11, <2>1 DEF cmd_bot_manage
  <2> HIDE DEF q, row
  <2>3. c \in BotCommands /\ c.pc = "manage" /\ c.copy \in HostRows
    BY <2>2 DEF BotCommands, BotSteps
  <2> HIDE DEF c
  <2> QED BY <2>3, <2>4, CommandMoves DEF Hosted, Recorded, KnowsItsHost
<1>12. ASSUME NEW t \in Terminals, update_bot_host(t) PROVE BotsInv'
  <2> DEFINE q == bots[t]
  <2>1. q.pc = "manage" /\ q \in BotCommands /\ q = bots[t] /\ q.copy \in HostRows
    BY <1>12, <1>c DEF update_bot_host, BotsInv, CommandsTyped
  <2>u. UNCHANGED <<bot_runs, bot_reports, hostIds, runIds, born, earned>>
    BY <1>12 DEF update_bot_host
  <2>2. PICK new \in {[q.copy EXCEPT !.label = l] : l \in HostLabels} \cup {[q.copy EXCEPT !.config = "edited"]} :
          /\ bots' = [bots EXCEPT ![t] = [q EXCEPT !.copy = new]]
          /\ bot_hosts' = IF q.host \in DOMAIN bot_hosts
                          THEN [bot_hosts EXCEPT ![q.host] = [bot_hosts[q.host] EXCEPT !.label = new.label, !.config = new.config]]
                          ELSE bot_hosts
    BY <1>12 DEF update_bot_host
  <2>3. new \in HostRows
    BY <2>1 DEF HostRows, AnyLabel
  <2> DEFINE next == [q EXCEPT !.copy = new]
             l == new.label
             cfg == new.config
             old == bot_hosts[q.host]
             row == [old EXCEPT !.label = l, !.config = cfg]
             Here == q.host \in DOMAIN bot_hosts
  <2>4. bots' = [bots EXCEPT ![t] = next] /\ bot_hosts' = IF Here THEN [bot_hosts EXCEPT ![q.host] = row] ELSE bot_hosts
    BY <2>2
  <2>5. l \in AnyLabel /\ cfg \in {"spawn", "setup", "edited"}
    BY <2>3 DEF HostRows
  <2>o. (Here => old \in HostRows) /\ old = bot_hosts[q.host]
    BY DEF BotsInv, HostsTyped
  <2> HIDE DEF q, l, cfg, old
  <2>6. PICK c \in BotCommands : c = next /\ c.pc = "manage" /\ c.copy \in HostRows
    <3>1. next \in BotCommands /\ next.pc = "manage" /\ next.copy \in HostRows
      BY <2>1, <2>3 DEF BotCommands
    <3> HIDE DEF next
    <3> QED BY <3>1
  <2> HIDE DEF next
  <2>7. Here => row \in HostRows /\ row.last_status = old.last_status /\ row.born = old.born
    BY <2>5, <2>o DEF HostRows
  <2> HIDE DEF row
  <2>8. /\ DOMAIN bot_hosts' = DOMAIN bot_hosts /\ bot_hosts' \in [DOMAIN bot_hosts -> HostRows]
        /\ \A h \in DOMAIN bot_hosts :
             bot_hosts'[h].born = bot_hosts[h].born /\ bot_hosts'[h].last_status = bot_hosts[h].last_status
    BY <2>4, <2>7, <2>o DEF BotsInv, HostsTyped
  <2>9. HostsTyped' /\ RunsTyped'
    BY <2>u, <2>8 DEF BotsInv, HostsTyped, RunsTyped
  <2>10. HistoryGoesWithHost' /\ StatusIsEarned'
    BY <2>u, <2>8 DEF BotsInv, HistoryGoesWithHost, StatusIsEarned, Running
  <2>11. OnlyMine(-1) /\ -1 \notin DOMAIN bot_runs'
    BY <2>u, <2>8, <1>n DEF OnlyMine
  <2>12. ~ Recorded(c) /\ AttemptOk(c)'
    BY <2>6 DEF AttemptOk, KnowsItsHost, KnowsItsRun, KnowsItsResult, Recorded, Resulted, Hosted
  <2> QED BY <2>4, <2>6, <2>9, <2>10, <2>11, <2>12, CommandSteps
<1>13. ASSUME NEW t \in Terminals, delete_bot_host(t) PROVE BotsInv'
  <2> DEFINE k == bots[t].host
             gone == {r \in DOMAIN bot_runs : bot_runs[r].host = k}
  <2>1. /\ bot_hosts' = [h \in DOMAIN bot_hosts \ {k} |-> bot_hosts[h]]
        /\ bot_runs' = [r \in DOMAIN bot_runs \ gone |-> bot_runs[r]]
        /\ bot_reports' = {p \in bot_reports : p.run \notin gone}
        /\ bots' = [bots EXCEPT ![t] = NoBot]
    BY <1>13 DEF delete_bot_host
  <2>u. UNCHANGED <<hostIds, runIds, born, earned>>
    BY <1>13 DEF delete_bot_host
  <2> HIDE DEF k
  <2>2. /\ DOMAIN bot_hosts' = DOMAIN bot_hosts \ {k}
        /\ \A h \in DOMAIN bot_hosts' : bot_hosts'[h] = bot_hosts[h]
        /\ bot_hosts' \in [DOMAIN bot_hosts' -> HostRows]
    BY <2>1 DEF BotsInv, HostsTyped
  <2>3. /\ \A r \in DOMAIN bot_runs : r \in DOMAIN bot_runs' <=> bot_runs[r].host # k
        /\ DOMAIN bot_runs' \subseteq DOMAIN bot_runs
        /\ \A r \in DOMAIN bot_runs' : bot_runs'[r] = bot_runs[r]
        /\ bot_runs' \in [DOMAIN bot_runs' -> RunRows]
    BY <2>1 DEF BotsInv, RunsTyped
  <2>4. HostsTyped' /\ RunsTyped'
    BY <2>u, <2>1, <2>2, <2>3 DEF BotsInv, HostsTyped, RunsTyped
  <2>5. OnlyMine(-1) /\ -1 \notin DOMAIN bot_runs'
    BY <2>u, <2>1, <2>2, <2>3, <1>n DEF OnlyMine
  <2>6. HistoryGoesWithHost'
    <3>1. \A r \in DOMAIN bot_runs' : /\ bot_runs'[r].host \in DOMAIN bot_hosts'
                                      /\ bot_hosts'[bot_runs'[r].host].born = bot_runs'[r].born
      BY <2>2, <2>3 DEF BotsInv, HistoryGoesWithHost
    <3>2. \A p \in bot_reports' : p.run \in DOMAIN bot_runs' /\ bot_runs'[p.run].status \in {p.status, "running"}
      BY <2>1, <2>3 DEF BotsInv, HistoryGoesWithHost, Running
    <3> QED BY <3>1, <3>2 DEF HistoryGoesWithHost, Running
  <2>7. StatusIsEarned'
    BY <2>u, <2>2, <2>3 DEF BotsInv, StatusIsEarned
  <2>8. ~ Recorded(NoBot) /\ AttemptOk(NoBot)'
    BY NoBotTyped DEF AttemptOk, KnowsItsHost, KnowsItsRun, KnowsItsResult, Recorded, Resulted, Hosted
  <2> QED BY <2>1, <2>4, <2>5, <2>6, <2>7, <2>8, NoBotTyped, CommandSteps
<1>14. ASSUME NEW t \in Terminals, Quit(t) PROVE BotsInv'
  BY <1>14, <1>00 DEF Quit
<1> QED
  BY <1>0, <1>1, <1>2, <1>3, <1>4, <1>5, <1>6, <1>7, <1>8, <1>9, <1>10, <1>11, <1>12, <1>13, <1>14 DEF BotsNext

LEMMA BotsAlways == BotsSpec => []BotsInv
  BY BotsStart, BotsStep, PTL DEF BotsSpec

(* Bots: for any number of terminals, hosts and runs, what is stored of a    *)
(* host's runs goes with the host and is never another host's, although      *)
(* `bot manage` may delete the host between any two statements of a spawn    *)
(* and each of these may be refused (begin_bot_run, finish_bot_run,          *)
(* add_bot_report, delete_bot_host, AUTOINCREMENT).                          *)
THEOREM BotHistoryGoesWithHost == BotsSpec => []HistoryGoesWithHost
<1>1. BotsInv => HistoryGoesWithHost
  BY DEF BotsInv
<1> QED BY <1>1, BotsAlways, PTL

(* Bots: the status `bot hosts` shows for a host, and that of each of its    *)
(* finished runs, is a result of a bot meant for this host, whichever of the *)
(* statements about a run are refused (begin_bot_run, finish_bot_run,        *)
(* update_bot_host_status).                                                  *)
THEOREM BotStatusIsEarned == BotsSpec => []StatusIsEarned
<1>1. BotsInv => StatusIsEarned
  BY DEF BotsInv
<1> QED BY <1>1, BotsAlways, PTL

----------------------------------------------------------------------------
(* nazg git server                                                          *)

Tokens == {"", "good", "garbled"}
Kinds == {s.type : s \in Settings}
Cfgs == [type : Kinds, host : Boxes, token : Tokens]
ServerRows == [cfg : Cfgs, hash : Kinds \X Boxes, status : {"not_installed", "installed", "online", "offline"},
               installed : BOOLEAN]

\* a row is hashed as what it says
FineRow(r) == r \in ServerRows /\ r.hash = compute_config_hash(r.cfg)
FineOrNone(r) == r = NoServer \/ FineRow(r)

Registered ==
    /\ toml \in [Labels -> Settings \cup {NoServer}]
    /\ DOMAIN gitRows = Labels /\ \A l \in Labels : FineOrNone(gitRows[l])

\* where the installation of a server is after each of its phases
CgitLeft == {"rc", "mv", "mark", "state"}
AfterRepodir == {"web"} \cup CgitLeft
AfterAccount == {"key", "repodir"} \cup AfterRepodir
AfterFcgiwrap == {"account"} \cup AfterAccount
AfterPackages == {"fcgiwrap"} \cup AfterFcgiwrap
CgitPhases == {"ssh", "packages"} \cup AfterPackages

GiteaLeft == {"token", "store", "mark", "state"}
AfterMigrate == {"start"} \cup GiteaLeft
AfterUnit == {"migrate"} \cup AfterMigrate
AfterIni == {"unit"} \cup AfterUnit
AfterUser == {"ini"} \cup AfterIni
AfterBinary == {"account"} \cup AfterUser
GiteaPhases == {"ssh", "binary"} \cup AfterBinary

Transfers == {"rsync", "get", "create", "remote", "seturl", "push"}

\* the steps of each command
OnPath(a) ==
    \/ a.cmd = "none" /\ a.pc = "idle"
    \/ a.cmd = "add" /\ a.pc \in {"add", "upsert", "probe"}
    \/ a.cmd = "status" /\ a.pc \in {"offer", "accepted", "sync", "probe", "mark", "state"}
    \/ /\ a.cmd = "install"
       /\ \/ a.pc \in {"add", "upsert", "confirm", "failed"}
          \/ a.cfg.type = "cgit" /\ a.pc \in CgitPhases
          \/ a.cfg.type = "gitea" /\ a.pc \in GiteaPhases
    \/ a.cmd = "sync" /\ a.pc \in {"confirm", "repo", "rc", "mv", "state"} \cup Transfers

\* what a command holds
Holds(a) ==
    /\ DOMAIN a = {"pc", "cmd", "label", "section", "cfg", "old", "chosen", "left", "repo", "ok", "found", "astray"}
    /\ a.pc # "idle" => a.label \in Labels /\ a.cfg \in Cfgs
    /\ a.pc \in {"accepted", "sync"} => a.section \in Settings
    /\ a.pc = "offer" => a.section \in Settings \cup {NoServer}
    /\ FineOrNone(a.old)
    /\ a.chosen \in SUBSET Bares /\ a.left \in SUBSET Bares /\ a.ok \in BOOLEAN
    /\ a.found \in SUBSET (Bares \cup {"installed"})
    /\ a.pc = "mv" => a.found \in SUBSET Bares
    /\ a.pc \in Transfers => a.repo \in Bares

\* each phase of an installation found the marks of those before it
Climbed(a, machines) ==
    LET has == machines[a.cfg.host].has IN
    /\ a.cmd = "install" /\ a.cfg.type = "cgit" =>
          /\ a.pc \in AfterPackages => "packages" \in has
          /\ a.pc \in AfterFcgiwrap => "fcgiwrap" \in has
          /\ a.pc \in AfterAccount => {"user", "dotssh"} \subseteq has
          /\ a.pc \in AfterRepodir => "repodir" \in has
          /\ a.pc \in CgitLeft => "web" \in has
    /\ a.cmd = "install" /\ a.cfg.type = "gitea" =>
          /\ a.pc \in AfterBinary => "binary" \in has
          /\ a.pc \in AfterUser => "user" \in has
          /\ a.pc \in AfterIni => {"confdir", "ini"} \subseteq has
          /\ a.pc \in AfterUnit => "unit" \in has
          /\ a.pc \in AfterMigrate => {"home", "db"} \subseteq has
          /\ a.pc \in GiteaLeft => "started" \in has

\* the gitea of some machine has it
Somewhere(b, machines) == \E h \in Boxes : b \in machines[h].pushed \cap machines[h].forge

\* a sync that is fine so far has brought what it is done with: to its machine, or astray
Arrived(a, machines) ==
    a.cmd = "sync" /\ a.ok =>
        \A b \in a.chosen \ a.left :
            b \in machines[a.cfg.host].pushed \/ (b \in a.astray /\ Somewhere(b, machines))

Sound(a, machines) == OnPath(a) /\ Holds(a) /\ Climbed(a, machines) /\ Arrived(a, machines)

\* a push that is not astray goes to the machine of its command
RemoteKnown ==
    /\ remote \in [Bares -> Boxes \cup {NoServer}]
    /\ \A a \in Admins : At(a, "push") /\ admin[a].repo \notin admin[a].astray => remote[admin[a].repo] = Host(a)

GitInv ==
    /\ Registered /\ RemoteKnown
    /\ box \in [Boxes -> Machines]
    /\ DOMAIN admin = Admins /\ \A a \in Admins : Sound(admin[a], box)

\* what a step may do to the machines: nothing that was reached is taken away
Grown(machines, later) ==
    \A h \in Boxes : /\ machines[h].has \subseteq later[h].has
                     /\ machines[h].pushed \subseteq later[h].pushed
                     /\ machines[h].forge \subseteq later[h].forge

LEMMA SoundStays ==
  ASSUME box \in [Boxes -> Machines], box' \in [Boxes -> Machines], Grown(box, box'), NEW c, Sound(c, box)
  PROVE  Sound(c, box')
<1>1. CASE c.pc = "idle"
  <2>1. c.cmd = "none"
    BY <1>1, Zenon DEF Sound, OnPath, CgitPhases, GiteaPhases, AfterPackages, AfterFcgiwrap, AfterAccount,
       AfterRepodir, CgitLeft, AfterBinary, AfterUser, AfterIni, AfterUnit, AfterMigrate, GiteaLeft, Transfers
  <2> QED BY <2>1 DEF Sound, Climbed, Arrived
<1>2. CASE c.pc # "idle"
  <2>1. c.cfg.host \in Boxes
    BY <1>2 DEF Sound, Holds, Cfgs
  <2>2. box[c.cfg.host].has \subseteq box'[c.cfg.host].has /\ box[c.cfg.host].pushed \subseteq box'[c.cfg.host].pushed
    BY <2>1 DEF Grown
  <2>3. Climbed(c, box')
    BY <2>2 DEF Sound, Climbed
  <2>4. \A b : Somewhere(b, box) => Somewhere(b, box')
    BY DEF Somewhere, Grown
  <2>5. Arrived(c, box')
    BY <2>2, <2>4 DEF Sound, Arrived
  <2> QED BY <2>3, <2>5 DEF Sound
<1> QED BY <1>1, <1>2

\* a step of one command
LEMMA AdminMoves ==
  ASSUME GitInv, Registered', box' \in [Boxes -> Machines], Grown(box, box'), UNCHANGED remote,
         NEW a \in Admins, NEW c, admin' = [admin EXCEPT ![a] = c], c.pc # "push", Sound(c, box')
  PROVE  GitInv'
<1>1. DOMAIN admin' = Admins /\ admin'[a] = c /\ \A b \in Admins : b # a => admin'[b] = admin[b]
  BY DEF GitInv
<1>2. \A b \in Admins : b # a => Sound(admin'[b], box')
  <2> SUFFICES ASSUME NEW b \in Admins, b # a PROVE Sound(admin'[b], box')
    OBVIOUS
  <2>1. Sound(admin[b], box)
    BY DEF GitInv
  <2>2. Sound(admin[b], box')
    BY <2>1, SoundStays DEF GitInv
  <2> QED BY <2>2, <1>1
<1>3. \A b \in Admins : Sound(admin'[b], box')
  BY <1>1, <1>2
<1>4. RemoteKnown'
  BY <1>1 DEF GitInv, RemoteKnown, At, Host
<1> QED BY <1>1, <1>3, <1>4 DEF GitInv

\* the machines are left alone
LEMMA AdminThinks ==
  ASSUME GitInv, Registered', UNCHANGED <<box, remote>>,
         NEW a \in Admins, NEW c, admin' = [admin EXCEPT ![a] = c], c.pc # "push", Sound(c, box)
  PROVE  GitInv'
<1>1. Grown(box, box') /\ box' \in [Boxes -> Machines]
  BY DEF GitInv, Grown
<1>2. Sound(c, box')
  BY DEF GitInv
<1> QED BY <1>1, <1>2, AdminMoves

\* the commands are left alone
LEMMA OthersMove ==
  ASSUME GitInv, Registered', box' \in [Boxes -> Machines], Grown(box, box'), UNCHANGED <<admin, remote>>
  PROVE  GitInv'
<1>1. \A b \in Admins : Sound(admin'[b], box')
  <2> SUFFICES ASSUME NEW b \in Admins PROVE Sound(admin[b], box')
    OBVIOUS
  <2>1. Sound(admin[b], box)
    BY DEF GitInv
  <2> QED BY <2>1, SoundStays DEF GitInv
<1>2. RemoteKnown'
  BY DEF GitInv, RemoteKnown, At, Host
<1> QED BY <1>1, <1>2 DEF GitInv

LEMMA IdleIsSound ==
  ASSUME NEW machines
  PROVE  Sound(Idle, machines) /\ Idle.pc = "idle"
<1>1. OnPath(Idle)
  BY DEF OnPath, Idle
<1>2. Holds(Idle)
  BY DEF Holds, Idle, Transfers, FineOrNone
<1>3. Climbed(Idle, machines) /\ Arrived(Idle, machines)
  BY DEF Climbed, Arrived, Idle
<1> QED BY <1>1, <1>2, <1>3 DEF Sound, Idle

LEMMA GitStart == GitInit => GitInv
<1> SUFFICES ASSUME GitInit PROVE GitInv
  OBVIOUS
<1>1. Registered
  BY DEF GitInit, Registered, FineOrNone
<1>2. box \in [Boxes -> Machines]
  BY GitServersAssumption DEF GitInit
<1>3. DOMAIN admin = Admins /\ \A a \in Admins : admin[a] = Idle
  BY DEF GitInit
<1>4. RemoteKnown
  BY <1>3, IdleIsSound DEF GitInit, RemoteKnown, At
<1> QED BY <1>1, <1>2, <1>3, <1>4, IdleIsSound DEF GitInv

----------------------------------------------------------------------------
(* the registry                                                             *)

LEMMA SettingsAreCfgs == Settings \subseteq Cfgs
  BY GitServersAssumption DEF Cfgs, Kinds, Tokens

LEMMA EntryIsFine ==
  ASSUME NEW l \in Labels, NEW section \in Settings \cup {NoServer}, FineOrNone(gitRows[l]),
         get_server(l, section) # NoServer
  PROVE  get_server(l, section).cfg \in Cfgs
<1> DEFINE r == gitRows[l]
<1>1. CASE section = NoServer /\ r = NoServer
  BY <1>1 DEF get_server, load_from_config, load_from_database
<1>2. CASE section # NoServer /\ r = NoServer
  <2>1. get_server(l, section) = [cfg |-> section, changed |-> FALSE]
    BY <1>2 DEF get_server, load_from_config, load_from_database
  <2> QED BY <2>1, <1>2, SettingsAreCfgs
<1>3. CASE section = NoServer /\ r # NoServer
  <2>1. get_server(l, section) = [cfg |-> r.cfg, changed |-> FALSE]
    BY <1>3 DEF get_server, load_from_config, load_from_database
  <2> QED BY <2>1, <1>3 DEF FineOrNone, FineRow, ServerRows
<1>4. CASE section # NoServer /\ r # NoServer
  <2>1. get_server(l, section).cfg = [section EXCEPT !.token = IF section.token = "" THEN r.cfg.token ELSE section.token]
    BY <1>4 DEF get_server, load_from_config, load_from_database
  <2>2. section \in Cfgs
    BY <1>4, SettingsAreCfgs
  <2>3. r.cfg.token \in Tokens
    BY <1>4 DEF FineOrNone, FineRow, ServerRows, Cfgs
  <2> QED BY <2>1, <2>2, <2>3 DEF Cfgs
<1> QED BY <1>1, <1>2, <1>3, <1>4

LEMMA RecordIsFine ==
  ASSUME NEW cfg \in Cfgs, NEW old, FineOrNone(old)
  PROVE  FineRow(Record(cfg, old)) /\ Record(cfg, old).cfg.token \in Tokens
<1> DEFINE merged == IF old # NoServer /\ cfg.token = "" THEN [cfg EXCEPT !.token = old.cfg.token] ELSE cfg
           status == IF old = NoServer THEN "not_installed" ELSE old.status
           installed == old # NoServer /\ old.installed
<1>1. merged \in Cfgs /\ merged.type = cfg.type /\ merged.host = cfg.host
  BY DEF FineOrNone, FineRow, ServerRows, Cfgs
<1>2. status \in {"not_installed", "installed", "online", "offline"}
  BY DEF FineOrNone, FineRow, ServerRows
<1>3. installed \in BOOLEAN
  OBVIOUS
<1>4. compute_config_hash(cfg) \in Kinds \X Boxes /\ compute_config_hash(merged) = compute_config_hash(cfg)
  BY <1>1 DEF Cfgs, compute_config_hash
<1>5. Record(cfg, old) = [cfg |-> merged, hash |-> compute_config_hash(cfg), status |-> status, installed |-> installed]
  BY DEF Record
<1> HIDE DEF merged, status, installed
<1>6. Record(cfg, old) \in ServerRows
  BY <1>1, <1>2, <1>3, <1>4, <1>5 DEF ServerRows
<1> QED BY <1>1, <1>4, <1>5, <1>6 DEF FineRow, Cfgs

LEMMA RowsStayFine ==
  ASSUME Registered, NEW l \in Labels, NEW new, FineOrNone(new), gitRows' = [gitRows EXCEPT ![l] = new], UNCHANGED toml
  PROVE  Registered'
  BY DEF Registered

LEMMA RowsStay ==
  ASSUME Registered, UNCHANGED <<toml, gitRows>>
  PROVE  Registered'
  BY DEF Registered

\* the UPDATE statements
LEMMA UpdatesAreFine ==
  ASSUME Registered, NEW l \in Labels, NEW new, UNCHANGED toml, UpdateRow(l, new), gitRows[l] # NoServer => FineRow(new)
  PROVE  Registered'
<1>1. gitRows' = [gitRows EXCEPT ![l] = IF gitRows[l] = NoServer THEN NoServer ELSE new]
  BY DEF UpdateRow, Registered
<1> DEFINE then == IF gitRows[l] = NoServer THEN NoServer ELSE new
<1>2. FineOrNone(then)
  BY DEF FineOrNone
<1> HIDE DEF then
<1> QED BY <1>1, <1>2, RowsStayFine DEF then

\* the stages of an installation are what they list, from here on
USE DEF CgitPhases, AfterPackages, AfterFcgiwrap, AfterAccount, AfterRepodir, CgitLeft,
        GiteaPhases, AfterBinary, AfterUser, AfterIni, AfterUnit, AfterMigrate, GiteaLeft, Transfers

----------------------------------------------------------------------------
(* a command that goes on                                                   *)

\* where it may go with what it holds
LEMMA GoesOn ==
  ASSUME NEW q, NEW machines, NEW pc, Sound(q, machines), q.pc # "idle",
         pc \notin {"idle", "offer", "accepted", "sync", "mv"} \cup Transfers,
         NEW c, c = [q EXCEPT !.pc = pc], OnPath(c), Climbed(c, machines)
  PROVE  Sound(c, machines) /\ c.pc # "push"
<1>1. /\ DOMAIN c = DOMAIN q /\ c.pc = pc /\ c.cmd = q.cmd /\ c.label = q.label /\ c.section = q.section /\ c.cfg = q.cfg
      /\ c.old = q.old /\ c.chosen = q.chosen /\ c.left = q.left /\ c.repo = q.repo /\ c.ok = q.ok
      /\ c.found = q.found /\ c.astray = q.astray
  BY DEF Sound, Holds
<1>2. Holds(c)
  BY <1>1 DEF Sound, Holds
<1>3. Arrived(c, machines)
  BY <1>1 DEF Sound, Arrived
<1> QED BY <1>1, <1>2, <1>3 DEF Sound

LEMMA Finishes ==
  ASSUME GitInv, Registered', UNCHANGED <<box, remote>>, NEW a \in Admins, Finish(a)
  PROVE  GitInv'
  BY IdleIsSound, AdminThinks DEF Finish

LEMMA Going ==
  ASSUME GitInv, NEW a \in Admins, NEW pc, Goto(a, pc)
  PROVE  admin' = [admin EXCEPT ![a] = [admin[a] EXCEPT !.pc = pc]]
  BY DEF Goto, GitInv

----------------------------------------------------------------------------
(* the steps before and after the remote work                               *)

LEMMA StepBegin ==
  ASSUME GitInv, NEW a \in Admins, NEW l \in Labels, NEW cfg \in Cfgs,
         NEW cmd, NEW pc, Begin(a, cmd, l, cfg, pc),
         <<cmd, pc>> \in {<<"add", "add">>, <<"status", "offer">>, <<"status", "probe">>, <<"install", "add">>,
                          <<"sync", "confirm">>}
  PROVE  GitInv'
<1> DEFINE section == IF pc = "offer" THEN toml[l] ELSE NoServer
           c == [pc |-> pc, cmd |-> cmd, label |-> l, section |-> section, cfg |-> cfg, old |-> NoServer,
                 chosen |-> {}, left |-> {}, repo |-> NoServer, ok |-> TRUE, found |-> {}, astray |-> {}]
<1> DEFINE start == [Idle EXCEPT !.pc = pc, !.cmd = cmd, !.label = l, !.section = section, !.cfg = cfg]
<1>0. start = c
  <2>1. DOMAIN start = DOMAIN c
    BY DEF Idle
  <2>2. /\ start.pc = pc /\ start.cmd = cmd /\ start.label = l /\ start.section = section /\ start.cfg = cfg
        /\ start.old = NoServer /\ start.chosen = {} /\ start.left = {} /\ start.repo = NoServer /\ start.ok = TRUE
        /\ start.found = {} /\ start.astray = {}
    BY DEF Idle
  <2>3. start = [f \in DOMAIN start |-> start[f]]
    BY DEF Idle
  <2> HIDE DEF start, section
  <2> QED BY <2>1, <2>2, <2>3
<1>1. admin' = [admin EXCEPT ![a] = c]
  <2>1. admin' = [admin EXCEPT ![a] = start]
    BY DEF Begin
  <2> QED BY <1>0, <2>1
<1>2. section \in Settings \cup {NoServer}
  BY DEF GitInv, Registered
<1>3. Registered' /\ UNCHANGED <<box, remote>>
  BY RowsStay DEF Begin, GitInv
<1> HIDE DEF section
<1>4. OnPath(c)
  BY DEF OnPath
<1>5. Holds(c)
  BY <1>2 DEF Holds, FineOrNone
<1>6. Climbed(c, box)
  BY DEF Climbed
<1>7. Arrived(c, box)
  BY DEF Arrived
<1>8. c.pc # "push"
  OBVIOUS
<1> HIDE DEF c
<1> QED BY <1>1, <1>3, <1>4, <1>5, <1>6, <1>7, <1>8, AdminThinks DEF Sound

LEMMA StepStart ==
  ASSUME GitInv, NEW a \in Admins, NEW l \in Labels,
         cmd_git_server_add(a, l) \/ cmd_git_server_status(a, l) \/ cmd_git_server_install(a, l) \/ cmd_git_server_sync(a, l)
  PROVE  GitInv'
<1> DEFINE e == get_server(l, toml[l])
<1>1. e # NoServer => e.cfg \in Cfgs
  BY EntryIsFine DEF GitInv, Registered
<1> HIDE DEF e
<1>2. CASE cmd_git_server_add(a, l)
  <2>1. CASE e # NoServer /\ Begin(a, "add", l, e.cfg, "add")
    BY <2>1, <1>1, StepBegin
  <2>2. ASSUME NEW s \in Settings, Begin(a, "add", l, s, "add") PROVE GitInv'
    BY <2>2, SettingsAreCfgs, StepBegin
  <2> QED BY <1>2, <2>1, <2>2 DEF cmd_git_server_add, e
<1>3. CASE cmd_git_server_status(a, l)
  <2>1. e # NoServer /\ (Begin(a, "status", l, e.cfg, "offer") \/ Begin(a, "status", l, e.cfg, "probe"))
    BY <1>3 DEF cmd_git_server_status, e
  <2> QED BY <2>1, <1>1, StepBegin
<1>4. CASE cmd_git_server_install(a, l)
  <2>1. e # NoServer /\ Begin(a, "install", l, e.cfg, "add")
    BY <1>4 DEF cmd_git_server_install, e
  <2> QED BY <2>1, <1>1, StepBegin
<1>5. CASE cmd_git_server_sync(a, l)
  <2>1. e # NoServer /\ Begin(a, "sync", l, e.cfg, "confirm")
    BY <1>5 DEF cmd_git_server_sync, e
  <2> QED BY <2>1, <1>1, StepBegin
<1> QED BY <1>2, <1>3, <1>4, <1>5

LEMMA StepAddReads ==
  ASSUME GitInv, NEW a \in Admins, AddReads(a)
  PROVE  GitInv'
<1> DEFINE q == admin[a]
           c == [q EXCEPT !.pc = "upsert", !.old = gitRows[q.label]]
<1>1. Sound(q, box) /\ q.pc = "add"
  BY DEF GitInv, AddReads, At
<1>2. admin' = [admin EXCEPT ![a] = c]
  BY DEF AddReads, GitInv
<1>3. Registered' /\ UNCHANGED <<box, remote>>
  BY RowsStay DEF AddReads, GitInv
<1>4. FineOrNone(gitRows[q.label])
  BY <1>1 DEF Sound, Holds, GitInv, Registered
<1> HIDE DEF q
<1>5. /\ DOMAIN c = DOMAIN q /\ c.pc = "upsert" /\ c.cmd = q.cmd /\ c.label = q.label /\ c.section = q.section /\ c.cfg = q.cfg
      /\ c.old = gitRows[q.label] /\ c.chosen = q.chosen /\ c.left = q.left /\ c.repo = q.repo /\ c.ok = q.ok
      /\ c.found = q.found /\ c.astray = q.astray
  BY <1>1 DEF Sound, Holds
<1> HIDE DEF c
<1>6. OnPath(c)
  BY <1>1, <1>5 DEF Sound, OnPath
<1>7. Holds(c)
  BY <1>1, <1>4, <1>5 DEF Sound, Holds
<1>8. Climbed(c, box)
  BY <1>5 DEF Climbed
<1>9. Arrived(c, box)
  BY <1>1, <1>5 DEF Sound, Arrived
<1> QED BY <1>2, <1>3, <1>5, <1>6, <1>7, <1>8, <1>9, AdminThinks DEF Sound

LEMMA StepUpsert ==
  ASSUME GitInv, NEW a \in Admins, registry_add_server(a)
  PROVE  GitInv'
<1> DEFINE q == admin[a]
           next == IF q.cmd = "add" THEN "probe" ELSE "confirm"
           c == [q EXCEPT !.pc = next, !.old = NoServer]
           new == Record(q.cfg, q.old)
<1>1. Sound(q, box) /\ q.pc = "upsert"
  BY DEF GitInv, registry_add_server, At
<1>2. admin' = [admin EXCEPT ![a] = c]
  BY DEF registry_add_server, GitInv
<1>3. FineRow(new)
  BY <1>1, RecordIsFine DEF Sound, Holds
<1>4. gitRows' = [gitRows EXCEPT ![q.label] = new] /\ UNCHANGED <<toml, box, remote>>
  BY DEF registry_add_server, upsert_git_server
<1>5. q.label \in Labels
  BY <1>1 DEF Sound, Holds
<1> HIDE DEF q, new
<1>6. Registered'
  BY <1>3, <1>4, <1>5, RowsStayFine DEF GitInv, FineOrNone
<1>7. next \in {"probe", "confirm"}
  OBVIOUS
<1>8. /\ DOMAIN c = DOMAIN q /\ c.pc = next /\ c.cmd = q.cmd /\ c.label = q.label /\ c.section = q.section /\ c.cfg = q.cfg
      /\ c.old = NoServer /\ c.chosen = q.chosen /\ c.left = q.left /\ c.repo = q.repo /\ c.ok = q.ok
      /\ c.found = q.found /\ c.astray = q.astray
  BY <1>1 DEF Sound, Holds
<1> HIDE DEF c
<1>9. q.cmd \in {"add", "install"}
  BY <1>1 DEF Sound, OnPath
<1>10. OnPath(c)
  BY <1>8, <1>9 DEF OnPath
<1>11. Holds(c)
  BY <1>1, <1>7, <1>8 DEF Sound, Holds, FineOrNone
<1>12. Climbed(c, box)
  BY <1>7, <1>8 DEF Climbed
<1>13. Arrived(c, box)
  BY <1>1, <1>8 DEF Sound, Arrived
<1> QED BY <1>2, <1>4, <1>6, <1>7, <1>8, <1>10, <1>11, <1>12, <1>13, AdminThinks DEF Sound

LEMMA StepOffer ==
  ASSUME GitInv, NEW a \in Admins, OfferSync(a)
  PROVE  GitInv'
<1> DEFINE q == admin[a]
           e == get_server(q.label, q.section)
<1>1. Sound(q, box) /\ q.pc = "offer"
  BY DEF GitInv, OfferSync, At
<1>2. q.cmd = "status" /\ q.section \in Settings \cup {NoServer} /\ q.label \in Labels
  BY <1>1 DEF Sound, OnPath, Holds
<1>3. Registered' /\ UNCHANGED <<box, remote>>
  BY RowsStay DEF OfferSync, GitInv
<1>4. CASE e # NoServer /\ e.changed /\ Goto(a, "accepted")
  <2> DEFINE c == [q EXCEPT !.pc = "accepted"]
  <2>1. admin' = [admin EXCEPT ![a] = c]
    BY <1>4, Going
  <2>2. q.section \in Settings
    <3>1. SUFFICES ASSUME q.section = NoServer PROVE FALSE
      BY <1>2
    <3>2. CASE gitRows[q.label] = NoServer
      BY <1>4, <3>1, <3>2 DEF get_server, load_from_config, load_from_database
    <3>3. CASE gitRows[q.label] # NoServer
      <4>1. e = [cfg |-> gitRows[q.label].cfg, changed |-> FALSE]
        BY <3>1, <3>3 DEF get_server, load_from_config, load_from_database
      <4> QED BY <1>4, <4>1
    <3> QED BY <3>2, <3>3
  <2> HIDE DEF q, e
  <2>3. /\ DOMAIN c = DOMAIN q /\ c.pc = "accepted" /\ c.cmd = q.cmd /\ c.label = q.label /\ c.section = q.section
        /\ c.cfg = q.cfg /\ c.old = q.old /\ c.chosen = q.chosen /\ c.left = q.left /\ c.repo = q.repo /\ c.ok = q.ok
        /\ c.found = q.found /\ c.astray = q.astray
    BY <1>1 DEF Sound, Holds
  <2> HIDE DEF c
  <2>4. OnPath(c)
    BY <1>2, <2>3 DEF OnPath
  <2>5. Holds(c)
    BY <1>1, <2>2, <2>3 DEF Sound, Holds
  <2>6. Climbed(c, box) /\ Arrived(c, box)
    BY <1>2, <2>3 DEF Climbed, Arrived
  <2> QED BY <1>3, <2>1, <2>3, <2>4, <2>5, <2>6, AdminThinks DEF Sound
<1>5. CASE admin' = [admin EXCEPT ![a].pc = "probe", ![a].section = NoServer]
  <2> DEFINE c == [q EXCEPT !.pc = "probe", !.section = NoServer]
  <2>1. admin' = [admin EXCEPT ![a] = c]
    BY <1>5 DEF GitInv
  <2> HIDE DEF q, e
  <2>3. /\ DOMAIN c = DOMAIN q /\ c.pc = "probe" /\ c.cmd = q.cmd /\ c.label = q.label /\ c.section = NoServer
        /\ c.cfg = q.cfg /\ c.old = q.old /\ c.chosen = q.chosen /\ c.left = q.left /\ c.repo = q.repo /\ c.ok = q.ok
        /\ c.found = q.found /\ c.astray = q.astray
    BY <1>1 DEF Sound, Holds
  <2> HIDE DEF c
  <2>4. OnPath(c)
    BY <1>2, <2>3 DEF OnPath
  <2>5. Holds(c)
    BY <1>1, <2>3 DEF Sound, Holds
  <2>6. Climbed(c, box) /\ Arrived(c, box)
    BY <1>2, <2>3 DEF Climbed, Arrived
  <2> QED BY <1>3, <2>1, <2>3, <2>4, <2>5, <2>6, AdminThinks DEF Sound
<1> QED BY <1>4, <1>5 DEF OfferSync

LEMMA StepSyncReads ==
  ASSUME GitInv, NEW a \in Admins, SyncReads(a)
  PROVE  GitInv'
<1> DEFINE q == admin[a]
           c == [q EXCEPT !.pc = "sync", !.old = gitRows[q.label]]
<1>1. Sound(q, box) /\ q.pc = "accepted"
  BY DEF GitInv, SyncReads, At
<1>2. q.cmd = "status"
  BY <1>1 DEF Sound, OnPath
<1>3. admin' = [admin EXCEPT ![a] = c]
  BY DEF SyncReads, GitInv
<1>4. Registered' /\ UNCHANGED <<box, remote>>
  BY RowsStay DEF SyncReads, GitInv
<1>5. FineOrNone(gitRows[q.label])
  BY <1>1 DEF Sound, Holds, GitInv, Registered
<1> HIDE DEF q
<1>6. /\ DOMAIN c = DOMAIN q /\ c.pc = "sync" /\ c.cmd = q.cmd /\ c.label = q.label /\ c.section = q.section /\ c.cfg = q.cfg
      /\ c.old = gitRows[q.label] /\ c.chosen = q.chosen /\ c.left = q.left /\ c.repo = q.repo /\ c.ok = q.ok
      /\ c.found = q.found /\ c.astray = q.astray
  BY <1>1 DEF Sound, Holds
<1> HIDE DEF c
<1>7. OnPath(c)
  BY <1>2, <1>6 DEF OnPath
<1>8. Holds(c)
  BY <1>1, <1>5, <1>6 DEF Sound, Holds
<1>9. Climbed(c, box) /\ Arrived(c, box)
  BY <1>2, <1>6 DEF Climbed, Arrived
<1> QED BY <1>3, <1>4, <1>6, <1>7, <1>8, <1>9, AdminThinks DEF Sound

LEMMA StepSyncConfig ==
  ASSUME GitInv, NEW a \in Admins, sync_config_to_database(a)
  PROVE  GitInv'
<1> DEFINE q == admin[a]
           plain == [q.section EXCEPT !.token = ""]
           new == Record(plain, q.old)
           token == IF q.section.token = "" THEN new.cfg.token ELSE q.cfg.token
           cfg == [q.cfg EXCEPT !.token = token]
           c == [q EXCEPT !.pc = "probe", !.section = NoServer, !.old = NoServer, !.cfg = cfg]
<1>1. Sound(q, box) /\ q.pc = "sync"
  BY DEF GitInv, sync_config_to_database, At
<1>2. q.cmd = "status"
  BY <1>1 DEF Sound, OnPath
<1>3. admin' = [admin EXCEPT ![a] = c]
  BY DEF sync_config_to_database, GitInv
<1>4. gitRows' = [gitRows EXCEPT ![q.label] = new] /\ UNCHANGED <<toml, box, remote>>
  BY DEF sync_config_to_database, upsert_git_server
<1>5. q.section \in Settings /\ q.label \in Labels /\ q.cfg \in Cfgs /\ FineOrNone(q.old)
  BY <1>1 DEF Sound, Holds
<1> HIDE DEF q
<1>6. plain \in Cfgs
  BY <1>5, SettingsAreCfgs DEF Cfgs, Tokens
<1> HIDE DEF plain
<1>7. FineRow(new) /\ new.cfg.token \in Tokens
  BY <1>5, <1>6, RecordIsFine
<1> HIDE DEF new
<1>8. Registered'
  BY <1>4, <1>5, <1>7, RowsStayFine DEF GitInv, FineOrNone
<1>9. cfg \in Cfgs
  BY <1>5, <1>7 DEF Cfgs
<1> HIDE DEF token, cfg
<1>10. /\ DOMAIN c = DOMAIN q /\ c.pc = "probe" /\ c.cmd = q.cmd /\ c.label = q.label /\ c.section = NoServer
       /\ c.cfg = cfg /\ c.old = NoServer /\ c.chosen = q.chosen /\ c.left = q.left /\ c.repo = q.repo /\ c.ok = q.ok
       /\ c.found = q.found /\ c.astray = q.astray
  BY <1>1 DEF Sound, Holds
<1> HIDE DEF c
<1>11. OnPath(c)
  BY <1>2, <1>10 DEF OnPath
<1>12. Holds(c)
  BY <1>1, <1>9, <1>10 DEF Sound, Holds, FineOrNone
<1>13. Climbed(c, box) /\ Arrived(c, box)
  BY <1>2, <1>10 DEF Climbed, Arrived
<1> QED BY <1>3, <1>4, <1>8, <1>10, <1>11, <1>12, <1>13, AdminThinks DEF Sound

LEMMA StepConfirm ==
  ASSUME GitInv, NEW a \in Admins, confirm(a)
  PROVE  GitInv'
<1> DEFINE q == admin[a]
<1>1. Sound(q, box) /\ q.pc = "confirm"
  BY DEF GitInv, confirm, At
<1>2. q.cmd \in {"install", "sync"}
  BY <1>1 DEF Sound, OnPath
<1>3. Registered' /\ UNCHANGED <<box, remote>>
  BY RowsStay DEF confirm, GitInv
<1>4. CASE Finish(a)
  BY <1>3, <1>4, Finishes
<1>5. CASE q.cmd = "install" /\ Goto(a, "failed")
  <2> DEFINE c == [q EXCEPT !.pc = "failed"]
  <2>1. admin' = [admin EXCEPT ![a] = c]
    BY <1>5, Going
  <2> HIDE DEF q
  <2>2. c.cmd = "install" /\ c.pc = "failed"
    BY <1>1, <1>5 DEF Sound, Holds
  <2>3. OnPath(c) /\ Climbed(c, box)
    BY <2>2 DEF OnPath, Climbed
  <2>4. Sound(c, box) /\ c.pc # "push"
    BY <1>1, <2>3, GoesOn
  <2> QED BY <1>3, <2>1, <2>4, AdminThinks
<1>6. CASE q.cmd = "install" /\ q.cfg.type \in {"cgit", "gitea"} /\ Goto(a, "ssh")
  <2> DEFINE c == [q EXCEPT !.pc = "ssh"]
  <2>1. admin' = [admin EXCEPT ![a] = c]
    BY <1>6, Going
  <2> HIDE DEF q
  <2>2. c.cmd = "install" /\ c.pc = "ssh" /\ c.cfg = q.cfg
    BY <1>1, <1>6 DEF Sound, Holds
  <2>3. OnPath(c) /\ Climbed(c, box)
    BY <1>6, <2>2 DEF OnPath, Climbed
  <2>4. Sound(c, box) /\ c.pc # "push"
    BY <1>1, <2>3, GoesOn
  <2> QED BY <1>3, <2>1, <2>4, AdminThinks
<1>7. ASSUME NEW some \in SUBSET Bares, q.cmd = "sync",
             admin' = [admin EXCEPT ![a].pc = "repo", ![a].chosen = some, ![a].left = some]
      PROVE  GitInv'
  <2> DEFINE c == [q EXCEPT !.pc = "repo", !.chosen = some, !.left = some]
  <2>1. admin' = [admin EXCEPT ![a] = c]
    BY <1>7 DEF GitInv
  <2> HIDE DEF q
  <2>2. /\ DOMAIN c = DOMAIN q /\ c.pc = "repo" /\ c.cmd = q.cmd /\ c.label = q.label /\ c.section = q.section
        /\ c.cfg = q.cfg /\ c.old = q.old /\ c.chosen = some /\ c.left = some /\ c.repo = q.repo /\ c.ok = q.ok
        /\ c.found = q.found /\ c.astray = q.astray
    BY <1>1 DEF Sound, Holds
  <2> HIDE DEF c
  <2>3. OnPath(c)
    BY <1>7, <2>2 DEF OnPath
  <2>4. Holds(c)
    BY <1>1, <2>2 DEF Sound, Holds
  <2>5. Climbed(c, box)
    BY <1>7, <2>2 DEF Climbed
  <2>6. Arrived(c, box)
    BY <2>2 DEF Arrived
  <2> QED BY <1>3, <2>1, <2>2, <2>3, <2>4, <2>5, <2>6, AdminThinks DEF Sound
<1> QED BY <1>4, <1>5, <1>6, <1>7, Zenon DEF confirm, Type

LEMMA StepProbe ==
  ASSUME GitInv, NEW a \in Admins, Probe(a)
  PROVE  GitInv'
<1> DEFINE q == admin[a]
<1>1. Sound(q, box) /\ q.pc = "probe"
  BY DEF GitInv, Probe, At
<1>2. Registered' /\ UNCHANGED <<box, remote>>
  BY RowsStay DEF Probe, GitInv
<1>3. CASE Finish(a)
  BY <1>2, <1>3, Finishes
<1>4. CASE ~Finish(a)
  <2> DEFINE s == get_status(a)
             pc == IF s.installed THEN "mark" ELSE "state"
             found == IF s.installed THEN {"installed"} ELSE {}
             c == [q EXCEPT !.pc = pc, !.ok = s.reachable, !.found = found]
  <2>1. admin' = [admin EXCEPT ![a] = c] /\ q.cmd # "add"
    BY <1>4 DEF Probe, GitInv
  <2>2. q.cmd = "status"
    BY <1>1, <2>1 DEF Sound, OnPath
  <2>3. s.reachable \in BOOLEAN
    <3>1. box[Host(a)].up \in BOOLEAN
      BY <1>1 DEF Sound, Holds, Cfgs, Host, GitInv, Machines
    <3> QED BY <3>1 DEF get_status, cgit_get_status, gitea_get_status
  <2> HIDE DEF q, s
  <2>4. pc \in {"mark", "state"} /\ found \in SUBSET (Bares \cup {"installed"})
    OBVIOUS
  <2> HIDE DEF pc, found
  <2>5. /\ DOMAIN c = DOMAIN q /\ c.pc = pc /\ c.cmd = q.cmd /\ c.label = q.label /\ c.section = q.section
        /\ c.cfg = q.cfg /\ c.old = q.old /\ c.chosen = q.chosen /\ c.left = q.left /\ c.repo = q.repo /\ c.ok = s.reachable
        /\ c.found = found /\ c.astray = q.astray
    BY <1>1 DEF Sound, Holds
  <2> HIDE DEF c
  <2>6. OnPath(c)
    BY <2>2, <2>4, <2>5 DEF OnPath
  <2>7. Holds(c)
    BY <1>1, <2>3, <2>4, <2>5 DEF Sound, Holds
  <2>8. Climbed(c, box) /\ Arrived(c, box)
    BY <2>2, <2>5 DEF Climbed, Arrived
  <2> QED BY <1>2, <2>1, <2>4, <2>5, <2>6, <2>7, <2>8, AdminThinks DEF Sound
<1> QED BY <1>3, <1>4

LEMMA StepStoreInstalled ==
  ASSUME GitInv, NEW a \in Admins, StoreInstalled(a)
  PROVE  GitInv'
<1> DEFINE q == admin[a]
           c == [q EXCEPT !.pc = "state"]
           new == [gitRows[q.label] EXCEPT !.status = "installed", !.installed = TRUE]
<1>1. Sound(q, box) /\ q.pc = "mark"
  BY DEF GitInv, StoreInstalled, At
<1>2. admin' = [admin EXCEPT ![a] = c]
  BY Going DEF StoreInstalled
<1>3. UpdateRow(q.label, new) /\ UNCHANGED <<toml, box, remote>> /\ q.label \in Labels
  BY <1>1 DEF StoreInstalled, mark_installed, Sound, Holds
<1>4. gitRows[q.label] # NoServer => FineRow(new)
  BY <1>3 DEF GitInv, Registered, FineOrNone, FineRow, ServerRows
<1> HIDE DEF q, new
<1>5. Registered'
  BY <1>3, <1>4, UpdatesAreFine DEF GitInv
<1>6. c.pc = "state" /\ c.cmd = q.cmd /\ c.cfg = q.cfg
  BY <1>1 DEF Sound, Holds
<1>7. OnPath(c)
  BY <1>1, <1>6 DEF Sound, OnPath
<1>8. Climbed(c, box)
  BY <1>1, <1>6 DEF Sound, Climbed
<1>9. Sound(c, box) /\ c.pc # "push"
  BY <1>1, <1>7, <1>8, GoesOn
<1> QED BY <1>2, <1>3, <1>5, <1>9, AdminThinks

LEMMA StepStoreState ==
  ASSUME GitInv, NEW a \in Admins, StoreState(a)
  PROVE  GitInv'
<1> DEFINE q == admin[a]
           status == CASE q.pc = "failed" -> "offline"
                       [] q.cmd \in {"install", "sync"} -> "online"
                       [] ~q.ok -> "offline"
                       [] OTHER -> IF "installed" \in q.found THEN "online" ELSE "not_installed"
           new == [gitRows[q.label] EXCEPT !.status = status]
<1>1. Sound(q, box) /\ q.pc \in {"state", "failed"}
  BY DEF GitInv, StoreState
<1>2. Finish(a) /\ UNCHANGED <<toml, box, remote>>
  BY DEF StoreState
<1>3. UpdateRow(q.label, new) /\ q.label \in Labels
  BY <1>1 DEF StoreState, update_status, Sound, Holds
<1>4. status \in {"online", "offline", "not_installed"}
  <2>1. q.pc = "failed" \/ q.cmd \in {"install", "sync"} => status \in {"online", "offline"}
    OBVIOUS
  <2>2. q.pc # "failed" /\ q.cmd \notin {"install", "sync"} =>
           status = IF ~q.ok THEN "offline" ELSE IF "installed" \in q.found THEN "online" ELSE "not_installed"
    OBVIOUS
  <2> HIDE DEF status
  <2> QED BY <2>1, <2>2
<1> HIDE DEF status
<1>5. gitRows[q.label] # NoServer => FineRow(new)
  BY <1>3, <1>4 DEF GitInv, Registered, FineOrNone, FineRow, ServerRows
<1> HIDE DEF q, new
<1>6. Registered'
  BY <1>2, <1>3, <1>5, UpdatesAreFine DEF GitInv
<1> QED BY <1>2, <1>6, Finishes

LEMMA StepStoreToken ==
  ASSUME GitInv, NEW a \in Admins, StoreToken(a)
  PROVE  GitInv'
<1> DEFINE q == admin[a]
           c == [q EXCEPT !.pc = "mark"]
           new == [gitRows[q.label] EXCEPT !.cfg.token = q.cfg.token]
<1>1. Sound(q, box) /\ q.pc = "store"
  BY DEF GitInv, StoreToken, At
<1>2. admin' = [admin EXCEPT ![a] = c]
  BY Going DEF StoreToken
<1>3. UpdateRow(q.label, new) /\ UNCHANGED <<toml, box, remote>> /\ q.label \in Labels /\ q.cfg \in Cfgs
  BY <1>1 DEF StoreToken, update_admin_token, Sound, Holds
<1>4. gitRows[q.label] # NoServer => FineRow(new)
  <2> DEFINE r == gitRows[q.label]
             cfg == [r.cfg EXCEPT !.token = q.cfg.token]
  <2> SUFFICES ASSUME r # NoServer PROVE FineRow(new)
    OBVIOUS
  <2>1. FineRow(r) /\ q.cfg.token \in Tokens
    BY <1>3 DEF GitInv, Registered, FineOrNone, Cfgs
  <2>2. new = [r EXCEPT !.cfg = cfg]
    OBVIOUS
  <2> HIDE DEF r, new
  <2>3. cfg \in Cfgs /\ cfg.type = r.cfg.type /\ cfg.host = r.cfg.host
    BY <2>1 DEF FineRow, ServerRows, Cfgs
  <2> HIDE DEF cfg
  <2> QED BY <2>1, <2>2, <2>3 DEF FineRow, ServerRows, compute_config_hash
<1> HIDE DEF q, new
<1>5. Registered'
  BY <1>3, <1>4, UpdatesAreFine DEF GitInv
<1>6. c.pc = "mark" /\ c.cmd = q.cmd /\ c.cfg = q.cfg
  BY <1>1 DEF Sound, Holds
<1>7. OnPath(c)
  BY <1>1, <1>6 DEF Sound, OnPath
<1>8. Climbed(c, box)
  <2>1. q.cfg.type = "gitea"
    BY <1>1 DEF Sound, OnPath
  <2> QED BY <1>1, <1>6, <2>1 DEF Sound, Climbed
<1>9. Sound(c, box) /\ c.pc # "push"
  BY <1>1, <1>7, <1>8, GoesOn
<1> QED BY <1>2, <1>3, <1>5, <1>9, AdminThinks

----------------------------------------------------------------------------
(* installation                                                             *)

CgitOrder == <<"ssh", "packages", "fcgiwrap", "account", "key", "repodir", "web", "rc">>
GiteaOrder == <<"ssh", "binary", "account", "ini", "unit", "migrate", "start", "token">>

LEMMA PhaseAfter ==
  ASSUME NEW a \in Admins, NEW k \in 1..7
  PROVE  /\ Type(a) = "cgit" /\ admin[a].pc = CgitOrder[k] => NextPhase(a) = CgitOrder[k + 1]
         /\ Type(a) = "gitea" /\ admin[a].pc = GiteaOrder[k] => NextPhase(a) = GiteaOrder[k + 1]
<1>1. ASSUME Type(a) = "cgit", admin[a].pc = CgitOrder[k] PROVE NextPhase(a) = CgitOrder[k + 1]
  <2> DEFINE i == CHOOSE i \in 1..8 : CgitOrder[i] = admin[a].pc
  <2>1. k \in 1..8
    OBVIOUS
  <2>2. i \in 1..8 /\ CgitOrder[i] = admin[a].pc
    BY <1>1, <2>1
  <2>3. \A m \in 1..8, n \in 1..8 : CgitOrder[m] = CgitOrder[n] => m = n
    BY DEF CgitOrder
  <2> HIDE DEF i
  <2>4. i = k
    BY <1>1, <2>1, <2>2, <2>3
  <2>5. Order[Type(a)] = CgitOrder
    BY <1>1 DEF Order, CgitOrder
  <2> QED BY <2>4, <2>5 DEF NextPhase, i
<1>2. ASSUME Type(a) = "gitea", admin[a].pc = GiteaOrder[k] PROVE NextPhase(a) = GiteaOrder[k + 1]
  <2> DEFINE i == CHOOSE i \in 1..8 : GiteaOrder[i] = admin[a].pc
  <2>1. k \in 1..8
    OBVIOUS
  <2>2. i \in 1..8 /\ GiteaOrder[i] = admin[a].pc
    BY <1>2, <2>1
  <2>3. \A m \in 1..8, n \in 1..8 : GiteaOrder[m] = GiteaOrder[n] => m = n
    BY DEF GiteaOrder
  <2> HIDE DEF i
  <2>4. i = k
    BY <1>2, <2>1, <2>2, <2>3
  <2>5. Order[Type(a)] = GiteaOrder
    BY <1>2 DEF Order, GiteaOrder
  <2> QED BY <2>4, <2>5 DEF NextPhase, i
<1> QED BY <1>1, <1>2

LEMMA PhasesFollow ==
  ASSUME NEW a \in Admins
  PROVE  /\ Type(a) = "cgit" =>
              /\ At(a, "ssh") => NextPhase(a) = "packages"
              /\ At(a, "packages") => NextPhase(a) = "fcgiwrap"
              /\ At(a, "fcgiwrap") => NextPhase(a) = "account"
              /\ At(a, "account") => NextPhase(a) = "key"
              /\ At(a, "key") => NextPhase(a) = "repodir"
              /\ At(a, "repodir") => NextPhase(a) = "web"
              /\ At(a, "web") => NextPhase(a) = "rc"
         /\ Type(a) = "gitea" =>
              /\ At(a, "ssh") => NextPhase(a) = "binary"
              /\ At(a, "binary") => NextPhase(a) = "account"
              /\ At(a, "account") => NextPhase(a) = "ini"
              /\ At(a, "ini") => NextPhase(a) = "unit"
              /\ At(a, "unit") => NextPhase(a) = "migrate"
              /\ At(a, "migrate") => NextPhase(a) = "start"
              /\ At(a, "start") => NextPhase(a) = "token"
<1>1. /\ CgitOrder[1] = "ssh" /\ CgitOrder[1 + 1] = "packages" /\ CgitOrder[2] = "packages" /\ CgitOrder[2 + 1] = "fcgiwrap"
      /\ CgitOrder[3] = "fcgiwrap" /\ CgitOrder[3 + 1] = "account" /\ CgitOrder[4] = "account" /\ CgitOrder[4 + 1] = "key"
      /\ CgitOrder[5] = "key" /\ CgitOrder[5 + 1] = "repodir" /\ CgitOrder[6] = "repodir" /\ CgitOrder[6 + 1] = "web"
      /\ CgitOrder[7] = "web" /\ CgitOrder[7 + 1] = "rc"
  BY DEF CgitOrder
<1>2. /\ GiteaOrder[1] = "ssh" /\ GiteaOrder[1 + 1] = "binary" /\ GiteaOrder[2] = "binary" /\ GiteaOrder[2 + 1] = "account"
      /\ GiteaOrder[3] = "account" /\ GiteaOrder[3 + 1] = "ini" /\ GiteaOrder[4] = "ini" /\ GiteaOrder[4 + 1] = "unit"
      /\ GiteaOrder[5] = "unit" /\ GiteaOrder[5 + 1] = "migrate" /\ GiteaOrder[6] = "migrate" /\ GiteaOrder[6 + 1] = "start"
      /\ GiteaOrder[7] = "start" /\ GiteaOrder[7 + 1] = "token"
  BY DEF GiteaOrder
<1>3. 1 \in 1..7 /\ 2 \in 1..7 /\ 3 \in 1..7 /\ 4 \in 1..7 /\ 5 \in 1..7 /\ 6 \in 1..7 /\ 7 \in 1..7
  OBVIOUS
<1> HIDE DEF CgitOrder, GiteaOrder
<1>4. Type(a) = "cgit" =>
         /\ At(a, "ssh") => NextPhase(a) = "packages"
         /\ At(a, "packages") => NextPhase(a) = "fcgiwrap"
         /\ At(a, "fcgiwrap") => NextPhase(a) = "account"
         /\ At(a, "account") => NextPhase(a) = "key"
         /\ At(a, "key") => NextPhase(a) = "repodir"
         /\ At(a, "repodir") => NextPhase(a) = "web"
         /\ At(a, "web") => NextPhase(a) = "rc"
  BY <1>1, <1>3, PhaseAfter, Zenon DEF At
<1>5. Type(a) = "gitea" =>
         /\ At(a, "ssh") => NextPhase(a) = "binary"
         /\ At(a, "binary") => NextPhase(a) = "account"
         /\ At(a, "account") => NextPhase(a) = "ini"
         /\ At(a, "ini") => NextPhase(a) = "unit"
         /\ At(a, "unit") => NextPhase(a) = "migrate"
         /\ At(a, "migrate") => NextPhase(a) = "start"
         /\ At(a, "start") => NextPhase(a) = "token"
  BY <1>2, <1>3, PhaseAfter, Zenon DEF At
<1> QED BY <1>4, <1>5

\* what the install command is in the middle of
LEMMA Installing ==
  ASSUME GitInv, NEW a \in Admins,
         admin[a].pc \in (CgitPhases \cup GiteaPhases) \ {"mark", "state", "rc", "mv"}
  PROVE  /\ Sound(admin[a], box) /\ admin[a].cmd = "install" /\ admin[a].cfg.host \in Boxes
         /\ \/ admin[a].cfg.type = "cgit" /\ admin[a].pc \in CgitPhases
            \/ admin[a].cfg.type = "gitea" /\ admin[a].pc \in GiteaPhases
<1>1. Sound(admin[a], box)
  BY DEF GitInv
<1>2. admin[a].cfg \in Cfgs
  BY <1>1 DEF Sound, Holds
<1> QED BY <1>1, <1>2 DEF Sound, OnPath, Cfgs

LEMMA PhaseDone ==
  ASSUME GitInv, NEW a \in Admins, NEW marks \in SUBSET Marks, Succeed(a, marks), UNCHANGED <<toml, gitRows, remote>>,
         admin[a].pc \in (CgitPhases \cup GiteaPhases) \ {"mark", "state", "rc", "mv"},
         \/ Type(a) = "cgit" /\ NextPhase(a) \in CgitPhases \ {"mv"}
         \/ Type(a) = "gitea" /\ NextPhase(a) \in GiteaPhases,
         \A c : c.pc = NextPhase(a) /\ c.cmd = "install" /\ c.cfg = admin[a].cfg
                   /\ box'[Host(a)].has = box[Host(a)].has \cup marks => Climbed(c, box')
  PROVE  GitInv'
<1> DEFINE q == admin[a]
           c == [q EXCEPT !.pc = NextPhase(a)]
           h == Host(a)
           m == [box[h] EXCEPT !.has = box[h].has \cup marks]
<1>1. Sound(q, box) /\ q.cmd = "install" /\ h \in Boxes
  BY Installing DEF Host
<1>2. admin' = [admin EXCEPT ![a] = c]
  BY Going DEF Succeed
<1>3. box' = [box EXCEPT ![h] = m] /\ box[h] \in Machines
  BY <1>1 DEF Succeed, GitInv
<1>4. Registered'
  BY RowsStay DEF GitInv
<1>5. q.cfg.type = Type(a)
  BY DEF Type
<1> HIDE DEF q, h
<1>6. m \in Machines /\ m.has = box[h].has \cup marks /\ m.pushed = box[h].pushed /\ m.forge = box[h].forge
  BY <1>3 DEF Machines
<1> HIDE DEF m
<1>7. box' \in [Boxes -> Machines] /\ Grown(box, box') /\ box'[h].has = box[h].has \cup marks
  BY <1>1, <1>3, <1>6 DEF GitInv, Grown
<1>8. c.pc = NextPhase(a) /\ c.cmd = "install" /\ c.cfg = q.cfg
  BY <1>1 DEF Sound, Holds
<1>9. Climbed(c, box')
  BY <1>7, <1>8 DEF q, h
<1>10. OnPath(c)
  BY <1>5, <1>8 DEF OnPath
<1>11. Sound(q, box')
  BY <1>1, <1>7, SoundStays DEF GitInv
<1>12. NextPhase(a) \notin {"idle", "offer", "accepted", "sync", "mv"} \cup Transfers
  OBVIOUS
<1>13. q.pc # "idle"
  BY DEF q
<1>14. Sound(c, box') /\ c.pc # "push"
  BY <1>9, <1>10, <1>11, <1>12, <1>13, GoesOn
<1> QED BY <1>2, <1>4, <1>7, <1>14, AdminMoves

LEMMA PhaseFails ==
  ASSUME GitInv, NEW a \in Admins, NEW steps \in Seq(Marks), Fail(a, steps), UNCHANGED <<toml, gitRows, remote>>,
         admin[a].pc \in (CgitPhases \cup GiteaPhases) \ {"mark", "state", "rc", "mv"}
  PROVE  GitInv'
<1> DEFINE q == admin[a]
           c == [q EXCEPT !.pc = "failed"]
           h == Host(a)
<1>1. Sound(q, box) /\ q.cmd = "install" /\ h \in Boxes
  BY Installing DEF Host
<1>2. admin' = [admin EXCEPT ![a] = c]
  BY Going DEF Fail
<1>3. PICK has \in SUBSET Marks : box' = [box EXCEPT ![h].has = has] /\ box[h].has \subseteq has
  <2>1. PICK n \in 0..Len(steps) :
           box' = [box EXCEPT ![h].has = IF box[h].up THEN @ \cup {steps[i] : i \in 1..n} ELSE @]
    BY DEF Fail
  <2> DEFINE left == {steps[i] : i \in 1..n}
  <2>5. left \in SUBSET Marks
    OBVIOUS
  <2> HIDE DEF left
  <2> DEFINE has == IF box[h].up THEN box[h].has \cup left ELSE box[h].has
  <2>2. box[h].has \in SUBSET Marks
    BY <1>1 DEF GitInv, Machines
  <2>3. has \in SUBSET Marks /\ box[h].has \subseteq has
    BY <2>2, <2>5
  <2>4. box' = [box EXCEPT ![h].has = has]
    BY <2>1 DEF left
  <2> HIDE DEF has
  <2> QED BY <2>3, <2>4
<1> DEFINE m == [box[h] EXCEPT !.has = has]
<1>4. box' = [box EXCEPT ![h] = m] /\ box[h] \in Machines
  BY <1>1, <1>3 DEF GitInv
<1>5. Registered'
  BY RowsStay DEF GitInv
<1> HIDE DEF q, h
<1>6. m \in Machines /\ m.has = has /\ m.pushed = box[h].pushed /\ m.forge = box[h].forge
  BY <1>4 DEF Machines
<1> HIDE DEF m
<1>7. box' \in [Boxes -> Machines] /\ Grown(box, box')
  BY <1>1, <1>3, <1>4, <1>6 DEF GitInv, Grown
<1>8. c.pc = "failed" /\ c.cmd = "install"
  BY <1>1 DEF Sound, Holds
<1>9. OnPath(c) /\ Climbed(c, box')
  BY <1>8 DEF OnPath, Climbed
<1>10. Sound(q, box')
  BY <1>1, <1>7, SoundStays DEF GitInv
<1>11. q.pc # "idle"
  BY DEF q
<1>12. Sound(c, box') /\ c.pc # "push"
  BY <1>9, <1>10, <1>11, GoesOn
<1> QED BY <1>2, <1>5, <1>7, <1>12, AdminMoves

LEMMA PhaseKeeps ==
  ASSUME GitInv, NEW a \in Admins, NEW name, NEW steps \in Seq(Marks), NEW marks, marks = Range(steps), Phase(a, name, steps),
         name \in (CgitPhases \cup GiteaPhases) \ {"mark", "state", "rc", "mv"},
         \/ Type(a) = "cgit" /\ NextPhase(a) \in CgitPhases \ {"mv"}
         \/ Type(a) = "gitea" /\ NextPhase(a) \in GiteaPhases,
         Succeed(a, marks) =>
            \A c : c.pc = NextPhase(a) /\ c.cmd = "install" /\ c.cfg = admin[a].cfg
                      /\ box'[Host(a)].has = box[Host(a)].has \cup marks => Climbed(c, box')
  PROVE  GitInv'
<1>1. admin[a].pc = name /\ UNCHANGED <<toml, gitRows, remote>> /\ (Succeed(a, marks) \/ Fail(a, steps))
  BY DEF Phase, At
<1>2. CASE Succeed(a, marks)
  <2>1. marks \in SUBSET Marks
    BY DEF Range
  <2> QED BY <1>1, <1>2, <2>1, PhaseDone
<1>3. CASE Fail(a, steps)
  BY <1>1, <1>3, PhaseFails
<1> QED BY <1>1, <1>2, <1>3

\* each phase leaves what the next ones count on
LEMMA Step_install_deps ==
  ASSUME GitInv, NEW a \in Admins, install_deps(a)
  PROVE  GitInv'
<1>1. Phase(a, "packages", <<"packages">>) /\ admin[a].pc = "packages" /\ At(a, "packages")
  BY DEF install_deps, Phase, At
<1>2. Sound(admin[a], box) /\ admin[a].cmd = "install" /\ admin[a].cfg.type = "cgit"
  BY <1>1, Installing
<1>3. NextPhase(a) = "fcgiwrap" /\ Type(a) = "cgit"
  BY <1>1, <1>2, PhasesFollow DEF Type
<1>4. ASSUME NEW c, c.pc = "fcgiwrap", c.cmd = "install", c.cfg = admin[a].cfg,
             box'[Host(a)].has = box[Host(a)].has \cup {"packages"}
      PROVE  Climbed(c, box')
  BY <1>1, <1>2, <1>4 DEF Sound, Climbed, Host
<1>5. <<"packages">> \in Seq(Marks) /\ {"packages"} = Range(<<"packages">>)
  BY DEF Marks, Range
<1> QED BY <1>1, <1>3, <1>4, <1>5, PhaseKeeps

LEMMA Step_setup_fcgiwrap ==
  ASSUME GitInv, NEW a \in Admins, setup_fcgiwrap(a)
  PROVE  GitInv'
<1>1. Phase(a, "fcgiwrap", <<"fcgiwrap">>) /\ admin[a].pc = "fcgiwrap" /\ At(a, "fcgiwrap")
  BY DEF setup_fcgiwrap, Phase, At
<1>2. Sound(admin[a], box) /\ admin[a].cmd = "install" /\ admin[a].cfg.type = "cgit"
  BY <1>1, Installing
<1>3. NextPhase(a) = "account" /\ Type(a) = "cgit"
  BY <1>1, <1>2, PhasesFollow DEF Type
<1>4. ASSUME NEW c, c.pc = "account", c.cmd = "install", c.cfg = admin[a].cfg,
             box'[Host(a)].has = box[Host(a)].has \cup {"fcgiwrap"}
      PROVE  Climbed(c, box')
  BY <1>1, <1>2, <1>4 DEF Sound, Climbed, Host
<1>5. <<"fcgiwrap">> \in Seq(Marks) /\ {"fcgiwrap"} = Range(<<"fcgiwrap">>)
  BY DEF Marks, Range
<1> QED BY <1>1, <1>3, <1>4, <1>5, PhaseKeeps

LEMMA Step_create_repo_directory ==
  ASSUME GitInv, NEW a \in Admins, create_repo_directory(a)
  PROVE  GitInv'
<1>1. Phase(a, "repodir", <<"repodir">>) /\ admin[a].pc = "repodir" /\ At(a, "repodir")
  BY DEF create_repo_directory, Phase, At
<1>2. Sound(admin[a], box) /\ admin[a].cmd = "install" /\ admin[a].cfg.type = "cgit"
  BY <1>1, Installing
<1>3. NextPhase(a) = "web" /\ Type(a) = "cgit"
  BY <1>1, <1>2, PhasesFollow DEF Type
<1>4. ASSUME NEW c, c.pc = "web", c.cmd = "install", c.cfg = admin[a].cfg,
             box'[Host(a)].has = box[Host(a)].has \cup {"repodir"}
      PROVE  Climbed(c, box')
  BY <1>1, <1>2, <1>4 DEF Sound, Climbed, Host
<1>5. <<"repodir">> \in Seq(Marks) /\ {"repodir"} = Range(<<"repodir">>)
  BY DEF Marks, Range
<1> QED BY <1>1, <1>3, <1>4, <1>5, PhaseKeeps

LEMMA Step_setup_web_server ==
  ASSUME GitInv, NEW a \in Admins, setup_web_server(a)
  PROVE  GitInv'
<1>1. Phase(a, "web", <<"web">>) /\ admin[a].pc = "web" /\ At(a, "web")
  BY DEF setup_web_server, Phase, At
<1>2. Sound(admin[a], box) /\ admin[a].cmd = "install" /\ admin[a].cfg.type = "cgit"
  BY <1>1, Installing
<1>3. NextPhase(a) = "rc" /\ Type(a) = "cgit"
  BY <1>1, <1>2, PhasesFollow DEF Type
<1>4. ASSUME NEW c, c.pc = "rc", c.cmd = "install", c.cfg = admin[a].cfg,
             box'[Host(a)].has = box[Host(a)].has \cup {"web"}
      PROVE  Climbed(c, box')
  BY <1>1, <1>2, <1>4 DEF Sound, Climbed, Host
<1>5. <<"web">> \in Seq(Marks) /\ {"web"} = Range(<<"web">>)
  BY DEF Marks, Range
<1> QED BY <1>1, <1>3, <1>4, <1>5, PhaseKeeps

LEMMA Step_download_gitea_binary ==
  ASSUME GitInv, NEW a \in Admins, download_gitea_binary(a)
  PROVE  GitInv'
<1>1. Phase(a, "binary", <<"binary">>) /\ admin[a].pc = "binary" /\ At(a, "binary")
  BY DEF download_gitea_binary, Phase, At
<1>2. Sound(admin[a], box) /\ admin[a].cmd = "install" /\ admin[a].cfg.type = "gitea"
  BY <1>1, Installing
<1>3. NextPhase(a) = "account" /\ Type(a) = "gitea"
  BY <1>1, <1>2, PhasesFollow DEF Type
<1>4. ASSUME NEW c, c.pc = "account", c.cmd = "install", c.cfg = admin[a].cfg,
             box'[Host(a)].has = box[Host(a)].has \cup {"binary"}
      PROVE  Climbed(c, box')
  BY <1>1, <1>2, <1>4 DEF Sound, Climbed, Host
<1>5. <<"binary">> \in Seq(Marks) /\ {"binary"} = Range(<<"binary">>)
  BY DEF Marks, Range
<1> QED BY <1>1, <1>3, <1>4, <1>5, PhaseKeeps

LEMMA Step_setup_systemd_service ==
  ASSUME GitInv, NEW a \in Admins, setup_systemd_service(a)
  PROVE  GitInv'
<1>1. Phase(a, "unit", <<"unit">>) /\ admin[a].pc = "unit" /\ At(a, "unit")
  BY DEF setup_systemd_service, Phase, At
<1>2. Sound(admin[a], box) /\ admin[a].cmd = "install" /\ admin[a].cfg.type = "gitea"
  BY <1>1, Installing
<1>3. NextPhase(a) = "migrate" /\ Type(a) = "gitea"
  BY <1>1, <1>2, PhasesFollow DEF Type
<1>4. ASSUME NEW c, c.pc = "migrate", c.cmd = "install", c.cfg = admin[a].cfg,
             box'[Host(a)].has = box[Host(a)].has \cup {"unit"}
      PROVE  Climbed(c, box')
  BY <1>1, <1>2, <1>4 DEF Sound, Climbed, Host
<1>5. <<"unit">> \in Seq(Marks) /\ {"unit"} = Range(<<"unit">>)
  BY DEF Marks, Range
<1> QED BY <1>1, <1>3, <1>4, <1>5, PhaseKeeps

LEMMA Step_StartGitea ==
  ASSUME GitInv, NEW a \in Admins, StartGitea(a)
  PROVE  GitInv'
<1>1. Phase(a, "start", <<"started">>) /\ admin[a].pc = "start" /\ At(a, "start")
  BY DEF StartGitea, Phase, At
<1>2. Sound(admin[a], box) /\ admin[a].cmd = "install" /\ admin[a].cfg.type = "gitea"
  BY <1>1, Installing
<1>3. NextPhase(a) = "token" /\ Type(a) = "gitea"
  BY <1>1, <1>2, PhasesFollow DEF Type
<1>4. ASSUME NEW c, c.pc = "token", c.cmd = "install", c.cfg = admin[a].cfg,
             box'[Host(a)].has = box[Host(a)].has \cup {"started"}
      PROVE  Climbed(c, box')
  BY <1>1, <1>2, <1>4 DEF Sound, Climbed, Host
<1>5. <<"started">> \in Seq(Marks) /\ {"started"} = Range(<<"started">>)
  BY DEF Marks, Range
<1> QED BY <1>1, <1>3, <1>4, <1>5, PhaseKeeps

LEMMA Step_ssh_test_connection ==
  ASSUME GitInv, NEW a \in Admins, ssh_test_connection(a)
  PROVE  GitInv'
<1>1. Phase(a, "ssh", <<>>) /\ admin[a].pc = "ssh" /\ At(a, "ssh")
  BY DEF ssh_test_connection, Phase, At
<1>2. (Type(a) = "cgit" /\ NextPhase(a) = "packages") \/ (Type(a) = "gitea" /\ NextPhase(a) = "binary")
  <2>1. Type(a) = "cgit" \/ Type(a) = "gitea"
    BY <1>1, Installing DEF Type
  <2>2. Type(a) = "cgit" => NextPhase(a) = "packages"
    BY <1>1, PhasesFollow
  <2>3. Type(a) = "gitea" => NextPhase(a) = "binary"
    BY <1>1, PhasesFollow
  <2> QED BY <2>1, <2>2, <2>3
<1>3. ASSUME NEW c, c.pc \in {"packages", "binary"}
      PROVE  Climbed(c, box')
  BY <1>3 DEF Climbed
<1>4. <<>> \in Seq(Marks) /\ {} = Range(<<>>)
  BY DEF Range
<1>5. \A c : c.pc = NextPhase(a) /\ c.cmd = "install" /\ c.cfg = admin[a].cfg
             /\ box'[Host(a)].has = box[Host(a)].has \cup {} => Climbed(c, box')
  BY <1>2, <1>3
<1>6. \/ Type(a) = "cgit" /\ NextPhase(a) \in CgitPhases \ {"mv"}
      \/ Type(a) = "gitea" /\ NextPhase(a) \in GiteaPhases
  BY <1>2
<1> QED BY <1>1, <1>4, <1>5, <1>6, PhaseKeeps

LEMMA Step_setup_git_user ==
  ASSUME GitInv, NEW a \in Admins, setup_git_user(a)
  PROVE  GitInv'
<1>1. Phase(a, "account", <<"user", "dotssh">>) /\ admin[a].pc = "account" /\ At(a, "account") /\ Type(a) = "cgit"
  BY DEF setup_git_user, Phase, At
<1>2. Sound(admin[a], box) /\ admin[a].cmd = "install" /\ admin[a].cfg.type = "cgit"
  BY <1>1, Installing DEF Type
<1>3. NextPhase(a) = "key"
  BY <1>1, PhasesFollow
<1>4. ASSUME NEW c, c.pc = "key", c.cmd = "install", c.cfg = admin[a].cfg,
             box'[Host(a)].has = box[Host(a)].has \cup {"user", "dotssh"}
      PROVE  Climbed(c, box')
  BY <1>1, <1>2, <1>4 DEF Sound, Climbed, Host
<1>5. <<"user", "dotssh">> \in Seq(Marks) /\ {"user", "dotssh"} = Range(<<"user", "dotssh">>)
  BY DEF Marks, Range
<1> QED BY <1>1, <1>3, <1>4, <1>5, PhaseKeeps

LEMMA Step_create_gitea_user ==
  ASSUME GitInv, NEW a \in Admins, create_gitea_user(a)
  PROVE  GitInv'
<1> DEFINE every == <<"user", "home", "dirs", "confdir", "owned">>
           steps == IF "user" \in box[Host(a)].has THEN <<>> ELSE every
           marks == IF "user" \in box[Host(a)].has THEN {} ELSE {"user", "home", "dirs", "confdir", "owned"}
<1>1. At(a, "account") /\ admin[a].pc = "account" /\ Type(a) = "gitea" /\ Phase(a, "account", steps)
  BY DEF create_gitea_user, At
<1>2. "user" \in box[Host(a)].has \cup marks
  OBVIOUS
<1>3. every \in Seq(Marks) /\ {"user", "home", "dirs", "confdir", "owned"} = Range(every)
  BY DEF Marks, Range
<1>4. <<>> \in Seq(Marks) /\ {} = Range(<<>>)
  BY DEF Range
<1> HIDE DEF every
<1>5. steps \in Seq(Marks) /\ marks = Range(steps)
  BY <1>3, <1>4
<1> HIDE DEF marks, steps
<1>6. Sound(admin[a], box) /\ admin[a].cmd = "install" /\ admin[a].cfg.type = "gitea"
  BY <1>1, Installing DEF Type
<1>7. NextPhase(a) = "ini"
  BY <1>1, PhasesFollow
<1>8. ASSUME NEW c, c.pc = "ini", c.cmd = "install", c.cfg = admin[a].cfg,
             box'[Host(a)].has = box[Host(a)].has \cup marks
      PROVE  Climbed(c, box')
  BY <1>1, <1>2, <1>6, <1>8 DEF Sound, Climbed, Host
<1> QED BY <1>1, <1>5, <1>7, <1>8, PhaseKeeps

\* the two phases that need what an existing user may lack
LEMMA Step_InstallIni ==
  ASSUME GitInv, NEW a \in Admins, InstallIni(a)
  PROVE  GitInv'
<1>1. admin[a].pc = "ini" /\ At(a, "ini") /\ UNCHANGED <<toml, gitRows, remote>>
  BY DEF InstallIni, At
<1>2. Sound(admin[a], box) /\ admin[a].cmd = "install" /\ admin[a].cfg.type = "gitea"
  BY <1>1, Installing
<1>3. NextPhase(a) = "unit" /\ Type(a) = "gitea"
  BY <1>1, <1>2, PhasesFollow DEF Type
<1>4. CASE "confdir" \in box[Host(a)].has /\ Succeed(a, {"ini"})
  <2>1. ASSUME NEW c, c.pc = "unit", c.cmd = "install", c.cfg = admin[a].cfg,
               box'[Host(a)].has = box[Host(a)].has \cup {"ini"}
        PROVE  Climbed(c, box')
    BY <1>1, <1>2, <1>4, <2>1 DEF Sound, Climbed, Host
  <2>2. {"ini"} \in SUBSET Marks
    BY DEF Marks
  <2> QED BY <1>1, <1>3, <1>4, <2>1, <2>2, PhaseDone
<1>5. ASSUME NEW steps \in {<<>>, <<"ini">>}, Fail(a, steps) PROVE GitInv'
  <2>1. steps \in Seq(Marks)
    <3>1. <<>> \in Seq(Marks) /\ <<"ini">> \in Seq(Marks)
      BY DEF Marks
    <3> QED BY <3>1
  <2> QED BY <1>1, <1>5, <2>1, PhaseFails
<1> QED BY <1>4, <1>5 DEF InstallIni

LEMMA Step_initialize_database ==
  ASSUME GitInv, NEW a \in Admins, initialize_database(a)
  PROVE  GitInv'
<1>1. admin[a].pc = "migrate" /\ At(a, "migrate") /\ UNCHANGED <<toml, gitRows, remote>>
  BY DEF initialize_database, At
<1>2. Sound(admin[a], box) /\ admin[a].cmd = "install" /\ admin[a].cfg.type = "gitea"
  BY <1>1, Installing
<1>3. NextPhase(a) = "start" /\ Type(a) = "gitea"
  BY <1>1, <1>2, PhasesFollow DEF Type
<1>4. CASE "home" \in box[Host(a)].has /\ Succeed(a, {"db"})
  <2>1. ASSUME NEW c, c.pc = "start", c.cmd = "install", c.cfg = admin[a].cfg,
               box'[Host(a)].has = box[Host(a)].has \cup {"db"}
        PROVE  Climbed(c, box')
    BY <1>1, <1>2, <1>4, <2>1 DEF Sound, Climbed, Host
  <2>2. {"db"} \in SUBSET Marks
    BY DEF Marks
  <2> QED BY <1>1, <1>3, <1>4, <2>1, <2>2, PhaseDone
<1>5. ASSUME NEW steps \in {<<>>, <<"db">>}, Fail(a, steps) PROVE GitInv'
  <2>1. steps \in Seq(Marks)
    <3>1. <<>> \in Seq(Marks) /\ <<"db">> \in Seq(Marks)
      BY DEF Marks
    <3> QED BY <3>1
  <2> QED BY <1>1, <1>5, <2>1, PhaseFails
<1> QED BY <1>4, <1>5 DEF initialize_database

LEMMA Step_deploy_ssh_key ==
  ASSUME GitInv, NEW a \in Admins, deploy_ssh_key(a)
  PROVE  GitInv'
<1> DEFINE q == admin[a]
           c == [q EXCEPT !.pc = "repodir"]
<1>1. q.pc = "key" /\ At(a, "key") /\ UNCHANGED <<toml, gitRows, box, remote>>
  BY DEF deploy_ssh_key, At
<1>2. Sound(q, box) /\ q.cmd = "install" /\ q.cfg.type = "cgit"
  BY <1>1, Installing
<1>3. NextPhase(a) = "repodir"
  BY <1>1, <1>2, PhasesFollow DEF Type
<1>4. admin' = [admin EXCEPT ![a] = c]
  BY <1>3, Going DEF deploy_ssh_key
<1> HIDE DEF q
<1>5. c.pc = "repodir" /\ c.cmd = "install" /\ c.cfg = q.cfg
  BY <1>2 DEF Sound, Holds
<1>6. OnPath(c)
  BY <1>2, <1>5 DEF OnPath
<1>7. Climbed(c, box)
  BY <1>1, <1>2, <1>5 DEF Sound, Climbed
<1>8. Sound(c, box) /\ c.pc # "push"
  BY <1>1, <1>2, <1>6, <1>7, GoesOn
<1>9. Registered'
  BY <1>1, RowsStay DEF GitInv
<1> QED BY <1>1, <1>4, <1>8, <1>9, AdminThinks

LEMMA Step_create_admin_token ==
  ASSUME GitInv, NEW a \in Admins, create_admin_token(a)
  PROVE  GitInv'
<1> DEFINE q == admin[a]
<1>1. q.pc = "token" /\ UNCHANGED <<toml, gitRows, box, remote>>
  BY DEF create_admin_token, At
<1>2. Sound(q, box) /\ q.cmd = "install" /\ q.cfg.type = "gitea"
  BY <1>1, Installing
<1>3. PICK token \in {"garbled", q.cfg.token} :
         admin' = [admin EXCEPT ![a].pc = IF token = "" THEN "mark" ELSE "store", ![a].cfg.token = token]
  BY DEF create_admin_token
<1> DEFINE cfg == [q.cfg EXCEPT !.token = token]
           pc == IF token = "" THEN "mark" ELSE "store"
           c == [q EXCEPT !.pc = pc, !.cfg = cfg]
<1>4. admin' = [admin EXCEPT ![a] = c]
  BY <1>3 DEF GitInv
<1> HIDE DEF q
<1>5. cfg \in Cfgs /\ cfg.type = "gitea" /\ cfg.host = q.cfg.host
  BY <1>1, <1>2 DEF Sound, Holds, Cfgs, Tokens
<1>6. pc \in {"mark", "store"}
  OBVIOUS
<1> HIDE DEF cfg, pc
<1>7. /\ DOMAIN c = DOMAIN q /\ c.pc = pc /\ c.cmd = q.cmd /\ c.label = q.label /\ c.section = q.section
      /\ c.cfg = cfg /\ c.old = q.old /\ c.chosen = q.chosen /\ c.left = q.left /\ c.repo = q.repo /\ c.ok = q.ok
      /\ c.found = q.found /\ c.astray = q.astray
  BY <1>2 DEF Sound, Holds
<1> HIDE DEF c
<1>8. OnPath(c)
  BY <1>2, <1>5, <1>6, <1>7 DEF OnPath
<1>9. Holds(c)
  BY <1>1, <1>2, <1>5, <1>6, <1>7 DEF Sound, Holds
<1>10. Climbed(c, box)
  BY <1>1, <1>2, <1>5, <1>6, <1>7 DEF Sound, Climbed
<1>11. Arrived(c, box)
  BY <1>2, <1>7 DEF Arrived
<1>12. Registered'
  BY <1>1, RowsStay DEF GitInv
<1> QED BY <1>1, <1>4, <1>6, <1>7, <1>8, <1>9, <1>10, <1>11, <1>12, AdminThinks DEF Sound

----------------------------------------------------------------------------
(* configuring cgit, of install and of sync                                 *)

LEMMA Step_Discover ==
  ASSUME GitInv, NEW a \in Admins, Discover(a)
  PROVE  GitInv'
<1> DEFINE q == admin[a]
           found == IF box[Host(a)].up THEN box[Host(a)].pushed ELSE {}
           c == [q EXCEPT !.pc = "mv", !.found = found]
<1>1. Sound(q, box) /\ q.pc = "rc" /\ UNCHANGED <<toml, gitRows, box, remote>>
  BY DEF GitInv, Discover, At
<1>2. admin' = [admin EXCEPT ![a] = c]
  BY DEF Discover, GitInv
<1>3. found \in SUBSET Bares
  <2>1. Host(a) \in Boxes
    BY <1>1 DEF Sound, Holds, Cfgs, Host
  <2> QED BY <2>1 DEF GitInv, Machines
<1>4. Registered'
  BY <1>1, RowsStay DEF GitInv
<1> HIDE DEF q, found
<1>5. /\ DOMAIN c = DOMAIN q /\ c.pc = "mv" /\ c.cmd = q.cmd /\ c.label = q.label /\ c.section = q.section
      /\ c.cfg = q.cfg /\ c.old = q.old /\ c.chosen = q.chosen /\ c.left = q.left /\ c.repo = q.repo /\ c.ok = q.ok
      /\ c.found = found /\ c.astray = q.astray
  BY <1>1 DEF Sound, Holds
<1> HIDE DEF c
<1>6. OnPath(c)
  BY <1>1, <1>5 DEF Sound, OnPath
<1>7. Holds(c)
  BY <1>1, <1>3, <1>5 DEF Sound, Holds
<1>8. Climbed(c, box)
  BY <1>1, <1>5, <1>6 DEF Sound, OnPath, Climbed
<1>9. Arrived(c, box)
  BY <1>1, <1>5 DEF Sound, Arrived
<1> QED BY <1>1, <1>2, <1>4, <1>5, <1>6, <1>7, <1>8, <1>9, AdminThinks DEF Sound

LEMMA Step_configure ==
  ASSUME GitInv, NEW a \in Admins, configure(a)
  PROVE  GitInv'
<1> DEFINE q == admin[a]
           h == Host(a)
           pc == IF q.cmd = "install" THEN "mark" ELSE "state"
           c == [q EXCEPT !.pc = pc, !.found = {}]
           m == [box[h] EXCEPT !.rc = q.found]
<1>1. Sound(q, box) /\ q.pc = "mv" /\ UNCHANGED <<toml, gitRows, remote>>
  BY DEF GitInv, configure, At
<1>2. admin' = [admin EXCEPT ![a] = c]
  BY DEF configure, GitInv
<1>3. Registered'
  BY <1>1, RowsStay DEF GitInv
<1>4. h \in Boxes /\ box[h] \in Machines /\ q.found \in SUBSET Bares /\ q.cfg.host = h
  BY <1>1 DEF Sound, Holds, Cfgs, Host, GitInv
<1>5. box' = box \/ box' = [box EXCEPT ![h] = m]
  BY DEF configure
<1> HIDE DEF q, h
<1>6. m \in Machines /\ m.has = box[h].has /\ m.pushed = box[h].pushed /\ m.forge = box[h].forge
  BY <1>4 DEF Machines
<1> HIDE DEF m
<1>7. box' \in [Boxes -> Machines] /\ Grown(box, box')
  BY <1>4, <1>5, <1>6 DEF GitInv, Grown
<1>8. Sound(q, box')
  BY <1>1, <1>7, SoundStays DEF GitInv
<1>9. q.cmd \in {"install", "sync"} /\ (q.cmd = "install" => q.cfg.type = "cgit")
  BY <1>1 DEF Sound, OnPath
<1>10. /\ DOMAIN c = DOMAIN q /\ c.pc = pc /\ c.cmd = q.cmd /\ c.label = q.label /\ c.section = q.section
       /\ c.cfg = q.cfg /\ c.old = q.old /\ c.chosen = q.chosen /\ c.left = q.left /\ c.repo = q.repo /\ c.ok = q.ok
       /\ c.found = {} /\ c.astray = q.astray
  BY <1>1 DEF Sound, Holds
<1> HIDE DEF c
<1>11. OnPath(c)
  BY <1>9, <1>10 DEF OnPath
<1>12. Holds(c)
  BY <1>1, <1>10 DEF Sound, Holds
<1>13. Climbed(c, box')
  BY <1>1, <1>8, <1>9, <1>10 DEF Sound, Climbed
<1>14. Arrived(c, box')
  BY <1>8, <1>10 DEF Sound, Arrived
<1> QED BY <1>1, <1>2, <1>3, <1>7, <1>10, <1>11, <1>12, <1>13, <1>14, AdminMoves DEF Sound

----------------------------------------------------------------------------
(* sync, and the environment                                                *)

LEMMA Syncing ==
  ASSUME GitInv, NEW a \in Admins, admin[a].pc \in {"repo"} \cup Transfers
  PROVE  /\ Sound(admin[a], box) /\ admin[a].cmd = "sync" /\ Host(a) \in Boxes /\ admin[a].cfg.host = Host(a)
         /\ box[Host(a)] \in Machines
<1>1. Sound(admin[a], box)
  BY DEF GitInv
<1>2. admin[a].cfg \in Cfgs
  BY <1>1 DEF Sound, Holds
<1> QED BY <1>1, <1>2 DEF Sound, OnPath, Cfgs, Host, GitInv

\* a sync turns to a step of its own
LEMMA SyncGoes ==
  ASSUME GitInv, NEW a \in Admins, admin[a].pc \in {"repo"} \cup Transfers, UNCHANGED <<toml, gitRows, box, remote>>,
         NEW pc \in ({"repo", "rc", "state"} \cup Transfers) \ {"push"}, NEW repo,
         pc \in Transfers => repo \in Bares,
         admin' = [admin EXCEPT ![a] = [admin[a] EXCEPT !.pc = pc, !.repo = repo]]
  PROVE  GitInv'
<1> DEFINE q == admin[a]
           c == [q EXCEPT !.pc = pc, !.repo = repo]
<1>1. Sound(q, box) /\ q.cmd = "sync"
  BY Syncing
<1>2. admin' = [admin EXCEPT ![a] = c] /\ q.pc # "idle"
  OBVIOUS
<1> HIDE DEF q
<1>3. /\ DOMAIN c = DOMAIN q /\ c.pc = pc /\ c.cmd = q.cmd /\ c.label = q.label /\ c.section = q.section
      /\ c.cfg = q.cfg /\ c.old = q.old /\ c.chosen = q.chosen /\ c.left = q.left /\ c.repo = repo /\ c.ok = q.ok
      /\ c.found = q.found /\ c.astray = q.astray
  BY <1>1 DEF Sound, Holds
<1> HIDE DEF c
<1>4. OnPath(c)
  BY <1>1, <1>3 DEF OnPath
<1>5. Holds(c)
  BY <1>1, <1>2, <1>3 DEF Sound, Holds
<1>6. Climbed(c, box)
  BY <1>1, <1>3 DEF Climbed
<1>7. Arrived(c, box)
  BY <1>1, <1>3 DEF Sound, Arrived
<1>8. Registered'
  BY RowsStay DEF GitInv
<1> QED BY <1>2, <1>3, <1>4, <1>5, <1>6, <1>7, <1>8, AdminThinks DEF Sound

LEMMA SyncAdvances ==
  ASSUME GitInv, NEW a \in Admins, admin[a].pc \in Transfers, UNCHANGED <<toml, gitRows, remote>>,
         NEW fine \in BOOLEAN, Advance(a, fine), NEW h \in Boxes,
         \/ ~fine /\ box' = box
         \/ fine /\ box' = [box EXCEPT ![h].pushed = @ \cup {admin[a].repo}],
         fine => h = Host(a) \/ (admin[a].repo \in admin[a].astray /\ admin[a].repo \in box[h].forge)
  PROVE  GitInv'
<1> DEFINE q == admin[a]
           left == q.left \ {q.repo}
           ok == q.ok /\ fine
           c == [q EXCEPT !.pc = "repo", !.left = left, !.repo = NoServer, !.ok = ok]
           m == [box[h] EXCEPT !.pushed = box[h].pushed \cup {q.repo}]
<1>1. Sound(q, box) /\ q.cmd = "sync" /\ q.cfg.host = Host(a) /\ box[h] \in Machines
  BY Syncing DEF GitInv
<1>2. admin' = [admin EXCEPT ![a] = c] /\ q.pc \in Transfers
  BY DEF Advance, GitInv
<1>3. Registered'
  BY RowsStay DEF GitInv
<1>4. q.repo \in Bares
  BY <1>1, <1>2 DEF Sound, Holds
<1>5. \/ ~fine /\ box' = box
      \/ fine /\ box' = [box EXCEPT ![h] = m] /\ (h = q.cfg.host \/ (q.repo \in q.astray /\ q.repo \in box[h].forge))
  BY <1>1
<1> HIDE DEF q
<1>6. m \in Machines /\ m.has = box[h].has /\ m.pushed = box[h].pushed \cup {q.repo} /\ m.forge = box[h].forge
  BY <1>1, <1>4 DEF Machines
<1> HIDE DEF m
<1>7. box' \in [Boxes -> Machines] /\ Grown(box, box')
  BY <1>1, <1>5, <1>6 DEF GitInv, Grown
<1>8. fine => q.repo \in box'[q.cfg.host].pushed \/ (q.repo \in q.astray /\ Somewhere(q.repo, box'))
  BY <1>5, <1>6 DEF GitInv, Somewhere
<1>9. Sound(q, box')
  BY <1>1, <1>7, SoundStays DEF GitInv
<1>10. ok \in BOOLEAN /\ (ok => fine) /\ (ok => q.ok)
  OBVIOUS
<1>11. left \in SUBSET Bares /\ q.chosen \ left \subseteq (q.chosen \ q.left) \cup {q.repo}
  BY <1>1 DEF Sound, Holds
<1> HIDE DEF ok, left
<1>12. /\ DOMAIN c = DOMAIN q /\ c.pc = "repo" /\ c.cmd = q.cmd /\ c.label = q.label /\ c.section = q.section
       /\ c.cfg = q.cfg /\ c.old = q.old /\ c.chosen = q.chosen /\ c.left = left /\ c.repo = NoServer /\ c.ok = ok
       /\ c.found = q.found /\ c.astray = q.astray
  BY <1>1 DEF Sound, Holds
<1> HIDE DEF c
<1>13. OnPath(c)
  BY <1>1, <1>12 DEF OnPath
<1>14. Holds(c)
  BY <1>1, <1>2, <1>10, <1>11, <1>12 DEF Sound, Holds
<1>15. Climbed(c, box')
  BY <1>1, <1>12 DEF Climbed
<1>16. Arrived(c, box')
  <2> SUFFICES ASSUME ok, NEW b \in q.chosen \ left
               PROVE  b \in box'[q.cfg.host].pushed \/ (b \in q.astray /\ Somewhere(b, box'))
    BY <1>1, <1>12 DEF Arrived
  <2>1. CASE b = q.repo
    BY <2>1, <1>8, <1>10
  <2>2. CASE b # q.repo
    BY <2>2, <1>1, <1>9, <1>10, <1>11 DEF Sound, Arrived
  <2> QED BY <2>1, <2>2
<1> QED BY <1>2, <1>3, <1>7, <1>12, <1>13, <1>14, <1>15, <1>16, AdminMoves DEF Sound

LEMMA Step_NextRepo ==
  ASSUME GitInv, NEW a \in Admins, NextRepo(a)
  PROVE  GitInv'
<1> DEFINE q == admin[a]
<1>1. q.pc = "repo" /\ UNCHANGED <<toml, gitRows, box, remote>>
  BY DEF NextRepo, At
<1>2. Sound(q, box)
  BY <1>1, Syncing
<1>3. ASSUME NEW next \in q.left,
             admin' = [admin EXCEPT ![a].repo = next, ![a].pc = IF Type(a) = "cgit" THEN "rsync" ELSE "get"]
      PROVE  GitInv'
  <2> DEFINE pc == IF Type(a) = "cgit" THEN "rsync" ELSE "get"
             c == [q EXCEPT !.pc = pc, !.repo = next]
  <2>1. next \in Bares
    BY <1>2 DEF Sound, Holds
  <2>2. admin' = [admin EXCEPT ![a] = [q EXCEPT !.repo = next, !.pc = pc]]
    BY <1>3 DEF GitInv
  <2>3. [q EXCEPT !.repo = next, !.pc = pc] = c
    <3> HIDE DEF pc, q
    <3> QED OBVIOUS
  <2>4. pc \in {"rsync", "get"}
    OBVIOUS
  <2> QED BY <1>1, <2>1, <2>2, <2>3, <2>4, SyncGoes
<1>4. CASE Finish(a)
  BY <1>1, <1>4, RowsStay, Finishes DEF GitInv
<1>5. ASSUME NEW pc \in {"rc", "state"}, Goto(a, pc)
      PROVE  GitInv'
  <2> DEFINE c == [q EXCEPT !.pc = pc]
  <2>1. admin' = [admin EXCEPT ![a] = c]
    BY <1>5, Going
  <2>2. c = [q EXCEPT !.pc = pc, !.repo = q.repo]
    <3> HIDE DEF q
    <3> QED BY <1>2 DEF Sound, Holds
  <2> QED BY <1>1, <2>1, <2>2, SyncGoes
<1> QED BY <1>3, <1>4, <1>5 DEF NextRepo

LEMMA Step_cgit_sync_repos ==
  ASSUME GitInv, NEW a \in Admins, cgit_sync_repos(a)
  PROVE  GitInv'
<1>1. admin[a].pc = "rsync" /\ UNCHANGED <<toml, gitRows, remote>>
  BY DEF cgit_sync_repos, At
<1>2. PICK fine \in {box[Host(a)].up, FALSE} :
         /\ box' = IF fine THEN [box EXCEPT ![Host(a)].pushed = @ \cup {admin[a].repo}] ELSE box
         /\ Advance(a, fine)
  BY DEF cgit_sync_repos
<1>3. fine \in BOOLEAN /\ Host(a) \in Boxes
  BY <1>1, Syncing DEF Machines
<1>4. \/ ~fine /\ box' = box
      \/ fine /\ box' = [box EXCEPT ![Host(a)].pushed = @ \cup {admin[a].repo}]
  BY <1>2, <1>3
<1> QED BY <1>1, <1>2, <1>3, <1>4, SyncAdvances

LEMMA Step_get_repo ==
  ASSUME GitInv, NEW a \in Admins, get_repo(a)
  PROVE  GitInv'
<1> DEFINE q == admin[a]
<1>1. q.pc = "get" /\ UNCHANGED <<toml, gitRows, box, remote>>
  BY DEF get_repo, At
<1>2. Sound(q, box)
  BY <1>1, Syncing
<1>3. PICK pc \in {"remote", "create"} : Goto(a, pc)
  BY DEF get_repo
<1> DEFINE c == [q EXCEPT !.pc = pc]
<1>4. admin' = [admin EXCEPT ![a] = c]
  BY <1>3, Going
<1>5. q.repo \in Bares
  BY <1>1, <1>2 DEF Sound, Holds
<1>6. c = [q EXCEPT !.pc = pc, !.repo = q.repo]
  <2> HIDE DEF q
  <2> QED BY <1>2 DEF Sound, Holds
<1> QED BY <1>1, <1>4, <1>5, <1>6, SyncGoes

\* a repository gets its remote, if it had none
LEMMA Step_AddRemote ==
  ASSUME GitInv, NEW a \in Admins, AddRemote(a)
  PROVE  GitInv'
<1> DEFINE q == admin[a]
           c == [q EXCEPT !.pc = "seturl"]
<1>1. q.pc = "remote" /\ UNCHANGED <<toml, gitRows, box>>
  BY DEF AddRemote, At
<1>2. Sound(q, box) /\ q.cmd = "sync" /\ Host(a) \in Boxes
  BY <1>1, Syncing
<1>3. admin' = [admin EXCEPT ![a] = c]
  BY Going DEF AddRemote
<1>4. q.repo \in Bares
  BY <1>1, <1>2 DEF Sound, Holds
<1>5. Registered'
  BY <1>1, RowsStay DEF GitInv
<1>6. /\ remote' \in [Bares -> Boxes \cup {NoServer}]
      /\ \A b \in Bares : remote[b] # NoServer => remote'[b] = remote[b]
  BY <1>2, <1>4 DEF AddRemote, GitInv, RemoteKnown
<1>7. /\ DOMAIN c = DOMAIN q /\ c.pc = "seturl" /\ c.cmd = q.cmd /\ c.label = q.label /\ c.section = q.section
      /\ c.cfg = q.cfg /\ c.old = q.old /\ c.chosen = q.chosen /\ c.left = q.left /\ c.repo = q.repo /\ c.ok = q.ok
      /\ c.found = q.found /\ c.astray = q.astray
  BY <1>2 DEF Sound, Holds
<1> HIDE DEF c
<1>8. Sound(c, box)
  <2>1. OnPath(c)
    BY <1>2, <1>7 DEF OnPath
  <2>2. Holds(c)
    BY <1>1, <1>2, <1>4, <1>7 DEF Sound, Holds
  <2>3. Climbed(c, box) /\ Arrived(c, box)
    BY <1>2, <1>7 DEF Sound, Climbed, Arrived
  <2> QED BY <2>1, <2>2, <2>3 DEF Sound
<1>9. ASSUME NEW b \in Admins PROVE Sound(admin'[b], box')
  BY <1>1, <1>3, <1>8 DEF GitInv
<1>10. RemoteKnown'
  <2> SUFFICES ASSUME NEW b \in Admins, admin'[b].pc = "push", admin'[b].repo \notin admin'[b].astray
               PROVE  remote'[admin'[b].repo] = admin'[b].cfg.host
    BY <1>6 DEF RemoteKnown, At, Host
  <2>1. b # a /\ admin'[b] = admin[b]
    BY <1>3, <1>7 DEF GitInv
  <2>2. remote[admin[b].repo] = admin[b].cfg.host
    BY <2>1 DEF GitInv, RemoteKnown, At, Host
  <2>3. admin[b].repo \in Bares /\ admin[b].cfg.host \in Boxes
    BY <2>1 DEF GitInv, Sound, Holds, Cfgs
  <2> QED BY <1>6, <2>1, <2>2, <2>3, GitServersAssumption
<1> QED BY <1>1, <1>3, <1>5, <1>9, <1>10 DEF GitInv

\* a command is about to push, what counts as astray being more than before
Pushing(q, more, c) == c = [q EXCEPT !.pc = "push", !.astray = more] /\ q.astray \subseteq more

LEMMA PushIsSound ==
  ASSUME NEW machines, NEW q, Sound(q, machines), q.pc \in {"seturl", "push"}, NEW c, NEW more, Pushing(q, more, c)
  PROVE  Sound(c, machines) /\ c.repo = q.repo /\ c.cfg = q.cfg /\ c.astray = more
<1>1. q.cmd = "sync" /\ q.pc \in Transfers /\ q.repo \in Bares
  BY DEF Sound, OnPath, Holds
<1>2. /\ DOMAIN c = DOMAIN q /\ c.pc = "push" /\ c.cmd = q.cmd /\ c.label = q.label /\ c.section = q.section
      /\ c.cfg = q.cfg /\ c.old = q.old /\ c.chosen = q.chosen /\ c.left = q.left /\ c.repo = q.repo /\ c.ok = q.ok
      /\ c.found = q.found /\ c.astray = more /\ q.astray \subseteq more
  BY DEF Sound, Holds, Pushing
<1>3. OnPath(c)
  BY <1>1, <1>2 DEF OnPath
<1>4. Holds(c)
  BY <1>1, <1>2 DEF Sound, Holds
<1>5. Climbed(c, machines) /\ Arrived(c, machines)
  BY <1>1, <1>2 DEF Sound, Climbed, Arrived
<1> QED BY <1>2, <1>3, <1>4, <1>5 DEF Sound

\* set-url: the pushes it turns elsewhere are those that now count as astray
LEMMA Step_SetUrl ==
  ASSUME GitInv, NEW a \in Admins, SetUrl(a)
  PROVE  GitInv'
<1> DEFINE r == admin[a].repo
<1>1. admin[a].pc = "seturl" /\ UNCHANGED <<toml, gitRows, box>>
  BY DEF SetUrl, At
<1>2. Sound(admin[a], box) /\ Host(a) \in Boxes /\ r \in Bares
  <2>1. Sound(admin[a], box) /\ Host(a) \in Boxes
    BY <1>1, Syncing
  <2> QED BY <1>1, <2>1 DEF Sound, Holds
<1>3. Registered'
  BY <1>1, RowsStay DEF GitInv
<1>4. CASE /\ remote' = [remote EXCEPT ![r] = Host(a)]
           /\ admin' = [b \in Admins |->
                          IF b = a THEN [admin[a] EXCEPT !.pc = "push"]
                          ELSE IF At(b, "push") /\ admin[b].repo = r /\ Host(b) # Host(a) THEN Misled(b, r) ELSE admin[b]]
  <2>1. /\ remote' \in [Bares -> Boxes \cup {NoServer}] /\ remote'[r] = Host(a)
        /\ \A b \in Bares : b # r => remote'[b] = remote[b]
    BY <1>2, <1>4 DEF GitInv, RemoteKnown
  <2>2. ASSUME NEW b \in Admins
        PROVE  /\ Sound(admin'[b], box)
               /\ admin'[b].pc = "push" /\ admin'[b].repo \notin admin'[b].astray =>
                     remote'[admin'[b].repo] = admin'[b].cfg.host
    <3>1. CASE b = a
      <4> DEFINE q == admin[a]
                 c == [q EXCEPT !.pc = "push"]
      <4>1. admin'[b] = c
        BY <1>4, <3>1
      <4> HIDE DEF q
      <4>2. Pushing(q, q.astray, c)
        BY <1>2 DEF Sound, Holds, q, Pushing
      <4> HIDE DEF c
      <4>3. Sound(c, box) /\ c.repo = q.repo /\ c.cfg = q.cfg
        BY <1>1, <1>2, <4>2, PushIsSound DEF q
      <4> QED BY <2>1, <4>1, <4>3 DEF Host, q
    <3>2. CASE b # a /\ At(b, "push") /\ admin[b].repo = r /\ Host(b) # Host(a)
      <4> DEFINE q == admin[b]
                 more == q.astray \cup {r}
                 c == [q EXCEPT !.astray = more]
      <4>1. admin'[b] = c
        BY <1>4, <3>2 DEF Misled
      <4>2. q.pc = "push" /\ Sound(q, box) /\ r \in more /\ q.astray \subseteq more /\ q.repo = r
        BY <3>2 DEF At, GitInv
      <4> HIDE DEF q, more
      <4>3. Pushing(q, more, c)
        BY <4>2 DEF Sound, Holds, Pushing
      <4> HIDE DEF c
      <4>4. Sound(c, box) /\ c.repo = r /\ c.astray = more
        BY <4>2, <4>3, PushIsSound
      <4> QED BY <4>1, <4>2, <4>4
    <3>3. CASE b # a /\ ~(At(b, "push") /\ admin[b].repo = r /\ Host(b) # Host(a))
      <4>1. admin'[b] = admin[b] /\ Sound(admin[b], box)
        BY <1>4, <3>3 DEF GitInv
      <4>2. ASSUME admin[b].pc = "push", admin[b].repo \notin admin[b].astray
            PROVE  remote'[admin[b].repo] = admin[b].cfg.host
        <5>1. remote[admin[b].repo] = Host(b) /\ admin[b].repo \in Bares
          BY <4>1, <4>2 DEF GitInv, RemoteKnown, At, Sound, Holds
        <5>2. CASE admin[b].repo = r
          BY <2>1, <3>3, <4>2, <5>2 DEF At, Host
        <5>3. CASE admin[b].repo # r
          BY <2>1, <5>1, <5>3 DEF Host
        <5> QED BY <5>2, <5>3
      <4> QED BY <4>1, <4>2
    <3> QED BY <3>1, <3>2, <3>3
  <2>3. RemoteKnown'
    BY <2>1, <2>2 DEF RemoteKnown, At, Host
  <2>4. DOMAIN admin' = Admins
    BY <1>4
  <2> QED BY <1>1, <1>3, <2>2, <2>3, <2>4 DEF GitInv
<1>5. CASE /\ remote' = remote
           /\ admin' = [admin EXCEPT ![a] = [(IF remote[r] = Host(a) THEN admin[a] ELSE Misled(a, r)) EXCEPT !.pc = "push"]]
  <2> DEFINE q == admin[a]
             c == [(IF remote[r] = Host(a) THEN q ELSE Misled(a, r)) EXCEPT !.pc = "push"]
  <2>1. Sound(c, box) /\ c.repo = r /\ c.cfg = q.cfg /\ (remote[r] # Host(a) => r \in c.astray)
    <3>1. CASE remote[r] = Host(a)
      <4>1. c = [q EXCEPT !.pc = "push"]
        BY <3>1
      <4> HIDE DEF c, q
      <4>2. Pushing(q, q.astray, c)
        BY <1>2, <4>1 DEF Sound, Holds, q, Pushing
      <4>3. Sound(c, box) /\ c.repo = q.repo /\ c.cfg = q.cfg
        BY <1>1, <1>2, <4>2, PushIsSound DEF q
      <4> QED BY <3>1, <4>3 DEF q
    <3>2. CASE remote[r] # Host(a)
      <4> DEFINE more == q.astray \cup {r}
      <4>1. c = [[q EXCEPT !.astray = more] EXCEPT !.pc = "push"]
        BY <3>2 DEF Misled
      <4>2. r \in more /\ q.astray \subseteq more
        OBVIOUS
      <4> HIDE DEF c, q, more
      <4>3. Pushing(q, more, c)
        BY <4>1, <4>2, <1>2 DEF Sound, Holds, q, Pushing
      <4>4. Sound(c, box) /\ c.repo = q.repo /\ c.cfg = q.cfg /\ c.astray = more
        BY <1>1, <1>2, <4>2, <4>3, PushIsSound DEF q
      <4> QED BY <4>2, <4>4 DEF q
    <3> QED BY <3>1, <3>2
  <2>2. admin' = [admin EXCEPT ![a] = c]
    BY <1>5
  <2> HIDE DEF c
  <2>3. \A b \in Admins : Sound(admin'[b], box)
    BY <2>1, <2>2 DEF GitInv
  <2>4. RemoteKnown'
    <3> SUFFICES ASSUME NEW b \in Admins, admin'[b].pc = "push", admin'[b].repo \notin admin'[b].astray
                 PROVE  remote[admin'[b].repo] = admin'[b].cfg.host
      BY <1>5 DEF GitInv, RemoteKnown, At, Host
    <3>1. CASE b = a
      BY <2>1, <2>2, <3>1 DEF GitInv, Host
    <3>2. CASE b # a
      BY <2>2, <3>2 DEF GitInv, RemoteKnown, At, Host
    <3> QED BY <3>1, <3>2
  <2> QED BY <1>1, <1>3, <2>2, <2>3, <2>4 DEF GitInv
<1> QED BY <1>4, <1>5 DEF SetUrl

\* the push goes to the machine of the command unless it counts as astray
LEMMA Step_gitea_sync_repos ==
  ASSUME GitInv, NEW a \in Admins, gitea_sync_repos(a)
  PROVE  GitInv'
<1>1. admin[a].pc = "push" /\ UNCHANGED <<toml, gitRows, remote>>
  BY DEF gitea_sync_repos, At
<1>2. CASE box' = box /\ Advance(a, FALSE)
  BY <1>1, <1>2, Syncing, SyncAdvances
<1>3. ASSUME NEW h \in Boxes, h = remote[admin[a].repo], admin[a].repo \in box[h].forge,
             box' = [box EXCEPT ![h].pushed = @ \cup {admin[a].repo}], Advance(a, TRUE)
      PROVE  GitInv'
  <2>1. h = Host(a) \/ admin[a].repo \in admin[a].astray
    BY <1>1, <1>3 DEF GitInv, RemoteKnown, At
  <2> QED BY <1>1, <1>3, <2>1, SyncAdvances
<1> QED BY <1>2, <1>3 DEF gitea_sync_repos

LEMMA Step_create_repo ==
  ASSUME GitInv, NEW a \in Admins, create_repo(a)
  PROVE  GitInv'
<1> DEFINE q == admin[a]
           h == Host(a)
           m == [box[h] EXCEPT !.forge = box[h].forge \cup {q.repo}]
           c == [q EXCEPT !.pc = "remote"]
<1>1. q.pc = "create" /\ UNCHANGED <<toml, gitRows, remote>>
  BY DEF create_repo, At
<1>2. Sound(q, box) /\ q.cmd = "sync" /\ h \in Boxes /\ box[h] \in Machines
  BY <1>1, Syncing
<1>3. CASE box' = [box EXCEPT ![Host(a)].forge = @ \cup {admin[a].repo}] /\ Goto(a, "remote")
  <2>1. admin' = [admin EXCEPT ![a] = c]
    BY <1>3, Going
  <2>2. q.repo \in Bares
    BY <1>1, <1>2 DEF Sound, Holds
  <2>3. box' = [box EXCEPT ![h] = m]
    BY <1>3
  <2> HIDE DEF q, h
  <2>4. m \in Machines /\ m.has = box[h].has /\ m.pushed = box[h].pushed /\ box[h].forge \subseteq m.forge
    BY <1>2, <2>2 DEF Machines
  <2> HIDE DEF m
  <2>5. box' \in [Boxes -> Machines] /\ Grown(box, box')
    BY <1>2, <2>3, <2>4 DEF GitInv, Grown
  <2>6. Sound(q, box')
    BY <1>2, <2>5, SoundStays DEF GitInv
  <2>7. /\ DOMAIN c = DOMAIN q /\ c.pc = "remote" /\ c.cmd = q.cmd /\ c.label = q.label /\ c.section = q.section
        /\ c.cfg = q.cfg /\ c.old = q.old /\ c.chosen = q.chosen /\ c.left = q.left /\ c.repo = q.repo /\ c.ok = q.ok
        /\ c.found = q.found /\ c.astray = q.astray
    BY <1>2 DEF Sound, Holds
  <2> HIDE DEF c
  <2>8. OnPath(c)
    BY <1>2, <2>7 DEF OnPath
  <2>9. Holds(c)
    BY <1>1, <1>2, <2>2, <2>7 DEF Sound, Holds
  <2>10. Climbed(c, box') /\ Arrived(c, box')
    BY <1>2, <2>6, <2>7 DEF Sound, Climbed, Arrived
  <2>11. Registered'
    BY <1>1, RowsStay DEF GitInv
  <2> QED BY <1>1, <2>1, <2>5, <2>7, <2>8, <2>9, <2>10, <2>11, AdminMoves DEF Sound
<1>4. CASE box' = box /\ Advance(a, FALSE)
  BY <1>1, <1>2, <1>4, SyncAdvances
<1> QED BY <1>3, <1>4 DEF create_repo

LEMMA Step_environment ==
  ASSUME GitInv,
         \/ \E a \in Admins : Killed(a)
         \/ \E l \in Labels : remove_server(l) \/ EditConfig(l)
         \/ \E h \in Boxes \cap Unsteady : Outage(h)
  PROVE  GitInv'
<1>1. ASSUME NEW a \in Admins, Killed(a) PROVE GitInv'
  BY <1>1, RowsStay, Finishes DEF Killed, GitInv
<1>2. box' = box => box' \in [Boxes -> Machines] /\ Grown(box, box')
  BY DEF GitInv, Grown
<1>3. ASSUME NEW l \in Labels, remove_server(l) PROVE GitInv'
  <2>1. Registered'
    BY <1>3, RowsStayFine DEF remove_server, GitInv, FineOrNone
  <2> QED BY <1>2, <1>3, <2>1, OthersMove DEF remove_server
<1>4. ASSUME NEW l \in Labels, EditConfig(l) PROVE GitInv'
  <2>1. Registered'
    BY <1>4 DEF EditConfig, GitInv, Registered
  <2> QED BY <1>2, <1>4, <2>1, OthersMove DEF EditConfig
<1>5. ASSUME NEW h \in Boxes \cap Unsteady, Outage(h) PROVE GitInv'
  <2> DEFINE up == ~box[h].up
             m == [box[h] EXCEPT !.up = up]
  <2>1. box[h] \in Machines /\ box' = [box EXCEPT ![h] = m]
    BY <1>5 DEF Outage, GitInv
  <2>2. up \in BOOLEAN
    OBVIOUS
  <2> HIDE DEF up
  <2>3. m \in Machines /\ m.has = box[h].has /\ m.pushed = box[h].pushed /\ m.forge = box[h].forge
    BY <2>1, <2>2 DEF Machines
  <2> HIDE DEF m
  <2>4. box' \in [Boxes -> Machines] /\ Grown(box, box')
    BY <2>1, <2>3 DEF GitInv, Grown
  <2>5. Registered'
    BY <1>5, RowsStay DEF Outage, GitInv
  <2> QED BY <1>5, <2>4, <2>5, OthersMove DEF Outage
<1> QED BY <1>1, <1>3, <1>4, <1>5

LEMMA GitStep == GitInv /\ [GitNext]_gitVars => GitInv'
<1> SUFFICES ASSUME GitInv, [GitNext]_gitVars PROVE GitInv'
  OBVIOUS
<1>1. CASE UNCHANGED gitVars
  BY <1>1 DEF gitVars, GitInv, Registered, RemoteKnown, At, Host
<1>2. ASSUME NEW a \in Admins, NEW l \in Labels,
             cmd_git_server_add(a, l) \/ cmd_git_server_status(a, l) \/ cmd_git_server_install(a, l)
                \/ cmd_git_server_sync(a, l)
      PROVE  GitInv'
  BY <1>2, StepStart
<1>3. ASSUME NEW a \in Admins,
             \/ AddReads(a) \/ registry_add_server(a) \/ OfferSync(a) \/ SyncReads(a) \/ sync_config_to_database(a)
             \/ confirm(a) \/ Probe(a) \/ StoreInstalled(a) \/ StoreState(a)
      PROVE  GitInv'
  BY <1>3, StepAddReads, StepUpsert, StepOffer, StepSyncReads, StepSyncConfig, StepConfirm, StepProbe,
     StepStoreInstalled, StepStoreState
<1>4. ASSUME NEW a \in Admins,
             \/ ssh_test_connection(a) \/ install_deps(a) \/ setup_fcgiwrap(a) \/ create_repo_directory(a)
             \/ setup_web_server(a) \/ download_gitea_binary(a) \/ setup_systemd_service(a)
             \/ setup_git_user(a) \/ create_gitea_user(a) \/ deploy_ssh_key(a)
      PROVE  GitInv'
  BY <1>4, Step_ssh_test_connection, Step_install_deps, Step_setup_fcgiwrap, Step_create_repo_directory,
     Step_setup_web_server, Step_download_gitea_binary, Step_setup_systemd_service, Step_setup_git_user,
     Step_create_gitea_user, Step_deploy_ssh_key
<1>5. ASSUME NEW a \in Admins,
             \/ InstallIni(a) \/ initialize_database(a) \/ StartGitea(a) \/ create_admin_token(a) \/ StoreToken(a)
             \/ Discover(a) \/ configure(a)
      PROVE  GitInv'
  BY <1>5, Step_InstallIni, Step_initialize_database, Step_StartGitea, Step_create_admin_token, StepStoreToken,
     Step_Discover, Step_configure
<1>6. ASSUME NEW a \in Admins,
             \/ NextRepo(a) \/ cgit_sync_repos(a) \/ get_repo(a) \/ create_repo(a)
             \/ AddRemote(a) \/ SetUrl(a) \/ gitea_sync_repos(a)
      PROVE  GitInv'
  BY <1>6, Step_NextRepo, Step_cgit_sync_repos, Step_get_repo, Step_create_repo,
     Step_AddRemote, Step_SetUrl, Step_gitea_sync_repos
<1>7. CASE \/ \E a \in Admins : Killed(a)
           \/ \E l \in Labels : remove_server(l) \/ EditConfig(l)
           \/ \E h \in Boxes \cap Unsteady : Outage(h)
  BY <1>7, Step_environment
<1> QED BY <1>1, <1>2, <1>3, <1>4, <1>5, <1>6, <1>7, Zenon DEF GitNext

HIDE DEF CgitPhases, AfterPackages, AfterFcgiwrap, AfterAccount, AfterRepodir, CgitLeft,
         GiteaPhases, AfterBinary, AfterUser, AfterIni, AfterUnit, AfterMigrate, GiteaLeft, Transfers

(* What the commands on git servers believe, hold and have left behind, for   *)
(* any number of processes, servers and machines (server_registry.cpp,       *)
(* cgit.cpp, gitea.cpp).                                                      *)
THEOREM GitServersAlways == GitSpec => []GitInv
  BY GitStart, GitStep, PTL DEF GitSpec

(* A row says what its hash covers, so `git server status` calls no settings  *)
(* unchanged that differ in type or machine, however adds, installs, syncs    *)
(* and edits of config.toml interleave.                                       *)
THEOREM UnchangedSettingsAreSame == GitSpec => []UnchangedMeansSame
<1>1. GitInv => UnchangedMeansSame
  <2> SUFFICES ASSUME GitInv, NEW l \in Labels, toml[l] # NoServer, gitRows[l] # NoServer,
                      ~get_server(l, toml[l]).changed
               PROVE  compute_config_hash(gitRows[l].cfg) = compute_config_hash(toml[l])
    BY DEF UnchangedMeansSame
  <2> DEFINE r == gitRows[l]
             c == toml[l]
  <2>1. FineRow(r)
    BY DEF GitInv, Registered, FineOrNone
  <2>2. get_server(l, c).changed = (r.hash # compute_config_hash(c))
    BY DEF get_server, load_from_config, load_from_database
  <2>3. r.hash = compute_config_hash(c)
    BY <2>2
  <2> QED BY <2>1, <2>3 DEF FineRow
<1> QED BY <1>1, GitServersAlways, PTL

(* "Installation complete" is printed only for a machine that has what each   *)
(* step that may end the installation leaves, for any number of concurrent    *)
(* and retried installations of either kind, from whatever the machine held.  *)
(* It does not claim the data directories and their owner: the phase that     *)
(* makes them is passed over when the git user exists.                        *)
THEOREM CompleteInstallsAreDeployed == GitSpec => []CompleteMeansDeployed
<1>1. GitInv => CompleteMeansDeployed
  <2> SUFFICES ASSUME GitInv, NEW a \in Admins, admin[a].cmd = "install", admin[a].pc \in {"store", "mark", "state"}
               PROVE  (CASE Type(a) = "cgit" -> {"packages", "fcgiwrap", "user", "dotssh", "repodir", "web"}
                         [] OTHER -> {"binary", "user", "home", "confdir", "ini", "unit", "db", "started"}) \subseteq box[Host(a)].has
    BY DEF CompleteMeansDeployed
  <2> DEFINE has == box[Host(a)].has
  <2>1. Climbed(admin[a], box) /\ OnPath(admin[a])
    BY DEF GitInv, Sound
  <2>2. Type(a) = "cgit" \/ Type(a) = "gitea"
    BY <2>1 DEF OnPath, Type
  <2>3. Type(a) = "cgit" => {"packages", "fcgiwrap", "user", "dotssh", "repodir", "web"} \subseteq has
    <3> SUFFICES ASSUME Type(a) = "cgit" PROVE {"packages", "fcgiwrap", "user", "dotssh", "repodir", "web"} \subseteq has
      OBVIOUS
    <3>1. admin[a].pc \in CgitLeft
      BY <2>1 DEF OnPath, Type, CgitPhases, AfterPackages, AfterFcgiwrap, AfterAccount, AfterRepodir, CgitLeft
    <3> QED BY <2>1, <3>1 DEF Climbed, Type, Host, AfterPackages, AfterFcgiwrap, AfterAccount, AfterRepodir
  <2>4. Type(a) = "gitea" => {"binary", "user", "home", "confdir", "ini", "unit", "db", "started"} \subseteq has
    <3> SUFFICES ASSUME Type(a) = "gitea" PROVE {"binary", "user", "home", "confdir", "ini", "unit", "db", "started"} \subseteq has
      OBVIOUS
    <3>1. admin[a].pc \in GiteaLeft
      BY DEF GiteaLeft
    <3> QED BY <2>1, <3>1 DEF Climbed, Type, Host, AfterBinary, AfterUser, AfterIni, AfterUnit, AfterMigrate
  <2> QED BY <2>2, <2>3, <2>4
<1> QED BY <1>1, GitServersAlways, PTL

(* A sync that is still fine has brought every repository it is done with to  *)
(* the machine it was asked for, whatever failed for one and worked for the   *)
(* next; or to the gitea of some other machine, when a refused set-url or     *)
(* another sync's had turned the shared remote before its push (sync_repos    *)
(* of cgit and gitea, gitea.cpp:759-774).                                     *)
THEOREM SyncedReposArrived == GitSpec => []SyncedMeansArrived
<1>1. GitInv => SyncedMeansArrived
  BY DEF GitInv, Sound, Arrived, Somewhere, SyncedMeansArrived, Host
<1> QED BY <1>1, GitServersAlways, PTL

----------------------------------------------------------------------------
(* failures, patterns and recoveries                                        *)

Signatures == {compute_error_signature(msg) : msg \in Messages}
FailureTypes == {"test", "link", "build"}
FailureRows ==
    [sig : Signatures, msg : Messages, type : FailureTypes, before : Nat, resolved : BOOLEAN,
     how : {"", "restore", "fix"}, with : Nat]

FailuresTyped ==
    /\ wsnaps \subseteq Nat /\ nextSnap \in Nat
    /\ failures \in Seq(FailureRows)
    /\ learners \in [Learners -> [pc : {"idle", "match", "learn", "create"}, f : Nat]]

\* a failure keeps no id of a snapshot that is gone
KeepsLive == \A f \in DOMAIN failures : {failures[f].before, failures[f].with} \subseteq wsnaps \cup {0}

\* each process that learns does so from a failure of its own
Busy(p) == learners[p].pc # "idle"
EachItsOwn ==
    /\ \A p \in Learners : Busy(p) => learners[p].f \in DOMAIN failures
    /\ \A p, q \in Learners : Busy(p) /\ Busy(q) /\ p # q => learners[p].f # learners[q].f

\* the failures of a signature that nobody is learning from any more
Settled(s) == {f \in SameSignature(s) : \A p \in Learners : Busy(p) => learners[p].f # f}

\* a process that is to learn has seen three alike
SeenThree ==
    \A p \in Learners, s \in Signatures :
        learners[p].pc \in {"learn", "create"} /\ failures[learners[p].f].sig = s => Cardinality(SameSignature(s)) >= 3

\* a pattern counts settled failures only
CountsSettled ==
    \A s \in DOMAIN patterns :
        /\ patterns[s] \in [type : FailureTypes, count : Nat] /\ patterns[s].count <= Cardinality(Settled(s))
        /\ Cardinality(SameSignature(s)) >= 3

\* a stored action has its id; one made up has none
StoredNumbered == \A i \in DOMAIN actions : "id" \in DOMAIN actions[i] /\ actions[i].id = 1

\* a suggestion begun keeps the row it read: what that names may go while it is at work
RowStands ==
    /\ {"pc", "failure", "found", "gone"} \subseteq DOMAIN recovery
    /\ ~Suggesting => recovery.found = {}
    /\ Suggesting => /\ recovery.failure \in FailureRows
                     /\ recovery.failure.before \in wsnaps \cup recovery.gone \cup {0}

RecoveryStands == StoredNumbered /\ RowStands /\ SuggestionsWereLive

LearningInv == FailuresTyped /\ KeepsLive /\ EachItsOwn /\ SeenThree /\ CountsSettled /\ RecoveryStands

LEMMA SameIsFinite ==
  ASSUME NEW s, FailuresTyped
  PROVE  /\ IsFiniteSet(SameSignature(s)) /\ Cardinality(SameSignature(s)) \in Nat
         /\ IsFiniteSet(Settled(s)) /\ Cardinality(Settled(s)) \in Nat
<1>1. DOMAIN failures = 1..Len(failures) /\ Len(failures) \in Nat
  BY DEF FailuresTyped
<1>2. IsFiniteSet(DOMAIN failures)
  BY <1>1, FS_Interval
<1>3. SameSignature(s) \subseteq DOMAIN failures /\ Settled(s) \subseteq SameSignature(s)
  BY DEF SameSignature, Settled
<1>4. IsFiniteSet(SameSignature(s)) /\ IsFiniteSet(Settled(s))
  BY <1>2, <1>3, FS_Subset
<1> QED BY <1>4, FS_CardinalityType

LEMMA SameIsFiniteLater ==
  ASSUME NEW s, FailuresTyped'
  PROVE  /\ IsFiniteSet(SameSignature(s)') /\ Cardinality(SameSignature(s)') \in Nat
         /\ IsFiniteSet(Settled(s)') /\ Cardinality(Settled(s)') \in Nat
<1>1. DOMAIN failures' = 1..Len(failures') /\ Len(failures') \in Nat
  BY DEF FailuresTyped
<1>2. IsFiniteSet(DOMAIN failures')
  BY <1>1, FS_Interval
<1>3. SameSignature(s)' \subseteq DOMAIN failures' /\ Settled(s)' \subseteq SameSignature(s)'
  BY DEF SameSignature, Settled
<1>4. IsFiniteSet(SameSignature(s)') /\ IsFiniteSet(Settled(s)')
  BY <1>2, <1>3, FS_Subset
<1> QED BY <1>4, FS_CardinalityType

LEMMA MoreAreSame ==
  ASSUME NEW s, FailuresTyped, FailuresTyped', Cardinality(SameSignature(s)) >= 3, SameSignature(s) \subseteq SameSignature(s)'
  PROVE  Cardinality(SameSignature(s)') >= 3
<1>1. IsFiniteSet(SameSignature(s)') /\ Cardinality(SameSignature(s)') \in Nat /\ Cardinality(SameSignature(s)) \in Nat
  BY SameIsFinite, SameIsFiniteLater
<1>2. Cardinality(SameSignature(s)) <= Cardinality(SameSignature(s)')
  BY <1>1, FS_Subset
<1> QED BY <1>1, <1>2

\* failures and learners may change as long as nothing is unsettled
LEMMA PatternsKeep ==
  ASSUME FailuresTyped, FailuresTyped', CountsSettled, UNCHANGED patterns,
         \A s : SameSignature(s) \subseteq SameSignature(s)' /\ Settled(s) \subseteq Settled(s)'
  PROVE  CountsSettled'
<1> SUFFICES ASSUME NEW s \in DOMAIN patterns
             PROVE  /\ patterns[s] \in [type : FailureTypes, count : Nat] /\ patterns[s].count <= Cardinality(Settled(s)')
                    /\ Cardinality(SameSignature(s)') >= 3
  BY DEF CountsSettled
<1>1. /\ IsFiniteSet(SameSignature(s)') /\ Cardinality(SameSignature(s)') \in Nat
      /\ IsFiniteSet(Settled(s)') /\ Cardinality(Settled(s)') \in Nat
  BY SameIsFiniteLater
<1>2. Cardinality(SameSignature(s)) <= Cardinality(SameSignature(s)') /\ Cardinality(Settled(s)) <= Cardinality(Settled(s)')
  BY <1>1, FS_Subset
<1>3. Cardinality(SameSignature(s)) \in Nat /\ Cardinality(Settled(s)) \in Nat
  BY SameIsFinite
<1>4. /\ patterns[s] \in [type : FailureTypes, count : Nat] /\ patterns[s].count <= Cardinality(Settled(s))
      /\ Cardinality(SameSignature(s)) >= 3
  BY DEF CountsSettled
<1> HIDE DEF SameSignature, Settled
<1> QED BY <1>1, <1>2, <1>3, <1>4

\* more snapshots hurt nothing
LEMMA RecoveryKeeps ==
  ASSUME LearningInv, wsnaps \subseteq wsnaps', UNCHANGED <<actions, recovery>>
  PROVE  RecoveryStands'
<1>1. StoredNumbered'
  BY DEF LearningInv, RecoveryStands, StoredNumbered
<1>2. RowStands'
  BY DEF LearningInv, RecoveryStands, RowStands, Suggesting
<1>3. SuggestionsWereLive'
  BY DEF LearningInv, RecoveryStands, SuggestionsWereLive
<1> QED BY <1>1, <1>2, <1>3 DEF RecoveryStands

\* a suggestion that is over, or that nobody asked for
LEMMA NothingFound ==
  ASSUME StoredNumbered', {"pc", "failure", "found", "gone"} \subseteq DOMAIN recovery', recovery'.found = {}, ~Suggesting'
  PROVE  RecoveryStands'
<1>1. RowStands'
  BY DEF RowStands
<1>2. SuggestionsWereLive'
  BY DEF SuggestionsWereLive
<1> QED BY <1>1, <1>2 DEF RecoveryStands

LEMMA LearningStart == LearningInit => LearningInv
<1> SUFFICES ASSUME LearningInit PROVE LearningInv
  OBVIOUS
<1>1. failures = <<>> /\ DOMAIN failures = {} /\ DOMAIN patterns = {} /\ DOMAIN actions = {}
  BY DEF LearningInit
<1>2. learners \in [Learners -> [pc : {"idle", "match", "learn", "create"}, f : Nat]] /\ \A p \in Learners : ~Busy(p)
  BY DEF LearningInit, NoLearner, Busy
<1>3. FailuresTyped
  BY <1>1, <1>2 DEF LearningInit, FailuresTyped
<1>4. SeenThree
  BY <1>2 DEF SeenThree, Busy
<1>5. RecoveryStands
  <2>1. recovery = NoRecovery /\ actions = <<>>
    BY DEF LearningInit
  <2> QED BY <2>1, <1>1 DEF NoRecovery, RecoveryStands, StoredNumbered, RowStands, Suggesting, SuggestionsWereLive
<1> QED BY <1>1, <1>2, <1>3, <1>4, <1>5 DEF LearningInv, KeepsLive, EachItsOwn, CountsSettled

LEMMA TypeOfFailure ==
  ASSUME NEW kindOf, NEW msg
  PROVE  infer_failure_type(kindOf, msg) \in FailureTypes
<1>1. CASE kindOf = "test"
  BY <1>1 DEF infer_failure_type, FailureTypes
<1>2. CASE kindOf = "make"
  BY <1>2 DEF infer_failure_type, FailureTypes
<1>3. CASE kindOf # "test" /\ kindOf # "make"
  BY <1>3 DEF infer_failure_type, FailureTypes
<1> QED BY <1>1, <1>2, <1>3

(* record_failure inserts the failure, then looks for others like it *)
LEMMA StepRecord ==
  ASSUME LearningInv, NEW p \in Learners, NEW c \in Commands, NEW msg \in Messages, NEW before \in wsnaps,
         record_failure_with_context(p, detect_failure(c, msg), msg, before)
  PROVE  LearningInv'
<1> DEFINE type == detect_failure(c, msg)
           row == [sig |-> compute_error_signature(msg), msg |-> msg, type |-> type, before |-> before,
                   resolved |-> FALSE, how |-> "", with |-> 0]
           n == Len(failures) + 1
           own == [pc |-> "match", f |-> n]
<1>1. type \in FailureTypes
  BY TypeOfFailure DEF record_failure_with_context, detect_failure
<1>2. /\ failures' = Append(failures, row) /\ learners' = [learners EXCEPT ![p] = own] /\ learners[p].pc = "idle"
      /\ UNCHANGED <<wsnaps, nextSnap, patterns, actions, recovery>>
  BY DEF record_failure_with_context
<1> HIDE DEF type
<1>3. row \in FailureRows /\ row.before = before /\ row.with = 0
  BY <1>1 DEF FailureRows, Signatures, LearningInv, FailuresTyped
<1> HIDE DEF row
<1>4. failures \in Seq(FailureRows) /\ Len(failures) \in Nat /\ DOMAIN failures = 1..Len(failures)
  BY DEF LearningInv, FailuresTyped
<1>5. /\ failures' \in Seq(FailureRows) /\ DOMAIN failures' = 1..n /\ failures'[n] = row /\ n \in Nat
      /\ \A f \in DOMAIN failures : f \in DOMAIN failures' /\ failures'[f] = failures[f] /\ f # n
  BY <1>2, <1>3, <1>4
<1>6. own \in [pc : {"idle", "match", "learn", "create"}, f : Nat]
  BY <1>5
<1>7. FailuresTyped'
  BY <1>2, <1>5, <1>6 DEF LearningInv, FailuresTyped
<1>8. KeepsLive'
  <2> SUFFICES ASSUME NEW f \in DOMAIN failures' PROVE {failures'[f].before, failures'[f].with} \subseteq wsnaps' \cup {0}
    BY DEF KeepsLive
  <2>1. CASE f \in DOMAIN failures
    BY <1>2, <1>5, <2>1 DEF LearningInv, KeepsLive
  <2>2. CASE f = n
    BY <1>2, <1>3, <1>5, <2>2
  <2> QED BY <1>4, <1>5, <2>1, <2>2
<1>9. learners'[p] = own /\ \A q \in Learners : q # p => learners'[q] = learners[q]
  BY <1>2 DEF LearningInv, FailuresTyped
<1>10. EachItsOwn'
  <2>1. \A q \in Learners : Busy(q)' => learners'[q].f \in DOMAIN failures'
    <3> SUFFICES ASSUME NEW q \in Learners, Busy(q)' PROVE learners'[q].f \in DOMAIN failures'
      OBVIOUS
    <3>1. CASE q = p
      BY <1>4, <1>5, <1>9, <3>1
    <3>2. CASE q # p
      BY <1>5, <1>9, <3>2 DEF LearningInv, EachItsOwn, Busy
    <3> QED BY <3>1, <3>2
  <2>2. \A q \in Learners : q # p /\ Busy(q)' => learners'[q].f # n
    BY <1>5, <1>9 DEF LearningInv, EachItsOwn, Busy
  <2>3. ASSUME NEW q \in Learners, NEW r \in Learners, Busy(q)', Busy(r)', q # r
        PROVE  learners'[q].f # learners'[r].f
    <3>1. CASE q = p
      BY <1>9, <2>2, <2>3, <3>1
    <3>2. CASE r = p
      BY <1>9, <2>2, <2>3, <3>2
    <3>3. CASE q # p /\ r # p
      BY <1>9, <2>3, <3>3 DEF LearningInv, EachItsOwn, Busy
    <3> QED BY <3>1, <3>2, <3>3
  <2> QED BY <2>1, <2>3 DEF EachItsOwn
<1>11. \A s : SameSignature(s) \subseteq SameSignature(s)' /\ Settled(s) \subseteq Settled(s)'
  <2> SUFFICES ASSUME NEW s, NEW f \in SameSignature(s)
               PROVE  f \in SameSignature(s)' /\ (f \in Settled(s) => f \in Settled(s)')
    BY DEF Settled
  <2>1. f \in DOMAIN failures /\ failures[f].sig = s
    BY DEF SameSignature
  <2>2. f \in SameSignature(s)'
    BY <1>5, <2>1 DEF SameSignature
  <2>3. ASSUME f \in Settled(s) PROVE f \in Settled(s)'
    <3>1. \A q \in Learners : Busy(q)' => learners'[q].f # f
      <4> SUFFICES ASSUME NEW q \in Learners, Busy(q)' PROVE learners'[q].f # f
        OBVIOUS
      <4>1. CASE q = p
        BY <1>5, <1>9, <2>1, <4>1
      <4>2. CASE q # p
        BY <1>9, <2>3, <4>2 DEF Settled, Busy
      <4> QED BY <4>1, <4>2
    <3> QED BY <2>2, <3>1 DEF Settled
  <2> QED BY <2>2, <2>3
<1>12. CountsSettled'
  BY <1>2, <1>7, <1>11, PatternsKeep DEF LearningInv
<1>13. SeenThree'
  <2> SUFFICES ASSUME NEW q \in Learners, NEW s \in Signatures, learners'[q].pc \in {"learn", "create"},
                      failures'[learners'[q].f].sig = s
               PROVE  Cardinality(SameSignature(s)') >= 3
    BY DEF SeenThree
  <2>1. q # p /\ learners'[q] = learners[q]
    BY <1>9
  <2>2. learners[q].f \in DOMAIN failures
    BY <2>1 DEF LearningInv, EachItsOwn, Busy
  <2>3. failures[learners[q].f].sig = s
    BY <1>5, <2>1, <2>2
  <2>4. Cardinality(SameSignature(s)) >= 3
    BY <2>1, <2>3 DEF LearningInv, SeenThree
  <2>5. SameSignature(s) \subseteq SameSignature(s)'
    BY <1>11
  <2> QED BY <1>7, <2>4, <2>5, MoreAreSame DEF LearningInv
<1> QED BY <1>2, <1>7, <1>8, <1>10, <1>12, <1>13, RecoveryKeeps DEF LearningInv

\* a process that is done with its failure settles it
LEMMA LearnerSettles ==
  ASSUME LearningInv, NEW p \in Learners, Busy(p), learners' = [learners EXCEPT ![p] = NoLearner],
         UNCHANGED <<wsnaps, nextSnap, failures>>
  PROVE  /\ FailuresTyped' /\ KeepsLive' /\ EachItsOwn' /\ SeenThree'
         /\ \A s : SameSignature(s)' = SameSignature(s) /\ Settled(s) \subseteq Settled(s)'
         /\ \A s : failures[learners[p].f].sig = s =>
               learners[p].f \in Settled(s)' /\ learners[p].f \notin Settled(s)
<1>1. learners'[p] = NoLearner /\ \A q \in Learners : q # p => learners'[q] = learners[q]
  BY DEF LearningInv, FailuresTyped
<1>2. ~Busy(p)' /\ \A q \in Learners : q # p => Busy(q)' = Busy(q)
  BY <1>1 DEF Busy, NoLearner
<1>3. NoLearner \in [pc : {"idle", "match", "learn", "create"}, f : Nat]
  BY DEF NoLearner
<1>4. FailuresTyped'
  BY <1>3 DEF LearningInv, FailuresTyped
<1>5. KeepsLive'
  BY DEF LearningInv, KeepsLive
<1>6. EachItsOwn'
  BY <1>1, <1>2 DEF LearningInv, EachItsOwn
<1>7. \A s : SameSignature(s)' = SameSignature(s)
  BY DEF SameSignature
<1>8. SeenThree'
  <2> SUFFICES ASSUME NEW q \in Learners, NEW s \in Signatures, learners'[q].pc \in {"learn", "create"},
                      failures'[learners'[q].f].sig = s
               PROVE  Cardinality(SameSignature(s)') >= 3
    BY DEF SeenThree
  <2>1. q # p /\ learners'[q] = learners[q]
    BY <1>1 DEF NoLearner
  <2>2. Cardinality(SameSignature(s)) >= 3
    BY <2>1 DEF LearningInv, SeenThree
  <2> QED BY <1>7, <2>2
<1>9. \A s : Settled(s) \subseteq Settled(s)'
  BY <1>1, <1>2, <1>7 DEF Settled
<1>10. ASSUME NEW s, failures[learners[p].f].sig = s
       PROVE  learners[p].f \in Settled(s)' /\ learners[p].f \notin Settled(s)
  <2>1. learners[p].f \in DOMAIN failures
    BY DEF LearningInv, EachItsOwn
  <2>2. learners[p].f \in SameSignature(s)
    BY <1>10, <2>1 DEF SameSignature
  <2>3. \A q \in Learners : Busy(q)' => learners'[q].f # learners[p].f
    BY <1>1, <1>2 DEF LearningInv, EachItsOwn
  <2> QED BY <1>7, <2>2, <2>3 DEF Settled
<1> QED BY <1>4, <1>5, <1>6, <1>7, <1>8, <1>9, <1>10

\* its failure may then be counted, once
LEMMA OneMoreSettled ==
  ASSUME LearningInv, FailuresTyped', NEW s, NEW f, f \in Settled(s)', f \notin Settled(s), Settled(s) \subseteq Settled(s)'
  PROVE  Cardinality(Settled(s)) + 1 <= Cardinality(Settled(s)')
<1>1. /\ IsFiniteSet(Settled(s)') /\ Cardinality(Settled(s)') \in Nat
      /\ IsFiniteSet(Settled(s)) /\ Cardinality(Settled(s)) \in Nat
  BY SameIsFinite, SameIsFiniteLater DEF LearningInv
<1>2. Cardinality(Settled(s) \cup {f}) = Cardinality(Settled(s)) + 1
  BY <1>1, FS_AddElement
<1>3. Settled(s) \cup {f} \subseteq Settled(s)'
  OBVIOUS
<1>4. Cardinality(Settled(s) \cup {f}) <= Cardinality(Settled(s)')
  BY <1>1, <1>3, FS_Subset
<1> QED BY <1>2, <1>4

LEMMA LearnerGoes ==
  ASSUME LearningInv, NEW p \in Learners, learners' = [learners EXCEPT ![p] = NoLearner], Busy(p),
         UNCHANGED <<wsnaps, nextSnap, failures, patterns, actions, recovery>>
  PROVE  LearningInv'
<1>1. /\ FailuresTyped' /\ KeepsLive' /\ EachItsOwn' /\ SeenThree'
      /\ \A s : SameSignature(s)' = SameSignature(s) /\ Settled(s) \subseteq Settled(s)'
  BY LearnerSettles
<1>2. CountsSettled'
  BY <1>1, PatternsKeep DEF LearningInv
<1> QED BY <1>1, <1>2, RecoveryKeeps DEF LearningInv

LEMMA LearnerCounts ==
  ASSUME LearningInv, NEW p \in Learners, learners' = [learners EXCEPT ![p] = NoLearner], Busy(p),
         NEW sig, sig = failures[learners[p].f].sig, sig \in DOMAIN patterns, patterns' = update_pattern_stats(sig),
         UNCHANGED <<wsnaps, nextSnap, failures, actions, recovery>>
  PROVE  LearningInv'
<1>1. /\ FailuresTyped' /\ KeepsLive' /\ EachItsOwn' /\ SeenThree'
      /\ \A s : SameSignature(s)' = SameSignature(s) /\ Settled(s) \subseteq Settled(s)'
      /\ learners[p].f \in Settled(sig)' /\ learners[p].f \notin Settled(sig)
  BY LearnerSettles
<1>2. /\ DOMAIN patterns' = DOMAIN patterns /\ patterns'[sig] = [patterns[sig] EXCEPT !.count = @ + 1]
      /\ \A s \in DOMAIN patterns : s # sig => patterns'[s] = patterns[s]
  BY DEF update_pattern_stats
<1>3. CountsSettled'
  <2> SUFFICES ASSUME NEW s \in DOMAIN patterns
               PROVE  /\ patterns'[s] \in [type : FailureTypes, count : Nat] /\ patterns'[s].count <= Cardinality(Settled(s)')
                      /\ Cardinality(SameSignature(s)') >= 3
    BY <1>2 DEF CountsSettled
  <2>1. /\ patterns[s] \in [type : FailureTypes, count : Nat] /\ patterns[s].count <= Cardinality(Settled(s))
        /\ Cardinality(SameSignature(s)) >= 3
    BY DEF LearningInv, CountsSettled
  <2>2. Cardinality(Settled(s)) \in Nat /\ IsFiniteSet(Settled(s)') /\ Cardinality(Settled(s)') \in Nat
    BY <1>1, SameIsFinite, SameIsFiniteLater DEF LearningInv
  <2>3. Cardinality(SameSignature(s)') >= 3
    BY <1>1, <2>1
  <2>4. CASE s = sig
    <3>1. Cardinality(Settled(s)) + 1 <= Cardinality(Settled(s)')
      BY <1>1, <2>4, OneMoreSettled
    <3>2. patterns'[s] \in [type : FailureTypes, count : Nat] /\ patterns'[s].count = patterns[s].count + 1
      BY <1>2, <2>1, <2>4
    <3> QED BY <2>1, <2>2, <2>3, <3>1, <3>2
  <2>5. CASE s # sig
    <3>1. Cardinality(Settled(s)) <= Cardinality(Settled(s)')
      BY <1>1, <2>2, FS_Subset
    <3> QED BY <1>2, <2>1, <2>2, <2>3, <2>5, <3>1
  <2> QED BY <2>4, <2>5
<1> QED BY <1>1, <1>3, RecoveryKeeps DEF LearningInv

LEMMA AlikeAreSame ==
  ASSUME NEW sig, NEW msg
  PROVE  find_similar_failures(sig, msg) \subseteq SameSignature(sig)
  BY DEF find_similar_failures

\* a pattern has no regex: only its own signature finds it
LEMMA KnownIsLearned ==
  ASSUME NEW sig, NEW type, NEW s \in find_matching_patterns(sig, type)
  PROVE  s = sig /\ s \in DOMAIN patterns
<1>1. PICK r \in list_patterns : r.sig = s /\ (r.sig = sig \/ r.regex # "")
  BY DEF find_matching_patterns
<1>2. PICK t \in DOMAIN patterns : r = [sig |-> t, type |-> patterns[t].type, regex |-> ""]
  BY DEF list_patterns
<1> QED BY <1>1, <1>2

LEMMA BusyWith ==
  ASSUME LearningInv, NEW p \in Learners, Busy(p)
  PROVE  /\ learners[p].f \in DOMAIN failures /\ failures[learners[p].f] \in FailureRows
         /\ failures[learners[p].f].sig \in Signatures
<1>1. learners[p].f \in DOMAIN failures
  BY DEF LearningInv, EachItsOwn
<1>2. failures[learners[p].f] \in FailureRows
  BY <1>1 DEF LearningInv, FailuresTyped
<1> QED BY <1>1, <1>2 DEF FailureRows

\* on to the next query
LEMMA LearnerGoesOn ==
  ASSUME LearningInv, NEW p \in Learners, Busy(p), NEW pc \in {"learn", "create"},
         learners' = [learners EXCEPT ![p].pc = pc], UNCHANGED <<wsnaps, nextSnap, failures, patterns, actions, recovery>>,
         Cardinality(SameSignature(failures[learners[p].f].sig)) >= 3
  PROVE  LearningInv'
<1>1. learners'[p] = [learners[p] EXCEPT !.pc = pc] /\ \A q \in Learners : q # p => learners'[q] = learners[q]
  BY DEF LearningInv, FailuresTyped
<1>2. /\ learners[p] \in [pc : {"idle", "match", "learn", "create"}, f : Nat]
      /\ learners'[p] \in [pc : {"idle", "match", "learn", "create"}, f : Nat]
      /\ learners'[p].f = learners[p].f /\ learners'[p].pc = pc
  BY <1>1 DEF LearningInv, FailuresTyped
<1>3. \A q \in Learners : Busy(q)' = Busy(q) /\ learners'[q].f = learners[q].f
  BY <1>1, <1>2 DEF Busy
<1>4. FailuresTyped'
  BY <1>2 DEF LearningInv, FailuresTyped
<1>5. \A s : SameSignature(s)' = SameSignature(s)
  BY DEF SameSignature
<1>6. \A s : Settled(s) \subseteq Settled(s)'
  BY <1>3, <1>5 DEF Settled
<1>7. CountsSettled'
  BY <1>4, <1>5, <1>6, PatternsKeep DEF LearningInv
<1>8. SeenThree'
  <2> SUFFICES ASSUME NEW q \in Learners, NEW s \in Signatures, learners'[q].pc \in {"learn", "create"},
                      failures'[learners'[q].f].sig = s
               PROVE  Cardinality(SameSignature(s)') >= 3
    BY DEF SeenThree
  <2>1. CASE q = p
    <3>1. s = failures[learners[p].f].sig
      BY <1>2, <2>1
    <3> QED BY <1>5, <3>1
  <2>2. CASE q # p
    BY <1>1, <1>5, <2>2 DEF LearningInv, SeenThree
  <2> QED BY <2>1, <2>2
<1>9. EachItsOwn' /\ KeepsLive'
  BY <1>3 DEF LearningInv, EachItsOwn, KeepsLive
<1> QED BY <1>4, <1>7, <1>8, <1>9, RecoveryKeeps DEF LearningInv

LEMMA StepMatch ==
  ASSUME LearningInv, NEW p \in Learners, record_failure(p)
  PROVE  LearningInv'
<1> DEFINE f == failures[learners[p].f]
           similar == find_similar_failures(f.sig, f.msg)
           known == find_matching_patterns(f.sig, f.type)
<1>1. Busy(p) /\ learners[p].pc = "match" /\ UNCHANGED <<wsnaps, nextSnap, failures, actions, recovery>>
  BY DEF record_failure, Busy
<1>2. similar \subseteq SameSignature(f.sig)
  BY AlikeAreSame
<1>3. Cardinality(similar) >= 3 => Cardinality(SameSignature(f.sig)) >= 3
  <2> DEFINE sig == f.sig
  <2>1. IsFiniteSet(SameSignature(sig)) /\ Cardinality(SameSignature(sig)) \in Nat
    BY SameIsFinite DEF LearningInv
  <2> HIDE DEF similar
  <2>2. Cardinality(similar) <= Cardinality(SameSignature(sig)) /\ Cardinality(similar) \in Nat
    BY <1>2, <2>1, FS_Subset, FS_CardinalityType
  <2> QED BY <2>1, <2>2
<1>4. CASE Cardinality(similar) >= 3 /\ known = {}
  <2>1. learners' = [learners EXCEPT ![p].pc = "learn"] /\ patterns' = patterns
    BY <1>4 DEF record_failure
  <2> QED BY <1>1, <1>3, <1>4, <2>1, LearnerGoesOn
<1>5. CASE Cardinality(similar) >= 3 /\ known # {}
  <2>1. learners' = [learners EXCEPT ![p] = NoLearner] /\ patterns' = update_pattern_stats(f.sig)
    BY <1>5 DEF record_failure
  <2>2. f.sig \in DOMAIN patterns
    BY <1>5, KnownIsLearned
  <2> QED BY <1>1, <2>1, <2>2, LearnerCounts
<1>6. CASE ~(Cardinality(similar) >= 3)
  <2>1. learners' = [learners EXCEPT ![p] = NoLearner] /\ patterns' = patterns
    BY <1>6 DEF record_failure
  <2> QED BY <1>1, <2>1, LearnerGoes
<1> QED BY <1>4, <1>5, <1>6

LEMMA StepLearn ==
  ASSUME LearningInv, NEW p \in Learners, learn_pattern(p)
  PROVE  LearningInv'
<1> DEFINE sig == failures[learners[p].f].sig
<1>1. Busy(p) /\ learners[p].pc = "learn" /\ UNCHANGED <<wsnaps, nextSnap, failures, actions, recovery>>
  BY DEF learn_pattern, Busy
<1>2. CASE get_pattern_by_signature(sig) # {}
  <2>1. learners' = [learners EXCEPT ![p] = NoLearner] /\ patterns' = update_pattern_stats(sig)
    BY <1>2 DEF learn_pattern, get_failure
  <2>2. sig \in DOMAIN patterns
    BY <1>2 DEF get_pattern_by_signature
  <2> QED BY <1>1, <2>1, <2>2, LearnerCounts
<1>3. CASE get_pattern_by_signature(sig) = {}
  <2>1. learners' = [learners EXCEPT ![p].pc = "create"] /\ patterns' = patterns
    BY <1>3 DEF learn_pattern, get_failure
  <2>2. sig \in Signatures
    BY <1>1, BusyWith
  <2>3. Cardinality(SameSignature(sig)) >= 3
    BY <1>1, <2>2 DEF LearningInv, SeenThree
  <2> QED BY <1>1, <2>1, <2>3, LearnerGoesOn
<1> QED BY <1>2, <1>3

LEMMA StepPattern ==
  ASSUME LearningInv, NEW p \in Learners, record_pattern(p)
  PROVE  LearningInv'
<1> DEFINE f == failures[learners[p].f]
           similar == find_similar_failures(f.sig, f.msg)
<1>1. /\ Busy(p) /\ learners[p].pc = "create" /\ UNCHANGED <<wsnaps, nextSnap, failures, actions, recovery>>
      /\ learners' = [learners EXCEPT ![p] = NoLearner]
  BY DEF record_pattern, Busy
<1>2. PICK g \in similar :
         patterns' = IF f.sig \in DOMAIN patterns THEN patterns
                     ELSE [s \in DOMAIN patterns \cup {f.sig} |->
                             IF s = f.sig THEN [type |-> failures[g].type, count |-> 1] ELSE patterns[s]]
  BY DEF record_pattern
<1>3. CASE f.sig \in DOMAIN patterns
  <2>1. patterns' = patterns
    BY <1>2, <1>3
  <2> QED BY <1>1, <2>1, LearnerGoes
<1>4. CASE f.sig \notin DOMAIN patterns
  <2>1. PICK sig \in Signatures : sig = f.sig
    BY <1>1, BusyWith
  <2> DEFINE row == [type |-> failures[g].type, count |-> 1]
  <2>2. /\ FailuresTyped' /\ KeepsLive' /\ EachItsOwn' /\ SeenThree'
        /\ \A s : SameSignature(s)' = SameSignature(s) /\ Settled(s) \subseteq Settled(s)'
        /\ learners[p].f \in Settled(sig)' /\ learners[p].f \notin Settled(sig)
    BY <1>1, <2>1, LearnerSettles
  <2>3. row \in [type : FailureTypes, count : Nat] /\ row.count = 1
    <3>1. g \in DOMAIN failures
      BY AlikeAreSame DEF SameSignature
    <3>2. failures[g] \in FailureRows
      BY <3>1 DEF LearningInv, FailuresTyped
    <3> HIDE DEF similar
    <3>3. failures[g].type \in FailureTypes
      BY <3>2 DEF FailureRows
    <3> QED BY <3>3
  <2>4. patterns' = [s \in DOMAIN patterns \cup {sig} |-> IF s = sig THEN row ELSE patterns[s]]
    BY <1>2, <1>4, <2>1
  <2> HIDE DEF row
  <2>5. DOMAIN patterns' = DOMAIN patterns \cup {sig} /\ patterns'[sig] = row /\ \A s \in DOMAIN patterns : s # sig => patterns'[s] = patterns[s]
    BY <2>4
  <2>6. CountsSettled'
    <3> SUFFICES ASSUME NEW s \in DOMAIN patterns'
                 PROVE  /\ patterns'[s] \in [type : FailureTypes, count : Nat]
                        /\ patterns'[s].count <= Cardinality(Settled(s)') /\ Cardinality(SameSignature(s)') >= 3
      BY DEF CountsSettled
    <3>1. Cardinality(Settled(s)) \in Nat /\ IsFiniteSet(Settled(s)') /\ Cardinality(Settled(s)') \in Nat
      BY <2>2, SameIsFinite, SameIsFiniteLater DEF LearningInv
    <3>2. CASE s = sig
      <4>1. Cardinality(Settled(s)) + 1 <= Cardinality(Settled(s)')
        BY <2>2, <3>2, OneMoreSettled
      <4>2. Cardinality(SameSignature(sig)) >= 3
        BY <1>1, <2>1 DEF LearningInv, SeenThree
      <4>3. Cardinality(SameSignature(s)') >= 3
        BY <2>2, <3>2, <4>2
      <4> QED BY <2>3, <2>5, <3>1, <3>2, <4>1, <4>3
    <3>3. CASE s # sig
      <4>1. s \in DOMAIN patterns /\ patterns'[s] = patterns[s]
        BY <2>5, <3>3
      <4>2. /\ patterns[s] \in [type : FailureTypes, count : Nat] /\ patterns[s].count <= Cardinality(Settled(s))
            /\ Cardinality(SameSignature(s)) >= 3
        BY <4>1 DEF LearningInv, CountsSettled
      <4>3. Cardinality(Settled(s)) <= Cardinality(Settled(s)')
        BY <2>2, <3>1, FS_Subset
      <4>4. Cardinality(SameSignature(s)') >= 3
        BY <2>2, <4>2
      <4> QED BY <3>1, <4>1, <4>2, <4>3, <4>4
    <3> QED BY <3>2, <3>3
  <2> QED BY <1>1, <2>2, <2>6, RecoveryKeeps DEF LearningInv
<1> QED BY <1>3, <1>4

----------------------------------------------------------------------------
(* resolutions, snapshots and recoveries                                    *)

\* rows keep their signature, and nobody learns
LEMMA FailuresEdited ==
  ASSUME LearningInv, wsnaps' \subseteq Nat, nextSnap' \in Nat, UNCHANGED <<patterns, learners>>, RecoveryStands',
         DOMAIN failures' = DOMAIN failures, failures' \in Seq(FailureRows),
         \A f \in DOMAIN failures : failures'[f].sig = failures[f].sig, KeepsLive'
  PROVE  LearningInv'
<1>1. FailuresTyped'
  BY DEF LearningInv, FailuresTyped
<1>2. \A s : SameSignature(s)' = SameSignature(s)
  BY DEF SameSignature
<1>3. \A s : Settled(s)' = Settled(s)
  BY <1>2 DEF Settled, Busy
<1>4. CountsSettled'
  BY <1>1, <1>2, <1>3, PatternsKeep DEF LearningInv
<1>5. EachItsOwn'
  BY DEF LearningInv, EachItsOwn, Busy
<1>6. SeenThree'
  <2> SUFFICES ASSUME NEW q \in Learners, NEW s \in Signatures, learners'[q].pc \in {"learn", "create"},
                      failures'[learners'[q].f].sig = s
               PROVE  Cardinality(SameSignature(s)') >= 3
    BY DEF SeenThree
  <2>1. learners[q].f \in DOMAIN failures
    BY DEF LearningInv, EachItsOwn, Busy
  <2>2. Cardinality(SameSignature(s)) >= 3
    BY <2>1 DEF LearningInv, SeenThree
  <2> QED BY <1>2, <2>2
<1> QED BY <1>1, <1>4, <1>5, <1>6 DEF LearningInv

LEMMA FailuresAlone ==
  ASSUME LearningInv, wsnaps \subseteq wsnaps', wsnaps' \subseteq Nat, nextSnap' \in Nat,
         UNCHANGED <<failures, patterns, learners>>, RecoveryStands'
  PROVE  LearningInv'
<1>1. FailuresTyped' /\ KeepsLive'
  BY DEF LearningInv, FailuresTyped, KeepsLive
<1>2. \A s : SameSignature(s)' = SameSignature(s)
  BY DEF SameSignature
<1>3. \A s : Settled(s)' = Settled(s)
  BY <1>2 DEF Settled, Busy
<1>4. CountsSettled'
  BY <1>1, <1>2, <1>3, PatternsKeep DEF LearningInv
<1>5. EachItsOwn' /\ SeenThree'
  BY <1>2 DEF LearningInv, EachItsOwn, SeenThree, Busy
<1> QED BY <1>1, <1>4, <1>5 DEF LearningInv

LEMMA StepResolve ==
  ASSUME LearningInv, NEW n, NEW how \in {"restore", "fix"}, NEW s, mark_resolved(n, how, s)
  PROVE  LearningInv'
<1> DEFINE row == [failures[n] EXCEPT !.resolved = TRUE, !.how = how, !.with = s]
<1>1. /\ n \in DOMAIN failures /\ s \in wsnaps /\ failures' = [failures EXCEPT ![n] = row]
      /\ UNCHANGED <<wsnaps, nextSnap, patterns, actions, learners, recovery>>
  BY DEF mark_resolved
<1>2. failures[n] \in FailureRows /\ s \in Nat /\ failures \in Seq(FailureRows)
  BY <1>1 DEF LearningInv, FailuresTyped
<1>3. row \in FailureRows /\ row.sig = failures[n].sig /\ row.before = failures[n].before /\ row.with = s
  BY <1>2 DEF FailureRows
<1> HIDE DEF row
<1>4. /\ DOMAIN failures' = DOMAIN failures /\ failures' \in Seq(FailureRows) /\ failures'[n] = row
      /\ \A f \in DOMAIN failures : f # n => failures'[f] = failures[f]
  BY <1>1, <1>2, <1>3
<1>5. KeepsLive'
  BY <1>1, <1>3, <1>4 DEF LearningInv, KeepsLive
<1>6. \A f \in DOMAIN failures : failures'[f].sig = failures[f].sig
  BY <1>3, <1>4
<1>7. wsnaps' \subseteq Nat /\ nextSnap' \in Nat
  BY <1>1 DEF LearningInv, FailuresTyped
<1>8. RecoveryStands'
  BY <1>1, RecoveryKeeps
<1> QED BY <1>1, <1>4, <1>5, <1>6, <1>7, <1>8, FailuresEdited

LEMMA StepDrop ==
  ASSUME LearningInv, NEW s \in wsnaps, DropSnapshot(s)
  PROVE  LearningInv'
<1>1. /\ wsnaps' = wsnaps \ {s} /\ failures' = [f \in DOMAIN failures |-> Forget(failures[f], s)]
      /\ recovery' = IF Suggesting THEN [recovery EXCEPT !.gone = recovery.gone \cup {s}] ELSE recovery
      /\ UNCHANGED <<nextSnap, patterns, actions, learners>>
  BY DEF DropSnapshot, Drop
<1>2. ASSUME NEW f \in DOMAIN failures
      PROVE  /\ failures'[f] \in FailureRows /\ failures'[f].sig = failures[f].sig
             /\ {failures'[f].before, failures'[f].with} \subseteq wsnaps' \cup {0}
  <2> DEFINE row == failures[f]
             before == IF row.before = s THEN 0 ELSE row.before
             with == IF row.with = s THEN 0 ELSE row.with
             new == [row EXCEPT !.before = before, !.with = with]
  <2>1. row \in FailureRows
    BY DEF LearningInv, FailuresTyped
  <2>2. failures'[f] = new
    BY <1>1 DEF Forget
  <2>3. {row.before, row.with} \subseteq wsnaps \cup {0}
    BY DEF LearningInv, KeepsLive
  <2> HIDE DEF row
  <2>4. before \in Nat /\ with \in Nat
    BY <2>1 DEF FailureRows
  <2>5. {before, with} \subseteq wsnaps' \cup {0}
    BY <1>1, <2>3
  <2> HIDE DEF before, with
  <2>6. new \in FailureRows /\ new.sig = row.sig /\ new.before = before /\ new.with = with
    BY <2>1, <2>4 DEF FailureRows
  <2> HIDE DEF new
  <2> QED BY <2>2, <2>5, <2>6 DEF row
<1>3. DOMAIN failures' = DOMAIN failures /\ failures' \in Seq(FailureRows)
  <2>1. DOMAIN failures = 1..Len(failures) /\ Len(failures) \in Nat
    BY DEF LearningInv, FailuresTyped
  <2>2. failures' \in [1..Len(failures) -> FailureRows]
    BY <1>1, <1>2, <2>1
  <2> QED BY <2>1, <2>2, SeqDef
<1>4. KeepsLive'
  BY <1>2, <1>3 DEF KeepsLive
<1>5. wsnaps' \subseteq Nat /\ nextSnap' \in Nat
  BY <1>1 DEF LearningInv, FailuresTyped
<1>6. RecoveryStands'
  <2>1. StoredNumbered'
    BY <1>1 DEF LearningInv, RecoveryStands, StoredNumbered
  <2>2. {"pc", "failure", "found", "gone"} \subseteq DOMAIN recovery
    BY DEF LearningInv, RecoveryStands, RowStands
  <2>3. CASE Suggesting
    <3>1. /\ DOMAIN recovery' = DOMAIN recovery /\ recovery'.pc = recovery.pc /\ recovery'.failure = recovery.failure
          /\ recovery'.found = recovery.found /\ recovery'.gone = recovery.gone \cup {s}
      BY <1>1, <2>2, <2>3
    <3>2. wsnaps \cup recovery.gone \subseteq wsnaps' \cup recovery'.gone
      BY <1>1, <3>1
    <3>3. RowStands'
      BY <2>2, <2>3, <3>1, <3>2 DEF LearningInv, RecoveryStands, RowStands, Suggesting
    <3>4. SuggestionsWereLive'
      BY <3>1, <3>2 DEF LearningInv, RecoveryStands, SuggestionsWereLive
    <3> QED BY <2>1, <3>3, <3>4 DEF RecoveryStands
  <2>4. CASE ~Suggesting
    <3>1. recovery' = recovery
      BY <1>1, <2>4
    <3>2. recovery'.found = {} /\ ~Suggesting'
      BY <2>4, <3>1 DEF LearningInv, RecoveryStands, RowStands, Suggesting
    <3> QED BY <2>1, <2>2, <3>1, <3>2, NothingFound
  <2> QED BY <2>3, <2>4
<1> QED BY <1>1, <1>2, <1>3, <1>4, <1>5, <1>6, FailuresEdited

\* the queries of suggest_recovery: nothing is written
LEMMA StepSuggest ==
  ASSUME LearningInv, NEW n, suggest_recovery(n)
  PROVE  RecoveryStands'
<1>1. /\ n \in DOMAIN failures /\ UNCHANGED <<wsnaps, failures, actions>>
      /\ recovery' = [NoRecovery EXCEPT !.pc = "patterns", !.f = n, !.failure = failures[n]]
  BY DEF suggest_recovery, get_failure
<1> DEFINE row == failures[n]
<1>2. row \in FailureRows /\ row.before \in wsnaps \cup {0}
  BY <1>1 DEF LearningInv, FailuresTyped, KeepsLive
<1> HIDE DEF row
<1>3. /\ recovery'.found = {} /\ recovery'.failure = row /\ recovery'.pc = "patterns"
      /\ {"pc", "failure", "found", "gone"} \subseteq DOMAIN recovery'
  BY <1>1 DEF NoRecovery, row
<1>4. StoredNumbered'
  BY <1>1 DEF LearningInv, RecoveryStands, StoredNumbered
<1>5. RowStands'
  BY <1>1, <1>2, <1>3 DEF RowStands, Suggesting
<1>6. SuggestionsWereLive'
  BY <1>3 DEF SuggestionsWereLive
<1> QED BY <1>4, <1>5, <1>6 DEF RecoveryStands

\* more is found for the row at hand
LEMMA FindsMore ==
  ASSUME LearningInv, Suggesting, UNCHANGED <<wsnaps, actions>>, NEW found, NEW pc \in {"similar", "choose"},
         recovery' = [recovery EXCEPT !.pc = pc, !.found = found],
         \A a \in found : a.id = 0 /\ a.type \in {"restore_snapshot", "restore_files"} =>
             a.snap \in wsnaps \cup recovery.gone
  PROVE  RecoveryStands'
<1>1. {"pc", "failure", "found", "gone"} \subseteq DOMAIN recovery
  BY DEF LearningInv, RecoveryStands, RowStands
<1>2. /\ DOMAIN recovery' = DOMAIN recovery /\ recovery'.pc = pc /\ recovery'.failure = recovery.failure
      /\ recovery'.found = found /\ recovery'.gone = recovery.gone
  BY <1>1
<1>3. StoredNumbered'
  BY DEF LearningInv, RecoveryStands, StoredNumbered
<1>4. RowStands'
  BY <1>1, <1>2 DEF LearningInv, RecoveryStands, RowStands, Suggesting
<1>5. SuggestionsWereLive'
  BY <1>2 DEF SuggestionsWereLive
<1> QED BY <1>3, <1>4, <1>5 DEF RecoveryStands

LEMMA StepPatterns ==
  ASSUME LearningInv, SuggestFromPatterns
  PROVE  RecoveryStands'
<1> DEFINE f == recovery.failure
           found == UNION {{parse_action(a) : a \in generate_from_pattern(s)} : s \in find_matching_patterns(f.sig, f.type)}
<1>1. Suggesting /\ recovery' = [recovery EXCEPT !.pc = "similar", !.found = found] /\ UNCHANGED <<wsnaps, actions>>
  BY DEF SuggestFromPatterns, Suggesting
<1>2. ASSUME NEW a \in found PROVE a.id # 0
  <2>0. PICK s : \E b \in generate_from_pattern(s) : a = parse_action(b)
    BY <1>2, Zenon
  <2>1. PICK b \in generate_from_pattern(s) : a = parse_action(b)
    BY <2>0
  <2>2. PICK i \in DOMAIN actions : b = actions[i]
    BY <2>1 DEF generate_from_pattern, get_recovery_actions_for_pattern, Range
  <2>3. b.id = 1
    BY <2>2 DEF LearningInv, RecoveryStands, StoredNumbered
  <2>4. a.id = b.id
    BY <2>1, Zenon DEF parse_action
  <2> QED BY <2>3, <2>4
<1> HIDE DEF found
<1> QED BY <1>1, <1>2, FindsMore

\* what failures name is there; what the row names was there when it was read
LEMMA StepFailures ==
  ASSUME LearningInv, SuggestFromFailures
  PROVE  RecoveryStands'
<1> DEFINE f == recovery.failure
           found == recovery.found \cup generate_from_similar_failures(f.sig, f.msg) \cup generate_generic_suggestions(f)
<1>1. Suggesting /\ recovery' = [recovery EXCEPT !.pc = "choose", !.found = found] /\ UNCHANGED <<wsnaps, actions>>
  BY DEF SuggestFromFailures, Suggesting
<1>2. f.before \in wsnaps \cup recovery.gone \cup {0} /\ f.before \in Nat
  <2>1. f \in FailureRows /\ f.before \in wsnaps \cup recovery.gone \cup {0}
    BY <1>1 DEF LearningInv, RecoveryStands, RowStands
  <2>2. f.before \in Nat
    BY <2>1 DEF FailureRows
  <2> QED BY <2>1, <2>2
<1>3. ASSUME NEW a \in recovery.found, a.id = 0, a.type \in {"restore_snapshot", "restore_files"}
      PROVE  a.snap \in wsnaps \cup recovery.gone
  BY <1>3 DEF LearningInv, RecoveryStands, SuggestionsWereLive
<1>4. ASSUME NEW a \in generate_from_similar_failures(f.sig, f.msg) PROVE a.snap \in wsnaps
  <2>1. PICK g \in find_similar_failures(f.sig, f.msg) :
           /\ failures[g].with > 0
           /\ a = create_restore_snapshot_action(failures[g].with, (Similarity[f.msg, failures[g].msg] * 8) \div 10)
    BY <1>4, Zenon DEF generate_from_similar_failures
  <2>2. g \in DOMAIN failures
    BY AlikeAreSame DEF SameSignature
  <2>3. failures[g].with \in wsnaps \cup {0}
    BY <2>2 DEF LearningInv, KeepsLive
  <2>4. a.snap = failures[g].with
    BY <2>1, Zenon DEF create_restore_snapshot_action
  <2>5. failures[g].with > 0
    BY <2>1, Zenon
  <2>6. failures[g].with # 0
    BY <2>5
  <2> QED BY <2>3, <2>4, <2>6
<1>5. ASSUME NEW a \in generate_generic_suggestions(f), a.type \in {"restore_snapshot", "restore_files"}
      PROVE  a.snap \in wsnaps \cup recovery.gone
  <2>1. \/ a = create_clean_build_action
        \/ f.before > 0 /\ (a = create_restore_files_action(f.before, 50) \/ a = create_restore_snapshot_action(f.before, 60))
    BY <1>5 DEF generate_generic_suggestions
  <2> HIDE DEF f
  <2>2. CASE a = create_clean_build_action
    BY <1>5, <2>2 DEF create_clean_build_action
  <2>3. CASE f.before > 0 /\ a.snap = f.before
    BY <1>2, <2>3
  <2> QED BY <2>1, <2>2, <2>3 DEF create_restore_files_action, create_restore_snapshot_action
<1>6. \A a \in found : a.id = 0 /\ a.type \in {"restore_snapshot", "restore_files"} =>
          a.snap \in wsnaps \cup recovery.gone
  <2> SUFFICES ASSUME NEW a \in found, a.id = 0, a.type \in {"restore_snapshot", "restore_files"}
               PROVE  a.snap \in wsnaps \cup recovery.gone
    OBVIOUS
  <2>1. \/ a \in recovery.found \/ a \in generate_from_similar_failures(f.sig, f.msg)
        \/ a \in generate_generic_suggestions(f)
    BY Zenon
  <2> HIDE DEF found, f
  <2> QED BY <1>3, <1>4, <1>5, <2>1
<1> HIDE DEF found
<1> QED BY <1>1, <1>6, FindsMore

\* the command is over, or goes on with one action
LEMMA RecoveryOver ==
  ASSUME StoredNumbered', NEW f, NEW pc \in {"idle", "begin"}, NEW action,
         recovery' = [NoRecovery EXCEPT !.pc = pc, !.f = f, !.action = action]
  PROVE  RecoveryStands'
<1>1. /\ {"pc", "failure", "found", "gone"} \subseteq DOMAIN recovery' /\ recovery'.found = {} /\ recovery'.pc = pc
  BY DEF NoRecovery
<1>2. ~Suggesting'
  BY <1>1 DEF Suggesting
<1> QED BY <1>1, <1>2, NothingFound

LEMMA RecoveryDropped ==
  ASSUME StoredNumbered', recovery' = NoRecovery
  PROVE  RecoveryStands'
<1>1. /\ {"pc", "failure", "found", "gone"} \subseteq DOMAIN recovery' /\ recovery'.found = {} /\ recovery'.pc = "idle"
  BY DEF NoRecovery
<1>2. ~Suggesting'
  BY <1>1 DEF Suggesting
<1> QED BY <1>1, <1>2, NothingFound

LEMMA StepExecution ==
  ASSUME LearningInv, begin_recovery_execution
  PROVE  RecoveryStands'
<1>1. recovery.pc = "begin" /\ UNCHANGED actions
  BY DEF begin_recovery_execution
<1>2. {"pc", "failure", "found", "gone"} \subseteq DOMAIN recovery /\ recovery.found = {}
  BY <1>1 DEF LearningInv, RecoveryStands, RowStands, Suggesting
<1>3. PICK row : recovery' = [recovery EXCEPT !.pc = "act", !.row = row] \/ recovery' = [recovery EXCEPT !.pc = "act"]
  BY DEF begin_recovery_execution
<1>4. DOMAIN recovery' = DOMAIN recovery /\ recovery'.found = {} /\ recovery'.pc = "act"
  BY <1>2, <1>3
<1>5. StoredNumbered' /\ ~Suggesting'
  BY <1>1, <1>4 DEF LearningInv, RecoveryStands, StoredNumbered, Suggesting
<1> QED BY <1>2, <1>4, <1>5, NothingFound

LEMMA StepOthers ==
  ASSUME LearningInv,
         \/ TakeSnapshot \/ LearningCrash
         \/ SuggestFromPatterns \/ SuggestFromFailures
         \/ execute_recovery \/ auto_recover \/ begin_recovery_execution
         \/ \E ok \in BOOLEAN : Act(ok)
         \/ \E n : suggest_recovery(n)
         \/ \E n, s, type, snap, asks : add_recovery_action(s, n, type, snap, asks)
  PROVE  LearningInv'
<1>1. wsnaps \subseteq Nat /\ nextSnap \in Nat /\ StoredNumbered
  BY DEF LearningInv, FailuresTyped, RecoveryStands
<1>2. CASE TakeSnapshot
  <2>1. RecoveryStands'
    BY <1>2, RecoveryKeeps DEF TakeSnapshot
  <2> QED BY <1>1, <1>2, <2>1, FailuresAlone DEF TakeSnapshot
<1>3. CASE begin_recovery_execution
  BY <1>1, <1>3, StepExecution, FailuresAlone DEF begin_recovery_execution
<1>4. CASE LearningCrash
  <2>1. ASSUME recovery' = NoRecovery, UNCHANGED <<wsnaps, nextSnap, failures, patterns, actions, learners>>
        PROVE  LearningInv'
    <3>1. StoredNumbered'
      BY <1>1, <2>1 DEF StoredNumbered
    <3> QED BY <1>1, <2>1, <3>1, RecoveryDropped, FailuresAlone
  <2>2. ASSUME NEW p \in Learners, learners[p].pc # "idle", learners' = [learners EXCEPT ![p] = NoLearner],
               UNCHANGED <<wsnaps, nextSnap, failures, patterns, actions, recovery>>
        PROVE  LearningInv'
    BY <2>2, LearnerGoes DEF Busy
  <2> QED BY <1>4, <2>1, <2>2 DEF LearningCrash
<1>5. ASSUME NEW ok \in BOOLEAN, Act(ok) PROVE LearningInv'
  <2>1. actions' = actions \/ actions' = update_recovery_action_stats(recovery.action.id, ok)
    BY <1>5 DEF Act
  <2>2. StoredNumbered'
    <3>1. CASE actions' = update_recovery_action_stats(recovery.action.id, ok)
      <4> DEFINE id == recovery.action.id
                 good == [actions[id] EXCEPT !.ok = actions[id].ok + 1]
                 ill == [actions[id] EXCEPT !.bad = actions[id].bad + 1]
      <4>1. actions' = [actions EXCEPT ![id] = good] \/ actions' = [actions EXCEPT ![id] = ill]
        BY <3>1 DEF update_recovery_action_stats
      <4>2. "id" \in DOMAIN actions[id] =>
               /\ "id" \in DOMAIN good /\ good.id = actions[id].id
               /\ "id" \in DOMAIN ill /\ ill.id = actions[id].id
        OBVIOUS
      <4> HIDE DEF good, ill
      <4> QED BY <1>1, <4>1, <4>2 DEF StoredNumbered
    <3>2. CASE actions' = actions
      BY <1>1, <3>2 DEF StoredNumbered
    <3> QED BY <2>1, <3>1, <3>2
  <2>3. RecoveryStands'
    BY <1>5, <2>2, RecoveryDropped DEF Act
  <2> QED BY <1>1, <1>5, <2>3, FailuresAlone DEF Act
<1>6. CASE execute_recovery \/ auto_recover
  <2>1. PICK action : Recover(action)
    BY <1>6 DEF execute_recovery, auto_recover
  <2>2. StoredNumbered'
    BY <1>1, <2>1 DEF Recover, StoredNumbered
  <2>3. RecoveryStands'
    BY <2>1, <2>2, RecoveryOver DEF Recover
  <2> QED BY <1>1, <2>1, <2>3, FailuresAlone DEF Recover
<1>7. ASSUME NEW n, NEW s, NEW type, NEW snap, NEW asks, add_recovery_action(s, n, type, snap, asks) PROVE LearningInv'
  <2> DEFINE row == [id |-> 1, pattern |-> s, type |-> type, snap |-> snap, confirm |-> asks, ok |-> 0, bad |-> 0]
  <2>1. actions' = <<row>> /\ row.id = 1 /\ "id" \in DOMAIN row
    BY <1>7 DEF add_recovery_action
  <2> HIDE DEF row
  <2>2. DOMAIN actions' = {1} /\ actions'[1] = row
    BY <2>1
  <2>3. StoredNumbered'
    BY <2>1, <2>2 DEF StoredNumbered
  <2>4. UNCHANGED <<wsnaps, nextSnap, failures, patterns, learners, recovery>>
    BY <1>7 DEF add_recovery_action
  <2>5. RecoveryStands'
    BY <2>3, <2>4 DEF LearningInv, RecoveryStands, RowStands, Suggesting, SuggestionsWereLive
  <2> QED BY <1>1, <2>4, <2>5, FailuresAlone
<1>8. CASE SuggestFromPatterns
  BY <1>1, <1>8, StepPatterns, FailuresAlone DEF SuggestFromPatterns
<1>9. CASE SuggestFromFailures
  BY <1>1, <1>9, StepFailures, FailuresAlone DEF SuggestFromFailures
<1>10. ASSUME NEW n, suggest_recovery(n) PROVE LearningInv'
  BY <1>1, <1>10, StepSuggest, FailuresAlone DEF suggest_recovery
<1> QED BY <1>2, <1>3, <1>4, <1>5, <1>6, <1>7, <1>8, <1>9, <1>10

LEMMA LearningStep == LearningInv /\ [LearningNext]_learningVars => LearningInv'
<1> SUFFICES ASSUME LearningInv, [LearningNext]_learningVars PROVE LearningInv'
  OBVIOUS
<1>1. CASE UNCHANGED learningVars
  <2>1. wsnaps \subseteq Nat /\ nextSnap \in Nat
    BY DEF LearningInv, FailuresTyped
  <2>2. RecoveryStands'
    BY <1>1, RecoveryKeeps DEF learningVars
  <2> QED BY <1>1, <2>1, <2>2, FailuresAlone DEF learningVars
<1>2. CASE \/ TakeSnapshot \/ LearningCrash
           \/ SuggestFromPatterns \/ SuggestFromFailures
           \/ execute_recovery \/ auto_recover \/ begin_recovery_execution
           \/ \E ok \in BOOLEAN : Act(ok)
           \/ \E n : suggest_recovery(n)
           \/ \E n, s, type, snap, asks : add_recovery_action(s, n, type, snap, asks)
  BY <1>2, StepOthers
<1>3. ASSUME NEW s \in wsnaps, DropSnapshot(s) PROVE LearningInv'
  BY <1>3, StepDrop
<1>4. ASSUME NEW p \in Learners, NEW c \in Commands, NEW m \in Messages, NEW before \in wsnaps,
             record_failure_with_context(p, detect_failure(c, m), m, before)
      PROVE  LearningInv'
  BY <1>4, StepRecord
<1>5. ASSUME NEW p \in Learners, record_failure(p) \/ learn_pattern(p) \/ record_pattern(p) PROVE LearningInv'
  BY <1>5, StepMatch, StepLearn, StepPattern
<1>6. ASSUME NEW n \in DOMAIN failures, NEW how \in {"restore", "fix"}, NEW s \in wsnaps, mark_resolved(n, how, s)
      PROVE  LearningInv'
  BY <1>6, StepResolve
<1> QED BY <1>1, <1>2, <1>3, <1>4, <1>5, <1>6, Zenon DEF LearningNext

(* Failures keep only ids of snapshots that exist, each process learns from a *)
(* failure of its own, and a pattern counts failures that are done with.      *)
THEOREM LearningAlways == LearningSpec => []LearningInv
  BY LearningStart, LearningStep, PTL DEF LearningSpec

(* A pattern stands for at least three recorded failures and never counts     *)
(* more than there are, for any number of processes that look for failures    *)
(* alike at the same time (record_failure, learn_pattern, record_pattern).    *)
THEOREM PatternsStandForFailures == LearningSpec => []PatternsAreEarned
<1>1. LearningInv => PatternsAreEarned
  <2> SUFFICES ASSUME LearningInv, NEW s \in DOMAIN patterns
               PROVE  Cardinality(SameSignature(s)) >= 3 /\ patterns[s].count <= Cardinality(SameSignature(s))
    BY DEF PatternsAreEarned
  <2>1. /\ patterns[s].count \in Nat /\ patterns[s].count <= Cardinality(Settled(s))
        /\ Cardinality(SameSignature(s)) >= 3
    BY DEF LearningInv, CountsSettled
  <2>2. /\ IsFiniteSet(SameSignature(s)) /\ Cardinality(SameSignature(s)) \in Nat /\ Cardinality(Settled(s)) \in Nat
    BY SameIsFinite DEF LearningInv
  <2>3. Settled(s) \subseteq SameSignature(s)
    BY DEF Settled
  <2>4. Cardinality(Settled(s)) <= Cardinality(SameSignature(s))
    BY <2>2, <2>3, FS_Subset
  <2> QED BY <2>1, <2>2, <2>4
<1> QED BY <1>1, LearningAlways, PTL

(* A restore made up from failures names a snapshot that is there or that was *)
(* deleted after suggest_recovery began, whatever the processes and the prunes *)
(* between its queries (suggest_recovery, generate_from_similar_failures,      *)
(* generate_generic_suggestions).                                              *)
THEOREM SuggestionsWereLiveAtStart == LearningSpec => []SuggestionsWereLive
<1>1. LearningInv => SuggestionsWereLive
  BY DEF LearningInv, RecoveryStands
<1> QED BY <1>1, LearningAlways, PTL
=============================================================================
