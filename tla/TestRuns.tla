------------------------------ MODULE TestRuns ------------------------------
(***************************************************************************)
(* `nazg test framework` and `nazg test-results` (testsuite): run the      *)
(* project's tests, read the runner's output, store one row for the run    *)
(* and one per test, print the verdict.  Every row is a statement of its   *)
(* own: other terminals store theirs in between, a locked database refuses *)
(* a row, and the command may be killed between two of them.               *)
(***************************************************************************)
EXTENDS Integers, SequencesExt

CONSTANTS
    Testers,      \* terminals, each in a project of its own
    Frameworks,   \* what detect_test_framework may find
    Outputs,      \* sequences of the words a runner prints, one per test
    Leftovers,    \* what the counters of a TestRun hold before they are set
    MaxRuns,      \* commands started in a behaviour
    MaxSeconds    \* seconds the clock may advance

ASSUME TestRunsAssumption == {MaxRuns, MaxSeconds} \subseteq Nat

VARIABLES
    test_runs,     \* rows of test_runs; a row's id is its place
    test_results,  \* rows of test_results, in the order of their ids
    testers,       \* the command in each terminal
    shown,         \* ids of the rows test-results last printed in each terminal
    testSecond,    \* system_clock in seconds
    testsStarted   \* commands started

testVars == <<test_runs, test_results, testers, shown, testSecond, testsStarted>>

NoTests == [pc |-> "idle", framework |-> "none", pid |-> 0, run |-> <<>>, id |-> 0, next |-> 1, exit |-> 0]

TestInit ==
    /\ test_runs = <<>> /\ test_results = <<>>
    /\ testers = [t \in Testers |-> NoTests]
    /\ shown = [t \in Testers |-> {}]
    /\ testSecond = 0 /\ testsStarted = 0

----------------------------------------------------------------------------
(* The adapters                                                             *)

get_adapter(framework) ==
    CASE framework \in {"gtest", "ctest"} -> "ctest"
      [] framework \in {"pytest", "unittest"} -> "pytest"
      [] OTHER -> "none"

\* ctest's line of a test that crashed (***Exception: SegFault) or was not run
\* (***Not Run) has no single word before the duration: no case comes of it.
\* A status word that is not one of the three is an error.
ctest_case(word) ==
    CASE word \in {"Exception", "Not Run"} -> <<>>
      [] word \in {"Passed", "Failed", "Skipped"} -> <<word>>
      [] OTHER -> <<"Error">>

\* pytest -v has a word per test; a test the session never reached has no line
pytest_case(word) == IF word \in {"Passed", "Failed", "Skipped", "Error"} THEN <<word>> ELSE <<>>

Tally(cases, word) == Len(SelectSeq(cases, LAMBDA c : c = word))

\* the counters start from whatever the memory held: TestRun run; sets none of them.
\* The summary line is looked at only if total is 0 then.
parse_output(adapter, output, held) ==
    LET cases == FlattenSeq([i \in 1..Len(output) |-> IF adapter = "ctest" THEN ctest_case(output[i])
                                                     ELSE pytest_case(output[i])])
        read == [total |-> held.total + Len(cases), passed |-> held.passed + Tally(cases, "Passed"),
                 failed |-> held.failed + Tally(cases, "Failed"),
                 skipped |-> held.skipped + Tally(cases, "Skipped"),
                 errors |-> held.errors + Tally(cases, "Error"), cases |-> cases]
        bad == Len(SelectSeq(output, LAMBDA w : w \notin {"Passed", "Skipped"}))
    IN IF read.total = 0 /\ adapter = "ctest" /\ output # <<>>
       THEN [read EXCEPT !.failed = bad, !.total = Len(output), !.passed = Len(output) - bad]
       ELSE read

----------------------------------------------------------------------------
(* nazg test framework                                                      *)

\* no tests, or no project row for them (ensure_project gave -1): the test process is
\* still started in the second case
cmd_test(t, framework) ==
    /\ testers[t].pc = "idle" /\ testsStarted < MaxRuns
    /\ testsStarted' = testsStarted + 1
    /\ IF framework = "none" THEN testers' = [testers EXCEPT ![t] = [NoTests EXCEPT !.exit = 1]]
       ELSE \E pid \in {t, -1} :
              testers' = [testers EXCEPT ![t] = [NoTests EXCEPT !.pc = "execute", !.framework = framework,
                                                                !.pid = pid]]
    /\ UNCHANGED <<test_runs, test_results, shown, testSecond>>

verdict(run) == IF run.failed > 0 \/ run.errors > 0 THEN 1 ELSE 0

\* a framework without an adapter: an error, and nothing is stored
runner_execute(t) ==
    LET c == testers[t] IN
    /\ c.pc = "execute"
    /\ \E output \in Outputs, held \in Leftovers :
          IF get_adapter(c.framework) = "none"
          THEN testers' = [testers EXCEPT ![t] = [NoTests EXCEPT !.exit = 1]]
          ELSE testers' = [testers EXCEPT ![t] = [c EXCEPT !.pc = "add_run",
                                !.run = parse_output(get_adapter(c.framework), output, held)]]
    /\ UNCHANGED <<test_runs, test_results, shown, testSecond, testsStarted>>

\* refused: no such project, or the database is locked; the tests are not stored then
add_test_run(t) ==
    LET c == testers[t] IN
    /\ c.pc = "add_run"
    /\ \/ /\ c.pid = t
          /\ test_runs' = Append(test_runs, [project |-> t, framework |-> c.framework, at |-> testSecond,
                                             run |-> c.run])
          /\ testers' = [testers EXCEPT ![t] = [NoTests EXCEPT !.pc = "add_results", !.run = c.run,
                                                                !.id = Len(test_runs) + 1]]
       \/ /\ testers' = [testers EXCEPT ![t].pc = "print"]
          /\ UNCHANGED test_runs
    /\ UNCHANGED <<test_results, shown, testSecond, testsStarted>>

\* (mutant) the newest run is taken for the one just stored
AddToNewest(t) ==
    LET c == testers[t] IN
    /\ c.pc = "add_results" /\ c.next <= Len(c.run.cases)
    /\ testers' = [testers EXCEPT ![t].next = c.next + 1]
    /\ test_results' = Append(test_results, [run |-> Len(test_runs), name |-> c.next,
                                             status |-> c.run.cases[c.next]])
    /\ UNCHANGED <<test_runs, shown, testSecond, testsStarted>>

\* a refused row is logged and left out
add_test_result(t) ==
    LET c == testers[t] IN
    /\ c.pc = "add_results" /\ c.next <= Len(c.run.cases)
    /\ testers' = [testers EXCEPT ![t].next = c.next + 1]
    /\ \/ test_results' = Append(test_results, [run |-> c.id, name |-> c.next,
                                                status |-> c.run.cases[c.next]])
       \/ UNCHANGED test_results
    /\ UNCHANGED <<test_runs, shown, testSecond, testsStarted>>

\* parse_coverage is a placeholder in both adapters: there is no row of test_coverage
\* to add, and the summary has no coverage line
parse_coverage(t) ==
    /\ testers[t].pc = "add_results" /\ testers[t].next > Len(testers[t].run.cases)
    /\ testers' = [testers EXCEPT ![t].pc = "print"]
    /\ UNCHANGED <<test_runs, test_results, shown, testSecond, testsStarted>>

\* the verdict printed and returned comes from the two counters, never from exit_code
PrintVerdict(t) ==
    /\ testers[t].pc = "print"
    /\ testers' = [testers EXCEPT ![t] = [NoTests EXCEPT !.exit = verdict(testers[t].run)]]
    /\ UNCHANGED <<test_runs, test_results, shown, testSecond, testsStarted>>

----------------------------------------------------------------------------
(* nazg test-results                                                        *)

\* ORDER BY timestamp DESC LIMIT 1: any of the runs of the newest second
get_test_runs(t) ==
    {i \in DOMAIN test_runs : /\ test_runs[i].project = t
                              /\ \A j \in DOMAIN test_runs :
                                   test_runs[j].project = t => test_runs[j].at <= test_runs[i].at}

\* ORDER BY id: the ids alone say what is printed, and in which order
get_test_results(id, failedOnly) ==
    {i \in DOMAIN test_results : /\ test_results[i].run = id
                                 /\ failedOnly => test_results[i].status = "Failed"}

cmd_test_results(t) ==
    /\ testers[t].pc = "idle"
    /\ \E failedOnly \in BOOLEAN, id \in get_test_runs(t) :
          shown' = [shown EXCEPT ![t] = get_test_results(id, failedOnly)]
    /\ UNCHANGED <<test_runs, test_results, testers, testSecond, testsStarted>>

----------------------------------------------------------------------------
KillTests(t) ==
    /\ testers[t].pc # "idle"
    /\ testers' = [testers EXCEPT ![t] = [NoTests EXCEPT !.exit = 1]]
    /\ UNCHANGED <<test_runs, test_results, shown, testSecond, testsStarted>>

TestTick ==
    /\ testSecond < MaxSeconds
    /\ testSecond' = testSecond + 1
    /\ UNCHANGED <<test_runs, test_results, testers, shown, testsStarted>>

TestNext ==
    \/ \E t \in Testers, f \in Frameworks : cmd_test(t, f)
    \/ \E t \in Testers : runner_execute(t)
    \/ \E t \in Testers : add_test_run(t)
    \/ \E t \in Testers : add_test_result(t)
    \/ \E t \in Testers : parse_coverage(t)
    \/ \E t \in Testers : PrintVerdict(t)
    \/ \E t \in Testers : cmd_test_results(t)
    \/ \E t \in Testers : KillTests(t)
    \/ TestTick

TestSpec == TestInit /\ [][TestNext]_testVars

----------------------------------------------------------------------------
(* Every stored result is a case of the run it names, stored once and in the *)
(* order of the output, whatever other commands store in between; and what   *)
(* test-results prints is of one run of the project it is asked about        *)
(* (Runner::execute, Store::add_test_result, get_test_results).              *)
ResultsAreOfTheirRun ==
    /\ \A i \in DOMAIN test_results :
          LET r == test_results[i] IN
          /\ r.run \in DOMAIN test_runs
          /\ r.name <= Len(test_runs[r.run].run.cases)
          /\ test_runs[r.run].run.cases[r.name] = r.status
          /\ \A j \in 1..(i - 1) : test_results[j].run = r.run => test_results[j].name < r.name
    /\ \A t \in Testers : \A i, j \in shown[t] :
          /\ test_results[i].run = test_results[j].run
          /\ test_runs[test_results[i].run].project = t
=============================================================================
