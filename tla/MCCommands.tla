----------------------------- MODULE MCCommands -----------------------------
(* Small instances of the commands of nazg that meet in no variable: each     *)
(* works on tables, files or machines of its own.  A behaviour follows one of *)
(* them, the one `focus` names, from its own initial states.                 *)
EXTENDS SmartBuild, FailureLearning, GitServers, TestRuns, MergeScenario, Bots, Panes

CONSTANTS Focus, p, q, h1, h2, x, y, m1, r1, r2

-----------------------------------------------------------------------------
(* Projects, failures, servers, tests, scenarios and machines                *)

NoFiles == [l \in {"cpp", "c", "python", "rust", "go", "javascript"} |-> 0]
MCTrees ==
    {[files |-> {"CMakeLists.txt"}, counts |-> [NoFiles EXCEPT !["cpp"] = 2]],
     [files |-> {"Cargo.toml"}, counts |-> [NoFiles EXCEPT !["rust"] = 1]],
     [files |-> {"build.gradle"}, counts |-> NoFiles]}

MCMessages == {<<"e1", "assertion">>, <<"e1", "a", "b">>}
MCRan == {[kind |-> "other", exit |-> 1]}

MCSettings ==
    {[type |-> "cgit", host |-> h1, token |-> ""], [type |-> "gitea", host |-> h1, token |-> "good"],
     [type |-> "gitea", host |-> h2, token |-> "good"], [type |-> "other", host |-> h1, token |-> "good"]}

NewMachine == [up |-> TRUE, has |-> {}, pushed |-> {}, forge |-> {}, rc |-> {}]
GiteaMachine ==
    [NewMachine EXCEPT !.forge = {r1},
        !.has = {"binary", "user", "home", "dirs", "confdir", "owned", "ini", "unit", "db", "started"}]
MCLegacy == {NewMachine, GiteaMachine}

Zeros == [total |-> 0, passed |-> 0, failed |-> 0, skipped |-> 0, errors |-> 0]
MCOutputs == {<<"Passed", "Failed">>, <<"Exception">>}
MCLeftovers == {[Zeros EXCEPT !.failed = -1]}

MCOptions ==
    [mode : {"local", "remote"}, shell : BOOLEAN, label : {"none", "l"}, lang : {"cpp", "go"},
     cleanup : BOOLEAN, valid : BOOLEAN]

MCMachineStates ==
    {[installed |-> TRUE, nginx |-> TRUE, fcgiwrap |-> TRUE, type |-> "cgit", disk |-> 10, config |-> TRUE]}

-----------------------------------------------------------------------------

VARIABLE focus

\* Parts with many initial states have them only in focus; gitea is on h2 from the start,
\* and config.toml is empty until it is edited.
OneStart ==
    /\ focus # "build" => kind = CHOOSE t \in Trees : TRUE
    /\ toml = [l \in Labels |-> NoServer] /\ remote = [r \in Bares |-> NoServer]
    /\ box[h2] = GiteaMachine
    /\ focus # "git" => box[h1] = NewMachine
    /\ focus # "merge" => opts = CHOOSE o \in Options : TRUE

CommandsInit ==
    /\ focus \in Focus
    /\ BuildInit /\ LearningInit /\ GitInit /\ TestInit /\ MergeInit /\ BotsInit /\ PanesInit
    /\ OneStart

CommandsNext ==
    \/ /\ focus = "build" /\ BuildNext
       /\ UNCHANGED <<focus, learningVars, gitVars, testVars, mergeVars, botVars, paneVars>>
    \/ /\ focus = "learning" /\ LearningNext
       /\ UNCHANGED <<focus, buildVars, gitVars, testVars, mergeVars, botVars, paneVars>>
    \/ /\ focus = "git" /\ GitNext
       /\ UNCHANGED <<focus, buildVars, learningVars, testVars, mergeVars, botVars, paneVars>>
    \/ /\ focus = "tests" /\ TestNext
       /\ UNCHANGED <<focus, buildVars, learningVars, gitVars, mergeVars, botVars, paneVars>>
    \/ /\ focus = "merge" /\ MergeNext
       /\ UNCHANGED <<focus, buildVars, learningVars, gitVars, testVars, botVars, paneVars>>
    \/ /\ focus = "bots" /\ BotsNext
       /\ UNCHANGED <<focus, buildVars, learningVars, gitVars, testVars, mergeVars, paneVars>>
    \/ /\ focus = "panes" /\ PanesNext
       /\ UNCHANGED <<focus, buildVars, learningVars, gitVars, testVars, mergeVars, botVars>>

CommandsSpec ==
    CommandsInit /\ [][CommandsNext]_<<focus, buildVars, learningVars, gitVars, testVars, mergeVars, botVars, paneVars>>

\* p and q are two processes, or the terminals they run in, wherever they occur
Symmetric == Permutations({p, q})
=============================================================================
