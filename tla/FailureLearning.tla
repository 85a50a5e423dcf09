--------------------------- MODULE FailureLearning ---------------------------
(***************************************************************************)
(* The failure memory of the brain module (learner.cpp, pattern_matcher.cpp,*)
(* recovery.cpp and the tables behind them): failures recorded with the    *)
(* workspace snapshots around them, patterns learned from failures that    *)
(* look alike, and recovery actions suggested and executed.                *)
(* A message is a sequence of words; its first word stands for the error   *)
(* line that extract_error_core keeps and normalize_error_message rewrites.*)
(* Foreign keys are enforced, and an id of 0 is bound as '': it is refused.*)
(***************************************************************************)
EXTENDS Integers, Sequences, FiniteSetsExt, Functions

CONSTANTS
    Learners,      \* processes that record failures
    Messages,      \* error messages
    Commands,      \* what was run: [kind, exit]
    MaxFailures, MaxWsSnaps,
    MaxRecoveries  \* failures marked resolved, suggestions asked for

ASSUME LearningAssumption == {MaxFailures, MaxWsSnaps, MaxRecoveries} \subseteq Nat

VARIABLES
    wsnaps,     \* workspace snapshots that exist
    nextSnap,   \* the next snapshot id
    failures,   \* rows of workspace_failures
    patterns,   \* rows of brain_failure_patterns, by their unique signature
    actions,    \* rows of brain_recovery_actions
    history,    \* rows of brain_recovery_history
    learners,   \* record_failure in each process
    recovery,   \* suggest_recovery and the recovery chosen; gone: deleted since it began
    recoveries  \* failures marked resolved, suggestions asked for

learningVars == <<wsnaps, nextSnap, failures, patterns, actions, history, learners,
                  recovery, recoveries>>

NoLearner == [pc |-> "idle", f |-> 0]
NoAction == [id |-> 0, type |-> "none", snap |-> 0, confirm |-> TRUE, score |-> 0]
NoRecovery == [pc |-> "idle", f |-> 0, failure |-> <<>>, found |-> {}, gone |-> {}, action |-> NoAction, row |-> 0]

LearningInit ==
    /\ wsnaps = {} /\ nextSnap = 1
    /\ failures = <<>> /\ patterns = << >> /\ actions = <<>> /\ history = <<>>
    /\ learners = [p \in Learners |-> NoLearner]
    /\ recovery = NoRecovery /\ recoveries = 0

----------------------------------------------------------------------------
(* Signatures, similarity, failure types                                    *)

\* the lines that report the error; here the first word
extract_error_core(msg) == msg[1]

\* paths, line numbers, addresses and times are gone: the rest of the message
\* does not count
compute_error_signature(msg) == extract_error_core(msg)

Has(msg, word) == \E i \in DOMAIN msg : msg[i] = word

\* the words of the command come first, then those of the message
infer_failure_type(kind, msg) ==
    CASE kind = "test" -> "test"
      [] kind = "make" -> IF Has(msg, "undefined") THEN "link" ELSE "build"
      [] OTHER -> IF Has(msg, "undefined") THEN "link"
                  ELSE IF Has(msg, "assertion") THEN "test" ELSE "build"

\* nothing is detected in a command that succeeded
detect_failure(command, msg) ==
    IF command.exit = 0 THEN "none" ELSE infer_failure_type(command.kind, msg)

levenshtein_distance(a, b) ==
    LET d[i \in 0..Len(a), j \in 0..Len(b)] ==
          IF i = 0 THEN j ELSE IF j = 0 THEN i
          ELSE Min({d[i-1, j] + 1, d[i, j-1] + 1,
                    d[i-1, j-1] + IF a[i] = b[j] THEN 0 ELSE 1})
    IN d[Len(a), Len(b)]

\* |A \cap B| / |A \cup B| of the words, as a pair
token_similarity(a, b) ==
    <<Cardinality(Range(a) \cap Range(b)), Cardinality(Range(a) \cup Range(b))>>

\* 70% words, 30% edit distance, in percent
compute_similarity(a, b) ==
    LET t == token_similarity(a, b)
        m == Max({Len(a), Len(b)})
    IN (70 * t[1] * m + 30 * (m - levenshtein_distance(a, b)) * t[2]) \div (t[2] * m)

\* evaluated once for the messages at hand
Similarity == [a \in Messages, b \in Messages |-> compute_similarity(a, b)]

\* SELECT ... WHERE error_signature = ?
SameSignature(sig) == {f \in DOMAIN failures : failures[f].sig = sig}

\* the failures of the same signature that are at least half alike
find_similar_failures(sig, msg) ==
    {f \in SameSignature(sig) : Similarity[msg, failures[f].msg] >= 50}

\* every column but error_regex, failure_ids and strategies
list_patterns == {[sig |-> s, type |-> patterns[s].type, regex |-> ""] : s \in DOMAIN patterns}

\* a pattern without a regex matches by its signature alone
find_matching_patterns(sig, type) ==
    {r.sig : r \in {l \in list_patterns : l.type = type /\ (l.sig = sig \/ l.regex # "")}}

get_pattern_by_signature(sig) == {s \in DOMAIN patterns : s = sig}

get_failure(n) == failures[n]

----------------------------------------------------------------------------
(* Learner::record_failure                                                  *)

\* INSERT INTO workspace_failures: a snapshot id that is 0 or gone is
\* refused, be it that before or that after the failure (which nothing reads)
record_failure_with_context(p, type, msg, before) ==
    /\ learners[p].pc = "idle"
    /\ Len(failures) < MaxFailures
    /\ before \in wsnaps
    /\ type # "none"
    /\ failures' = Append(failures, [sig |-> compute_error_signature(msg), msg |-> msg,
                             type |-> type, before |-> before,
                             resolved |-> FALSE, how |-> "", with |-> 0])
    /\ learners' = [learners EXCEPT ![p] = [pc |-> "match", f |-> Len(failures) + 1]]
    /\ UNCHANGED <<wsnaps, nextSnap, patterns, actions, history, recovery, recoveries>>

\* update_pattern_statistics(id, 1); linking the failure changes no count
update_pattern_stats(s) == [patterns EXCEPT ![s].count = @ + 1]

\* mutant: two alike are enough
LearnFromTwo(p) ==
    /\ learners[p].pc = "match"
    /\ LET f == failures[learners[p].f]
           similar == find_similar_failures(f.sig, f.msg)
           known == find_matching_patterns(f.sig, f.type)
       IN IF Cardinality(similar) >= 2
          THEN IF known = {}
               THEN /\ learners' = [learners EXCEPT ![p].pc = "learn"] /\ patterns' = patterns
               ELSE /\ patterns' = update_pattern_stats(f.sig)
                    /\ learners' = [learners EXCEPT ![p] = NoLearner]
          ELSE /\ learners' = [learners EXCEPT ![p] = NoLearner] /\ patterns' = patterns
    /\ UNCHANGED <<wsnaps, nextSnap, failures, actions, history, recovery, recoveries>>

\* three or more alike: a known pattern is counted up, else one is learned
record_failure(p) ==
    /\ learners[p].pc = "match"
    /\ LET f == failures[learners[p].f]
           similar == find_similar_failures(f.sig, f.msg)
           known == find_matching_patterns(f.sig, f.type)
       IN IF Cardinality(similar) >= 3
          THEN IF known = {}
               THEN /\ learners' = [learners EXCEPT ![p].pc = "learn"] /\ patterns' = patterns
               ELSE /\ patterns' = update_pattern_stats(f.sig)
                    /\ learners' = [learners EXCEPT ![p] = NoLearner]
          ELSE /\ learners' = [learners EXCEPT ![p] = NoLearner] /\ patterns' = patterns
    /\ UNCHANGED <<wsnaps, nextSnap, failures, actions, history, recovery, recoveries>>

\* learn_pattern: a pattern of the signature but of another type is counted up
learn_pattern(p) ==
    /\ learners[p].pc = "learn"
    /\ LET f == get_failure(learners[p].f)
       IN IF get_pattern_by_signature(f.sig) # {}
          THEN /\ patterns' = update_pattern_stats(f.sig)
               /\ learners' = [learners EXCEPT ![p] = NoLearner]
          ELSE /\ learners' = [learners EXCEPT ![p].pc = "create"] /\ patterns' = patterns
    /\ UNCHANGED <<wsnaps, nextSnap, failures, actions, history, recovery, recoveries>>

\* INSERT: refused when another process has learned the signature since; the type
\* is that of the failure most alike, which sort() may pick among equals
record_pattern(p) ==
    /\ learners[p].pc = "create"
    /\ LET f == failures[learners[p].f]
           score(g) == Similarity[f.msg, failures[g].msg]
           similar == find_similar_failures(f.sig, f.msg)
       IN \E g \in similar :
             /\ \A h \in similar : score(h) <= score(g)
             /\ patterns' = IF f.sig \in DOMAIN patterns THEN patterns
                            ELSE [s \in DOMAIN patterns \cup {f.sig} |->
                                    IF s = f.sig THEN [type |-> failures[g].type, count |-> 1]
                                    ELSE patterns[s]]
    /\ learners' = [learners EXCEPT ![p] = NoLearner]
    /\ UNCHANGED <<wsnaps, nextSnap, failures, actions, history, recovery, recoveries>>

\* update_failure_resolution: one UPDATE, refused without an existing snapshot
mark_resolved(f, how, snap) ==
    /\ f \in DOMAIN failures
    /\ ~failures[f].resolved
    /\ snap \in wsnaps
    /\ recoveries < MaxRecoveries
    /\ recoveries' = recoveries + 1
    /\ failures' = [failures EXCEPT ![f].resolved = TRUE, ![f].how = how, ![f].with = snap]
    /\ UNCHANGED <<wsnaps, nextSnap, patterns, actions, history, learners, recovery>>

----------------------------------------------------------------------------
(* Workspace snapshots come and go                                          *)

TakeSnapshot ==
    /\ nextSnap <= MaxWsSnaps
    /\ wsnaps' = wsnaps \cup {nextSnap}
    /\ nextSnap' = nextSnap + 1
    /\ UNCHANGED <<failures, patterns, actions, history, learners, recovery, recoveries>>

\* ON DELETE SET NULL
Forget(f, s) ==
    [f EXCEPT !.before = IF @ = s THEN 0 ELSE @,
              !.with = IF @ = s THEN 0 ELSE @]

Suggesting == recovery.pc \in {"patterns", "similar", "choose"}

Drop(s) ==
    /\ s \in wsnaps
    /\ wsnaps' = wsnaps \ {s}
    /\ recovery' = IF Suggesting THEN [recovery EXCEPT !.gone = @ \cup {s}] ELSE recovery
    /\ UNCHANGED <<nextSnap, patterns, actions, history, learners, recoveries>>

\* mutant: the column that 006 adds has no foreign key
DropUnforgotten(s) ==
    /\ Drop(s)
    /\ failures' = [f \in DOMAIN failures |-> [Forget(failures[f], s) EXCEPT !.with = failures[f].with]]

DropSnapshot(s) ==
    /\ Drop(s)
    /\ failures' = [f \in DOMAIN failures |-> Forget(failures[f], s)]

----------------------------------------------------------------------------
(* RecoverySuggester                                                        *)

create_restore_snapshot_action(s, score) ==
    [id |-> 0, type |-> "restore_snapshot", snap |-> s, confirm |-> TRUE, score |-> score]

create_restore_files_action(s, score) ==
    [id |-> 0, type |-> "restore_files", snap |-> s, confirm |-> TRUE, score |-> score]

create_clean_build_action ==
    [id |-> 0, type |-> "clean_build", snap |-> 0, confirm |-> FALSE, score |-> 40]

get_recovery_actions_for_pattern(s) == {a \in Range(actions) : a.pattern = s}

\* the actions stored for the pattern; it has no failure ids to learn others from
generate_from_pattern(s) == get_recovery_actions_for_pattern(s)

generate_from_similar_failures(sig, msg) ==
    {create_restore_snapshot_action(failures[f].with,
        (Similarity[msg, failures[f].msg] * 8) \div 10) :
       f \in {g \in find_similar_failures(sig, msg) :
                failures[g].resolved /\ failures[g].how = "restore" /\ failures[g].with > 0}}

generate_generic_suggestions(f) ==
    UNION { IF f.type = "build" THEN {create_clean_build_action} ELSE {},
            IF f.type = "build" /\ Has(f.msg, "undefined") /\ f.before > 0
            THEN {create_restore_files_action(f.before, 50)} ELSE {},
            IF f.type = "test" /\ f.before > 0
            THEN {create_restore_snapshot_action(f.before, 60)} ELSE {} }

\* the part of a stored action that execute_recovery uses
parse_action(a) ==
    [id |-> a.id, type |-> a.type, snap |-> a.snap, confirm |-> a.confirm,
     score |-> IF a.ok + a.bad = 0 THEN 0 ELSE (100 * a.ok) \div (a.ok + a.bad)]

\* the failure's row is read once, before everything else
suggest_recovery(n) ==
    /\ n \in DOMAIN failures
    /\ recovery.pc = "idle"
    /\ recoveries < MaxRecoveries
    /\ recoveries' = recoveries + 1
    /\ recovery' = [NoRecovery EXCEPT !.pc = "patterns", !.f = n, !.failure = get_failure(n)]
    /\ UNCHANGED <<wsnaps, nextSnap, failures, patterns, actions, history, learners>>

\* Strategy 1
SuggestFromPatterns ==
    /\ recovery.pc = "patterns"
    /\ LET f == recovery.failure
       IN recovery' = [recovery EXCEPT !.pc = "similar",
             !.found = UNION {{parse_action(a) : a \in generate_from_pattern(s)} :
                                s \in find_matching_patterns(f.sig, f.type)}]
    /\ UNCHANGED <<wsnaps, nextSnap, failures, patterns, actions, history, learners, recoveries>>

\* Strategy 2 reads every failure alike once more; strategy 3 works on the row read first.
\* The best five are kept; here the user may choose any.
SuggestFromFailures ==
    /\ recovery.pc = "similar"
    /\ LET f == recovery.failure
       IN recovery' = [recovery EXCEPT !.pc = "choose",
             !.found = @ \cup generate_from_similar_failures(f.sig, f.msg) \cup generate_generic_suggestions(f)]
    /\ UNCHANGED <<wsnaps, nextSnap, failures, patterns, actions, history, learners, recoveries>>

\* INSERT INTO brain_recovery_actions for a pattern and a failure that exist.  A snapshot id
\* among the parameters is JSON text: no foreign key looks at it.
add_recovery_action(s, n, type, snap, confirm) ==
    /\ s \in DOMAIN patterns
    /\ n \in DOMAIN failures
    /\ actions = <<>>
    /\ actions' = <<[id |-> 1, pattern |-> s, type |-> type, snap |-> snap,
                     confirm |-> confirm, ok |-> 0, bad |-> 0]>>
    /\ UNCHANGED <<wsnaps, nextSnap, failures, patterns, history, learners, recovery, recoveries>>

Recover(action) ==
    /\ recovery.pc = "choose"
    /\ recovery' = [NoRecovery EXCEPT !.pc = "begin", !.f = recovery.f, !.action = action]
    /\ UNCHANGED <<wsnaps, nextSnap, failures, patterns, actions, history, learners, recoveries>>

\* a user picks one of the suggestions
execute_recovery == \E action \in recovery.found : Recover(action)

\* the best suggestion that needs no confirmation and is at least 80% sure
auto_recover == \E action \in recovery.found : action.score >= 80 /\ ~action.confirm /\ Recover(action)

\* an action that is not stored has no id: its INSERT into the history is refused
begin_recovery_execution ==
    /\ recovery.pc = "begin"
    /\ IF recovery.action.id > 0
       THEN /\ history' = Append(history, [f |-> recovery.f, done |-> FALSE, ok |-> FALSE])
            /\ recovery' = [recovery EXCEPT !.pc = "act", !.row = Len(history) + 1]
       ELSE /\ recovery' = [recovery EXCEPT !.pc = "act"]
            /\ history' = history
    /\ UNCHANGED <<wsnaps, nextSnap, failures, patterns, actions, learners, recoveries>>

\* restore: the snapshot must still be there
execute_restore_snapshot(ok) == ok => recovery.action.snap \in wsnaps

\* a partial restore that includes no path restores none, and is refused
execute_restore_files(ok) == ~ok

execute_clean_build(ok) == ok \in BOOLEAN

\* whether the outcome ok is one the action can have
Outcome(ok) ==
    CASE recovery.action.type = "restore_snapshot" -> execute_restore_snapshot(ok)
      [] recovery.action.type = "restore_files" -> execute_restore_files(ok)
      [] recovery.action.type = "clean_build" -> execute_clean_build(ok)
      [] OTHER -> ~ok

update_recovery_action_stats(id, ok) ==
    IF ok THEN [actions EXCEPT ![id].ok = @ + 1] ELSE [actions EXCEPT ![id].bad = @ + 1]

\* the execution, complete_recovery_execution, the statistics of a stored action
Act(ok) ==
    /\ recovery.pc = "act"
    /\ Outcome(ok)
    /\ history' = IF recovery.row = 0 THEN history
                  ELSE [history EXCEPT ![recovery.row].done = TRUE, ![recovery.row].ok = ok]
    /\ actions' = IF recovery.action.id = 0 THEN actions
                  ELSE update_recovery_action_stats(recovery.action.id, ok)
    /\ recovery' = NoRecovery
    /\ UNCHANGED <<wsnaps, nextSnap, failures, patterns, learners, recoveries>>

LearningCrash ==
    \/ /\ recovery.pc # "idle"
       /\ recovery' = NoRecovery
       /\ UNCHANGED <<wsnaps, nextSnap, failures, patterns, actions, history, learners, recoveries>>
    \/ \E p \in Learners :
       /\ learners[p].pc # "idle"
       /\ learners' = [learners EXCEPT ![p] = NoLearner]
       /\ UNCHANGED <<wsnaps, nextSnap, failures, patterns, actions, history, recovery, recoveries>>

LearningNext ==
    \/ TakeSnapshot \/ LearningCrash
    \/ SuggestFromPatterns \/ SuggestFromFailures
    \/ execute_recovery \/ auto_recover \/ begin_recovery_execution
    \/ \E s \in wsnaps : DropSnapshot(s)
    \/ \E ok \in BOOLEAN : Act(ok)
    \/ \E p \in Learners :
          \/ \E c \in Commands, m \in Messages, before \in wsnaps :
                record_failure_with_context(p, detect_failure(c, m), m, before)
          \/ record_failure(p) \/ learn_pattern(p) \/ record_pattern(p)
    \/ \E n \in DOMAIN failures :
          \/ suggest_recovery(n)
          \/ \E how \in {"restore", "fix"}, s \in wsnaps : mark_resolved(n, how, s)
          \/ \E s \in DOMAIN patterns, confirm \in BOOLEAN :
                \/ add_recovery_action(s, n, "clean_build", 0, confirm)
                \/ \E snap \in 1..nextSnap : add_recovery_action(s, n, "restore_snapshot", snap, confirm)

LearningSpec == LearningInit /\ [][LearningNext]_learningVars

----------------------------------------------------------------------------

(* A pattern stands for failures that really happened: it is learned from   *)
(* at least three recorded failures of its signature and never counts more  *)
(* occurrences than there are failures, even when two processes look for    *)
(* failures like theirs at the same time (a second failure whose process    *)
(* looks late is then counted too).                                         *)
PatternsAreEarned ==
    \A s \in DOMAIN patterns :
        LET same == Cardinality(SameSignature(s))
        IN same >= 3 /\ patterns[s].count <= same

(* A restore that suggest_recovery makes up from failures names a snapshot  *)
(* that is there, or that was deleted only after the command had begun: the *)
(* ids that failures keep are cleared with the snapshot they name, and the  *)
(* failure's own row, read before everything else, can be stale only by     *)
(* what a prune took since.  Stored actions name what they like.            *)
SuggestionsWereLive ==
    \A a \in recovery.found :
        a.id = 0 /\ a.type \in {"restore_snapshot", "restore_files"} => a.snap \in wsnaps \cup recovery.gone
=============================================================================
