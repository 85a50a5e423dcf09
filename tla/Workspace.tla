------------------------------ MODULE Workspace ------------------------------
(***************************************************************************)
(* The workspace time machine: snapshots of a project's files, kept as rows *)
(* of the Nexus database and as copies under .nazg/workspace/snapshots/<id>;*)
(* restoring them; and pruning old ones.                                    *)
(*                                                                          *)
(* Every nazg command is a process of its own.  None of them takes a lock   *)
(* or opens a transaction around more than one statement, so each database  *)
(* statement and each file operation is a step, interleaved with the steps  *)
(* of other nazg processes and with the user, the editor and the build      *)
(* changing files.  A file's hash is abstracted to its content.             *)
(***************************************************************************)
EXTENDS Integers, FiniteSets

CONSTANTS
    Procs,           \* nazg processes
    Files,           \* paths that scan_workspace does not skip
    Sources,         \* those that detect_file_type calls SOURCE
    Contents,        \* contents a user gives to files
    Absent,          \* no such file, no such row
    Torn,            \* what an interrupted copy leaves
    Tags,            \* tag names of `workspace snapshot --tag`
    NoTag,
    RestoreOptions,  \* the options that restore is called with
    PruneOptions,    \* the options that prune is called with
    MaxSnapshots,    \* bound: snapshot rows ever inserted
    MaxClock,        \* bound: seconds that pass
    MaxJobs,         \* bound: commands started
    MaxEdits         \* bound: changes made to files by others

Ids == 1 .. MaxSnapshots
FileStates == Contents \cup {Absent, Torn}
NoFiles == [f \in Files |-> Absent]
SnapshotOptions == [tag : Tags \cup {NoTag}]
NoOption == [tag |-> NoTag]

\* RestoreOptions: `only` tells whether include paths are given, `include` and
\* `exclude` are the files that the paths match.  PruneOptions: `--keep n`, or
\* with by = "days" an age n.
ASSUME WorkspaceConstants ==
    /\ Sources \subseteq Files
    /\ Absent \notin Contents /\ Torn \notin Contents /\ Absent # Torn
    /\ NoTag \notin Tags
    /\ RestoreOptions \subseteq
         [mode : {"full", "smart", "partial"}, only : BOOLEAN,
          include : SUBSET Files, exclude : SUBSET Files, dry_run : BOOLEAN]
    /\ PruneOptions \subseteq
         [by : {"keep", "days"}, n : Nat \ {0}, untagged_only : BOOLEAN, dry_run : BOOLEAN]
    /\ MaxSnapshots \in 0 .. 1000  \* list_snapshots(project_id, 1000) lists them all
    /\ MaxClock \in Nat /\ MaxJobs \in Nat /\ MaxEdits \in Nat

VARIABLES
    \* the project directory
    work,         \* the project's files
    dirs,         \* snapshot ids that have a storage directory
    stored,       \* copies in the storage directory of each id
    madeFor,      \* history: the insertion that each copy was made for
    \* the database
    snaps,        \* ids of workspace_snapshots
    inserted,     \* snapshot rows inserted so far, the AUTOINCREMENT sequence
    owner,        \* history: the insertion that each id belongs to
    stamp,        \* timestamp of each snapshot
    rows,         \* workspace_files: recorded content by snapshot and file
    tags,         \* workspace_tags: snapshot of each tag, 0 when unused
    restores,     \* workspace_restores
    begun,        \* restore rows inserted so far
    count,        \* restore_count of each snapshot
    \* the processes
    pc, opt, sid, scan, listed, todo, got, failed, rec, victims,
    \* the world
    now, jobs, edits

disk == <<work, dirs, stored, madeFor>>
history == <<restores, begun, count>>
snapshots == <<snaps, inserted, owner, stamp, rows, tags>>
db == <<snapshots, history>>
proc == <<pc, opt, sid, scan, listed, todo, got, failed, rec, victims>>
world == <<now, jobs, edits>>
vars == <<disk, db, proc, world>>

Init ==
    /\ work \in [Files -> Contents \cup {Absent}]
    /\ dirs = {} /\ snaps = {} /\ inserted = 0 /\ restores = {} /\ begun = 0
    /\ stored = [i \in Ids |-> NoFiles]
    /\ madeFor = [i \in Ids |-> [f \in Files |-> 0]]
    /\ owner = [i \in Ids |-> 0]
    /\ stamp = [i \in Ids |-> 0]
    /\ rows = [i \in Ids |-> NoFiles]
    /\ tags = [t \in Tags |-> 0]
    /\ count = [i \in Ids |-> 0]
    /\ pc = [p \in Procs |-> "idle"]
    /\ opt = [p \in Procs |-> NoOption]
    /\ sid = [p \in Procs |-> 0]
    /\ scan = [p \in Procs |-> NoFiles]
    /\ listed = [p \in Procs |-> NoFiles]
    /\ todo = [p \in Procs |-> {}]
    /\ got = [p \in Procs |-> {}]
    /\ failed = [p \in Procs |-> FALSE]
    /\ rec = [p \in Procs |-> 0]
    /\ victims = [p \in Procs |-> {}]
    /\ now = 0 /\ jobs = 0 /\ edits = 0

\* A process ends and its memory with it.
Exit(p) ==
    /\ pc' = [pc EXCEPT ![p] = "idle"]
    /\ opt' = [opt EXCEPT ![p] = NoOption]
    /\ sid' = [sid EXCEPT ![p] = 0]
    /\ scan' = [scan EXCEPT ![p] = NoFiles]
    /\ listed' = [listed EXCEPT ![p] = NoFiles]
    /\ todo' = [todo EXCEPT ![p] = {}]
    /\ got' = [got EXCEPT ![p] = {}]
    /\ failed' = [failed EXCEPT ![p] = FALSE]
    /\ rec' = [rec EXCEPT ![p] = 0]
    /\ victims' = [victims EXCEPT ![p] = {}]

\* A process starts the command `o`.
Start(p, o, at) ==
    /\ pc[p] = "idle" /\ jobs < MaxJobs
    /\ jobs' = jobs + 1
    /\ opt' = [opt EXCEPT ![p] = o]
    /\ pc' = [pc EXCEPT ![p] = at]

-----------------------------------------------------------------------------
(***************************************************************************)
(* scan_workspace: one file after the other, while files change.            *)
(***************************************************************************)

ScanFile(p) ==
    /\ pc[p] \in {"scan", "diff"}
    /\ \E f \in todo[p] :
          /\ scan' = [scan EXCEPT ![p][f] = work[f]]
          /\ todo' = [todo EXCEPT ![p] = @ \ {f}]
    /\ UNCHANGED <<disk, db, pc, opt, sid, listed, got, failed, rec, victims, world>>

\* A filesystem_error (a directory that may not be read, a file that vanishes
\* between readdir and stat) ends the scan; what was found so far is returned.
ScanAborted(p) ==
    /\ pc[p] \in {"scan", "diff"} /\ todo[p] # {}
    /\ todo' = [todo EXCEPT ![p] = {}]
    /\ UNCHANGED <<disk, db, pc, opt, sid, scan, listed, got, failed, rec, victims, world>>

Scanned(p) == {f \in Files : scan[p][f] # Absent}

-----------------------------------------------------------------------------
(***************************************************************************)
(* Manager::create_snapshot and the tagging in cmd_workspace_snapshot.      *)
(***************************************************************************)

StartSnapshot(p) ==
    /\ \E o \in SnapshotOptions : Start(p, o, "scan")
    /\ todo' = [todo EXCEPT ![p] = Files]
    /\ UNCHANGED <<disk, db, sid, scan, listed, got, failed, rec, victims, now, edits>>

\* Mutant of NewId: without AUTOINCREMENT the largest id is used again.
LargestIdPlusOne ==
    IF snaps = {} THEN 1 ELSE 1 + CHOOSE i \in snaps : \A j \in snaps : j <= i

\* INTEGER PRIMARY KEY AUTOINCREMENT.
NewId == inserted + 1

\* add_workspace_snapshot; when it fails create_snapshot returns 0.
AddSnapshot(p) ==
    /\ pc[p] = "scan" /\ todo[p] = {}
    /\ inserted < MaxSnapshots
    /\ snaps' = snaps \cup {NewId}
    /\ inserted' = inserted + 1
    /\ owner' = [owner EXCEPT ![NewId] = inserted + 1]
    /\ stamp' = [stamp EXCEPT ![NewId] = now]
    /\ sid' = [sid EXCEPT ![p] = NewId]
    /\ todo' = [todo EXCEPT ![p] = Scanned(p)]
    /\ pc' = [pc EXCEPT ![p] = "rows"]
    /\ UNCHANGED <<disk, rows, tags, history, opt, scan, listed, got, failed, rec,
                   victims, world>>

AddSnapshotFails(p) ==
    /\ pc[p] = "scan" /\ todo[p] = {}
    /\ Exit(p)
    /\ UNCHANGED <<disk, db, world>>

\* add_workspace_file, whose result is ignored: the row is refused when the
\* database is busy or when the snapshot was deleted meanwhile.
AddFileRow(p) ==
    /\ pc[p] = "rows"
    /\ \E f \in todo[p] :
          /\ todo' = [todo EXCEPT ![p] = @ \ {f}]
          /\ \/ /\ sid[p] \in snaps
                /\ rows' = [rows EXCEPT ![sid[p]][f] = scan[p][f]]
             \/ UNCHANGED rows
    /\ UNCHANGED <<disk, snaps, inserted, owner, stamp, tags, history, pc, opt, sid,
                   scan, listed, got, failed, rec, victims, world>>

\* ensure_directory of the storage directory; without it nothing is copied.
MakeStorage(p) ==
    /\ pc[p] = "rows" /\ todo[p] = {}
    /\ pc' = [pc EXCEPT ![p] = "copy"]
    /\ \/ /\ dirs' = dirs \cup {sid[p]}
          /\ todo' = [todo EXCEPT ![p] = Scanned(p)]
       \/ UNCHANGED <<dirs, todo>>
    /\ UNCHANGED <<work, stored, madeFor, db, opt, sid, scan, listed, got, failed,
                   rec, victims, world>>

\* A copy of f, read again from the project, complete or torn.
Copies(p, f) ==
    /\ work[f] # Absent
    /\ \E c \in {work[f], Torn} : stored' = [stored EXCEPT ![sid[p]][f] = c]
    /\ madeFor' = [madeFor EXCEPT ![sid[p]][f] = owner[sid[p]]]

\* A missing file and a failed copy are only logged; a failed copy leaves the
\* destination as it was or torn.
CopyFile(p) ==
    /\ pc[p] = "copy"
    /\ \E f \in todo[p] :
          /\ todo' = [todo EXCEPT ![p] = @ \ {f}]
          /\ Copies(p, f) \/ UNCHANGED <<stored, madeFor>>
    /\ UNCHANGED <<work, dirs, db, pc, opt, sid, scan, listed, got, failed, rec,
                   victims, world>>

\* tag_snapshot: the tag moves here when it was in use.  Without --tag, and
\* when the snapshot was deleted or the database is busy, nothing changes.
TagSnapshot(p) ==
    /\ pc[p] = "copy" /\ todo[p] = {}
    /\ \/ /\ opt[p].tag # NoTag /\ sid[p] \in snaps
          /\ tags' = [tags EXCEPT ![opt[p].tag] = sid[p]]
       \/ UNCHANGED tags
    /\ Exit(p)
    /\ UNCHANGED <<disk, snaps, inserted, owner, stamp, rows, history, world>>

-----------------------------------------------------------------------------
(***************************************************************************)
(* Manager::restore.                                                        *)
(***************************************************************************)

\* get_snapshot found the row; "Snapshot not found" otherwise.
StartRestore(p) ==
    /\ \E o \in RestoreOptions : Start(p, o, "files")
    /\ \E i \in snaps : sid' = [sid EXCEPT ![p] = i]
    /\ UNCHANGED <<disk, db, scan, listed, todo, got, failed, rec, victims, now, edits>>

\* include paths turn a full restore into a partial one
Mode(o) == IF o.only /\ o.mode = "full" THEN "partial" ELSE o.mode

\* get_snapshot reads the file rows, gone when the snapshot was deleted since.
ReadFiles(p) ==
    /\ pc[p] = "files"
    /\ sid[p] \in dirs
    /\ Mode(opt[p]) = "partial" => opt[p].only
    /\ listed' = [listed EXCEPT ![p] = rows[sid[p]]]
    /\ pc' = [pc EXCEPT ![p] = IF Mode(opt[p]) = "smart" THEN "smart" ELSE "begin"]
    /\ UNCHANGED <<disk, db, opt, sid, scan, todo, got, failed, rec, victims, world>>

\* "Snapshot data not found", "Partial restore requires at least one ... path"
RestoreRefused(p) ==
    /\ pc[p] = "files"
    /\ sid[p] \notin dirs \/ (Mode(opt[p]) = "partial" /\ ~opt[p].only)
    /\ Exit(p)
    /\ UNCHANGED <<disk, db, world>>

\* diff_current reads the snapshot again, an empty diff when it is gone, and
\* scans the project.
StartDiff(p) ==
    /\ pc[p] = "smart"
    /\ listed' = [listed EXCEPT ![p] = IF sid[p] \in snaps THEN @ ELSE NoFiles]
    /\ todo' = [todo EXCEPT ![p] = IF sid[p] \in snaps THEN Files ELSE {}]
    /\ pc' = [pc EXCEPT ![p] = "diff"]
    /\ UNCHANGED <<disk, db, opt, sid, scan, got, failed, rec, victims, world>>

\* compute_snapshot_diff(current, snapshot): ADDED and MODIFIED are said of the
\* snapshot.
Added(p) == {f \in Files : listed[p][f] # Absent /\ scan[p][f] = Absent}
Modified(p) ==
    {f \in Files : listed[p][f] # Absent /\ scan[p][f] \notin {Absent, listed[p][f]}}

\* Mutant of SmartChoice: modified sources are restored like the other files.
SmartTakesAll(p) == Added(p) \cup Modified(p)

\* Sources that still exist are left alone unless an include path asks for them.
SmartChoice(p) ==
    Added(p) \cup {f \in Modified(p) : f \notin Sources \/ (opt[p].only /\ f \in opt[p].include)}

Candidates(p) ==
    IF Mode(opt[p]) = "smart" THEN SmartChoice(p)
    ELSE {f \in Files : listed[p][f] # Absent}

should_include(p, f) ==
    /\ opt[p].only => f \in opt[p].include
    /\ f \notin opt[p].exclude

Wanted(p) == {f \in Candidates(p) : should_include(p, f)}

Chosen(p) == pc[p] = "begin" \/ (pc[p] = "diff" /\ todo[p] = {})

\* No candidate, not even a filtered one: success, and no trace of it.
NothingToRestore(p) ==
    /\ Chosen(p)
    /\ Candidates(p) = {}
    /\ Exit(p)
    /\ UNCHANGED <<disk, db, world>>

\* begin_workspace_restore, unless dry_run; 0 when the insert fails, and the
\* restore goes on.  The files are copied in the order of their names, which is
\* left open here.
BeginRestore(p) ==
    /\ Chosen(p)
    /\ Candidates(p) # {}
    /\ todo' = [todo EXCEPT ![p] = Wanted(p)]
    /\ pc' = [pc EXCEPT ![p] = "restore"]
    /\ \/ /\ ~opt[p].dry_run /\ sid[p] \in snaps
          /\ begun' = begun + 1
          /\ rec' = [rec EXCEPT ![p] = begun + 1]
          /\ restores' = restores \cup
               {[id |-> begun + 1, snap |-> sid[p], ok |-> FALSE, want |-> Wanted(p), got |-> {}]}
       \/ UNCHANGED <<begun, rec, restores>>
    /\ UNCHANGED <<disk, snapshots, count, opt, sid, scan, listed, got, failed,
                   victims, world>>

\* Mutant of MissingIsError: a copy that is not there is skipped in silence.
MissingIsSkipped(p, f) == FALSE

MissingIsError(p, f) == stored[sid[p]][f] = Absent

\* What the loop may make of one file: its content afterwards, whether it counts
\* as restored, whether an error is pushed.
Outcomes(p, f) ==
    IF stored[sid[p]][f] = Absent
    THEN {[content |-> work[f], copied |-> FALSE, error |-> MissingIsError(p, f)]}
    ELSE IF opt[p].dry_run
    THEN {[content |-> work[f], copied |-> TRUE, error |-> FALSE]}
    ELSE {[content |-> stored[sid[p]][f], copied |-> TRUE, error |-> FALSE]} \cup
         {[content |-> c, copied |-> FALSE, error |-> TRUE] : c \in {work[f], Torn}}

RestoreFile(p) ==
    /\ pc[p] = "restore"
    /\ \E f \in todo[p] : \E r \in Outcomes(p, f) :
          /\ todo' = [todo EXCEPT ![p] = @ \ {f}]
          /\ work' = [work EXCEPT ![f] = r.content]
          /\ got' = [got EXCEPT ![p] = IF r.copied THEN @ \cup {f} ELSE @]
          /\ failed' = [failed EXCEPT ![p] = @ \/ r.error]
    /\ UNCHANGED <<dirs, stored, madeFor, db, pc, opt, sid, scan, listed, rec,
                   victims, world>>

\* finish_workspace_restore, which may fail and may find the row gone.
FinishRestore(p) ==
    /\ pc[p] = "restore" /\ todo[p] = {}
    /\ pc' = [pc EXCEPT ![p] = "count"]
    /\ restores' \in
         {restores,
          {IF r.id = rec[p] THEN [r EXCEPT !.ok = ~failed[p], !.got = got[p]] ELSE r :
             r \in restores}}
    /\ UNCHANGED <<disk, snapshots, begun, count, opt, sid, scan, listed, todo, got,
                   failed, rec, victims, world>>

\* update_workspace_snapshot_restore_count, when there were no errors
CountRestore(p) ==
    /\ pc[p] = "count"
    /\ \/ /\ ~opt[p].dry_run /\ ~failed[p] /\ sid[p] \in snaps
          /\ count' = [count EXCEPT ![sid[p]] = @ + 1]
       \/ UNCHANGED count
    /\ Exit(p)
    /\ UNCHANGED <<disk, snapshots, restores, begun, world>>

-----------------------------------------------------------------------------
(***************************************************************************)
(* prune_old_snapshots and prune_older_than.                                *)
(***************************************************************************)

\* ORDER BY timestamp DESC: SQLite sorts the rows of the project, which it finds
\* in the order of their ids, and keeps that order among equal timestamps.
ListedBefore(i, j) == stamp[i] > stamp[j] \/ (stamp[i] = stamp[j] /\ i < j)

Rank(i) == Cardinality({j \in snaps : ListedBefore(j, i)})

\* Mutant of Expendable: the index of the first candidate is one too small.
ExpendableOffByOne(o) ==
    IF o.by = "keep" THEN {i \in snaps : Rank(i) >= o.n - 1}
    ELSE {i \in snaps : stamp[i] < now - o.n}

\* The snapshots beyond the first n of the list, or older than the cutoff.
Expendable(o) ==
    IF o.by = "keep" THEN {i \in snaps : Rank(i) >= o.n}
    ELSE {i \in snaps : stamp[i] < now - o.n}

\* list_snapshots
StartPrune(p) ==
    /\ \E o \in PruneOptions :
          /\ Start(p, o, "tags")
          /\ victims' = [victims EXCEPT ![p] = Expendable(o)]
    /\ UNCHANGED <<disk, db, sid, scan, listed, todo, got, failed, rec, now, edits>>

\* list_workspace_tags, a later statement; a dry run only prints
PruneTags(p) ==
    /\ pc[p] = "tags"
    /\ victims' = [victims EXCEPT ![p] =
                     IF opt[p].dry_run THEN {}
                     ELSE {i \in @ : opt[p].untagged_only => \A t \in Tags : tags[t] # i}]
    /\ pc' = [pc EXCEPT ![p] = "prune"]
    /\ UNCHANGED <<disk, db, opt, sid, scan, listed, todo, got, failed, rec, world>>

\* Mutant of DeleteRow: a connection that does not enforce foreign keys.
DeleteRowOnly(i) ==
    /\ snaps' = snaps \ {i}
    /\ UNCHANGED <<rows, tags, restores, count>>

\* DELETE of one snapshot, which takes its file rows, tags and restores with it
\* (ON DELETE CASCADE) and leaves its storage directory.
DeleteRow(i) ==
    /\ snaps' = snaps \ {i}
    /\ rows' = [rows EXCEPT ![i] = NoFiles]
    /\ tags' = [t \in Tags |-> IF tags[t] = i THEN 0 ELSE tags[t]]
    /\ restores' = {r \in restores : r.snap # i}
    /\ count' = [count EXCEPT ![i] = 0]

\* delete_workspace_snapshot in the order of the list; a failure is logged.
PruneDelete(p) ==
    /\ pc[p] = "prune"
    /\ \E i \in victims[p] :
          /\ \A j \in victims[p] \ {i} : ~ListedBefore(j, i)
          /\ victims' = [victims EXCEPT ![p] = @ \ {i}]
          /\ DeleteRow(i) \/ UNCHANGED <<snaps, rows, tags, restores, count>>
    /\ UNCHANGED <<disk, inserted, owner, stamp, begun, pc, opt, sid, scan, listed,
                   todo, got, failed, rec, world>>

FinishPrune(p) ==
    /\ pc[p] = "prune" /\ victims[p] = {}
    /\ Exit(p)
    /\ UNCHANGED <<disk, db, world>>

-----------------------------------------------------------------------------
(***************************************************************************)
(* The world: a nazg process is killed, in the middle of a copy perhaps;    *)
(* files change; time passes.                                               *)
(***************************************************************************)

Crash(p) ==
    /\ pc[p] # "idle"
    /\ Exit(p)
    /\ UNCHANGED <<disk, db, world>>

CrashInCopy(p) ==
    /\ \/ /\ pc[p] = "copy"
          /\ \E f \in todo[p] : Copies(p, f) /\ stored'[sid[p]][f] = Torn
          /\ UNCHANGED work
       \/ /\ pc[p] = "restore" /\ ~opt[p].dry_run
          /\ \E f \in todo[p] :
                /\ stored[sid[p]][f] # Absent
                /\ work' = [work EXCEPT ![f] = Torn]
          /\ UNCHANGED <<stored, madeFor>>
    /\ Exit(p)
    /\ UNCHANGED <<dirs, db, world>>

Edit ==
    /\ edits < MaxEdits
    /\ edits' = edits + 1
    /\ \E f \in Files : \E c \in (Contents \cup {Absent}) \ {work[f]} :
          work' = [work EXCEPT ![f] = c]
    /\ UNCHANGED <<dirs, stored, madeFor, db, proc, now, jobs>>

Tick ==
    /\ now < MaxClock
    /\ now' = now + 1
    /\ UNCHANGED <<disk, db, proc, jobs, edits>>

Next ==
    \/ \E p \in Procs :
          \/ ScanFile(p) \/ ScanAborted(p)
          \/ StartSnapshot(p) \/ AddSnapshot(p) \/ AddSnapshotFails(p)
          \/ AddFileRow(p) \/ MakeStorage(p) \/ CopyFile(p) \/ TagSnapshot(p)
          \/ StartRestore(p) \/ ReadFiles(p) \/ RestoreRefused(p) \/ StartDiff(p)
          \/ NothingToRestore(p) \/ BeginRestore(p) \/ RestoreFile(p)
          \/ FinishRestore(p) \/ CountRestore(p)
          \/ StartPrune(p) \/ PruneTags(p) \/ PruneDelete(p) \/ FinishPrune(p)
          \/ Crash(p) \/ CrashInCopy(p)
    \/ Edit
    \/ Tick

Spec == Init /\ [][Next]_vars

-----------------------------------------------------------------------------
(***************************************************************************)
(* Properties                                                               *)
(***************************************************************************)

DiskTyped ==
    /\ work \in [Files -> FileStates] /\ dirs \subseteq Ids
    /\ stored \in [Ids -> [Files -> FileStates]]
    /\ madeFor \in [Ids -> [Files -> 0 .. MaxSnapshots]]

SnapshotsTyped ==
    /\ snaps \subseteq Ids /\ inserted \in 0 .. MaxSnapshots
    /\ owner \in [Ids -> 0 .. MaxSnapshots]
    /\ stamp \in [Ids -> 0 .. MaxClock]
    /\ rows \in [Ids -> [Files -> FileStates]]
    /\ \A i \in Ids \ snaps : rows[i] = NoFiles
    /\ tags \in [Tags -> {0} \cup snaps]

HistoryTyped ==
    /\ restores \subseteq [id : 1 .. begun, snap : snaps, ok : BOOLEAN,
                          want : SUBSET Files, got : SUBSET Files]
    /\ begun \in 0 .. MaxJobs /\ count \in [Ids -> 0 .. MaxJobs]

\* The options that a command at this point was called with.
OptionsAt(at) ==
    IF at \in {"idle", "scan", "rows", "copy"} THEN SnapshotOptions
    ELSE IF at \in {"tags", "prune"} THEN PruneOptions
    ELSE RestoreOptions

CommandTyped ==
    /\ pc \in [Procs -> {"idle", "scan", "rows", "copy", "files", "smart", "diff",
                         "begin", "restore", "count", "tags", "prune"}]
    /\ opt = [p \in Procs |-> opt[p]]
    /\ \A p \in Procs : opt[p] \in OptionsAt(pc[p])

MemoryTyped ==
    /\ sid \in [Procs -> {0} \cup Ids]
    /\ scan \in [Procs -> [Files -> FileStates]]
    /\ listed \in [Procs -> [Files -> FileStates]]
    /\ todo \in [Procs -> SUBSET Files] /\ got \in [Procs -> SUBSET Files]
    /\ failed \in [Procs -> BOOLEAN] /\ rec \in [Procs -> 0 .. begun]
    /\ victims \in [Procs -> SUBSET Ids]

WorldTyped == now \in 0 .. MaxClock /\ jobs \in 0 .. MaxJobs /\ edits \in 0 .. MaxEdits

\* The type of every variable: what the tables, the storage and a command's
\* memory can hold.  File rows, tags and restores are of snapshots that are in
\* the database, although commands write them while others prune.
TypeOK ==
    DiskTyped /\ SnapshotsTyped /\ HistoryTyped /\ CommandTyped /\ MemoryTyped /\ WorldTyped

\* Pruning deletes rows and leaves .nazg/workspace/snapshots/<id> behind, and a
\* snapshot may stop before it has copied a file.  Still no snapshot in the
\* database has a copy in its directory that an earlier snapshot left there, so
\* restore never brings back a file of a snapshot that was deleted.
NoStaleStorage ==
    \A i \in snaps, f \in Files : stored[i][f] # Absent => madeFor[i][f] = owner[i]

\* A row of workspace_restores that says success stands for a restore that
\* copied every file it had chosen, whatever failed, crashed or was deleted in
\* the meantime; the number it records is the number of those files.
HistoryHonest ==
    \A r \in restores : r.ok => r.got = r.want

\* A smart restore was not asked for the source file f.
Unasked(p, f) == f \in Sources /\ ~(opt[p].only /\ f \in opt[p].include)

\* A smart restore never writes a source file that its own scan of the project
\* saw, unless an include path names it, however files change while it runs.
SmartSparesSeenSources ==
    [][\A p \in Procs : pc[p] = "restore" /\ opt[p].mode = "smart" =>
          \A f \in todo[p] \ todo'[p] :
             Unasked(p, f) /\ scan[p][f] # Absent => work'[f] = work[f]]_vars

\* `prune --keep n` in one process or in several at once, each with a list that
\* the others' deletions have made stale: a deletion always leaves at least the
\* smallest n that any of them was called with.  (prune --days has no such
\* floor; the statement is for a project pruned by --keep.)
KeepsEnough ==
    [][snaps' # snaps =>
          \/ snaps \subseteq snaps'
          \/ \E o \in PruneOptions : o.by = "days" \/ Cardinality(snaps') >= o.n]_vars

-----------------------------------------------------------------------------
(***************************************************************************)
(* What the code says of itself, and does not do                            *)
(***************************************************************************)

\* "Source files: restore only if they no longer exist locally, or are
\* explicitly requested" (manager.cpp): a smart restore changes no existing
\* source file.
SmartKeepsSource ==
    [][\A p \in Procs : pc[p] = "restore" /\ opt[p].mode = "smart" =>
          \A f \in todo[p] \ todo'[p] :
             Unasked(p, f) /\ work[f] # Absent => work'[f] = work[f]]_vars
=============================================================================
