--------------------------- MODULE WorkspaceProofs ---------------------------
(***************************************************************************)
(* Snapshots, restores and prunes: the types of the tables, the storage and *)
(* the commands' memory; storage directories that outlive their snapshots;  *)
(* the restore history; what a smart restore leaves alone; and pruning with *)
(* stale lists.  Everything is for any sets of processes, files, tags and   *)
(* options.                                                                 *)
(***************************************************************************)
EXTENDS Workspace, FiniteSetTheorems, TLAPS

----------------------------------------------------------------------------
(***************************************************************************)
(* The type invariant.  Three of its bounds need more than the types: that  *)
(* a command which refers to a snapshot knows its id, and that begun and    *)
(* count stay within the number of commands started, because every command  *)
(* that may still add to them has been counted in jobs.                     *)
(***************************************************************************)

Pending == {p \in Procs : pc[p] \in {"files", "smart", "diff", "begin"}}

Restoring == {p \in Procs : pc[p] \in {"files", "smart", "diff", "begin", "restore", "count"}}

\* A command that refers to a snapshot has its id.
KnowsId ==
    \A p \in Procs :
        pc[p] \in {"rows", "copy", "files", "smart", "diff", "begin", "restore", "count"} =>
           sid[p] \in Ids

\* Every command that may still begin, or count, a restore was started once.
Budget ==
    /\ IsFiniteSet(Restoring)
    /\ begun + Cardinality(Pending) <= jobs
    /\ \A i \in Ids : count[i] + Cardinality(Restoring) <= jobs

TypeInv == TypeOK /\ KnowsId /\ Budget

\* Pending and Restoring are finite, and smaller ones have fewer elements.
LEMMA RestoringFinite ==
    ASSUME IsFiniteSet(Restoring)
    PROVE  /\ IsFiniteSet(Pending) /\ Cardinality(Restoring) \in Nat /\ Cardinality(Pending) \in Nat
           /\ \A S : S \subseteq Restoring =>
                 IsFiniteSet(S) /\ Cardinality(S) \in Nat /\ Cardinality(S) <= Cardinality(Restoring)
           /\ \A S : S \subseteq Pending =>
                 Cardinality(S) \in Nat /\ Cardinality(S) <= Cardinality(Pending)
<1>1. Pending \in SUBSET Restoring
  BY DEF Pending, Restoring
<1>2. IsFiniteSet(Pending)
  BY <1>1, FS_Subset
<1>3. \A S \in SUBSET Restoring : IsFiniteSet(S) /\ Cardinality(S) <= Cardinality(Restoring)
  BY FS_Subset
<1>4. \A S \in SUBSET Pending : IsFiniteSet(S) /\ Cardinality(S) <= Cardinality(Pending)
  BY <1>2, FS_Subset
<1> QED
  BY <1>2, <1>3, <1>4, FS_CardinalityType

\* No command becomes one that restores, and nothing is begun or counted.
LEMMA BudgetKept ==
    ASSUME TypeInv, Pending' \subseteq Pending, Restoring' \subseteq Restoring,
           jobs' \in Nat, jobs <= jobs', begun' = begun,
           count' \in [Ids -> Nat], \A i \in Ids : count'[i] <= count[i]
    PROVE  Budget'
<1>1. /\ IsFiniteSet(Restoring') /\ Cardinality(Restoring') \in Nat /\ Cardinality(Pending') \in Nat
      /\ Cardinality(Restoring) \in Nat /\ Cardinality(Pending) \in Nat
      /\ Cardinality(Restoring') <= Cardinality(Restoring)
      /\ Cardinality(Pending') <= Cardinality(Pending)
  BY RestoringFinite DEF TypeInv, Budget
<1>2. begun \in Nat /\ jobs \in Nat /\ count \in [Ids -> Nat]
  BY WorkspaceConstants DEF TypeInv, TypeOK, HistoryTyped, WorldTyped
<1>3. begun + Cardinality(Pending) <= jobs
  BY DEF TypeInv, Budget
<1>4. begun' + Cardinality(Pending') <= jobs'
  BY <1>1, <1>2, <1>3
<1>5. ASSUME NEW i \in Ids PROVE count'[i] + Cardinality(Restoring') <= jobs'
  <2>1. count[i] + Cardinality(Restoring) <= jobs /\ count[i] \in Nat /\ count'[i] \in Nat
    BY <1>2 DEF TypeInv, Budget
  <2> QED
    BY <1>1, <1>2, <2>1
<1> QED
  BY <1>1, <1>4, <1>5 DEF Budget

\* Restoring one file either copies it or pushes an error.
LEMMA OneFile ==
    ASSUME NEW p, NEW f, NEW r \in Outcomes(p, f)
    PROVE  /\ r.content \in {work[f], stored[sid[p]][f], Torn}
           /\ r.copied \in BOOLEAN /\ r.error \in BOOLEAN /\ (r.copied \/ r.error)
<1>1. CASE stored[sid[p]][f] = Absent
  <2>1. MissingIsError(p, f) = TRUE
    BY <1>1, Zenon DEF MissingIsError
  <2>2. r = [content |-> work[f], copied |-> FALSE, error |-> MissingIsError(p, f)]
    BY <1>1, Zenon DEF Outcomes
  <2> QED
    BY <2>1, <2>2
<1>2. CASE stored[sid[p]][f] # Absent /\ opt[p].dry_run
  <2>1. r = [content |-> work[f], copied |-> TRUE, error |-> FALSE]
    BY <1>2, Zenon DEF Outcomes
  <2> QED
    BY <2>1
<1>3. CASE stored[sid[p]][f] # Absent /\ ~opt[p].dry_run
  <2>1. r \in {[content |-> stored[sid[p]][f], copied |-> TRUE, error |-> FALSE]} \cup
               {[content |-> c, copied |-> FALSE, error |-> TRUE] : c \in {work[f], Torn}}
    BY <1>3, Zenon DEF Outcomes
  <2>2. CASE r = [content |-> stored[sid[p]][f], copied |-> TRUE, error |-> FALSE]
    BY <2>2
  <2>3. ASSUME NEW c \in {work[f], Torn}, r = [content |-> c, copied |-> FALSE, error |-> TRUE]
        PROVE  /\ r.content \in {work[f], stored[sid[p]][f], Torn}
               /\ r.copied \in BOOLEAN /\ r.error \in BOOLEAN /\ (r.copied \/ r.error)
    BY <2>3
  <2> QED
    BY <2>1, <2>2, <2>3
<1> QED
  BY <1>1, <1>2, <1>3

\* Every step preserves the types.
LEMMA WorkspaceTyped ==
    ASSUME TypeInv, [Next]_vars
    PROVE  TypeInv'
<1> USE DEF TypeInv, TypeOK
<1>D. UNCHANGED disk => DiskTyped'
  BY DEF disk, DiskTyped
<1>S. UNCHANGED snapshots => SnapshotsTyped'
  BY DEF snapshots, SnapshotsTyped
<1>H. UNCHANGED <<snaps, restores, begun, count>> => HistoryTyped'
  BY DEF HistoryTyped
<1>C. UNCHANGED <<pc, opt>> => CommandTyped'
  BY DEF CommandTyped
<1>K. UNCHANGED <<pc, sid>> => KnowsId'
  BY DEF KnowsId
<1>W. UNCHANGED world => WorldTyped'
  BY DEF world, WorldTyped
<1>B. ASSUME UNCHANGED <<begun, jobs, count>>, Pending' \subseteq Pending, Restoring' \subseteq Restoring
      PROVE  Budget'
  <2>1. jobs' \in Nat /\ jobs <= jobs' /\ count' \in [Ids -> Nat] /\ \A i \in Ids : count'[i] <= count[i]
    BY <1>B, WorkspaceConstants DEF HistoryTyped, WorldTyped
  <2> QED
    BY <1>B, <2>1, BudgetKept
<1>P. UNCHANGED pc => Pending' \subseteq Pending /\ Restoring' \subseteq Restoring
  BY DEF Pending, Restoring
<1>X. ASSUME NEW p \in Procs, Exit(p), UNCHANGED begun
      PROVE  CommandTyped' /\ KnowsId' /\ MemoryTyped' /\ Pending' \subseteq Pending /\ Restoring' \subseteq Restoring
  <2>1. NoOption \in SnapshotOptions
    BY DEF NoOption, SnapshotOptions
  <2>2. CommandTyped'
    BY <1>X, <2>1 DEF Exit, CommandTyped, OptionsAt
  <2>3. KnowsId' /\ Pending' \subseteq Pending /\ Restoring' \subseteq Restoring
    BY <1>X DEF Exit, CommandTyped, MemoryTyped, KnowsId, Pending, Restoring
  <2>4. NoFiles \in [Files -> FileStates]
    BY DEF NoFiles, FileStates
  <2>5. MemoryTyped'
    <3>1. begun \in Nat
      BY WorkspaceConstants DEF HistoryTyped
    <3> QED
      BY <1>X, <2>4, <3>1 DEF Exit, MemoryTyped
  <2> QED
    BY <2>2, <2>3, <2>5
<1>0. ASSUME NEW p \in Procs, Exit(p), UNCHANGED <<disk, db, world>> PROVE TypeInv'
  BY <1>0, <1>D, <1>S, <1>H, <1>W, <1>B, <1>X DEF db, snapshots, history, world
<1>1. ASSUME NEW p \in Procs, ScanFile(p) PROVE TypeInv'
  <2>1. MemoryTyped'
    BY <1>1 DEF ScanFile, MemoryTyped, DiskTyped, db, history
  <2> QED
    BY <1>1, <1>D, <1>S, <1>H, <1>C, <1>K, <1>W, <1>B, <1>P, <2>1 DEF ScanFile, db, history, snapshots, world
<1>2. ASSUME NEW p \in Procs, ScanAborted(p) PROVE TypeInv'
  <2>1. MemoryTyped'
    BY <1>2 DEF ScanAborted, MemoryTyped, db, history
  <2> QED
    BY <1>2, <1>D, <1>S, <1>H, <1>C, <1>K, <1>W, <1>B, <1>P, <2>1 DEF ScanAborted, db, history, snapshots, world
<1>3. ASSUME NEW p \in Procs, StartSnapshot(p) PROVE TypeInv'
  <2>1. PICK o \in SnapshotOptions : Start(p, o, "scan")
    BY <1>3 DEF StartSnapshot
  <2>2. MemoryTyped'
    BY <1>3 DEF StartSnapshot, MemoryTyped, db, history
  <2>3. CommandTyped' /\ KnowsId' /\ Pending' \subseteq Pending /\ Restoring' \subseteq Restoring
    BY <1>3, <2>1 DEF StartSnapshot, Start, CommandTyped, OptionsAt, KnowsId, Pending, Restoring
  <2>4. WorldTyped' /\ jobs' \in Nat /\ jobs <= jobs'
    BY <1>3, <2>1, WorkspaceConstants DEF StartSnapshot, Start, WorldTyped
  <2>5. Budget'
    BY <1>3, <2>3, <2>4, BudgetKept, WorkspaceConstants DEF StartSnapshot, db, history, HistoryTyped
  <2> QED
    BY <1>3, <1>D, <1>S, <1>H, <2>2, <2>3, <2>4, <2>5 DEF StartSnapshot, db, history, snapshots
<1>4. ASSUME NEW p \in Procs, AddSnapshot(p) PROVE TypeInv'
  <2>1. NewId \in Ids /\ inserted + 1 \in 0 .. MaxSnapshots
    BY <1>4, WorkspaceConstants DEF AddSnapshot, NewId, Ids, SnapshotsTyped
  <2>2. SnapshotsTyped'
    BY <1>4, <2>1 DEF AddSnapshot, SnapshotsTyped, WorldTyped
  <2>3. HistoryTyped'
    BY <1>4 DEF AddSnapshot, HistoryTyped, history
  <2>4. CommandTyped' /\ Pending' \subseteq Pending /\ Restoring' \subseteq Restoring
    BY <1>4 DEF AddSnapshot, CommandTyped, OptionsAt, Pending, Restoring
  <2>5. KnowsId'
    BY <1>4, <2>1 DEF AddSnapshot, CommandTyped, MemoryTyped, KnowsId
  <2>6. Scanned(p) \subseteq Files
    BY DEF Scanned
  <2>7. MemoryTyped'
    BY <1>4, <2>1, <2>6 DEF AddSnapshot, MemoryTyped, history
  <2> QED
    BY <1>4, <1>D, <1>W, <1>B, <2>2, <2>3, <2>4, <2>5, <2>7 DEF AddSnapshot, history, world
<1>5. ASSUME NEW p \in Procs, AddSnapshotFails(p) PROVE TypeInv'
  BY <1>0, <1>5 DEF AddSnapshotFails
<1>6. ASSUME NEW p \in Procs, AddFileRow(p) PROVE TypeInv'
  <2>1. PICK f \in todo[p] :
          /\ todo' = [todo EXCEPT ![p] = @ \ {f}]
          /\ \/ sid[p] \in snaps /\ rows' = [rows EXCEPT ![sid[p]][f] = scan[p][f]]
             \/ UNCHANGED rows
    BY <1>6 DEF AddFileRow
  <2>2. SnapshotsTyped'
    <3>1. f \in Files /\ scan[p][f] \in FileStates
      BY <2>1 DEF MemoryTyped
    <3>2. rows' \in [Ids -> [Files -> FileStates]]
      <4>1. CASE sid[p] \in snaps /\ rows' = [rows EXCEPT ![sid[p]][f] = scan[p][f]]
        <5>1. sid[p] \in Ids /\ rows[sid[p]] \in [Files -> FileStates]
          BY <4>1 DEF SnapshotsTyped
        <5>2. [rows[sid[p]] EXCEPT ![f] = scan[p][f]] \in [Files -> FileStates]
          BY <3>1, <5>1
        <5> QED
          BY <4>1, <5>1, <5>2 DEF SnapshotsTyped
      <4>2. CASE UNCHANGED rows
        BY <4>2 DEF SnapshotsTyped
      <4> QED
        BY <2>1, <4>1, <4>2
    <3> QED
      BY <1>6, <3>2 DEF AddFileRow, SnapshotsTyped
  <2>3. MemoryTyped'
    BY <1>6, <2>1 DEF AddFileRow, MemoryTyped, history
  <2> QED
    BY <1>6, <1>D, <1>H, <1>C, <1>K, <1>W, <1>B, <1>P, <2>2, <2>3 DEF AddFileRow, history, world
<1>7. ASSUME NEW p \in Procs, MakeStorage(p) PROVE TypeInv'
  <2>1. sid[p] \in Ids /\ Scanned(p) \subseteq Files
    BY <1>7 DEF MakeStorage, KnowsId, Scanned
  <2>2. DiskTyped'
    BY <1>7, <2>1 DEF MakeStorage, DiskTyped
  <2>3. MemoryTyped'
    BY <1>7, <2>1 DEF MakeStorage, MemoryTyped, db, history
  <2>4. CommandTyped' /\ KnowsId' /\ Pending' \subseteq Pending /\ Restoring' \subseteq Restoring
    BY <1>7 DEF MakeStorage, CommandTyped, OptionsAt, KnowsId, Pending, Restoring
  <2> QED
    BY <1>7, <1>S, <1>H, <1>W, <1>B, <2>2, <2>3, <2>4 DEF MakeStorage, db, history, snapshots, world
<1>8. ASSUME NEW p \in Procs, NEW f \in Files, sid[p] \in Ids, Copies(p, f), UNCHANGED <<work, dirs>>
      PROVE  DiskTyped'
  <2>1. owner[sid[p]] \in 0 .. MaxSnapshots
    BY <1>8 DEF SnapshotsTyped
  <2>2. PICK c \in {work[f], Torn} : stored' = [stored EXCEPT ![sid[p]][f] = c]
    BY <1>8 DEF Copies
  <2>3. c \in FileStates
    BY <2>2 DEF DiskTyped, FileStates
  <2> QED
    BY <1>8, <2>1, <2>2, <2>3 DEF Copies, DiskTyped
<1>9. ASSUME NEW p \in Procs, CopyFile(p) PROVE TypeInv'
  <2>1. PICK f \in todo[p] :
          /\ todo' = [todo EXCEPT ![p] = @ \ {f}]
          /\ Copies(p, f) \/ UNCHANGED <<stored, madeFor>>
    BY <1>9 DEF CopyFile
  <2>2. f \in Files /\ sid[p] \in Ids
    BY <1>9 DEF CopyFile, MemoryTyped, KnowsId
  <2>3. DiskTyped'
    BY <1>9, <1>8, <1>D, <2>1, <2>2 DEF CopyFile, disk
  <2>4. MemoryTyped'
    BY <1>9, <2>1 DEF CopyFile, MemoryTyped, db, history
  <2> QED
    BY <1>9, <1>S, <1>H, <1>C, <1>K, <1>W, <1>B, <1>P, <2>3, <2>4 DEF CopyFile, db, history, snapshots, world
<1>10. ASSUME NEW p \in Procs, TagSnapshot(p) PROVE TypeInv'
  <2>1. opt[p] \in SnapshotOptions
    BY <1>10 DEF TagSnapshot, CommandTyped, OptionsAt
  <2>2. opt[p].tag # NoTag => opt[p].tag \in Tags
    BY <2>1 DEF SnapshotOptions
  <2>3. SnapshotsTyped'
    BY <1>10, <2>2 DEF TagSnapshot, SnapshotsTyped
  <2> QED
    BY <1>10, <1>D, <1>H, <1>W, <1>B, <1>X, <2>3 DEF TagSnapshot, history, world
<1>11. ASSUME NEW p \in Procs, RestoreRefused(p) \/ NothingToRestore(p) \/ FinishPrune(p) \/ Crash(p)
       PROVE  TypeInv'
  BY <1>0, <1>11 DEF RestoreRefused, NothingToRestore, FinishPrune, Crash
<1>12. ASSUME NEW p \in Procs, StartRestore(p) PROVE TypeInv'
  <2>1. PICK o \in RestoreOptions : Start(p, o, "files")
    BY <1>12 DEF StartRestore
  <2>2. PICK i \in snaps : sid' = [sid EXCEPT ![p] = i]
    BY <1>12 DEF StartRestore
  <2>3. i \in Ids
    BY <2>2 DEF SnapshotsTyped
  <2>4. MemoryTyped'
    BY <1>12, <2>2, <2>3 DEF StartRestore, MemoryTyped, db, history
  <2>5. CommandTyped'
    BY <1>12, <2>1 DEF StartRestore, Start, CommandTyped, OptionsAt
  <2>6. KnowsId'
    BY <1>12, <2>1, <2>2, <2>3 DEF StartRestore, Start, CommandTyped, MemoryTyped, KnowsId
  <2>7. WorldTyped' /\ jobs' = jobs + 1 /\ jobs \in Nat
    BY <1>12, <2>1, WorkspaceConstants DEF StartRestore, Start, WorldTyped
  <2>8. Pending' = Pending \cup {p} /\ Restoring' = Restoring \cup {p} /\ p \notin Pending /\ p \notin Restoring
    BY <2>1 DEF Start, CommandTyped, Pending, Restoring
  <2>9. /\ IsFiniteSet(Restoring') /\ Cardinality(Restoring') = Cardinality(Restoring) + 1
        /\ Cardinality(Pending') = Cardinality(Pending) + 1
        /\ Cardinality(Restoring) \in Nat /\ Cardinality(Pending) \in Nat
    BY <2>8, RestoringFinite, FS_AddElement DEF Budget
  <2>10. Budget'
    <3>1. begun \in Nat /\ count \in [Ids -> Nat] /\ UNCHANGED <<begun, count>>
      BY <1>12, WorkspaceConstants DEF StartRestore, HistoryTyped, db, history
    <3> QED
      BY <2>7, <2>9, <3>1 DEF Budget
  <2> QED
    BY <1>12, <1>D, <1>S, <1>H, <2>4, <2>5, <2>6, <2>7, <2>10 DEF StartRestore, db, history, snapshots
<1>13. ASSUME NEW p \in Procs, ReadFiles(p) PROVE TypeInv'
  <2>1. rows[sid[p]] \in [Files -> FileStates]
    BY <1>13 DEF ReadFiles, SnapshotsTyped, KnowsId
  <2>2. MemoryTyped'
    BY <1>13, <2>1 DEF ReadFiles, MemoryTyped, db, history
  <2>3. PICK at \in {"smart", "begin"} : pc' = [pc EXCEPT ![p] = at]
    BY <1>13 DEF ReadFiles
  <2>4. CommandTyped' /\ KnowsId' /\ Pending' \subseteq Pending /\ Restoring' \subseteq Restoring
    BY <1>13, <2>3 DEF ReadFiles, CommandTyped, OptionsAt, KnowsId, Pending, Restoring
  <2> QED
    BY <1>13, <1>D, <1>S, <1>H, <1>W, <1>B, <2>2, <2>4 DEF ReadFiles, db, history, snapshots, world
<1>14. ASSUME NEW p \in Procs, StartDiff(p) PROVE TypeInv'
  <2>1. NoFiles \in [Files -> FileStates]
    BY DEF NoFiles, FileStates
  <2>2. MemoryTyped'
    BY <1>14, <2>1 DEF StartDiff, MemoryTyped, db, history
  <2>3. CommandTyped' /\ KnowsId' /\ Pending' \subseteq Pending /\ Restoring' \subseteq Restoring
    BY <1>14 DEF StartDiff, CommandTyped, OptionsAt, KnowsId, Pending, Restoring
  <2> QED
    BY <1>14, <1>D, <1>S, <1>H, <1>W, <1>B, <2>2, <2>3 DEF StartDiff, db, history, snapshots, world
<1>15. ASSUME NEW p \in Procs, BeginRestore(p) PROVE TypeInv'
  <2> DEFINE row == [id |-> begun + 1, snap |-> sid[p], ok |-> FALSE, want |-> Wanted(p), got |-> {}]
  <2>1. \/ /\ sid[p] \in snaps /\ begun' = begun + 1 /\ rec' = [rec EXCEPT ![p] = begun + 1]
           /\ restores' = restores \cup {row}
        \/ UNCHANGED <<begun, rec, restores>>
    BY <1>15 DEF BeginRestore
  <2>2. Wanted(p) \subseteq Files
    BY DEF Wanted, Candidates, SmartChoice, Added, Modified
  <2>3. /\ pc[p] \in {"begin", "diff"} /\ pc' = [pc EXCEPT ![p] = "restore"]
        /\ todo' = [todo EXCEPT ![p] = Wanted(p)]
        /\ UNCHANGED <<disk, snapshots, count, opt, sid, scan, listed, got, failed, victims, world>>
    BY <1>15 DEF BeginRestore, Chosen
  <2>4. CommandTyped' /\ KnowsId' /\ Restoring' \subseteq Restoring
    BY <2>3 DEF CommandTyped, OptionsAt, KnowsId, Restoring
  <2>5. p \in Pending /\ Pending' = Pending \ {p}
    BY <2>3 DEF CommandTyped, Pending
  <2>6. /\ Cardinality(Pending) \in Nat /\ Cardinality(Pending') \in Nat
        /\ Cardinality(Pending') = Cardinality(Pending) - 1
    BY <2>5, RestoringFinite, FS_RemoveElement DEF Budget
  <2>7. begun \in Nat /\ jobs \in Nat /\ begun + 1 <= jobs /\ begun + 1 <= MaxJobs /\ count \in [Ids -> Nat]
    BY <2>6, WorkspaceConstants DEF Budget, HistoryTyped, WorldTyped
  <2>8. Budget'
    <3>1. /\ IsFiniteSet(Restoring') /\ Cardinality(Restoring) \in Nat /\ Cardinality(Restoring') \in Nat
          /\ Cardinality(Restoring') <= Cardinality(Restoring)
      BY <2>4, RestoringFinite DEF Budget
    <3>2. begun' + Cardinality(Pending') <= jobs'
      BY <2>1, <2>3, <2>6, <2>7 DEF Budget, world
    <3>3. UNCHANGED <<count, jobs>>
      BY <2>3 DEF world
    <3> QED
      BY <2>7, <3>1, <3>2, <3>3 DEF Budget
  <2>9. HistoryTyped'
    <3>1. CASE /\ sid[p] \in snaps /\ begun' = begun + 1 /\ restores' = restores \cup {row}
      <4>1. row \in [id : 1 .. (begun + 1), snap : snaps, ok : BOOLEAN,
                     want : SUBSET Files, got : SUBSET Files]
        BY <2>2, <2>7, <3>1
      <4>2. restores \subseteq [id : 1 .. (begun + 1), snap : snaps, ok : BOOLEAN,
                                want : SUBSET Files, got : SUBSET Files]
        BY <2>7 DEF HistoryTyped
      <4>3. begun' \in 0 .. MaxJobs
        BY <2>7, <3>1, WorkspaceConstants
      <4> QED
        BY <2>3, <3>1, <4>1, <4>2, <4>3 DEF HistoryTyped, snapshots
    <3>2. CASE UNCHANGED <<begun, restores>>
      BY <1>H, <2>3, <3>2 DEF snapshots
    <3> QED
      BY <2>1, <3>1, <3>2
  <2>10. MemoryTyped'
    <3>1. rec' \in [Procs -> 0 .. begun']
      <4>1. 0 .. begun \subseteq 0 .. (begun + 1) /\ begun + 1 \in 0 .. (begun + 1)
        BY <2>7
      <4>2. rec \in [Procs -> 0 .. begun]
        BY DEF MemoryTyped
      <4>3. CASE begun' = begun + 1 /\ rec' = [rec EXCEPT ![p] = begun + 1]
        <5>1. rec \in [Procs -> 0 .. (begun + 1)]
          BY <4>1, <4>2
        <5> QED
          BY <4>1, <4>3, <5>1
      <4> QED
        BY <2>1, <4>2, <4>3
    <3> QED
      BY <2>2, <2>3, <3>1 DEF MemoryTyped
  <2> QED
    BY <1>D, <1>S, <1>W, <2>3, <2>4, <2>8, <2>9, <2>10
<1>16. ASSUME NEW p \in Procs, RestoreFile(p) PROVE TypeInv'
  <2>1. PICK f \in todo[p] : \E r \in Outcomes(p, f) :
          /\ todo' = [todo EXCEPT ![p] = @ \ {f}]
          /\ work' = [work EXCEPT ![f] = r.content]
          /\ got' = [got EXCEPT ![p] = IF r.copied THEN @ \cup {f} ELSE @]
          /\ failed' = [failed EXCEPT ![p] = @ \/ r.error]
    BY <1>16 DEF RestoreFile
  <2>2. PICK r \in Outcomes(p, f) :
          /\ todo' = [todo EXCEPT ![p] = @ \ {f}]
          /\ work' = [work EXCEPT ![f] = r.content]
          /\ got' = [got EXCEPT ![p] = IF r.copied THEN @ \cup {f} ELSE @]
          /\ failed' = [failed EXCEPT ![p] = @ \/ r.error]
    BY <2>1
  <2>3. f \in Files /\ sid[p] \in Ids
    BY <1>16 DEF RestoreFile, MemoryTyped, KnowsId
  <2>4. r.content \in {work[f], stored[sid[p]][f], Torn} /\ r.error \in BOOLEAN
    BY <2>2, OneFile
  <2>5. r.content \in FileStates
    BY <2>3, <2>4 DEF DiskTyped, FileStates
  <2>6. DiskTyped'
    BY <1>16, <2>2, <2>3, <2>5 DEF RestoreFile, DiskTyped
  <2>7. MemoryTyped'
    BY <1>16, <2>2, <2>3, <2>4 DEF RestoreFile, MemoryTyped, db, history
  <2> QED
    BY <1>16, <1>S, <1>H, <1>C, <1>K, <1>W, <1>B, <1>P, <2>6, <2>7 DEF RestoreFile, db, history, snapshots, world
<1>17. ASSUME NEW p \in Procs, FinishRestore(p) PROVE TypeInv'
  <2>1. HistoryTyped'
    <3>1. failed[p] \in BOOLEAN /\ got[p] \subseteq Files
      BY DEF MemoryTyped
    <3>2. \A r \in restores : [r EXCEPT !.ok = ~failed[p], !.got = got[p]] \in
             [id : 1 .. begun, snap : snaps, ok : BOOLEAN, want : SUBSET Files, got : SUBSET Files]
      BY <3>1 DEF HistoryTyped
    <3>3. restores' \subseteq
             [id : 1 .. begun, snap : snaps, ok : BOOLEAN, want : SUBSET Files, got : SUBSET Files]
      <4> SUFFICES ASSUME NEW x \in restores'
                   PROVE  x \in [id : 1 .. begun, snap : snaps, ok : BOOLEAN,
                                 want : SUBSET Files, got : SUBSET Files]
        OBVIOUS
      <4>1. \/ x \in restores
            \/ \E r \in restores : x = [r EXCEPT !.ok = ~failed[p], !.got = got[p]]
        <5>1. CASE restores' = restores
          BY <5>1
        <5>2. CASE restores' = {IF r.id = rec[p] THEN [r EXCEPT !.ok = ~failed[p], !.got = got[p]] ELSE r :
                                   r \in restores}
          <6>1. PICK r \in restores :
                  x = IF r.id = rec[p] THEN [r EXCEPT !.ok = ~failed[p], !.got = got[p]] ELSE r
            BY <5>2
          <6> QED
            BY <6>1
        <5> QED
          BY <1>17, <5>1, <5>2 DEF FinishRestore
      <4> QED
        BY <3>2, <4>1 DEF HistoryTyped
    <3> QED
      BY <1>17, <3>3 DEF FinishRestore, HistoryTyped, snapshots
  <2>2. CommandTyped' /\ KnowsId' /\ Pending' \subseteq Pending /\ Restoring' \subseteq Restoring
    BY <1>17 DEF FinishRestore, CommandTyped, OptionsAt, KnowsId, Pending, Restoring
  <2>3. MemoryTyped'
    BY <1>17 DEF FinishRestore, MemoryTyped
  <2> QED
    BY <1>17, <1>D, <1>S, <1>W, <1>B, <2>1, <2>2, <2>3 DEF FinishRestore, world
<1>18. ASSUME NEW p \in Procs, CountRestore(p) PROVE TypeInv'
  <2>1. /\ Exit(p) /\ UNCHANGED <<disk, snapshots, restores, begun, world>> /\ pc[p] = "count"
        /\ count' = count \/ (sid[p] \in Ids /\ count' = [count EXCEPT ![sid[p]] = @ + 1])
    BY <1>18 DEF CountRestore, KnowsId
  <2>2. CommandTyped' /\ KnowsId' /\ MemoryTyped' /\ Pending' \subseteq Pending
    BY <1>X, <2>1
  <2>3. p \in Restoring /\ Restoring' = Restoring \ {p}
    BY <2>1 DEF CommandTyped, Restoring, Exit
  <2>4. /\ Cardinality(Restoring) \in Nat /\ Cardinality(Restoring') \in Nat /\ IsFiniteSet(Restoring')
        /\ Cardinality(Restoring') = Cardinality(Restoring) - 1
        /\ Cardinality(Pending) \in Nat /\ Cardinality(Pending') \in Nat
        /\ Cardinality(Pending') <= Cardinality(Pending)
    BY <2>2, <2>3, RestoringFinite, FS_RemoveElement DEF Budget
  <2>5. jobs \in Nat /\ begun \in Nat /\ MaxJobs \in Nat /\ jobs <= MaxJobs /\ count \in [Ids -> Nat]
    BY WorkspaceConstants DEF WorldTyped, HistoryTyped
  <2>6. \A i \in Ids : count'[i] \in Nat /\ count'[i] <= count[i] + 1
    BY <2>1, <2>5
  <2>7. \A i \in Ids : count'[i] + Cardinality(Restoring') <= jobs
    BY <2>4, <2>5, <2>6 DEF Budget
  <2>8. HistoryTyped'
    <3>1. \A i \in Ids : count'[i] \in 0 .. MaxJobs
      BY <2>4, <2>5, <2>6, <2>7
    <3>2. count' \in [Ids -> 0 .. MaxJobs]
      BY <2>1, <2>5, <3>1
    <3> QED
      BY <2>1, <3>2 DEF HistoryTyped, snapshots
  <2>9. Budget'
    BY <2>1, <2>4, <2>5, <2>7 DEF Budget, world
  <2> QED
    BY <1>D, <1>S, <1>W, <2>1, <2>2, <2>8, <2>9
<1>19. ASSUME NEW p \in Procs, StartPrune(p) PROVE TypeInv'
  <2>1. PICK o \in PruneOptions : Start(p, o, "tags") /\ victims' = [victims EXCEPT ![p] = Expendable(o)]
    BY <1>19 DEF StartPrune
  <2>2. Expendable(o) \subseteq Ids
    BY DEF Expendable, SnapshotsTyped
  <2>3. MemoryTyped'
    BY <1>19, <2>1, <2>2 DEF StartPrune, MemoryTyped, db, history
  <2>4. CommandTyped' /\ KnowsId' /\ Pending' \subseteq Pending /\ Restoring' \subseteq Restoring
    BY <1>19, <2>1 DEF StartPrune, Start, CommandTyped, OptionsAt, KnowsId, Pending, Restoring
  <2>5. WorldTyped' /\ jobs' \in Nat /\ jobs <= jobs'
    BY <1>19, <2>1, WorkspaceConstants DEF StartPrune, Start, WorldTyped
  <2>6. Budget'
    BY <1>19, <2>4, <2>5, BudgetKept, WorkspaceConstants DEF StartPrune, db, history, HistoryTyped
  <2> QED
    BY <1>19, <1>D, <1>S, <1>H, <2>3, <2>4, <2>5, <2>6 DEF StartPrune, db, history, snapshots
<1>20. ASSUME NEW p \in Procs, PruneTags(p) PROVE TypeInv'
  <2>1. MemoryTyped'
    BY <1>20 DEF PruneTags, MemoryTyped, db, history
  <2>2. CommandTyped' /\ KnowsId' /\ Pending' \subseteq Pending /\ Restoring' \subseteq Restoring
    BY <1>20 DEF PruneTags, CommandTyped, OptionsAt, KnowsId, Pending, Restoring
  <2> QED
    BY <1>20, <1>D, <1>S, <1>H, <1>W, <1>B, <2>1, <2>2 DEF PruneTags, db, history, snapshots, world
<1>21. ASSUME NEW p \in Procs, PruneDelete(p) PROVE TypeInv'
  <2>1. PICK i \in victims[p] :
          /\ victims' = [victims EXCEPT ![p] = @ \ {i}]
          /\ DeleteRow(i) \/ UNCHANGED <<snaps, rows, tags, restores, count>>
    BY <1>21 DEF PruneDelete
  <2>2. UNCHANGED <<disk, inserted, owner, stamp, begun, pc, opt, sid, scan, listed, todo, got, failed, rec, world>>
    BY <1>21 DEF PruneDelete
  <2>3. i \in Ids /\ NoFiles \in [Files -> FileStates]
    BY DEF MemoryTyped, NoFiles, FileStates
  <2>4. MemoryTyped'
    BY <2>1, <2>2 DEF MemoryTyped
  <2>5. CASE DeleteRow(i)
    <3>1. SnapshotsTyped'
      BY <2>2, <2>3, <2>5 DEF DeleteRow, SnapshotsTyped
    <3>2. HistoryTyped'
      BY <2>2, <2>3, <2>5, WorkspaceConstants DEF DeleteRow, HistoryTyped
    <3>3. jobs' \in Nat /\ jobs <= jobs' /\ count' \in [Ids -> Nat] /\ \A j \in Ids : count'[j] <= count[j]
      <4>1. count \in [Ids -> Nat] /\ jobs \in Nat /\ jobs' = jobs
        BY <2>2, WorkspaceConstants DEF HistoryTyped, WorldTyped, world
      <4>2. count' = [count EXCEPT ![i] = 0]
        BY <2>5 DEF DeleteRow
      <4> QED
        BY <2>3, <4>1, <4>2
    <3>4. Budget'
      BY <1>P, <2>2, <3>3, BudgetKept
    <3> QED
      BY <1>D, <1>C, <1>K, <1>W, <2>2, <2>4, <3>1, <3>2, <3>4
  <2>6. CASE UNCHANGED <<snaps, rows, tags, restores, count>>
    BY <1>D, <1>S, <1>H, <1>C, <1>K, <1>W, <1>B, <1>P, <2>2, <2>4, <2>6 DEF snapshots, world
  <2> QED
    BY <2>1, <2>5, <2>6
<1>22. ASSUME NEW p \in Procs, CrashInCopy(p) PROVE TypeInv'
  <2>1. Exit(p) /\ UNCHANGED <<dirs, db, world>>
    BY <1>22 DEF CrashInCopy
  <2>2. DiskTyped'
    <3>1. CASE /\ pc[p] = "copy"
               /\ \E f \in todo[p] : Copies(p, f) /\ stored'[sid[p]][f] = Torn
               /\ UNCHANGED work
      BY <1>8, <2>1, <3>1 DEF MemoryTyped, KnowsId
    <3>2. CASE /\ \E f \in todo[p] : work' = [work EXCEPT ![f] = Torn]
               /\ UNCHANGED <<stored, madeFor>>
      BY <2>1, <3>2 DEF DiskTyped, MemoryTyped, FileStates
    <3> QED
      BY <1>22, <3>1, <3>2 DEF CrashInCopy
  <2> QED
    BY <1>S, <1>H, <1>W, <1>B, <1>X, <2>1, <2>2 DEF db, history, snapshots, world
<1>23. CASE Edit
  <2>1. DiskTyped'
    BY <1>23 DEF Edit, DiskTyped, FileStates
  <2>2. WorldTyped' /\ UNCHANGED <<db, proc, jobs>>
    BY <1>23, WorkspaceConstants DEF Edit, WorldTyped
  <2>3. MemoryTyped'
    BY <2>2 DEF MemoryTyped, proc, db, history
  <2> QED
    BY <1>S, <1>H, <1>C, <1>K, <1>B, <1>P, <2>1, <2>2, <2>3 DEF db, history, snapshots, proc
<1>24. CASE Tick
  <2>1. WorldTyped' /\ UNCHANGED <<disk, db, proc, jobs>>
    BY <1>24, WorkspaceConstants DEF Tick, WorldTyped
  <2>2. MemoryTyped'
    BY <2>1 DEF MemoryTyped, proc, db, history
  <2> QED
    BY <1>D, <1>S, <1>H, <1>C, <1>K, <1>B, <1>P, <2>1, <2>2 DEF db, history, snapshots, proc
<1>25. CASE UNCHANGED vars
  <2>1. MemoryTyped'
    BY <1>25 DEF vars, MemoryTyped, proc, db, history
  <2> QED
    BY <1>25, <1>D, <1>S, <1>H, <1>C, <1>K, <1>W, <1>B, <1>P, <2>1 DEF vars, db, history, snapshots, proc, world
<1> QED
  BY <1>1, <1>2, <1>3, <1>4, <1>5, <1>6, <1>7, <1>9, <1>10, <1>11, <1>12, <1>13, <1>14, <1>15,
     <1>16, <1>17, <1>18, <1>19, <1>20, <1>21, <1>22, <1>23, <1>24, <1>25 DEF Next

LEMMA WorkspaceTypedAlways == Spec => []TypeInv
<1>1. Init => TypeInv
  <2> SUFFICES ASSUME Init PROVE TypeInv
    OBVIOUS
  <2>1. NoFiles \in [Files -> FileStates] /\ NoOption \in SnapshotOptions
    BY DEF NoFiles, FileStates, NoOption, SnapshotOptions
  <2>2. DiskTyped /\ SnapshotsTyped /\ WorldTyped
    <3> USE <2>1, WorkspaceConstants DEF Init
    <3>1. DiskTyped
      BY DEF DiskTyped, FileStates
    <3>2. SnapshotsTyped
      BY DEF SnapshotsTyped
    <3>3. WorldTyped
      BY DEF WorldTyped
    <3> QED BY <3>1, <3>2, <3>3
  <2>3. HistoryTyped /\ MemoryTyped
    BY <2>1, WorkspaceConstants DEF Init, HistoryTyped, MemoryTyped
  <2>4. CommandTyped /\ KnowsId
    BY <2>1 DEF Init, CommandTyped, OptionsAt, KnowsId
  <2>5. Pending = {} /\ Restoring = {}
    BY DEF Init, Pending, Restoring
  <2>6. Budget
    BY <2>5, FS_EmptySet DEF Init, Budget
  <2> QED
    BY <2>2, <2>3, <2>4, <2>6 DEF TypeInv, TypeOK
<1>2. TypeInv /\ [Next]_vars => TypeInv'
  BY WorkspaceTyped
<1> QED
  BY <1>1, <1>2, PTL DEF Spec

\* Tables, storage and memory hold what TypeOK says, for any numbers of processes,
\* files, tags and snapshots: in particular file rows, tags and restores always refer
\* to a snapshot that is in the database, whatever is deleted meanwhile.
THEOREM WorkspaceTypeCorrect == Spec => []TypeOK
<1>1. TypeInv => TypeOK
  BY DEF TypeInv
<1> QED
  BY <1>1, WorkspaceTypedAlways, PTL

-----------------------------------------------------------------------------
(***************************************************************************)
(* Storage directories.  A copy is in the directory of a snapshot that was  *)
(* inserted, its id is the number of the insertion, and ids are not reused. *)
(***************************************************************************)

StorageInv ==
    /\ \A i \in Ids : i <= inserted => owner[i] = i
    /\ \A i \in Ids, f \in Files : stored[i][f] # Absent => i <= inserted /\ madeFor[i][f] = i
    /\ \A i \in snaps : i <= inserted
    /\ \A p \in Procs : sid[p] <= inserted

\* A copy is made under the id of its snapshot.
LEMMA CopyOwned ==
    ASSUME TypeInv, StorageInv, NEW p \in Procs, NEW f \in Files, sid[p] \in Ids,
           Copies(p, f), UNCHANGED inserted
    PROVE  \A i \in Ids, g \in Files :
              stored'[i][g] # Absent => i <= inserted' /\ madeFor'[i][g] = i
<1>1. PICK c : stored' = [stored EXCEPT ![sid[p]][f] = c]
  BY DEF Copies
<1>2. madeFor' = [madeFor EXCEPT ![sid[p]][f] = owner[sid[p]]] /\ inserted' = inserted
  BY DEF Copies
<1>3. owner[sid[p]] = sid[p] /\ sid[p] <= inserted
  BY DEF StorageInv
<1>4. stored \in [Ids -> [Files -> FileStates]] /\ madeFor \in [Ids -> [Files -> 0 .. MaxSnapshots]]
  BY DEF TypeInv, TypeOK, DiskTyped
<1>5. ASSUME NEW i \in Ids, NEW g \in Files, ~(i = sid[p] /\ g = f)
      PROVE  stored'[i][g] = stored[i][g] /\ madeFor'[i][g] = madeFor[i][g]
  BY <1>1, <1>2, <1>4, <1>5
<1>6. madeFor'[sid[p]][f] = owner[sid[p]]
  BY <1>2, <1>4
<1> QED
  BY <1>2, <1>3, <1>5, <1>6 DEF StorageInv

LEMMA StorageStep ==
    ASSUME TypeInv, StorageInv, [Next]_vars
    PROVE  StorageInv'
<1> USE DEF disk, db, snapshots, history, proc, world
<1>a. sid \in [Procs -> {0} \cup Ids] /\ inserted \in Nat /\ todo \in [Procs -> SUBSET Files]
      /\ \A i \in Ids : i \in Nat
  BY WorkspaceConstants DEF TypeInv, TypeOK, MemoryTyped, SnapshotsTyped, Ids
<1>0. ASSUME UNCHANGED <<stored, madeFor, inserted, owner>>, snaps' \subseteq snaps,
             \A p \in Procs : sid'[p] \in {sid[p], 0} \cup snaps
      PROVE  StorageInv'
  BY <1>0, <1>a DEF StorageInv
<1>00. ASSUME NEW p \in Procs, Exit(p) PROVE \A q \in Procs : sid'[q] \in {sid[q], 0}
  BY <1>00, <1>a DEF Exit
<1>1. ASSUME NEW p \in Procs, ScanFile(p) \/ ScanAborted(p) \/ StartSnapshot(p) \/ AddFileRow(p) PROVE StorageInv'
  BY <1>0, <1>1 DEF ScanFile, ScanAborted, StartSnapshot, AddFileRow
<1>2. ASSUME NEW p \in Procs, AddSnapshot(p) PROVE StorageInv'
  <2>1. /\ inserted' = inserted + 1 /\ inserted + 1 \in Ids
        /\ snaps' = snaps \cup {inserted + 1} /\ owner' = [owner EXCEPT ![inserted + 1] = inserted + 1]
        /\ sid' = [sid EXCEPT ![p] = inserted + 1] /\ UNCHANGED <<stored, madeFor>>
    BY <1>2, <1>a, WorkspaceConstants DEF AddSnapshot, NewId, Ids
  <2>2. owner \in [Ids -> 0 .. MaxSnapshots]
    BY DEF TypeInv, TypeOK, SnapshotsTyped
  <2>3. \A i \in Ids : i <= inserted + 1 => owner'[i] = i
    BY <1>a, <2>1, <2>2 DEF StorageInv
  <2>4. \A q \in Procs : sid'[q] <= inserted + 1
    BY <1>a, <2>1 DEF StorageInv
  <2>5. snaps \subseteq Ids
    BY DEF TypeInv, TypeOK, SnapshotsTyped
  <2> QED
    BY <1>a, <2>1, <2>3, <2>4, <2>5 DEF StorageInv
<1>3. ASSUME NEW p \in Procs, AddSnapshotFails(p) \/ TagSnapshot(p) \/ RestoreRefused(p) \/ NothingToRestore(p)
                              \/ CountRestore(p) \/ FinishPrune(p) \/ Crash(p)
      PROVE  StorageInv'
  BY <1>0, <1>00, <1>3 DEF AddSnapshotFails, TagSnapshot, RestoreRefused, NothingToRestore, CountRestore, FinishPrune, Crash
<1>4. ASSUME NEW p \in Procs, MakeStorage(p) \/ ReadFiles(p) \/ StartDiff(p) \/ BeginRestore(p) \/ RestoreFile(p)
                              \/ FinishRestore(p) \/ StartPrune(p) \/ PruneTags(p)
      PROVE  StorageInv'
  BY <1>0, <1>4 DEF MakeStorage, ReadFiles, StartDiff, BeginRestore, RestoreFile, FinishRestore, StartPrune, PruneTags
<1>5. ASSUME NEW p \in Procs, StartRestore(p) PROVE StorageInv'
  <2>1. PICK i \in snaps : sid' = [sid EXCEPT ![p] = i]
    BY <1>5 DEF StartRestore
  <2>2. \A q \in Procs : sid'[q] \in {sid[q], 0} \cup snaps
    BY <1>a, <2>1
  <2> QED
    BY <1>0, <1>5, <2>2 DEF StartRestore
<1>6. ASSUME NEW p \in Procs, CopyFile(p) PROVE StorageInv'
  <2>1. PICK f \in todo[p] : Copies(p, f) \/ UNCHANGED <<stored, madeFor>>
    BY <1>6 DEF CopyFile
  <2>2. f \in Files /\ sid[p] \in Ids /\ UNCHANGED <<inserted, owner, snaps, sid>>
    BY <1>6, <1>a DEF CopyFile, TypeInv, KnowsId
  <2>3. CASE Copies(p, f)
    BY <2>2, <2>3, CopyOwned DEF StorageInv
  <2>4. CASE UNCHANGED <<stored, madeFor>>
    BY <1>0, <2>2, <2>4
  <2> QED
    BY <2>1, <2>3, <2>4
<1>7. ASSUME NEW p \in Procs, PruneDelete(p) PROVE StorageInv'
  <2>1. snaps' \subseteq snaps /\ UNCHANGED <<stored, madeFor, inserted, owner, sid>>
    BY <1>7 DEF PruneDelete, DeleteRow
  <2> QED
    BY <1>0, <2>1
<1>8. ASSUME NEW p \in Procs, CrashInCopy(p) PROVE StorageInv'
  <2>1. Exit(p) /\ UNCHANGED <<inserted, owner, snaps>>
    BY <1>8 DEF CrashInCopy
  <2>2. \/ pc[p] = "copy" /\ \E f \in todo[p] : Copies(p, f)
        \/ UNCHANGED <<stored, madeFor>>
    BY <1>8 DEF CrashInCopy
  <2>3. CASE pc[p] = "copy" /\ \E f \in todo[p] : Copies(p, f)
    <3>1. PICK f \in todo[p] : Copies(p, f)
      BY <2>3
    <3>2. f \in Files /\ sid[p] \in Ids
      BY <1>a, <2>3 DEF TypeInv, KnowsId
    <3>3. \A i \in Ids, g \in Files : stored'[i][g] # Absent => i <= inserted' /\ madeFor'[i][g] = i
      BY <2>1, <3>1, <3>2, CopyOwned
    <3>4. \A q \in Procs : sid'[q] <= inserted'
      BY <1>00, <1>a, <2>1 DEF StorageInv
    <3> QED
      BY <2>1, <3>3, <3>4 DEF StorageInv
  <2>4. CASE UNCHANGED <<stored, madeFor>>
    BY <1>0, <1>00, <2>1, <2>4
  <2> QED
    BY <2>2, <2>3, <2>4
<1>9. CASE Edit \/ Tick \/ UNCHANGED vars
  BY <1>0, <1>9 DEF Edit, Tick, vars
<1> QED
  BY <1>1, <1>2, <1>3, <1>4, <1>5, <1>6, <1>7, <1>8, <1>9 DEF Next

\* No snapshot in the database has a copy in its directory that another snapshot
\* left there, whatever was pruned and however a snapshot was interrupted.
THEOREM StorageIsNeverStale == Spec => []NoStaleStorage
<1>1. Init => StorageInv
  BY WorkspaceConstants DEF Init, StorageInv, NoFiles, Ids
<1>2. TypeInv /\ StorageInv /\ [Next]_vars => StorageInv'
  BY StorageStep
<1>3. TypeInv /\ StorageInv => NoStaleStorage
  BY DEF TypeInv, TypeOK, SnapshotsTyped, StorageInv, NoStaleStorage
<1> QED
  BY <1>1, <1>2, <1>3, WorkspaceTypedAlways, PTL DEF Spec

-----------------------------------------------------------------------------
(***************************************************************************)
(* The restore history.  While a command restores without an error, what it *)
(* has copied and what it has still to copy are what its row says it wants; *)
(* a new row has a new id, so no command finishes another one's row.        *)
(***************************************************************************)

\* Before it restores, a command has no row, no files and no error.
Fresh(p) == rec[p] = 0 /\ got[p] = {} /\ failed[p] = FALSE

RestoreInv ==
    /\ HistoryHonest
    /\ \A p \in Procs : pc[p] \notin {"restore", "count"} => Fresh(p)
    /\ \A p \in Procs : pc[p] = "restore" /\ ~failed[p] =>
          \A r \in restores : r.id = rec[p] => got[p] \cup todo[p] = r.want

\* A step that is no step of p's restore.
Aside(p) ==
    \/ UNCHANGED <<pc[p], rec[p], got[p], failed[p], todo[p]>>
    \/ Fresh(p)' /\ pc'[p] \notin {"restore", "count"}
    \/ /\ pc[p] \notin {"restore", "count"} /\ pc'[p] \notin {"restore", "count"}
       /\ UNCHANGED <<rec[p], got[p], failed[p]>>

LEMMA RestoreStep ==
    ASSUME TypeInv, RestoreInv, [Next]_vars
    PROVE  RestoreInv'
<1> USE DEF disk, db, snapshots, history, proc, world
<1>a. /\ pc = [p \in Procs |-> pc[p]] /\ todo \in [Procs -> SUBSET Files]
      /\ got \in [Procs -> SUBSET Files] /\ failed \in [Procs -> BOOLEAN] /\ rec \in [Procs -> 0 .. begun]
      /\ begun \in Nat /\ \A r \in restores : r.id \in 1 .. begun
  BY WorkspaceConstants DEF TypeInv, TypeOK, CommandTyped, MemoryTyped, HistoryTyped
<1>0. ASSUME restores' \subseteq restores, \A p \in Procs : Aside(p)
      PROVE  RestoreInv'
  <2>1. HistoryHonest'
    BY <1>0 DEF RestoreInv, HistoryHonest
  <2>2. ASSUME NEW p \in Procs, pc'[p] \notin {"restore", "count"} PROVE Fresh(p)'
    BY <1>0, <2>2 DEF Aside, RestoreInv, Fresh
  <2>3. ASSUME NEW p \in Procs, pc'[p] = "restore", ~failed'[p], NEW r \in restores', r.id = rec'[p]
        PROVE  got'[p] \cup todo'[p] = r.want
    <3>1. UNCHANGED <<pc[p], rec[p], got[p], failed[p], todo[p]>> /\ r \in restores
      BY <1>0, <2>3 DEF Aside
    <3> QED
      BY <2>3, <3>1 DEF RestoreInv
  <2> QED
    BY <2>1, <2>2, <2>3 DEF RestoreInv
<1>00. ASSUME NEW p \in Procs, Exit(p) PROVE \A q \in Procs : Aside(q)
  <2>1. Fresh(p)' /\ pc'[p] = "idle"
    BY <1>00, <1>a DEF Exit, Fresh
  <2>2. \A q \in Procs : q # p => UNCHANGED <<pc[q], rec[q], got[q], failed[q], todo[q]>>
    BY <1>00, <1>a DEF Exit
  <2> QED
    BY <2>1, <2>2 DEF Aside
<1>000. ASSUME NEW p \in Procs, pc[p] \notin {"restore", "count"}, UNCHANGED <<rec, got, failed>>,
               pc' = [pc EXCEPT ![p] = pc'[p]], pc'[p] \notin {"restore", "count"},
               todo' = [todo EXCEPT ![p] = todo'[p]]
        PROVE  \A q \in Procs : Aside(q)
  <2>1. \A q \in Procs : q # p => UNCHANGED <<pc[q], rec[q], got[q], failed[q], todo[q]>>
    BY <1>000, <1>a
  <2> QED
    BY <1>000, <2>1 DEF Aside
<1>1. ASSUME NEW p \in Procs, ScanFile(p) \/ ScanAborted(p) \/ AddFileRow(p) \/ CopyFile(p) PROVE RestoreInv'
  <2>1. PICK T : todo' = [todo EXCEPT ![p] = T]
    BY <1>1 DEF ScanFile, ScanAborted, AddFileRow, CopyFile
  <2>2. /\ UNCHANGED <<restores, pc, rec, got, failed>> /\ pc[p] \notin {"restore", "count"}
        /\ todo' = [todo EXCEPT ![p] = todo'[p]] /\ pc' = [pc EXCEPT ![p] = pc'[p]]
    BY <1>1, <1>a, <2>1 DEF ScanFile, ScanAborted, AddFileRow, CopyFile
  <2> QED
    BY <1>0, <1>000, <2>2
<1>2. ASSUME NEW p \in Procs, StartSnapshot(p) \/ StartRestore(p) \/ StartPrune(p) PROVE RestoreInv'
  <2>1. PICK at \in {"scan", "files", "tags"} : pc' = [pc EXCEPT ![p] = at]
    BY <1>2 DEF StartSnapshot, StartRestore, StartPrune, Start
  <2>2. PICK T : todo' = [todo EXCEPT ![p] = T]
    BY <1>2, <1>a DEF StartSnapshot, StartRestore, StartPrune
  <2>3. UNCHANGED <<restores, rec, got, failed>> /\ pc[p] = "idle"
    BY <1>2 DEF StartSnapshot, StartRestore, StartPrune, Start
  <2>4. pc'[p] = at /\ todo'[p] = T
    BY <1>a, <2>1, <2>2
  <2> QED
    BY <1>0, <1>000, <2>1, <2>2, <2>3, <2>4
<1>3. ASSUME NEW p \in Procs, AddSnapshot(p) \/ MakeStorage(p) \/ ReadFiles(p) \/ StartDiff(p) \/ PruneTags(p)
      PROVE  RestoreInv'
  <2>1. PICK at \in {"rows", "copy", "smart", "begin", "diff", "prune"} : pc' = [pc EXCEPT ![p] = at]
    BY <1>3 DEF AddSnapshot, MakeStorage, ReadFiles, StartDiff, PruneTags
  <2>2. PICK T : todo' = [todo EXCEPT ![p] = T]
    BY <1>3, <1>a DEF AddSnapshot, MakeStorage, ReadFiles, StartDiff, PruneTags
  <2>3. UNCHANGED <<restores, rec, got, failed>> /\ pc[p] \notin {"restore", "count"}
    BY <1>3 DEF AddSnapshot, MakeStorage, ReadFiles, StartDiff, PruneTags
  <2>4. pc'[p] = at /\ todo'[p] = T
    BY <1>a, <2>1, <2>2
  <2> QED
    BY <1>0, <1>000, <2>1, <2>2, <2>3, <2>4
<1>4. ASSUME NEW p \in Procs, AddSnapshotFails(p) \/ TagSnapshot(p) \/ RestoreRefused(p) \/ NothingToRestore(p)
                              \/ CountRestore(p) \/ FinishPrune(p) \/ Crash(p) \/ CrashInCopy(p)
      PROVE  RestoreInv'
  BY <1>0, <1>00, <1>4 DEF AddSnapshotFails, TagSnapshot, RestoreRefused, NothingToRestore, CountRestore,
                           FinishPrune, Crash, CrashInCopy
<1>5. ASSUME NEW p \in Procs, BeginRestore(p) PROVE RestoreInv'
  <2> DEFINE row == [id |-> begun + 1, snap |-> sid[p], ok |-> FALSE, want |-> Wanted(p), got |-> {}]
  <2>1. \/ rec' = [rec EXCEPT ![p] = begun + 1] /\ restores' = restores \cup {row}
        \/ UNCHANGED <<rec, restores>>
    BY <1>5 DEF BeginRestore
  <2>2. /\ pc[p] \notin {"restore", "count"} /\ pc' = [pc EXCEPT ![p] = "restore"]
        /\ todo' = [todo EXCEPT ![p] = Wanted(p)] /\ UNCHANGED <<got, failed>>
    BY <1>5 DEF BeginRestore, Chosen
  <2>3. Fresh(p)
    BY <2>2 DEF RestoreInv
  <2>4. HistoryHonest'
    BY <2>1 DEF RestoreInv, HistoryHonest
  <2>5. ASSUME NEW q \in Procs, q # p
        PROVE  /\ pc'[q] \notin {"restore", "count"} => Fresh(q)'
               /\ pc'[q] = "restore" /\ ~failed'[q] =>
                     \A r \in restores' : r.id = rec'[q] => got'[q] \cup todo'[q] = r.want
    <3>1. UNCHANGED <<pc[q], rec[q], got[q], failed[q], todo[q]>>
      BY <1>a, <2>1, <2>2, <2>5
    <3>2. \A r \in restores' : r.id = rec[q] => r \in restores
      BY <1>a, <2>1
    <3> QED
      BY <3>1, <3>2 DEF RestoreInv, Fresh
  <2>6. pc'[p] = "restore" /\ todo'[p] = Wanted(p) /\ got'[p] = {}
    BY <1>a, <2>2, <2>3 DEF Fresh
  <2>7. \A r \in restores' : r.id = rec'[p] => r.want = Wanted(p)
    BY <1>a, <2>1, <2>3 DEF Fresh
  <2> QED
    BY <2>4, <2>5, <2>6, <2>7 DEF RestoreInv
<1>6. ASSUME NEW p \in Procs, RestoreFile(p) PROVE RestoreInv'
  <2>1. PICK f \in todo[p] : \E r \in Outcomes(p, f) :
          /\ todo' = [todo EXCEPT ![p] = @ \ {f}]
          /\ got' = [got EXCEPT ![p] = IF r.copied THEN @ \cup {f} ELSE @]
          /\ failed' = [failed EXCEPT ![p] = @ \/ r.error]
    BY <1>6 DEF RestoreFile
  <2>2. PICK r \in Outcomes(p, f) :
          /\ todo' = [todo EXCEPT ![p] = @ \ {f}]
          /\ got' = [got EXCEPT ![p] = IF r.copied THEN @ \cup {f} ELSE @]
          /\ failed' = [failed EXCEPT ![p] = @ \/ r.error]
    BY <2>1
  <2>3. r.copied \in BOOLEAN /\ r.error \in BOOLEAN /\ (r.copied \/ r.error)
    BY <2>2, OneFile
  <2>4. UNCHANGED <<restores, pc, rec>> /\ pc[p] = "restore"
    BY <1>6 DEF RestoreFile
  <2>5. \A q \in Procs : q # p => UNCHANGED <<got[q], failed[q], todo[q]>>
    BY <1>a, <2>2
  <2>6. failed'[p] = (failed[p] \/ r.error)
    BY <1>a, <2>2
  <2>7. ~failed'[p] => ~failed[p] /\ got'[p] \cup todo'[p] = got[p] \cup todo[p]
    <3> SUFFICES ASSUME ~failed'[p] PROVE ~failed[p] /\ got'[p] \cup todo'[p] = got[p] \cup todo[p]
      OBVIOUS
    <3>1. ~failed[p] /\ ~r.error /\ r.copied
      BY <2>3, <2>6
    <3>2. got'[p] = got[p] \cup {f} /\ todo'[p] = todo[p] \ {f}
      BY <1>a, <2>2, <3>1
    <3> QED
      BY <2>1, <3>1, <3>2
  <2>8. HistoryHonest'
    BY <2>4 DEF RestoreInv, HistoryHonest
  <2>9. ASSUME NEW q \in Procs
        PROVE  /\ pc'[q] \notin {"restore", "count"} => Fresh(q)'
               /\ pc'[q] = "restore" /\ ~failed'[q] =>
                     \A x \in restores' : x.id = rec'[q] => got'[q] \cup todo'[q] = x.want
    BY <2>4, <2>5, <2>7 DEF RestoreInv, Fresh
  <2> QED
    BY <2>8, <2>9 DEF RestoreInv
<1>7. ASSUME NEW p \in Procs, FinishRestore(p) PROVE RestoreInv'
  <2>1. /\ pc[p] = "restore" /\ todo[p] = {} /\ pc' = [pc EXCEPT ![p] = "count"]
        /\ UNCHANGED <<todo, got, failed, rec>>
    BY <1>7 DEF FinishRestore
  <2>2. ASSUME NEW x \in restores'
        PROVE  \E r \in restores : /\ x.id = r.id /\ x.want = r.want
                                   /\ \/ x.ok = r.ok /\ x.got = r.got
                                      \/ r.id = rec[p] /\ x.ok = ~failed[p] /\ x.got = got[p]
    <3>1. CASE restores' = restores
      BY <2>2, <3>1
    <3>2. CASE restores' = {IF r.id = rec[p] THEN [r EXCEPT !.ok = ~failed[p], !.got = got[p]] ELSE r :
                               r \in restores}
      <4>1. PICK r \in restores :
              x = IF r.id = rec[p] THEN [r EXCEPT !.ok = ~failed[p], !.got = got[p]] ELSE r
        BY <2>2, <3>2
      <4>2. r \in [id : 1 .. begun, snap : snaps, ok : BOOLEAN, want : SUBSET Files, got : SUBSET Files]
        BY DEF TypeInv, TypeOK, HistoryTyped
      <4>3. CASE r.id # rec[p]
        BY <4>1, <4>3
      <4>4. CASE r.id = rec[p]
        BY <4>1, <4>2, <4>4
      <4> QED
        BY <4>3, <4>4
    <3> QED
      BY <1>7, <3>1, <3>2 DEF FinishRestore
  <2>3. HistoryHonest'
    <3> SUFFICES ASSUME NEW x \in restores', x.ok PROVE x.got = x.want
      BY DEF HistoryHonest
    <3>1. PICK r \in restores : /\ x.id = r.id /\ x.want = r.want
                                /\ \/ x.ok = r.ok /\ x.got = r.got
                                   \/ r.id = rec[p] /\ x.ok = ~failed[p] /\ x.got = got[p]
      BY <2>2
    <3>2. CASE x.ok = r.ok /\ x.got = r.got
      BY <3>1, <3>2 DEF RestoreInv, HistoryHonest
    <3>3. CASE r.id = rec[p] /\ x.ok = ~failed[p] /\ x.got = got[p]
      <4>1. ~failed[p]
        BY <3>3
      <4>2. got[p] \cup todo[p] = r.want
        BY <2>1, <3>3, <4>1 DEF RestoreInv
      <4> QED
        BY <2>1, <3>1, <3>3, <4>2
    <3> QED
      BY <3>1, <3>2, <3>3
  <2>4. \A q \in Procs : pc'[q] = IF q = p THEN "count" ELSE pc[q]
    BY <1>a, <2>1
  <2>5. ASSUME NEW q \in Procs, pc'[q] \notin {"restore", "count"} PROVE Fresh(q)'
    BY <2>1, <2>4, <2>5 DEF RestoreInv, Fresh
  <2>6. ASSUME NEW q \in Procs, pc'[q] = "restore", ~failed'[q], NEW x \in restores', x.id = rec'[q]
        PROVE  got'[q] \cup todo'[q] = x.want
    <3>1. PICK r \in restores : x.id = r.id /\ x.want = r.want
      BY <2>2
    <3>2. pc[q] = "restore" /\ ~failed[q] /\ r.id = rec[q] /\ UNCHANGED <<got[q], todo[q]>>
      BY <2>1, <2>4, <2>6, <3>1
    <3> QED
      BY <3>1, <3>2 DEF RestoreInv
  <2> QED
    BY <2>3, <2>5, <2>6 DEF RestoreInv
<1>8. ASSUME NEW p \in Procs, PruneDelete(p) PROVE RestoreInv'
  <2>1. restores' \subseteq restores /\ UNCHANGED <<pc, rec, got, failed, todo>>
    BY <1>8 DEF PruneDelete, DeleteRow
  <2> QED
    BY <1>0, <2>1 DEF Aside
<1>9. CASE Edit \/ Tick \/ UNCHANGED vars
  BY <1>0, <1>9 DEF Edit, Tick, vars, Aside
<1> QED
  BY <1>1, <1>2, <1>3, <1>4, <1>5, <1>6, <1>7, <1>8, <1>9 DEF Next

\* A restore that the history calls a success copied every file it had chosen,
\* for any number of commands that restore, prune and die at once.
THEOREM RestoreHistoryIsHonest == Spec => []HistoryHonest
<1>1. Init => RestoreInv
  BY DEF Init, RestoreInv, HistoryHonest, Fresh
<1>2. TypeInv /\ RestoreInv /\ [Next]_vars => RestoreInv'
  BY RestoreStep
<1>3. RestoreInv => HistoryHonest
  BY DEF RestoreInv
<1> QED
  BY <1>1, <1>2, <1>3, WorkspaceTypedAlways, PTL DEF Spec

-----------------------------------------------------------------------------
(***************************************************************************)
(* Smart restore: what it has still to copy holds no source file that its   *)
(* scan saw and no include path names.                                      *)
(***************************************************************************)

SmartInv ==
    \A p \in Procs : pc[p] = "restore" /\ opt[p].mode = "smart" =>
       \A f \in todo[p] : Unasked(p, f) => scan[p][f] = Absent

\* What a smart restore chooses.
LEMMA SmartWants ==
    ASSUME NEW p, opt[p].mode = "smart", NEW f \in Wanted(p), Unasked(p, f)
    PROVE  scan[p][f] = Absent
<1>1. Mode(opt[p]) = "smart"
  BY DEF Mode
<1>2. f \in SmartChoice(p)
  BY <1>1 DEF Wanted, Candidates
<1> QED
  BY <1>2 DEF SmartChoice, Added, Modified, Unasked

LEMMA SmartStep ==
    ASSUME TypeInv, SmartInv, [Next]_vars
    PROVE  SmartInv'
<1> USE DEF disk, db, snapshots, history, proc, world
<1>a. /\ pc = [p \in Procs |-> pc[p]] /\ opt = [p \in Procs |-> opt[p]] /\ todo \in [Procs -> SUBSET Files]
      /\ scan \in [Procs -> [Files -> FileStates]]
  BY DEF TypeInv, TypeOK, CommandTyped, MemoryTyped
<1>0. ASSUME \A p \in Procs : \/ pc'[p] # "restore"
                              \/ UNCHANGED <<pc[p], opt[p], scan[p]>> /\ todo'[p] \subseteq todo[p]
      PROVE  SmartInv'
  BY <1>0 DEF SmartInv, Unasked
<1>00. ASSUME NEW p \in Procs, Exit(p) PROVE SmartInv'
  <2>1. \A q \in Procs : pc'[q] # "restore" \/ UNCHANGED <<pc[q], opt[q], scan[q], todo[q]>>
    BY <1>00, <1>a DEF Exit
  <2> QED
    BY <1>0, <2>1
<1>1. ASSUME NEW p \in Procs, ScanFile(p) PROVE SmartInv'
  <2>1. pc[p] # "restore" /\ UNCHANGED <<pc, opt>>
    BY <1>1 DEF ScanFile
  <2>2. PICK f : scan' = [scan EXCEPT ![p][f] = work[f]] /\ todo' = [todo EXCEPT ![p] = @ \ {f}]
    BY <1>1 DEF ScanFile
  <2>3. \A q \in Procs : q # p => UNCHANGED <<scan[q], todo[q]>>
    BY <1>a, <2>2
  <2> QED
    BY <1>0, <2>1, <2>3
<1>2. ASSUME NEW p \in Procs, ScanAborted(p) \/ AddFileRow(p) \/ CopyFile(p) \/ RestoreFile(p) PROVE SmartInv'
  <2>1. UNCHANGED <<pc, opt, scan>>
    BY <1>2 DEF ScanAborted, AddFileRow, CopyFile, RestoreFile
  <2>2. \A q \in Procs : todo'[q] \subseteq todo[q]
    <3>1. \E T \in SUBSET todo[p] : todo' = [todo EXCEPT ![p] = T]
      <4>1. CASE ScanAborted(p)
        BY <4>1 DEF ScanAborted
      <4>2. CASE AddFileRow(p) \/ CopyFile(p) \/ RestoreFile(p)
        <5>1. PICK f \in todo[p] : todo' = [todo EXCEPT ![p] = todo[p] \ {f}]
          BY <4>2 DEF AddFileRow, CopyFile, RestoreFile
        <5> QED
          BY <5>1
      <4> QED
        BY <1>2, <4>1, <4>2
    <3> QED
      BY <1>a, <3>1
  <2> QED
    BY <1>0, <2>1, <2>2
<1>3. ASSUME NEW p \in Procs, StartSnapshot(p) \/ StartRestore(p) \/ StartPrune(p) PROVE SmartInv'
  <2>1. pc[p] = "idle" /\ UNCHANGED scan
    BY <1>3 DEF StartSnapshot, StartRestore, StartPrune, Start
  <2>2. PICK at \in {"scan", "files", "tags"} : pc' = [pc EXCEPT ![p] = at]
    BY <1>3 DEF StartSnapshot, StartRestore, StartPrune, Start
  <2>3. PICK o : opt' = [opt EXCEPT ![p] = o]
    BY <1>3 DEF StartSnapshot, StartRestore, StartPrune, Start
  <2>4. PICK T : todo' = [todo EXCEPT ![p] = T]
    BY <1>3, <1>a DEF StartSnapshot, StartRestore, StartPrune
  <2>5. pc'[p] # "restore" /\ \A q \in Procs : q # p => UNCHANGED <<pc[q], opt[q], scan[q], todo[q]>>
    BY <1>a, <2>1, <2>2, <2>3, <2>4
  <2> QED
    BY <1>0, <2>5
<1>4. ASSUME NEW p \in Procs, AddSnapshot(p) \/ MakeStorage(p) \/ ReadFiles(p) \/ StartDiff(p) \/ PruneTags(p)
                              \/ FinishRestore(p)
      PROVE  SmartInv'
  <2>1. PICK at \in {"rows", "copy", "smart", "begin", "diff", "prune", "count"} : pc' = [pc EXCEPT ![p] = at]
    BY <1>4 DEF AddSnapshot, MakeStorage, ReadFiles, StartDiff, PruneTags, FinishRestore
  <2>2. UNCHANGED todo \/ \E T : todo' = [todo EXCEPT ![p] = T]
    BY <1>4 DEF AddSnapshot, MakeStorage, ReadFiles, StartDiff, PruneTags, FinishRestore
  <2>3. UNCHANGED <<opt, scan>>
    BY <1>4 DEF AddSnapshot, MakeStorage, ReadFiles, StartDiff, PruneTags, FinishRestore
  <2>4. pc'[p] # "restore" /\ \A q \in Procs : q # p => UNCHANGED <<pc[q], opt[q], scan[q], todo[q]>>
    BY <1>a, <2>1, <2>2, <2>3
  <2> QED
    BY <1>0, <2>4
<1>5. ASSUME NEW p \in Procs, AddSnapshotFails(p) \/ TagSnapshot(p) \/ RestoreRefused(p) \/ NothingToRestore(p)
                              \/ CountRestore(p) \/ FinishPrune(p) \/ Crash(p) \/ CrashInCopy(p)
      PROVE  SmartInv'
  BY <1>00, <1>5 DEF AddSnapshotFails, TagSnapshot, RestoreRefused, NothingToRestore, CountRestore,
                     FinishPrune, Crash, CrashInCopy
<1>6. ASSUME NEW p \in Procs, BeginRestore(p) PROVE SmartInv'
  <2>1. /\ pc' = [pc EXCEPT ![p] = "restore"] /\ todo' = [todo EXCEPT ![p] = Wanted(p)]
        /\ UNCHANGED <<opt, scan>>
    BY <1>6 DEF BeginRestore
  <2>2. \A q \in Procs : q # p => UNCHANGED <<pc[q], opt[q], scan[q], todo[q]>>
    BY <1>a, <2>1
  <2>3. todo'[p] = Wanted(p)
    BY <1>a, <2>1
  <2>4. ASSUME opt'[p].mode = "smart", NEW f \in todo'[p], Unasked(p, f)' PROVE scan'[p][f] = Absent
    BY <2>1, <2>3, <2>4, SmartWants DEF Unasked
  <2>5. ASSUME NEW q \in Procs, q # p, pc'[q] = "restore", opt'[q].mode = "smart",
               NEW f \in todo'[q], Unasked(q, f)'
        PROVE  scan'[q][f] = Absent
    BY <2>2, <2>5 DEF SmartInv, Unasked
  <2> QED
    BY <2>4, <2>5 DEF SmartInv
<1>7. ASSUME NEW p \in Procs, PruneDelete(p) PROVE SmartInv'
  BY <1>0, <1>7 DEF PruneDelete
<1>8. CASE Edit \/ Tick \/ UNCHANGED vars
  BY <1>0, <1>8 DEF Edit, Tick, vars
<1> QED
  BY <1>1, <1>2, <1>3, <1>4, <1>5, <1>6, <1>7, <1>8 DEF Next

\* However files change between the scan and the copy, a smart restore does not
\* write a source file that its scan saw and that no include path names.
THEOREM SmartRestoreSparesSeenSources == Spec => SmartSparesSeenSources
<1>1. Init => SmartInv
  BY DEF Init, SmartInv
<1>2. TypeInv /\ SmartInv /\ [Next]_vars => SmartInv'
  BY SmartStep
<1>3. SmartInv /\ [Next]_vars =>
        [\A p \in Procs : pc[p] = "restore" /\ opt[p].mode = "smart" =>
          \A f \in todo[p] \ todo'[p] :
             Unasked(p, f) /\ scan[p][f] # Absent => work'[f] = work[f]]_vars
  BY DEF SmartInv
<1> QED
  BY <1>1, <1>2, <1>3, WorkspaceTypedAlways, PTL DEF Spec, SmartSparesSeenSources

----------------------------------------------------------------------------
(***************************************************************************)
(* Pruning with stale lists.  KeepsEnough follows from an invariant about   *)
(* every list of victims that some process still holds: a victim that has   *)
(* not been deleted yet has, at any time, at least as many snapshots listed *)
(* before it as one of the prunes was told to keep.  Deleting x can only    *)
(* take x itself away from those listed before a later victim y, and the    *)
(* ones listed before x, which x's own floor counts, are before y as well.  *)
(* It holds for any clock, because a snapshot's timestamp never changes and *)
(* its id is never given to another one.                                    *)
(***************************************************************************)

\* The snapshots that list_snapshots puts before i.
Before(i) == {j \in snaps : ListedBefore(j, i)}

Typed ==
    /\ inserted \in Nat /\ now \in Int
    /\ snaps \subseteq 1 .. inserted /\ inserted <= MaxSnapshots
    /\ stamp \in [Ids -> Int]
    /\ victims \in [Procs -> SUBSET (1 .. inserted)]

\* i is not among the first n of the list, for the n of some prune.
Spare(i) == \E o \in PruneOptions : Cardinality(Before(i)) >= o.n

SpareVictims == \A p \in Procs : \A i \in victims[p] : i \in snaps => Spare(i)

PruneInv == Typed /\ SpareVictims

NoDays == \A o \in PruneOptions : o.by = "keep"

\* Sets of snapshots are finite, and a larger one has a larger cardinality.
LEMMA SnapshotSets ==
    ASSUME NEW n \in Nat, NEW S \in SUBSET (1 .. n), NEW T \in SUBSET S
    PROVE  /\ Cardinality(S) \in Nat /\ Cardinality(T) \in Nat
           /\ Cardinality(T) <= Cardinality(S)
<1>1. IsFiniteSet(1 .. n)
  BY FS_Interval
<1>2. IsFiniteSet(S)
  BY <1>1, FS_Subset
<1>3. IsFiniteSet(T) /\ Cardinality(T) <= Cardinality(S)
  BY <1>2, FS_Subset
<1> QED
  BY <1>2, <1>3, FS_CardinalityType

\* A step that leaves the list alone and forgets victims at most.
LEMMA Forgetting ==
    ASSUME PruneInv, UNCHANGED <<inserted, snaps, stamp>>, now' \in Int,
           victims' \in [Procs -> SUBSET (1 .. inserted)],
           \A p \in Procs : victims'[p] \subseteq victims[p]
    PROVE  PruneInv'
<1>1. Typed'
  BY DEF PruneInv, Typed
<1>2. ASSUME NEW p \in Procs, NEW i \in victims'[p], i \in snaps'
      PROVE  Spare(i)'
  <2>1. Spare(i)
    BY <1>2 DEF PruneInv, SpareVictims
  <2>2. Before(i)' = Before(i)
    BY DEF Before, ListedBefore
  <2> QED
    BY <2>1, <2>2 DEF Spare
<1> QED
  BY <1>1, <1>2 DEF PruneInv, SpareVictims

\* A process that ends forgets its victims.
LEMMA Exiting ==
    ASSUME PruneInv, NEW p \in Procs, Exit(p), UNCHANGED <<inserted, snaps, stamp, now>>
    PROVE  PruneInv'
<1>1. /\ victims' \in [Procs -> SUBSET (1 .. inserted)]
      /\ \A q \in Procs : victims'[q] \subseteq victims[q]
  BY DEF Exit, PruneInv, Typed
<1> QED
  BY <1>1, Forgetting DEF PruneInv, Typed

\* A new snapshot has a new id and leaves the order of the others alone.
LEMMA Adding ==
    ASSUME PruneInv, NEW p \in Procs, AddSnapshot(p)
    PROVE  PruneInv'
<1>1. /\ NewId = inserted + 1 /\ inserted' = inserted + 1 /\ NewId \in Ids
      /\ snaps' = snaps \cup {NewId} /\ stamp' = [stamp EXCEPT ![NewId] = now]
      /\ UNCHANGED <<victims, now>> /\ inserted < MaxSnapshots
  BY WorkspaceConstants DEF AddSnapshot, NewId, Ids, PruneInv, Typed, world
<1>2. Typed'
  <2>1. snaps' \subseteq 1 .. inserted'
    BY <1>1 DEF PruneInv, Typed
  <2>2. victims' \in [Procs -> SUBSET (1 .. inserted')]
    BY <1>1 DEF PruneInv, Typed
  <2> QED
    BY <1>1, <2>1, <2>2, WorkspaceConstants DEF PruneInv, Typed
<1>3. ASSUME NEW q \in Procs, NEW i \in victims'[q], i \in snaps'
      PROVE  Spare(i)'
  <2>1. i \in 1 .. inserted /\ i \in snaps /\ i # NewId
    BY <1>1, <1>3 DEF PruneInv, Typed
  <2>2. PICK o \in PruneOptions : Cardinality(Before(i)) >= o.n
    BY <1>1, <1>3, <2>1 DEF PruneInv, SpareVictims, Spare
  <2>3. \A j \in snaps : j # NewId /\ j \in Ids /\ stamp'[j] = stamp[j]
    BY <1>1, WorkspaceConstants DEF PruneInv, Typed, Ids
  <2>4. Before(i) \in SUBSET Before(i)'
    BY <1>1, <2>1, <2>3 DEF Before, ListedBefore
  <2>5. Before(i)' \in SUBSET (1 .. inserted')
    BY <1>2 DEF Before, Typed
  <2>6. /\ Cardinality(Before(i)) \in Nat /\ Cardinality(Before(i)') \in Nat
        /\ Cardinality(Before(i)) <= Cardinality(Before(i)')
    BY <1>2, <2>4, <2>5, SnapshotSets DEF Typed
  <2>7. o.n \in Nat
    BY WorkspaceConstants
  <2>8. Cardinality(Before(i)') >= o.n
    BY <2>2, <2>6, <2>7
  <2> QED
    BY <2>8 DEF Spare
<1> QED
  BY <1>2, <1>3 DEF PruneInv, SpareVictims

\* A prune starts with the snapshots beyond the first n.
LEMMA Starting ==
    ASSUME NoDays, PruneInv, NEW p \in Procs, StartPrune(p)
    PROVE  PruneInv'
<1>1. PICK o \in PruneOptions : victims' = [victims EXCEPT ![p] = Expendable(o)]
  BY DEF StartPrune
<1>2. Expendable(o) = {i \in snaps : Cardinality(Before(i)) >= o.n}
  BY DEF NoDays, Expendable, Rank, Before
<1>3. UNCHANGED <<inserted, snaps, stamp, now>>
  BY DEF StartPrune, db, snapshots
<1>4. Typed'
  BY <1>1, <1>2, <1>3 DEF PruneInv, Typed
<1>5. ASSUME NEW q \in Procs, NEW i \in victims'[q], i \in snaps'
      PROVE  Spare(i)'
  <2>1. Before(i)' = Before(i)
    BY <1>3 DEF Before, ListedBefore
  <2>2. Spare(i)
    BY <1>1, <1>2, <1>3, <1>5 DEF PruneInv, Typed, SpareVictims, Spare
  <2> QED
    BY <2>1, <2>2 DEF Spare
<1> QED
  BY <1>4, <1>5 DEF PruneInv, SpareVictims

\* Deleting x leaves at least its floor, and every other victim keeps one.
LEMMA Deleting ==
    ASSUME PruneInv, NEW p \in Procs, NEW x \in victims[p], x \in snaps,
           snaps' = snaps \ {x}, UNCHANGED <<inserted, stamp, now>>,
           victims' = [victims EXCEPT ![p] = @ \ {x}]
    PROVE  /\ PruneInv'
           /\ \E o \in PruneOptions : Cardinality(snaps') >= o.n
<1>1. PICK o \in PruneOptions : Cardinality(Before(x)) >= o.n
  BY DEF PruneInv, SpareVictims, Spare
<1>2. /\ inserted \in Nat /\ snaps' \in SUBSET (1 .. inserted) /\ o.n \in Nat
  BY WorkspaceConstants DEF PruneInv, Typed
<1>3. \A j \in snaps : j \in Int /\ j \in Ids /\ stamp[j] \in Int
  BY WorkspaceConstants DEF PruneInv, Typed, Ids
<1>4. x \notin Before(x) /\ Before(x) \in SUBSET snaps'
  BY <1>3 DEF Before, ListedBefore
<1>5. Cardinality(snaps') >= o.n
  <2>1. /\ Cardinality(snaps') \in Nat /\ Cardinality(Before(x)) \in Nat
        /\ Cardinality(Before(x)) <= Cardinality(snaps')
    BY <1>2, <1>4, SnapshotSets
  <2> QED
    BY <1>1, <1>2, <2>1
<1>6. Typed'
  BY <1>2 DEF PruneInv, Typed
<1>7. ASSUME NEW q \in Procs, NEW y \in victims'[q], y \in snaps'
      PROVE  Spare(y)'
  <2>1. y \in snaps /\ y # x /\ y \in victims[q]
    BY <1>7 DEF PruneInv, Typed
  <2>2. PICK u \in PruneOptions : Cardinality(Before(y)) >= u.n
    BY <2>1 DEF PruneInv, SpareVictims, Spare
  <2>3. CASE ListedBefore(x, y)
    <3>1. Before(x) \in SUBSET Before(y)'
      BY <1>3, <1>4, <2>1, <2>3 DEF Before, ListedBefore
    <3>2. Before(y)' \in SUBSET (1 .. inserted)
      BY <1>2 DEF Before
    <3>3. /\ Cardinality(Before(x)) \in Nat /\ Cardinality(Before(y)') \in Nat
          /\ Cardinality(Before(x)) <= Cardinality(Before(y)')
      BY <1>2, <3>1, <3>2, SnapshotSets
    <3>4. Cardinality(Before(y)') >= o.n
      BY <1>1, <1>2, <3>3
    <3> QED
      BY <3>4 DEF Spare
  <2>4. CASE ~ListedBefore(x, y)
    <3>1. Before(y)' = Before(y)
      BY <2>4 DEF Before, ListedBefore
    <3> QED
      BY <2>2, <3>1 DEF Spare
  <2> QED
    BY <2>3, <2>4
<1> QED
  BY <1>5, <1>6, <1>7 DEF PruneInv, SpareVictims

\* What a step may do to the list.
Lawful ==
    snaps' # snaps => \/ snaps \subseteq snaps'
                      \/ \E o \in PruneOptions : Cardinality(snaps') >= o.n

\* Every step preserves the invariant and leaves enough snapshots.
LEMMA PruneStep ==
    ASSUME NoDays, PruneInv, [Next]_vars
    PROVE  PruneInv' /\ Lawful
<1> USE DEF disk, db, snapshots, history, proc, world
<1>0. ASSUME UNCHANGED <<inserted, snaps, stamp, victims>>, now' \in Int
      PROVE  PruneInv' /\ Lawful
  <2>1. /\ victims' \in [Procs -> SUBSET (1 .. inserted)]
        /\ \A p \in Procs : victims'[p] \subseteq victims[p]
    BY <1>0 DEF PruneInv, Typed
  <2> QED
    BY <1>0, <2>1, Forgetting DEF Lawful
<1>00. ASSUME NEW p \in Procs, Exit(p), UNCHANGED <<inserted, snaps, stamp, now>>
       PROVE  PruneInv' /\ Lawful
  BY <1>00, Exiting DEF Lawful
<1> now \in Int
  BY DEF PruneInv, Typed
<1>1. ASSUME NEW p \in Procs, ScanFile(p) PROVE PruneInv' /\ Lawful
  BY <1>0, <1>1 DEF ScanFile
<1>2. ASSUME NEW p \in Procs, ScanAborted(p) PROVE PruneInv' /\ Lawful
  BY <1>0, <1>2 DEF ScanAborted
<1>3. ASSUME NEW p \in Procs, StartSnapshot(p) PROVE PruneInv' /\ Lawful
  BY <1>0, <1>3 DEF StartSnapshot, Start
<1>4. ASSUME NEW p \in Procs, AddFileRow(p) PROVE PruneInv' /\ Lawful
  BY <1>0, <1>4 DEF AddFileRow
<1>5. ASSUME NEW p \in Procs, MakeStorage(p) PROVE PruneInv' /\ Lawful
  BY <1>0, <1>5 DEF MakeStorage
<1>6. ASSUME NEW p \in Procs, CopyFile(p) PROVE PruneInv' /\ Lawful
  BY <1>0, <1>6 DEF CopyFile
<1>7. ASSUME NEW p \in Procs, StartRestore(p) PROVE PruneInv' /\ Lawful
  BY <1>0, <1>7 DEF StartRestore, Start
<1>8. ASSUME NEW p \in Procs, ReadFiles(p) PROVE PruneInv' /\ Lawful
  BY <1>0, <1>8 DEF ReadFiles
<1>9. ASSUME NEW p \in Procs, StartDiff(p) PROVE PruneInv' /\ Lawful
  BY <1>0, <1>9 DEF StartDiff
<1>10. ASSUME NEW p \in Procs, BeginRestore(p) PROVE PruneInv' /\ Lawful
  BY <1>0, <1>10 DEF BeginRestore
<1>11. ASSUME NEW p \in Procs, RestoreFile(p) PROVE PruneInv' /\ Lawful
  BY <1>0, <1>11 DEF RestoreFile
<1>12. ASSUME NEW p \in Procs, FinishRestore(p) PROVE PruneInv' /\ Lawful
  BY <1>0, <1>12 DEF FinishRestore
<1>13. ASSUME NEW p \in Procs, AddSnapshotFails(p) PROVE PruneInv' /\ Lawful
  BY <1>00, <1>13 DEF AddSnapshotFails
<1>14. ASSUME NEW p \in Procs, TagSnapshot(p) PROVE PruneInv' /\ Lawful
  BY <1>00, <1>14 DEF TagSnapshot
<1>15. ASSUME NEW p \in Procs, RestoreRefused(p) PROVE PruneInv' /\ Lawful
  BY <1>00, <1>15 DEF RestoreRefused
<1>16. ASSUME NEW p \in Procs, NothingToRestore(p) PROVE PruneInv' /\ Lawful
  BY <1>00, <1>16 DEF NothingToRestore
<1>17. ASSUME NEW p \in Procs, CountRestore(p) PROVE PruneInv' /\ Lawful
  BY <1>00, <1>17 DEF CountRestore
<1>18. ASSUME NEW p \in Procs, FinishPrune(p) PROVE PruneInv' /\ Lawful
  BY <1>00, <1>18 DEF FinishPrune
<1>19. ASSUME NEW p \in Procs, Crash(p) PROVE PruneInv' /\ Lawful
  BY <1>00, <1>19 DEF Crash
<1>20. ASSUME NEW p \in Procs, CrashInCopy(p) PROVE PruneInv' /\ Lawful
  BY <1>00, <1>20 DEF CrashInCopy
<1>21. ASSUME NEW p \in Procs, AddSnapshot(p) PROVE PruneInv' /\ Lawful
  BY <1>21, Adding DEF AddSnapshot, Lawful
<1>22. ASSUME NEW p \in Procs, StartPrune(p) PROVE PruneInv' /\ Lawful
  BY <1>22, Starting DEF StartPrune, Lawful
<1>23. ASSUME NEW p \in Procs, PruneTags(p) PROVE PruneInv' /\ Lawful
  <2>1. UNCHANGED <<inserted, snaps, stamp, now>>
    BY <1>23 DEF PruneTags
  <2>2. PICK V \in SUBSET victims[p] : victims' = [victims EXCEPT ![p] = V]
    BY <1>23 DEF PruneTags
  <2>3. /\ victims' \in [Procs -> SUBSET (1 .. inserted)]
        /\ \A q \in Procs : victims'[q] \subseteq victims[q]
    BY <2>2 DEF PruneInv, Typed
  <2> QED
    BY <2>1, <2>3, Forgetting DEF Lawful
<1>24. ASSUME NEW p \in Procs, PruneDelete(p) PROVE PruneInv' /\ Lawful
  <2>1. PICK x \in victims[p] :
          /\ victims' = [victims EXCEPT ![p] = @ \ {x}]
          /\ DeleteRow(x) \/ UNCHANGED snaps
    BY <1>24 DEF PruneDelete
  <2>2. UNCHANGED <<inserted, stamp, now>>
    BY <1>24 DEF PruneDelete
  <2>3. CASE DeleteRow(x) /\ x \in snaps
    BY <2>1, <2>2, <2>3, Deleting DEF DeleteRow, Lawful
  <2>4. CASE UNCHANGED snaps
    <3>1. /\ victims' \in [Procs -> SUBSET (1 .. inserted)]
          /\ \A q \in Procs : victims'[q] \subseteq victims[q]
      BY <2>1 DEF PruneInv, Typed
    <3> QED
      BY <2>2, <2>4, <3>1, Forgetting DEF Lawful
  <2> QED
    BY <2>1, <2>3, <2>4 DEF DeleteRow
<1>25. CASE Edit
  BY <1>0, <1>25 DEF Edit
<1>26. CASE Tick
  BY <1>0, <1>26 DEF Tick
<1>27. CASE UNCHANGED vars
  BY <1>0, <1>27 DEF vars
<1> QED
  BY <1>1, <1>2, <1>3, <1>4, <1>5, <1>6, <1>7, <1>8, <1>9, <1>10, <1>11, <1>12, <1>13, <1>14, <1>15, <1>16, <1>17, <1>18, <1>19, <1>20, <1>21, <1>22, <1>23, <1>24, <1>25, <1>26, <1>27 DEF Next

\* However many prunes with --keep run at once, and whatever each of them read
\* before the others deleted, the number of snapshots never falls below the
\* smallest of their floors: for any numbers of processes, files, tags and
\* snapshots, any options, and any clock.
THEOREM ConcurrentPrunesKeepEnough == Spec => KeepsEnough
<1>1. CASE NoDays
  <2>1. Init => PruneInv
    BY WorkspaceConstants DEF Init, PruneInv, Typed, SpareVictims
  <2>2. PruneInv /\ [Next]_vars => PruneInv'
    BY <1>1, PruneStep
  <2>3. PruneInv /\ [Next]_vars =>
          [snaps' # snaps =>
             \/ snaps \subseteq snaps'
             \/ \E o \in PruneOptions : o.by = "days" \/ Cardinality(snaps') >= o.n]_vars
    BY <1>1, PruneStep DEF Lawful
  <2> QED
    BY <2>1, <2>2, <2>3, PTL DEF Spec, KeepsEnough
<1>2. CASE ~NoDays
  <2>1. \E o \in PruneOptions : o.by = "days"
    BY <1>2, WorkspaceConstants DEF NoDays
  <2>2. [Next]_vars =>
          [snaps' # snaps =>
             \/ snaps \subseteq snaps'
             \/ \E o \in PruneOptions : o.by = "days" \/ Cardinality(snaps') >= o.n]_vars
    BY <2>1
  <2> QED
    BY <2>2, PTL DEF Spec, KeepsEnough
<1> QED
  BY <1>1, <1>2
=============================================================================
