------------------------------- MODULE Updater -------------------------------
(***************************************************************************)
(* `nazg update` and `nazg update --rollback` (engine/src/updater.cpp):    *)
(* versions staged side by side under the prefix and one symbolic link,    *)
(* bin_dir/nazg, that names the active one.  One process updates at a      *)
(* time; it may be killed between any two file operations.                 *)
(***************************************************************************)
EXTENDS Integers, Sequences, FiniteSets, SequencesExt

CONSTANTS
    Versions,    \* version names a build can produce
    Unprefixed,  \* those that do not begin with 'v' (a local tag such as 0.2.4)
    Keeps,       \* values of --keep
    NoVersion,
    MaxUpdates   \* commands started in a behaviour

ASSUME UpdaterAssumption ==
    /\ Unprefixed \subseteq Versions
    /\ NoVersion \notin Versions
    /\ Keeps \subseteq Int
    /\ MaxUpdates \in Nat

VARIABLES
    dirs,      \* what is in prefix/<version>: nothing, a directory, a binary, all
    link,      \* the version bin_dir/nazg points to
    updating,  \* the running command
    hurt,      \* history: versions whose staging was cut short, or that were pruned
    updates    \* commands started

updaterVars == <<dirs, link, updating, hurt, updates>>

HasBinary(v) == dirs[v] \in {"binary", "full"}

NoUpdate == [pc |-> "idle", v |-> NoVersion, keep |-> 0, dry |-> FALSE, doomed |-> {}]

\* a machine on which `nazg update` never ran
UpdaterInit ==
    /\ dirs = [v \in Versions |-> "none"]
    /\ link = NoVersion
    /\ updating = NoUpdate
    /\ hurt = {}
    /\ updates = 0

----------------------------------------------------------------------------
(* What the program reads from the file system.                             *)

\* active_version: fs::exists follows the link, so a dangling link is no version
active_version == IF link # NoVersion /\ HasBinary(link) THEN link ELSE NoVersion

\* prune_old and rollback list the directories whose name begins with 'v'
Listed == {v \in Versions \ Unprefixed : dirs[v] # "none"}

\* mtime() is built as C++17, where it answers the time of the call: the sort
\* leaves the directories in the order in which the file system lists them
Orders == SetToSeqs(Listed)

----------------------------------------------------------------------------
(* nazg update                                                              *)

StartUpdate(v, keep, dry) ==
    /\ updating.pc = "idle"
    /\ updates < MaxUpdates
    /\ updates' = updates + 1
    /\ updating' = [pc |-> "build", v |-> v, keep |-> keep, dry |-> dry, doomed |-> {}]
    /\ UNCHANGED <<dirs, link, hurt>>

\* versions root, source directory, git, cmake: any of them may fail
BuildFails ==
    /\ updating.pc = "build"
    /\ updating' = NoUpdate
    /\ UNCHANGED <<dirs, link, hurt, updates>>

\* fs::remove_all(staged): the version may be installed, or be the active one
ClearStage ==
    /\ updating.pc = "build"
    /\ dirs' = [dirs EXCEPT ![updating.v] = "none"]
    /\ updating' = [updating EXCEPT !.pc = "mkdir"]
    /\ UNCHANGED <<link, hurt, updates>>

\* mutant: the failure is logged but the update goes on
StageFailureIgnored ==
    /\ updating.pc \in {"mkdir", "copy", "migrations"}
    /\ updating' = [updating EXCEPT !.pc = "unlink"]
    /\ UNCHANGED <<dirs, link, hurt, updates>>

\* an error return after remove_all: no binary built, a directory or copy refused
StageFails ==
    /\ updating.pc \in {"mkdir", "copy", "migrations"}
    /\ hurt' = hurt \cup {updating.v}
    /\ updating' = NoUpdate
    /\ UNCHANGED <<dirs, link, updates>>

MakeStageDir ==
    /\ updating.pc = "mkdir"
    /\ dirs' = [dirs EXCEPT ![updating.v] = "empty"]
    /\ updating' = [updating EXCEPT !.pc = "copy"]
    /\ UNCHANGED <<link, hurt, updates>>

CopyBinary ==
    /\ updating.pc = "copy"
    /\ dirs' = [dirs EXCEPT ![updating.v] = "binary"]
    /\ updating' = [updating EXCEPT !.pc = "migrations"]
    /\ UNCHANGED <<link, hurt, updates>>

\* a migration that cannot be copied is only logged; META.json is unchecked; a
\* dry run ends here, with the version staged
CopyMigrations(all) ==
    /\ updating.pc = "migrations"
    /\ dirs' = [dirs EXCEPT ![updating.v] = IF all THEN "full" ELSE "binary"]
    /\ hurt' = hurt \ {updating.v}
    /\ updating' = IF updating.dry THEN NoUpdate
                   ELSE [updating EXCEPT !.pc = "unlink"]
    /\ UNCHANGED <<link, updates>>

----------------------------------------------------------------------------
(* activate, for an update and for a rollback                               *)

\* if (fs::exists(link)) fs::remove(link): exists() is false of a dangling link
Unlink ==
    /\ updating.pc = "unlink"
    /\ link' = IF active_version # NoVersion THEN NoVersion ELSE link
    /\ updating' = [updating EXCEPT !.pc = "symlink"]
    /\ UNCHANGED <<dirs, hurt, updates>>

\* fs::create_symlink fails when the name is taken; a rollback is then done
Symlink ==
    /\ updating.pc = "symlink"
    /\ IF link = NoVersion
       THEN /\ link' = updating.v
            /\ updating' = IF updating.keep < 0 THEN NoUpdate
                           ELSE [updating EXCEPT !.pc = "list"]
       ELSE /\ updating' = NoUpdate
            /\ link' = link
    /\ UNCHANGED <<dirs, hurt, updates>>

\* prune_old: everything after the first keep entries of the list
prune_old ==
    /\ updating.pc = "list"
    /\ \E order \in Orders :
          updating' = [updating EXCEPT !.pc = "prune",
                          !.doomed = {order[i] : i \in (updating.keep + 1)..Len(order)}]
    /\ UNCHANGED <<dirs, link, hurt, updates>>

PruneOne(v) ==
    /\ updating.pc = "prune"
    /\ v \in updating.doomed
    /\ dirs' = [dirs EXCEPT ![v] = "none"]
    /\ hurt' = hurt \cup {v}
    /\ updating' = [updating EXCEPT !.doomed = @ \ {v}]
    /\ UNCHANGED <<link, updates>>

\* the result line, and --reexec into the new binary
UpdateDone ==
    /\ updating.pc = "prune"
    /\ updating.doomed = {}
    /\ updating' = NoUpdate
    /\ UNCHANGED <<dirs, link, hurt, updates>>

----------------------------------------------------------------------------
(* nazg update --rollback [VERSION]; keep < 0 marks that nothing is pruned  *)

RollbackTo(v) ==
    /\ updating' = [NoUpdate EXCEPT !.pc = "unlink", !.v = v, !.keep = -1]
    /\ updates' = updates + 1
    /\ UNCHANGED <<dirs, link, hurt>>

\* a version that is not listed, or is active already, changes nothing
Rollback(v) ==
    /\ updating.pc = "idle"
    /\ updates < MaxUpdates
    /\ v \in Listed \ {active_version}
    /\ RollbackTo(v)

\* without a version: the first of the list, or the second if the first is active
RollbackPrevious ==
    /\ updating.pc = "idle"
    /\ updates < MaxUpdates
    /\ Cardinality(Listed) >= 2
    /\ \E order \in Orders :
          RollbackTo(IF order[1] = active_version THEN order[2] ELSE order[1])

----------------------------------------------------------------------------

UpdaterCrash ==
    /\ updating.pc # "idle"
    /\ hurt' = IF updating.pc \in {"mkdir", "copy", "migrations"}
               THEN hurt \cup {updating.v} ELSE hurt
    /\ updating' = NoUpdate
    /\ UNCHANGED <<dirs, link, updates>>

UpdaterNext ==
    \/ \E v \in Versions, keep \in Keeps, dry \in BOOLEAN : StartUpdate(v, keep, dry)
    \/ BuildFails \/ ClearStage \/ StageFails \/ MakeStageDir \/ CopyBinary
    \/ \E all \in BOOLEAN : CopyMigrations(all)
    \/ Unlink \/ Symlink \/ prune_old \/ UpdateDone
    \/ \E v \in Versions : PruneOne(v) \/ Rollback(v)
    \/ RollbackPrevious \/ UpdaterCrash

UpdaterSpec == UpdaterInit /\ [][UpdaterNext]_updaterVars

----------------------------------------------------------------------------

Dangling == link # NoVersion /\ ~HasBinary(link)

(* The nazg command may lead nowhere (Dangling) only while an update stages  *)
(* anew the very version it names, or when that version's staging was cut   *)
(* short (an error return of update_from_source, a kill) or prune_old       *)
(* removed it: no order of updates, dry runs and rollbacks does it alone.   *)
DanglesOnlyWhenHurt ==
    Dangling => \/ link \in hurt
                \/ updating.v = link /\ updating.pc \in {"mkdir", "copy"}
=============================================================================
