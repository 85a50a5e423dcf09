---------------------------- MODULE NexusStartup ----------------------------
(***************************************************************************)
(* How nazg processes bring up the database they share: open, migrate,     *)
(* load or create the encryption salt (Store::create, Store::initialize,   *)
(* Migrator), the automatic recovery of engine's init_nexus from a corrupt *)
(* file, and `nazg db reset`.  SQLite runs one writer at a time and, with  *)
(* no busy timeout set, refuses the others at once.                        *)
(***************************************************************************)
EXTENDS Integers

CONSTANTS
    Users,       \* processes
    Latest,      \* number of migrations (12 in the tree), the last with nazg_metadata
    Directories, \* sets of migrations that a process may find and read
    Alter,       \* migrations with ALTER TABLE ADD COLUMN: a second run is an error
    Altered,     \* [Alter]: the migration that creates the table
    TokenColumn, \* the one of Alter that adds git_servers.admin_token
    AutoCommit,  \* migrations without BEGIN: every statement commits by itself
    MaxStarts,   \* processes started in a behaviour
    MaxMishaps,  \* corruptions and resets in a behaviour
    Nobody

ASSUME NexusAssumption ==
    /\ Latest \in Nat \ {0}
    /\ Directories \subseteq SUBSET (1..Latest)
    /\ Alter \subseteq 1..Latest
    /\ Altered \in [Alter -> 1..Latest]
    /\ TokenColumn \in Alter
    /\ AutoCommit \subseteq 1..Latest
    /\ Alter \cap AutoCommit = {}
    /\ MaxStarts \in Nat
    /\ MaxMishaps \in Nat
    /\ Nobody \notin Users

VARIABLES
    tables,    \* migrations whose tables and columns the file has
    versions,  \* rows of schema_version
    gaps,      \* history: missing below a migration found, where a process migrated
    writer,    \* the process whose transaction holds SQLite's write lock
    corrupt,   \* the file is malformed
    salt,      \* nazg_metadata.encryption_salt, 0 when there is none
    token,     \* salt under which the stored admin_token was encrypted, 0: no token
    db,        \* [p]: the process' Store
    starts,    \* processes started, and the last salt drawn
    mishaps,
    excused    \* history: a process went on with a salt that is not the stored one

nexusVars == <<tables, versions, gaps, writer, corrupt, salt, token, db, starts, mishaps, excused>>

file == <<tables, versions, salt, token>>
counters == <<starts, mishaps, excused>>

\* get_schema_version: MAX(version), 0 without the table or a row
IsVersion(n) ==
    IF versions = {} THEN n = 0 ELSE n \in versions /\ \A v \in versions : v <= n

NoStore == [pc |-> "off", files |-> {}, todo |-> {}, salt |-> 0, again |-> FALSE]

NexusInit ==
    /\ tables = {} /\ versions = {} /\ gaps = {} /\ salt = 0 /\ token = 0
    /\ writer = Nobody /\ corrupt = FALSE
    /\ db = [p \in Users |-> NoStore]
    /\ starts = 0 /\ mishaps = 0 /\ excused = FALSE

Proceed(p, pc) == db' = [db EXCEPT ![p].pc = pc]

\* SqliteDriver::execute: a statement that writes succeeds
CanWrite(p) == writer \in {Nobody, p} /\ ~corrupt

\* SqliteDriver::exec_query: a SELECT succeeds (WAL: readers do not wait)
CanRead == ~corrupt

\* Store::encrypt_token, decrypt_token: a token is the salt it was encrypted under;
\* another salt, or a failed authentication tag, reads as no token
encrypt_token(own) == own
decrypt_token(stored, own) == IF stored = own THEN stored ELSE 0

----------------------------------------------------------------------------
(* Store::initialize                                                        *)

\* Store::create and enable_wal_mode
Open(p) ==
    /\ db[p].pc = "off"
    /\ starts < MaxStarts
    /\ starts' = starts + 1
    /\ Proceed(p, "version")
    /\ UNCHANGED <<file, gaps, writer, corrupt, mishaps, excused>>

\* load_migrations: the first search path that exists, less the files that cannot be
\* read; needs_migration and migrate_to: the version is read once, a malformed file
\* reads as version 0, and what is loaded above it is to be applied
ReadVersion(p, files, current) ==
    LET todo == {v \in files : v > current} IN
    /\ db[p].pc = "version"
    /\ IF CanRead THEN IsVersion(current) ELSE current = 0
    /\ db' = [db EXCEPT ![p] = [@ EXCEPT !.files = files, !.todo = todo,
                                  !.pc = IF todo # {} THEN "migrate" ELSE "salt"]]
    /\ gaps' = IF todo = {} THEN gaps
               ELSE gaps \cup {v \in 1..Latest \ files : \E found \in files : v < found}
    /\ UNCHANGED <<file, writer, corrupt, counters>>

\* migrations_ is sorted: v is what process p applies now
Turn(p, v) == v \in db[p].todo /\ \A u \in db[p].todo : v <= u

\* the next migration, or none left
Applied(p, v) ==
    [db EXCEPT ![p] = [@ EXCEPT !.todo = db[p].todo \ {v},
                         !.pc = IF db[p].todo = {v} THEN "salt" ELSE "migrate"]]

\* a script fails: the lock is held, the file is malformed, the table to alter is
\* missing or has the column already, or (001 apart) there is no schema_version
CannotApply(p, v) ==
    \/ ~CanWrite(p)
    \/ v \in Alter /\ (v \in tables \/ Altered[v] \notin tables)
    \/ v # 1 /\ 1 \notin tables /\ (v \in AutoCommit => db[p].pc = "record")

\* mutant: the version is recorded before the statements run
RecordFirst(p, v) ==
    /\ db[p].pc = "migrate" /\ Turn(p, v)
    /\ v \notin AutoCommit
    /\ ~CannotApply(p, v)
    /\ writer' = p
    /\ versions' = versions \cup {v}
    /\ Proceed(p, "commit")
    /\ UNCHANGED <<tables, gaps, salt, token, corrupt, counters>>

\* BEGIN and the first write of a script
BeginMigration(p, v) ==
    /\ db[p].pc = "migrate" /\ Turn(p, v)
    /\ v \notin AutoCommit
    /\ ~CannotApply(p, v)
    /\ writer' = p
    /\ Proceed(p, "commit")
    /\ UNCHANGED <<file, gaps, corrupt, counters>>

\* CREATE TABLE IF NOT EXISTS, INSERT OR IGNORE INTO schema_version, COMMIT
CommitMigration(p, v) ==
    /\ db[p].pc = "commit" /\ Turn(p, v)
    /\ tables' = tables \cup {v}
    /\ versions' = versions \cup {v}
    /\ writer' = Nobody
    /\ db' = Applied(p, v)
    /\ UNCHANGED <<gaps, salt, token, corrupt, counters>>

\* 004_tests.sql and 012_encryption_metadata.sql: the tables, then the version
AutoTables(p, v) ==
    /\ db[p].pc = "migrate" /\ Turn(p, v)
    /\ v \in AutoCommit
    /\ ~CannotApply(p, v)
    /\ tables' = tables \cup {v}
    /\ Proceed(p, "record")
    /\ UNCHANGED <<versions, gaps, salt, token, writer, corrupt, counters>>

AutoRecord(p, v) ==
    /\ db[p].pc = "record" /\ Turn(p, v)
    /\ ~CannotApply(p, v)
    /\ versions' = versions \cup {v}
    /\ db' = Applied(p, v)
    /\ UNCHANGED <<tables, gaps, salt, token, writer, corrupt, counters>>

\* mutant: apply_migration's result is not looked at
FailureIgnored(p, v) ==
    /\ db[p].pc \in {"migrate", "record"} /\ Turn(p, v)
    /\ CannotApply(p, v)
    /\ db' = Applied(p, v)
    /\ UNCHANGED <<file, gaps, writer, corrupt, counters>>

\* "Migration failed": the connection is closed, which rolls its transaction back
MigrationFails(p, v) ==
    /\ db[p].pc \in {"migrate", "record"} /\ Turn(p, v)
    /\ CannotApply(p, v)
    /\ Proceed(p, IF corrupt /\ writer \in {Nobody, p} THEN "recover" ELSE "down")
    /\ UNCHANGED <<file, gaps, writer, corrupt, counters>>

\* SELECT value FROM nazg_metadata; an error reads as "no salt"
ReadSalt(p) ==
    LET found == IF CanRead /\ Latest \in tables THEN salt ELSE 0 IN
    /\ db[p].pc = "salt"
    /\ db' = [db EXCEPT ![p] = [@ EXCEPT !.salt = found,
                                  !.pc = IF found # 0 THEN "up" ELSE "draw"]]
    /\ UNCHANGED <<file, gaps, writer, corrupt, counters>>

\* mutant: INSERT OR REPLACE
ReplaceSalt(p) ==
    /\ db[p].pc = "draw"
    /\ starts' = starts + 1
    /\ salt' = IF CanWrite(p) THEN starts' ELSE salt
    /\ excused' = (excused \/ salt' # starts')
    /\ db' = [db EXCEPT ![p] = [@ EXCEPT !.salt = starts', !.pc = "up"]]
    /\ UNCHANGED <<tables, versions, gaps, token, writer, corrupt, mishaps>>

\* a new salt and INSERT OR IGNORE: the process keeps its own whether or not it
\* was stored
InsertSalt(p) ==
    /\ db[p].pc = "draw"
    /\ starts' = starts + 1
    /\ salt' = IF salt = 0 /\ Latest \in tables /\ CanWrite(p) THEN starts' ELSE salt
    /\ excused' = (excused \/ salt' # starts')
    /\ db' = [db EXCEPT ![p] = [@ EXCEPT !.salt = starts', !.pc = "up"]]
    /\ UNCHANGED <<tables, versions, gaps, token, writer, corrupt, mishaps>>

----------------------------------------------------------------------------
(* init_nexus: a malformed file is removed and recreated, once              *)

\* the file goes, its -wal may stay and spoil the new one; a process that had the
\* file open goes on with the deleted inode
RemoveCorrupt(p) ==
    /\ db[p].pc = "recover"
    /\ ~db[p].again
    /\ tables' = {} /\ versions' = {} /\ gaps' = {} /\ salt' = 0 /\ token' = 0
    /\ writer' = Nobody
    /\ corrupt' \in BOOLEAN
    /\ db' = [q \in Users |->
                IF q = p THEN [NoStore EXCEPT !.pc = "version", !.again = TRUE]
                ELSE IF db[q].pc = "off" THEN db[q] ELSE [NoStore EXCEPT !.pc = "down"]]
    /\ UNCHANGED counters

\* the second failure gives up; so does every other error
GiveUp(p) ==
    /\ db[p].pc = "recover"
    /\ db[p].again
    /\ Proceed(p, "down")
    /\ UNCHANGED <<file, gaps, writer, corrupt, counters>>

\* without a store the commands run on, with nothing recorded; either way it ends
End(p) ==
    /\ db[p].pc \in {"down", "up"}
    /\ db' = [db EXCEPT ![p] = NoStore]
    /\ UNCHANGED <<file, gaps, writer, corrupt, counters>>

----------------------------------------------------------------------------
(* Commands of a process whose store is up                                  *)

\* update_git_server_admin_token: encrypt_token under the process' salt
SaveToken(p) ==
    /\ db[p].pc = "up"
    /\ CanWrite(p) /\ TokenColumn \in tables
    /\ token' = encrypt_token(db[p].salt)
    /\ UNCHANGED <<tables, versions, gaps, salt, writer, corrupt, db, counters>>

\* a server read and written back (upsert_git_server sets every column): a token
\* that could not be read is erased
RewriteServer(p) ==
    /\ db[p].pc = "up"
    /\ CanWrite(p) /\ TokenColumn \in tables
    /\ token' = decrypt_token(token, db[p].salt)
    /\ UNCHANGED <<tables, versions, gaps, salt, writer, corrupt, db, counters>>

\* Store::reset_database: DELETE FROM sqlite_master, then VACUUM, then initialize again.
\* Nobody else migrates meanwhile; a process that is up keeps its old salt.
reset_database(p) ==
    /\ CanWrite(p)
    /\ tables' = {} /\ versions' = {} /\ gaps' = {} /\ salt' = 0 /\ token' = 0
    /\ \E vacuum \in BOOLEAN :
          db' = [db EXCEPT ![p] = [NoStore EXCEPT !.pc = IF vacuum THEN "version" ELSE "down"]]
    /\ mishaps' = mishaps + 1
    /\ excused' = (excused \/ \E q \in Users \ {p} : db[q].pc = "up")
    /\ UNCHANGED <<writer, corrupt, starts>>

\* a reset that cannot write, or that the user does not confirm, changes nothing
cmd_db_reset(p) ==
    /\ db[p].pc = "up"
    /\ mishaps < MaxMishaps
    /\ \A q \in Users \ {p} : db[q].pc \in {"off", "up", "down"}
    /\ reset_database(p)

----------------------------------------------------------------------------

StartKilled(p) ==
    /\ db[p].pc # "off"
    /\ db' = [db EXCEPT ![p] = NoStore]
    /\ writer' = IF writer = p THEN Nobody ELSE writer
    /\ UNCHANGED <<file, gaps, corrupt, counters>>

\* a disk error or a torn write
Corruption ==
    /\ mishaps < MaxMishaps
    /\ mishaps' = mishaps + 1
    /\ corrupt' = TRUE
    /\ UNCHANGED <<file, gaps, writer, db, starts, excused>>

NexusNext ==
    \/ \E p \in Users :
          \/ Open(p)
          \/ \E files \in Directories, current \in 0..Latest : ReadVersion(p, files, current)
          \/ \E v \in 1..Latest :
                \/ BeginMigration(p, v) \/ CommitMigration(p, v) \/ AutoTables(p, v)
                \/ AutoRecord(p, v) \/ MigrationFails(p, v)
          \/ ReadSalt(p) \/ InsertSalt(p)
          \/ RemoveCorrupt(p) \/ GiveUp(p) \/ End(p)
          \/ SaveToken(p) \/ RewriteServer(p) \/ cmd_db_reset(p) \/ StartKilled(p)
    \/ Corruption

NexusSpec == NexusInit /\ [][NexusNext]_nexusVars

----------------------------------------------------------------------------

(* Any number of processes that migrate at once, each from the directory it  *)
(* found, with versions read before others committed, with scripts that are *)
(* not transactions, kills, recovery and resets in between, look like one   *)
(* migrator: a version is never recorded without its tables, nor before a   *)
(* lower one, unless that one was missing among the files of some process   *)
(* that migrated past it (Migrator::load_migrations, migrate_to).           *)
Promise == INSTANCE Schema
MigratesInOrder == Promise!SchemaSpec

(* A process whose store came up has the tables of every migration it found, *)
(* whoever ran them, unless the database was reset under it or a directory  *)
(* with a gap let another process record a higher version: that gap is never *)
(* filled, since every later process starts above it.                       *)
UpMeansMigrated ==
    \A p \in Users :
        db[p].pc \in {"salt", "draw"} \/ (db[p].pc = "up" /\ mishaps = 0)
            => db[p].files \subseteq tables \cup gaps

(* A stored admin token can be decrypted by every process that starts later, *)
(* unless some process went on with a salt of its own: INSERT OR IGNORE lost *)
(* to another first start or failed, or the database was reset under it.    *)
TokenReadable == token # 0 /\ token # salt => excused
=============================================================================
