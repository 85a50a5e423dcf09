---------------------------- MODULE EngineProofs ----------------------------
(***************************************************************************)
(* What the installed engine changes about itself: the schema of the       *)
(* database that all its processes share, and the nazg link.               *)
(***************************************************************************)
EXTENDS NexusStartup, Updater, FiniteSetTheorems, SequenceTheorems, TLAPS

----------------------------------------------------------------------------
(***************************************************************************)
(* Start-up of the shared database, for any number of processes, any       *)
(* migrations, any directories they are loaded from and any split of them  *)
(* into transactional and auto-committing scripts.                         *)
(*                                                                         *)
(* One invariant carries the three results.  Below a recorded version every *)
(* version is recorded or a gap; a process that migrates has behind it, and *)
(* below what it still has to apply, only recorded versions and gaps, from  *)
(* however old a reading it started; and a process that is up holds the     *)
(* stored salt unless some process was let go on with another.             *)
(***************************************************************************)

Steps == {"off", "version", "migrate", "commit", "record", "salt", "draw", "up", "recover", "down"}

Stores == [pc : Steps, files : SUBSET (1 .. Latest), todo : SUBSET (1 .. Latest),
           salt : Nat, again : BOOLEAN]

\* What each variable holds.
StartTyped ==
    /\ db \in [Users -> Stores]
    /\ salt \in Nat /\ token \in Nat /\ starts \in Nat /\ mishaps \in Nat
    /\ excused \in BOOLEAN

\* The recorded versions have their tables, and nothing but gaps between them.
Rows ==
    /\ versions \subseteq tables
    /\ tables \subseteq 1 .. Latest
    /\ \A v \in versions : 1 .. (v - 1) \subseteq versions \cup gaps

\* What a process that migrates has behind it, and what it is recording.
Climbing(s) ==
    s.pc \in {"migrate", "commit", "record"} =>
        /\ \A v \in s.todo : \A u \in 1 .. (v - 1) : u \in s.todo \cup versions \cup gaps
        /\ s.files \subseteq s.todo \cup versions \cup gaps
        /\ s.pc = "record" => \A v \in s.todo : (\A u \in s.todo : v <= u) => v \in tables

\* Who is past the migrations has its own, unless the database was reset under it.
Complete(s) ==
    s.pc \in {"salt", "draw"} \/ (s.pc = "up" /\ mishaps = 0) => s.files \subseteq tables \cup gaps

\* Who is up has a salt, the stored one unless excused.
Salted(s) == s.pc = "up" => s.salt # 0 /\ (s.salt = salt \/ excused)

StoreOK(s) == Climbing(s) /\ Complete(s) /\ Salted(s)

NexusInv ==
    /\ StartTyped
    /\ Rows
    /\ TokenReadable
    /\ \A p \in Users : StoreOK(db[p])

\* What the abstract specification allows of a step.
Promised == Promise!SchemaNext \/ UNCHANGED <<tables, versions, gaps>>

\* A process that is not busy needs nothing of the file.
Resting(s) == s.pc \in {"off", "version", "recover", "down"}

LEMMA Rest ==
    ASSUME NEW p \in Users, Resting(db'[p])
    PROVE  StoreOK(db[p])'
BY DEF Resting, StoreOK, Climbing, Complete, Salted

\* A step of p's own, while the file only grows.
LEMMA OwnStep ==
    ASSUME NexusInv, NEW p \in Users, NEW s \in Stores,
           db' = [db EXCEPT ![p] = s], StoreOK(db[p])', Rows',
           tables \subseteq tables', versions \subseteq versions', gaps \subseteq gaps',
           starts' \in Nat, UNCHANGED <<salt, token, mishaps, excused>>
    PROVE  NexusInv'
<1>1. StartTyped'
  BY DEF NexusInv, StartTyped
<1>2. ASSUME NEW q \in Users, q # p PROVE StoreOK(db[q])'
  <2>1. db'[q] = db[q] /\ StoreOK(db[q])
    BY <1>2 DEF NexusInv, StartTyped
  <2>2. Climbing(db[q])'
    BY <2>1 DEF StoreOK, Climbing
  <2>3. Complete(db[q])'
    BY <2>1 DEF StoreOK, Complete
  <2>4. Salted(db[q])'
    BY <2>1 DEF StoreOK, Salted
  <2> QED
    BY <2>2, <2>3, <2>4 DEF StoreOK
<1> QED
  BY <1>1, <1>2 DEF NexusInv, TokenReadable

\* A step of p's own with the file as it was.
LEMMA QuietStep ==
    ASSUME NexusInv, NEW p \in Users, NEW s \in Stores, StoreOK(s),
           db' = [db EXCEPT ![p] = s], starts' \in Nat,
           UNCHANGED <<tables, versions, gaps, salt, token, mishaps, excused>>
    PROVE  NexusInv' /\ Promised
<1>1. db'[p] = s
  BY DEF NexusInv, StartTyped
<1>2. StoreOK(db[p])'
  BY <1>1 DEF StoreOK, Climbing, Complete, Salted
<1>3. Rows'
  BY DEF NexusInv, Rows
<1> QED
  BY <1>2, <1>3, OwnStep DEF Promised

\* Whoever's turn a migration is has only recorded versions and gaps below it.
LEMMA TurnReached ==
    ASSUME NexusInv, NEW p \in Users, NEW v \in 1 .. Latest, Turn(p, v),
           db[p].pc \in {"migrate", "commit", "record"}
    PROVE  Promise!Reached(v)
<1>1. Climbing(db[p])
  BY DEF NexusInv, StoreOK
<1>2. ASSUME NEW u \in 1 .. (v - 1) PROVE u \in versions \cup gaps
  <2>1. u \in db[p].todo \cup versions \cup gaps
    BY <1>1, <1>2 DEF Climbing, Turn
  <2>2. u \notin db[p].todo
    BY NexusAssumption, <1>2 DEF Turn
  <2> QED
    BY <2>1, <2>2
<1> QED
  BY <1>2 DEF Promise!Reached

\* A version is recorded, its tables being there with it.
LEMMA RecordStep ==
    ASSUME NexusInv, NEW p \in Users, NEW v \in 1 .. Latest, Turn(p, v),
           db[p].pc \in {"commit", "record"},
           tables' = tables \cup {v}, versions' = versions \cup {v}, db' = Applied(p, v),
           UNCHANGED <<gaps, salt, token, starts, mishaps, excused>>
    PROVE  NexusInv' /\ Promised
<1> DEFINE next == IF db[p].todo = {v} THEN "salt" ELSE "migrate"
           s == [db[p] EXCEPT !.todo = db[p].todo \ {v}, !.pc = next]
<1>1. Promise!Reached(v)
  BY TurnReached
<1>2. Promised
  BY <1>1 DEF Promised, Promise!SchemaNext, Promise!Record
<1>3. Rows'
  <2>1. \A w \in versions' : 1 .. (w - 1) \subseteq versions' \cup gaps'
    BY <1>1 DEF NexusInv, Rows, Promise!Reached
  <2> QED
    BY <2>1 DEF NexusInv, Rows
<1>4. db[p] \in Stores /\ Climbing(db[p]) /\ next \in Steps
  BY DEF NexusInv, StartTyped, StoreOK, Steps
<1>5. db' = [db EXCEPT ![p] = s]
  BY <1>4 DEF Applied
<1>6. /\ s \in Stores /\ s.todo = db[p].todo \ {v} /\ s.pc = next /\ s.files = db[p].files
      /\ db'[p] = s
  BY <1>4, <1>5 DEF Stores, NexusInv, StartTyped
<1>7. StoreOK(db[p])'
  <2>1. /\ \A w \in s.todo : \A u \in 1 .. (w - 1) : u \in s.todo \cup versions' \cup gaps'
        /\ s.files \subseteq s.todo \cup versions' \cup gaps'
    BY <1>4, <1>6 DEF Climbing
  <2>2. Climbing(db[p])'
    BY <1>6, <2>1 DEF Climbing
  <2>3. Complete(db[p])'
    <3>1. s.pc = "salt" => s.todo = {}
      BY <1>6
    <3>2. versions' \subseteq tables'
      BY <1>3 DEF Rows
    <3> QED
      BY <1>6, <2>1, <3>1, <3>2 DEF Complete
  <2>4. Salted(db[p])'
    BY <1>6 DEF Salted
  <2> QED
    BY <2>2, <2>3, <2>4 DEF StoreOK
<1>8. starts' \in Nat
  BY DEF NexusInv, StartTyped
<1> QED
  BY <1>2, <1>3, <1>5, <1>6, <1>7, <1>8, OwnStep

\* An empty database, and nobody at work but for those who hold a deleted one.
LEMMA EmptyStep ==
    ASSUME NexusInv, db' \in [Users -> Stores], \A p \in Users : StoreOK(db[p])',
           tables' = {}, versions' = {}, gaps' = {}, salt' = 0, token' = 0,
           starts' \in Nat, mishaps' \in Nat, excused' \in BOOLEAN
    PROVE  NexusInv' /\ Promised
<1>1. Rows' /\ TokenReadable' /\ StartTyped'
  BY DEF Rows, TokenReadable, StartTyped
<1> QED
  BY <1>1 DEF NexusInv, Promised, Promise!SchemaNext, Promise!Drop

\* What is loaded is applied from above the version that was read.
LEMMA ReadStep ==
    ASSUME NexusInv, NEW p \in Users, NEW files \in Directories, NEW current \in 0 .. Latest,
           ReadVersion(p, files, current)
    PROVE  NexusInv' /\ Promised
<1> DEFINE todo == {v \in files : v > current}
           next == IF todo # {} THEN "migrate" ELSE "salt"
           missing == {v \in 1 .. Latest \ files : \E found \in files : v < found}
           s == [db[p] EXCEPT !.files = files, !.todo = todo, !.pc = next]
<1>1. /\ Latest \in Nat /\ files \subseteq 1 .. Latest /\ todo \subseteq files
      /\ db[p] \in Stores /\ next \in Steps
  BY NexusAssumption DEF NexusInv, StartTyped, Steps
<1>2. /\ db' = [db EXCEPT ![p] = s]
      /\ gaps' = (IF todo = {} THEN gaps ELSE gaps \cup missing)
      /\ UNCHANGED <<tables, versions, salt, token, starts, mishaps, excused>>
  BY DEF ReadVersion, file, counters
<1>3. /\ s \in Stores /\ db'[p] = s
      /\ s.files = files /\ s.todo = todo /\ s.pc = next
  BY <1>1, <1>2 DEF Stores, NexusInv, StartTyped
<1>4. gaps \subseteq gaps' /\ (todo # {} => missing \subseteq gaps')
  BY <1>2
<1>5. ASSUME NEW u \in 1 .. Latest, u <= current PROVE u \in versions \cup gaps
  <2>1. current \in versions
    BY <1>1, <1>5 DEF ReadVersion, IsVersion
  <2>2. CASE u = current
    BY <2>1, <2>2
  <2>3. CASE u # current
    BY <1>1, <1>5, <2>1, <2>3 DEF NexusInv, Rows
  <2> QED
    BY <2>2, <2>3
<1>6. files \subseteq todo \cup versions \cup gaps'
  <2>1. ASSUME NEW u \in files, u \notin todo PROVE u \in versions \cup gaps
    BY <1>1, <1>5, <2>1
  <2> QED
    BY <1>4, <2>1
<1>7. ASSUME NEW v \in todo, NEW u \in 1 .. (v - 1) PROVE u \in todo \cup versions \cup gaps'
  <2>1. v \in files /\ u \in 1 .. Latest /\ u < v
    BY <1>1
  <2>2. CASE u \in files
    BY <1>6, <2>2
  <2>3. CASE u \notin files
    BY <1>4, <2>1, <2>3
  <2> QED
    BY <2>2, <2>3
<1>8. StoreOK(db[p])'
  <2>1. versions' \subseteq tables'
    BY <1>2 DEF NexusInv, Rows
  <2>2. Climbing(db[p])'
    <3>1. versions' = versions /\ s.pc # "record"
      BY <1>2, <1>3
    <3>2. /\ \A v \in s.todo : \A u \in 1 .. (v - 1) : u \in s.todo \cup versions' \cup gaps'
          /\ s.files \subseteq s.todo \cup versions' \cup gaps'
      BY <1>3, <1>6, <1>7, <3>1
    <3> HIDE DEF s
    <3> QED
      BY <1>3, <3>1, <3>2 DEF Climbing
  <2>3. Complete(db[p])'
    <3>1. next = "salt" => files \subseteq versions' \cup gaps'
      BY <1>2, <1>6
    <3>2. next \in {"salt", "migrate"}
      OBVIOUS
    <3> HIDE DEF s, next, todo
    <3> QED
      BY <1>3, <2>1, <3>1, <3>2 DEF Complete
  <2> QED
    BY <1>3, <2>2, <2>3 DEF StoreOK, Salted
<1>9. Rows'
  BY <1>2, <1>4 DEF NexusInv, Rows
<1>10. NexusInv'
  <2>1. starts' \in Nat
    BY <1>2 DEF NexusInv, StartTyped
  <2> QED
    BY <1>2, <1>3, <1>4, <1>8, <1>9, <2>1, OwnStep
<1>11. Promised
  <2>1. CASE todo = {}
    BY <1>2, <2>1 DEF Promised
  <2>2. CASE todo # {}
    <3>1. missing \in SUBSET (1 .. Latest) /\ gaps' = gaps \cup missing
      BY <1>2, <2>2
    <3> QED
      BY <1>2, <3>1 DEF Promised, Promise!SchemaNext, Promise!Gap
  <2> QED
    BY <2>1, <2>2
<1> QED
  BY <1>10, <1>11

\* The tables of a migration that is not one transaction.
LEMMA TablesStep ==
    ASSUME NexusInv, NEW p \in Users, NEW v \in 1 .. Latest, AutoTables(p, v)
    PROVE  NexusInv' /\ Promised
<1> DEFINE s == [db[p] EXCEPT !.pc = "record"]
<1>1. /\ db[p].pc = "migrate" /\ Turn(p, v) /\ tables' = tables \cup {v}
      /\ db' = [db EXCEPT ![p] = s] /\ db[p] \in Stores /\ StoreOK(db[p])
      /\ UNCHANGED <<versions, gaps, salt, token, starts, mishaps, excused>>
  BY DEF AutoTables, Proceed, NexusInv, StartTyped, counters
<1>2. /\ s \in Stores /\ db'[p] = s /\ s.pc = "record"
      /\ s.todo = db[p].todo /\ s.files = db[p].files
  BY <1>1 DEF Stores, Steps, NexusInv, StartTyped
<1>3. \A w \in s.todo : (\A u \in s.todo : w <= u) => w \in tables'
  <2>1. ASSUME NEW w \in s.todo, \A u \in s.todo : w <= u PROVE w = v
    <3>1. w <= v /\ v <= w /\ w \in 1 .. Latest
      BY <1>1, <1>2, <2>1 DEF Turn, Stores
    <3> QED
      BY <3>1, NexusAssumption
  <2> QED
    BY <1>1, <2>1
<1>4. StoreOK(db[p])'
  <2>1. Climbing(db[p])'
    BY <1>1, <1>2, <1>3 DEF StoreOK, Climbing
  <2> QED
    BY <1>2, <2>1 DEF StoreOK, Complete, Salted
<1>5. Promised
  BY <1>1, TurnReached DEF Promised, Promise!SchemaNext, Promise!Prepare
<1>6. Rows' /\ starts' \in Nat
  BY <1>1 DEF NexusInv, Rows, StartTyped
<1> QED
  BY <1>1, <1>2, <1>4, <1>5, <1>6, OwnStep

\* Every step preserves the invariant and is a step of the one migrator.
LEMMA NexusStep ==
    ASSUME NexusInv, [NexusNext]_nexusVars
    PROVE  NexusInv' /\ Promised
<1> USE DEF file, counters
<1>a. /\ db \in [Users -> Stores] /\ \A p \in Users : StoreOK(db[p])
      /\ starts \in Nat /\ mishaps \in Nat /\ excused \in BOOLEAN
  BY DEF NexusInv, StartTyped
<1>b. NoStore \in Stores
  BY DEF NoStore, Stores, Steps
<1>c. ASSUME NEW p \in Users, NEW step \in Steps, step \in {"off", "version", "recover", "down"},
             Proceed(p, step), starts' \in Nat,
             UNCHANGED <<tables, versions, gaps, salt, token, mishaps, excused>>
      PROVE  NexusInv' /\ Promised
  <2> DEFINE s == [db[p] EXCEPT !.pc = step]
  <2>1. s \in Stores /\ s.pc = step /\ db' = [db EXCEPT ![p] = s]
    BY <1>a, <1>c DEF Stores, Proceed
  <2>2. StoreOK(s)
    BY <1>c, <2>1 DEF StoreOK, Climbing, Complete, Salted
  <2> QED
    BY <1>c, <2>1, <2>2, QuietStep
<1>1. ASSUME NEW p \in Users, Open(p) PROVE NexusInv' /\ Promised
  <2>1. "version" \in Steps /\ starts' \in Nat
    BY <1>1, <1>a DEF Open, Steps
  <2> QED
    BY <1>1, <1>c, <2>1 DEF Open
<1>2. ASSUME NEW p \in Users, NEW files \in Directories, NEW current \in 0 .. Latest,
             ReadVersion(p, files, current)
      PROVE  NexusInv' /\ Promised
  BY <1>2, ReadStep
<1>3. ASSUME NEW p \in Users, NEW v \in 1 .. Latest, BeginMigration(p, v)
      PROVE  NexusInv' /\ Promised
  <2> DEFINE s == [db[p] EXCEPT !.pc = "commit"]
  <2>1. /\ s \in Stores /\ s.pc = "commit" /\ s.todo = db[p].todo /\ s.files = db[p].files
        /\ db' = [db EXCEPT ![p] = s] /\ starts' \in Nat
    BY <1>a, <1>3 DEF Stores, Steps, BeginMigration, Proceed
  <2>2. StoreOK(s)
    BY <1>a, <1>3, <2>1 DEF BeginMigration, StoreOK, Climbing, Complete, Salted
  <2> QED
    BY <1>3, <2>1, <2>2, QuietStep DEF BeginMigration
<1>4. ASSUME NEW p \in Users, NEW v \in 1 .. Latest, CommitMigration(p, v)
      PROVE  NexusInv' /\ Promised
  BY <1>4, RecordStep DEF CommitMigration
<1>5. ASSUME NEW p \in Users, NEW v \in 1 .. Latest, AutoTables(p, v)
      PROVE  NexusInv' /\ Promised
  BY <1>5, TablesStep
<1>6. ASSUME NEW p \in Users, NEW v \in 1 .. Latest, AutoRecord(p, v)
      PROVE  NexusInv' /\ Promised
  <2>1. tables' = tables \cup {v}
    BY <1>6, <1>a DEF AutoRecord, StoreOK, Climbing, Turn
  <2> QED
    BY <1>6, <2>1, RecordStep DEF AutoRecord
<1>7. ASSUME NEW p \in Users, NEW v \in 1 .. Latest, MigrationFails(p, v)
      PROVE  NexusInv' /\ Promised
  <2>1. PICK step \in {"recover", "down"} : Proceed(p, step)
    BY <1>7 DEF MigrationFails
  <2> QED
    BY <1>7, <1>a, <1>c, <2>1 DEF MigrationFails, Steps
<1>8. ASSUME NEW p \in Users, ReadSalt(p) PROVE NexusInv' /\ Promised
  <2> DEFINE found == IF CanRead /\ Latest \in tables THEN salt ELSE 0
             s == [db[p] EXCEPT !.salt = found, !.pc = IF found # 0 THEN "up" ELSE "draw"]
  <2>1. found \in Nat
    BY DEF NexusInv, StartTyped
  <2>2. /\ s \in Stores /\ s.files = db[p].files /\ s.salt = found
        /\ s.pc = IF found # 0 THEN "up" ELSE "draw"
    BY <1>a, <2>1 DEF Stores, Steps
  <2>3. StoreOK(s)
    BY <1>a, <1>8, <2>2 DEF ReadSalt, StoreOK, Climbing, Complete, Salted
  <2>4. db' = [db EXCEPT ![p] = s] /\ starts' \in Nat
    BY <1>8, <1>a DEF ReadSalt
  <2> QED
    BY <1>8, <2>2, <2>3, <2>4, QuietStep DEF ReadSalt
<1>9. ASSUME NEW p \in Users, InsertSalt(p) PROVE NexusInv' /\ Promised
  <2> DEFINE s == [db[p] EXCEPT !.salt = starts', !.pc = "up"]
  <2>0. starts' \in Nat \ {0}
    BY <1>9, <1>a DEF InsertSalt
  <2>1. /\ s \in Stores /\ db' = [db EXCEPT ![p] = s] /\ db'[p] = s
        /\ s.pc = "up" /\ s.salt = starts' /\ s.files = db[p].files
    BY <1>9, <1>a, <2>0 DEF InsertSalt, Stores, Steps
  <2>2. salt' \in Nat /\ excused' \in BOOLEAN
    BY <1>9, <2>0 DEF InsertSalt, NexusInv, StartTyped
  <2>3. StartTyped' /\ Rows'
    BY <1>9, <2>0, <2>1, <2>2 DEF InsertSalt, NexusInv, StartTyped, Rows
  <2>4. StoreOK(db[p])'
    <3>1. Complete(db[p])'
      BY <1>9, <1>a, <2>1 DEF InsertSalt, StoreOK, Complete
    <3>2. Salted(db[p])'
      BY <1>9, <2>0, <2>1 DEF InsertSalt, Salted
    <3> QED
      BY <2>1, <3>1, <3>2 DEF StoreOK, Climbing
  <2>5. ASSUME NEW q \in Users, q # p PROVE StoreOK(db[q])'
    <3>1. db'[q] = db[q] /\ StoreOK(db[q])
      BY <1>a, <2>1, <2>5
    <3>2. Salted(db[q])'
      BY <1>9, <3>1 DEF InsertSalt, StoreOK, Salted
    <3> QED
      BY <1>9, <3>1, <3>2 DEF InsertSalt, StoreOK, Climbing, Complete
  <2>6. TokenReadable'
    BY <1>9 DEF InsertSalt, NexusInv, TokenReadable
  <2> QED
    BY <1>9, <2>3, <2>4, <2>5, <2>6 DEF InsertSalt, NexusInv, Promised
<1>10. ASSUME NEW p \in Users, RemoveCorrupt(p) PROVE NexusInv' /\ Promised
  <2>1. \A q \in Users : db'[q] \in Stores /\ Resting(db'[q])
    <3>1. SUFFICES ASSUME NEW q \in Users PROVE db'[q] \in Stores /\ Resting(db'[q])
      OBVIOUS
    <3>2. \/ db'[q] = [NoStore EXCEPT !.pc = "version", !.again = TRUE]
          \/ db'[q] = db[q] /\ db[q].pc = "off"
          \/ db'[q] = [NoStore EXCEPT !.pc = "down"]
      BY <1>10 DEF RemoveCorrupt
    <3>3. /\ [NoStore EXCEPT !.pc = "version", !.again = TRUE] \in Stores
          /\ [NoStore EXCEPT !.pc = "down"] \in Stores
      BY DEF NoStore, Stores, Steps
    <3>4. db'[q] \in Stores
      BY <1>a, <3>2, <3>3
    <3>5. Resting(db'[q])
      BY <3>2 DEF Resting, NoStore
    <3> QED
      BY <3>4, <3>5
  <2>2. db' \in [Users -> Stores] /\ \A q \in Users : StoreOK(db[q])'
    BY <1>10, <2>1, Rest DEF RemoveCorrupt
  <2> QED
    BY <1>10, <1>a, <2>2, EmptyStep DEF RemoveCorrupt
<1>11. ASSUME NEW p \in Users, GiveUp(p) PROVE NexusInv' /\ Promised
  BY <1>11, <1>a, <1>c DEF GiveUp, Steps
<1>12. ASSUME NEW p \in Users, End(p) \/ StartKilled(p) PROVE NexusInv' /\ Promised
  <2>1. db' = [db EXCEPT ![p] = NoStore] /\ starts' \in Nat
    BY <1>12, <1>a DEF End, StartKilled
  <2>2. StoreOK(NoStore)
    BY DEF NoStore, StoreOK, Climbing, Complete, Salted
  <2> QED
    BY <1>12, <1>b, <2>1, <2>2, QuietStep DEF End, StartKilled
<1>14. ASSUME NEW p \in Users, SaveToken(p) \/ RewriteServer(p) PROVE NexusInv' /\ Promised
  <2>1. UNCHANGED <<tables, versions, gaps, salt, db, starts, mishaps, excused>>
    BY <1>14 DEF SaveToken, RewriteServer
  <2>2. token' \in Nat /\ TokenReadable'
    <3>1. db[p] \in Stores /\ Salted(db[p]) /\ db[p].pc = "up"
      BY <1>14, <1>a DEF SaveToken, RewriteServer, StoreOK
    <3> QED
      BY <1>14, <2>1, <3>1 DEF SaveToken, RewriteServer, encrypt_token, decrypt_token,
                               NexusInv, StartTyped, TokenReadable, Salted, Stores, Steps
  <2> QED
    BY <2>1, <2>2 DEF NexusInv, StartTyped, Rows, StoreOK, Climbing, Complete, Salted, Promised
<1>15. ASSUME NEW p \in Users, cmd_db_reset(p) PROVE NexusInv' /\ Promised
  <2>1. PICK step \in {"version", "down"} :
          db' = [db EXCEPT ![p] = [NoStore EXCEPT !.pc = step]]
    BY <1>15 DEF cmd_db_reset, reset_database
  <2>2. [NoStore EXCEPT !.pc = step] \in Stores
    BY DEF NoStore, Stores, Steps
  <2>3. mishaps' \in Nat \ {0} /\ excused' \in BOOLEAN
    BY <1>15, <1>a DEF cmd_db_reset, reset_database
  <2>4. ASSUME NEW q \in Users PROVE StoreOK(db[q])'
    <3>1. CASE q = p
      <4>1. Resting(db'[q])
        BY <1>a, <2>1, <3>1 DEF Resting, NoStore
      <4> QED
        BY <4>1, Rest
    <3>2. CASE q # p
      <4>1. db'[q] = db[q] /\ db[q].pc \in {"off", "up", "down"} /\ Salted(db[q])
        BY <1>15, <1>a, <2>1, <3>2 DEF cmd_db_reset, StoreOK
      <4>2. db[q].pc = "up" => excused'
        BY <1>15, <3>2 DEF cmd_db_reset, reset_database
      <4> QED
        BY <2>3, <4>1, <4>2 DEF StoreOK, Climbing, Complete, Salted
    <3> QED
      BY <3>1, <3>2
  <2>5. db' \in [Users -> Stores]
    BY <1>a, <2>1, <2>2
  <2> QED
    BY <1>15, <1>a, <2>3, <2>4, <2>5, EmptyStep DEF cmd_db_reset, reset_database
<1>16. CASE Corruption
  <2>1. mishaps' \in Nat \ {0} /\ UNCHANGED <<file, gaps, db, starts, excused>>
    BY <1>16, <1>a DEF Corruption
  <2> QED
    BY <2>1 DEF NexusInv, StartTyped, TokenReadable, Rows, StoreOK, Climbing, Complete, Salted, Promised
<1>17. CASE UNCHANGED nexusVars
  BY <1>17 DEF nexusVars, NexusInv, StartTyped, TokenReadable, Rows, StoreOK, Climbing, Complete, Salted, Promised
<1> QED
  BY <1>1, <1>2, <1>3, <1>4, <1>5, <1>6, <1>7, <1>8, <1>9, <1>10, <1>11, <1>12,
     <1>14, <1>15, <1>16, <1>17 DEF NexusNext

LEMMA NexusStart == NexusInit => NexusInv
<1> SUFFICES ASSUME NexusInit PROVE NexusInv
  OBVIOUS
<1>1. NoStore \in Stores /\ StoreOK(NoStore)
  BY DEF NoStore, Stores, Steps, StoreOK, Climbing, Complete, Salted
<1> QED
  BY <1>1 DEF NexusInit, NexusInv, StartTyped, Rows, TokenReadable

LEMMA NexusAlways == NexusSpec => []NexusInv
<1>1. NexusInv /\ [NexusNext]_nexusVars => NexusInv'
  BY NexusStep
<1> QED
  BY <1>1, NexusStart, PTL DEF NexusSpec

\* Refinement: whatever processes start, die, recover and reset the database at
\* once, from whatever directories, and with whatever versions they read before
\* the others committed, the file changes as under one migrator.  It goes up in
\* order, and leaves out only what a process that migrated did not find.
THEOREM ConcurrentMigrationsRefine == NexusSpec => MigratesInOrder
<1>1. NexusInit => Promise!SchemaInit
  BY DEF NexusInit, Promise!SchemaInit
<1>2. NexusInv /\ [NexusNext]_nexusVars => [Promise!SchemaNext]_<<tables, versions, gaps>>
  BY NexusStep DEF Promised
<1> QED
  BY <1>1, <1>2, NexusAlways, PTL DEF NexusSpec, MigratesInOrder, Promise!SchemaSpec

\* A process past Store::initialize has the tables of every migration it found,
\* but for gaps, unless the database was reset under it.
THEOREM UpStoresAreMigrated == NexusSpec => []UpMeansMigrated
<1>1. NexusInv => UpMeansMigrated
  BY DEF NexusInv, StoreOK, Complete, UpMeansMigrated
<1> QED
  BY <1>1, NexusAlways, PTL

\* The stored token is encrypted under the stored salt, unless some process was
\* let go on with a salt of its own.
THEOREM TokensStayReadable == NexusSpec => []TokenReadable
<1>1. NexusInv => TokenReadable
  BY DEF NexusInv
<1> QED
  BY <1>1, NexusAlways, PTL

----------------------------------------------------------------------------
(***************************************************************************)
(* The nazg link and the versions it may name, for any set of versions and *)
(* any values of --keep.  The invariant follows the version that a running *)
(* command is about to activate: its binary is there, or its staging was   *)
(* cut short before; a directory without a binary is one or the other.     *)
(***************************************************************************)

Contents == {"none", "empty", "binary", "full"}

UpdateSteps == {"idle", "build", "mkdir", "copy", "migrations", "unlink", "symlink", "list", "prune"}

Staged == {v \in Versions : dirs[v] # "none"}

UpdaterTyped ==
    /\ dirs \in [Versions -> Contents]
    /\ link \in Versions \cup {NoVersion}
    /\ updating \in [pc : UpdateSteps, v : Versions \cup {NoVersion}, keep : Int,
                     dry : BOOLEAN, doomed : SUBSET Versions]
    /\ updating.pc # "idle" => updating.v \in Versions
    /\ updating.pc = "list" => updating.keep >= 0
    /\ IsFiniteSet(Staged)

\* A directory is without a binary while it is staged, or since that was cut short.
EmptyWhenHurt ==
    \A v \in Versions :
        dirs[v] = "empty" => v \in hurt \/ (updating.v = v /\ updating.pc = "copy")

\* What the command that runs is about to activate.
AboutToActivate ==
    /\ updating.pc = "migrations" => HasBinary(updating.v)
    /\ updating.pc \in {"unlink", "symlink"} => HasBinary(updating.v) \/ updating.v \in hurt

UpdaterInv == UpdaterTyped /\ EmptyWhenHurt /\ AboutToActivate /\ DanglesOnlyWhenHurt

\* However the file system lists the directories, the list is of directories.
LEMMA OrdersListed ==
    ASSUME UpdaterTyped, NEW order \in Orders
    PROVE  /\ Len(order) \in Nat /\ Cardinality(Listed) = Len(order)
           /\ \A i \in 1 .. Len(order) : order[i] \in Listed
<1>1. IsFiniteSet(Listed)
  <2>1. Listed \in SUBSET Staged
    BY UpdaterAssumption DEF Listed, Staged
  <2> QED
    BY <2>1, FS_Subset DEF UpdaterTyped
<1>2. Cardinality(Listed) \in Nat
  BY <1>1, FS_CardinalityType
<1>3. order \in [1 .. Cardinality(Listed) -> Listed]
  BY DEF Orders, SetToSeqs
<1>4. order \in Seq(Listed)
  BY <1>2, <1>3, SeqDef
<1>5. Len(order) \in Nat /\ DOMAIN order = 1 .. Len(order)
  BY <1>4, LenProperties
<1>6. Len(order) = Cardinality(Listed)
  BY <1>2, <1>3, <1>5
<1> QED
  BY <1>3, <1>5, <1>6

\* A command that ends leaves the invariant as it is, if it was not staging.
LEMMA Idle ==
    ASSUME UpdaterInv, UNCHANGED <<dirs, link>>, updating' = NoUpdate,
           hurt \subseteq hurt',
           updating.pc \in {"mkdir", "copy"} => updating.v \in hurt'
    PROVE  UpdaterInv'
<1>1. UpdaterTyped'
  <2>1. NoUpdate \in [pc : UpdateSteps, v : Versions \cup {NoVersion}, keep : Int,
                      dry : BOOLEAN, doomed : SUBSET Versions]
    BY DEF NoUpdate, UpdateSteps
  <2>2. NoUpdate.pc = "idle"
    BY DEF NoUpdate
  <2> QED
    BY <2>1, <2>2 DEF UpdaterInv, UpdaterTyped, Staged
<1>2. updating'.pc = "idle"
  BY DEF NoUpdate
<1> QED
  BY <1>1, <1>2 DEF UpdaterInv, EmptyWhenHurt, AboutToActivate, DanglesOnlyWhenHurt, Dangling, HasBinary

\* A rollback starts with a listed version.
LEMMA RollingBack ==
    ASSUME UpdaterInv, updating.pc = "idle", NEW v \in Listed, RollbackTo(v)
    PROVE  UpdaterInv'
<1>1. v \in Versions /\ dirs[v] # "none"
  BY DEF Listed
<1>2. /\ updating' = [pc |-> "unlink", v |-> v, keep |-> -1, dry |-> FALSE, doomed |-> {}]
      /\ UNCHANGED <<dirs, link, hurt>>
  BY DEF RollbackTo, NoUpdate
<1>3. UpdaterTyped'
  BY <1>1, <1>2 DEF UpdaterInv, UpdaterTyped, UpdateSteps, Staged
<1>4. HasBinary(v) \/ v \in hurt
  BY <1>1 DEF UpdaterInv, UpdaterTyped, EmptyWhenHurt, Contents, HasBinary
<1> QED
  BY <1>2, <1>3, <1>4 DEF UpdaterInv, EmptyWhenHurt, AboutToActivate, DanglesOnlyWhenHurt, Dangling, HasBinary

\* Changing one directory keeps the number of directories finite.
LEMMA OneDirectory ==
    ASSUME UpdaterTyped, NEW v \in Versions, NEW c \in Contents, dirs' = [dirs EXCEPT ![v] = c]
    PROVE  dirs' \in [Versions -> Contents] /\ IsFiniteSet(Staged')
<1>1. Staged' \in SUBSET (Staged \cup {v})
  BY DEF Staged, UpdaterTyped
<1>2. IsFiniteSet(Staged \cup {v})
  BY FS_AddElement DEF UpdaterTyped
<1> QED
  BY <1>1, <1>2, FS_Subset DEF UpdaterTyped

LEMMA UpdaterStep ==
    ASSUME UpdaterInv, [UpdaterNext]_updaterVars
    PROVE  UpdaterInv'
<1> USE DEF UpdaterInv
<1>1. ASSUME NEW v \in Versions, NEW keep \in Keeps, NEW dry \in BOOLEAN, StartUpdate(v, keep, dry)
      PROVE  UpdaterInv'
  <2>1. UpdaterTyped'
    BY <1>1, UpdaterAssumption DEF StartUpdate, UpdaterTyped, UpdateSteps, Staged
  <2> QED
    BY <1>1, <2>1 DEF StartUpdate, EmptyWhenHurt, AboutToActivate, DanglesOnlyWhenHurt, Dangling, HasBinary
<1>2. CASE BuildFails
  BY <1>2, Idle DEF BuildFails
<1>3. CASE StageFails
  BY <1>3, Idle DEF StageFails
<1>4. CASE UpdateDone
  BY <1>4, Idle DEF UpdateDone
<1>5. CASE UpdaterCrash
  BY <1>5, Idle DEF UpdaterCrash
<1>6. CASE ClearStage
  <2> DEFINE v == updating.v
  <2>1. v \in Versions /\ dirs' = [dirs EXCEPT ![v] = "none"] /\ "none" \in Contents
    BY <1>6 DEF ClearStage, UpdaterTyped, Contents
  <2>2. /\ updating'.pc = "mkdir" /\ updating'.v = v /\ UNCHANGED <<link, hurt>>
        /\ updating' = [updating EXCEPT !.pc = "mkdir"]
    BY <1>6 DEF ClearStage, UpdaterTyped
  <2>3. UpdaterTyped'
    <3>1. dirs' \in [Versions -> Contents] /\ IsFiniteSet(Staged')
      BY <2>1, OneDirectory
    <3> QED
      BY <2>1, <2>2, <3>1 DEF UpdaterTyped, UpdateSteps
  <2>4. \A w \in Versions : w # v => dirs'[w] = dirs[w]
    BY <2>1 DEF UpdaterTyped
  <2>5. dirs'[v] = "none"
    BY <2>1 DEF UpdaterTyped
  <2>6. EmptyWhenHurt' /\ AboutToActivate'
    BY <1>6, <2>1, <2>2, <2>4, <2>5 DEF ClearStage, EmptyWhenHurt, AboutToActivate
  <2>7. DanglesOnlyWhenHurt'
    BY <1>6, <2>1, <2>2, <2>4, <2>5 DEF ClearStage, DanglesOnlyWhenHurt, Dangling, HasBinary, UpdaterTyped
  <2> QED
    BY <2>3, <2>6, <2>7
<1>7. CASE MakeStageDir
  <2> DEFINE v == updating.v
  <2>1. v \in Versions /\ dirs' = [dirs EXCEPT ![v] = "empty"] /\ "empty" \in Contents
    BY <1>7 DEF MakeStageDir, UpdaterTyped, Contents
  <2>2. /\ updating'.pc = "copy" /\ updating'.v = v /\ UNCHANGED <<link, hurt>>
        /\ updating' = [updating EXCEPT !.pc = "copy"]
    BY <1>7 DEF MakeStageDir, UpdaterTyped
  <2>3. UpdaterTyped'
    <3>1. dirs' \in [Versions -> Contents] /\ IsFiniteSet(Staged')
      BY <2>1, OneDirectory
    <3> QED
      BY <2>1, <2>2, <3>1 DEF UpdaterTyped, UpdateSteps
  <2>4. \A w \in Versions : w # v => dirs'[w] = dirs[w]
    BY <2>1 DEF UpdaterTyped
  <2>5. EmptyWhenHurt' /\ AboutToActivate'
    BY <1>7, <2>1, <2>2, <2>4 DEF MakeStageDir, EmptyWhenHurt, AboutToActivate
  <2>6. DanglesOnlyWhenHurt'
    BY <1>7, <2>1, <2>2, <2>4 DEF MakeStageDir, DanglesOnlyWhenHurt, Dangling, HasBinary, UpdaterTyped
  <2> QED
    BY <2>3, <2>5, <2>6
<1>8. CASE CopyBinary
  <2> DEFINE v == updating.v
  <2>1. v \in Versions /\ dirs' = [dirs EXCEPT ![v] = "binary"] /\ "binary" \in Contents
    BY <1>8 DEF CopyBinary, UpdaterTyped, Contents
  <2>2. /\ updating'.pc = "migrations" /\ updating'.v = v /\ UNCHANGED <<link, hurt>>
        /\ updating' = [updating EXCEPT !.pc = "migrations"]
    BY <1>8 DEF CopyBinary, UpdaterTyped
  <2>3. UpdaterTyped'
    <3>1. dirs' \in [Versions -> Contents] /\ IsFiniteSet(Staged')
      BY <2>1, OneDirectory
    <3> QED
      BY <2>1, <2>2, <3>1 DEF UpdaterTyped, UpdateSteps
  <2>4. dirs'[v] = "binary" /\ \A w \in Versions : w # v => dirs'[w] = dirs[w]
    BY <2>1 DEF UpdaterTyped
  <2>5. EmptyWhenHurt' /\ AboutToActivate'
    BY <1>8, <2>1, <2>2, <2>4 DEF CopyBinary, EmptyWhenHurt, AboutToActivate, HasBinary
  <2>6. DanglesOnlyWhenHurt'
    BY <1>8, <2>1, <2>2, <2>4 DEF CopyBinary, DanglesOnlyWhenHurt, Dangling, HasBinary, UpdaterTyped
  <2> QED
    BY <2>3, <2>5, <2>6
<1>9. ASSUME NEW all \in BOOLEAN, CopyMigrations(all) PROVE UpdaterInv'
  <2> DEFINE v == updating.v
  <2>1. PICK c \in {"binary", "full"} : dirs' = [dirs EXCEPT ![v] = c]
    BY <1>9 DEF CopyMigrations
  <2>2. v \in Versions /\ c \in Contents /\ UNCHANGED link /\ hurt' = hurt \ {v}
    BY <1>9 DEF CopyMigrations, UpdaterTyped, Contents
  <2>3. dirs' \in [Versions -> Contents] /\ IsFiniteSet(Staged')
    BY <2>1, <2>2, OneDirectory
  <2>4. dirs'[v] \in {"binary", "full"} /\ \A w \in Versions : w # v => dirs'[w] = dirs[w]
    BY <2>1, <2>2 DEF UpdaterTyped
  <2>5. \/ updating' = NoUpdate
        \/ updating' = [updating EXCEPT !.pc = "unlink"]
    BY <1>9 DEF CopyMigrations
  <2>6. UpdaterTyped'
    <3>1. CASE updating' = NoUpdate
      BY <2>2, <2>3, <3>1 DEF UpdaterTyped, UpdateSteps, NoUpdate
    <3>2. CASE updating' = [updating EXCEPT !.pc = "unlink"]
      BY <2>2, <2>3, <3>2 DEF UpdaterTyped, UpdateSteps
    <3> QED
      BY <2>5, <3>1, <3>2
  <2>7. updating'.pc \in {"idle", "unlink"} /\ (updating'.pc = "unlink" => updating'.v = v)
    BY <2>5 DEF UpdaterTyped, NoUpdate
  <2>8. EmptyWhenHurt'
    BY <1>9, <2>2, <2>4 DEF CopyMigrations, EmptyWhenHurt, HasBinary
  <2>9. AboutToActivate'
    BY <2>4, <2>7 DEF AboutToActivate, HasBinary
  <2>10. DanglesOnlyWhenHurt'
    BY <1>9, <2>2, <2>4 DEF CopyMigrations, DanglesOnlyWhenHurt, Dangling, HasBinary, UpdaterTyped
  <2> QED
    BY <2>6, <2>8, <2>9, <2>10
<1>10. CASE Unlink
  <2>1. /\ updating' = [updating EXCEPT !.pc = "symlink"] /\ UNCHANGED <<dirs, hurt>>
        /\ updating.pc = "unlink" /\ link' \in {link, NoVersion}
    BY <1>10 DEF Unlink
  <2>2. updating'.pc = "symlink" /\ updating'.v = updating.v
    BY <2>1 DEF UpdaterTyped
  <2>3. UpdaterTyped'
    BY <2>1, <2>2 DEF UpdaterTyped, UpdateSteps, Staged
  <2> QED
    BY <2>1, <2>2, <2>3 DEF EmptyWhenHurt, AboutToActivate, DanglesOnlyWhenHurt, Dangling, HasBinary
<1>11. CASE Symlink
  <2>0. UNCHANGED <<dirs, hurt>> /\ updating.pc = "symlink"
    BY <1>11 DEF Symlink
  <2>1. CASE link # NoVersion
    BY <1>11, <2>1, Idle DEF Symlink
  <2>2. CASE link = NoVersion /\ updating.keep < 0
    <3>1. link' = updating.v /\ updating' = NoUpdate
      BY <1>11, <2>2 DEF Symlink
    <3>2. UpdaterTyped'
      BY <2>0, <3>1 DEF UpdaterTyped, UpdateSteps, NoUpdate, Staged
    <3>3. updating'.pc = "idle"
      BY <3>1 DEF NoUpdate
    <3> QED
      BY <2>0, <3>1, <3>2, <3>3 DEF EmptyWhenHurt, AboutToActivate, DanglesOnlyWhenHurt, Dangling, HasBinary
  <2>3. CASE link = NoVersion /\ ~(updating.keep < 0)
    <3>1. link' = updating.v /\ updating' = [updating EXCEPT !.pc = "list"]
      BY <1>11, <2>3 DEF Symlink
    <3>2. UpdaterTyped'
      BY <2>0, <2>3, <3>1 DEF UpdaterTyped, UpdateSteps, Staged
    <3>3. updating'.pc = "list" /\ updating'.v = updating.v
      BY <3>1 DEF UpdaterTyped
    <3> QED
      BY <2>0, <3>1, <3>2, <3>3 DEF EmptyWhenHurt, AboutToActivate, DanglesOnlyWhenHurt, Dangling, HasBinary
  <2> QED
    BY <2>1, <2>2, <2>3
<1>12. CASE prune_old
  <2>1. PICK order \in Orders :
          updating' = [updating EXCEPT !.pc = "prune",
                          !.doomed = {order[i] : i \in (updating.keep + 1)..Len(order)}]
    BY <1>12 DEF prune_old
  <2>2. {order[i] : i \in (updating.keep + 1)..Len(order)} \subseteq Versions
    <3>1. updating.keep \in Int /\ updating.keep >= 0
      BY <1>12 DEF prune_old, UpdaterTyped
    <3>2. Len(order) \in Nat /\ \A i \in 1 .. Len(order) : order[i] \in Listed
      BY OrdersListed
    <3>3. \A i \in (updating.keep + 1)..Len(order) : i \in 1 .. Len(order)
      BY <3>1, <3>2
    <3>4. Listed \subseteq Versions
      BY DEF Listed
    <3> QED
      BY <3>2, <3>3, <3>4
  <2>3. UNCHANGED <<dirs, link, hurt>> /\ updating.pc = "list"
    BY <1>12 DEF prune_old
  <2>4. UpdaterTyped'
    BY <2>1, <2>2, <2>3 DEF UpdaterTyped, UpdateSteps, Staged
  <2>5. updating'.pc = "prune" /\ updating'.v = updating.v
    BY <2>1 DEF UpdaterTyped
  <2> QED
    BY <2>3, <2>4, <2>5 DEF EmptyWhenHurt, AboutToActivate, DanglesOnlyWhenHurt, Dangling, HasBinary
<1>13. ASSUME NEW v \in Versions, PruneOne(v) PROVE UpdaterInv'
  <2>1. /\ dirs' = [dirs EXCEPT ![v] = "none"] /\ hurt' = hurt \cup {v} /\ UNCHANGED link
        /\ updating' = [updating EXCEPT !.doomed = @ \ {v}] /\ updating.pc = "prune"
        /\ "none" \in Contents
    BY <1>13 DEF PruneOne, Contents
  <2>2. dirs' \in [Versions -> Contents] /\ IsFiniteSet(Staged')
    BY <2>1, OneDirectory
  <2>3. UpdaterTyped'
    BY <2>1, <2>2 DEF UpdaterTyped
  <2>4. updating'.pc = "prune" /\ \A w \in Versions : w # v => dirs'[w] = dirs[w]
    BY <2>1 DEF UpdaterTyped
  <2> QED
    BY <2>1, <2>3, <2>4 DEF UpdaterTyped, EmptyWhenHurt, AboutToActivate, DanglesOnlyWhenHurt, Dangling, HasBinary
<1>14. ASSUME NEW v \in Versions, Rollback(v) PROVE UpdaterInv'
  BY <1>14, RollingBack DEF Rollback
<1>15. CASE RollbackPrevious
  <2>1. PICK order \in Orders : RollbackTo(IF order[1] = active_version THEN order[2] ELSE order[1])
    BY <1>15 DEF RollbackPrevious
  <2>2. Len(order) \in Nat /\ Len(order) >= 2
    BY <1>15, <2>1, OrdersListed DEF RollbackPrevious
  <2>3. order[1] \in Listed /\ order[2] \in Listed
    BY <2>1, <2>2, OrdersListed
  <2> QED
    BY <1>15, <2>1, <2>3, RollingBack DEF RollbackPrevious
<1>16. CASE UNCHANGED updaterVars
  BY <1>16 DEF updaterVars, UpdaterTyped, Staged, EmptyWhenHurt, AboutToActivate,
               DanglesOnlyWhenHurt, Dangling, HasBinary
<1> QED
  BY <1>1, <1>2, <1>3, <1>4, <1>5, <1>6, <1>7, <1>8, <1>9, <1>10, <1>11, <1>12, <1>13,
     <1>14, <1>15, <1>16 DEF UpdaterNext

LEMMA UpdaterStart == UpdaterInit => UpdaterInv
<1> SUFFICES ASSUME UpdaterInit PROVE UpdaterInv
  OBVIOUS
<1>1. Staged = {}
  BY DEF UpdaterInit, Staged
<1>2. UpdaterTyped
  BY <1>1, FS_EmptySet DEF UpdaterInit, UpdaterTyped, NoUpdate, UpdateSteps, Contents
<1> QED
  BY <1>2 DEF UpdaterInit, UpdaterInv, NoUpdate, EmptyWhenHurt, AboutToActivate, DanglesOnlyWhenHurt, Dangling

\* Only a staging that is under way or was cut short, or prune_old, leaves the
\* nazg command without a binary: for any versions, any --keep and any order of
\* updates, dry runs, rollbacks and kills.
THEOREM OnlyHurtVersionsDangle == UpdaterSpec => []DanglesOnlyWhenHurt
<1>1. UpdaterInv /\ [UpdaterNext]_updaterVars => UpdaterInv'
  BY UpdaterStep
<1>2. UpdaterInv => DanglesOnlyWhenHurt
  BY DEF UpdaterInv
<1> QED
  BY <1>1, <1>2, UpdaterStart, PTL DEF UpdaterSpec
=============================================================================
