---------------------------- MODULE DockerStacks ----------------------------
(***************************************************************************)
(* Stacks of compose files and the dependency graph of their services:     *)
(* docker_monitor/src/orchestrator.cpp, compose_parser.cpp and the `nazg   *)
(* docker stack` commands, over the tables of migration 011.  Processes    *)
(* interleave statement by statement; nothing is in a transaction.         *)
(***************************************************************************)
EXTENDS Integers, Sequences, FiniteSets, SequencesExt

CONSTANTS
    Creators,   \* nazg processes
    Machines,   \* rows of servers, by label
    Paths,      \* compose files that a scan of a server finds
    Services,   \* service names, a sequence in std::map (alphabetical) order
    PathLists,  \* -f arguments of a command: sequences of paths
    OnDisk,     \* [path -> Absent, or the services of a compose file]
    Absent,
    MaxStacks   \* rows ever inserted into docker_stacks

ASSUME DockerStacksAssumption ==
    /\ MaxStacks \in Nat
    /\ Paths \subseteq DOMAIN OnDisk
    /\ \A list \in PathLists : list \in Seq(DOMAIN OnDisk)
    /\ Absent \notin Machines \cup (Machines \X DOMAIN OnDisk)

VARIABLES
    known,     \* servers that exist
    files,     \* compose_files: pairs <<server, path>>, oldest first; Absent: deleted
    stacks,    \* [id]: docker_stacks row [server, entries, given]: entries are its rows
               \* of docker_stack_compose_files, given (history) the command's -f arguments
    stackIds,  \* sqlite_sequence of docker_stacks
    edges,     \* docker_service_dependencies: <<server, s, d>> -> type
    creator    \* [c]: a running `docker stack create`

stackVars == <<known, files, stacks, stackIds, edges, creator>>

StackIds == 1..MaxStacks
NoStack == [server |-> Absent, entries |-> {}, given |-> <<>>]
NoCreate == [pc |-> "idle", server |-> Absent, paths |-> <<>>, at |-> 0, stack |-> 0]

StacksInit ==
    /\ known = Machines
    /\ files = <<>>
    /\ stacks = [i \in StackIds |-> NoStack] /\ stackIds = 0
    /\ edges = <<>>
    /\ creator = [c \in Creators |-> NoCreate]

----------------------------------------------------------------------------
(* ComposeParser                                                            *)

\* a file is [s \in some services |-> [depends_on, items, network_mode, networks, volumes]]

\* only `- name` lines are read under depends_on: the form with conditions, and the
\* inline list, count for nothing; networks are read in both forms
parse_service(t) ==
    [depends_on |-> IF t.items THEN t.depends_on ELSE {},
     network_mode |-> t.network_mode,
     networks |-> t.networks,
     volumes |-> t.volumes]

\* never fails on a text it can read; unknown sections are skipped
parse(f) == [s \in DOMAIN f |-> parse_service(f[s])]

parse_file(p) == IF OnDisk[p] = Absent THEN Absent ELSE parse(OnDisk[p])

SharedNetwork(f, s, d) == d # s /\ f[s].networks \cap f[d].networks # {}
SharedVolume(f, s, d) == d # s /\ f[s].volumes \cap f[d].volumes # {}

\* the pairs of service s, in the order in which they are found
Detected(f, s) ==
    LET Triples(ds, type) == SetToSeq({<<s, d, type>> : d \in ds}) IN
    Triples(f[s].depends_on, "depends_on")
      \o Triples(f[s].network_mode, "network_mode")
      \o Triples({d \in DOMAIN f : SharedNetwork(f, s, d)}, "shared_network")
      \o Triples({d \in DOMAIN f : SharedVolume(f, s, d)}, "shared_volume")

extract_dependencies(f) ==
    FoldLeft(LAMBDA acc, s : IF s \in DOMAIN f THEN acc \o Detected(f, s) ELSE acc,
             <<>>, Services)

\* add_dependency for each of ts in turn: INSERT OR REPLACE, UNIQUE(server_id,
\* service_name, depends_on_service): the type found last stays
add_dependency(e, server, ts) ==
    LET Key(i) == <<server, ts[i][1], ts[i][2]>>
        Hits(k) == {i \in DOMAIN ts : Key(i) = k}
    IN  [k \in DOMAIN e \cup {Key(i) : i \in DOMAIN ts} |->
           IF Hits(k) = {} THEN e[k] ELSE ts[Max(Hits(k))][3]]

\* parse_compose_dependencies stores what one file says
parse_compose_dependencies(e, server, f) == add_dependency(e, server, extract_dependencies(f))

----------------------------------------------------------------------------
(* nazg docker stack create                                                 *)

\* the arguments are complete and the server is there; otherwise an error return
cmd_docker_stack_create(c, server, paths) ==
    /\ creator[c].pc = "idle"
    /\ server \in known
    /\ creator' = [creator EXCEPT ![c] = [NoCreate EXCEPT !.pc = "create", !.server = server,
                                            !.paths = paths]]
    /\ UNCHANGED <<known, files, stacks, stackIds, edges>>

\* create_stack: INSERT, refused by UNIQUE(server_id, name) or by the foreign key;
\* create_stack_from_compose then returns 0, which the command prints as the new id
create_stack(c) ==
    LET r == creator[c]  ok == r.server \in known /\ stackIds < MaxStacks IN
    /\ r.pc = "create"
    /\ \/ /\ ok
          /\ stackIds' = stackIds + 1
          /\ stacks' = [stacks EXCEPT ![stackIds'] = [NoStack EXCEPT !.server = r.server, !.given = r.paths]]
          /\ creator' = [creator EXCEPT ![c] = [r EXCEPT !.pc = "parse", !.stack = stackIds',
                                                  !.at = 1]]
       \/ /\ creator' = [creator EXCEPT ![c] = NoCreate]
          /\ UNCHANGED <<stacks, stackIds>>
    /\ UNCHANGED <<known, files, edges>>

ThisPath(c) == creator[c].paths[creator[c].at]

RowsOf(path) == {i \in DOMAIN files : files[i] # Absent /\ files[i][2] = path}

\* parse_file fails for a file that cannot be read; it is left out of the stack
SkipFile(c) ==
    /\ creator[c].pc = "parse"
    /\ creator[c].at <= Len(creator[c].paths)
    /\ parse_file(ThisPath(c)) = Absent
    /\ creator' = [creator EXCEPT ![c].at = @ + 1]
    /\ UNCHANGED <<known, files, stacks, stackIds, edges>>

\* the dependencies of one file; every INSERT is refused once the server is gone
StoreDependencies(c) ==
    /\ creator[c].pc = "parse"
    /\ creator[c].at <= Len(creator[c].paths)
    /\ parse_file(ThisPath(c)) # Absent
    /\ edges' = IF creator[c].server \in known
                THEN parse_compose_dependencies(edges, creator[c].server, parse_file(ThisPath(c)))
                ELSE edges
    /\ creator' = [creator EXCEPT ![c].pc = "file"]
    /\ UNCHANGED <<known, files, stacks, stackIds>>

\* SELECT id FROM compose_files WHERE server_id = ? AND file_path = ?, or
\* upsert_compose_file; id 0 goes on with the next file
StoreFile(c) ==
    LET row == <<creator[c].server, ThisPath(c)>> IN
    /\ creator[c].pc = "file"
    /\ files' = IF row \in Range(files) \/ creator[c].server \notin known THEN files
                ELSE Append(files, row)
    /\ creator' = [creator EXCEPT ![c] =
                     IF row \in Range(files') THEN [creator[c] EXCEPT !.pc = "add"]
                     ELSE [creator[c] EXCEPT !.pc = "parse", !.at = creator[c].at + 1]]
    /\ UNCHANGED <<known, stacks, stackIds, edges>>

\* mutant: the loop counter is not passed on, every entry has execution_order 1
AddUnordered(c) ==
    LET path == ThisPath(c)
        hits == RowsOf(path)
        ok == hits # {} /\ stacks[creator[c].stack].server # Absent
    IN
    /\ creator[c].pc = "add"
    /\ stacks' = IF ~ok THEN stacks
                 ELSE [stacks EXCEPT ![creator[c].stack].entries =
                         {e \in @ : e.file # files[Min(hits)]} \cup {[file |-> files[Min(hits)], at |-> 1]}]
    /\ creator' = [creator EXCEPT ![c].pc = "parse", ![c].at = @ + 1]
    /\ UNCHANGED <<known, files, stackIds, edges>>

\* mutant: the entry is inserted without looking at its stack
AddUnchecked(c) ==
    LET path == ThisPath(c)  hits == RowsOf(path) IN
    /\ creator[c].pc = "add"
    /\ stacks' = IF hits = {} THEN stacks
                 ELSE [stacks EXCEPT ![creator[c].stack].entries =
                         {e \in @ : e.file # files[Min(hits)]} \cup {[file |-> files[Min(hits)], at |-> creator[c].at]}]
    /\ creator' = [creator EXCEPT ![c].pc = "parse", ![c].at = @ + 1]
    /\ UNCHANGED <<known, files, stackIds, edges>>

\* add_compose_to_stack: SELECT id FROM compose_files WHERE file_path = ? (no server:
\* the oldest row wins), then INSERT OR REPLACE under both foreign keys
add_compose_to_stack(c) ==
    LET path == ThisPath(c)
        hits == RowsOf(path)
        ok == hits # {} /\ stacks[creator[c].stack].server # Absent
    IN
    /\ creator[c].pc = "add"
    /\ stacks' = IF ~ok THEN stacks
                 ELSE [stacks EXCEPT ![creator[c].stack].entries =
                         {e \in @ : e.file # files[Min(hits)]} \cup {[file |-> files[Min(hits)], at |-> creator[c].at]}]
    /\ creator' = [creator EXCEPT ![c].pc = "parse", ![c].at = @ + 1]
    /\ UNCHANGED <<known, files, stackIds, edges>>

\* "Stack created successfully"; or the process was killed before that
StackCreated(c) ==
    /\ creator[c].pc \in {"parse", "file", "add"}
    /\ creator' = [creator EXCEPT ![c] = NoCreate]
    /\ UNCHANGED <<known, files, stacks, stackIds, edges>>

----------------------------------------------------------------------------
(* The other operations                                                     *)

\* get_stack and list_stacks: the lists of a stack's files that ORDER BY execution_order
\* may give
get_stack(id) ==
    {list \in SetToSeqs(stacks[id].entries) : \A j, k \in DOMAIN list : j < k => list[j].at <= list[k].at}

\* DELETE FROM docker_stacks: the entries cascade, the dependencies stay
delete_stack(id) ==
    /\ stacks[id].server # Absent
    /\ stacks' = [stacks EXCEPT ![id] = NoStack]
    /\ UNCHANGED <<known, files, stackIds, edges, creator>>

\* everything with this server_id cascades; so do entries whose compose file goes
RemoveServer(server) ==
    /\ server \in known
    /\ known' = known \ {server}
    /\ files' = [i \in DOMAIN files |-> IF files[i] # Absent /\ files[i][1] = server THEN Absent ELSE files[i]]
    /\ stacks' = [i \in StackIds |->
                    IF stacks[i].server = server THEN NoStack
                    ELSE [stacks[i] EXCEPT !.entries = {e \in @ : e.file[1] # server}]]
    /\ edges' = [k \in {k \in DOMAIN edges : k[1] # server} |-> edges[k]]
    /\ UNCHANGED <<stackIds, creator>>

\* a scan of the server finds a compose file (parse_and_store_scan)
ImportFile(server, path) ==
    /\ server \in known
    /\ <<server, path>> \notin Range(files)
    /\ files' = Append(files, <<server, path>>)
    /\ UNCHANGED <<known, stacks, stackIds, edges, creator>>

StacksNext ==
    \/ \E c \in Creators :
          \/ \E server \in Machines, paths \in PathLists :
                cmd_docker_stack_create(c, server, paths)
          \/ create_stack(c) \/ SkipFile(c) \/ StoreDependencies(c) \/ StoreFile(c)
          \/ add_compose_to_stack(c) \/ StackCreated(c)
    \/ \E id \in StackIds : delete_stack(id)
    \/ \E server \in Machines :
          \/ RemoveServer(server)
          \/ \E path \in Paths : ImportFile(server, path)

StacksSpec == StacksInit /\ [][StacksNext]_stackVars

----------------------------------------------------------------------------

(* No stack, entry, compose file or dependency outlives what it belongs to,  *)
(* however a `docker stack create` interleaves with the removal of its       *)
(* server or stack (the foreign keys of migration 011).                     *)
NoOrphans ==
    /\ \A i \in StackIds :
          /\ stacks[i].server \in known \cup {Absent}
          /\ \A e \in stacks[i].entries : e.file \in Range(files) \ {Absent} /\ stacks[i].server # Absent
    /\ \A r \in Range(files) \ {Absent} : r[1] \in known
    /\ \A k \in DOMAIN edges : k[1] \in known

(* `docker stack show` lists the files of a stack in the order of the        *)
(* command that created it, whatever was skipped, removed or killed          *)
(* meanwhile (execution_order is the position of the argument).             *)
FilesAsGiven ==
    \A i \in StackIds : \A shown \in get_stack(i) :
        \E position \in [DOMAIN shown -> DOMAIN stacks[i].given] :
            /\ \A j, k \in DOMAIN shown : j < k => position[j] < position[k]
            /\ \A j \in DOMAIN shown : stacks[i].given[position[j]] = shown[j].file[2]
=============================================================================
