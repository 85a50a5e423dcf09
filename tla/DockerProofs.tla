---------------------------- MODULE DockerProofs ----------------------------
(***************************************************************************)
(* What the Docker side of nazg stores and works out, for any number of    *)
(* machines, objects, processes and services: the control center's         *)
(* inventory (DockerInventory), stacks (DockerStacks) and order of starting *)
(* services (StartOrder), and the agent's cache (DockerCache).             *)
(***************************************************************************)
EXTENDS DockerInventory, DockerCache, DockerStacks, StartOrder, OrdersProofs

----------------------------------------------------------------------------
(* The inventory of servers                                                 *)

ClientSteps == {"idle", "scan", "register", "store", "done"}
ServerStates == {"unknown", "online", "offline"}

ServersTyped ==
    /\ servers \in [Ids -> [host : Hosts, status : ServerStates] \cup {Unset}]
    /\ lastId \in 0..MaxIds

ClientsTyped ==
    client \in [Clients -> [pc : ClientSteps, id : Ids \cup {0}, host : Hosts \cup {Unset},
                            todo : SUBSET Things]]

HistoryOf == rows \subseteq Ids \X Things \X Hosts /\ named \subseteq Ids \X Hosts

\* the host of a row, and the host a process has read, are ones the row has had
RowsNamed == \A id \in Ids : servers[id] # Unset => <<id, servers[id].host>> \in named

ReadersNamed ==
    \A c \in Clients : client[c].pc # "idle" => <<client[c].id, client[c].host>> \in named

\* an id that AUTOINCREMENT has not given out has no history
IdsAhead == \A n \in named : n[1] <= lastId

InventoryInv ==
    /\ ServersTyped /\ ClientsTyped /\ HistoryOf
    /\ RowsNamed /\ ReadersNamed /\ IdsAhead /\ RowsAreTheServersOwn

LEMMA InventoryStart == InventoryInit => InventoryInv
  BY DockerInventoryAssumption
     DEF InventoryInit, InventoryInv, ServersTyped, ClientsTyped, HistoryOf, RowsNamed, ReadersNamed,
         IdsAhead, RowsAreTheServersOwn, NoRequest, ClientSteps, ServerStates, Ids

\* an UPDATE of a status touches neither which rows there are nor their hosts
LEMMA StatusOnly ==
  ASSUME NEW id, NEW s \in ServerStates, InventoryInv, servers' = WithStatus(id, s),
         UNCHANGED <<lastId, rows, named>>
  PROVE  ServersTyped' /\ HistoryOf' /\ RowsNamed' /\ IdsAhead' /\ RowsAreTheServersOwn'
<1>1. CASE id \notin Rows
  BY <1>1 DEF WithStatus, InventoryInv, ServersTyped, HistoryOf, RowsNamed, IdsAhead, RowsAreTheServersOwn
<1>2. CASE id \in Rows
  <2>1. id \in Ids /\ servers[id] # Unset
    BY <1>2 DEF Rows
  <2>2. servers' = [servers EXCEPT ![id] = [servers[id] EXCEPT !.status = s]]
    BY <1>2 DEF WithStatus
  <2>3. servers[id] \in [host : Hosts, status : ServerStates]
    BY <2>1 DEF InventoryInv, ServersTyped
  <2>4. [servers[id] EXCEPT !.status = s] \in [host : Hosts, status : ServerStates]
        /\ [servers[id] EXCEPT !.status = s].host = servers[id].host
    BY <2>3
  <2> DEFINE row == [servers[id] EXCEPT !.status = s]
  <2> HIDE DEF row
  <2>5. servers' = [servers EXCEPT ![id] = row] /\ row \in [host : Hosts, status : ServerStates]
        /\ row.host = servers[id].host
    BY <2>2, <2>4 DEF row
  <2>6. ServersTyped'
    BY <2>5, <2>1 DEF InventoryInv, ServersTyped
  <2>7. RowsNamed'
    BY <2>5, <2>1 DEF InventoryInv, ServersTyped, RowsNamed
  <2> QED BY <2>6, <2>7 DEF InventoryInv, HistoryOf, IdsAhead, RowsAreTheServersOwn
<1> QED BY <1>1, <1>2

\* forgetting the request keeps what is known of the processes
LEMMA Forget ==
  ASSUME NEW c \in Clients, InventoryInv, client' = [client EXCEPT ![c] = NoRequest], UNCHANGED named
  PROVE  ClientsTyped' /\ ReadersNamed'
<1>1. NoRequest \in [pc : ClientSteps, id : Ids \cup {0}, host : Hosts \cup {Unset}, todo : SUBSET Things]
      /\ NoRequest.pc = "idle"
  BY DEF NoRequest, ClientSteps
<1> QED BY <1>1 DEF InventoryInv, ClientsTyped, ReadersNamed

LEMMA InventoryStep == InventoryInv /\ [InventoryNext]_inventoryVars => InventoryInv'
<1> SUFFICES ASSUME InventoryInv, [InventoryNext]_inventoryVars PROVE InventoryInv'
  OBVIOUS
<1> USE DockerInventoryAssumption
<1>1. CASE UNCHANGED inventoryVars
  BY <1>1 DEF inventoryVars, InventoryInv, ServersTyped, ClientsTyped, HistoryOf, RowsNamed, ReadersNamed,
              IdsAhead, RowsAreTheServersOwn
<1>2. ASSUME NEW h \in Hosts, add_server(h) PROVE InventoryInv'
  <2>1. lastId' \in Ids /\ lastId' = lastId + 1 /\ lastId' \in 0..MaxIds
    BY <1>2 DEF add_server, InventoryInv, ServersTyped, Ids
  <2> DEFINE row == [host |-> h, status |-> "unknown"]
  <2>2. row \in [host : Hosts, status : ServerStates] /\ row.host = h
    BY DEF ServerStates
  <2> HIDE DEF row
  <2>3. servers' = [servers EXCEPT ![lastId'] = row] /\ named' = named \cup {<<lastId', h>>}
        /\ UNCHANGED <<rows, client>>
    BY <1>2 DEF add_server, row
  <2>4. ServersTyped' /\ RowsNamed'
    BY <2>1, <2>2, <2>3 DEF InventoryInv, ServersTyped, RowsNamed
  <2>5. HistoryOf' /\ ClientsTyped' /\ ReadersNamed' /\ RowsAreTheServersOwn'
    BY <2>1, <2>3 DEF InventoryInv, HistoryOf, ClientsTyped, ReadersNamed, RowsAreTheServersOwn
  <2>6. \A n \in named : n[1] \in Int
    BY DEF InventoryInv, HistoryOf, Ids
  <2>7. IdsAhead'
    BY <2>1, <2>3, <2>6 DEF InventoryInv, ServersTyped, IdsAhead
  <2> QED BY <2>4, <2>5, <2>7 DEF InventoryInv
<1>3. ASSUME NEW id \in Ids, delete_server(id) PROVE InventoryInv'
  <2>1. ServersTyped' /\ RowsNamed'
    BY <1>3 DEF delete_server, InventoryInv, ServersTyped, RowsNamed
  <2> QED BY <1>3, <2>1 DEF delete_server, InventoryInv, HistoryOf, ClientsTyped, ReadersNamed, IdsAhead,
                            RowsAreTheServersOwn
<1>4. ASSUME NEW id \in Ids, NEW h \in Hosts, update_server_connection(id, h) PROVE InventoryInv'
  <2>1. servers[id] \in [host : Hosts, status : ServerStates] /\ servers[id] # Unset
    BY <1>4 DEF update_server_connection, Rows, InventoryInv, ServersTyped
  <2> DEFINE row == [servers[id] EXCEPT !.host = h]
  <2>2. row \in [host : Hosts, status : ServerStates] /\ row.host = h
    BY <2>1
  <2>3. servers' = [servers EXCEPT ![id] = row] /\ named' = named \cup {<<id, h>>}
        /\ UNCHANGED <<lastId, rows, client>>
    BY <1>4 DEF update_server_connection
  <2> HIDE DEF row
  <2>4. ServersTyped' /\ RowsNamed'
    BY <2>2, <2>3 DEF InventoryInv, ServersTyped, RowsNamed
  <2>5. <<id, servers[id].host>> \in named
    BY <2>1 DEF InventoryInv, RowsNamed
  <2>6. IdsAhead'
    BY <2>3, <2>5 DEF InventoryInv, IdsAhead
  <2> QED BY <2>3, <2>4, <2>6 DEF InventoryInv, HistoryOf, ClientsTyped, ReadersNamed, RowsAreTheServersOwn
<1>5. ASSUME NEW c \in Clients, NEW id \in Ids, NEW pc \in {"scan", "register"}, BeginRequest(c, id, pc)
      PROVE  InventoryInv'
  <2>1. servers[id] \in [host : Hosts, status : ServerStates] /\ servers[id] # Unset
    BY <1>5 DEF BeginRequest, Rows, InventoryInv, ServersTyped
  <2> DEFINE req == [NoRequest EXCEPT !.pc = pc, !.id = id, !.host = servers[id].host]
  <2>2. req \in [pc : ClientSteps, id : Ids \cup {0}, host : Hosts \cup {Unset}, todo : SUBSET Things]
        /\ req.id = id /\ req.host = servers[id].host
    BY <2>1 DEF NoRequest, ClientSteps
  <2>3. client' = [client EXCEPT ![c] = req] /\ UNCHANGED <<servers, lastId, rows, named>>
    BY <1>5 DEF BeginRequest, get_server_by_id
  <2> HIDE DEF req
  <2>4. <<id, servers[id].host>> \in named
    BY <2>1 DEF InventoryInv, RowsNamed
  <2>5. ClientsTyped' /\ ReadersNamed'
    BY <2>2, <2>3, <2>4 DEF InventoryInv, ClientsTyped, ReadersNamed
  <2> QED BY <2>3, <2>5 DEF InventoryInv, ServersTyped, HistoryOf, RowsNamed, IdsAhead, RowsAreTheServersOwn
<1>6. ASSUME NEW c \in Clients, RequestFails(c) \/ Registered(c) PROVE InventoryInv'
  <2>1. PICK s \in ServerStates : servers' = WithStatus(client[c].id, s)
    BY <1>6 DEF RequestFails, Registered, update_server_status, update_server_heartbeat, ServerStates
  <2>2. ServersTyped' /\ HistoryOf' /\ RowsNamed' /\ IdsAhead' /\ RowsAreTheServersOwn'
    BY <1>6, <2>1, StatusOnly DEF RequestFails, Registered
  <2> QED BY <1>6, <2>2, Forget DEF RequestFails, Registered, InventoryInv
<1>7. ASSUME NEW c \in Clients, ScanAnswered(c) PROVE InventoryInv'
  <2>2. PICK listed \in SUBSET Things :
            client' = [client EXCEPT ![c] = [client[c] EXCEPT !.pc = "store", !.todo = listed]]
    BY <1>7 DEF ScanAnswered
  <2>3. client[c].pc = "scan" /\ UNCHANGED named
    BY <1>7 DEF ScanAnswered
  <2>1. ClientsTyped' /\ ReadersNamed'
    BY <2>2, <2>3 DEF InventoryInv, ClientsTyped, ReadersNamed, ClientSteps
  <2> QED BY <1>7, <2>1 DEF ScanAnswered, InventoryInv, ServersTyped, HistoryOf, RowsNamed, IdsAhead,
                            RowsAreTheServersOwn
<1>8. ASSUME NEW c \in Clients, ScanStoredAll(c) PROVE InventoryInv'
  <2>1. ServersTyped' /\ HistoryOf' /\ RowsNamed' /\ IdsAhead' /\ RowsAreTheServersOwn'
    BY <1>8, StatusOnly DEF ScanStoredAll, update_server_status, ServerStates
  <2>2. ClientsTyped' /\ ReadersNamed'
    BY <1>8 DEF ScanStoredAll, InventoryInv, ClientsTyped, ReadersNamed, ClientSteps
  <2> QED BY <2>1, <2>2 DEF InventoryInv
<1>9. ASSUME NEW c \in Clients, NEW t \in Things, StoreThing(c, t) PROVE InventoryInv'
  <2> DEFINE r == client[c]
  <2>1. r.pc = "store" /\ UNCHANGED <<servers, lastId, named>>
        /\ client' = [client EXCEPT ![c].todo = r.todo \ {t}]
    BY <1>9 DEF StoreThing
  <2>2. rows' = rows \/ rows' = Upsert(r.id, t, r.host)
    BY <1>9 DEF StoreThing, upsert_container, upsert_docker_image, upsert_compose_file,
                upsert_docker_network, upsert_docker_volume
  <2>3. <<r.id, r.host>> \in named /\ r.id \in Ids /\ r.host \in Hosts
    BY <2>1 DEF InventoryInv, ReadersNamed, HistoryOf
  <2>4. ClientsTyped' /\ ReadersNamed'
    BY <2>1 DEF InventoryInv, ClientsTyped, ReadersNamed
  <2>5. rows' \subseteq rows \cup {<<r.id, t, r.host>>}
    BY <2>2 DEF Upsert
  <2>6. HistoryOf' /\ RowsAreTheServersOwn'
    BY <2>1, <2>3, <2>5 DEF InventoryInv, HistoryOf, RowsAreTheServersOwn
  <2> QED BY <2>1, <2>4, <2>6 DEF InventoryInv, ServersTyped, RowsNamed, IdsAhead
<1>10. ASSUME NEW c \in Clients, ClientKilled(c) PROVE InventoryInv'
  <2>1. ClientsTyped' /\ ReadersNamed'
    BY <1>10, Forget DEF ClientKilled
  <2> QED BY <1>10, <2>1 DEF ClientKilled, InventoryInv, ServersTyped, HistoryOf, RowsNamed, IdsAhead,
                             RowsAreTheServersOwn
<1> QED
  BY <1>1, <1>2, <1>3, <1>4, <1>5, <1>6, <1>7, <1>8, <1>9, <1>10 DEF InventoryNext

LEMMA InventoryAlways == InventorySpec => []InventoryInv
  BY InventoryStart, InventoryStep, PTL DEF InventorySpec

(* Whatever the tables hold under a server's id was listed by a machine that  *)
(* the row of that id named: requests of any number of nazg processes that    *)
(* outlive the deletion of their server write nothing under another one       *)
(* (Client::scan_server, parse_and_store_scan, Store::delete_server).         *)
THEOREM InventoryIsTheServersOwn == InventorySpec => []RowsAreTheServersOwn
  BY InventoryAlways, PTL DEF InventoryInv

(* A server that is added begins with nothing: no row of any table, no scan   *)
(* still running and no earlier host is under the id it gets, although        *)
(* servers of other ids may have been deleted under a running scan            *)
(* (Store::add_server with AUTOINCREMENT, Client::scan_server).               *)
NewServersStartClean ==
    [][\A h \in Hosts : add_server(h) =>
          /\ \A r \in rows : r[1] # lastId'
          /\ \A n \in named : n[1] # lastId'
          /\ \A c \in Clients : client[c].pc # "idle" => client[c].id # lastId']_inventoryVars

THEOREM AddedServersAreClean == InventorySpec => NewServersStartClean
<1>1. InventoryInv /\ [InventoryNext]_inventoryVars =>
        [\A h \in Hosts : add_server(h) =>
          /\ \A r \in rows : r[1] # lastId'
          /\ \A n \in named : n[1] # lastId'
          /\ \A c \in Clients : client[c].pc # "idle" => client[c].id # lastId']_inventoryVars
  <2> SUFFICES ASSUME InventoryInv, NEW h \in Hosts, add_server(h)
               PROVE  /\ \A r \in rows : r[1] # lastId'
                      /\ \A n \in named : n[1] # lastId'
                      /\ \A c \in Clients : client[c].pc # "idle" => client[c].id # lastId'
    OBVIOUS
  <2>1. lastId' = lastId + 1 /\ lastId \in Int
    BY DEF add_server, InventoryInv, ServersTyped
  <2>2. \A n \in named : n[1] \in Int /\ n[1] <= lastId
    BY DEF InventoryInv, HistoryOf, IdsAhead, Ids
  <2>3. \A i, g : <<i, g>> \in named => i # lastId'
    BY <2>1, <2>2
  <2>4. \A r \in rows : r[1] # lastId'
    BY <2>3 DEF InventoryInv, RowsAreTheServersOwn
  <2>5. \A n \in named : n[1] # lastId'
    BY <2>1, <2>2
  <2>6. \A c \in Clients : client[c].pc # "idle" => client[c].id # lastId'
    BY <2>3 DEF InventoryInv, ReadersNamed
  <2> QED BY <2>4, <2>5, <2>6
<1> QED BY <1>1, InventoryAlways, PTL DEF InventorySpec, NewServersStartClean

----------------------------------------------------------------------------
(* The agent's cache                                                        *)

CacheTyped ==
    /\ present \subseteq Objects /\ recorded \subseteq Objects
    /\ now \in Nat \ {0} /\ last_scan \in Nat
    /\ cached \in [Objects -> Nat]
    /\ scan \in [pc : 0..5, time : Nat, listed : SUBSET Objects, todo : SUBSET Objects]

\* the clock never runs backwards: a running scan began after the recorded one did
ScanTimes ==
    /\ last_scan <= now
    /\ scan.pc > 0 => scan.time > 0 /\ scan.time <= now /\ last_scan <= scan.time
    /\ recorded # {} => last_scan > 0

\* the rows a running scan has written are at least as new as the scan
ListedIsCached == scan.pc > 0 => \A o \in scan.listed \ refused : cached[o] >= scan.time

RecordedIsCached == \A o \in recorded \ refused : cached[o] >= last_scan

CacheInv == CacheTyped /\ ScanTimes /\ ListedIsCached /\ RecordedIsCached

LEMMA CacheStart == CacheInit => CacheInv
  BY DEF CacheInit, CacheInv, CacheTyped, ScanTimes, ListedIsCached, RecordedIsCached, NoScan

\* a listing names objects that Docker, or the disk, has
LEMMA ListingTyped == ASSUME NEW k, present \subseteq Objects PROVE Listing(k) \subseteq Objects
  BY DEF Listing, OfKind, list_containers, list_images, list_networks, list_volumes, discover_compose_files

LEMMA CacheStep == CacheInv /\ [CacheNext]_cacheVars => CacheInv'
<1> SUFFICES ASSUME CacheInv, [CacheNext]_cacheVars PROVE CacheInv'
  OBVIOUS
<1> USE DEF CacheInv
<1>k. Len(KindOrder) = 5
  BY DEF KindOrder
<1>n. NoScan \in [pc : 0..5, time : Nat, listed : SUBSET Objects, todo : SUBSET Objects] /\ NoScan.pc = 0
  BY DEF NoScan
<1>1. CASE UNCHANGED <<now, cached, last_scan, recorded, refused, scan>> /\ present' \subseteq Objects
  BY <1>1 DEF CacheTyped, ScanTimes, ListedIsCached, RecordedIsCached
<1>2. CASE UNCHANGED cacheVars
  BY <1>1, <1>2 DEF cacheVars, CacheTyped
<1>3. CASE DockerChanges \/ DaemonToggles
  BY <1>1, <1>3 DEF DockerChanges, DaemonToggles, CacheTyped
<1>4. CASE SecondPasses
  <2>1. CacheTyped'
    BY <1>4 DEF SecondPasses, CacheTyped
  <2>2. ScanTimes'
    BY <1>4 DEF SecondPasses, CacheTyped, ScanTimes
  <2> QED BY <1>4, <2>1, <2>2 DEF SecondPasses, ListedIsCached, RecordedIsCached
<1>5. CASE StartScan
  <2>1. scan' = [pc |-> 1, time |-> now, listed |-> {}, todo |-> Listing(KindOrder[1])]
        /\ UNCHANGED <<present, now, cached, last_scan, recorded, refused>>
    BY <1>5 DEF StartScan
  <2>2. Listing(KindOrder[1]) \subseteq Objects
    BY ListingTyped DEF CacheTyped
  <2>3. CacheTyped'
    BY <2>1, <2>2 DEF CacheTyped
  <2> QED BY <2>1, <2>3 DEF CacheTyped, ScanTimes, ListedIsCached, RecordedIsCached
<1>6. CASE NextKind
  <2> DEFINE next == Listing(KindOrder[scan.pc + 1])
  <2>1. next \subseteq Objects
    BY ListingTyped DEF CacheTyped
  <2>2. scan' = [scan EXCEPT !.pc = scan.pc + 1, !.todo = next] /\ scan.pc \in 1..4
        /\ UNCHANGED <<present, now, cached, last_scan, recorded, refused>>
    BY <1>6, <1>k DEF NextKind
  <2> HIDE DEF next
  <2>5. scan.pc + 1 \in 0..5
    BY <2>2
  <2>6. scan' \in [pc : 0..5, time : Nat, listed : SUBSET Objects, todo : SUBSET Objects]
    BY <2>1, <2>2, <2>5 DEF CacheTyped
  <2>3. CacheTyped'
    BY <2>2, <2>6 DEF CacheTyped
  <2>4. scan'.time = scan.time /\ scan'.listed = scan.listed
    BY <2>2 DEF CacheTyped
  <2> QED BY <2>2, <2>3, <2>4 DEF CacheTyped, ScanTimes, ListedIsCached, RecordedIsCached
<1>7. CASE record_scan
  <2>1. scan' = NoScan /\ last_scan' = scan.time /\ recorded' = scan.listed /\ scan.pc = 5
        /\ UNCHANGED <<present, now, cached, refused>>
    BY <1>7, <1>k DEF record_scan
  <2>2. CacheTyped'
    BY <2>1, <1>n DEF CacheTyped
  <2> QED BY <2>1, <2>2, <1>n DEF CacheTyped, ScanTimes, ListedIsCached, RecordedIsCached
<1>8. CASE ScanCut
  <2>1. scan' = NoScan /\ UNCHANGED <<present, now, cached, last_scan, recorded, refused>>
    BY <1>8 DEF ScanCut
  <2> QED BY <2>1, <1>n DEF CacheTyped, ScanTimes, ListedIsCached, RecordedIsCached
<1>9. ASSUME NEW o \in Objects, NEW ok \in BOOLEAN, StoreRow(o, ok) PROVE CacheInv'
  <2>1. /\ scan' = [scan EXCEPT !.todo = scan.todo \ {o}, !.listed = scan.listed \cup {o}]
        /\ scan.pc > 0 /\ UNCHANGED <<present, now, last_scan, recorded>>
    BY <1>9 DEF StoreRow
  <2>2. \/ cached' = [cached EXCEPT ![o] = scan.time] /\ refused' = refused \ {o}
        \/ cached' = cached /\ refused' = refused \cup {o}
    BY <1>9 DEF StoreRow
  <2>3. CacheTyped' /\ scan'.pc = scan.pc /\ scan'.time = scan.time /\ scan'.listed = scan.listed \cup {o}
    BY <2>1, <2>2 DEF CacheTyped
  <2>4. ScanTimes'
    BY <2>1, <2>3 DEF ScanTimes
  <2>5. ListedIsCached'
    BY <2>1, <2>2, <2>3 DEF CacheTyped, ListedIsCached
  <2>6. RecordedIsCached'
    BY <2>1, <2>2, <2>3 DEF CacheTyped, ScanTimes, RecordedIsCached
  <2> QED BY <2>3, <2>4, <2>5, <2>6
<1>10. ASSUME NEW t \in 1..MaxNow, cleanup_old_data(t) PROVE CacheInv'
  <2>1. /\ t \in 1..last_scan /\ UNCHANGED <<present, now, last_scan, recorded, refused, scan>>
        /\ cached' = [o \in Objects |-> IF cached[o] < t THEN 0 ELSE cached[o]]
    BY <1>10 DEF cleanup_old_data
  <2>2. CacheTyped'
    BY <2>1 DEF CacheTyped
  <2>3. \A o \in Objects : cached[o] >= t => cached'[o] = cached[o]
    BY <2>1 DEF CacheTyped
  <2> QED BY <2>1, <2>2, <2>3 DEF CacheTyped, ScanTimes, ListedIsCached, RecordedIsCached
<1> QED
  BY <1>2, <1>3, <1>4, <1>5, <1>6, <1>7, <1>8, <1>9, <1>10 DEF CacheNext

(* The cache holds whatever the last recorded scan listed, as new as that     *)
(* scan or newer, for any objects and any clock: later scans that are cut     *)
(* short, a daemon that goes away under a scan and cleanups up to the         *)
(* recorded time take nothing from it, SQLite's refusals apart                *)
(* (Runtime::perform_docker_scan, LocalStore::cleanup_old_data).              *)
THEOREM CacheKeepsTheScan == CacheSpec => []CacheHoldsScan
<1>1. CacheInv => CacheHoldsScan
  BY DEF CacheInv, CacheTyped, ScanTimes, RecordedIsCached, CacheHoldsScan, get_cached
<1> QED BY <1>1, CacheStart, CacheStep, PTL DEF CacheSpec

----------------------------------------------------------------------------
(* Stacks of compose files                                                  *)

Docs == DOMAIN OnDisk
FileRows == Machines \X Docs
StackRows == [server : Machines \cup {Absent}, entries : SUBSET [file : FileRows, at : Nat], given : Seq(Docs)]
CreateSteps == {"idle", "create", "parse", "file", "add"}
Creates == [pc : CreateSteps, server : Machines \cup {Absent}, paths : Seq(Docs), at : Nat, stack : 0..MaxStacks]

StacksTyped ==
    /\ known \subseteq Machines
    /\ files \in Seq(FileRows \cup {Absent})
    /\ stacks \in [StackIds -> StackRows]
    /\ stackIds \in 0..MaxStacks
    /\ creator \in [Creators -> Creates]

\* the stack of a command that is past its INSERT
Filling(c) == creator[c].pc \in {"parse", "file", "add"}

\* what a command is about to store exists on its argument list, and no other command
\* fills the same stack
CreatorsPlaced ==
    /\ \A c \in Creators :
          /\ creator[c].pc # "idle" => creator[c].server \in Machines
          /\ Filling(c) => creator[c].stack \in 1..stackIds /\ creator[c].at >= 1
          /\ creator[c].pc \in {"file", "add"} => creator[c].at \in 1..Len(creator[c].paths)
    /\ \A c, d \in Creators : Filling(c) /\ Filling(d) /\ creator[c].stack = creator[d].stack => c = d

\* a stack that is being filled has the argument list of its command, as far as the
\* command has come
FilledSoFar ==
    \A c \in Creators : Filling(c) =>
        LET s == stacks[creator[c].stack] IN
        s.server # Absent => s.given = creator[c].paths /\ \A e \in s.entries : e.at < creator[c].at

(* Each entry of a stack is of the argument its execution_order counts, and no *)
(* two entries have the same: the order in which `docker stack show` sorts     *)
(* them is that of the command line (create_stack_from_compose,                *)
(* add_compose_to_stack).                                                      *)
EntriesFollowArguments ==
    \A i \in StackIds : \A e \in stacks[i].entries :
        /\ e.at \in DOMAIN stacks[i].given /\ stacks[i].given[e.at] = e.file[2]
        /\ \A d \in stacks[i].entries : d.at = e.at => d = e

StacksInv == StacksTyped /\ CreatorsPlaced /\ FilledSoFar /\ EntriesFollowArguments /\ NoOrphans

\* the oldest row of a path is one of its rows
LEMMA LeastExists ==
  ASSUME NEW S \in SUBSET Nat, S # {}
  PROVE  Min(S) \in S
<1> DEFINE R == OpToRel(<, Nat)
<1>1. IsWellFoundedOn(R, Nat)
  BY NatLessThanWellFounded
<1>2. PICK x \in S : \A y \in S : <<y, x>> \notin R
  BY <1>1, WFMin
<1>4. \A a, b \in Nat : a < b => <<a, b>> \in R
  BY Zenon DEF OpToRel
<1> HIDE DEF R
<1>5. \A y \in S : ~ (y < x)
  BY <1>2, <1>4, Zenon
<1>3. \A y \in S : x <= y
  BY <1>5
<1> QED BY <1>2, <1>3, Zenon DEF Min

LEMMA StacksStart == StacksInit => StacksInv
<1> SUFFICES ASSUME StacksInit PROVE StacksInv
  OBVIOUS
<1>1. NoStack \in StackRows /\ NoCreate \in Creates /\ NoStack.entries = {} /\ NoStack.server = Absent
      /\ NoCreate.pc = "idle"
  BY DockerStacksAssumption DEF NoStack, NoCreate, StackRows, Creates, CreateSteps
<1>2. StacksTyped
  BY <1>1, DockerStacksAssumption DEF StacksInit, StacksTyped
<1>3. CreatorsPlaced /\ FilledSoFar
  BY <1>1 DEF StacksInit, CreatorsPlaced, FilledSoFar, Filling
<1>4. EntriesFollowArguments
  BY <1>1 DEF StacksInit, EntriesFollowArguments
<1>5. Range(files) = {} /\ DOMAIN edges = {}
  BY DEF StacksInit, Range
<1>6. NoOrphans
  BY <1>1, <1>5 DEF StacksInit, NoOrphans
<1> QED BY <1>2, <1>3, <1>4, <1>6 DEF StacksInv

\* a command that ends, or has stored nothing yet, says nothing about any stack
LEMMA CommandEnds ==
  ASSUME StacksInv, NEW c \in Creators, creator' = [creator EXCEPT ![c] = NoCreate],
         UNCHANGED <<known, files, stacks, stackIds, edges>>
  PROVE  StacksInv'
<1>1. NoCreate \in Creates /\ NoCreate.pc = "idle"
  BY DockerStacksAssumption DEF NoCreate, Creates, CreateSteps
<1>2. StacksTyped' /\ creator'[c].pc = "idle" /\ \A d \in Creators : d # c => creator'[d] = creator[d]
  BY <1>1 DEF StacksInv, StacksTyped
<1>3. \A d \in Creators : Filling(d)' => d # c /\ Filling(d) /\ creator'[d] = creator[d]
  BY <1>2 DEF Filling
<1>4. CreatorsPlaced'
  BY <1>2, <1>3 DEF StacksInv, CreatorsPlaced
<1>5. FilledSoFar'
  BY <1>3 DEF StacksInv, FilledSoFar
<1> QED BY <1>2, <1>4, <1>5 DEF StacksInv, EntriesFollowArguments, NoOrphans

\* the stack a command fills is one of the table's
LEMMA StackOfCommand ==
  ASSUME StacksInv, NEW c \in Creators, Filling(c)
  PROVE  creator[c].stack \in StackIds /\ creator[c].stack <= stackIds /\ creator[c].server \in Machines
<1>1. creator[c].stack \in 1..stackIds /\ creator[c].server \in Machines
  BY DEF StacksInv, CreatorsPlaced, Filling
<1>2. stackIds \in 0..MaxStacks
  BY DEF StacksInv, StacksTyped
<1> QED BY <1>1, <1>2, DockerStacksAssumption DEF StackIds

\* the two ways a command's record changes while it fills its stack
LEMMA SameArgument ==
  ASSUME NEW q \in Creates, NEW step \in CreateSteps
  PROVE  LET r == [q EXCEPT !.pc = step] IN
         /\ r \in Creates /\ r.pc = step /\ r.server = q.server /\ r.paths = q.paths /\ r.stack = q.stack
         /\ r.at = q.at /\ r.at \in Nat
  BY DEF Creates

LEMMA NextArgument ==
  ASSUME NEW q \in Creates
  PROVE  LET r == [q EXCEPT !.pc = "parse", !.at = q.at + 1] IN
         /\ r \in Creates /\ r.pc = "parse" /\ r.server = q.server /\ r.paths = q.paths /\ r.stack = q.stack
         /\ r.at = q.at + 1 /\ q.at \in Nat
<1>1. q.at \in Nat /\ q.at + 1 \in Nat /\ "parse" \in CreateSteps
  BY DEF Creates, CreateSteps
<1> QED BY <1>1 DEF Creates

\* going on to another argument, or another statement of the same one
LEMMA CommandGoesOn ==
  ASSUME StacksInv, NEW c \in Creators, Filling(c), NEW r \in Creates, creator' = [creator EXCEPT ![c] = r],
         r.pc \in {"parse", "file", "add"}, r.server = creator[c].server, r.paths = creator[c].paths,
         r.stack = creator[c].stack, r.at >= creator[c].at,
         r.pc # "parse" => r.at \in 1..Len(creator[c].paths), UNCHANGED <<stacks, stackIds>>
  PROVE  creator' \in [Creators -> Creates] /\ CreatorsPlaced' /\ FilledSoFar'
<1>1. creator' \in [Creators -> Creates] /\ creator'[c] = r /\ \A d \in Creators : d # c => creator'[d] = creator[d]
  BY DEF StacksInv, StacksTyped
<1>2. \A d \in Creators : Filling(d)' <=> Filling(d)
  BY <1>1 DEF Filling
<1>3. \A d \in Creators : creator'[d].stack = creator[d].stack /\ creator'[d].server = creator[d].server
                         /\ creator'[d].paths = creator[d].paths
  BY <1>1
<1>4. CreatorsPlaced'
  <2>1. \A d \in Creators :
          /\ creator'[d].pc # "idle" => creator'[d].server \in Machines
          /\ Filling(d)' => creator'[d].stack \in 1..stackIds'
    BY <1>1, <1>2, <1>3 DEF StacksInv, CreatorsPlaced, Filling
  <2>4. \A d \in Creators : Filling(d)' => creator'[d].at >= 1
    BY <1>1, <1>2 DEF StacksInv, StacksTyped, CreatorsPlaced, Creates
  <2>2. \A d \in Creators : creator'[d].pc \in {"file", "add"} => creator'[d].at \in 1..Len(creator'[d].paths)
    BY <1>1 DEF StacksInv, CreatorsPlaced
  <2>3. \A b, d \in Creators : Filling(b)' /\ Filling(d)' /\ creator'[b].stack = creator'[d].stack => b = d
    BY <1>2, <1>3 DEF StacksInv, CreatorsPlaced
  <2> QED BY <2>1, <2>2, <2>3, <2>4 DEF CreatorsPlaced
<1>5. FilledSoFar'
  <2> SUFFICES ASSUME NEW d \in Creators, Filling(d)', stacks[creator[d].stack].server # Absent
               PROVE  /\ stacks[creator[d].stack].given = creator'[d].paths
                      /\ \A e \in stacks[creator[d].stack].entries : e.at < creator'[d].at
    BY <1>3 DEF FilledSoFar
  <2>1. /\ stacks[creator[d].stack].given = creator[d].paths
        /\ \A e \in stacks[creator[d].stack].entries : e.at < creator[d].at
    BY <1>2 DEF StacksInv, FilledSoFar
  <2>2. creator[d].stack \in StackIds
    BY <1>2, StackOfCommand
  <2>3. \A e \in stacks[creator[d].stack].entries : e.at \in Nat
    BY <2>2 DEF StacksInv, StacksTyped, StackRows
  <2>4. creator[d].at \in Nat /\ creator'[d].at \in Nat /\ creator'[d].at >= creator[d].at
    BY <1>1 DEF StacksInv, StacksTyped, Creates
  <2> QED BY <1>3, <2>1, <2>3, <2>4
<1> QED BY <1>1, <1>4, <1>5

\* a row of a server that is there is appended, or nothing is
LEMMA GrowFiles ==
  ASSUME files \in Seq(FileRows \cup {Absent}), \A f \in Range(files) \ {Absent} : f[1] \in known,
         NEW row \in FileRows, files' = files \/ (row[1] \in known /\ files' = Append(files, row))
  PROVE  /\ files' \in Seq(FileRows \cup {Absent}) /\ Range(files) \subseteq Range(files')
         /\ \A f \in Range(files') \ {Absent} : f[1] \in known
<1>1. CASE files' = files
  BY <1>1
<1>2. CASE row[1] \in known /\ files' = Append(files, row)
  <2>1. files' \in Seq(FileRows \cup {Absent}) /\ DOMAIN files = 1..Len(files) /\ DOMAIN files' = 1..(Len(files) + 1)
        /\ Len(files) \in Nat
    BY <1>2
  <2>5. files'[Len(files) + 1] = row
    BY <1>2, AppendProperties
  <2>2. \A i \in DOMAIN files : files'[i] = files[i]
    <3>1. \A i \in 1..Len(files) : Append(files, row)[i] = files[i]
      BY AppendProperties
    <3> QED BY <1>2, <2>1, <3>1
  <2>6. DOMAIN files' = DOMAIN files \cup {Len(files) + 1}
    BY <2>1
  <2>4. Range(files') = Range(files) \cup {row}
    BY <2>2, <2>5, <2>6 DEF Range
  <2> QED BY <1>2, <2>1, <2>4
<1> QED BY <1>1, <1>2

LEMMA StacksStep == StacksInv /\ [StacksNext]_stackVars => StacksInv'
<1> SUFFICES ASSUME StacksInv, [StacksNext]_stackVars PROVE StacksInv'
  OBVIOUS
<1>0. CASE UNCHANGED stackVars
  BY <1>0 DEF stackVars, StacksInv, StacksTyped, CreatorsPlaced, Filling, FilledSoFar, EntriesFollowArguments,
              NoOrphans
<1>1. ASSUME NEW c \in Creators, NEW server \in Machines, NEW paths \in PathLists,
             cmd_docker_stack_create(c, server, paths)
      PROVE  StacksInv'
  <2> DEFINE r == [NoCreate EXCEPT !.pc = "create", !.server = server, !.paths = paths]
  <2>0. paths \in Seq(Docs) /\ 0 \in 0..MaxStacks
    BY DockerStacksAssumption DEF Docs
  <2>1. r \in Creates /\ r.pc = "create" /\ r.server = server
    BY <2>0 DEF NoCreate, Creates, CreateSteps
  <2>2. creator' = [creator EXCEPT ![c] = r] /\ UNCHANGED <<known, files, stacks, stackIds, edges>>
    BY <1>1 DEF cmd_docker_stack_create
  <2> HIDE DEF r
  <2>3. StacksTyped' /\ creator'[c] = r /\ \A d \in Creators : d # c => creator'[d] = creator[d]
    BY <2>1, <2>2 DEF StacksInv, StacksTyped
  <2>4. \A d \in Creators : Filling(d)' => d # c /\ Filling(d) /\ creator'[d] = creator[d]
    BY <2>1, <2>3 DEF Filling
  <2>5. CreatorsPlaced'
    BY <2>1, <2>2, <2>3, <2>4 DEF StacksInv, CreatorsPlaced
  <2>6. FilledSoFar'
    BY <2>2, <2>4 DEF StacksInv, FilledSoFar
  <2> QED BY <2>2, <2>3, <2>5, <2>6 DEF StacksInv, EntriesFollowArguments, NoOrphans
<1>2. ASSUME NEW c \in Creators, create_stack(c) PROVE StacksInv'
  <2>1. CASE creator' = [creator EXCEPT ![c] = NoCreate] /\ UNCHANGED <<stacks, stackIds>>
    BY <1>2, <2>1, CommandEnds DEF create_stack
  <2>2. CASE /\ creator[c].server \in known /\ stackIds < MaxStacks /\ stackIds' = stackIds + 1
             /\ stacks' = [stacks EXCEPT ![stackIds'] = [NoStack EXCEPT !.server = creator[c].server,
                                                                       !.given = creator[c].paths]]
             /\ creator' = [creator EXCEPT ![c] = [creator[c] EXCEPT !.pc = "parse", !.stack = stackIds',
                                                                    !.at = 1]]
    <3> DEFINE n == stackIds + 1
               s == [NoStack EXCEPT !.server = creator[c].server, !.given = creator[c].paths]
               r == [creator[c] EXCEPT !.pc = "parse", !.stack = n, !.at = 1]
    <3>1. n \in StackIds /\ n \in 0..MaxStacks /\ stackIds \in Nat
      BY <2>2, DockerStacksAssumption DEF StacksInv, StacksTyped, StackIds
    <3>2. creator[c] \in Creates
      BY DEF StacksInv, StacksTyped
    <3>3. creator[c].server \in Machines
      BY <2>2 DEF StacksInv, StacksTyped
    <3>4. /\ s \in StackRows /\ s.server = creator[c].server /\ s.given = creator[c].paths /\ s.entries = {}
          /\ r \in Creates /\ r.pc = "parse" /\ r.stack = n /\ r.at = 1 /\ r.server = creator[c].server
          /\ r.paths = creator[c].paths
      BY <3>1, <3>2, <3>3 DEF NoStack, StackRows, Creates, CreateSteps
    <3>5. stacks' = [stacks EXCEPT ![n] = s] /\ creator' = [creator EXCEPT ![c] = r] /\ stackIds' = n
          /\ UNCHANGED <<known, files, edges>>
      BY <1>2, <2>2 DEF create_stack
    <3> HIDE DEF s, r
    <3>6. StacksTyped'
      BY <3>1, <3>4, <3>5 DEF StacksInv, StacksTyped
    <3>7. /\ stacks'[n] = s /\ \A i \in StackIds : i # n => stacks'[i] = stacks[i]
          /\ creator'[c] = r /\ \A d \in Creators : d # c => creator'[d] = creator[d]
      BY <3>1, <3>5 DEF StacksInv, StacksTyped
    <3>8. \A d \in Creators : Filling(d) => creator[d].stack \in StackIds /\ creator[d].stack <= stackIds
      BY StackOfCommand
    <3>9. \A d \in Creators : d # c => (Filling(d)' <=> Filling(d))
      BY <3>7 DEF Filling
    <3>10. CreatorsPlaced'
      <4>1. \A d \in Creators : creator'[d].pc # "idle" => creator'[d].server \in Machines
        BY <3>3, <3>4, <3>7 DEF StacksInv, CreatorsPlaced
      <4>2. \A d \in Creators : Filling(d)' => creator'[d].stack \in 1..stackIds'
        BY <3>1, <3>4, <3>5, <3>7, <3>8, <3>9 DEF StackIds
      <4>5. \A d \in Creators : Filling(d)' => creator'[d].at >= 1
        BY <3>4, <3>7, <3>9 DEF StacksInv, CreatorsPlaced
      <4>3. \A d \in Creators : creator'[d].pc \in {"file", "add"} => creator'[d].at \in 1..Len(creator'[d].paths)
        BY <3>4, <3>7 DEF StacksInv, CreatorsPlaced
      <4>4. \A b, d \in Creators : Filling(b)' /\ Filling(d)' /\ creator'[b].stack = creator'[d].stack => b = d
        <5> SUFFICES ASSUME NEW b \in Creators, NEW d \in Creators, Filling(b)', Filling(d)', b # d,
                            creator'[b].stack = creator'[d].stack
                     PROVE  FALSE
          OBVIOUS
        <5>1. CASE b # c /\ d # c
          BY <5>1, <3>7, <3>9 DEF StacksInv, CreatorsPlaced
        <5>2. CASE b = c
          BY <5>2, <3>1, <3>4, <3>7, <3>8, <3>9 DEF StackIds
        <5>3. CASE d = c
          BY <5>3, <3>1, <3>4, <3>7, <3>8, <3>9 DEF StackIds
        <5> QED BY <5>1, <5>2, <5>3
      <4> QED BY <4>1, <4>2, <4>3, <4>4, <4>5 DEF CreatorsPlaced
    <3>11. FilledSoFar'
      <4> SUFFICES ASSUME NEW d \in Creators, Filling(d)', stacks'[creator'[d].stack].server # Absent
                   PROVE  /\ stacks'[creator'[d].stack].given = creator'[d].paths
                          /\ \A e \in stacks'[creator'[d].stack].entries : e.at < creator'[d].at
        BY DEF FilledSoFar
      <4>1. CASE d = c
        BY <4>1, <3>4, <3>7
      <4>2. CASE d # c
        <5>1. Filling(d) /\ creator'[d] = creator[d] /\ creator[d].stack \in StackIds /\ creator[d].stack # n
          BY <4>2, <3>1, <3>7, <3>8, <3>9 DEF StackIds
        <5> QED BY <5>1, <3>7 DEF StacksInv, FilledSoFar
      <4> QED BY <4>1, <4>2
    <3>12. EntriesFollowArguments'
      BY <3>4, <3>7 DEF StacksInv, EntriesFollowArguments
    <3>13. NoOrphans'
      <4>1. \A i \in StackIds :
              /\ stacks'[i].server \in known \cup {Absent}
              /\ \A e \in stacks'[i].entries : e.file \in Range(files) \ {Absent} /\ stacks'[i].server # Absent
        BY <2>2, <3>4, <3>7 DEF StacksInv, NoOrphans
      <4> QED BY <4>1, <3>5 DEF StacksInv, NoOrphans
    <3> QED BY <3>6, <3>10, <3>11, <3>12, <3>13 DEF StacksInv
  <2> QED BY <1>2, <2>1, <2>2 DEF create_stack
<1>3. ASSUME NEW c \in Creators, StackCreated(c) PROVE StacksInv'
  BY <1>3, CommandEnds DEF StackCreated
<1>4. ASSUME NEW c \in Creators, SkipFile(c) PROVE StacksInv'
  <2> DEFINE r == [creator[c] EXCEPT !.at = creator[c].at + 1]
  <2>1. creator[c] \in Creates /\ creator[c].pc = "parse" /\ creator' = [creator EXCEPT ![c] = r]
        /\ UNCHANGED <<known, files, stacks, stackIds, edges>>
    BY <1>4 DEF SkipFile, StacksInv, StacksTyped
  <2>2. r \in Creates /\ r.pc = "parse" /\ r.server = creator[c].server /\ r.paths = creator[c].paths
        /\ r.stack = creator[c].stack /\ r.at >= creator[c].at
    BY <2>1 DEF Creates
  <2> HIDE DEF r
  <2>3. Filling(c)
    BY <2>1 DEF Filling
  <2>4. creator' \in [Creators -> Creates] /\ CreatorsPlaced' /\ FilledSoFar'
    BY <2>1, <2>2, <2>3, CommandGoesOn
  <2> QED BY <2>1, <2>4 DEF StacksInv, StacksTyped, EntriesFollowArguments, NoOrphans
<1>5. ASSUME NEW c \in Creators, StoreDependencies(c) PROVE StacksInv'
  <2> DEFINE r == [creator[c] EXCEPT !.pc = "file"]
  <2>1. /\ creator[c] \in Creates /\ creator[c].pc = "parse" /\ creator[c].at <= Len(creator[c].paths)
        /\ creator' = [creator EXCEPT ![c] = r] /\ UNCHANGED <<known, files, stacks, stackIds>>
    BY <1>5 DEF StoreDependencies, StacksInv, StacksTyped
  <2>2. r \in Creates /\ r.pc = "file" /\ r.server = creator[c].server /\ r.paths = creator[c].paths
        /\ r.stack = creator[c].stack /\ r.at = creator[c].at /\ r.at \in Nat
    BY <2>1 DEF Creates, CreateSteps
  <2> HIDE DEF r
  <2>3. Filling(c)
    BY <2>1 DEF Filling
  <2>4. creator[c].at \in 1..Len(creator[c].paths)
    BY <2>1, <2>2, <2>3 DEF StacksInv, CreatorsPlaced, Creates
  <2>5. creator' \in [Creators -> Creates] /\ CreatorsPlaced' /\ FilledSoFar'
    <3>1. r.at >= creator[c].at /\ r.at \in 1..Len(creator[c].paths)
      BY <2>2, <2>4
    <3> QED BY <2>1, <2>2, <2>3, <3>1, CommandGoesOn
  <2>6. \A k \in DOMAIN edges' : k[1] \in known
    <3>1. CASE creator[c].server \notin known
      BY <1>5, <3>1 DEF StoreDependencies, StacksInv, NoOrphans
    <3>2. CASE creator[c].server \in known
      <4> DEFINE ts == extract_dependencies(parse_file(ThisPath(c)))
      <4>1. edges' = add_dependency(edges, creator[c].server, ts)
        BY <1>5, <3>2 DEF StoreDependencies, parse_compose_dependencies
      <4> HIDE DEF ts
      <4>2. DOMAIN edges' = DOMAIN edges \cup {<<creator[c].server, ts[i][1], ts[i][2]>> : i \in DOMAIN ts}
        BY <4>1 DEF add_dependency
      <4> QED BY <4>2, <3>2 DEF StacksInv, NoOrphans
    <3> QED BY <3>1, <3>2
  <2> QED BY <2>1, <2>5, <2>6 DEF StacksInv, StacksTyped, EntriesFollowArguments, NoOrphans
<1>6. ASSUME NEW c \in Creators, StoreFile(c) PROVE StacksInv'
  <2> DEFINE row == <<creator[c].server, ThisPath(c)>>
  <2>1. creator[c] \in Creates /\ creator[c].pc = "file" /\ creator[c].at \in 1..Len(creator[c].paths)
        /\ UNCHANGED <<known, stacks, stackIds, edges>>
    BY <1>6 DEF StoreFile, StacksInv, StacksTyped, CreatorsPlaced
  <2>2. Filling(c)
    BY <2>1 DEF Filling
  <2>3. row \in FileRows /\ row[1] = creator[c].server
    BY <2>1, <2>2, StackOfCommand DEF Creates, ThisPath, FileRows
  <2> HIDE DEF row
  <2>4. files' = files \/ (creator[c].server \in known /\ files' = Append(files, row))
    BY <1>6 DEF StoreFile, row
  <2>5. PICK r : /\ creator' = [creator EXCEPT ![c] = r]
                 /\ \/ r = [creator[c] EXCEPT !.pc = "add"]
                    \/ r = [creator[c] EXCEPT !.pc = "parse", !.at = creator[c].at + 1]
    BY <1>6 DEF StoreFile
  <2>6. /\ r \in Creates /\ r.pc \in {"parse", "file", "add"} /\ r.server = creator[c].server
        /\ r.paths = creator[c].paths /\ r.stack = creator[c].stack /\ r.at >= creator[c].at
        /\ r.pc # "parse" => r.at \in 1..Len(creator[c].paths)
    <3>1. CASE r = [creator[c] EXCEPT !.pc = "add"]
      BY <2>1, <3>1 DEF Creates, CreateSteps
    <3>2. CASE r = [creator[c] EXCEPT !.pc = "parse", !.at = creator[c].at + 1]
      <4>1. /\ r \in Creates /\ r.pc = "parse" /\ r.server = creator[c].server /\ r.paths = creator[c].paths
            /\ r.stack = creator[c].stack /\ r.at = creator[c].at + 1 /\ creator[c].at \in Nat
        BY <2>1, <3>2, NextArgument
      <4> QED BY <4>1
    <3> QED BY <2>5, <3>1, <3>2
  <2>7. creator' \in [Creators -> Creates] /\ CreatorsPlaced' /\ FilledSoFar'
    BY <2>1, <2>2, <2>5, <2>6, CommandGoesOn
  <2>8. files' \in Seq(FileRows \cup {Absent}) /\ Range(files) \subseteq Range(files')
        /\ \A f \in Range(files') \ {Absent} : f[1] \in known
    BY <2>3, <2>4, GrowFiles DEF StacksInv, StacksTyped, NoOrphans
  <2> QED BY <2>1, <2>7, <2>8 DEF StacksInv, StacksTyped, EntriesFollowArguments, NoOrphans
<1>7. ASSUME NEW c \in Creators, add_compose_to_stack(c) PROVE StacksInv'
  <2> DEFINE k == creator[c].stack
             path == ThisPath(c)
             hits == RowsOf(path)
             file == files[Min(hits)]
             r == [creator[c] EXCEPT !.pc = "parse", !.at = creator[c].at + 1]
             new == [file |-> file, at |-> creator[c].at]
             s == [stacks[k] EXCEPT !.entries = {e \in stacks[k].entries : e.file # file} \cup {new}]
  <2>1. /\ creator[c] \in Creates /\ creator[c].pc = "add" /\ creator[c].at \in 1..Len(creator[c].paths)
        /\ creator' = [creator EXCEPT ![c] = r] /\ UNCHANGED <<known, files, stackIds, edges>>
    BY <1>7 DEF add_compose_to_stack, StacksInv, StacksTyped, CreatorsPlaced
  <2>2. \/ stacks' = stacks
        \/ hits # {} /\ stacks[k].server # Absent /\ stacks' = [stacks EXCEPT ![k] = s]
    BY <1>7 DEF add_compose_to_stack
  <2>3. Filling(c)
    BY <2>1 DEF Filling
  <2>4. /\ r \in Creates /\ r.pc = "parse" /\ r.server = creator[c].server /\ r.paths = creator[c].paths
        /\ r.stack = k /\ r.at = creator[c].at + 1
    BY <2>1, NextArgument
  <2>5. k \in StackIds /\ stacks[k] \in StackRows /\ creator[c].at \in Nat
    BY <2>1, <2>3, StackOfCommand DEF StacksInv, StacksTyped, Creates
  <2> HIDE DEF r
  <2>6. CASE stacks' = stacks
    <3>1. creator' \in [Creators -> Creates] /\ CreatorsPlaced' /\ FilledSoFar'
      <4>1. r.at >= creator[c].at
        BY <2>4, <2>5
      <4> QED BY <2>1, <2>3, <2>4, <2>6, <4>1, CommandGoesOn
    <3> QED BY <2>1, <2>6, <3>1 DEF StacksInv, StacksTyped, EntriesFollowArguments, NoOrphans
  <2>7. CASE hits # {} /\ stacks[k].server # Absent /\ stacks' = [stacks EXCEPT ![k] = s]
    <3>1. Min(hits) \in hits
      <4>1. hits \in SUBSET Nat
        BY DEF RowsOf, StacksInv, StacksTyped
      <4> QED BY <2>7, <4>1, LeastExists
    <3>2. file \in FileRows /\ file \in Range(files) \ {Absent} /\ file[2] = path
      <4> HIDE DEF file
      <4>1. file = files[Min(hits)] /\ Min(hits) \in DOMAIN files /\ file # Absent /\ file[2] = path
        BY <3>1 DEF RowsOf, file
      <4>2. file \in FileRows \cup {Absent}
        BY <4>1 DEF StacksInv, StacksTyped
      <4> QED BY <4>1, <4>2 DEF Range
    <3> HIDE DEF hits, file
    <3>3. /\ new \in [file : FileRows, at : Nat] /\ new.file = file /\ new.at = creator[c].at
      BY <2>5, <3>2
    <3> HIDE DEF new
    <3>4. /\ s \in StackRows /\ s.server = stacks[k].server /\ s.given = stacks[k].given
          /\ s.entries = {e \in stacks[k].entries : e.file # file} \cup {new}
      BY <2>5, <3>3 DEF StackRows
    <3> HIDE DEF s
    <3>5. /\ stacks' \in [StackIds -> StackRows] /\ stacks'[k] = s
          /\ \A i \in StackIds : i # k => stacks'[i] = stacks[i]
      BY <2>5, <2>7, <3>4 DEF StacksInv, StacksTyped
    <3>6. /\ creator' \in [Creators -> Creates] /\ creator'[c] = r
          /\ \A d \in Creators : d # c => creator'[d] = creator[d]
      BY <2>1, <2>4 DEF StacksInv, StacksTyped
    <3>7. \A d \in Creators : Filling(d)' <=> Filling(d)
      BY <2>3, <2>4, <3>6 DEF Filling
    <3>8. CreatorsPlaced'
      <4>1. \A d \in Creators :
              /\ creator'[d].pc # "idle" => creator'[d].server \in Machines
              /\ Filling(d)' => creator'[d].stack \in 1..stackIds'
              /\ creator'[d].pc \in {"file", "add"} => creator'[d].at \in 1..Len(creator'[d].paths)
        BY <2>1, <2>3, <2>4, <3>6, <3>7 DEF StacksInv, CreatorsPlaced, Filling
      <4>2. \A d \in Creators : Filling(d)' => creator'[d].at >= 1
        BY <2>4, <2>5, <3>6, <3>7 DEF StacksInv, CreatorsPlaced
      <4>3. \A b, d \in Creators : Filling(b)' /\ Filling(d)' /\ creator'[b].stack = creator'[d].stack => b = d
        BY <2>4, <3>6, <3>7 DEF StacksInv, CreatorsPlaced
      <4> QED BY <4>1, <4>2, <4>3 DEF CreatorsPlaced
    <3>9. stacks[k].given = creator[c].paths /\ \A e \in stacks[k].entries : e.at \in Nat /\ e.at < creator[c].at
      BY <2>3, <2>5, <2>7 DEF StacksInv, FilledSoFar, StackRows
    <3>10. FilledSoFar'
      <4> SUFFICES ASSUME NEW d \in Creators, Filling(d)', stacks'[creator'[d].stack].server # Absent
                   PROVE  /\ stacks'[creator'[d].stack].given = creator'[d].paths
                          /\ \A e \in stacks'[creator'[d].stack].entries : e.at < creator'[d].at
        BY DEF FilledSoFar
      <4>1. CASE d = c
        <5>1. \A e \in s.entries : e.at < creator[c].at + 1
          BY <2>5, <3>3, <3>4, <3>9
        <5> QED BY <4>1, <5>1, <2>4, <3>4, <3>5, <3>6, <3>9
      <4>2. CASE d # c
        <5>1. Filling(d) /\ creator'[d] = creator[d] /\ creator[d].stack # k
          BY <4>2, <2>3, <3>6, <3>7 DEF StacksInv, CreatorsPlaced
        <5>2. creator[d].stack \in StackIds
          BY <5>1, StackOfCommand
        <5> QED BY <5>1, <5>2, <3>5 DEF StacksInv, FilledSoFar
      <4> QED BY <4>1, <4>2
    <3>11. EntriesFollowArguments'
      <4>1. creator[c].at \in DOMAIN s.given /\ s.given[creator[c].at] = file[2]
        BY <2>1, <3>2, <3>4, <3>9 DEF ThisPath, Creates
      <4>2. \A e \in s.entries : e.at \in DOMAIN s.given /\ s.given[e.at] = e.file[2]
        BY <4>1, <2>5, <3>3, <3>4 DEF StacksInv, EntriesFollowArguments
      <4>3. \A e, d \in s.entries : d.at = e.at => d = e
        BY <2>5, <3>3, <3>4, <3>9 DEF StacksInv, EntriesFollowArguments
      <4> QED BY <4>2, <4>3, <3>5 DEF StacksInv, EntriesFollowArguments
    <3>12. NoOrphans'
      <4>1. \A i \in StackIds :
              /\ stacks'[i].server \in known \cup {Absent}
              /\ \A e \in stacks'[i].entries : e.file \in Range(files) \ {Absent} /\ stacks'[i].server # Absent
        BY <2>5, <2>7, <3>2, <3>3, <3>4, <3>5 DEF StacksInv, NoOrphans
      <4> QED BY <4>1, <2>1 DEF StacksInv, NoOrphans
    <3> QED BY <2>1, <3>5, <3>6, <3>8, <3>10, <3>11, <3>12 DEF StacksInv, StacksTyped
  <2> QED BY <2>2, <2>6, <2>7
<1>8. ASSUME NEW id \in StackIds, delete_stack(id) PROVE StacksInv'
  <2>1. NoStack \in StackRows /\ NoStack.entries = {} /\ NoStack.server = Absent
    BY DEF NoStack, StackRows
  <2>2. stacks' = [stacks EXCEPT ![id] = NoStack] /\ UNCHANGED <<known, files, stackIds, edges, creator>>
    BY <1>8 DEF delete_stack
  <2>3. StacksTyped' /\ stacks'[id] = NoStack /\ \A i \in StackIds : i # id => stacks'[i] = stacks[i]
    BY <2>1, <2>2 DEF StacksInv, StacksTyped
  <2>4. \A c \in Creators : Filling(c)' = Filling(c)
    BY <2>2 DEF Filling
  <2>5. CreatorsPlaced'
    BY <2>2, <2>4 DEF StacksInv, CreatorsPlaced
  <2>6. \A c \in Creators : Filling(c) => creator[c].stack \in StackIds
    BY StackOfCommand
  <2>7. FilledSoFar'
    BY <2>1, <2>2, <2>3, <2>4, <2>6 DEF StacksInv, FilledSoFar
  <2>8. EntriesFollowArguments'
    BY <2>1, <2>3 DEF StacksInv, EntriesFollowArguments
  <2>9. NoOrphans'
    BY <2>1, <2>2, <2>3 DEF StacksInv, NoOrphans
  <2> QED BY <2>3, <2>5, <2>7, <2>8, <2>9 DEF StacksInv
<1>9. ASSUME NEW server \in Machines, RemoveServer(server) PROVE StacksInv'
  <2> DEFINE Row(f) == IF f # Absent /\ f[1] = server THEN Absent ELSE f
             Rest(s) == IF s.server = server THEN NoStack
                        ELSE [s EXCEPT !.entries = {e \in s.entries : e.file[1] # server}]
  <2>1. /\ known' = known \ {server} /\ files' = [i \in DOMAIN files |-> Row(files[i])]
        /\ stacks' = [i \in StackIds |-> Rest(stacks[i])]
        /\ edges' = [q \in {q \in DOMAIN edges : q[1] # server} |-> edges[q]]
        /\ UNCHANGED <<stackIds, creator>>
    BY <1>9 DEF RemoveServer
  <2>2. NoStack \in StackRows /\ NoStack.entries = {} /\ NoStack.server = Absent
    BY DEF NoStack, StackRows
  <2>3. \A s \in StackRows :
          /\ Rest(s) \in StackRows
          /\ Rest(s).server # Absent => Rest(s).server = s.server /\ s.server # server /\ Rest(s).given = s.given
          /\ Rest(s).entries \subseteq {e \in s.entries : e.file[1] # server}
          /\ s.server = server \/ (Rest(s).server = s.server /\ Rest(s).given = s.given)
          /\ s.server = server => Rest(s) = NoStack
    BY <2>2 DEF StackRows
  <2>4. \A f : Row(f) = Absent \/ (Row(f) = f /\ f[1] # server)
    OBVIOUS
  <2>5. \A f : f # Absent /\ f[1] # server => Row(f) = f
    OBVIOUS
  <2> HIDE DEF Row, Rest
  <2>6. files' \in Seq(FileRows \cup {Absent}) /\ DOMAIN files' = DOMAIN files
        /\ \A i \in DOMAIN files : files'[i] = Row(files[i])
    <3>1. files \in Seq(FileRows \cup {Absent})
      BY DEF StacksInv, StacksTyped
    <3>2. DOMAIN files = 1..Len(files) /\ Len(files) \in Nat /\ \A i \in DOMAIN files : files[i] \in FileRows \cup {Absent}
      BY <3>1
    <3>3. \A i \in DOMAIN files : Row(files[i]) \in FileRows \cup {Absent}
      BY <2>4, <3>2
    <3> QED BY <2>1, <3>2, <3>3
  <2>7. stacks' \in [StackIds -> StackRows] /\ \A i \in StackIds : stacks[i] \in StackRows /\ stacks'[i] = Rest(stacks[i])
    BY <2>1, <2>3 DEF StacksInv, StacksTyped
  <2>8. StacksTyped'
    BY <2>1, <2>6, <2>7 DEF StacksInv, StacksTyped
  <2>9. \A c \in Creators : Filling(c)' = Filling(c)
    BY <2>1 DEF Filling
  <2>10. CreatorsPlaced'
    BY <2>1, <2>9 DEF StacksInv, CreatorsPlaced
  <2>11. FilledSoFar'
    <3>1. \A c \in Creators : Filling(c) => creator[c].stack \in StackIds
      BY StackOfCommand
    <3> QED BY <2>1, <2>3, <2>7, <2>9, <3>1 DEF StacksInv, FilledSoFar
  <2>12. EntriesFollowArguments'
    <3> SUFFICES ASSUME NEW i \in StackIds, NEW e \in stacks'[i].entries
                 PROVE  /\ e.at \in DOMAIN stacks'[i].given /\ stacks'[i].given[e.at] = e.file[2]
                        /\ \A d \in stacks'[i].entries : d.at = e.at => d = e
      BY DEF EntriesFollowArguments
    <3>1. stacks[i].server # server
      BY <2>2, <2>3, <2>7
    <3>2. stacks'[i].given = stacks[i].given /\ stacks'[i].entries \subseteq stacks[i].entries
      BY <2>3, <2>7, <3>1
    <3> QED BY <3>2 DEF StacksInv, EntriesFollowArguments
  <2>13. \A f \in Range(files') \ {Absent} : f \in Range(files) /\ f[1] # server
    BY <2>4, <2>6 DEF Range
  <2>14. \A f \in Range(files) \ {Absent} : f[1] # server => f \in Range(files')
    BY <2>5, <2>6 DEF Range
  <2>15. NoOrphans'
    <3>1. ASSUME NEW i \in StackIds
          PROVE  /\ stacks'[i].server \in known' \cup {Absent}
                 /\ \A e \in stacks'[i].entries : e.file \in Range(files') \ {Absent} /\ stacks'[i].server # Absent
      <4>1. stacks[i].server \in known \cup {Absent}
            /\ \A e \in stacks[i].entries : e.file \in Range(files) \ {Absent} /\ stacks[i].server # Absent
        BY DEF StacksInv, NoOrphans
      <4>2. CASE stacks[i].server = server
        BY <4>2, <2>2, <2>3, <2>7
      <4>3. CASE stacks[i].server # server
        BY <4>1, <4>3, <2>1, <2>3, <2>7, <2>14
      <4> QED BY <4>2, <4>3
    <3>2. \A f \in Range(files') \ {Absent} : f[1] \in known'
      BY <2>1, <2>13 DEF StacksInv, NoOrphans
    <3>3. \A q \in DOMAIN edges' : q[1] \in known'
      BY <2>1 DEF StacksInv, NoOrphans
    <3> QED BY <3>1, <3>2, <3>3 DEF NoOrphans
  <2> QED BY <2>8, <2>10, <2>11, <2>12, <2>15 DEF StacksInv
<1>10. ASSUME NEW server \in Machines, NEW path \in Paths, ImportFile(server, path) PROVE StacksInv'
  <2> DEFINE row == <<server, path>>
  <2>1. row \in FileRows /\ row[1] = server
    BY DockerStacksAssumption DEF FileRows, Docs
  <2> HIDE DEF row
  <2>2. server \in known /\ files' = Append(files, row) /\ UNCHANGED <<known, stacks, stackIds, edges, creator>>
    BY <1>10 DEF ImportFile, row
  <2>3. files' \in Seq(FileRows \cup {Absent}) /\ Range(files) \subseteq Range(files')
        /\ \A f \in Range(files') \ {Absent} : f[1] \in known
    BY <2>1, <2>2, GrowFiles DEF StacksInv, StacksTyped, NoOrphans
  <2> QED BY <2>2, <2>3 DEF StacksInv, StacksTyped, CreatorsPlaced, Filling, FilledSoFar, EntriesFollowArguments,
                            NoOrphans
<1> QED
  BY <1>0, <1>1, <1>2, <1>3, <1>4, <1>5, <1>6, <1>7, <1>8, <1>9, <1>10 DEF StacksNext

LEMMA StacksAlways == StacksSpec => []StacksInv
  BY StacksStart, StacksStep, PTL DEF StacksSpec

(* However many `docker stack create` commands, removals of servers or stacks *)
(* and imports of scans interleave, statement by statement and without a      *)
(* transaction, no stack, entry, compose file or dependency outlives what it   *)
(* belongs to (Orchestrator::create_stack_from_compose, add_compose_to_stack,  *)
(* delete_stack; the foreign keys of migration 011).                          *)
THEOREM StacksLeaveNoOrphans == StacksSpec => []NoOrphans
  BY StacksAlways, PTL DEF StacksInv

(* The execution_order of a stack's entries is that of the -f arguments of    *)
(* the one command that created it, without ties, for any argument lists,     *)
(* repeated paths and files another server's row stands for included           *)
(* (create_stack_from_compose, add_compose_to_stack).                          *)
THEOREM StackEntriesFollowArguments == StacksSpec => []EntriesFollowArguments
  BY StacksAlways, PTL DEF StacksInv

(* Whatever was skipped, removed or killed meanwhile, `docker stack show` lists *)
(* files in the order of the command line: entries have different positions in  *)
(* it, so that ORDER BY execution_order (Orchestrator::get_stack) leaves one    *)
(* list, that of the arguments without what is gone or was never stored.       *)
THEOREM StacksShowFilesAsGiven == StacksSpec => []FilesAsGiven
<1>1. StacksInv => FilesAsGiven
  <2> SUFFICES ASSUME StacksInv, NEW i \in StackIds, NEW shown \in get_stack(i)
               PROVE  \E position \in [DOMAIN shown -> DOMAIN stacks[i].given] :
                        /\ \A j, k \in DOMAIN shown : j < k => position[j] < position[k]
                        /\ \A j \in DOMAIN shown : stacks[i].given[position[j]] = shown[j].file[2]
    BY DEF FilesAsGiven
  <2> DEFINE position == [j \in DOMAIN shown |-> shown[j].at]
             n == Cardinality(stacks[i].entries)
  <2>1. /\ shown \in [1..n -> stacks[i].entries] /\ \A j, k \in 1..n : j # k => shown[j] # shown[k]
        /\ \A j, k \in DOMAIN shown : j < k => shown[j].at <= shown[k].at
    BY DEF get_stack, SetToSeqs, IsInjective
  <2> HIDE DEF n
  <2>2. DOMAIN shown = 1..n /\ \A j \in 1..n : j \in Int
    BY <2>1
  <2>3. \A j \in 1..n : /\ shown[j] \in stacks[i].entries /\ shown[j].at \in DOMAIN stacks[i].given
                        /\ stacks[i].given[shown[j].at] = shown[j].file[2]
    BY <2>1 DEF StacksInv, EntriesFollowArguments
  <2>4. DOMAIN stacks[i].given \subseteq Int
    BY DEF StacksInv, StacksTyped, StackRows
  <2>5. ASSUME NEW j \in 1..n, NEW k \in 1..n, j < k PROVE shown[j].at < shown[k].at
    <3>1. shown[j].at # shown[k].at
      BY <2>1, <2>2, <2>3, <2>5 DEF StacksInv, EntriesFollowArguments
    <3> QED
      BY <3>1, <2>1, <2>2, <2>3, <2>4, <2>5
  <2>6. position \in [DOMAIN shown -> DOMAIN stacks[i].given] /\ \A j \in DOMAIN shown : position[j] = shown[j].at
    BY <2>2, <2>3
  <2>7. \A j, k \in DOMAIN shown : j < k => position[j] < position[k]
    BY <2>2, <2>5, <2>6
  <2>8. \A j \in DOMAIN shown : stacks[i].given[position[j]] = shown[j].file[2]
    BY <2>2, <2>3, <2>6
  <2> HIDE DEF position
  <2> QED
    BY <2>6, <2>7, <2>8, Zenon
<1> QED
  BY <1>1, StacksAlways, PTL

----------------------------------------------------------------------------
(* topological_sort                                                         *)

SortNodes == Nodes(sort.graph, sort.asked)
Needing(n) == {s \in sort.asked : n \in sort.graph[s]}

SortTyped ==
    /\ sort \in [asked : SUBSET UnitSet, graph : [UnitSet -> SUBSET UnitSet], degree : [UnitSet -> Nat],
                 queue : Seq(UnitSet), result : Seq(UnitSet)]
    /\ \A s \in UnitSet \ sort.asked : sort.graph[s] = {}

\* the degree of a node counts those that need it and are not in the result; who has none
\* is in the result or the queue
DegreesCount ==
    /\ \A n \in UnitSet : sort.degree[n] = Cardinality(Needing(n) \ Range(sort.result))
    /\ \A n \in UnitSet : n \in Range(sort.result) \cup Range(sort.queue) <=> n \in SortNodes /\ sort.degree[n] = 0

\* nobody is listed twice
ListedOnce ==
    /\ IsInjective(sort.result) /\ IsInjective(sort.queue)
    /\ Range(sort.result) \cap Range(sort.queue) = {}

\* before a node come all that need it
NeedingFirst ==
    \A j \in DOMAIN sort.result : \A s \in Needing(sort.result[j]) : \E i \in DOMAIN sort.result : i < j /\ sort.result[i] = s

OrderInv == SortTyped /\ DegreesCount /\ ListedOnce /\ NeedingFirst

LEMMA UnitsFinite == IsFiniteSet(UnitSet) /\ (\A S \in SUBSET UnitSet : IsFiniteSet(S) /\ Cardinality(S) \in Nat)
<1>1. Units \in Seq(UnitSet) /\ Len(Units) \in Nat /\ DOMAIN Units = 1..Len(Units)
  BY StartOrderAssumption DEF UnitSet
<1>2. Units \in Surjection(1..Len(Units), UnitSet)
  BY <1>1 DEF Surjection, UnitSet, Range
<1>3. IsFiniteSet(1..Len(Units))
  BY <1>1, FS_Interval
<1>4. IsFiniteSet(UnitSet)
  BY <1>2, <1>3, FS_Surjection
<1> QED
  BY <1>4, FS_Subset, FS_CardinalityType

\* Services in the order of their names are listed once each.
LEMMA NamesListed ==
    ASSUME NEW S \in SUBSET UnitSet
    PROVE  /\ InNameOrder(S) \in Seq(UnitSet) /\ Range(InNameOrder(S)) = S /\ IsInjective(InNameOrder(S))
<1> DEFINE list == InNameOrder(S)
<1>1. StrictOrder(S, InSequence(Units))
  <2>1. Units \in Seq(Range(Units)) /\ \A i, j \in DOMAIN Units : Units[i] = Units[j] => i = j
    BY StartOrderAssumption DEF IsInjective
  <2>2. S \subseteq Range(Units)
    BY DEF UnitSet
  <2> QED
    BY <2>1, <2>2, SequenceOrder
<1>2. Lists(list, S)
  BY <1>1, UnitsFinite, InOrderLists DEF InNameOrder
<1> HIDE DEF list
<1>3. list \in Seq(S) /\ list \in Seq(UnitSet)
  BY <1>2, SeqMonotonic DEF Lists
<1>4. Range(list) \in SUBSET S
  BY <1>3, RangeOfSeq
<1>5. S \subseteq Range(list)
  BY <1>2 DEF Lists, Range
<1>6. IsInjective(list)
  BY <1>2 DEF Lists, IsInjective
<1> QED
  BY <1>3, <1>4, <1>5, <1>6 DEF list

\* One sequence after another, without an element in common.
LEMMA Joined ==
    ASSUME NEW S, NEW s \in Seq(S), NEW t \in Seq(S), IsInjective(s), IsInjective(t), Range(s) \cap Range(t) = {}
    PROVE  s \o t \in Seq(S) /\ IsInjective(s \o t) /\ Range(s \o t) = Range(s) \cup Range(t)
<1> DEFINE u == s \o t
<1>1. /\ u \in Seq(S) /\ Len(u) = Len(s) + Len(t) /\ Len(s) \in Nat /\ Len(t) \in Nat
      /\ \A i \in 1..(Len(s) + Len(t)) : u[i] = IF i <= Len(s) THEN s[i] ELSE t[i - Len(s)]
      /\ DOMAIN u = 1..Len(u) /\ DOMAIN s = 1..Len(s) /\ DOMAIN t = 1..Len(t)
  BY ConcatProperties
<1>2. Range(u) = Range(s) \cup Range(t)
  BY RangeConcatenation
<1> HIDE DEF u
<1>3. ASSUME NEW i \in DOMAIN u, NEW j \in DOMAIN u, u[i] = u[j] PROVE i = j
  <2>1. CASE i <= Len(s) /\ j <= Len(s)
    BY <2>1, <1>1, <1>3 DEF IsInjective
  <2>2. CASE i > Len(s) /\ j > Len(s)
    <3>1. i - Len(s) \in DOMAIN t /\ j - Len(s) \in DOMAIN t /\ u[i] = t[i - Len(s)] /\ u[j] = t[j - Len(s)]
      BY <2>2, <1>1
    <3>2. i - Len(s) = j - Len(s)
      BY <3>1, <1>3 DEF IsInjective
    <3> QED
      BY <3>2, <1>1
  <2>3. CASE i <= Len(s) /\ j > Len(s)
    <3>1. i \in DOMAIN s /\ j - Len(s) \in DOMAIN t /\ u[i] = s[i] /\ u[j] = t[j - Len(s)]
      BY <2>3, <1>1
    <3>2. s[i] \in Range(s) /\ t[j - Len(s)] \in Range(t)
      BY <3>1 DEF Range
    <3> QED
      BY <3>1, <3>2, <1>3
  <2>4. CASE i > Len(s) /\ j <= Len(s)
    <3>1. j \in DOMAIN s /\ i - Len(s) \in DOMAIN t /\ u[j] = s[j] /\ u[i] = t[i - Len(s)]
      BY <2>4, <1>1
    <3>2. s[j] \in Range(s) /\ t[i - Len(s)] \in Range(t)
      BY <3>1 DEF Range
    <3> QED
      BY <3>1, <3>2, <1>3
  <2> QED
    BY <2>1, <2>2, <2>3, <2>4, <1>1
<1> QED
  BY <1>1, <1>2, <1>3 DEF IsInjective, u

LEMMA OrderStart == OrderInit => OrderInv
<1> SUFFICES ASSUME OrderInit PROVE OrderInv
  OBVIOUS
<1> USE DEF OrderInit, NoSort
<1>1. << >> \in Seq(UnitSet) /\ Range(<< >>) = {} /\ IsInjective(<< >>) /\ DOMAIN << >> = {}
  BY EmptySeq DEF Range, IsInjective
<1>2. sort.asked = {} /\ sort.queue = << >> /\ sort.result = << >> /\ \A n \in UnitSet : sort.graph[n] = {} /\ sort.degree[n] = 0
  OBVIOUS
<1>3. SortTyped
  BY <1>1 DEF SortTyped
<1>4. DegreesCount
  <2>1. \A n : Needing(n) \ Range(sort.result) = {}
    BY <1>2 DEF Needing
  <2>2. SortNodes = {}
    BY <1>2 DEF SortNodes, Nodes
  <2> QED
    BY <2>1, <2>2, <1>1, <1>2, FS_EmptySet DEF DegreesCount
<1>5. ListedOnce /\ NeedingFirst
  BY <1>1, <1>2 DEF ListedOnce, NeedingFirst
<1> QED
  BY <1>3, <1>4, <1>5 DEF OrderInv

LEMMA SortStarts ==
    ASSUME OrderInv, NEW asked \in SUBSET UnitSet, calculate_start_order(asked)
    PROVE  OrderInv'
<1> DEFINE graph == GraphOf(asked)
           degree == [n \in UnitSet |-> Cardinality({s \in asked : n \in graph[s]})]
           first == {n \in Nodes(graph, asked) : degree[n] = 0}
<1>1. sort' = [asked |-> asked, graph |-> graph, degree |-> degree, result |-> << >>, queue |-> InNameOrder(first)]
  BY DEF calculate_start_order
<1>2. graph \in [UnitSet -> SUBSET UnitSet] /\ \A s \in UnitSet \ asked : graph[s] = {}
  BY DEF GraphOf, get_dependencies
<1> HIDE DEF graph
<1>3. \A n \in UnitSet : degree[n] = Cardinality({s \in asked : n \in graph[s]}) /\ degree[n] \in Nat
  <2> SUFFICES ASSUME NEW n \in UnitSet PROVE Cardinality({s \in asked : n \in graph[s]}) \in Nat
    OBVIOUS
  <2>1. {s \in asked : n \in graph[s]} \in SUBSET UnitSet
    OBVIOUS
  <2> QED
    BY <2>1, UnitsFinite
<1>4. Nodes(graph, asked) \subseteq UnitSet
  BY <1>2 DEF Nodes
<1>5. degree \in [UnitSet -> Nat]
  BY <1>3
<1> HIDE DEF degree
<1>6. first \in SUBSET UnitSet /\ \A n \in UnitSet : n \in first <=> n \in Nodes(graph, asked) /\ degree[n] = 0
  BY <1>4
<1> HIDE DEF first
<1>7. InNameOrder(first) \in Seq(UnitSet) /\ Range(InNameOrder(first)) = first /\ IsInjective(InNameOrder(first))
  BY <1>6, NamesListed
<1>8. << >> \in Seq(UnitSet) /\ Range(<< >>) = {} /\ IsInjective(<< >>) /\ DOMAIN << >> = {}
  BY EmptySeq DEF Range, IsInjective
<1>9. sort'.asked = asked /\ sort'.graph = graph /\ sort'.degree = degree /\ sort'.result = << >> /\ sort'.queue = InNameOrder(first)
  BY <1>1
<1>10. SortTyped'
  BY <1>1, <1>2, <1>5, <1>7, <1>8 DEF SortTyped
<1>11. DegreesCount'
  <2>1. \A n : Needing(n)' \ Range(sort'.result) = {s \in asked : n \in graph[s]}
    BY <1>8, <1>9 DEF Needing
  <2>2. SortNodes' = Nodes(graph, asked)
    BY <1>9 DEF SortNodes
  <2> QED
    BY <2>1, <2>2, <1>3, <1>6, <1>7, <1>8, <1>9 DEF DegreesCount
<1>12. ListedOnce' /\ NeedingFirst'
  BY <1>7, <1>8, <1>9 DEF ListedOnce, NeedingFirst
<1> QED
  BY <1>10, <1>11, <1>12 DEF OrderInv

LEMMA SortGoesOn ==
    ASSUME OrderInv, topological_sort
    PROVE  OrderInv'
<1> DEFINE node == Head(sort.queue)
           rest == Tail(sort.queue)
           neighbors == sort.graph[node]
           left == [n \in UnitSet |-> IF n \in neighbors THEN sort.degree[n] - 1 ELSE sort.degree[n]]
           freed == {n \in neighbors : left[n] = 0}
           more == InNameOrder(freed)
           done == Range(sort.result)
<1>1. /\ sort.queue # << >>
      /\ sort' = [sort EXCEPT !.result = Append(@, node), !.degree = left, !.queue = Tail(@) \o more]
  BY DEF topological_sort
<1>2. /\ sort.queue \in Seq(UnitSet) /\ sort.result \in Seq(UnitSet) /\ sort.asked \subseteq UnitSet
      /\ sort.graph \in [UnitSet -> SUBSET UnitSet] /\ sort.degree \in [UnitSet -> Nat]
      /\ \A s \in UnitSet \ sort.asked : sort.graph[s] = {}
  BY DEF OrderInv, SortTyped
<1>3. /\ node \in UnitSet /\ rest \in Seq(UnitSet) /\ Range(sort.queue) = Range(rest) \cup {node} /\ node \notin Range(rest)
      /\ IsInjective(rest)
  <2> DEFINE q == sort.queue
  <2>1. q \in Seq(UnitSet) /\ q # << >> /\ IsInjective(q)
    BY <1>1, <1>2 DEF OrderInv, ListedOnce
  <2> HIDE DEF q
  <2>2. /\ Head(q) \in UnitSet /\ Tail(q) \in Seq(UnitSet) /\ Len(Tail(q)) = Len(q) - 1 /\ Head(q) = q[1] /\ Len(q) \in Nat \ {0}
        /\ \A i \in 1..Len(Tail(q)) : Tail(q)[i] = q[i + 1]
    BY <2>1, HeadTailProperties, EmptySeq
  <2>3. DOMAIN q = 1..Len(q) /\ DOMAIN Tail(q) = 1..Len(Tail(q))
    BY <2>1, <2>2
  <2>4. Range(q) = Range(Tail(q)) \cup {Head(q)}
    <3>1. ASSUME NEW i \in 1..Len(q), i # 1 PROVE q[i] \in Range(Tail(q))
      <4>1. i - 1 \in 1..Len(Tail(q)) /\ Tail(q)[i - 1] = q[(i - 1) + 1] /\ (i - 1) + 1 = i
        BY <3>1, <2>2
      <4> QED
        BY <4>1, <2>3 DEF Range
    <3>2. \A i \in 1..Len(Tail(q)) : i + 1 \in 1..Len(q) /\ Tail(q)[i] = q[i + 1]
      BY <2>2
    <3> QED
      BY <3>1, <3>2, <2>2, <2>3 DEF Range
  <2>5. Head(q) \notin Range(Tail(q)) /\ IsInjective(Tail(q))
    <3>1. \A i \in 1..Len(Tail(q)) : i + 1 \in 1..Len(q) /\ Tail(q)[i] = q[i + 1] /\ i + 1 # 1
      BY <2>2
    <3>2. 1 \in 1..Len(q)
      BY <2>2
    <3>3. \A i, j \in 1..Len(q) : q[i] = q[j] => i = j
      BY <2>1, <2>3 DEF IsInjective
    <3>4. \A i \in 1..Len(Tail(q)) : Tail(q)[i] # Head(q)
      BY <3>1, <3>2, <3>3, <2>2
    <3>5. \A i, j \in 1..Len(Tail(q)) : Tail(q)[i] = Tail(q)[j] => i = j
      BY <3>1, <3>3, <2>2
    <3> QED
      BY <3>4, <3>5, <2>3 DEF Range, IsInjective
  <2> QED
    BY <2>2, <2>4, <2>5 DEF q
<1> HIDE DEF node, rest
<1>4. node \in SortNodes /\ sort.degree[node] = 0 /\ node \notin done
  BY <1>3 DEF OrderInv, DegreesCount, ListedOnce
<1>5. \A n \in UnitSet : n \in neighbors <=> node \in Needing(n)
  BY <1>2, <1>3 DEF Needing
<1>6. neighbors \subseteq UnitSet
  BY <1>2, <1>3
<1> HIDE DEF neighbors
<1>7. \A n \in UnitSet : Needing(n) \in SUBSET UnitSet /\ IsFiniteSet(Needing(n) \ done)
                         /\ sort.degree[n] = Cardinality(Needing(n) \ done)
  BY <1>2, UnitsFinite DEF Needing, OrderInv, DegreesCount
<1>8. \A n \in neighbors : sort.degree[n] > 0
  <2> SUFFICES ASSUME NEW n \in neighbors PROVE sort.degree[n] > 0
    OBVIOUS
  <2>1. node \in Needing(n) \ done
    BY <1>4, <1>5, <1>6
  <2>2. Cardinality(Needing(n) \ done) # 0
    BY <2>1, <1>6, <1>7, FS_EmptySet
  <2>3. sort.degree[n] \in Nat /\ sort.degree[n] # 0
    BY <2>2, <1>2, <1>6, <1>7
  <2> QED
    BY <2>3
<1>9. left \in [UnitSet -> Nat] /\ \A n \in UnitSet : left[n] = Cardinality(Needing(n) \ (done \cup {node}))
  <2> SUFFICES ASSUME NEW n \in UnitSet
               PROVE  left[n] \in Nat /\ left[n] = Cardinality(Needing(n) \ (done \cup {node}))
    OBVIOUS
  <2>1. Needing(n) \ (done \cup {node}) = (Needing(n) \ done) \ {node}
    OBVIOUS
  <2>2. Cardinality((Needing(n) \ done) \ {node}) =
          IF node \in Needing(n) \ done THEN Cardinality(Needing(n) \ done) - 1 ELSE Cardinality(Needing(n) \ done)
    BY <1>7, FS_RemoveElement
  <2>3. node \in Needing(n) \ done <=> n \in neighbors
    BY <1>4, <1>5
  <2>4. sort.degree[n] \in Nat /\ (n \in neighbors => sort.degree[n] > 0)
    BY <1>2, <1>8
  <2>5. left[n] = IF n \in neighbors THEN sort.degree[n] - 1 ELSE sort.degree[n]
    OBVIOUS
  <2>6. sort.degree[n] = Cardinality(Needing(n) \ done)
    BY <1>7
  <2> DEFINE fewer == (Needing(n) \ done) \ {node}
  <2> HIDE DEF left, fewer
  <2>7. Cardinality(fewer) = left[n]
    BY <2>2, <2>3, <2>5, <2>6 DEF fewer
  <2>8. left[n] \in Nat
    BY <2>4, <2>5
  <2> QED
    BY <2>1, <2>7, <2>8 DEF fewer
<1>10. \A n \in UnitSet \ neighbors : left[n] = sort.degree[n]
  OBVIOUS
<1> HIDE DEF left
<1>11. freed \in SUBSET UnitSet /\ freed \subseteq neighbors
  BY <1>6
<1>12. more \in Seq(UnitSet) /\ Range(more) = freed /\ IsInjective(more)
  BY <1>11, NamesListed
<1> HIDE DEF more
<1>13. freed \cap (done \cup Range(sort.queue)) = {}
  BY <1>8, <1>11 DEF OrderInv, DegreesCount
<1>14. rest \o more \in Seq(UnitSet) /\ IsInjective(rest \o more) /\ Range(rest \o more) = Range(rest) \cup freed
  BY <1>3, <1>12, <1>13, Joined
<1> HIDE DEF done
<1> DEFINE result == Append(sort.result, node)
<1>15. /\ result \in Seq(UnitSet) /\ IsInjective(result) /\ Range(result) = done \cup {node}
       /\ Len(result) = Len(sort.result) + 1 /\ Len(sort.result) \in Nat
       /\ result[Len(sort.result) + 1] = node /\ \A i \in 1..Len(sort.result) : result[i] = sort.result[i]
  <2>1. result = sort.result \o <<node>>
    BY <1>2, <1>3, AppendIsConcat
  <2>2. <<node>> \in Seq(UnitSet) /\ IsInjective(<<node>>) /\ Range(<<node>>) = {node}
    BY <1>3 DEF IsInjective, Range
  <2>3. IsInjective(sort.result) /\ done \cap {node} = {}
    BY <1>4 DEF OrderInv, ListedOnce
  <2> DEFINE one == <<node>>
  <2>6. sort.result \in Seq(UnitSet) /\ Range(sort.result) = done
    BY <1>2 DEF done
  <2>7. result = sort.result \o one /\ one \in Seq(UnitSet) /\ IsInjective(one) /\ Range(one) = {node}
    BY <2>1, <2>2
  <2> DEFINE old == sort.result
  <2> HIDE DEF result, one
  <2>8. old \in Seq(UnitSet) /\ IsInjective(old) /\ Range(old) \cap Range(one) = {}
    BY <2>3, <2>6, <2>7
  <2> HIDE DEF old
  <2>9. old \o one \in Seq(UnitSet) /\ IsInjective(old \o one) /\ Range(old \o one) = Range(old) \cup Range(one)
    BY <2>7, <2>8, Joined
  <2>4. result \in Seq(UnitSet) /\ IsInjective(result) /\ Range(result) = done \cup {node}
    BY <2>6, <2>7, <2>9 DEF old
  <2>5. /\ Len(result) = Len(sort.result) + 1 /\ Len(sort.result) \in Nat
        /\ result[Len(sort.result) + 1] = node /\ \A i \in 1..Len(sort.result) : result[i] = sort.result[i]
    BY <1>2, <1>3, AppendProperties DEF result
  <2> QED
    BY <2>4, <2>5
<1>16. /\ sort'.asked = sort.asked /\ sort'.graph = sort.graph /\ sort'.degree = left /\ sort'.result = result
       /\ sort'.queue = rest \o more
       /\ sort' \in [asked : {sort.asked}, graph : {sort.graph}, degree : {left}, queue : {rest \o more}, result : {result}]
  BY <1>1 DEF OrderInv, SortTyped, rest
<1> HIDE DEF result
<1>17. SortTyped'
  BY <1>2, <1>9, <1>14, <1>15, <1>16 DEF SortTyped
<1>18. \A n : Needing(n)' = Needing(n)
  BY <1>16 DEF Needing
<1>19. SortNodes' = SortNodes
  BY <1>16 DEF SortNodes
<1>20. DegreesCount'
  <2>1. \A n \in UnitSet : left[n] = Cardinality(Needing(n)' \ Range(sort'.result))
    BY <1>9, <1>15, <1>16, <1>18
  <2>2. ASSUME NEW n \in UnitSet
        PROVE  n \in Range(sort'.result) \cup Range(sort'.queue) <=> n \in SortNodes /\ left[n] = 0
    <3>1. n \in Range(sort'.result) \cup Range(sort'.queue) <=> n \in done \cup Range(sort.queue) \/ n \in freed
      BY <1>3, <1>14, <1>15, <1>16
    <3>2. n \in done \cup Range(sort.queue) <=> n \in SortNodes /\ sort.degree[n] = 0
      BY DEF OrderInv, DegreesCount, done
    <3>3. CASE n \in neighbors
      <4>1. n \in SortNodes
        <5>1. node \in sort.asked
          BY <3>3, <1>5 DEF Needing
        <5> QED
          BY <5>1, <3>3 DEF SortNodes, Nodes, neighbors
      <4> QED
        BY <4>1, <3>1, <3>2, <3>3, <1>8
    <3>4. CASE n \notin neighbors
      BY <3>1, <3>2, <3>4, <1>10
    <3> QED
      BY <3>3, <3>4
  <2> QED
    BY <2>1, <2>2, <1>16, <1>19 DEF DegreesCount
<1>21. ListedOnce'
  BY <1>3, <1>4, <1>13, <1>14, <1>15, <1>16 DEF ListedOnce, OrderInv, done
<1>22. NeedingFirst'
  <2> SUFFICES ASSUME NEW j \in 1..(Len(sort.result) + 1), NEW s \in Needing(result[j])
               PROVE  \E i \in 1..(Len(sort.result) + 1) : i < j /\ result[i] = s
    <3>1. DOMAIN result = 1..(Len(sort.result) + 1)
      BY <1>15
    <3> QED
      BY <3>1, <1>16 DEF NeedingFirst, Needing
  <2>1. DOMAIN sort.result = 1..Len(sort.result)
    BY <1>2
  <2>2. CASE j \in 1..Len(sort.result)
    <3>1. s \in Needing(sort.result[j])
      BY <2>2, <1>15
    <3>2. PICK i \in 1..Len(sort.result) : i < j /\ sort.result[i] = s
      BY <3>1, <2>1, <2>2 DEF OrderInv, NeedingFirst
    <3> QED
      BY <3>2, <1>15
  <2>3. CASE j = Len(sort.result) + 1
    <3>1. Needing(node) \ done = {}
      BY <1>3, <1>4, <1>7, FS_EmptySet
    <3>2. s \in done
      BY <3>1, <2>3, <1>15
    <3>3. PICK i \in 1..Len(sort.result) : sort.result[i] = s
      BY <3>2, <2>1 DEF Range, done
    <3> QED
      BY <3>3, <2>3, <1>15
  <2> QED
    BY <2>2, <2>3, <1>15
<1> QED
  BY <1>17, <1>20, <1>21, <1>22 DEF OrderInv

LEMMA OrderStep == OrderInv /\ [OrderNext]_orderVars => OrderInv'
<1> SUFFICES ASSUME OrderInv, [OrderNext]_orderVars PROVE OrderInv'
  OBVIOUS
<1>1. CASE \E asked \in SUBSET UnitSet : calculate_start_order(asked)
  BY <1>1, SortStarts
<1>2. CASE topological_sort
  BY <1>2, SortGoesOn
<1>3. CASE UNCHANGED orderVars
  BY <1>3 DEF orderVars, OrderInv, SortTyped, DegreesCount, ListedOnce, NeedingFirst, Needing, SortNodes
<1> QED
  BY <1>1, <1>2, <1>3 DEF OrderNext

\* An edge leads, and leading is transitive.
LEMMA LeadsOn ==
    ASSUME sort.graph \in [UnitSet -> SUBSET UnitSet]
    PROVE  /\ \A a \in UnitSet : \A b \in sort.graph[a] : Leads(a, b)
           /\ \A a, b, c \in UnitSet : Leads(a, b) /\ Leads(b, c) => Leads(a, c)
  BY DEF Leads

\* What is listed lies on no cycle and behind none.
LEMMA ListedIsNotBlocked ==
    ASSUME OrderInv
    PROVE  Range(sort.result) \cap Blocked = {}
<1> DEFINE done == Range(sort.result)
<1>1. sort.result \in Seq(UnitSet) /\ sort.graph \in [UnitSet -> SUBSET UnitSet] /\ DOMAIN sort.result \subseteq Int
      /\ done \subseteq UnitSet /\ \A n \in done : \E i \in DOMAIN sort.result : sort.result[i] = n
  BY RangeOfSeq DEF OrderInv, SortTyped, Range
<1>2. ASSUME NEW c \in UnitSet, NEW k \in DOMAIN sort.result, sort.result[k] \in sort.graph[c]
      PROVE  \E i \in DOMAIN sort.result : i < k /\ sort.result[i] = c
  <2>1. c \in sort.asked
    BY <1>2 DEF OrderInv, SortTyped
  <2>2. c \in Needing(sort.result[k])
    BY <1>2, <2>1 DEF Needing
  <2> QED
    BY <2>2 DEF OrderInv, NeedingFirst
<1>3. \A i, j \in DOMAIN sort.result : sort.result[i] = sort.result[j] => i = j
  BY DEF OrderInv, ListedOnce, IsInjective
<1>4. \A i \in DOMAIN sort.result : sort.result[i] \in done
  BY DEF Range
<1> HIDE DEF done
<1>5. ASSUME NEW m \in UnitSet \ done, NEW n \in done, Leads(m, n)
      PROVE  FALSE
  <2> DEFINE C == UnitSet \ done
  <2>1. \A c \in C : sort.graph[c] \subseteq C
    BY <1>1, <1>2, <1>4
  <2>2. n \in C
    BY <2>1, <1>5 DEF Leads
  <2> QED
    BY <2>2
<1>6. ASSUME NEW j \in DOMAIN sort.result, Leads(sort.result[j], sort.result[j])
      PROVE  FALSE
  <2> DEFINE C == {c \in UnitSet : \A i \in DOMAIN sort.result : sort.result[i] = c => i > j}
  <2>1. ASSUME NEW c \in UnitSet, c = sort.result[j] \/ c \in C, NEW d \in sort.graph[c]
        PROVE  d \in C
    <3>1. SUFFICES ASSUME NEW k \in DOMAIN sort.result, sort.result[k] = d PROVE k > j
      BY <1>1, <2>1
    <3>2. PICK i \in DOMAIN sort.result : i < k /\ sort.result[i] = c
      BY <3>1, <2>1, <1>2
    <3>3. i >= j
      BY <3>2, <2>1, <1>1, <1>3
    <3> QED
      BY <3>2, <3>3, <1>1
  <2>2. sort.result[j] \in UnitSet
    BY <1>1, <1>4
  <2>3. sort.graph[sort.result[j]] \subseteq C /\ (\A c \in C : sort.graph[c] \subseteq C) /\ C \in SUBSET UnitSet
    BY <2>1, <2>2
  <2>4. sort.result[j] \in C
    BY <2>3, <1>6 DEF Leads
  <2> QED
    BY <2>4, <1>1
<1>7. SUFFICES ASSUME NEW n \in done, NEW m \in UnitSet, Leads(m, m), n = m \/ Leads(m, n) PROVE FALSE
  BY DEF Blocked, done
<1>8. m \in done
  BY <1>5, <1>7
<1> QED
  BY <1>1, <1>6, <1>7, <1>8

\* When the queue is empty, who is not listed has somebody who is not listed and needs it:
\* going back that way in a finite graph ends in a cycle.
LEMMA UnlistedIsBlocked ==
    ASSUME OrderInv, sort.queue = << >>
    PROVE  SortNodes \ Range(sort.result) \subseteq Blocked
<1> DEFINE L == SortNodes \ Range(sort.result)
<1>1. sort.graph \in [UnitSet -> SUBSET UnitSet] /\ sort.asked \subseteq UnitSet /\ sort.degree \in [UnitSet -> Nat]
  BY DEF OrderInv, SortTyped
<1>2. L \subseteq UnitSet
  BY <1>1 DEF SortNodes, Nodes
<1>3. ASSUME NEW l \in L PROVE \E s \in L : l \in sort.graph[s]
  <2>1. Range(sort.queue) = {}
    BY DEF Range
  <2>2. sort.degree[l] # 0
    BY <1>2, <2>1 DEF OrderInv, DegreesCount
  <2>3. Needing(l) \ Range(sort.result) # {}
    BY <1>2, <2>2, FS_EmptySet DEF OrderInv, DegreesCount
  <2>4. PICK s \in sort.asked : l \in sort.graph[s] /\ s \notin Range(sort.result)
    BY <2>3 DEF Needing
  <2> QED
    BY <2>4 DEF SortNodes, Nodes
<1> HIDE DEF L
<1>4. SUFFICES ASSUME NEW n \in L, \A m \in L : m = n \/ Leads(m, n) => ~Leads(m, m) PROVE FALSE
  BY <1>2 DEF Blocked, L
<1> DEFINE A == {m \in L : m = n \/ Leads(m, n)}
           Behind(m) == {x \in A : Leads(x, m)}
           sizes == {Cardinality(Behind(m)) : m \in A}
<1>5. A \in SUBSET UnitSet /\ n \in A /\ \A m \in A : ~Leads(m, m)
  BY <1>2, <1>4
<1>6. \A m \in A : \E s \in A : Leads(s, m)
  <2> SUFFICES ASSUME NEW m \in A PROVE \E s \in A : Leads(s, m)
    OBVIOUS
  <2>1. PICK s \in L : m \in sort.graph[s]
    BY <1>3
  <2>2. Leads(s, m) /\ s \in UnitSet /\ m \in UnitSet /\ n \in UnitSet
    BY <2>1, <1>1, <1>2, <1>5, LeadsOn
  <2>3. s \in A
    BY <2>2, <1>1, LeadsOn
  <2> QED
    BY <2>2, <2>3
<1> HIDE DEF A
<1>7. \A m : IsFiniteSet(Behind(m)) /\ Cardinality(Behind(m)) \in Nat
  <2> SUFFICES ASSUME NEW m PROVE IsFiniteSet(Behind(m)) /\ Cardinality(Behind(m)) \in Nat
    OBVIOUS
  <2>1. Behind(m) \in SUBSET UnitSet
    BY <1>5
  <2> QED
    BY <2>1, UnitsFinite
<1>8. PICK m \in A : \A x \in A : Cardinality(Behind(m)) <= Cardinality(Behind(x))
  <2>1. sizes \subseteq Nat /\ sizes # {}
    BY <1>5, <1>7
  <2>2. \E a \in sizes : \A b \in sizes : a <= b
    BY <2>1, LeastOf
  <2> QED
    BY <2>2
<1>9. PICK s \in A : Leads(s, m)
  BY <1>6
<1>10. Behind(s) \subseteq Behind(m) /\ s \in Behind(m) /\ s \notin Behind(s)
  BY <1>1, <1>5, <1>9, LeadsOn
<1> HIDE DEF Behind
<1>11. Cardinality(Behind(s)) < Cardinality(Behind(m))
  <2>1. Cardinality(Behind(s) \cup {s}) = Cardinality(Behind(s)) + 1
    BY <1>7, <1>10, FS_AddElement
  <2>2. Cardinality(Behind(s) \cup {s}) <= Cardinality(Behind(m))
    BY <1>7, <1>10, FS_Subset
  <2> QED
    BY <2>1, <2>2, <1>7
<1> QED
  BY <1>7, <1>8, <1>11

(* Orchestrator::topological_sort, on any dependency rows: when its queue is   *)
(* empty it has listed every service asked for or needed exactly once, always  *)
(* on the same side of what it needs, and has left out what lies on a cycle or *)
(* behind one, and nothing else.                                              *)
THEOREM SortListsWhatItCan == OrderSpec => []SortIsTopological
<1>1. OrderInv => SortIsTopological
  <2> SUFFICES ASSUME OrderInv, sort.queue = << >>
               PROVE  /\ IsInjective(sort.result)
                      /\ Range(sort.result) = Nodes(sort.graph, sort.asked) \ Blocked
                      /\ \A s \in Range(sort.result) : \A d \in sort.graph[s] \cap Range(sort.result) : Before(s, d)
    BY DEF SortIsTopological, Finished
  <2>1. IsInjective(sort.result)
    BY DEF OrderInv, ListedOnce
  <2>2. Range(sort.result) \subseteq SortNodes
    <3>1. sort.result \in Seq(UnitSet)
      BY DEF OrderInv, SortTyped
    <3>2. Range(sort.result) \in SUBSET UnitSet
      BY <3>1, RangeOfSeq
    <3> QED
      BY <3>2 DEF OrderInv, DegreesCount
  <2>3. Range(sort.result) = SortNodes \ Blocked
    BY <2>2, ListedIsNotBlocked, UnlistedIsBlocked
  <2>4. ASSUME NEW s \in Range(sort.result), NEW d \in sort.graph[s] \cap Range(sort.result)
        PROVE  Before(s, d)
    <3>1. PICK j \in DOMAIN sort.result : sort.result[j] = d
      BY DEF Range
    <3>2. s \in UnitSet
      BY <2>2 DEF SortNodes, Nodes, OrderInv, SortTyped
    <3>3. s \in sort.asked
      BY <3>2 DEF OrderInv, SortTyped
    <3>4. s \in Needing(sort.result[j])
      BY <3>1, <3>3 DEF Needing
    <3>5. PICK i \in DOMAIN sort.result : i < j /\ sort.result[i] = s
      BY <3>4 DEF OrderInv, NeedingFirst
    <3> QED
      BY <3>1, <3>5 DEF Before
  <2> QED
    BY <2>1, <2>3, <2>4 DEF SortNodes
<1> QED
  BY <1>1, OrderStart, OrderStep, PTL DEF OrderSpec

=============================================================================
