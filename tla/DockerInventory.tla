-------------------------- MODULE DockerInventory --------------------------
(***************************************************************************)
(* The control center's record of its servers and of what runs on them:    *)
(* docker_monitor/src/client.cpp (scan_server, register_agent) over the    *)
(* servers, containers, docker_images, ... tables of nexus.  Several nazg  *)
(* processes share the tables; each statement commits by itself.           *)
(***************************************************************************)
EXTENDS Integers, Sequences, FiniteSets

CONSTANTS
    Clients,    \* nazg processes
    Hosts,      \* machines with an agent
    Things,     \* containers, images, compose files, networks, volumes
    Table,      \* [Things -> the tables below]
    MaxIds,     \* rows ever inserted into servers
    Unset

ASSUME DockerInventoryAssumption ==
    /\ MaxIds \in Nat
    /\ Unset \notin Hosts

VARIABLES
    servers,  \* [id]: the row [host, status] of servers, or Unset
    lastId,   \* sqlite_sequence of servers (AUTOINCREMENT)
    rows,     \* rows <<id, thing, h>> of the tables with a server_id; h, the machine
              \* that listed the thing, is history
    named,    \* history: <<id, h>>: servers row id had host h
    client    \* [c]: the process' scan

inventoryVars == <<servers, lastId, rows, named, client>>

Ids == 1..MaxIds

\* the tables, in the order in which parse_and_store_scan goes through the answer
Tables == <<"containers", "docker_images", "compose_files", "docker_networks", "docker_volumes">>

\* list_servers
Rows == {id \in Ids : servers[id] # Unset}

NoRequest == [pc |-> "idle", id |-> 0, host |-> Unset, todo |-> {}]

InventoryInit ==
    /\ servers = [id \in Ids |-> Unset]
    /\ lastId = 0
    /\ rows = {} /\ named = {}
    /\ client = [c \in Clients |-> NoRequest]

----------------------------------------------------------------------------
(* Store: servers                                                           *)

\* mutant: INTEGER PRIMARY KEY without AUTOINCREMENT gives the largest id + 1
AddReusingId(h) ==
    LET id == IF Rows = {} THEN 1 ELSE 1 + CHOOSE i \in Rows : \A j \in Rows : j <= i IN
    /\ id \in Ids
    /\ servers' = [servers EXCEPT ![id] = [host |-> h, status |-> "unknown"]]
    /\ named' = {n \in named : n[1] # id} \cup {<<id, h>>}
    /\ UNCHANGED <<lastId, rows, client>>

\* under a label no row has (servers.label is UNIQUE)
add_server(h) ==
    /\ lastId < MaxIds
    /\ lastId' = lastId + 1
    /\ servers' = [servers EXCEPT ![lastId'] = [host |-> h, status |-> "unknown"]]
    /\ named' = named \cup {<<lastId', h>>}
    /\ UNCHANGED <<rows, client>>

\* ON DELETE CASCADE
delete_server(id) ==
    /\ id \in Rows
    /\ servers' = [servers EXCEPT ![id] = Unset]
    /\ rows' = {r \in rows : r[1] # id}
    /\ UNCHANGED <<lastId, named, client>>

update_server_connection(id, h) ==
    /\ id \in Rows
    /\ servers' = [servers EXCEPT ![id].host = h]
    /\ named' = named \cup {<<id, h>>}
    /\ UNCHANGED <<lastId, rows, client>>

\* UPDATE ... WHERE id = ?: no row, no effect (update_server_status, _heartbeat)
WithStatus(id, status) ==
    IF id \in Rows THEN [servers EXCEPT ![id].status = status] ELSE servers

update_server_status(id, status) == servers' = WithStatus(id, status)
update_server_heartbeat(id) == servers' = WithStatus(id, "online")

\* INSERT ... ON CONFLICT DO UPDATE; server_id REFERENCES servers(id), foreign_keys ON
Upsert(id, thing, h) ==
    IF id \in Rows
    THEN {r \in rows : ~(r[1] = id /\ r[2] = thing)} \cup {<<id, thing, h>>}
    ELSE rows

upsert_docker_image(id, thing, h) == Upsert(id, thing, h)
upsert_compose_file(id, thing, h) == Upsert(id, thing, h)
upsert_docker_network(id, thing, h) == Upsert(id, thing, h)
upsert_docker_volume(id, thing, h) == Upsert(id, thing, h)

\* binds '' to compose_file_id, which REFERENCES compose_files(id): always refused
upsert_container(id, thing, h) == rows

StoredIn(id, table) == {r[2] : r \in {q \in rows : q[1] = id /\ Table[q[2]] = table}}

list_containers_of(id) == StoredIn(id, "containers")
list_docker_images(id) == StoredIn(id, "docker_images")
list_compose_files(id) == StoredIn(id, "compose_files")
list_docker_networks(id) == StoredIn(id, "docker_networks")
list_docker_volumes(id) == StoredIn(id, "docker_volumes")

\* Client::get_scan_stats
get_scan_stats(id) ==
    list_containers_of(id) \cup list_docker_images(id) \cup list_compose_files(id)
      \cup list_docker_networks(id) \cup list_docker_volumes(id)

----------------------------------------------------------------------------
(* Client::scan_server and register_agent                                   *)

get_server_by_id(id) == servers[id]

\* get_server_id and get_server_by_id: the host is read once, before the request
BeginRequest(c, id, pc) ==
    /\ client[c].pc \in {"idle", "done"}
    /\ id \in Rows
    /\ client' = [client EXCEPT ![c] = [NoRequest EXCEPT !.pc = pc, !.id = id,
                                          !.host = get_server_by_id(id).host]]
    /\ UNCHANGED <<servers, lastId, rows, named>>

\* send_message_to_agent fails
RequestFails(c) ==
    /\ client[c].pc \in {"scan", "register"}
    /\ update_server_status(client[c].id, "offline")
    /\ client' = [client EXCEPT ![c] = NoRequest]
    /\ UNCHANGED <<lastId, rows, named>>

\* generate_full_scan_json on the agent, whatever Docker has there, and its arrival
ScanAnswered(c) ==
    /\ client[c].pc = "scan"
    /\ \E listed \in SUBSET Things :
          client' = [client EXCEPT ![c].pc = "store", ![c].todo = listed]
    /\ UNCHANGED <<servers, lastId, rows, named>>

Position(t) == CHOOSE i \in DOMAIN Tables : Tables[i] = Table[t]

\* parse_and_store_scan: one object; a row that is refused goes unnoticed
StoreThing(c, t) ==
    LET r == client[c] IN
    /\ r.pc = "store"
    /\ t \in r.todo
    /\ \A u \in r.todo : Position(t) <= Position(u)
    /\ rows' = CASE Table[t] = "containers" -> upsert_container(r.id, t, r.host)
                 [] Table[t] = "docker_images" -> upsert_docker_image(r.id, t, r.host)
                 [] Table[t] = "compose_files" -> upsert_compose_file(r.id, t, r.host)
                 [] Table[t] = "docker_networks" -> upsert_docker_network(r.id, t, r.host)
                 [] OTHER -> upsert_docker_volume(r.id, t, r.host)
    /\ client' = [client EXCEPT ![c].todo = @ \ {t}]
    /\ UNCHANGED <<servers, lastId, named>>

ScanStoredAll(c) ==
    /\ client[c].pc = "store"
    /\ client[c].todo = {}
    /\ update_server_status(client[c].id, "online")
    /\ client' = [client EXCEPT ![c].pc = "done"]
    /\ UNCHANGED <<lastId, rows, named>>

\* parse_and_store_registration
Registered(c) ==
    /\ client[c].pc = "register"
    /\ update_server_heartbeat(client[c].id)
    /\ client' = [client EXCEPT ![c] = NoRequest]
    /\ UNCHANGED <<lastId, rows, named>>

ClientKilled(c) ==
    /\ client[c].pc # "idle"
    /\ client' = [client EXCEPT ![c] = NoRequest]
    /\ UNCHANGED <<servers, lastId, rows, named>>

InventoryNext ==
    \/ \E h \in Hosts : add_server(h)
    \/ \E id \in Ids : delete_server(id) \/ \E h \in Hosts : update_server_connection(id, h)
    \/ \E c \in Clients :
          \/ \E id \in Ids, pc \in {"scan", "register"} : BeginRequest(c, id, pc)
          \/ RequestFails(c) \/ ScanAnswered(c) \/ ScanStoredAll(c) \/ Registered(c)
          \/ \E t \in Things : StoreThing(c, t)
          \/ ClientKilled(c)

InventorySpec == InventoryInit /\ [][InventoryNext]_inventoryVars

----------------------------------------------------------------------------

(* What the tables say of a server was listed by a machine that this very    *)
(* servers row named: a scan that ends after its server was deleted and      *)
(* another one added writes nothing under the new row (scan_server keeps the *)
(* id it read at its start).                                                *)
RowsAreTheServersOwn ==
    \A r \in rows : <<r[1], r[3]>> \in named
=============================================================================
