---------------------------- MODULE DockerCache ----------------------------
(***************************************************************************)
(* The agent's periodic Docker scan and the SQLite cache it fills          *)
(* (agent/src/runtime.cpp, docker_scanner.cpp, local_store.cpp).  Docker   *)
(* changes while the scan lists one kind of object after another; every    *)
(* row is a statement of its own, whose failure is ignored; the agent may  *)
(* be killed between two steps.                                            *)
(***************************************************************************)
EXTENDS Integers, Sequences

CONSTANTS
    Objects,   \* containers, images, networks, volumes, compose files of a host
    Kind,      \* [Objects -> the kinds below]
    MaxNow     \* seconds in a behaviour

ASSUME DockerCacheAssumption == MaxNow \in Nat

VARIABLES
    present,    \* objects Docker and the disk have now
    daemon,     \* the Docker daemon answers; the CLI may be there without it
    now,        \* the clock
    cached,     \* [o]: last_seen of o's row in the cached_* tables, 0: no row
    last_scan,  \* agent_config.last_scan
    recorded,   \* history: what the recorded scan had listed
    refused,    \* history: objects whose row could not be written
    scan        \* the scanner thread

cacheVars == <<present, daemon, now, cached, last_scan, recorded, refused, scan>>

\* the order of perform_docker_scan
KindOrder == <<"container", "image", "network", "volume", "compose">>

NoScan == [pc |-> 0, time |-> 0, listed |-> {}, todo |-> {}]

\* LocalStore::run_migrations: an empty database
CacheInit ==
    /\ present = {} /\ daemon = TRUE
    /\ now = 1
    /\ cached = [o \in Objects |-> 0]
    /\ last_scan = 0 /\ recorded = {} /\ refused = {}
    /\ scan = NoScan

----------------------------------------------------------------------------
(* DockerScanner: what a listing returns at this moment                     *)

OfKind(k) == {o \in present : Kind[o] = k}

\* exec_command: a failing `docker` prints nothing, which lists as nothing
list_containers == IF daemon THEN OfKind("container") ELSE {}
list_images == IF daemon THEN OfKind("image") ELSE {}
list_networks == IF daemon THEN OfKind("network") ELSE {}
list_volumes == IF daemon THEN OfKind("volume") ELSE {}

\* a walk of the search paths, without Docker
discover_compose_files == OfKind("compose")

Listing(k) ==
    CASE k = "container" -> list_containers
      [] k = "image" -> list_images
      [] k = "network" -> list_networks
      [] k = "volume" -> list_volumes
      [] OTHER -> discover_compose_files

----------------------------------------------------------------------------
(* Runtime::scanner_loop and perform_docker_scan                            *)

\* is_docker_available asks for the CLI's version: without the CLI nothing is done
StartScan ==
    /\ scan.pc = 0
    /\ scan' = [pc |-> 1, time |-> now, listed |-> {}, todo |-> Listing(KindOrder[1])]
    /\ UNCHANGED <<present, daemon, now, cached, last_scan, recorded, refused>>

\* INSERT OR REPLACE of one row; the result is not looked at
StoreRow(o, ok) ==
    /\ scan.pc > 0
    /\ o \in scan.todo
    /\ cached' = IF ok THEN [cached EXCEPT ![o] = scan.time] ELSE cached
    /\ refused' = IF ok THEN refused \ {o} ELSE refused \cup {o}
    /\ scan' = [scan EXCEPT !.todo = @ \ {o}, !.listed = @ \cup {o}]
    /\ UNCHANGED <<present, daemon, now, last_scan, recorded>>

NextKind ==
    /\ scan.pc \in 1..(Len(KindOrder) - 1)
    /\ scan.todo = {}
    /\ scan' = [scan EXCEPT !.pc = @ + 1, !.todo = Listing(KindOrder[scan.pc + 1])]
    /\ UNCHANGED <<present, daemon, now, cached, last_scan, recorded, refused>>

\* mutant: the scan is recorded before its rows are stored
RecordEarly ==
    /\ scan.pc > 0
    /\ last_scan' = scan.time
    /\ recorded' = scan.listed \cup scan.todo
    /\ scan' = IF scan.todo = {} THEN NoScan ELSE scan
    /\ UNCHANGED <<present, daemon, now, cached, refused>>

\* record_scan and update_last_scan_time, then the sleep until the next scan
record_scan ==
    /\ scan.pc = Len(KindOrder)
    /\ scan.todo = {}
    /\ last_scan' = scan.time
    /\ recorded' = scan.listed
    /\ scan' = NoScan
    /\ UNCHANGED <<present, daemon, now, cached, refused>>

\* an exception ends the scan (scanner_loop logs it); so does a kill of the agent
ScanCut ==
    /\ scan.pc > 0
    /\ scan' = NoScan
    /\ UNCHANGED <<present, daemon, now, cached, last_scan, recorded, refused>>

\* LocalStore::cleanup_old_data with the time of a scan that was recorded
cleanup_old_data(t) ==
    /\ t \in 1..last_scan
    /\ cached' = [o \in Objects |-> IF cached[o] < t THEN 0 ELSE cached[o]]
    /\ UNCHANGED <<present, daemon, now, last_scan, recorded, refused, scan>>

----------------------------------------------------------------------------
(* The host                                                                 *)

DockerChanges ==
    /\ \E o \in Objects : present' = (present \ {o}) \cup ({o} \ present)
    /\ UNCHANGED <<daemon, now, cached, last_scan, recorded, refused, scan>>

DaemonToggles ==
    /\ daemon' = ~daemon
    /\ UNCHANGED <<present, now, cached, last_scan, recorded, refused, scan>>

SecondPasses ==
    /\ now < MaxNow
    /\ now' = now + 1
    /\ UNCHANGED <<present, daemon, cached, last_scan, recorded, refused, scan>>

CacheNext ==
    \/ StartScan \/ NextKind \/ record_scan \/ ScanCut
    \/ \E o \in Objects, ok \in BOOLEAN : StoreRow(o, ok)
    \/ \E t \in 1..MaxNow : cleanup_old_data(t)
    \/ DockerChanges \/ DaemonToggles \/ SecondPasses

CacheSpec == CacheInit /\ [][CacheNext]_cacheVars

----------------------------------------------------------------------------

\* get_cached_containers and its siblings
get_cached == {o \in Objects : cached[o] > 0}

(* Whatever the last recorded scan listed is in the cache with a last_seen   *)
(* at least as late as last_scan, except rows SQLite refused: a scan that is *)
(* cut short, or a cleanup up to the recorded time, takes nothing away from  *)
(* it (perform_docker_scan records the scan after its rows).                *)
CacheHoldsScan == \A o \in recorded \ refused : o \in get_cached /\ cached[o] >= last_scan
=============================================================================
