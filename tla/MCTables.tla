------------------------------ MODULE MCTables ------------------------------
(* Small instances of the parts of nazg that look after files and tables and  *)
(* meet in no variable: what passes between them is chosen by the part that   *)
(* receives it.  A behaviour follows one of them, the one `focus` names, from *)
(* its own initial states.                                                   *)
EXTENDS Updater, Logger, NexusStartup, DockerCache, DockerInventory, DockerStacks, StartOrder

CONSTANTS Focus, p, q, v1, v2, v3, o1, o2, h1, h2, x, y, m1, m2, pa, pb, pc, pd, r1

-----------------------------------------------------------------------------
(* Docker: an agent's objects, and what the compose files say                *)

MCKind == [o \in {o1, o2} |-> IF o = o1 THEN "container" ELSE "compose"]

MCTable == [t \in {x, y} |-> IF t = x THEN "containers" ELSE "docker_images"]

Service(needs, net, shares) ==
    [depends_on |-> needs, items |-> TRUE, network_mode |-> net, networks |-> shares, volumes |-> {}]

\* pa: a needs b, and they share a network.  pb: b runs in c's network.  pc: c needs b,
\* with a condition.  pd cannot be read.
MCServices == <<"a", "b", "c">>
MCOnDisk ==
    [f \in {pa, pb, pc, pd} |->
       CASE f = pa -> ("a" :> Service({"b"}, {}, {"n"}) @@ "b" :> Service({}, {}, {"n"}))
         [] f = pb -> ("b" :> Service({}, {"c"}, {}) @@ "c" :> Service({}, {}, {}))
         [] f = pc -> ("c" :> [Service({"b"}, {}, {}) EXCEPT !.items = FALSE] @@ "b" :> Service({}, {}, {}))
         [] OTHER -> Absent]

MCPathLists == {<<pa, pb>>, <<pd, pc>>}

-----------------------------------------------------------------------------
(* Migrations: no directory, one of an older nazg, a whole one, and two with   *)
(* a file that is missing or cannot be read                                   *)

MCDirectories == {{}, {1, 2}, 1..4, {1, 2, 4}, {2, 3, 4}}

MCAltered == [v \in {3} |-> 2]

-----------------------------------------------------------------------------

VARIABLE focus

\* The graphs of dependencies are of interest only in focus.  Of the dependencies that
\* order nothing, those of a are enough.
OneStart ==
    deps \in IF focus = "order"
             THEN {d \in [UnitSet \X UnitSet -> Types] : \A e \in DOMAIN d : d[e] = "shared_network" => e[1] = "a"}
             ELSE {[e \in UnitSet \X UnitSet |-> NoRow]}

TablesInit ==
    /\ focus \in Focus /\ OneStart
    /\ UpdaterInit /\ LoggerInit /\ NexusInit /\ CacheInit /\ InventoryInit /\ StacksInit /\ OrderInit

TablesNext ==
    \/ /\ focus = "updater" /\ UpdaterNext
       /\ UNCHANGED <<focus, loggerVars, nexusVars, cacheVars, inventoryVars, stackVars, orderVars>>
    \/ /\ focus = "logger" /\ LoggerNext
       /\ UNCHANGED <<focus, updaterVars, nexusVars, cacheVars, inventoryVars, stackVars, orderVars>>
    \/ /\ focus = "nexus" /\ NexusNext
       /\ UNCHANGED <<focus, updaterVars, loggerVars, cacheVars, inventoryVars, stackVars, orderVars>>
    \/ /\ focus = "cache" /\ CacheNext
       /\ UNCHANGED <<focus, updaterVars, loggerVars, nexusVars, inventoryVars, stackVars, orderVars>>
    \/ /\ focus = "inventory" /\ InventoryNext
       /\ UNCHANGED <<focus, updaterVars, loggerVars, nexusVars, cacheVars, stackVars, orderVars>>
    \/ /\ focus = "stacks" /\ StacksNext
       /\ UNCHANGED <<focus, updaterVars, loggerVars, nexusVars, cacheVars, inventoryVars, orderVars>>
    \/ /\ focus = "order" /\ OrderNext
       /\ UNCHANGED <<focus, updaterVars, loggerVars, nexusVars, cacheVars, inventoryVars, stackVars>>

TablesSpec ==
    TablesInit /\ [][TablesNext]_<<focus, updaterVars, loggerVars, nexusVars, cacheVars, inventoryVars, stackVars, orderVars>>

\* p and q are two processes wherever they occur
Symmetric == Permutations({p, q})
=============================================================================
