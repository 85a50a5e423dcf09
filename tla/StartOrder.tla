----------------------------- MODULE StartOrder -----------------------------
(***************************************************************************)
(* Orchestrator::calculate_start_order and topological_sort                *)
(* (docker_monitor/src/orchestrator.cpp), one turn of Kahn's loop a step,  *)
(* on any dependency rows a server can have.                               *)
(***************************************************************************)
EXTENDS Integers, Sequences, FiniteSets, SequencesExt, Orders

CONSTANTS
    Units,      \* service names, a sequence in std::map (alphabetical) order
    Types,      \* dependency types of the rows, NoRow if there is none
    NoRow

ASSUME StartOrderAssumption == Units \in Seq(Range(Units)) /\ IsInjective(Units) /\ NoRow \in Types

VARIABLES
    deps,   \* docker_service_dependencies of one server: [<<s, d>>] -> type
    sort    \* topological_sort at work

orderVars == <<deps, sort>>

UnitSet == Range(Units)

NoSort == [asked |-> {}, graph |-> [s \in UnitSet |-> {}],
           degree |-> [s \in UnitSet |-> 0], queue |-> <<>>, result |-> <<>>]

OrderInit ==
    /\ deps \in [UnitSet \X UnitSet -> Types]
    /\ sort = NoSort

\* the types that count for the order
HardTypes == {"depends_on", "network_mode", "hard"}

get_dependencies(s) == {d \in UnitSet : deps[<<s, d>>] # NoRow}

\* an edge from a service to each service it cannot start without
GraphOf(asked) ==
    [s \in UnitSet |->
       IF s \in asked THEN {d \in get_dependencies(s) : deps[<<s, d>>] \in HardTypes} ELSE {}]

Nodes(graph, asked) == asked \cup UNION {graph[s] : s \in asked}

InNameOrder(S) == InOrder(S, InSequence(Units))

\* the graph, the in-degrees, and the queue of nodes without incoming edges
calculate_start_order(asked) ==
    LET graph == GraphOf(asked)
        degree == [n \in UnitSet |-> Cardinality({s \in asked : n \in graph[s]})]
    IN
    /\ sort = NoSort
    /\ asked # {}
    /\ sort' = [asked |-> asked, graph |-> graph, degree |-> degree, result |-> <<>>,
                queue |-> InNameOrder({n \in Nodes(graph, asked) : degree[n] = 0})]
    /\ deps' = deps

\* mutant: a neighbour is queued as soon as one of its incoming edges is gone
QueueEagerly ==
    LET node == Head(sort.queue)  neighbors == sort.graph[node] IN
    /\ sort.queue # <<>>
    /\ Len(sort.result) <= Len(Units)
    /\ sort' = [sort EXCEPT !.result = Append(@, node),
                            !.queue = Tail(@) \o InNameOrder(neighbors)]
    /\ deps' = deps

\* the front of the queue, then those neighbours whose last incoming edge this was
topological_sort ==
    LET node == Head(sort.queue)
        neighbors == sort.graph[node]
        left == [n \in UnitSet |-> IF n \in neighbors THEN sort.degree[n] - 1 ELSE sort.degree[n]]
    IN
    /\ sort.queue # <<>>
    /\ sort' = [sort EXCEPT !.result = Append(@, node), !.degree = left,
                  !.queue = Tail(@) \o InNameOrder({n \in neighbors : left[n] = 0})]
    /\ deps' = deps

OrderNext == (\E asked \in SUBSET UnitSet : calculate_start_order(asked)) \/ topological_sort

OrderSpec == OrderInit /\ [][OrderNext]_orderVars /\ WF_orderVars(topological_sort)

----------------------------------------------------------------------------

Finished == sort # NoSort /\ sort.queue = <<>>

Before(a, b) == \E i, j \in DOMAIN sort.result : sort.result[i] = a /\ sort.result[j] = b /\ i < j

\* m needs n, or something that does: n is in every set that holds what m needs and, with
\* a service, what that one needs
Leads(m, n) ==
    \A C \in SUBSET UnitSet : sort.graph[m] \subseteq C /\ (\A c \in C : sort.graph[c] \subseteq C) => n \in C

\* on a dependency cycle or behind one
Blocked == {n \in UnitSet : \E m \in UnitSet : Leads(m, m) /\ (n = m \/ Leads(m, n))}

(* topological_sort lists every service asked for and every service they     *)
(* need exactly once, a service always on the same side of what it needs;    *)
(* only what lies on a dependency cycle or behind one is left out ("result   *)
(* may be incomplete").                                                     *)
SortIsTopological ==
    Finished =>
      /\ IsInjective(sort.result)
      /\ Range(sort.result) = Nodes(sort.graph, sort.asked) \ Blocked
      /\ \A s \in Range(sort.result) : \A d \in sort.graph[s] \cap Range(sort.result) : Before(s, d)

(* A service is started after the services it needs: "Start order            *)
(* (dependencies first)" of docs/docker-orchestration-design.md.            *)
StartsDependenciesFirst ==
    Finished => \A s \in Range(sort.result) : \A d \in sort.graph[s] \cap Range(sort.result) :
                    Before(d, s)
=============================================================================
