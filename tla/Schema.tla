------------------------------- MODULE Schema -------------------------------
(***************************************************************************)
(* What the migrator promises of the database, whoever runs it: versions   *)
(* are recorded in order, each with its tables, and the schema is only     *)
(* ever dropped as a whole.  The one exception is a gap, a migration that  *)
(* was missing below another in the directory of somebody who migrated.    *)
(***************************************************************************)
EXTENDS Integers

CONSTANT Latest

VARIABLES
    tables,   \* migrations whose tables and columns are there
    versions, \* the versions that the database records
    gaps      \* migrations that may be missing below a recorded one

SchemaInit == tables = {} /\ versions = {} /\ gaps = {}

\* every version below v is recorded, or is a gap
Reached(v) == v \in 1..Latest /\ 1..(v - 1) \subseteq versions \cup gaps

Gap == \E missing \in SUBSET (1..Latest) :
    gaps' = gaps \cup missing /\ UNCHANGED <<tables, versions>>

\* a migration that is not one transaction shows its tables first
Prepare == \E v \in 1..Latest :
    Reached(v) /\ tables' = tables \cup {v} /\ UNCHANGED <<versions, gaps>>

Record == \E v \in 1..Latest :
    /\ Reached(v)
    /\ tables' = tables \cup {v}
    /\ versions' = versions \cup {v}
    /\ UNCHANGED gaps

Drop == tables' = {} /\ versions' = {} /\ gaps' = {}

SchemaNext == Gap \/ Prepare \/ Record \/ Drop

SchemaSpec == SchemaInit /\ [][SchemaNext]_<<tables, versions, gaps>>
=============================================================================
