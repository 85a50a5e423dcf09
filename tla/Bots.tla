-------------------------------- MODULE Bots --------------------------------
(***************************************************************************)
(* The bot host registry and run history (bot/src/commands.cpp over        *)
(* nexus/src/store.cpp): `nazg bot spawn`, `setup`, `manage`, `report`,    *)
(* with the git-doctor bot's check of one machine.  AgentLink models the   *)
(* transports; here a bot's execution is one step.  Every SQL statement is *)
(* a step: other terminals rename and delete hosts in between.  The four    *)
(* statements about a run are each refused at times (the database is busy,  *)
(* the disk full), which the bot does not notice.                          *)
(***************************************************************************)
EXTENDS Integers, Sequences, FiniteSets

CONSTANTS
    Terminals,     \* where the commands run
    HostLabels,    \* labels hosts are given
    Watched,       \* labels that are git servers too: git_servers has a row for them
    MachineStates, \* what the git-doctor script can find on a machine
    BotNames,      \* bots asked for
    MaxHosts,      \* rows of bot_hosts ever inserted
    MaxSpawns      \* bot commands started

ASSUME BotsAssumption == {MaxHosts, MaxSpawns} \subseteq Nat

VARIABLES
    bot_hosts,    \* id -> [label, config, last_status, born]
    bot_runs,     \* id -> [host, status, born]; born: which host was meant
    bot_reports,  \* rows of bot_reports: [run, status]
    health,       \* git_server_health: the [server, status] some row has
    authorized,   \* labels whose machine accepts the operator's key
    bots,         \* the command in each terminal
    hostIds,      \* AUTOINCREMENT of bot_hosts
    runIds,       \* AUTOINCREMENT of bot_runs
    born,         \* hosts inserted so far
    spawns,       \* bot commands started
    earned        \* what bots came to: <<born, status>> of the host meant and the result

botVars == <<bot_hosts, bot_runs, bot_reports, health, authorized, bots, hostIds, born,
             runIds, spawns, earned>>

NoBot == [pc |-> "idle", bot |-> "none", label |-> "none", host |-> 0, born |-> 0, run |-> 0,
          status |-> "none", report |-> FALSE, retried |-> FALSE, refused |-> FALSE, copy |-> <<>>]

BotsInit ==
    /\ bot_hosts = <<>> /\ bot_runs = <<>> /\ bot_reports = {} /\ health = {}
    /\ authorized = {} /\ bots = [t \in Terminals |-> NoBot]
    /\ hostIds = 0 /\ born = 0 /\ runIds = 0 /\ spawns = 0 /\ earned = {}

\* INSERT of a row under a new id
WithRow(rows, id, row) == [i \in DOMAIN rows \cup {id} |-> IF i = id THEN row ELSE rows[i]]

NewHost(id, label, config) ==
    WithRow(bot_hosts, id, [label |-> label, config |-> config, last_status |-> "none", born |-> born + 1])

HostOf(label) == {h \in DOMAIN bot_hosts : bot_hosts[h].label = label}

----------------------------------------------------------------------------
(* The git-doctor script on one machine, and what the bot makes of it       *)

DISK_WARN == 85
DISK_CRIT == 95

git_doctor_script(m) ==
    CASE ~m.installed -> "critical"
      [] ~m.nginx -> "critical"
      [] ~m.fcgiwrap /\ m.type = "cgit" -> "warning"
      [] m.disk >= DISK_CRIT -> "critical"
      [] m.disk >= DISK_WARN -> "warning"
      [] ~m.config -> "warning"
      [] OTHER -> "ok"

\* a report without a status is a success
parse_report(output) ==
    CASE output = "" -> "success"
      [] output = "ok" -> "success"
      [] output \in {"running", "warning", "critical"} -> output
      [] OTHER -> "error"

----------------------------------------------------------------------------
(* nazg bot spawn                                                           *)

\* an unknown bot ends the command
cmd_bot_spawn(t, bot, label) ==
    /\ bots[t].pc = "idle" /\ spawns < MaxSpawns
    /\ spawns' = spawns + 1
    /\ bots' = [bots EXCEPT ![t] = IF bot \notin {"doctor", "git-doctor"} THEN NoBot
                                   ELSE [NoBot EXCEPT !.pc = "lookup", !.bot = bot, !.label = label]]
    /\ UNCHANGED <<bot_hosts, bot_runs, bot_reports, health, authorized, hostIds, runIds, born, earned>>

get_bot_host_id(t) ==
    LET c == bots[t] IN
    /\ c.pc = "lookup"
    /\ bots' = [bots EXCEPT ![t] =
          IF HostOf(c.label) = {} THEN [c EXCEPT !.pc = "add"]
          ELSE LET h == CHOOSE x \in HostOf(c.label) : TRUE
               IN [c EXCEPT !.pc = "begin", !.host = h, !.born = bot_hosts[h].born]]
    /\ UNCHANGED <<bot_hosts, bot_runs, bot_reports, health, authorized, hostIds, runIds, born, spawns, earned>>

\* (mutant) without AUTOINCREMENT: the id after the greatest in use
AddReusing(t) ==
    LET c == bots[t]
        id == Cardinality(DOMAIN bot_hosts) + 1 IN
    /\ c.pc = "add" /\ HostOf(c.label) = {} /\ born < MaxHosts
    /\ bot_hosts' = NewHost(id, c.label, "spawn")
    /\ hostIds' = id /\ born' = born + 1
    /\ bots' = [bots EXCEPT ![t] = [c EXCEPT !.pc = "begin", !.host = id, !.born = born + 1]]
    /\ UNCHANGED <<bot_runs, bot_reports, health, authorized, runIds, spawns, earned>>

\* label is UNIQUE: the second of two first spawns gets -1, as any refused INSERT does
add_bot_host(t) ==
    LET c == bots[t]
        id == hostIds + 1 IN
    /\ c.pc = "add" /\ born < MaxHosts
    /\ \/ /\ HostOf(c.label) = {}
          /\ bot_hosts' = NewHost(id, c.label, "spawn")
          /\ hostIds' = id /\ born' = born + 1
          /\ bots' = [bots EXCEPT ![t] = [c EXCEPT !.pc = "begin", !.host = id, !.born = born + 1]]
       \/ /\ bots' = [bots EXCEPT ![t] = [c EXCEPT !.pc = "begin", !.host = -1]]
          /\ UNCHANGED <<bot_hosts, hostIds, born>>
    /\ UNCHANGED <<bot_runs, bot_reports, health, authorized, runIds, spawns, earned>>

\* FOREIGN KEY(host_id): an INSERT for -1 or for a host deleted since is refused.  Whatever it
\* is refused for, the bot runs all the same, with -1 for its run.
begin_bot_run(t) ==
    LET c == bots[t] IN
    /\ c.pc = "begin"
    /\ \/ /\ c.host \in DOMAIN bot_hosts
          /\ bot_runs' = WithRow(bot_runs, runIds + 1, [host |-> c.host, status |-> "running", born |-> c.born])
          /\ runIds' = runIds + 1
          /\ bots' = [bots EXCEPT ![t] = [c EXCEPT !.pc = "execute", !.run = runIds + 1]]
       \/ /\ bots' = [bots EXCEPT ![t] = [c EXCEPT !.pc = "execute", !.run = -1]]
          /\ UNCHANGED <<bot_runs, runIds>>
    /\ UNCHANGED <<bot_hosts, bot_reports, health, authorized, hostIds, born, spawns, earned>>

\* agent, then SSH: the script fails (no access: 255), or prints a report, or nothing.
\* git-doctor adds a health row if the label is a git server's.  All that is asked of the
\* exit code later is whether the doctor bot was refused for the first time.
BotOutcome(t, output, exit) ==
    LET status == IF exit = 0 THEN parse_report(output) ELSE "error" IN
    /\ bots' = [bots EXCEPT ![t].pc = "finish", ![t].status = status, ![t].report = exit = 0 /\ output # "",
                            ![t].refused = exit = 255 /\ bots[t].bot = "doctor" /\ ~bots[t].retried,
                            ![t].bot = "none", ![t].retried = FALSE]
    /\ earned' = earned \cup {<<bots[t].born, status>>}
    /\ health' = IF exit = 0 /\ bots[t].bot = "git-doctor" /\ bots[t].label \in Watched
                 THEN health \cup {[server |-> bots[t].label, status |-> status]} ELSE health

execute_bot(t) ==
    /\ bots[t].pc = "execute"
    /\ IF bots[t].label \notin authorized THEN BotOutcome(t, "", 255)
       ELSE \/ \E m \in MachineStates : BotOutcome(t, git_doctor_script(m), 0)
            \/ BotOutcome(t, "", 0)
            \/ BotOutcome(t, "", 1)
    /\ UNCHANGED <<bot_hosts, bot_runs, bot_reports, authorized, hostIds, runIds, born, spawns>>

Running(run) == run \in DOMAIN bot_runs

\* an UPDATE of a row that is gone changes nothing; its result is ignored
finish_bot_run(t) ==
    LET c == bots[t] IN
    /\ c.pc = "finish"
    /\ bot_runs' \in {bot_runs} \cup {[bot_runs EXCEPT ![r].status = c.status] : r \in {c.run} \cap DOMAIN bot_runs}
    /\ bots' = [bots EXCEPT ![t].pc = "report"]
    /\ UNCHANGED <<bot_hosts, bot_reports, health, authorized, hostIds, runIds, born, spawns, earned>>

\* FOREIGN KEY(run_id)
add_bot_report(t) ==
    LET c == bots[t] IN
    /\ c.pc = "report"
    /\ \/ /\ c.report /\ Running(c.run)
          /\ bot_reports' = bot_reports \cup {[run |-> c.run, status |-> c.status]}
       \/ UNCHANGED bot_reports
    /\ bots' = [bots EXCEPT ![t].pc = "status", ![t].run = 0, ![t].report = FALSE]
    /\ UNCHANGED <<bot_hosts, bot_runs, health, authorized, hostIds, runIds, born, spawns, earned>>

\* what the command does once the status of one of `hosts` is stored, or is not
StoresStatus(t, hosts) ==
    LET c == bots[t] IN
    /\ c.pc = "status"
    /\ bot_hosts' \in {bot_hosts} \cup {[bot_hosts EXCEPT ![h].last_status = c.status] : h \in hosts}
    /\ bots' = [bots EXCEPT ![t] = IF c.refused THEN [c EXCEPT !.pc = "offer"] ELSE NoBot]
    /\ UNCHANGED <<bot_runs, bot_reports, health, authorized, hostIds, runIds, born, spawns, earned>>

\* (mutant) the host is found by its label
StatusByLabel(t) == StoresStatus(t, HostOf(bots[t].label))

update_bot_host_status(t) == StoresStatus(t, {bots[t].host} \cap DOMAIN bot_hosts)

----------------------------------------------------------------------------
(* nazg bot setup                                                           *)

\* the key is made and copied and the connection tested; any step may fail, the test also
\* after the key was copied.  A host that is registered keeps its row as it is.
SetUp(t, label, after) ==
    \/ /\ authorized' = authorized \cup {label}
       /\ bots' = [bots EXCEPT ![t] = after]
       /\ IF HostOf(label) = {} /\ born < MaxHosts
          THEN /\ bot_hosts' = NewHost(hostIds + 1, label, "setup")
               /\ hostIds' = hostIds + 1 /\ born' = born + 1
          ELSE UNCHANGED <<bot_hosts, hostIds, born>>
    \/ /\ authorized' \in {authorized, authorized \cup {label}}
       /\ bots' = [bots EXCEPT ![t] = NoBot]
       /\ UNCHANGED <<bot_hosts, hostIds, born>>

cmd_bot_setup(t, label) ==
    /\ bots[t].pc = "idle" /\ spawns < MaxSpawns
    /\ spawns' = spawns + 1
    /\ SetUp(t, label, NoBot)
    /\ UNCHANGED <<bot_runs, bot_reports, health, runIds, earned>>

\* the doctor bot was refused: the user has it set up and run again, once, or declines
OfferSetup(t) ==
    /\ bots[t].pc = "offer"
    /\ \/ SetUp(t, bots[t].label, [bots[t] EXCEPT !.pc = "begin", !.bot = "doctor", !.retried = TRUE])
       \/ /\ bots' = [bots EXCEPT ![t] = NoBot]
          /\ UNCHANGED <<bot_hosts, authorized, hostIds, born>>
    /\ UNCHANGED <<bot_runs, bot_reports, health, runIds, spawns, earned>>

----------------------------------------------------------------------------
(* nazg bot manage, nazg bot report                                         *)

\* the rows are read once; the menu works on the copy
cmd_bot_manage(t) ==
    /\ bots[t].pc = "idle" /\ spawns < MaxSpawns
    /\ spawns' = spawns + 1
    /\ \E h \in DOMAIN bot_hosts :
          bots' = [bots EXCEPT ![t] = [NoBot EXCEPT !.pc = "manage", !.host = h, !.copy = bot_hosts[h]]]
    /\ UNCHANGED <<bot_hosts, bot_runs, bot_reports, health, authorized, hostIds, runIds, born, earned>>

\* label, address and SSH settings are written together, two of them as they were read.
\* A label in use is refused; a host that is gone is "updated" too.
update_bot_host(t) ==
    LET c == bots[t] IN
    /\ c.pc = "manage"
    /\ \E new \in {[c.copy EXCEPT !.label = l] : l \in HostLabels} \cup {[c.copy EXCEPT !.config = "edited"]} :
          /\ new # c.copy /\ HostOf(new.label) \subseteq {c.host}
          /\ bots' = [bots EXCEPT ![t].copy = new]
          /\ bot_hosts' = IF c.host \in DOMAIN bot_hosts
                          THEN [bot_hosts EXCEPT ![c.host].label = new.label, ![c.host].config = new.config]
                          ELSE bot_hosts
    /\ UNCHANGED <<bot_runs, bot_reports, health, authorized, hostIds, runIds, born, spawns, earned>>

\* ON DELETE CASCADE: the host's runs go, and their reports
delete_bot_host(t) ==
    LET gone == {r \in DOMAIN bot_runs : bot_runs[r].host = bots[t].host} IN
    /\ bots[t].pc = "manage"
    /\ bot_hosts' = [h \in DOMAIN bot_hosts \ {bots[t].host} |-> bot_hosts[h]]
    /\ bot_runs' = [r \in DOMAIN bot_runs \ gone |-> bot_runs[r]]
    /\ bot_reports' = {p \in bot_reports : p.run \notin gone}
    /\ bots' = [bots EXCEPT ![t] = NoBot]
    /\ UNCHANGED <<health, authorized, hostIds, runIds, born, spawns, earned>>

Quit(t) ==
    /\ bots[t].pc # "idle"
    /\ bots' = [bots EXCEPT ![t] = NoBot]
    /\ UNCHANGED <<bot_hosts, bot_runs, bot_reports, health, authorized, hostIds, runIds, born, spawns, earned>>

BotsNext ==
    \/ \E t \in Terminals, b \in BotNames, l \in HostLabels : cmd_bot_spawn(t, b, l)
    \/ \E t \in Terminals : get_bot_host_id(t)
    \/ \E t \in Terminals : add_bot_host(t)
    \/ \E t \in Terminals : begin_bot_run(t)
    \/ \E t \in Terminals : execute_bot(t)
    \/ \E t \in Terminals : finish_bot_run(t)
    \/ \E t \in Terminals : add_bot_report(t)
    \/ \E t \in Terminals : update_bot_host_status(t)
    \/ \E t \in Terminals, l \in HostLabels : cmd_bot_setup(t, l)
    \/ \E t \in Terminals : OfferSetup(t)
    \/ \E t \in Terminals : cmd_bot_manage(t)
    \/ \E t \in Terminals : update_bot_host(t)
    \/ \E t \in Terminals : delete_bot_host(t)
    \/ \E t \in Terminals : Quit(t)

BotsSpec == BotsInit /\ [][BotsNext]_botVars

----------------------------------------------------------------------------
(* What is stored of a host's runs goes with the host and is never another   *)
(* host's: a bot that is still running when `bot manage` deletes its host    *)
(* leaves no run and no report, even if a host is registered meanwhile.  A   *)
(* report is that of its run, whose row says the same or, when the bot's     *)
(* UPDATE was refused, still "running" (begin_bot_run, finish_bot_run,       *)
(* add_bot_report, delete_bot_host).                                         *)
HistoryGoesWithHost ==
    /\ \A r \in DOMAIN bot_runs : /\ bot_runs[r].host \in DOMAIN bot_hosts
                                  /\ bot_hosts[bot_runs[r].host].born = bot_runs[r].born
    /\ \A p \in bot_reports : Running(p.run) /\ bot_runs[p.run].status \in {p.status, "running"}

(* The status shown for a host, and the one of every finished run, is what a *)
(* bot came to that was meant for this very host, not for one that had its   *)
(* label or its id before: whichever statements are refused, however hosts   *)
(* are renamed, deleted and registered anew while bots run (finish_bot_run,  *)
(* update_bot_host_status).  A run with that status need not be listed.      *)
StatusIsEarned ==
    /\ \A h \in DOMAIN bot_hosts :
          bot_hosts[h].last_status # "none" => <<bot_hosts[h].born, bot_hosts[h].last_status>> \in earned
    /\ \A r \in DOMAIN bot_runs :
          bot_runs[r].status # "running" => <<bot_runs[r].born, bot_runs[r].status>> \in earned
=============================================================================
