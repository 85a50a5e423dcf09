----------------------------- MODULE GitServers -----------------------------
(***************************************************************************)
(* Git servers: the registry that merges config.toml with the git_servers  *)
(* table (git/src/server_registry.cpp, store.cpp), and the commands `nazg  *)
(* git server add, status, install, sync` with the cgit and gitea          *)
(* installers they drive over ssh.  Every statement of the database and    *)
(* every remote phase is a step; several processes, edits of config.toml   *)
(* and machines going up and down interleave.                              *)
(***************************************************************************)
EXTENDS Integers, Sequences, Functions

CONSTANTS
    Admins,     \* running nazg processes
    Labels,     \* names of servers
    Boxes,      \* remote machines
    Bares,      \* local bare repositories under --source
    Settings,   \* sections of config.toml: [type, host, token]
    Legacy,     \* what a machine may hold before the first command
    Talkative,  \* machines whose `which` prints a message when it finds nothing
    Unsteady,   \* machines that go down and come up again
    NoServer,   \* no section, no row
    MaxCommands \* commands ever started

\* what the phases of an installation leave on a machine
Marks == {"packages", "fcgiwrap", "user", "dotssh", "repodir", "web", "binary", "home", "dirs", "confdir", "owned",
          "ini", "unit", "db", "started"}

\* has: phases done; pushed: repositories with their content; forge: repositories gitea
\* knows; rc: repositories named in /etc/cgitrc
Machines == [up : BOOLEAN, has : SUBSET Marks, pushed : SUBSET Bares, forge : SUBSET Bares, rc : SUBSET Bares]

ASSUME GitServersAssumption ==
    /\ MaxCommands \in Nat /\ NoServer \notin Settings \cup Boxes /\ Legacy \subseteq Machines
    /\ Settings \subseteq [type : {s.type : s \in Settings}, host : Boxes, token : {"", "good", "garbled"}]

VARIABLES
    toml,       \* [label]: section git.servers.<label>
    gitRows,    \* [label]: row of git_servers
    box,        \* [machine]: what is on it
    remote,     \* [local repository]: the machine its remote `gitea` names
    admin,      \* [process]: the command it runs
    commands    \* commands started so far

gitVars == <<toml, gitRows, box, remote, admin, commands>>

\* what a command has read and does not use any more is set back to these; astray: those
\* it pushed, or will push, after the remote was turned to another machine
Idle == [pc |-> "idle", cmd |-> "none", label |-> NoServer, section |-> NoServer, cfg |-> NoServer, old |-> NoServer,
         chosen |-> {}, left |-> {}, repo |-> NoServer, ok |-> TRUE, found |-> {}, astray |-> {}]

GitInit ==
    /\ toml \in [Labels -> Settings \cup {NoServer}]
    /\ gitRows = [l \in Labels |-> NoServer]
    /\ box \in [Boxes -> Legacy]
    /\ remote \in [Bares -> Boxes \cup {NoServer}]
    /\ admin = [p \in Admins |-> Idle]
    /\ commands = 0

At(p, pc) == admin[p].pc = pc
Goto(p, pc) == admin' = [admin EXCEPT ![p].pc = pc]
Finish(p) == admin' = [admin EXCEPT ![p] = Idle]
Host(p) == admin[p].cfg.host
Type(p) == admin[p].cfg.type

----------------------------------------------------------------------------
(* ServerRegistry                                                           *)

\* what the hash covers; the admin token is left out of it
compute_config_hash(c) == <<c.type, c.host>>

\* a section without type or host does not count (Settings have both)
load_from_config(section) == section

load_from_database(l) == gitRows[l]

\* the entry: settings come from config.toml when it has them, the token of the row
\* only where config.toml has none.  A process reads config.toml once, when it starts
get_server(l, section) ==
    LET c == load_from_config(section)  r == load_from_database(l) IN
    CASE c = NoServer /\ r = NoServer -> NoServer
      [] c # NoServer /\ r = NoServer -> [cfg |-> c, changed |-> FALSE]
      [] c = NoServer /\ r # NoServer -> [cfg |-> r.cfg, changed |-> FALSE]
      [] OTHER -> [cfg |-> [c EXCEPT !.token = IF @ = "" THEN r.cfg.token ELSE @],
                   changed |-> r.hash # compute_config_hash(c)]

\* the record registry_add_server builds from what it read before: status, installed_at and,
\* when the settings have no token, the token of the row
Record(cfg, old) ==
    [cfg |-> IF old # NoServer /\ cfg.token = "" THEN [cfg EXCEPT !.token = old.cfg.token] ELSE cfg,
     hash |-> compute_config_hash(cfg),
     status |-> IF old = NoServer THEN "not_installed" ELSE old.status,
     installed |-> old # NoServer /\ old.installed]

\* INSERT .. ON CONFLICT(label) DO UPDATE of every column
upsert_git_server(l, record) == gitRows' = [gitRows EXCEPT ![l] = record]

\* the UPDATE statements by label: nothing happens without a row
UpdateRow(l, new) == gitRows' = [gitRows EXCEPT ![l] = IF @ = NoServer THEN @ ELSE new]

update_status(l, status) == UpdateRow(l, [gitRows[l] EXCEPT !.status = status])

mark_installed(l) == UpdateRow(l, [gitRows[l] EXCEPT !.status = "installed", !.installed = TRUE])

update_admin_token(l, token) == UpdateRow(l, [gitRows[l] EXCEPT !.cfg.token = token])

\* registry API; no command calls it
remove_server(l) ==
    /\ gitRows[l] # NoServer
    /\ gitRows' = [gitRows EXCEPT ![l] = NoServer]
    /\ UNCHANGED <<toml, box, admin, remote, commands>>

\* registry_add_server reads the row it will replace ...
AddReads(p) ==
    /\ At(p, "add")
    /\ admin' = [admin EXCEPT ![p].pc = "upsert", ![p].old = gitRows[admin[p].label]]
    /\ UNCHANGED <<toml, gitRows, box, remote, commands>>

\* mutant: the hash of the row that is replaced is kept with its status
KeepsOldHash(p) ==
    LET r == admin[p]  new == Record(r.cfg, r.old) IN
    /\ At(p, "upsert")
    /\ upsert_git_server(r.label, IF r.old = NoServer THEN new ELSE [new EXCEPT !.hash = r.old.hash])
    /\ Goto(p, IF r.cmd = "add" THEN "probe" ELSE "confirm")
    /\ UNCHANGED <<toml, box, remote, commands>>

\* ... and writes: what another process stored in between is lost
registry_add_server(p) ==
    LET r == admin[p] IN
    /\ At(p, "upsert")
    /\ upsert_git_server(r.label, Record(r.cfg, r.old))
    /\ admin' = [admin EXCEPT ![p].pc = IF r.cmd = "add" THEN "probe" ELSE "confirm", ![p].old = NoServer]
    /\ UNCHANGED <<toml, box, remote, commands>>

----------------------------------------------------------------------------
(* Starting a command                                                       *)

Begin(p, cmd, l, cfg, pc) ==
    /\ At(p, "idle") /\ commands < MaxCommands
    /\ commands' = commands + 1
    /\ admin' = [admin EXCEPT ![p] = [Idle EXCEPT !.pc = pc, !.cmd = cmd, !.label = l,
                                            !.section = IF pc = "offer" THEN toml[l] ELSE NoServer, !.cfg = cfg]]
    /\ UNCHANGED <<toml, gitRows, box, remote>>

\* from a label alone the settings are get_server's; with --type and --host they are
\* the arguments
cmd_git_server_add(p, l) ==
    \/ get_server(l, toml[l]) # NoServer /\ Begin(p, "add", l, get_server(l, toml[l]).cfg, "add")
    \/ \E s \in Settings : s.token = "" /\ Begin(p, "add", l, s, "add")

\* a registered label; changed settings are offered for sync first
cmd_git_server_status(p, l) ==
    /\ get_server(l, toml[l]) # NoServer
    /\ Begin(p, "status", l, get_server(l, toml[l]).cfg, IF get_server(l, toml[l]).changed THEN "offer" ELSE "probe")

\* the server is registered before the user confirms
cmd_git_server_install(p, l) ==
    /\ get_server(l, toml[l]) # NoServer
    /\ Begin(p, "install", l, get_server(l, toml[l]).cfg, "add")

\* there is a bare repository; record_migration_start's INSERT binds '' to project_id,
\* a foreign key, and is refused: no migration is ever recorded
cmd_git_server_sync(p, l) ==
    /\ get_server(l, toml[l]) # NoServer
    /\ Begin(p, "sync", l, get_server(l, toml[l]).cfg, "confirm")

\* changed settings are offered before the row is read for the sync
OfferSync(p) ==
    LET e == get_server(admin[p].label, admin[p].section) IN
    /\ At(p, "offer")
    /\ \/ e # NoServer /\ e.changed /\ Goto(p, "accepted")
       \/ admin' = [admin EXCEPT ![p].pc = "probe", ![p].section = NoServer]
    /\ UNCHANGED <<toml, gitRows, box, remote, commands>>

SyncReads(p) ==
    /\ At(p, "accepted")
    /\ admin' = [admin EXCEPT ![p].pc = "sync", ![p].old = gitRows[admin[p].label]]
    /\ UNCHANGED <<toml, gitRows, box, remote, commands>>

\* the settings are replaced, the runtime state and the token stay as they were read
sync_config_to_database(p) ==
    LET r == admin[p]  new == Record([r.section EXCEPT !.token = ""], r.old) IN
    /\ At(p, "sync")
    /\ upsert_git_server(r.label, new)
    /\ admin' = [admin EXCEPT ![p].pc = "probe", ![p].section = NoServer, ![p].old = NoServer,
                              ![p].cfg.token = IF r.section.token = "" THEN new.cfg.token ELSE @]
    /\ UNCHANGED <<toml, box, remote, commands>>

\* `install` and `sync` ask; create_server throws for a type it does not know
confirm(p) ==
    /\ At(p, "confirm")
    /\ \/ Finish(p)
       \/ /\ Type(p) \notin {"cgit", "gitea"}
          /\ IF admin[p].cmd = "install" THEN Goto(p, "failed") ELSE Finish(p)
       \/ /\ Type(p) \in {"cgit", "gitea"}
          /\ \/ admin[p].cmd = "install" /\ Goto(p, "ssh")
             \/ \E some \in SUBSET Bares \ {{}} :
                   /\ admin[p].cmd = "sync"
                   /\ admin' = [admin EXCEPT ![p].pc = "repo", ![p].chosen = some, ![p].left = some]
    /\ UNCHANGED <<toml, gitRows, box, remote, commands>>

----------------------------------------------------------------------------
(* get_status, of both kinds                                                *)

\* `which cgit` with stderr: a message that nothing was found counts as found
cgit_get_status(h) ==
    [reachable |-> box[h].up,
     installed |-> box[h].up /\ ("packages" \in box[h].has \/ h \in Talkative)]

\* test -f /usr/local/bin/gitea
gitea_get_status(h) ==
    [reachable |-> box[h].up, installed |-> box[h].up /\ "binary" \in box[h].has]

get_status(p) == IF Type(p) = "cgit" THEN cgit_get_status(Host(p)) ELSE gitea_get_status(Host(p))

\* add only prints it; status goes on to store it; an unknown type ends both
Probe(p) ==
    /\ At(p, "probe")
    /\ IF admin[p].cmd = "add" \/ Type(p) \notin {"cgit", "gitea"} THEN Finish(p)
       ELSE admin' = [admin EXCEPT ![p].pc = IF get_status(p).installed THEN "mark" ELSE "state",
                                   ![p].ok = get_status(p).reachable,
                                   ![p].found = IF get_status(p).installed THEN {"installed"} ELSE {}]
    /\ UNCHANGED <<toml, gitRows, box, remote, commands>>

\* installed_at and the status "installed", of status and of install
StoreInstalled(p) ==
    /\ At(p, "mark")
    /\ mark_installed(admin[p].label)
    /\ Goto(p, "state")
    /\ UNCHANGED <<toml, box, remote, commands>>

\* the last UPDATE of a command
StoreState(p) ==
    LET r == admin[p] IN
    /\ r.pc \in {"state", "failed"}
    /\ update_status(r.label,
         CASE r.pc = "failed" -> "offline"
           [] r.cmd \in {"install", "sync"} -> "online"
           [] ~r.ok -> "offline"
           [] OTHER -> IF "installed" \in r.found THEN "online" ELSE "not_installed")
    /\ Finish(p)
    /\ UNCHANGED <<toml, box, remote, commands>>

----------------------------------------------------------------------------
(* install: a phase is done on a machine that is up, or it fails            *)

Order == [cgit |-> <<"ssh", "packages", "fcgiwrap", "account", "key", "repodir", "web", "rc">>,
          gitea |-> <<"ssh", "binary", "account", "ini", "unit", "migrate", "start", "token">>]

NextPhase(p) ==
    LET o == Order[Type(p)]  i == CHOOSE i \in 1..8 : o[i] = admin[p].pc IN o[i + 1]

\* the phase succeeds with marks left on the machine
Succeed(p, marks) ==
    /\ box[Host(p)].up
    /\ box' = [box EXCEPT ![Host(p)].has = @ \cup marks]
    /\ Goto(p, NextPhase(p))

\* ssh or the remote command fails: of its steps some were done, or all of them
Fail(p, steps) ==
    /\ \E n \in 0..Len(steps) :
          box' = [box EXCEPT ![Host(p)].has = IF box[Host(p)].up THEN @ \cup {steps[i] : i \in 1..n} ELSE @]
    /\ Goto(p, "failed")

Phase(p, name, steps) ==
    /\ At(p, name)
    /\ Succeed(p, Range(steps)) \/ Fail(p, steps)
    /\ UNCHANGED <<toml, gitRows, remote, commands>>

ssh_test_connection(p) == Phase(p, "ssh", <<>>)
install_deps(p) == Phase(p, "packages", <<"packages">>)
setup_fcgiwrap(p) == Phase(p, "fcgiwrap", <<"fcgiwrap">>)
create_repo_directory(p) == Phase(p, "repodir", <<"repodir">>)
setup_web_server(p) == Phase(p, "web", <<"web">>)
download_gitea_binary(p) == Phase(p, "binary", <<"binary">>)
setup_systemd_service(p) == Phase(p, "unit", <<"unit">>)

\* useradd unless there is a git user, then its .ssh directory
setup_git_user(p) == At(p, "account") /\ Type(p) = "cgit" /\ Phase(p, "account", <<"user", "dotssh">>)

\* useradd makes the home, `mkdir && mkdir && chown` the directories of the data and of
\* app.ini: an existing git user ends this phase before them, whoever made it
create_gitea_user(p) ==
    /\ At(p, "account") /\ Type(p) = "gitea"
    /\ IF "user" \in box[Host(p)].has THEN Phase(p, "account", <<>>)
       ELSE Phase(p, "account", <<"user", "home", "dirs", "confdir", "owned">>)

\* mkstemp refuses the template nazg-git-key-XXXXXX.pub: no key is deployed, with a
\* warning only
deploy_ssh_key(p) ==
    /\ At(p, "key")
    /\ Goto(p, NextPhase(p))
    /\ UNCHANGED <<toml, gitRows, box, remote, commands>>

\* mutant: a refused app.ini is only warned about
IniIgnored(p) ==
    /\ At(p, "ini")
    /\ box' = [box EXCEPT ![Host(p)].has = IF box[Host(p)].up /\ "confdir" \in @ THEN @ \cup {"ini"} ELSE @]
    /\ Goto(p, NextPhase(p))
    /\ UNCHANGED <<toml, gitRows, remote, commands>>

\* mv into the directory of app.ini, which must be there, whoever owns it
InstallIni(p) ==
    /\ At(p, "ini")
    /\ IF "confdir" \in box[Host(p)].has THEN Succeed(p, {"ini"}) \/ Fail(p, <<"ini">>) ELSE Fail(p, <<>>)
    /\ UNCHANGED <<toml, gitRows, remote, commands>>

\* cd /var/lib/gitea, the user's home, and migrate; whether the admin user could be created
\* is not looked at
initialize_database(p) ==
    /\ At(p, "migrate")
    /\ IF "home" \in box[Host(p)].has THEN Succeed(p, {"db"}) \/ Fail(p, <<"db">>) ELSE Fail(p, <<>>)
    /\ UNCHANGED <<toml, gitRows, remote, commands>>

\* systemctl start
StartGitea(p) == Phase(p, "start", <<"started">>)

\* "created: <token>" is cut one character after the c, and any other text after its
\* first colon: the token is garbled; text without a colon gives none
create_admin_token(p) ==
    /\ At(p, "token")
    /\ \E token \in {"garbled", admin[p].cfg.token} :
          admin' = [admin EXCEPT ![p].pc = IF token = "" THEN "mark" ELSE "store", ![p].cfg.token = token]
    /\ UNCHANGED <<toml, gitRows, box, remote, commands>>

\* the command stores gitea's token, then marks the server as installed
StoreToken(p) ==
    /\ At(p, "store")
    /\ update_admin_token(admin[p].label, admin[p].cfg.token)
    /\ Goto(p, "mark")
    /\ UNCHANGED <<toml, box, remote, commands>>

\* configure, first half: the repositories on the machine (bare_repos is never written)
Discover(p) ==
    /\ At(p, "rc")
    /\ admin' = [admin EXCEPT ![p].pc = "mv",
                              ![p].found = IF box[Host(p)].up THEN box[Host(p)].pushed ELSE {}]
    /\ UNCHANGED <<toml, gitRows, box, remote, commands>>

\* second half: cgitrc is moved into place; install and sync go on without it
configure(p) ==
    /\ At(p, "mv")
    /\ \/ box[Host(p)].up /\ box' = [box EXCEPT ![Host(p)].rc = admin[p].found]
       \/ box' = box
    /\ admin' = [admin EXCEPT ![p].pc = IF admin[p].cmd = "install" THEN "mark" ELSE "state", ![p].found = {}]
    /\ UNCHANGED <<toml, gitRows, remote, commands>>

----------------------------------------------------------------------------
(* sync: one repository after the other                                     *)

\* the answer of the gitea API to a token; any call may fail
http_request(p) ==
    IF box[Host(p)].up /\ "started" \in box[Host(p)].has /\ admin[p].cfg.token = "good"
    THEN {"body", "error"} ELSE {"error"}

Advance(p, fine) ==
    admin' = [admin EXCEPT ![p].pc = "repo", ![p].left = @ \ {admin[p].repo}, ![p].repo = NoServer, ![p].ok = @ /\ fine]

\* the next one, or the end: cgit is configured again, gitea is not
NextRepo(p) ==
    LET r == admin[p] IN
    /\ At(p, "repo")
    /\ \/ \E one \in r.left :
             admin' = [admin EXCEPT ![p].repo = one, ![p].pc = IF Type(p) = "cgit" THEN "rsync" ELSE "get"]
       \/ /\ r.left = {}
          /\ IF ~r.ok THEN Finish(p) ELSE Goto(p, IF Type(p) = "cgit" THEN "rc" ELSE "state")
    /\ UNCHANGED <<toml, gitRows, box, remote, commands>>

\* rsync -avz --delete
cgit_sync_repos(p) ==
    /\ At(p, "rsync")
    /\ \E fine \in {box[Host(p)].up, FALSE} :
          /\ box' = IF fine THEN [box EXCEPT ![Host(p)].pushed = @ \cup {admin[p].repo}] ELSE box
          /\ Advance(p, fine)
    /\ UNCHANGED <<toml, gitRows, remote, commands>>

\* an error and a repository that is not there look the same
get_repo(p) ==
    /\ At(p, "get")
    /\ \E reply \in http_request(p) :
          Goto(p, IF reply = "body" /\ admin[p].repo \in box[Host(p)].forge THEN "remote" ELSE "create")
    /\ UNCHANGED <<toml, gitRows, box, remote, commands>>

\* refused when another process has created it meanwhile
create_repo(p) ==
    /\ At(p, "create")
    /\ \E reply \in http_request(p) :
          IF reply = "body" /\ admin[p].repo \notin box[Host(p)].forge
          THEN /\ box' = [box EXCEPT ![Host(p)].forge = @ \cup {admin[p].repo}]
               /\ Goto(p, "remote")
          ELSE box' = box /\ Advance(p, FALSE)
    /\ UNCHANGED <<toml, gitRows, remote, commands>>

\* git remote add, in the local repository that every process shares: an error is ignored,
\* an existing remote is one
AddRemote(p) ==
    /\ At(p, "remote")
    /\ \/ remote' = [remote EXCEPT ![admin[p].repo] = IF @ = NoServer THEN Host(p) ELSE @]
       \/ remote' = remote
    /\ Goto(p, "seturl")
    /\ UNCHANGED <<toml, gitRows, box, commands>>

\* mutant: the remote is there, so its URL is taken to be right
UrlKept(p) ==
    /\ At(p, "seturl")
    /\ Goto(p, "push")
    /\ UNCHANGED <<toml, gitRows, box, remote, commands>>

\* the push that process a is about to make goes elsewhere
Misled(a, one) == [admin[a] EXCEPT !.astray = @ \cup {one}]

\* git remote set-url: refused without a remote, or on a lock; nobody looks.  It turns the
\* push of another process that syncs this repository to another machine.
SetUrl(p) ==
    LET one == admin[p].repo
        elsewhere(a) == a # p /\ At(a, "push") /\ admin[a].repo = one /\ Host(a) # Host(p)
        go(a) == [a EXCEPT !.pc = "push"]
    IN
    /\ At(p, "seturl")
    /\ \/ /\ remote[one] # NoServer
          /\ remote' = [remote EXCEPT ![one] = Host(p)]
          /\ admin' = [a \in Admins |-> IF a = p THEN go(admin[p]) ELSE IF elsewhere(a) THEN Misled(a, one) ELSE admin[a]]
       \/ /\ remote' = remote
          /\ admin' = [admin EXCEPT ![p] = go(IF remote[one] = Host(p) THEN @ ELSE Misled(p, one))]
    /\ UNCHANGED <<toml, gitRows, box, commands>>

\* git push --mirror gitea: to whichever machine the remote names now, when its gitea knows
\* the repository
gitea_sync_repos(p) ==
    /\ At(p, "push")
    /\ \/ box' = box /\ Advance(p, FALSE)
       \/ \E h \in Boxes :
             /\ h = remote[admin[p].repo] /\ box[h].up /\ admin[p].repo \in box[h].forge
             /\ box' = [box EXCEPT ![h].pushed = @ \cup {admin[p].repo}]
             /\ Advance(p, TRUE)
    /\ UNCHANGED <<toml, gitRows, remote, commands>>

----------------------------------------------------------------------------
(* The environment                                                          *)

EditConfig(l) ==
    /\ commands < MaxCommands
    /\ \E s \in Settings \cup {NoServer} : s # toml[l] /\ toml' = [toml EXCEPT ![l] = s]
    /\ UNCHANGED <<gitRows, box, admin, remote, commands>>

Outage(h) ==
    /\ commands < MaxCommands
    /\ box' = [box EXCEPT ![h].up = ~@]
    /\ UNCHANGED <<toml, gitRows, admin, remote, commands>>

\* a process is killed
Killed(p) ==
    /\ ~At(p, "idle")
    /\ Finish(p)
    /\ UNCHANGED <<toml, gitRows, box, remote, commands>>

GitNext ==
    \/ \E p \in Admins :
          \/ \E l \in Labels : \/ cmd_git_server_add(p, l) \/ cmd_git_server_status(p, l)
                               \/ cmd_git_server_install(p, l) \/ cmd_git_server_sync(p, l)
          \/ AddReads(p) \/ registry_add_server(p) \/ OfferSync(p) \/ SyncReads(p)
          \/ sync_config_to_database(p) \/ confirm(p) \/ Probe(p) \/ StoreInstalled(p) \/ StoreState(p)
          \/ ssh_test_connection(p) \/ install_deps(p) \/ setup_fcgiwrap(p) \/ create_repo_directory(p)
          \/ setup_web_server(p) \/ download_gitea_binary(p) \/ setup_systemd_service(p)
          \/ setup_git_user(p) \/ create_gitea_user(p) \/ deploy_ssh_key(p) \/ InstallIni(p)
          \/ initialize_database(p) \/ StartGitea(p) \/ create_admin_token(p) \/ StoreToken(p)
          \/ Discover(p) \/ configure(p)
          \/ NextRepo(p) \/ cgit_sync_repos(p) \/ get_repo(p) \/ create_repo(p)
          \/ AddRemote(p) \/ SetUrl(p) \/ gitea_sync_repos(p)
          \/ Killed(p)
    \/ \E l \in Labels : remove_server(l) \/ EditConfig(l)
    \/ \E h \in Boxes \cap Unsteady : Outage(h)

GitSpec == GitInit /\ [][GitNext]_gitVars

----------------------------------------------------------------------------

(* "both", not "both (modified)": when get_server sees no change, the row    *)
(* really describes the machine and the type of config.toml, after any       *)
(* interleaving of adds, installs, syncs and edits.                         *)
UnchangedMeansSame ==
    \A l \in Labels :
        (toml[l] # NoServer /\ gitRows[l] # NoServer /\ ~get_server(l, toml[l]).changed) =>
            compute_config_hash(gitRows[l].cfg) = compute_config_hash(toml[l])

(* "Installation complete" is printed only for a machine that has what each *)
(* step that may end the installation leaves, by this or by an earlier      *)
(* attempt (install of both servers, retried after partial failures).  The  *)
(* data directories and their owner are not among it: the phase that makes  *)
(* them is passed over when the git user exists.                            *)
CompleteMeansDeployed ==
    \A p \in Admins :
        (admin[p].cmd = "install" /\ admin[p].pc \in {"store", "mark", "state"}) =>
            (CASE Type(p) = "cgit" -> {"packages", "fcgiwrap", "user", "dotssh", "repodir", "web"}
               [] OTHER -> {"binary", "user", "home", "confdir", "ini", "unit", "db", "started"})
            \subseteq box[Host(p)].has

(* "Synced n repository(s)": a sync ends in success only when each of its    *)
(* repositories arrived, whatever failed for one and worked for the next.   *)
(* It arrived on the machine that was asked for unless, between this        *)
(* command's set-url and its push, another sync turned the remote they      *)
(* share, or the set-url was refused: then it is on some machine's gitea.   *)
SyncedMeansArrived ==
    \A p \in Admins :
        (admin[p].cmd = "sync" /\ admin[p].ok) =>
            \A one \in admin[p].chosen \ admin[p].left :
                \/ one \in box[Host(p)].pushed
                \/ one \in admin[p].astray /\ \E h \in Boxes : one \in box[h].pushed \cap box[h].forge
=============================================================================
