------------------------------ MODULE AgentLink ------------------------------
(***************************************************************************)
(* The remote agent (nazg-agent) and the controllers that talk to it over   *)
(* TCP: `nazg bot spawn` with its doctor bots, and the docker monitoring    *)
(* client.  The agent serves one connection at a time on its accept thread; *)
(* every controller connection goes through the kernel's listen queue, and  *)
(* a controller waits for each answer no longer than its socket timeout.    *)
(*                                                                          *)
(* Payloads are abstracted to the message type.  A connection keeps the     *)
(* unread messages of each direction and which ends are still open.         *)
(***************************************************************************)
EXTENDS Integers, Sequences

CONSTANTS
    Bots,          \* processes running `nazg bot spawn doctor`
    Monitors,      \* processes running docker_monitor::Client requests
    Backlog,       \* length of the kernel's listen queue
    AuthRequired,  \* the agent has an auth_token configured
    DbMayFail,     \* statements of the controllers' database may fail
    MaxStarts,     \* bound: how often the agent process is started
    LossKinds,     \* how a controller is lost: subset of {"closed", "vanished"}
    MaxLosses,     \* bound: how many controllers are lost
    NoConn         \* the accept thread is serving nobody

ASSUME AgentLinkConstants ==
    /\ Bots \cap Monitors = {}
    /\ Backlog \in Nat /\ MaxStarts \in Nat /\ MaxLosses \in Nat
    /\ LossKinds \subseteq {"closed", "vanished"}
    /\ AuthRequired \in BOOLEAN /\ DbMayFail \in BOOLEAN
    /\ NoConn \notin (Bots \cup Monitors) \X {"probe", "exec", "request"}

Controllers == Bots \cup Monitors

\* A bot opens one connection to probe the agent and one to run its script;
\* a monitor opens one for its request.
Conns == (Bots \X {"probe", "exec"}) \cup (Monitors \X {"request"})

Requests == {"Hello", "RunCommand", "DockerFullScan", "Register"}
Replies == {"HelloAck", "Result", "DockerFullScan", "RegisterAck", "Error"}

VARIABLES
    mainPc,     \* main thread of the agent: "run", "join_accept", ...
    running,    \* Runtime::running_
    listening,  \* listen_fd_ is an open listening socket
    agentPc,    \* accept thread: "accept", "greet", "serve", "script", "exit"
    scanPc,     \* scanner thread: "scan", "sleep", "exit"
    cur,        \* the connection handle_client is serving
    backlog,    \* connections completed by the kernel, not yet accepted
    client,     \* controller's end: "none", "open", "closed", "vanished"
    server,     \* agent's end: "none", "queued", "accepted", "closed"
    inbox,      \* unread bytes towards the agent, as messages
    outbox,     \* unread bytes towards the controller, as messages
    lostSends,  \* messages of the agent that nobody can receive
    pc,         \* where each controller is
    available,  \* host.extra_config["agent_available"]
    retried,    \* attempted_setup
    result,     \* outcome of the current execute()
    rows,       \* bot_runs rows of each bot, oldest first: their status
    run,        \* run_id of each bot, as an index into its rows; 0 for -1
    reports,    \* bot_reports: pairs of a bot and the index of its row
    agentRuns,  \* scripts the agent started for a bot
    sshRuns,    \* scripts started over SSH for a bot
    hostStatus, \* last_status of the bot_hosts row
    status,     \* servers.agent_status of each monitored server
    taken,      \* history: the bot took a result from the agent
    answered,   \* history: the agent answered the monitor's request
    starts,     \* starts of the agent process so far
    losses      \* controllers lost so far

agentVars == <<mainPc, running, listening, agentPc, scanPc, cur, starts>>
sockVars == <<backlog, client, server, inbox, outbox, lostSends>>
botVars == <<available, retried, result, rows, run, reports, sshRuns, hostStatus, taken>>
monVars == <<status>>
vars == <<agentVars, sockVars, pc, botVars, agentRuns, monVars, answered, losses>>

-----------------------------------------------------------------------------
(***************************************************************************)
(* Sockets.                                                                 *)
(***************************************************************************)

\* ::send by the agent.  Bytes for a peer that closed are answered with a
\* reset; on bytes for a peer that vanished the kernel gives up.  The agent does
\* not set MSG_NOSIGNAL: a further send can raise SIGPIPE.
Send(k, m) ==
    /\ outbox' = IF client[k] = "open"
                 THEN [outbox EXCEPT ![k] = Append(@, m)] ELSE outbox
    /\ lostSends' = IF client[k] = "open" THEN lostSends
                    ELSE [lostSends EXCEPT ![k] = @ + 1]

\* The kernel completes a connection as long as the listen queue has room.
CanConnect == listening /\ Len(backlog) < Backlog

\* Mutant of ConnectAndHello: the request is sent without waiting for the ack.
ConnectAndPipeline(k) ==
    /\ client' = [client EXCEPT ![k] = "open"]
    /\ server' = [server EXCEPT ![k] = "queued"]
    /\ inbox' = [inbox EXCEPT ![k] = <<"Hello", "RunCommand">>]
    /\ backlog' = Append(backlog, k)
    /\ UNCHANGED <<outbox, lostSends>>

\* connect() followed by the Hello that every controller sends first.
ConnectAndHello(k) ==
    /\ client' = [client EXCEPT ![k] = "open"]
    /\ server' = [server EXCEPT ![k] = "queued"]
    /\ inbox' = [inbox EXCEPT ![k] = <<"Hello">>]
    /\ backlog' = Append(backlog, k)
    /\ UNCHANGED <<outbox, lostSends>>

\* close() by the controller; `unread` is what the agent sent and nobody reads.
Close(k, unread) ==
    /\ client' = [client EXCEPT ![k] = "closed"]
    /\ outbox' = [outbox EXCEPT ![k] = <<>>]
    /\ lostSends' = [lostSends EXCEPT ![k] = @ + Len(unread)]

\* The kernel resets these connections; the peer sees end-of-stream.
Reset(ks) ==
    /\ server' = [k \in Conns |-> IF k \in ks THEN "closed" ELSE server[k]]
    /\ inbox' = [k \in Conns |-> IF k \in ks THEN <<>> ELSE inbox[k]]

-----------------------------------------------------------------------------
(***************************************************************************)
(* The agent: Runtime::start, stop, accept_loop, handle_client,             *)
(* scanner_loop.                                                            *)
(***************************************************************************)

AgentInit ==
    /\ mainPc = "run" /\ running = TRUE /\ listening = TRUE
    /\ agentPc = "accept" /\ scanPc = "scan" /\ cur = NoConn /\ starts = 1

\* What accept_loop does once handle_client has returned: close the
\* connection, test running_, and block in accept() again.
ReturnFromClient ==
    /\ server' = [server EXCEPT ![cur] = "closed"]
    /\ cur' = NoConn
    /\ agentPc' = IF running THEN "accept" ELSE "exit"

AcceptClient ==
    /\ agentPc = "accept" /\ listening /\ backlog # <<>>
    /\ cur' = Head(backlog)
    /\ backlog' = Tail(backlog)
    /\ server' = [server EXCEPT ![cur'] = "accepted"]
    /\ agentPc' = "greet"
    /\ UNCHANGED <<mainPc, running, listening, scanPc, starts, client, inbox,
                   outbox, lostSends, pc, botVars, agentRuns, monVars, answered, losses>>

\* shutdown() and close() of the listening socket wake accept() with an error.
AcceptFails ==
    /\ agentPc = "accept" /\ ~listening
    /\ agentPc' = "exit"
    /\ UNCHANGED <<mainPc, running, listening, scanPc, cur, starts, sockVars,
                   pc, botVars, agentRuns, monVars, answered, losses>>

\* Mutant of Greet: the token is not compared.
GreetAnyone ==
    /\ agentPc = "greet" /\ inbox[cur] # <<>>
    /\ inbox' = [inbox EXCEPT ![cur] = Tail(@)]
    /\ Send(cur, "HelloAck")
    /\ agentPc' = "serve"
    /\ UNCHANGED <<mainPc, running, listening, scanPc, cur, starts, server,
                   backlog, client, pc, botVars, agentRuns, monVars, answered,
                   losses>>

\* First message of a connection.  No controller of this repository sends the
\* token, so an agent that requires one refuses them all.
Greet ==
    /\ agentPc = "greet" /\ inbox[cur] # <<>>
    /\ inbox' = [inbox EXCEPT ![cur] = Tail(@)]
    /\ \/ /\ ~AuthRequired
          /\ Send(cur, "HelloAck")
          /\ agentPc' = "serve"
          /\ UNCHANGED <<cur, server>>
       \/ /\ AuthRequired
          /\ Send(cur, "Error")
          /\ ReturnFromClient
    /\ UNCHANGED <<mainPc, running, listening, scanPc, starts, backlog, client,
                   pc, botVars, agentRuns, monVars, answered, losses>>

\* Mutant of RecvFails: end-of-stream is taken for "try again".
RecvRetries(k) == FALSE /\ inbox[k] = <<>>

\* recv() fails once everything was read: the controller has closed, or the
\* kernel gave up on an unacknowledged answer.  There is no timeout and no
\* keepalive: a recv() with nothing unacknowledged waits for ever.
RecvFails(k) ==
    /\ inbox[k] = <<>>
    /\ client[k] = "closed" \/ (client[k] = "vanished" /\ lostSends[k] > 0)

\* read_message returns false.
PeerClosed ==
    /\ agentPc \in {"greet", "serve"}
    /\ RecvFails(cur)
    /\ ReturnFromClient
    /\ UNCHANGED <<mainPc, running, listening, scanPc, starts, backlog, client,
                   inbox, outbox, lostSends, pc, botVars, agentRuns, monVars,
                   answered, losses>>

\* RunCommand: run_script blocks the accept thread until bash has finished.
StartScript ==
    /\ agentPc = "serve" /\ inbox[cur] # <<>> /\ Head(inbox[cur]) = "RunCommand"
    /\ inbox' = [inbox EXCEPT ![cur] = Tail(@)]
    /\ agentRuns' = [agentRuns EXCEPT ![cur[1]] = @ + 1]
    /\ agentPc' = "script"
    /\ UNCHANGED <<mainPc, running, listening, scanPc, cur, starts, backlog,
                   client, server, outbox, lostSends, pc, botVars, monVars,
                   answered, losses>>

FinishScript ==
    /\ agentPc = "script"
    /\ Send(cur, "Result")
    /\ agentPc' = "serve"
    /\ UNCHANGED <<mainPc, running, listening, scanPc, cur, starts, backlog,
                   client, server, inbox, pc, botVars, agentRuns, monVars,
                   answered, losses>>

\* Mutant of ReplyTo: the request's own type is sent back.
EchoType(m) == {m}

\* The answer to each other request; without docker monitoring the agent has
\* no scanner and a full scan is an error.
ReplyTo(m) == IF m = "Register" THEN {"RegisterAck"} ELSE {"DockerFullScan", "Error"}

AnswerRequest ==
    /\ agentPc = "serve" /\ inbox[cur] # <<>> /\ Head(inbox[cur]) # "RunCommand"
    /\ \E m \in ReplyTo(Head(inbox[cur])) :
          /\ Send(cur, m)
          /\ answered' = [answered EXCEPT ![cur[1]] = (m # "Error")]
    /\ inbox' = [inbox EXCEPT ![cur] = Tail(@)]
    /\ UNCHANGED <<agentVars, backlog, client, server, pc, botVars, agentRuns,
                   monVars, losses>>

\* scanner_loop: a scan, then a sleep that ends early when running_ is cleared.
ScannerStep ==
    /\ \/ scanPc = "scan" /\ scanPc' = "sleep"
       \/ scanPc = "sleep" /\ scanPc' = IF running THEN "scan" ELSE "exit"
    /\ UNCHANGED <<mainPc, running, listening, agentPc, cur, starts, sockVars,
                   pc, botVars, agentRuns, monVars, answered, losses>>

\* SIGINT or SIGTERM: main leaves its loop and Runtime::stop closes the
\* listening socket; the kernel resets what nobody accepted.
Shutdown ==
    /\ mainPc = "run"
    /\ mainPc' = "join_accept"
    /\ running' = FALSE
    /\ listening' = FALSE
    /\ Reset({k \in Conns : server[k] = "queued"})
    /\ backlog' = <<>>
    /\ UNCHANGED <<agentPc, scanPc, cur, starts, client, outbox, lostSends,
                   pc, botVars, agentRuns, monVars, answered, losses>>

\* Mutant of JoinAccept: the accept thread is detached.
DetachAccept ==
    /\ mainPc = "join_accept"
    /\ mainPc' = "join_scanner"
    /\ UNCHANGED <<running, listening, agentPc, scanPc, cur, starts, sockVars,
                   pc, botVars, agentRuns, monVars, answered, losses>>

\* thread_->join(), then scanner_thread_->join().
JoinAccept ==
    /\ mainPc = "join_accept" /\ agentPc = "exit"
    /\ mainPc' = "join_scanner"
    /\ UNCHANGED <<running, listening, agentPc, scanPc, cur, starts, sockVars,
                   pc, botVars, agentRuns, monVars, answered, losses>>

JoinScanner ==
    /\ mainPc = "join_scanner" /\ scanPc = "exit"
    /\ mainPc' = "stopped"
    /\ UNCHANGED <<running, listening, agentPc, scanPc, cur, starts, sockVars,
                   pc, botVars, agentRuns, monVars, answered, losses>>

\* The agent process is killed: every thread ends, every socket is reset.  A
\* script it started keeps running, its output is lost.
AgentKilled ==
    /\ mainPc \in {"run", "join_accept", "join_scanner"}
    /\ mainPc' = "killed" /\ running' = FALSE /\ listening' = FALSE
    /\ agentPc' = "exit" /\ scanPc' = "exit" /\ cur' = NoConn
    /\ Reset({k \in Conns : server[k] \in {"queued", "accepted"}})
    /\ backlog' = <<>>
    /\ UNCHANGED <<starts, client, outbox, lostSends, pc, botVars, agentRuns,
                   monVars, answered, losses>>

\* Runtime::start in a new process.
AgentStarted ==
    /\ mainPc \in {"stopped", "killed"} /\ starts < MaxStarts
    /\ mainPc' = "run" /\ running' = TRUE /\ listening' = TRUE
    /\ agentPc' = "accept" /\ scanPc' = "scan" /\ cur' = NoConn
    /\ starts' = starts + 1
    /\ UNCHANGED <<sockVars, pc, botVars, agentRuns, monVars, answered, losses>>

AgentThread ==
    \/ AcceptClient \/ AcceptFails \/ Greet \/ PeerClosed
    \/ StartScript \/ FinishScript \/ AnswerRequest

-----------------------------------------------------------------------------
(***************************************************************************)
(* `nazg bot spawn doctor`: probe, then one or two tracked runs.            *)
(***************************************************************************)

\* What the probe leaves alone.
botStore == <<retried, result, rows, run, reports, sshRuns, hostStatus, taken>>

\* cmd_bot_spawn up to AgentTransport::hello().
Probe(b) ==
    /\ pc[b] = "start"
    /\ \/ /\ CanConnect /\ ConnectAndHello(<<b, "probe">>)
          /\ pc' = [pc EXCEPT ![b] = "probe"]
       \/ /\ ~CanConnect
          /\ pc' = [pc EXCEPT ![b] = "begin"]
          /\ UNCHANGED sockVars
    /\ UNCHANGED <<agentVars, botVars, agentRuns, monVars, answered, losses>>

\* hello() reads once: a short read makes decode() fail.
ProbeAnswered(b) ==
    LET k == <<b, "probe">> IN
    /\ pc[b] = "probe" /\ outbox[k] # <<>>
    /\ \E whole \in BOOLEAN :
          available' = [available EXCEPT ![b] = whole /\ Head(outbox[k]) = "HelloAck"]
    /\ Close(k, Tail(outbox[k]))
    /\ pc' = [pc EXCEPT ![b] = "begin"]
    /\ UNCHANGED <<agentVars, backlog, server, inbox, botStore,
                   agentRuns, monVars, answered, losses>>

\* SO_RCVTIMEO expires or the connection is reset; an answer may be on its way.
ProbeFails(b) ==
    LET k == <<b, "probe">> IN
    /\ pc[b] = "probe"
    /\ Close(k, outbox[k])
    /\ pc' = [pc EXCEPT ![b] = "begin"]
    /\ UNCHANGED <<agentVars, backlog, server, inbox, botVars,
                   agentRuns, monVars, answered, losses>>

\* What a table holds after a statement: another process may have the database
\* locked, no busy timeout is set, and the callers here go on after a failure.
Written(old, new) == IF DbMayFail THEN {old, new} ELSE {new}

\* begin_bot_run, and the choice of transport at the head of execute().  When
\* the insert fails the run goes on without a row.
BeginRun(b) ==
    /\ pc[b] = "begin"
    /\ \/ /\ rows' = [rows EXCEPT ![b] = Append(@, "running")]
          /\ run' = [run EXCEPT ![b] = Len(rows[b]) + 1]
       \/ /\ DbMayFail
          /\ run' = [run EXCEPT ![b] = 0]
          /\ UNCHANGED rows
    /\ pc' = [pc EXCEPT ![b] = IF available[b] THEN "connect" ELSE "ssh"]
    /\ UNCHANGED <<agentVars, sockVars, available, retried, result, reports,
                   hostStatus, taken, agentRuns, sshRuns, monVars, answered,
                   losses>>

\* AgentTransport::execute_script on a connection of its own.
ExecConnect(b) ==
    /\ pc[b] = "connect"
    /\ \/ /\ CanConnect /\ ConnectAndHello(<<b, "exec">>)
          /\ pc' = [pc EXCEPT ![b] = "hello"]
       \/ /\ ~CanConnect
          /\ pc' = [pc EXCEPT ![b] = "ssh"]
          /\ UNCHANGED sockVars
    /\ UNCHANGED <<agentVars, botVars, agentRuns, monVars, answered, losses>>

ExecAcked(b) ==
    LET k == <<b, "exec">> IN
    /\ pc[b] = "hello" /\ outbox[k] # <<>>
    /\ \/ /\ Head(outbox[k]) = "HelloAck"
          /\ outbox' = [outbox EXCEPT ![k] = Tail(@)]
          /\ inbox' = IF server[k] = "closed" THEN inbox
                      ELSE [inbox EXCEPT ![k] = Append(@, "RunCommand")]
          /\ pc' = [pc EXCEPT ![b] = "await"]
          /\ UNCHANGED <<client, lostSends>>
       \/ /\ Head(outbox[k]) # "HelloAck"
          /\ Close(k, Tail(outbox[k]))
          /\ pc' = [pc EXCEPT ![b] = "ssh"]
          /\ UNCHANGED inbox
    /\ UNCHANGED <<agentVars, backlog, server, botVars, agentRuns,
                   monVars, answered, losses>>

\* Mutant of ExecResult: a script that failed on the agent is run over SSH too.
ExecResultOrSsh(b) ==
    LET k == <<b, "exec">> IN
    /\ pc[b] = "await" /\ outbox[k] # <<>>
    /\ Close(k, Tail(outbox[k]))
    /\ taken' = [taken EXCEPT ![b] = TRUE]
    /\ \E r \in {"report", "error"} :
          /\ result' = [result EXCEPT ![b] = r]
          /\ pc' = [pc EXCEPT ![b] = IF r = "error" THEN "ssh" ELSE "finish"]
    /\ UNCHANGED <<agentVars, backlog, server, inbox, available,
                   retried, rows, run, reports, sshRuns, hostStatus, agentRuns,
                   monVars, answered, losses>>

\* A Result that stoi() and the newline search accept.  The script's exit code
\* and report decide the outcome; "denied" needs SSH's exit code 255.
ExecResult(b) ==
    LET k == <<b, "exec">> IN
    /\ pc[b] = "await" /\ outbox[k] # <<>>
    /\ Close(k, Tail(outbox[k]))
    /\ \E r \in {"report", "error"} : result' = [result EXCEPT ![b] = r]
    /\ taken' = [taken EXCEPT ![b] = TRUE]
    /\ pc' = [pc EXCEPT ![b] = "finish"]
    /\ UNCHANGED <<agentVars, backlog, server, inbox, available,
                   retried, rows, run, reports, sshRuns, hostStatus, agentRuns,
                   monVars, answered, losses>>

\* Mutant of ExecFails: the wait for the result has no timeout.
ExecWaits(b) ==
    LET k == <<b, "exec">> IN
    /\ pc[b] = "hello"
    /\ Close(k, outbox[k])
    /\ pc' = [pc EXCEPT ![b] = "ssh"]
    /\ UNCHANGED <<agentVars, backlog, server, inbox, botVars,
                   agentRuns, monVars, answered, losses>>

\* execute_script returns false: DoctorBot::execute falls back to SSH.
ExecFails(b) ==
    LET k == <<b, "exec">> IN
    /\ pc[b] \in {"hello", "await"}
    /\ Close(k, outbox[k])
    /\ pc' = [pc EXCEPT ![b] = "ssh"]
    /\ UNCHANGED <<agentVars, backlog, server, inbox, botVars,
                   agentRuns, monVars, answered, losses>>

\* SSHTransport::execute_script; ssh refuses, cannot connect, or runs it (the
\* script prints no "Permission denied" of its own, so a run is never "denied").
RunOverSsh(b) ==
    /\ pc[b] = "ssh"
    /\ \/ /\ \E r \in {"report", "error"} : result' = [result EXCEPT ![b] = r]
          /\ sshRuns' = [sshRuns EXCEPT ![b] = @ + 1]
       \/ /\ \E r \in {"error", "denied"} : result' = [result EXCEPT ![b] = r]
          /\ UNCHANGED sshRuns
    /\ pc' = [pc EXCEPT ![b] = "finish"]
    /\ UNCHANGED <<agentVars, sockVars, available, retried, rows, run, reports,
                   hostStatus, taken, agentRuns, monVars, answered, losses>>

\* The status stored for a run; "ok" stands for the status of its report.
Verdict(b) == IF result[b] = "report" THEN "ok" ELSE "error"

\* Mutant of FinishRun: the retry finishes the row of the first attempt.
FinishFirstRun(b) ==
    /\ pc[b] = "finish"
    /\ rows' = IF rows[b] = <<>> THEN rows ELSE [rows EXCEPT ![b][1] = Verdict(b)]
    /\ pc' = [pc EXCEPT ![b] = "report"]
    /\ UNCHANGED <<agentVars, sockVars, available, retried, result, run, reports,
                   sshRuns, hostStatus, taken, agentRuns, monVars, answered,
                   losses>>

\* finish_bot_run updates the row of this run; its failure goes unnoticed.
FinishRun(b) ==
    /\ pc[b] = "finish"
    /\ rows' \in Written(rows, IF run[b] = 0 THEN rows
                                ELSE [rows EXCEPT ![b][run[b]] = Verdict(b)])
    /\ pc' = [pc EXCEPT ![b] = "report"]
    /\ UNCHANGED <<agentVars, sockVars, available, retried, result, run, reports,
                   sshRuns, hostStatus, taken, agentRuns, monVars, answered,
                   losses>>

\* The process of a bot ends and its memory with it.
Forget(bs) ==
    /\ available' = [b \in Bots |-> IF b \in bs THEN FALSE ELSE available[b]]
    /\ retried' = [b \in Bots |-> IF b \in bs THEN FALSE ELSE retried[b]]
    /\ result' = [b \in Bots |-> IF b \in bs THEN "none" ELSE result[b]]
    /\ run' = [b \in Bots |-> IF b \in bs THEN 0 ELSE run[b]]

\* add_bot_report (refused for a run without a row) and update_bot_host_status,
\* each of which may fail unnoticed; then the one retry after `bot setup`, which
\* parses the host configuration afresh and so forgets agent_available.
SaveReport(b) ==
    /\ pc[b] = "report"
    /\ reports' \in Written(reports, IF result[b] = "report" /\ run[b] # 0
                                      THEN reports \cup {<<b, run[b]>>} ELSE reports)
    /\ hostStatus' \in Written(hostStatus, Verdict(b))
    /\ \/ /\ result[b] = "denied" /\ ~retried[b]
          /\ retried' = [retried EXCEPT ![b] = TRUE]
          /\ available' = [available EXCEPT ![b] = FALSE]
          /\ pc' = [pc EXCEPT ![b] = "begin"]
          /\ UNCHANGED <<result, run>>
       \/ /\ pc' = [pc EXCEPT ![b] = "done"]
          /\ Forget({b})
    /\ UNCHANGED <<agentVars, sockVars, rows, sshRuns, taken, agentRuns, monVars,
                   answered, losses>>

BotStep(b) ==
    \/ Probe(b) \/ ProbeAnswered(b) \/ ProbeFails(b) \/ BeginRun(b)
    \/ ExecConnect(b) \/ ExecAcked(b) \/ ExecResult(b) \/ ExecFails(b)
    \/ RunOverSsh(b) \/ FinishRun(b) \/ SaveReport(b)

-----------------------------------------------------------------------------
(***************************************************************************)
(* docker_monitor::Client: scan_server and register_agent.                  *)
(***************************************************************************)

\* update_server_status
MonitorFails(m) ==
    /\ status' \in Written(status, [status EXCEPT ![m] = "offline"])
    /\ pc' = [pc EXCEPT ![m] = "done"]

MonitorConnect(m) ==
    /\ pc[m] = "start"
    /\ \/ /\ CanConnect /\ ConnectAndHello(<<m, "request">>)
          /\ pc' = [pc EXCEPT ![m] = "hello"]
          /\ UNCHANGED monVars
       \/ ~CanConnect /\ MonitorFails(m) /\ UNCHANGED sockVars
    /\ UNCHANGED <<agentVars, botVars, agentRuns, answered, losses>>

\* Mutant of MonitorAcked: the handshake alone counts as an answer.
MonitorTrustsAck(m) ==
    LET k == <<m, "request">> IN
    /\ pc[m] = "hello" /\ outbox[k] # <<>>
    /\ Close(k, Tail(outbox[k]))
    /\ status' = [status EXCEPT ![m] = "online"]
    /\ pc' = [pc EXCEPT ![m] = "done"]
    /\ UNCHANGED <<agentVars, backlog, server, inbox, botVars, agentRuns,
                   answered, losses>>

MonitorAcked(m) ==
    LET k == <<m, "request">> IN
    /\ pc[m] = "hello" /\ outbox[k] # <<>>
    /\ \/ /\ Head(outbox[k]) = "HelloAck"
          /\ outbox' = [outbox EXCEPT ![k] = Tail(@)]
          /\ \E req \in {"DockerFullScan", "Register"} :
                inbox' = IF server[k] = "closed" THEN inbox
                         ELSE [inbox EXCEPT ![k] = Append(@, req)]
          /\ pc' = [pc EXCEPT ![m] = "await"]
          /\ UNCHANGED <<client, lostSends, monVars>>
       \/ /\ Head(outbox[k]) # "HelloAck"
          /\ Close(k, Tail(outbox[k])) /\ MonitorFails(m)
          /\ UNCHANGED inbox
    /\ UNCHANGED <<agentVars, backlog, server, botVars, agentRuns,
                   answered, losses>>

\* Any response type but Error counts as success.
MonitorReply(m) ==
    LET k == <<m, "request">> IN
    /\ pc[m] = "await" /\ outbox[k] # <<>>
    /\ Close(k, Tail(outbox[k]))
    /\ \/ Head(outbox[k]) = "Error" /\ MonitorFails(m)
       \/ /\ Head(outbox[k]) # "Error"
          /\ status' \in Written(status, [status EXCEPT ![m] = "online"])
          /\ pc' = [pc EXCEPT ![m] = "done"]
    /\ UNCHANGED <<agentVars, backlog, server, inbox, botVars,
                   agentRuns, answered, losses>>

MonitorTimeout(m) ==
    LET k == <<m, "request">> IN
    /\ pc[m] \in {"hello", "await"}
    /\ Close(k, outbox[k]) /\ MonitorFails(m)
    /\ UNCHANGED <<agentVars, backlog, server, inbox, botVars,
                   agentRuns, answered, losses>>

MonitorStep(m) ==
    MonitorConnect(m) \/ MonitorAcked(m) \/ MonitorReply(m) \/ MonitorTimeout(m)

-----------------------------------------------------------------------------
\* A controller's process is killed, which closes its sockets ("closed"), or
\* its host disappears and the agent is never told ("vanished"), after or
\* before it acknowledged what the agent had sent.
OpenConns(c) == {k \in Conns : k[1] = c /\ client[k] = "open"}

LoseController(c) ==
    /\ pc[c] \notin {"done", "lost"}
    /\ losses < MaxLosses
    /\ losses' = losses + 1
    /\ pc' = [pc EXCEPT ![c] = "lost"]
    /\ \E end \in LossKinds, acked \in BOOLEAN :
          /\ client' = [k \in Conns |-> IF k \in OpenConns(c) THEN end ELSE client[k]]
          /\ lostSends' = [k \in Conns |->
                IF k \in OpenConns(c) /\ ~(end = "vanished" /\ acked)
                THEN lostSends[k] + Len(outbox[k]) ELSE lostSends[k]]
    /\ outbox' = [k \in Conns |-> IF k \in OpenConns(c) THEN <<>> ELSE outbox[k]]
    /\ Forget({c})
    /\ UNCHANGED <<agentVars, backlog, server, inbox, rows, reports, sshRuns,
                   hostStatus, taken, agentRuns, monVars, answered>>

AllDone == \A c \in Controllers : pc[c] \in {"done", "lost"}

\* Nothing is left to do: the agent waits in accept() or has stopped.
Idle == AllDone /\ mainPc \in {"stopped", "killed"} /\ UNCHANGED vars

Init ==
    /\ AgentInit
    /\ backlog = <<>>
    /\ client = [k \in Conns |-> "none"]
    /\ server = [k \in Conns |-> "none"]
    /\ inbox = [k \in Conns |-> <<>>]
    /\ outbox = [k \in Conns |-> <<>>]
    /\ lostSends = [k \in Conns |-> 0]
    /\ pc = [c \in Controllers |-> "start"]
    /\ available = [b \in Bots |-> FALSE]
    /\ retried = [b \in Bots |-> FALSE]
    /\ result = [b \in Bots |-> "none"]
    /\ rows = [b \in Bots |-> <<>>]
    /\ run = [b \in Bots |-> 0]
    /\ hostStatus = "none"
    /\ reports = {}
    /\ agentRuns = [b \in Bots |-> 0]
    /\ sshRuns = [b \in Bots |-> 0]
    /\ status = [m \in Monitors |-> "unknown"]
    /\ answered = [m \in Monitors |-> FALSE]
    /\ taken = [b \in Bots |-> FALSE]
    /\ losses = 0

Next ==
    \/ AgentThread
    \/ ScannerStep
    \/ Shutdown \/ JoinAccept \/ JoinScanner \/ AgentKilled \/ AgentStarted
    \/ \E b \in Bots : BotStep(b)
    \/ \E m \in Monitors : MonitorStep(m)
    \/ \E c \in Controllers : LoseController(c)
    \/ Idle

\* Every thread and process that can run does run; scripts end; socket
\* timeouts fire.  Signals, kills and restarts are not promised.
Fairness ==
    /\ WF_vars(AgentThread)
    /\ WF_vars(ScannerStep)
    /\ WF_vars(JoinAccept) /\ WF_vars(JoinScanner)
    /\ \A b \in Bots : WF_vars(BotStep(b))
    /\ \A m \in Monitors : WF_vars(MonitorStep(m))

Spec == Init /\ [][Next]_vars
FairSpec == Spec /\ Fairness

-----------------------------------------------------------------------------
(***************************************************************************)
(* Properties.                                                              *)
(***************************************************************************)

AgentTypeOK ==
    /\ mainPc \in {"run", "join_accept", "join_scanner", "stopped", "killed"}
    /\ running \in BOOLEAN /\ listening \in BOOLEAN
    /\ agentPc \in {"accept", "greet", "serve", "script", "exit"}
    /\ scanPc \in {"scan", "sleep", "exit"}
    /\ cur \in Conns \cup {NoConn}
    /\ starts \in Nat /\ losses \in Nat

SocketTypeOK ==
    /\ backlog \in Seq(Conns)
    /\ client \in [Conns -> {"none", "open", "closed", "vanished"}]
    /\ server \in [Conns -> {"none", "queued", "accepted", "closed"}]
    /\ inbox \in [Conns -> Seq(Requests)]
    /\ outbox \in [Conns -> Seq(Replies)]
    /\ lostSends \in [Conns -> Nat]

ControllerTypeOK ==
    /\ pc \in [Controllers -> {"start", "probe", "begin", "connect", "hello",
                               "await", "ssh", "finish", "report", "done", "lost"}]
    /\ available \in [Bots -> BOOLEAN] /\ retried \in [Bots -> BOOLEAN]
    /\ result \in [Bots -> {"none", "report", "error", "denied"}]
    /\ rows \in [Bots -> Seq({"running", "ok", "error"})]
    /\ run \in [Bots -> Nat]
    /\ reports \subseteq (Bots \X Nat)
    /\ hostStatus \in {"none", "ok", "error"}
    /\ agentRuns \in [Bots -> Nat] /\ sshRuns \in [Bots -> Nat]
    /\ status \in [Monitors -> {"unknown", "online", "offline"}]
    /\ answered \in [Monitors -> BOOLEAN] /\ taken \in [Bots -> BOOLEAN]

\* Type invariant of every variable of the agent, the sockets and the
\* controllers.
TypeOK == AgentTypeOK /\ SocketTypeOK /\ ControllerTypeOK

Scripts(k) == IF agentPc = "script" /\ cur = k THEN 1 ELSE 0
Outstanding(k) == Len(inbox[k]) + Len(outbox[k]) + Scripts(k)

\* The conversation is lock-step although nobody enforces it: between an open
\* controller and the agent at most one request, running script or answer is
\* outstanding, and after the controller gave up the agent produces at most one
\* more message on that connection, lost or still to come.  So the agent, which
\* sends with flags 0, never gets as far as the second send that would raise
\* SIGPIPE and kill it, whatever times out.
OneOutstanding ==
    \A k \in Conns : lostSends[k] + Outstanding(k) <= 1

\* What the database keeps of the attempts of `nazg bot spawn`, whichever of
\* its writes fail and wherever it is killed: a report is attached to the row of
\* an attempt that did not fail and whose script really ran, and a row says "ok"
\* only if it is that of the last recorded attempt (an attempt with a report is
\* never retried).
ReportsAreReal ==
    /\ \A r \in reports :
          /\ r[2] \in DOMAIN rows[r[1]] /\ rows[r[1]][r[2]] # "error"
          /\ agentRuns[r[1]] + sshRuns[r[1]] >= 1
    /\ \A b \in Bots : \A i \in DOMAIN rows[b] : rows[b][i] = "ok" => i = Len(rows[b])

\* A health check runs its script at most once over each transport, through the
\* fallback and the retry after `bot setup`; and one that took the agent's answer
\* ran it exactly once, then and for ever after: not over SSH as well, neither
\* before the answer nor in a retry.  Only an answer that came too late lets
\* the script run twice.
AgentResultMeansOneRun ==
    \A b \in Bots :
        /\ agentRuns[b] <= 1 /\ sshRuns[b] <= 1
        /\ taken[b] => agentRuns[b] = 1 /\ sshRuns[b] = 0

\* scan_server and register_agent mark a server online only when the agent
\* answered the request itself, not merely the handshake.
OnlineMeansAnswered ==
    \A m \in Monitors : status[m] = "online" => answered[m]

\* An agent with an auth_token runs nothing for a controller that does not
\* send it, however connections queue, time out or are reused.
TokenGuardsScripts ==
    AuthRequired => (\A b \in Bots : agentRuns[b] = 0)

\* Main only returns from Runtime::stop when neither thread is left: no client
\* is being served, no script or scan is in progress.
StoppedMeansQuiet ==
    mainPc = "stopped" => cur = NoConn /\ agentPc = "exit" /\ scanPc = "exit"

\* Runtime::stop returns: the accept thread is never blocked for good in a
\* recv() on behalf of a controller, as long as controllers close or their
\* kernel does it for them.
ShutdownCompletes ==
    mainPc = "join_accept" ~> mainPc \in {"stopped", "killed"}

\* `nazg bot spawn` always returns, even against an agent that is busy,
\* stopping or dead, in no more than one retry.
RunsFinish ==
    \A b \in Bots : pc[b] = "begin" ~> pc[b] \in {"done", "lost"}

=============================================================================
