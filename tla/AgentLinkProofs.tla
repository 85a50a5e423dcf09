--------------------------- MODULE AgentLinkProofs ---------------------------
(***************************************************************************)
(* Proofs about AgentLink, for any number of controllers, any length of the *)
(* listen queue and any number of restarts and losses: first the lock-step of *)
(* a connection, then what agent and controllers may conclude from each     *)
(* other's messages, which builds on it.                                    *)
(***************************************************************************)
EXTENDS AgentLink, TLAPS

-----------------------------------------------------------------------------
(***************************************************************************)
(* Queues of messages, and functions updated at one place.                  *)
(***************************************************************************)

\* What the sequence operators of the model do to a queue of messages.
LEMMA QueueFacts ==
    ASSUME NEW S, NEW q \in Seq(S)
    PROVE  /\ Len(q) \in Nat
           /\ \A e \in S : Append(q, e) \in Seq(S) /\ Len(Append(q, e)) = Len(q) + 1
           /\ q # <<>> => /\ Head(q) \in S /\ Tail(q) \in Seq(S)
                          /\ Len(Tail(q)) = Len(q) - 1 /\ Len(q) >= 1
  OBVIOUS

\* The rows of a bot stay rows when one of them is finished.
LEMMA RowUpdate ==
    ASSUME NEW S, NEW q \in Seq(S), NEW e \in S, NEW i
    PROVE  [q EXCEPT ![i] = e] \in Seq(S)
<1>1. q \in [1 .. Len(q) -> S] /\ Len(q) \in Nat
  OBVIOUS
<1>2. [q EXCEPT ![i] = e] \in [1 .. Len(q) -> S]
  BY <1>1
<1> QED
  BY <1>1, <1>2

\* What is left of a bot's memory when its process has ended.
LEMMA ForgetTyped ==
    ASSUME ControllerTypeOK, NEW bs, Forget(bs)
    PROVE  /\ available' \in [Bots -> BOOLEAN] /\ retried' \in [Bots -> BOOLEAN]
           /\ result' \in [Bots -> {"none", "report", "error", "denied"}]
           /\ run' \in [Bots -> Nat]
           /\ \A b \in Bots : available'[b] => available[b]
  BY DEF Forget, ControllerTypeOK

\* The status of a server after a statement that may fail.
LEMMA StatusTyped ==
    ASSUME ControllerTypeOK, NEW m \in Monitors, NEW s \in {"online", "offline"},
           status' \in Written(status, [status EXCEPT ![m] = s])
    PROVE  status' \in [Monitors -> {"unknown", "online", "offline"}]
  BY DEF Written, ControllerTypeOK

\* A message appended to one connection's queue.
LEMMA PushTyped ==
    ASSUME NEW S, NEW T, NEW f \in [S -> Seq(T)], NEW k, NEW e \in T
    PROVE  [f EXCEPT ![k] = Append(@, e)] \in [S -> Seq(T)]
<1> DEFINE v == Append(f[k], e)
<1>1. k \in S => v \in Seq(T)
  BY QueueFacts
<1> HIDE DEF v
<1>2. [f EXCEPT ![k] = v] \in [S -> Seq(T)]
  BY <1>1
<1> QED
  BY <1>2 DEF v

\* A message taken from one connection's queue.
LEMMA PopTyped ==
    ASSUME NEW S, NEW T, NEW f \in [S -> Seq(T)], NEW k, f[k] # <<>>
    PROVE  [f EXCEPT ![k] = Tail(@)] \in [S -> Seq(T)]
<1> DEFINE v == Tail(f[k])
<1>1. k \in S => v \in Seq(T)
  OBVIOUS
<1> HIDE DEF v
<1>2. [f EXCEPT ![k] = v] \in [S -> Seq(T)]
  BY <1>1
<1> QED
  BY <1>2 DEF v

\* A counter increased by one.
LEMMA BumpTyped ==
    ASSUME NEW S, NEW f \in [S -> Nat], NEW k
    PROVE  [f EXCEPT ![k] = @ + 1] \in [S -> Nat]
<1> DEFINE v == f[k] + 1
<1>1. k \in S => v \in Nat
  OBVIOUS
<1> HIDE DEF v
<1>2. [f EXCEPT ![k] = v] \in [S -> Nat]
  BY <1>1
<1> QED
  BY <1>2 DEF v

-----------------------------------------------------------------------------
(***************************************************************************)
(* Types of the sockets after send, connect and close.                      *)
(***************************************************************************)

\* ::send by the agent.
LEMMA SendTyped ==
    ASSUME SocketTypeOK, NEW k, NEW m \in Replies, Send(k, m)
    PROVE  /\ outbox' \in [Conns -> Seq(Replies)]
           /\ lostSends' \in [Conns -> Nat]
<1>1. [outbox EXCEPT ![k] = Append(@, m)] \in [Conns -> Seq(Replies)]
  BY PushTyped DEF SocketTypeOK
<1>2. [lostSends EXCEPT ![k] = @ + 1] \in [Conns -> Nat]
  BY BumpTyped DEF SocketTypeOK
<1> QED
  BY <1>1, <1>2 DEF Send, SocketTypeOK

\* connect() and the first Hello.
LEMMA ConnectTyped ==
    ASSUME SocketTypeOK, NEW k \in Conns, ConnectAndHello(k)
    PROVE  SocketTypeOK'
<1>1. <<"Hello">> \in Seq(Requests)
  BY DEF Requests
<1> QED
  BY <1>1, QueueFacts DEF ConnectAndHello, SocketTypeOK

\* close() by a controller.
LEMMA CloseTyped ==
    ASSUME SocketTypeOK, NEW k \in Conns, NEW u \in Seq(Replies), Close(k, u)
    PROVE  /\ client' \in [Conns -> {"none", "open", "closed", "vanished"}]
           /\ outbox' \in [Conns -> Seq(Replies)]
           /\ lostSends' \in [Conns -> Nat]
  BY QueueFacts DEF Close, SocketTypeOK

-----------------------------------------------------------------------------
(***************************************************************************)
(* Type correctness.                                                        *)
(***************************************************************************)

\* Every reachable state of the agent, the sockets and the controllers is well
\* typed: no message is ever queued in a direction that does not carry it.
THEOREM TypeCorrect == Spec => []TypeOK
<1>1. Init => TypeOK
  BY AgentLinkConstants
  DEF Init, AgentInit, TypeOK, AgentTypeOK, SocketTypeOK, ControllerTypeOK,
      Conns, Controllers
<1>2. TypeOK /\ [Next]_vars => TypeOK'
  <2> SUFFICES ASSUME TypeOK, [Next]_vars
               PROVE  TypeOK'
    OBVIOUS
  <2> USE DEF agentVars, sockVars, botVars, botStore, monVars
  <2>1. CASE AcceptClient
    <3>1. AgentTypeOK'
      BY <2>1, QueueFacts DEF AcceptClient, TypeOK, AgentTypeOK, SocketTypeOK
    <3>2. SocketTypeOK'
      BY <2>1, QueueFacts DEF AcceptClient, TypeOK, SocketTypeOK
    <3>3. ControllerTypeOK'
      BY <2>1 DEF AcceptClient, TypeOK, ControllerTypeOK
    <3> QED
      BY <3>1, <3>2, <3>3 DEF TypeOK
  <2>2. CASE AcceptFails
    <3>1. AgentTypeOK'
      BY <2>2 DEF AcceptFails, TypeOK, AgentTypeOK
    <3>2. SocketTypeOK'
      BY <2>2 DEF AcceptFails, TypeOK, SocketTypeOK
    <3>3. ControllerTypeOK'
      BY <2>2 DEF AcceptFails, TypeOK, ControllerTypeOK
    <3> QED
      BY <3>1, <3>2, <3>3 DEF TypeOK
  <2>3. CASE Greet
    <3>1. AgentTypeOK'
      BY <2>3 DEF Greet, ReturnFromClient, TypeOK, AgentTypeOK
    <3>2. SocketTypeOK'
      <4>1. inbox' \in [Conns -> Seq(Requests)]
        BY <2>3, PopTyped DEF Greet, TypeOK, SocketTypeOK
      <4>2. \A m \in Replies : Send(cur, m) => /\ outbox' \in [Conns -> Seq(Replies)]
                                               /\ lostSends' \in [Conns -> Nat]
        BY SendTyped DEF TypeOK
      <4>3. \E m \in Replies : Send(cur, m)
        BY <2>3 DEF Greet, Replies
      <4> QED
        BY <2>3, <4>1, <4>2, <4>3 DEF Greet, ReturnFromClient, TypeOK, SocketTypeOK
    <3>3. ControllerTypeOK'
      BY <2>3 DEF Greet, TypeOK, ControllerTypeOK
    <3> QED
      BY <3>1, <3>2, <3>3 DEF TypeOK
  <2>4. CASE PeerClosed
    <3>1. AgentTypeOK'
      BY <2>4 DEF PeerClosed, ReturnFromClient, TypeOK, AgentTypeOK
    <3>2. SocketTypeOK'
      BY <2>4 DEF PeerClosed, ReturnFromClient, TypeOK, SocketTypeOK
    <3>3. ControllerTypeOK'
      BY <2>4 DEF PeerClosed, TypeOK, ControllerTypeOK
    <3> QED
      BY <3>1, <3>2, <3>3 DEF TypeOK
  <2>5. CASE StartScript
    <3>1. AgentTypeOK'
      BY <2>5 DEF StartScript, TypeOK, AgentTypeOK
    <3>2. SocketTypeOK'
      BY <2>5, QueueFacts DEF StartScript, TypeOK, SocketTypeOK, Requests, Replies, Conns
    <3>3. ControllerTypeOK'
      <4>1. [agentRuns EXCEPT ![cur[1]] = @ + 1] \in [Bots -> Nat]
        BY BumpTyped DEF TypeOK, ControllerTypeOK
      <4> QED
        BY <2>5, <4>1 DEF StartScript, TypeOK, ControllerTypeOK
    <3> QED
      BY <3>1, <3>2, <3>3 DEF TypeOK
  <2>6. CASE FinishScript
    <3>1. AgentTypeOK'
      BY <2>6 DEF FinishScript, TypeOK, AgentTypeOK
    <3>2. SocketTypeOK'
      <4>1. "Result" \in Replies /\ Send(cur, "Result")
        BY <2>6 DEF FinishScript, Replies
      <4> QED
        BY <2>6, <4>1, SendTyped DEF FinishScript, TypeOK, SocketTypeOK
    <3>3. ControllerTypeOK'
      BY <2>6 DEF FinishScript, TypeOK, ControllerTypeOK
    <3> QED
      BY <3>1, <3>2, <3>3 DEF TypeOK
  <2>7. CASE AnswerRequest
    <3>1. AgentTypeOK'
      BY <2>7 DEF AnswerRequest, TypeOK, AgentTypeOK
    <3>2. SocketTypeOK'
      <4>1. inbox' \in [Conns -> Seq(Requests)]
        BY <2>7, PopTyped DEF AnswerRequest, TypeOK, SocketTypeOK
      <4>2. PICK m \in Replies : Send(cur, m)
        BY <2>7 DEF AnswerRequest, ReplyTo, Replies
      <4> QED
        BY <2>7, <4>1, <4>2, SendTyped DEF AnswerRequest, TypeOK, SocketTypeOK
    <3>3. ControllerTypeOK'
      BY <2>7 DEF AnswerRequest, TypeOK, ControllerTypeOK, Controllers
    <3> QED
      BY <3>1, <3>2, <3>3 DEF TypeOK
  <2>8. CASE ScannerStep
    <3>1. AgentTypeOK'
      BY <2>8 DEF ScannerStep, TypeOK, AgentTypeOK
    <3>2. SocketTypeOK'
      BY <2>8 DEF ScannerStep, TypeOK, SocketTypeOK
    <3>3. ControllerTypeOK'
      BY <2>8 DEF ScannerStep, TypeOK, ControllerTypeOK
    <3> QED
      BY <3>1, <3>2, <3>3 DEF TypeOK
  <2>9. CASE Shutdown
    <3>1. AgentTypeOK'
      BY <2>9 DEF Shutdown, TypeOK, AgentTypeOK
    <3>2. SocketTypeOK'
      BY <2>9 DEF Shutdown, Reset, TypeOK, SocketTypeOK
    <3>3. ControllerTypeOK'
      BY <2>9 DEF Shutdown, TypeOK, ControllerTypeOK
    <3> QED
      BY <3>1, <3>2, <3>3 DEF TypeOK
  <2>10. CASE JoinAccept
    <3>1. AgentTypeOK'
      BY <2>10 DEF JoinAccept, TypeOK, AgentTypeOK
    <3>2. SocketTypeOK'
      BY <2>10 DEF JoinAccept, TypeOK, SocketTypeOK
    <3>3. ControllerTypeOK'
      BY <2>10 DEF JoinAccept, TypeOK, ControllerTypeOK
    <3> QED
      BY <3>1, <3>2, <3>3 DEF TypeOK
  <2>11. CASE JoinScanner
    <3>1. AgentTypeOK'
      BY <2>11 DEF JoinScanner, TypeOK, AgentTypeOK
    <3>2. SocketTypeOK'
      BY <2>11 DEF JoinScanner, TypeOK, SocketTypeOK
    <3>3. ControllerTypeOK'
      BY <2>11 DEF JoinScanner, TypeOK, ControllerTypeOK
    <3> QED
      BY <3>1, <3>2, <3>3 DEF TypeOK
  <2>12. CASE AgentKilled
    <3>1. AgentTypeOK'
      BY <2>12 DEF AgentKilled, TypeOK, AgentTypeOK
    <3>2. SocketTypeOK'
      BY <2>12 DEF AgentKilled, Reset, TypeOK, SocketTypeOK
    <3>3. ControllerTypeOK'
      BY <2>12 DEF AgentKilled, TypeOK, ControllerTypeOK
    <3> QED
      BY <3>1, <3>2, <3>3 DEF TypeOK
  <2>13. CASE AgentStarted
    <3>1. AgentTypeOK'
      BY <2>13 DEF AgentStarted, TypeOK, AgentTypeOK
    <3>2. SocketTypeOK'
      BY <2>13 DEF AgentStarted, TypeOK, SocketTypeOK
    <3>3. ControllerTypeOK'
      BY <2>13 DEF AgentStarted, TypeOK, ControllerTypeOK
    <3> QED
      BY <3>1, <3>2, <3>3 DEF TypeOK
  <2>14. ASSUME NEW b \in Bots, Probe(b) PROVE TypeOK'
    <3>1. AgentTypeOK'
      BY <2>14 DEF Probe, TypeOK, AgentTypeOK
    <3>2. SocketTypeOK'
      <4>1. <<b, "probe">> \in Conns
        BY DEF Conns
      <4>2. CASE ConnectAndHello(<<b, "probe">>)
        BY <4>1, <4>2, ConnectTyped DEF TypeOK
      <4>3. CASE UNCHANGED sockVars
        BY <4>3 DEF TypeOK, SocketTypeOK
      <4> QED
        BY <2>14, <4>2, <4>3 DEF Probe
    <3>3. ControllerTypeOK'
      BY <2>14 DEF Probe, TypeOK, ControllerTypeOK, Controllers
    <3> QED
      BY <3>1, <3>2, <3>3 DEF TypeOK
  <2>15. ASSUME NEW b \in Bots, ProbeAnswered(b) PROVE TypeOK'
    <3>1. AgentTypeOK'
      BY <2>15 DEF ProbeAnswered, TypeOK, AgentTypeOK
    <3>2. SocketTypeOK'
      BY <2>15, QueueFacts DEF ProbeAnswered, Close, TypeOK, SocketTypeOK, Requests, Replies, Conns
    <3>3. ControllerTypeOK'
      BY <2>15 DEF ProbeAnswered, TypeOK, ControllerTypeOK, Controllers
    <3> QED
      BY <3>1, <3>2, <3>3 DEF TypeOK
  <2>16. ASSUME NEW b \in Bots, ProbeFails(b) PROVE TypeOK'
    <3>1. AgentTypeOK'
      BY <2>16 DEF ProbeFails, TypeOK, AgentTypeOK
    <3>2. SocketTypeOK'
      BY <2>16, QueueFacts DEF ProbeFails, Close, TypeOK, SocketTypeOK, Requests, Replies, Conns
    <3>3. ControllerTypeOK'
      BY <2>16 DEF ProbeFails, TypeOK, ControllerTypeOK, Controllers
    <3> QED
      BY <3>1, <3>2, <3>3 DEF TypeOK
  <2>17. ASSUME NEW b \in Bots, BeginRun(b) PROVE TypeOK'
    <3>1. AgentTypeOK'
      BY <2>17 DEF BeginRun, TypeOK, AgentTypeOK
    <3>2. SocketTypeOK'
      BY <2>17 DEF BeginRun, TypeOK, SocketTypeOK
    <3>3. ControllerTypeOK'
      <4>1. Len(rows[b]) \in Nat
        BY QueueFacts DEF TypeOK, ControllerTypeOK
      <4>2. run' \in [Bots -> Nat]
        <5>1. PICK n \in Nat : run' = [run EXCEPT ![b] = n]
          BY <2>17, <4>1 DEF BeginRun
        <5> QED
          BY <5>1 DEF TypeOK, ControllerTypeOK
      <4>3. rows' \in [Bots -> Seq({"running", "ok", "error"})]
        <5>1. [rows EXCEPT ![b] = Append(@, "running")] \in [Bots -> Seq({"running", "ok", "error"})]
          BY PushTyped DEF TypeOK, ControllerTypeOK
        <5> QED
          BY <2>17, <5>1 DEF BeginRun, TypeOK, ControllerTypeOK
      <4> QED
        BY <2>17, <4>2, <4>3 DEF BeginRun, TypeOK, ControllerTypeOK, Controllers
    <3> QED
      BY <3>1, <3>2, <3>3 DEF TypeOK
  <2>18. ASSUME NEW b \in Bots, ExecConnect(b) PROVE TypeOK'
    <3>1. AgentTypeOK'
      BY <2>18 DEF ExecConnect, TypeOK, AgentTypeOK
    <3>2. SocketTypeOK'
      <4>1. <<b, "exec">> \in Conns
        BY DEF Conns
      <4>2. CASE ConnectAndHello(<<b, "exec">>)
        BY <4>1, <4>2, ConnectTyped DEF TypeOK
      <4>3. CASE UNCHANGED sockVars
        BY <4>3 DEF TypeOK, SocketTypeOK
      <4> QED
        BY <2>18, <4>2, <4>3 DEF ExecConnect
    <3>3. ControllerTypeOK'
      BY <2>18 DEF ExecConnect, TypeOK, ControllerTypeOK, Controllers
    <3> QED
      BY <3>1, <3>2, <3>3 DEF TypeOK
  <2>19. ASSUME NEW b \in Bots, ExecAcked(b) PROVE TypeOK'
    <3>1. AgentTypeOK'
      BY <2>19 DEF ExecAcked, TypeOK, AgentTypeOK
    <3>2. SocketTypeOK'
      <4> DEFINE k == <<b, "exec">>
      <4>1. k \in Conns /\ Tail(outbox[k]) \in Seq(Replies)
        BY <2>19, QueueFacts DEF ExecAcked, TypeOK, SocketTypeOK, Conns
      <4>2. CASE Close(k, Tail(outbox[k])) /\ UNCHANGED inbox
        BY <2>19, <4>1, <4>2, CloseTyped DEF ExecAcked, TypeOK, SocketTypeOK
      <4>3. CASE /\ outbox' = [outbox EXCEPT ![k] = Tail(@)]
                 /\ \E req \in {"RunCommand"} :
                       inbox' = IF server[k] = "closed" THEN inbox
                                ELSE [inbox EXCEPT ![k] = Append(@, req)]
                 /\ UNCHANGED <<client, lostSends>>
        <5>1. outbox' \in [Conns -> Seq(Replies)]
          BY <2>19, <4>3, PopTyped DEF ExecAcked, TypeOK, SocketTypeOK
        <5>2. \A req \in Requests : [inbox EXCEPT ![k] = Append(@, req)] \in [Conns -> Seq(Requests)]
          BY PushTyped DEF TypeOK, SocketTypeOK
        <5>3. inbox' \in [Conns -> Seq(Requests)]
          BY <4>3, <5>2 DEF Requests, TypeOK, SocketTypeOK
        <5> QED
          BY <2>19, <4>3, <5>1, <5>3 DEF ExecAcked, TypeOK, SocketTypeOK
      <4> QED
        BY <2>19, <4>2, <4>3 DEF ExecAcked
    <3>3. ControllerTypeOK'
      BY <2>19 DEF ExecAcked, TypeOK, ControllerTypeOK, Controllers
    <3> QED
      BY <3>1, <3>2, <3>3 DEF TypeOK
  <2>20. ASSUME NEW b \in Bots, ExecResult(b) PROVE TypeOK'
    <3>1. AgentTypeOK'
      BY <2>20 DEF ExecResult, TypeOK, AgentTypeOK
    <3>2. SocketTypeOK'
      BY <2>20, QueueFacts DEF ExecResult, Close, TypeOK, SocketTypeOK, Requests, Replies, Conns
    <3>3. ControllerTypeOK'
      BY <2>20 DEF ExecResult, TypeOK, ControllerTypeOK, Controllers
    <3> QED
      BY <3>1, <3>2, <3>3 DEF TypeOK
  <2>21. ASSUME NEW b \in Bots, ExecFails(b) PROVE TypeOK'
    <3>1. AgentTypeOK'
      BY <2>21 DEF ExecFails, TypeOK, AgentTypeOK
    <3>2. SocketTypeOK'
      BY <2>21, QueueFacts DEF ExecFails, Close, TypeOK, SocketTypeOK, Requests, Replies, Conns
    <3>3. ControllerTypeOK'
      BY <2>21 DEF ExecFails, TypeOK, ControllerTypeOK, Controllers
    <3> QED
      BY <3>1, <3>2, <3>3 DEF TypeOK
  <2>22. ASSUME NEW b \in Bots, RunOverSsh(b) PROVE TypeOK'
    <3>1. AgentTypeOK'
      BY <2>22 DEF RunOverSsh, TypeOK, AgentTypeOK
    <3>2. SocketTypeOK'
      BY <2>22 DEF RunOverSsh, TypeOK, SocketTypeOK
    <3>3. ControllerTypeOK'
      <4>1. PICK r \in {"report", "error", "denied"} : result' = [result EXCEPT ![b] = r]
        BY <2>22 DEF RunOverSsh
      <4>2. result' \in [Bots -> {"none", "report", "error", "denied"}]
        BY <4>1 DEF TypeOK, ControllerTypeOK
      <4>3. sshRuns' \in [Bots -> Nat]
        <5>1. PICK n \in Nat : n = sshRuns[b] + 1
          BY DEF TypeOK, ControllerTypeOK
        <5>2. sshRuns' = sshRuns \/ sshRuns' = [sshRuns EXCEPT ![b] = n]
          BY <2>22, <5>1 DEF RunOverSsh
        <5> QED
          BY <5>2 DEF TypeOK, ControllerTypeOK
      <4>4. pc' \in [Controllers -> {"start", "probe", "begin", "connect", "hello",
                                  "await", "ssh", "finish", "report", "done", "lost"}]
        BY <2>22 DEF RunOverSsh, TypeOK, ControllerTypeOK, Controllers
      <4>5. UNCHANGED <<available, retried, rows, run, reports, hostStatus, taken, agentRuns,
                        status, answered>>
        BY <2>22 DEF RunOverSsh
      <4> QED
        BY <4>2, <4>3, <4>4, <4>5 DEF TypeOK, ControllerTypeOK
    <3> QED
      BY <3>1, <3>2, <3>3 DEF TypeOK
  <2>23. ASSUME NEW b \in Bots, FinishRun(b) PROVE TypeOK'
    <3>1. AgentTypeOK'
      BY <2>23 DEF FinishRun, TypeOK, AgentTypeOK
    <3>2. SocketTypeOK'
      BY <2>23 DEF FinishRun, TypeOK, SocketTypeOK
    <3>3. ControllerTypeOK'
      <4> DEFINE row == [rows[b] EXCEPT ![run[b]] = Verdict(b)]
      <4>1. row \in Seq({"running", "ok", "error"})
        BY RowUpdate DEF Verdict, TypeOK, ControllerTypeOK
      <4>2. rows' = rows \/ rows' = [rows EXCEPT ![b] = row]
        BY <2>23 DEF FinishRun, Written
      <4> HIDE DEF row
      <4>3. rows' \in [Bots -> Seq({"running", "ok", "error"})]
        BY <4>1, <4>2 DEF TypeOK, ControllerTypeOK
      <4> QED
        BY <2>23, <4>3 DEF FinishRun, TypeOK, ControllerTypeOK, Controllers
    <3> QED
      BY <3>1, <3>2, <3>3 DEF TypeOK
  <2>24. ASSUME NEW b \in Bots, SaveReport(b) PROVE TypeOK'
    <3>1. AgentTypeOK'
      BY <2>24 DEF SaveReport, TypeOK, AgentTypeOK
    <3>2. SocketTypeOK'
      BY <2>24 DEF SaveReport, TypeOK, SocketTypeOK
    <3>3. ControllerTypeOK'
      <4>1. hostStatus' \in {"none", "ok", "error"}
        BY <2>24 DEF SaveReport, Written, Verdict, TypeOK, ControllerTypeOK
      <4>2. reports' \subseteq Bots \X Nat
        BY <2>24 DEF SaveReport, Written, TypeOK, ControllerTypeOK
      <4>3. /\ retried' \in [Bots -> BOOLEAN] /\ available' \in [Bots -> BOOLEAN]
            /\ result' \in [Bots -> {"none", "report", "error", "denied"}]
            /\ run' \in [Bots -> Nat]
        BY <2>24, ForgetTyped DEF SaveReport, TypeOK, ControllerTypeOK
      <4>4. pc' \in [Controllers -> {"start", "probe", "begin", "connect", "hello",
                                  "await", "ssh", "finish", "report", "done", "lost"}]
        BY <2>24 DEF SaveReport, TypeOK, ControllerTypeOK, Controllers
      <4> QED
        BY <2>24, <4>1, <4>2, <4>3, <4>4 DEF SaveReport, TypeOK, ControllerTypeOK
    <3> QED
      BY <3>1, <3>2, <3>3 DEF TypeOK
  <2>25. ASSUME NEW m \in Monitors, MonitorConnect(m) PROVE TypeOK'
    <3>1. AgentTypeOK'
      BY <2>25 DEF MonitorConnect, TypeOK, AgentTypeOK
    <3>2. SocketTypeOK'
      <4>1. <<m, "request">> \in Conns
        BY DEF Conns
      <4>2. CASE ConnectAndHello(<<m, "request">>)
        BY <4>1, <4>2, ConnectTyped DEF TypeOK
      <4>3. CASE UNCHANGED sockVars
        BY <4>3 DEF TypeOK, SocketTypeOK
      <4> QED
        BY <2>25, <4>2, <4>3 DEF MonitorConnect
    <3>3. ControllerTypeOK'
      BY <2>25, StatusTyped DEF MonitorConnect, MonitorFails, TypeOK, ControllerTypeOK, Controllers
    <3> QED
      BY <3>1, <3>2, <3>3 DEF TypeOK
  <2>26. ASSUME NEW m \in Monitors, MonitorAcked(m) PROVE TypeOK'
    <3>1. AgentTypeOK'
      BY <2>26 DEF MonitorAcked, TypeOK, AgentTypeOK
    <3>2. SocketTypeOK'
      <4> DEFINE k == <<m, "request">>
      <4>1. k \in Conns /\ Tail(outbox[k]) \in Seq(Replies)
        BY <2>26, QueueFacts DEF MonitorAcked, TypeOK, SocketTypeOK, Conns
      <4>2. CASE Close(k, Tail(outbox[k])) /\ UNCHANGED inbox
        BY <2>26, <4>1, <4>2, CloseTyped DEF MonitorAcked, TypeOK, SocketTypeOK
      <4>3. CASE /\ outbox' = [outbox EXCEPT ![k] = Tail(@)]
                 /\ \E req \in {"DockerFullScan", "Register"} :
                       inbox' = IF server[k] = "closed" THEN inbox
                                ELSE [inbox EXCEPT ![k] = Append(@, req)]
                 /\ UNCHANGED <<client, lostSends>>
        <5>1. outbox' \in [Conns -> Seq(Replies)]
          BY <2>26, <4>3, PopTyped DEF MonitorAcked, TypeOK, SocketTypeOK
        <5>2. \A req \in Requests : [inbox EXCEPT ![k] = Append(@, req)] \in [Conns -> Seq(Requests)]
          BY PushTyped DEF TypeOK, SocketTypeOK
        <5>3. inbox' \in [Conns -> Seq(Requests)]
          BY <4>3, <5>2 DEF Requests, TypeOK, SocketTypeOK
        <5> QED
          BY <2>26, <4>3, <5>1, <5>3 DEF MonitorAcked, TypeOK, SocketTypeOK
      <4> QED
        BY <2>26, <4>2, <4>3 DEF MonitorAcked
    <3>3. ControllerTypeOK'
      BY <2>26, StatusTyped DEF MonitorAcked, MonitorFails, TypeOK, ControllerTypeOK, Controllers
    <3> QED
      BY <3>1, <3>2, <3>3 DEF TypeOK
  <2>27. ASSUME NEW m \in Monitors, MonitorReply(m) PROVE TypeOK'
    <3>1. AgentTypeOK'
      BY <2>27 DEF MonitorReply, TypeOK, AgentTypeOK
    <3>2. SocketTypeOK'
      BY <2>27, QueueFacts DEF MonitorReply, Close, TypeOK, SocketTypeOK, Requests, Replies, Conns
    <3>3. ControllerTypeOK'
      BY <2>27, StatusTyped DEF MonitorReply, MonitorFails, TypeOK, ControllerTypeOK, Controllers
    <3> QED
      BY <3>1, <3>2, <3>3 DEF TypeOK
  <2>28. ASSUME NEW m \in Monitors, MonitorTimeout(m) PROVE TypeOK'
    <3>1. AgentTypeOK'
      BY <2>28 DEF MonitorTimeout, TypeOK, AgentTypeOK
    <3>2. SocketTypeOK'
      BY <2>28, QueueFacts DEF MonitorTimeout, Close, TypeOK, SocketTypeOK, Requests, Replies, Conns
    <3>3. ControllerTypeOK'
      BY <2>28, StatusTyped DEF MonitorTimeout, MonitorFails, TypeOK, ControllerTypeOK, Controllers
    <3> QED
      BY <3>1, <3>2, <3>3 DEF TypeOK
  <2>29. ASSUME NEW c \in Controllers, LoseController(c) PROVE TypeOK'
    <3>1. AgentTypeOK'
      BY <2>29 DEF LoseController, TypeOK, AgentTypeOK
    <3>2. SocketTypeOK'
      <4>1. PICK end \in LossKinds, acked \in BOOLEAN :
              /\ client' = [k \in Conns |-> IF k \in OpenConns(c) THEN end ELSE client[k]]
              /\ lostSends' = [k \in Conns |->
                    IF k \in OpenConns(c) /\ ~(end = "vanished" /\ acked)
                    THEN lostSends[k] + Len(outbox[k]) ELSE lostSends[k]]
        BY <2>29 DEF LoseController
      <4>2. client' \in [Conns -> {"none", "open", "closed", "vanished"}]
        BY <4>1, AgentLinkConstants DEF TypeOK, SocketTypeOK
      <4>3. \A k \in Conns : Len(outbox[k]) \in Nat
        BY QueueFacts DEF TypeOK, SocketTypeOK
      <4>4. lostSends' \in [Conns -> Nat]
        BY <4>1, <4>3 DEF TypeOK, SocketTypeOK
      <4>5. outbox' \in [Conns -> Seq(Replies)]
        BY <2>29 DEF LoseController, TypeOK, SocketTypeOK
      <4> QED
        BY <2>29, <4>2, <4>4, <4>5 DEF LoseController, TypeOK, SocketTypeOK
    <3>3. ControllerTypeOK'
      BY <2>29, ForgetTyped DEF LoseController, TypeOK, ControllerTypeOK, Controllers
    <3> QED
      BY <3>1, <3>2, <3>3 DEF TypeOK
  <2>30. CASE UNCHANGED vars
    BY <2>30 DEF vars, TypeOK, AgentTypeOK, SocketTypeOK, ControllerTypeOK
  <2> QED
    BY <2>1, <2>2, <2>3, <2>4, <2>5, <2>6, <2>7, <2>8, <2>9, <2>10, <2>11, <2>12,
       <2>13, <2>14, <2>15, <2>16, <2>17, <2>18, <2>19, <2>20, <2>21, <2>22, <2>23, <2>24,
       <2>25, <2>26, <2>27, <2>28, <2>29, <2>30
    DEF Next, AgentThread, BotStep, MonitorStep, Idle
<1> QED
  BY <1>1, <1>2, PTL DEF Spec

-----------------------------------------------------------------------------
(***************************************************************************)
(* The lock-step of agent and controllers.                                  *)
(*                                                                          *)
(* OneOutstanding is not inductive: a second connect() on a connection that *)
(* was used before would add a request to what is already outstanding.      *)
(* Fresh says that no controller does that, Serving and Queued that the     *)
(* agent only handles connections some controller opened, Untouched that    *)
(* nothing travels on the others.                                           *)
(***************************************************************************)

Serving ==
    agentPc \in {"greet", "serve", "script"} => cur \in Conns /\ client[cur] # "none"

Queued == \A i \in 1 .. Len(backlog) : client[backlog[i]] # "none"

Untouched ==
    \A k \in Conns : client[k] = "none" =>
        inbox[k] = <<>> /\ outbox[k] = <<>> /\ lostSends[k] = 0

\* A bot reaches execute_script with agent_available at most once: the retry
\* after `bot setup` has forgotten it.
Fresh ==
    /\ \A b \in Bots : pc[b] = "start" => client[<<b, "probe">>] = "none"
    /\ \A b \in Bots :
          pc[b] \in {"start", "probe", "connect"} \/ (pc[b] = "begin" /\ available[b])
             => client[<<b, "exec">>] = "none"
    /\ \A m \in Monitors : pc[m] = "start" => client[<<m, "request">>] = "none"

ConnInv == Serving /\ Queued /\ Untouched /\ Fresh /\ OneOutstanding

LoadTyped(k) ==
    Len(inbox[k]) \in Nat /\ Len(outbox[k]) \in Nat /\ lostSends[k] \in Nat /\ Scripts(k) \in Nat

\* The terms of OneOutstanding are numbers.
LEMMA LoadIsTyped ==
    ASSUME TypeOK, NEW k \in Conns
    PROVE  LoadTyped(k)
  BY QueueFacts DEF TypeOK, SocketTypeOK, LoadTyped, Scripts

\* A step that turns n requests or scripts into n answers, delivered or lost,
\* or drops some, keeps a connection within one outstanding message.
LEMMA LoadKept ==
    ASSUME NEW k \in Conns, LoadTyped(k), LoadTyped(k)', NEW n \in Nat,
           lostSends'[k] + Len(outbox'[k]) <= lostSends[k] + Len(outbox[k]) + n,
           Len(inbox'[k]) + Scripts(k)' + n <= Len(inbox[k]) + Scripts(k),
           lostSends[k] + Outstanding(k) <= 1
    PROVE  (lostSends[k] + Outstanding(k))' <= 1
<1> USE DEF LoadTyped
<1>1. PICK a \in Nat, b \in Nat, c \in Nat, d \in Nat :
         a = lostSends[k] /\ b = Len(inbox[k]) /\ c = Len(outbox[k]) /\ d = Scripts(k)
  OBVIOUS
<1>2. PICK aa \in Nat, bb \in Nat, cc \in Nat, dd \in Nat :
         aa = lostSends'[k] /\ bb = Len(inbox'[k]) /\ cc = Len(outbox'[k]) /\ dd = Scripts(k)'
  OBVIOUS
<1>3. a + (b + c + d) <= 1
  BY <1>1 DEF Outstanding
<1>4. aa + cc <= a + c + n /\ bb + dd + n <= b + d
  BY <1>1, <1>2
<1>5. aa + (bb + cc + dd) <= 1
  BY <1>3, <1>4
<1> QED
  BY <1>2, <1>5 DEF Outstanding

\* Opening a connection that was never used.
LEMMA ConnectKeepsLockStep ==
    ASSUME TypeOK, ConnInv, NEW k \in Conns, client[k] = "none",
           ConnectAndHello(k), UNCHANGED <<agentPc, cur>>
    PROVE  Serving' /\ Queued' /\ Untouched' /\ OneOutstanding'
<1> USE DEF TypeOK, SocketTypeOK, ConnectAndHello
<1>1. Serving'
  BY DEF ConnInv, Serving
<1>2. Queued'
  <2>1. SUFFICES ASSUME NEW i \in 1 .. Len(Append(backlog, k))
                 PROVE  client'[Append(backlog, k)[i]] # "none"
    BY DEF Queued
  <2>2. CASE i = Len(backlog) + 1
    BY <2>1, <2>2
  <2>3. CASE i # Len(backlog) + 1
    <3>1. i \in 1 .. Len(backlog) /\ Append(backlog, k)[i] = backlog[i] /\ backlog[i] \in Conns
      BY <2>1, <2>3
    <3> QED
      BY <3>1 DEF ConnInv, Queued
  <2> QED
    BY <2>2, <2>3
<1>3. Untouched'
  BY DEF ConnInv, Untouched
<1>4. OneOutstanding'
  <2>1. SUFFICES ASSUME NEW j \in Conns
                 PROVE  (lostSends[j] + Outstanding(j))' <= 1
    BY DEF OneOutstanding
  <2>2. CASE j = k
    <3>1. ~(agentPc = "script" /\ cur = k)
      BY DEF ConnInv, Serving
    <3>2. outbox[k] = <<>> /\ lostSends[k] = 0
      BY DEF ConnInv, Untouched
    <3> QED
      BY <2>2, <3>1, <3>2 DEF Outstanding, Scripts
  <2>3. CASE j # k
    BY <2>3 DEF ConnInv, OneOutstanding, Outstanding, Scripts
  <2> QED
    BY <2>2, <2>3
<1> QED
  BY <1>1, <1>2, <1>3, <1>4

\* Closing a connection, with what the agent sent and nobody reads.
LEMMA CloseKeepsLockStep ==
    ASSUME TypeOK, ConnInv, NEW k \in Conns, NEW u \in Seq(Replies),
           Len(u) <= Len(outbox[k]), Close(k, u),
           UNCHANGED <<agentPc, cur, backlog, inbox>>
    PROVE  Serving' /\ Queued' /\ Untouched' /\ OneOutstanding'
<1> USE DEF TypeOK, SocketTypeOK, Close
<1>1. Serving'
  BY DEF ConnInv, Serving
<1>2. Queued'
  BY DEF ConnInv, Queued
<1>3. Untouched'
  BY DEF ConnInv, Untouched
<1>4. OneOutstanding'
  <2>1. SUFFICES ASSUME NEW j \in Conns
                 PROVE  (lostSends[j] + Outstanding(j))' <= 1
    BY DEF OneOutstanding
  <2>2. LoadTyped(j) /\ Len(u) \in Nat
    BY LoadIsTyped, QueueFacts
  <2>3. /\ lostSends'[j] + Len(outbox'[j]) <= lostSends[j] + Len(outbox[j])
        /\ lostSends'[j] \in Nat /\ Len(outbox'[j]) \in Nat
    BY <2>2 DEF LoadTyped
  <2>4. Scripts(j)' = Scripts(j) /\ inbox'[j] = inbox[j]
    BY DEF Scripts
  <2>5. lostSends[j] + Outstanding(j) <= 1
    BY DEF ConnInv, OneOutstanding
  <2> HIDE DEF TypeOK, SocketTypeOK, Close
  <2>6. /\ LoadTyped(j)'
        /\ lostSends'[j] + Len(outbox'[j]) <= lostSends[j] + Len(outbox[j]) + 0
        /\ Len(inbox'[j]) + Scripts(j)' + 0 <= Len(inbox[j]) + Scripts(j)
    BY <2>2, <2>3, <2>4 DEF LoadTyped
  <2> QED
    BY <2>2, <2>5, <2>6, LoadKept
<1> QED
  BY <1>1, <1>2, <1>3, <1>4

\* An answer of the agent replaces the request or the script that it answers.
LEMMA SendKeepsLockStep ==
    ASSUME TypeOK, ConnInv, NEW k \in Conns, NEW m \in Replies, client[k] # "none",
           Send(k, m), UNCHANGED client,
           Len(inbox'[k]) \in Nat,
           Len(inbox'[k]) + Scripts(k)' + 1 <= Len(inbox[k]) + Scripts(k),
           \A j \in Conns \ {k} : inbox'[j] = inbox[j] /\ Scripts(j)' = Scripts(j)
    PROVE  Untouched' /\ OneOutstanding'
<1> USE DEF TypeOK, SocketTypeOK, Send
<1>1. Untouched'
  BY DEF ConnInv, Untouched
<1>2. OneOutstanding'
  <2>1. SUFFICES ASSUME NEW j \in Conns
                 PROVE  (lostSends[j] + Outstanding(j))' <= 1
    BY DEF OneOutstanding
  <2>2. LoadTyped(j)
    BY LoadIsTyped
  <2>3. Len(Append(outbox[k], m)) = Len(outbox[k]) + 1
    BY QueueFacts
  <2>4. lostSends[j] + Outstanding(j) <= 1
    BY DEF ConnInv, OneOutstanding
  <2>5. CASE j = k
    <3>1. /\ lostSends'[k] + Len(outbox'[k]) <= lostSends[k] + Len(outbox[k]) + 1
          /\ lostSends'[k] \in Nat /\ Len(outbox'[k]) \in Nat
      <4>1. CASE client[k] = "open"
        <5>1. lostSends'[k] = lostSends[k] /\ outbox'[k] = Append(outbox[k], m)
          BY <4>1
        <5> QED
          BY <2>2, <2>3, <2>5, <5>1 DEF LoadTyped
      <4>2. CASE client[k] # "open"
        <5>1. lostSends'[k] = lostSends[k] + 1 /\ outbox'[k] = outbox[k]
          BY <4>2
        <5> QED
          BY <2>2, <2>5, <5>1 DEF LoadTyped
      <4> QED
        BY <4>1, <4>2
    <3>2. LoadTyped(k)'
      BY <3>1 DEF LoadTyped, Scripts
    <3> QED
      BY <2>2, <2>4, <2>5, <3>1, <3>2, LoadKept
  <2>6. CASE j # k
    <3>1. lostSends'[j] = lostSends[j] /\ outbox'[j] = outbox[j] /\ inbox'[j] = inbox[j]
      BY <2>6
    <3> QED
      BY <2>4, <2>6, <3>1 DEF Outstanding
  <2> QED
    BY <2>5, <2>6
<1> QED
  BY <1>1, <1>2

\* Dropping unread requests, as the kernel does when the agent stops or dies.
LEMMA ResetKeepsLockStep ==
    ASSUME TypeOK, ConnInv, NEW ks, Reset(ks), UNCHANGED <<client, outbox, lostSends>>,
           \A k \in Conns : Scripts(k)' <= Scripts(k)
    PROVE  Untouched' /\ OneOutstanding'
<1> USE DEF TypeOK, SocketTypeOK, Reset
<1>1. Untouched'
  BY DEF ConnInv, Untouched
<1>2. OneOutstanding'
  <2>1. SUFFICES ASSUME NEW j \in Conns
                 PROVE  (lostSends[j] + Outstanding(j))' <= 1
    BY DEF OneOutstanding
  <2>2. LoadTyped(j) /\ lostSends[j] + Outstanding(j) <= 1
    BY LoadIsTyped DEF ConnInv, OneOutstanding
  <2>3. /\ Len(inbox'[j]) \in Nat /\ Len(inbox'[j]) <= Len(inbox[j])
        /\ lostSends'[j] = lostSends[j] /\ outbox'[j] = outbox[j]
    BY <2>2 DEF LoadTyped
  <2>4. Scripts(j)' \in Nat /\ Scripts(j)' <= Scripts(j)
    BY DEF Scripts
  <2> HIDE DEF TypeOK, SocketTypeOK, Reset
  <2>5. /\ LoadTyped(j)'
        /\ lostSends'[j] + Len(outbox'[j]) <= lostSends[j] + Len(outbox[j]) + 0
        /\ Len(inbox'[j]) + Scripts(j)' + 0 <= Len(inbox[j]) + Scripts(j)
    BY <2>2, <2>3, <2>4 DEF LoadTyped
  <2> QED
    BY <2>2, <2>5, LoadKept
<1> QED
  BY <1>1, <1>2

\* A controller that was acknowledged sends its one request.
LEMMA RequestKeepsLockStep ==
    ASSUME TypeOK, ConnInv, NEW k \in Conns, NEW req \in Requests,
           client[k] # "none", outbox[k] # <<>>,
           outbox' = [outbox EXCEPT ![k] = Tail(@)],
           inbox' = IF server[k] = "closed" THEN inbox
                    ELSE [inbox EXCEPT ![k] = Append(@, req)],
           UNCHANGED <<agentPc, cur, client, lostSends>>
    PROVE  Untouched' /\ OneOutstanding'
<1> USE DEF TypeOK, SocketTypeOK
<1>1. Untouched'
  BY DEF ConnInv, Untouched
<1>2. OneOutstanding'
  <2>1. SUFFICES ASSUME NEW j \in Conns
                 PROVE  (lostSends[j] + Outstanding(j))' <= 1
    BY DEF OneOutstanding
  <2>2. lostSends[j] + Outstanding(j) <= 1
    BY DEF ConnInv, OneOutstanding
  <2>3. CASE j = k
    <3>1. PICK a \in Nat, b \in Nat, c \in Nat, d \in Nat :
            a = lostSends[k] /\ b = Len(inbox[k]) /\ c = Len(outbox[k]) /\ d = Scripts(k)
      BY LoadIsTyped DEF LoadTyped
    <3>2. a + (b + c + d) <= 1 /\ c >= 1
      BY <2>2, <2>3, <3>1, QueueFacts DEF Outstanding
    <3>3. PICK bb \in Nat : bb = Len(inbox'[k]) /\ bb <= b + 1
      <4>1. Len(Append(inbox[k], req)) = Len(inbox[k]) + 1
        BY QueueFacts
      <4>2. inbox'[k] = inbox[k] \/ inbox'[k] = Append(inbox[k], req)
        OBVIOUS
      <4> QED
        BY <3>1, <4>1, <4>2
    <3>4. Len(outbox'[k]) = c - 1 /\ lostSends'[k] = a /\ Scripts(k)' = d
      BY <3>1, QueueFacts DEF Scripts
    <3>5. a + (bb + (c - 1) + d) <= 1
      BY <3>2, <3>3
    <3> QED
      BY <2>3, <3>3, <3>4, <3>5 DEF Outstanding
  <2>4. CASE j # k
    <3>1. lostSends'[j] = lostSends[j] /\ outbox'[j] = outbox[j] /\ inbox'[j] = inbox[j]
      BY <2>4
    <3> QED
      BY <2>2, <3>1 DEF Outstanding, Scripts
  <2> QED
    BY <2>3, <2>4
<1> QED
  BY <1>1, <1>2

\* A step of one controller on one of its connections, which starts no second
\* use of it.
LEMMA FreshKept ==
    ASSUME Fresh, NEW c \in Controllers, NEW t, NEW k \in Conns, k = <<c, t>>,
           \A j \in Conns : j # k => client'[j] = client[j],
           \A d \in Controllers : d # c => pc'[d] = pc[d],
           available' = available,
           pc'[c] # "start",
           c \in Bots /\ (pc'[c] \in {"probe", "connect"} \/ (pc'[c] = "begin" /\ available'[c]))
              => client'[<<c, "exec">>] = "none"
    PROVE  Fresh'
<1>1. /\ \A b \in Bots : <<b, "probe">> \in Conns /\ <<b, "exec">> \in Conns /\ b \in Controllers
      /\ \A m \in Monitors : <<m, "request">> \in Conns /\ m \in Controllers
  BY DEF Conns, Controllers
<1>2. ASSUME NEW b \in Bots, pc'[b] = "start" PROVE client'[<<b, "probe">>] = "none"
  BY <1>1, <1>2 DEF Fresh
<1>3. ASSUME NEW m \in Monitors, pc'[m] = "start" PROVE client'[<<m, "request">>] = "none"
  BY <1>1, <1>3 DEF Fresh
<1>4. ASSUME NEW b \in Bots,
             pc'[b] \in {"start", "probe", "connect"} \/ (pc'[b] = "begin" /\ available'[b])
      PROVE  client'[<<b, "exec">>] = "none"
  <2>1. CASE b = c
    BY <1>4, <2>1
  <2>2. CASE b # c
    BY <1>1, <1>4, <2>2 DEF Fresh
  <2> QED
    BY <2>1, <2>2
<1> QED
  BY <1>2, <1>3, <1>4 DEF Fresh

-----------------------------------------------------------------------------
\* A step of the agent process keeps the lock-step invariant.
LEMMA AgentKeepsLockStep ==
    ASSUME TypeOK, ConnInv,
           \/ AgentThread \/ ScannerStep \/ Shutdown
           \/ JoinAccept \/ JoinScanner \/ AgentKilled \/ AgentStarted
    PROVE  ConnInv'
<1> USE DEF agentVars, sockVars, botVars, monVars
<1>1. CASE AcceptClient
  <2>1. Head(backlog) \in Conns /\ client[Head(backlog)] # "none" /\ agentPc # "script"
    BY <1>1, QueueFacts DEF AcceptClient, ConnInv, Queued, TypeOK, SocketTypeOK
  <2>2. Serving'
    BY <1>1, <2>1 DEF AcceptClient, Serving
  <2>3. Queued'
    <3>1. \A i \in 1 .. Len(Tail(backlog)) :
            Tail(backlog)[i] = backlog[i + 1] /\ i + 1 \in 1 .. Len(backlog)
      BY <1>1 DEF AcceptClient, TypeOK, SocketTypeOK
    <3> QED
      BY <1>1, <3>1 DEF AcceptClient, ConnInv, Queued
  <2>4. Untouched' /\ Fresh'
    BY <1>1 DEF AcceptClient, ConnInv, Untouched, Fresh
  <2>5. OneOutstanding'
    BY <1>1, <2>1 DEF AcceptClient, ConnInv, OneOutstanding, Outstanding, Scripts
  <2> QED
    BY <2>2, <2>3, <2>4, <2>5 DEF ConnInv
<1>2. CASE AcceptFails \/ ScannerStep \/ JoinAccept \/ JoinScanner
  <2>1. Serving' /\ Queued' /\ Untouched' /\ Fresh'
    BY <1>2 DEF AcceptFails, ScannerStep, JoinAccept, JoinScanner, ConnInv,
                Serving, Queued, Untouched, Fresh
  <2>2. OneOutstanding'
    BY <1>2 DEF AcceptFails, ScannerStep, JoinAccept, JoinScanner, ConnInv,
                OneOutstanding, Outstanding, Scripts
  <2> QED
    BY <2>1, <2>2 DEF ConnInv
<1>3. CASE Greet
  <2>1. PICK k \in Conns : k = cur /\ client[k] # "none"
    BY <1>3 DEF Greet, ConnInv, Serving
  <2>2. PICK m \in Replies : Send(k, m)
    BY <1>3, <2>1 DEF Greet, Replies
  <2>3. Serving' /\ Queued' /\ Fresh'
    BY <1>3 DEF Greet, ReturnFromClient, ConnInv, Serving, Queued, Fresh
  <2>4. \A j \in Conns : Scripts(j) = 0 /\ Scripts(j)' = 0
    BY <1>3 DEF Greet, ReturnFromClient, Scripts
  <2>5. /\ UNCHANGED client
        /\ \A j \in Conns \ {k} : inbox'[j] = inbox[j] /\ Scripts(j)' = Scripts(j)
        /\ Len(inbox'[k]) \in Nat
        /\ Len(inbox'[k]) + Scripts(k)' + 1 <= Len(inbox[k]) + Scripts(k)
    <3>1. /\ UNCHANGED client
          /\ \A j \in Conns \ {k} : inbox'[j] = inbox[j]
          /\ inbox'[k] = Tail(inbox[k])
      BY <1>3, <2>1 DEF Greet, TypeOK, SocketTypeOK
    <3>2. /\ Len(inbox[k]) >= 1 /\ Len(inbox[k]) \in Nat
          /\ Len(Tail(inbox[k])) = Len(inbox[k]) - 1
      BY <1>3, <2>1, QueueFacts DEF Greet, TypeOK, SocketTypeOK
    <3> QED
      BY <2>4, <3>1, <3>2
  <2>6. Untouched' /\ OneOutstanding'
    BY <2>1, <2>2, <2>5, SendKeepsLockStep
  <2> QED
    BY <2>3, <2>6 DEF ConnInv
<1>4. CASE PeerClosed
  <2>1. Serving' /\ Queued' /\ Untouched' /\ Fresh'
    BY <1>4 DEF PeerClosed, ReturnFromClient, ConnInv, Serving, Queued, Untouched, Fresh
  <2>2. OneOutstanding'
    BY <1>4 DEF PeerClosed, ReturnFromClient, ConnInv, OneOutstanding, Outstanding, Scripts
  <2> QED
    BY <2>1, <2>2 DEF ConnInv
<1>5. CASE StartScript
  <2>1. Serving' /\ Queued' /\ Fresh'
    BY <1>5 DEF StartScript, ConnInv, Serving, Queued, Fresh
  <2>2. cur \in Conns /\ client[cur] # "none"
    BY <1>5 DEF StartScript, ConnInv, Serving
  <2>3. Untouched'
    BY <1>5, <2>2 DEF StartScript, ConnInv, Untouched, TypeOK, SocketTypeOK
  <2>4. OneOutstanding'
    <3>1. SUFFICES ASSUME NEW j \in Conns
                   PROVE  (lostSends[j] + Outstanding(j))' <= 1
      BY DEF OneOutstanding
    <3>2. LoadTyped(j) /\ lostSends[j] + Outstanding(j) <= 1
      BY LoadIsTyped DEF ConnInv, OneOutstanding
    <3>3. CASE j = cur
      <4>1. /\ Len(inbox'[j]) = Len(inbox[j]) - 1 /\ Len(inbox[j]) >= 1
            /\ outbox'[j] = outbox[j] /\ lostSends'[j] = lostSends[j]
            /\ Scripts(j) = 0 /\ Scripts(j)' = 1
        BY <1>5, <2>2, <3>3, QueueFacts DEF StartScript, TypeOK, SocketTypeOK, Scripts
      <4>2. /\ LoadTyped(j)'
            /\ lostSends'[j] + Len(outbox'[j]) <= lostSends[j] + Len(outbox[j]) + 0
            /\ Len(inbox'[j]) + Scripts(j)' + 0 <= Len(inbox[j]) + Scripts(j)
        BY <3>2, <4>1 DEF LoadTyped
      <4> QED
        BY <3>2, <4>2, LoadKept
    <3>4. CASE j # cur
      <4>1. /\ inbox'[j] = inbox[j] /\ outbox'[j] = outbox[j]
            /\ lostSends'[j] = lostSends[j] /\ Scripts(j)' = Scripts(j)
        BY <1>5, <3>4 DEF StartScript, TypeOK, SocketTypeOK, Scripts
      <4> QED
        BY <3>2, <4>1 DEF Outstanding
    <3> QED
      BY <3>3, <3>4
  <2> QED
    BY <2>1, <2>3, <2>4 DEF ConnInv
<1>6. CASE FinishScript
  <2>1. PICK k \in Conns : k = cur /\ client[k] # "none"
    BY <1>6 DEF FinishScript, ConnInv, Serving
  <2>2. "Result" \in Replies /\ Send(k, "Result")
    BY <1>6, <2>1 DEF FinishScript, Replies
  <2>3. Serving' /\ Queued' /\ Fresh'
    BY <1>6 DEF FinishScript, ConnInv, Serving, Queued, Fresh
  <2>4. /\ Scripts(k) = 1 /\ Scripts(k)' = 0
        /\ \A j \in Conns \ {k} : Scripts(j)' = Scripts(j)
    BY <1>6, <2>1 DEF FinishScript, Scripts
  <2>5. /\ UNCHANGED client
        /\ \A j \in Conns \ {k} : inbox'[j] = inbox[j] /\ Scripts(j)' = Scripts(j)
        /\ Len(inbox'[k]) \in Nat
        /\ Len(inbox'[k]) + Scripts(k)' + 1 <= Len(inbox[k]) + Scripts(k)
    <3>1. /\ UNCHANGED client
          /\ \A j \in Conns \ {k} : inbox'[j] = inbox[j]
          /\ inbox'[k] = inbox[k]
      BY <1>6, <2>1 DEF FinishScript, TypeOK, SocketTypeOK
    <3>2. Len(inbox[k]) \in Nat
      BY <1>6, <2>1, QueueFacts DEF FinishScript, TypeOK, SocketTypeOK
    <3> QED
      BY <2>4, <3>1, <3>2
  <2>6. Untouched' /\ OneOutstanding'
    BY <2>1, <2>2, <2>5, SendKeepsLockStep
  <2> QED
    BY <2>3, <2>6 DEF ConnInv
<1>7. CASE AnswerRequest
  <2>1. PICK k \in Conns : k = cur /\ client[k] # "none"
    BY <1>7 DEF AnswerRequest, ConnInv, Serving
  <2>2. PICK m \in Replies : Send(k, m)
    BY <1>7, <2>1 DEF AnswerRequest, ReplyTo, Replies
  <2>3. Serving' /\ Queued' /\ Fresh'
    BY <1>7 DEF AnswerRequest, ConnInv, Serving, Queued, Fresh
  <2>4. \A j \in Conns : Scripts(j) = 0 /\ Scripts(j)' = 0
    BY <1>7 DEF AnswerRequest, Scripts
  <2>5. /\ UNCHANGED client
        /\ \A j \in Conns \ {k} : inbox'[j] = inbox[j] /\ Scripts(j)' = Scripts(j)
        /\ Len(inbox'[k]) \in Nat
        /\ Len(inbox'[k]) + Scripts(k)' + 1 <= Len(inbox[k]) + Scripts(k)
    <3>1. /\ UNCHANGED client
          /\ \A j \in Conns \ {k} : inbox'[j] = inbox[j]
          /\ inbox'[k] = Tail(inbox[k])
      BY <1>7, <2>1 DEF AnswerRequest, TypeOK, SocketTypeOK
    <3>2. /\ Len(inbox[k]) >= 1 /\ Len(inbox[k]) \in Nat
          /\ Len(Tail(inbox[k])) = Len(inbox[k]) - 1
      BY <1>7, <2>1, QueueFacts DEF AnswerRequest, TypeOK, SocketTypeOK
    <3> QED
      BY <2>4, <3>1, <3>2
  <2>6. Untouched' /\ OneOutstanding'
    BY <2>1, <2>2, <2>5, SendKeepsLockStep
  <2> QED
    BY <2>3, <2>6 DEF ConnInv
<1>8. CASE Shutdown
  <2>1. Serving' /\ Queued' /\ Fresh'
    BY <1>8 DEF Shutdown, ConnInv, Serving, Queued, Fresh
  <2>2. Untouched' /\ OneOutstanding'
    <3>1. \A k \in Conns : Scripts(k)' <= Scripts(k)
      BY <1>8 DEF Shutdown, Scripts
    <3> QED
      BY <1>8, <3>1, ResetKeepsLockStep DEF Shutdown
  <2> QED
    BY <2>1, <2>2 DEF ConnInv
<1>9. CASE AgentKilled
  <2>1. Serving' /\ Queued' /\ Fresh'
    BY <1>9 DEF AgentKilled, ConnInv, Serving, Queued, Fresh
  <2>2. Untouched' /\ OneOutstanding'
    <3>1. \A k \in Conns : Scripts(k)' <= Scripts(k)
      BY <1>9 DEF AgentKilled, Scripts
    <3> QED
      BY <1>9, <3>1, ResetKeepsLockStep DEF AgentKilled
  <2> QED
    BY <2>1, <2>2 DEF ConnInv
<1>10. CASE AgentStarted
  <2>1. Serving' /\ Queued' /\ Untouched' /\ Fresh'
    BY <1>10 DEF AgentStarted, ConnInv, Serving, Queued, Untouched, Fresh
  <2>2. OneOutstanding'
    <3>1. SUFFICES ASSUME NEW j \in Conns
                   PROVE  (lostSends[j] + Outstanding(j))' <= 1
      BY DEF OneOutstanding
    <3>2. LoadTyped(j) /\ lostSends[j] + Outstanding(j) <= 1
      BY LoadIsTyped DEF ConnInv, OneOutstanding
    <3>3. /\ inbox'[j] = inbox[j] /\ outbox'[j] = outbox[j] /\ lostSends'[j] = lostSends[j]
          /\ Scripts(j)' = 0
      BY <1>10 DEF AgentStarted, Scripts
    <3>4. /\ LoadTyped(j)'
          /\ lostSends'[j] + Len(outbox'[j]) <= lostSends[j] + Len(outbox[j]) + 0
          /\ Len(inbox'[j]) + Scripts(j)' + 0 <= Len(inbox[j]) + Scripts(j)
      BY <3>2, <3>3 DEF LoadTyped
    <3> QED
      BY <3>2, <3>4, LoadKept
  <2> QED
    BY <2>1, <2>2 DEF ConnInv
<1> QED
  BY <1>1, <1>2, <1>3, <1>4, <1>5, <1>6, <1>7, <1>8, <1>9, <1>10 DEF AgentThread

\* A step of `nazg bot spawn` keeps the lock-step invariant.
LEMMA BotKeepsLockStep ==
    ASSUME TypeOK, ConnInv, NEW b \in Bots, BotStep(b)
    PROVE  ConnInv'
<1> USE DEF agentVars, sockVars, botVars, botStore, monVars
<1>1. CASE Probe(b)
  <2> DEFINE k == <<b, "probe">>
  <2>1. k \in Conns /\ client[k] = "none"
    BY <1>1 DEF Probe, ConnInv, Fresh, Conns
  <2>2. Serving' /\ Queued' /\ Untouched' /\ OneOutstanding'
    <3>1. CASE ConnectAndHello(k)
      BY <1>1, <2>1, <3>1, ConnectKeepsLockStep DEF Probe
    <3>2. CASE UNCHANGED sockVars
      BY <1>1, <3>2 DEF Probe, ConnInv, Serving, Queued, Untouched,
         OneOutstanding, Outstanding, Scripts
    <3> QED
      BY <1>1, <3>1, <3>2 DEF Probe
  <2>3. Fresh'
    <3>1. b \in Controllers
      BY DEF Controllers
    <3>2. \A j \in Conns : j # k => client'[j] = client[j]
      BY <1>1 DEF Probe, ConnectAndHello, TypeOK, SocketTypeOK
    <3>3. /\ \A d \in Controllers : d # b => pc'[d] = pc[d]
          /\ available' = available /\ pc'[b] \in {"probe", "begin"}
      BY <1>1, <3>1 DEF Probe, TypeOK, ControllerTypeOK
    <3>4. client'[<<b, "exec">>] = "none"
      <4>1. <<b, "exec">> \in Conns /\ client[<<b, "exec">>] = "none"
        BY <1>1 DEF Probe, ConnInv, Fresh, Conns
      <4> QED
        BY <3>2, <4>1
    <3> QED
      BY <2>1, <3>1, <3>2, <3>3, <3>4, FreshKept DEF ConnInv
  <2> QED
    BY <2>2, <2>3 DEF ConnInv
<1>2. CASE ProbeAnswered(b)
  <2> DEFINE k == <<b, "probe">>
  <2>1. k \in Conns
    BY DEF Conns
  <2>2. /\ Tail(outbox[k]) \in Seq(Replies) /\ Len(Tail(outbox[k])) <= Len(outbox[k])
    BY <1>2, <2>1, QueueFacts DEF ProbeAnswered, TypeOK, SocketTypeOK
  <2>3. Close(k, Tail(outbox[k])) /\ UNCHANGED <<agentPc, cur, backlog, inbox>>
    BY <1>2 DEF ProbeAnswered
  <2>4. Serving' /\ Queued' /\ Untouched' /\ OneOutstanding'
    BY <2>1, <2>2, <2>3, CloseKeepsLockStep
  <2>5. Fresh'
    BY <1>2 DEF ProbeAnswered, Close, ConnInv, Fresh, TypeOK, SocketTypeOK, ControllerTypeOK, Conns, Controllers
  <2> QED
    BY <2>4, <2>5 DEF ConnInv
<1>3. CASE ProbeFails(b)
  <2> DEFINE k == <<b, "probe">>
  <2>1. k \in Conns
    BY DEF Conns
  <2>2. /\ outbox[k] \in Seq(Replies) /\ Len(outbox[k]) <= Len(outbox[k])
    BY <1>3, <2>1, QueueFacts DEF ProbeFails, TypeOK, SocketTypeOK
  <2>3. Close(k, outbox[k]) /\ UNCHANGED <<agentPc, cur, backlog, inbox>>
    BY <1>3 DEF ProbeFails
  <2>4. Serving' /\ Queued' /\ Untouched' /\ OneOutstanding'
    BY <2>1, <2>2, <2>3, CloseKeepsLockStep
  <2>5. Fresh'
    BY <1>3 DEF ProbeFails, Close, ConnInv, Fresh, TypeOK, SocketTypeOK, ControllerTypeOK, Conns, Controllers
  <2> QED
    BY <2>4, <2>5 DEF ConnInv
<1>4. CASE BeginRun(b)
  <2>1. Serving' /\ Queued' /\ Untouched'
    BY <1>4 DEF BeginRun, ConnInv, Serving, Queued, Untouched
  <2>2. OneOutstanding'
    BY <1>4 DEF BeginRun, ConnInv, OneOutstanding, Outstanding, Scripts
  <2>3. Fresh'
    BY <1>4 DEF BeginRun, ConnInv, Fresh, TypeOK, ControllerTypeOK, Controllers
  <2> QED
    BY <2>1, <2>2, <2>3 DEF ConnInv
<1>5. CASE ExecConnect(b)
  <2> DEFINE k == <<b, "exec">>
  <2>1. k \in Conns /\ client[k] = "none"
    BY <1>5 DEF ExecConnect, ConnInv, Fresh, Conns
  <2>2. Serving' /\ Queued' /\ Untouched' /\ OneOutstanding'
    <3>1. CASE ConnectAndHello(k)
      BY <1>5, <2>1, <3>1, ConnectKeepsLockStep DEF ExecConnect
    <3>2. CASE UNCHANGED sockVars
      BY <1>5, <3>2 DEF ExecConnect, ConnInv, Serving, Queued, Untouched,
         OneOutstanding, Outstanding, Scripts
    <3> QED
      BY <1>5, <3>1, <3>2 DEF ExecConnect
  <2>3. Fresh'
    <3>1. b \in Controllers
      BY DEF Controllers
    <3>2. \A j \in Conns : j # k => client'[j] = client[j]
      BY <1>5 DEF ExecConnect, ConnectAndHello, TypeOK, SocketTypeOK
    <3>3. /\ \A d \in Controllers : d # b => pc'[d] = pc[d]
          /\ available' = available /\ pc'[b] \in {"hello", "ssh"}
      BY <1>5, <3>1 DEF ExecConnect, TypeOK, ControllerTypeOK
    <3> QED
      BY <2>1, <3>1, <3>2, <3>3, FreshKept DEF ConnInv
  <2> QED
    BY <2>2, <2>3 DEF ConnInv
<1>6. CASE ExecAcked(b)
  <2> DEFINE k == <<b, "exec">>
  <2>1. k \in Conns /\ client[k] # "none" /\ outbox[k] # <<>>
    BY <1>6 DEF ExecAcked, ConnInv, Untouched, Conns
  <2>2. Serving' /\ Queued' /\ Untouched' /\ OneOutstanding'
    <3>1. CASE Close(k, Tail(outbox[k])) /\ UNCHANGED inbox
      <4>1. Tail(outbox[k]) \in Seq(Replies) /\ Len(Tail(outbox[k])) <= Len(outbox[k])
        BY <2>1, QueueFacts DEF TypeOK, SocketTypeOK
      <4> QED
        BY <1>6, <2>1, <3>1, <4>1, CloseKeepsLockStep DEF ExecAcked
    <3>2. CASE /\ outbox' = [outbox EXCEPT ![k] = Tail(@)]
               /\ \E req \in {"RunCommand"} :
                     inbox' = IF server[k] = "closed" THEN inbox
                              ELSE [inbox EXCEPT ![k] = Append(@, req)]
               /\ UNCHANGED <<client, lostSends>>
      <4>1. PICK req \in Requests :
              inbox' = IF server[k] = "closed" THEN inbox
                       ELSE [inbox EXCEPT ![k] = Append(@, req)]
        BY <3>2 DEF Requests
      <4>2. UNCHANGED <<agentPc, cur, client, lostSends>>
        BY <1>6, <3>2 DEF ExecAcked
      <4>3. Untouched' /\ OneOutstanding'
        BY <2>1, <3>2, <4>1, <4>2, RequestKeepsLockStep
      <4> QED
        BY <1>6, <4>2, <4>3 DEF ExecAcked, ConnInv, Serving, Queued
    <3> QED
      BY <1>6, <3>1, <3>2 DEF ExecAcked
  <2>3. Fresh'
    <3>1. b \in Controllers
      BY DEF Controllers
    <3>2. \A j \in Conns : j # k => client'[j] = client[j]
      BY <1>6 DEF ExecAcked, Close, TypeOK, SocketTypeOK
    <3>3. /\ \A d \in Controllers : d # b => pc'[d] = pc[d]
          /\ available' = available /\ pc'[b] \in {"await", "ssh"}
      BY <1>6, <3>1 DEF ExecAcked, TypeOK, ControllerTypeOK
    <3> QED
      BY <2>1, <3>1, <3>2, <3>3, FreshKept DEF ConnInv
  <2> QED
    BY <2>2, <2>3 DEF ConnInv
<1>7. CASE ExecResult(b)
  <2> DEFINE k == <<b, "exec">>
  <2>1. k \in Conns
    BY DEF Conns
  <2>2. /\ Tail(outbox[k]) \in Seq(Replies) /\ Len(Tail(outbox[k])) <= Len(outbox[k])
    BY <1>7, <2>1, QueueFacts DEF ExecResult, TypeOK, SocketTypeOK
  <2>3. Close(k, Tail(outbox[k])) /\ UNCHANGED <<agentPc, cur, backlog, inbox>>
    BY <1>7 DEF ExecResult
  <2>4. Serving' /\ Queued' /\ Untouched' /\ OneOutstanding'
    BY <2>1, <2>2, <2>3, CloseKeepsLockStep
  <2>5. Fresh'
    BY <1>7 DEF ExecResult, Close, ConnInv, Fresh, TypeOK, SocketTypeOK, ControllerTypeOK, Conns, Controllers
  <2> QED
    BY <2>4, <2>5 DEF ConnInv
<1>8. CASE ExecFails(b)
  <2> DEFINE k == <<b, "exec">>
  <2>1. k \in Conns
    BY DEF Conns
  <2>2. /\ outbox[k] \in Seq(Replies) /\ Len(outbox[k]) <= Len(outbox[k])
    BY <1>8, <2>1, QueueFacts DEF ExecFails, TypeOK, SocketTypeOK
  <2>3. Close(k, outbox[k]) /\ UNCHANGED <<agentPc, cur, backlog, inbox>>
    BY <1>8 DEF ExecFails
  <2>4. Serving' /\ Queued' /\ Untouched' /\ OneOutstanding'
    BY <2>1, <2>2, <2>3, CloseKeepsLockStep
  <2>5. Fresh'
    BY <1>8 DEF ExecFails, Close, ConnInv, Fresh, TypeOK, SocketTypeOK, ControllerTypeOK, Conns, Controllers
  <2> QED
    BY <2>4, <2>5 DEF ConnInv
<1>9. CASE RunOverSsh(b)
  <2>1. Serving' /\ Queued' /\ Untouched'
    BY <1>9 DEF RunOverSsh, ConnInv, Serving, Queued, Untouched
  <2>2. OneOutstanding'
    BY <1>9 DEF RunOverSsh, ConnInv, OneOutstanding, Outstanding, Scripts
  <2>3. Fresh'
    BY <1>9 DEF RunOverSsh, ConnInv, Fresh, TypeOK, ControllerTypeOK, Controllers
  <2> QED
    BY <2>1, <2>2, <2>3 DEF ConnInv
<1>10. CASE FinishRun(b)
  <2>1. Serving' /\ Queued' /\ Untouched'
    BY <1>10 DEF FinishRun, ConnInv, Serving, Queued, Untouched
  <2>2. OneOutstanding'
    BY <1>10 DEF FinishRun, ConnInv, OneOutstanding, Outstanding, Scripts
  <2>3. Fresh'
    BY <1>10 DEF FinishRun, ConnInv, Fresh, TypeOK, ControllerTypeOK, Controllers
  <2> QED
    BY <2>1, <2>2, <2>3 DEF ConnInv
<1>11. CASE SaveReport(b)
  <2>1. Serving' /\ Queued' /\ Untouched'
    BY <1>11 DEF SaveReport, ConnInv, Serving, Queued, Untouched
  <2>2. OneOutstanding'
    BY <1>11 DEF SaveReport, ConnInv, OneOutstanding, Outstanding, Scripts
  <2>3. Fresh'
    <3>1. CASE pc' = [pc EXCEPT ![b] = "done"] /\ Forget({b})
      <4>1. \A d \in Bots : available'[d] => available[d]
        BY <3>1, ForgetTyped DEF TypeOK
      <4> QED
        BY <1>11, <3>1, <4>1 DEF SaveReport, ConnInv, Fresh, TypeOK, ControllerTypeOK, Controllers
    <3>2. CASE /\ pc' = [pc EXCEPT ![b] = "begin"]
               /\ available' = [available EXCEPT ![b] = FALSE]
      BY <1>11, <3>2 DEF SaveReport, ConnInv, Fresh, TypeOK, ControllerTypeOK, Controllers
    <3> QED
      BY <1>11, <3>1, <3>2 DEF SaveReport
  <2> QED
    BY <2>1, <2>2, <2>3 DEF ConnInv
<1> QED
  BY <1>1, <1>2, <1>3, <1>4, <1>5, <1>6, <1>7, <1>8, <1>9, <1>10, <1>11 DEF BotStep

\* A step of the monitoring client keeps the lock-step invariant.
LEMMA MonitorKeepsLockStep ==
    ASSUME TypeOK, ConnInv, NEW m \in Monitors, MonitorStep(m)
    PROVE  ConnInv'
<1> USE DEF agentVars, sockVars, botVars, monVars
<1>1. CASE MonitorConnect(m)
  <2> DEFINE k == <<m, "request">>
  <2>1. k \in Conns /\ client[k] = "none"
    BY <1>1 DEF MonitorConnect, ConnInv, Fresh, Conns
  <2>2. Serving' /\ Queued' /\ Untouched' /\ OneOutstanding'
    <3>1. CASE ConnectAndHello(k)
      BY <1>1, <2>1, <3>1, ConnectKeepsLockStep DEF MonitorConnect
    <3>2. CASE UNCHANGED sockVars
      BY <1>1, <3>2 DEF MonitorConnect, ConnInv, Serving, Queued, Untouched,
         OneOutstanding, Outstanding, Scripts
    <3> QED
      BY <1>1, <3>1, <3>2 DEF MonitorConnect
  <2>3. Fresh'
    <3>1. m \in Controllers
      BY DEF Controllers
    <3>2. \A j \in Conns : j # k => client'[j] = client[j]
      BY <1>1 DEF MonitorConnect, ConnectAndHello, TypeOK, SocketTypeOK
    <3>3. /\ \A d \in Controllers : d # m => pc'[d] = pc[d]
          /\ available' = available /\ pc'[m] \in {"hello", "done"}
      BY <1>1, <3>1 DEF MonitorConnect, MonitorFails, TypeOK, ControllerTypeOK
    <3> QED
      BY <2>1, <3>1, <3>2, <3>3, FreshKept DEF ConnInv
  <2> QED
    BY <2>2, <2>3 DEF ConnInv
<1>2. CASE MonitorAcked(m)
  <2> DEFINE k == <<m, "request">>
  <2>1. k \in Conns /\ client[k] # "none" /\ outbox[k] # <<>>
    BY <1>2 DEF MonitorAcked, ConnInv, Untouched, Conns
  <2>2. Serving' /\ Queued' /\ Untouched' /\ OneOutstanding'
    <3>1. CASE Close(k, Tail(outbox[k])) /\ UNCHANGED inbox
      <4>1. Tail(outbox[k]) \in Seq(Replies) /\ Len(Tail(outbox[k])) <= Len(outbox[k])
        BY <2>1, QueueFacts DEF TypeOK, SocketTypeOK
      <4> QED
        BY <1>2, <2>1, <3>1, <4>1, CloseKeepsLockStep DEF MonitorAcked
    <3>2. CASE /\ outbox' = [outbox EXCEPT ![k] = Tail(@)]
               /\ \E req \in {"DockerFullScan", "Register"} :
                     inbox' = IF server[k] = "closed" THEN inbox
                              ELSE [inbox EXCEPT ![k] = Append(@, req)]
               /\ UNCHANGED <<client, lostSends>>
      <4>1. PICK req \in Requests :
              inbox' = IF server[k] = "closed" THEN inbox
                       ELSE [inbox EXCEPT ![k] = Append(@, req)]
        BY <3>2 DEF Requests
      <4>2. UNCHANGED <<agentPc, cur, client, lostSends>>
        BY <1>2, <3>2 DEF MonitorAcked
      <4>3. Untouched' /\ OneOutstanding'
        BY <2>1, <3>2, <4>1, <4>2, RequestKeepsLockStep
      <4> QED
        BY <1>2, <4>2, <4>3 DEF MonitorAcked, ConnInv, Serving, Queued
    <3> QED
      BY <1>2, <3>1, <3>2 DEF MonitorAcked
  <2>3. Fresh'
    <3>1. m \in Controllers
      BY DEF Controllers
    <3>2. \A j \in Conns : j # k => client'[j] = client[j]
      BY <1>2 DEF MonitorAcked, Close, TypeOK, SocketTypeOK
    <3>3. /\ \A d \in Controllers : d # m => pc'[d] = pc[d]
          /\ available' = available /\ pc'[m] \in {"await", "done"}
      BY <1>2, <3>1 DEF MonitorAcked, MonitorFails, TypeOK, ControllerTypeOK
    <3> QED
      BY <2>1, <3>1, <3>2, <3>3, FreshKept DEF ConnInv
  <2> QED
    BY <2>2, <2>3 DEF ConnInv
<1>3. CASE MonitorReply(m)
  <2> DEFINE k == <<m, "request">>
  <2>1. k \in Conns
    BY DEF Conns
  <2>2. /\ Tail(outbox[k]) \in Seq(Replies) /\ Len(Tail(outbox[k])) <= Len(outbox[k])
    BY <1>3, <2>1, QueueFacts DEF MonitorReply, TypeOK, SocketTypeOK
  <2>3. Close(k, Tail(outbox[k])) /\ UNCHANGED <<agentPc, cur, backlog, inbox>>
    BY <1>3 DEF MonitorReply
  <2>4. Serving' /\ Queued' /\ Untouched' /\ OneOutstanding'
    BY <2>1, <2>2, <2>3, CloseKeepsLockStep
  <2>5. Fresh'
    BY <1>3 DEF MonitorReply, Close, MonitorFails, ConnInv, Fresh, TypeOK, SocketTypeOK, ControllerTypeOK, Conns, Controllers
  <2> QED
    BY <2>4, <2>5 DEF ConnInv
<1>4. CASE MonitorTimeout(m)
  <2> DEFINE k == <<m, "request">>
  <2>1. k \in Conns
    BY DEF Conns
  <2>2. /\ outbox[k] \in Seq(Replies) /\ Len(outbox[k]) <= Len(outbox[k])
    BY <1>4, <2>1, QueueFacts DEF MonitorTimeout, TypeOK, SocketTypeOK
  <2>3. Close(k, outbox[k]) /\ UNCHANGED <<agentPc, cur, backlog, inbox>>
    BY <1>4 DEF MonitorTimeout
  <2>4. Serving' /\ Queued' /\ Untouched' /\ OneOutstanding'
    BY <2>1, <2>2, <2>3, CloseKeepsLockStep
  <2>5. Fresh'
    BY <1>4 DEF MonitorTimeout, Close, MonitorFails, ConnInv, Fresh, TypeOK, SocketTypeOK, ControllerTypeOK, Conns, Controllers
  <2> QED
    BY <2>4, <2>5 DEF ConnInv
<1> QED
  BY <1>1, <1>2, <1>3, <1>4 DEF MonitorStep

\* The loss of a controller keeps the lock-step invariant.
LEMMA LossKeepsLockStep ==
    ASSUME TypeOK, ConnInv, NEW c \in Controllers, LoseController(c)
    PROVE  ConnInv'
<1> USE DEF agentVars, sockVars, botVars, monVars
<1>1. PICK end \in LossKinds, acked \in BOOLEAN :
        /\ client' = [k \in Conns |-> IF k \in OpenConns(c) THEN end ELSE client[k]]
        /\ lostSends' = [k \in Conns |->
              IF k \in OpenConns(c) /\ ~(end = "vanished" /\ acked)
              THEN lostSends[k] + Len(outbox[k]) ELSE lostSends[k]]
  BY DEF LoseController
<1>2. \A k \in Conns : (client'[k] = "none" <=> client[k] = "none")
                       /\ (client[k] = "none" => k \notin OpenConns(c))
  BY <1>1, AgentLinkConstants DEF OpenConns
<1>3. Serving'
  BY <1>2 DEF LoseController, ConnInv, Serving
<1>4. Queued'
  <2>1. \A i \in 1 .. Len(backlog) : backlog[i] \in Conns
    BY DEF TypeOK, SocketTypeOK
  <2> QED
    BY <1>2, <2>1 DEF LoseController, ConnInv, Queued
<1>5. Untouched'
  BY <1>1, <1>2 DEF LoseController, ConnInv, Untouched
<1>6. Fresh'
  <2>1. \A d \in Controllers : pc'[d] = pc[d] \/ pc'[d] = "lost"
    BY DEF LoseController, TypeOK, ControllerTypeOK
  <2>2. /\ \A b \in Bots : <<b, "probe">> \in Conns /\ <<b, "exec">> \in Conns /\ b \in Controllers
        /\ \A m \in Monitors : <<m, "request">> \in Conns /\ m \in Controllers
    BY DEF Conns, Controllers
  <2>3. \A b \in Bots : available'[b] => available[b]
    BY ForgetTyped DEF LoseController, TypeOK
  <2> QED
    BY <1>2, <2>1, <2>2, <2>3 DEF ConnInv, Fresh
<1>7. OneOutstanding'
  <2>1. SUFFICES ASSUME NEW j \in Conns
                 PROVE  (lostSends[j] + Outstanding(j))' <= 1
    BY DEF OneOutstanding
  <2>2. LoadTyped(j) /\ lostSends[j] + Outstanding(j) <= 1
    BY LoadIsTyped DEF ConnInv, OneOutstanding
  <2>3. inbox'[j] = inbox[j] /\ Scripts(j)' = Scripts(j)
    BY DEF LoseController, Scripts
  <2>4. CASE j \in OpenConns(c)
    <3>1. outbox'[j] = <<>> /\ lostSends'[j] \in {lostSends[j], lostSends[j] + Len(outbox[j])}
      BY <1>1, <2>4 DEF LoseController
    <3>2. /\ LoadTyped(j)'
          /\ lostSends'[j] + Len(outbox'[j]) <= lostSends[j] + Len(outbox[j]) + 0
          /\ Len(inbox'[j]) + Scripts(j)' + 0 <= Len(inbox[j]) + Scripts(j)
      BY <2>2, <2>3, <3>1 DEF LoadTyped
    <3> QED
      BY <2>2, <3>2, LoadKept
  <2>5. CASE j \notin OpenConns(c)
    <3>1. outbox'[j] = outbox[j] /\ lostSends'[j] = lostSends[j]
      BY <1>1, <2>5 DEF LoseController
    <3> QED
      BY <2>2, <2>3, <3>1 DEF Outstanding
  <2> QED
    BY <2>4, <2>5
<1> QED
  BY <1>3, <1>4, <1>5, <1>6, <1>7 DEF ConnInv

-----------------------------------------------------------------------------
\* The lock-step invariant holds for any number of controllers, restarts and
\* losses, whatever times out and however connections queue up.
THEOREM LockStep == Spec => []ConnInv
<1>1. Init => ConnInv
  BY DEF Init, AgentInit, ConnInv, Serving, Queued, Untouched, Fresh,
         OneOutstanding, Outstanding, Scripts, Conns, Controllers
<1>2. TypeOK /\ ConnInv /\ [Next]_vars => ConnInv'
  <2> SUFFICES ASSUME TypeOK, ConnInv, [Next]_vars
               PROVE  ConnInv'
    OBVIOUS
  <2>1. CASE UNCHANGED vars
    <3>1. Serving' /\ Queued' /\ Untouched' /\ Fresh'
      BY <2>1 DEF vars, agentVars, sockVars, botVars, ConnInv, Serving, Queued,
                  Untouched, Fresh
    <3>2. OneOutstanding'
      BY <2>1 DEF vars, agentVars, sockVars, ConnInv, OneOutstanding, Outstanding, Scripts
    <3> QED
      BY <3>1, <3>2 DEF ConnInv
  <2> QED
    BY <2>1, AgentKeepsLockStep, BotKeepsLockStep, MonitorKeepsLockStep,
       LossKeepsLockStep DEF Next, Idle
<1> QED
  BY <1>1, <1>2, TypeCorrect, PTL DEF Spec

\* At most one request, script or answer is outstanding on a connection.
THEOREM OneOutstandingAlways == Spec => []OneOutstanding
<1>1. ConnInv => OneOutstanding
  BY DEF ConnInv
<1> QED
  BY <1>1, LockStep, PTL

-----------------------------------------------------------------------------
(***************************************************************************)
(* The threads of the agent.                                                *)
(***************************************************************************)

\* Runtime::stop joins the accept thread before the scanner, each for good; the
\* accept thread holds a connection only inside handle_client.
JoinedInOrder ==
    /\ mainPc \in {"join_scanner", "stopped"} => agentPc = "exit"
    /\ mainPc = "stopped" => scanPc = "exit"
    /\ agentPc \in {"accept", "exit"} => cur = NoConn

\* Runtime::stop returns only when no client is served, no script and no scan is
\* in progress, however often the agent is stopped, killed and started again.
THEOREM StopJoinsEverything == Spec => []StoppedMeansQuiet
<1>1. Init => JoinedInOrder
  BY DEF Init, AgentInit, JoinedInOrder
<1>2. JoinedInOrder /\ [Next]_vars => JoinedInOrder'
  <2> SUFFICES ASSUME JoinedInOrder, [Next]_vars
               PROVE  JoinedInOrder'
    OBVIOUS
  <2> USE DEF JoinedInOrder, agentVars
  <2>1. CASE AcceptClient \/ AcceptFails
    BY <2>1 DEF AcceptClient, AcceptFails
  <2>2. CASE Greet \/ PeerClosed
    BY <2>2 DEF Greet, PeerClosed, ReturnFromClient
  <2>3. CASE StartScript \/ FinishScript \/ AnswerRequest
    BY <2>3 DEF StartScript, FinishScript, AnswerRequest
  <2>4. CASE ScannerStep
    BY <2>4 DEF ScannerStep
  <2>5. CASE Shutdown \/ JoinAccept \/ JoinScanner \/ AgentKilled \/ AgentStarted
    BY <2>5 DEF Shutdown, JoinAccept, JoinScanner, AgentKilled, AgentStarted
  <2>6. CASE UNCHANGED agentVars
    BY <2>6
  <2>7. ASSUME NEW b \in Bots, BotStep(b) PROVE UNCHANGED agentVars
    BY <2>7 DEF BotStep, Probe, ProbeAnswered, ProbeFails, BeginRun, ExecConnect,
                ExecAcked, ExecResult, ExecFails, RunOverSsh, FinishRun, SaveReport
  <2>8. ASSUME NEW m \in Monitors, MonitorStep(m) PROVE UNCHANGED agentVars
    BY <2>8 DEF MonitorStep, MonitorConnect, MonitorAcked, MonitorReply, MonitorTimeout
  <2>9. ASSUME NEW c \in Controllers, LoseController(c) PROVE UNCHANGED agentVars
    BY <2>9 DEF LoseController
  <2> QED
    BY <2>1, <2>2, <2>3, <2>4, <2>5, <2>6, <2>7, <2>8, <2>9 DEF Next, AgentThread, Idle, vars
<1>3. JoinedInOrder => StoppedMeansQuiet
  BY DEF JoinedInOrder, StoppedMeansQuiet
<1> QED
  BY <1>1, <1>2, <1>3, PTL DEF Spec

\* With a token the accept thread never gets past the greeting.
NobodyIsServed ==
    AuthRequired => /\ agentPc \in {"accept", "greet", "exit"}
                    /\ \A b \in Bots : agentRuns[b] = 0

\* An agent with an auth_token starts no script for a controller that does not
\* send it, whatever else arrives on whichever connection.
THEOREM TokenGuardsEveryScript == Spec => []TokenGuardsScripts
<1>1. Init => NobodyIsServed
  BY DEF Init, AgentInit, NobodyIsServed
<1>2. NobodyIsServed /\ [Next]_vars => NobodyIsServed'
  <2> SUFFICES ASSUME NobodyIsServed, AuthRequired, [Next]_vars
               PROVE  NobodyIsServed'
    BY DEF NobodyIsServed
  <2> USE DEF NobodyIsServed, agentVars
  <2>1. CASE AcceptClient \/ AcceptFails
    BY <2>1 DEF AcceptClient, AcceptFails
  <2>2. CASE Greet \/ PeerClosed
    BY <2>2 DEF Greet, PeerClosed, ReturnFromClient
  <2>3. CASE StartScript \/ FinishScript \/ AnswerRequest
    BY <2>3 DEF StartScript, FinishScript, AnswerRequest
  <2>4. CASE ScannerStep
    BY <2>4 DEF ScannerStep
  <2>5. CASE Shutdown \/ JoinAccept \/ JoinScanner \/ AgentKilled \/ AgentStarted
    BY <2>5 DEF Shutdown, JoinAccept, JoinScanner, AgentKilled, AgentStarted
  <2>6. CASE UNCHANGED <<agentPc, agentRuns>>
    BY <2>6
  <2>7. ASSUME NEW b \in Bots, BotStep(b) PROVE UNCHANGED <<agentPc, agentRuns>>
    BY <2>7 DEF BotStep, Probe, ProbeAnswered, ProbeFails, BeginRun, ExecConnect,
                ExecAcked, ExecResult, ExecFails, RunOverSsh, FinishRun, SaveReport
  <2>8. ASSUME NEW m \in Monitors, MonitorStep(m) PROVE UNCHANGED <<agentPc, agentRuns>>
    BY <2>8 DEF MonitorStep, MonitorConnect, MonitorAcked, MonitorReply, MonitorTimeout
  <2>9. ASSUME NEW c \in Controllers, LoseController(c) PROVE UNCHANGED <<agentPc, agentRuns>>
    BY <2>9 DEF LoseController
  <2> QED
    BY <2>1, <2>2, <2>3, <2>4, <2>5, <2>6, <2>7, <2>8, <2>9 DEF Next, AgentThread, Idle, vars
<1>3. NobodyIsServed => TokenGuardsScripts
  BY DEF NobodyIsServed, TokenGuardsScripts
<1> QED
  BY <1>1, <1>2, <1>3, PTL DEF Spec

-----------------------------------------------------------------------------
(***************************************************************************)
(* The conversations.  Whoever waits for an answer must not take one for it *)
(* that belongs to something else: the greeting still unread, a request of  *)
(* somebody else, or a script the agent was never asked to run.             *)
(***************************************************************************)

Unread(k, m) == inbox[k] # <<>> /\ Head(inbox[k]) = m
OnlyUnread(k, ms) == inbox[k] # <<>> => Head(inbox[k]) \in ms

\* Every connection the agent has not greeted yet still holds its Hello, and no
\* connection waits twice.
HellosWait ==
    /\ \A i \in 1 .. Len(backlog) : Unread(backlog[i], "Hello")
    /\ \A i, j \in 1 .. Len(backlog) : backlog[i] = backlog[j] => i = j
    /\ agentPc = "greet" => Unread(cur, "Hello") /\ server[cur] = "accepted"
    /\ agentPc \in {"greet", "serve", "script"} =>
          \A i \in 1 .. Len(backlog) : backlog[i] # cur

\* A probing connection carries nothing but the Hello.
ProbeTalk(b) == OnlyUnread(<<b, "probe">>, {"Hello"})

\* The request of a monitor: what it waits for answers the request, and a server
\* that it marked online did answer.
MonitorTalk(m) ==
    LET k == <<m, "request">> IN
    /\ OnlyUnread(k, {"Hello", "DockerFullScan", "Register"})
    /\ pc[m] = "await" => ~Unread(k, "Hello")
    /\ pc[m] = "await" /\ outbox[k] # <<>> => Head(outbox[k]) = "Error" \/ answered[m]
    /\ status[m] = "online" => pc[m] = "done" /\ answered[m] /\ inbox[k] = <<>>

\* The script of a bot: asked for once, run at most once, and answered only
\* after it ran.
BotTalk(b) ==
    LET k == <<b, "exec">> IN
    /\ OnlyUnread(k, {"Hello", "RunCommand"})
    /\ agentRuns[b] <= 1
    /\ Unread(k, "RunCommand") => agentRuns[b] = 0
    /\ client[k] = "none" \/ pc[b] = "hello" => agentRuns[b] = 0 /\ ~Unread(k, "RunCommand")
    /\ pc[b] = "await" => ~Unread(k, "Hello") /\ (outbox[k] # <<>> => agentRuns[b] = 1)
    /\ result[b] = "report" /\ sshRuns[b] = 0 => agentRuns[b] = 1

\* A running script is that of a bot, and counted.
ScriptIsABots ==
    agentPc = "script" => \E b \in Bots : cur = <<b, "exec">> /\ agentRuns[b] = 1

TalkInv ==
    /\ HellosWait /\ ScriptIsABots
    /\ \A b \in Bots : ProbeTalk(b) /\ BotTalk(b)
    /\ \A m \in Monitors : MonitorTalk(m)

\* What one message at most on a connection means for its queues.
LEMMA AlmostEmpty ==
    ASSUME TypeOK, ConnInv, NEW k \in Conns
    PROVE  /\ inbox[k] # <<>> => outbox[k] = <<>> /\ Tail(inbox[k]) = <<>>
           /\ outbox[k] # <<>> => inbox[k] = <<>> /\ Tail(outbox[k]) = <<>>
           /\ agentPc = "script" /\ cur = k => inbox[k] = <<>> /\ outbox[k] = <<>>
<1>1. PICK n \in Nat, i \in Nat, o \in Nat, p \in Nat :
        /\ n = lostSends[k] /\ i = Len(inbox[k]) /\ o = Len(outbox[k]) /\ p = Scripts(k)
  BY LoadIsTyped DEF LoadTyped
<1>2. n + (i + o + p) <= 1
  BY <1>1 DEF ConnInv, OneOutstanding, Outstanding
<1>3. inbox[k] \in Seq(Requests) /\ outbox[k] \in Seq(Replies)
  BY DEF TypeOK, SocketTypeOK
<1>4. ASSUME NEW S, NEW q \in Seq(S)
      PROVE  /\ Len(q) = 0 => q = <<>>
             /\ q # <<>> => Len(q) >= 1 /\ (Len(q) <= 1 => Tail(q) = <<>>)
  OBVIOUS
<1>5. /\ inbox[k] # <<>> => i >= 1 /\ (i <= 1 => Tail(inbox[k]) = <<>>)
      /\ i = 0 => inbox[k] = <<>>
  BY <1>1, <1>3, <1>4
<1>6. /\ outbox[k] # <<>> => o >= 1 /\ (o <= 1 => Tail(outbox[k]) = <<>>)
      /\ o = 0 => outbox[k] = <<>>
  BY <1>1, <1>3, <1>4
<1>7. agentPc = "script" /\ cur = k => p = 1
  BY <1>1 DEF Scripts
<1>8. /\ i >= 1 => o = 0 /\ i <= 1
      /\ o >= 1 => i = 0 /\ o <= 1
      /\ p = 1 => i = 0 /\ o = 0
  BY <1>2
<1> QED
  BY <1>5, <1>6, <1>7, <1>8

\* The first message of a queue that was empty.
LEMMA OnlyMessage ==
    ASSUME NEW e
    PROVE  Append(<<>>, e) # <<>> /\ Head(Append(<<>>, e)) = e
<1>1. <<>> \in Seq({e})
  OBVIOUS
<1> QED
  BY <1>1

\* A step that at most drops messages of a bot's connections, and does not let
\* the bot wait for another one.
LEMMA BotTalkKept ==
    ASSUME NEW b \in Bots, ProbeTalk(b), BotTalk(b),
           inbox'[<<b, "probe">>] \in {inbox[<<b, "probe">>], <<>>},
           inbox'[<<b, "exec">>] \in {inbox[<<b, "exec">>], <<>>},
           outbox'[<<b, "exec">>] \in {outbox[<<b, "exec">>], <<>>},
           client'[<<b, "exec">>] = "none" => client[<<b, "exec">>] = "none",
           agentRuns'[b] = agentRuns[b],
           pc'[b] \in {"hello", "await"} => pc'[b] = pc[b],
           result'[b] = "report" /\ sshRuns'[b] = 0 => result[b] = "report" /\ sshRuns[b] = 0
    PROVE  ProbeTalk(b)' /\ BotTalk(b)'
<1>1. ProbeTalk(b)'
  BY DEF ProbeTalk, OnlyUnread
<1>2. BotTalk(b)'
  BY DEF BotTalk, OnlyUnread, Unread
<1> QED
  BY <1>1, <1>2

\* The same for a monitor.
LEMMA MonitorTalkKept ==
    ASSUME NEW m \in Monitors, MonitorTalk(m),
           inbox'[<<m, "request">>] \in {inbox[<<m, "request">>], <<>>},
           outbox'[<<m, "request">>] \in {outbox[<<m, "request">>], <<>>},
           answered'[m] = answered[m],
           pc'[m] = "await" => pc[m] = "await",
           status'[m] = "online" => status[m] = "online" /\ pc'[m] = pc[m]
    PROVE  MonitorTalk(m)'
  BY DEF MonitorTalk, OnlyUnread, Unread

\* The connections of different controllers, and of different purposes, differ.
LEMMA OwnConns ==
    /\ \A b \in Bots : <<b, "probe">> \in Conns /\ <<b, "exec">> \in Conns /\ b \in Controllers
    /\ \A m \in Monitors : <<m, "request">> \in Conns /\ m \in Controllers
    /\ \A b \in Bots, m \in Monitors : b # m
  BY AgentLinkConstants DEF Conns, Controllers

\* Unread greetings stay where they are.
LEMMA HellosKept ==
    ASSUME TypeOK, ConnInv, HellosWait, UNCHANGED <<agentPc, cur, backlog, server>>,
           \A k \in Conns : Unread(k, "Hello") => inbox'[k] = inbox[k]
    PROVE  HellosWait'
<1>1. /\ \A i \in 1 .. Len(backlog) : backlog[i] \in Conns
      /\ agentPc = "greet" => cur \in Conns
  BY DEF ConnInv, Serving, TypeOK, SocketTypeOK
<1> QED
  BY <1>1 DEF HellosWait, Unread

\* A step of the agent's main thread or scanner, or one that only moves on.
LEMMA AgentTalks ==
    ASSUME TypeOK, ConnInv, TalkInv,
           \/ AgentThread \/ ScannerStep \/ Shutdown
           \/ JoinAccept \/ JoinScanner \/ AgentKilled \/ AgentStarted
    PROVE  TalkInv'
<1> USE DEF agentVars, sockVars, botVars, monVars
<1> DEFINE Others == UNCHANGED <<pc, result, sshRuns, status>>
<1>1. ASSUME UNCHANGED <<outbox, client, agentRuns, answered>>, Others,
             \A k \in Conns : inbox'[k] \in {inbox[k], <<>>}
      PROVE  /\ \A b \in Bots : ProbeTalk(b)' /\ BotTalk(b)'
             /\ \A m \in Monitors : MonitorTalk(m)'
  <2>1. ASSUME NEW b \in Bots PROVE ProbeTalk(b)' /\ BotTalk(b)'
    BY <1>1, BotTalkKept, OwnConns DEF TalkInv
  <2>2. ASSUME NEW m \in Monitors PROVE MonitorTalk(m)'
    BY <1>1, MonitorTalkKept, OwnConns DEF TalkInv
  <2> QED
    BY <2>1, <2>2
<1>2. CASE AcceptClient
  <2>1. /\ backlog \in Seq(Conns) /\ backlog # <<>>
        /\ backlog' = Tail(backlog) /\ cur' = backlog[1] /\ agentPc' = "greet"
        /\ server'[cur'] = "accepted" /\ inbox' = inbox
    BY <1>2 DEF AcceptClient, TypeOK, SocketTypeOK
  <2>2. /\ \A i \in 1 .. Len(Tail(backlog)) :
             Tail(backlog)[i] = backlog[i + 1] /\ i + 1 \in 1 .. Len(backlog)
        /\ 1 \in 1 .. Len(backlog)
    BY <2>1
  <2>3. HellosWait'
    BY <2>1, <2>2 DEF TalkInv, HellosWait, Unread
  <2> QED
    BY <1>1, <1>2, <2>1, <2>3 DEF AcceptClient, TalkInv, ScriptIsABots
<1>3. CASE AcceptFails \/ ScannerStep \/ JoinAccept \/ JoinScanner \/ AgentStarted
  <2>1. HellosWait' /\ ScriptIsABots'
    BY <1>3 DEF AcceptFails, ScannerStep, JoinAccept, JoinScanner, AgentStarted,
                TalkInv, HellosWait, ScriptIsABots, Unread
  <2>2. /\ UNCHANGED <<outbox, client, agentRuns, answered, inbox>> /\ Others
    BY <1>3 DEF AcceptFails, ScannerStep, JoinAccept, JoinScanner, AgentStarted
  <2> QED
    BY <1>1, <2>1, <2>2 DEF TalkInv
<1>4. CASE PeerClosed
  <2>1. HellosWait' /\ ScriptIsABots'
    BY <1>4 DEF PeerClosed, ReturnFromClient, TalkInv, HellosWait, ScriptIsABots, Unread
  <2>2. UNCHANGED <<outbox, client, agentRuns, answered, inbox>> /\ Others
    BY <1>4 DEF PeerClosed
  <2> QED
    BY <1>1, <2>1, <2>2 DEF TalkInv
<1>5. CASE Shutdown
  <2>1. backlog' = <<>> /\ \A i \in 1 .. Len(backlog') : FALSE
    BY <1>5 DEF Shutdown
  <2>2. agentPc = "greet" => /\ cur \in Conns /\ inbox'[cur] = inbox[cur]
                            /\ server'[cur] = server[cur]
    BY <1>5 DEF Shutdown, Reset, ConnInv, Serving, TalkInv, HellosWait
  <2>3. HellosWait' /\ ScriptIsABots'
    BY <1>5, <2>1, <2>2 DEF Shutdown, TalkInv, HellosWait, ScriptIsABots, Unread
  <2>4. UNCHANGED <<outbox, client, agentRuns, answered>> /\ Others
    BY <1>5 DEF Shutdown
  <2>5. \A k \in Conns : inbox'[k] \in {inbox[k], <<>>}
    BY <1>5 DEF Shutdown, Reset
  <2> QED
    BY <1>1, <2>3, <2>4, <2>5 DEF TalkInv
<1>6. CASE AgentKilled
  <2>1. backlog' = <<>> /\ \A i \in 1 .. Len(backlog') : FALSE
    BY <1>6 DEF AgentKilled
  <2>3. HellosWait' /\ ScriptIsABots'
    BY <1>6, <2>1 DEF AgentKilled, TalkInv, HellosWait, ScriptIsABots, Unread
  <2>4. UNCHANGED <<outbox, client, agentRuns, answered>> /\ Others
    BY <1>6 DEF AgentKilled
  <2>5. \A k \in Conns : inbox'[k] \in {inbox[k], <<>>}
    BY <1>6 DEF AgentKilled, Reset
  <2> QED
    BY <1>1, <2>3, <2>4, <2>5 DEF TalkInv
<1> DEFINE Elsewhere == /\ \A j \in Conns : j # cur =>
                              inbox'[j] = inbox[j] /\ outbox'[j] = outbox[j]
                        /\ UNCHANGED <<client, backlog, server>>
<1>7. ASSUME Elsewhere, Others, inbox'[cur] \in {inbox[cur], <<>>},
             NEW b \in Bots, cur # <<b, "exec">>, agentRuns'[b] = agentRuns[b]
      PROVE  ProbeTalk(b)' /\ BotTalk(b)'
  BY <1>7, BotTalkKept, OwnConns DEF TalkInv
<1>8. ASSUME Elsewhere, Others, NEW m \in Monitors, cur # <<m, "request">>,
             answered'[m] = answered[m]
      PROVE  MonitorTalk(m)'
  BY <1>8, MonitorTalkKept, OwnConns DEF TalkInv
<1>9. CASE Greet
  <2>1. /\ cur \in Conns /\ inbox[cur] # <<>> /\ Unread(cur, "Hello")
        /\ outbox[cur] = <<>> /\ Tail(inbox[cur]) = <<>>
    BY <1>9, AlmostEmpty DEF Greet, ConnInv, Serving, TalkInv, HellosWait
  <2>2. /\ inbox'[cur] = <<>> /\ UNCHANGED <<agentRuns, answered>> /\ Others
        /\ \A j \in Conns : j # cur => inbox'[j] = inbox[j] /\ outbox'[j] = outbox[j]
        /\ UNCHANGED <<client, backlog>>
    BY <1>9, <2>1 DEF Greet, Send, TypeOK, SocketTypeOK
  <2>3. HellosWait' /\ ScriptIsABots'
    <3>1. \A i \in 1 .. Len(backlog) : backlog[i] \in Conns /\ backlog[i] # cur
      BY <1>9 DEF Greet, TypeOK, SocketTypeOK, TalkInv, HellosWait
    <3>2. agentPc' \in {"serve", "accept", "exit"} /\ (agentPc' = "serve" => cur' = cur)
      BY <1>9 DEF Greet, ReturnFromClient
    <3> QED
      BY <2>2, <3>1, <3>2 DEF TalkInv, HellosWait, ScriptIsABots, Unread
  <2>4. ASSUME NEW b \in Bots PROVE ProbeTalk(b)' /\ BotTalk(b)'
    <3>1. CASE cur = <<b, "exec">>
      <4>1. inbox'[<<b, "probe">>] = inbox[<<b, "probe">>]
        BY <2>2, <3>1, OwnConns
      <4> QED
        BY <2>1, <2>2, <3>1, <4>1 DEF TalkInv, BotTalk, ProbeTalk, OnlyUnread, Unread
    <3>2. CASE cur # <<b, "exec">>
      BY <2>2, <3>2, BotTalkKept, OwnConns DEF TalkInv
    <3> QED
      BY <3>1, <3>2
  <2>5. ASSUME NEW m \in Monitors PROVE MonitorTalk(m)'
    <3>1. CASE cur = <<m, "request">>
      BY <2>1, <2>2, <3>1 DEF TalkInv, MonitorTalk, OnlyUnread, Unread
    <3>2. CASE cur # <<m, "request">>
      BY <2>2, <3>2, MonitorTalkKept, OwnConns DEF TalkInv
    <3> QED
      BY <3>1, <3>2
  <2> QED
    BY <2>3, <2>4, <2>5 DEF TalkInv
<1>10. CASE StartScript
  <2>1. /\ cur \in Conns /\ Unread(cur, "RunCommand") /\ inbox[cur] # <<>>
        /\ outbox[cur] = <<>> /\ Tail(inbox[cur]) = <<>>
    BY <1>10, AlmostEmpty DEF StartScript, ConnInv, Serving, Unread
  <2>2. PICK b \in Bots : cur = <<b, "exec">>
    BY <2>1 DEF Conns, TalkInv, ProbeTalk, MonitorTalk, OnlyUnread, Unread
  <2>3. agentRuns[b] = 0 /\ agentRuns'[b] = 1 /\ \A d \in Bots : d # b => agentRuns'[d] = agentRuns[d]
    BY <1>10, <2>1, <2>2 DEF StartScript, TalkInv, BotTalk, TypeOK, ControllerTypeOK
  <2>4. /\ inbox'[cur] = <<>> /\ Elsewhere /\ Others /\ UNCHANGED answered
        /\ outbox'[cur] = <<>>
    BY <1>10, <2>1 DEF StartScript, TypeOK, SocketTypeOK
  <2>5. HellosWait' /\ ScriptIsABots'
    <3>1. \A i \in 1 .. Len(backlog) : backlog[i] \in Conns /\ backlog[i] # cur
      BY <1>10 DEF StartScript, TypeOK, SocketTypeOK, TalkInv, HellosWait
    <3>2. agentPc' = "script" /\ cur' = cur
      BY <1>10 DEF StartScript
    <3> QED
      BY <2>2, <2>3, <2>4, <3>1, <3>2 DEF TalkInv, HellosWait, ScriptIsABots, Unread
  <2>6. BotTalk(b)' /\ ProbeTalk(b)'
    <3>1. inbox'[<<b, "probe">>] = inbox[<<b, "probe">>]
      BY <2>2, <2>4, OwnConns
    <3> QED
      BY <2>1, <2>2, <2>3, <2>4, <3>1 DEF TalkInv, BotTalk, ProbeTalk, OnlyUnread, Unread
  <2>7. ASSUME NEW d \in Bots, d # b PROVE ProbeTalk(d)' /\ BotTalk(d)'
    <3>1. cur # <<d, "exec">>
      BY <2>2, <2>7
    <3> QED
      BY <1>7, <2>3, <2>4, <2>7, <3>1
  <2>8. ASSUME NEW m \in Monitors PROVE MonitorTalk(m)'
    BY <1>8, <2>2, <2>4
  <2> QED
    BY <2>5, <2>6, <2>7, <2>8 DEF TalkInv
<1>11. CASE FinishScript
  <2>1. PICK b \in Bots : cur = <<b, "exec">> /\ agentRuns[b] = 1
    BY <1>11 DEF FinishScript, TalkInv, ScriptIsABots
  <2>2. cur \in Conns /\ inbox[cur] = <<>> /\ outbox[cur] = <<>>
    BY <1>11, AlmostEmpty DEF FinishScript, ConnInv, Serving
  <2>3. UNCHANGED <<inbox, answered, agentRuns>> /\ Elsewhere /\ Others
    BY <1>11, <2>2 DEF FinishScript, Send, TypeOK, SocketTypeOK
  <2>4. HellosWait' /\ ScriptIsABots'
    BY <1>11, <2>3 DEF FinishScript, TalkInv, HellosWait, ScriptIsABots, Unread
  <2>5. BotTalk(b)' /\ ProbeTalk(b)'
    BY <2>1, <2>2, <2>3 DEF TalkInv, BotTalk, ProbeTalk, OnlyUnread, Unread
  <2>6. ASSUME NEW d \in Bots, d # b PROVE ProbeTalk(d)' /\ BotTalk(d)'
    <3>1. cur # <<d, "exec">>
      BY <2>1, <2>6
    <3> QED
      BY <1>7, <2>3, <2>6, <3>1
  <2>7. ASSUME NEW m \in Monitors PROVE MonitorTalk(m)'
    BY <1>8, <2>1, <2>3
  <2> QED
    BY <2>4, <2>5, <2>6, <2>7 DEF TalkInv
<1>12. CASE AnswerRequest
  <2>1. /\ cur \in Conns /\ inbox[cur] # <<>> /\ ~Unread(cur, "RunCommand")
        /\ outbox[cur] = <<>> /\ Tail(inbox[cur]) = <<>>
    BY <1>12, AlmostEmpty DEF AnswerRequest, ConnInv, Serving, Unread
  <2>2. PICK reply : /\ Send(cur, reply)
                     /\ answered' = [answered EXCEPT ![cur[1]] = (reply # "Error")]
    BY <1>12 DEF AnswerRequest
  <2>3. /\ inbox'[cur] = <<>> /\ Elsewhere /\ Others /\ UNCHANGED <<agentRuns, agentPc, cur>>
    BY <1>12, <2>1, <2>2 DEF AnswerRequest, Send, TypeOK, SocketTypeOK
  <2>4. HellosWait' /\ ScriptIsABots'
    <3>1. \A i \in 1 .. Len(backlog) : backlog[i] \in Conns /\ backlog[i] # cur
      BY <1>12 DEF AnswerRequest, TypeOK, SocketTypeOK, TalkInv, HellosWait
    <3>2. agentPc = "serve"
      BY <1>12 DEF AnswerRequest
    <3> QED
      BY <2>3, <3>1, <3>2 DEF TalkInv, HellosWait, ScriptIsABots, Unread
  <2>5. ASSUME NEW b \in Bots PROVE ProbeTalk(b)' /\ BotTalk(b)'
    <3>1. CASE cur = <<b, "exec">>
      <4>1. inbox'[<<b, "probe">>] = inbox[<<b, "probe">>] /\ Unread(cur, "Hello")
        BY <2>1, <2>3, <3>1, OwnConns DEF TalkInv, BotTalk, OnlyUnread, Unread
      <4> QED
        BY <2>1, <2>3, <3>1, <4>1 DEF TalkInv, BotTalk, ProbeTalk, OnlyUnread, Unread
    <3>2. CASE cur # <<b, "exec">>
      BY <1>7, <2>3, <3>2
    <3> QED
      BY <3>1, <3>2
  <2>6. ASSUME NEW m \in Monitors PROVE MonitorTalk(m)'
    <3>1. CASE cur = <<m, "request">>
      <4>1. answered'[m] = (reply # "Error")
        BY <2>2, <3>1 DEF TypeOK, ControllerTypeOK
      <4>2. outbox'[cur] # <<>> => Head(outbox'[cur]) = reply
        BY <2>1, <2>2, OnlyMessage DEF Send, TypeOK, SocketTypeOK
      <4>3. status[m] # "online"
        BY <2>1, <3>1 DEF TalkInv, MonitorTalk
      <4> QED
        BY <2>3, <3>1, <4>1, <4>2, <4>3 DEF MonitorTalk, OnlyUnread, Unread
    <3>2. CASE cur # <<m, "request">>
      <4>1. cur[1] # m
        BY <2>1, <3>2, OwnConns DEF Conns
      <4> QED
        BY <1>8, <2>2, <2>3, <3>2, <4>1
    <3> QED
      BY <3>1, <3>2
  <2> QED
    BY <2>4, <2>5, <2>6 DEF TalkInv
<1> QED
  BY <1>2, <1>3, <1>4, <1>5, <1>6, <1>9, <1>10, <1>11, <1>12 DEF AgentThread

\* A step of one controller touches its own connections and its own state only.
OwnStep(c) ==
    /\ \A k \in Conns : k[1] # c =>
          inbox'[k] = inbox[k] /\ outbox'[k] = outbox[k] /\ client'[k] = client[k]
    /\ \A d \in Controllers : d # c => pc'[d] = pc[d]
    /\ \A d \in Bots : d # c => result'[d] = result[d] /\ sshRuns'[d] = sshRuns[d]
    /\ \A m \in Monitors : m # c => status'[m] = status[m]
    /\ UNCHANGED <<agentRuns, answered, agentPc, cur>>

\* The conversations of everybody else go on as they were.
LEMMA OthersTalkOn ==
    ASSUME TalkInv, NEW c, OwnStep(c)
    PROVE  /\ \A b \in Bots : b # c => ProbeTalk(b)' /\ BotTalk(b)'
           /\ \A m \in Monitors : m # c => MonitorTalk(m)'
           /\ ScriptIsABots'
<1>1. ASSUME NEW b \in Bots, b # c PROVE ProbeTalk(b)' /\ BotTalk(b)'
  <2>1. /\ inbox'[<<b, "probe">>] = inbox[<<b, "probe">>]
        /\ inbox'[<<b, "exec">>] = inbox[<<b, "exec">>]
        /\ outbox'[<<b, "exec">>] = outbox[<<b, "exec">>]
        /\ client'[<<b, "exec">>] = client[<<b, "exec">>]
        /\ pc'[b] = pc[b] /\ result'[b] = result[b] /\ sshRuns'[b] = sshRuns[b]
        /\ agentRuns'[b] = agentRuns[b]
    BY <1>1, OwnConns DEF OwnStep
  <2> QED
    BY <2>1, BotTalkKept DEF TalkInv
<1>2. ASSUME NEW m \in Monitors, m # c PROVE MonitorTalk(m)'
  <2>1. /\ inbox'[<<m, "request">>] = inbox[<<m, "request">>]
        /\ outbox'[<<m, "request">>] = outbox[<<m, "request">>]
        /\ pc'[m] = pc[m] /\ status'[m] = status[m] /\ answered'[m] = answered[m]
    BY <1>2, OwnConns DEF OwnStep
  <2> QED
    BY <2>1, MonitorTalkKept DEF TalkInv
<1>3. ScriptIsABots'
  BY DEF OwnStep, TalkInv, ScriptIsABots
<1> QED
  BY <1>1, <1>2, <1>3

\* A connection opened for the first time waits with its Hello.
LEMMA ConnectWaits ==
    ASSUME TypeOK, ConnInv, HellosWait, NEW k \in Conns, client[k] = "none",
           ConnectAndHello(k), UNCHANGED <<agentPc, cur>>
    PROVE  HellosWait' /\ inbox'[k] = <<"Hello">> /\ outbox'[k] = <<>>
<1>1. /\ inbox'[k] = <<"Hello">> /\ outbox'[k] = <<>>
      /\ \A j \in Conns : j # k => inbox'[j] = inbox[j] /\ server'[j] = server[j]
  BY DEF ConnectAndHello, ConnInv, Untouched, TypeOK, SocketTypeOK
<1>2. /\ backlog \in Seq(Conns) /\ backlog' = Append(backlog, k)
      /\ \A i \in 1 .. Len(backlog) : backlog[i] \in Conns /\ backlog[i] # k
  BY DEF ConnectAndHello, ConnInv, Queued, TypeOK, SocketTypeOK
<1>3. \A i \in 1 .. Len(backlog') :
        \/ i \in 1 .. Len(backlog) /\ backlog'[i] = backlog[i]
        \/ i = Len(backlog) + 1 /\ backlog'[i] = k
  BY <1>2
<1>4. agentPc \in {"greet", "serve", "script"} => cur \in Conns /\ cur # k
  BY DEF ConnInv, Serving
<1>5. HellosWait'
  <2>1. \A i \in 1 .. Len(backlog') : inbox'[backlog'[i]] # <<>> /\ Head(inbox'[backlog'[i]]) = "Hello"
    <3>1. \A j \in Conns : inbox'[j] = inbox[j] \/ j = k
      BY <1>1
    <3>2. \A i \in 1 .. Len(backlog) : backlog[i] \in Conns /\ Unread(backlog[i], "Hello")
      BY <1>2 DEF HellosWait
    <3>3. SUFFICES ASSUME NEW i \in 1 .. Len(backlog')
                   PROVE  inbox'[backlog'[i]] # <<>> /\ Head(inbox'[backlog'[i]]) = "Hello"
      OBVIOUS
    <3>4. CASE backlog'[i] = k
      <4>1. <<"Hello">> # <<>> /\ Head(<<"Hello">>) = "Hello"
        OBVIOUS
      <4>2. inbox'[backlog'[i]] = <<"Hello">>
        BY <1>1, <3>4, Zenon
      <4> QED
        BY <4>1, <4>2, Zenon
    <3>5. CASE backlog'[i] # k
      <4>1. i \in 1 .. Len(backlog) /\ backlog'[i] = backlog[i]
        BY <1>3, <3>3, <3>5
      <4> QED
        BY <3>1, <3>2, <3>5, <4>1 DEF Unread
    <3> QED
      BY <3>4, <3>5
  <2>2. \A i, j \in 1 .. Len(backlog') : backlog'[i] = backlog'[j] => i = j
    BY <1>2, <1>3 DEF HellosWait
  <2>3. agentPc' = "greet" => /\ inbox'[cur'] # <<>> /\ Head(inbox'[cur']) = "Hello"
                              /\ server'[cur'] = "accepted"
    BY <1>1, <1>4 DEF HellosWait, Unread
  <2>4. agentPc' \in {"greet", "serve", "script"} =>
          \A i \in 1 .. Len(backlog') : backlog'[i] # cur'
    BY <1>3, <1>4 DEF HellosWait
  <2> QED
    BY <2>1, <2>2, <2>3, <2>4 DEF HellosWait, Unread
<1> QED
  BY <1>1, <1>5

\* A step of `nazg bot spawn`.
LEMMA BotTalks ==
    ASSUME TypeOK, ConnInv, TalkInv, NEW b \in Bots, BotStep(b)
    PROVE  TalkInv'
<1> USE DEF agentVars, sockVars, botVars, botStore, monVars
<1> DEFINE p == <<b, "probe">>
           k == <<b, "exec">>
<1>0. /\ b \in Controllers /\ b \notin Monitors /\ p \in Conns /\ k \in Conns /\ p # k
      /\ p[1] = b /\ k[1] = b
      /\ ProbeTalk(b) /\ BotTalk(b) /\ HellosWait
  BY OwnConns DEF TalkInv
<1>1. ASSUME OwnStep(b), HellosWait', ProbeTalk(b)', BotTalk(b)'
      PROVE  TalkInv'
  <2>1. /\ \A d \in Bots : ProbeTalk(d)' /\ BotTalk(d)'
        /\ \A m \in Monitors : MonitorTalk(m)'
    <3>1. /\ \A d \in Bots : d # b => ProbeTalk(d)' /\ BotTalk(d)'
          /\ \A m \in Monitors : m # b => MonitorTalk(m)'
      BY <1>1, OthersTalkOn
    <3> QED
      BY <1>0, <1>1, <3>1
  <2> QED
    BY <1>1, <2>1, OthersTalkOn DEF TalkInv
<1>2. CASE Probe(b)
  <2>1. CASE ConnectAndHello(p)
    <3>1. client[p] = "none" /\ client[k] = "none"
      BY <1>2 DEF Probe, ConnInv, Fresh
    <3>2. HellosWait' /\ inbox'[p] = <<"Hello">>
      BY <1>0, <1>2, <2>1, <3>1, ConnectWaits DEF Probe
    <3>3. OwnStep(b)
      BY <1>0, <1>2, <2>1 DEF Probe, ConnectAndHello, OwnStep, TypeOK, SocketTypeOK, ControllerTypeOK
    <3>4. ProbeTalk(b)'
      BY <3>2 DEF ProbeTalk, OnlyUnread
    <3>5. BotTalk(b)'
      <4>1. /\ inbox'[k] = inbox[k] /\ outbox'[k] = outbox[k] /\ client'[k] = client[k]
            /\ pc'[b] \in {"probe", "begin"} /\ UNCHANGED <<result, sshRuns, agentRuns>>
        BY <1>0, <1>2, <2>1 DEF Probe, ConnectAndHello, TypeOK, SocketTypeOK, ControllerTypeOK
      <4> QED
        BY <1>0, <4>1 DEF BotTalk, OnlyUnread, Unread
    <3> QED
      BY <1>1, <3>2, <3>3, <3>4, <3>5
  <2>2. CASE UNCHANGED sockVars
    <3>1. HellosWait'
      BY <1>0, <1>2, <2>2, HellosKept DEF Probe
    <3>2. OwnStep(b)
      BY <1>0, <1>2, <2>2 DEF Probe, OwnStep, TypeOK, ControllerTypeOK
    <3>3. ProbeTalk(b)' /\ BotTalk(b)'
      BY <1>0, <1>2, <2>2, BotTalkKept DEF Probe, TypeOK, ControllerTypeOK
    <3> QED
      BY <1>1, <3>1, <3>2, <3>3
  <2> QED
    BY <1>2, <2>1, <2>2 DEF Probe
\* Closing one of its connections.
<1>3. ASSUME \E u : Close(p, u) \/ Close(k, u),
             UNCHANGED <<agentPc, cur, backlog, server, inbox, sshRuns, agentRuns, answered, status>>,
             \A d \in Bots : d # b => result'[d] = result[d],
             \A d \in Controllers : d # b => pc'[d] = pc[d],
             pc'[b] \notin {"hello", "await"},
             result'[b] = "report" /\ sshRuns[b] = 0 => agentRuns[b] = 1
      PROVE  TalkInv'
  <2>1. HellosWait'
    BY <1>0, <1>3, HellosKept
  <2>2. /\ inbox'[p] = inbox[p] /\ inbox'[k] = inbox[k]
        /\ outbox'[k] \in {outbox[k], <<>>}
        /\ client'[k] = "none" => client[k] = "none"
    BY <1>0, <1>3 DEF Close, TypeOK, SocketTypeOK
  <2>3. ProbeTalk(b)' /\ BotTalk(b)'
    BY <1>0, <1>3, <2>2 DEF ProbeTalk, BotTalk, OnlyUnread, Unread
  <2>4. OwnStep(b)
    <3>1. \A i \in Conns : i[1] # b =>
            inbox'[i] = inbox[i] /\ outbox'[i] = outbox[i] /\ client'[i] = client[i]
      BY <1>0, <1>3 DEF Close, TypeOK, SocketTypeOK
    <3> QED
      BY <1>3, <3>1 DEF OwnStep
  <2> QED
    BY <1>1, <2>1, <2>3, <2>4
\* Leaving its connections alone.
<1>4. ASSUME UNCHANGED <<agentPc, cur, sockVars, agentRuns, answered, status>>,
             \A d \in Bots : d # b => result'[d] = result[d] /\ sshRuns'[d] = sshRuns[d],
             \A d \in Controllers : d # b => pc'[d] = pc[d],
             pc'[b] \notin {"hello", "await"},
             result'[b] = "report" /\ sshRuns'[b] = 0 => result[b] = "report" /\ sshRuns[b] = 0
      PROVE  TalkInv'
  <2>1. HellosWait'
    BY <1>0, <1>4, HellosKept
  <2>2. ProbeTalk(b)' /\ BotTalk(b)'
    BY <1>0, <1>4, BotTalkKept
  <2>3. OwnStep(b)
    BY <1>0, <1>4 DEF OwnStep
  <2> QED
    BY <1>1, <2>1, <2>2, <2>3
<1> DEFINE Moves(t) == /\ \A d \in Controllers : d # b => pc'[d] = pc[d]
                       /\ pc'[b] = t
<1>e. ASSUME NEW t, pc' = [pc EXCEPT ![b] = t] PROVE Moves(t)
  BY <1>0, <1>e DEF TypeOK, ControllerTypeOK
<1>5. CASE ProbeAnswered(b)
  <2>1. /\ Close(p, Tail(outbox[p])) /\ Moves("begin")
        /\ UNCHANGED <<agentPc, cur, backlog, server, inbox, result, sshRuns, agentRuns,
                       answered, status>>
    BY <1>e, <1>5 DEF ProbeAnswered
  <2> QED
    BY <1>0, <1>3, <2>1 DEF BotTalk
<1>6. CASE ProbeFails(b)
  <2>1. /\ Close(p, outbox[p]) /\ Moves("begin")
        /\ UNCHANGED <<agentPc, cur, backlog, server, inbox, result, sshRuns, agentRuns,
                       answered, status>>
    BY <1>e, <1>6 DEF ProbeFails
  <2> QED
    BY <1>0, <1>3, <2>1 DEF BotTalk
<1>7. CASE BeginRun(b)
  <2>1. PICK t \in {"connect", "ssh"} : Moves(t)
    BY <1>e, <1>7 DEF BeginRun
  <2> QED
    BY <1>4, <1>7, <2>1 DEF BeginRun
<1>8. CASE ExecConnect(b)
  <2>1. CASE ConnectAndHello(k)
    <3>1. client[k] = "none" /\ agentRuns[b] = 0
      BY <1>0, <1>8 DEF ExecConnect, ConnInv, Fresh, BotTalk
    <3>2. HellosWait' /\ inbox'[k] = <<"Hello">> /\ outbox'[k] = <<>>
      BY <1>0, <1>8, <2>1, <3>1, ConnectWaits DEF ExecConnect
    <3>3. OwnStep(b)
      BY <1>0, <1>8, <2>1 DEF ExecConnect, ConnectAndHello, OwnStep, TypeOK, SocketTypeOK, ControllerTypeOK
    <3>4. /\ inbox'[p] = inbox[p] /\ client'[k] = "open"
          /\ pc'[b] \in {"hello", "ssh"} /\ UNCHANGED <<result, sshRuns, agentRuns>>
      BY <1>0, <1>8, <2>1 DEF ExecConnect, ConnectAndHello, TypeOK, SocketTypeOK, ControllerTypeOK
    <3>5. ProbeTalk(b)'
      BY <1>0, <3>4 DEF ProbeTalk, OnlyUnread
    <3>6. BotTalk(b)'
      <4>1. <<"Hello">> # <<>> /\ Head(<<"Hello">>) = "Hello"
        OBVIOUS
      <4> QED
        BY <1>0, <3>1, <3>2, <3>4, <4>1 DEF BotTalk, OnlyUnread, Unread
    <3> QED
      BY <1>1, <3>2, <3>3, <3>5, <3>6
  <2>2. CASE UNCHANGED sockVars
    <3>1. PICK t \in {"hello", "ssh"} : pc' = [pc EXCEPT ![b] = t]
      BY <1>8 DEF ExecConnect
    <3>2. CASE t = "ssh"
      BY <1>e, <1>4, <1>8, <2>2, <3>1, <3>2 DEF ExecConnect
    <3>3. CASE t = "hello"
      <4>1. ConnectAndHello(k)
        BY <1>0, <1>8, <3>1, <3>3 DEF ExecConnect, TypeOK, ControllerTypeOK
      <4> QED
        BY <2>1, <4>1
    <3> QED
      BY <3>2, <3>3
  <2> QED
    BY <1>8, <2>1, <2>2 DEF ExecConnect
<1>9. CASE ExecAcked(b)
  <2>1. /\ inbox[k] = <<>> /\ outbox[k] # <<>> /\ Tail(outbox[k]) = <<>>
        /\ pc[b] = "hello" /\ client[k] # "none"
    BY <1>0, <1>9, AlmostEmpty DEF ExecAcked, ConnInv, Untouched
  <2>2. CASE Head(outbox[k]) # "HelloAck"
    <3>1. /\ Close(k, Tail(outbox[k])) /\ Moves("ssh")
          /\ UNCHANGED <<agentPc, cur, backlog, server, inbox, result, sshRuns, agentRuns,
                         answered, status>>
      BY <1>e, <1>9, <2>2 DEF ExecAcked
    <3> QED
      BY <1>0, <1>3, <3>1 DEF BotTalk
  <2>3. CASE Head(outbox[k]) = "HelloAck"
    <3>1. /\ outbox' = [outbox EXCEPT ![k] = Tail(@)]
          /\ inbox' = IF server[k] = "closed" THEN inbox
                      ELSE [inbox EXCEPT ![k] = Append(@, "RunCommand")]
          /\ pc' = [pc EXCEPT ![b] = "await"] /\ UNCHANGED client
      BY <1>9, <2>3 DEF ExecAcked
    <3>2. UNCHANGED <<agentPc, cur, backlog, server, result, sshRuns, agentRuns, answered, status>>
      BY <1>9 DEF ExecAcked
    <3>3. /\ \A j \in Conns : j # k => inbox'[j] = inbox[j] /\ outbox'[j] = outbox[j]
          /\ outbox'[k] = <<>> /\ pc'[b] = "await"
          /\ \A d \in Controllers : d # b => pc'[d] = pc[d]
      BY <1>0, <2>1, <3>1 DEF TypeOK, SocketTypeOK, ControllerTypeOK
    <3>4. inbox'[k] = <<>> \/ (inbox'[k] # <<>> /\ Head(inbox'[k]) = "RunCommand")
      BY <1>0, <2>1, <3>1, OnlyMessage DEF TypeOK, SocketTypeOK
    <3>5. HellosWait'
      <4>1. \A j \in Conns : Unread(j, "Hello") => inbox'[j] = inbox[j]
        BY <2>1, <3>3 DEF Unread
      <4> QED
        BY <1>0, <3>2, <4>1, HellosKept
    <3>6. OwnStep(b)
      BY <1>0, <3>1, <3>2, <3>3 DEF OwnStep
    <3>7. ProbeTalk(b)'
      BY <1>0, <3>3 DEF ProbeTalk, OnlyUnread
    <3>8. BotTalk(b)'
      BY <1>0, <2>1, <3>1, <3>2, <3>3, <3>4 DEF BotTalk, OnlyUnread, Unread
    <3> QED
      BY <1>1, <3>5, <3>6, <3>7, <3>8
  <2> QED
    BY <2>2, <2>3
<1>10. CASE ExecResult(b)
  <2>1. /\ Close(k, Tail(outbox[k])) /\ Moves("finish")
        /\ UNCHANGED <<agentPc, cur, backlog, server, inbox, sshRuns, agentRuns,
                       answered, status>>
        /\ \A d \in Bots : d # b => result'[d] = result[d]
    BY <1>e, <1>10 DEF ExecResult, TypeOK, ControllerTypeOK
  <2>2. agentRuns[b] = 1
    BY <1>0, <1>10 DEF ExecResult, BotTalk
  <2> QED
    BY <1>3, <2>1, <2>2
<1>11. CASE ExecFails(b)
  <2>1. /\ Close(k, outbox[k]) /\ Moves("ssh")
        /\ UNCHANGED <<agentPc, cur, backlog, server, inbox, result, sshRuns, agentRuns,
                       answered, status>>
    BY <1>e, <1>11 DEF ExecFails
  <2> QED
    BY <1>0, <1>3, <2>1 DEF BotTalk
<1>12. CASE RunOverSsh(b)
  <2>1. /\ Moves("finish")
        /\ UNCHANGED <<agentPc, cur, sockVars, agentRuns, answered, status>>
        /\ \A d \in Bots : d # b => result'[d] = result[d] /\ sshRuns'[d] = sshRuns[d]
    BY <1>e, <1>12 DEF RunOverSsh, TypeOK, ControllerTypeOK
  <2>2. result'[b] = "report" => sshRuns'[b] # 0
    BY <1>12 DEF RunOverSsh, TypeOK, ControllerTypeOK
  <2> QED
    BY <1>4, <2>1, <2>2
<1>13. CASE FinishRun(b)
  BY <1>e, <1>4, <1>13 DEF FinishRun
<1>14. CASE SaveReport(b)
  <2>1. PICK t \in {"begin", "done"} : Moves(t)
    BY <1>e, <1>14 DEF SaveReport
  <2>2. \A d \in Bots : result'[d] = result[d] \/ (d = b /\ result'[d] = "none")
    BY <1>14 DEF SaveReport, Forget
  <2>3. UNCHANGED <<agentPc, cur, sockVars, agentRuns, answered, status, sshRuns>>
    BY <1>14 DEF SaveReport
  <2> QED
    BY <1>4, <2>1, <2>2, <2>3
<1> QED
  BY <1>2, <1>5, <1>6, <1>7, <1>8, <1>9, <1>10, <1>11, <1>12, <1>13, <1>14 DEF BotStep

\* A step of the monitoring client.
LEMMA MonitorTalks ==
    ASSUME TypeOK, ConnInv, TalkInv, NEW m \in Monitors, MonitorStep(m)
    PROVE  TalkInv'
<1> USE DEF agentVars, sockVars, botVars, monVars
<1> DEFINE k == <<m, "request">>
<1>0. /\ m \in Controllers /\ m \notin Bots /\ k \in Conns /\ k[1] = m
      /\ MonitorTalk(m) /\ HellosWait
  BY OwnConns DEF TalkInv
<1>1. ASSUME OwnStep(m), HellosWait', MonitorTalk(m)'
      PROVE  TalkInv'
  <2>1. /\ \A b \in Bots : b # m => ProbeTalk(b)' /\ BotTalk(b)'
        /\ \A n \in Monitors : n # m => MonitorTalk(n)'
        /\ ScriptIsABots'
    BY <1>1, OthersTalkOn
  <2> QED
    BY <1>0, <1>1, <2>1 DEF TalkInv
<1>2. ASSUME MonitorFails(m)
      PROVE  /\ \A d \in Controllers : d # m => pc'[d] = pc[d]
             /\ pc'[m] = "done" /\ (status'[m] = "online" => status[m] = "online")
             /\ \A n \in Monitors : n # m => status'[n] = status[n]
  BY <1>0, <1>2 DEF MonitorFails, Written, TypeOK, ControllerTypeOK
\* Giving up, with its connection closed.
<1>3. ASSUME \E u : Close(k, u), MonitorFails(m), pc[m] # "done",
             UNCHANGED <<agentPc, cur, backlog, server, inbox, result, sshRuns,
                         agentRuns, answered>>
      PROVE  TalkInv'
  <2>1. HellosWait'
    BY <1>0, <1>3, HellosKept
  <2>2. status'[m] # "online"
    BY <1>0, <1>2, <1>3 DEF MonitorTalk
  <2>3. MonitorTalk(m)'
    BY <1>0, <1>2, <1>3, <2>2 DEF MonitorTalk, OnlyUnread, Unread
  <2>4. OwnStep(m)
    <3>1. \A i \in Conns : i[1] # m =>
            inbox'[i] = inbox[i] /\ outbox'[i] = outbox[i] /\ client'[i] = client[i]
      BY <1>0, <1>3 DEF Close, TypeOK, SocketTypeOK
    <3> QED
      BY <1>2, <1>3, <3>1 DEF OwnStep
  <2> QED
    BY <1>1, <2>1, <2>3, <2>4
<1>4. CASE MonitorConnect(m)
  <2>0. /\ pc[m] = "start" /\ client[k] = "none" /\ status[m] # "online"
        /\ UNCHANGED <<agentPc, cur, result, sshRuns, agentRuns, answered>>
    BY <1>0, <1>4 DEF MonitorConnect, ConnInv, Fresh, MonitorTalk
  <2>1. CASE ConnectAndHello(k) /\ pc' = [pc EXCEPT ![m] = "hello"] /\ UNCHANGED status
    <3>1. HellosWait' /\ inbox'[k] = <<"Hello">> /\ outbox'[k] = <<>>
      BY <1>0, <2>0, <2>1, ConnectWaits
    <3>2. OwnStep(m) /\ pc'[m] = "hello"
      BY <1>0, <2>0, <2>1 DEF ConnectAndHello, OwnStep, TypeOK, SocketTypeOK, ControllerTypeOK
    <3>3. MonitorTalk(m)'
      <4>1. <<"Hello">> # <<>> /\ Head(<<"Hello">>) = "Hello"
        OBVIOUS
      <4> QED
        BY <2>0, <2>1, <3>1, <3>2, <4>1 DEF MonitorTalk, OnlyUnread, Unread
    <3> QED
      BY <1>1, <3>1, <3>2, <3>3
  <2>2. CASE MonitorFails(m) /\ UNCHANGED sockVars
    <3>1. HellosWait'
      BY <1>0, <2>0, <2>2, HellosKept
    <3>2. OwnStep(m)
      BY <1>2, <2>0, <2>2 DEF OwnStep
    <3>3. MonitorTalk(m)'
      BY <1>0, <1>2, <2>0, <2>2 DEF MonitorTalk, OnlyUnread, Unread
    <3> QED
      BY <1>1, <3>1, <3>2, <3>3
  <2> QED
    BY <1>4, <2>1, <2>2 DEF MonitorConnect
<1>5. CASE MonitorAcked(m)
  <2>1. /\ inbox[k] = <<>> /\ outbox[k] # <<>> /\ Tail(outbox[k]) = <<>> /\ pc[m] = "hello"
        /\ UNCHANGED <<agentPc, cur, backlog, server, result, sshRuns, agentRuns, answered>>
    BY <1>0, <1>5, AlmostEmpty DEF MonitorAcked
  <2>2. CASE Close(k, Tail(outbox[k])) /\ MonitorFails(m) /\ UNCHANGED inbox
    BY <1>3, <2>1, <2>2
  <2>3. CASE /\ outbox' = [outbox EXCEPT ![k] = Tail(@)]
             /\ \E req \in {"DockerFullScan", "Register"} :
                   inbox' = IF server[k] = "closed" THEN inbox
                            ELSE [inbox EXCEPT ![k] = Append(@, req)]
             /\ pc' = [pc EXCEPT ![m] = "await"]
             /\ UNCHANGED <<client, lostSends, status>>
    <3>1. PICK req \in {"DockerFullScan", "Register"} :
            inbox' = IF server[k] = "closed" THEN inbox
                     ELSE [inbox EXCEPT ![k] = Append(@, req)]
      BY <2>3
    <3>2. /\ \A j \in Conns : j # k => inbox'[j] = inbox[j] /\ outbox'[j] = outbox[j]
          /\ outbox'[k] = <<>> /\ pc'[m] = "await"
          /\ \A d \in Controllers : d # m => pc'[d] = pc[d]
      BY <1>0, <2>1, <2>3, <3>1 DEF TypeOK, SocketTypeOK, ControllerTypeOK
    <3>3. inbox'[k] = <<>> \/ (inbox'[k] # <<>> /\ Head(inbox'[k]) = req)
      BY <1>0, <2>1, <3>1, OnlyMessage DEF TypeOK, SocketTypeOK
    <3>4. HellosWait'
      <4>1. \A j \in Conns : Unread(j, "Hello") => inbox'[j] = inbox[j]
        BY <2>1, <3>2 DEF Unread
      <4> QED
        BY <1>0, <2>1, <4>1, HellosKept
    <3>5. OwnStep(m)
      BY <1>0, <2>1, <2>3, <3>2 DEF OwnStep
    <3>6. MonitorTalk(m)'
      BY <1>0, <2>1, <2>3, <3>2, <3>3 DEF MonitorTalk, OnlyUnread, Unread
    <3> QED
      BY <1>1, <3>4, <3>5, <3>6
  <2> QED
    BY <1>5, <2>2, <2>3 DEF MonitorAcked
<1>6. CASE MonitorReply(m)
  <2>1. /\ pc[m] = "await" /\ outbox[k] # <<>> /\ Close(k, Tail(outbox[k])) /\ inbox[k] = <<>>
        /\ UNCHANGED <<agentPc, cur, backlog, server, inbox, result, sshRuns, agentRuns, answered>>
    BY <1>0, <1>6, AlmostEmpty DEF MonitorReply
  <2>2. CASE MonitorFails(m)
    BY <1>3, <2>1, <2>2
  <2>3. CASE /\ Head(outbox[k]) # "Error"
             /\ status' \in Written(status, [status EXCEPT ![m] = "online"])
             /\ pc' = [pc EXCEPT ![m] = "done"]
    <3>1. HellosWait'
      BY <1>0, <2>1, HellosKept
    <3>2. answered[m] /\ pc'[m] = "done"
      BY <1>0, <2>1, <2>3 DEF MonitorTalk, TypeOK, ControllerTypeOK
    <3>3. MonitorTalk(m)'
      BY <1>0, <2>1, <3>2 DEF MonitorTalk, OnlyUnread, Unread
    <3>4. OwnStep(m)
      BY <1>0, <2>1, <2>3 DEF OwnStep, Close, Written, TypeOK, SocketTypeOK, ControllerTypeOK
    <3> QED
      BY <1>1, <3>1, <3>3, <3>4
  <2> QED
    BY <1>6, <2>2, <2>3 DEF MonitorReply
<1>7. CASE MonitorTimeout(m)
  BY <1>3, <1>7 DEF MonitorTimeout
<1> QED
  BY <1>4, <1>5, <1>6, <1>7 DEF MonitorStep

\* The loss of a controller.
LEMMA LossTalks ==
    ASSUME TypeOK, ConnInv, TalkInv, NEW c \in Controllers, LoseController(c)
    PROVE  TalkInv'
<1> USE DEF agentVars, sockVars, botVars, monVars
<1>1. /\ \A k \in Conns : outbox'[k] \in {outbox[k], <<>>}
      /\ \A k \in Conns : client'[k] = "none" => client[k] = "none"
      /\ \A d \in Controllers : pc'[d] = pc[d] \/ (d = c /\ pc'[d] = "lost")
      /\ \A b \in Bots : result'[b] \in {result[b], "none"}
      /\ UNCHANGED <<agentPc, cur, backlog, server, inbox, sshRuns, agentRuns, status, answered>>
  BY AgentLinkConstants DEF LoseController, Forget, OpenConns, TypeOK, ControllerTypeOK
<1>2. HellosWait'
  BY <1>1, HellosKept DEF TalkInv
<1>3. ASSUME NEW b \in Bots PROVE ProbeTalk(b)' /\ BotTalk(b)'
  BY <1>1, BotTalkKept, OwnConns DEF TalkInv
<1>4. ASSUME NEW m \in Monitors PROVE MonitorTalk(m)'
  <2>1. pc[c] # "done"
    BY DEF LoseController
  <2> QED
    BY <1>1, <2>1, MonitorTalkKept, OwnConns DEF TalkInv, MonitorTalk
<1>5. ScriptIsABots'
  BY <1>1 DEF TalkInv, ScriptIsABots
<1> QED
  BY <1>2, <1>3, <1>4, <1>5 DEF TalkInv

\* The conversations hold together for any number of controllers, whatever is
\* lost, killed, restarted or late.
THEOREM TalkIsHonest == Spec => []TalkInv
<1>1. Init => TalkInv
  <2> SUFFICES ASSUME Init PROVE TalkInv
    OBVIOUS
  <2>1. HellosWait /\ ScriptIsABots
    BY DEF Init, AgentInit, HellosWait, ScriptIsABots
  <2>2. ASSUME NEW b \in Bots PROVE ProbeTalk(b) /\ BotTalk(b)
    BY OwnConns DEF Init, ProbeTalk, BotTalk, OnlyUnread, Unread
  <2>3. ASSUME NEW m \in Monitors PROVE MonitorTalk(m)
    BY OwnConns DEF Init, MonitorTalk, OnlyUnread, Unread
  <2> QED
    BY <2>1, <2>2, <2>3 DEF TalkInv
<1>2. TypeOK /\ ConnInv /\ TalkInv /\ [Next]_vars => TalkInv'
  <2> SUFFICES ASSUME TypeOK, ConnInv, TalkInv, [Next]_vars
               PROVE  TalkInv'
    OBVIOUS
  <2>1. CASE UNCHANGED vars
    BY <2>1 DEF vars, agentVars, sockVars, botVars, monVars, TalkInv, HellosWait,
       ScriptIsABots, ProbeTalk, BotTalk, MonitorTalk, OnlyUnread, Unread
  <2> QED
    BY <2>1, AgentTalks, BotTalks, MonitorTalks, LossTalks DEF Next, Idle
<1> QED
  BY <1>1, <1>2, TypeCorrect, LockStep, PTL DEF Spec

\* `scan_server` and `register_agent` mark a server online only for an answer to
\* the request itself.
THEOREM OnlineIsAnswered == Spec => []OnlineMeansAnswered
<1>1. TalkInv => OnlineMeansAnswered
  BY DEF TalkInv, MonitorTalk, OnlineMeansAnswered
<1> QED
  BY <1>1, TalkIsHonest, PTL

\* The executions of a bot's script.  Whoever has one to show is past the choice
\* of transport, and comes back to it only if ssh denied the run.
RunsOnce(b) ==
    /\ sshRuns[b] <= 1
    /\ taken[b] => agentRuns[b] = 1 /\ sshRuns[b] = 0
    /\ taken[b] \/ sshRuns[b] # 0 =>
          /\ pc[b] \in {"finish", "report", "done", "lost"}
          /\ pc[b] \in {"finish", "report"} => result[b] # "denied"

RunsInv == \A b \in Bots : RunsOnce(b)

\* A step that leaves alone what a bot ran and what came of it.
LEMMA RunsKept ==
    ASSUME NEW b \in Bots, RunsOnce(b),
           sshRuns'[b] = sshRuns[b], taken'[b] = taken[b],
           taken[b] => agentRuns'[b] = agentRuns[b],
           \/ pc[b] \notin {"finish", "report", "done", "lost"}
           \/ pc'[b] \in {"done", "lost"}
           \/ /\ pc'[b] = pc[b] \/ (pc[b] = "finish" /\ pc'[b] = "report")
              /\ result'[b] = result[b]
    PROVE  RunsOnce(b)'
  BY DEF RunsOnce

\* The agent starts a script that nobody has an answer to yet.
LEMMA AgentStartsOnce ==
    ASSUME TypeOK, ConnInv, TalkInv, RunsInv,
           \/ AgentThread \/ ScannerStep \/ Shutdown
           \/ JoinAccept \/ JoinScanner \/ AgentKilled \/ AgentStarted
    PROVE  RunsInv'
<1> USE DEF botVars
<1>1. UNCHANGED <<pc, result, sshRuns, taken>>
  BY DEF AgentThread, AcceptClient, AcceptFails, Greet, PeerClosed, StartScript, FinishScript,
         AnswerRequest, ScannerStep, Shutdown, JoinAccept, JoinScanner, AgentKilled, AgentStarted
<1>2. ASSUME NEW b \in Bots, taken[b] PROVE agentRuns'[b] = agentRuns[b]
  <2>1. agentRuns[b] = 1
    BY <1>2 DEF RunsInv, RunsOnce
  <2>2. CASE StartScript
    <3>1. cur \in Conns /\ Unread(cur, "RunCommand")
      BY <2>2 DEF StartScript, ConnInv, Serving, Unread
    <3>2. PICK d \in Bots : cur = <<d, "exec">>
      BY <3>1 DEF Conns, TalkInv, ProbeTalk, MonitorTalk, OnlyUnread, Unread
    <3>3. agentRuns[d] = 0 /\ agentRuns' = [agentRuns EXCEPT ![d] = @ + 1]
      BY <2>2, <3>1, <3>2 DEF StartScript, TalkInv, BotTalk
    <3> QED
      BY <2>1, <3>3 DEF TypeOK, ControllerTypeOK
  <2>3. CASE ~StartScript
    BY <2>3 DEF AgentThread, AcceptClient, AcceptFails, Greet, PeerClosed, FinishScript,
         AnswerRequest, ScannerStep, Shutdown, JoinAccept, JoinScanner, AgentKilled, AgentStarted
  <2> QED
    BY <2>2, <2>3
<1> QED
  BY <1>1, <1>2, RunsKept DEF RunsInv

\* A bot starts a script over SSH only when it has no execution to show.
LEMMA BotRunsOnce ==
    ASSUME TypeOK, ConnInv, TalkInv, RunsInv, NEW b \in Bots, BotStep(b)
    PROVE  RunsInv'
<1> USE DEF botVars, botStore
<1>1. /\ \A d \in Bots : d # b =>
            /\ pc'[d] = pc[d] /\ result'[d] = result[d]
            /\ sshRuns'[d] = sshRuns[d] /\ taken'[d] = taken[d]
      /\ UNCHANGED agentRuns
  <2>1. PICK t : pc' = [pc EXCEPT ![b] = t]
    BY DEF BotStep, Probe, ProbeAnswered, ProbeFails, BeginRun, ExecConnect, ExecAcked,
           ExecResult, ExecFails, RunOverSsh, FinishRun, SaveReport
  <2>2. \A d \in Bots : d # b => pc'[d] = pc[d]
    BY <2>1, OwnConns DEF TypeOK, ControllerTypeOK
  <2>3. \A d \in Bots : d # b => result'[d] = result[d]
    BY DEF BotStep, Probe, ProbeAnswered, ProbeFails, BeginRun, ExecConnect, ExecAcked,
           ExecResult, ExecFails, RunOverSsh, FinishRun, SaveReport, Forget,
           TypeOK, ControllerTypeOK
  <2>4. \A d \in Bots : d # b => sshRuns'[d] = sshRuns[d] /\ taken'[d] = taken[d]
    BY DEF BotStep, Probe, ProbeAnswered, ProbeFails, BeginRun, ExecConnect, ExecAcked,
           ExecResult, ExecFails, RunOverSsh, FinishRun, SaveReport,
           TypeOK, ControllerTypeOK
  <2>5. UNCHANGED agentRuns
    BY DEF BotStep, Probe, ProbeAnswered, ProbeFails, BeginRun, ExecConnect, ExecAcked,
           ExecResult, ExecFails, RunOverSsh, FinishRun, SaveReport
  <2> QED
    BY <2>2, <2>3, <2>4, <2>5
<1>2. SUFFICES RunsOnce(b)'
  BY <1>1, RunsKept DEF RunsInv
<1>3. RunsOnce(b) /\ b \in Controllers
  BY OwnConns DEF RunsInv
<1>4. CASE \/ Probe(b) \/ ProbeAnswered(b) \/ ProbeFails(b) \/ BeginRun(b)
           \/ ExecConnect(b) \/ ExecAcked(b) \/ ExecFails(b)
  <2>1. pc[b] \notin {"finish", "report", "done", "lost"} /\ UNCHANGED <<sshRuns, taken>>
    BY <1>4 DEF Probe, ProbeAnswered, ProbeFails, BeginRun, ExecConnect, ExecAcked, ExecFails
  <2> QED
    BY <1>1, <1>3, <2>1, RunsKept
\* The agent's answer: the script ran there, and nowhere else.
<1>5. CASE ExecResult(b)
  <2>1. /\ pc[b] = "await" /\ outbox[<<b, "exec">>] # <<>>
        /\ pc'[b] = "finish" /\ result'[b] \in {"report", "error"}
        /\ UNCHANGED sshRuns
    BY <1>3, <1>5 DEF ExecResult, TypeOK, ControllerTypeOK
  <2>2. agentRuns[b] = 1 /\ sshRuns[b] = 0
    BY <1>3, <2>1 DEF TalkInv, BotTalk, RunsOnce, TypeOK, ControllerTypeOK
  <2> QED
    BY <1>1, <2>1, <2>2 DEF RunsOnce
\* SSH runs it for a bot that has nothing yet.
<1>6. CASE RunOverSsh(b)
  <2>1. /\ pc[b] = "ssh" /\ pc'[b] = "finish" /\ UNCHANGED taken
        /\ \/ result'[b] \in {"report", "error"} /\ sshRuns'[b] = sshRuns[b] + 1
           \/ sshRuns'[b] = sshRuns[b]
    BY <1>3, <1>6 DEF RunOverSsh, TypeOK, ControllerTypeOK
  <2>2. sshRuns[b] = 0 /\ ~taken[b]
    BY <1>3, <2>1 DEF RunsOnce
  <2> QED
    BY <2>1, <2>2 DEF RunsOnce
<1>7. CASE FinishRun(b)
  <2>1. /\ pc[b] = "finish" /\ pc'[b] = "report" /\ UNCHANGED <<result, sshRuns, taken>>
    BY <1>3, <1>7 DEF FinishRun, TypeOK, ControllerTypeOK
  <2> QED
    BY <1>1, <1>3, <2>1, RunsKept
\* Only a denied attempt is repeated, and that one ran nowhere.
<1>8. CASE SaveReport(b)
  <2>1. /\ pc[b] = "report" /\ UNCHANGED <<sshRuns, taken>>
        /\ pc'[b] = "done" \/ result[b] = "denied"
    BY <1>3, <1>8 DEF SaveReport, TypeOK, ControllerTypeOK
  <2>2. CASE pc'[b] = "done"
    BY <1>1, <1>3, <2>1, <2>2, RunsKept
  <2>3. CASE result[b] = "denied"
    BY <1>3, <2>1, <2>3 DEF RunsOnce
  <2> QED
    BY <2>1, <2>2, <2>3
<1> QED
  BY <1>4, <1>5, <1>6, <1>7, <1>8 DEF BotStep

\* A monitor does not touch the bots, and a controller that is lost runs no more.
LEMMA NobodyElseRuns ==
    ASSUME TypeOK, RunsInv,
           \/ \E m \in Monitors : MonitorStep(m)
           \/ \E c \in Controllers : LoseController(c)
    PROVE  RunsInv'
<1> USE DEF botVars
<1>1. CASE \E m \in Monitors : MonitorStep(m)
  <2>1. PICK m \in Monitors : MonitorStep(m)
    BY <1>1
  <2>2. PICK t : pc' = [pc EXCEPT ![m] = t]
    BY <2>1 DEF MonitorStep, MonitorConnect, MonitorAcked, MonitorReply, MonitorTimeout,
                MonitorFails
  <2>3. \A b \in Bots : pc'[b] = pc[b]
    BY <2>2, OwnConns DEF TypeOK, ControllerTypeOK
  <2>4. UNCHANGED <<result, sshRuns, taken, agentRuns>>
    BY <2>1 DEF MonitorStep, MonitorConnect, MonitorAcked, MonitorReply, MonitorTimeout
  <2> QED
    BY <2>3, <2>4, RunsKept DEF RunsInv
<1>2. CASE \E c \in Controllers : LoseController(c)
  <2>1. PICK c \in Controllers : LoseController(c)
    BY <1>2
  <2>2. \A b \in Bots : (b # c /\ pc'[b] = pc[b] /\ result'[b] = result[b])
                       \/ pc'[b] = "lost"
    BY <2>1, OwnConns DEF LoseController, Forget, TypeOK, ControllerTypeOK
  <2>3. UNCHANGED <<sshRuns, taken, agentRuns>>
    BY <2>1 DEF LoseController
  <2> QED
    BY <2>2, <2>3, RunsKept DEF RunsInv
<1> QED
  BY <1>1, <1>2

\* A health check runs its script at most once over each transport, and one that
\* took the agent's answer ran it exactly once and never over SSH, whoever
\* times out, retries, is killed or restarted.
THEOREM AgentRunsOnce == Spec => []AgentResultMeansOneRun
<1>1. Init => RunsInv
  <2>1. ASSUME Init, NEW b \in Bots PROVE sshRuns[b] = 0 /\ ~taken[b]
    BY <2>1, Zenon DEF Init
  <2>2. ASSUME Init, NEW b \in Bots PROVE RunsOnce(b)
    BY <2>1, <2>2 DEF RunsOnce
  <2> QED
    BY <2>2, Zenon DEF RunsInv
<1>2. TypeOK /\ ConnInv /\ TalkInv /\ RunsInv /\ [Next]_vars => RunsInv'
  <2> SUFFICES ASSUME TypeOK, ConnInv, TalkInv, RunsInv, [Next]_vars
               PROVE  RunsInv'
    OBVIOUS
  <2>1. CASE UNCHANGED vars
    BY <2>1 DEF vars, botVars, RunsInv, RunsOnce
  <2> QED
    BY <2>1, AgentStartsOnce, BotRunsOnce, NobodyElseRuns DEF Next, Idle
<1>3. TalkInv /\ RunsInv => AgentResultMeansOneRun
  BY DEF TalkInv, BotTalk, RunsInv, RunsOnce, AgentResultMeansOneRun
<1> QED
  BY <1>1, <1>2, <1>3, TypeCorrect, LockStep, TalkIsHonest, PTL DEF Spec

-----------------------------------------------------------------------------
(***************************************************************************)
(* The books of a bot.                                                      *)
(***************************************************************************)

Trying == {"start", "probe", "begin", "connect", "hello", "await", "ssh", "finish"}

\* The rows of a bot: while it is at an attempt no row is "ok", and the row of
\* the attempt, if it has one, is the last; only a report can make it "ok".
RowsOfAttempts(b) ==
    /\ run[b] \in 0 .. Len(rows[b])
    /\ \A i \in 1 .. Len(rows[b]) : rows[b][i] = "ok" =>
          /\ i = Len(rows[b]) /\ pc[b] \notin Trying
          /\ pc[b] = "report" => result[b] = "report"
    /\ pc[b] \in {"connect", "hello", "await", "ssh", "finish", "report"} =>
          run[b] \in {0, Len(rows[b])}
    /\ pc[b] \in {"connect", "hello", "await", "ssh", "finish"} /\ run[b] # 0 =>
          rows[b][run[b]] = "running"
    /\ pc[b] = "report" /\ result[b] = "report" /\ run[b] # 0 => rows[b][run[b]] # "error"

\* A report belongs to a bot that is through with its attempts.
ReportsOfTheDone ==
    \A r \in reports :
        /\ r[1] \in Bots /\ r[2] \in 1 .. Len(rows[r[1]])
        /\ rows[r[1]][r[2]] # "error"
        /\ agentRuns[r[1]] + sshRuns[r[1]] >= 1
        /\ pc[r[1]] = "done"

BooksInv == (\A b \in Bots : RowsOfAttempts(b)) /\ ReportsOfTheDone

\* Reports stay what they are when the bots that are done stay as they are.
LEMMA ReportsKept ==
    ASSUME ReportsOfTheDone, reports' = reports,
           \A b \in Bots : pc[b] = "done" =>
              /\ pc'[b] = "done" /\ rows'[b] = rows[b]
              /\ agentRuns[b] + sshRuns[b] >= 1 => agentRuns'[b] + sshRuns'[b] >= 1
    PROVE  ReportsOfTheDone'
  BY DEF ReportsOfTheDone

\* Whoever is no bot leaves the books alone.
LEMMA BooksKept ==
    ASSUME BooksInv, UNCHANGED <<rows, run, result, reports, sshRuns>>,
           \A b \in Bots : pc'[b] = pc[b],
           \A b \in Bots : agentRuns[b] + sshRuns[b] >= 1 => agentRuns'[b] + sshRuns[b] >= 1
    PROVE  BooksInv'
<1>1. ReportsOfTheDone'
  BY ReportsKept DEF BooksInv
<1>2. ASSUME NEW b \in Bots PROVE RowsOfAttempts(b)'
  BY DEF BooksInv, RowsOfAttempts
<1> QED
  BY <1>1, <1>2 DEF BooksInv

\* The agent only adds to the scripts it started.
LEMMA AgentKeepsBooks ==
    ASSUME TypeOK, BooksInv,
           \/ AgentThread \/ ScannerStep \/ Shutdown
           \/ JoinAccept \/ JoinScanner \/ AgentKilled \/ AgentStarted
    PROVE  BooksInv'
<1>1. UNCHANGED <<rows, run, result, reports, sshRuns, pc>>
  BY DEF botVars, AgentThread, AcceptClient, AcceptFails, Greet, PeerClosed, StartScript,
         FinishScript, AnswerRequest, ScannerStep, Shutdown, JoinAccept, JoinScanner,
         AgentKilled, AgentStarted
<1>2. ASSUME NEW b \in Bots
      PROVE  agentRuns'[b] \in {agentRuns[b], agentRuns[b] + 1}
  BY DEF AgentThread, AcceptClient, AcceptFails, Greet, PeerClosed, StartScript,
         FinishScript, AnswerRequest, ScannerStep, Shutdown, JoinAccept, JoinScanner,
         AgentKilled, AgentStarted, TypeOK, ControllerTypeOK
<1>3. ASSUME NEW b \in Bots, agentRuns[b] + sshRuns[b] >= 1
      PROVE  agentRuns'[b] + sshRuns[b] >= 1
  <2>1. agentRuns[b] \in Nat /\ sshRuns[b] \in Nat
    BY DEF TypeOK, ControllerTypeOK
  <2> QED
    BY <1>2, <1>3, <2>1
<1> QED
  BY <1>1, <1>3, BooksKept

\* A bot keeps its own books, and nobody else's.
LEMMA BotKeepsBooks ==
    ASSUME TypeOK, TalkInv, BooksInv, NEW b \in Bots, BotStep(b)
    PROVE  BooksInv'
<1> USE DEF botVars, botStore
<1>0. b \in Controllers /\ RowsOfAttempts(b) /\ ReportsOfTheDone
      /\ rows[b] \in Seq({"running", "ok", "error"}) /\ Len(rows[b]) \in Nat
  BY OwnConns, QueueFacts DEF BooksInv, TypeOK, ControllerTypeOK
<1> DEFINE Own == /\ \A d \in Bots : d # b =>
                        /\ pc'[d] = pc[d] /\ rows'[d] = rows[d] /\ run'[d] = run[d]
                        /\ result'[d] = result[d]
                  /\ UNCHANGED agentRuns
<1>1. ASSUME Own, ReportsOfTheDone', RowsOfAttempts(b)'
      PROVE  BooksInv'
  <2>1. ASSUME NEW d \in Bots, d # b PROVE RowsOfAttempts(d)'
    BY <1>1, <2>1 DEF BooksInv, RowsOfAttempts
  <2> QED
    BY <1>1, <2>1 DEF BooksInv
<1>2. ASSUME Own, UNCHANGED <<reports, sshRuns>>, pc[b] # "done", RowsOfAttempts(b)'
      PROVE  BooksInv'
  <2>1. ReportsOfTheDone'
    BY <1>0, <1>2, ReportsKept
  <2> QED
    BY <1>1, <1>2, <2>1
\* Steps between the row's insertion and its last update, or before both.
<1>3. ASSUME Own, UNCHANGED <<reports, sshRuns>>, pc[b] # "done",
             rows'[b] = rows[b], run'[b] = run[b],
             \/ pc'[b] \in {"probe", "begin"} /\ pc[b] \in {"start", "probe"}
             \/ pc'[b] \in {"hello", "await", "ssh", "finish"} /\ pc[b] \in {"connect", "hello", "await", "ssh"}
      PROVE  BooksInv'
  <2>1. RowsOfAttempts(b)'
    BY <1>0, <1>3 DEF RowsOfAttempts, Trying
  <2> QED
    BY <1>2, <1>3, <2>1
<1>e. ASSUME NEW t, pc' = [pc EXCEPT ![b] = t]
      PROVE  pc'[b] = t /\ \A d \in Bots : d # b => pc'[d] = pc[d]
  BY <1>0, <1>e, OwnConns DEF TypeOK, ControllerTypeOK, Controllers
<1>4. CASE Probe(b) \/ ProbeAnswered(b) \/ ProbeFails(b)
  <2>1. /\ Own /\ UNCHANGED <<reports, sshRuns, rows, run>>
        /\ pc'[b] \in {"probe", "begin"} /\ pc[b] \in {"start", "probe"}
    <3>1. PICK t \in {"probe", "begin"} : pc' = [pc EXCEPT ![b] = t]
      BY <1>4 DEF Probe, ProbeAnswered, ProbeFails
    <3>2. UNCHANGED <<reports, sshRuns, rows, run, result, agentRuns>> /\ pc[b] \in {"start", "probe"}
      BY <1>4 DEF Probe, ProbeAnswered, ProbeFails
    <3> QED
      BY <1>0, <3>1, <3>2, <1>e
  <2> QED
    BY <1>3, <2>1
<1>5. CASE ExecConnect(b) \/ ExecAcked(b) \/ ExecFails(b)
  <2>1. /\ Own /\ UNCHANGED <<reports, sshRuns, rows, run>>
        /\ pc'[b] \in {"hello", "await", "ssh"} /\ pc[b] \in {"connect", "hello", "await"}
    <3>1. PICK t \in {"hello", "await", "ssh"} : pc' = [pc EXCEPT ![b] = t]
      BY <1>5 DEF ExecConnect, ExecAcked, ExecFails
    <3>2. /\ UNCHANGED <<reports, sshRuns, rows, run, result, agentRuns>>
          /\ pc[b] \in {"connect", "hello", "await"}
      BY <1>5 DEF ExecConnect, ExecAcked, ExecFails
    <3> QED
      BY <1>0, <3>1, <3>2, <1>e
  <2> QED
    BY <1>3, <2>1
<1>6. CASE ExecResult(b)
  <2>1. /\ Own /\ UNCHANGED <<reports, sshRuns, rows, run>>
        /\ pc'[b] = "finish" /\ pc[b] = "await"
    BY <1>0, <1>6 DEF ExecResult, TypeOK, ControllerTypeOK
  <2> QED
    BY <1>3, <2>1
<1>7. CASE RunOverSsh(b)
  <2>1. /\ Own /\ UNCHANGED <<reports, rows, run>>
        /\ pc'[b] = "finish" /\ pc[b] = "ssh"
        /\ \A d \in Bots : d # b => sshRuns'[d] = sshRuns[d]
    BY <1>0, <1>7 DEF RunOverSsh, TypeOK, ControllerTypeOK
  <2>2. RowsOfAttempts(b)'
    BY <1>0, <2>1 DEF RowsOfAttempts, Trying
  <2>3. ReportsOfTheDone'
    BY <1>0, <2>1, ReportsKept
  <2> QED
    BY <1>1, <2>1, <2>2, <2>3
<1>8. CASE BeginRun(b)
  <2>1. /\ Own /\ UNCHANGED <<reports, sshRuns, result>>
        /\ pc'[b] \in {"connect", "ssh"} /\ pc[b] = "begin"
    BY <1>0, <1>8 DEF BeginRun, TypeOK, ControllerTypeOK
  <2>2. \A i \in 1 .. Len(rows[b]) : rows[b][i] # "ok"
    BY <1>0, <2>1 DEF RowsOfAttempts, Trying
  <2>3. CASE UNCHANGED rows /\ run' = [run EXCEPT ![b] = 0]
    <3>1. rows'[b] = rows[b] /\ run'[b] = 0
      BY <2>3 DEF TypeOK, ControllerTypeOK
    <3>2. RowsOfAttempts(b)'
      BY <1>0, <2>1, <2>2, <3>1 DEF RowsOfAttempts
    <3> QED
      BY <1>2, <2>1, <3>2
  <2>4. CASE /\ rows' = [rows EXCEPT ![b] = Append(@, "running")]
             /\ run' = [run EXCEPT ![b] = Len(rows[b]) + 1]
    <3>1. rows'[b] = Append(rows[b], "running") /\ run'[b] = Len(rows[b]) + 1
      BY <2>4 DEF TypeOK, ControllerTypeOK
    <3>2. /\ Len(Append(rows[b], "running")) = Len(rows[b]) + 1
          /\ Append(rows[b], "running")[Len(rows[b]) + 1] = "running"
          /\ \A i \in 1 .. Len(rows[b]) : Append(rows[b], "running")[i] = rows[b][i]
      BY <1>0
    <3>3. \A i \in 1 .. Len(rows[b]) + 1 : Append(rows[b], "running")[i] # "ok"
      BY <1>0, <2>2, <3>2
    <3>4. RowsOfAttempts(b)'
      BY <1>0, <2>1, <3>1, <3>2, <3>3 DEF RowsOfAttempts
    <3> QED
      BY <1>2, <2>1, <3>4
  <2> QED
    BY <1>8, <2>3, <2>4 DEF BeginRun
<1>9. CASE FinishRun(b)
  <2>1. /\ UNCHANGED <<reports, sshRuns, result, run, agentRuns>>
        /\ pc'[b] = "report" /\ pc[b] = "finish"
        /\ \A d \in Bots : d # b => pc'[d] = pc[d]
    BY <1>0, <1>9 DEF FinishRun, TypeOK, ControllerTypeOK, Controllers
  <2>2. \A i \in 1 .. Len(rows[b]) : rows[b][i] # "ok"
    BY <1>0, <2>1 DEF RowsOfAttempts, Trying
  <2>3. CASE rows' = rows
    <3>1. RowsOfAttempts(b)'
      BY <1>0, <2>1, <2>2, <2>3 DEF RowsOfAttempts
    <3> QED
      BY <1>2, <2>1, <2>3, <3>1
  <2>4. CASE run[b] # 0 /\ rows' = [rows EXCEPT ![b][run[b]] = Verdict(b)]
    <3>1. /\ rows'[b] = [rows[b] EXCEPT ![run[b]] = Verdict(b)]
          /\ \A d \in Bots : d # b => rows'[d] = rows[d]
      BY <2>4 DEF TypeOK, ControllerTypeOK
    <3>2. run[b] = Len(rows[b]) /\ run[b] \in 1 .. Len(rows[b])
      BY <1>0, <2>1, <2>4 DEF RowsOfAttempts
    <3>3. /\ Len(rows'[b]) = Len(rows[b]) /\ rows'[b][run[b]] = Verdict(b)
          /\ \A i \in 1 .. Len(rows[b]) : i # run[b] => rows'[b][i] = rows[b][i]
      BY <1>0, <3>1, <3>2
    <3>4. /\ Verdict(b) = "ok" => result[b] = "report"
          /\ result[b] = "report" => Verdict(b) # "error"
      BY DEF Verdict
    <3>5. RowsOfAttempts(b)'
      BY <1>0, <2>1, <2>2, <3>2, <3>3, <3>4 DEF RowsOfAttempts, Trying
    <3> QED
      BY <1>2, <2>1, <3>1, <3>5
  <2> QED
    BY <1>9, <2>3, <2>4 DEF FinishRun, Written
<1>10. CASE SaveReport(b)
  <2>1. UNCHANGED <<sshRuns, rows, agentRuns>> /\ pc[b] = "report"
    BY <1>10 DEF SaveReport
  <2>2. /\ \/ pc'[b] = "begin" /\ result[b] = "denied" /\ run'[b] = run[b]
           \/ pc'[b] = "done" /\ run'[b] = 0
        /\ \A d \in Bots : d # b => pc'[d] = pc[d] /\ result'[d] = result[d] /\ run'[d] = run[d]
    <3>1. CASE /\ result[b] = "denied" /\ pc' = [pc EXCEPT ![b] = "begin"]
               /\ UNCHANGED <<result, run>>
      BY <1>e, <3>1
    <3>2. CASE pc' = [pc EXCEPT ![b] = "done"] /\ Forget({b})
      BY <1>e, <3>2 DEF Forget
    <3> QED
      BY <1>10, <3>1, <3>2 DEF SaveReport
  <2>3. RowsOfAttempts(b)'
    BY <1>0, <2>1, <2>2 DEF RowsOfAttempts, Trying
  <2>4. ReportsOfTheDone'
    <3>1. \A r \in reports : r[1] # b
      BY <1>0, <2>1 DEF ReportsOfTheDone
    <3>2. CASE reports' = reports
      BY <1>0, <2>1, <2>2, <3>1, <3>2 DEF ReportsOfTheDone
    <3>3. CASE reports' = reports \cup {<<b, run[b]>>} /\ result[b] = "report" /\ run[b] # 0
      <4>1. agentRuns[b] + sshRuns[b] >= 1
        <5>1. agentRuns[b] \in Nat /\ sshRuns[b] \in Nat
          BY DEF TypeOK, ControllerTypeOK
        <5>2. sshRuns[b] = 0 => agentRuns[b] = 1
          BY <3>3 DEF TalkInv, BotTalk
        <5> QED
          BY <5>1, <5>2
      <4>2. run[b] \in 1 .. Len(rows[b]) /\ rows[b][run[b]] # "error" /\ pc'[b] = "done"
        BY <1>0, <2>1, <2>2, <3>3 DEF RowsOfAttempts
      <4> QED
        BY <1>0, <2>1, <2>2, <3>1, <3>3, <4>1, <4>2 DEF ReportsOfTheDone
    <3> QED
      BY <1>10, <3>2, <3>3 DEF SaveReport, Written
  <2> QED
    BY <1>1, <2>1, <2>2, <2>3, <2>4
<1> QED
  BY <1>4, <1>5, <1>6, <1>7, <1>8, <1>9, <1>10 DEF BotStep

\* Losing a bot loses its memory, not its rows.
LEMMA LossKeepsBooks ==
    ASSUME TypeOK, BooksInv, NEW c \in Controllers, LoseController(c)
    PROVE  BooksInv'
<1>1. /\ UNCHANGED <<rows, reports, sshRuns, agentRuns>> /\ pc[c] # "done"
      /\ \A b \in Bots : b # c =>
            pc'[b] = pc[b] /\ run'[b] = run[b] /\ result'[b] = result[b]
      /\ c \in Bots => pc'[c] = "lost" /\ run'[c] = 0
  BY DEF LoseController, Forget, TypeOK, ControllerTypeOK, Controllers
<1>2. ASSUME NEW b \in Bots PROVE RowsOfAttempts(b)'
  <2>1. rows[b] \in Seq({"running", "ok", "error"}) /\ Len(rows[b]) \in Nat
    BY QueueFacts DEF TypeOK, ControllerTypeOK
  <2> QED
    BY <1>1, <2>1 DEF BooksInv, RowsOfAttempts, Trying
<1>3. ReportsOfTheDone'
  BY <1>1, ReportsKept DEF BooksInv
<1> QED
  BY <1>2, <1>3 DEF BooksInv

\* The books of every bot are in order, whichever writes fail and wherever it is
\* killed.
THEOREM BooksAreKept == Spec => []BooksInv
<1>1. Init => BooksInv
  BY DEF Init, BooksInv, RowsOfAttempts, ReportsOfTheDone, Controllers
<1>2. TypeOK /\ TalkInv /\ BooksInv /\ [Next]_vars => BooksInv'
  <2> SUFFICES ASSUME TypeOK, TalkInv, BooksInv, [Next]_vars
               PROVE  BooksInv'
    OBVIOUS
  <2>1. CASE UNCHANGED vars
    BY <2>1, BooksKept DEF vars, botVars
  <2>2. ASSUME NEW m \in Monitors, MonitorStep(m) PROVE BooksInv'
    <3>1. UNCHANGED <<rows, run, result, reports, sshRuns, agentRuns>>
      BY <2>2 DEF MonitorStep, MonitorConnect, MonitorAcked, MonitorReply, MonitorTimeout, botVars
    <3>2. \A b \in Bots : pc'[b] = pc[b]
      BY <2>2, OwnConns DEF MonitorStep, MonitorConnect, MonitorAcked, MonitorReply,
         MonitorTimeout, MonitorFails, TypeOK, ControllerTypeOK
    <3> QED
      BY <3>1, <3>2, BooksKept
  <2> QED
    BY <2>1, <2>2, AgentKeepsBooks, BotKeepsBooks, LossKeepsBooks DEF Next, Idle
<1> QED
  BY <1>1, <1>2, TypeCorrect, TalkIsHonest, PTL DEF Spec

\* Every report belongs to a row that did not fail and to a script that ran, and
\* only the last row of a bot can be "ok".
THEOREM StoredReportsAreReal == Spec => []ReportsAreReal
<1>1. TypeOK /\ BooksInv => ReportsAreReal
  <2> SUFFICES ASSUME TypeOK, BooksInv
               PROVE  ReportsAreReal
    OBVIOUS
  <2>1. \A b \in Bots : DOMAIN rows[b] = 1 .. Len(rows[b])
    BY DEF TypeOK, ControllerTypeOK
  <2> QED
    BY <2>1 DEF BooksInv, ReportsOfTheDone, RowsOfAttempts, ReportsAreReal
<1> QED
  BY <1>1, TypeCorrect, BooksAreKept, PTL

=============================================================================
