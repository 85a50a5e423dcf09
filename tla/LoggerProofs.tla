------------------------------ MODULE LoggerProofs ------------------------------
(***************************************************************************)
(* The dated log files, for any number of processes, rotated files, lines  *)
(* and days.                                                               *)
(*                                                                         *)
(* LoggerInv says how the inodes lie behind the names: the smaller the     *)
(* number in a name, the younger the file; younger files hold later lines  *)
(* of a process; and a process writes to a file at least as young as any   *)
(* that has lines of its own, whatever has been renamed meanwhile.  It is  *)
(* written over the contents, names, streams and numbers of lines, not the *)
(* variables, because one action flushes and then opens: it holds between  *)
(* the two.  RotationInv adds, for one process at a time, that the names   *)
(* in use have no gap but the one the rename loop has just made.           *)
(***************************************************************************)
EXTENDS Logger, FiniteSetTheorems, SequenceTheorems, TLAPS

LogSteps == {"off", "ready", "check", "shift", "reopen"}
LogLines == Loggers \X Nat
Days == 1..MaxDay
Names == [Days -> [Slots -> Nat \cup {NoFile}]]
Logs == [pc : LogSteps, day : Nat, out : Nat \cup {NoFile}, buf : Seq(LogLines), i : Nat]

LogsTyped(nodes, nms, logs, counts) ==
    /\ nodes \in Seq(Seq(LogLines)) /\ nms \in Names
    /\ logs \in [Loggers -> Logs] /\ counts \in [Loggers -> [Days -> Nat]]

\* the files that have a name of a day
Named(nms, d) == {nms[d][i] : i \in Slots} \ {NoFile}

\* the younger a file, the smaller the number in its name; no file has names of two days
NewestFirst(nodes, nms) ==
    /\ \A d \in Days : Named(nms, d) \subseteq 1..Len(nodes)
    /\ \A d \in Days : \A i, j \in Slots :
          i < j /\ nms[d][i] # NoFile /\ nms[d][j] # NoFile => nms[d][i] > nms[d][j]
    /\ \A d, e \in Days : d # e => Named(nms, d) \cap Named(nms, e) = {}

\* what a process writes to, and where it is in maybe_rotate
Streaming(nodes, nms, l) ==
    /\ l.pc # "off" => l.day \in Days
    /\ l.pc = "off" => l.day = 0
    /\ l.pc \in {"ready", "check"} => l.out \in 1..Len(nodes) /\ \A d \in Days : l.out \in Named(nms, d) => d = l.day
    /\ l.pc \notin {"ready", "check"} => l.out = NoFile /\ l.buf = <<>>
    /\ l.pc = "shift" => l.i \in 0..(RotateFiles - 1)

\* the lines in a buffer are its process's, in order
Buffered(p, l, count) ==
    \A b \in DOMAIN l.buf :
        /\ l.buf[b][1] = p /\ l.buf[b][2] <= count[l.day]
        /\ \A a \in DOMAIN l.buf : a < b => l.buf[a][2] < l.buf[b][2]

\* younger files hold later lines of a process
Ordered(nodes, nms) ==
    \A d \in Days : \A f, g \in Named(nms, d) : \A a \in DOMAIN nodes[f], b \in DOMAIN nodes[g] :
        (f < g \/ (f = g /\ a < b)) /\ nodes[f][a][1] = nodes[g][b][1] => nodes[f][a][2] < nodes[g][b][2]

Counted(nodes, nms, p, count) ==
    \A d \in Days : \A f \in Named(nms, d) : \A a \in DOMAIN nodes[f] :
        nodes[f][a][1] = p => nodes[f][a][2] <= count[d]

\* no line of p is in a younger file than it writes to, or younger than its buffer
Behind(nodes, nms, p, l) ==
    l.day \in Days =>
        \A f \in Named(nms, l.day) : \A a \in DOMAIN nodes[f] :
            nodes[f][a][1] = p =>
                /\ l.out # NoFile => f <= l.out
                /\ \A b \in DOMAIN l.buf : nodes[f][a][2] < l.buf[b][2]

LogsOf(nodes, nms, logs, counts, p) ==
    /\ Streaming(nodes, nms, logs[p]) /\ Buffered(p, logs[p], counts[p])
    /\ Counted(nodes, nms, p, counts[p]) /\ Behind(nodes, nms, p, logs[p])

LogsKept(nodes, nms, logs, counts) ==
    /\ LogsTyped(nodes, nms, logs, counts)
    /\ NewestFirst(nodes, nms) /\ Ordered(nodes, nms)
    /\ \A p \in Loggers : LogsOf(nodes, nms, logs, counts, p)

LoggerInv ==
    LogsKept(inodes, names, log, lines) /\ today \in Days /\ alone \in BOOLEAN

LEMMA NamedIsFile ==
  ASSUME NEW nodes, NEW nms \in Names, NewestFirst(nodes, nms), NEW d \in Days, NEW f \in Named(nms, d)
  PROVE  f \in 1..Len(nodes) /\ f # NoFile /\ \E i \in Slots : nms[d][i] = f
  BY DEF Named, NewestFirst

LEMMA LineTyped ==
  ASSUME NEW nodes \in Seq(Seq(LogLines)), NEW f \in 1..Len(nodes), NEW a \in DOMAIN nodes[f]
  PROVE  nodes[f][a][1] \in Loggers /\ nodes[f][a][2] \in Nat
<1>1. nodes[f] \in Seq(LogLines)
  BY ElementOfSeq
<1>2. nodes[f][a] \in LogLines
  BY <1>1
<1> QED BY <1>2 DEF LogLines

\* lines of p that come after all those it has in the files of its day, and what
\* writing them keeps
Following(nodes, nms, p, l, w) ==
    /\ w \in Seq(LogLines)
    /\ l.out \in 1..Len(nodes) /\ l.day \in Days /\ \A d \in Days : l.out \in Named(nms, d) => d = l.day
    /\ \A b \in DOMAIN w : w[b][1] = p /\ \A a \in DOMAIN w : a < b => w[a][2] < w[b][2]
    /\ \A g \in Named(nms, l.day) : \A a \in DOMAIN nodes[g], b \in DOMAIN w :
          nodes[g][a][1] = p => nodes[g][a][2] < w[b][2]

Written(nodes, nms, logs, counts, p, w, more) ==
    /\ more \in Seq(Seq(LogLines)) /\ Len(more) = Len(nodes)
    /\ \A g \in DOMAIN nodes : g # logs[p].out => more[g] = nodes[g]
    /\ more[logs[p].out] = nodes[logs[p].out] \o w
    /\ Ordered(more, nms)
    /\ \A q \in Loggers \ {p} : Counted(more, nms, q, counts[q]) /\ Behind(more, nms, q, logs[q])
    /\ \A g \in Named(nms, logs[p].day) : \A a \in DOMAIN more[g] : more[g][a][1] = p => g <= logs[p].out
    /\ \A count \in [Days -> Nat] :
          (\A d \in Days : counts[p][d] <= count[d]) /\ (\A b \in DOMAIN w : w[b][2] <= count[logs[p].day])
              => Counted(more, nms, p, count)

LEMMA Appended ==
  ASSUME NEW nodes, NEW nms, NEW logs, NEW counts, LogsKept(nodes, nms, logs, counts), NEW p \in Loggers,
         NEW w, Following(nodes, nms, p, logs[p], w), NEW more, more = [nodes EXCEPT ![logs[p].out] = @ \o w]
  PROVE  Written(nodes, nms, logs, counts, p, w, more)
<1>0. /\ w \in Seq(LogLines)
      /\ logs[p].out \in 1..Len(nodes) /\ logs[p].day \in Days
      /\ \A d \in Days : logs[p].out \in Named(nms, d) => d = logs[p].day
      /\ \A b \in DOMAIN w : w[b][1] = p /\ \A a \in DOMAIN w : a < b => w[a][2] < w[b][2]
      /\ \A g \in Named(nms, logs[p].day) : \A a \in DOMAIN nodes[g], b \in DOMAIN w :
            nodes[g][a][1] = p => nodes[g][a][2] < w[b][2]
  BY DEF Following
<1> USE <1>0
<1> DEFINE o == logs[p].out
           day == logs[p].day
           old == nodes[o]
<1>1. /\ nodes \in Seq(Seq(LogLines)) /\ nms \in Names /\ logs \in [Loggers -> Logs]
      /\ counts \in [Loggers -> [Days -> Nat]] /\ NewestFirst(nodes, nms) /\ Ordered(nodes, nms)
      /\ \A q \in Loggers : LogsOf(nodes, nms, logs, counts, q)
  BY DEF LogsKept, LogsTyped
<1>2. old \in Seq(LogLines) /\ old \o w \in Seq(LogLines)
  BY <1>1, ElementOfSeq
<1>3. more \in Seq(Seq(LogLines)) /\ Len(more) = Len(nodes) /\ DOMAIN nodes = 1..Len(nodes)
  BY <1>1, <1>2
<1>4. \A g \in 1..Len(nodes) : g # o => more[g] = nodes[g]
  BY <1>1
<1>5. more[o] = old \o w
  BY <1>1
<1>6. /\ DOMAIN old = 1..Len(old) /\ DOMAIN w = 1..Len(w) /\ Len(old) \in Nat /\ Len(w) \in Nat
      /\ DOMAIN more[o] = 1..(Len(old) + Len(w))
      /\ \A a \in 1..Len(old) : more[o][a] = old[a]
      /\ \A a \in 1..(Len(old) + Len(w)) : a > Len(old) => a - Len(old) \in DOMAIN w /\ more[o][a] = w[a - Len(old)]
  BY <1>2, <1>5
<1> HIDE DEF old
\* where a line of the file comes from
<1>7. ASSUME NEW g \in 1..Len(nodes), NEW a \in DOMAIN more[g]
      PROVE  \/ a \in DOMAIN nodes[g] /\ more[g][a] = nodes[g][a]
             \/ g = o /\ a > Len(old) /\ a - Len(old) \in DOMAIN w /\ more[g][a] = w[a - Len(old)]
  <2>1. CASE g # o
    BY <1>4, <2>1
  <2>2. CASE g = o
    <3>1. a \in 1..(Len(old) + Len(w)) /\ Len(old) \in Nat
      BY <1>6, <2>2
    <3>2. CASE a <= Len(old)
      <4>1. a \in 1..Len(old)
        BY <3>1, <3>2
      <4> QED BY <1>6, <2>2, <4>1 DEF old
    <3>3. CASE a > Len(old)
      BY <1>6, <2>2, <3>1, <3>3
    <3> QED BY <3>1, <3>2, <3>3
  <2> QED BY <2>1, <2>2
<1>8. \A d \in Days : \A g \in Named(nms, d) : g \in 1..Len(nodes) /\ g \in Nat
  BY <1>1, NamedIsFile
<1>9. ASSUME NEW q \in Loggers, NEW count \in [Days -> Nat], \A d \in Days : counts[q][d] <= count[d],
             q = p => \A b \in DOMAIN w : w[b][2] <= count[day]
      PROVE  Counted(more, nms, q, count)
  <2> SUFFICES ASSUME NEW d \in Days, NEW g \in Named(nms, d), NEW a \in DOMAIN more[g], more[g][a][1] = q
               PROVE  more[g][a][2] <= count[d]
    BY DEF Counted
  <2>0. g \in 1..Len(nodes)
    BY <1>8
  <2>1. CASE a \in DOMAIN nodes[g] /\ more[g][a] = nodes[g][a]
    <3>1. nodes[g][a][2] <= counts[q][d]
      BY <1>1, <2>1 DEF LogsOf, Counted
    <3>2. nodes[g][a][2] \in Nat
      BY <1>1, <2>0, <2>1, LineTyped
    <3>3. counts[q][d] \in Nat /\ count[d] \in Nat
      BY <1>1
    <3>4. counts[q][d] <= count[d]
      BY <1>9
    <3>5. more[g][a][2] = nodes[g][a][2]
      BY <2>1
    <3>6. \A x, y, z \in Nat : x <= y /\ y <= z => x <= z
      OBVIOUS
    <3>7. nodes[g][a][2] <= count[d]
      BY <3>1, <3>2, <3>3, <3>4, <3>6, Zenon
    <3> QED BY <3>5, <3>7, Zenon
  <2>2. CASE g = o /\ a - Len(old) \in DOMAIN w /\ more[g][a] = w[a - Len(old)]
    <3>1. d = day
      BY <2>2
    <3>2. PICK b \in DOMAIN w : more[g][a] = w[b]
      BY <2>2
    <3>3. q = p
      BY <3>2
    <3>4. w[b][2] <= count[day]
      BY <1>9, <3>3
    <3> QED BY <3>1, <3>2, <3>4
  <2> QED BY <1>7, <2>0, <2>1, <2>2
<1>10. ASSUME NEW q \in Loggers \ {p} PROVE Counted(more, nms, q, counts[q]) /\ Behind(more, nms, q, logs[q])
  <2>1. counts[q] \in [Days -> Nat] /\ \A d \in Days : counts[q][d] <= counts[q][d]
    BY <1>1
  <2>2. Counted(more, nms, q, counts[q])
    BY <1>9, <2>1, q # p
  <2>3. ASSUME NEW d \in Days, NEW g \in Named(nms, d), NEW a \in DOMAIN more[g], more[g][a][1] = q
        PROVE  a \in DOMAIN nodes[g] /\ more[g][a] = nodes[g][a]
    BY <1>7, <1>8, <2>3
  <2>4. Behind(nodes, nms, q, logs[q])
    BY <1>1 DEF LogsOf
  <2>5. Behind(more, nms, q, logs[q])
    BY <2>3, <2>4 DEF Behind
  <2> QED BY <2>2, <2>5
<1>11. ASSUME NEW g \in Named(nms, day), NEW a \in DOMAIN more[g], more[g][a][1] = p PROVE g <= o
  <2>1. CASE g = o
    BY <1>8, <2>1
  <2>2. CASE a \in DOMAIN nodes[g] /\ more[g][a] = nodes[g][a]
    <3>1. o # NoFile
      BY LoggerAssumption
    <3> QED BY <1>1, <1>11, <2>2, <3>1 DEF LogsOf, Behind
  <2> QED BY <1>7, <1>8, <2>1, <2>2
<1>12. Ordered(more, nms)
  <2> SUFFICES ASSUME NEW d \in Days, NEW f \in Named(nms, d), NEW g \in Named(nms, d),
                      NEW a \in DOMAIN more[f], NEW b \in DOMAIN more[g],
                      f < g \/ (f = g /\ a < b), more[f][a][1] = more[g][b][1]
               PROVE  more[f][a][2] < more[g][b][2]
    BY DEF Ordered
  <2>1. f \in 1..Len(nodes) /\ g \in 1..Len(nodes)
    BY <1>8
  <2>2. CASE /\ a \in DOMAIN nodes[f] /\ more[f][a] = nodes[f][a]
             /\ b \in DOMAIN nodes[g] /\ more[g][b] = nodes[g][b]
    BY <1>1, <2>2 DEF Ordered
  <2>3. CASE /\ a \in DOMAIN nodes[f] /\ more[f][a] = nodes[f][a]
             /\ g = o /\ b - Len(old) \in DOMAIN w /\ more[g][b] = w[b - Len(old)]
    <3>1. d = day /\ nodes[f][a][1] = p
      BY <2>3
    <3> QED BY <2>3, <3>1
  <2>4. CASE /\ f = o /\ a > Len(old) /\ a - Len(old) \in DOMAIN w /\ more[f][a] = w[a - Len(old)]
             /\ b \in DOMAIN nodes[g] /\ more[g][b] = nodes[g][b]
    <3>1. d = day /\ nodes[g][b][1] = p
      BY <2>4
    <3>2. g <= o
      BY <1>11, <2>4, <3>1
    <3>3. g = o /\ a < b
      BY <2>1, <2>4, <3>2
    <3>4. b \in 1..Len(old)
      BY <1>6, <2>4, <3>3 DEF old
    <3>5. DOMAIN more[o] = 1..(Len(old) + Len(w))
      BY <1>6
    <3> QED BY <1>6, <2>4, <3>3, <3>4, <3>5
  <2>5. CASE /\ f = o /\ a > Len(old) /\ a - Len(old) \in DOMAIN w /\ more[f][a] = w[a - Len(old)]
             /\ g = o /\ b > Len(old) /\ b - Len(old) \in DOMAIN w /\ more[g][b] = w[b - Len(old)]
    <3>1. a < b /\ a \in Nat /\ b \in Nat
      <4>1. f = g /\ f \in Nat
        BY <2>1, <2>5
      <4>2. a \in DOMAIN more[o] /\ b \in DOMAIN more[o]
        BY <2>5
      <4> QED BY <1>6, <4>1, <4>2
    <3>2. a - Len(old) < b - Len(old)
      BY <1>6, <3>1
    <3> QED BY <2>5, <3>2
  <2> QED BY <1>7, <2>1, <2>2, <2>3, <2>4, <2>5
<1> QED BY <1>1, <1>3, <1>4, <1>5, <1>9, <1>10, <1>11, <1>12 DEF old, Written

\* the record of one process changes
LEMMA OneLogChanges ==
  ASSUME NEW nodes, NEW nms, NEW logs, NEW counts, NEW p \in Loggers, NEW l \in Logs,
         NEW more, NEW renamed, NEW count \in [Days -> Nat],
         logs \in [Loggers -> Logs], counts \in [Loggers -> [Days -> Nat]],
         more \in Seq(Seq(LogLines)), renamed \in Names, NewestFirst(more, renamed), Ordered(more, renamed),
         \A q \in Loggers \ {p} : LogsOf(more, renamed, logs, counts, q),
         Streaming(more, renamed, l), Buffered(p, l, count),
         Counted(more, renamed, p, count), Behind(more, renamed, p, l)
  PROVE  LogsKept(more, renamed, [logs EXCEPT ![p] = l], [counts EXCEPT ![p] = count])
<1> DEFINE later == [logs EXCEPT ![p] = l]
           after == [counts EXCEPT ![p] = count]
<1>1. later \in [Loggers -> Logs] /\ after \in [Loggers -> [Days -> Nat]]
  OBVIOUS
<1>2. later[p] = l /\ after[p] = count
  OBVIOUS
<1>3. \A q \in Loggers \ {p} : later[q] = logs[q] /\ after[q] = counts[q]
  OBVIOUS
<1> HIDE DEF later, after
<1>4. \A q \in Loggers : LogsOf(more, renamed, later, after, q)
  <2> TAKE q \in Loggers
  <2>1. CASE q = p
    BY <1>2, <2>1 DEF LogsOf
  <2>2. CASE q # p
    BY <1>3, <2>2 DEF LogsOf
  <2> QED BY <2>1, <2>2
<1>5. LogsKept(more, renamed, later, after)
  BY <1>1, <1>4 DEF LogsKept, LogsTyped
<1> QED BY <1>5 DEF later, after

FlushedTo(nodes, l) == IF l.out = NoFile THEN nodes ELSE [nodes EXCEPT ![l.out] = @ \o l.buf]
Emptied(logs, p) == [logs EXCEPT ![p] = [@ EXCEPT !.buf = <<>>]]

\* the same with the numbers of lines as they are
LEMMA OneLogMoves ==
  ASSUME NEW nodes, NEW nms, NEW logs, NEW counts, NEW p \in Loggers, NEW l \in Logs, NEW more, NEW renamed,
         logs \in [Loggers -> Logs], counts \in [Loggers -> [Days -> Nat]],
         more \in Seq(Seq(LogLines)), renamed \in Names, NewestFirst(more, renamed), Ordered(more, renamed),
         \A q \in Loggers \ {p} : LogsOf(more, renamed, logs, counts, q),
         Streaming(more, renamed, l), Buffered(p, l, counts[p]),
         Counted(more, renamed, p, counts[p]), Behind(more, renamed, p, l)
  PROVE  LogsKept(more, renamed, [logs EXCEPT ![p] = l], counts)
<1> DEFINE after == [counts EXCEPT ![p] = counts[p]]
<1>1. after = counts
  OBVIOUS
<1>2. counts[p] \in [Days -> Nat]
  OBVIOUS
<1>3. LogsKept(more, renamed, [logs EXCEPT ![p] = l], after)
  BY <1>2, OneLogChanges
<1> HIDE DEF after
<1> QED BY <1>1, <1>3

\* the lines that a stream holds follow those of its process
LEMMA StreamFollows ==
  ASSUME NEW nodes, NEW nms, NEW logs, NEW counts, LogsKept(nodes, nms, logs, counts), NEW p \in Loggers,
         logs[p].out # NoFile
  PROVE  /\ Following(nodes, nms, p, logs[p], logs[p].buf)
         /\ \A b \in DOMAIN logs[p].buf : logs[p].buf[b][2] <= counts[p][logs[p].day]
<1>1. Streaming(nodes, nms, logs[p]) /\ Buffered(p, logs[p], counts[p]) /\ Behind(nodes, nms, p, logs[p])
  BY DEF LogsKept, LogsOf
<1>2. logs[p] \in Logs
  BY DEF LogsKept, LogsTyped
<1>3. logs[p].pc \in {"ready", "check"}
  BY <1>1, Zenon DEF Streaming
<1>4. logs[p].pc # "off" /\ logs[p].buf \in Seq(LogLines)
  BY <1>2, <1>3 DEF Logs
<1>5. logs[p].out \in 1..Len(nodes) /\ logs[p].day \in Days
  BY <1>1, <1>3, <1>4, Zenon DEF Streaming
<1>6. \A d \in Days : logs[p].out \in Named(nms, d) => d = logs[p].day
  BY <1>1, <1>3, Zenon DEF Streaming
<1> QED BY <1>1, <1>4, <1>5, <1>6, Zenon DEF Buffered, Behind, Following

LEMMA FlushKeeps ==
  ASSUME NEW nodes, NEW nms, NEW logs, NEW counts, LogsKept(nodes, nms, logs, counts), NEW p \in Loggers
  PROVE  LogsKept(FlushedTo(nodes, logs[p]), nms, Emptied(logs, p), counts)
<1> DEFINE l == [logs[p] EXCEPT !.buf = <<>>]
           more == FlushedTo(nodes, logs[p])
<1>0. /\ nodes \in Seq(Seq(LogLines)) /\ nms \in Names /\ logs \in [Loggers -> Logs]
      /\ counts \in [Loggers -> [Days -> Nat]] /\ NewestFirst(nodes, nms) /\ Ordered(nodes, nms)
      /\ \A q \in Loggers : LogsOf(nodes, nms, logs, counts, q)
  BY DEF LogsKept, LogsTyped
<1>1. l \in Logs
  <2>1. logs[p] \in Logs /\ <<>> \in Seq(LogLines)
    BY <1>0
  <2> QED BY <2>1 DEF Logs
<1>2. l.buf = <<>> /\ l.pc = logs[p].pc /\ l.day = logs[p].day /\ l.out = logs[p].out /\ l.i = logs[p].i
  BY <1>0 DEF Logs
<1>3. Emptied(logs, p) = [logs EXCEPT ![p] = l]
  BY <1>0 DEF Emptied
<1> HIDE DEF l
<1>4. Buffered(p, l, counts[p])
  BY <1>2 DEF Buffered
<1>5. CASE logs[p].out = NoFile
  <2>1. more = nodes
    BY <1>5 DEF FlushedTo
  <2>2. Streaming(nodes, nms, l)
    BY <1>0, <1>2, Zenon DEF LogsOf, Streaming
  <2>3. Behind(nodes, nms, p, l)
    BY <1>2, <1>5 DEF Behind
  <2>4. Counted(nodes, nms, p, counts[p])
    BY <1>0 DEF LogsOf
  <2>5. LogsKept(nodes, nms, [logs EXCEPT ![p] = l], counts)
    BY <1>0, <1>1, <1>4, <2>2, <2>3, <2>4, OneLogMoves
  <2> QED BY <1>3, <2>1, <2>5
<1>6. CASE logs[p].out # NoFile
  <2> DEFINE w == logs[p].buf
  <2>0. more = [nodes EXCEPT ![logs[p].out] = @ \o w]
    BY <1>6 DEF FlushedTo
  <2> HIDE DEF more
  <2>1. Following(nodes, nms, p, logs[p], w) /\ \A b \in DOMAIN w : w[b][2] <= counts[p][logs[p].day]
    BY <1>6, StreamFollows
  <2> HIDE DEF w
  <2>11. Written(nodes, nms, logs, counts, p, w, more)
    BY <2>0, <2>1, Appended
  <2>2. /\ more \in Seq(Seq(LogLines)) /\ Len(more) = Len(nodes) /\ Ordered(more, nms)
        /\ \A q \in Loggers \ {p} : Counted(more, nms, q, counts[q]) /\ Behind(more, nms, q, logs[q])
        /\ \A g \in Named(nms, logs[p].day) : \A a \in DOMAIN more[g] : more[g][a][1] = p => g <= logs[p].out
        /\ \A count \in [Days -> Nat] :
               (\A d \in Days : counts[p][d] <= count[d]) /\ (\A b \in DOMAIN w : w[b][2] <= count[logs[p].day])
                   => Counted(more, nms, p, count)
    BY <2>11 DEF Written
  <2>3. counts[p] \in [Days -> Nat] /\ \A d \in Days : counts[p][d] <= counts[p][d]
    BY <1>0
  <2>4. Counted(more, nms, p, counts[p])
    BY <2>1, <2>2, <2>3
  <2>5. Streaming(more, nms, l)
    BY <1>0, <1>2, <2>2, Zenon DEF LogsOf, Streaming
  <2>6. Behind(more, nms, p, l)
    BY <1>2, <2>2 DEF Behind
  <2>7. NewestFirst(more, nms)
    BY <1>0, <2>2, Zenon DEF NewestFirst
  <2>8. \A q \in Loggers \ {p} : LogsOf(more, nms, logs, counts, q)
    <3> TAKE q \in Loggers \ {p}
    <3>1. Streaming(more, nms, logs[q])
      BY <1>0, <2>2, Zenon DEF LogsOf, Streaming
    <3> QED BY <1>0, <2>2, <3>1 DEF LogsOf
  <2>9. LogsKept(more, nms, [logs EXCEPT ![p] = l], counts)
    BY <1>0, <1>1, <1>4, <2>2, <2>4, <2>5, <2>6, <2>7, <2>8, OneLogMoves
  <2> QED BY <1>3, <2>9 DEF more
<1> QED BY <1>5, <1>6

\* files may lose their names, and files without lines may get one
LEMMA FewerLines ==
  ASSUME NEW nodes, NEW nms, NEW more, NEW renamed,
         \A d \in Days : \A f \in Named(renamed, d) : \A a \in DOMAIN more[f] :
             f \in Named(nms, d) /\ a \in DOMAIN nodes[f] /\ more[f][a] = nodes[f][a]
  PROVE  /\ Ordered(nodes, nms) => Ordered(more, renamed)
         /\ \A p, count : Counted(nodes, nms, p, count) => Counted(more, renamed, p, count)
         /\ \A p, l : Behind(nodes, nms, p, l) => Behind(more, renamed, p, l)
<1>1. ASSUME Ordered(nodes, nms) PROVE Ordered(more, renamed)
  <2> SUFFICES ASSUME NEW d \in Days, NEW f \in Named(renamed, d), NEW g \in Named(renamed, d),
                      NEW a \in DOMAIN more[f], NEW b \in DOMAIN more[g],
                      f < g \/ (f = g /\ a < b), more[f][a][1] = more[g][b][1]
               PROVE  more[f][a][2] < more[g][b][2]
    BY DEF Ordered
  <2>1. f \in Named(nms, d) /\ a \in DOMAIN nodes[f] /\ more[f][a] = nodes[f][a]
    OBVIOUS
  <2>2. g \in Named(nms, d) /\ b \in DOMAIN nodes[g] /\ more[g][b] = nodes[g][b]
    OBVIOUS
  <2> QED BY <1>1, <2>1, <2>2 DEF Ordered
<1>2. \A p, count : Counted(nodes, nms, p, count) => Counted(more, renamed, p, count)
  BY Zenon DEF Counted
<1>3. ASSUME NEW p, NEW l, Behind(nodes, nms, p, l) PROVE Behind(more, renamed, p, l)
  <2> SUFFICES ASSUME l.day \in Days, NEW f \in Named(renamed, l.day), NEW a \in DOMAIN more[f], more[f][a][1] = p
               PROVE  /\ l.out # NoFile => f <= l.out
                      /\ \A b \in DOMAIN l.buf : more[f][a][2] < l.buf[b][2]
    BY DEF Behind
  <2>1. f \in Named(nms, l.day) /\ a \in DOMAIN nodes[f] /\ more[f][a] = nodes[f][a]
    OBVIOUS
  <2> QED BY <1>3, <2>1 DEF Behind
<1> QED BY <1>1, <1>2, <1>3

Opens(nodes, nms, d) == IF nms[d][0] = NoFile THEN Append(nodes, <<>>) ELSE nodes
OpensAs(nodes, nms, d) == IF nms[d][0] = NoFile THEN [nms EXCEPT ![d][0] = Len(nodes) + 1] ELSE nms
Opened(nms, d, pc) == [pc |-> pc, day |-> d, out |-> nms[d][0], buf |-> <<>>, i |-> 0]

\* what there is after a file was created under the name of the day
FileAdded(nodes, nms, d, more, renamed) ==
    /\ more \in Seq(Seq(LogLines)) /\ Len(more) = Len(nodes) + 1 /\ renamed \in Names
    /\ \A g \in 1..Len(nodes) : more[g] = nodes[g]
    /\ more[Len(nodes) + 1] = <<>>
    /\ renamed[d][0] = Len(nodes) + 1
    /\ \A e \in Days, i \in Slots : e # d \/ i # 0 => renamed[e][i] = nms[e][i]
    /\ \A e \in Days : Named(renamed, e) = Named(nms, e) \cup (IF e = d THEN {Len(nodes) + 1} ELSE {})
    /\ NewestFirst(more, renamed)

LEMMA NewFile ==
  ASSUME NEW nodes \in Seq(Seq(LogLines)), NEW nms \in Names, NewestFirst(nodes, nms), NEW d \in Days,
         nms[d][0] = NoFile, NEW more, more = Append(nodes, <<>>),
         NEW renamed, renamed = [nms EXCEPT ![d][0] = Len(nodes) + 1]
  PROVE  FileAdded(nodes, nms, d, more, renamed)
<1> DEFINE n == Len(nodes) + 1
<1>1. /\ more \in Seq(Seq(LogLines)) /\ Len(more) = n /\ n \in Nat /\ n \notin 1..Len(nodes) /\ Len(nodes) \in Nat
      /\ \A g \in 1..Len(nodes) : more[g] = nodes[g]
      /\ more[n] = <<>>
  <2>1. <<>> \in Seq(LogLines)
    OBVIOUS
  <2> QED BY <2>1
<1>2. 0 \in Slots /\ n # NoFile
  BY <1>1, LoggerAssumption DEF Slots
<1>3. renamed \in Names
  <2>1. [nms[d] EXCEPT ![0] = n] \in [Slots -> Nat \cup {NoFile}]
    BY <1>1, <1>2 DEF Names
  <2>2. renamed = [nms EXCEPT ![d] = [nms[d] EXCEPT ![0] = n]]
    BY DEF Names
  <2> QED BY <2>1, <2>2 DEF Names
<1>4. renamed[d][0] = n /\ \A e \in Days, i \in Slots : e # d \/ i # 0 => renamed[e][i] = nms[e][i]
  BY <1>2 DEF Names
<1>5. \A e \in Days : Named(renamed, e) = Named(nms, e) \cup (IF e = d THEN {n} ELSE {})
  <2> TAKE e \in Days
  <2>1. CASE e # d
    BY <1>4, <2>1 DEF Named
  <2>2. CASE e = d
    <3>1. Named(nms, d) \cup {n} \subseteq Named(renamed, d)
      BY <1>2, <1>4 DEF Named
    <3>2. Named(renamed, d) \subseteq Named(nms, d) \cup {n}
      BY <1>2, <1>4 DEF Named
    <3> QED BY <2>2, <3>1, <3>2
  <2> QED BY <2>1, <2>2
<1> HIDE DEF n
<1>6. \A e \in Days : Named(nms, e) \subseteq 1..Len(nodes)
  BY DEF NewestFirst
<1>7. NewestFirst(more, renamed)
  <2>1. \A e \in Days : Named(renamed, e) \subseteq 1..Len(more)
    <3>1. \A e \in Days : Named(nms, e) \subseteq 1..n /\ n \in 1..n
      BY <1>1, <1>6 DEF n
    <3> QED BY <1>1, <1>5, <3>1
  <2>2. ASSUME NEW e \in Days, NEW i \in Slots, NEW j \in Slots,
               i < j, renamed[e][i] # NoFile, renamed[e][j] # NoFile
        PROVE  renamed[e][i] > renamed[e][j]
    <3>1. j # 0 /\ renamed[e][j] = nms[e][j]
      BY <1>4, <2>2 DEF Slots
    <3>2. CASE e = d /\ i = 0
      <4>1. nms[e][j] \in Named(nms, e)
        BY <2>2, <3>1 DEF Named
      <4>2. nms[e][j] \in 1..Len(nodes)
        BY <1>6, <4>1
      <4> QED BY <1>1, <1>4, <3>1, <3>2, <4>2 DEF n
    <3>3. CASE e # d \/ i # 0
      BY <1>4, <2>2, <3>1, <3>3 DEF NewestFirst
    <3> QED BY <3>2, <3>3
  <2>3. ASSUME NEW e \in Days, NEW g \in Days, e # g PROVE Named(renamed, e) \cap Named(renamed, g) = {}
    <3>1. Named(nms, e) \cap Named(nms, g) = {}
      BY <2>3 DEF NewestFirst
    <3>2. n \notin Named(nms, e) /\ n \notin Named(nms, g)
      BY <1>1, <1>6
    <3>3. Named(renamed, e) \subseteq Named(nms, e) \cup {n} /\ Named(renamed, g) \subseteq Named(nms, g) \cup {n}
      BY <1>5
    <3>4. n \notin Named(renamed, e) \/ n \notin Named(renamed, g)
      <4>1. CASE e # d
        BY <1>5, <3>2, <4>1
      <4>2. CASE g # d
        BY <1>5, <3>2, <4>2
      <4> QED BY <2>3, <4>1, <4>2
    <3> QED BY <3>1, <3>3, <3>4
  <2> QED BY <2>1, <2>2, <2>3 DEF NewestFirst
<1> QED BY <1>1, <1>3, <1>4, <1>5, <1>7 DEF n, FileAdded

LEMMA OpenKeeps ==
  ASSUME NEW nodes, NEW nms, NEW logs, NEW counts, LogsKept(nodes, nms, logs, counts), NEW p \in Loggers,
         NEW d \in Days, NEW pc \in {"ready", "check"}
  PROVE  LogsKept(Opens(nodes, nms, d), OpensAs(nodes, nms, d),
                  [logs EXCEPT ![p] = Opened(OpensAs(nodes, nms, d), d, pc)], counts)
<1> DEFINE more == Opens(nodes, nms, d)
           renamed == OpensAs(nodes, nms, d)
           l == Opened(renamed, d, pc)
<1>0. /\ nodes \in Seq(Seq(LogLines)) /\ nms \in Names /\ logs \in [Loggers -> Logs]
      /\ counts \in [Loggers -> [Days -> Nat]] /\ NewestFirst(nodes, nms) /\ Ordered(nodes, nms)
      /\ \A q \in Loggers : LogsOf(nodes, nms, logs, counts, q)
  BY DEF LogsKept, LogsTyped
<1>1. l.pc = pc /\ l.day = d /\ l.out = renamed[d][0] /\ l.buf = <<>> /\ l.i = 0
  BY DEF Opened
<1>2. 0 \in Slots
  BY LoggerAssumption DEF Slots
<1>3. /\ more \in Seq(Seq(LogLines)) /\ renamed \in Names /\ NewestFirst(more, renamed)
      /\ renamed[d][0] \in Named(renamed, d) /\ Len(nodes) <= Len(more)
      /\ \A e \in Days : \A f \in Named(renamed, e) : \A a \in DOMAIN more[f] :
             f \in Named(nms, e) /\ a \in DOMAIN nodes[f] /\ more[f][a] = nodes[f][a]
      /\ \A e \in Days : Named(renamed, e) \subseteq Named(nms, e) \cup (IF nms[d][0] = NoFile /\ e = d THEN {Len(nodes) + 1} ELSE {})
  <2>1. CASE nms[d][0] # NoFile
    <3>1. more = nodes /\ renamed = nms
      BY <2>1 DEF Opens, OpensAs
    <3>2. nms[d][0] \in Named(nms, d)
      BY <1>2, <2>1 DEF Named
    <3>3. Len(nodes) <= Len(nodes)
      BY <1>0
    <3> HIDE DEF more, renamed
    <3> QED BY <1>0, <3>1, <3>2, <3>3
  <2>2. CASE nms[d][0] = NoFile
    <3>0. more = Append(nodes, <<>>) /\ renamed = [nms EXCEPT ![d][0] = Len(nodes) + 1]
      BY <2>2 DEF Opens, OpensAs
    <3> HIDE DEF more, renamed
    <3>11. FileAdded(nodes, nms, d, more, renamed)
      BY <1>0, <2>2, <3>0, NewFile
    <3> DEFINE n == Len(nodes) + 1
    <3>1. /\ more \in Seq(Seq(LogLines)) /\ Len(more) = n /\ renamed \in Names
          /\ \A g \in 1..Len(nodes) : more[g] = nodes[g]
          /\ more[n] = <<>> /\ renamed[d][0] = n
          /\ \A e \in Days : Named(renamed, e) = Named(nms, e) \cup (IF e = d THEN {n} ELSE {})
          /\ NewestFirst(more, renamed)
      BY <3>11 DEF FileAdded
    <3>2. Len(nodes) <= Len(more) /\ n \in Nat
      BY <1>0, <3>1
    <3>3. n # NoFile
      BY <3>2, LoggerAssumption
    <3> HIDE DEF n
    <3>4. renamed[d][0] \in Named(renamed, d)
      BY <1>2, <3>1, <3>3 DEF Named
    <3>5. ASSUME NEW e \in Days, NEW f \in Named(renamed, e), NEW a \in DOMAIN more[f]
          PROVE  f \in Named(nms, e) /\ a \in DOMAIN nodes[f] /\ more[f][a] = nodes[f][a]
      <4>1. f # n
        BY <3>1
      <4>2. f \in Named(nms, e)
        BY <3>1, <4>1
      <4>3. f \in 1..Len(nodes)
        BY <1>0, <4>2, NamedIsFile
      <4> QED BY <3>1, <4>2, <4>3
    <3> QED BY <2>2, <3>1, <3>2, <3>4, <3>5 DEF n
  <2> QED BY <2>1, <2>2
<1>4. l \in Logs
  <2>1. renamed[d][0] \in Nat \cup {NoFile} /\ <<>> \in Seq(LogLines) /\ d \in Nat /\ pc \in LogSteps
    BY <1>2, <1>3 DEF Names, Days, LogSteps
  <2> HIDE DEF renamed
  <2> QED BY <2>1 DEF Opened, Logs
<1> HIDE DEF more, renamed, l
<1>5. /\ Ordered(more, renamed)
      /\ \A q \in Loggers : Counted(more, renamed, q, counts[q]) /\ Behind(more, renamed, q, logs[q])
  BY <1>0, <1>3, FewerLines, Zenon DEF LogsOf
<1>6. \A q \in Loggers : Streaming(more, renamed, logs[q])
  <2> TAKE q \in Loggers
  <2>1. Streaming(nodes, nms, logs[q])
    BY <1>0 DEF LogsOf
  <2>2. ASSUME logs[q].pc \in {"ready", "check"}
        PROVE  logs[q].out \in 1..Len(more) /\ \A e \in Days : logs[q].out \in Named(renamed, e) => e = logs[q].day
    <3>1. logs[q].out \in 1..Len(nodes) /\ \A e \in Days : logs[q].out \in Named(nms, e) => e = logs[q].day
      BY <2>1, <2>2, Zenon DEF Streaming
    <3>2. Len(nodes) \in Nat /\ Len(more) \in Nat
      BY <1>0, <1>3
    <3>3. logs[q].out # Len(nodes) + 1 /\ logs[q].out \in 1..Len(more)
      BY <1>3, <3>1, <3>2
    <3> QED BY <1>3, <3>1, <3>3
  <2> QED BY <2>1, <2>2, Zenon DEF Streaming
<1>7. Streaming(more, renamed, l)
  <2>1. l.out \in 1..Len(more)
    BY <1>1, <1>3, NamedIsFile
  <2>2. \A e \in Days : l.out \in Named(renamed, e) => e = d
    BY <1>1, <1>3 DEF NewestFirst
  <2>3. pc # "off" /\ pc # "shift"
    OBVIOUS
  <2> QED BY <1>1, <2>1, <2>2, <2>3, Zenon DEF Streaming
<1>8. Behind(more, renamed, p, l)
  <2>1. ASSUME NEW f \in Named(renamed, d) PROVE f <= renamed[d][0]
    <3>1. PICK j \in Slots : f = renamed[d][j] /\ f # NoFile
      BY DEF Named
    <3>2. renamed[d][0] # NoFile /\ renamed[d][0] \in 1..Len(more) /\ f \in 1..Len(more)
      BY <1>3, NamedIsFile
    <3>3. CASE j = 0
      BY <3>1, <3>2, <3>3
    <3>4. CASE j # 0
      <4>1. 0 < j
        BY <3>4 DEF Slots
      <4>2. renamed[d][0] > f
        BY <1>2, <1>3, <3>1, <3>2, <4>1 DEF NewestFirst
      <4> QED BY <3>2, <4>2
    <3> QED BY <3>3, <3>4
  <2>2. DOMAIN l.buf = {}
    BY <1>1
  <2> QED BY <1>1, <2>1, <2>2 DEF Behind
<1>9. Buffered(p, l, counts[p])
  BY <1>1 DEF Buffered
<1>10. LogsKept(more, renamed, [logs EXCEPT ![p] = l], counts)
  BY <1>0, <1>3, <1>4, <1>5, <1>6, <1>7, <1>8, <1>9, OneLogMoves DEF LogsOf
<1> QED BY <1>10 DEF more, renamed, l

\* only the record of p changes
LEMMA OnlyRecord ==
  ASSUME NEW nodes, NEW nms, NEW logs, NEW counts, LogsKept(nodes, nms, logs, counts), NEW p \in Loggers, NEW l \in Logs,
         Streaming(nodes, nms, l), Buffered(p, l, counts[p]), Behind(nodes, nms, p, l)
  PROVE  LogsKept(nodes, nms, [logs EXCEPT ![p] = l], counts)
<1>1. /\ nodes \in Seq(Seq(LogLines)) /\ nms \in Names /\ logs \in [Loggers -> Logs]
      /\ counts \in [Loggers -> [Days -> Nat]] /\ NewestFirst(nodes, nms) /\ Ordered(nodes, nms)
      /\ \A q \in Loggers : LogsOf(nodes, nms, logs, counts, q)
  BY DEF LogsKept, LogsTyped
<1>2. Counted(nodes, nms, p, counts[p])
  BY <1>1 DEF LogsOf
<1> QED BY <1>1, <1>2, OneLogMoves

\* p lets go of its file, with nothing left in its buffer
LEMMA LetsGo ==
  ASSUME NEW nodes, NEW nms, NEW logs, NEW counts, LogsKept(nodes, nms, logs, counts), NEW p \in Loggers, NEW l \in Logs,
         l.out = NoFile, l.buf = <<>>, l.pc \notin {"ready", "check"},
         l.pc = "off" => l.day = 0, l.pc # "off" => l.day \in Days, l.pc = "shift" => l.i \in 0..(RotateFiles - 1)
  PROVE  LogsKept(nodes, nms, [logs EXCEPT ![p] = l], counts)
<1>1. Streaming(nodes, nms, l)
  BY Zenon DEF Streaming
<1>2. DOMAIN l.buf = {}
  OBVIOUS
<1>3. Buffered(p, l, counts[p]) /\ Behind(nodes, nms, p, l)
  BY <1>2 DEF Buffered, Behind
<1> QED BY <1>1, <1>3, OnlyRecord

\* one rename of the shift loop
Shifted(nms, d, i) ==
    IF nms[d][i] = NoFile THEN nms ELSE [nms EXCEPT ![d] = [@ EXCEPT ![i] = NoFile, ![i + 1] = nms[d][i]]]

LEMMA ShiftNames ==
  ASSUME NEW nms \in Names, NEW d \in Days, NEW i \in 0..(RotateFiles - 1), nms[d][i] # NoFile, NEW later, later = Shifted(nms, d, i)
  PROVE  /\ later \in Names /\ i \in Slots /\ i + 1 \in Slots
         /\ later[d][i] = NoFile /\ later[d][i + 1] = nms[d][i]
         /\ \A e \in Days, j \in Slots : e # d \/ j \notin {i, i + 1} => later[e][j] = nms[e][j]
<1>1. i \in Slots /\ i + 1 \in Slots /\ i # i + 1
  BY LoggerAssumption DEF Slots
<1> DEFINE row == nms[d]
           new == [row EXCEPT ![i] = NoFile, ![i + 1] = nms[d][i]]
<1>2. row \in [Slots -> Nat \cup {NoFile}] /\ nms[d][i] \in Nat \cup {NoFile}
  BY <1>1 DEF Names
<1>3. later = [nms EXCEPT ![d] = new]
  BY DEF Shifted
<1>4. /\ new \in [Slots -> Nat \cup {NoFile}] /\ new[i] = NoFile /\ new[i + 1] = nms[d][i]
      /\ \A j \in Slots \ {i, i + 1} : new[j] = row[j]
  BY <1>1, <1>2
<1> HIDE DEF new
<1>5. later \in Names /\ later[d] = new /\ \A e \in Days : e # d => later[e] = nms[e]
  BY <1>3, <1>4 DEF Names
<1> QED BY <1>1, <1>4, <1>5

LEMMA ShiftKeeps ==
  ASSUME NEW nodes, NEW nms, NEW logs, NEW counts, LogsKept(nodes, nms, logs, counts),
         NEW d \in Days, NEW i \in 0..(RotateFiles - 1)
  PROVE  LogsKept(nodes, Shifted(nms, d, i), logs, counts) /\ \A e \in Days : Named(Shifted(nms, d, i), e) \subseteq Named(nms, e)
<1> DEFINE later == Shifted(nms, d, i)
<1>0. /\ nodes \in Seq(Seq(LogLines)) /\ nms \in Names /\ logs \in [Loggers -> Logs]
      /\ counts \in [Loggers -> [Days -> Nat]] /\ NewestFirst(nodes, nms) /\ Ordered(nodes, nms)
      /\ \A q \in Loggers : LogsOf(nodes, nms, logs, counts, q)
  BY DEF LogsKept, LogsTyped
<1>1. CASE nms[d][i] = NoFile
  <2>1. later = nms
    BY <1>1 DEF Shifted
  <2> HIDE DEF later
  <2>2. LogsKept(nodes, later, logs, counts) /\ \A e \in Days : Named(later, e) \subseteq Named(nms, e)
    BY <2>1
  <2> QED BY <2>2 DEF later
<1>2. CASE nms[d][i] # NoFile
  <2>1. /\ later \in Names /\ i \in Slots /\ i + 1 \in Slots
        /\ later[d][i] = NoFile /\ later[d][i + 1] = nms[d][i]
        /\ \A e \in Days, j \in Slots : e # d \/ j \notin {i, i + 1} => later[e][j] = nms[e][j]
    BY <1>0, <1>2, ShiftNames
  <2> HIDE DEF later
  <2>2. \A e \in Days : Named(later, e) \subseteq Named(nms, e)
    <3> SUFFICES ASSUME NEW e \in Days, NEW j \in Slots, later[e][j] # NoFile
                 PROVE  \E k \in Slots : later[e][j] = nms[e][k]
      BY DEF Named
    <3> QED BY <2>1
  <2>3. NewestFirst(nodes, later)
    <3>1. \A e \in Days : Named(later, e) \subseteq 1..Len(nodes)
      BY <1>0, <2>2 DEF NewestFirst
    <3>2. ASSUME NEW e \in Days, NEW j \in Slots, NEW k \in Slots, j < k, later[e][j] # NoFile, later[e][k] # NoFile
          PROVE  later[e][j] > later[e][k]
      <4>1. CASE e # d
        BY <1>0, <2>1, <3>2, <4>1 DEF NewestFirst
      <4>2. CASE e = d /\ j \notin {i, i + 1} /\ k \notin {i, i + 1}
        BY <1>0, <2>1, <3>2, <4>2 DEF NewestFirst
      <4>3. CASE e = d /\ j = i + 1
        <5>1. i < k /\ k \notin {i, i + 1}
          BY <2>1, <3>2, <4>3 DEF Slots
        <5> QED BY <1>0, <1>2, <2>1, <3>2, <4>3, <5>1 DEF NewestFirst
      <4>4. CASE e = d /\ k = i + 1
        <5>1. j < i /\ j \notin {i, i + 1}
          BY <2>1, <3>2, <4>4 DEF Slots
        <5> QED BY <1>0, <1>2, <2>1, <3>2, <4>4, <5>1 DEF NewestFirst
      <4>5. CASE e = d /\ (j = i \/ k = i)
        BY <2>1, <3>2, <4>5
      <4> QED BY <4>1, <4>2, <4>3, <4>4, <4>5
    <3>3. \A e, g \in Days : e # g => Named(later, e) \cap Named(later, g) = {}
      BY <1>0, <2>2 DEF NewestFirst
    <3> QED BY <3>1, <3>2, <3>3 DEF NewestFirst
  <2>4. /\ Ordered(nodes, later)
        /\ \A q \in Loggers : Counted(nodes, later, q, counts[q]) /\ Behind(nodes, later, q, logs[q])
    <3>1. \A e \in Days : \A f \in Named(later, e) : \A a \in DOMAIN nodes[f] :
             f \in Named(nms, e) /\ a \in DOMAIN nodes[f] /\ nodes[f][a] = nodes[f][a]
      BY <2>2
    <3> QED BY <1>0, <3>1, FewerLines, Zenon DEF LogsOf
  <2>5. \A q \in Loggers : Streaming(nodes, later, logs[q]) /\ Buffered(q, logs[q], counts[q])
    <3> TAKE q \in Loggers
    <3>1. Streaming(nodes, nms, logs[q]) /\ Buffered(q, logs[q], counts[q])
      BY <1>0 DEF LogsOf
    <3>2. \A e \in Days : logs[q].out \in Named(later, e) => logs[q].out \in Named(nms, e)
      BY <2>2
    <3> QED BY <3>1, <3>2, Zenon DEF Streaming
  <2>6. LogsKept(nodes, later, logs, counts)
    BY <1>0, <2>1, <2>3, <2>4, <2>5 DEF LogsKept, LogsTyped, LogsOf
  <2> QED BY <2>2, <2>6 DEF later
<1> QED BY <1>1, <1>2

\* flushing and opening, as the actions put them
LEMMA FlushedIs == ASSUME NEW p \in Loggers PROVE Flushed(p) = FlushedTo(inodes, log[p])
  BY Zenon DEF Flushed, FlushedTo

LEMMA RecordAfterFlush ==
  ASSUME NEW logs \in [Loggers -> Logs], NEW p \in Loggers, NEW l
  PROVE  [Emptied(logs, p) EXCEPT ![p] = l] = [logs EXCEPT ![p] = l]
  BY DEF Emptied

LEMMA OpenStep ==
  ASSUME LoggerInv, NEW p \in Loggers, NEW d \in Days, OpenFile(p, d, Flushed(p), "ready"), UNCHANGED <<lines, today>>
  PROVE  LogsKept(inodes', names', log', lines')
<1> DEFINE files == FlushedTo(inodes, log[p])
           logs == Emptied(log, p)
<1>1. LogsKept(files, names, logs, lines)
  BY FlushKeeps DEF LoggerInv
<1>2. LogsKept(Opens(files, names, d), OpensAs(files, names, d),
               [logs EXCEPT ![p] = Opened(OpensAs(files, names, d), d, "ready")], lines)
  <2> HIDE DEF files, logs
  <2>1. "ready" \in {"ready", "check"}
    OBVIOUS
  <2> QED BY <1>1, <2>1, OpenKeeps
<1>3. inodes' = Opens(files, names, d) /\ names' = OpensAs(files, names, d)
  BY FlushedIs, Zenon DEF OpenFile, Opens, OpensAs
<1>4. log' = [log EXCEPT ![p] = Opened(names', d, "ready")]
  BY Zenon DEF OpenFile, Opened
<1>5. log \in [Loggers -> Logs]
  BY DEF LoggerInv, LogsKept, LogsTyped
<1>6. log' = [logs EXCEPT ![p] = Opened(OpensAs(files, names, d), d, "ready")]
  <2> DEFINE l == Opened(OpensAs(files, names, d), d, "ready")
  <2>1. log' = [log EXCEPT ![p] = l]
    BY <1>3, <1>4, Zenon
  <2> HIDE DEF l
  <2>2. [Emptied(log, p) EXCEPT ![p] = l] = [log EXCEPT ![p] = l]
    BY <1>5, RecordAfterFlush
  <2>3. log' = [Emptied(log, p) EXCEPT ![p] = l]
    BY <2>1, <2>2, Zenon
  <2> QED BY <2>3 DEF l
<1> HIDE DEF files, logs
<1> QED BY <1>2, <1>3, <1>6

\* the line that submit writes next follows those that the stream holds
NextLine(p) == <<p, lines[p][today] + 1>>
WithNext(p) == Append(log[p].buf, NextLine(p))

LEMMA NextFollows ==
  ASSUME LoggerInv, NEW p \in Loggers, log[p].pc = "ready", log[p].day = today
  PROVE  /\ Following(inodes, names, p, log[p], WithNext(p))
         /\ \A b \in DOMAIN WithNext(p) : WithNext(p)[b][2] <= lines[p][today] + 1
         /\ ToSet(WithNext(p)) = ToSet(log[p].buf) \cup {NextLine(p)}
<1> DEFINE line == NextLine(p)
           w == WithNext(p)
<1>0. /\ inodes \in Seq(Seq(LogLines)) /\ names \in Names /\ log \in [Loggers -> Logs]
      /\ lines \in [Loggers -> [Days -> Nat]] /\ NewestFirst(inodes, names) /\ Ordered(inodes, names)
      /\ \A q \in Loggers : LogsOf(inodes, names, log, lines, q)
      /\ LogsKept(inodes, names, log, lines) /\ today \in Days
  BY DEF LoggerInv, LogsKept, LogsTyped
<1>1. log[p] \in Logs /\ lines[p][today] \in Nat /\ line \in LogLines
  BY <1>0 DEF LogLines, NextLine
<1>2. log[p].buf \in Seq(LogLines) /\ log[p].out # NoFile
  <2>1. log[p].out \in 1..Len(inodes)
    BY <1>0, Zenon DEF LogsOf, Streaming
  <2> QED BY <1>1, <2>1, LoggerAssumption DEF Logs
<1>3. w \in Seq(LogLines) /\ Len(w) = Len(log[p].buf) + 1 /\ w[Len(w)] = line
      /\ \A b \in 1..Len(log[p].buf) : w[b] = log[p].buf[b]
      /\ Len(log[p].buf) \in Nat /\ DOMAIN w = 1..Len(w) /\ DOMAIN log[p].buf = 1..Len(log[p].buf)
  BY <1>1, <1>2 DEF WithNext
<1>4. line[1] = p /\ line[2] = lines[p][today] + 1
  BY DEF NextLine
<1> HIDE DEF w, line
<1>5. /\ Following(inodes, names, p, log[p], log[p].buf)
      /\ \A b \in DOMAIN log[p].buf : log[p].buf[b][2] <= lines[p][today]
  BY <1>0, <1>2, StreamFollows
<1>6. \A b \in DOMAIN log[p].buf : log[p].buf[b][1] \in Loggers /\ log[p].buf[b][2] \in Nat
  BY <1>2 DEF LogLines
<1>7. \A b \in DOMAIN w : b \in DOMAIN log[p].buf \/ w[b] = line
  BY <1>3
<1>8. ASSUME NEW b \in DOMAIN w
      PROVE  /\ w[b][1] = p /\ w[b][2] <= lines[p][today] + 1 /\ w[b][2] \in Nat
             /\ \A a \in DOMAIN w : a < b => w[a][2] < w[b][2]
  <2>1. CASE w[b] = line /\ b = Len(w)
    <3>1. \A a \in DOMAIN w : a < b => a \in DOMAIN log[p].buf /\ w[a] = log[p].buf[a]
      BY <1>3, <2>1
    <3>2. w[b][2] = lines[p][today] + 1
      BY <1>4, <2>1
    <3>3. \A a \in DOMAIN w : a < b => w[a][2] < w[b][2]
      BY <1>1, <1>5, <1>6, <3>1, <3>2
    <3> QED BY <1>1, <1>4, <2>1, <3>2, <3>3
  <2>2. CASE b \in DOMAIN log[p].buf
    <3>1. w[b] = log[p].buf[b] /\ \A a \in DOMAIN w : a < b => a \in DOMAIN log[p].buf /\ w[a] = log[p].buf[a]
      BY <1>3, <2>2
    <3>2. w[b][1] = p /\ \A a \in DOMAIN w : a < b => w[a][2] < w[b][2]
      BY <1>5, <2>2, <3>1 DEF Following
    <3>3. w[b][2] <= lines[p][today] + 1 /\ w[b][2] \in Nat
      BY <1>1, <1>5, <1>6, <2>2, <3>1
    <3> QED BY <3>2, <3>3
  <2>3. b \in DOMAIN log[p].buf \/ (w[b] = line /\ b = Len(w))
    BY <1>3
  <2> QED BY <2>1, <2>2, <2>3
<1>9. \A g \in Named(names, today) : \A a \in DOMAIN inodes[g] :
           inodes[g][a][1] = p => inodes[g][a][2] <= lines[p][today] /\ inodes[g][a][2] \in Nat
  <2> TAKE g \in Named(names, today)
  <2> TAKE a \in DOMAIN inodes[g]
  <2>1. g \in 1..Len(inodes)
    BY <1>0, NamedIsFile
  <2>2. inodes[g][a][2] \in Nat
    BY <1>0, <2>1, LineTyped
  <2> QED BY <1>0, <2>2 DEF LogsOf, Counted
<1>10. Following(inodes, names, p, log[p], w)
  <2>1. ASSUME NEW g \in Named(names, today), NEW a \in DOMAIN inodes[g], NEW b \in DOMAIN w, inodes[g][a][1] = p
        PROVE  inodes[g][a][2] < w[b][2]
    <3>1. CASE b \in DOMAIN log[p].buf
      <4>1. inodes[g][a][2] < log[p].buf[b][2]
        BY <1>5, <2>1, <3>1, Zenon DEF Following
      <4>2. w[b] = log[p].buf[b]
        BY <1>3, <3>1
      <4> QED BY <4>1, <4>2
    <3>2. CASE w[b] = line
      BY <1>1, <1>4, <1>9, <2>1, <3>2
    <3> QED BY <1>7, <3>1, <3>2
  <2>2. /\ log[p].out \in 1..Len(inodes) /\ log[p].day \in Days
        /\ \A d \in Days : log[p].out \in Named(names, d) => d = log[p].day
    BY <1>5 DEF Following
  <2> QED BY <1>3, <1>8, <2>1, <2>2 DEF Following
<1>11. ToSet(w) = ToSet(log[p].buf) \cup {line}
  <2>1. ToSet(w) \subseteq ToSet(log[p].buf) \cup {line}
    BY <1>3, <1>7 DEF ToSet
  <2>2. ToSet(log[p].buf) \subseteq ToSet(w)
    <3>1. \A b \in DOMAIN log[p].buf : b \in DOMAIN w /\ w[b] = log[p].buf[b]
      BY <1>3
    <3> QED BY <3>1 DEF ToSet
  <2>3. Len(w) \in DOMAIN w
    BY <1>3
  <2> QED BY <1>3, <2>1, <2>2, <2>3 DEF ToSet
<1> QED BY <1>8, <1>10, <1>11 DEF w, line

LEMMA SubmitWrites ==
  ASSUME LoggerInv, NEW p \in Loggers, submit(p, TRUE)
  PROVE  inodes' = [inodes EXCEPT ![log[p].out] = @ \o WithNext(p)]
<1> DEFINE s == inodes[log[p].out]
           t == log[p].buf
           u == <<NextLine(p)>>
           w == WithNext(p)
<1>1. Following(inodes, names, p, log[p], w) /\ log[p] \in Logs /\ inodes \in Seq(Seq(LogLines))
  BY NextFollows DEF submit, LoggerInv, LogsKept, LogsTyped
<1>2. NextLine(p) \in LogLines
  BY DEF NextLine, LogLines, submit, LoggerInv, LogsKept, LogsTyped
<1>3. s \in Seq(LogLines) /\ t \in Seq(LogLines) /\ u \in Seq(LogLines)
  <2>1. log[p].out \in 1..Len(inodes)
    BY <1>1 DEF Following
  <2>2. s \in Seq(LogLines)
    BY <1>1, <2>1, ElementOfSeq
  <2>3. t \in Seq(LogLines)
    <3>1. log[p] \in Logs /\ log[p].pc = "ready"
      BY <1>1 DEF submit
    <3> QED BY <3>1 DEF Logs
  <2> QED BY <1>2, <2>2, <2>3
<1>4. w = t \o u
  BY <1>2, <1>3, AppendIsConcat DEF WithNext
<1>5. s \o t \o u = s \o w
  <2> HIDE DEF s, t, u, w
  <2>1. (s \o t) \o u = s \o (t \o u)
    BY <1>3, ConcatAssociative
  <2> QED BY <1>4, <2>1, Zenon
<1>6. inodes' = [inodes EXCEPT ![log[p].out] = @ \o log[p].buf \o <<NextLine(p)>>]
  BY Zenon DEF submit, NextLine
<1> QED BY <1>5, <1>6

LEMMA SubmitStep ==
  ASSUME LoggerInv, NEW p \in Loggers, NEW flush \in BOOLEAN, submit(p, flush)
  PROVE  LogsKept(inodes', names', log', lines')
<1> DEFINE w == WithNext(p)
           count == [lines[p] EXCEPT ![today] = @ + 1]
<1>0. /\ inodes \in Seq(Seq(LogLines)) /\ names \in Names /\ log \in [Loggers -> Logs]
      /\ lines \in [Loggers -> [Days -> Nat]] /\ NewestFirst(inodes, names) /\ Ordered(inodes, names)
      /\ \A q \in Loggers : LogsOf(inodes, names, log, lines, q)
      /\ LogsKept(inodes, names, log, lines) /\ today \in Days
  BY DEF LoggerInv, LogsKept, LogsTyped
<1>1. log[p].pc = "ready" /\ log[p].day = today /\ names' = names /\ lines' = [lines EXCEPT ![p][today] = @ + 1]
  BY DEF submit
<1>2. log[p] \in Logs /\ lines[p][today] \in Nat
  BY <1>0
<1>3. count \in [Days -> Nat] /\ lines' = [lines EXCEPT ![p] = count] /\ count[today] = lines[p][today] + 1
      /\ \A d \in Days : lines[p][d] <= count[d]
  BY <1>0, <1>1
<1> HIDE DEF w, count
<1>4. Following(inodes, names, p, log[p], w) /\ \A b \in DOMAIN w : w[b][2] <= lines[p][today] + 1
  BY <1>1, NextFollows DEF w
<1>5. w \in Seq(LogLines)
  BY <1>4 DEF Following
<1>6. \A b \in DOMAIN w : w[b][1] = p /\ w[b][2] <= count[today] /\ \A a \in DOMAIN w : a < b => w[a][2] < w[b][2]
  BY <1>3, <1>4 DEF Following
<1>7. \A q \in Loggers \ {p} : LogsOf(inodes, names, log, lines, q)
  BY <1>0
<1>8. CASE ~flush
  <2> DEFINE l == [log[p] EXCEPT !.buf = w, !.pc = "check"]
  <2>1. inodes' = inodes /\ log' = [log EXCEPT ![p] = l]
    BY <1>0, <1>8, Zenon DEF submit, w, WithNext, NextLine
  <2>2. l \in Logs /\ l.pc = "check" /\ l.buf = w /\ l.day = today /\ l.out = log[p].out
    BY <1>1, <1>2, <1>5 DEF Logs, LogSteps
  <2> HIDE DEF l
  <2>3. Streaming(inodes, names, l)
    BY <1>1, <1>4, <2>2 DEF Streaming, Following
  <2>4. Buffered(p, l, count)
    BY <1>6, <2>2 DEF Buffered
  <2>5. Counted(inodes, names, p, count)
    <3> SUFFICES ASSUME NEW d \in Days, NEW g \in Named(names, d), NEW a \in DOMAIN inodes[g], inodes[g][a][1] = p
                 PROVE  inodes[g][a][2] <= count[d]
      BY DEF Counted
    <3>1. g \in 1..Len(inodes)
      BY <1>0, NamedIsFile
    <3>2. inodes[g][a][2] \in Nat
      BY <1>0, <3>1, LineTyped
    <3>3. inodes[g][a][2] <= lines[p][d]
      BY <1>0 DEF LogsOf, Counted
    <3>4. lines[p][d] \in Nat /\ count[d] \in Nat /\ lines[p][d] <= count[d]
      BY <1>0, <1>3
    <3>5. \A x, y, z \in Nat : x <= y /\ y <= z => x <= z
      OBVIOUS
    <3> QED BY <3>2, <3>3, <3>4, <3>5, Zenon
  <2>6. Behind(inodes, names, p, l)
    <3>1. Behind(inodes, names, p, log[p])
      BY <1>0 DEF LogsOf
    <3> QED BY <1>1, <1>4, <2>2, <3>1 DEF Behind, Following
  <2>7. LogsKept(inodes, names, [log EXCEPT ![p] = l], [lines EXCEPT ![p] = count])
    BY <1>0, <1>3, <1>7, <2>2, <2>3, <2>4, <2>5, <2>6, OneLogChanges
  <2> QED BY <1>1, <1>3, <2>1, <2>7
<1>9. CASE flush
  <2> DEFINE l == [log[p] EXCEPT !.buf = <<>>, !.pc = "check"]
  <2>1. inodes' = [inodes EXCEPT ![log[p].out] = @ \o w] /\ log' = [log EXCEPT ![p] = l]
    <3>1. submit(p, TRUE)
      BY <1>9
    <3>2. log' = [log EXCEPT ![p] = l]
      BY <1>9, Zenon DEF submit
    <3> QED BY <3>1, <3>2, SubmitWrites DEF w
  <2>2. l \in Logs /\ l.pc = "check" /\ l.buf = <<>> /\ l.day = today /\ l.out = log[p].out
    <3>1. <<>> \in Seq(LogLines)
      OBVIOUS
    <3> QED BY <1>1, <1>2, <3>1 DEF Logs, LogSteps
  <2> HIDE DEF l
  <2>3. Written(inodes, names, log, lines, p, w, inodes')
    BY <1>0, <1>4, <2>1, Appended
  <2>4. /\ inodes' \in Seq(Seq(LogLines)) /\ Len(inodes') = Len(inodes) /\ Ordered(inodes', names)
        /\ \A q \in Loggers \ {p} : Counted(inodes', names, q, lines[q]) /\ Behind(inodes', names, q, log[q])
        /\ \A g \in Named(names, today) : \A a \in DOMAIN inodes'[g] : inodes'[g][a][1] = p => g <= log[p].out
        /\ (\A d \in Days : lines[p][d] <= count[d]) /\ (\A b \in DOMAIN w : w[b][2] <= count[today]) => Counted(inodes', names, p, count)
    BY <1>1, <1>3, <2>3 DEF Written
  <2>5. Counted(inodes', names, p, count)
    BY <1>3, <1>6, <2>4
  <2>6. Streaming(inodes', names, l)
    BY <1>1, <1>4, <2>2, <2>4 DEF Streaming, Following
  <2>7. Buffered(p, l, count) /\ Behind(inodes', names, p, l)
    <3>1. DOMAIN l.buf = {}
      BY <2>2
    <3> QED BY <2>2, <2>4, <3>1 DEF Buffered, Behind
  <2>8. NewestFirst(inodes', names)
    BY <1>0, <2>4, Zenon DEF NewestFirst
  <2>9. \A q \in Loggers \ {p} : LogsOf(inodes', names, log, lines, q)
    <3> TAKE q \in Loggers \ {p}
    <3>1. Streaming(inodes', names, log[q])
      BY <1>0, <2>4, Zenon DEF LogsOf, Streaming
    <3> QED BY <1>0, <2>4, <3>1 DEF LogsOf
  <2> DEFINE later == inodes'
  <2>10. LogsKept(later, names, [log EXCEPT ![p] = l], [lines EXCEPT ![p] = count])
    <3>1. later \in Seq(Seq(LogLines)) /\ Ordered(later, names) /\ NewestFirst(later, names)
      BY <2>4, <2>8
    <3>2. Streaming(later, names, l) /\ Buffered(p, l, count) /\ Counted(later, names, p, count) /\ Behind(later, names, p, l)
      BY <2>5, <2>6, <2>7
    <3>3. \A q \in Loggers \ {p} : LogsOf(later, names, log, lines, q)
      BY <2>9
    <3> HIDE DEF later
    <3> QED BY <1>0, <1>3, <2>2, <3>1, <3>2, <3>3, OneLogChanges
  <2> QED BY <1>1, <1>3, <2>1, <2>10
<1> QED BY <1>8, <1>9

LEMMA ConfigureStep ==
  ASSUME LoggerInv, NEW p \in Loggers, Configure(p)
  PROVE  LogsKept(inodes', names', log', lines')
<1>1. Streaming(inodes, names, log[p]) /\ log[p].pc = "off" /\ today \in Days
  BY DEF LoggerInv, LogsKept, LogsOf, Configure
<1>2. log[p].out = NoFile
  BY <1>1, Zenon DEF Streaming
<1>3. Flushed(p) = inodes
  BY <1>2 DEF Flushed
<1>4. OpenFile(p, today, Flushed(p), "ready")
  BY <1>3 DEF Configure
<1>5. UNCHANGED <<lines, today>>
  BY DEF Configure
<1> QED BY <1>1, <1>4, <1>5, OpenStep

LEMMA ReopenStep ==
  ASSUME LoggerInv, NEW p \in Loggers, Reopen(p)
  PROVE  LogsKept(inodes', names', log', lines')
<1>1. Streaming(inodes, names, log[p]) /\ log[p].pc = "reopen"
  BY DEF LoggerInv, LogsKept, LogsOf, Reopen
<1>2. log[p].out = NoFile /\ log[p].day \in Days
  BY <1>1, Zenon DEF Streaming
<1>3. Flushed(p) = inodes
  BY <1>2 DEF Flushed
<1>4. OpenFile(p, log[p].day, Flushed(p), "ready")
  BY <1>3 DEF Reopen
<1>5. UNCHANGED <<lines, today>>
  BY DEF Reopen
<1> QED BY <1>2, <1>4, <1>5, OpenStep

\* p flushes its stream and lets go of it
LEMMA FlushAndLetGo ==
  ASSUME LoggerInv, NEW p \in Loggers, NEW l \in Logs, l.out = NoFile, l.buf = <<>>, l.pc \notin {"ready", "check"},
         l.pc = "off" => l.day = 0, l.pc # "off" => l.day \in Days, l.pc = "shift" => l.i \in 0..(RotateFiles - 1)
  PROVE  LogsKept(Flushed(p), names, [log EXCEPT ![p] = l], lines)
<1> DEFINE files == FlushedTo(inodes, log[p])
           logs == Emptied(log, p)
<1>1. LogsKept(files, names, logs, lines)
  BY FlushKeeps DEF LoggerInv
<1>2. LogsKept(files, names, [logs EXCEPT ![p] = l], lines)
  <2> HIDE DEF files, logs
  <2> QED BY <1>1, LetsGo
<1>3. log \in [Loggers -> Logs]
  BY DEF LoggerInv, LogsKept, LogsTyped
<1>4. [logs EXCEPT ![p] = l] = [log EXCEPT ![p] = l]
  BY <1>3, RecordAfterFlush
<1>5. Flushed(p) = files
  BY FlushedIs
<1> HIDE DEF files, logs
<1> QED BY <1>2, <1>4, <1>5

LEMMA ClosedLog == Closed \in Logs /\ Closed.pc = "off" /\ Closed.day = 0 /\ Closed.out = NoFile /\ Closed.buf = <<>>
<1>1. <<>> \in Seq(LogLines)
  OBVIOUS
<1> QED BY <1>1 DEF Closed, Logs, LogSteps

LEMMA CheckStep ==
  ASSUME LoggerInv, NEW p \in Loggers, CheckSize(p)
  PROVE  LogsKept(inodes', names', log', lines')
<1>0. /\ log \in [Loggers -> Logs] /\ LogsKept(inodes, names, log, lines)
      /\ LogsOf(inodes, names, log, lines, p) /\ log[p].pc = "check" /\ names' = names /\ lines' = lines
  BY DEF LoggerInv, LogsKept, LogsTyped, CheckSize
<1>1. log[p] \in Logs /\ log[p].day \in Days
  BY <1>0, Zenon DEF LogsOf, Streaming
<1> DEFINE ready == [log[p] EXCEPT !.pc = "ready"]
           full == [log[p] EXCEPT !.pc = "shift", !.out = NoFile, !.buf = <<>>, !.i = RotateFiles - 1]
<1>2. CASE log' = [log EXCEPT ![p] = ready] /\ inodes' = inodes
  <2>1. ready \in Logs /\ ready.pc = "ready" /\ ready.day = log[p].day /\ ready.out = log[p].out /\ ready.buf = log[p].buf
    BY <1>1 DEF Logs, LogSteps
  <2> HIDE DEF ready
  <2>2. Streaming(inodes, names, ready)
    BY <1>0, <2>1 DEF LogsOf, Streaming
  <2>3. Buffered(p, ready, lines[p]) /\ Behind(inodes, names, p, ready)
    BY <1>0, <2>1, Zenon DEF LogsOf, Buffered, Behind
  <2>4. LogsKept(inodes, names, [log EXCEPT ![p] = ready], lines)
    BY <1>0, <2>1, <2>2, <2>3, OnlyRecord
  <2> QED BY <1>0, <1>2, <2>4
<1>3. CASE log' = [log EXCEPT ![p] = full] /\ inodes' = Flushed(p)
  <2>1. RotateFiles - 1 \in Nat /\ RotateFiles - 1 \in 0..(RotateFiles - 1) /\ <<>> \in Seq(LogLines)
    BY LoggerAssumption
  <2>2. /\ full \in Logs /\ full.pc = "shift" /\ full.day \in Days /\ full.out = NoFile /\ full.buf = <<>>
        /\ full.i \in 0..(RotateFiles - 1)
    BY <1>1, <2>1 DEF Logs, LogSteps
  <2> HIDE DEF full
  <2>3. LogsKept(Flushed(p), names, [log EXCEPT ![p] = full], lines)
    BY <2>2, FlushAndLetGo
  <2> QED BY <1>0, <1>3, <2>3
<1>4. \/ log' = [log EXCEPT ![p] = ready] /\ inodes' = inodes
      \/ log' = [log EXCEPT ![p] = full] /\ inodes' = Flushed(p)
  BY <1>0 DEF CheckSize
<1> QED BY <1>2, <1>3, <1>4

LEMMA ShiftStep ==
  ASSUME LoggerInv, NEW p \in Loggers, Shift(p)
  PROVE  LogsKept(inodes', names', log', lines')
<1>0. /\ log \in [Loggers -> Logs] /\ LogsKept(inodes, names, log, lines)
      /\ LogsOf(inodes, names, log, lines, p) /\ log[p].pc = "shift" /\ inodes' = inodes /\ lines' = lines
  BY DEF LoggerInv, LogsKept, LogsTyped, Shift
<1> DEFINE d == log[p].day
           i == log[p].i
           later == Shifted(names, d, i)
           l == IF i = 0 THEN [log[p] EXCEPT !.pc = "reopen"] ELSE [log[p] EXCEPT !.i = i - 1]
<1>1. log[p] \in Logs /\ d \in Days /\ i \in 0..(RotateFiles - 1) /\ log[p].out = NoFile /\ log[p].buf = <<>>
  BY <1>0, Zenon DEF LogsOf, Streaming
<1>2. LogsKept(inodes, later, log, lines)
  BY <1>0, <1>1, ShiftKeeps
<1>3. names' = later
  BY <1>0, Zenon DEF Shift, Shifted
<1>4. log' = [log EXCEPT ![p] = l]
  BY <1>0 DEF Shift
<1>5. /\ l \in Logs /\ l.out = NoFile /\ l.buf = <<>> /\ l.day = d /\ l.pc \in {"shift", "reopen"}
      /\ l.pc = "shift" => l.i \in 0..(RotateFiles - 1)
  <2>1. CASE i = 0
    BY <1>0, <1>1, <2>1 DEF Logs, LogSteps
  <2>2. CASE i # 0
    <3>1. i - 1 \in 0..(RotateFiles - 1) /\ i - 1 \in Nat
      BY <1>1, <2>2, LoggerAssumption
    <3> QED BY <1>0, <1>1, <2>2, <3>1 DEF Logs, LogSteps
  <2> QED BY <2>1, <2>2
<1> HIDE DEF l, later
<1>6. l.pc \notin {"ready", "check"} /\ l.pc # "off" /\ l.day \in Days
  BY <1>1, <1>5
<1>7. LogsKept(inodes, later, [log EXCEPT ![p] = l], lines)
  BY <1>2, <1>5, <1>6, LetsGo
<1> QED BY <1>0, <1>3, <1>4, <1>7

LEMMA EndSteps ==
  ASSUME LoggerInv, NEW p \in Loggers, CloseLogger(p) \/ LoggerDies(p)
  PROVE  LogsKept(inodes', names', log', lines')
<1>1. CASE CloseLogger(p)
  <2>1. LogsKept(Flushed(p), names, [log EXCEPT ![p] = Closed], lines)
    BY ClosedLog, FlushAndLetGo
  <2> QED BY <1>1, <2>1 DEF CloseLogger
<1>2. CASE LoggerDies(p)
  <2>1. LogsKept(inodes, names, [log EXCEPT ![p] = Closed], lines)
    BY ClosedLog, LetsGo DEF LoggerInv
  <2> QED BY <1>2, <2>1 DEF LoggerDies
<1> QED BY <1>1, <1>2

LEMMA LoggerStart == LoggerInit => LoggerInv
<1> SUFFICES ASSUME LoggerInit PROVE LoggerInv
  OBVIOUS
<1>1. inodes = <<>> /\ today \in Days /\ alone \in BOOLEAN
  BY LoggerAssumption DEF LoggerInit, Days
<1>2. inodes \in Seq(Seq(LogLines)) /\ names \in Names /\ log \in [Loggers -> Logs] /\ lines \in [Loggers -> [Days -> Nat]]
  <2>1. log \in [Loggers -> Logs]
    BY ClosedLog DEF LoggerInit
  <2> QED BY <1>1, <2>1 DEF LoggerInit, Names, Days
<1>3. \A d \in Days : Named(names, d) = {}
  BY DEF LoggerInit, Named, Days
<1>4. NewestFirst(inodes, names) /\ Ordered(inodes, names)
  BY <1>3 DEF LoggerInit, NewestFirst, Ordered, Days
<1>5. \A p \in Loggers : LogsOf(inodes, names, log, lines, p)
  <2> TAKE p \in Loggers
  <2>1. log[p].pc = "off" /\ log[p].day = 0 /\ log[p].out = NoFile /\ log[p].buf = <<>>
    BY ClosedLog DEF LoggerInit
  <2>2. DOMAIN log[p].buf = {} /\ 0 \notin Days
    BY <2>1 DEF Days
  <2>3. Streaming(inodes, names, log[p])
    BY <2>1, Zenon DEF Streaming
  <2> QED BY <1>3, <2>1, <2>2, <2>3 DEF LogsOf, Buffered, Counted, Behind
<1> QED BY <1>1, <1>2, <1>4, <1>5 DEF LoggerInv, LogsKept, LogsTyped

LEMMA LoggerStep == LoggerInv /\ [LoggerNext]_loggerVars => LoggerInv'
<1> SUFFICES ASSUME LoggerInv, [LoggerNext]_loggerVars PROVE LoggerInv'
  OBVIOUS
<1>0. today \in Days /\ alone \in BOOLEAN /\ LogsKept(inodes, names, log, lines)
  BY DEF LoggerInv
<1>1. ASSUME NEW p \in Loggers, Configure(p) PROVE LoggerInv'
  BY <1>0, <1>1, ConfigureStep DEF Configure, LoggerInv
<1>2. ASSUME NEW p \in Loggers, roll_to_today(p) PROVE LoggerInv'
  <2>1. LogsKept(inodes', names', log', lines')
    BY <1>0, <1>2, OpenStep DEF roll_to_today
  <2> QED BY <1>0, <1>2, <2>1 DEF roll_to_today, LoggerInv
<1>3. ASSUME NEW p \in Loggers, NEW flush \in BOOLEAN, submit(p, flush) PROVE LoggerInv'
  BY <1>0, <1>3, SubmitStep DEF submit, LoggerInv
<1>4. ASSUME NEW p \in Loggers, CheckSize(p) PROVE LoggerInv'
  BY <1>0, <1>4, CheckStep DEF CheckSize, LoggerInv
<1>5. ASSUME NEW p \in Loggers, Shift(p) PROVE LoggerInv'
  BY <1>0, <1>5, ShiftStep DEF Shift, LoggerInv
<1>6. ASSUME NEW p \in Loggers, Reopen(p) PROVE LoggerInv'
  BY <1>0, <1>6, ReopenStep DEF Reopen, LoggerInv
<1>7. ASSUME NEW p \in Loggers, CloseLogger(p) PROVE LoggerInv'
  BY <1>0, <1>7, EndSteps DEF CloseLogger, LoggerInv
<1>8. ASSUME NEW p \in Loggers, LoggerDies(p) PROVE LoggerInv'
  BY <1>0, <1>8, EndSteps DEF LoggerDies, LoggerInv
<1>9. CASE Midnight
  BY <1>0, <1>9, LoggerAssumption DEF Midnight, LoggerInv, Days
<1>10. CASE UNCHANGED loggerVars
  BY <1>0, <1>10 DEF loggerVars, LoggerInv
<1> QED BY <1>1, <1>2, <1>3, <1>4, <1>5, <1>6, <1>7, <1>8, <1>9, <1>10 DEF LoggerNext

\* what a reader finds under a name, in terms of the invariant
LEMMA ReadersOrder == LoggerInv => LinesInOrder
<1> SUFFICES ASSUME LoggerInv PROVE LinesInOrder
  OBVIOUS
<1>0. NewestFirst(inodes, names) /\ Ordered(inodes, names) /\ names \in Names
  BY DEF LoggerInv, LogsKept, LogsTyped
<1>1. ASSUME NEW d \in Days, NEW i \in Slots, NEW a \in DOMAIN Content(d, i)
      PROVE  /\ names[d][i] # NoFile /\ Content(d, i) = inodes[names[d][i]]
             /\ names[d][i] \in Named(names, d) /\ names[d][i] \in Nat
  <2>1. names[d][i] # NoFile /\ Content(d, i) = inodes[names[d][i]]
    BY DEF Content
  <2>2. names[d][i] \in Named(names, d)
    BY <2>1 DEF Named
  <2> QED BY <1>0, <2>1, <2>2, NamedIsFile
<1>2. ASSUME NEW d \in Days, NEW i \in Slots, NEW j \in Slots,
             NEW a \in DOMAIN Content(d, i), NEW b \in DOMAIN Content(d, j),
             ReadBefore(i, a, j, b), Content(d, i)[a][1] = Content(d, j)[b][1]
      PROVE  Content(d, i)[a][2] < Content(d, j)[b][2]
  <2>1. names[d][i] < names[d][j] \/ (names[d][i] = names[d][j] /\ a < b)
    BY <1>0, <1>1, <1>2 DEF ReadBefore, NewestFirst
  <2> QED BY <1>0, <1>1, <1>2, <2>1 DEF Ordered
\* what a stream holds is newer than what its process has in the files
<1>3. ASSUME NEW p \in Loggers, log[p].day # 0, NEW i \in Slots,
             NEW a \in DOMAIN Content(log[p].day, i), NEW b \in DOMAIN log[p].buf,
             Content(log[p].day, i)[a][1] = p
      PROVE  Content(log[p].day, i)[a][2] < log[p].buf[b][2]
  <2>1. Streaming(inodes, names, log[p]) /\ Behind(inodes, names, p, log[p])
    BY DEF LoggerInv, LogsKept, LogsOf
  <2>2. log[p].day \in Days
    BY <1>3, <2>1, Zenon DEF Streaming
  <2>3. Content(log[p].day, i) = inodes[names[log[p].day][i]] /\ names[log[p].day][i] \in Named(names, log[p].day)
    BY <1>1, <2>2
  <2> QED BY <1>3, <2>1, <2>2, <2>3 DEF Behind
<1> QED BY <1>2, <1>3 DEF LinesInOrder, Days

(* However the renames of several processes' maybe_rotate interleave, and     *)
(* although each goes on writing to files that another has renamed, the lines *)
(* of a process read, from the oldest name of a day down, in the order in     *)
(* which submit wrote them, and what a stream holds follows what its process  *)
(* has in the files: for any number of processes, files and days.             *)
THEOREM LinesStayInOrder == LoggerSpec => []LinesInOrder
<1>1. LoggerInit => LoggerInv
  BY LoggerStart
<1>2. LoggerInv /\ [LoggerNext]_loggerVars => LoggerInv'
  BY LoggerStep
<1>3. LoggerInv => LinesInOrder
  BY ReadersOrder
<1> QED BY <1>1, <1>2, <1>3, PTL DEF LoggerSpec
----------------------------------------------------------------------------
(* Rotation, while no two loggers are at work at once.                        *)

Held(nodes, nms, l, p, d, n) ==
    \/ \E f \in Named(nms, d) : <<p, n>> \in ToSet(nodes[f])
    \/ l.day = d /\ <<p, n>> \in ToSet(l.buf)

\* the name that the rotation of l has just freed
Gap(l, d, j) ==
    l.day = d /\ ((l.pc = "shift" /\ j = l.i + 1) \/ (l.pc = "reopen" /\ j = 0))

\* names are used from the smallest number up, but for the one just freed, and the
\* name without number is that of the file being written
NamesFit(nms, l) ==
    /\ \A d \in Days : \A i, j \in Slots : j < i /\ nms[d][i] # NoFile => nms[d][j] # NoFile \/ Gap(l, d, j)
    /\ \A d \in Days : \A j \in Slots : Gap(l, d, j) /\ j < RotateFiles => nms[d][j] = NoFile
    /\ l.pc \in {"ready", "check"} => nms[l.day][0] = l.out
    /\ l.pc = "shift" => nms[l.day][0] # NoFile

Full(nms, l, d) == \A i \in 1..RotateFiles : nms[d][i] # NoFile \/ Gap(l, d, i)

\* a process's lines are held from some number on; from 1 on unless all names are used
LinesFit(nodes, nms, logs, counts, l) ==
    \A q \in Loggers, d \in Days :
        /\ \A n, m \in 1..counts[q][d] :
              n <= m /\ Held(nodes, nms, logs[q], q, d, n) => Held(nodes, nms, logs[q], q, d, m)
        /\ (\E n \in 1..counts[q][d] : ~Held(nodes, nms, logs[q], q, d, n)) => Full(nms, l, d)

OnlyBy(logs, p) == \A q \in Loggers \ {p} : logs[q].pc = "off"

LogAlone(nodes, nms, logs, counts, p) ==
    OnlyBy(logs, p) /\ NamesFit(nms, logs[p]) /\ LinesFit(nodes, nms, logs, counts, logs[p])

RotatesAlone(nodes, nms, logs, counts) ==
    /\ \A p \in Loggers : logs[p].pc # "off" => OnlyBy(logs, p)
    /\ \A p \in Loggers : OnlyBy(logs, p) => LogAlone(nodes, nms, logs, counts, p)

RotationInv == alone => RotatesAlone(inodes, names, log, lines)

LEMMA InConcat ==
  ASSUME NEW S, NEW s \in Seq(S), NEW t \in Seq(S)
  PROVE  ToSet(s \o t) = ToSet(s) \cup ToSet(t)
<1> DEFINE u == s \o t
<1>1. /\ DOMAIN s = 1..Len(s) /\ DOMAIN t = 1..Len(t) /\ DOMAIN u = 1..(Len(s) + Len(t))
      /\ Len(s) \in Nat /\ Len(t) \in Nat
      /\ \A a \in 1..Len(s) : u[a] = s[a]
      /\ \A a \in 1..(Len(s) + Len(t)) : a > Len(s) => a - Len(s) \in 1..Len(t) /\ u[a] = t[a - Len(s)]
      /\ \A b \in 1..Len(t) : b + Len(s) \in DOMAIN u /\ u[b + Len(s)] = t[b]
  OBVIOUS
<1> HIDE DEF u
<1>2. ToSet(u) \subseteq ToSet(s) \cup ToSet(t)
  <2> SUFFICES ASSUME NEW a \in DOMAIN u PROVE u[a] \in ToSet(s) \cup ToSet(t)
    BY DEF ToSet
  <2>1. CASE a \in 1..Len(s)
    BY <1>1, <2>1 DEF ToSet
  <2>2. CASE a \notin 1..Len(s)
    <3>1. a \in 1..(Len(s) + Len(t)) /\ a > Len(s)
      BY <1>1, <2>2
    <3>2. a - Len(s) \in DOMAIN t /\ u[a] = t[a - Len(s)]
      BY <1>1, <3>1
    <3> QED BY <3>2 DEF ToSet
  <2> QED BY <2>1, <2>2
<1>3. ToSet(s) \subseteq ToSet(u)
  <2>1. \A a \in DOMAIN s : a \in DOMAIN u /\ u[a] = s[a]
    BY <1>1
  <2> QED BY <2>1 DEF ToSet
<1>4. ToSet(t) \subseteq ToSet(u)
  BY <1>1 DEF ToSet
<1> QED BY <1>2, <1>3, <1>4 DEF u

\* p may write w to the file it has open, and who has which lines then
CanWrite(nodes, nms, logs, p, w) ==
    /\ nodes \in Seq(Seq(LogLines)) /\ NewestFirst(nodes, nms) /\ logs \in [Loggers -> Logs]
    /\ w \in Seq(LogLines) /\ Following(nodes, nms, p, logs[p], w)
    /\ logs[p].out \in Named(nms, logs[p].day)
    /\ ToSet(logs[p].buf) \subseteq ToSet(w)

HeldAfter(nodes, nms, logs, p, w, more, later) ==
    \A q \in Loggers, d \in Days : \A n \in Nat :
        Held(more, nms, later[q], q, d, n)
            <=> Held(nodes, nms, logs[q], q, d, n) \/ (q = p /\ d = logs[p].day /\ <<p, n>> \in ToSet(w))

LEMMA WriteHolds ==
  ASSUME NEW nodes, NEW nms, NEW logs, NEW p \in Loggers, NEW w, CanWrite(nodes, nms, logs, p, w),
         NEW l, l.buf = <<>>, NEW more, more = [nodes EXCEPT ![logs[p].out] = @ \o w],
         NEW later, later = [logs EXCEPT ![p] = l]
  PROVE  HeldAfter(nodes, nms, logs, p, w, more, later)
<1>0. /\ nodes \in Seq(Seq(LogLines)) /\ NewestFirst(nodes, nms) /\ logs \in [Loggers -> Logs]
      /\ w \in Seq(LogLines) /\ Following(nodes, nms, p, logs[p], w)
      /\ logs[p].out \in Named(nms, logs[p].day)
      /\ ToSet(logs[p].buf) \subseteq ToSet(w)
  BY DEF CanWrite
<1> USE <1>0
<1> SUFFICES ASSUME NEW q \in Loggers, NEW d \in Days, NEW n \in Nat
             PROVE  Held(more, nms, later[q], q, d, n)
                        <=> Held(nodes, nms, logs[q], q, d, n) \/ (q = p /\ d = logs[p].day /\ <<p, n>> \in ToSet(w))
  BY DEF HeldAfter
<1> DEFINE o == logs[p].out
<1>1. /\ o \in 1..Len(nodes) /\ \A e \in Days : o \in Named(nms, e) => e = logs[p].day
      /\ \A b \in DOMAIN w : w[b][1] = p
  BY DEF Following
<1>2. \A f \in 1..Len(nodes) : \A x : x \in ToSet(more[f]) <=> x \in ToSet(nodes[f]) \/ (f = o /\ x \in ToSet(w))
  <2> TAKE f \in 1..Len(nodes)
  <2>1. CASE f = o
    <3>1. nodes[o] \in Seq(LogLines) /\ more[f] = nodes[o] \o w
      BY <1>1, <2>1, ElementOfSeq
    <3>2. ToSet(nodes[o] \o w) = ToSet(nodes[o]) \cup ToSet(w)
      BY <3>1, InConcat
    <3> QED BY <2>1, <3>1, <3>2
  <2>2. CASE f # o
    BY <2>2
  <2> QED BY <2>1, <2>2
<1>3. \A r, k : <<r, k>> \in ToSet(w) => r = p
  BY <1>1 DEF ToSet
<1>4. \A e \in Days : \A f \in Named(nms, e) : f \in 1..Len(nodes)
  BY DEF NewestFirst
<1>5. ToSet(l.buf) = {}
  BY DEF ToSet
<1>6. q # p => later[q] = logs[q]
  OBVIOUS
<1>7. later[p] = l
  OBVIOUS
<1>8. CASE q # p
  <2>1. \A f \in Named(nms, d) : <<q, n>> \in ToSet(more[f]) <=> <<q, n>> \in ToSet(nodes[f])
    BY <1>2, <1>3, <1>4, <1>8, Zenon
  <2> QED BY <1>6, <1>8, <2>1 DEF Held
<1>9. CASE q = p /\ d # logs[p].day
  <2>1. o \notin Named(nms, d)
    BY <1>1, <1>9
  <2>2. \A f \in Named(nms, d) : <<p, n>> \in ToSet(more[f]) <=> <<p, n>> \in ToSet(nodes[f])
    BY <1>2, <1>4, <2>1, Zenon
  <2> QED BY <1>5, <1>7, <1>9, <2>2 DEF Held
<1>10. CASE q = p /\ d = logs[p].day
  <2>1. <<p, n>> \in ToSet(w) => <<p, n>> \in ToSet(more[o])
    BY <1>1, <1>2, Zenon
  <2>2. \A f \in Named(nms, d) : <<p, n>> \in ToSet(more[f]) <=> <<p, n>> \in ToSet(nodes[f]) \/ (f = o /\ <<p, n>> \in ToSet(w))
    BY <1>2, <1>4, Zenon
  <2> QED BY <1>5, <1>7, <1>10, <2>1, <2>2 DEF Held
<1> QED BY <1>8, <1>9, <1>10

\* opening a file loses nothing, and finds nothing
LEMMA OpenHolds ==
  ASSUME NEW nodes, NEW nms, NEW logs, NEW counts, LogsKept(nodes, nms, logs, counts), NEW p \in Loggers,
         logs[p].buf = <<>>, NEW d \in Days, NEW l \in Logs, l.buf = <<>>,
         NEW q \in Loggers, NEW e \in Days, NEW n \in Nat
  PROVE  Held(Opens(nodes, nms, d), OpensAs(nodes, nms, d), [logs EXCEPT ![p] = l][q], q, e, n)
             <=> Held(nodes, nms, logs[q], q, e, n)
<1> DEFINE more == Opens(nodes, nms, d)
           renamed == OpensAs(nodes, nms, d)
           later == [logs EXCEPT ![p] = l]
<1>1. /\ nodes \in Seq(Seq(LogLines)) /\ nms \in Names /\ logs \in [Loggers -> Logs] /\ NewestFirst(nodes, nms)
  BY DEF LogsKept, LogsTyped
<1>2. (q # p => later[q] = logs[q]) /\ later[p] = l
  BY <1>1
<1> HIDE DEF later
<1>3. ToSet(l.buf) = {} /\ ToSet(logs[p].buf) = {}
  BY DEF ToSet
<1>4. later[q].day = e /\ <<q, n>> \in ToSet(later[q].buf) <=> logs[q].day = e /\ <<q, n>> \in ToSet(logs[q].buf)
  <2>1. CASE q = p
    BY <1>2, <1>3, <2>1
  <2>2. CASE q # p
    BY <1>2, <2>2
  <2> QED BY <2>1, <2>2
<1>5. (\E f \in Named(renamed, e) : <<q, n>> \in ToSet(more[f])) <=> (\E f \in Named(nms, e) : <<q, n>> \in ToSet(nodes[f]))
  <2>1. CASE nms[d][0] # NoFile
    BY <2>1 DEF Opens, OpensAs
  <2>2. CASE nms[d][0] = NoFile
    <3>1. more = Append(nodes, <<>>) /\ renamed = [nms EXCEPT ![d][0] = Len(nodes) + 1]
      BY <2>2 DEF Opens, OpensAs
    <3> HIDE DEF more, renamed
    <3>2. FileAdded(nodes, nms, d, more, renamed)
      BY <1>1, <2>2, <3>1, NewFile
    <3>3. /\ \A g \in 1..Len(nodes) : more[g] = nodes[g]
          /\ more[Len(nodes) + 1] = <<>>
          /\ Named(renamed, e) = Named(nms, e) \cup (IF e = d THEN {Len(nodes) + 1} ELSE {})
      BY <3>2 DEF FileAdded
    <3>4. \A f \in Named(nms, e) : f \in 1..Len(nodes)
      BY <1>1 DEF NewestFirst
    <3>5. ToSet(more[Len(nodes) + 1]) = {}
      BY <3>3 DEF ToSet
    <3>6. \A f \in Named(nms, e) : more[f] = nodes[f]
      BY <3>3, <3>4
    <3>7. \A f \in Named(renamed, e) : f \in Named(nms, e) \/ f = Len(nodes) + 1
      BY <3>3
    <3>8. Named(nms, e) \subseteq Named(renamed, e)
      BY <3>3
    <3> QED BY <3>5, <3>6, <3>7, <3>8
  <2> QED BY <2>1, <2>2
<1> HIDE DEF more, renamed
<1>6. Held(more, renamed, later[q], q, e, n) <=> Held(nodes, nms, logs[q], q, e, n)
  BY <1>4, <1>5, Zenon DEF Held
<1> QED BY <1>6 DEF more, renamed, later

\* what is so for the one process at work is so for all
LEMMA AloneForAll ==
  ASSUME NEW nodes, NEW nms, NEW logs, NEW counts, NEW p \in Loggers, LogAlone(nodes, nms, logs, counts, p)
  PROVE  RotatesAlone(nodes, nms, logs, counts)
<1>1. OnlyBy(logs, p) /\ NamesFit(nms, logs[p]) /\ LinesFit(nodes, nms, logs, counts, logs[p])
  BY DEF LogAlone
<1>2. ASSUME NEW q \in Loggers, logs[q].pc # "off" PROVE OnlyBy(logs, q)
  BY <1>1, <1>2 DEF OnlyBy
<1>3. ASSUME NEW q \in Loggers, OnlyBy(logs, q) PROVE LogAlone(nodes, nms, logs, counts, q)
  <2>1. CASE q = p
    BY <2>1
  <2>2. CASE q # p
    <3>1. logs[q].pc = "off" /\ logs[p].pc = "off"
      BY <1>1, <1>3, <2>2 DEF OnlyBy
    <3>2. \A d, j : ~Gap(logs[q], d, j) /\ ~Gap(logs[p], d, j)
      BY <3>1 DEF Gap
    <3>3. NamesFit(nms, logs[q])
      BY <1>1, <3>1, <3>2 DEF NamesFit
    <3>4. \A d : Full(nms, logs[p], d) <=> Full(nms, logs[q], d)
      BY <3>2 DEF Full
    <3>5. LinesFit(nodes, nms, logs, counts, logs[q])
      BY <1>1, <3>4, Zenon DEF LinesFit
    <3> QED BY <1>3, <3>3, <3>5 DEF LogAlone
  <2> QED BY <2>1, <2>2
<1> QED BY <1>2, <1>3 DEF RotatesAlone

\* nothing written, nothing lost
LEMMA SameLines ==
  ASSUME NEW nodes, NEW nms, NEW logs, NEW counts, NEW l, LinesFit(nodes, nms, logs, counts, l),
         NEW more, NEW renamed, NEW later, NEW k,
         counts \in [Loggers -> [Days -> Nat]],
         \A q \in Loggers, d \in Days : \A n \in Nat :
             Held(more, renamed, later[q], q, d, n) <=> Held(nodes, nms, logs[q], q, d, n),
         \A d \in Days : Full(nms, l, d) => Full(renamed, k, d)
  PROVE  LinesFit(more, renamed, later, counts, k)
<1> SUFFICES ASSUME NEW q \in Loggers, NEW d \in Days
             PROVE  /\ \A n, m \in 1..counts[q][d] :
                          n <= m /\ Held(more, renamed, later[q], q, d, n) => Held(more, renamed, later[q], q, d, m)
                    /\ (\E n \in 1..counts[q][d] : ~Held(more, renamed, later[q], q, d, n)) => Full(renamed, k, d)
  BY DEF LinesFit
<1>1. \A n \in 1..counts[q][d] : n \in Nat
  OBVIOUS
<1>2. /\ \A n, m \in 1..counts[q][d] :
           n <= m /\ Held(nodes, nms, logs[q], q, d, n) => Held(nodes, nms, logs[q], q, d, m)
      /\ (\E n \in 1..counts[q][d] : ~Held(nodes, nms, logs[q], q, d, n)) => Full(nms, l, d)
  BY DEF LinesFit
<1> QED BY <1>1, <1>2, Zenon

\* p's record becomes l, which neither frees a name nor has other lines
LEMMA RecordAlone ==
  ASSUME NEW nodes, NEW nms, NEW logs, NEW counts, LogsKept(nodes, nms, logs, counts), NEW p \in Loggers,
         LogAlone(nodes, nms, logs, counts, p), NEW l \in Logs, NamesFit(nms, l),
         (l.buf = <<>> /\ logs[p].buf = <<>>) \/ (l.buf = logs[p].buf /\ l.day = logs[p].day),
         \A d \in Days : Full(nms, logs[p], d) => Full(nms, l, d)
  PROVE  LogAlone(nodes, nms, [logs EXCEPT ![p] = l], counts, p)
<1> DEFINE later == [logs EXCEPT ![p] = l]
<1>1. logs \in [Loggers -> Logs] /\ counts \in [Loggers -> [Days -> Nat]]
  BY DEF LogsKept, LogsTyped
<1>2. later[p] = l /\ \A q \in Loggers : q # p => later[q] = logs[q]
  BY <1>1
<1> HIDE DEF later
<1>3. \A q \in Loggers, d \in Days : \A n \in Nat :
          Held(nodes, nms, later[q], q, d, n) <=> Held(nodes, nms, logs[q], q, d, n)
  <2> TAKE q \in Loggers, d \in Days
  <2> TAKE n \in Nat
  <2>1. CASE q # p
    BY <1>2, <2>1
  <2>2. CASE q = p /\ l.buf = <<>> /\ logs[p].buf = <<>>
    <3>1. ToSet(l.buf) = {} /\ ToSet(logs[p].buf) = {}
      BY <2>2 DEF ToSet
    <3> QED BY <1>2, <2>2, <3>1 DEF Held
  <2>3. CASE q = p /\ l.buf = logs[p].buf /\ l.day = logs[p].day
    BY <1>2, <2>3 DEF Held
  <2> QED BY <2>1, <2>2, <2>3
<1>4. LinesFit(nodes, nms, logs, counts, logs[p]) /\ OnlyBy(logs, p)
  BY DEF LogAlone
<1>5. LinesFit(nodes, nms, later, counts, l)
  BY <1>1, <1>3, <1>4, SameLines
<1>6. OnlyBy(later, p)
  BY <1>2, <1>4 DEF OnlyBy
<1> QED BY <1>2, <1>5, <1>6 DEF LogAlone, later

LEMMA FlushAlone ==
  ASSUME NEW nodes, NEW nms, NEW logs, NEW counts, LogsKept(nodes, nms, logs, counts), NEW p \in Loggers,
         LogAlone(nodes, nms, logs, counts, p), logs[p].pc \in {"ready", "check"}
  PROVE  LogAlone(FlushedTo(nodes, logs[p]), nms, Emptied(logs, p), counts, p)
<1> DEFINE l == [logs[p] EXCEPT !.buf = <<>>]
           more == FlushedTo(nodes, logs[p])
           later == Emptied(logs, p)
           w == logs[p].buf
<1>0. /\ nodes \in Seq(Seq(LogLines)) /\ nms \in Names /\ logs \in [Loggers -> Logs]
      /\ counts \in [Loggers -> [Days -> Nat]] /\ NewestFirst(nodes, nms)
      /\ Streaming(nodes, nms, logs[p])
  BY DEF LogsKept, LogsTyped, LogsOf
<1>1. l \in Logs
  <2>1. logs[p] \in Logs /\ <<>> \in Seq(LogLines)
    BY <1>0
  <2> QED BY <2>1 DEF Logs
<1>2. l.buf = <<>> /\ l.pc = logs[p].pc /\ l.day = logs[p].day /\ l.out = logs[p].out /\ l.i = logs[p].i
  BY <1>0 DEF Logs
<1>3. later = [logs EXCEPT ![p] = l]
  BY <1>0 DEF Emptied
<1>4. later[p] = l /\ \A q \in Loggers : q # p => later[q] = logs[q]
  BY <1>0, <1>3
<1> HIDE DEF l
<1>5. OnlyBy(logs, p) /\ NamesFit(nms, logs[p]) /\ LinesFit(nodes, nms, logs, counts, logs[p])
  BY DEF LogAlone
<1>6. logs[p].out \in 1..Len(nodes) /\ logs[p].out # NoFile /\ logs[p].day \in Days
  <2>1. logs[p].out \in 1..Len(nodes) /\ logs[p].pc # "off"
    BY <1>0, Zenon DEF Streaming
  <2> QED BY <1>0, <2>1, LoggerAssumption DEF Streaming
<1>7. logs[p].out \in Named(nms, logs[p].day)
  <2>1. nms[logs[p].day][0] = logs[p].out
    BY <1>5 DEF NamesFit
  <2>2. 0 \in Slots
    BY LoggerAssumption DEF Slots
  <2> QED BY <1>6, <2>1, <2>2 DEF Named
<1>8. more = [nodes EXCEPT ![logs[p].out] = @ \o w]
  BY <1>6 DEF FlushedTo
<1>9. Following(nodes, nms, p, logs[p], w) /\ w \in Seq(LogLines) /\ ToSet(w) \subseteq ToSet(w)
  BY <1>6, StreamFollows DEF Following
<1>10. \A q \in Loggers, d \in Days : \A n \in Nat :
          Held(more, nms, later[q], q, d, n) <=> Held(nodes, nms, logs[q], q, d, n)
  <2>0. CanWrite(nodes, nms, logs, p, w)
    BY <1>0, <1>7, <1>9 DEF CanWrite
  <2> HIDE DEF more, w, later
  <2>1. HeldAfter(nodes, nms, logs, p, w, more, later)
    BY <1>2, <1>3, <1>8, <2>0, WriteHolds
  <2> TAKE q \in Loggers, d \in Days
  <2> TAKE n \in Nat
  <2>2. q = p /\ d = logs[p].day /\ <<p, n>> \in ToSet(w) => Held(nodes, nms, logs[q], q, d, n)
    BY DEF Held, w
  <2> QED BY <2>1, <2>2 DEF HeldAfter
<1> HIDE DEF more, later, w
<1>11. NamesFit(nms, l) /\ \A d \in Days : Full(nms, logs[p], d) => Full(nms, l, d)
  BY <1>2, <1>5 DEF NamesFit, Full, Gap
<1>12. LinesFit(more, nms, later, counts, l)
  BY <1>0, <1>5, <1>10, <1>11, SameLines
<1>13. OnlyBy(later, p)
  BY <1>4, <1>5 DEF OnlyBy
<1>14. LogAlone(more, nms, later, counts, p)
  BY <1>4, <1>11, <1>12, <1>13 DEF LogAlone
<1> QED BY <1>14 DEF more, later

LEMMA OpenAlone ==
  ASSUME NEW nodes, NEW nms, NEW logs, NEW counts, LogsKept(nodes, nms, logs, counts), NEW p \in Loggers,
         LogAlone(nodes, nms, logs, counts, p), logs[p].buf = <<>>, NEW d \in Days,
         \A e \in Days : \A j : Gap(logs[p], e, j) => e = d /\ j = 0
  PROVE  LogAlone(Opens(nodes, nms, d), OpensAs(nodes, nms, d),
                  [logs EXCEPT ![p] = Opened(OpensAs(nodes, nms, d), d, "ready")], counts, p)
<1> DEFINE more == Opens(nodes, nms, d)
           renamed == OpensAs(nodes, nms, d)
           l == Opened(renamed, d, "ready")
           later == [logs EXCEPT ![p] = l]
<1>0. /\ nodes \in Seq(Seq(LogLines)) /\ nms \in Names /\ logs \in [Loggers -> Logs]
      /\ counts \in [Loggers -> [Days -> Nat]] /\ NewestFirst(nodes, nms)
  BY DEF LogsKept, LogsTyped
<1>1. l.pc = "ready" /\ l.day = d /\ l.out = renamed[d][0] /\ l.buf = <<>> /\ l.i = 0
  BY DEF Opened
<1>2. OnlyBy(logs, p) /\ NamesFit(nms, logs[p]) /\ LinesFit(nodes, nms, logs, counts, logs[p])
  BY DEF LogAlone
<1>3. 0 \in Slots
  BY LoggerAssumption DEF Slots
\* only the name of the day is new
<1>4. /\ renamed \in Names /\ renamed[d][0] # NoFile
      /\ \A e \in Days, i \in Slots : e # d \/ i # 0 => renamed[e][i] = nms[e][i]
      /\ nms[d][0] # NoFile => renamed = nms
  <2>1. CASE nms[d][0] # NoFile
    BY <1>0, <2>1 DEF OpensAs
  <2>2. CASE nms[d][0] = NoFile
    <3>1. more = Append(nodes, <<>>) /\ renamed = [nms EXCEPT ![d][0] = Len(nodes) + 1]
      BY <2>2 DEF Opens, OpensAs
    <3> HIDE DEF more, renamed
    <3>2. FileAdded(nodes, nms, d, more, renamed)
      BY <1>0, <2>2, <3>1, NewFile
    <3>3. /\ renamed \in Names /\ renamed[d][0] = Len(nodes) + 1
          /\ \A e \in Days, i \in Slots : e # d \/ i # 0 => renamed[e][i] = nms[e][i]
      BY <3>2 DEF FileAdded
    <3>4. Len(nodes) + 1 # NoFile
      BY <1>0, LoggerAssumption
    <3> QED BY <2>2, <3>3, <3>4
  <2> QED BY <2>1, <2>2
<1>5. l \in Logs
  <2>1. renamed[d][0] \in Nat \cup {NoFile} /\ <<>> \in Seq(LogLines) /\ d \in Nat /\ "ready" \in LogSteps
    BY <1>3, <1>4 DEF Names, Days, LogSteps
  <2> HIDE DEF renamed
  <2> QED BY <2>1 DEF Opened, Logs
<1>6. \A q \in Loggers, e \in Days : \A n \in Nat :
          Held(more, renamed, later[q], q, e, n) <=> Held(nodes, nms, logs[q], q, e, n)
  <2> HIDE DEF l
  <2> QED BY <1>1, <1>5, OpenHolds
<1>7. later[p] = l /\ \A q \in Loggers : q # p => later[q] = logs[q]
  BY <1>0
<1> HIDE DEF more, renamed, l, later
<1>8. \A e, j : ~Gap(l, e, j)
  BY <1>1 DEF Gap
<1>9. NamesFit(renamed, l)
  <2>1. ASSUME NEW e \in Days, NEW i \in Slots, NEW j \in Slots, j < i, renamed[e][i] # NoFile
        PROVE  renamed[e][j] # NoFile
    <3>1. CASE e = d /\ j = 0
      BY <1>4, <3>1
    <3>2. CASE e # d \/ j # 0
      <4>1. i # 0
        BY <2>1 DEF Slots
      <4>2. renamed[e][i] = nms[e][i] /\ renamed[e][j] = nms[e][j]
        BY <1>4, <3>2, <4>1
      <4>3. nms[e][j] # NoFile \/ Gap(logs[p], e, j)
        BY <1>2, <2>1, <4>2 DEF NamesFit
      <4> QED BY <3>2, <4>2, <4>3
    <3> QED BY <3>1, <3>2
  <2> QED BY <1>1, <1>8, <2>1 DEF NamesFit
<1>10. \A e \in Days : Full(nms, logs[p], e) => Full(renamed, l, e)
  <2> SUFFICES ASSUME NEW e \in Days, Full(nms, logs[p], e), NEW i \in 1..RotateFiles PROVE renamed[e][i] # NoFile
    BY DEF Full
  <2>1. i \in Slots /\ i # 0
    BY LoggerAssumption DEF Slots
  <2> QED BY <1>4, <2>1 DEF Full
<1>11. LinesFit(more, renamed, later, counts, l)
  BY <1>0, <1>2, <1>6, <1>10, SameLines
<1>12. OnlyBy(later, p)
  BY <1>2, <1>7 DEF OnlyBy
<1>13. LogAlone(more, renamed, later, counts, p)
  BY <1>7, <1>9, <1>11, <1>12 DEF LogAlone
<1> QED BY <1>13 DEF more, renamed, l, later

\* in submit nothing is lost and the number of the line is new
LEMMA SubmitHolds ==
  ASSUME LoggerInv, NEW p \in Loggers, LogAlone(inodes, names, log, lines, p), NEW flush \in BOOLEAN, submit(p, flush),
         NEW q \in Loggers, NEW d \in Days, NEW n \in Nat
  PROVE  Held(inodes', names, log'[q], q, d, n)
             <=> Held(inodes, names, log[q], q, d, n) \/ (q = p /\ d = today /\ n = lines[p][today] + 1)
<1> DEFINE w == WithNext(p)
           next == n = lines[p][today] + 1
<1>0. /\ inodes \in Seq(Seq(LogLines)) /\ names \in Names /\ log \in [Loggers -> Logs] /\ NewestFirst(inodes, names)
  BY DEF LoggerInv, LogsKept, LogsTyped
<1>1. log[p].pc = "ready" /\ log[p].day = today
  BY DEF submit
<1>2. /\ Following(inodes, names, p, log[p], w)
      /\ ToSet(w) = ToSet(log[p].buf) \cup {NextLine(p)}
  BY <1>1, NextFollows
<1>3. log[p].out \in Named(names, today)
  <2>1. names[log[p].day][0] = log[p].out
    BY <1>1 DEF LogAlone, NamesFit
  <2>2. 0 \in Slots
    BY LoggerAssumption DEF Slots
  <2>3. log[p].out # NoFile
    BY <1>2, LoggerAssumption DEF Following
  <2> QED BY <1>1, <2>1, <2>2, <2>3 DEF Named
<1>4. <<p, n>> \in ToSet(w) <=> <<p, n>> \in ToSet(log[p].buf) \/ next
  BY <1>2 DEF NextLine
<1>5. CASE flush
  <2> DEFINE l == [log[p] EXCEPT !.buf = <<>>, !.pc = "check"]
             more == inodes'
             later == log'
  <2>1. more = [inodes EXCEPT ![log[p].out] = @ \o w]
    BY <1>5, SubmitWrites
  <2>2. later = [log EXCEPT ![p] = l]
    BY <1>5, Zenon DEF submit
  <2>3. l.buf = <<>>
    BY <1>0 DEF Logs
  <2>4. CanWrite(inodes, names, log, p, w)
    BY <1>0, <1>1, <1>2, <1>3 DEF CanWrite, Following
  <2> HIDE DEF l, more, later, w
  <2>5. HeldAfter(inodes, names, log, p, w, more, later)
    BY <2>1, <2>2, <2>3, <2>4, WriteHolds
  <2>6. Held(more, names, later[q], q, d, n)
            <=> Held(inodes, names, log[q], q, d, n) \/ (q = p /\ d = today /\ <<p, n>> \in ToSet(w))
    BY <1>1, <2>5 DEF HeldAfter
  <2>7. q = p /\ d = today /\ <<p, n>> \in ToSet(log[p].buf) => Held(inodes, names, log[q], q, d, n)
    BY <1>1 DEF Held
  <2> QED BY <1>4, <2>6, <2>7 DEF more, later
<1>6. CASE ~flush
  <2> DEFINE l == [log[p] EXCEPT !.buf = w, !.pc = "check"]
             later == log'
  <2>1. inodes' = inodes /\ later = [log EXCEPT ![p] = l]
    BY <1>6, Zenon DEF submit, w, WithNext, NextLine
  <2>2. l.buf = w /\ l.day = today
    BY <1>0, <1>1 DEF Logs
  <2>3. later[p] = l /\ (q # p => later[q] = log[q])
    BY <1>0, <2>1
  <2> HIDE DEF l, later, w, next
  <2>4. CASE q # p
    BY <2>1, <2>3, <2>4 DEF Held, later
  <2>5. CASE q = p
    <3>1. Held(inodes, names, l, p, d, n) <=> Held(inodes, names, log[p], p, d, n) \/ (d = today /\ next)
      BY <1>1, <1>4, <2>2 DEF Held
    <3> QED BY <2>1, <2>3, <2>5, <3>1 DEF later, next
  <2> QED BY <2>4, <2>5
<1> QED BY <1>5, <1>6

LEMMA SubmitAlone ==
  ASSUME LoggerInv, NEW p \in Loggers, LogAlone(inodes, names, log, lines, p), NEW flush \in BOOLEAN, submit(p, flush)
  PROVE  LogAlone(inodes', names', log', lines', p)
<1>0. log \in [Loggers -> Logs] /\ lines \in [Loggers -> [Days -> Nat]] /\ today \in Days
  BY DEF LoggerInv, LogsKept, LogsTyped
<1>1. log[p].pc = "ready" /\ log[p].day = today /\ names' = names /\ lines' = [lines EXCEPT ![p][today] = @ + 1]
  BY DEF submit
<1>2. /\ log'[p].pc = "check" /\ log'[p].day = today /\ log'[p].out = log[p].out
      /\ \A q \in Loggers : q # p => log'[q] = log[q]
  <2>1. \E b : log' = [log EXCEPT ![p] = [@ EXCEPT !.buf = b, !.pc = "check"]]
    <3>1. CASE flush
      BY <3>1, Zenon DEF submit
    <3>2. CASE ~flush
      BY <3>2, Zenon DEF submit
    <3> QED BY <3>1, <3>2
  <2>2. PICK b : log' = [log EXCEPT ![p] = [@ EXCEPT !.buf = b, !.pc = "check"]]
    BY <2>1
  <2>3. log[p] \in Logs
    BY <1>0
  <2> QED BY <1>0, <1>1, <2>2, <2>3 DEF Logs
<1>3. OnlyBy(log, p) /\ NamesFit(names, log[p]) /\ LinesFit(inodes, names, log, lines, log[p])
  BY DEF LogAlone
<1>4. \A d, j : ~Gap(log[p], d, j) /\ ~Gap(log'[p], d, j)
  BY <1>1, <1>2 DEF Gap
<1>5. NamesFit(names, log'[p])
  BY <1>1, <1>2, <1>3, <1>4 DEF NamesFit
<1>6. \A d : Full(names, log[p], d) => Full(names, log'[p], d)
  BY <1>4 DEF Full
<1>7. LinesFit(inodes', names, log', lines', log'[p])
  <2> SUFFICES ASSUME NEW q \in Loggers, NEW d \in Days
               PROVE  /\ \A n, m \in 1..lines'[q][d] :
                            n <= m /\ Held(inodes', names, log'[q], q, d, n) => Held(inodes', names, log'[q], q, d, m)
                      /\ (\E n \in 1..lines'[q][d] : ~Held(inodes', names, log'[q], q, d, n)) => Full(names, log'[p], d)
    BY DEF LinesFit
  <2> DEFINE Before(n) == Held(inodes, names, log[q], q, d, n)
             After(n) == Held(inodes', names, log'[q], q, d, n)
             c == lines[q][d]
  <2>1. \A n \in Nat : After(n) <=> Before(n) \/ (q = p /\ d = today /\ n = lines[p][today] + 1)
    BY SubmitHolds
  <2>2. c \in Nat
    BY <1>0
  <2>3. /\ \A n, m \in 1..c : n <= m /\ Before(n) => Before(m)
        /\ (\E n \in 1..c : ~Before(n)) => Full(names, log[p], d)
    BY <1>3 DEF LinesFit
  <2> HIDE DEF Before, After, c
  <2>4. CASE q = p /\ d = today
    <3>1. lines'[q][d] = c + 1
      BY <1>0, <1>1, <2>4 DEF c
    <3>2. \A n \in 1..(c + 1) : (n \in 1..c /\ (After(n) <=> Before(n))) \/ (n = c + 1 /\ After(n))
      <4> TAKE n \in 1..(c + 1)
      <4>1. n \in Nat /\ (n \in 1..c \/ n = c + 1)
        BY <2>2
      <4>2. n \in 1..c => n # c + 1
        BY <2>2
      <4>3. After(n) <=> Before(n) \/ n = c + 1
        BY <2>1, <2>4, <4>1 DEF c
      <4> QED BY <4>1, <4>2, <4>3
    <3>3. ASSUME NEW n \in 1..(c + 1), NEW m \in 1..(c + 1), n <= m, After(n) PROVE After(m)
      <4>1. CASE m = c + 1
        BY <3>2, <4>1, <2>2
      <4>2. CASE m \in 1..c
        <5>1. n \in 1..c /\ n # c + 1
          BY <2>2, <3>3, <4>2
        <5>2. m # c + 1
          BY <2>2, <4>2
        <5> QED BY <2>3, <3>2, <3>3, <4>2, <5>1, <5>2
      <4> QED BY <2>2, <4>1, <4>2
    <3>4. ASSUME NEW n \in 1..(c + 1), ~After(n) PROVE Full(names, log'[p], d)
      <4>1. n \in 1..c /\ ~Before(n)
        BY <3>2, <3>4
      <4> QED BY <1>6, <2>3, <4>1
    <3> QED BY <3>1, <3>3, <3>4 DEF After
  <2>5. CASE ~(q = p /\ d = today)
    <3>1. lines'[q][d] = c
      BY <1>0, <1>1, <2>5 DEF c
    <3>2. \A n \in 1..c : After(n) <=> Before(n)
      BY <2>1, <2>5
    <3> QED BY <1>6, <2>3, <3>1, <3>2 DEF After
  <2> QED BY <2>4, <2>5
<1>8. OnlyBy(log', p)
  BY <1>2, <1>3 DEF OnlyBy
<1> QED BY <1>1, <1>5, <1>7, <1>8 DEF LogAlone

LEMMA CheckAlone ==
  ASSUME LoggerInv, NEW p \in Loggers, LogAlone(inodes, names, log, lines, p), CheckSize(p)
  PROVE  LogAlone(inodes', names', log', lines', p)
<1>0. /\ log \in [Loggers -> Logs] /\ LogsKept(inodes, names, log, lines)
      /\ LogsOf(inodes, names, log, lines, p) /\ log[p].pc = "check" /\ names' = names /\ lines' = lines
  BY DEF LoggerInv, LogsKept, LogsTyped, CheckSize
<1>1. log[p] \in Logs /\ log[p].day \in Days
  BY <1>0, Zenon DEF LogsOf, Streaming
<1>2. NamesFit(names, log[p]) /\ \A d, j : ~Gap(log[p], d, j)
  BY <1>0 DEF LogAlone, Gap
<1> DEFINE ready == [log[p] EXCEPT !.pc = "ready"]
           full == [log[p] EXCEPT !.pc = "shift", !.out = NoFile, !.buf = <<>>, !.i = RotateFiles - 1]
<1>3. CASE log' = [log EXCEPT ![p] = ready] /\ inodes' = inodes
  <2>1. ready \in Logs /\ ready.pc = "ready" /\ ready.day = log[p].day /\ ready.out = log[p].out /\ ready.buf = log[p].buf
    BY <1>1 DEF Logs, LogSteps
  <2> HIDE DEF ready
  <2>2. \A d, j : ~Gap(ready, d, j)
    BY <2>1 DEF Gap
  <2>3. NamesFit(names, ready)
    BY <1>0, <1>2, <2>1, <2>2 DEF NamesFit
  <2>4. \A d \in Days : Full(names, log[p], d) => Full(names, ready, d)
    BY <1>2, <2>2 DEF Full
  <2>5. LogAlone(inodes, names, [log EXCEPT ![p] = ready], lines, p)
    BY <1>0, <2>1, <2>3, <2>4, RecordAlone
  <2> QED BY <1>0, <1>3, <2>5
<1>4. CASE log' = [log EXCEPT ![p] = full] /\ inodes' = Flushed(p) /\ names[log[p].day][0] # NoFile
  <2> DEFINE files == FlushedTo(inodes, log[p])
             logs == Emptied(log, p)
  <2>1. RotateFiles - 1 \in Nat /\ <<>> \in Seq(LogLines) /\ RotateFiles - 1 + 1 = RotateFiles
    BY LoggerAssumption
  <2>2. /\ full \in Logs /\ full.pc = "shift" /\ full.day = log[p].day /\ full.out = NoFile /\ full.buf = <<>>
        /\ full.i = RotateFiles - 1
    BY <1>1, <2>1 DEF Logs, LogSteps
  <2> HIDE DEF full
  <2>3. \A d, j : Gap(full, d, j) <=> d = log[p].day /\ j = RotateFiles
    BY <2>1, <2>2 DEF Gap
  <2>4. NamesFit(names, full)
    <3>1. \A d \in Days : \A j \in Slots : Gap(full, d, j) => ~(j < RotateFiles)
      BY <2>3, LoggerAssumption
    <3>2. \A d \in Days : \A i, j \in Slots : j < i /\ names[d][i] # NoFile => names[d][j] # NoFile
      BY <1>2 DEF NamesFit
    <3> QED BY <1>4, <2>2, <3>1, <3>2 DEF NamesFit
  <2>5. LogsKept(files, names, logs, lines)
    BY <1>0, FlushKeeps
  <2>6. LogAlone(files, names, logs, lines, p)
    BY <1>0, FlushAlone
  <2>7. logs[p].buf = <<>> /\ logs[p].pc = "check"
    BY <1>0, <1>1 DEF Emptied, Logs
  <2>8. \A d \in Days : Full(names, logs[p], d) => Full(names, full, d)
    BY <2>7 DEF Full, Gap
  <2>9. [logs EXCEPT ![p] = full] = [log EXCEPT ![p] = full]
    BY <1>0, RecordAfterFlush
  <2>10. Flushed(p) = files
    BY FlushedIs
  <2> HIDE DEF files, logs
  <2>11. LogAlone(files, names, [logs EXCEPT ![p] = full], lines, p)
    BY <2>2, <2>4, <2>5, <2>6, <2>7, <2>8, RecordAlone
  <2> QED BY <1>0, <1>4, <2>9, <2>10, <2>11
<1>5. \/ log' = [log EXCEPT ![p] = ready] /\ inodes' = inodes
      \/ log' = [log EXCEPT ![p] = full] /\ inodes' = Flushed(p) /\ names[log[p].day][0] # NoFile
  BY <1>0 DEF CheckSize
<1> QED BY <1>3, <1>4, <1>5

\* a process that is not rotating ends
LEMMA EndsFit ==
  ASSUME NEW nms, NEW l, NamesFit(nms, l), l.pc \in {"ready", "check"}
  PROVE  NamesFit(nms, Closed) /\ \A d \in Days : Full(nms, l, d) => Full(nms, Closed, d)
<1>1. Closed.pc = "off"
  BY ClosedLog
<1>2. \A d, j : ~Gap(l, d, j) /\ ~Gap(Closed, d, j)
  BY <1>1 DEF Gap
<1>3. NamesFit(nms, Closed)
  BY <1>1, <1>2 DEF NamesFit
<1>4. \A d \in Days : Full(nms, l, d) => Full(nms, Closed, d)
  BY <1>2 DEF Full
<1> QED BY <1>3, <1>4

LEMMA CloseAlone ==
  ASSUME LoggerInv, NEW p \in Loggers, LogAlone(inodes, names, log, lines, p), CloseLogger(p)
  PROVE  LogAlone(inodes', names', log', lines', p)
<1> DEFINE files == FlushedTo(inodes, log[p])
           logs == Emptied(log, p)
<1>0. /\ log \in [Loggers -> Logs] /\ LogsKept(inodes, names, log, lines) /\ log[p].pc = "ready"
      /\ names' = names /\ lines' = lines /\ inodes' = Flushed(p) /\ log' = [log EXCEPT ![p] = Closed]
  BY DEF LoggerInv, LogsKept, LogsTyped, CloseLogger
<1>1. LogsKept(files, names, logs, lines)
  BY <1>0, FlushKeeps
<1>2. LogAlone(files, names, logs, lines, p)
  BY <1>0, FlushAlone
<1>3. logs[p].buf = <<>> /\ logs[p].pc = "ready"
  BY <1>0 DEF Emptied, Logs
<1>4. [logs EXCEPT ![p] = Closed] = [log EXCEPT ![p] = Closed]
  BY <1>0, RecordAfterFlush
<1>5. Flushed(p) = files
  BY FlushedIs
<1> HIDE DEF files, logs
<1>6. NamesFit(names, Closed) /\ \A d \in Days : Full(names, logs[p], d) => Full(names, Closed, d)
  <2>1. NamesFit(names, logs[p])
    BY <1>2 DEF LogAlone
  <2> QED BY <1>3, <2>1, EndsFit
<1>7. LogAlone(files, names, [logs EXCEPT ![p] = Closed], lines, p)
  BY <1>1, <1>2, <1>3, <1>6, ClosedLog, RecordAlone
<1> QED BY <1>0, <1>4, <1>5, <1>7

LEMMA DiesAlone ==
  ASSUME LoggerInv, NEW p \in Loggers, LogAlone(inodes, names, log, lines, p), LoggerDies(p), alone'
  PROVE  LogAlone(inodes', names', log', lines', p)
<1>0. /\ log \in [Loggers -> Logs] /\ LogsKept(inodes, names, log, lines)
      /\ names' = names /\ lines' = lines /\ inodes' = inodes /\ log' = [log EXCEPT ![p] = Closed]
      /\ log[p].buf = <<>> /\ log[p].pc \notin {"off", "shift", "reopen"}
  BY DEF LoggerInv, LogsKept, LogsTyped, LoggerDies
<1>1. log[p].pc \in {"ready", "check"}
  <2>1. log[p] \in Logs
    BY <1>0
  <2> QED BY <1>0, <2>1 DEF Logs, LogSteps
<1>2. NamesFit(names, Closed) /\ \A d \in Days : Full(names, log[p], d) => Full(names, Closed, d)
  BY <1>1, EndsFit DEF LogAlone
<1>3. LogAlone(inodes, names, [log EXCEPT ![p] = Closed], lines, p)
  BY <1>0, <1>2, ClosedLog, RecordAlone
<1> QED BY <1>0, <1>3

\* opening, after what the stream held was flushed
LEMMA OpensAlone ==
  ASSUME LoggerInv, NEW p \in Loggers, NEW d \in Days, NEW files, NEW logs,
         LogsKept(files, names, logs, lines), LogAlone(files, names, logs, lines, p), logs[p].buf = <<>>,
         \A e \in Days : \A j : Gap(logs[p], e, j) => e = d /\ j = 0,
         \A l : [logs EXCEPT ![p] = l] = [log EXCEPT ![p] = l],
         OpenFile(p, d, files, "ready"), lines' = lines
  PROVE  LogAlone(inodes', names', log', lines', p)
<1>1. LogAlone(Opens(files, names, d), OpensAs(files, names, d),
               [logs EXCEPT ![p] = Opened(OpensAs(files, names, d), d, "ready")], lines, p)
  BY OpenAlone
<1>2. inodes' = Opens(files, names, d) /\ names' = OpensAs(files, names, d)
  BY Zenon DEF OpenFile, Opens, OpensAs
<1>3. log' = [log EXCEPT ![p] = Opened(names', d, "ready")]
  BY Zenon DEF OpenFile, Opened
<1>4. log' = [logs EXCEPT ![p] = Opened(OpensAs(files, names, d), d, "ready")]
  BY <1>2, <1>3, Zenon
<1> QED BY <1>1, <1>2, <1>4, Zenon

LEMMA OpeningAlone ==
  ASSUME LoggerInv, NEW p \in Loggers, LogAlone(inodes, names, log, lines, p),
         Configure(p) \/ roll_to_today(p) \/ Reopen(p)
  PROVE  LogAlone(inodes', names', log', lines', p)
<1>0. /\ log \in [Loggers -> Logs] /\ LogsKept(inodes, names, log, lines) /\ today \in Days
      /\ Streaming(inodes, names, log[p])
  BY DEF LoggerInv, LogsKept, LogsTyped, LogsOf
<1>1. CASE Configure(p)
  <2>1. OpenFile(p, today, inodes, "ready") /\ lines' = lines /\ log[p].pc = "off"
    BY <1>1 DEF Configure
  <2>2. log[p].buf = <<>>
    BY <1>0, <2>1, Zenon DEF Streaming
  <2>3. \A e \in Days : \A j : Gap(log[p], e, j) => e = today /\ j = 0
    BY <2>1 DEF Gap
  <2> QED BY <1>0, <2>1, <2>2, <2>3, OpensAlone
<1>2. CASE Reopen(p)
  <2>1. OpenFile(p, log[p].day, inodes, "ready") /\ lines' = lines /\ log[p].pc = "reopen"
    BY <1>2 DEF Reopen
  <2>2. log[p].buf = <<>> /\ log[p].day \in Days
    BY <1>0, <2>1, Zenon DEF Streaming
  <2>3. \A e \in Days : \A j : Gap(log[p], e, j) => e = log[p].day /\ j = 0
    BY <2>1 DEF Gap
  <2> QED BY <1>0, <2>1, <2>2, <2>3, OpensAlone
<1>3. CASE roll_to_today(p)
  <2> DEFINE files == FlushedTo(inodes, log[p])
             logs == Emptied(log, p)
  <2>1. OpenFile(p, today, Flushed(p), "ready") /\ lines' = lines /\ log[p].pc = "ready"
    BY <1>3 DEF roll_to_today
  <2>2. LogsKept(files, names, logs, lines)
    BY <1>0, FlushKeeps
  <2>3. LogAlone(files, names, logs, lines, p)
    BY <1>0, <2>1, FlushAlone
  <2>4. logs[p].buf = <<>> /\ logs[p].pc = "ready"
    BY <1>0, <2>1 DEF Emptied, Logs
  <2>5. \A l : [logs EXCEPT ![p] = l] = [log EXCEPT ![p] = l]
    BY <1>0, RecordAfterFlush
  <2>6. OpenFile(p, today, files, "ready")
    BY <2>1, FlushedIs
  <2> HIDE DEF files, logs
  <2>7. \A e \in Days : \A j : Gap(logs[p], e, j) => e = today /\ j = 0
    BY <2>4 DEF Gap
  <2> QED BY <1>0, <2>1, <2>2, <2>3, <2>4, <2>5, <2>6, <2>7, OpensAlone
<1> QED BY <1>1, <1>2, <1>3

\* a rename that overwrites the oldest name of the day loses lines older than all others
Overwrites(nms, d, i, later) ==
    /\ d \in Days /\ i \in 0..(RotateFiles - 1) /\ i + 1 = RotateFiles
    /\ nms[d][i] # NoFile /\ nms[d][i + 1] # NoFile /\ later = Shifted(nms, d, i)

LosesOldest(nodes, nms, later, logs, d) ==
    \A q \in Loggers : \A n, m \in Nat :
        n <= m /\ Held(nodes, later, logs[q], q, d, n) /\ Held(nodes, nms, logs[q], q, d, m)
            => Held(nodes, later, logs[q], q, d, m)

LEMMA OverwrittenIsOldest ==
  ASSUME NEW nodes, NEW nms, NEW logs, NEW counts, LogsKept(nodes, nms, logs, counts),
         NEW d, NEW i, NEW later, Overwrites(nms, d, i, later)
  PROVE  LosesOldest(nodes, nms, later, logs, d)
<1>1a. /\ d \in Days /\ i \in 0..(RotateFiles - 1) /\ i + 1 = RotateFiles
      /\ nms[d][i] # NoFile /\ nms[d][i + 1] # NoFile /\ later = Shifted(nms, d, i)
  BY DEF Overwrites
<1> USE <1>1a
<1> SUFFICES ASSUME NEW q \in Loggers, NEW n \in Nat, NEW m \in Nat, n <= m,
                    Held(nodes, later, logs[q], q, d, n), Held(nodes, nms, logs[q], q, d, m)
             PROVE  Held(nodes, later, logs[q], q, d, m)
  BY DEF LosesOldest
<1> DEFINE o == nms[d][i + 1]
<1>0. /\ nodes \in Seq(Seq(LogLines)) /\ nms \in Names /\ logs \in [Loggers -> Logs]
      /\ NewestFirst(nodes, nms) /\ Ordered(nodes, nms) /\ Behind(nodes, nms, q, logs[q])
  BY DEF LogsKept, LogsTyped, LogsOf
<1>1. /\ later \in Names /\ i \in Slots /\ i + 1 \in Slots
      /\ later[d][i] = NoFile /\ later[d][i + 1] = nms[d][i]
      /\ \A e \in Days, j \in Slots : e # d \/ j \notin {i, i + 1} => later[e][j] = nms[e][j]
  BY <1>0, ShiftNames
<1>2. o \in Named(nms, d)
  BY <1>1 DEF Named
<1>3. \A f \in Named(nms, d) : f \in Nat /\ f \in 1..Len(nodes)
  BY <1>0, NamedIsFile
\* the names that are left are of younger files
<1>4. ASSUME NEW g \in Named(later, d) PROVE g \in Named(nms, d) /\ o < g
  <2>1. PICK j \in Slots : later[d][j] = g /\ g # NoFile
    BY DEF Named
  <2>2. PICK k \in Slots : nms[d][k] = g /\ k < i + 1
    <3>1. CASE j = i + 1
      <4>1. i < i + 1
        OBVIOUS
      <4> QED BY <1>1, <2>1, <3>1, <4>1
    <3>2. CASE j # i + 1
      <4>1. j # i
        BY <1>1, <2>1
      <4>2. j < i + 1
        BY <3>2, LoggerAssumption DEF Slots
      <4> QED BY <1>1, <2>1, <3>2, <4>1, <4>2
    <3> QED BY <3>1, <3>2
  <2>3. g \in Named(nms, d)
    BY <2>1, <2>2 DEF Named
  <2>4. nms[d][k] > nms[d][i + 1]
    BY <1>0, <1>1, <2>1, <2>2 DEF NewestFirst
  <2> QED BY <1>2, <1>3, <2>2, <2>3, <2>4
<1>5. CASE logs[q].day = d /\ <<q, m>> \in ToSet(logs[q].buf)
  BY <1>5 DEF Held
<1>6. ASSUME NEW f \in Named(nms, d), <<q, m>> \in ToSet(nodes[f]) PROVE Held(nodes, later, logs[q], q, d, m)
  <2>1. CASE f \in Named(later, d)
    BY <1>6, <2>1 DEF Held
  <2>2. CASE f \notin Named(later, d)
    <3>1. f = o
      <4>1. PICK j \in Slots : nms[d][j] = f /\ f # NoFile
        BY DEF Named
      <4>2. j = i + 1 \/ (j = i /\ later[d][i + 1] = f) \/ later[d][j] = f
        BY <1>1, <4>1
      <4> QED BY <1>1, <2>2, <4>1, <4>2 DEF Named
    <3>2. PICK a \in DOMAIN nodes[o] : nodes[o][a] = <<q, m>>
      BY <1>6, <3>1 DEF ToSet
    <3>3. CASE logs[q].day = d /\ <<q, n>> \in ToSet(logs[q].buf)
      <4>1. PICK b \in DOMAIN logs[q].buf : logs[q].buf[b] = <<q, n>>
        BY <3>3 DEF ToSet
      <4>2. nodes[o][a][1] = q
        BY <3>2
      <4>3. nodes[o][a][2] < logs[q].buf[b][2]
        BY <1>0, <1>2, <3>2, <3>3, <4>1, <4>2, Zenon DEF Behind
      <4> QED BY <3>2, <4>1, <4>3
    <3>4. ASSUME NEW g \in Named(later, d), <<q, n>> \in ToSet(nodes[g]) PROVE FALSE
      <4>1. PICK b \in DOMAIN nodes[g] : nodes[g][b] = <<q, n>>
        BY <3>4 DEF ToSet
      <4>2. g \in Named(nms, d) /\ o < g
        BY <1>4
      <4>3. nodes[o][a][1] = nodes[g][b][1] /\ nodes[o][a][2] = m /\ nodes[g][b][2] = n
        BY <3>2, <4>1
      <4>4. nodes[o][a][2] < nodes[g][b][2]
        BY <1>0, <1>2, <4>2, <4>3 DEF Ordered
      <4> QED BY <4>3, <4>4
    <3> QED BY <3>3, <3>4 DEF Held
  <2> QED BY <2>1, <2>2
<1> QED BY <1>5, <1>6 DEF Held

LEMMA ShiftAlone ==
  ASSUME LoggerInv, NEW p \in Loggers, LogAlone(inodes, names, log, lines, p), Shift(p)
  PROVE  LogAlone(inodes', names', log', lines', p)
<1> DEFINE d == log[p].day
           i == log[p].i
           later == Shifted(names, d, i)
           l == IF i = 0 THEN [log[p] EXCEPT !.pc = "reopen"] ELSE [log[p] EXCEPT !.i = i - 1]
           logs == [log EXCEPT ![p] = l]
<1>0. /\ inodes \in Seq(Seq(LogLines)) /\ names \in Names /\ lines \in [Loggers -> [Days -> Nat]]
      /\ log \in [Loggers -> Logs] /\ LogsKept(inodes, names, log, lines)
      /\ Streaming(inodes, names, log[p]) /\ log[p].pc = "shift" /\ inodes' = inodes /\ lines' = lines
  BY DEF LoggerInv, LogsKept, LogsTyped, LogsOf, Shift
<1>1. log[p] \in Logs /\ d \in Days /\ i \in 0..(RotateFiles - 1) /\ log[p].buf = <<>>
  BY <1>0, Zenon DEF Streaming
<1>2. names' = later
  BY <1>0, Zenon DEF Shift, Shifted
<1>3. log' = logs
  BY <1>0 DEF Shift
<1>4. /\ l \in Logs /\ l.buf = <<>> /\ l.day = d
      /\ (l.pc = "reopen" /\ i = 0) \/ (l.pc = "shift" /\ l.i = i - 1)
  <2>1. CASE i = 0
    BY <1>0, <1>1, <2>1 DEF Logs, LogSteps
  <2>2. CASE i # 0
    <3>1. i - 1 \in Nat
      BY <1>1, <2>2, LoggerAssumption
    <3> QED BY <1>0, <1>1, <2>2, <3>1 DEF Logs, LogSteps
  <2> QED BY <2>1, <2>2
<1>5. logs[p] = l /\ \A q \in Loggers : q # p => logs[q] = log[q]
  BY <1>0
<1>6. i \in Slots /\ i + 1 \in Slots /\ i \in Nat /\ i < RotateFiles /\ 0 \in Slots
  BY <1>1, LoggerAssumption DEF Slots
<1> HIDE DEF l, logs, later
<1>7. OnlyBy(log, p) /\ NamesFit(names, log[p]) /\ LinesFit(inodes, names, log, lines, log[p])
  BY DEF LogAlone
<1>8. OnlyBy(logs, p)
  BY <1>5, <1>7 DEF OnlyBy
\* the free name moves down by one
<1>9. \A e, j : Gap(log[p], e, j) <=> e = d /\ j = i + 1
  BY <1>0 DEF Gap
<1>10. \A e, j : Gap(l, e, j) <=> e = d /\ j = i
  <2>1. i - 1 + 1 = i
    BY <1>6
  <2> QED BY <1>0, <1>4, <2>1 DEF Gap
<1>11. names[d][0] # NoFile
  BY <1>0, <1>7 DEF NamesFit
<1>12. ASSUME NEW nms, NEW q \in Loggers, NEW e \in Days, NEW n
       PROVE  Held(inodes, nms, logs[q], q, e, n) <=> Held(inodes, nms, log[q], q, e, n)
  <2>1. CASE q = p
    BY <1>1, <1>4, <1>5, <2>1 DEF Held
  <2>2. CASE q # p
    BY <1>5, <2>2 DEF Held
  <2> QED BY <2>1, <2>2
<1>13. \A e \in Days : \A j, k \in Slots : j < k /\ names[e][k] # NoFile => names[e][j] # NoFile \/ (e = d /\ j = i + 1)
  BY <1>7, <1>9 DEF NamesFit
<1>14. CASE names[d][i] = NoFile
  <2>1. later = names /\ i # 0
    BY <1>11, <1>14 DEF Shifted, later
  <2>2. \A k \in Slots : i < k => names[d][k] = NoFile
    <3> TAKE k \in Slots
    <3>1. i # i + 1
      BY <1>6
    <3> QED BY <1>1, <1>6, <1>13, <1>14, <3>1
  <2>3. NamesFit(names, l)
    <3>1. \A e \in Days : \A j, k \in Slots : k < j /\ names[e][j] # NoFile => names[e][k] # NoFile \/ (e = d /\ k = i)
      <4> SUFFICES ASSUME NEW e \in Days, NEW j \in Slots, NEW k \in Slots, k < j, names[e][j] # NoFile, names[e][k] = NoFile
                   PROVE  e = d /\ k = i
        OBVIOUS
      <4>1. e = d /\ k = i + 1
        BY <1>13
      <4>2. i < j
        BY <1>6, <4>1 DEF Slots
      <4> QED BY <2>2, <4>1, <4>2
    <3> QED BY <1>4, <1>10, <1>11, <1>14, <3>1 DEF NamesFit
  <2>4. \A e \in Days : Full(names, log[p], e) => Full(names, l, e)
    <3> SUFFICES ASSUME NEW e \in Days, Full(names, log[p], e) PROVE Full(names, l, e)
      OBVIOUS
    <3>1. CASE e # d
      BY <1>9, <1>10, <3>1 DEF Full
    <3>2. CASE e = d
      <4>1. i \in 1..RotateFiles /\ i # i + 1
        BY <1>6, <2>1, LoggerAssumption
      <4> QED BY <1>9, <1>14, <3>2, <4>1 DEF Full
    <3> QED BY <3>1, <3>2
  <2>5. \A q \in Loggers, e \in Days : \A n \in Nat :
            Held(inodes, names, logs[q], q, e, n) <=> Held(inodes, names, log[q], q, e, n)
    BY <1>12
  <2>6. LinesFit(inodes, names, logs, lines, l)
    BY <1>0, <1>7, <2>4, <2>5, SameLines
  <2> QED BY <1>0, <1>2, <1>3, <1>5, <1>8, <2>1, <2>3, <2>6 DEF LogAlone
<1>15. CASE names[d][i] # NoFile
  <2>1. /\ later \in Names
        /\ later[d][i] = NoFile /\ later[d][i + 1] = names[d][i]
        /\ \A e \in Days, j \in Slots : e # d \/ j \notin {i, i + 1} => later[e][j] = names[e][j]
    BY <1>0, <1>1, <1>15, ShiftNames DEF later
  <2>2. NamesFit(later, l)
    <3>1. ASSUME NEW e \in Days, NEW k \in Slots, NEW j \in Slots, j < k, later[e][k] # NoFile
          PROVE  later[e][j] # NoFile \/ (e = d /\ j = i)
      <4>1. CASE e # d
        BY <1>13, <2>1, <3>1, <4>1
      <4>2. CASE e = d /\ j \in {i, i + 1}
        BY <1>15, <2>1, <4>2
      <4>3. CASE e = d /\ j \notin {i, i + 1} /\ k = i + 1
        <5>1. j < i
          BY <1>6, <3>1, <4>3 DEF Slots
        <5> QED BY <1>1, <1>6, <1>13, <1>15, <2>1, <4>3, <5>1
      <4>4. CASE e = d /\ j \notin {i, i + 1} /\ k # i + 1
        BY <1>1, <1>13, <2>1, <3>1, <4>4
      <4> QED BY <4>1, <4>2, <4>3, <4>4
    <3>2. l.pc = "shift" => later[d][0] # NoFile
      <4>1. l.pc = "shift" => i # 0
        BY <1>0, <1>4 DEF l
      <4> QED BY <1>1, <1>6, <1>11, <2>1, <4>1, 0 # i + 1
    <3> QED BY <1>4, <1>10, <2>1, <3>1, <3>2 DEF NamesFit
  <2>3. CASE names[d][i + 1] = NoFile
    <3>1. \A e \in Days : Named(later, e) = Named(names, e)
      <4> TAKE e \in Days
      <4>1. CASE e # d
        BY <2>1, <4>1 DEF Named
      <4>2. CASE e = d
        <5>1. Named(later, d) \subseteq Named(names, d)
          BY <1>1, <1>6, <2>1 DEF Named
        <5>2. Named(names, d) \subseteq Named(later, d)
          <6> SUFFICES ASSUME NEW j \in Slots, names[d][j] # NoFile PROVE \E k \in Slots : later[d][k] = names[d][j]
            BY DEF Named
          <6> QED BY <1>1, <1>6, <2>1, <2>3
        <5> QED BY <4>2, <5>1, <5>2
      <4> QED BY <4>1, <4>2
    <3>2. \A q \in Loggers, e \in Days : \A n \in Nat :
              Held(inodes, later, logs[q], q, e, n) <=> Held(inodes, names, log[q], q, e, n)
      BY <1>12, <3>1 DEF Held
    <3>3. \A e \in Days : Full(names, log[p], e) => Full(later, l, e)
      <4> SUFFICES ASSUME NEW e \in Days, Full(names, log[p], e), NEW j \in 1..RotateFiles
                   PROVE  later[e][j] # NoFile \/ (e = d /\ j = i)
        BY <1>10 DEF Full
      <4>1. j \in Slots
        BY DEF Slots
      <4>2. names[e][j] # NoFile \/ (e = d /\ j = i + 1)
        BY <1>9 DEF Full
      <4> QED BY <1>15, <2>1, <4>1, <4>2
    <3>4. LinesFit(inodes, later, logs, lines, l)
      BY <1>0, <1>7, <3>2, <3>3, SameLines
    <3> QED BY <1>0, <1>2, <1>3, <1>5, <1>8, <2>2, <3>4 DEF LogAlone
  <2>4. CASE names[d][i + 1] # NoFile
    <3>1. i + 1 = RotateFiles
      <4>1. ~(i + 1 < RotateFiles)
        BY <1>1, <1>6, <1>7, <1>9, <2>4 DEF NamesFit
      <4> QED BY <1>6, <4>1, LoggerAssumption
    <3>2. Full(later, l, d)
      <4> SUFFICES ASSUME NEW j \in 1..RotateFiles PROVE later[d][j] # NoFile \/ j = i
        BY <1>10 DEF Full
      <4>1. j \in Slots
        BY DEF Slots
      <4>2. CASE j = i + 1
        BY <1>15, <2>1, <4>2
      <4>3. CASE j \notin {i, i + 1}
        <5>1. j < i + 1
          BY <3>1, <4>3, LoggerAssumption
        <5> QED BY <1>1, <1>6, <1>13, <2>1, <2>4, <4>1, <4>3, <5>1
      <4> QED BY <4>2, <4>3
    <3>3. \A e \in Days : Named(later, e) \subseteq Named(names, e) /\ (e # d => Named(later, e) = Named(names, e))
      <4> TAKE e \in Days
      <4>1. CASE e # d
        BY <2>1, <4>1 DEF Named
      <4>2. CASE e = d
        BY <1>1, <1>6, <2>1, <4>2 DEF Named
      <4> QED BY <4>1, <4>2
    <3>4. LinesFit(inodes, later, logs, lines, l)
      <4> SUFFICES ASSUME NEW q \in Loggers, NEW e \in Days
                   PROVE  /\ \A n, m \in 1..lines[q][e] :
                                n <= m /\ Held(inodes, later, logs[q], q, e, n) => Held(inodes, later, logs[q], q, e, m)
                          /\ (\E n \in 1..lines[q][e] : ~Held(inodes, later, logs[q], q, e, n)) => Full(later, l, e)
        BY DEF LinesFit
      <4>1. /\ \A n, m \in 1..lines[q][e] :
                 n <= m /\ Held(inodes, names, log[q], q, e, n) => Held(inodes, names, log[q], q, e, m)
            /\ (\E n \in 1..lines[q][e] : ~Held(inodes, names, log[q], q, e, n)) => Full(names, log[p], e)
        BY <1>7 DEF LinesFit
      <4>2. CASE e # d
        <5>1. \A n : Held(inodes, later, logs[q], q, e, n) <=> Held(inodes, names, log[q], q, e, n)
          BY <1>12, <3>3, <4>2 DEF Held
        <5>2. Full(names, log[p], e) => Full(later, l, e)
          <6>1. \A j \in 1..RotateFiles : j \in Slots
            BY DEF Slots
          <6> QED BY <1>9, <1>10, <2>1, <4>2, <6>1 DEF Full
        <5> QED BY <4>1, <5>1, <5>2
      <4>3. CASE e = d
        <5>1. ASSUME NEW n \in 1..lines[q][e], NEW m \in 1..lines[q][e], n <= m, Held(inodes, later, logs[q], q, e, n)
              PROVE  Held(inodes, later, logs[q], q, e, m)
          <6>1. n \in Nat /\ m \in Nat
            OBVIOUS
          <6>2. Held(inodes, later, log[q], q, d, n)
            BY <1>12, <4>3, <5>1
          <6>3. Held(inodes, names, log[q], q, d, n)
            BY <3>3, <4>3, <6>2 DEF Held
          <6>4. Held(inodes, names, log[q], q, d, m)
            BY <4>1, <4>3, <5>1, <6>3
          <6>5. Overwrites(names, d, i, later)
            BY <1>1, <1>15, <2>4, <3>1 DEF Overwrites, later
          <6>6. LosesOldest(inodes, names, later, log, d)
            BY <1>0, <6>5, OverwrittenIsOldest
          <6>7. Held(inodes, later, log[q], q, d, m)
            BY <5>1, <6>1, <6>2, <6>4, <6>6 DEF LosesOldest
          <6> QED BY <1>12, <4>3, <6>7
        <5> QED BY <3>2, <4>3, <5>1
      <4> QED BY <4>2, <4>3
    <3> QED BY <1>0, <1>2, <1>3, <1>5, <1>8, <2>2, <3>4 DEF LogAlone
  <2> QED BY <2>3, <2>4
<1> QED BY <1>14, <1>15

LEMMA RotationStart == LoggerInit => RotationInv
<1> SUFFICES ASSUME LoggerInit PROVE RotationInv
  OBVIOUS
<1>1. ASSUME NEW q \in Loggers PROVE log[q].pc = "off"
  BY ClosedLog DEF LoggerInit
<1> SUFFICES ASSUME NEW p \in Loggers PROVE LogAlone(inodes, names, log, lines, p)
  BY <1>1 DEF RotationInv, RotatesAlone
<1>2. \A d \in Days : \A i \in Slots : names[d][i] = NoFile
  BY DEF LoggerInit, Days
<1>3. \A q \in Loggers, d \in Days : lines[q][d] = 0
  BY DEF LoggerInit, Days
<1>4. NamesFit(names, log[p])
  BY <1>1, <1>2 DEF NamesFit, Gap
<1>5. LinesFit(inodes, names, log, lines, log[p])
  <2>1. \A q \in Loggers, d \in Days : 1..lines[q][d] = {}
    BY <1>3
  <2> QED BY <2>1 DEF LinesFit
<1> QED BY <1>1, <1>4, <1>5 DEF LogAlone, OnlyBy

\* alone while a process takes a step, and the process is the one at work
LEMMA AloneNow ==
  ASSUME RotationInv, alone, NEW p \in Loggers, log[p].pc # "off"
  PROVE  LogAlone(inodes, names, log, lines, p)
  BY DEF RotationInv, RotatesAlone

LEMMA AloneStep ==
  ASSUME LoggerInv, RotationInv, alone, NEW p \in Loggers, alone',
         \/ Configure(p) \/ roll_to_today(p) \/ CheckSize(p) \/ Shift(p) \/ Reopen(p)
         \/ CloseLogger(p) \/ LoggerDies(p)
         \/ \E flush \in BOOLEAN : submit(p, flush)
  PROVE  LogAlone(inodes', names', log', lines', p)
<1>1. LogAlone(inodes, names, log, lines, p)
  <2>1. CASE Configure(p)
    <3>1. OnlyBy(log, p)
      BY <2>1 DEF Configure, OnlyBy
    <3> QED BY <3>1 DEF RotationInv, RotatesAlone
  <2>2. CASE log[p].pc # "off"
    BY <2>2, AloneNow
  <2>3. Configure(p) \/ log[p].pc # "off"
    BY DEF roll_to_today, CheckSize, Shift, Reopen, CloseLogger, LoggerDies, submit
  <2> QED BY <2>1, <2>2, <2>3
<1>2. CASE Configure(p) \/ roll_to_today(p) \/ Reopen(p)
  BY <1>1, <1>2, OpeningAlone
<1>3. CASE CheckSize(p)
  BY <1>1, <1>3, CheckAlone
<1>4. CASE Shift(p)
  BY <1>1, <1>4, ShiftAlone
<1>5. CASE CloseLogger(p)
  BY <1>1, <1>5, CloseAlone
<1>6. CASE LoggerDies(p)
  BY <1>1, <1>6, DiesAlone
<1>7. ASSUME NEW flush \in BOOLEAN, submit(p, flush) PROVE LogAlone(inodes', names', log', lines', p)
  BY <1>1, <1>7, SubmitAlone
<1> QED BY <1>2, <1>3, <1>4, <1>5, <1>6, <1>7

LEMMA RotationStep == LoggerInv /\ RotationInv /\ [LoggerNext]_loggerVars => RotationInv'
<1> SUFFICES ASSUME LoggerInv, RotationInv, [LoggerNext]_loggerVars, alone'
             PROVE  RotatesAlone(inodes', names', log', lines')
  BY DEF RotationInv
<1>0. alone
  BY DEF LoggerNext, loggerVars, Configure, roll_to_today, CheckSize, Shift, Reopen, CloseLogger, LoggerDies, submit, Midnight
<1>1. ASSUME NEW p \in Loggers,
             \/ Configure(p) \/ roll_to_today(p) \/ CheckSize(p) \/ Shift(p) \/ Reopen(p)
             \/ CloseLogger(p) \/ LoggerDies(p)
             \/ \E flush \in BOOLEAN : submit(p, flush)
      PROVE  RotatesAlone(inodes', names', log', lines')
  <2>1. LogAlone(inodes', names', log', lines', p)
    BY <1>0, <1>1, AloneStep
  <2> QED BY <2>1, AloneForAll
<1>2. CASE Midnight \/ UNCHANGED loggerVars
  <2>1. inodes' = inodes /\ names' = names /\ log' = log /\ lines' = lines
    BY <1>2 DEF Midnight, loggerVars
  <2> QED BY <1>0, <2>1 DEF RotationInv
<1> QED BY <1>1, <1>2 DEF LoggerNext

\* what readers and streams have, in terms of the invariant
LEMMA KeptIsHeld ==
  ASSUME NEW p \in Loggers, NEW d \in Days, NEW n
  PROVE  n \in Kept(p, d) <=> n \in 1..lines[p][d] /\ Held(inodes, names, log[p], p, d, n)
<1>1. (\E i \in Slots : <<p, n>> \in ToSet(Content(d, i))) <=> (\E f \in Named(names, d) : <<p, n>> \in ToSet(inodes[f]))
  <2>1. ASSUME NEW i \in Slots, <<p, n>> \in ToSet(Content(d, i))
        PROVE  \E f \in Named(names, d) : <<p, n>> \in ToSet(inodes[f])
    <3>1. names[d][i] # NoFile
      BY <2>1 DEF Content, ToSet
    <3>2. Content(d, i) = inodes[names[d][i]] /\ names[d][i] \in Named(names, d)
      BY <3>1 DEF Content, Named
    <3> QED BY <2>1, <3>2
  <2>2. ASSUME NEW f \in Named(names, d), <<p, n>> \in ToSet(inodes[f])
        PROVE  \E i \in Slots : <<p, n>> \in ToSet(Content(d, i))
    <3>1. PICK i \in Slots : names[d][i] = f /\ f # NoFile
      BY DEF Named
    <3>2. Content(d, i) = inodes[f]
      BY <3>1 DEF Content
    <3> QED BY <2>2, <3>2
  <2> QED BY <2>1, <2>2
<1> QED BY <1>1, Zenon DEF Kept, Held

LEMMA RotationIs == LoggerInv /\ RotationInv => RotationKeeps
<1> SUFFICES ASSUME LoggerInv, RotationInv, alone, \A p \in Loggers : log[p].pc \in {"off", "ready"},
                    NEW p \in Loggers, NEW d \in Days
             PROVE  /\ \A n \in Kept(p, d) : n..lines[p][d] \subseteq Kept(p, d)
                    /\ Kept(p, d) # 1..lines[p][d] => \A i \in 1..RotateFiles : names[d][i] # NoFile
  BY DEF RotationKeeps, Days
\* some process sees the files: the one at work, or any
<1>1. PICK q \in Loggers : LogAlone(inodes, names, log, lines, q)
  <2>1. CASE \E q \in Loggers : log[q].pc # "off"
    BY <2>1, AloneNow
  <2>2. CASE \A q \in Loggers : log[q].pc = "off"
    <3>1. OnlyBy(log, p)
      BY <2>2 DEF OnlyBy
    <3> QED BY <3>1 DEF RotationInv, RotatesAlone
  <2> QED BY <2>1, <2>2
<1>2. \A e, j : ~Gap(log[q], e, j)
  BY DEF Gap
<1>3. /\ \A n, m \in 1..lines[p][d] :
           n <= m /\ Held(inodes, names, log[p], p, d, n) => Held(inodes, names, log[p], p, d, m)
      /\ (\E n \in 1..lines[p][d] : ~Held(inodes, names, log[p], p, d, n)) => Full(names, log[q], d)
  BY <1>1 DEF LogAlone, LinesFit
<1>4. ASSUME NEW n \in Kept(p, d), NEW m \in n..lines[p][d] PROVE m \in Kept(p, d)
  <2>1. n \in 1..lines[p][d] /\ Held(inodes, names, log[p], p, d, n)
    BY KeptIsHeld
  <2>2. lines[p][d] \in Nat
    BY DEF LoggerInv, LogsKept, LogsTyped
  <2>3. m \in 1..lines[p][d] /\ n <= m
    BY <2>1, <2>2
  <2> QED BY <1>3, <2>1, <2>3, KeptIsHeld
<1>5. ASSUME Kept(p, d) # 1..lines[p][d], NEW i \in 1..RotateFiles PROVE names[d][i] # NoFile
  <2>1. \A n : n \in Kept(p, d) => n \in 1..lines[p][d]
    BY KeptIsHeld
  <2>2. PICK n \in 1..lines[p][d] : n \notin Kept(p, d)
    BY <1>5, <2>1
  <2>3. ~Held(inodes, names, log[p], p, d, n)
    BY <2>2, KeptIsHeld
  <2> QED BY <1>2, <1>3, <2>3 DEF Full
<1> QED BY <1>4, <1>5

(* While no two processes log at once and none is killed with lines to write  *)
(* or between two renames, maybe_rotate loses only the oldest lines of a day, *)
(* and only once all the names of the day are in use: for any number of       *)
(* processes one after the other, of rotated files, lines and days.           *)
THEOREM RotationLosesOldest == LoggerSpec => []RotationKeeps
<1>1. LoggerInit => LoggerInv /\ RotationInv
  BY LoggerStart, RotationStart
<1>2. LoggerInv /\ RotationInv /\ [LoggerNext]_loggerVars => (LoggerInv /\ RotationInv)'
  BY LoggerStep, RotationStep
<1>3. LoggerInv /\ RotationInv => RotationKeeps
  BY RotationIs
<1> QED BY <1>1, <1>2, <1>3, PTL DEF LoggerSpec
================================================================================
