------------------------------- MODULE Logger -------------------------------
(***************************************************************************)
(* The blackbox logger (blackbox/src/logger.cpp): nazg processes that      *)
(* append to one dated file through buffered streams and rotate it by      *)
(* renaming, with nothing but the file system between them.  The mutex m_  *)
(* makes submit one thread's at a time inside a process.                   *)
(***************************************************************************)
EXTENDS Integers, Sequences, FiniteSets, SequencesExt, FiniteSetsExt

CONSTANTS
    Loggers,       \* the processes
    RotateFiles,   \* cfg_.rotate_files
    RotateLines,   \* cfg_.rotate_bytes, in lines
    MaxDay,        \* days on which the processes run
    MaxLines,      \* lines written in a behaviour
    NoFile

ASSUME LoggerAssumption ==
    /\ RotateFiles \in Nat \ {0}
    /\ RotateLines \in Nat \ {0}
    /\ MaxDay \in Nat \ {0}
    /\ MaxLines \in Nat
    /\ NoFile \notin Nat

VARIABLES
    inodes,   \* contents of the files ever created, in order of creation
    names,    \* [day][i]: the file called nazg-day.log (i = 0) or nazg-day.log.i
    log,      \* [p]: current_date_, fout_ and where submit is
    today,
    lines,    \* [p][day]: number of lines it has submitted that day
    alone     \* history: no two loggers at once, none killed with lines to write or
              \* between two renames

loggerVars == <<inodes, names, log, today, lines, alone>>

Slots == 0..RotateFiles
Files == 1..Len(inodes)

Closed == [pc |-> "off", day |-> 0, out |-> NoFile, buf |-> <<>>, i |-> 0]

LoggerInit ==
    /\ inodes = <<>>
    /\ names = [d \in 1..MaxDay |-> [i \in Slots |-> NoFile]]
    /\ log = [p \in Loggers |-> Closed]
    /\ today = 1
    /\ lines = [p \in Loggers |-> [d \in 1..MaxDay |-> 0]]
    /\ alone = TRUE

----------------------------------------------------------------------------
(* Streams                                                                  *)

\* the buffer of fout_ reaches the file the stream was opened on, whatever its
\* name is by now
Flushed(p) ==
    IF log[p].out = NoFile THEN inodes
    ELSE [inodes EXCEPT ![log[p].out] = @ \o log[p].buf]

\* open_file_if_needed: fout_.open(current_path_, out | app)
OpenFile(p, d, files, pc) ==
    /\ inodes' = IF names[d][0] = NoFile THEN Append(files, <<>>) ELSE files
    /\ names' = IF names[d][0] = NoFile THEN [names EXCEPT ![d][0] = Len(files) + 1] ELSE names
    /\ log' = [log EXCEPT ![p] = [pc |-> pc, day |-> d, out |-> names'[d][0], buf |-> <<>>, i |-> 0]]

\* the constructor: configure, roll_to_today_unlocked
Configure(p) ==
    /\ log[p].pc = "off"
    /\ OpenFile(p, today, inodes, "ready")
    /\ alone' = (alone /\ \A q \in Loggers \ {p} : log[q].pc = "off")
    /\ UNCHANGED <<today, lines>>

\* roll_to_today_unlocked at the head of submit: close yesterday's, open today's
roll_to_today(p) ==
    /\ log[p].pc = "ready"
    /\ log[p].day # today
    /\ OpenFile(p, today, Flushed(p), "ready")
    /\ UNCHANGED <<today, lines, alone>>

\* submit: the line goes to the stream; ERROR and the TUI flush
submit(p, flush) ==
    LET line == <<p, lines[p][today] + 1>> IN
    /\ log[p].pc = "ready"
    /\ log[p].day = today
    /\ MapThenSumSet(LAMBDA x : lines[x[1]][x[2]], Loggers \X (1..MaxDay)) < MaxLines
    /\ lines' = [lines EXCEPT ![p][today] = @ + 1]
    /\ IF flush
       THEN /\ inodes' = [inodes EXCEPT ![log[p].out] = @ \o log[p].buf \o <<line>>]
            /\ log' = [log EXCEPT ![p].buf = <<>>, ![p].pc = "check"]
       ELSE /\ inodes' = inodes
            /\ log' = [log EXCEPT ![p].buf = Append(@, line), ![p].pc = "check"]
    /\ UNCHANGED <<names, today, alone>>

----------------------------------------------------------------------------
(* maybe_rotate                                                             *)

\* the size is that of the file that has the name, not of the one being written;
\* a full file is closed (flushed) before the renames
CheckSize(p) ==
    LET f == names[log[p].day][0] IN
    /\ log[p].pc = "check"
    /\ IF f = NoFile \/ Len(inodes[f]) < RotateLines
       THEN /\ log' = [log EXCEPT ![p].pc = "ready"]
            /\ inodes' = inodes
       ELSE /\ log' = [log EXCEPT ![p] = [@ EXCEPT !.pc = "shift", !.out = NoFile, !.buf = <<>>,
                                                 !.i = RotateFiles - 1]]
            /\ inodes' = Flushed(p)
    /\ UNCHANGED <<names, today, lines, alone>>

\* mutant: the loop stops before .1
ShiftSkipsFirst(p) ==
    LET d == log[p].day  i == log[p].i IN
    /\ log[p].pc = "shift"
    /\ names' = IF i = 1 \/ names[d][i] = NoFile THEN names
                ELSE [names EXCEPT ![d] = [@ EXCEPT ![i] = NoFile, ![i + 1] = names[d][i]]]
    /\ log' = [log EXCEPT ![p] = IF i = 0 THEN [@ EXCEPT !.pc = "reopen"] ELSE [@ EXCEPT !.i = i - 1]]
    /\ UNCHANGED <<inodes, today, lines, alone>>

\* mutant: nothing is shifted, the file takes the first free number
ShiftToFree(p) ==
    LET d == log[p].day
        free == {i \in 1..RotateFiles : names[d][i] = NoFile}
        i == IF free = {} THEN RotateFiles ELSE Min(free)
    IN
    /\ log[p].pc = "shift"
    /\ names' = [names EXCEPT ![d] = [@ EXCEPT ![0] = NoFile, ![i] = names[d][0]]]
    /\ log' = [log EXCEPT ![p].pc = "reopen"]
    /\ UNCHANGED <<inodes, today, lines, alone>>

\* one rename of the shift loop, from the oldest down, then the file itself to .1
Shift(p) ==
    LET d == log[p].day  i == log[p].i IN
    /\ log[p].pc = "shift"
    /\ names' = IF names[d][i] = NoFile THEN names
                ELSE [names EXCEPT ![d] = [@ EXCEPT ![i] = NoFile, ![i + 1] = names[d][i]]]
    /\ log' = [log EXCEPT ![p] = IF i = 0 THEN [@ EXCEPT !.pc = "reopen"] ELSE [@ EXCEPT !.i = i - 1]]
    /\ UNCHANGED <<inodes, today, lines, alone>>

Reopen(p) ==
    /\ log[p].pc = "reopen"
    /\ OpenFile(p, log[p].day, inodes, "ready")
    /\ UNCHANGED <<today, lines, alone>>

----------------------------------------------------------------------------

\* ~logger flushes and closes
CloseLogger(p) ==
    /\ log[p].pc = "ready"
    /\ inodes' = Flushed(p)
    /\ log' = [log EXCEPT ![p] = Closed]
    /\ UNCHANGED <<names, today, lines, alone>>

\* the process is killed, or FATAL calls std::terminate: the buffer is lost
LoggerDies(p) ==
    /\ log[p].pc # "off"
    /\ log' = [log EXCEPT ![p] = Closed]
    /\ alone' = (alone /\ log[p].buf = <<>> /\ log[p].pc \notin {"shift", "reopen"})
    /\ UNCHANGED <<inodes, names, today, lines>>

Midnight ==
    /\ today < MaxDay
    /\ today' = today + 1
    /\ UNCHANGED <<inodes, names, log, lines, alone>>

LoggerNext ==
    \/ \E p \in Loggers :
          \/ Configure(p) \/ roll_to_today(p) \/ CheckSize(p) \/ Shift(p) \/ Reopen(p)
          \/ CloseLogger(p) \/ LoggerDies(p)
          \/ \E flush \in BOOLEAN : submit(p, flush)
    \/ Midnight

LoggerSpec == LoggerInit /\ [][LoggerNext]_loggerVars

----------------------------------------------------------------------------

\* what a reader finds under a name
Content(d, i) == IF names[d][i] = NoFile THEN <<>> ELSE inodes[names[d][i]]

\* who reads a day's files from the oldest name down meets line a of file i before
\* line b of file j
ReadBefore(i, a, j, b) == i > j \/ (i = j /\ a < b)

(* However the renames of several processes' maybe_rotate interleave, and     *)
(* although each goes on writing to files that another has renamed, the lines *)
(* of a process read in the order in which it wrote them, and those that it  *)
(* has still to flush come after those in the files.                         *)
LinesInOrder ==
    /\ \A d \in 1..MaxDay : \A i, j \in Slots :
           \A a \in DOMAIN Content(d, i), b \in DOMAIN Content(d, j) :
               LET line == Content(d, i)[a]  next == Content(d, j)[b]
               IN ReadBefore(i, a, j, b) /\ line[1] = next[1] => line[2] < next[2]
    /\ \A p \in Loggers : log[p].day # 0 =>
           \A i \in Slots : \A a \in DOMAIN Content(log[p].day, i), b \in DOMAIN log[p].buf :
               LET line == Content(log[p].day, i)[a]  next == log[p].buf[b]
               IN line[1] = p => line[2] < next[2]

\* the numbers of the lines of p's day that a reader or p's stream still has
Kept(p, d) ==
    {n \in 1..lines[p][d] : \/ \E i \in Slots : <<p, n>> \in ToSet(Content(d, i))
                            \/ log[p].day = d /\ <<p, n>> \in ToSet(log[p].buf)}

(* While no two processes log at once and none is killed with lines to write, *)
(* rotation loses only a day's oldest lines, and only once every rotated name *)
(* of that day is in use.  (Two processes that rotate together do lose more:  *)
(* one renames the other's new file over the file just rotated.)             *)
RotationKeeps ==
    alone /\ (\A p \in Loggers : log[p].pc \in {"off", "ready"}) =>
        \A p \in Loggers, d \in 1..MaxDay :
            /\ \A n \in Kept(p, d) : n..lines[p][d] \subseteq Kept(p, d)
            /\ Kept(p, d) # 1..lines[p][d] => \A i \in 1..RotateFiles : names[d][i] # NoFile
=============================================================================
