------------------------------- MODULE Panes -------------------------------
(* `nazg tui`: windows of panes, each pane with a shell of its own, laid out   *)
(* by a binary tree (window.cpp, managers/layout.cpp, tui_context.cpp).       *)
(*                                                                           *)
(* Three threads share them.  The UI thread runs the commands, each under the *)
(* window's or the context's mutex: one action each.  The update thread takes *)
(* bare pointers to the windows, then visits them one by one; the reaper      *)
(* thread destroys the panes that were closed.  A pane is destroyed, and its  *)
(* shell ended, by whoever drops the last reference to it.                    *)
(*                                                                           *)
(* A tree is a function from the paths of its nodes (sequences of 1, left,    *)
(* and 2, right) to [pane, dir]; a split node has pane NoPane.  Keys, modes,  *)
(* menus and drawing are left out: every command is reachable from every mode *)
(* through the command bar.  A shell that exits of itself stays a pane, as one *)
(* that runs does.                                                           *)
EXTENDS Integers, Sequences, FiniteSets, SequencesExt, Orders

CONSTANTS MaxPanes,     \* panes ever created
          MaxWindows    \* windows ever created

ASSUME PanesAssumption == {MaxPanes, MaxWindows} \subseteq Nat

VARIABLES windows,      \* windows_, with an identity for each
          activeWindow, \* active_window_index_ (from 0)
          lastWindow,   \* last_window_index_
          shell,        \* each pane's child: "none", "running", "reaped" (exited and waited for)
          reaper,       \* queue_, and the item worker_loop holds
          updater,      \* the pointers update_loop holds, and its copies of panes_
          windowsMade,  \* windows created
          phase         \* "running", "quitting", "closing", "ended" or "crashed"

paneVars == <<windows, activeWindow, lastWindow, shell, reaper, updater, windowsMade, phase>>

NoPane == 0
NoLayout == [snapshot |-> << >>, active |-> NoPane]

-----------------------------------------------------------------------------
(* Layout                                                                    *)

Leaves(tree) == {n \in DOMAIN tree : tree[n].pane # NoPane}

LeftOf(m, n) ==
    \E i \in DOMAIN m \cap DOMAIN n :
      m[i] < n[i] /\ \A j \in 1..(i - 1) : m[j] = n[j]

\* the leaves from left to right
LeavesInOrder(tree) ==
    InOrder(Leaves(tree), {pair \in Leaves(tree) \X Leaves(tree) : LeftOf(pair[1], pair[2])})

get_all_panes(tree) ==
    LET inOrder == LeavesInOrder(tree) IN [i \in DOMAIN inOrder |-> tree[inOrder[i]].pane]

find_node(tree, p) == CHOOSE n \in Leaves(tree) : tree[n].pane = p

Leaf(p) == [pane |-> p, dir |-> "none"]

set_root_pane(p) == [n \in {<< >>} |-> Leaf(p)]

split_pane(tree, p, new, dir) ==
    LET n == find_node(tree, p)
    IN  [m \in DOMAIN tree \cup {n \o <<1>>, n \o <<2>>} |->
           CASE m = n -> [pane |-> NoPane, dir |-> dir]
             [] m = n \o <<1>> -> Leaf(p)
             [] m = n \o <<2>> -> Leaf(new)
             [] OTHER -> tree[m]]

\* `*parent = move(*sibling); sibling.reset()`: the sibling's node goes up, and what is
\* then found where the sibling was is dropped, that is the sibling's own child of that side
Promoted(tree, parent, side, lost) ==
    LET sibling == parent \o <<side>>
        Source(m) == sibling \o SubSeq(m, Len(parent) + 1, Len(m))
        kept == {m \in DOMAIN tree : ~IsPrefix(parent, m)}
        moved == {parent \o SubSeq(m, Len(sibling) + 1, Len(m)) :
                    m \in {k \in DOMAIN tree : IsPrefix(sibling, k) /\ \A s \in lost : ~IsPrefix(sibling \o <<s>>, k)}}
    IN  [m \in kept \cup moved |-> IF m \in kept THEN tree[m] ELSE tree[Source(m)]]

\* a tree with a node that was freed: what follows is undefined
Wreck == [n \in {<< >>} |-> Leaf(-1)]

\* The trees remove_pane can leave; none when it returns false.  A left sibling is destroyed
\* by the move itself, which then reads it: its right child is lost, or left in the tree freed
\* (a freed leaf is read as what it was, with no child).
remove_pane(tree, p) ==
    LET n == find_node(tree, p)
        parent == Front(n)
        side == 3 - Last(n)
        sibling == parent \o <<side>>
    IN  IF n = << >> \/ sibling \notin DOMAIN tree THEN {}
        ELSE IF side = 2 \/ sibling \in Leaves(tree) THEN {Promoted(tree, parent, side, {side})}
        ELSE {Promoted(tree, parent, side, {1, 2})} \cup {t \in {Wreck} : sibling \o <<2>> \in DOMAIN tree}

\* the rectangle of a node in the 100 x 100 area directions are judged by
Half(r, dir, side) ==
    LET w == r.width \div 2
        h == r.height \div 2
    IN  CASE dir = "H" /\ side = 1 -> [r EXCEPT !.width = w]
          [] dir = "H" /\ side = 2 -> [r EXCEPT !.x = @ + w, !.width = @ - w]
          [] dir = "V" /\ side = 1 -> [r EXCEPT !.height = h]
          [] dir = "V" /\ side = 2 -> [r EXCEPT !.y = @ + h, !.height = @ - h]

calculate_positions(tree, n) ==
    FoldLeft(LAMBDA r, i : Half(r, tree[SubSeq(n, 1, i - 1)].dir, n[i]),
             [x |-> 0, y |-> 0, width |-> 100, height |-> 100], [i \in 1..Len(n) |-> i])

Centre(r) == <<r.x + r.width \div 2, r.y + r.height \div 2>>

\* the nearest leaf whose centre lies that way, the first of equals; {} for none
get_pane_in_direction(tree, p, way) ==
    LET here == Centre(calculate_positions(tree, find_node(tree, p)))
        Off(n) == LET c == Centre(calculate_positions(tree, n)) IN <<c[1] - here[1], c[2] - here[2]>>
        Ahead(n) == CASE way = "h" -> -Off(n)[1] [] way = "l" -> Off(n)[1]
                      [] way = "k" -> -Off(n)[2] [] way = "j" -> Off(n)[2]
        Aside(n) == LET d == IF way \in {"h", "l"} THEN Off(n)[2] ELSE Off(n)[1] IN IF d < 0 THEN -d ELSE d
        that == {n \in Leaves(tree) : tree[n].pane # p /\ Ahead(n) > 0}
        Far(n) == Ahead(n) + Aside(n)
        best == {n \in that : \A m \in that : Far(n) < Far(m) \/ (Far(n) = Far(m) /\ ~LeftOf(m, n))}
    IN  {tree[n].pane : n \in best}

\* snapshot() keeps the shape; restore_from_snapshot() refuses one with a missing child
Whole(tree) == \A n \in DOMAIN tree \ Leaves(tree) : {n \o <<1>>, n \o <<2>>} \subseteq DOMAIN tree

restore_from_snapshot(tree, new) ==
    LET inOrder == LeavesInOrder(tree)
        Nth(n) == CHOOSE i \in DOMAIN inOrder : inOrder[i] = n
    IN  [n \in DOMAIN tree |-> IF n \in Leaves(tree) THEN Leaf(new[Nth(n)]) ELSE tree[n]]

\* render_node gives a split with one child filler(): nothing below it is drawn; zoomed, the
\* target alone is
Drawn(w) ==
    IF w.zoomed THEN {w.target}
    ELSE {w.tree[n].pane : n \in {leaf \in Leaves(w.tree) :
            \A m \in DOMAIN w.tree : IsStrictPrefix(m, leaf) => {m \o <<1>>, m \o <<2>>} \subseteq DOMAIN w.tree}}

-----------------------------------------------------------------------------
(* Panes and who holds them                                                  *)

Created == {p \in 1..MaxPanes : shell[p] # "none"}
Fresh(k) == [i \in 1..k |-> Cardinality(Created) + i]
Room(k) == Cardinality(Created) + k <= MaxPanes

Shown(ws) == UNION {ws[i].panes : i \in 1..Len(ws)}
Queued(r) == (ToSet(r.queue) \cup {r.holds}) \ {NoPane}
Held(ws, r, u) == Shown(ws) \cup Queued(r) \cup u.panes

\* SIGTERM and ten polls, 10 ms apart: what may be left of the shell
Polled(s) == {s, "reaped"}

\* then SIGKILL to one that is still there, and a wait
cleanup(s) == {IF left = "running" THEN "reaped" ELSE left : left \in Polled(s)}

\* the shells once those of the panes in `new` were forked
spawn_process(new, s) == [p \in 1..MaxPanes |-> IF p \in new THEN "running" ELSE s[p]]

\* The references become those of ws, r and u, the panes in `new` start a shell, and the
\* shell of a pane nobody holds any more is ended with it
Become(ws, r, u, new) ==
    LET dropped == {p \in Created : shell[p] = "running"} \ Held(ws, r, u)
    IN  /\ windows' = ws /\ reaper' = r /\ updater' = u
        /\ \E left \in [dropped -> {"running", "reaped"}] :
             /\ \A p \in dropped : left[p] \in cleanup(shell[p])
             /\ shell' = spawn_process(new, [p \in 1..MaxPanes |-> IF p \in dropped THEN left[p] ELSE shell[p]])

TargetStays(w, p) == [w EXCEPT !.active = p]

set_active_locked(w, p) ==
    [w EXCEPT !.active = p, !.target = IF p # NoPane /\ w.zoomed THEN p ELSE @]

-----------------------------------------------------------------------------
(* The UI thread: the commands on windows                                    *)

PanesInit ==
    /\ windows = << >> /\ activeWindow = 0 /\ lastWindow = 0
    /\ shell = [p \in 1..MaxPanes |-> "none"]
    /\ reaper = [queue |-> << >>, holds |-> NoPane]
    /\ updater = [held |-> << >>, panes |-> {}]
    /\ windowsMade = 0 /\ phase = "running"

NewWindow(id, p) ==
    [id |-> id, panes |-> {p}, active |-> p, tree |-> set_root_pane(p),
     zoomed |-> FALSE, target |-> NoPane, saved |-> NoLayout]

create_window ==
    /\ windowsMade < MaxWindows /\ Room(1)
    /\ windowsMade' = windowsMade + 1
    /\ Become(Append(windows, NewWindow(windowsMade + 1, Fresh(1)[1])), reaper, updater, {Fresh(1)[1]})
    /\ lastWindow' = activeWindow
    /\ activeWindow' = Len(windows)
    /\ UNCHANGED phase

\* the window's panes are destroyed on the spot, the copies the update thread has aside
close_window ==
    /\ Len(windows) > 1
    /\ Become(RemoveAt(windows, activeWindow + 1), reaper, updater, {})
    /\ activeWindow' = Min({activeWindow, Len(windows) - 2})
    /\ lastWindow' = Min({lastWindow, Len(windows) - 2})
    /\ UNCHANGED <<windowsMade, phase>>

FocusMoves(to) ==
    /\ Len(windows) > 1
    /\ lastWindow' = activeWindow
    /\ activeWindow' = to
    /\ UNCHANGED <<windows, shell, reaper, updater, windowsMade, phase>>

focus_next_window == FocusMoves((activeWindow + 1) % Len(windows))
focus_previous_window == FocusMoves((activeWindow + Len(windows) - 1) % Len(windows))
focus_last_window == lastWindow # activeWindow /\ FocusMoves(lastWindow)

-----------------------------------------------------------------------------
(* The UI thread: the commands on the active window's panes                  *)

active_window == windows[activeWindow + 1]
HasWindow == activeWindow < Len(windows)

\* the active window becomes w; the panes it loses go to the reaper in the order given
Window(w, closed, new) ==
    /\ Become([windows EXCEPT ![activeWindow + 1] = w], [reaper EXCEPT !.queue = @ \o closed], updater, new)
    /\ UNCHANGED <<activeWindow, lastWindow, windowsMade>>

Unzoomed(w) == [w EXCEPT !.zoomed = FALSE, !.target = NoPane]

\* the pane's pty or shell may not start: the zoom is off already
split_active(dir) ==
    LET w == Unzoomed(active_window)
        new == Fresh(1)[1]
    IN  /\ w.active # NoPane
        /\ \/ /\ Room(1)
              /\ Window(set_active_locked([w EXCEPT !.panes = @ \cup {new}, !.tree = split_pane(@, w.active, new, dir)],
                                          new), << >>, {new})
           \/ Window(w, << >>, {})
        /\ UNCHANGED phase

close_active ==
    LET w == IF active_window.active = active_window.target THEN Unzoomed(active_window) ELSE active_window
        gone == w.active
        trees == remove_pane(w.tree, gone)
        First(t) == IF Leaves(t) = {} THEN NoPane ELSE Head(get_all_panes(t))
    IN  /\ gone # NoPane /\ Cardinality(w.panes) > 1
        /\ \/ trees = {} /\ Window(w, << >>, {}) /\ UNCHANGED phase
           \/ \E t \in trees \ {Wreck} :
                /\ Window(set_active_locked([w EXCEPT !.panes = @ \ {gone}, !.tree = t], First(t)), <<gone>>, {})
                /\ UNCHANGED phase
           \/ Wreck \in trees /\ phase' = "crashed" /\ Window(w, << >>, {})

navigate(way) ==
    LET w == active_window
    IN  /\ w.active # NoPane
        /\ \E next \in get_pane_in_direction(w.tree, w.active, way) :
             Window(set_active_locked(w, next), << >>, {})
        /\ UNCHANGED phase

toggle_zoom ==
    LET w == active_window
    IN  /\ w.active # NoPane
        /\ Window(IF w.zoomed THEN Unzoomed(w) ELSE [w EXCEPT !.zoomed = TRUE, !.target = w.active], << >>, {})
        /\ UNCHANGED phase

\* the active pane's place among the leaves; the first for one that is not there
ActiveIndex(leaves, p) ==
    CHOOSE i \in DOMAIN leaves : leaves[i] = p \/ (i = 1 /\ p \notin ToSet(leaves))

\* snapshot() numbers the leaves
save_layout ==
    LET w == active_window
        leaves == get_all_panes(w.tree)
        numbers == [i \in DOMAIN leaves |-> i]
    IN  /\ leaves # << >>
        /\ Window([w EXCEPT !.saved = [snapshot |-> restore_from_snapshot(w.tree, numbers),
                                       active |-> ActiveIndex(leaves, w.active)]], << >>, {})
        /\ UNCHANGED phase

\* a snapshot that is not whole is refused (and the panes created for it destroyed again)
restore_layout ==
    LET w == active_window
        leaves == Cardinality(Leaves(w.saved.snapshot))
        new == Fresh(leaves)
    IN  /\ w.saved # NoLayout /\ Room(leaves) /\ Whole(w.saved.snapshot)
        /\ Window(set_active_locked([Unzoomed(w) EXCEPT !.panes = ToSet(new),
                                                        !.tree = restore_from_snapshot(w.saved.snapshot, new)],
                                    new[w.saved.active]),
                  InOrder(w.panes, {pair \in w.panes \X w.panes : pair[1] < pair[2]}), ToSet(new))
        /\ UNCHANGED phase

-----------------------------------------------------------------------------
(* The update thread, the reaper thread, and the end                         *)

\* all_windows(): pointers, and the mutex is released
UpdateBegins ==
    /\ phase = "running" /\ updater = [held |-> << >>, panes |-> {}]
    /\ updater' = [updater EXCEPT !.held = [i \in 1..Len(windows) |-> windows[i].id]]
    /\ UNCHANGED <<windows, activeWindow, lastWindow, shell, reaper, windowsMade, phase>>

\* Window::update copies panes_; on a window that was closed meanwhile it is undefined
update ==
    /\ updater.held # << >> /\ updater.panes = {}
    /\ LET here == {i \in 1..Len(windows) : windows[i].id = Head(updater.held)}
       IN  /\ updater' = [held |-> Tail(updater.held), panes |-> UNION {windows[i].panes : i \in here}]
           /\ phase' \in {phase} \cup {q \in {"crashed"} : here = {}}
    /\ UNCHANGED <<windows, activeWindow, lastWindow, shell, reaper, windowsMade>>

UpdateDrops ==
    /\ updater.panes # {}
    /\ Become(windows, reaper, [updater EXCEPT !.panes = {}], {})
    /\ UNCHANGED <<activeWindow, lastWindow, windowsMade, phase>>

ReaperTakes ==
    /\ reaper.holds = NoPane /\ reaper.queue # << >>
    /\ reaper' = [queue |-> Tail(reaper.queue), holds |-> Head(reaper.queue)]
    /\ UNCHANGED <<windows, activeWindow, lastWindow, shell, updater, windowsMade, phase>>

\* The item's log is a bare pointer, and main's logger goes before the reaper does
ReaperDrops ==
    /\ reaper.holds # NoPane
    /\ Become(windows, [reaper EXCEPT !.holds = NoPane], updater, {})
    /\ phase' \in {phase} \cup {q \in {"crashed"} : phase = "closing"}
    /\ UNCHANGED <<activeWindow, lastWindow, windowsMade>>

worker_loop == ReaperTakes \/ ReaperDrops

quit ==
    /\ phase = "running" /\ phase' = "quitting"
    /\ UNCHANGED <<windows, activeWindow, lastWindow, shell, reaper, updater, windowsMade>>

\* run() joins the update thread; the application goes with its windows
AppDestroyed ==
    /\ phase = "quitting" /\ updater = [held |-> << >>, panes |-> {}]
    /\ phase' = "closing"
    /\ Become(<< >>, reaper, updater, {})
    /\ UNCHANGED <<activeWindow, lastWindow, windowsMade>>

\* ~PaneReaper: the worker empties the queue and is joined
shutdown ==
    /\ phase = "closing" /\ reaper = [queue |-> << >>, holds |-> NoPane]
    /\ phase' = "ended"
    /\ UNCHANGED <<windows, activeWindow, lastWindow, shell, reaper, updater, windowsMade>>

WindowCommands ==
    create_window \/ close_window \/ focus_next_window \/ focus_previous_window \/ focus_last_window

PaneCommands ==
    \/ \E dir \in {"H", "V"} : split_active(dir)
    \/ close_active \/ save_layout \/ restore_layout \/ toggle_zoom

NavigateCommands == \E way \in {"h", "j", "k", "l"} : navigate(way)

PanesNext ==
    \/ /\ phase = "running"
       /\ WindowCommands \/ (HasWindow /\ (PaneCommands \/ NavigateCommands))
    \/ /\ phase \notin {"ended", "crashed"}
       /\ UpdateBegins \/ update \/ UpdateDrops \/ worker_loop \/ quit \/ AppDestroyed \/ shutdown

PanesSpec == PanesInit /\ [][PanesNext]_paneVars

-----------------------------------------------------------------------------
(* Properties                                                                *)

(* However windows, panes, the update thread and the reaper interleave, the   *)
(* shell of a pane nobody refers to any more has been ended and waited for    *)
(* (Terminal::cleanup), and at the normal end of the program so has every     *)
(* shell it started.                                                         *)
NoShellLeftBehind ==
    phase # "crashed" => \A p \in Created \ Held(windows, reaper, updater) : shell[p] = "reaped"

(* What is typed goes to the window's active pane (Window::send_input): one it *)
(* still owns and a leaf of its layout, through splits, closes, restores and  *)
(* lost subtrees.  It is drawn (render_node), by a zoomed window alone, for    *)
(* as long as the layout has every pane the window owns: once closing a pane  *)
(* cost it another, the active pane may be a leaf that is not drawn.          *)
KeysGoWhereShown ==
    \A i \in 1..Len(windows) :
      LET w == windows[i]
          leaves == {w.tree[n].pane : n \in Leaves(w.tree)}
      IN  /\ w.active # NoPane => /\ w.active \in w.panes \cap leaves
                                 /\ (w.panes \subseteq leaves => w.active \in Drawn(w))
          /\ w.active = NoPane => leaves = {}
          /\ w.zoomed => w.target = w.active

(* layout.cpp:109: the sibling is moved "in one shot to preserve children":   *)
(* closing a pane keeps every other pane of the window in its layout.         *)
ClosingKeepsTheOthers ==
    \A i \in 1..Len(windows) :
      LET w == windows[i] IN w.panes = {w.tree[n].pane : n \in Leaves(w.tree)} /\ Whole(w.tree)
=============================================================================
