------------------------------- MODULE Window -------------------------------
(***************************************************************************)
(* The window over a running session: the frame loop of                     *)
(* xtce-gs-gui/src/app.rs over the panels' copies, the slot through which   *)
(* the decode thread asks for a frame, the operator, and the two locks a    *)
(* frame takes, the store's and then the log's.                             *)
(*                                                                          *)
(* A frame is the steps between which the other threads may run: it begins, *)
(* the store is copied out, the log is copied out, the panels are drawn and *)
(* what the operator asked for is applied.  A name is the parameter it      *)
(* resolves to (Arrangement has the names), a plot is the set of parameters *)
(* in it, a series the times of the points it draws.                        *)
(***************************************************************************)
EXTENDS ParameterStore, EventLog, FiniteSets, SequencesExt

CONSTANTS
    Containers,    \* what a packet may carry: sets of parameters
    InitialPlots,  \* the plots of the saved layout
    StartDepth,    \* the history depth the session and the layout begin with
    Depths,        \* history depths the operator may ask for
    Texts,         \* what may be typed in a search box: the names it matches
    Windows,       \* where a drag may leave the axis: sets of <<low, high>>
    Lines,         \* what may be logged
    LogCapacity,   \* EVENT_LOG_CAPACITY
    MaxPlots,      \* bound: plots in the layout
    Budgets        \* bounds: packets, lines and inputs of one behaviour

ASSUME WindowAssumption ==
    /\ Containers \subseteq SUBSET Params /\ InitialPlots \in Seq(SUBSET Params)
    /\ StartDepth \in Nat \ {0} /\ Depths \subseteq Nat
    /\ LogCapacity \in Nat \ {0}
    /\ Budgets \subseteq [packets : Nat, lines : Nat, inputs : Nat]
    /\ IsFiniteSet(Budgets)

VARIABLES
    store,       \* the parameter store, behind its lock
    waking,      \* the decode thread has filed a batch and not yet woken anyone
    log,         \* the event log, behind its lock
    slot,        \* the window's context has arrived
    repaint,     \* the context has been asked for a frame
    pc,          \* where the interface thread is
    pending,     \* an input event has arrived
    taken,       \* the frame being drawn holds an input event
    passes,      \* input_passes: frames still owed a copy
    layout,      \* the plots
    controls,    \* filter, watchedOnly and search, as the operator set them
    view,        \* the axis: whether it is paused, and its range
    screen,      \* what the panels hold to draw from, and what it was copied for
    panel,       \* the lines the event panel holds
    budget,      \* packets, lines and inputs this behaviour has left
    kept         \* every time a watched parameter's history should hold

decodeVars == <<store, kept, waking>>
frameVars == <<pc, pending, taken, passes>>
panelVars == <<layout, controls, view, screen, panel>>
windowVars == <<decodeVars, log, slot, repaint, frameVars, panelVars, budget>>

OneRefreshPass == 1  \* a mistake: the frame that takes the input in is the last
INPUT_REFRESH_PASSES == 2
MIN_HISTORY_DEPTH == 1
EMPTY_WINDOW_SECONDS == 60
NoRange == <<>>

Larger(a, b) == IF a < b THEN b ELSE a
Smaller(a, b) == IF a < b THEN a ELSE b
LastOf(s, n) == SubSeq(s, Larger(0, Len(s) - n) + 1, Len(s))
-----------------------------------------------------------------------------
(* What the panels copy out of the store. *)

(* The partition points of points in order of time: how many pass.          *)
PointsBefore(points, t) == Cardinality({i \in DOMAIN points : points[i] < t})
PointsUpto(points, t) == Cardinality({i \in DOMAIN points : points[i] <= t})

(* A mistake: a wrapped ring is searched as if its newer half came first. *)
VisibleSwapped(ring, range) ==
    LET total == Len(ring.items)
    IN  IF range = NoRange
          THEN <<0, total>>
          ELSE <<Larger(1, PointsBefore(NewHalf(ring), range[1])) - 1,
                 Smaller(PointsUpto(ring.items, range[2]) + 1, total)>>

(* The points of a ring a range selects: a search in each half, and one     *)
(* point more at either end.                                                *)
VisibleRange(ring, range) ==
    LET old == OldHalf(ring)
        new == NewHalf(ring)
        total == Len(ring.items)
        Logical(bound, rest) == IF bound < Len(old) THEN bound ELSE Len(old) + rest
        start == Logical(PointsBefore(old, range[1]), PointsBefore(new, range[1]))
        end == Logical(PointsUpto(old, range[2]), PointsUpto(new, range[2]))
    IN  IF range = NoRange
          THEN <<0, total>>
          ELSE <<Larger(1, start) - 1, Smaller(end + 1, total)>>

Points(ring, range) ==
    LET visible == VisibleRange(ring, range)
    IN  SubSeq(Contents(ring), visible[1] + 1, visible[2])

(* A following grid draws the whole ring, a paused one the range it was left *)
(* at, and a parameter nobody watches draws nothing.                        *)
PlotsRefresh(s, groups, v) ==
    [i \in DOMAIN groups |->
        [p \in DOMAIN groups[i] |->
            IF p \in Watched(s)
              THEN Points(s.history[p], IF v.paused THEN v.range ELSE NoRange)
              ELSE <<>>]]

(* Reconciles the series with the layout, keeping the points of those that  *)
(* stay in their plot.                                                      *)
PlotsSync(plots, groups) ==
    [i \in DOMAIN plots |->
        [p \in plots[i] |->
            IF i \in DOMAIN groups /\ p \in DOMAIN groups[i]
              THEN groups[i][p]
              ELSE <<>>]]

TreeRefresh(s, matches) ==
    [p \in matches |-> [watched |-> p \in Watched(s), last |-> s.latest[p]]]

TableRefresh(s, c) ==
    [p \in {q \in Seen(s) \intersect c.filter :
              c.watchedOnly => q \in Watched(s)} |->
        [time |-> s.latest[p], updates |-> s.updates[p],
         watched |-> p \in Watched(s)]]

(* The lines the event panel holds: copied when the totals differ. *)
NoPanel == [lines |-> <<>>, total |-> 0]

PanelRefresh(held, l) ==
    IF l.total = held.total THEN held
                            ELSE [lines |-> Contents(l.entries), total |-> l.total]

(* The axis plots::show leaves behind.  A following grid is pinned to what  *)
(* it draws, or to the last minute when that is nothing or one instant.  A  *)
(* paused grid stays where it is; one paused before it was ever drawn is    *)
(* given an axis by egui_plot.                                              *)
SpanOf(groups, now) ==
    LET times == UNION {UNION {Range(groups[i][p]) : p \in DOMAIN groups[i]} :
                          i \in DOMAIN groups}
        high == IF times = {} THEN now ELSE Max(times)
        low == IF times = {} THEN now ELSE Min(times)
    IN  IF low = high THEN <<high - EMPTY_WINDOW_SECONDS, high>> ELSE <<low, high>>

ShownViews ==
    IF screen.groups = <<>>
      THEN {view}
      ELSE LET ranges == IF ~view.paused
                           THEN {SpanOf(screen.groups, store.generation)}
                           ELSE IF view.range = NoRange THEN Windows
                                                        ELSE {view.range}
           IN  {[view EXCEPT !.range = r] : r \in ranges}
-----------------------------------------------------------------------------
NewView == [paused |-> FALSE, range |-> NoRange]

WindowInit ==
    /\ budget \in Budgets
    /\ store = NewStore(StartDepth)
    /\ kept = <<>>
    /\ waking = FALSE
    /\ log = EmptyLog(LogCapacity)
    /\ slot = FALSE /\ repaint = FALSE
    /\ pc = "opening"
    /\ pending = FALSE /\ taken = FALSE
    /\ passes = INPUT_REFRESH_PASSES
    /\ layout = InitialPlots
    /\ controls = [filter |-> Params, watchedOnly |-> FALSE, search |-> Params]
    /\ view = NewView
    /\ screen = [generation |-> 0, view |-> NewView, dirty |-> TRUE,
                 tree |-> <<>>, table |-> <<>>, groups |-> <<>>]
    /\ panel = NoPanel

Spend(kind) == /\ budget[kind] > 0
               /\ budget' = [budget EXCEPT ![kind] = @ - 1]
Most(kind) == Max({b[kind] : b \in Budgets})

(* The decode thread files a packet under the write lock, and wakes the     *)
(* window after it has let go of it.                                        *)
File ==
    /\ ~waking /\ Spend("packets")
    /\ \E carried \in Containers :
         LET time == store.generation + 1 IN
         /\ store' = Ingest(store, carried, time)
         /\ kept' = [p \in DOMAIN kept |->
                       IF p \in carried \intersect Numeric
                         THEN LastOf(Append(kept[p], time), store.depth)
                         ELSE kept[p]]
    /\ waking' = TRUE
    /\ UNCHANGED <<log, slot, repaint, frameVars, panelVars>>

(* RepaintSlot::wake does nothing before there is a window. *)
Wake ==
    /\ waking
    /\ waking' = FALSE
    /\ repaint' = (repaint \/ slot)
    /\ UNCHANGED <<budget, store, kept, log, slot, frameVars, panelVars>>

(* Either task logs a line.  Nobody is woken for it. *)
LogLine ==
    /\ Spend("lines")
    /\ \E line \in Lines : log' = PushLine(log, line)
    /\ UNCHANGED <<decodeVars, slot, repaint, frameVars, panelVars>>

(* The creation closure: the slot is filled and eframe will draw. *)
FillSlot ==
    /\ pc = "opening" /\ ~slot
    /\ slot' = TRUE
    /\ repaint' = TRUE
    /\ UNCHANGED <<budget, decodeVars, log, frameVars, panelVars>>

(* App::new: the depth first, then everything the layout names is watched.  *)
NewApp ==
    /\ pc = "opening" /\ slot
    /\ LET named == UNION Range(layout) IN
         /\ store' = Watch(SetDepth(store, StartDepth), named)
         /\ kept' = [p \in named |-> <<>>]
    /\ screen' = [screen EXCEPT !.groups = PlotsSync(layout, @)]
    /\ pc' = "idle"
    /\ UNCHANGED <<budget, waking, log, slot, repaint, pending, taken, passes,
                   layout, controls, view, panel>>

(* The operator touches the keyboard or the pointer: egui wants a frame. *)
Input ==
    /\ pc # "opening" /\ ~pending /\ Spend("inputs")
    /\ pending' = TRUE
    /\ repaint' = TRUE
    /\ UNCHANGED <<decodeVars, log, slot, pc, taken, passes, panelVars>>

(* A mistake: no timer. *)
IdleNever == pc = "opening" /\ UNCHANGED windowVars

(* request_repaint_after_secs: a frame a second when nothing asks for one. *)
IdleRepaint ==
    /\ pc = "idle" /\ ~repaint
    /\ repaint' = TRUE
    /\ UNCHANGED <<budget, decodeVars, log, slot, frameVars, panelVars>>

(* A mistake: an input event does not make the frame copy anything. *)
BeginUnforced ==
    /\ pc = "idle" /\ repaint
    /\ repaint' = FALSE
    /\ pending' = FALSE
    /\ taken' = pending
    /\ pc' = "store"
    /\ UNCHANGED <<budget, decodeVars, log, slot, passes, panelVars>>

(* App::logic, up to the store's lock. *)
BeginFrame ==
    /\ pc = "idle" /\ repaint
    /\ repaint' = FALSE
    /\ pending' = FALSE
    /\ taken' = pending
    /\ passes' = IF pending THEN INPUT_REFRESH_PASSES ELSE passes
    /\ pc' = "store"
    /\ UNCHANGED <<budget, decodeVars, log, slot, panelVars>>

(* App::refresh under the read lock. *)
RefreshStore ==
    /\ pc = "store"
    /\ LET forced == passes > 0 \/ screen.dirty \/ screen.view # view
       IN  screen' =
             IF forced \/ store.generation # screen.generation
               THEN [generation |-> store.generation,
                     view |-> view,
                     dirty |-> FALSE,
                     tree |-> TreeRefresh(store, IF screen.dirty
                                                   THEN controls.search
                                                   ELSE DOMAIN screen.tree),
                     table |-> TableRefresh(store, controls),
                     groups |-> PlotsRefresh(store, screen.groups, view)]
               ELSE screen
    /\ passes' = IF passes > 0 THEN passes - 1 ELSE 0
    /\ pc' = "log"
    /\ UNCHANGED <<budget, decodeVars, log, slot, repaint, pending, taken,
                   layout, controls, view, panel>>

(* App::refresh under the log's lock, and the end of App::logic. *)
RefreshLog ==
    /\ pc = "log"
    /\ panel' = PanelRefresh(panel, log)
    /\ repaint' = (repaint \/ passes > 0)
    /\ pc' = "ui"
    /\ UNCHANGED <<budget, decodeVars, log, slot, pending, taken, passes,
                   layout, controls, view, screen>>
-----------------------------------------------------------------------------
(* App::ui: the panels are drawn and at most one action is applied.         *)

Drawn(v) ==
    /\ pc = "ui"
    /\ view' = v
    /\ pc' = "idle"
    /\ UNCHANGED <<budget, waking, slot, repaint, pending, taken, passes>>

(* The operator did nothing in this frame that asks for anything. *)
DrawOnly ==
    /\ \E v \in ShownViews : Drawn(v)
    /\ UNCHANGED <<budget, store, kept, log, layout, controls, screen, panel>>

(* A hidden window runs logic and draws nothing. *)
SkipDrawing ==
    /\ ~taken
    /\ Drawn(view)
    /\ UNCHANGED <<budget, store, kept, log, layout, controls, screen, panel>>

(* Typing in the table's filter or ticking its box; typing in the search.   *)
EditFilter ==
    /\ taken
    /\ \E v \in ShownViews : Drawn(v)
    /\ \/ \E text \in Texts : controls' = [controls EXCEPT !.filter = text]
       \/ controls' = [controls EXCEPT !.watchedOnly = ~@]
    /\ UNCHANGED <<budget, store, kept, log, layout, screen, panel>>

EditSearch ==
    /\ taken
    /\ \E v \in ShownViews : Drawn(v)
    /\ \E text \in Texts : controls' = [controls EXCEPT !.search = text]
    /\ screen' = [screen EXCEPT !.dirty = TRUE]
    /\ UNCHANGED <<budget, store, kept, log, layout, panel>>

(* Pausing is applied after the plots are drawn; a drag moves a paused axis. *)
TogglePause ==
    /\ taken
    /\ \E v \in ShownViews : Drawn([v EXCEPT !.paused = ~@])
    /\ UNCHANGED <<budget, store, kept, log, layout, controls, screen, panel>>

Drag ==
    /\ taken /\ view.paused /\ screen.groups # <<>>
    /\ \E range \in Windows : Drawn([view EXCEPT !.range = range])
    /\ UNCHANGED <<budget, store, kept, log, layout, controls, screen, panel>>

(* Watching, unwatching and plotting: the store, then the layout, then the  *)
(* series.                                                                  *)
Rearranged(s, plots) ==
    /\ taken
    /\ \E v \in ShownViews : Drawn(v)
    /\ store' = s
    /\ kept' = [p \in Watched(s) |-> IF p \in DOMAIN kept
                                       THEN LastOf(kept[p], s.depth)
                                       ELSE <<>>]
    /\ layout' = plots
    /\ screen' = [screen EXCEPT !.groups = PlotsSync(plots, @)]
    /\ UNCHANGED <<budget, log, controls, panel>>

(* Whether some row on the screen says p is watched, or that it is not:     *)
(* what a double click or a menu acts on.                                   *)
SaysWatched(p, watched) ==
    \/ p \in DOMAIN screen.tree /\ screen.tree[p].watched = watched
    \/ p \in DOMAIN screen.table /\ screen.table[p].watched = watched

WatchRow(p) ==
    /\ SaysWatched(p, FALSE)
    /\ Rearranged(Watch(store, {p}), layout)

UnwatchRow(p) ==
    /\ SaysWatched(p, TRUE)
    /\ Rearranged(Unwatch(store, p), [i \in DOMAIN layout |-> layout[i] \ {p}])

Offered(p) == p \in DOMAIN screen.tree \intersect Numeric \/ p \in DOMAIN screen.table

AddToPlot(p) ==
    /\ Offered(p)
    /\ \E i \in DOMAIN layout :
         Rearranged(Watch(store, {p}), [layout EXCEPT ![i] = @ \union {p}])

NewPlot(p) ==
    /\ Offered(p) /\ Len(layout) < MaxPlots
    /\ Rearranged(Watch(store, {p}), Append(layout, {p}))

RemoveFromPlot ==
    \E i \in DOMAIN layout : \E p \in layout[i] :
        Rearranged(store, [layout EXCEPT ![i] = @ \ {p}])

RemovePlot ==
    \E i \in DOMAIN layout : Rearranged(store, RemoveAt(layout, i))

SetHistoryDepth ==
    \E depth \in Depths :
        Rearranged(SetDepth(store, Larger(depth, MIN_HISTORY_DEPTH)), layout)

(* Two critical sections: the log's lines go, then the panel's copy.        *)
ClearEvents ==
    /\ taken
    /\ \E v \in ShownViews : view' = v
    /\ pc = "ui" /\ pc' = "cleared"
    /\ log' = ClearLog(log)
    /\ UNCHANGED <<budget, decodeVars, slot, repaint, pending, taken, passes,
                   layout, controls, screen, panel>>

ClearPanel ==
    /\ pc = "cleared" /\ pc' = "idle"
    /\ panel' = NoPanel
    /\ UNCHANGED <<budget, decodeVars, log, slot, repaint, pending, taken,
                   passes, layout, controls, view, screen>>

Draw ==
    \/ DrawOnly \/ SkipDrawing
    \/ EditFilter \/ EditSearch \/ TogglePause \/ Drag
    \/ \E p \in Params : WatchRow(p) \/ UnwatchRow(p) \/ AddToPlot(p) \/ NewPlot(p)
    \/ RemoveFromPlot \/ RemovePlot \/ SetHistoryDepth
    \/ ClearEvents \/ ClearPanel

WindowNext ==
    \/ File \/ Wake \/ LogLine
    \/ FillSlot \/ NewApp
    \/ Input \/ IdleRepaint
    \/ BeginFrame \/ RefreshStore \/ RefreshLog \/ Draw

(* The event loop draws the frames it is asked for and keeps its timer, and *)
(* the decode thread gets on with what it began.  Nobody has to type, file  *)
(* or log anything.                                                         *)
WindowSpec ==
    /\ WindowInit /\ [][WindowNext]_windowVars
    /\ WF_windowVars(Wake)
    /\ WF_windowVars(FillSlot \/ NewApp)
    /\ WF_windowVars(IdleRepaint)
    /\ WF_windowVars(BeginFrame \/ RefreshStore \/ RefreshLog \/ DrawOnly \/ ClearPanel)
-----------------------------------------------------------------------------
WindowTypeOK ==
    /\ store.depth \in Nat \ {0} /\ store.generation \in 0 .. Most("packets")
    /\ \A p \in Watched(store) : IsRing(store.history[p], 1 .. Most("packets"))
    /\ DOMAIN store.latest = Params /\ DOMAIN store.updates = Params
    /\ IsRing(log.entries, [line : Lines, times : 1 .. Most("lines")])
    /\ pc \in {"opening", "idle", "store", "log", "ui", "cleared"}
    /\ {waking, slot, repaint, pending, taken} \subseteq BOOLEAN
    /\ passes \in 0 .. INPUT_REFRESH_PASSES
    /\ layout \in Seq(SUBSET Params)
    /\ DOMAIN kept = Watched(store)

(* Nothing is asked of the window and nothing is on its way to it. *)
Quiet == pc = "idle" /\ ~repaint /\ ~waking

(* A window that waits for its timer shows the store as it is, in the       *)
(* filters and the layout as they are: no wake-up is lost between filing,   *)
(* waking and copying (session.rs releases the lock, then wakes; app.rs     *)
(* compares the generation), no keystroke waits for telemetry               *)
(* (INPUT_REFRESH_PASSES), and the plots are those of the layout.           *)
DrawnIsCurrent ==
    Quiet =>
        /\ screen.generation = store.generation
        /\ ~screen.dirty
        /\ screen.tree = TreeRefresh(store, controls.search)
        /\ screen.table = TableRefresh(store, controls)
        /\ screen.groups =
             PlotsRefresh(store, PlotsSync(layout, <<>>), screen.view)

(* The history of a watched parameter is what was filed since it was        *)
(* watched, as much of it as every depth since then has left: nothing is    *)
(* lost or out of order when the ring has wrapped and is resized (ring.rs). *)
(* And whatever range a grid is paused at, a line is drawn from every point *)
(* of the ring inside it and one to either side, whichever halves of the    *)
(* ring they lie in (visible_range in plots.rs).                            *)
WindowIsCovered ==
    /\ WindowTypeOK
    /\ \A p \in Watched(store) : Contents(store.history[p]) = kept[p]
    /\ \A p \in Watched(store) : \A low, high \in 0 .. Most("packets") + 1 :
        low <= high =>
            LET all == kept[p]
                earlier == {i \in DOMAIN all : all[i] < low}
                later == {i \in DOMAIN all : all[i] > high}
                first == IF earlier = {} THEN 1 ELSE Max(earlier)
                last == IF later = {} THEN Len(all) ELSE Min(later)
            IN  Points(store.history[p], <<low, high>>) = SubSeq(all, first, last)

(* When the panel has counted as many lines as the log, it holds the log's  *)
(* lines with their repeats: comparing the totals is enough to know that    *)
(* there is nothing to copy, through repeats and through a clear that a     *)
(* line slipped into (panels/events.rs, App::clear_events).                 *)
PanelIsTheLog ==
    pc # "cleared" /\ panel.total = log.total =>
        panel.lines = Contents(log.entries)

(* What a row says is what it does: watching from a row changes the store   *)
(* from not watched to watched, and unwatching back, never neither because  *)
(* the row was drawn from an older copy (tree.rs, table.rs).                *)
RowsAct ==
    [][\A p \in Params :
         /\ WatchRow(p) => p \notin Watched(store)
         /\ UnwatchRow(p) => p \in Watched(store)]_windowVars

(* What nobody wakes the window for, a line of the log or an axis that the  *)
(* drawing itself has moved, is on the screen again and again all the same: *)
(* the timer of App::logic sees to it.                                      *)
TimerCatchesUp == []<>(panel.total = log.total /\ screen.view = view)
=============================================================================
