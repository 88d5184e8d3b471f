----------------------------- MODULE Arrangement -----------------------------
(***************************************************************************)
(* What survives a restart (xtce-gs-gui/src/layout.rs and the actions of    *)
(* app.rs): the layout an operator arranges, the parameters the store       *)
(* watches for it, and the file next to the definition it is saved in.      *)
(* A station is started, arranged, closed or killed, also in the middle of  *)
(* a save; while it is down the definition may be replaced by another and   *)
(* the file edited by hand, or written by another build.                    *)
(*                                                                          *)
(* A name is a parameter and the form it is written in: the qualified name  *)
(* the interface writes, or the leaf name a hand may.  The watch list is a  *)
(* set, its order in the file is left out, and so is what has no bearing on *)
(* what is kept: titles, sizes, theme.  One station has the file at a time. *)
(***************************************************************************)
EXTENDS Naturals, FiniteSets, FiniteSetsExt, SequencesExt

CONSTANTS
    Params,        \* the parameters some definition declares
    Definitions,   \* sets of parameters: what a definition may declare
    Sheets,        \* layouts an operator may write by hand
    Depths,        \* history depths that may be asked for
    MaxPlots       \* bound: plots in the layout

VARIABLES
    definition,    \* what the definition declares
    disk,          \* the file: missing, torn, of another version or a layout
    scratch,       \* the file beside it that a save writes first
    pc,            \* down, up, or where a save is
    closing,       \* the window has been asked to close
    layout,        \* App's layout
    watched,       \* the parameters the store keeps history for
    depth,         \* the depth it keeps
    dirty,         \* layout_dirty
    report,        \* what restore_report was last given
    promised       \* what the last save was of, while nobody touched the files

appVars == <<closing, layout, watched, depth, dirty, report>>
fileVars == <<definition, disk, scratch, promised>>
arrangementVars == <<fileVars, pc, appVars>>

MIN_HISTORY_DEPTH == 1
DefaultDepth == 1
NoHistory == 0     \* no --history on the command line

Names == Params \X {"qualified", "leaf"}
Qualified(p) == <<p, "qualified">>
Layouts == [watched : SUBSET Names, plots : Seq(SUBSET Names), depth : Nat]
Resolves(name) == name[1] \in definition
Resolved(names) == {name[1] : name \in {n \in names : Resolves(n)}}

ASSUME ArrangementAssumption ==
    /\ IsFiniteSet(Params)
    /\ Definitions \subseteq SUBSET Params
    /\ Depths \subseteq Nat
    /\ Sheets \subseteq Layouts

NewLayout == [watched |-> {}, plots |-> <<>>, depth |-> DefaultDepth]
Missing == [kind |-> "missing", layout |-> NewLayout]
Torn == [kind |-> "torn", layout |-> NewLayout]
Foreign == [kind |-> "foreign", layout |-> NewLayout]
Whole(l) == [kind |-> "layout", layout |-> l]

Plotted(l) == UNION Range(l.plots)
NothingPromised == [known |-> FALSE, watched |-> {}, plots |-> <<>>, depth |-> 0]
-----------------------------------------------------------------------------
(* Layout::load gives the default for a file that is missing or of another  *)
(* version, and no layout at all for one that does not parse.               *)
Loads(file) == file.kind # "torn"

WatchWhatIsPlotted(l) == [l EXCEPT !.watched = @ \union Plotted(l)]

AtLeastMin(asked) == IF asked < MIN_HISTORY_DEPTH THEN MIN_HISTORY_DEPTH ELSE asked

DepthInForce(l, history) ==
    AtLeastMin(IF history = NoHistory THEN l.depth ELSE history)

(* Layout::restore: both lists are watched. *)
Restored(l) == Resolved(l.watched \union Plotted(l))
Named(l) == Cardinality(l.watched \union Plotted(l))

(* A mistake: counting mentions. *)
RestoredMentions(l) ==
    Cardinality(Resolved(l.watched))
      + MapThenSumSet(LAMBDA i : Cardinality(Resolved(l.plots[i])), DOMAIN l.plots)
RestoredCount(l) == Cardinality(Restored(l))
Reported(l) == [resolved |-> RestoredCount(l), named |-> Named(l)]

(* A mistake: the list is rebuilt from the store alone. *)
CapturedForgetful(l) ==
    [l EXCEPT !.watched = {Qualified(p) : p \in watched}, !.depth = depth]

(* Layout::capture: the store is the truth, but for the names it has never  *)
(* heard of.                                                                *)
Captured(l) ==
    [l EXCEPT !.watched = {name \in @ : ~Resolves(name)}
                            \union {Qualified(p) : p \in watched},
              !.depth = depth]

(* Layout::remove_from_plot. *)
Without(plot, p) == plot \ {Qualified(p)}

(* Layout::add_to_plot, new_plot and remove_plot. *)
Added(l, i, p) == [l EXCEPT !.plots[i] = @ \union {Qualified(p)}]
WithPlot(l, p) == [l EXCEPT !.plots = Append(@, {Qualified(p)})]
WithoutPlot(l, i) == [l EXCEPT !.plots = RemoveAt(@, i)]

(* A mistake: unwatching leaves the plots alone. *)
PlotsKept(plots, p) == plots
PlotsWithout(plots, p) == [i \in DOMAIN plots |-> Without(plots[i], p)]

(* The parameters each plot draws: Plots::sync. *)
Drawing(l) == [i \in DOMAIN l.plots |-> Resolved(l.plots[i])]
-----------------------------------------------------------------------------
ArrangementInit ==
    /\ definition \in Definitions
    /\ disk = Missing
    /\ scratch = "none"
    /\ pc = "down"
    /\ closing = FALSE
    /\ layout = NewLayout
    /\ watched = {} /\ depth = DefaultDepth
    /\ dirty = FALSE
    /\ report = [resolved |-> 0, named |-> 0]
    /\ promised = NothingPromised

(* run_with and App::new. *)
Launch ==
    /\ pc = "down" /\ Loads(disk)
    /\ \E history \in {NoHistory} \union (Depths \ {0}) :
         LET filled == WatchWhatIsPlotted(disk.layout)
             inForce == DepthInForce(filled, history)
         IN  /\ layout' = [filled EXCEPT !.depth = inForce]
             /\ depth' = inForce
             /\ watched' = Restored(filled)
             /\ report' = Reported(filled)
    /\ pc' = "up"
    /\ dirty' = FALSE
    /\ closing' = FALSE
    /\ UNCHANGED fileVars

(* What App::apply does to the layout and the store. *)
Arranged(l, w, d) ==
    /\ pc = "up" /\ ~closing
    /\ layout' = l /\ watched' = w /\ depth' = d
    /\ dirty' = TRUE
    /\ UNCHANGED <<fileVars, pc, closing, report>>

Watching(l, p) == [l EXCEPT !.watched = @ \union {Qualified(p)}]

Watch(p) == Arranged(Watching(layout, p), watched \union {p}, depth)

Unwatch(p) ==
    /\ p \in watched
    /\ Arranged([layout EXCEPT !.watched = @ \ {Qualified(p)},
                               !.plots = PlotsWithout(@, p)],
                watched \ {p}, depth)

AddToPlot(p) ==
    \E i \in DOMAIN layout.plots :
        Arranged(Watching(Added(layout, i, p), p), watched \union {p}, depth)

NewPlot(p) ==
    /\ Len(layout.plots) < MaxPlots
    /\ Arranged(Watching(WithPlot(layout, p), p), watched \union {p}, depth)

RemoveFromPlot ==
    \E i \in DOMAIN layout.plots : \E p \in Drawing(layout)[i] :
        Arranged([layout EXCEPT !.plots[i] = Without(@, p)], watched, depth)

RemovePlot ==
    \E i \in DOMAIN layout.plots :
        Arranged(WithoutPlot(layout, i), watched, depth)

SetHistoryDepth ==
    \E asked \in Depths :
        Arranged([layout EXCEPT !.depth = AtLeastMin(asked)], watched, AtLeastMin(asked))

(* A layout that needs saving is saved before the window goes. *)
Close ==
    /\ pc = "up" /\ ~closing
    /\ closing' = TRUE
    /\ UNCHANGED <<fileVars, pc, layout, watched, depth, dirty, report>>

(* Nothing but the files is left of a station. *)
Gone ==
    /\ pc' = "down"
    /\ closing' = FALSE
    /\ layout' = NewLayout
    /\ watched' = {} /\ depth' = DefaultDepth
    /\ dirty' = FALSE
    /\ report' = [resolved |-> 0, named |-> 0]
    /\ UNCHANGED fileVars

Exit ==
    /\ pc = "up" /\ closing /\ ~dirty
    /\ Gone

(* A mistake: the file is written over in place. *)
SaveInPlace ==
    /\ pc = "up" /\ dirty
    /\ layout' = Captured(layout)
    /\ scratch' = "torn" /\ disk' = Torn
    /\ pc' = "writing"
    /\ UNCHANGED <<definition, promised, closing, watched, depth, dirty, report>>

(* App::save_layout: captures what is watched, then writes beside the file. *)
Save ==
    /\ pc = "up" /\ dirty
    /\ layout' = Captured(layout)
    /\ scratch' = "torn"
    /\ pc' = "writing"
    /\ UNCHANGED <<definition, disk, promised, closing, watched, depth, dirty, report>>

Written ==
    /\ pc = "writing"
    /\ scratch' = "whole"
    /\ pc' = "renaming"
    /\ UNCHANGED <<definition, disk, promised, appVars>>

(* A save that fails is logged, and not tried again until the next change.  *)
Failed ==
    /\ pc \in {"writing", "renaming"}
    /\ scratch' = IF pc = "renaming" THEN "none" ELSE scratch
    /\ dirty' = FALSE
    /\ pc' = "up"
    /\ UNCHANGED <<definition, disk, promised, closing, layout, watched, depth, report>>

Rename ==
    /\ pc = "renaming"
    /\ disk' = Whole(layout)
    /\ scratch' = "none"
    /\ promised' = [known |-> TRUE, watched |-> watched,
                    plots |-> Drawing(layout), depth |-> depth]
    /\ dirty' = FALSE
    /\ pc' = "up"
    /\ UNCHANGED <<definition, closing, layout, watched, depth, report>>

Crash == pc # "down" /\ Gone

(* While the station is down. *)
EditFile ==
    /\ pc = "down"
    /\ \E file \in {Missing, Foreign} \union {Whole(s) : s \in Sheets} : disk' = file
    /\ promised' = NothingPromised
    /\ UNCHANGED <<definition, scratch, pc, appVars>>

EditDefinition ==
    /\ pc = "down"
    /\ definition' \in Definitions
    /\ promised' = NothingPromised
    /\ UNCHANGED <<disk, scratch, pc, appVars>>

Arrange ==
    \/ \E p \in definition : Watch(p) \/ Unwatch(p) \/ AddToPlot(p) \/ NewPlot(p)
    \/ RemoveFromPlot \/ RemovePlot \/ SetHistoryDepth

ArrangementNext ==
    \/ Launch \/ Arrange \/ Close \/ Exit \/ Crash
    \/ Save \/ Written \/ Failed \/ Rename
    \/ EditFile \/ EditDefinition

ArrangementSpec == ArrangementInit /\ [][ArrangementNext]_arrangementVars
-----------------------------------------------------------------------------
ArrangementTypeOK ==
    /\ definition \in Definitions
    /\ disk.kind \in {"missing", "torn", "foreign", "layout"}
    /\ scratch \in {"none", "torn", "whole"}
    /\ pc \in {"down", "up", "writing", "renaming"}
    /\ layout.watched \subseteq Names /\ layout.plots \in Seq(SUBSET Names)
    /\ watched \subseteq Params
    /\ depth \in Nat \ {0}
    /\ {closing, dirty} \subseteq BOOLEAN

(* "A plotted parameter is also a watched one" (app.rs): what a plot draws  *)
(* has a ring behind it, and unwatching takes it out of every plot.         *)
PlottedIsWatched ==
    pc # "down" => UNION Range(Drawing(layout)) \subseteq watched

(* "An operator who reloads last month's definition for one pass must get   *)
(* the plots back when this month's returns" (layout.rs): no save of the    *)
(* station drops from the watch list a name this definition lacks.          *)
OrphansAreKept ==
    [][Rename =>
         \A name \in disk.layout.watched :
            ~Resolves(name) => name \in disk'.layout.watched]_arrangementVars

(* A station started again on files nobody touched watches, plots and keeps *)
(* what the last save was of, wherever it was killed since: the file is     *)
(* never half written, and what capture writes is what restore reads.       *)
RestartRestores ==
    /\ ArrangementTypeOK
    /\ promised.known =>
        LET filled == WatchWhatIsPlotted(disk.layout) IN
        /\ Loads(disk)
        /\ Restored(filled) = promised.watched
        /\ Drawing(filled) = promised.plots
        /\ DepthInForce(filled, NoHistory) = promised.depth

(* The line on the log says how many of the saved parameters the definition *)
(* lacks, whether a parameter is watched, plotted or both, and in however   *)
(* many plots.                                                              *)
ReportIsHonest ==
    [][Launch =>
         LET names == disk.layout.watched \union Plotted(disk.layout) IN
         report'.named - report'.resolved =
            Cardinality({name[1] : name \in names} \ definition)]_arrangementVars
=============================================================================
