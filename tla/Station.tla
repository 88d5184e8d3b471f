------------------------------ MODULE Station ------------------------------
(***************************************************************************)
(* What each command of xtce-gs does once it is started: main.rs runs one.  *)
(* An export and a probe read a recording of packets; a run or a replay     *)
(* opens a window over the link, of which one panel at a time is followed   *)
(* here: the status bar, the table of values, or a plot.                    *)
(***************************************************************************)
EXTENDS Reception, Probe, StatusBar, ValueTable, Decimation

CONSTANT FollowedLines   \* of each command, the lines more is followed of than Reception does

ASSUME StationAssumption ==
    \A command \in DOMAIN FollowedLines : \A typed \in FollowedLines[command] :
        typed.command = command /\ typed.pipeline.framing = "packets"

panelVars == <<bar, table, plot>>
stationVars == <<receptionVars, export, survey, panelVars>>

StationInit ==
    /\ ReceptionInit /\ DecimationInit
    /\ export = None /\ survey = None /\ bar = None /\ table = None

Follows(commands) ==
    Running /\ line.command \in commands /\ line \in FollowedLines[line.command]

ExportRuns ==
    /\ Follows({"export"})
    /\ BeginExport(config.spacecraft_time)
        \/ (export # None /\ ExportStep(config.spacecraft_time))
    /\ UNCHANGED <<receptionVars, survey, panelVars>>

ProbeRuns ==
    /\ Follows({"probe"})
    /\ BeginProbe \/ (survey # None /\ ProbeStep)
    /\ UNCHANGED <<receptionVars, export, panelVars>>

BarRuns ==
    /\ Follows({"run", "replay"}) /\ table = None /\ plot = None
    /\ OpenBar \/ (bar # None /\ BarStep)
    /\ UNCHANGED <<receptionVars, export, survey, table, plot>>

TableRuns ==
    /\ Follows({"run", "replay"}) /\ bar = None /\ plot = None
    /\ OpenTable(config.limits # None) \/ (table # None /\ TableStep)
    /\ UNCHANGED <<receptionVars, export, survey, bar, plot>>

PlotRuns ==
    /\ Follows({"run", "replay"}) /\ bar = None /\ table = None
    /\ DecimationNext
    /\ UNCHANGED <<receptionVars, export, survey, bar, table>>

StationNext ==
    \/ ReceptionNext /\ UNCHANGED <<export, survey, panelVars>>
    \/ ExportRuns \/ ProbeRuns \/ BarRuns \/ TableRuns \/ PlotRuns

StationSpec == StationInit /\ [][StationNext]_stationVars

(* Both readers, whatever the sizes of the chunks, make of a recording the   *)
(* rows of its first packets up to the limit, each once and in order, each   *)
(* stamped with what the spacecraft's clock says or the time of receipt.     *)
ExportIsTheRecording == export # None => ExportIsFaithful(export, config.spacecraft_time)

(* Whatever the sizes of the chunks, a probe finds each marker of what it    *)
(* read once and where it is, tallies the packets that are whole, and what   *)
(* it advises is accepted and has frames as far apart as the markers.        *)
ProbeFinds == survey # None => ProbeIsFaithful(survey, line.pipeline)

(* The rates are of a short window, of what came in it and of nothing else;  *)
(* the lamp is green only for a packet that came just now, and red only      *)
(* where none has for long.  A clock set back makes neither negative.        *)
BarIsRecent == bar # None => BarIsTrue

(* Every threshold of a limits file that is accepted is in force; the rows   *)
(* are of what the operator asked to see, in the order the arrow says; and   *)
(* what is drawn of a history is an outline of it, no spike left out.        *)
ScreenIsFaithful ==
    /\ table # None => TableIsFaithful
    /\ plot # None => PlotIsFaithful
=============================================================================
