----------------------------- MODULE ValueTable -----------------------------
(***************************************************************************)
(* The table of values, xtce-gs-gui/src/panels/table.rs: the last sample of *)
(* each parameter that was seen, held against its limits, filtered and      *)
(* sorted.  The rows are those of the last refresh; what the operator does  *)
(* and what arrives meanwhile shows with the next.                          *)
(***************************************************************************)
EXTENDS Limits, SequencesExt

CONSTANTS
    NamesInOrder,  \* qualified names, in their order; a name is its parameter's
    TableSetups    \* limits files, engineering values that arrive, how many of them
                   \* are followed, and how many inputs of the operator

ASSUME ValueTableAssumption == Len(NamesInOrder) = Cardinality(ToSet(NamesInOrder))

VARIABLE table   \* the store, the table's settings and its rows; None before a session

Parameters == ToSet(NamesInOrder)
Rank(name) == CHOOSE n \in DOMAIN NamesInOrder : NamesInOrder[n] = name

\* A session that is started on a file that is refused is not started.
OpenTable(limits_given) ==
    /\ table = None
    /\ \E setup \in TableSetups : \E document \in setup.documents :
        LET read == IF limits_given THEN from_json(document) ELSE <<>> IN
        table' = [document |-> IF limits_given THEN document
                               ELSE [kind |-> "an object", members |-> <<>>],
                  values |-> setup.values, samples |-> setup.samples, inputs |-> setup.inputs,
                  started |-> read # Refusal, limits |-> read,
                  store |-> [name \in Parameters |-> None],
                  watched |-> {},
                  filter |-> Parameters, sort |-> "Name", descending |-> FALSE,
                  watched_only |-> FALSE, rows |-> <<>>, refreshed |-> FALSE]

\* A sample that arrives later may be stamped earlier.
SampleArrives ==
    /\ table.samples > 0
    /\ \E name \in Parameters, value \in table.values, time \in 0..1 :
        LET old == table.store[name] IN
        table' = [table EXCEPT
            !.store[name] = [time |-> time, eng |-> value,
                             updates |-> IF old = None THEN 1 ELSE old.updates + 1],
            !.samples = @ - 1, !.refreshed = FALSE]

Edited == [table EXCEPT !.inputs = @ - 1, !.refreshed = FALSE]

ToggleWatch ==
    \E name \in Parameters : table' = [Edited EXCEPT !.watched = SymDiff(@, {name})]

\* contains_ignore_ascii_case: the names the filter's text is part of.
TypeFilter ==
    \E matching \in {Parameters} \union {{name} : name \in Parameters} :
        table' = [Edited EXCEPT !.filter = matching]

set_watched_only == table' = [Edited EXCEPT !.watched_only = ~@]

set_sort ==
    \E sort \in {"Name", "Time", "Limit", "Updates"} :
        table' = [Edited EXCEPT !.sort = sort,
                                !.descending = table.sort = sort /\ ~table.descending]

RowOf(name) ==
    LET sample == table.store[name] IN
    [parameter |-> name, time |-> sample.time, eng |-> sample.eng, updates |-> sample.updates,
     limit |-> evaluate(table.limits, name, sample.eng), watched |-> name \in table.watched]

Key(row) ==
    CASE table.sort = "Name" -> 0
      [] table.sort = "Time" -> row.time
      [] table.sort = "Limit" -> Severity(row.limit)
      [] table.sort = "Updates" -> row.updates

\* The largest of a value first, the names in their order; and all of it reversed.
Before(a, b) ==
    LET first == Key(a) > Key(b)
                 \/ (Key(a) = Key(b) /\ Rank(a.parameter) < Rank(b.parameter))
    IN  IF table.descending THEN ~first /\ a # b ELSE first

Shown ==
    {name \in Parameters :
        /\ table.store[name] # None
        /\ table.watched_only => name \in table.watched
        /\ name \in table.filter}

refresh ==
    /\ ~table.refreshed
    /\ table' = [table EXCEPT !.rows = SetToSortSeq({RowOf(name) : name \in Shown}, Before),
                              !.refreshed = TRUE]

TableStep ==
    /\ table.started
    /\ \/ SampleArrives \/ refresh
       \/ table.inputs > 0 /\ (ToggleWatch \/ TypeFilter \/ set_watched_only \/ set_sort)

\* header: the arrow of the column that is sorted by.
ArrowIsUp == (table.sort = "Name") # table.descending

(***************************************************************************)
(* What the table promises.                                                 *)
(***************************************************************************)
\* A file with a member nobody would read is refused.
EveryMemberIsRead(document) ==
    LET OfEntries(object) ==
            \A name \in DOMAIN object.members :
                LET entry == object.members[name] IN
                \/ entry.kind = "an object" /\ DOMAIN entry.members \subseteq FieldNames
                \/ entry.kind = "an array" /\ Len(entry.items) = 4
    IN  /\ document.kind = "an object"
        /\ IF PARAMETERS_KEY \in DOMAIN document.members
             THEN /\ DOMAIN document.members = {PARAMETERS_KEY}
                  /\ document.members[PARAMETERS_KEY].kind = "an object"
                  /\ OfEntries(document.members[PARAMETERS_KEY])
             ELSE OfEntries(document)

RowKey(row) ==
    CASE table.sort = "Name" -> Rank(row.parameter)
      [] OTHER -> Key(row)

TableIsFaithful ==
    table.started =>
        /\ EveryMemberIsRead(table.document)
        \* Each row is of the limits the operator wrote.
        /\ \A n \in DOMAIN table.rows :
                table.rows[n].limit =
                    StateExpected(table.document, table.rows[n].parameter, table.rows[n].eng)
        \* A refreshed table shows each parameter asked for once, as it is, and in
        \* the order the arrow says.
        /\ table.refreshed =>
            /\ [n \in DOMAIN table.rows |-> table.rows[n].parameter]
                    \in {s \in UNION {[1..Len(table.rows) -> Shown]} : IsInjective(s)}
            /\ Len(table.rows) = Cardinality(Shown)
            /\ \A n \in DOMAIN table.rows :
                    LET row == table.rows[n] IN
                    /\ row.updates = table.store[row.parameter].updates
                    /\ row.watched = (row.parameter \in table.watched)
                    /\ n > 1 => IF ArrowIsUp THEN RowKey(table.rows[n - 1]) <= RowKey(row)
                                ELSE RowKey(table.rows[n - 1]) >= RowKey(row)
=============================================================================
