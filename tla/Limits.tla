------------------------------- MODULE Limits -------------------------------
(***************************************************************************)
(* What the numbers of a pass are held against: the limits file, LimitFile  *)
(* in xtce-gs-engine/src/config.rs, and what becomes of it for a value, in  *)
(* limits.rs and value.rs of xtce-gs-core/src.                              *)
(*                                                                          *)
(* A document is a JSON value, or "invalid": a record of its kind and, for  *)
(* a number, an array or an object, what is in it.  Numbers are integers.   *)
(***************************************************************************)
EXTENDS Option, Integers, Sequences

CONSTANTS
    NaN,
    Refusal      \* an error of the configuration

Fields == <<"warning_low", "warning_high", "alarm_low", "alarm_high">>
FieldNames == {Fields[n] : n \in 1..4}
PARAMETERS_KEY == "parameters"

\* Option<f64>.
Threshold(value) ==
    CASE value.kind = "a number" -> value.number
      [] value.kind = "null" -> None
      [] OTHER -> Refusal

(* LimitEntry::deserialize.  No member it does not know is let by; an array  *)
(* of the four in their order is an entry too.                               *)
LimitEntry(value) ==
    CASE value.kind = "an object" ->
            IF DOMAIN value.members \subseteq FieldNames
                 /\ \A field \in DOMAIN value.members : Threshold(value.members[field]) # Refusal
              THEN [field \in FieldNames |-> IF field \in DOMAIN value.members
                                               THEN Threshold(value.members[field]) ELSE None]
              ELSE Refusal
      [] value.kind = "an array" ->
            IF Len(value.items) = 4 /\ \A n \in 1..4 : Threshold(value.items[n]) # Refusal
              THEN [field \in FieldNames |->
                        Threshold(value.items[CHOOSE n \in 1..4 : Fields[n] = field])]
              ELSE Refusal
      [] OTHER -> Refusal

LimitsOf(entries) ==
    LET read == [name \in DOMAIN entries.members |-> LimitEntry(entries.members[name])]
    IN  IF \E name \in DOMAIN read : read[name] = Refusal THEN Refusal ELSE read

(* A mistake: what stands beside "parameters" is not looked at. *)
from_json_loose(document) ==
    CASE document.kind # "an object" -> Refusal
      [] PARAMETERS_KEY \notin DOMAIN document.members -> LimitsOf(document)
      [] document.members[PARAMETERS_KEY].kind = "an object" ->
            LimitsOf(document.members[PARAMETERS_KEY])
      [] OTHER -> Refusal

\* LimitFile::from_json and into_limit_set: with its wrapper or without.
from_json(document) ==
    IF document.kind # "an object" THEN Refusal
    ELSE IF PARAMETERS_KEY \notin DOMAIN document.members THEN LimitsOf(document)
    ELSE IF DOMAIN document.members # {PARAMETERS_KEY}
              \/ document.members[PARAMETERS_KEY].kind # "an object" THEN Refusal
    ELSE LimitsOf(document.members[PARAMETERS_KEY])

-----------------------------------------------------------------------------
\* Value::as_f64.
as_f64(value) ==
    CASE value.kind \in {"Unsigned", "Signed", "Float"} -> value.number
      [] value.kind = "Bool" -> IF value.true THEN 1 ELSE 0
      [] OTHER -> None

RangeOf(low, high) == [low |-> low, high |-> high]
is_set(range) == range.low # None \/ range.high # None
contains(range, number) ==
    /\ range.low # None => number >= range.low
    /\ range.high # None => number <= range.high

LimitStates == {"Unknown", "Nominal", "Warning", "Alarm"}
Severity(state) ==
    CASE state = "Unknown" -> 0 [] state = "Nominal" -> 1 [] state = "Warning" -> 2
      [] state = "Alarm" -> 3

EvaluateNumber(limit, number) ==
    LET alarm == RangeOf(limit.alarm_low, limit.alarm_high)
        warning == RangeOf(limit.warning_low, limit.warning_high)
    IN  IF number = NaN THEN "Unknown"
        ELSE IF is_set(alarm) /\ ~contains(alarm, number) THEN "Alarm"
        ELSE IF is_set(warning) /\ ~contains(warning, number) THEN "Warning"
        ELSE IF is_set(alarm) \/ is_set(warning) THEN "Nominal"
        ELSE "Unknown"

\* LimitSet::evaluate.
evaluate(limits, name, value) ==
    IF name \notin DOMAIN limits \/ as_f64(value) = None THEN "Unknown"
    ELSE EvaluateNumber(limits[name], as_f64(value))

(***************************************************************************)
(* What an operator who wrote a file expects of it.                         *)
(***************************************************************************)
\* The thresholds in a document for a name, wherever and however they are written.
ThresholdsIn(document, name, field) ==
    LET Number(value) ==
            IF value.kind = "a number" THEN {value.number} ELSE {}
        Within(object) ==
            IF object.kind # "an object" \/ name \notin DOMAIN object.members THEN {}
            ELSE LET entry == object.members[name] IN
                 IF entry.kind = "an object" /\ field \in DOMAIN entry.members
                   THEN Number(entry.members[field])
                 ELSE IF entry.kind = "an array"
                   THEN UNION {Number(entry.items[n]) :
                                n \in {k \in 1..Len(entry.items) \intersect 1..4 : Fields[k] = field}}
                 ELSE {}
    IN  Within(document)
        \union (IF document.kind = "an object" /\ PARAMETERS_KEY \in DOMAIN document.members
                  THEN Within(document.members[PARAMETERS_KEY]) ELSE {})

Beyond(document, name, level, number) ==
    \/ \E low \in ThresholdsIn(document, name, level \o "_low") : number < low
    \/ \E high \in ThresholdsIn(document, name, level \o "_high") : number > high

\* A threshold that is in an accepted file is in force, and no other is.
StateExpected(document, name, value) ==
    LET number == as_f64(value)
        any == \E field \in FieldNames : ThresholdsIn(document, name, field) # {}
    IN  CASE number \in {None, NaN} \/ ~any -> "Unknown"
          [] OTHER -> IF Beyond(document, name, "alarm", number) THEN "Alarm"
                      ELSE IF Beyond(document, name, "warning", number) THEN "Warning"
                      ELSE "Nominal"
=============================================================================
