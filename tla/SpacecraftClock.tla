-------------------------- MODULE SpacecraftClock --------------------------
(***************************************************************************)
(* What a packet says about when it was made: xtce-gs-engine/src/sctime.rs. *)
(* The three layouts are read from the octets or the number a definition    *)
(* makes of the clock's parameter; where they cannot be, the answer is None *)
(* and the row carries the time of receipt.  Widths in octets are the       *)
(* code's; how many values an octet has, and how long a second lasts, are   *)
(* parameters.  The time of a "seconds" clock is a count of half            *)
(* nanoseconds, or no number.  And an instant as a date: Utc::civil and its  *)
(* Display in xtce-gs-core/src/time.rs, where the days and years are the     *)
(* code's own.                                                              *)
(***************************************************************************)
EXTENDS Configuration, SequencesExt

CONSTANTS
    NANOS_PER_SECOND, NANOS_PER_MILLI,
    SECONDS_PER_DAY,
    OctetValues,              \* 256
    NANOS_PER_MICRO,
    PicosPerNano,
    CDS_MILLISECONDS_BYTES,
    MinUtc, MaxUtc,           \* the instants an i64 of nanoseconds holds
    EpochOf                   \* what --time-epoch names

ASSUME SpacecraftClockAssumption ==
    /\ NANOS_PER_MILLI \in Nat \ {0} /\ SECONDS_PER_DAY \in Nat \ {0}
    /\ \E millis \in 1..NANOS_PER_SECOND : NANOS_PER_SECOND = millis * NANOS_PER_MILLI
    /\ OctetValues \in Nat /\ OctetValues >= 2
    /\ NANOS_PER_MICRO \in Nat \ {0} /\ PicosPerNano \in Nat \ {0}
    /\ CDS_MILLISECONDS_BYTES \in Nat \ {0}
    /\ MinUtc \in Int /\ MaxUtc \in Int /\ MinUtc < 0 /\ 0 < MaxUtc

(***************************************************************************)
(* An instant as a date.                                                    *)
(***************************************************************************)
NanosPerDay == SECONDS_PER_DAY * NANOS_PER_SECOND

\* Hinnant's algorithm: years that begin in March, in eras of four hundred.
CivilInYear(year, doy) ==
    LET mp == (5 * doy + 2) \div 153
        month == IF mp < 10 THEN mp + 3 ELSE mp - 9
    IN  [year |-> IF month <= 2 THEN year + 1 ELSE year,
         month |-> month,
         day |-> doy - (153 * mp + 2) \div 5 + 1]

CivilInEra(era, doe) ==
    LET yoe == (doe - doe \div 1460 + doe \div 36524 - doe \div 146096) \div 365
    IN  CivilInYear(yoe + era * 400, doe - (365 * yoe + yoe \div 4 - yoe \div 100))

civil_from_days(days) ==
    LET z == days + 719468
        era == z \div 146097
    IN  CivilInEra(era, z - era * 146097)

\* As it is written out, to the millisecond.  An instant before 1970 is of the
\* day it falls on.
Displayed(instant) ==
    [date |-> civil_from_days(instant \div NanosPerDay),
     second |-> (instant % NanosPerDay) \div NANOS_PER_SECOND,
     milli |-> (instant % NANOS_PER_SECOND) \div NANOS_PER_MILLI]

(***************************************************************************)
(* The same read back, by counting: leap years, then months, then days.     *)
(***************************************************************************)
LeapYears(year) == year \div 4 - year \div 100 + year \div 400
IsLeap(year) == LeapYears(year) # LeapYears(year - 1)
MonthDays(year) == <<31, IF IsLeap(year) THEN 29 ELSE 28, 31, 30, 31, 30, 31, 31, 30, 31, 30, 31>>
DaysBefore(year, month) ==
    LET Before[m \in 1..12] == IF m = 1 THEN 0 ELSE Before[m - 1] + MonthDays(year)[m - 1]
    IN  Before[month]

ReadBack(shown) ==
    LET date == shown.date
        days == 365 * (date.year - 1970) + LeapYears(date.year - 1) - LeapYears(1969)
                + DaysBefore(date.year, date.month) + date.day - 1
    IN  days * NanosPerDay + shown.second * NANOS_PER_SECOND + shown.milli * NANOS_PER_MILLI

IsDate(shown) ==
    /\ shown.date.month \in 1..12
    /\ shown.date.day \in 1..MonthDays(shown.date.year)[shown.date.month]
    /\ shown.second \in 0..(SECONDS_PER_DAY - 1)
    /\ 0 <= shown.milli /\ shown.milli * NANOS_PER_MILLI < NANOS_PER_SECOND

(***************************************************************************)
(* The three layouts.                                                       *)
(***************************************************************************)
be_unsigned(octets) == FoldLeft(LAMBDA value, octet : value * OctetValues + octet, 0, octets)

\* An instant outside the range is no instant: nothing saturates.
instant(epoch, nanos) ==
    IF epoch + nanos \in MinUtc..MaxUtc THEN epoch + nanos ELSE None

cuc_nanos(coarse, fine, fine_bytes) ==
    coarse * NANOS_PER_SECOND + (fine * NANOS_PER_SECOND) \div OctetValues^fine_bytes

(* The field is read from the front; what follows it is not looked at. *)
cuc_from_bytes(octets, format, epoch) ==
    LET width == format.coarse_bytes + format.fine_bytes IN
    IF format.coarse_bytes = 0 \/ width > MAX_TIME_BYTES \/ Len(octets) < width THEN None
    ELSE instant(epoch, cuc_nanos(be_unsigned(SubSeq(octets, 1, format.coarse_bytes)),
                                  be_unsigned(SubSeq(octets, format.coarse_bytes + 1, width)),
                                  format.fine_bytes))

cuc_from_unsigned(value, format, epoch) ==
    LET fine == OctetValues^format.fine_bytes IN
    IF format.coarse_bytes = 0 \/ format.coarse_bytes + format.fine_bytes > MAX_TIME_BYTES
      THEN None
      ELSE instant(epoch, cuc_nanos(value \div fine, value % fine, format.fine_bytes))

\* Two octets are microseconds, four are picoseconds: the width decides.
cds_submillisecond_nanos(field) ==
    CASE Len(field) = 0 -> 0
      [] Len(field) = 2 -> be_unsigned(field) * NANOS_PER_MICRO
      [] Len(field) = 4 -> be_unsigned(field) \div PicosPerNano
      [] OTHER -> None

MAX_MILLISECONDS_OF_DAY == ((SECONDS_PER_DAY + 1) * NANOS_PER_SECOND) \div NANOS_PER_MILLI

cds_width(format) == format.day_bytes + CDS_MILLISECONDS_BYTES + format.submillisecond_bytes

cds_from_bytes(octets, format, epoch) ==
    LET days == be_unsigned(SubSeq(octets, 1, format.day_bytes))
        rest == format.day_bytes + CDS_MILLISECONDS_BYTES
        milliseconds == be_unsigned(SubSeq(octets, format.day_bytes + 1, rest))
        below == cds_submillisecond_nanos(SubSeq(octets, rest + 1, cds_width(format)))
    IN  IF format.day_bytes \notin 1..MAX_TIME_BYTES \/ Len(octets) < cds_width(format)
             \/ milliseconds >= MAX_MILLISECONDS_OF_DAY \/ below = None
          THEN None
          ELSE instant(epoch, days * NanosPerDay + milliseconds * NANOS_PER_MILLI + below)

BigEndian(value, width) ==
    [k \in 1..width |-> (value \div OctetValues^(width - k)) % OctetValues]

\* The low octets of the number, when there are enough of them.
cds_from_unsigned(value, format, epoch) ==
    IF cds_width(format) > MAX_TIME_BYTES THEN None
    ELSE cds_from_bytes(BigEndian(value, cds_width(format)), format, epoch)

\* Rounded half away from zero.
seconds_from_f64(halves, epoch) ==
    LET nanos == IF halves >= 0 THEN (halves + 1) \div 2 ELSE -((1 - halves) \div 2)
    IN  IF nanos >= MaxUtc \/ -nanos >= MaxUtc THEN None ELSE instant(epoch, nanos)

from_values(format, value) ==
    LET epoch == EpochOf[format.epoch] IN
    CASE format.kind = "cuc" /\ value.raw = "bytes" -> cuc_from_bytes(value.octets, format, epoch)
      [] format.kind = "cuc" /\ value.raw = "unsigned" ->
            cuc_from_unsigned(value.number, format, epoch)
      [] format.kind = "cds" /\ value.raw = "bytes" -> cds_from_bytes(value.octets, format, epoch)
      [] format.kind = "cds" /\ value.raw = "unsigned" ->
            cds_from_unsigned(value.number, format, epoch)
      [] format.kind = "seconds" /\ value.halves # None -> seconds_from_f64(value.halves, epoch)
      [] OTHER -> None

\* SpacecraftClock::read: None for a packet without the parameter.
read_clock(format, value) == IF value = None THEN None ELSE from_values(format, value)

(***************************************************************************)
(* The spacecraft's side: what its clock's field holds at an instant.       *)
(***************************************************************************)
FieldAt(format, made) ==
    LET since == made - EpochOf[format.epoch]
        below == since % NANOS_PER_SECOND
        in_milli == since % NANOS_PER_MILLI
    IN  CASE format.kind = "cuc" ->
                BigEndian(since \div NANOS_PER_SECOND, format.coarse_bytes)
                \o BigEndian((below * OctetValues^format.fine_bytes) \div NANOS_PER_SECOND,
                             format.fine_bytes)
          [] format.kind = "cds" ->
                BigEndian(since \div NanosPerDay, format.day_bytes)
                \o BigEndian((since % NanosPerDay) \div NANOS_PER_MILLI, CDS_MILLISECONDS_BYTES)
                \o BigEndian(IF format.submillisecond_bytes = 2 THEN in_milli \div NANOS_PER_MICRO
                             ELSE in_milli * PicosPerNano, format.submillisecond_bytes)
          [] OTHER -> <<>>

\* The field has room for the instant.
Holds(format, made) ==
    LET since == made - EpochOf[format.epoch] IN
    CASE format.kind = "cuc" ->
            since \div NANOS_PER_SECOND \in 0..(OctetValues^format.coarse_bytes - 1)
      [] format.kind = "cds" -> since \div NanosPerDay \in 0..(OctetValues^format.day_bytes - 1)
      [] OTHER -> TRUE

\* A reading this far before the instant at most is that instant.
IsReading(format, made, time) ==
    /\ time <= made \/ format.kind = "seconds"
    /\ CASE format.kind = "cuc" ->
                (made - time) * OctetValues^format.fine_bytes
                    < NANOS_PER_SECOND + OctetValues^format.fine_bytes
         [] format.kind = "cds" ->
                made - time < CASE format.submillisecond_bytes = 0 -> NANOS_PER_MILLI
                                [] format.submillisecond_bytes = 2 -> NANOS_PER_MICRO
                                [] OTHER -> 1
         [] OTHER -> time - made \in {-1, 0, 1}
=============================================================================
