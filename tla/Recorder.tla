------------------------------ MODULE Recorder ------------------------------
(***************************************************************************)
(* The recording of a session, Recorder in xtce-gs-engine/src/record.rs:    *)
(* bytes wait in a buffer, a flush hands the buffer to a blocking thread    *)
(* and waits until they are on the file, and a drop writes what the buffer  *)
(* still holds through a handle of its own.                                 *)
(***************************************************************************)
EXTENDS Naturals, Sequences

CONSTANTS
    RecordBuffer,   \* RECORD_BUFFER_BYTES
    Existing        \* what the file holds before the session opens it

ASSUME RecorderAssumption == RecordBuffer \in Nat \ {0}

VARIABLES
    recorder,   \* the task holds an open recorder
    tail,       \* Recorder::buffer
    flight,     \* handed to the blocking thread, not on the file yet
    file,       \* the file
    failed      \* a write to it failed

recorderVars == <<recorder, tail, flight, file, failed>>

RecorderInit ==
    /\ recorder = FALSE /\ tail = <<>> /\ flight = <<>> /\ file = Existing
    /\ failed = FALSE

(* Opened for appending, or not at all. *)
OpenRecorder(opens) ==
    /\ recorder' = opens
    /\ UNCHANGED <<tail, flight, file, failed>>

Buffered(bytes) == tail \o bytes

(* The bytes stay in the buffer: it is short and was flushed not long ago. *)
Keep(bytes) ==
    /\ Len(Buffered(bytes)) < RecordBuffer
    /\ tail' = Buffered(bytes)
    /\ UNCHANGED <<recorder, flight, file, failed>>

(* The buffer is full, or was last flushed RECORD_FLUSH_INTERVAL ago: it    *)
(* goes to the blocking thread once that has nothing else to write.         *)
Flush(bytes) ==
    /\ flight = <<>>
    /\ flight' = Buffered(bytes) /\ tail' = <<>>
    /\ UNCHANGED <<recorder, file, failed>>

(* The blocking thread writes what it was given, or a part of it. *)
Lands ==
    /\ flight # <<>>
    /\ flight' = <<>>
    /\ \E n \in 0..Len(flight) :
          /\ file' = file \o SubSeq(flight, 1, n)
          /\ failed' = (failed \/ n < Len(flight))
    /\ UNCHANGED <<recorder, tail>>

(* A mistake: a flush does not wait for the thread. *)
LandedNever == TRUE

(* What the await in flush waits for. *)
Landed == flight = <<>>

CloseRecorder ==
    /\ recorder' = FALSE
    /\ UNCHANGED <<tail, flight, file, failed>>

(* The task is gone: what is left in the buffer is appended at once, ahead  *)
(* of anything the thread has not written yet.                              *)
DropRecorder ==
    /\ recorder' = FALSE
    /\ tail' = <<>>
    /\ \E n \in 0..Len(tail) :
          /\ file' = file \o SubSeq(tail, 1, n)
          /\ failed' = (failed \/ n < Len(tail))
    /\ UNCHANGED flight
=============================================================================
