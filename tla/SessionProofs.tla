--------------------------- MODULE SessionProofs ---------------------------
(***************************************************************************)
(* What holds of Session for every queue depth, every bound and every kind *)
(* of source, checked by TLAPS.                                             *)
(***************************************************************************)
EXTENDS Session, SequenceTheorems, TLAPS

LEMMA RemoveAtSeq ==
    ASSUME NEW S, NEW s \in Seq(S), NEW i \in 1..Len(s)
    PROVE  /\ RemoveAt(s, i) \in Seq(S)
           /\ Len(RemoveAt(s, i)) = Len(s) - 1
<1> DEFINE front == SubSeq(s, 1, i - 1)
           back == SubSeq(s, i + 1, Len(s))
<1>1. front \in Seq(S) /\ Len(front) = i - 1
    BY SubSeqProperties, ElementOfSeq
<1>2. back \in Seq(S) /\ Len(back) = Len(s) - i
    BY SubSeqProperties, ElementOfSeq
<1>3. RemoveAt(s, i) = front \o back
    BY DEF RemoveAt
<1>4. i \in Int /\ Len(s) \in Nat
    BY LenProperties
<1> HIDE DEF front, back
<1>5. front \o back \in Seq(S) /\ Len(front \o back) = Len(front) + Len(back)
    BY <1>1, <1>2, ConcatProperties
<1> QED  BY <1>1, <1>2, <1>3, <1>4, <1>5

\* Dispatch::push keeps the ring a sequence of items.
LEMMA PushTypes ==
    ASSUME NEW item \in Item, backlog \in Seq(Item), dropped \in Nat, Push(item)
    PROVE  backlog' \in Seq(Item) /\ dropped' \in Nat
<1>1. CASE RingTakes(item) /\ backlog' = Append(backlog, item) /\ UNCHANGED dropped
    BY <1>1
<1>2. CASE EvictFor(item)
    <2>1. PICK k \in OldestPacket(backlog) :
                backlog' = Append(RemoveAt(backlog, k), item)
        BY <1>2 DEF EvictFor
    <2>2. k \in 1..Len(backlog)
        BY <2>1 DEF OldestPacket, PacketPlaces
    <2> QED  BY <1>2, <2>1, <2>2, RemoveAtSeq DEF EvictFor
<1>3. CASE RefusePacket(item)
    BY <1>3 DEF RefusePacket
<1> QED  BY <1>1, <1>2, <1>3 DEF Push

LEMMA ChunkTypes ==
    ASSUME NEW restarted \in BOOLEAN, NEW n \in Nat, made \in Nat, era \in Nat \ {0}
    PROVE  /\ ChunkItems(restarted, n) \in Seq(Item)
           /\ Len(ChunkItems(restarted, n)) = IF restarted THEN n + 1 ELSE n
<1> DEFINE size == IF restarted THEN n + 1 ELSE n
           next == IF restarted THEN era + 1 ELSE era
           f == [k \in 1..size |-> [id |-> made + k, era |-> next,
                                    mark |-> restarted /\ made + k = made + 1]]
<1>1. size \in Nat /\ next \in Nat \ {0}
    OBVIOUS
<1>2. \A k \in 1..size : [id |-> made + k, era |-> next,
                          mark |-> restarted /\ made + k = made + 1] \in Item
    BY <1>1 DEF Item
<1>3. f \in [1..size -> Item]
    BY <1>2
<1>4. f \in Seq(Item) /\ Len(f) = size
    BY <1>1, <1>3, LenProperties
<1> QED  BY <1>4 DEF ChunkItems

\* Every value a variable takes is of its type.
THEOREM TypeCorrect == Spec => []TypeOK
<1>1. Init => TypeOK
    <2> SUFFICES ASSUME Init PROVE TypeOK
        OBVIOUS
    <2>1. <<>> \in Seq(Item)
        BY EmptySeq
    <2>2. /\ outbox \in Seq(Item) /\ hand \in Seq(Item) /\ backlog \in Seq(Item)
          /\ channel \in Seq(Item) /\ queued \in Seq(Item) /\ seen \in Seq(Item)
        BY <2>1 DEF Init
    <2>3. kind \in SourceKinds /\ failures \in Nat /\ era \in Nat \ {0} /\ made \in Nat
          /\ dropped \in Nat /\ tracked \in Nat /\ outcome \in Outcomes
        BY DEF Init, Outcomes
    <2>4. /\ source = "connecting" /\ acq = "open" /\ dec = "recv"
          /\ running = TRUE /\ stop = FALSE /\ caller = "idle"
        BY DEF Init
    <2> QED  BY <2>2, <2>3, <2>4 DEF TypeOK
<1>2. TypeOK /\ [Next]_vars => TypeOK'
    <2> SUFFICES ASSUME TypeOK, [Next]_vars PROVE TypeOK'
        OBVIOUS
    <2> USE DEF TypeOK, Finish, Outcomes, readVars, queueVars, decVars, shutVars
    <2>1. CASE Connect
        BY <2>1 DEF Connect
    <2>2. CASE Refused
        BY <2>2 DEF Refused
    <2>3. CASE OpenStopped
        BY <2>3 DEF OpenStopped
    <2>4. CASE StopSeen
        BY <2>4 DEF StopSeen
    <2>5. CASE BeginFlush
        BY <2>5 DEF BeginFlush
    <2>6. CASE FlushItem
        <3>1. Head(backlog) \in Item /\ Tail(backlog) \in Seq(Item)
            BY <2>6, HeadTailProperties DEF FlushItem, IsBackedUp
        <3>2. Append(channel, Head(backlog)) \in Seq(Item)
            BY <3>1, AppendProperties
        <3> QED  BY <2>6, <3>1, <3>2 DEF FlushItem
    <2>7. CASE FlushDone
        BY <2>7 DEF FlushDone
    <2>8. CASE Gone
        BY <2>8 DEF Gone
    <2>9. CASE SelectStop
        BY <2>9 DEF SelectStop
    <2>10. CASE SelectRoom
        BY <2>10 DEF SelectRoom
    <2>11. CASE SelectClosed
        BY <2>11 DEF SelectClosed
    <2>12. ASSUME NEW restarted \in BOOLEAN, NEW n \in 0..ChunkPackets,
                  ReadChunk(restarted, n)
           PROVE  TypeOK'
        <3>1. n \in Nat
            BY SessionAssumption
        <3>2. /\ ChunkItems(restarted, n) \in Seq(Item)
              /\ Len(ChunkItems(restarted, n)) \in Nat
            BY <3>1, ChunkTypes
        <3> QED  BY <2>12, <3>2 DEF ReadChunk
    <2>13. CASE SourceEnds
        BY <2>13 DEF SourceEnds
    <2>14. ASSUME NEW transient \in BOOLEAN, ReadFails(transient)
           PROVE  TypeOK'
        BY <2>14 DEF ReadFails
    <2>15. CASE SendNow
        <3>1. Head(outbox) \in Item /\ Tail(outbox) \in Seq(Item)
            BY <2>15, HeadTailProperties DEF SendNow
        <3>2. Append(channel, Head(outbox)) \in Seq(Item)
            BY <3>1, AppendProperties
        <3> QED  BY <2>15, <3>1, <3>2 DEF SendNow
    <2>16. CASE SendToRing
        <3>1. Head(outbox) \in Item /\ Tail(outbox) \in Seq(Item)
            BY <2>16, HeadTailProperties DEF SendToRing
        <3> QED  BY <2>16, <3>1, PushTypes DEF SendToRing
    <2>17. CASE SendMustWait
        <3>1. Head(outbox) \in Item /\ Tail(outbox) \in Seq(Item)
            BY <2>17, HeadTailProperties DEF SendMustWait
        <3>2. <<Head(outbox)>> \in Seq(Item) /\ <<>> \in Seq(Item)
            BY <3>1
        <3> QED  BY <2>17, <3>1, <3>2 DEF SendMustWait
    <2>18. CASE WaitRoom
        <3>1. channel \o hand \in Seq(Item) /\ <<>> \in Seq(Item)
            BY ConcatProperties, EmptySeq
        <3> QED  BY <2>18, <3>1 DEF WaitRoom
    <2>19. CASE WaitStop
        <3>1. <<>> \in Seq(Item)
            BY EmptySeq
        <3> QED  BY <2>19, <3>1 DEF WaitStop
    <2>20. CASE ChunkDone
        BY <2>20 DEF ChunkDone
    <2>21. CASE DrainPop
        <3>1. Head(backlog) \in Item /\ Tail(backlog) \in Seq(Item)
            BY <2>21, HeadTailProperties DEF DrainPop, IsBackedUp
        <3>2. <<Head(backlog)>> \in Seq(Item) /\ <<>> \in Seq(Item)
            BY <3>1
        <3> QED  BY <2>21, <3>1, <3>2 DEF DrainPop
    <2>22. CASE DrainRoom
        <3>1. channel \o hand \in Seq(Item) /\ <<>> \in Seq(Item)
            BY ConcatProperties, EmptySeq
        <3> QED  BY <2>22, <3>1 DEF DrainRoom
    <2>23. CASE DrainDone
        <3>1. <<>> \in Seq(Item)
            BY EmptySeq
        <3> QED  BY <2>23, <3>1 DEF DrainDone
    <2>24. CASE GuardDrop
        BY <2>24 DEF GuardDrop
    <2>25. CASE SenderDrop
        <3>1. <<>> \in Seq(Item)
            BY EmptySeq
        <3> QED  BY <2>25, <3>1 DEF SenderDrop
    <2>26. CASE Cancelled
        BY <2>26 DEF Cancelled
    <2>27. CASE Recv
        <3>1. Head(channel) \in Item /\ Tail(channel) \in Seq(Item)
            BY <2>27, HeadTailProperties DEF Recv
        <3>2. <<Head(channel)>> \in Seq(Item)
            BY <3>1
        <3> QED  BY <2>27, <3>1, <3>2 DEF Recv
    <2>28. CASE TryRecv
        <3>1. Head(channel) \in Item /\ Tail(channel) \in Seq(Item)
            BY <2>28, HeadTailProperties DEF TryRecv
        <3>2. Append(queued, Head(channel)) \in Seq(Item)
            BY <3>1, AppendProperties
        <3> QED  BY <2>28, <3>1, <3>2 DEF TryRecv
    <2>29. CASE BatchDrained
        BY <2>29 DEF BatchDrained
    <2>30. CASE DecodeRestart
        <3>1. Head(queued) \in Item /\ Tail(queued) \in Seq(Item)
            BY <2>30, HeadTailProperties DEF DecodeRestart
        <3>2. Head(queued).era \in Nat /\ Append(seen, Head(queued)) \in Seq(Item)
            BY <3>1, AppendProperties DEF Item
        <3> QED  BY <2>30, <3>1, <3>2 DEF DecodeRestart, CountsReset
    <2>31. CASE DecodePacket
        <3>1. Head(queued) \in Item /\ Tail(queued) \in Seq(Item)
            BY <2>31, HeadTailProperties DEF DecodePacket
        <3>2. Head(queued).era \in Nat /\ Append(seen, Head(queued)) \in Seq(Item)
            BY <3>1, AppendProperties DEF Item
        <3> QED  BY <2>31, <3>1, <3>2 DEF DecodePacket
    <2>32. CASE BatchDone
        BY <2>32 DEF BatchDone
    <2>33. CASE DecodeEnds
        BY <2>33 DEF DecodeEnds
    <2>34. CASE DecoderDies
        <3>1. <<>> \in Seq(Item)
            BY EmptySeq
        <3> QED  BY <2>34, <3>1 DEF DecoderDies
    <2>35. CASE ShutdownOutcome
        BY <2>35 DEF ShutdownOutcome
    <2>36. CASE ShutdownRunning
        <3>1. /\ running' = FALSE /\ stop' = stop /\ caller' = "lowered"
              /\ UNCHANGED <<kind, readVars, acq, queueVars, decVars, outcome>>
            BY <2>36 DEF ShutdownRunning
        <3> QED  BY <3>1
    <2>37. CASE ShutdownStop
        <3>1. /\ running' = running /\ stop' = TRUE /\ caller' = "returned"
              /\ UNCHANGED <<kind, readVars, acq, queueVars, decVars, outcome>>
            BY <2>37 DEF ShutdownStop
        <3> QED  BY <3>1
    <2>38. CASE UNCHANGED vars
        BY <2>38 DEF vars
    <2> QED
        BY <2>1, <2>2, <2>3, <2>4, <2>5, <2>6, <2>7, <2>8, <2>9, <2>10, <2>11,
           <2>12, <2>13, <2>14, <2>15, <2>16, <2>17, <2>18, <2>19, <2>20,
           <2>21, <2>22, <2>23, <2>24, <2>25, <2>26, <2>27, <2>28, <2>29,
           <2>30, <2>31, <2>32, <2>33, <2>34, <2>35, <2>36, <2>37, <2>38
           DEF Next, Acquire, Environment, Decode, ShutdownContinues
<1>3. QED
    BY <1>1, <1>2, PTL DEF Spec

-----------------------------------------------------------------------------
(***************************************************************************)
(* Endings.  EndingIsHonest is not inductive: that a stop while connecting  *)
(* does not read SourceFailed, and a stop while waiting for room does not   *)
(* read DecoderGone, rests on shutdown writing the outcome before it raises *)
(* the watch, and that a later failure does not contradict an earlier       *)
(* ending on the loop being left at the first one.                          *)
(***************************************************************************)
OutcomeInv ==
    /\ EndingIsHonest
    /\ caller # "idle" => outcome # "Running"
    /\ stop => caller = "returned"
    /\ acq = "open" => source = "connecting"
    /\ acq \in {"top", "flush", "select", "send", "wait"} => source = "open"
    /\ acq = "drain" => source = "ended" /\ outcome # "Running"
    /\ Over /\ dec # "dead" => outcome # "Running"
    /\ ~running => Over \/ caller # "idle"

LEMMA OutcomeInductive == Spec => []OutcomeInv
<1>1. Init => OutcomeInv
    BY DEF Init, OutcomeInv, EndingIsHonest, Over
<1>2. TypeOK /\ OutcomeInv /\ [Next]_vars => OutcomeInv'
    <2> SUFFICES ASSUME TypeOK, OutcomeInv, [Next]_vars PROVE OutcomeInv'
        OBVIOUS
    <2> USE DEF OutcomeInv, EndingIsHonest, Over, Finish,
                readVars, queueVars, decVars, shutVars
    <2>0. running \in BOOLEAN /\ stop \in BOOLEAN
        BY DEF TypeOK
    <2>1. CASE Connect
        BY <2>0, <2>1 DEF Connect
    <2>2. CASE Refused
        BY <2>0, <2>2 DEF Refused
    <2>3. CASE OpenStopped
        BY <2>0, <2>3 DEF OpenStopped
    <2>4. CASE StopSeen
        BY <2>0, <2>4 DEF StopSeen
    <2>5. CASE BeginFlush
        BY <2>0, <2>5 DEF BeginFlush
    <2>6. CASE FlushItem
        BY <2>0, <2>6 DEF FlushItem
    <2>7. CASE FlushDone
        BY <2>0, <2>7 DEF FlushDone
    <2>8. CASE Gone
        BY <2>0, <2>8 DEF Gone, Closed
    <2>9. CASE SelectStop
        BY <2>0, <2>9 DEF SelectStop
    <2>10. CASE SelectRoom
        BY <2>0, <2>10 DEF SelectRoom
    <2>11. CASE SelectClosed
        BY <2>0, <2>11 DEF SelectClosed, Closed
    <2>12. ASSUME NEW restarted \in BOOLEAN, NEW n \in 0..ChunkPackets,
                  ReadChunk(restarted, n)
           PROVE  OutcomeInv'
        BY <2>0, <2>12 DEF ReadChunk, CanRead
    <2>13. CASE SourceEnds
        BY <2>0, <2>13 DEF SourceEnds, CanRead
    <2>14. ASSUME NEW transient \in BOOLEAN, ReadFails(transient)
           PROVE  OutcomeInv'
        BY <2>0, <2>14 DEF ReadFails, CanRead
    <2>15. CASE SendNow
        BY <2>0, <2>15 DEF SendNow
    <2>16. CASE SendToRing
        BY <2>0, <2>16 DEF SendToRing
    <2>17. CASE SendMustWait
        BY <2>0, <2>17 DEF SendMustWait
    <2>18. CASE WaitRoom
        BY <2>0, <2>18 DEF WaitRoom
    <2>19. CASE WaitStop
        BY <2>0, <2>19 DEF WaitStop
    <2>20. CASE ChunkDone
        BY <2>0, <2>20 DEF ChunkDone
    <2>21. CASE DrainPop
        BY <2>0, <2>21 DEF DrainPop
    <2>22. CASE DrainRoom
        BY <2>0, <2>22 DEF DrainRoom
    <2>23. CASE DrainDone
        BY <2>0, <2>23 DEF DrainDone, Closed, Drained, IsBackedUp
    <2>24. CASE GuardDrop
        BY <2>0, <2>24 DEF GuardDrop
    <2>25. CASE SenderDrop
        BY <2>0, <2>25 DEF SenderDrop
    <2>26. CASE Cancelled
        BY <2>0, <2>26 DEF Cancelled
    <2>27. CASE Recv
        BY <2>0, <2>27 DEF Recv
    <2>28. CASE TryRecv
        BY <2>0, <2>28 DEF TryRecv
    <2>29. CASE BatchDrained
        BY <2>0, <2>29 DEF BatchDrained
    <2>30. CASE DecodeRestart
        BY <2>0, <2>30 DEF DecodeRestart
    <2>31. CASE DecodePacket
        BY <2>0, <2>31 DEF DecodePacket
    <2>32. CASE BatchDone
        BY <2>0, <2>32 DEF BatchDone
    <2>33. CASE DecodeEnds
        BY <2>0, <2>33 DEF DecodeEnds
    <2>34. CASE DecoderDies
        BY <2>0, <2>34 DEF DecoderDies
    <2>35. CASE ShutdownOutcome
        BY <2>0, <2>35 DEF ShutdownOutcome
    <2>36. CASE ShutdownRunning
        BY <2>0, <2>36 DEF ShutdownRunning
    <2>37. CASE ShutdownStop
        BY <2>0, <2>37 DEF ShutdownStop
    <2>38. CASE UNCHANGED vars
        BY <2>38 DEF vars
    <2> QED
        BY <2>1, <2>2, <2>3, <2>4, <2>5, <2>6, <2>7, <2>8, <2>9, <2>10, <2>11,
           <2>12, <2>13, <2>14, <2>15, <2>16, <2>17, <2>18, <2>19, <2>20,
           <2>21, <2>22, <2>23, <2>24, <2>25, <2>26, <2>27, <2>28, <2>29,
           <2>30, <2>31, <2>32, <2>33, <2>34, <2>35, <2>36, <2>37, <2>38
           DEF Next, Acquire, Environment, Decode, ShutdownContinues
<1>3. QED
    BY <1>1, <1>2, TypeCorrect, PTL DEF Spec

\* The outcome a supervisor reads is never another ending than the one that
\* happened, and a session that is not running has one as long as the decode
\* thread lives, for any queue depth and any source.
THEOREM OutcomeIsHonest == Spec => []EndingIsHonest
<1>1. OutcomeInv => EndingIsHonest
    BY DEF OutcomeInv
<1> QED  BY <1>1, OutcomeInductive, PTL

-----------------------------------------------------------------------------
(***************************************************************************)
(* Accounts.  Every item read is handled, counted as dropped, or in exactly *)
(* one place on the way, until the pass is cut short.                       *)
(***************************************************************************)
\* Dispatch::push either keeps one item more or counts one more as dropped.
LEMMA PushCounts ==
    ASSUME NEW item \in Item, backlog \in Seq(Item), dropped \in Nat, Push(item)
    PROVE  \/ Len(backlog') = Len(backlog) + 1 /\ dropped' = dropped
           \/ Len(backlog') = Len(backlog) /\ dropped' = dropped + 1
<1>0. Len(backlog) \in Nat
    BY LenProperties
<1>1. CASE RingTakes(item) /\ backlog' = Append(backlog, item) /\ UNCHANGED dropped
    BY <1>0, <1>1, AppendProperties
<1>2. CASE EvictFor(item)
    <2>1. PICK k \in OldestPacket(backlog) :
                backlog' = Append(RemoveAt(backlog, k), item)
        BY <1>2 DEF EvictFor
    <2>2. k \in 1..Len(backlog)
        BY <2>1 DEF OldestPacket, PacketPlaces
    <2>3. RemoveAt(backlog, k) \in Seq(Item) /\ Len(RemoveAt(backlog, k)) = Len(backlog) - 1
        BY <2>2, RemoveAtSeq
    <2>4. Len(backlog') = Len(RemoveAt(backlog, k)) + 1
        BY <2>1, <2>3, AppendProperties
    <2> QED  BY <1>0, <1>2, <2>3, <2>4 DEF EvictFor
<1>3. CASE RefusePacket(item)
    BY <1>0, <1>3 DEF RefusePacket
<1> QED  BY <1>1, <1>2, <1>3 DEF Push

Accounted ==
    made = dropped + Len(seen) + Len(queued) + Len(channel) + Len(hand)
           + Len(backlog) + Len(outbox)

AccountInv ==
    /\ acq \in {"open", "top", "flush", "select"} => outbox = <<>> /\ hand = <<>>
    /\ acq = "send" => hand = <<>>
    /\ acq = "drain" => outbox = <<>>
    /\ dec \in {"recv", "exited"} => queued = <<>>
    /\ dec # "dead" /\ ~Over => Accounted
    /\ dec # "dead" /\ Over /\ source = "ended" /\ caller = "idle" =>
          Accounted /\ hand = <<>> /\ backlog = <<>> /\ outbox = <<>>

LEMMA AccountInductive == Spec => []AccountInv
<1>1. Init => AccountInv
    BY EmptySeq DEF Init, AccountInv, Accounted, Over
<1>2. TypeOK /\ OutcomeInv /\ AccountInv /\ [Next]_vars => AccountInv'
    <2> SUFFICES ASSUME TypeOK, OutcomeInv, AccountInv, [Next]_vars PROVE AccountInv'
        OBVIOUS
    <2> USE DEF AccountInv, Over, readVars, queueVars, decVars, shutVars
    <2>a. /\ outbox \in Seq(Item) /\ hand \in Seq(Item) /\ backlog \in Seq(Item)
          /\ channel \in Seq(Item) /\ queued \in Seq(Item) /\ seen \in Seq(Item)
          /\ dropped \in Nat /\ made \in Nat
        BY DEF TypeOK
    <2>b. /\ Len(outbox) \in Nat /\ Len(hand) \in Nat /\ Len(backlog) \in Nat
          /\ Len(channel) \in Nat /\ Len(queued) \in Nat /\ Len(seen) \in Nat
          /\ made \in Nat /\ dropped \in Nat
        BY <2>a, LenProperties
    <2>c. /\ acq \in {"top", "flush", "select", "send", "wait"} => source = "open"
          /\ acq = "open" => source = "connecting"
          /\ stop => caller = "returned"
        BY DEF OutcomeInv
    <2> USE <2>b, <2>c
    <2>d. Len(<<>>) = 0
        BY EmptySeq
    <2>1. CASE Connect
        BY <2>1 DEF Connect, Accounted
    <2>2. CASE Refused
        BY <2>2 DEF Refused, Accounted
    <2>3. CASE OpenStopped
        BY <2>3 DEF OpenStopped, Accounted
    <2>4. CASE StopSeen
        BY <2>4 DEF StopSeen, Accounted
    <2>5. CASE BeginFlush
        BY <2>5 DEF BeginFlush, Accounted
    <2>6. CASE FlushItem
        <3>1. Len(Tail(backlog)) = Len(backlog) - 1 /\ Len(backlog) \in Nat \ {0} /\ Head(backlog) \in Item
            BY <2>a, <2>6, HeadTailProperties, EmptySeq DEF FlushItem, IsBackedUp
        <3>2. Len(Append(channel, Head(backlog))) = Len(channel) + 1
            BY <2>a, <3>1, AppendProperties
        <3>4. /\ Len(backlog') = Len(backlog) - 1 /\ Len(channel') = Len(channel) + 1
              /\ UNCHANGED <<made, dropped, seen, queued, hand, outbox, acq, dec, source, caller>>
              /\ acq \in {"flush", "send"}
            BY <2>6, <3>1, <3>2 DEF FlushItem
        <3>5. Accounted => Accounted'
            BY <3>1, <3>4 DEF Accounted
        <3> QED  BY <3>1, <3>4, <3>5
    <2>7. CASE FlushDone
        BY <2>7 DEF FlushDone, Accounted
    <2>8. CASE Gone
        BY <2>8 DEF Gone, Closed, Accounted
    <2>9. CASE SelectStop
        BY <2>9 DEF SelectStop, Accounted
    <2>10. CASE SelectRoom
        BY <2>10 DEF SelectRoom, Accounted
    <2>11. CASE SelectClosed
        BY <2>11 DEF SelectClosed, Accounted
    <2>12. ASSUME NEW restarted \in BOOLEAN, NEW n \in 0..ChunkPackets,
                  ReadChunk(restarted, n)
           PROVE  AccountInv'
        <3>1. Len(ChunkItems(restarted, n)) \in Nat
            BY SessionAssumption, ChunkTypes DEF TypeOK
        <3>2. Len(<<>>) = 0
            BY EmptySeq
        <3> QED  BY <2>12, <3>1, <3>2 DEF ReadChunk, CanRead, Accounted
    <2>13. CASE SourceEnds
        BY <2>13 DEF SourceEnds, CanRead, Accounted
    <2>14. ASSUME NEW transient \in BOOLEAN, ReadFails(transient)
           PROVE  AccountInv'
        BY <2>14 DEF ReadFails, CanRead, Accounted
    <2>15. CASE SendNow
        <3>1. Len(Tail(outbox)) = Len(outbox) - 1 /\ Len(outbox) \in Nat \ {0} /\ Head(outbox) \in Item
            BY <2>a, <2>15, HeadTailProperties, EmptySeq DEF SendNow
        <3>2. Len(Append(channel, Head(outbox))) = Len(channel) + 1
            BY <2>a, <3>1, AppendProperties
        <3>4. /\ Len(outbox') = Len(outbox) - 1 /\ Len(channel') = Len(channel) + 1
              /\ UNCHANGED <<made, dropped, seen, queued, hand, backlog, acq, dec, source, caller>>
              /\ acq = "send"
            BY <2>15, <3>1, <3>2 DEF SendNow
        <3>5. Accounted => Accounted'
            BY <3>1, <3>4 DEF Accounted
        <3> QED  BY <3>1, <3>4, <3>5
    <2>16. CASE SendToRing
        <3>1. /\ Len(Tail(outbox)) = Len(outbox) - 1
              /\ Len(outbox) \in Nat \ {0} /\ Head(outbox) \in Item
            BY <2>a, <2>16, HeadTailProperties, EmptySeq DEF SendToRing
        <3>2. \/ Len(backlog') = Len(backlog) + 1 /\ dropped' = dropped
              \/ Len(backlog') = Len(backlog) /\ dropped' = dropped + 1
            BY <2>a, <2>16, <3>1, PushCounts DEF SendToRing
        <3>4. /\ Len(outbox') = Len(outbox) - 1
              /\ UNCHANGED <<made, seen, queued, channel, hand, acq, dec, source, caller>>
              /\ acq = "send"
            BY <2>16, <3>1 DEF SendToRing
        <3>5. Accounted => Accounted'
            <4>1. CASE Len(backlog') = Len(backlog) + 1 /\ dropped' = dropped
                BY <3>1, <3>4, <4>1 DEF Accounted
            <4>2. CASE Len(backlog') = Len(backlog) /\ dropped' = dropped + 1
                BY <3>1, <3>4, <4>2 DEF Accounted
            <4> QED  BY <3>2, <4>1, <4>2
        <3> QED  BY <3>1, <3>4, <3>5
    <2>17. CASE SendMustWait
        <3>1. Len(Tail(outbox)) = Len(outbox) - 1 /\ Len(outbox) \in Nat \ {0} /\ Head(outbox) \in Item
            BY <2>a, <2>17, HeadTailProperties, EmptySeq DEF SendMustWait
        <3>2. Len(<<Head(outbox)>>) = 1 /\ Len(<<>>) = 0
            BY EmptySeq
        <3>4. /\ Len(outbox') = Len(outbox) - 1 /\ Len(hand') = Len(hand) + 1
              /\ UNCHANGED <<made, dropped, seen, queued, channel, backlog, dec, source, caller>>
              /\ acq = "send" /\ acq' = "wait"
            BY <2>17, <3>1, <3>2 DEF SendMustWait
        <3>5. Accounted => Accounted'
            BY <3>1, <3>4 DEF Accounted
        <3> QED  BY <3>1, <3>4, <3>5
    <2>18. CASE WaitRoom
        <3>1. Len(channel \o hand) = Len(channel) + Len(hand) /\ Len(<<>>) = 0
            BY <2>a, ConcatProperties, EmptySeq
        <3> QED  BY <2>18, <3>1 DEF WaitRoom, Accounted
    <2>19. CASE WaitStop
        BY <2>19 DEF WaitStop, Accounted
    <2>20. CASE ChunkDone
        BY <2>20 DEF ChunkDone, Accounted
    <2>21. CASE DrainPop
        <3>1. Len(Tail(backlog)) = Len(backlog) - 1 /\ Len(backlog) \in Nat \ {0} /\ Head(backlog) \in Item
            BY <2>a, <2>21, HeadTailProperties, EmptySeq DEF DrainPop, IsBackedUp
        <3>2. Len(<<Head(backlog)>>) = 1 /\ Len(<<>>) = 0
            BY EmptySeq
        <3>4. /\ Len(backlog') = Len(backlog) - 1 /\ Len(hand') = Len(hand) + 1
              /\ UNCHANGED <<made, dropped, seen, queued, channel, outbox, acq, dec, source, caller>>
              /\ acq = "drain"
            BY <2>21, <3>1, <3>2 DEF DrainPop
        <3>5. Accounted => Accounted'
            BY <3>1, <3>4 DEF Accounted
        <3> QED  BY <3>1, <3>4, <3>5
    <2>22. CASE DrainRoom
        <3>1. Len(channel \o hand) = Len(channel) + Len(hand) /\ Len(<<>>) = 0
            BY <2>a, ConcatProperties, EmptySeq
        <3> QED  BY <2>22, <3>1 DEF DrainRoom, Accounted
    <2>23. CASE DrainDone
        BY <2>23 DEF DrainDone, Closed, Drained, IsBackedUp, Accounted
    <2>24. CASE GuardDrop
        BY <2>24 DEF GuardDrop, Accounted
    <2>25. CASE SenderDrop
        BY <2>25 DEF SenderDrop, Accounted
    <2>26. CASE Cancelled
        BY <2>26 DEF Cancelled, Accounted
    <2>27. CASE Recv
        <3>1. Len(Tail(channel)) = Len(channel) - 1 /\ Len(channel) \in Nat \ {0} /\ Head(channel) \in Item
            BY <2>a, <2>27, HeadTailProperties, EmptySeq DEF Recv
        <3>2. Len(<<Head(channel)>>) = 1
            OBVIOUS
        <3>4. /\ Len(channel') = Len(channel) - 1 /\ Len(queued') = 1
              /\ UNCHANGED <<made, dropped, seen, hand, backlog, outbox, acq, source, caller>>
              /\ dec = "recv" /\ dec' = "batch"
            BY <2>27, <3>1, <3>2 DEF Recv
        <3>5. Accounted => Accounted'
            BY <3>1, <3>4 DEF Accounted
        <3> QED  BY <3>1, <3>4, <3>5
    <2>28. CASE TryRecv
        <3>1. Len(Tail(channel)) = Len(channel) - 1 /\ Len(channel) \in Nat \ {0} /\ Head(channel) \in Item
            BY <2>a, <2>28, HeadTailProperties, EmptySeq DEF TryRecv
        <3>2. Len(Append(queued, Head(channel))) = Len(queued) + 1
            BY <2>a, <3>1, AppendProperties
        <3>4. /\ Len(channel') = Len(channel) - 1 /\ Len(queued') = Len(queued) + 1
              /\ UNCHANGED <<made, dropped, seen, hand, backlog, outbox, acq, dec, source, caller>>
              /\ dec = "batch"
            BY <2>28, <3>1, <3>2 DEF TryRecv
        <3>5. Accounted => Accounted'
            BY <3>1, <3>4 DEF Accounted
        <3> QED  BY <3>1, <3>4, <3>5
    <2>29. CASE BatchDrained
        BY <2>29 DEF BatchDrained, Accounted
    <2>30. CASE DecodeRestart
        <3>1. Len(Tail(queued)) = Len(queued) - 1 /\ Len(queued) \in Nat \ {0} /\ Head(queued) \in Item
            BY <2>a, <2>30, HeadTailProperties, EmptySeq DEF DecodeRestart
        <3>2. Len(Append(seen, Head(queued))) = Len(seen) + 1
            BY <2>a, <3>1, AppendProperties
        <3>4. /\ Len(queued') = Len(queued) - 1 /\ Len(seen') = Len(seen) + 1
              /\ UNCHANGED <<made, dropped, channel, hand, backlog, outbox, acq, dec, source, caller>>
              /\ dec = "decode"
            BY <2>30, <3>1, <3>2 DEF DecodeRestart
        <3>5. Accounted => Accounted'
            BY <3>1, <3>4 DEF Accounted
        <3> QED  BY <3>1, <3>4, <3>5
    <2>31. CASE DecodePacket
        <3>1. Len(Tail(queued)) = Len(queued) - 1 /\ Len(queued) \in Nat \ {0} /\ Head(queued) \in Item
            BY <2>a, <2>31, HeadTailProperties, EmptySeq DEF DecodePacket
        <3>2. Len(Append(seen, Head(queued))) = Len(seen) + 1
            BY <2>a, <3>1, AppendProperties
        <3>4. /\ Len(queued') = Len(queued) - 1 /\ Len(seen') = Len(seen) + 1
              /\ UNCHANGED <<made, dropped, channel, hand, backlog, outbox, acq, dec, source, caller>>
              /\ dec = "decode"
            BY <2>31, <3>1, <3>2 DEF DecodePacket
        <3>5. Accounted => Accounted'
            BY <3>1, <3>4 DEF Accounted
        <3> QED  BY <3>1, <3>4, <3>5
    <2>32. CASE BatchDone
        BY <2>32 DEF BatchDone, Accounted
    <2>33. CASE DecodeEnds
        BY <2>33 DEF DecodeEnds, Accounted
    <2>34. CASE DecoderDies
        BY <2>34 DEF DecoderDies, Accounted
    <2>35. CASE ShutdownOutcome
        BY <2>35 DEF ShutdownOutcome, Accounted
    <2>36. CASE ShutdownRunning
        BY <2>36 DEF ShutdownRunning, Accounted
    <2>37. CASE ShutdownStop
        BY <2>37 DEF ShutdownStop, Accounted
    <2>38. CASE UNCHANGED vars
        BY <2>38 DEF vars, Accounted
    <2> QED
        BY <2>1, <2>2, <2>3, <2>4, <2>5, <2>6, <2>7, <2>8, <2>9, <2>10, <2>11,
           <2>12, <2>13, <2>14, <2>15, <2>16, <2>17, <2>18, <2>19, <2>20,
           <2>21, <2>22, <2>23, <2>24, <2>25, <2>26, <2>27, <2>28, <2>29,
           <2>30, <2>31, <2>32, <2>33, <2>34, <2>35, <2>36, <2>37, <2>38
           DEF Next, Acquire, Environment, Decode, ShutdownContinues
<1>3. QED
    BY <1>1, <1>2, TypeCorrect, OutcomeInductive, PTL DEF Spec

LEMMA LineLength ==
    ASSUME TypeOK
    PROVE  Len(Line) = Len(queued) + Len(channel) + Len(hand) + Len(backlog) + Len(outbox)
<1> USE ConcatProperties
<1>1. /\ outbox \in Seq(Item) /\ hand \in Seq(Item) /\ backlog \in Seq(Item)
      /\ channel \in Seq(Item) /\ queued \in Seq(Item)
    BY DEF TypeOK
<1>2. /\ queued \o channel \in Seq(Item)
      /\ Len(queued \o channel) = Len(queued) + Len(channel)
    BY <1>1
<1>3. /\ (queued \o channel) \o hand \in Seq(Item)
      /\ Len((queued \o channel) \o hand) = Len(queued \o channel) + Len(hand)
    BY <1>1, <1>2
<1>4. /\ ((queued \o channel) \o hand) \o backlog \in Seq(Item)
      /\ Len(((queued \o channel) \o hand) \o backlog)
            = Len((queued \o channel) \o hand) + Len(backlog)
    BY <1>1, <1>3
<1>5. Len((((queued \o channel) \o hand) \o backlog) \o outbox)
        = Len(((queued \o channel) \o hand) \o backlog) + Len(outbox)
    BY <1>1, <1>4
<1> QED  BY <1>2, <1>3, <1>4, <1>5 DEF Line

\* Session::dropped is exact: whatever is neither handled nor on its way was
\* counted, until the pass is cut short, and to the end of a pass that ended.
THEOREM NothingUnaccounted == Spec => []PacketsAccountedFor
<1>1. TypeOK /\ AccountInv => PacketsAccountedFor
    <2> SUFFICES ASSUME TypeOK, AccountInv PROVE PacketsAccountedFor
        OBVIOUS
    <2>1. /\ Len(outbox) \in Nat /\ Len(hand) \in Nat /\ Len(backlog) \in Nat
          /\ Len(channel) \in Nat /\ Len(queued) \in Nat /\ Len(seen) \in Nat
          /\ dropped \in Nat
        BY LenProperties DEF TypeOK
    <2>2. Accounted => made = dropped + Len(seen) + Len(Line)
        BY <2>1, LineLength DEF Accounted
    <2> QED  BY <2>2 DEF AccountInv, PacketsAccountedFor
<1> QED  BY <1>1, TypeCorrect, AccountInductive, PTL
----------------------------------------------------------------------------
(***************************************************************************)
(* The order of the items of Session, and the markers between its streams, *)
(* for every queue depth, every bound and every kind of source.            *)
(***************************************************************************)

\* The items a place holds, and whether they are in the order they were read.
Held(s) == {s[k] : k \in 1..Len(s)}
Ascending(s) == \A j, k \in 1..Len(s) : j < k => s[j].id < s[k].id

LEMMA NothingHeld == Held(<<>>) = {} /\ Ascending(<<>>)
<1>1. Len(<<>>) = 0
    BY EmptySeq
<1> QED  BY <1>1 DEF Held, Ascending

LEMMA HeldItems ==
    ASSUME NEW s \in Seq(Item)
    PROVE  \A x \in Held(s) : x \in Item /\ x.id \in Nat
<1>1. \A k \in 1..Len(s) : s[k] \in Item
    BY ElementOfSeq
<1> QED  BY <1>1 DEF Held, Item

LEMMA AppendHeld ==
    ASSUME NEW s \in Seq(Item), NEW y \in Item
    PROVE  /\ Append(s, y) \in Seq(Item)
           /\ Held(Append(s, y)) = Held(s) \union {y}
           /\ Ascending(s) /\ (\A x \in Held(s) : x.id < y.id) => Ascending(Append(s, y))
<1> DEFINE t == Append(s, y)
<1>1. /\ t \in Seq(Item) /\ Len(s) \in Nat /\ Len(t) = Len(s) + 1
      /\ \A j \in 1..Len(s) : t[j] = s[j]
      /\ t[Len(s) + 1] = y
    BY AppendProperties
<1> HIDE DEF t
<1>2. Held(t) = Held(s) \union {y}
    BY <1>1 DEF Held
<1>3. ASSUME Ascending(s), \A x \in Held(s) : x.id < y.id
      PROVE  Ascending(t)
    <2>1. ASSUME NEW j \in 1..Len(t), NEW k \in 1..Len(t), j < k
          PROVE  t[j].id < t[k].id
        <3>1. j \in 1..Len(s) /\ t[j] = s[j] /\ s[j] \in Held(s)
            BY <1>1, <2>1 DEF Held
        <3>2. CASE k = Len(s) + 1
            BY <1>1, <1>3, <3>1, <3>2
        <3>3. CASE k # Len(s) + 1
            BY <1>1, <1>3, <2>1, <3>1, <3>3 DEF Ascending
        <3> QED  BY <3>2, <3>3
    <2> QED  BY <2>1 DEF Ascending
<1> QED  BY <1>1, <1>2, <1>3 DEF t

LEMMA HeadHeld ==
    ASSUME NEW s \in Seq(Item), s # <<>>
    PROVE  /\ Head(s) \in Item /\ Tail(s) \in Seq(Item)
           /\ Held(s) = Held(Tail(s)) \union {Head(s)}
           /\ Ascending(s) => /\ Ascending(Tail(s))
                              /\ \A y \in Held(Tail(s)) : Head(s).id < y.id
<1> DEFINE t == Tail(s)
           h == Head(s)
<1>1. /\ Len(s) \in Nat /\ Len(s) >= 1 /\ h = s[1] /\ h \in Item
      /\ t \in Seq(Item) /\ Len(t) = Len(s) - 1
      /\ \A j \in 1..Len(t) : t[j] = s[j + 1]
    BY HeadTailProperties, EmptySeq
<1> HIDE DEF t, h
<1>2. Held(s) = Held(t) \union {h}
    <2>1. ASSUME NEW k \in 1..Len(s)
          PROVE  s[k] \in Held(t) \union {h}
        <3>1. CASE k = 1
            BY <1>1, <3>1
        <3>2. CASE k # 1
            <4>1. k - 1 \in 1..Len(t) /\ t[k - 1] = s[k]
                BY <1>1, <3>2
            <4> QED  BY <4>1 DEF Held
        <3> QED  BY <3>1, <3>2
    <2>2. ASSUME NEW k \in 1..Len(t)
          PROVE  t[k] \in Held(s)
        <3>1. k + 1 \in 1..Len(s) /\ t[k] = s[k + 1]
            BY <1>1
        <3> QED  BY <3>1 DEF Held
    <2>3. h \in Held(s)
        BY <1>1 DEF Held
    <2> QED  BY <2>1, <2>2, <2>3 DEF Held
<1>3. ASSUME Ascending(s)
      PROVE  Ascending(t) /\ \A y \in Held(t) : h.id < y.id
    <2>1. ASSUME NEW j \in 1..Len(t), NEW k \in 1..Len(t), j < k
          PROVE  t[j].id < t[k].id
        <3>1. /\ j + 1 \in 1..Len(s) /\ k + 1 \in 1..Len(s) /\ j + 1 < k + 1
              /\ t[j] = s[j + 1] /\ t[k] = s[k + 1]
            BY <1>1, <2>1
        <3> QED  BY <1>3, <3>1 DEF Ascending
    <2>2. ASSUME NEW k \in 1..Len(t)
          PROVE  h.id < t[k].id
        <3>1. 1 \in 1..Len(s) /\ k + 1 \in 1..Len(s) /\ 1 < k + 1 /\ t[k] = s[k + 1]
            BY <1>1
        <3> QED  BY <1>1, <1>3, <3>1 DEF Ascending
    <2> QED  BY <2>1, <2>2 DEF Ascending, Held
<1> QED  BY <1>1, <1>2, <1>3 DEF t, h

LEMMA ConcatHeld ==
    ASSUME NEW s \in Seq(Item), NEW t \in Seq(Item)
    PROVE  /\ s \o t \in Seq(Item)
           /\ Held(s \o t) = Held(s) \union Held(t)
           /\ Ascending(s) /\ Ascending(t) /\ (\A x \in Held(s), y \in Held(t) : x.id < y.id)
                => Ascending(s \o t)
<1> DEFINE u == s \o t
<1>1. /\ u \in Seq(Item) /\ Len(s) \in Nat /\ Len(t) \in Nat /\ Len(u) = Len(s) + Len(t)
      /\ \A j \in 1..Len(u) : u[j] = IF j <= Len(s) THEN s[j] ELSE t[j - Len(s)]
    BY ConcatProperties, LenProperties
<1> HIDE DEF u
<1>2. ASSUME NEW j \in 1..Len(u)
      PROVE  \/ j \in 1..Len(s) /\ u[j] = s[j] /\ s[j] \in Held(s)
             \/ j > Len(s) /\ j - Len(s) \in 1..Len(t) /\ u[j] = t[j - Len(s)]
                /\ t[j - Len(s)] \in Held(t)
    <2>1. CASE j <= Len(s)
        BY <1>1, <2>1 DEF Held
    <2>2. CASE ~(j <= Len(s))
        <3>1. j > Len(s) /\ j - Len(s) \in 1..Len(t) /\ u[j] = t[j - Len(s)]
            BY <1>1, <2>2
        <3> QED  BY <3>1 DEF Held
    <2> QED  BY <2>1, <2>2
<1>3. Held(u) = Held(s) \union Held(t)
    <2>1. Held(u) \subseteq Held(s) \union Held(t)
        BY <1>2 DEF Held
    <2>2. ASSUME NEW j \in 1..Len(s)
          PROVE  s[j] \in Held(u)
        <3>1. j \in 1..Len(u) /\ u[j] = s[j]
            BY <1>1
        <3> QED  BY <3>1 DEF Held
    <2>3. ASSUME NEW j \in 1..Len(t)
          PROVE  t[j] \in Held(u)
        <3>1. j + Len(s) \in 1..Len(u) /\ ~(j + Len(s) <= Len(s)) /\ (j + Len(s)) - Len(s) = j
            BY <1>1
        <3>2. u[j + Len(s)] = t[j]
            BY <1>1, <3>1
        <3> QED  BY <3>1, <3>2 DEF Held
    <2> QED  BY <2>1, <2>2, <2>3 DEF Held
<1>4. ASSUME Ascending(s), Ascending(t), \A x \in Held(s), y \in Held(t) : x.id < y.id
      PROVE  Ascending(u)
    <2>1. ASSUME NEW j \in 1..Len(u), NEW k \in 1..Len(u), j < k
          PROVE  u[j].id < u[k].id
        <3>1. CASE j \in 1..Len(s) /\ k \in 1..Len(s)
            <4>1. u[j] = s[j] /\ u[k] = s[k]
                BY <1>1, <3>1
            <4> QED  BY <1>4, <2>1, <3>1, <4>1 DEF Ascending
        <3>2. CASE j \in 1..Len(s) /\ k > Len(s)
            <4>1. ~(k \in 1..Len(s)) /\ ~(j > Len(s))
                BY <1>1, <3>2
            <4>2. u[j] \in Held(s) /\ u[k] \in Held(t)
                BY <1>2, <4>1, <3>2
            <4> QED  BY <1>4, <4>2
        <3>3. CASE j > Len(s)
            <4>1. /\ j - Len(s) \in 1..Len(t) /\ k - Len(s) \in 1..Len(t) /\ j - Len(s) < k - Len(s)
                  /\ u[j] = t[j - Len(s)] /\ u[k] = t[k - Len(s)]
                BY <1>1, <1>2, <2>1, <3>3
            <4> QED  BY <1>4, <4>1 DEF Ascending
        <3> QED  BY <1>1, <2>1, <3>1, <3>2, <3>3
    <2> QED  BY <2>1 DEF Ascending
<1> QED  BY <1>1, <1>3, <1>4 DEF u

LEMMA RemoveHeld ==
    ASSUME NEW s \in Seq(Item), NEW i \in 1..Len(s)
    PROVE  /\ RemoveAt(s, i) \in Seq(Item)
           /\ Held(RemoveAt(s, i)) \subseteq Held(s)
           /\ Held(s) \subseteq Held(RemoveAt(s, i)) \union {s[i]}
           /\ Ascending(s) => Ascending(RemoveAt(s, i))
<1> DEFINE t == RemoveAt(s, i)
           front == SubSeq(s, 1, i - 1)
           back == SubSeq(s, i + 1, Len(s))
<1>0. Len(s) \in Nat /\ i \in Nat \ {0} /\ i <= Len(s)
    BY LenProperties
<1>1. front \in Seq(Item) /\ Len(front) = i - 1 /\ \A j \in 1..(i - 1) : front[j] = s[j]
    BY <1>0, SubSeqProperties, ElementOfSeq
<1>2. /\ back \in Seq(Item) /\ Len(back) = Len(s) - i
      /\ \A j \in 1..(Len(s) - i) : back[j] = s[i + j]
    BY <1>0, SubSeqProperties, ElementOfSeq
<1>3. t = front \o back
    BY DEF RemoveAt
<1> HIDE DEF front, back, t
<1>4. /\ t \in Seq(Item) /\ Len(t) = Len(s) - 1
      /\ \A j \in 1..Len(t) : t[j] = IF j <= i - 1 THEN front[j] ELSE back[j - (i - 1)]
    BY <1>0, <1>1, <1>2, <1>3, ConcatProperties
<1> DEFINE At(j) == IF j < i THEN j ELSE j + 1
<1>5. ASSUME NEW j \in 1..Len(t)
      PROVE  At(j) \in 1..Len(s) /\ t[j] = s[At(j)]
    <2>1. CASE j < i
        BY <1>0, <1>1, <1>4, <2>1
    <2>2. CASE ~(j < i)
        <3>1. j - (i - 1) \in 1..(Len(s) - i) /\ i + (j - (i - 1)) = j + 1 /\ ~(j <= i - 1)
            BY <1>0, <1>4, <2>2
        <3>2. t[j] = back[j - (i - 1)]
            BY <1>4, <3>1
        <3>3. t[j] = s[j + 1]
            BY <1>2, <3>1, <3>2
        <3> QED  BY <1>0, <1>4, <2>2, <3>3
    <2> QED  BY <2>1, <2>2
<1>6. ASSUME NEW j \in 1..Len(t), NEW k \in 1..Len(t), j < k
      PROVE  At(j) < At(k)
    BY <1>0, <1>4, <1>6
<1>7. ASSUME NEW k \in 1..Len(s), k # i
      PROVE  \E j \in 1..Len(t) : k = At(j)
    <2>1. CASE k < i
        <3>1. k \in 1..Len(t) /\ k = At(k)
            BY <1>0, <1>4, <2>1
        <3> QED  BY <3>1
    <2>2. CASE k > i
        <3>1. k - 1 \in 1..Len(t) /\ k = At(k - 1)
            BY <1>0, <1>4, <2>2
        <3> QED  BY <3>1
    <2> QED  BY <1>0, <1>7, <2>1, <2>2
<1> HIDE DEF At
<1>8. Held(t) \subseteq Held(s)
    BY <1>5 DEF Held
<1>9. Held(s) \subseteq Held(t) \union {s[i]}
    BY <1>5, <1>7 DEF Held
<1>10. Ascending(s) => Ascending(t)
    BY <1>5, <1>6 DEF Ascending
<1> QED  BY <1>4, <1>8, <1>9, <1>10 DEF t

-----------------------------------------------------------------------------
(***************************************************************************)
(* An item is in one of six places, oldest first.  The steps that matter   *)
(* take the head of one place to the end of an earlier one with nothing in  *)
(* between, take an item out, empty a place, or bring a chunk.              *)
(***************************************************************************)
Ordered(a, n) ==
    /\ \A p \in 1..6 : Ascending(a[p]) /\ \A x \in Held(a[p]) : x.id <= n
    /\ \A p, q \in 1..6 : p < q =>
            \A x \in Held(a[p]), y \in Held(a[q]) : x.id < y.id

\* The head of place q is now at the end of place p.
Moved(a, b, p, q) ==
    /\ p < q /\ a[q] # <<>>
    /\ b[p] = Append(a[p], Head(a[q]))
    /\ b[q] = Tail(a[q])
    /\ \A r \in 1..6 : r # p /\ r # q => b[r] = a[r]
    /\ \A r \in 1..6 : p < r /\ r < q => a[r] = <<>>

LEMMA StrictlyBetween ==
    ASSUME NEW p \in 1..6, NEW q \in 1..6, NEW r \in 1..6, p < r, r < q
    PROVE  r # p /\ r # q
OBVIOUS

LEMMA HeadMoves ==
    ASSUME NEW a \in [1..6 -> Seq(Item)], NEW b \in [1..6 -> Seq(Item)], NEW n \in Nat,
           NEW p \in 1..6, NEW q \in 1..6, Moved(a, b, p, q), Ordered(a, n)
    PROVE  Ordered(b, n)
<1>0. /\ p < q /\ a[q] # <<>>
      /\ b[p] = Append(a[p], Head(a[q]))
      /\ b[q] = Tail(a[q])
      /\ \A r \in 1..6 : r # p /\ r # q => b[r] = a[r]
      /\ \A r \in 1..6 : p < r /\ r < q => a[r] = <<>>
    BY DEF Moved
<1> USE <1>0
<1> DEFINE h == Head(a[q])
<1>1. a[p] \in Seq(Item) /\ a[q] \in Seq(Item) /\ a[q] # <<>> /\ h \in Item
      /\ Ascending(a[p]) /\ Ascending(a[q])
    <2>1. a[p] \in Seq(Item) /\ a[q] \in Seq(Item) /\ a[q] # <<>>
        OBVIOUS
    <2> QED  BY <2>1, HeadHeld DEF Ordered
<1>2. /\ Held(a[q]) = Held(b[q]) \union {h} /\ Ascending(b[q])
      /\ \A y \in Held(b[q]) : h.id < y.id
    BY <1>1, HeadHeld
<1>3. \A x \in Held(a[p]) : x.id < h.id
    BY <1>2 DEF Ordered
<1>4. Held(b[p]) = Held(a[p]) \union {h} /\ Ascending(b[p])
    BY <1>1, <1>3, AppendHeld
<1>5. \A r \in 1..6 : p < r /\ r < q => Held(b[r]) = {}
    <2>1. ASSUME NEW r \in 1..6, p < r, r < q
          PROVE  Held(b[r]) = {}
        <3>1. a[r] = <<>>
            BY <2>1
        <3>2. r # p /\ r # q
            BY <2>1, StrictlyBetween
        <3>3. b[r] = <<>>
            BY <3>1, <3>2
        <3> QED  BY <3>3, NothingHeld
    <2> QED  BY <2>1
<1> HIDE DEF h
<1>6. ASSUME NEW r \in 1..6
      PROVE  Ascending(b[r]) /\ \A x \in Held(b[r]) : x.id <= n
    BY <1>2, <1>4 DEF Ordered
<1>7. ASSUME NEW r \in 1..6, NEW s \in 1..6, r < s, NEW x \in Held(b[r]), NEW y \in Held(b[s])
      PROVE  x.id < y.id
    <2>1. x \in Held(a[r]) \/ (r = p /\ x = h)
        BY <1>2, <1>4
    <2>2. y \in Held(a[s]) \/ (s = p /\ y = h)
        BY <1>2, <1>4
    <2>3. CASE x \in Held(a[r]) /\ y \in Held(a[s])
        BY <1>7, <2>3 DEF Ordered
    <2>4. CASE r = p /\ x = h
        <3>1. s >= q
            <4>1. ~(p < s /\ s < q)
                BY <1>5
            <4>2. p < s /\ s \in Int /\ q \in Int
                BY <1>7, <2>4
            <4> QED  BY <4>1, <4>2
        <3>2. CASE s = q
            BY <1>2, <2>4, <3>2
        <3>3. CASE s # q
            <4>1. q < s /\ y \in Held(a[s]) /\ h \in Held(a[q])
                BY <1>2, <2>2, <3>1, <3>3
            <4> QED  BY <2>4, <4>1 DEF Ordered
        <3> QED  BY <3>2, <3>3
    <2>5. CASE s = p /\ y = h
        <3>1. r < q /\ x \in Held(a[r]) /\ h \in Held(a[q])
            BY <1>2, <1>7, <2>1, <2>5
        <3> QED  BY <2>5, <3>1 DEF Ordered
    <2> QED  BY <2>1, <2>2, <2>3, <2>4, <2>5
<1> QED  BY <1>6, <1>7 DEF Ordered

\* Some places hold less than before, in the same order.
LEMMA SomeLeave ==
    ASSUME NEW a, NEW b, NEW n,
           \A r \in 1..6 : /\ Held(b[r]) \subseteq Held(a[r])
                           /\ Ascending(a[r]) => Ascending(b[r]),
           Ordered(a, n)
    PROVE  Ordered(b, n)
<1>1. ASSUME NEW r \in 1..6
      PROVE  Ascending(b[r]) /\ \A x \in Held(b[r]) : x.id <= n
    BY DEF Ordered
<1>2. ASSUME NEW r \in 1..6, NEW s \in 1..6, r < s, NEW x \in Held(b[r]), NEW y \in Held(b[s])
      PROVE  x.id < y.id
    <2>1. x \in Held(a[r]) /\ y \in Held(a[s])
        OBVIOUS
    <2> QED  BY <1>2, <2>1 DEF Ordered
<1> QED  BY <1>1, <1>2 DEF Ordered

\* All of place q moved to the end of place p, the one in front of it.
Joined(a, b, p, q) ==
    /\ q = p + 1
    /\ b[p] = a[p] \o a[q]
    /\ b[q] = <<>>
    /\ \A r \in 1..6 : r # p /\ r # q => b[r] = a[r]

LEMMA NextPlace ==
    ASSUME NEW p \in 1..6, NEW q \in 1..6, q = p + 1
    PROVE  p < q
OBVIOUS

LEMMA AllMove ==
    ASSUME NEW a \in [1..6 -> Seq(Item)], NEW b \in [1..6 -> Seq(Item)], NEW n \in Nat,
           NEW p \in 1..6, NEW q \in 1..6, Joined(a, b, p, q), Ordered(a, n)
    PROVE  Ordered(b, n)
<1>0. /\ q = p + 1
      /\ b[p] = a[p] \o a[q]
      /\ b[q] = <<>>
      /\ \A r \in 1..6 : r # p /\ r # q => b[r] = a[r]
    BY DEF Joined
<1>1. a[p] \in Seq(Item) /\ a[q] \in Seq(Item) /\ p < q
    <2>1. p < q
        BY <1>0, NextPlace
    <2> QED  BY <2>1
<1> USE <1>0
<1>2. \A x \in Held(a[p]), y \in Held(a[q]) : x.id < y.id
    BY <1>1 DEF Ordered
<1>3. Held(b[p]) = Held(a[p]) \union Held(a[q]) /\ Ascending(b[p])
    BY <1>1, <1>2, ConcatHeld DEF Ordered
<1>4. Held(b[q]) = {} /\ Ascending(b[q])
    BY NothingHeld
<1>5. ASSUME NEW r \in 1..6
      PROVE  Ascending(b[r]) /\ \A x \in Held(b[r]) : x.id <= n
    BY <1>3, <1>4 DEF Ordered
<1>6. ASSUME NEW r \in 1..6, NEW s \in 1..6, r < s, NEW x \in Held(b[r]), NEW y \in Held(b[s])
      PROVE  x.id < y.id
    <2>1. r # q /\ s # q
        BY <1>4
    <2>2. r = p => q < s
        BY <1>6, <2>1
    <2>3. s = p => r < q
        BY <1>6
    <2>4. x \in Held(a[r]) \/ (r = p /\ x \in Held(a[q]) /\ q < s)
        <3>1. CASE r = p
            BY <1>3, <2>2, <3>1
        <3>2. CASE r # p
            BY <2>1, <3>2
        <3> QED  BY <3>1, <3>2
    <2>5. y \in Held(a[s]) \/ (s = p /\ y \in Held(a[q]) /\ r < q)
        <3>1. CASE s = p
            BY <1>3, <2>3, <3>1
        <3>2. CASE s # p
            BY <2>1, <3>2
        <3> QED  BY <3>1, <3>2
    <2>6. ~(r = p /\ s = p)
        BY <1>6
    <2> QED  BY <1>6, <2>4, <2>5, <2>6 DEF Ordered
<1> QED  BY <1>5, <1>6 DEF Ordered

\* A chunk is newer than whatever was read before it.
LEMMA ChunkArrives ==
    ASSUME NEW a \in [1..6 -> Seq(Item)], NEW b \in [1..6 -> Seq(Item)],
           NEW n \in Nat, NEW m \in Nat,
           \A r \in 1..6 : r # 6 => b[r] = a[r],
           Len(b[6]) = m,
           \A k \in 1..m : b[6][k].id = n + k,
           Ordered(a, n)
    PROVE  Ordered(b, n + m)
<1>1. Ascending(b[6]) /\ \A y \in Held(b[6]) : n < y.id /\ y.id <= n + m
    <2> DEFINE c == b[6]
    <2>1. Len(c) = m /\ \A k \in 1..m : c[k].id = n + k
        OBVIOUS
    <2> HIDE DEF c
    <2>2. \A k \in 1..m : c[k].id = n + k /\ n < n + k /\ n + k <= n + m
        BY <2>1
    <2>3. \A j, k \in 1..m : j < k => n + j < n + k
        OBVIOUS
    <2>4. Ascending(c) /\ \A y \in Held(c) : n < y.id /\ y.id <= n + m
        BY <2>1, <2>2, <2>3 DEF Ascending, Held
    <2> QED  BY <2>4 DEF c
<1>2. \A r \in 1..6 : r # 6 => \A x \in Held(b[r]) : x.id \in Nat /\ x.id <= n
    BY HeldItems DEF Ordered
<1>3. ASSUME NEW r \in 1..6
      PROVE  Ascending(b[r]) /\ \A x \in Held(b[r]) : x.id <= n + m
    <2>1. CASE r = 6
        BY <1>1, <2>1
    <2>2. CASE r # 6
        <3>1. Ascending(b[r])
            BY <2>2 DEF Ordered
        <3>2. ASSUME NEW x \in Held(b[r])
              PROVE  x.id <= n + m
            <4> DEFINE i == x.id
            <4>1. i \in Nat /\ i <= n
                BY <1>2, <2>2
            <4> HIDE DEF i
            <4>2. i <= n + m
                BY <4>1
            <4> QED  BY <4>2 DEF i
        <3> QED  BY <3>1, <3>2
    <2> QED  BY <2>1, <2>2
<1>4. ASSUME NEW r \in 1..6, NEW s \in 1..6, r < s, NEW x \in Held(b[r]), NEW y \in Held(b[s])
      PROVE  x.id < y.id
    <2>1. r # 6
        BY <1>4
    <2>2. CASE s = 6
        <3> DEFINE i == x.id
                   j == y.id
        <3>1. n < j /\ i \in Nat /\ i <= n
            BY <1>1, <1>2, <1>4, <2>1, <2>2
        <3>2. y \in Item
            BY <1>4, HeldItems
        <3>3. j \in Int
            BY <3>2 DEF Item
        <3> HIDE DEF i, j
        <3>4. i < j
            BY <3>1, <3>3
        <3> QED  BY <3>4 DEF i, j
    <2>3. CASE s # 6
        <3>1. b[r] = a[r] /\ b[s] = a[s]
            BY <2>1, <2>3
        <3> QED  BY <1>4, <3>1 DEF Ordered
    <2> QED  BY <2>2, <2>3
<1> QED  BY <1>3, <1>4 DEF Ordered

-----------------------------------------------------------------------------
\* The six places of a Session, and that a replay, which waits, has no ring.
Places == <<seen, queued, channel, hand, backlog, outbox>>

OrderInv ==
    /\ Ordered(Places, made)
    /\ ~Lossy => backlog = <<>>

LEMMA SixPlaces ==
    ASSUME NEW s1 \in Seq(Item), NEW s2 \in Seq(Item), NEW s3 \in Seq(Item),
           NEW s4 \in Seq(Item), NEW s5 \in Seq(Item), NEW s6 \in Seq(Item)
    PROVE  LET a == <<s1, s2, s3, s4, s5, s6>>
           IN  /\ a \in [1..6 -> Seq(Item)]
               /\ a[1] = s1 /\ a[2] = s2 /\ a[3] = s3 /\ a[4] = s4 /\ a[5] = s5 /\ a[6] = s6
OBVIOUS

LEMMA OrderInitially == Init => OrderInv
<1> SUFFICES ASSUME Init PROVE OrderInv
    OBVIOUS
<1> DEFINE a == <<seen, queued, channel, hand, backlog, outbox>>
<1>1. \A p \in 1..6 : a[p] = <<>>
    BY DEF Init
<1>2. a = Places /\ backlog = <<>>
    BY DEF Places, Init
<1> HIDE DEF a
<1>3. Ordered(a, made)
    BY <1>1, NothingHeld DEF Ordered
<1> QED  BY <1>2, <1>3 DEF OrderInv

LEMMA OrderInductive == TypeOK /\ AccountInv /\ OrderInv /\ [Next]_vars /\ TypeOK' => OrderInv'
<1> SUFFICES ASSUME TypeOK, AccountInv, OrderInv, [Next]_vars, TypeOK' PROVE OrderInv'
    OBVIOUS
<1> DEFINE a == Places
           b == Places'
<1>1. /\ a \in [1..6 -> Seq(Item)]
      /\ a[1] = seen /\ a[2] = queued /\ a[3] = channel
      /\ a[4] = hand /\ a[5] = backlog /\ a[6] = outbox
    BY SixPlaces DEF Places, TypeOK
<1>2. /\ b \in [1..6 -> Seq(Item)]
      /\ b[1] = seen' /\ b[2] = queued' /\ b[3] = channel'
      /\ b[4] = hand' /\ b[5] = backlog' /\ b[6] = outbox'
    BY SixPlaces DEF Places, TypeOK
<1>3. Ordered(a, made) /\ made \in Nat /\ (~Lossy => backlog = <<>>)
    BY DEF OrderInv, TypeOK
<1>4. (Ordered(b, made') /\ (~Lossy' => backlog' = <<>>)) => OrderInv'
    BY DEF OrderInv
<1>5. \A r \in 1..6 : r = 1 \/ r = 2 \/ r = 3 \/ r = 4 \/ r = 5 \/ r = 6
    OBVIOUS
<1>6. /\ acq \in {"open", "top", "flush", "select"} => outbox = <<>> /\ hand = <<>>
      /\ acq = "send" => hand = <<>>
      /\ dec \in {"recv", "exited"} => queued = <<>>
    BY DEF AccountInv
<1> HIDE DEF a, b
<1> USE DEF readVars, queueVars, decVars, shutVars, Lossy
<1>7. CASE UNCHANGED <<kind, made, seen, queued, channel, hand, backlog, outbox>>
    <2>1. \A r \in 1..6 : b[r] = a[r]
        BY <1>1, <1>2, <1>5, <1>7
    <2>2. Ordered(b, made)
        BY <1>3, <2>1, SomeLeave
    <2> QED  BY <1>3, <1>4, <1>7, <2>2
<1>8. CASE FlushItem
    <2>1. /\ backlog # <<>> /\ hand = <<>>
          /\ channel' = Append(channel, Head(backlog)) /\ backlog' = Tail(backlog)
          /\ UNCHANGED <<kind, made, seen, queued, hand, outbox>>
        BY <1>6, <1>8 DEF FlushItem, IsBackedUp
    <2>2. \A r \in 1..6 : r # 3 /\ r # 5 => b[r] = a[r]
        BY <1>1, <1>2, <1>5, <2>1
    <2>3. \A r \in 1..6 : 3 < r /\ r < 5 => a[r] = <<>>
        BY <1>1, <1>5, <2>1
    <2>4. a[5] # <<>> /\ b[3] = Append(a[3], Head(a[5])) /\ b[5] = Tail(a[5])
        BY <1>1, <1>2, <2>1
    <2>moved. Moved(a, b, 3, 5)
        BY <2>2, <2>3, <2>4 DEF Moved
    <2>5. Ordered(b, made)
        BY <1>1, <1>2, <1>3, <2>moved, HeadMoves
    <2> QED  BY <1>3, <1>4, <2>1, <2>5
<1>9. ASSUME NEW restarted \in BOOLEAN, NEW n \in 0..ChunkPackets, ReadChunk(restarted, n)
      PROVE  OrderInv'
    <2> DEFINE c == ChunkItems(restarted, n)
    <2>1. n \in Nat /\ made \in Nat /\ era \in Nat \ {0}
        BY SessionAssumption DEF TypeOK
    <2>2. Len(c) \in Nat /\ \A k \in 1..Len(c) : c[k].id = made + k
        <3>1. Len(c) = (IF restarted THEN n + 1 ELSE n)
            BY <2>1, ChunkTypes
        <3>2. \A k \in 1..(IF restarted THEN n + 1 ELSE n) : c[k].id = made + k
            BY <2>1 DEF ChunkItems
        <3> QED  BY <2>1, <3>1, <3>2
    <2>3. /\ outbox' = c /\ made' = made + Len(c)
          /\ UNCHANGED <<kind, seen, queued, channel, hand, backlog>>
        BY <1>9 DEF ReadChunk
    <2> HIDE DEF c
    <2>4. \A r \in 1..6 : r # 6 => b[r] = a[r]
        BY <1>1, <1>2, <1>5, <2>3
    <2>5. Len(b[6]) = Len(c) /\ \A k \in 1..Len(c) : b[6][k].id = made + k
        BY <1>2, <2>2, <2>3
    <2>6. Ordered(b, made + Len(c))
        BY <1>1, <1>2, <1>3, <2>2, <2>4, <2>5, ChunkArrives
    <2> QED  BY <1>3, <1>4, <2>3, <2>6
<1>10. CASE SendNow
    <2>1. /\ outbox # <<>> /\ hand = <<>> /\ backlog = <<>>
          /\ channel' = Append(channel, Head(outbox)) /\ outbox' = Tail(outbox)
          /\ UNCHANGED <<kind, made, seen, queued, hand, backlog>>
        BY <1>6, <1>10 DEF SendNow, RingEmptied, IsBackedUp
    <2>2. \A r \in 1..6 : r # 3 /\ r # 6 => b[r] = a[r]
        BY <1>1, <1>2, <1>5, <2>1
    <2>3. \A r \in 1..6 : 3 < r /\ r < 6 => a[r] = <<>>
        BY <1>1, <1>5, <2>1
    <2>4. a[6] # <<>> /\ b[3] = Append(a[3], Head(a[6])) /\ b[6] = Tail(a[6])
        BY <1>1, <1>2, <2>1
    <2>moved. Moved(a, b, 3, 6)
        BY <2>2, <2>3, <2>4 DEF Moved
    <2>5. Ordered(b, made)
        BY <1>1, <1>2, <1>3, <2>moved, HeadMoves
    <2> QED  BY <1>3, <1>4, <2>1, <2>5
<1>11. CASE SendToRing
    <2>1. /\ outbox # <<>> /\ outbox' = Tail(outbox) /\ kind # "file"
          /\ Push(Head(outbox))
          /\ UNCHANGED <<kind, made, seen, queued, channel, hand>>
        BY <1>11 DEF SendToRing
    <2>2. outbox \in Seq(Item) /\ backlog \in Seq(Item) /\ Head(outbox) \in Item
        BY <2>1, HeadHeld DEF TypeOK
    <2>3. CASE backlog' = Append(backlog, Head(outbox))
        <3>1. \A r \in 1..6 : r # 5 /\ r # 6 => b[r] = a[r]
            BY <1>1, <1>2, <1>5, <2>1
        <3>2. \A r \in 1..6 : 5 < r /\ r < 6 => a[r] = <<>>
            BY <1>5
        <3>3. a[6] # <<>> /\ b[5] = Append(a[5], Head(a[6])) /\ b[6] = Tail(a[6])
            BY <1>1, <1>2, <2>1, <2>3
        <3>moved. Moved(a, b, 5, 6)
            BY <3>1, <3>2, <3>3 DEF Moved
        <3>4. Ordered(b, made)
            BY <1>1, <1>2, <1>3, <3>moved, HeadMoves
        <3> QED  BY <1>4, <2>1, <3>4
    <2>4. CASE EvictFor(Head(outbox))
        <3>1. PICK k \in OldestPacket(backlog) :
                    backlog' = Append(RemoveAt(backlog, k), Head(outbox))
            BY <2>4 DEF EvictFor
        <3>2. k \in 1..Len(backlog)
            BY <3>1 DEF OldestPacket, PacketPlaces
        <3> DEFINE ring == RemoveAt(backlog, k)
                   c == <<seen, queued, channel, hand, ring, outbox>>
        <3>3. /\ ring \in Seq(Item) /\ Held(ring) \subseteq Held(backlog)
              /\ Ascending(backlog) => Ascending(ring)
              /\ backlog' = Append(ring, Head(outbox))
            BY <2>2, <3>1, <3>2, RemoveHeld
        <3> HIDE DEF ring
        <3>4. /\ c \in [1..6 -> Seq(Item)]
              /\ c[1] = seen /\ c[2] = queued /\ c[3] = channel
              /\ c[4] = hand /\ c[5] = ring /\ c[6] = outbox
            BY <3>3, SixPlaces DEF TypeOK
        <3> HIDE DEF c
        <3>5. \A r \in 1..6 : Held(c[r]) \subseteq Held(a[r]) /\ (Ascending(a[r]) => Ascending(c[r]))
            BY <1>1, <1>5, <3>3, <3>4
        <3>6. Ordered(c, made)
            BY <1>3, <3>5, SomeLeave
        <3>7. \A r \in 1..6 : r # 5 /\ r # 6 => b[r] = c[r]
            BY <1>2, <1>5, <2>1, <3>4
        <3>8. \A r \in 1..6 : 5 < r /\ r < 6 => c[r] = <<>>
            BY <1>5
        <3>9. c[6] # <<>> /\ b[5] = Append(c[5], Head(c[6])) /\ b[6] = Tail(c[6])
            BY <1>2, <2>1, <3>3, <3>4
        <3>moved. Moved(c, b, 5, 6)
            BY <3>7, <3>8, <3>9 DEF Moved
        <3>10. Ordered(b, made)
            BY <3>4, <3>6, <1>2, <1>3, <3>moved, HeadMoves
        <3> QED  BY <1>4, <2>1, <3>10
    <2>5. CASE backlog' = backlog
        <3>1. /\ Held(outbox') \subseteq Held(outbox)
              /\ Ascending(outbox) => Ascending(outbox')
            BY <2>1, <2>2, HeadHeld
        <3>2. \A r \in 1..6 : Held(b[r]) \subseteq Held(a[r]) /\ (Ascending(a[r]) => Ascending(b[r]))
            BY <1>1, <1>2, <1>5, <2>1, <2>5, <3>1
        <3>3. Ordered(b, made)
            BY <1>3, <3>2, SomeLeave
        <3> QED  BY <1>4, <2>1, <3>3
    <2> QED  BY <2>1, <2>3, <2>4, <2>5 DEF Push, RefusePacket
<1>12. CASE SendMustWait
    <2>1. /\ outbox # <<>> /\ hand = <<>> /\ backlog = <<>>
          /\ hand' = <<Head(outbox)>> /\ outbox' = Tail(outbox)
          /\ UNCHANGED <<kind, made, seen, queued, channel, backlog>>
        BY <1>3, <1>6, <1>12 DEF SendMustWait
    <2>2. hand' = Append(hand, Head(outbox))
        BY <2>1
    <2>3. \A r \in 1..6 : r # 4 /\ r # 6 => b[r] = a[r]
        BY <1>1, <1>2, <1>5, <2>1
    <2>4. \A r \in 1..6 : 4 < r /\ r < 6 => a[r] = <<>>
        BY <1>1, <1>5, <2>1
    <2>5. a[6] # <<>> /\ b[4] = Append(a[4], Head(a[6])) /\ b[6] = Tail(a[6])
        BY <1>1, <1>2, <2>1, <2>2
    <2>moved. Moved(a, b, 4, 6)
        BY <2>3, <2>4, <2>5 DEF Moved
    <2>6. Ordered(b, made)
        BY <1>1, <1>2, <1>3, <2>moved, HeadMoves
    <2> QED  BY <1>3, <1>4, <2>1, <2>6
<1>13. CASE WaitRoom \/ DrainRoom
    <2>1. /\ channel' = channel \o hand /\ hand' = <<>>
          /\ UNCHANGED <<kind, made, seen, queued, backlog, outbox>>
        BY <1>13 DEF WaitRoom, DrainRoom
    <2>2. \A r \in 1..6 : r # 3 /\ r # 4 => b[r] = a[r]
        BY <1>1, <1>2, <1>5, <2>1
    <2>3. b[3] = a[3] \o a[4] /\ b[4] = <<>> /\ 4 = 3 + 1
        BY <1>1, <1>2, <2>1
    <2>joined. Joined(a, b, 3, 4)
        BY <2>2, <2>3 DEF Joined
    <2>4. Ordered(b, made)
        BY <1>1, <1>2, <1>3, <2>joined, AllMove
    <2> QED  BY <1>3, <1>4, <2>1, <2>4
<1>14. CASE WaitStop \/ DrainDone \/ SenderDrop \/ DecoderDies
    <2>1. /\ outbox' \in {outbox, <<>>} /\ hand' \in {hand, <<>>} /\ backlog' \in {backlog, <<>>}
          /\ channel' \in {channel, <<>>} /\ queued' \in {queued, <<>>}
          /\ UNCHANGED <<kind, made, seen>>
        BY <1>14 DEF WaitStop, DrainDone, SenderDrop, DecoderDies
    <2>2. \A r \in 1..6 : b[r] = a[r] \/ b[r] = <<>>
        BY <1>1, <1>2, <1>5, <2>1
    <2>3. \A r \in 1..6 : Held(b[r]) \subseteq Held(a[r]) /\ (Ascending(a[r]) => Ascending(b[r]))
        BY <2>2, NothingHeld
    <2>4. Ordered(b, made)
        BY <1>3, <2>3, SomeLeave
    <2> QED  BY <1>3, <1>4, <2>1, <2>4
<1>15. CASE DrainPop
    <2>1. /\ backlog # <<>> /\ hand = <<>>
          /\ hand' = <<Head(backlog)>> /\ backlog' = Tail(backlog)
          /\ UNCHANGED <<kind, made, seen, queued, channel, outbox>>
        BY <1>15 DEF DrainPop, IsBackedUp
    <2>2. hand' = Append(hand, Head(backlog))
        BY <2>1
    <2>3. \A r \in 1..6 : r # 4 /\ r # 5 => b[r] = a[r]
        BY <1>1, <1>2, <1>5, <2>1
    <2>4. \A r \in 1..6 : 4 < r /\ r < 5 => a[r] = <<>>
        BY <1>5
    <2>5. a[5] # <<>> /\ b[4] = Append(a[4], Head(a[5])) /\ b[5] = Tail(a[5])
        BY <1>1, <1>2, <2>1, <2>2
    <2>moved. Moved(a, b, 4, 5)
        BY <2>3, <2>4, <2>5 DEF Moved
    <2>6. Ordered(b, made)
        BY <1>1, <1>2, <1>3, <2>moved, HeadMoves
    <2> QED  BY <1>3, <1>4, <2>1, <2>6
<1>16. CASE Recv \/ TryRecv
    <2>1. /\ channel # <<>> /\ channel' = Tail(channel)
          /\ UNCHANGED <<kind, made, seen, hand, backlog, outbox>>
        BY <1>16 DEF Recv, TryRecv
    <2>2. queued' = Append(queued, Head(channel))
        <3>1. CASE Recv
            <4>1. queued = <<>> /\ queued' = <<Head(channel)>>
                BY <1>6, <3>1 DEF Recv
            <4> QED  BY <4>1
        <3>2. CASE TryRecv
            BY <3>2 DEF TryRecv
        <3> QED  BY <1>16, <3>1, <3>2
    <2>3. \A r \in 1..6 : r # 2 /\ r # 3 => b[r] = a[r]
        BY <1>1, <1>2, <1>5, <2>1
    <2>4. \A r \in 1..6 : 2 < r /\ r < 3 => a[r] = <<>>
        BY <1>5
    <2>5. a[3] # <<>> /\ b[2] = Append(a[2], Head(a[3])) /\ b[3] = Tail(a[3])
        BY <1>1, <1>2, <2>1, <2>2
    <2>moved. Moved(a, b, 2, 3)
        BY <2>3, <2>4, <2>5 DEF Moved
    <2>6. Ordered(b, made)
        BY <1>1, <1>2, <1>3, <2>moved, HeadMoves
    <2> QED  BY <1>3, <1>4, <2>1, <2>6
<1>17. CASE DecodeRestart \/ DecodePacket
    <2>1. /\ queued # <<>> /\ queued' = Tail(queued) /\ seen' = Append(seen, Head(queued))
          /\ UNCHANGED <<kind, made, channel, hand, backlog, outbox>>
        BY <1>17 DEF DecodeRestart, DecodePacket
    <2>2. \A r \in 1..6 : r # 1 /\ r # 2 => b[r] = a[r]
        BY <1>1, <1>2, <1>5, <2>1
    <2>3. \A r \in 1..6 : 1 < r /\ r < 2 => a[r] = <<>>
        BY <1>5
    <2>4. a[2] # <<>> /\ b[1] = Append(a[1], Head(a[2])) /\ b[2] = Tail(a[2])
        BY <1>1, <1>2, <2>1
    <2>moved. Moved(a, b, 1, 2)
        BY <2>2, <2>3, <2>4 DEF Moved
    <2>5. Ordered(b, made)
        BY <1>1, <1>2, <1>3, <2>moved, HeadMoves
    <2> QED  BY <1>3, <1>4, <2>1, <2>5
<1>18. ASSUME \/ Connect \/ Refused \/ OpenStopped \/ StopSeen \/ BeginFlush \/ FlushDone \/ Gone
              \/ SelectStop \/ SelectRoom \/ SelectClosed \/ SourceEnds \/ ChunkDone
              \/ \E transient \in BOOLEAN : ReadFails(transient)
       PROVE  UNCHANGED <<kind, made, seen, queued, channel, hand, backlog, outbox>>
    BY <1>18 DEF Connect, Refused, OpenStopped, StopSeen, BeginFlush, FlushDone, Gone, SelectStop,
                 SelectRoom, SelectClosed, SourceEnds, ChunkDone, ReadFails
<1>19. ASSUME \/ GuardDrop \/ Cancelled \/ BatchDrained \/ BatchDone \/ DecodeEnds
              \/ ShutdownOutcome \/ ShutdownRunning \/ ShutdownStop \/ UNCHANGED vars
       PROVE  UNCHANGED <<kind, made, seen, queued, channel, hand, backlog, outbox>>
    BY <1>19 DEF GuardDrop, Cancelled, BatchDrained, BatchDone, DecodeEnds, ShutdownOutcome,
                 ShutdownRunning, ShutdownStop, vars
<1> QED
    BY <1>7, <1>8, <1>9, <1>10, <1>11, <1>12, <1>13, <1>14, <1>15, <1>16, <1>17, <1>18, <1>19
       DEF Next, Acquire, Environment, Decode, ShutdownContinues

LEMMA OrderAlways == Spec => []OrderInv
BY OrderInitially, OrderInductive, TypeCorrect, AccountInductive, PTL DEF Spec

\* Nothing overtakes anything on the way from the link to the store, whatever
\* was dropped, waited for or given up in between.
THEOREM DeliveredInOrder == Spec => []DeliveryInOrder
<1>1. TypeOK /\ OrderInv => DeliveryInOrder
    <2> SUFFICES ASSUME TypeOK, OrderInv PROVE DeliveryInOrder
        OBVIOUS
    <2> DEFINE a == Places
    <2>1. /\ a \in [1..6 -> Seq(Item)]
          /\ a[1] = seen /\ a[2] = queued /\ a[3] = channel
          /\ a[4] = hand /\ a[5] = backlog /\ a[6] = outbox
        BY SixPlaces DEF Places, TypeOK
    <2>2. Ordered(a, made)
        BY DEF OrderInv
    <2> HIDE DEF a
    <2>3. /\ seen \in Seq(Item) /\ queued \in Seq(Item) /\ channel \in Seq(Item)
          /\ hand \in Seq(Item) /\ backlog \in Seq(Item) /\ outbox \in Seq(Item)
        BY DEF TypeOK
    <2>4. \A p, q \in 1..6 : p < q => \A x \in Held(a[p]), y \in Held(a[q]) : x.id < y.id
        BY <2>2 DEF Ordered
    <2>5. /\ Ascending(seen) /\ Ascending(queued) /\ Ascending(channel)
          /\ Ascending(hand) /\ Ascending(backlog) /\ Ascending(outbox)
        BY <2>1, <2>2 DEF Ordered
    <2> DEFINE s3 == queued \o channel
               s4 == s3 \o hand
               s5 == s4 \o backlog
               s6 == s5 \o outbox
    <2>6. /\ s3 \in Seq(Item) /\ Held(s3) = Held(queued) \union Held(channel)
          /\ Ascending(s3)
        <3>1. \A x \in Held(queued), y \in Held(channel) : x.id < y.id
            BY <2>1, <2>4
        <3> QED  BY <2>3, <2>5, <3>1, ConcatHeld
    <2> HIDE DEF s3
    <2>7. /\ s4 \in Seq(Item) /\ Held(s4) = Held(s3) \union Held(hand)
          /\ Ascending(s4)
        <3>1. \A x \in Held(s3), y \in Held(hand) : x.id < y.id
            BY <2>1, <2>4, <2>6
        <3> QED  BY <2>3, <2>5, <2>6, <3>1, ConcatHeld
    <2> HIDE DEF s4
    <2>8. /\ s5 \in Seq(Item) /\ Held(s5) = Held(s4) \union Held(backlog)
          /\ Ascending(s5)
        <3>1. \A x \in Held(s4), y \in Held(backlog) : x.id < y.id
            BY <2>1, <2>4, <2>6, <2>7
        <3> QED  BY <2>3, <2>5, <2>7, <3>1, ConcatHeld
    <2> HIDE DEF s5
    <2>9. /\ s6 \in Seq(Item) /\ Held(s6) = Held(s5) \union Held(outbox)
          /\ Ascending(s6)
        <3>1. \A x \in Held(s5), y \in Held(outbox) : x.id < y.id
            BY <2>1, <2>4, <2>6, <2>7, <2>8
        <3> QED  BY <2>3, <2>5, <2>8, <3>1, ConcatHeld
    <2> HIDE DEF s6
    <2>10. Ascending(seen \o s6)
        <3>1. \A x \in Held(seen), y \in Held(s6) : x.id < y.id
            BY <2>1, <2>4, <2>6, <2>7, <2>8, <2>9
        <3> QED  BY <2>3, <2>5, <2>9, <3>1, ConcatHeld
    <2>11. Line = s6
        BY DEF Line, s3, s4, s5, s6
    <2> QED  BY <2>10, <2>11 DEF DeliveryInOrder, Ascending
<1> QED  BY <1>1, OrderAlways, TypeCorrect, PTL

-----------------------------------------------------------------------------
(***************************************************************************)
(* The markers between the byte streams: whatever is dropped, a marker      *)
(* still stands in front of every stream the decoder has not met.           *)
(***************************************************************************)
\* What the decoder has still to handle, and what the acquisition task still
\* holds behind it; the task's own items are lost once it is ending.
Ahead == Held(queued) \union Held(channel)
Behind == Held(hand) \union Held(backlog) \union Held(outbox)
Waiting == Ahead \union (IF Over THEN {} ELSE Behind)

\* The next packet of the stream being read.
Coming == [id |-> made + 1, era |-> era, mark |-> FALSE]

\* In front of y there is a marker of its stream, after the count the decoder
\* holds and after every waiting item of another stream.
Introduced(t, y, T) ==
    /\ t \notin {0, y.era} => \E m \in T : m.mark /\ m.era = y.era /\ m.id < y.id
    /\ \A x \in T : x.id < y.id /\ x.era # y.era =>
            \E m \in T : m.mark /\ m.era = y.era /\ x.id < m.id /\ m.id < y.id

Opened(t, T) == \A y \in T : ~y.mark => Introduced(t, y, T)

MarksInv ==
    dec # "dead" =>
        /\ Opened(tracked, Waiting)
        /\ ~Over => Introduced(tracked, Coming, Waiting)

\* Losing items that are not markers in front of y loses nothing y needs.
LEMMA MarksKept ==
    ASSUME NEW t, NEW y, NEW T, NEW U, U \subseteq T,
           \A m \in T : m.mark /\ m.id < y.id => m \in U,
           Introduced(t, y, T)
    PROVE  Introduced(t, y, U)
BY DEF Introduced

\* The decoder handles the oldest item h.
LEMMA OldestHandled ==
    ASSUME NEW t, NEW h, NEW U, NEW y,
           h.id \in Nat, \A u \in U : u.id \in Nat /\ h.id < u.id,
           h.id < y.id, Introduced(t, y, U \union {h})
    PROVE  /\ Introduced(0, y, U)
           /\ ~h.mark => Introduced(h.era, y, U)
<1>1. ASSUME NEW x \in U, x.id < y.id, x.era # y.era
      PROVE  \E m \in U : m.mark /\ m.era = y.era /\ x.id < m.id /\ m.id < y.id
    <2>1. PICK m \in U \union {h} : m.mark /\ m.era = y.era /\ x.id < m.id /\ m.id < y.id
        BY <1>1 DEF Introduced
    <2>2. m # h
        BY <1>1, <2>1
    <2> QED  BY <2>1, <2>2
<1>2. ASSUME ~h.mark, h.era # y.era
      PROVE  \E m \in U : m.mark /\ m.era = y.era /\ m.id < y.id
    <2>1. PICK m \in U \union {h} : m.mark /\ m.era = y.era /\ h.id < m.id /\ m.id < y.id
        BY <1>2 DEF Introduced
    <2>2. m # h
        BY <2>1
    <2> QED  BY <2>1, <2>2
<1> QED  BY <1>1, <1>2 DEF Introduced

\* A chunk brings items younger than everything that waits.  Without a restart
\* they are of the stream that was coming.
LEMMA SameStreamArrives ==
    ASSUME NEW t, NEW T, NEW C, NEW n \in Nat, NEW e,
           \A x \in T : x.id \in Nat /\ x.id <= n,
           \A c \in C : c.id \in Nat /\ n < c.id /\ c.era = e,
           Introduced(t, [id |-> n + 1, era |-> e, mark |-> FALSE], T)
    PROVE  /\ \A y \in T : Introduced(t, y, T) => Introduced(t, y, T \union C)
           /\ \A k \in Nat : k > n =>
                 Introduced(t, [id |-> k, era |-> e, mark |-> FALSE], T \union C)
           /\ \A y \in C : Introduced(t, y, T \union C)
<1> DEFINE z == [id |-> n + 1, era |-> e, mark |-> FALSE]
<1>1. ASSUME NEW y \in T, Introduced(t, y, T)
      PROVE  Introduced(t, y, T \union C)
    <2>1. \A x \in T \union C : x.id < y.id => x \in T
        OBVIOUS
    <2> QED  BY <1>1, <2>1 DEF Introduced
<1>2. ASSUME NEW y, y.id \in Nat, y.id > n, y.era = e
      PROVE  Introduced(t, y, T \union C)
    <2>1. \A x \in T \union C : x.era # y.era => x \in T
        BY <1>2
    <2>2. z.id = n + 1 /\ z.era = y.era /\ n + 1 <= y.id
        BY <1>2
    <2>3. \A x \in T : x.id < z.id
        OBVIOUS
    <2>4. \A m \in T : m.id < y.id
        BY <1>2
    <2>5. t \notin {0, y.era} => \E m \in T : m.mark /\ m.era = y.era
        BY <2>2 DEF Introduced
    <2>6. \A x \in T : x.era # y.era => \E m \in T : m.mark /\ m.era = y.era /\ x.id < m.id
        BY <2>2, <2>3 DEF Introduced
    <2> HIDE DEF z
    <2> QED  BY <2>1, <2>4, <2>5, <2>6 DEF Introduced
<1>3. ASSUME NEW k \in Nat, k > n
      PROVE  Introduced(t, [id |-> k, era |-> e, mark |-> FALSE], T \union C)
    BY <1>2, <1>3
<1> QED  BY <1>1, <1>2, <1>3

\* With one, the marker comes first and opens the stream of the others.
LEMMA NextStreamArrives ==
    ASSUME NEW t, NEW T, NEW C, NEW n \in Nat, NEW e, NEW m \in C,
           \A x \in T : x.id \in Nat /\ x.id <= n,
           \A c \in C : c.id \in Nat /\ n < c.id /\ c.era = e,
           m.mark, m.id = n + 1, \A c \in C : c.mark \/ n + 1 < c.id
    PROVE  /\ \A y \in T : Introduced(t, y, T) => Introduced(t, y, T \union C)
           /\ \A k \in Nat : k > n + 1 =>
                 Introduced(t, [id |-> k, era |-> e, mark |-> FALSE], T \union C)
           /\ \A y \in C : ~y.mark => Introduced(t, y, T \union C)
<1>1. ASSUME NEW y \in T, Introduced(t, y, T)
      PROVE  Introduced(t, y, T \union C)
    <2>1. \A x \in T \union C : x.id < y.id => x \in T
        OBVIOUS
    <2> QED  BY <1>1, <2>1 DEF Introduced
<1>2. ASSUME NEW y, y.id \in Nat, y.id > n + 1, y.era = e
      PROVE  Introduced(t, y, T \union C)
    <2>1. \A x \in T \union C : x.era # y.era => x.id < m.id
        BY <1>2
    <2>2. m \in T \union C /\ m.mark /\ m.era = y.era /\ m.id < y.id
        BY <1>2
    <2> QED  BY <2>1, <2>2 DEF Introduced
<1>3. ASSUME NEW k \in Nat, k > n + 1
      PROVE  Introduced(t, [id |-> k, era |-> e, mark |-> FALSE], T \union C)
    BY <1>2, <1>3
<1> QED  BY <1>1, <1>2, <1>3

-----------------------------------------------------------------------------
\* What the order of the places says of the items that wait.
LEMMA Positions ==
    ASSUME TypeOK, OrderInv
    PROVE  /\ \A x \in Ahead \union Behind : x.id \in Nat /\ x.id <= made
           /\ \A x \in Ahead, y \in Behind : x.id < y.id
           /\ queued # <<>> => \A x \in Held(Tail(queued)) \union Held(channel) \union Behind :
                                    Head(queued).id < x.id
<1> DEFINE a == Places
<1>1. /\ a \in [1..6 -> Seq(Item)]
      /\ a[1] = seen /\ a[2] = queued /\ a[3] = channel
      /\ a[4] = hand /\ a[5] = backlog /\ a[6] = outbox
    BY SixPlaces DEF Places, TypeOK
<1>2. Ordered(a, made)
    BY DEF OrderInv
<1> HIDE DEF a
<1>3. \A x \in Ahead \union Behind : x.id <= made
    BY <1>1, <1>2 DEF Ordered, Ahead, Behind
<1>4. \A x \in Ahead \union Behind : x.id \in Nat
    <2>1. /\ queued \in Seq(Item) /\ channel \in Seq(Item) /\ hand \in Seq(Item)
          /\ backlog \in Seq(Item) /\ outbox \in Seq(Item)
        BY DEF TypeOK
    <2> QED  BY <2>1, HeldItems DEF Ahead, Behind
<1>5. \A p, q \in 1..6 : p < q => \A x \in Held(a[p]), y \in Held(a[q]) : x.id < y.id
    BY <1>2 DEF Ordered
<1>6. \A x \in Held(queued), y \in Held(channel) \union Behind : x.id < y.id
    BY <1>1, <1>5 DEF Behind
<1>7. \A x \in Held(channel), y \in Behind : x.id < y.id
    BY <1>1, <1>5 DEF Behind
<1>8. ASSUME queued # <<>>
      PROVE  \A x \in Held(Tail(queued)) \union Held(channel) \union Behind : Head(queued).id < x.id
    <2>1. queued \in Seq(Item) /\ Ascending(queued)
        BY <1>1, <1>2 DEF Ordered, TypeOK
    <2>2. /\ Head(queued) \in Held(queued)
          /\ \A x \in Held(Tail(queued)) : Head(queued).id < x.id
        BY <1>8, <2>1, HeadHeld
    <2> QED  BY <1>6, <2>2
<1> QED  BY <1>3, <1>4, <1>6, <1>7, <1>8 DEF Ahead

\* The first of one place goes to the end of another.
LEMMA HeadGoesOn ==
    ASSUME NEW s \in Seq(Item), NEW t \in Seq(Item), t # <<>>
    PROVE  Held(Append(s, Head(t))) \union Held(Tail(t)) = Held(s) \union Held(t)
<1>1. Head(t) \in Item /\ Held(t) = Held(Tail(t)) \union {Head(t)}
    BY HeadHeld
<1> QED  BY <1>1, AppendHeld

\* A step that changes neither what waits nor what the decoder remembers.
LEMMA NothingChanges ==
    ASSUME MarksInv, Waiting' = Waiting, UNCHANGED <<tracked, made, era>>,
           dec' # "dead" => dec # "dead", ~Over' => ~Over
    PROVE  MarksInv'
BY DEF MarksInv, Coming

\* The acquisition task ends, and what it holds is lost.
LEMMA TaskEnds ==
    ASSUME TypeOK, OrderInv, MarksInv, Over', Ahead' = Ahead, UNCHANGED tracked,
           dec' # "dead" => dec # "dead"
    PROVE  MarksInv'
<1>1. Waiting' = Ahead
    BY DEF Waiting
<1>2. ASSUME dec # "dead", NEW y \in Ahead, ~y.mark
      PROVE  Introduced(tracked, y, Ahead)
    <2>1. Ahead \subseteq Waiting /\ Waiting \subseteq Ahead \union Behind
        BY DEF Waiting
    <2>2. Introduced(tracked, y, Waiting)
        BY <1>2, <2>1 DEF MarksInv, Opened
    <2>3. ASSUME NEW m \in Waiting, m.id < y.id
          PROVE  m \in Ahead
        <3>1. m.id \in Nat /\ y.id \in Nat
            BY <2>1, Positions
        <3>2. m \in Behind => y.id < m.id
            BY Positions
        <3> QED  BY <2>1, <2>3, <3>1, <3>2
    <2> QED  BY <2>1, <2>2, <2>3, MarksKept
<1> QED  BY <1>1, <1>2 DEF MarksInv, Opened

LEMMA MarksInductive ==
    TypeOK /\ AccountInv /\ OrderInv /\ MarksInv /\ [Next]_vars /\ TypeOK' => MarksInv'
<1> SUFFICES ASSUME TypeOK, AccountInv, OrderInv, MarksInv, [Next]_vars, TypeOK' PROVE MarksInv'
    OBVIOUS
<1>1. /\ queued \in Seq(Item) /\ channel \in Seq(Item) /\ hand \in Seq(Item)
      /\ backlog \in Seq(Item) /\ outbox \in Seq(Item)
    BY DEF TypeOK
<1>2. /\ acq \in {"open", "top", "flush", "select"} => outbox = <<>> /\ hand = <<>>
      /\ acq = "send" => hand = <<>>
      /\ dec \in {"recv", "exited"} => queued = <<>>
    BY DEF AccountInv
<1>3. Held(<<>>) = {}
    BY NothingHeld
<1> USE DEF readVars, queueVars, decVars, shutVars
<1>4. CASE /\ UNCHANGED <<queued, channel, hand, backlog, outbox, tracked, made, era, acq>>
           /\ dec' # "dead" => dec # "dead"
    <2>1. Waiting' = Waiting /\ Over' = Over
        BY <1>4 DEF Waiting, Ahead, Behind, Over
    <2> QED  BY <1>4, <2>1, NothingChanges
<1>5. CASE /\ UNCHANGED <<queued, channel, hand, backlog, outbox, tracked, made, era, dec>>
           /\ ~Over /\ ~Over'
    <2>1. Waiting' = Waiting
        BY <1>5 DEF Waiting, Ahead, Behind
    <2> QED  BY <1>5, <2>1, NothingChanges
<1>6. CASE Over' /\ UNCHANGED <<queued, channel, tracked, dec>>
    <2>1. Ahead' = Ahead
        BY <1>6 DEF Ahead
    <2> QED  BY <1>6, <2>1, TaskEnds
<1>7. CASE FlushItem
    <2>1. /\ backlog # <<>> /\ ~Over /\ ~Over'
          /\ channel' = Append(channel, Head(backlog)) /\ backlog' = Tail(backlog)
          /\ UNCHANGED <<queued, hand, outbox, tracked, made, era, dec>>
        BY <1>7 DEF FlushItem, IsBackedUp, Over
    <2>2. Held(channel') \union Held(backlog') = Held(channel) \union Held(backlog)
        BY <1>1, <2>1, HeadGoesOn
    <2>3. Waiting' = Waiting
        BY <2>1, <2>2 DEF Waiting, Ahead, Behind
    <2> QED  BY <2>1, <2>3, NothingChanges
<1>8. CASE SendNow
    <2>1. /\ outbox # <<>> /\ ~Over /\ ~Over'
          /\ channel' = Append(channel, Head(outbox)) /\ outbox' = Tail(outbox)
          /\ UNCHANGED <<queued, hand, backlog, tracked, made, era, dec>>
        BY <1>8 DEF SendNow, Over
    <2>2. Held(channel') \union Held(outbox') = Held(channel) \union Held(outbox)
        BY <1>1, <2>1, HeadGoesOn
    <2>3. Waiting' = Waiting
        BY <2>1, <2>2 DEF Waiting, Ahead, Behind
    <2> QED  BY <2>1, <2>3, NothingChanges
<1>9. CASE SendMustWait
    <2>1. /\ outbox # <<>> /\ hand = <<>> /\ ~Over /\ ~Over'
          /\ hand' = <<Head(outbox)>> /\ outbox' = Tail(outbox)
          /\ UNCHANGED <<queued, channel, backlog, tracked, made, era, dec>>
        BY <1>2, <1>9 DEF SendMustWait, Over
    <2>2. hand' = Append(hand, Head(outbox))
        BY <2>1
    <2>3. Held(hand') \union Held(outbox') = Held(hand) \union Held(outbox)
        BY <1>1, <2>1, <2>2, HeadGoesOn
    <2>4. Waiting' = Waiting
        BY <2>1, <2>3 DEF Waiting, Ahead, Behind
    <2> QED  BY <2>1, <2>4, NothingChanges
<1>10. CASE DrainPop
    <2>1. /\ backlog # <<>> /\ hand = <<>> /\ ~Over /\ ~Over'
          /\ hand' = <<Head(backlog)>> /\ backlog' = Tail(backlog)
          /\ UNCHANGED <<queued, channel, outbox, tracked, made, era, dec>>
        BY <1>10 DEF DrainPop, IsBackedUp, Over
    <2>2. hand' = Append(hand, Head(backlog))
        BY <2>1
    <2>3. Held(hand') \union Held(backlog') = Held(hand) \union Held(backlog)
        BY <1>1, <2>1, <2>2, HeadGoesOn
    <2>4. Waiting' = Waiting
        BY <2>1, <2>3 DEF Waiting, Ahead, Behind
    <2> QED  BY <2>1, <2>4, NothingChanges
<1>11. CASE WaitRoom \/ DrainRoom
    <2>1. /\ channel' = channel \o hand /\ hand' = <<>> /\ ~Over /\ ~Over'
          /\ UNCHANGED <<queued, backlog, outbox, tracked, made, era, dec>>
        BY <1>11 DEF WaitRoom, DrainRoom, Over
    <2>2. Held(channel') \union Held(hand') = Held(channel) \union Held(hand)
        BY <1>1, <1>3, <2>1, ConcatHeld
    <2>3. Waiting' = Waiting
        BY <2>1, <2>2 DEF Waiting, Ahead, Behind
    <2> QED  BY <2>1, <2>3, NothingChanges
<1>12. CASE Recv \/ TryRecv
    <2>1. /\ channel # <<>> /\ channel' = Tail(channel)
          /\ UNCHANGED <<hand, backlog, outbox, tracked, made, era, acq>>
          /\ dec # "dead"
        BY <1>12 DEF Recv, TryRecv
    <2>2. queued' = Append(queued, Head(channel))
        <3>1. CASE Recv
            <4>1. queued = <<>> /\ queued' = <<Head(channel)>>
                BY <1>2, <3>1 DEF Recv
            <4> QED  BY <4>1
        <3>2. CASE TryRecv
            BY <3>2 DEF TryRecv
        <3> QED  BY <1>12, <3>1, <3>2
    <2>3. Held(queued') \union Held(channel') = Held(queued) \union Held(channel)
        BY <1>1, <2>1, <2>2, HeadGoesOn
    <2>4. Waiting' = Waiting /\ Over' = Over
        BY <2>1, <2>3 DEF Waiting, Ahead, Behind, Over
    <2> QED  BY <2>1, <2>4, NothingChanges
<1>13. CASE DecoderDies
    BY <1>13 DEF DecoderDies, MarksInv
<1>14. CASE DecodeRestart \/ DecodePacket
    <2> DEFINE h == Head(queued)
               U == Held(Tail(queued)) \union Held(channel) \union (IF Over THEN {} ELSE Behind)
    <2>1. /\ queued # <<>> /\ queued' = Tail(queued) /\ dec = "decode"
          /\ tracked' = (IF h.mark THEN 0 ELSE h.era)
          /\ UNCHANGED <<channel, hand, backlog, outbox, made, era, acq, dec>>
        BY <1>14 DEF DecodeRestart, DecodePacket, CountsReset
    <2>2. Held(queued) = Held(Tail(queued)) \union {h} /\ h \in Held(queued)
        BY <1>1, <2>1, HeadHeld
    <2>3. Waiting = U \union {h} /\ Waiting' = U /\ Over' = Over /\ Coming' = Coming
        BY <2>1, <2>2 DEF Waiting, Ahead, Behind, Over, Coming
    <2>4. h.id \in Nat /\ h.id <= made /\ \A u \in U : u.id \in Nat /\ h.id < u.id
        <3>1. U \subseteq Held(Tail(queued)) \union Held(channel) \union Behind
            OBVIOUS
        <3>2. h \in Ahead /\ U \subseteq Ahead \union Behind
            BY <2>2 DEF Ahead
        <3> HIDE DEF U, h
        <3> QED  BY <2>1, <3>1, <3>2, Positions DEF h
    <2> HIDE DEF U, h
    <2>5. ASSUME NEW y, h.id < y.id, Introduced(tracked, y, U \union {h})
          PROVE  Introduced(tracked', y, U)
        BY <2>1, <2>4, <2>5, OldestHandled
    <2>6. \A y \in U : ~y.mark => Introduced(tracked', y, U)
        BY <2>1, <2>3, <2>4, <2>5 DEF MarksInv, Opened
    <2>7. ~Over => Introduced(tracked', Coming, U)
        <3>1. Coming.id = made + 1 /\ made \in Nat
            BY DEF Coming, TypeOK
        <3>2. h.id < Coming.id
            BY <2>4, <3>1
        <3> QED  BY <2>1, <2>3, <2>5, <3>2 DEF MarksInv
    <2> QED  BY <2>1, <2>3, <2>6, <2>7 DEF MarksInv, Opened
<1>15. CASE SendToRing
    <2>1. /\ outbox # <<>> /\ outbox' = Tail(outbox) /\ ~Over /\ ~Over'
          /\ Push(Head(outbox))
          /\ UNCHANGED <<queued, channel, hand, tracked, made, era, dec>>
        BY <1>15 DEF SendToRing, Over
    <2>2. /\ Head(outbox) \in Item /\ outbox' \in Seq(Item)
          /\ Held(outbox) = Held(outbox') \union {Head(outbox)}
        BY <1>1, <2>1, HeadHeld
    <2>3. /\ Held(backlog') \union Held(outbox') \subseteq Held(backlog) \union Held(outbox)
          /\ \A m \in Held(backlog) \union Held(outbox) :
                m.mark => m \in Held(backlog') \union Held(outbox')
        <3>1. CASE backlog' = Append(backlog, Head(outbox))
            <4>1. Held(backlog') = Held(backlog) \union {Head(outbox)}
                BY <1>1, <2>2, <3>1, AppendHeld
            <4> QED  BY <2>2, <4>1
        <3>2. CASE EvictFor(Head(outbox))
            <4>1. PICK k \in OldestPacket(backlog) :
                        backlog' = Append(RemoveAt(backlog, k), Head(outbox))
                BY <3>2 DEF EvictFor
            <4>2. k \in 1..Len(backlog) /\ ~backlog[k].mark
                BY <4>1 DEF OldestPacket, PacketPlaces
            <4> DEFINE ring == RemoveAt(backlog, k)
            <4>3. /\ ring \in Seq(Item) /\ Held(ring) \subseteq Held(backlog)
                  /\ Held(backlog) \subseteq Held(ring) \union {backlog[k]}
                  /\ backlog' = Append(ring, Head(outbox))
                BY <1>1, <4>1, <4>2, RemoveHeld
            <4> HIDE DEF ring
            <4>4. Held(backlog') = Held(ring) \union {Head(outbox)}
                BY <2>2, <4>3, AppendHeld
            <4> QED  BY <2>2, <4>2, <4>3, <4>4
        <3>3. CASE RefusePacket(Head(outbox))
            BY <2>2, <3>3 DEF RefusePacket
        <3> QED  BY <2>1, <3>1, <3>2, <3>3 DEF Push
    <2>4. /\ Waiting' \subseteq Waiting
          /\ \A m \in Waiting : m.mark => m \in Waiting'
        BY <2>1, <2>3 DEF Waiting, Ahead, Behind
    <2>5. \A y : Introduced(tracked, y, Waiting) => Introduced(tracked, y, Waiting')
        BY <2>4, MarksKept
    <2> QED  BY <2>1, <2>4, <2>5 DEF MarksInv, Opened, Coming
<1>16. ASSUME NEW restarted \in BOOLEAN, NEW n \in 0..ChunkPackets, ReadChunk(restarted, n)
       PROVE  MarksInv'
    <2> DEFINE c == ChunkItems(restarted, n)
               size == IF restarted THEN n + 1 ELSE n
               next == IF restarted THEN era + 1 ELSE era
               C == Held(c)
    <2>1. n \in Nat /\ made \in Nat /\ era \in Nat \ {0} /\ size \in Nat
        BY SessionAssumption DEF TypeOK
    <2>2. /\ Len(c) = size
          /\ \A k \in 1..size : c[k] = [id |-> made + k, era |-> next,
                                        mark |-> restarted /\ made + k = made + 1]
        <3>1. Len(c) = size
            BY <2>1, ChunkTypes
        <3> QED  BY <2>1, <3>1 DEF ChunkItems
    <2>3. /\ outbox' = c /\ made' = made + size /\ era' = next
          /\ outbox = <<>> /\ hand = <<>> /\ ~Over /\ ~Over'
          /\ UNCHANGED <<queued, channel, hand, backlog, tracked, dec>>
        BY <1>2, <1>16, <2>2 DEF ReadChunk, CanRead, Over
    <2>4. Waiting' = Waiting \union C
        <3> HIDE DEF c
        <3> QED  BY <1>3, <2>3 DEF Waiting, Ahead, Behind
    <2>5. \A x \in Waiting : x.id \in Nat /\ x.id <= made
        BY Positions DEF Waiting
    <2> HIDE DEF c, size, next
    <2>6. \A y \in C : /\ y.id \in Nat /\ made < y.id /\ y.era = next
                       /\ y.mark => restarted
                       /\ restarted => y.mark \/ made + 1 < y.id
        BY <2>1, <2>2 DEF Held
    <2> HIDE DEF C
    <2>7. CASE dec = "dead"
        BY <2>3, <2>7 DEF MarksInv
    <2>8. CASE dec # "dead" /\ ~restarted
        <3>1. Introduced(tracked, [id |-> made + 1, era |-> next, mark |-> FALSE], Waiting)
            BY <2>3, <2>8 DEF MarksInv, Coming, next
        <3>2. /\ \A y \in Waiting : Introduced(tracked, y, Waiting) => Introduced(tracked, y, Waiting')
              /\ \A k \in Nat : k > made =>
                    Introduced(tracked, [id |-> k, era |-> next, mark |-> FALSE], Waiting')
              /\ \A y \in C : Introduced(tracked, y, Waiting')
            BY <2>1, <2>4, <2>5, <2>6, <3>1, SameStreamArrives
        <3>3. Introduced(tracked, Coming', Waiting')
            <4>1. made' + 1 \in Nat /\ made' + 1 > made
                BY <2>1, <2>3
            <4> QED  BY <2>3, <3>2, <4>1 DEF Coming
        <3>4. Opened(tracked, Waiting')
            BY <2>4, <2>8, <3>2 DEF MarksInv, Opened
        <3> QED  BY <2>3, <3>3, <3>4 DEF MarksInv
    <2>9. CASE dec # "dead" /\ restarted
        <3>1. size = n + 1 /\ 1 \in 1..size
            BY <2>1, <2>9 DEF size
        <3>2. PICK m \in C : m.mark /\ m.id = made + 1
            <4>1. c[1].mark /\ c[1].id = made + 1
                <5>1. c[1] = [id |-> made + 1, era |-> next,
                              mark |-> restarted /\ made + 1 = made + 1]
                    BY <2>2, <3>1
                <5>2. c[1].id = made + 1 /\ c[1].mark = (restarted /\ made + 1 = made + 1)
                    BY <5>1
                <5> QED  BY <2>9, <5>2
            <4>2. c[1] \in C
                BY <2>2, <3>1 DEF C, Held
            <4> QED  BY <4>1, <4>2
        <3>3. /\ \A y \in Waiting : Introduced(tracked, y, Waiting) => Introduced(tracked, y, Waiting')
              /\ \A k \in Nat : k > made + 1 =>
                    Introduced(tracked, [id |-> k, era |-> next, mark |-> FALSE], Waiting')
              /\ \A y \in C : ~y.mark => Introduced(tracked, y, Waiting')
            BY <2>1, <2>4, <2>5, <2>6, <2>9, <3>2, NextStreamArrives
        <3>4. Introduced(tracked, Coming', Waiting')
            <4>1. made' + 1 \in Nat /\ made' + 1 > made + 1
                BY <2>1, <2>3, <3>1
            <4> QED  BY <2>3, <3>3, <4>1 DEF Coming
        <3>5. Opened(tracked, Waiting')
            BY <2>4, <2>9, <3>3 DEF MarksInv, Opened
        <3> QED  BY <2>3, <3>4, <3>5 DEF MarksInv
    <2> QED  BY <2>7, <2>8, <2>9
<1>17. ASSUME \/ OpenStopped \/ StopSeen \/ Gone \/ SelectStop \/ SelectClosed \/ WaitStop \/ DrainDone
              \/ GuardDrop \/ SenderDrop \/ Refused \/ Cancelled
       PROVE  MarksInv'
    <2>1. Over' /\ UNCHANGED <<queued, channel, tracked, dec>>
        BY <1>17 DEF OpenStopped, StopSeen, Gone, SelectStop, SelectClosed, WaitStop, DrainDone,
                     GuardDrop, SenderDrop, Refused, Cancelled, Over
    <2> QED  BY <1>6, <2>1
<1>18. ASSUME Connect \/ BeginFlush \/ FlushDone \/ SelectRoom \/ SourceEnds \/ ChunkDone
       PROVE  MarksInv'
    <2>1. /\ UNCHANGED <<queued, channel, hand, backlog, outbox, tracked, made, era, dec>>
          /\ ~Over /\ ~Over'
        BY <1>18 DEF Connect, BeginFlush, FlushDone, SelectRoom, SourceEnds, ChunkDone, CanRead, Over
    <2> QED  BY <1>5, <2>1
<1>19. ASSUME NEW transient \in BOOLEAN, ReadFails(transient)
       PROVE  MarksInv'
    <2>1. UNCHANGED <<queued, channel, hand, backlog, outbox, tracked, made, era, dec>> /\ ~Over
        BY <1>19 DEF ReadFails, CanRead, Over
    <2>2. CASE Over'
        BY <1>6, <2>1, <2>2
    <2>3. CASE ~Over'
        BY <1>5, <2>1, <2>3
    <2> QED  BY <2>2, <2>3
<1>20. ASSUME \/ BatchDrained \/ BatchDone \/ DecodeEnds \/ ShutdownOutcome \/ ShutdownRunning
              \/ ShutdownStop \/ UNCHANGED vars
       PROVE  MarksInv'
    <2>1. /\ UNCHANGED <<queued, channel, hand, backlog, outbox, tracked, made, era, acq>>
          /\ dec' # "dead" => dec # "dead"
        BY <1>20 DEF BatchDrained, BatchDone, DecodeEnds, ShutdownOutcome, ShutdownRunning,
                     ShutdownStop, vars
    <2> QED  BY <1>4, <2>1
<1> QED
    BY <1>7, <1>8, <1>9, <1>10, <1>11, <1>12, <1>13, <1>14, <1>15, <1>16, <1>17, <1>18, <1>19, <1>20
       DEF Next, Acquire, Environment, Decode, ShutdownContinues

\* A sequence count is never compared with one of another byte stream: every
\* stream the decoder has not met is still opened by its marker, whatever the
\* ring has dropped between them.
THEOREM StreamsStayApart == Spec => []CountsOfOneStream
<1>1. Init => MarksInv
    BY NothingHeld DEF Init, MarksInv, Opened, Introduced, Waiting, Ahead, Behind, Coming, Over
<1>2. TypeOK /\ OrderInv /\ MarksInv => CountsOfOneStream
    <2> SUFFICES ASSUME TypeOK, OrderInv, MarksInv, dec = "decode", queued # <<>>,
                        ~Head(queued).mark, tracked \notin {0, Head(queued).era}
                 PROVE  FALSE
        BY DEF CountsOfOneStream
    <2> DEFINE h == Head(queued)
    <2>1. queued \in Seq(Item)
        BY DEF TypeOK
    <2>2. h \in Held(queued) /\ Held(queued) = Held(Tail(queued)) \union {h}
        BY <2>1, HeadHeld
    <2>3. h \in Waiting
        BY <2>2 DEF Waiting, Ahead
    <2>4. PICK m \in Waiting : m.mark /\ m.id < h.id
        BY <2>3 DEF MarksInv, Opened, Introduced
    <2>5. m.id \in Nat /\ h.id \in Nat
        BY <2>3, <2>4, Positions DEF Waiting
    <2>6. m = h \/ m \in Held(Tail(queued)) \union Held(channel) \union Behind
        BY <2>2, <2>4 DEF Waiting, Ahead
    <2>7. m = h \/ h.id < m.id
        BY <2>6, Positions
    <2> QED  BY <2>4, <2>5, <2>7
<1> QED
    BY <1>1, <1>2, MarksInductive, OrderAlways, TypeCorrect, AccountInductive, PTL DEF Spec
----------------------------------------------------------------------------
(***************************************************************************)
(* Session implements OverflowQueue, for every queue depth, every bound and *)
(* every kind of source: acquisition task, channel, ring and batch together *)
(* are one bounded queue.                                                    *)
(***************************************************************************)

(***************************************************************************)
(* Sequences: one element, or all of them, moved across the seam of two.    *)
(***************************************************************************)
LEMMA AppendRight ==
    ASSUME NEW S, NEW s \in Seq(S), NEW t \in Seq(S), NEW x \in S
    PROVE  s \o Append(t, x) = Append(s \o t, x)
<1>1. <<x>> \in Seq(S) /\ s \o t \in Seq(S)
    BY ConcatProperties
<1>2. Append(t, x) = t \o <<x>> /\ Append(s \o t, x) = (s \o t) \o <<x>>
    BY <1>1, AppendIsConcat
<1>3. (s \o t) \o <<x>> = s \o (t \o <<x>>)
    BY <1>1, ConcatAssociative
<1> QED  BY <1>2, <1>3

LEMMA HeadAndTail ==
    ASSUME NEW S, NEW s \in Seq(S), s # <<>>
    PROVE  Head(s) \in S /\ Tail(s) \in Seq(S) /\ s = <<Head(s)>> \o Tail(s)
<1>1. Len(s) \in Nat \ {0}
    BY EmptySeq
<1>2. s = SubSeq(s, 1, Len(s))
    BY SubSeqFull
<1>3. SubSeq(s, 1, Len(s)) = <<s[1]>> \o SubSeq(s, 1 + 1, Len(s))
    BY <1>1, SubSeqRecursiveFirst
<1>4. Tail(s) = SubSeq(s, 2, Len(s)) /\ Head(s) = s[1] /\ 1 + 1 = 2
    BY TailIsSubSeq
<1> QED  BY <1>2, <1>3, <1>4, HeadTailProperties

LEMMA HeadAcross ==
    ASSUME NEW S, NEW s \in Seq(S), NEW t \in Seq(S), t # <<>>
    PROVE  Append(s, Head(t)) \o Tail(t) = s \o t
<1>1. Head(t) \in S /\ Tail(t) \in Seq(S) /\ t = <<Head(t)>> \o Tail(t)
    BY HeadAndTail
<1>2. <<Head(t)>> \in Seq(S) /\ Append(s, Head(t)) = s \o <<Head(t)>>
    BY <1>1, AppendIsConcat
<1>3. (s \o <<Head(t)>>) \o Tail(t) = s \o (<<Head(t)>> \o Tail(t))
    BY <1>1, <1>2, ConcatAssociative
<1> QED  BY <1>1, <1>2, <1>3

LEMMA FirstOfConcat ==
    ASSUME NEW S, NEW s \in Seq(S), NEW t \in Seq(S), s # <<>>
    PROVE  s \o t # <<>> /\ Head(s \o t) = Head(s) /\ Tail(s \o t) = Tail(s) \o t
<1> DEFINE u == s \o t
<1>1. /\ u \in Seq(S) /\ Len(s) \in Nat \ {0} /\ Len(t) \in Nat /\ Len(u) = Len(s) + Len(t)
      /\ \A j \in 1..Len(s) + Len(t) : u[j] = IF j <= Len(s) THEN s[j] ELSE t[j - Len(s)]
    BY ConcatProperties, EmptySeq, LenProperties
<1>2. u # <<>>
    BY ConcatEqualIffEmpty
<1> HIDE DEF u
<1>3. /\ Tail(s) \in Seq(S) /\ Len(Tail(s)) = Len(s) - 1
      /\ \A j \in 1..Len(Tail(s)) : Tail(s)[j] = s[j + 1]
    BY HeadTailProperties
<1>4. /\ Tail(u) \in Seq(S) /\ Len(Tail(u)) = Len(u) - 1
      /\ \A j \in 1..Len(Tail(u)) : Tail(u)[j] = u[j + 1]
    BY <1>1, <1>2, HeadTailProperties
<1>5. Head(u) = Head(s)
    BY <1>1
<1> DEFINE v == Tail(s) \o t
<1>6. /\ v \in Seq(S) /\ Len(v) = (Len(s) - 1) + Len(t)
      /\ \A j \in 1..Len(v) : v[j] = IF j <= Len(s) - 1 THEN Tail(s)[j] ELSE t[j - (Len(s) - 1)]
    BY <1>3, ConcatProperties
<1> HIDE DEF v
<1>7. ASSUME NEW j \in 1..Len(v)
      PROVE  Tail(u)[j] = v[j]
    <2>1. Tail(u)[j] = u[j + 1] /\ j + 1 \in 1..Len(s) + Len(t)
        BY <1>1, <1>4, <1>6
    <2>2. CASE j <= Len(s) - 1
        <3>1. v[j] = Tail(s)[j] /\ j \in 1..Len(Tail(s)) /\ j + 1 <= Len(s)
            BY <1>1, <1>3, <1>6, <2>2
        <3>2. v[j] = s[j + 1]
            BY <1>3, <3>1
        <3> QED  BY <1>1, <2>1, <3>1, <3>2
    <2>3. CASE ~(j <= Len(s) - 1)
        <3>1. /\ ~(j + 1 <= Len(s)) /\ (j + 1) - Len(s) = j - (Len(s) - 1)
              /\ v[j] = t[j - (Len(s) - 1)]
            BY <1>1, <1>6, <2>3
        <3> QED  BY <1>1, <2>1, <3>1
    <2> QED  BY <2>2, <2>3
<1>8. Len(Tail(u)) = Len(v)
    BY <1>1, <1>4, <1>6
<1>9. Tail(u) = v
    BY <1>4, <1>6, <1>7, <1>8, SeqEqual
<1> QED  BY <1>2, <1>5, <1>9 DEF u, v

LEMMA RemoveAtElements ==
    ASSUME NEW S, NEW s \in Seq(S), NEW i \in 1..Len(s)
    PROVE  /\ RemoveAt(s, i) \in Seq(S) /\ Len(RemoveAt(s, i)) = Len(s) - 1
           /\ \A j \in 1..Len(s) - 1 : RemoveAt(s, i)[j] = IF j < i THEN s[j] ELSE s[j + 1]
<1> DEFINE t == RemoveAt(s, i)
           front == SubSeq(s, 1, i - 1)
           back == SubSeq(s, i + 1, Len(s))
<1>0. Len(s) \in Nat /\ i \in Nat \ {0} /\ i <= Len(s)
    BY LenProperties
<1>1. front \in Seq(S) /\ Len(front) = i - 1 /\ \A j \in 1..(i - 1) : front[j] = s[j]
    BY <1>0, SubSeqProperties, ElementOfSeq
<1>2. /\ back \in Seq(S) /\ Len(back) = Len(s) - i
      /\ \A j \in 1..(Len(s) - i) : back[j] = s[i + j]
    BY <1>0, SubSeqProperties, ElementOfSeq
<1>3. t = front \o back
    BY DEF RemoveAt
<1> HIDE DEF front, back, t
<1>4. /\ t \in Seq(S) /\ Len(t) = Len(s) - 1
      /\ \A j \in 1..Len(t) : t[j] = IF j <= i - 1 THEN front[j] ELSE back[j - (i - 1)]
    BY <1>0, <1>1, <1>2, <1>3, ConcatProperties
<1>5. ASSUME NEW j \in 1..Len(s) - 1
      PROVE  t[j] = IF j < i THEN s[j] ELSE s[j + 1]
    <2>1. CASE j < i
        BY <1>0, <1>1, <1>4, <2>1
    <2>2. CASE ~(j < i)
        <3>1. j - (i - 1) \in 1..(Len(s) - i) /\ i + (j - (i - 1)) = j + 1 /\ ~(j <= i - 1)
            BY <1>0, <2>2
        <3>2. t[j] = back[j - (i - 1)]
            BY <1>4, <3>1
        <3>3. t[j] = s[j + 1]
            BY <1>2, <3>1, <3>2
        <3> QED  BY <2>2, <3>3
    <2> QED  BY <2>1, <2>2
<1> QED  BY <1>4, <1>5 DEF t

LEMMA RemoveOfConcat ==
    ASSUME NEW S, NEW s \in Seq(S), NEW t \in Seq(S), NEW k \in 1..Len(t)
    PROVE  RemoveAt(s \o t, Len(s) + k) = s \o RemoveAt(t, k)
<1> DEFINE u == s \o t
           n == Len(s)
           m == Len(t)
           r == RemoveAt(t, k)
           v == s \o r
           w == RemoveAt(u, n + k)
<1>1. n \in Nat /\ m \in Nat /\ k \in Nat \ {0} /\ k <= m
    BY LenProperties
<1>2. /\ u \in Seq(S) /\ Len(u) = n + m
      /\ \A j \in 1..n + m : u[j] = IF j <= n THEN s[j] ELSE t[j - n]
    BY ConcatProperties
<1>3. /\ r \in Seq(S) /\ Len(r) = m - 1
      /\ \A j \in 1..m - 1 : r[j] = IF j < k THEN t[j] ELSE t[j + 1]
    BY RemoveAtElements
<1> HIDE DEF n, m, u, r
<1>4. /\ w \in Seq(S) /\ Len(w) = (n + m) - 1
      /\ \A j \in 1..(n + m) - 1 : w[j] = IF j < n + k THEN u[j] ELSE u[j + 1]
    <2>1. n + k \in 1..Len(u)
        BY <1>1, <1>2
    <2> QED  BY <1>2, <2>1, RemoveAtElements
<1>5. /\ v \in Seq(S) /\ Len(v) = n + (m - 1)
      /\ \A j \in 1..n + (m - 1) : v[j] = IF j <= n THEN s[j] ELSE r[j - n]
    <2>1. /\ v \in Seq(S) /\ Len(v) = Len(s) + Len(r)
          /\ \A j \in 1..Len(s) + Len(r) : v[j] = IF j <= Len(s) THEN s[j] ELSE r[j - Len(s)]
        BY <1>3, ConcatProperties
    <2> QED  BY <1>3, <2>1 DEF n
<1> HIDE DEF v, w
<1>6. ASSUME NEW j \in 1..Len(w)
      PROVE  w[j] = v[j]
    <2>1. j \in 1..(n + m) - 1 /\ j \in 1..n + (m - 1)
        BY <1>1, <1>4
    <2>2. CASE j <= n
        <3>1. j < n + k /\ j \in 1..n + m
            BY <1>1, <2>1, <2>2
        <3> QED  BY <1>2, <1>4, <1>5, <2>1, <2>2, <3>1
    <2>3. CASE ~(j <= n) /\ j < n + k
        <3>1. j \in 1..n + m /\ j - n \in 1..m - 1 /\ j - n < k
            BY <1>1, <2>1, <2>3
        <3>2. v[j] = t[j - n]
            BY <1>3, <1>5, <2>1, <2>3, <3>1
        <3> QED  BY <1>2, <1>4, <2>1, <2>3, <3>1, <3>2
    <2>4. CASE ~(j < n + k)
        <3>1. /\ j + 1 \in 1..n + m /\ ~(j + 1 <= n) /\ ~(j <= n) /\ j - n \in 1..m - 1
              /\ ~(j - n < k) /\ (j - n) + 1 = (j + 1) - n
            BY <1>1, <2>1, <2>4
        <3>2. v[j] = t[(j - n) + 1]
            BY <1>3, <1>5, <2>1, <3>1
        <3>3. w[j] = t[(j + 1) - n]
            BY <1>2, <1>4, <2>1, <2>4, <3>1
        <3> QED  BY <3>1, <3>2, <3>3
    <2> QED  BY <2>2, <2>3, <2>4
<1>7. Len(w) = Len(v)
    BY <1>1, <1>4, <1>5
<1>8. w = v
    BY <1>4, <1>5, <1>6, <1>7, SeqEqual
<1> QED  BY <1>8 DEF w, v, u, n, r

-----------------------------------------------------------------------------
(***************************************************************************)
(* What the refinement needs to know of the ring and of the bounds.         *)
(***************************************************************************)
\* A ring over its depth holds nothing it could give up, so what it gives up is
\* among the newest Depth items; and an item is within the bounds.
RingInv ==
    /\ \A k \in 1..Len(backlog) : Len(backlog) > Depth => backlog[k].mark
    /\ made <= MaxItems /\ era <= MaxEra
    /\ \A x \in Held(outbox) : x.era <= era

LEMMA RingInitially == Init => RingInv
<1> SUFFICES ASSUME Init PROVE RingInv
    OBVIOUS
<1>1. backlog = <<>> /\ outbox = <<>> /\ made = 0 /\ era = 1
    BY DEF Init
<1>2. Len(backlog) = 0 /\ Held(outbox) = {}
    BY <1>1, EmptySeq, NothingHeld
<1> QED  BY <1>1, <1>2, SessionAssumption DEF RingInv

LEMMA PushKeepsRing ==
    ASSUME NEW item \in Item, backlog \in Seq(Item), Push(item),
           \A k \in 1..Len(backlog) : Len(backlog) > Depth => backlog[k].mark
    PROVE  \A k \in 1..Len(backlog') : Len(backlog') > Depth => backlog'[k].mark
<1>1. Len(backlog) \in Nat /\ Depth \in Nat
    BY LenProperties, SessionAssumption
<1>2. CASE RingTakes(item) /\ backlog' = Append(backlog, item)
    <2>1. /\ Len(backlog') = Len(backlog) + 1 /\ backlog'[Len(backlog) + 1] = item
          /\ \A k \in 1..Len(backlog) : backlog'[k] = backlog[k]
        BY <1>2, AppendProperties
    <2>2. CASE Len(backlog) < Depth
        BY <1>1, <2>1, <2>2
    <2>3. CASE ~(Len(backlog) < Depth)
        <3>1. PacketPlaces(backlog) = {} /\ item.mark
            BY <1>1, <1>2, <2>3 DEF RingTakes, RingFull
        <3>2. \A k \in 1..Len(backlog) : backlog[k].mark
            BY <3>1 DEF PacketPlaces
        <3> QED  BY <1>1, <2>1, <3>1, <3>2
    <2> QED  BY <2>2, <2>3
<1>3. CASE EvictFor(item)
    <2>1. PICK k \in OldestPacket(backlog) : backlog' = Append(RemoveAt(backlog, k), item)
        BY <1>3 DEF EvictFor
    <2>2. k \in 1..Len(backlog) /\ ~backlog[k].mark
        BY <2>1 DEF OldestPacket, PacketPlaces
    <2>3. Len(backlog) <= Depth
        BY <1>1, <2>2
    <2>4. Len(backlog') = Len(backlog)
        <3>1. RemoveAt(backlog, k) \in Seq(Item) /\ Len(RemoveAt(backlog, k)) = Len(backlog) - 1
            BY <2>2, RemoveAtSeq
        <3> QED  BY <1>1, <2>1, <3>1, AppendProperties
    <2> QED  BY <1>1, <2>3, <2>4
<1>4. CASE RefusePacket(item)
    BY <1>4 DEF RefusePacket
<1> QED  BY <1>2, <1>3, <1>4 DEF Push

LEMMA RingInductive ==
    TypeOK /\ RingInv /\ [Next]_vars /\ TypeOK' => RingInv'
<1> SUFFICES ASSUME TypeOK, RingInv, [Next]_vars, TypeOK' PROVE RingInv'
    OBVIOUS
<1>1. backlog \in Seq(Item) /\ outbox \in Seq(Item) /\ Len(backlog) \in Nat
    BY LenProperties DEF TypeOK
<1>2. /\ \A k \in 1..Len(backlog) : Len(backlog) > Depth => backlog[k].mark
      /\ made <= MaxItems /\ era <= MaxEra
      /\ \A x \in Held(outbox) : x.era <= era
    BY DEF RingInv
<1>3. Len(<<>>) = 0 /\ Held(<<>>) = {}
    BY EmptySeq, NothingHeld
<1> USE DEF readVars, queueVars, decVars, shutVars
<1>4. CASE UNCHANGED <<backlog, outbox, made, era>>
    BY <1>2, <1>4 DEF RingInv
<1>5. ASSUME outbox # <<>>, outbox' = Tail(outbox), UNCHANGED <<made, era>>,
             \A k \in 1..Len(backlog') : Len(backlog') > Depth => backlog'[k].mark
      PROVE  RingInv'
    <2>1. Held(outbox) = Held(outbox') \union {Head(outbox)}
        BY <1>1, <1>5, HeadHeld
    <2> QED  BY <1>2, <1>5, <2>1 DEF RingInv
<1>6. ASSUME backlog # <<>>, backlog' = Tail(backlog), UNCHANGED <<outbox, made, era>>
      PROVE  RingInv'
    <2>1. Len(backlog') = Len(backlog) - 1 /\ \A k \in 1..Len(backlog') : backlog'[k] = backlog[k + 1]
        BY <1>1, <1>6, HeadTailProperties
    <2>2. ASSUME NEW k \in 1..Len(backlog'), Len(backlog') > Depth
          PROVE  backlog'[k].mark
        <3>1. k + 1 \in 1..Len(backlog) /\ Len(backlog) > Depth
            BY <1>1, <2>1, <2>2, SessionAssumption
        <3> QED  BY <1>2, <2>1, <3>1
    <2> QED  BY <1>2, <1>6, <2>2 DEF RingInv
<1>7. CASE FlushItem \/ DrainPop
    <2>1. backlog # <<>> /\ backlog' = Tail(backlog) /\ UNCHANGED <<outbox, made, era>>
        BY <1>7 DEF FlushItem, DrainPop, IsBackedUp
    <2> QED  BY <1>6, <2>1
<1>8. CASE SendNow \/ SendMustWait
    <2>1. outbox # <<>> /\ outbox' = Tail(outbox) /\ UNCHANGED <<backlog, made, era>>
        BY <1>8 DEF SendNow, SendMustWait
    <2> QED  BY <1>2, <1>5, <2>1
<1>9. CASE SendToRing
    <2>1. /\ outbox # <<>> /\ outbox' = Tail(outbox) /\ UNCHANGED <<made, era>>
          /\ Push(Head(outbox))
        BY <1>9 DEF SendToRing
    <2>2. Head(outbox) \in Item
        BY <1>1, <2>1, HeadHeld
    <2>3. \A k \in 1..Len(backlog') : Len(backlog') > Depth => backlog'[k].mark
        BY <1>1, <1>2, <2>1, <2>2, PushKeepsRing
    <2> QED  BY <1>5, <2>1, <2>3
<1>10. CASE SenderDrop
    <2>1. backlog' = <<>> /\ outbox' = <<>> /\ UNCHANGED <<made, era>>
        BY <1>10 DEF SenderDrop
    <2> QED  BY <1>2, <1>3, <2>1 DEF RingInv
<1>11. ASSUME NEW restarted \in BOOLEAN, NEW n \in 0..ChunkPackets, ReadChunk(restarted, n)
       PROVE  RingInv'
    <2> DEFINE c == ChunkItems(restarted, n)
    <2>1. n \in Nat /\ made \in Nat /\ era \in Nat \ {0} /\ MaxEra \in Nat
        BY SessionAssumption DEF TypeOK
    <2>2. /\ outbox' = c /\ made' = made + Len(c) /\ made + Len(c) <= MaxItems
          /\ era' = (IF restarted THEN era + 1 ELSE era)
          /\ restarted => era < MaxEra
          /\ UNCHANGED backlog
        BY <1>11 DEF ReadChunk
    <2>3. era' <= MaxEra
        BY <1>2, <2>1, <2>2
    <2>4. \A x \in Held(c) : x.era = era'
        <3>1. Len(c) = IF restarted THEN n + 1 ELSE n
            BY <2>1, ChunkTypes
        <3>2. \A k \in 1..Len(c) : c[k].era = era'
            BY <2>1, <2>2, <3>1 DEF ChunkItems
        <3> HIDE DEF c
        <3> QED  BY <3>2 DEF Held
    <2> HIDE DEF c
    <2>5. era' \in Nat
        BY <2>1, <2>2
    <2> QED  BY <1>2, <2>2, <2>3, <2>4, <2>5 DEF RingInv
<1>12. ASSUME \/ OpenStopped \/ StopSeen \/ BeginFlush \/ FlushDone \/ Gone \/ SelectStop \/ SelectRoom
              \/ SelectClosed \/ WaitRoom \/ WaitStop \/ ChunkDone \/ DrainRoom \/ DrainDone
              \/ GuardDrop \/ Connect \/ Refused \/ SourceEnds \/ Cancelled \/ DecoderDies
              \/ \E transient \in BOOLEAN : ReadFails(transient)
       PROVE  UNCHANGED <<backlog, outbox, made, era>>
    BY <1>12 DEF OpenStopped, StopSeen, BeginFlush, FlushDone, Gone, SelectStop, SelectRoom,
                 SelectClosed, WaitRoom, WaitStop, ChunkDone, DrainRoom, DrainDone, GuardDrop,
                 Connect, Refused, SourceEnds, Cancelled, DecoderDies, ReadFails
<1>13. ASSUME \/ Decode \/ ShutdownOutcome \/ ShutdownContinues \/ UNCHANGED vars
       PROVE  UNCHANGED <<backlog, outbox, made, era>>
    BY <1>13 DEF Decode, Recv, TryRecv, BatchDrained, DecodeRestart, DecodePacket, BatchDone,
                 DecodeEnds, ShutdownOutcome, ShutdownContinues, ShutdownRunning, ShutdownStop, vars
<1> QED
    BY <1>4, <1>7, <1>8, <1>9, <1>10, <1>11, <1>12, <1>13
       DEF Next, Acquire, Environment

-----------------------------------------------------------------------------
(***************************************************************************)
(* The mapping, and what each kind of step is to the abstract queue.        *)
(***************************************************************************)
Sent == queued \o channel
Kept == IF Over THEN <<>> ELSE hand \o backlog
Folded == IF dec = "dead" THEN <<>> ELSE Sent \o Kept

QueueStep == Q!QNext \/ UNCHANGED Q!qvars

\* The step is within the queue.
LEMMA StaysPut ==
    ASSUME Folded' = Folded, UNCHANGED <<kind, seen, dropped>>, Over' <=> Over,
           dec' = "dead" <=> dec = "dead"
    PROVE  QueueStep
BY DEF QueueStep, Folded, Sent, Kept, Q!qvars

\* The acquisition task ends; what it had sent is a beginning of the queue.
LEMMA TaskCloses ==
    ASSUME TypeOK, ~Over, Over', UNCHANGED <<kind, seen, dropped, queued, channel, dec>>
    PROVE  QueueStep
<1>1. /\ queued \in Seq(Item) /\ channel \in Seq(Item) /\ hand \in Seq(Item)
      /\ backlog \in Seq(Item)
    BY DEF TypeOK
<1>2. Sent \in Seq(Item) /\ Kept \in Seq(Item)
    BY <1>1, ConcatProperties, EmptySeq DEF Sent, Kept
<1>3. Sent' = Sent /\ Kept' = <<>>
    BY DEF Sent, Kept
<1>4. \E n \in 0..Len(Folded) : Folded' = SubSeq(Folded, 1, n)
    <2>1. CASE dec = "dead"
        <3>1. Folded = <<>> /\ Folded' = <<>> /\ Len(<<>>) = 0
            BY <2>1, EmptySeq DEF Folded
        <3>2. SubSeq(<<>>, 1, 0) = <<>>
            BY SubSeqEmpty
        <3> QED  BY <3>1, <3>2
    <2>2. CASE dec # "dead"
        <3>1. Folded = Sent \o Kept /\ Folded' = Sent \o <<>>
            BY <1>3, <2>2 DEF Folded
        <3>2. Folded' = Sent /\ SubSeq(Sent, 1, Len(Sent)) = Sent
            BY <1>2, <3>1, ConcatEmptySeq, SubSeqFull
        <3>3. Len(Sent) \in Nat /\ Len(Kept) \in Nat /\ Len(Folded) = Len(Sent) + Len(Kept)
            BY <1>2, <3>1, ConcatProperties, LenProperties
        <3>4. SubSeq(Folded, 1, Len(Sent)) = Sent
            <4>1. CASE Len(Sent) = 0
                BY <1>2, <4>1, SubSeqEmpty, EmptySeq
            <4>2. CASE Len(Sent) # 0
                <5>1. 1 \in 1..Len(Sent) /\ Len(Sent) \in 1..Len(Sent)
                    BY <3>3, <4>2
                <5> QED  BY <1>2, <3>1, <3>2, <5>1, SubSeqOfConcat1
            <4> QED  BY <4>1, <4>2
        <3>5. Len(Sent) \in 0..Len(Folded)
            BY <3>3
        <3> QED  BY <3>2, <3>4, <3>5
    <2> QED  BY <2>1, <2>2
<1>5. Q!Close
    BY <1>4 DEF Q!Close, Folded, Sent, Kept
<1> QED  BY <1>5 DEF QueueStep, Q!QNext

\* What the acquisition task offers is within the bounds and newer than
\* everything in the queue or behind it.
LEMMA OfferedIsNew ==
    ASSUME TypeOK, OrderInv, RingInv, outbox # <<>>, dec # "dead", ~Over
    PROVE  /\ Head(outbox) \in [id : 1..MaxItems, era : 1..MaxEra, mark : BOOLEAN]
           /\ Q!Newer(Head(outbox))
<1> DEFINE a == Places
           i == Head(outbox)
<1>1. /\ a \in [1..6 -> Seq(Item)]
      /\ a[1] = seen /\ a[2] = queued /\ a[3] = channel
      /\ a[4] = hand /\ a[5] = backlog /\ a[6] = outbox
    BY SixPlaces DEF Places, TypeOK
<1>2. Ordered(a, made)
    BY DEF OrderInv
<1> HIDE DEF a
<1>3. /\ seen \in Seq(Item) /\ queued \in Seq(Item) /\ channel \in Seq(Item)
      /\ hand \in Seq(Item) /\ backlog \in Seq(Item) /\ outbox \in Seq(Item)
      /\ made \in Nat /\ era \in Nat \ {0}
    BY DEF TypeOK
<1>4. i \in Item /\ i \in Held(outbox)
    BY <1>3, HeadHeld
<1>5. i.id <= made /\ i.era <= era /\ made <= MaxItems /\ era <= MaxEra
    BY <1>1, <1>2, <1>4 DEF Ordered, RingInv
<1>6. i \in [id : 1..MaxItems, era : 1..MaxEra, mark : BOOLEAN]
    <2> HIDE DEF i
    <2>1. i.id \in Nat \ {0} /\ i.era \in Nat \ {0}
        BY <1>4 DEF Item
    <2>2. MaxItems \in Nat /\ MaxEra \in Nat
        BY SessionAssumption
    <2>3. i.id <= MaxItems /\ i.era <= MaxEra
        BY <1>3, <1>5, <2>1, <2>2
    <2>4. i.id \in 1..MaxItems /\ i.era \in 1..MaxEra
        BY <2>1, <2>2, <2>3
    <2> QED  BY <1>4, <2>4 DEF Item
<1>7. \A p, q \in 1..6 : p < q => \A x \in Held(a[p]), y \in Held(a[q]) : x.id < y.id
    BY <1>2 DEF Ordered
<1>8. \A x \in Held(seen) \union Held(queued) \union Held(channel) \union Held(hand)
                \union Held(backlog) : x.id < i.id
    BY <1>1, <1>4, <1>7
<1> HIDE DEF i
<1>9. /\ Sent \in Seq(Item) /\ Held(Sent) = Held(queued) \union Held(channel)
    BY <1>3, ConcatHeld DEF Sent
<1>10. hand \o backlog \in Seq(Item) /\ Held(hand \o backlog) = Held(hand) \union Held(backlog)
    BY <1>3, ConcatHeld
<1>11. Folded = Sent \o (hand \o backlog)
    BY DEF Folded, Kept
<1>12. Folded \in Seq(Item) /\ Held(Folded) = Held(Sent) \union Held(hand \o backlog)
    BY <1>9, <1>10, <1>11, ConcatHeld
<1>13. Held(seen \o Folded) = Held(seen) \union Held(Folded)
    BY <1>3, <1>12, ConcatHeld
<1>14. \A k \in 1..Len(seen \o Folded) : (seen \o Folded)[k].id < i.id
    BY <1>8, <1>9, <1>10, <1>12, <1>13 DEF Held
<1>15. Q!Newer(i)
    BY <1>14 DEF Q!Newer, Folded, Sent, Kept
<1> QED  BY <1>6, <1>15 DEF i

\* It joins the queue.
LEMMA OfferIsTaken ==
    ASSUME TypeOK, OrderInv, RingInv, outbox # <<>>, dec # "dead", ~Over,
           Folded' = Append(Folded, Head(outbox)),
           UNCHANGED <<kind, seen, dropped, dec>>, ~Over'
    PROVE  QueueStep
<1> DEFINE i == Head(outbox)
           I == [id : 1..MaxItems, era : 1..MaxEra, mark : BOOLEAN]
<1>1. i \in I /\ Q!Newer(i)
    BY OfferedIsNew
<1> HIDE DEF i, I
<1>2. Q!Offer(i)
    BY <1>1 DEF Q!Offer, Folded, Sent, Kept, i
<1> QED  BY <1>1, <1>2 DEF QueueStep, Q!QNext, I

\* The decoder handles the first of the queue.
LEMMA FirstIsTaken ==
    ASSUME TypeOK, queued # <<>>, dec # "dead", dec' # "dead",
           seen' = Append(seen, Head(queued)), queued' = Tail(queued),
           UNCHANGED <<kind, channel, hand, backlog, dropped>>, Over' <=> Over
    PROVE  QueueStep
<1>1. /\ queued \in Seq(Item) /\ channel \in Seq(Item) /\ hand \in Seq(Item)
      /\ backlog \in Seq(Item)
    BY DEF TypeOK
<1>2. Sent \in Seq(Item) /\ Kept \in Seq(Item)
    BY <1>1, ConcatProperties, EmptySeq DEF Sent, Kept
<1>3. /\ Sent # <<>> /\ Head(Sent) = Head(queued)
      /\ Tail(Sent) = Tail(queued) \o channel
    BY <1>1, FirstOfConcat DEF Sent
<1>4. Sent' = Tail(Sent) /\ Kept' = Kept
    BY <1>3 DEF Sent, Kept
<1>5. /\ Sent \o Kept # <<>> /\ Head(Sent \o Kept) = Head(Sent)
      /\ Tail(Sent \o Kept) = Tail(Sent) \o Kept
    BY <1>2, <1>3, FirstOfConcat
<1>6. Folded = Sent \o Kept /\ Folded' = Sent' \o Kept'
    BY DEF Folded
<1>7. Folded # <<>> /\ Head(Folded) = Head(queued) /\ Folded' = Tail(Folded)
    BY <1>3, <1>4, <1>5, <1>6
<1>8. Q!Take
    BY <1>7 DEF Q!Take, Folded, Sent, Kept
<1> QED  BY <1>8 DEF QueueStep, Q!QNext

\* The overflow ring of a live link takes, gives up or refuses.
LEMMA RingStep ==
    ASSUME TypeOK, AccountInv, OrderInv, RingInv, SendToRing
    PROVE  QueueStep
<1> DEFINE i == Head(outbox)
           I == [id : 1..MaxItems, era : 1..MaxEra, mark : BOOLEAN]
           n == Len(Sent)
           b == Len(backlog)
<1>1. /\ outbox # <<>> /\ hand = <<>> /\ dec # "dead" /\ ~Over /\ ~Over' /\ kind # "file"
      /\ Push(i)
      /\ UNCHANGED <<kind, seen, queued, channel, hand, dec>>
    BY DEF SendToRing, Full, Closed, Lossy, Over, readVars, decVars, AccountInv
<1>2. /\ queued \in Seq(Item) /\ channel \in Seq(Item) /\ backlog \in Seq(Item)
      /\ b \in Nat /\ Depth \in Nat
    BY LenProperties, SessionAssumption DEF TypeOK
<1>3. Sent \in Seq(Item) /\ Sent' = Sent /\ n \in Nat
    BY <1>1, <1>2, ConcatProperties, LenProperties DEF Sent
<1>4. i \in I /\ i \in Item /\ Q!Newer(i)
    <2>1. i \in I /\ Q!Newer(i)
        BY <1>1, OfferedIsNew
    <2>2. outbox \in Seq(Item)
        BY DEF TypeOK
    <2> QED  BY <1>1, <2>1, <2>2, HeadHeld
<1>5. Folded = Sent \o backlog /\ Folded' = Sent \o backlog'
    <2>1. TypeOK => backlog' \in Seq(Item)
        BY <1>1, <1>4, PushTypes DEF TypeOK
    <2>2. <<>> \o backlog = backlog /\ <<>> \o backlog' = backlog'
        BY <1>2, <2>1, ConcatEmptySeq
    <2> QED  BY <1>1, <1>3, <2>2 DEF Folded, Kept
<1>6. /\ Len(Folded) = n + b
      /\ \A k \in 1..b : n + k \in 1..n + b /\ Folded[n + k] = backlog[k]
    <2>1. /\ Len(Folded) = Len(Sent) + b
          /\ \A j \in 1..Len(Sent) + b :
                Folded[j] = IF j <= Len(Sent) THEN Sent[j] ELSE backlog[j - Len(Sent)]
        BY <1>2, <1>3, <1>5, ConcatProperties
    <2>2. ASSUME NEW k \in 1..b
          PROVE  n + k \in 1..n + b /\ Folded[n + k] = backlog[k]
        <3>1. n + k \in 1..n + b /\ ~(n + k <= n) /\ (n + k) - n = k
            BY <1>2, <1>3
        <3> QED  BY <2>1, <3>1
    <2> QED  BY <2>1, <2>2
<1>7. Q!Tailmost = {k \in 1..Len(Folded) : k > Len(Folded) - Depth}
    BY DEF Q!Tailmost, Folded, Sent, Kept
<1>8. CASE RingTakes(i) /\ backlog' = Append(backlog, i) /\ UNCHANGED dropped
    <2>1. Folded' = Append(Folded, i)
        BY <1>2, <1>3, <1>4, <1>5, <1>8, AppendRight
    <2> QED  BY <1>1, <1>8, <2>1, OfferIsTaken
<1>9. CASE EvictFor(i)
    <2>1. PICK k \in OldestPacket(backlog) : backlog' = Append(RemoveAt(backlog, k), i)
        BY <1>9 DEF EvictFor
    <2>2. k \in 1..b /\ ~backlog[k].mark
        BY <2>1 DEF OldestPacket, PacketPlaces
    <2>3. b = Depth /\ dropped' = dropped + 1
        BY <1>2, <1>9, <2>2 DEF RingInv, EvictFor, RingFull
    <2>4. Folded' = Append(Q!RemoveAt(Folded, n + k), i)
        <3>1. RemoveAt(backlog, k) \in Seq(Item)
            BY <1>2, <2>2, RemoveAtSeq
        <3>2. Sent \o Append(RemoveAt(backlog, k), i) = Append(Sent \o RemoveAt(backlog, k), i)
            BY <1>3, <1>4, <3>1, AppendRight
        <3>3. RemoveAt(Sent \o backlog, n + k) = Sent \o RemoveAt(backlog, k)
            BY <1>2, <1>3, <2>2, RemoveOfConcat
        <3>4. Q!RemoveAt(Folded, n + k) = RemoveAt(Folded, n + k)
            BY DEF Q!RemoveAt, RemoveAt
        <3> QED  BY <1>5, <2>1, <3>2, <3>3, <3>4
    <2> HIDE DEF n, b, i
    <2>5. n + k \in Q!Tailmost /\ ~Folded[n + k].mark
        <3>1. n + k \in 1..Len(Folded) /\ n + k > Len(Folded) - Depth
            BY <1>2, <1>3, <1>6, <2>2, <2>3
        <3> QED  BY <1>6, <1>7, <2>2, <3>1
    <2>6. Len(Folded) >= Depth
        BY <1>2, <1>3, <1>6, <2>3
    <2>7. Q!Evict(i)
        BY <1>1, <1>4, <2>3, <2>4, <2>5, <2>6 DEF Q!Evict, Folded, Sent, Kept
    <2> QED  BY <1>4, <2>7 DEF QueueStep, Q!QNext
<1>10. CASE RefusePacket(i)
    <2>1. b >= Depth /\ PacketPlaces(backlog) = {} /\ dropped' = dropped + 1 /\ UNCHANGED backlog
        BY <1>10 DEF RefusePacket, RingFull
    <2>2. \A k \in 1..b : backlog[k].mark
        BY <2>1 DEF PacketPlaces
    <2> HIDE DEF n, b, i
    <2>3. ASSUME NEW j \in Q!Tailmost
          PROVE  Folded[j].mark
        <3>1. j \in 1..n + b /\ j > (n + b) - Depth
            BY <1>6, <1>7
        <3>2. j - n \in 1..b /\ n + (j - n) = j
            BY <1>2, <1>3, <2>1, <3>1
        <3> QED  BY <1>6, <2>2, <3>2
    <2>4. Len(Folded) >= Depth
        BY <1>2, <1>3, <1>6, <2>1
    <2>5. Folded' = Folded
        BY <1>5, <2>1
    <2>6. Q!Refuse
        BY <1>1, <2>1, <2>3, <2>4, <2>5 DEF Q!Refuse, Folded, Sent, Kept
    <2> QED  BY <2>6 DEF QueueStep, Q!QNext
<1> QED  BY <1>1, <1>8, <1>9, <1>10 DEF Push

LEMMA EveryStepIsAQueueStep ==
    TypeOK /\ AccountInv /\ OrderInv /\ RingInv /\ [Next]_vars /\ TypeOK' => QueueStep
<1> SUFFICES ASSUME TypeOK, AccountInv, OrderInv, RingInv, [Next]_vars, TypeOK' PROVE QueueStep
    OBVIOUS
<1>1. /\ queued \in Seq(Item) /\ channel \in Seq(Item) /\ hand \in Seq(Item)
      /\ backlog \in Seq(Item) /\ outbox \in Seq(Item)
    BY DEF TypeOK
<1>2. /\ acq \in {"open", "top", "flush", "select"} => outbox = <<>> /\ hand = <<>>
      /\ acq = "send" => hand = <<>>
      /\ dec \in {"recv", "exited"} => queued = <<>>
    BY DEF AccountInv
<1>3. Sent \in Seq(Item)
    BY <1>1, ConcatProperties DEF Sent
<1>4. Sent \o (<<>> \o <<>>) = Sent /\ <<>> \o backlog = backlog /\ hand \o <<>> = hand
    BY <1>1, <1>3, ConcatEmptySeq, EmptySeq
<1> USE DEF readVars, queueVars, decVars, shutVars
<1>5. CASE /\ UNCHANGED <<kind, seen, dropped, queued, channel, hand, backlog>>
           /\ dec' = "dead" <=> dec = "dead"
           /\ Over' <=> Over
    <2>1. Folded' = Folded
        BY <1>5 DEF Folded, Sent, Kept
    <2> QED  BY <1>5, <2>1, StaysPut
<1>6. CASE Over /\ Over' /\ UNCHANGED <<kind, seen, dropped, queued, channel, dec>>
    <2>1. Folded' = Folded
        BY <1>6 DEF Folded, Sent, Kept
    <2> QED  BY <1>6, <2>1, StaysPut
<1>7. CASE FlushItem
    <2>1. /\ backlog # <<>> /\ hand = <<>> /\ ~Over /\ ~Over' /\ hand' = hand
          /\ channel' = Append(channel, Head(backlog)) /\ backlog' = Tail(backlog)
          /\ UNCHANGED <<kind, seen, dropped, queued, dec>>
        BY <1>2, <1>7 DEF FlushItem, IsBackedUp, Over
    <2>2. Head(backlog) \in Item /\ Tail(backlog) \in Seq(Item)
        BY <1>1, <2>1, HeadTailProperties
    <2>3. Sent' = Append(Sent, Head(backlog))
        BY <1>1, <2>1, <2>2, AppendRight DEF Sent
    <2>4. Sent' \o backlog' = Sent \o backlog
        BY <1>1, <1>3, <2>1, <2>3, HeadAcross
    <2>5. hand \o backlog = backlog /\ hand' \o backlog' = backlog'
        BY <1>4, <2>1, <2>2, ConcatEmptySeq
    <2>6. Folded' = Folded
        BY <2>1, <2>4, <2>5 DEF Folded, Kept
    <2> QED  BY <2>1, <2>6, StaysPut
<1>8. CASE SendNow
    <2>1. /\ outbox # <<>> /\ hand = <<>> /\ backlog = <<>> /\ dec # "dead" /\ ~Over /\ ~Over'
          /\ channel' = Append(channel, Head(outbox))
          /\ UNCHANGED <<kind, seen, dropped, queued, hand, backlog, dec>>
        BY <1>2, <1>8 DEF SendNow, RingEmptied, IsBackedUp, Room, Closed, Over
    <2>2. Head(outbox) \in Item
        BY <1>1, <2>1, HeadTailProperties
    <2>3. Sent' = Append(Sent, Head(outbox))
        BY <1>1, <2>1, <2>2, AppendRight DEF Sent
    <2>4. Folded = Sent
        BY <1>4, <2>1 DEF Folded, Kept
    <2>5. Folded' = Sent'
        <3>1. Sent' \in Seq(Item)
            BY <1>3, <2>2, <2>3, AppendProperties
        <3>2. Sent' \o (<<>> \o <<>>) = Sent'
            BY <3>1, ConcatEmptySeq, EmptySeq
        <3> QED  BY <2>1, <3>2 DEF Folded, Kept
    <2> QED  BY <2>1, <2>3, <2>4, <2>5, OfferIsTaken
<1>9. CASE SendToRing
    BY <1>9, RingStep
<1>10. CASE SendMustWait
    <2>1. /\ outbox # <<>> /\ hand = <<>> /\ backlog = <<>> /\ dec # "dead" /\ ~Over /\ ~Over'
          /\ hand' = <<Head(outbox)>>
          /\ UNCHANGED <<kind, seen, dropped, queued, channel, backlog, dec>>
        BY <1>2, <1>10 DEF SendMustWait, Full, Closed, Over, OrderInv
    <2>2. Head(outbox) \in Item
        BY <1>1, <2>1, HeadTailProperties
    <2>3. Folded = Sent
        BY <1>4, <2>1 DEF Folded, Kept
    <2>4. hand' \o backlog' = <<Head(outbox)>>
        BY <2>1, <2>2, ConcatEmptySeq
    <2>5. Folded' = Sent \o <<Head(outbox)>>
        BY <2>1, <2>4 DEF Folded, Kept, Sent
    <2>6. Folded' = Append(Folded, Head(outbox))
        BY <1>3, <2>2, <2>3, <2>5, AppendIsConcat
    <2> QED  BY <2>1, <2>6, OfferIsTaken
<1>11. CASE WaitRoom \/ DrainRoom
    <2>1. /\ channel' = channel \o hand /\ hand' = <<>> /\ ~Over /\ ~Over'
          /\ UNCHANGED <<kind, seen, dropped, queued, backlog, dec>>
        BY <1>11 DEF WaitRoom, DrainRoom, Over
    <2>2. Sent' = Sent \o hand
        <3>0. queued \in Seq(Item) /\ channel \in Seq(Item) /\ hand \in Seq(Item)
            BY <1>1
        <3>1. (queued \o channel) \o hand = queued \o (channel \o hand)
            BY <3>0, ConcatAssociative
        <3>2. Sent' = queued \o (channel \o hand)
            BY <2>1 DEF Sent
        <3> QED  BY <3>1, <3>2 DEF Sent
    <2>3. (Sent \o hand) \o backlog = Sent \o (hand \o backlog)
        BY <1>1, <1>3, ConcatAssociative
    <2>4. Folded' = Folded
        <3>1. Kept = hand \o backlog /\ Kept' = backlog
            BY <1>4, <2>1 DEF Kept
        <3> QED  BY <2>1, <2>2, <2>3, <3>1 DEF Folded
    <2> QED  BY <2>1, <2>4, StaysPut
<1>12. CASE DrainPop
    <2>1. /\ backlog # <<>> /\ hand = <<>> /\ ~Over /\ ~Over'
          /\ hand' = <<Head(backlog)>> /\ backlog' = Tail(backlog)
          /\ UNCHANGED <<kind, seen, dropped, queued, channel, dec>>
        BY <1>12 DEF DrainPop, IsBackedUp, Over
    <2>2. hand' \o backlog' = backlog
        BY <1>1, <2>1, HeadAndTail
    <2>3. Folded' = Folded
        BY <1>4, <2>1, <2>2 DEF Folded, Kept, Sent
    <2> QED  BY <2>1, <2>3, StaysPut
<1>13. CASE Recv \/ TryRecv
    <2>1. /\ channel # <<>> /\ channel' = Tail(channel) /\ dec # "dead" /\ dec' # "dead"
          /\ UNCHANGED <<kind, seen, dropped, hand, backlog, acq>>
        BY <1>13 DEF Recv, TryRecv
    <2>2. queued' = Append(queued, Head(channel))
        <3>1. CASE Recv
            <4>1. queued = <<>> /\ queued' = <<Head(channel)>>
                BY <1>2, <3>1 DEF Recv
            <4> QED  BY <4>1
        <3>2. CASE TryRecv
            BY <3>2 DEF TryRecv
        <3> QED  BY <1>13, <3>1, <3>2
    <2>3. Sent' = Sent
        BY <1>1, <2>1, <2>2, HeadAcross DEF Sent
    <2>4. Folded' = Folded /\ (Over' <=> Over)
        BY <2>1, <2>3 DEF Folded, Kept, Over
    <2> QED  BY <2>1, <2>4, StaysPut
<1>14. CASE DecodeRestart \/ DecodePacket
    <2>1. /\ queued # <<>> /\ dec # "dead" /\ dec' # "dead"
          /\ seen' = Append(seen, Head(queued)) /\ queued' = Tail(queued)
          /\ UNCHANGED <<kind, channel, hand, backlog, dropped, acq>>
        BY <1>14 DEF DecodeRestart, DecodePacket
    <2>2. Over' <=> Over
        BY <2>1 DEF Over
    <2> QED  BY <2>1, <2>2, FirstIsTaken
<1>15. CASE DecoderDies
    <2>1. dec # "dead" /\ dec' = "dead" /\ UNCHANGED <<kind, seen, dropped, acq>>
        BY <1>15 DEF DecoderDies
    <2>2. Q!Die
        BY <2>1 DEF Q!Die, Over
    <2> QED  BY <2>2 DEF QueueStep, Q!QNext
<1>16. ASSUME \/ OpenStopped \/ StopSeen \/ Gone \/ SelectStop \/ SelectClosed \/ WaitStop \/ DrainDone
              \/ GuardDrop \/ SenderDrop \/ Refused \/ Cancelled
       PROVE  QueueStep
    <2>1. Over' /\ UNCHANGED <<kind, seen, dropped, queued, channel, dec>>
        BY <1>16 DEF OpenStopped, StopSeen, Gone, SelectStop, SelectClosed, WaitStop, DrainDone,
                     GuardDrop, SenderDrop, Refused, Cancelled, Over
    <2> QED  BY <1>6, <2>1, TaskCloses
<1>17. ASSUME \/ Connect \/ BeginFlush \/ FlushDone \/ SelectRoom \/ SourceEnds \/ ChunkDone
              \/ \E restarted \in BOOLEAN, n \in 0..ChunkPackets : ReadChunk(restarted, n)
       PROVE  QueueStep
    <2>1. /\ UNCHANGED <<kind, seen, dropped, queued, channel, hand, backlog, dec>>
          /\ ~Over /\ ~Over'
        BY <1>17 DEF Connect, BeginFlush, FlushDone, SelectRoom, SourceEnds, ChunkDone, ReadChunk,
                     CanRead, Over
    <2> QED  BY <1>5, <2>1
<1>18. ASSUME NEW transient \in BOOLEAN, ReadFails(transient)
       PROVE  QueueStep
    <2>1. UNCHANGED <<kind, seen, dropped, queued, channel, hand, backlog, dec>> /\ ~Over
        BY <1>18 DEF ReadFails, CanRead, Over
    <2>2. CASE Over'
        BY <2>1, <2>2, TaskCloses
    <2>3. CASE ~Over'
        BY <1>5, <2>1, <2>3
    <2> QED  BY <2>2, <2>3
<1>19. ASSUME \/ BatchDrained \/ BatchDone \/ DecodeEnds \/ ShutdownOutcome \/ ShutdownRunning
              \/ ShutdownStop \/ UNCHANGED vars
       PROVE  QueueStep
    <2>1. /\ UNCHANGED <<kind, seen, dropped, queued, channel, hand, backlog, acq>>
          /\ dec' = "dead" <=> dec = "dead"
        BY <1>19 DEF BatchDrained, BatchDone, DecodeEnds, ShutdownOutcome, ShutdownRunning,
                     ShutdownStop, vars
    <2>2. Over' <=> Over
        BY <2>1 DEF Over
    <2> QED  BY <1>5, <2>1, <2>2
<1> QED
    BY <1>7, <1>8, <1>9, <1>10, <1>11, <1>12, <1>13, <1>14, <1>15, <1>16, <1>17, <1>18, <1>19
       DEF Next, Acquire, Environment, Decode, ShutdownContinues

\* The channel, the ring, the hand and the batch are one bounded queue that
\* loses nothing while it has room, loses only packets, oldest first from its
\* newest Depth, counts each, and hands over the rest in order.
THEOREM SessionIsOneQueue == Spec => Refined
<1>1. Init => Q!QInit
    <2> SUFFICES ASSUME Init PROVE Q!QInit
        OBVIOUS
    <2>1. <<>> \o <<>> = <<>>
        BY EmptySeq, ConcatEmptySeq
    <2> QED  BY <2>1 DEF Init, Over, Q!QInit
<1>2. QueueStep => [Q!QNext]_(Q!qvars)
    BY DEF QueueStep
<1> QED
    BY <1>1, <1>2, EveryStepIsAQueueStep, RingInitially, RingInductive, OrderAlways, TypeCorrect,
       AccountInductive, PTL DEF Spec, Refined, Q!QSpec
============================================================================
