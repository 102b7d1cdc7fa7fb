--------------------------- MODULE AudioPathProofs ---------------------------
(* Proofs about AudioPath for any number of captures and fills, any capacity  *)
(* and any steps of the source's clock: its types, that its threads use the   *)
(* queue as BlockQueue allows, that each block goes over once, in order, fresh *)
(* and without a gap that is not counted, and that the report counts right.   *)
EXTENDS AudioPath, BlockQueueProofs, FiniteSetTheorems

USE BlockAssumption, ClockAssumption, TickAssumption

-----------------------------------------------------------------------------
(* The counters.                                                             *)

LEMMA CounterFields ==
    ASSUME NEW s \in Counters
    PROVE  /\ s.ticks \in Nat /\ s.idle \in Nat /\ s.silent \in Nat /\ s.longest \in Nat
           /\ s.jumps \in Nat /\ s.run \in Nat /\ s.last \in Nat
BY DEF Counters

LEMMA StatsKeepTypes ==
    ASSUME NEW s \in Counters, NEW level, NEW ts \in Nat
    PROVE  /\ StatsIdle(s) \in Counters /\ StatsSlip(s) \in Counters
           /\ StatsBlock(s, level) \in Counters /\ StatsTimestamp(s, ts) \in Counters
<1>1. StatsIdle(s) \in Counters
  <2>1. \A n \in Nat : [s EXCEPT !.idle = n, !.last = 0] \in Counters BY DEF Counters
  <2>2. s.idle + 1 \in Nat BY CounterFields
  <2>3. QED BY <2>1, <2>2 DEF StatsIdle
<1>2. StatsSlip(s) \in Counters
  <2>1. \A n \in Nat : [s EXCEPT !.jumps = n] \in Counters BY DEF Counters
  <2>2. QED BY <2>1, CounterFields, SMTT(60) DEF StatsSlip
<1>3. StatsBlock(s, level) \in Counters
  <2>1. \A n, q, r, l \in Nat :
            [s EXCEPT !.ticks = n, !.silent = q, !.run = r, !.longest = l] \in Counters
    BY DEF Counters
  <2>2. \A n \in Nat : [s EXCEPT !.ticks = n, !.run = 0] \in Counters BY DEF Counters
  <2>3. /\ s.ticks + 1 \in Nat /\ s.silent + 1 \in Nat /\ s.run + 1 \in Nat
        /\ (IF s.run + 1 > s.longest THEN s.run + 1 ELSE s.longest) \in Nat
    BY CounterFields
  <2>4. CASE level = "zero" BY <2>1, <2>3, <2>4 DEF StatsBlock
  <2>5. CASE level # "zero" BY <2>2, <2>3, <2>5 DEF StatsBlock
  <2>6. QED BY <2>4, <2>5
<1>4. StatsTimestamp(s, ts) \in Counters
  <2>1. \A n \in Nat : [s EXCEPT !.last = ts, !.jumps = n] \in Counters BY DEF Counters
  <2>2. (IF s.last # 0 /\ OutOfStep(s.last, ts) THEN s.jumps + 1 ELSE s.jumps) \in Nat
    BY CounterFields
  <2>3. QED BY <2>1, <2>2 DEF StatsTimestamp
<1>5. QED BY <1>1, <1>2, <1>3, <1>4

-----------------------------------------------------------------------------
(* What a capture and a fill do, whichever kind they are.                    *)

Captured ==
    /\ Push(Len(source) + 1) /\ Len(source) + 1 \in Block
    /\ stats' \in Counters /\ clock' \in Nat /\ clock <= clock'
    /\ \E t \in Heard : t.ts <= clock' /\ source' = Append(source, t)
    /\ UNCHANGED <<dev, opens, played, mark, flushed>>

LEMMA QueuedCounts ==
    ASSUME NEW s \in Counters, Queued(s)
    PROVE  Push(Len(source) + 1) /\ stats' \in Counters
BY StatsKeepTypes DEF Queued

LEMMA CaptureCaptures == ASSUME TypeOK, CaptureStep PROVE Captured
<1>0. /\ stats \in Counters /\ clock \in Nat /\ Len(source) \in Nat
      /\ dev \in Tapped => opens \in 1..2
  BY DEF TypeOK, Tapped, DevStates
<1>1. CASE CaptureIdle
  <2> DEFINE t == [ts |-> 0, live |-> FALSE, zero |-> TRUE, open |-> opens]
  <2>1. t \in Heard /\ t.ts <= clock BY <1>0, <1>1 DEF CaptureIdle, Heard
  <2>2. Push(Len(source) + 1) /\ stats' \in Counters
    BY <1>0, <1>1, StatsKeepTypes, QueuedCounts DEF CaptureIdle
  <2>3. Len(source) + 1 \in Block BY <1>0, <1>1 DEF CaptureIdle
  <2>4. source' = Append(source, t) /\ UNCHANGED <<dev, opens, clock, played, mark, flushed>>
    BY <1>1 DEF CaptureIdle
  <2>5. QED BY <1>0, <2>1, <2>2, <2>3, <2>4 DEF Captured
<1>2. ASSUME NEW level \in Levels, NEW step \in Advance, CaptureLive(level, step) PROVE Captured
  <2> DEFINE t == [ts |-> clock', live |-> TRUE, zero |-> level = "zero", open |-> opens]
  <2>1. clock' \in Nat /\ clock <= clock' BY <1>0, <1>2 DEF CaptureLive
  <2>2. t \in Heard /\ t.ts <= clock'
    <3>1. opens \in 1..2 BY <1>0, <1>2 DEF CaptureLive
    <3>2. (level = "zero") \in BOOLEAN OBVIOUS
    <3>3. QED BY <2>1, <3>1, <3>2 DEF Heard
  <2>3. Push(Len(source) + 1) /\ stats' \in Counters
    <3>1. StatsTimestamp(StatsBlock(stats, level), clock') \in Counters
      BY <1>0, <2>1, StatsKeepTypes
    <3>2. QED BY <1>2, <3>1, QueuedCounts DEF CaptureLive
  <2>4. Len(source) + 1 \in Block BY <1>0, <1>2 DEF CaptureLive
  <2>5. source' = Append(source, t) /\ UNCHANGED <<dev, opens, played, mark, flushed>>
    BY <1>2 DEF CaptureLive
  <2>6. QED BY <2>1, <2>2, <2>3, <2>4, <2>5 DEF Captured
<1>3. ASSUME NEW level \in Levels, CaptureUntimed(level) PROVE Captured
  <2> DEFINE t == [ts |-> 0, live |-> TRUE, zero |-> level = "zero", open |-> opens]
  <2>1. t \in Heard /\ t.ts <= clock
    <3>1. opens \in 1..2 BY <1>0, <1>3 DEF CaptureUntimed
    <3>2. (level = "zero") \in BOOLEAN OBVIOUS
    <3>3. QED BY <1>0, <3>1, <3>2 DEF Heard
  <2>2. Push(Len(source) + 1) /\ stats' \in Counters
    <3>1. StatsBlock(stats, level) \in Counters BY <1>0, StatsKeepTypes
    <3>2. QED BY <1>3, <3>1, QueuedCounts DEF CaptureUntimed
  <2>3. Len(source) + 1 \in Block BY <1>0, <1>3 DEF CaptureUntimed
  <2>4. source' = Append(source, t) /\ UNCHANGED <<dev, opens, clock, played, mark, flushed>>
    BY <1>3 DEF CaptureUntimed
  <2>5. QED BY <1>0, <2>1, <2>2, <2>3, <2>4 DEF Captured
<1>4. QED BY <1>1, <1>2, <1>3 DEF CaptureStep

\* Main-thread steps other than clear() leave queue, histories and counters alone.
Handled == UNCHANGED <<queueVars, stats, clock, source, played, flushed>>

LEMMA MainHandles ==
    ASSUME MainStep
    PROVE  \/ Handled
           \/ Clear /\ flushed' = flushed + size /\ UNCHANGED <<stats, clock, source, played>>
BY DEF MainStep, OpenDevice, ClearQueue, AddTap, Connect, Disconnect, RemoveTap, CloseDevice, Handled

\* The threads use the queue as its class offers it, whatever their schedules.
LEMMA StepUsesQueue == ASSUME TypeOK, [Next]_vars PROVE [QueueNext]_queueVars
<1>1. CASE MainStep BY <1>1, MainHandles DEF Handled, QueueNext
<1>2. CASE CaptureStep BY <1>2, CaptureCaptures DEF Captured, QueueNext
<1>3. CASE FillAudio BY <1>3 DEF FillAudio, QueueNext
<1>4. CASE UNCHANGED vars BY <1>4 DEF vars
<1>5. QED BY <1>1, <1>2, <1>3, <1>4 DEF Next

LEMMA StartsInQueue == Init => QueueInit BY DEF Init

-----------------------------------------------------------------------------
(* Types.                                                                    *)

LEMMA InitTypesOK == Init => TypeOK
<1> SUFFICES ASSUME Init PROVE TypeOK OBVIOUS
<1>1. QueueTypeOK BY InitTypes DEF Init
<1>2. stats \in Counters BY DEF Init, NoStats, Counters
<1>3. /\ source \in Seq(Heard) /\ Len(source) = 0 /\ played \in Seq(Answer) /\ Len(played) = 0
  BY DEF Init
<1>4. QED BY <1>1, <1>2, <1>3 DEF TypeOK, Init, DevStates, Captures, Fills

LEMMA CapturedTypes == ASSUME TypeOK, QueueTypeOK', Captured PROVE TypeOK'
<1>1. PICK t \in Heard : t.ts <= clock' /\ source' = Append(source, t) BY DEF Captured
<1>2. /\ source \in Seq(Heard) /\ Len(source) \in Nat /\ Len(source) + 1 <= MaxCaptures
      /\ clock \in Nat /\ clock' \in Nat /\ clock <= clock'
  BY DEF TypeOK, Captured
<1>3. source' \in Seq(Heard) /\ Len(source') = Len(source) + 1 BY <1>1, <1>2
<1>4. \A k \in 1..Len(source') : source'[k].ts <= clock'
  <2> SUFFICES ASSUME NEW k \in 1..Len(source') PROVE source'[k].ts <= clock' OBVIOUS
  <2>1. CASE k = Len(source) + 1 BY <1>1, <1>2, <2>1
  <2>2. CASE k # Len(source) + 1
    <3>1. k \in 1..Len(source) /\ source'[k] = source[k] BY <1>1, <1>2, <1>3, <2>2
    <3>2. source[k] \in Heard /\ source[k].ts <= clock BY <1>2, <3>1 DEF TypeOK, Captures
    <3>3. source[k].ts \in Nat BY <3>2 DEF Heard
    <3>4. QED BY <1>2, <3>1, <3>2, <3>3
  <2>3. QED BY <2>1, <2>2
<1>5. \A i \in Fills' : played'[i].at <= Len(source')
  <2> SUFFICES ASSUME NEW i \in Fills PROVE played[i].at <= Len(source) + 1
    BY <1>3 DEF Captured, Fills
  <2>1. played[i] \in Answer /\ played[i].at <= Len(source) BY DEF TypeOK, Fills
  <2>2. played[i].at \in Nat BY <2>1 DEF Answer
  <2>3. QED BY <1>2, <2>1, <2>2
<1>6. QED BY <1>2, <1>3, <1>4, <1>5 DEF TypeOK, Captured, Captures, Fills

LEMMA FillTypes == ASSUME TypeOK, QueueTypeOK', FillAudio PROVE TypeOK'
<1> DEFINE a == [got |-> reply'.got, out |-> reply'.out, at |-> Len(source)]
<1>1. reply'.got \in {"Priming", "Empty", "Ok"} /\ reply'.out \in Block \cup {NoBlock}
  <2>1. reply' \in Replies BY DEF QueueTypeOK
  <2>2. reply'.got \in {"Priming", "Empty", "Ok"}
    BY DEF FillAudio, Pop, PopOk, PopNothing, PopGot
  <2>3. QED BY <2>1, <2>2 DEF Replies
<1>2. /\ source \in Seq(Heard) /\ Len(source) \in Nat /\ played \in Seq(Answer)
      /\ stats \in Counters
  BY DEF TypeOK
<1>3. a \in Answer BY <1>1, <1>2 DEF Answer
<1>4. played' = Append(played, a) /\ UNCHANGED <<dev, opens, clock, source, mark, flushed>>
  BY DEF FillAudio
<1>5. played' \in Seq(Answer) /\ Len(played') = Len(played) + 1 BY <1>2, <1>3, <1>4
<1>6. stats' \in Counters BY <1>2, StatsKeepTypes DEF FillAudio
<1>7. \A i \in 1..Len(played') : played'[i].at <= Len(source)
  <2> SUFFICES ASSUME NEW i \in 1..Len(played') PROVE played'[i].at <= Len(source) OBVIOUS
  <2>1. CASE i = Len(played) + 1 BY <1>2, <1>4, <2>1
  <2>2. CASE i # Len(played) + 1
    <3>1. i \in 1..Len(played) /\ played'[i] = played[i] BY <1>2, <1>4, <1>5, <2>2
    <3>2. QED BY <3>1 DEF TypeOK, Fills
  <2>3. QED BY <2>1, <2>2
<1>8. mark \in 0..Len(played') BY <1>2, <1>5 DEF TypeOK
<1>9. QED BY <1>4, <1>5, <1>6, <1>7, <1>8 DEF TypeOK, Captures, Fills

LEMMA MainTypes == ASSUME TypeOK, QueueTypeOK', MainStep PROVE TypeOK'
<1>1. /\ UNCHANGED <<stats, clock, source, played>>
      /\ flushed' = flushed \/ flushed' = flushed + size
  BY MainHandles DEF Handled
<1>2. flushed' \in Nat BY <1>1 DEF TypeOK, QueueTypeOK
<1>3. dev' \in DevStates
  BY DEF MainStep, OpenDevice, ClearQueue, AddTap, Connect, Disconnect, RemoveTap, CloseDevice, DevStates
<1>4. opens' \in 0..2 /\ (dev' # "closed" => opens' > 0)
  BY DEF TypeOK, MainStep, OpenDevice, ClearQueue, AddTap, Connect, Disconnect, RemoveTap, CloseDevice
<1>5. mark' \in 0..Len(played')
  <2>1. mark' \in {mark, Len(played)}
    BY DEF MainStep, OpenDevice, ClearQueue, AddTap, Connect, Disconnect, RemoveTap, CloseDevice
  <2>2. Len(played) \in Nat BY DEF TypeOK
  <2>3. QED BY <1>1, <2>1, <2>2 DEF TypeOK
<1>6. QED BY <1>1, <1>2, <1>3, <1>4, <1>5 DEF TypeOK, Captures, Fills

LEMMA StepTypesOK == ASSUME TypeOK, [Next]_vars PROVE TypeOK'
<1>1. QueueTypeOK' BY StepUsesQueue, NextKeepsTypes DEF TypeOK
<1>2. CASE MainStep BY <1>1, <1>2, MainTypes
<1>3. CASE CaptureStep BY <1>1, <1>3, CaptureCaptures, CapturedTypes
<1>4. CASE FillAudio BY <1>1, <1>4, FillTypes
<1>5. CASE UNCHANGED vars BY <1>1, <1>5 DEF vars, TypeOK, Captures, Fills
<1>6. QED BY <1>2, <1>3, <1>4, <1>5 DEF Next

LEMMA TypesHold == Spec => []TypeOK
<1>1. TypeOK /\ [Next]_vars => TypeOK' BY StepTypesOK
<1>2. QED BY InitTypesOK, <1>1, PTL DEF Spec

\* Between the threads of the hand-over, whatever their schedules and however
\* often the device is reopened, the ring buffer is a drop-oldest queue.
THEOREM HandoverKeepsQueue == Spec => ImplementsDropOldest
<1>1. TypeOK /\ [Next]_vars => [Abstract!Next]_(Abstract!qvars)
  BY StepUsesQueue, NextRefines DEF TypeOK
<1>2. Init => Abstract!Init BY StartsInQueue, InitRefines
<1>3. QED BY TypesHold, <1>1, <1>2, PTL DEF Spec, ImplementsDropOldest, Abstract!Spec

-----------------------------------------------------------------------------
(* Order.  What was taken is older than everything that waits, because the    *)
(* queue holds the newest captures.                                           *)

TakenBefore == \A i \in Fills : Taken(i) => played[i].out <= Len(source) - size

LEMMA WaitingSeq ==
    ASSUME QueueTypeOK
    PROVE  Waiting \in Seq(Content) /\ Len(Waiting) = size /\ size \in 0..Capacity
BY WaitingBlocks, BlocksAreSeq

LEMMA PushIsNewest ==
    ASSUME TypeOK, QueueIsNewest, Push(Len(source) + 1), Len(source) + 1 \in Block,
           Len(source') = Len(source) + 1, QueueTypeOK'
    PROVE  QueueIsNewest' /\ Len(source') - size' >= Len(source) - size
<1> DEFINE b == Len(source) + 1
<1>1. /\ Waiting \in Seq(Content) /\ Len(Waiting) = size /\ size \in 0..Capacity
      /\ b \in Content /\ Len(source) \in Nat
  BY WaitingSeq DEF TypeOK, Content
<1>2. \A i \in 1..size : Waiting[i] = Len(source) - size + i BY DEF QueueIsNewest
<1>3. CASE PushKept(b)
  <2>1. Waiting' = Append(Waiting, b) BY <1>3, KeptAppends DEF TypeOK
  <2>2. size' = size + 1 BY <1>3 DEF PushKept
  <2>3. ASSUME NEW i \in 1..size' PROVE Waiting'[i] = Len(source') - size' + i
    <3>1. CASE i = size + 1 BY <1>1, <2>1, <2>2, <3>1
    <3>2. CASE i # size + 1
      <4>1. i \in 1..size BY <1>1, <2>2, <3>2
      <4>2. Waiting'[i] = Waiting[i] BY <1>1, <2>1, <4>1
      <4>3. QED BY <1>1, <1>2, <2>2, <4>1, <4>2
    <3>3. QED BY <3>1, <3>2
  <2>4. QED BY <1>1, <2>2, <2>3 DEF QueueIsNewest
<1>4. CASE PushDropping(b)
  <2>1. Waiting # <<>> /\ size = Capacity /\ Waiting' = Append(Tail(Waiting), b)
    BY <1>4, DroppingShifts DEF TypeOK
  <2>2. size' = size BY <1>4 DEF PushDropping
  <2>3. /\ Tail(Waiting) \in Seq(Content) /\ Len(Tail(Waiting)) = size - 1
        /\ \A i \in 1..size - 1 : Tail(Waiting)[i] = Waiting[i + 1]
    BY <1>1, <2>1
  <2>4. ASSUME NEW i \in 1..size PROVE Waiting'[i] = Len(source') - size' + i
    <3>1. CASE i = size BY <1>1, <2>1, <2>2, <2>3, <3>1
    <3>2. CASE i # size
      <4>1. i \in 1..size - 1 /\ i + 1 \in 1..size BY <1>1, <3>2
      <4>2. Waiting'[i] = Waiting[i + 1] BY <1>1, <2>1, <2>3, <4>1
      <4>3. QED BY <1>1, <1>2, <2>2, <4>1, <4>2
    <3>3. QED BY <3>1, <3>2
  <2>5. QED BY <1>1, <2>2, <2>4 DEF QueueIsNewest
<1>5. QED BY <1>3, <1>4 DEF Push

LEMMA PopIsOldest ==
    ASSUME TypeOK, QueueIsNewest, PopOk, UNCHANGED source
    PROVE  /\ QueueIsNewest' /\ size' = size - 1
           /\ reply'.out = Len(source) - size + 1
<1>1. /\ Waiting \in Seq(Content) /\ Len(Waiting) = size /\ size \in 0..Capacity
      /\ Len(source) \in Nat
  BY WaitingSeq DEF TypeOK
<1>2. \A i \in 1..size : Waiting[i] = Len(source) - size + i BY DEF QueueIsNewest
<1>3. Waiting # <<>> /\ reply'.out = Head(Waiting) /\ Waiting' = Tail(Waiting)
  BY PopRemovesOldest DEF TypeOK
<1>4. size' = size - 1 BY DEF PopOk
<1>5. size \in 1..Capacity BY <1>1, <1>3
<1>6. reply'.out = Len(source) - size + 1
  <2>1. Head(Waiting) = Waiting[1] BY <1>1, <1>3
  <2>2. QED BY <1>1, <1>2, <1>3, <1>5, <2>1
<1>7. ASSUME NEW i \in 1..size' PROVE Waiting'[i] = Len(source') - size' + i
  <2>1. i + 1 \in 1..size BY <1>1, <1>4
  <2>2. Waiting'[i] = Waiting[i + 1] BY <1>1, <1>3, <1>4
  <2>3. QED BY <1>1, <1>2, <1>4, <2>1, <2>2
<1>8. QED BY <1>4, <1>6, <1>7 DEF QueueIsNewest

LEMMA AnswerOut == ASSUME TypeOK, NEW i \in Fills PROVE played[i].out \in Nat
<1>1. played[i] \in Answer BY DEF TypeOK, Fills
<1>2. played[i].out \in 1..MaxCaptures \cup {0} BY <1>1 DEF Answer
<1>3. QED BY <1>2

\* The part of the order that a queue of the newest captures makes of TakenBefore.
Increasing == \A i, j \in Fills : i < j /\ Taken(i) /\ Taken(j) => played[i].out < played[j].out

LEMMA OrderFollows ==
    ASSUME TypeOK, QueueIsNewest, TakenBefore, Increasing PROVE TakenOnceInOrder
<1> SUFFICES ASSUME NEW i \in Fills, NEW k \in 1..size, Taken(i) PROVE played[i].out < Waiting[k]
  BY DEF Increasing, TakenOnceInOrder
<1>1. Waiting[k] = Len(source) - size + k /\ played[i].out <= Len(source) - size
  BY DEF QueueIsNewest, TakenBefore
<1>2. played[i].out \in Nat /\ Len(source) \in Nat /\ size \in Nat
  BY AnswerOut DEF TypeOK, QueueTypeOK
<1>3. QED BY <1>1, <1>2

OrderInv == TypeOK /\ QueueIsNewest /\ TakenBefore /\ Increasing

LEMMA InitOrder == Init => OrderInv
<1> SUFFICES ASSUME Init PROVE OrderInv OBVIOUS
<1>1. size = 0 /\ Len(played) = 0 BY DEF Init, QueueInit
<1>2. QED BY <1>1, InitTypesOK DEF OrderInv, QueueIsNewest, TakenBefore, Increasing, Fills

\* Answers that stay, as the captures go on.
LEMMA AnswersStay ==
    ASSUME TypeOK, TakenBefore, Increasing, UNCHANGED played,
           size' \in Nat, Len(source') \in Nat, Len(source') - size' >= Len(source) - size
    PROVE  TakenBefore' /\ Increasing'
<1>1. \A i \in Fills : played[i].out \in Nat BY AnswerOut
<1>2. Len(source) \in Nat /\ size \in Nat BY DEF TypeOK, QueueTypeOK
<1>3. TakenBefore' BY <1>1, <1>2 DEF TakenBefore, Fills, Taken
<1>4. Increasing' BY DEF Increasing, Fills, Taken
<1>5. QED BY <1>3, <1>4

LEMMA FillOrders == ASSUME OrderInv, FillAudio PROVE QueueIsNewest' /\ TakenBefore' /\ Increasing'
<1> USE DEF OrderInv
<1> DEFINE a == [got |-> reply'.got, out |-> reply'.out, at |-> Len(source)]
<1>1. /\ played' = Append(played, a) /\ UNCHANGED source /\ played \in Seq(Answer)
      /\ Len(played') = Len(played) + 1 /\ Len(played) \in Nat
      /\ Len(source) \in Nat /\ size \in Nat
  BY DEF FillAudio, TypeOK, QueueTypeOK
<1>2. \A i \in Fills : /\ played'[i] = played[i] /\ played[i].out \in Nat
                       /\ Taken(i) => played[i].out <= Len(source) - size
  <2>1. \A i \in Fills : played'[i] = played[i] BY <1>1 DEF Fills
  <2>2. QED BY <2>1, AnswerOut DEF TakenBefore
<1>3. played'[Len(played) + 1] = a BY <1>1
<1>4. Fills' = Fills \cup {Len(played) + 1} BY <1>1 DEF Fills
<1>5. CASE PopOk
  <2>1. QueueIsNewest' /\ size' = size - 1 /\ a.out = Len(source) - size + 1
    BY <1>1, <1>5, PopIsOldest
  <2>2. TakenBefore'
    <3> SUFFICES ASSUME NEW i \in Fills', Taken(i)' PROVE played'[i].out <= Len(source) - size'
      BY <1>1 DEF TakenBefore
    <3>1. CASE i \in Fills
      <4>1. Taken(i) BY <1>2, <3>1 DEF Taken
      <4>2. played'[i].out = played[i].out /\ played[i].out <= Len(source) - size BY <1>2, <3>1, <4>1
      <4>3. played[i].out \in Nat BY <3>1, AnswerOut
      <4>4. played[i].out <= Len(source) - (size - 1) BY <1>1, <4>2, <4>3
      <4>5. QED BY <2>1, <4>2, <4>4
    <3>2. CASE i = Len(played) + 1 BY <1>1, <1>3, <2>1, <3>2
    <3>3. QED BY <1>4, <3>1, <3>2
  <2>3. Increasing'
    <3> SUFFICES ASSUME NEW i \in Fills', NEW j \in Fills', i < j, Taken(i)', Taken(j)'
                 PROVE  played'[i].out < played'[j].out
      BY DEF Increasing
    <3>1. i \in Fills BY <1>1, <1>4 DEF Fills
    <3>2. CASE j \in Fills BY <1>2, <3>1, <3>2 DEF Taken, Increasing
    <3>3. CASE j = Len(played) + 1
      <4>1. Taken(i) BY <1>2, <3>1 DEF Taken
      <4>2. played'[i].out = played[i].out /\ played[i].out <= Len(source) - size BY <1>2, <3>1, <4>1
      <4>3. played[i].out \in Nat BY <3>1, AnswerOut
      <4>4. played'[j].out = Len(source) - size + 1 BY <1>3, <2>1, <3>3
      <4>5. played[i].out < Len(source) - size + 1 BY <1>1, <4>2, <4>3
      <4>6. QED BY <4>2, <4>4, <4>5
    <3>4. QED BY <1>4, <3>2, <3>3
  <2>4. QED BY <2>1, <2>2, <2>3
<1>6. CASE PopNothing
  <2>1. a.got # "Ok" /\ UNCHANGED <<ring, head, size>> BY <1>6 DEF PopNothing, ringVars
  <2>2. QueueIsNewest' BY <1>1, <2>1 DEF QueueIsNewest, Waiting
  <2>3. \A i \in Fills' : Taken(i)' => i \in Fills BY <1>3, <1>4, <2>1 DEF Taken
  <2>4. TakenBefore' BY <1>1, <1>2, <2>1, <2>3 DEF TakenBefore, Taken
  <2>5. Increasing' BY <1>2, <2>3 DEF Increasing, Taken
  <2>6. QED BY <2>2, <2>4, <2>5
<1>7. QED BY <1>5, <1>6 DEF FillAudio, Pop

LEMMA StepOrders == ASSUME OrderInv, [Next]_vars PROVE OrderInv'
<1> USE DEF OrderInv
<1>1. TypeOK' /\ QueueTypeOK' BY StepTypesOK DEF TypeOK
<1>2. size \in Nat /\ size' \in Nat /\ Len(source) \in Nat /\ Len(source') \in Nat
  BY <1>1 DEF TypeOK, QueueTypeOK
<1>3. CASE Handled \/ UNCHANGED vars
  <2>1. UNCHANGED <<ring, head, size, source, played>> BY <1>3 DEF Handled, vars, queueVars
  <2>2. QueueIsNewest' BY <2>1 DEF QueueIsNewest, Waiting
  <2>3. QED BY <1>1, <1>2, <2>1, <2>2, AnswersStay
<1>4. CASE Clear /\ UNCHANGED <<source, played>>
  <2>1. size' = 0 BY <1>4 DEF Clear
  <2>2. QueueIsNewest' BY <2>1 DEF QueueIsNewest
  <2>3. QED BY <1>1, <1>2, <1>4, <2>1, <2>2, AnswersStay
<1>5. CASE CaptureStep
  <2>1. Captured BY <1>5, CaptureCaptures
  <2>2. Len(source') = Len(source) + 1 /\ UNCHANGED played BY <2>1 DEF Captured, TypeOK
  <2>3. QueueIsNewest' /\ Len(source') - size' >= Len(source) - size
    BY <1>1, <2>1, <2>2, PushIsNewest DEF Captured
  <2>4. QED BY <1>1, <1>2, <2>2, <2>3, AnswersStay
<1>6. CASE FillAudio BY <1>1, <1>6, FillOrders
<1>7. QED BY <1>3, <1>4, <1>5, <1>6, MainHandles DEF Next

\* For any number of ticks on any schedules, and however often the device is
\* reopened: the queue holds the newest captures, and what the recorder's thread
\* took is strictly increasing and older than all that waits, so no block is in
\* the file twice or out of order.
THEOREM HandoverInOrder == Spec => []HandoverIsSafe
<1>1. OrderInv /\ [Next]_vars => OrderInv' BY StepOrders
<1>2. OrderInv => HandoverIsSafe BY OrderFollows DEF OrderInv, HandoverIsSafe
<1>3. QED BY InitOrder, <1>1, <1>2, PTL DEF Spec

-----------------------------------------------------------------------------
(* What a capture does to the counters.                                      *)

\* The counters after a tick that heard t, before the push.
AfterTick(t) ==
    IF ~t.live THEN StatsIdle(stats)
    ELSE LET counted == StatsBlock(stats, IF t.zero THEN "zero" ELSE "sound")
         IN  IF t.ts = 0 THEN counted ELSE StatsTimestamp(counted, t.ts)

CapturedAs(t) ==
    /\ t \in Heard /\ t.open = opens /\ (~t.live => t.ts = 0)
    /\ dev \in Tapped
    /\ Push(Len(source) + 1) /\ Len(source) + 1 \in Block
    /\ stats' = IF reply'.got = "dropped" THEN StatsSlip(AfterTick(t)) ELSE AfterTick(t)
    /\ source' = Append(source, t)
    /\ UNCHANGED <<dev, opens, played, mark, flushed>>

LEMMA SilenceIsZero ==
    ASSUME NEW s, NEW level
    PROVE  StatsBlock(s, level) = StatsBlock(s, IF level = "zero" THEN "zero" ELSE "sound")
BY DEF StatsBlock

LEMMA CaptureHears == ASSUME TypeOK, CaptureStep PROVE \E t \in Heard : CapturedAs(t)
<1>0. /\ stats \in Counters /\ clock \in Nat /\ Len(source) \in Nat
      /\ dev \in Tapped => opens \in 1..2
  BY DEF TypeOK, Tapped, DevStates
<1>1. Len(source) + 1 \in Block BY CaptureCaptures DEF Captured
<1>2. CASE CaptureIdle
  <2> DEFINE t == [ts |-> 0, live |-> FALSE, zero |-> TRUE, open |-> opens]
  <2>1. t \in Heard BY <1>0, <1>2 DEF CaptureIdle, Heard
  <2>2. AfterTick(t) = StatsIdle(stats) BY DEF AfterTick
  <2>3. CapturedAs(t) BY <1>1, <1>2, <2>1, <2>2 DEF CapturedAs, CaptureIdle, Queued
  <2>4. QED BY <2>1, <2>3
<1>3. ASSUME NEW level \in Levels, NEW step \in Advance, CaptureLive(level, step)
      PROVE  \E t \in Heard : CapturedAs(t)
  <2> DEFINE t == [ts |-> clock', live |-> TRUE, zero |-> level = "zero", open |-> opens]
  <2>1. clock' \in Nat /\ clock' # 0 BY <1>0, <1>3 DEF CaptureLive
  <2>2. t \in Heard
    <3>1. opens \in 1..2 BY <1>0, <1>3 DEF CaptureLive
    <3>2. (level = "zero") \in BOOLEAN OBVIOUS
    <3>3. QED BY <2>1, <3>1, <3>2 DEF Heard
  <2>3. AfterTick(t) = StatsTimestamp(StatsBlock(stats, level), clock')
    <3>1. t.live /\ t.ts = clock' /\ t.zero = (level = "zero") OBVIOUS
    <3>2. StatsBlock(stats, level) = StatsBlock(stats, IF t.zero THEN "zero" ELSE "sound")
      BY <3>1, SilenceIsZero
    <3>3. QED BY <2>1, <3>1, <3>2 DEF AfterTick
  <2>4. CapturedAs(t)
    <3>1. t.open = opens /\ t.live OBVIOUS
    <3>2. QED BY <1>1, <1>3, <2>2, <2>3, <3>1 DEF CapturedAs, CaptureLive, Queued
  <2>5. QED BY <2>2, <2>4
<1>4. ASSUME NEW level \in Levels, CaptureUntimed(level) PROVE \E t \in Heard : CapturedAs(t)
  <2> DEFINE t == [ts |-> 0, live |-> TRUE, zero |-> level = "zero", open |-> opens]
  <2>1. t \in Heard
    <3>1. opens \in 1..2 BY <1>0, <1>4 DEF CaptureUntimed
    <3>2. (level = "zero") \in BOOLEAN OBVIOUS
    <3>3. QED BY <3>1, <3>2 DEF Heard
  <2>2. AfterTick(t) = StatsBlock(stats, level)
    <3>1. t.live /\ t.ts = 0 /\ t.zero = (level = "zero") OBVIOUS
    <3>2. StatsBlock(stats, level) = StatsBlock(stats, IF t.zero THEN "zero" ELSE "sound")
      BY <3>1, SilenceIsZero
    <3>3. QED BY <3>1, <3>2 DEF AfterTick
  <2>3. CapturedAs(t)
    <3>1. t.open = opens /\ t.live OBVIOUS
    <3>2. QED BY <1>1, <1>4, <2>1, <2>2, <3>1 DEF CapturedAs, CaptureUntimed, Queued
  <2>4. QED BY <2>1, <2>3
<1>5. QED BY <1>2, <1>3, <1>4 DEF CaptureStep

\* The source's clock did not move by a tick when t was heard.
Slipped(t) == t.ts # 0 /\ stats.last # 0 /\ OutOfStep(stats.last, t.ts)

LEMMA CaptureCounts ==
    ASSUME TypeOK, NEW t \in Heard, CapturedAs(t)
    PROVE  /\ stats'.jumps = stats.jumps + (IF reply'.got = "dropped" THEN 1 ELSE 0)
                                         + (IF Slipped(t) THEN 1 ELSE 0)
           /\ stats'.last = IF ~t.live THEN 0 ELSE IF t.ts = 0 THEN stats.last ELSE t.ts
           /\ stats'.run = IF ~t.live THEN stats.run ELSE IF t.zero THEN stats.run + 1 ELSE 0
           /\ stats'.longest = IF t.live /\ t.zero /\ stats.run + 1 > stats.longest
                               THEN stats.run + 1 ELSE stats.longest
<1> DEFINE a == AfterTick(t)
<1>1. stats \in Counters BY DEF TypeOK
<1>2. t.ts \in Nat /\ t.live \in BOOLEAN /\ t.zero \in BOOLEAN BY DEF Heard
<1>3. /\ a \in Counters
      /\ a.jumps = stats.jumps + (IF Slipped(t) THEN 1 ELSE 0)
      /\ a.last = IF ~t.live THEN 0 ELSE IF t.ts = 0 THEN stats.last ELSE t.ts
      /\ a.run = IF ~t.live THEN stats.run ELSE IF t.zero THEN stats.run + 1 ELSE 0
      /\ a.longest = IF t.live /\ t.zero /\ stats.run + 1 > stats.longest
                     THEN stats.run + 1 ELSE stats.longest
  <2>1. CASE ~t.live
    <3>1. a = StatsIdle(stats) BY <2>1 DEF AfterTick
    <3>2. t.ts = 0 BY <2>1 DEF CapturedAs
    <3>3. a \in Counters BY <1>1, <1>2, <3>1, StatsKeepTypes
    <3>4. QED BY <1>1, <2>1, <3>1, <3>2, <3>3 DEF StatsIdle, Counters, Slipped
  <2>2. CASE t.live
    <3> DEFINE b == StatsBlock(stats, IF t.zero THEN "zero" ELSE "sound")
    <3>1. /\ b \in Counters /\ b.jumps = stats.jumps /\ b.last = stats.last
          /\ b.run = IF t.zero THEN stats.run + 1 ELSE 0
          /\ b.longest = IF t.zero /\ stats.run + 1 > stats.longest
                         THEN stats.run + 1 ELSE stats.longest
      <4>1. b \in Counters BY <1>1, <1>2, StatsKeepTypes
      <4>2. QED BY <1>1, <1>2, <4>1 DEF StatsBlock, Counters
    <3> HIDE DEF b
    <3>2. CASE t.ts = 0
      <4>1. a = b BY <2>2, <3>2 DEF AfterTick, b
      <4>2. ~Slipped(t) BY <3>2 DEF Slipped
      <4>3. b.jumps = stats.jumps + 0 BY <1>1, <3>1, CounterFields
      <4>4. QED BY <2>2, <3>1, <3>2, <4>1, <4>2, <4>3
    <3>3. CASE t.ts # 0
      <4>1. a = StatsTimestamp(b, t.ts) BY <2>2, <3>3 DEF AfterTick, b
      <4>2. StatsTimestamp(b, t.ts) \in Counters BY <1>2, <3>1, StatsKeepTypes
      <4>3. /\ a.jumps = IF Slipped(t) THEN b.jumps + 1 ELSE b.jumps
            /\ a.last = t.ts /\ a.run = b.run /\ a.longest = b.longest
        BY <3>1, <3>3, <4>1, <4>2 DEF StatsTimestamp, Counters, Slipped
      <4>4. b.jumps \in Nat BY <3>1, CounterFields
      <4>5. QED BY <2>2, <3>1, <3>3, <4>1, <4>2, <4>3, <4>4
    <3>4. QED BY <3>2, <3>3
  <2>3. QED BY <1>2, <2>1, <2>2
<1> HIDE DEF a
<1>4. CASE reply'.got = "dropped"
  <2>1. stats' = StatsSlip(a) BY <1>4 DEF CapturedAs, a
  <2>2. a.jumps \in Nat /\ stats.jumps \in Nat BY <1>1, <1>3, CounterFields
  <2>3. /\ stats'.jumps = a.jumps + 1 /\ stats'.last = a.last
        /\ stats'.run = a.run /\ stats'.longest = a.longest
    BY <1>3, <2>1 DEF StatsSlip, Counters
  <2>4. QED BY <1>3, <1>4, <2>2, <2>3
<1>5. CASE reply'.got # "dropped"
  <2>1. stats' = a BY <1>5 DEF CapturedAs, a
  <2>2. a.jumps \in Nat /\ stats.jumps \in Nat BY <1>1, <1>3, CounterFields
  <2>3. QED BY <1>3, <1>5, <2>1, <2>2
<1>6. QED BY <1>4, <1>5

\* ... and a fill to them.
LEMMA FillCounts ==
    ASSUME TypeOK, FillAudio
    PROVE  /\ stats'.jumps = stats.jumps + (IF reply'.got = "Empty" THEN 1 ELSE 0)
           /\ stats'.last = stats.last /\ stats'.run = stats.run /\ stats'.longest = stats.longest
<1>1. stats \in Counters /\ stats.jumps \in Nat BY CounterFields DEF TypeOK
<1>2. CASE reply'.got = "Empty"
  <2>1. stats' = StatsSlip(stats) BY <1>2 DEF FillAudio
  <2>2. QED BY <1>1, <1>2, <2>1 DEF StatsSlip, Counters
<1>3. CASE reply'.got # "Empty" BY <1>1, <1>3 DEF FillAudio
<1>4. QED BY <1>2, <1>3
-----------------------------------------------------------------------------
(* The blocks in the file: fresh, seamless and in time.                      *)

LEMMA PushDoes ==
    ASSUME NEW b, Push(b)
    PROVE  /\ primed' = (primed \/ size' >= Prime)
           /\ \/ reply'.got = "dropped" /\ size' = size /\ size = Capacity
              \/ reply'.got = "kept" /\ size' = size + 1
BY DEF Push, PushKept, PushDropping, Full

LEMMA PopDoes ==
    ASSUME TypeOK, QueueIsNewest, FillAudio
    PROVE  /\ primed' = primed /\ UNCHANGED <<dev, opens, source, mark, flushed>>
           /\ played' = Append(played, [got |-> reply'.got, out |-> reply'.out, at |-> Len(source)])
           /\ reply'.got = PopGot
           /\ PopGot = "Ok" => /\ primed /\ size >= 1 /\ size' = size - 1
                               /\ reply'.out = Len(source) - size + 1
           /\ PopGot # "Ok" => size' = size
           /\ PopGot = "Empty" => primed /\ size = 0
<1>1. size \in Nat BY DEF TypeOK, QueueTypeOK
<1>2. CASE PopOk
  <2>1. size' = size - 1 /\ reply'.out = Len(source) - size + 1 /\ reply'.got = "Ok" /\ primed' = primed
    BY <1>2, PopIsOldest DEF FillAudio, PopOk
  <2>2. PopGot = "Ok" /\ primed /\ size # 0 BY <1>2 DEF PopOk, PopGot
  <2>3. QED BY <1>1, <2>1, <2>2 DEF FillAudio
<1>3. CASE PopNothing
  <2>1. PopGot # "Ok" /\ reply'.got = PopGot /\ size' = size /\ primed' = primed
    BY <1>3 DEF PopNothing, ringVars
  <2>2. PopGot = "Empty" => primed /\ size = 0 BY DEF PopGot
  <2>3. QED BY <2>1, <2>2 DEF FillAudio
<1>4. QED BY <1>2, <1>3 DEF FillAudio, Pop

\* The device is open for the tap.
Ready == Tapped \cup {"cleared"}

\* What waits was captured since the device was opened last.
QueueIsFresh ==
    /\ size <= Len(source)
    /\ dev \in Ready => \A k \in Len(source) - size + 1..Len(source) : source[k].open = opens
    /\ \A i \in Fills : Taken(i) => played[i].out # 0

\* Without a jump, what the file got last is what the queue gave up last.
NothingBetween ==
    stats.jumps = 0 =>
        \A i \in InFile : Taken(i) =>
            primed /\ Taken(Len(played)) /\ played[Len(played)].out = Len(source) - size

\* A queue that fell below Prime did so by ticks of the device beyond those of OBS,
\* from a block it took on.
FallsByTicks ==
    primed => \/ size >= Prime
              \/ \E j \in Fills : /\ Taken(j)
                                  /\ Prime - 1 - size <= Len(played) - j - (Len(source) - played[j].at)

FileFlow == /\ QueueIsFresh /\ FileIsFresh
            /\ NothingBetween /\ NoJumpsMeansSeamless
            /\ FallsByTicks /\ LateTickIsAbsorbed

LEMMA FlowTypes ==
    ASSUME TypeOK
    PROVE  /\ size \in Nat /\ Len(source) \in Nat /\ Len(played) \in Nat /\ Prime \in Nat /\ Prime > 0
           /\ source \in Seq(Heard) /\ played \in Seq(Answer) /\ primed \in BOOLEAN
           /\ stats.jumps \in Nat /\ mark \in Nat
           /\ \A i \in Fills : played[i] \in Answer /\ played[i].out \in Nat /\ played[i].at \in Nat
<1>1. \A i \in Fills : played[i] \in Answer BY DEF TypeOK, Fills
<1>2. \A i \in Fills : played[i].at \in Nat BY <1>1 DEF Answer
<1>3. stats.jumps \in Nat BY CounterFields DEF TypeOK
<1>4. mark \in Nat BY DEF TypeOK
<1>5. QED BY <1>1, <1>2, <1>3, <1>4, AnswerOut, PrimeAssumption DEF TypeOK, QueueTypeOK

LEMMA InitFlows == Init => FileFlow
<1> SUFFICES ASSUME Init PROVE FileFlow OBVIOUS
<1>1. size = 0 /\ Len(source) = 0 /\ Len(played) = 0 /\ ~primed /\ dev = "closed"
  BY DEF Init, QueueInit
<1>2. Fills = {} BY <1>1 DEF Fills
<1>3. QED BY <1>1, <1>2 DEF FileFlow, QueueIsFresh, FileIsFresh, NothingBetween,
          NoJumpsMeansSeamless, FallsByTicks, LateTickIsAbsorbed, InFile, Ready, Tapped

\* Main-thread steps open and close the file only.
LEMMA MainFlows == ASSUME TypeOK, FileFlow, MainStep PROVE FileFlow'
<1> USE DEF FileFlow
<1>0. /\ size \in Nat /\ Len(source) \in Nat /\ Len(played) \in Nat /\ Prime \in Nat /\ Prime > 0
      /\ source \in Seq(Heard) /\ played \in Seq(Answer) /\ primed \in BOOLEAN
      /\ stats.jumps \in Nat /\ mark \in Nat
      /\ \A i \in Fills : played[i] \in Answer /\ played[i].out \in Nat /\ played[i].at \in Nat
  BY FlowTypes
<1>1. UNCHANGED <<stats, source, played>> BY MainHandles DEF Handled
<1>2. \/ UNCHANGED <<size, primed>>
      \/ ClearQueue /\ size' = 0 /\ ~primed'
  BY DEF MainStep, OpenDevice, ClearQueue, AddTap, Connect, Disconnect, RemoveTap, CloseDevice,
         Clear, queueVars
<1>3. LateTickIsAbsorbed' BY <1>1 DEF LateTickIsAbsorbed, Fills, Taken
<1>4. FallsByTicks' BY <1>1, <1>2 DEF FallsByTicks, Fills, Taken
<1>5. QueueIsFresh'
  <2>1. CASE ClearQueue
    <3>1. size' = 0 BY <2>1 DEF ClearQueue, Clear
    <3>2. QED BY <1>1, <3>1 DEF QueueIsFresh, Fills, Taken
  <2>2. CASE ~ClearQueue
    <3>1. size' = size BY <1>2, <2>2
    <3>2. dev' \in Ready => dev \in Ready /\ opens' = opens
      BY <2>2 DEF MainStep, OpenDevice, AddTap, Connect, Disconnect, RemoveTap, CloseDevice,
                  Ready, Tapped
    <3>3. QED BY <1>1, <3>1, <3>2 DEF QueueIsFresh, Fills, Taken
  <2>3. QED BY <2>1, <2>2
<1>6. InFile' = {}
  <2>1. dev' = "recording" => mark' = Len(played)
    BY DEF MainStep, OpenDevice, ClearQueue, AddTap, Connect, Disconnect, RemoveTap, CloseDevice
  <2>2. QED BY <1>1, <2>1 DEF InFile, Fills
<1>7. QED BY <1>3, <1>4, <1>5, <1>6 DEF FileIsFresh, NothingBetween, NoJumpsMeansSeamless

LEMMA CaptureFlows == ASSUME OrderInv, FileFlow, CaptureStep PROVE FileFlow'
<1> USE DEF FileFlow
<1>0. /\ TypeOK /\ TakenBefore
      /\ size \in Nat /\ Len(source) \in Nat /\ Len(played) \in Nat /\ Prime \in Nat /\ Prime > 0
      /\ source \in Seq(Heard) /\ played \in Seq(Answer) /\ primed \in BOOLEAN
      /\ stats.jumps \in Nat /\ mark \in Nat
      /\ \A i \in Fills : played[i] \in Answer /\ played[i].out \in Nat /\ played[i].at \in Nat
  BY FlowTypes DEF OrderInv
<1>1. PICK t \in Heard : CapturedAs(t) BY <1>0, CaptureHears
<1>2. /\ UNCHANGED <<dev, opens, played, mark>> /\ t.open = opens /\ dev \in Tapped
      /\ source' = Append(source, t)
  BY <1>1 DEF CapturedAs
<1>3. /\ Len(source') = Len(source) + 1 /\ source'[Len(source) + 1] = t
      /\ \A k \in 1..Len(source) : source'[k] = source[k]
  BY <1>0, <1>2
<1>4. /\ primed' = (primed \/ size' >= Prime)
      /\ \/ reply'.got = "dropped" /\ size' = size /\ size = Capacity
         \/ reply'.got = "kept" /\ size' = size + 1
  BY <1>1, PushDoes DEF CapturedAs
<1>5. Fills' = Fills /\ InFile' = InFile /\ \A i \in Fills : Taken(i)' <=> Taken(i)
  BY <1>2 DEF Fills, InFile, Taken
<1>6. stats'.jumps = 0 => stats.jumps = 0 /\ reply'.got # "dropped"
  <2>1. stats'.jumps = stats.jumps + (IF reply'.got = "dropped" THEN 1 ELSE 0)
                                   + (IF Slipped(t) THEN 1 ELSE 0)
    BY <1>0, <1>1, CaptureCounts
  <2>2. QED BY <1>0, <2>1
<1>7. QueueIsFresh'
  <2>1. size' <= Len(source') BY <1>0, <1>3, <1>4 DEF QueueIsFresh
  <2>2. ASSUME NEW k \in Len(source') - size' + 1..Len(source') PROVE source'[k].open = opens
    <3>1. CASE k = Len(source) + 1 BY <1>2, <1>3, <3>1
    <3>2. CASE k # Len(source) + 1
      <4>1. k \in Len(source) - size + 1..Len(source) BY <1>0, <1>3, <1>4, <3>2
      <4>2. k \in 1..Len(source) BY <1>0, <4>1 DEF QueueIsFresh
      <4>3. QED BY <1>2, <1>3, <4>1, <4>2 DEF QueueIsFresh, Ready
    <3>3. QED BY <3>1, <3>2
  <2>3. QED BY <1>2, <1>5, <2>1, <2>2 DEF QueueIsFresh, Taken
<1>8. FileIsFresh'
  <2> SUFFICES ASSUME NEW i \in InFile, Taken(i) PROVE source'[played[i].out].open = opens
    BY <1>2, <1>5 DEF FileIsFresh, InFile, Taken
  <2>1. i \in Fills BY DEF InFile
  <2>2. played[i].out \in 1..Len(source) BY <1>0, <2>1 DEF TakenBefore, QueueIsFresh
  <2>3. QED BY <1>3, <2>2 DEF FileIsFresh
<1>9. NothingBetween'
  <2> SUFFICES ASSUME stats'.jumps = 0, NEW i \in InFile, Taken(i)
               PROVE  primed' /\ Taken(Len(played)) /\ played[Len(played)].out = Len(source') - size'
    BY <1>2, <1>5 DEF NothingBetween, InFile, Taken
  <2>1. primed /\ Taken(Len(played)) /\ played[Len(played)].out = Len(source) - size
    BY <1>6 DEF NothingBetween
  <2>2. size' = size + 1 BY <1>4, <1>6
  <2>3. Len(source') - size' = Len(source) - size BY <1>0, <1>3, <2>2
  <2>4. primed' BY <1>4, <2>1
  <2>5. QED BY <2>1, <2>3, <2>4
<1>10. NoJumpsMeansSeamless' BY <1>2, <1>5, <1>6 DEF NoJumpsMeansSeamless, InFile, Taken
<1>11. FallsByTicks'
  <2> SUFFICES ASSUME primed', ~(size' >= Prime)
               PROVE \E j \in Fills : /\ Taken(j)
                        /\ Prime - 1 - size' <= Len(played) - j - (Len(source') - played[j].at)
    BY <1>2, <1>5 DEF FallsByTicks, Taken
  <2>1. primed /\ size' = size + 1
    <3>1. Capacity >= Prime BY PrimeAssumption, CapacityAssumption
    <3>2. size' \in Nat BY <1>0, <1>4
    <3>3. QED BY <1>0, <1>4, <3>1, <3>2, CapacityAssumption
  <2>2. ~(size >= Prime) BY <1>0, <2>1
  <2>3. PICK j \in Fills : /\ Taken(j)
                           /\ Prime - 1 - size <= Len(played) - j - (Len(source) - played[j].at)
    BY <2>1, <2>2 DEF FallsByTicks
  <2>4. j \in Nat /\ played[j].at \in Nat BY <1>0, <2>3 DEF Fills
  <2>5. Prime - 1 - size' <= Len(played) - j - (Len(source') - played[j].at)
    <3> DEFINE x == played[j].at
               c == Len(source)
               l == Len(played)
    <3>1. x \in Nat /\ c \in Nat /\ l \in Nat /\ size \in Nat /\ Prime \in Nat /\ j \in Nat
      BY <1>0, <2>4
    <3>2. Prime - 1 - size <= l - j - (c - x) BY <2>3
    <3> HIDE DEF x, c, l
    <3>3. Prime - 1 - size' <= l - j - (c + 1 - x) BY <2>1, <3>1, <3>2
    <3>4. Len(source') = c + 1 BY <1>3 DEF c
    <3>5. Prime - 1 - size' <= l - j - (Len(source') - x) BY <3>1, <3>3, <3>4
    <3>6. QED BY <3>5 DEF x, l
  <2>6. QED BY <2>3, <2>5
<1>12. LateTickIsAbsorbed' BY <1>2 DEF LateTickIsAbsorbed, Fills, Taken
<1>13. QED BY <1>7, <1>8, <1>9, <1>10, <1>11, <1>12

LEMMA FillFlows == ASSUME OrderInv, FileFlow, FillAudio PROVE FileFlow'
<1> USE DEF FileFlow
<1> DEFINE a == [got |-> reply'.got, out |-> reply'.out, at |-> Len(source)]
<1>n. PICK n : n = Len(played) + 1 OBVIOUS
<1>0. /\ TypeOK /\ TakenBefore /\ QueueIsNewest
      /\ size \in Nat /\ Len(source) \in Nat /\ Len(played) \in Nat /\ Prime \in Nat /\ Prime > 0
      /\ source \in Seq(Heard) /\ played \in Seq(Answer) /\ primed \in BOOLEAN
      /\ stats.jumps \in Nat /\ mark \in Nat
      /\ \A i \in Fills : played[i] \in Answer /\ played[i].out \in Nat /\ played[i].at \in Nat
  BY FlowTypes DEF OrderInv
<1>1. /\ primed' = primed /\ UNCHANGED <<dev, opens, source, mark, flushed>>
      /\ played' = Append(played, a) /\ reply'.got = PopGot
      /\ PopGot = "Ok" => /\ primed /\ size >= 1 /\ size' = size - 1
                          /\ reply'.out = Len(source) - size + 1
      /\ PopGot # "Ok" => size' = size
      /\ PopGot = "Empty" => primed /\ size = 0
  BY <1>0, PopDoes
<1>2. /\ Len(played') = n /\ played'[n] = a /\ n \in Nat /\ n = Len(played) + 1
      /\ \A i \in Fills : played'[i] = played[i]
  BY <1>n, <1>0, <1>1 DEF Fills
<1>3. Fills' = Fills \cup {n} /\ n \notin Fills /\ \A i \in Fills : i \in Nat /\ i >= 1 /\ i < n
  BY <1>0, <1>2 DEF Fills
<1>4. /\ \A i \in Fills : Taken(i)' <=> Taken(i)
      /\ Taken(n)' <=> PopGot = "Ok"
  BY <1>1, <1>2, <1>3 DEF Taken
<1>5. InFile' = IF dev = "recording" /\ n > mark THEN InFile \cup {n} ELSE InFile
  <2>1. InFile = {i \in Fills : dev = "recording" /\ i > mark} BY DEF InFile
  <2>2. InFile' = {i \in Fills \cup {n} : dev = "recording" /\ i > mark} BY <1>1, <1>3 DEF InFile
  <2>3. QED BY <2>1, <2>2
<1>6. stats'.jumps = 0 => stats.jumps = 0 /\ PopGot # "Empty"
  <2>1. stats'.jumps = stats.jumps + (IF PopGot = "Empty" THEN 1 ELSE 0) BY <1>0, <1>1, FillCounts
  <2>2. QED BY <1>0, <2>1
<1>7. PopGot = "Ok" => a.out \in Len(source) - size + 1..Len(source) /\ a.out # 0 /\ a.out \in 1..Len(source)
  BY <1>0, <1>1 DEF QueueIsFresh
<1>8. QueueIsFresh'
  <2>1. size' <= Len(source') BY <1>0, <1>1 DEF QueueIsFresh
  <2>2. ASSUME dev' \in Ready, NEW k \in Len(source) - size' + 1..Len(source)
        PROVE  source[k].open = opens
    <3>1. k \in Len(source) - size + 1..Len(source) BY <1>0, <1>1
    <3>2. QED BY <1>1, <2>2, <3>1 DEF QueueIsFresh
  <2>3. ASSUME NEW i \in Fills', Taken(i)' PROVE played'[i].out # 0
    BY <1>2, <1>3, <1>4, <1>7, <2>3 DEF QueueIsFresh
  <2>4. QED BY <1>1, <2>1, <2>2, <2>3 DEF QueueIsFresh
<1>9. FileIsFresh'
  <2> SUFFICES ASSUME NEW i \in InFile', Taken(i)' PROVE source[played'[i].out].open = opens
    BY <1>1 DEF FileIsFresh
  <2>1. CASE i \in InFile
    <3>1. i \in Fills BY <2>1 DEF InFile
    <3>2. QED BY <1>2, <1>4, <2>1, <3>1 DEF FileIsFresh
  <2>2. CASE i \notin InFile
    <3>1. i = n /\ dev = "recording" BY <1>5, <2>2
    <3>2. played'[i].out \in Len(source) - size + 1..Len(source) BY <1>2, <1>4, <1>7, <3>1
    <3>3. QED BY <3>1, <3>2 DEF QueueIsFresh, Ready, Tapped
  <2>3. QED BY <2>1, <2>2
<1>10. NothingBetween'
  <2> SUFFICES ASSUME stats'.jumps = 0, NEW i \in InFile', Taken(i)'
               PROVE  primed /\ Taken(n)' /\ played'[n].out = Len(source) - size'
    BY <1>1, <1>2 DEF NothingBetween
  <2>1. PopGot # "Empty" /\ stats.jumps = 0 BY <1>6
  <2>2. primed
    <3>1. CASE i \in InFile
      <4>1. i \in Fills BY <3>1 DEF InFile
      <4>2. QED BY <1>4, <2>1, <3>1, <4>1 DEF NothingBetween
    <3>2. CASE i = n BY <1>1, <1>4, <3>2
    <3>3. QED BY <1>5, <3>1, <3>2
  <2>3. PopGot = "Ok" BY <2>1, <2>2 DEF PopGot
  <2>4. QED BY <1>0, <1>1, <1>2, <1>4, <2>2, <2>3
<1>11. NoJumpsMeansSeamless'
  <2> SUFFICES ASSUME stats'.jumps = 0, NEW i \in InFile', i + 1 \in InFile', Taken(i)'
               PROVE  Taken(i + 1)' /\ played'[i + 1].out = played'[i].out + 1
    BY DEF NoJumpsMeansSeamless
  <2>1. PopGot # "Empty" /\ stats.jumps = 0 BY <1>6
  <2>2. i \in InFile /\ i \in Fills
    <3>1. i + 1 \in Fills' BY DEF InFile
    <3>2. i # n BY <1>2, <1>3, <3>1
    <3>3. QED BY <1>5, <3>2 DEF InFile
  <2>3. Taken(i) /\ played'[i] = played[i] BY <1>2, <1>4, <2>2
  <2>4. CASE i + 1 \in InFile
    <3>1. i + 1 \in Fills BY <2>4 DEF InFile
    <3>2. Taken(i + 1) /\ played[i + 1].out = played[i].out + 1
      BY <2>1, <2>2, <2>3, <2>4 DEF NoJumpsMeansSeamless
    <3>3. QED BY <1>2, <1>4, <2>3, <3>1, <3>2
  <2>5. CASE i + 1 \notin InFile
    <3>1. i + 1 = n BY <1>5, <2>5
    <3>2. primed /\ played[Len(played)].out = Len(source) - size
      BY <2>1, <2>2, <2>3 DEF NothingBetween
    <3>3. PopGot = "Ok" BY <2>1, <3>2 DEF PopGot
    <3>4. i = Len(played) BY <1>0, <1>2, <1>3, <2>2, <3>1
    <3>5. /\ Taken(n)' /\ a.out = Len(source) - size + 1 /\ played'[n].out = a.out
          /\ played'[i].out = Len(source) - size
      BY <1>1, <1>2, <1>4, <2>3, <3>2, <3>3, <3>4
    <3>6. QED BY <3>1, <3>5
  <2>6. QED BY <2>4, <2>5
<1>12. FallsByTicks'
  <2> SUFFICES ASSUME primed, ~(size' >= Prime)
               PROVE \E j \in Fills' : /\ Taken(j)'
                        /\ Prime - 1 - size' <= n - j - (Len(source) - played'[j].at)
    BY <1>1, <1>2 DEF FallsByTicks
  <2>1. CASE size >= Prime
    <3>1. PopGot = "Ok" BY <1>0, <1>1, <2>1 DEF PopGot
    <3>2. played'[n].at = Len(source) BY <1>2
    <3>3. Prime - 1 - size' <= n - n - (Len(source) - played'[n].at)
      BY <1>0, <1>1, <1>2, <2>1, <3>1, <3>2
    <3>4. QED BY <1>3, <1>4, <3>1, <3>3
  <2>2. CASE ~(size >= Prime)
    <3>1. PICK j \in Fills : /\ Taken(j)
                             /\ Prime - 1 - size <= Len(played) - j - (Len(source) - played[j].at)
      BY <2>2 DEF FallsByTicks
    <3>2. j \in Nat /\ played[j].at \in Nat /\ played'[j] = played[j] BY <1>0, <1>2, <1>3, <3>1
    <3>3. size' = size \/ size' = size - 1 BY <1>1
    <3>4. Prime - 1 - size' <= n - j - (Len(source) - played'[j].at)
      <4> DEFINE x == played[j].at
                 c == Len(source)
                 l == Len(played)
      <4>1. x \in Nat /\ c \in Nat /\ l \in Nat /\ size \in Nat /\ Prime \in Nat /\ n = l + 1 /\ j \in Nat
        BY <1>0, <1>2, <3>2
      <4>2. Prime - 1 - size <= l - j - (c - x) BY <3>1
      <4> HIDE DEF x, c, l
      <4>3. Prime - 1 - size' <= n - j - (c - x) BY <3>3, <4>1, <4>2
      <4>4. QED BY <3>2, <4>3 DEF x, c
    <3>5. QED BY <1>3, <1>4, <3>1, <3>4
  <2>3. QED BY <2>1, <2>2
<1>13. LateTickIsAbsorbed'
  <2> SUFFICES ASSUME NEW i \in Fills', played'[i].got = "Empty"
               PROVE \E j \in 1..i - 1 : /\ Taken(j)'
                        /\ i - j - (played'[i].at - played'[j].at) >= Prime
    BY DEF LateTickIsAbsorbed
  <2>1. CASE i \in Fills
    <3>1. PICK j \in 1..i - 1 : /\ Taken(j)
                                /\ i - j - (played[i].at - played[j].at) >= Prime
      BY <1>2, <2>1 DEF LateTickIsAbsorbed
    <3>2. j \in Fills BY <1>0, <2>1 DEF Fills
    <3>3. QED BY <1>2, <1>4, <2>1, <3>1, <3>2
  <2>2. CASE i = n
    <3>1. primed /\ size = 0 BY <1>1, <1>2, <2>2
    <3>2. PICK j \in Fills : /\ Taken(j)
                             /\ Prime - 1 - size <= Len(played) - j - (Len(source) - played[j].at)
      BY <1>0, <3>1 DEF FallsByTicks
    <3>3. j \in Nat /\ played[j].at \in Nat /\ played'[j] = played[j] /\ j \in 1..n - 1
      BY <1>0, <1>2, <1>3, <3>2, SMTT(60)
    <3>4. n - j - (played'[n].at - played'[j].at) >= Prime BY <1>0, <1>2, <3>1, <3>2, <3>3, SMTT(60)
    <3>5. QED BY <1>4, <2>2, <3>2, <3>3, <3>4
  <2>3. QED BY <1>3, <2>1, <2>2
<1>14. QED BY <1>8, <1>9, <1>10, <1>11, <1>12, <1>13

FlowInv == OrderInv /\ FileFlow

LEMMA FlowInvariant == Spec => []FlowInv
<1>1. Init => FlowInv BY InitOrder, InitFlows DEF FlowInv
<1>2. ASSUME FlowInv, [Next]_vars PROVE FlowInv'
  <2>0. OrderInv' /\ TypeOK BY <1>2, StepOrders DEF FlowInv, OrderInv
  <2>1. CASE MainStep BY <1>2, <2>0, <2>1, MainFlows DEF FlowInv
  <2>2. CASE CaptureStep BY <1>2, <2>0, <2>2, CaptureFlows DEF FlowInv
  <2>3. CASE FillAudio BY <1>2, <2>0, <2>3, FillFlows DEF FlowInv
  <2>4. CASE UNCHANGED vars
    <3>1. FileFlow'
      BY <1>2, <2>4 DEF FlowInv, vars, queueVars, FileFlow, QueueIsFresh, FileIsFresh, NothingBetween,
         NoJumpsMeansSeamless, FallsByTicks, LateTickIsAbsorbed, InFile, Fills, Taken
    <3>2. QED BY <2>0, <3>1 DEF FlowInv
  <2>5. QED BY <1>2, <2>1, <2>2, <2>3, <2>4 DEF Next
<1>3. QED BY <1>1, <1>2, PTL DEF Spec

\* However often the recorder reopens its device for another encoder, no block that
\* was captured for the one that refused is in the file.
THEOREM FallbackIsFresh == Spec => []FileIsFresh
<1>1. FlowInv => FileIsFresh BY DEF FlowInv, FileFlow
<1>2. QED BY FlowInvariant, <1>1, PTL

\* For any capacity, priming and schedule, a file whose report has no jumps holds one
\* capture after another from its first block on.
THEOREM FilesAreSeamless == Spec => []NoJumpsMeansSeamless
<1>1. FlowInv => NoJumpsMeansSeamless BY DEF FlowInv, FileFlow
<1>2. QED BY FlowInvariant, <1>1, PTL

\* For any priming level, the device finds nothing only after it has ticked that
\* many times more than OBS since a block it took.
THEOREM LateTicksAreAbsorbed == Spec => []LateTickIsAbsorbed
<1>1. FlowInv => LateTickIsAbsorbed BY DEF FlowInv, FileFlow
<1>2. QED BY FlowInvariant, <1>1, PTL
-----------------------------------------------------------------------------
(* The report: jumps and silences.                                           *)

TakenFills == {i \in Fills : Taken(i)}
MissedFills == {i \in Fills : played[i].got = "Empty"}

\* The tick whose timestamp the next one is held against.
LastHeard(i) == source[i].ts # 0 /\ \A k \in i + 1..Len(source) : source[k].ts = 0 /\ source[k].live

LastInv == /\ stats.last # 0 => \E i \in Captures : LastHeard(i) /\ source[i].ts = stats.last
           /\ stats.last = 0 => \A i \in Captures : ~LastHeard(i)

ReportInv == LastInv /\ JumpsAddUp

LEMMA ReportTypes ==
    ASSUME TypeOK
    PROVE  /\ Len(source) \in Nat /\ Len(played) \in Nat /\ size \in Nat /\ flushed \in Nat
           /\ stats.jumps \in Nat /\ stats.last \in Nat /\ stats.run \in Nat /\ stats.longest \in Nat
           /\ IsFiniteSet(Fills) /\ IsFiniteSet(Captures)
           /\ \A S \in SUBSET Fills : IsFiniteSet(S) /\ Cardinality(S) \in Nat
           /\ \A S \in SUBSET Captures : IsFiniteSet(S) /\ Cardinality(S) \in Nat
           /\ \A k \in Captures : source[k] \in Heard
<1>1. /\ Len(source) \in Nat /\ Len(played) \in Nat /\ size \in Nat /\ flushed \in Nat
      /\ \A k \in Captures : source[k] \in Heard
  BY DEF TypeOK, QueueTypeOK, Captures
<1>2. stats.jumps \in Nat /\ stats.last \in Nat /\ stats.run \in Nat /\ stats.longest \in Nat
  BY CounterFields DEF TypeOK
<1>3. IsFiniteSet(Fills) /\ IsFiniteSet(Captures) BY <1>1, FS_Interval DEF Fills, Captures
<1>4. /\ \A S \in SUBSET Fills : IsFiniteSet(S) /\ Cardinality(S) \in Nat
      /\ \A S \in SUBSET Captures : IsFiniteSet(S) /\ Cardinality(S) \in Nat
  BY <1>3, FS_Subset, FS_CardinalityType
<1>5. QED BY <1>1, <1>2, <1>3, <1>4

\* A tick is out of step if it slips from the one before it, wherever that is.
LEMMA SlipIsCounted ==
    ASSUME TypeOK, LastInv, NEW t \in Heard, CapturedAs(t)
    PROVE  /\ LastInv'
           /\ ClockSlips \in SUBSET Captures
           /\ ClockSlips' = IF Slipped(t) THEN ClockSlips \cup {Len(source) + 1} ELSE ClockSlips
<1>n. PICK n : n = Len(source) + 1 OBVIOUS
<1>0. /\ Len(source) \in Nat /\ n \in Nat /\ n >= 1 /\ Len(source) = n - 1 /\ source \in Seq(Heard)
      /\ \A k \in Captures : k \in 1..n - 1 /\ source[k] \in Heard
  BY <1>n, ReportTypes, SMTT(60) DEF TypeOK, Captures
<1>1. /\ Len(source') = n /\ source'[n] = t
      /\ \A k \in 1..n - 1 : source'[k] = source[k]
  BY <1>n, <1>0 DEF CapturedAs
<1>2. t.ts \in Nat /\ t.live \in BOOLEAN /\ (~t.live => t.ts = 0) BY DEF Heard, CapturedAs
<1>3. stats'.last = IF ~t.live THEN 0 ELSE IF t.ts = 0 THEN stats.last ELSE t.ts
  BY CaptureCounts
<1>4. ASSUME NEW i \in 1..n - 1 PROVE LastHeard(i)' <=> LastHeard(i) /\ t.ts = 0 /\ t.live
  <2>1. i + 1..n = (i + 1..n - 1) \cup {n} BY <1>0
  <2>2. LastHeard(i)' <=> /\ source[i].ts # 0
                          /\ \A k \in i + 1..n : source'[k].ts = 0 /\ source'[k].live
    BY <1>1 DEF LastHeard
  <2>3. \A k \in i + 1..n - 1 : source'[k] = source[k] BY <1>0, <1>1
  <2>4. LastHeard(i) <=> source[i].ts # 0 /\ \A k \in i + 1..n - 1 : source[k].ts = 0 /\ source[k].live
    BY <1>0 DEF LastHeard
  <2>5. QED BY <1>1, <2>1, <2>2, <2>3, <2>4
<1>5. LastHeard(n)' <=> t.ts # 0
  <2>1. n + 1..n = {} BY <1>0
  <2>2. QED BY <1>1, <2>1 DEF LastHeard
<1>6. Captures' = Captures \cup {n} /\ Captures = 1..n - 1 BY <1>0, <1>1 DEF Captures
<1>7. LastInv'
  <2>1. ASSUME stats'.last # 0
        PROVE  \E i \in Captures' : LastHeard(i)' /\ source'[i].ts = stats'.last
    <3>1. CASE t.ts # 0 BY <1>1, <1>2, <1>3, <1>5, <1>6, <3>1
    <3>2. CASE t.ts = 0
      <4>1. t.live /\ stats.last # 0 /\ stats'.last = stats.last BY <1>2, <1>3, <2>1, <3>2
      <4>2. PICK i \in Captures : LastHeard(i) /\ source[i].ts = stats.last BY <4>1 DEF LastInv
      <4>3. LastHeard(i)' /\ source'[i] = source[i] BY <1>1, <1>4, <1>6, <3>2, <4>1, <4>2
      <4>4. QED BY <1>6, <4>1, <4>2, <4>3
    <3>3. QED BY <3>1, <3>2
  <2>2. ASSUME stats'.last = 0, NEW i \in Captures', LastHeard(i)' PROVE FALSE
    <3>1. t.ts = 0 BY <1>2, <1>3, <2>2
    <3>2. i \in Captures BY <1>5, <1>6, <2>2, <3>1
    <3>3. LastHeard(i) /\ t.live BY <1>4, <1>6, <2>2, <3>2
    <3>4. stats.last = 0 BY <1>3, <2>2, <3>1, <3>3
    <3>5. QED BY <3>2, <3>3, <3>4 DEF LastInv
  <2>3. QED BY <2>1, <2>2 DEF LastInv
<1>8. \A i, j \in Captures : LastHeard(i) /\ LastHeard(j) => i = j
  <2> SUFFICES ASSUME NEW i \in Captures, NEW j \in Captures, LastHeard(i), LastHeard(j), i < j
               PROVE  FALSE
    BY <1>0
  <2>1. j \in i + 1..Len(source) BY <1>0
  <2>2. QED BY <2>1 DEF LastHeard
\* The slips among the first ticks of a source.
<1> DEFINE Slip(s, j) == \E i \in 1..j - 1 :
              /\ s[i].ts # 0 /\ s[j].ts # 0
              /\ \A k \in i + 1..j - 1 : s[k].ts = 0 /\ s[k].live
              /\ OutOfStep(s[i].ts, s[j].ts)
<1>9. ClockSlips = {j \in Captures : Slip(source, j)} /\ ClockSlips' = {j \in Captures' : Slip(source', j)}
  BY DEF ClockSlips
<1>10. ASSUME NEW j \in Captures PROVE Slip(source', j) <=> Slip(source, j)
  <2>1. \A k \in 1..j : source'[k] = source[k] BY <1>0, <1>1
  <2>2. source'[j] = source[j] BY <1>0, <2>1
  <2>3. ASSUME NEW i \in 1..j - 1
        PROVE  source'[i] = source[i] /\ \A k \in i + 1..j - 1 : source'[k] = source[k]
    BY <1>0, <2>1
  <2>4. QED BY <2>2, <2>3
<1>11. Slip(source', n) <=> Slipped(t)
  <2>1. Slip(source', n) <=> \E i \in 1..n - 1 : LastHeard(i) /\ t.ts # 0 /\ OutOfStep(source[i].ts, t.ts)
    <3>1. ASSUME NEW i \in 1..n - 1
          PROVE  source'[i] = source[i] /\ \A k \in i + 1..n - 1 : source'[k] = source[k]
      BY <1>0, <1>1
    <3>2. \A i \in 1..n - 1 : LastHeard(i) <=> /\ source[i].ts # 0
                              /\ \A k \in i + 1..n - 1 : source[k].ts = 0 /\ source[k].live
      BY <1>0 DEF LastHeard
    <3>3. QED BY <1>1, <3>1, <3>2
  <2> HIDE DEF Slip
  <2>2. ASSUME NEW i \in 1..n - 1, LastHeard(i) PROVE stats.last = source[i].ts /\ stats.last # 0
    <3>1. stats.last # 0 BY <1>6, <2>2 DEF LastInv
    <3>2. PICK j \in Captures : LastHeard(j) /\ source[j].ts = stats.last BY <3>1 DEF LastInv
    <3>3. QED BY <1>6, <1>8, <2>2, <3>1, <3>2
  <2>3. ASSUME stats.last # 0 PROVE \E i \in 1..n - 1 : LastHeard(i)
    BY <1>6, <2>3 DEF LastInv
  <2>4. QED BY <2>1, <2>2, <2>3 DEF Slipped
<1> HIDE DEF Slip
<1>12. ClockSlips' = IF Slipped(t) THEN ClockSlips \cup {n} ELSE ClockSlips
  BY <1>6, <1>9, <1>10, <1>11
<1>13. QED BY <1>n, <1>7, <1>9, <1>12

LEMMA CaptureReports ==
    ASSUME TypeOK, TypeOK', ReportInv, CaptureStep PROVE ReportInv'
<1>1. PICK t \in Heard : CapturedAs(t) BY CaptureHears
<1>2. /\ LastInv' /\ ClockSlips \in SUBSET Captures
      /\ ClockSlips' = IF Slipped(t) THEN ClockSlips \cup {Len(source) + 1} ELSE ClockSlips
  BY <1>1, SlipIsCounted DEF ReportInv
<1>3. Cardinality(ClockSlips') = Cardinality(ClockSlips) + (IF Slipped(t) THEN 1 ELSE 0)
  <2>1. IsFiniteSet(ClockSlips) /\ Cardinality(ClockSlips) \in Nat BY <1>2, ReportTypes
  <2>2. Len(source) + 1 \notin ClockSlips
    <3>1. Len(source) + 1 \notin Captures BY ReportTypes DEF Captures
    <3>2. QED BY <1>2, <3>1
  <2>3. CASE Slipped(t)
    <3>1. Cardinality(ClockSlips \cup {Len(source) + 1}) = Cardinality(ClockSlips) + 1
      BY <2>1, <2>2, FS_AddElement
    <3>2. QED BY <1>2, <2>3, <3>1
  <2>4. CASE ~Slipped(t) BY <1>2, <2>1, <2>4
  <2>5. QED BY <2>3, <2>4
<1>4. /\ TakenFills \in SUBSET Fills /\ MissedFills \in SUBSET Fills
      /\ TakenFills' = TakenFills /\ MissedFills' = MissedFills /\ flushed' = flushed
  BY <1>1 DEF CapturedAs, TakenFills, MissedFills, Fills, Taken
<1>5. /\ Cardinality(TakenFills) \in Nat /\ Cardinality(MissedFills) \in Nat
      /\ Cardinality(ClockSlips) \in Nat
      /\ Len(source) \in Nat /\ size \in Nat /\ flushed \in Nat /\ stats.jumps \in Nat
  BY <1>2, <1>4, ReportTypes
<1>6. /\ \/ reply'.got = "dropped" /\ size' = size
         \/ reply'.got = "kept" /\ size' = size + 1
      /\ Len(source') = Len(source) + 1
      /\ stats'.jumps = stats.jumps + (IF reply'.got = "dropped" THEN 1 ELSE 0)
                                    + (IF Slipped(t) THEN 1 ELSE 0)
  BY <1>1, PushDoes, CaptureCounts DEF CapturedAs, TypeOK
<1>7. Dropped = Len(source) - Cardinality(TakenFills) - size - flushed /\ Missed = Cardinality(MissedFills)
  BY DEF Dropped, Missed, TakenFills, MissedFills
<1>8. /\ Dropped' = Len(source') - Cardinality(TakenFills) - size' - flushed
      /\ Missed' = Cardinality(MissedFills)
  BY <1>4 DEF Dropped, Missed, TakenFills, MissedFills
<1>k. PICK l, k : l = Len(source) /\ k = Cardinality(TakenFills) OBVIOUS
<1>l. /\ l \in Nat /\ k \in Nat /\ size \in Nat /\ flushed \in Nat
      /\ Dropped = l - k - size - flushed
  BY <1>5, <1>7, <1>k
<1>9. Dropped' = Dropped + (IF reply'.got = "dropped" THEN 1 ELSE 0) /\ Dropped \in Int
  <2>1. CASE reply'.got = "dropped"
    <3>1. size' = size BY <1>6, <2>1
    <3>2. Dropped' = (l + 1) - k - size - flushed BY <1>6, <1>8, <1>k, <3>1
    <3>3. Dropped' = Dropped + 1 /\ Dropped \in Int BY <1>l, <3>2
    <3>4. QED BY <2>1, <3>3
  <2>2. CASE reply'.got # "dropped"
    <3>1. size' = size + 1 BY <1>6, <2>2
    <3>2. Dropped' = (l + 1) - k - (size + 1) - flushed BY <1>6, <1>8, <1>k, <3>1
    <3>3. Dropped' = Dropped /\ Dropped \in Int BY <1>l, <3>2
    <3>4. QED BY <2>2, <3>3
  <2>3. QED BY <2>1, <2>2
<1>10. Dropped >= 0 /\ stats.jumps = Dropped + Missed + Cardinality(ClockSlips)
  BY DEF ReportInv, JumpsAddUp
<1>11. JumpsAddUp'
  <2>1. Missed' = Missed /\ Missed \in Nat BY <1>5, <1>7, <1>8
  <2>2. Dropped' >= 0 BY <1>9, <1>10
  <2>3. CASE reply'.got = "dropped"
    <3>1. CASE Slipped(t) BY <1>3, <1>5, <1>6, <1>9, <1>10, <2>1, <2>2, <2>3, <3>1 DEF JumpsAddUp
    <3>2. CASE ~Slipped(t) BY <1>3, <1>5, <1>6, <1>9, <1>10, <2>1, <2>2, <2>3, <3>2 DEF JumpsAddUp
    <3>3. QED BY <3>1, <3>2
  <2>4. CASE reply'.got # "dropped"
    <3>1. CASE Slipped(t) BY <1>3, <1>5, <1>6, <1>9, <1>10, <2>1, <2>2, <2>4, <3>1 DEF JumpsAddUp
    <3>2. CASE ~Slipped(t) BY <1>3, <1>5, <1>6, <1>9, <1>10, <2>1, <2>2, <2>4, <3>2 DEF JumpsAddUp
    <3>3. QED BY <3>1, <3>2
  <2>5. QED BY <2>3, <2>4
<1>12. QED BY <1>2, <1>11 DEF ReportInv

LEMMA FillReports ==
    ASSUME TypeOK, QueueIsNewest, ReportInv, FillAudio PROVE ReportInv'
<1>n. PICK n : n = Len(played) + 1 OBVIOUS
<1>1. /\ UNCHANGED <<source, flushed>> /\ reply'.got = PopGot
      /\ played' = Append(played, [got |-> reply'.got, out |-> reply'.out, at |-> Len(source)])
      /\ PopGot = "Ok" => size' = size - 1
      /\ PopGot # "Ok" => size' = size
  BY PopDoes
<1>2. /\ Len(played) \in Nat /\ n \in Nat /\ played \in Seq(Answer) /\ stats.jumps \in Nat
      /\ Len(source) \in Nat /\ size \in Nat /\ flushed \in Nat
  BY <1>n, ReportTypes DEF TypeOK
<1>3. /\ Fills' = Fills \cup {n} /\ n \notin Fills /\ played'[n].got = PopGot
      /\ \A i \in Fills : played'[i] = played[i]
  BY <1>n, <1>1, <1>2 DEF Fills
<1>4. /\ TakenFills \in SUBSET Fills /\ MissedFills \in SUBSET Fills
      /\ TakenFills' = IF PopGot = "Ok" THEN TakenFills \cup {n} ELSE TakenFills
      /\ MissedFills' = IF PopGot = "Empty" THEN MissedFills \cup {n} ELSE MissedFills
  BY <1>3 DEF TakenFills, MissedFills, Taken
<1>5. /\ ClockSlips' = ClockSlips /\ ClockSlips \in SUBSET Captures
      /\ stats'.jumps = stats.jumps + (IF PopGot = "Empty" THEN 1 ELSE 0)
      /\ stats'.last = stats.last
  BY <1>1, FillCounts DEF ClockSlips, Captures
<1>6. /\ Cardinality(TakenFills) \in Nat /\ Cardinality(MissedFills) \in Nat
      /\ Cardinality(ClockSlips) \in Nat
      /\ IsFiniteSet(TakenFills) /\ IsFiniteSet(MissedFills)
  BY <1>4, <1>5, ReportTypes
<1>7. /\ Cardinality(TakenFills') = Cardinality(TakenFills) + (IF PopGot = "Ok" THEN 1 ELSE 0)
      /\ Cardinality(MissedFills') = Cardinality(MissedFills) + (IF PopGot = "Empty" THEN 1 ELSE 0)
  <2>1. n \notin TakenFills /\ n \notin MissedFills BY <1>3, <1>4
  <2>2. /\ Cardinality(TakenFills \cup {n}) = Cardinality(TakenFills) + 1
        /\ Cardinality(MissedFills \cup {n}) = Cardinality(MissedFills) + 1
    BY <1>6, <2>1, FS_AddElement
  <2>3. QED BY <1>4, <1>6, <2>2
<1>8. Dropped = Len(source) - Cardinality(TakenFills) - size - flushed /\ Missed = Cardinality(MissedFills)
  BY DEF Dropped, Missed, TakenFills, MissedFills
<1>9. /\ Dropped' = Len(source) - Cardinality(TakenFills') - size' - flushed
      /\ Missed' = Cardinality(MissedFills')
  BY <1>1 DEF Dropped, Missed, TakenFills, MissedFills
<1>k. PICK l, k : l = Len(source) /\ k = Cardinality(TakenFills) OBVIOUS
<1>l. /\ l \in Nat /\ k \in Nat /\ size \in Nat /\ flushed \in Nat
      /\ Dropped = l - k - size - flushed
  BY <1>2, <1>6, <1>8, <1>k
<1>10. Dropped' = Dropped /\ Dropped \in Int
  <2>1. CASE PopGot = "Ok"
    <3>1. size' = size - 1 /\ Cardinality(TakenFills') = Cardinality(TakenFills) + 1 BY <1>1, <1>7, <2>1
    <3>2. Dropped' = l - (k + 1) - (size - 1) - flushed BY <1>9, <1>k, <3>1
    <3>3. QED BY <1>l, <3>2
  <2>2. CASE PopGot # "Ok"
    <3>1. size' = size /\ Cardinality(TakenFills') = Cardinality(TakenFills) BY <1>1, <1>4, <2>2
    <3>2. Dropped' = l - k - size - flushed BY <1>9, <1>k, <3>1
    <3>3. QED BY <1>l, <3>2
  <2>3. QED BY <2>1, <2>2
<1>11. Dropped >= 0 /\ stats.jumps = Dropped + Missed + Cardinality(ClockSlips)
  BY DEF ReportInv, JumpsAddUp
<1>12. JumpsAddUp'
  <2>1. Missed' = Missed + (IF PopGot = "Empty" THEN 1 ELSE 0) /\ Missed \in Nat
    BY <1>6, <1>7, <1>8, <1>9
  <2>2. CASE PopGot = "Empty"
    BY <1>2, <1>5, <1>6, <1>10, <1>11, <2>1, <2>2 DEF JumpsAddUp
  <2>3. CASE PopGot # "Empty"
    BY <1>2, <1>5, <1>6, <1>10, <1>11, <2>1, <2>3 DEF JumpsAddUp
  <2>4. QED BY <2>2, <2>3
<1>13. LastInv' BY <1>1, <1>5 DEF ReportInv, LastInv, LastHeard, Captures
<1>14. QED BY <1>12, <1>13 DEF ReportInv

LEMMA MainReports == ASSUME TypeOK, ReportInv, MainStep PROVE ReportInv'
<1>1. /\ UNCHANGED <<stats, source, played>>
      /\ \/ size' = size /\ flushed' = flushed
         \/ size' = 0 /\ flushed' = flushed + size
  BY MainHandles DEF Handled, queueVars, Clear
<1>2. size \in Nat /\ flushed \in Nat BY ReportTypes
<1>3. TakenFills \in SUBSET Fills /\ TakenFills' = TakenFills BY <1>1 DEF TakenFills, Fills, Taken
<1>4. Cardinality(TakenFills) \in Nat /\ Len(source) \in Nat BY <1>3, ReportTypes
<1>5. Dropped = Len(source) - Cardinality(TakenFills) - size - flushed
  BY DEF Dropped, TakenFills
<1>6. Dropped' = Len(source) - Cardinality(TakenFills) - size' - flushed'
  BY <1>1, <1>3 DEF Dropped, TakenFills
<1>7. Dropped' = Dropped BY <1>1, <1>2, <1>4, <1>5, <1>6
<1>8. Missed' = Missed /\ ClockSlips' = ClockSlips
  BY <1>1 DEF Missed, ClockSlips, Fills, Captures
<1>9. LastInv' BY <1>1 DEF ReportInv, LastInv, LastHeard, Captures
<1>10. QED BY <1>1, <1>7, <1>8, <1>9 DEF ReportInv, JumpsAddUp

LEMMA InitReports == Init => ReportInv
<1> SUFFICES ASSUME Init PROVE ReportInv OBVIOUS
<1>1. /\ size = 0 /\ Len(source) = 0 /\ Len(played) = 0 /\ flushed = 0
      /\ stats.jumps = 0 /\ stats.last = 0
  BY DEF Init, QueueInit, NoStats
<1>2. Fills = {} /\ Captures = {} BY <1>1 DEF Fills, Captures
<1>3. /\ {i \in Fills : Taken(i)} = {} /\ {i \in Fills : played[i].got = "Empty"} = {}
      /\ ClockSlips = {}
  BY <1>2 DEF ClockSlips
<1>4. Dropped = 0 /\ Missed = 0 /\ Cardinality(ClockSlips) = 0
  <2>1. Cardinality({}) = 0 BY FS_EmptySet
  <2>2. Dropped = 0 - Cardinality({i \in Fills : Taken(i)}) - 0 - 0 BY <1>1 DEF Dropped
  <2>3. Missed = Cardinality({i \in Fills : played[i].got = "Empty"}) BY DEF Missed
  <2>4. Dropped = 0 - 0 - 0 - 0 BY <1>3, <2>1, <2>2
  <2>5. Missed = 0 /\ Cardinality(ClockSlips) = 0 BY <1>3, <2>1, <2>3
  <2>6. QED BY <2>4, <2>5
<1>5. QED BY <1>1, <1>2, <1>4 DEF ReportInv, LastInv, JumpsAddUp

\* The jumps of the report are the dropped blocks, the ticks that found nothing and
\* the steps of the source's clock, each once, however the threads interleave.
THEOREM EveryJumpIsReported == Spec => []JumpsAddUp

<1>2. ASSUME OrderInv, ReportInv, [Next]_vars PROVE ReportInv'
  <2>0. TypeOK /\ TypeOK' /\ QueueIsNewest BY <1>2, StepOrders DEF OrderInv
  <2>1. CASE MainStep BY <1>2, <2>0, <2>1, MainReports
  <2>2. CASE CaptureStep BY <1>2, <2>0, <2>2, CaptureReports
  <2>3. CASE FillAudio BY <1>2, <2>0, <2>3, FillReports
  <2>4. CASE UNCHANGED vars
    BY <1>2, <2>4 DEF vars, queueVars, ReportInv, LastInv, LastHeard, JumpsAddUp, Dropped, Missed, ClockSlips,
         Fills, Captures, Taken
  <2>5. QED BY <1>2, <2>1, <2>2, <2>3, <2>4 DEF Next
<1>3. ReportInv => JumpsAddUp BY DEF ReportInv
<1>4. OrderInv /\ [Next]_vars => OrderInv' BY StepOrders
<1>5. QED BY InitOrder, InitReports, <1>2, <1>3, <1>4, PTL DEF Spec

\* Every live tick from i to j was all zero.
Quiet(i, j) == \A k \in i..j : source[k].live => source[k].zero

\* The silence that goes on began behind the last sound.
Since(i) == /\ Quiet(i, Len(source)) /\ stats.run = LiveTicks(i, Len(source))
            /\ i > 1 => source[i - 1].live /\ ~source[i - 1].zero

SilenceInv ==
    /\ \E i \in 1..Len(source) + 1 : Since(i)
    /\ stats.run <= stats.longest
    /\ \A i, j \in Captures : Quiet(i, j) => LiveTicks(i, j) <= stats.longest
    /\ stats.longest > 0 => \E i, j \in Captures : Quiet(i, j) /\ LiveTicks(i, j) = stats.longest

LEMMA SilenceIs == SilenceInv => LongestSilenceIsReal
<1> SUFFICES ASSUME SilenceInv PROVE LongestSilenceIsReal OBVIOUS
<1> DEFINE quiet == {p \in Captures \X Captures :
                        \A k \in p[1]..p[2] : source[k].live => source[k].zero}
<1>1. \A i, j \in Captures : <<i, j>> \in quiet <=> Quiet(i, j) BY DEF Quiet
<1>2. ASSUME NEW p \in quiet PROVE LiveTicks(p[1], p[2]) <= stats.longest
  <2>1. p[1] \in Captures /\ p[2] \in Captures /\ Quiet(p[1], p[2]) BY <1>2 DEF Quiet
  <2>2. QED BY <2>1 DEF SilenceInv
<1>3. ASSUME stats.longest > 0 PROVE \E p \in quiet : LiveTicks(p[1], p[2]) = stats.longest
  <2>1. PICK i \in Captures, j \in Captures : Quiet(i, j) /\ LiveTicks(i, j) = stats.longest
    BY <1>3 DEF SilenceInv
  <2>2. <<i, j>> \in quiet BY <1>1, <2>1
  <2>3. LiveTicks(<<i, j>>[1], <<i, j>>[2]) = stats.longest BY <2>1
  <2>4. QED BY <2>2, <2>3
<1>4. QED BY <1>2, <1>3 DEF LongestSilenceIsReal

LEMMA LiveTicksAre ==
    ASSUME NEW i \in Int, NEW j \in Int
    PROVE  /\ IsFiniteSet({k \in i..j : source[k].live})
           /\ LiveTicks(i, j) \in Nat
           /\ \A a \in i..j : LiveTicks(a, j) <= LiveTicks(i, j)
<1> DEFINE L(a) == {k \in a..j : source[k].live}
<1>1. IsFiniteSet(i..j) BY FS_Interval
<1>2. \A a \in i..j : L(a) \in SUBSET L(i) OBVIOUS
<1>3. L(i) \in SUBSET (i..j) OBVIOUS
<1>4. IsFiniteSet(L(i)) BY <1>1, <1>3, FS_Subset
<1>5. \A a \in i..j : Cardinality(L(a)) <= Cardinality(L(i)) BY <1>2, <1>4, FS_Subset
<1>6. Cardinality(L(i)) \in Nat BY <1>4, FS_CardinalityType
<1>7. QED BY <1>4, <1>5, <1>6 DEF LiveTicks

LEMMA SilenceStays ==
    ASSUME SilenceInv, UNCHANGED source, stats'.run = stats.run, stats'.longest = stats.longest
    PROVE  SilenceInv'
BY DEF SilenceInv, Since, Quiet, LiveTicks, Captures

LEMMA CaptureSilences == ASSUME TypeOK, SilenceInv, CaptureStep PROVE SilenceInv'
<1>n. PICK n : n = Len(source) + 1 OBVIOUS
<1>0. PICK t \in Heard : CapturedAs(t) BY CaptureHears
<1>1. /\ n \in Nat /\ n >= 1 /\ Len(source) = n - 1 /\ source \in Seq(Heard)
      /\ Captures = 1..n - 1 /\ stats.run \in Nat /\ stats.longest \in Nat
  BY <1>n, ReportTypes DEF TypeOK, Captures
<1>2. /\ Len(source') = n /\ source'[n] = t
      /\ \A k \in 1..n - 1 : source'[k] = source[k]
      /\ Captures' = 1..n
  BY <1>n, <1>0, <1>1 DEF CapturedAs, Captures
<1>3. t.live \in BOOLEAN /\ t.zero \in BOOLEAN BY DEF Heard
<1>4. /\ stats'.run = IF ~t.live THEN stats.run ELSE IF t.zero THEN stats.run + 1 ELSE 0
      /\ stats'.longest = IF t.live /\ t.zero /\ stats.run + 1 > stats.longest
                          THEN stats.run + 1 ELSE stats.longest
  BY <1>0, CaptureCounts
\* Spans that end before the new tick, and spans that end with it.
<1>5. ASSUME NEW i \in 1..n, NEW j \in 1..n - 1
      PROVE  (Quiet(i, j)' <=> Quiet(i, j)) /\ LiveTicks(i, j)' = LiveTicks(i, j)
  <2>1. \A k \in i..j : source'[k] = source[k] BY <1>1, <1>2
  <2>2. {k \in i..j : source'[k].live} = {k \in i..j : source[k].live} BY <2>1
  <2>3. QED BY <2>1, <2>2 DEF Quiet, LiveTicks
<1>6. ASSUME NEW i \in 1..n
      PROVE  /\ Quiet(i, n)' <=> Quiet(i, n - 1) /\ (t.live => t.zero)
             /\ LiveTicks(i, n)' = LiveTicks(i, n - 1) + (IF t.live THEN 1 ELSE 0)
             /\ LiveTicks(i, n - 1) \in Nat
  <2>1. i..n = (i..n - 1) \cup {n} /\ n \notin i..n - 1 BY <1>1
  <2>2. \A k \in i..n - 1 : source'[k] = source[k] BY <1>1, <1>2
  <2>3. Quiet(i, n)' <=> Quiet(i, n - 1) /\ (t.live => t.zero) BY <1>2, <2>1, <2>2 DEF Quiet
  <2> DEFINE L == {k \in i..n - 1 : source[k].live}
  <2>4. {k \in i..n : source'[k].live} = IF t.live THEN L \cup {n} ELSE L
    BY <1>2, <1>3, <2>1, <2>2
  <2>5. IsFiniteSet(L) /\ Cardinality(L) \in Nat /\ LiveTicks(i, n - 1) = Cardinality(L)
    BY <1>1, LiveTicksAre DEF LiveTicks
  <2>6. Cardinality(L \cup {n}) = Cardinality(L) + 1 BY <2>1, <2>5, FS_AddElement
  <2>7. LiveTicks(i, n)' = Cardinality(IF t.live THEN L \cup {n} ELSE L) BY <2>4 DEF LiveTicks
  <2> HIDE DEF L
  <2>8. QED BY <2>3, <2>5, <2>6, <2>7
<1>7. PICK s \in 1..n : Since(s) BY <1>1 DEF SilenceInv
<1>8. Quiet(s, n - 1) /\ stats.run = LiveTicks(s, n - 1) /\ (s > 1 => source[s - 1].live /\ ~source[s - 1].zero)
  BY <1>1, <1>7 DEF Since
<1>9. \A i \in 1..n : Quiet(i, n - 1) => LiveTicks(i, n - 1) <= stats.run
  <2> SUFFICES ASSUME NEW i \in 1..n, Quiet(i, n - 1) PROVE LiveTicks(i, n - 1) <= stats.run OBVIOUS
  <2>1. i >= s
    <3> SUFFICES ASSUME i < s PROVE FALSE BY <1>1
    <3>1. s - 1 \in i..n - 1 BY <1>1
    <3>2. QED BY <1>1, <1>8, <3>1 DEF Quiet
  <2>2. CASE i = n
    <3>1. {k \in n..n - 1 : source[k].live} = {} BY <1>1
    <3>2. LiveTicks(n, n - 1) = 0 BY <3>1, FS_EmptySet DEF LiveTicks
    <3>3. QED BY <1>1, <2>2, <3>2
  <2>3. CASE i # n
    <3>1. i \in s..n - 1 BY <1>1, <2>1, <2>3
    <3>2. s \in Int /\ n - 1 \in Int BY <1>1
    <3>3. LiveTicks(i, n - 1) <= LiveTicks(s, n - 1) BY <3>1, <3>2, LiveTicksAre
    <3>4. QED BY <1>8, <3>3
  <2>4. QED BY <2>2, <2>3
<1>10. stats.run <= stats.longest BY DEF SilenceInv
<1>11. stats'.run \in Nat /\ stats'.longest \in Nat /\ stats'.run <= stats'.longest
       /\ stats.longest <= stats'.longest
  BY <1>1, <1>3, <1>4, <1>10
<1>12. \E i \in 1..Len(source') + 1 : Since(i)'
  <2>1. CASE t.live /\ ~t.zero
    <3>1. Quiet(n + 1, n)' BY <1>1 DEF Quiet
    <3>2. {k \in n + 1..n : source'[k].live} = {} BY <1>1
    <3>3. LiveTicks(n + 1, n)' = 0 BY <3>2, FS_EmptySet DEF LiveTicks
    <3>4. n + 1 > 1 /\ n + 1 - 1 = n /\ n + 1 \in 1..Len(source') + 1 BY <1>1, <1>2
    <3>5. Since(n + 1)' BY <1>2, <1>4, <2>1, <3>1, <3>3, <3>4 DEF Since
    <3>6. QED BY <3>4, <3>5
  <2>2. CASE ~(t.live /\ ~t.zero)
    <3>1. Quiet(s, n)' BY <1>3, <1>6, <1>8, <2>2
    <3>2. stats'.run = LiveTicks(s, n)'
      <4>1. CASE t.live BY <1>1, <1>4, <1>6, <1>8, <2>2, <4>1
      <4>2. CASE ~t.live BY <1>1, <1>4, <1>6, <1>8, <4>2
      <4>3. QED BY <4>1, <4>2
    <3>3. s > 1 => source'[s - 1] = source[s - 1] BY <1>1, <1>2
    <3>4. Since(s)' BY <1>2, <1>8, <3>1, <3>2, <3>3 DEF Since
    <3>5. s \in 1..Len(source') + 1 BY <1>1, <1>2
    <3>6. QED BY <3>4, <3>5
  <2>3. QED BY <2>1, <2>2
<1>13. ASSUME NEW i \in 1..n, NEW j \in 1..n, Quiet(i, j)' PROVE LiveTicks(i, j)' <= stats'.longest
  <2>1. CASE j = n
    <3>1. Quiet(i, n - 1) /\ (t.live => t.zero) BY <1>6, <1>13, <2>1
    <3>2. LiveTicks(i, n - 1) <= stats.run /\ LiveTicks(i, n - 1) \in Nat BY <1>6, <1>9, <3>1
    <3>3. CASE t.live
      <4>1. stats'.run = stats.run + 1 /\ LiveTicks(i, n)' = LiveTicks(i, n - 1) + 1
        BY <1>4, <1>6, <3>1, <3>3
      <4>2. QED BY <1>1, <1>11, <2>1, <3>2, <4>1
    <3>4. CASE ~t.live
      <4>1. stats'.run = stats.run /\ LiveTicks(i, n)' = LiveTicks(i, n - 1) + 0
        BY <1>4, <1>6, <3>4
      <4>2. QED BY <1>1, <1>11, <2>1, <3>2, <4>1
    <3>5. QED BY <1>3, <3>3, <3>4
  <2>2. CASE j # n
    <3>1. j \in 1..n - 1 BY <1>1, <2>2
    <3>2. Quiet(i, j) /\ LiveTicks(i, j)' = LiveTicks(i, j) BY <1>5, <1>13, <3>1
    <3>3. LiveTicks(i, j) <= stats.longest
      <4>1. CASE i = n
        <5>1. {k \in i..j : source[k].live} = {} BY <1>1, <3>1, <4>1
        <5>2. LiveTicks(i, j) = 0 BY <5>1, FS_EmptySet DEF LiveTicks
        <5>3. QED BY <1>1, <5>2
      <4>2. CASE i # n
        <5>1. i \in Captures /\ j \in Captures BY <1>1, <3>1, <4>2
        <5>2. QED BY <3>2, <5>1 DEF SilenceInv
      <4>3. QED BY <4>1, <4>2
    <3>4. LiveTicks(i, j) \in Nat
      <4>1. i \in Int /\ j \in Int BY <1>1
      <4>2. QED BY <4>1, LiveTicksAre
    <3>5. QED BY <1>1, <1>11, <3>2, <3>3, <3>4
  <2>3. QED BY <2>1, <2>2
<1>14. ASSUME stats'.longest > 0
       PROVE  \E i, j \in 1..n : Quiet(i, j)' /\ LiveTicks(i, j)' = stats'.longest
  <2>1. CASE t.live /\ t.zero /\ stats.run + 1 > stats.longest
    <3>1. Quiet(s, n)' BY <1>6, <1>8, <2>1
    <3>2. LiveTicks(s, n)' = stats'.longest BY <1>4, <1>6, <1>8, <2>1
    <3>3. QED BY <1>1, <3>1, <3>2
  <2>2. CASE ~(t.live /\ t.zero /\ stats.run + 1 > stats.longest)
    <3>1. stats'.longest = stats.longest BY <1>4, <2>2
    <3>2. PICK i \in Captures, j \in Captures : Quiet(i, j) /\ LiveTicks(i, j) = stats.longest
      BY <1>14, <3>1 DEF SilenceInv
    <3>3. i \in 1..n /\ j \in 1..n /\ j \in 1..n - 1 BY <1>1
    <3>4. Quiet(i, j)' /\ LiveTicks(i, j)' = stats'.longest BY <1>5, <3>1, <3>2, <3>3
    <3>5. QED BY <3>3, <3>4
  <2>3. QED BY <2>1, <2>2
<1>15. QED BY <1>2, <1>11, <1>12, <1>13, <1>14 DEF SilenceInv

LEMMA InitSilences == Init => SilenceInv
<1> SUFFICES ASSUME Init PROVE SilenceInv OBVIOUS
<1>1. Len(source) = 0 /\ stats.run = 0 /\ stats.longest = 0 BY DEF Init, NoStats
<1>2. Captures = {} /\ 1..Len(source) = {} BY <1>1 DEF Captures
<1>3. {k \in 1..Len(source) : source[k].live} = {} BY <1>2
<1>4. LiveTicks(1, Len(source)) = 0 BY <1>3, FS_EmptySet DEF LiveTicks
<1>5. Since(1) BY <1>1, <1>2, <1>4 DEF Since, Quiet
<1>6. QED BY <1>1, <1>2, <1>5 DEF SilenceInv

\* The longest silence of the report is the longest span without sound, idle ticks
\* in it or not.
THEOREM SilenceIsMeasured == Spec => []LongestSilenceIsReal
<1>1. ASSUME TypeOK, SilenceInv, [Next]_vars PROVE SilenceInv'
  <2>1. CASE MainStep
    <3>1. UNCHANGED <<stats, source>> BY <2>1, MainHandles DEF Handled
    <3>2. QED BY <1>1, <3>1, SilenceStays
  <2>2. CASE CaptureStep BY <1>1, <2>2, CaptureSilences
  <2>3. CASE FillAudio
    <3>1. UNCHANGED source BY <2>3 DEF FillAudio
    <3>2. QED BY <1>1, <2>3, <3>1, FillCounts, SilenceStays
  <2>4. CASE UNCHANGED vars BY <1>1, <2>4, SilenceStays DEF vars
  <2>5. QED BY <1>1, <2>1, <2>2, <2>3, <2>4 DEF Next
<1>2. QED BY TypesHold, InitSilences, SilenceIs, <1>1, PTL DEF Spec
=============================================================================
