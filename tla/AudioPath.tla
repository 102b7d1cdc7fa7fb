------------------------------ MODULE AudioPath ------------------------------
(* The audio hand-over of one SourceRecorder (src/source-recorder.cpp): OBS's *)
(* audio thread captures one block per tick (captureTick), the recorder's own *)
(* audio device takes one block per tick (fillAudio), and the main thread     *)
(* opens, connects and closes the device (openAudio, start, stop,             *)
(* closeAudio).  The two threads tick on unrelated schedules, so their steps  *)
(* interleave freely.  Blocks are numbered in the order they are captured.    *)
(*                                                                            *)
(* A capture or a fill is one step: between them the threads share only the   *)
(* queue, whose calls are atomic, and the counters, which are only added to.  *)
EXTENDS BlockQueue, AudioStats, FiniteSets

CONSTANTS Advance,           \* how far a source's clock may move from tick to tick
          Composite,         \* a scene: live with no timestamp until a child has one
          MaxCaptures,       \* bound: ticks of OBS's audio thread
          MaxFills           \* bound: ticks of the recorder's device

\* A block is the number of its capture; nothing was captured as block 0.
ASSUME BlockAssumption == MaxCaptures \in Nat /\ Block = 1..MaxCaptures /\ NoBlock = 0
ASSUME ClockAssumption == Advance \subseteq Nat

VARIABLES stats,      \* stats_
          dev,        \* where the main thread is in opening or closing audio_
          opens,      \* how often the device was opened (the x264 fallback reopens it)
          clock,      \* the source's own audio clock
          source,     \* history: every captured tick
          played,     \* history: every answer the device got
          mark,       \* history: how many answers preceded the file
          flushed     \* history: how many blocks clear() threw away

vars == <<queueVars, stats, dev, opens, clock, source, played, mark, flushed>>

\* "failing" closes a device whose start failed, "closing" one that recorded.
DevStates == {"closed", "opening", "cleared", "tapped", "recording", "drained",
              "failing", "closing", "done"}
Ticking == {"opening", "cleared", "tapped", "recording", "drained", "failing", "closing"}
Tapped == {"tapped", "recording", "drained"}

Init == /\ QueueInit
        /\ stats = NoStats
        /\ dev = "closed" /\ opens = 0
        /\ clock = 0
        /\ source = <<>> /\ played = <<>> /\ mark = 0 /\ flushed = 0

-----------------------------------------------------------------------------
(* The main thread.  audio_output_open starts the device's thread, so ticks  *)
(* can come before clear() and before the tap is added.                      *)

OpenDevice == /\ dev = "closed" /\ opens < 2
              /\ dev' = "opening" /\ opens' = opens + 1
              /\ UNCHANGED <<queueVars, stats, clock, source, played, mark, flushed>>

\* A mutant: a reopened device does not empty the queue.
ClearQueueForgotten == /\ dev = "opening"
                       /\ dev' = "cleared"
                       /\ UNCHANGED <<queueVars, stats, opens, clock, source, played, mark, flushed>>

ClearQueue == /\ dev = "opening"
              /\ Clear
              /\ flushed' = flushed + size
              /\ dev' = "cleared"
              /\ UNCHANGED <<stats, opens, clock, source, played, mark>>

AddTap == /\ dev = "cleared"
          /\ dev' = "tapped"
          /\ UNCHANGED <<queueVars, stats, opens, clock, source, played, mark, flushed>>

\* The audio encoder (or onPcm) starts listening: from here on the file is written.
Connect == /\ dev = "tapped"
           /\ dev' = "recording" /\ mark' = Len(played)
           /\ UNCHANGED <<queueVars, stats, opens, clock, source, played, flushed>>

\* stop(): the encoders are released, or onPcm disconnected, before closeAudio().
Disconnect == /\ dev = "recording"
              /\ dev' = "drained"
              /\ UNCHANGED <<queueVars, stats, opens, clock, source, played, mark, flushed>>

\* closeAudio(): the tap is removed first, then the device is closed.
RemoveTap == /\ \/ dev = "tapped" /\ dev' = "failing"
                \/ dev = "drained" /\ dev' = "closing"
             /\ UNCHANGED <<queueVars, stats, opens, clock, source, played, mark, flushed>>

CloseDevice == /\ \/ dev = "failing" /\ dev' = "closed"
                  \/ dev = "closing" /\ dev' = "done"
               /\ UNCHANGED <<queueVars, stats, opens, clock, source, played, mark, flushed>>

-----------------------------------------------------------------------------
(* OBS's audio thread.                                                       *)

\* A mutant: a block that is pushed out is not counted.
QueuedUncounted(s) == Push(Len(source) + 1) /\ stats' = s

\* The part of captureTick after the block is filled: push it, count a full queue.
Queued(s) == /\ Push(Len(source) + 1)
             /\ stats' = IF reply'.got = "dropped" THEN StatsSlip(s) ELSE s

\* The source has nothing this tick: a silent block with no timestamp.
CaptureIdle == /\ dev \in Tapped /\ Len(source) < MaxCaptures
               /\ Queued(StatsIdle(stats))
               /\ source' = Append(source, [ts |-> 0, live |-> FALSE, zero |-> TRUE, open |-> opens])
               /\ UNCHANGED <<dev, opens, clock, played, mark, flushed>>

\* The source has audio: its clock has moved since the last tick.
CaptureLive(level, step) ==
    /\ dev \in Tapped /\ Len(source) < MaxCaptures
    /\ clock + step > 0
    /\ clock' = clock + step
    /\ Queued(StatsTimestamp(StatsBlock(stats, level), clock'))
    /\ source' = Append(source, [ts |-> clock', live |-> TRUE,
                                  zero |-> level = "zero", open |-> opens])
    /\ UNCHANGED <<dev, opens, played, mark, flushed>>

\* A scene whose children have no timestamp is mixed all the same.
CaptureUntimed(level) ==
    /\ Composite
    /\ dev \in Tapped /\ Len(source) < MaxCaptures
    /\ Queued(StatsBlock(stats, level))
    /\ source' = Append(source, [ts |-> 0, live |-> TRUE, zero |-> level = "zero",
                                  open |-> opens])
    /\ UNCHANGED <<dev, opens, clock, played, mark, flushed>>

-----------------------------------------------------------------------------
\* The recorder's audio thread: fillAudio takes one block, or writes silence.
FillAudio == /\ dev \in Ticking /\ Len(played) < MaxFills
             /\ Pop
             /\ stats' = IF reply'.got = "Empty" THEN StatsSlip(stats) ELSE stats
             /\ played' = Append(played, [got |-> reply'.got, out |-> reply'.out,
                                          at |-> Len(source)])
             /\ UNCHANGED <<dev, opens, clock, source, mark, flushed>>

MainStep == \/ OpenDevice \/ ClearQueue \/ AddTap \/ Connect
            \/ Disconnect \/ RemoveTap \/ CloseDevice

CaptureStep == \/ CaptureIdle
               \/ \E level \in Levels, step \in Advance : CaptureLive(level, step)
               \/ \E level \in Levels : CaptureUntimed(level)

Next == MainStep \/ CaptureStep \/ FillAudio

Spec == Init /\ [][Next]_vars

-----------------------------------------------------------------------------
(* What the histories say.                                                   *)

Fills == 1..Len(played)
Captures == 1..Len(source)

\* The answers that went into the file, and the blocks among them.
InFile == {i \in Fills : dev \in {"recording"} /\ i > mark}
Taken(i) == played[i].got = "Ok"

\* Types of the counters and histories: no tick is later than the clock, no answer
\* older than the captures it came after.
Heard == [ts : Nat, live : BOOLEAN, zero : BOOLEAN, open : 1..2]
Answer == [got : {"Priming", "Empty", "Ok"}, out : Block \cup {NoBlock}, at : Nat]
TypeOK == /\ QueueTypeOK
          /\ stats \in Counters
          /\ dev \in DevStates
          /\ opens \in 0..2 /\ (dev # "closed" => opens > 0)
          /\ clock \in Nat /\ flushed \in Nat
          /\ source \in Seq(Heard) /\ Len(source) <= MaxCaptures
          /\ \A k \in Captures : source[k].ts <= clock
          /\ played \in Seq(Answer)
          /\ \A i \in Fills : played[i].at <= Len(source)
          /\ mark \in 0..Len(played)

\* block-queue.hpp:11-14: the queue holds exactly the newest captures, in order,
\* so between the two threads nothing is repeated, skipped or reordered except
\* where the oldest block was pushed out.
QueueIsNewest == \A i \in 1..size : Waiting[i] = Len(source) - size + i

\* block-queue.hpp:13 "every block is taken exactly once": what the device took is
\* strictly increasing over the recorder's whole life, reopening included, and
\* no block that was taken is still waiting.
TakenOnceInOrder ==
    /\ \A i, j \in Fills : i < j /\ Taken(i) /\ Taken(j) => played[i].out < played[j].out
    /\ \A i \in Fills, k \in 1..size : Taken(i) => played[i].out < Waiting[k]

\* The hand-over as a whole: what the two threads exchange is typed, and every
\* block goes from one to the other once and in order or is pushed out, so what
\* the device writes is never older than the queue is long.
HandoverIsSafe == TypeOK /\ QueueIsNewest /\ TakenOnceInOrder

\* The live timestamps that do not fit the tick rate after the timestamp before
\* them; an idle tick between the two clears the memory.
ClockSlips ==
    {j \in Captures : \E i \in 1..j - 1 :
        /\ source[i].ts # 0 /\ source[j].ts # 0
        /\ \A k \in i + 1..j - 1 : source[k].ts = 0 /\ source[k].live
        /\ OutOfStep(source[i].ts, source[j].ts)}

Dropped == Len(source) - Cardinality({i \in Fills : Taken(i)}) - size - flushed
Missed == Cardinality({i \in Fills : played[i].got = "Empty"})

\* AudioCounts.jumps counts every block that was dropped, every tick that found
\* nothing and every step of the source's clock that was not one tick, each once,
\* though two threads add to it.
JumpsAddUp == /\ Dropped >= 0
              /\ stats.jumps = Dropped + Missed + Cardinality(ClockSlips)

\* A file whose report shows no jumps has none: from its first block on, every
\* tick of the file holds the capture after the one before it.
NoJumpsMeansSeamless ==
    stats.jumps = 0 =>
        \A i \in InFile : i + 1 \in InFile /\ Taken(i) =>
            Taken(i + 1) /\ played[i + 1].out = played[i].out + 1

\* Nothing captured for the encoder that refused reaches the file of the fallback.
FileIsFresh == \A i \in InFile : Taken(i) => source[played[i].out].open = opens

\* block-queue.hpp:20-22: one OBS tick that comes late is absorbed.  The device
\* finds nothing only after a span, starting at a block it took, in which it
\* ticked at least Prime times more often than OBS did.
LateTickIsAbsorbed ==
    \A i \in Fills : played[i].got = "Empty" =>
        \E j \in 1..i - 1 :
            /\ Taken(j)
            /\ i - j - (played[i].at - played[j].at) >= Prime

\* The number of live ticks from i to j.
LiveTicks(i, j) == Cardinality({k \in i..j : source[k].live})

\* The longest silence health() reports is the longest span in which every live
\* tick was all zero: an idle tick neither ends a silence nor lengthens it.
LongestSilenceIsReal ==
    LET quiet == {p \in Captures \X Captures :
                     \A k \in p[1]..p[2] : source[k].live => source[k].zero}
    IN  /\ \A p \in quiet : LiveTicks(p[1], p[2]) <= stats.longest
        /\ stats.longest > 0 => \E p \in quiet : LiveTicks(p[1], p[2]) = stats.longest

=============================================================================
