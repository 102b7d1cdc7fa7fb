----------------------------- MODULE AudioStats -----------------------------
(* AudioStats of src/audio-stats.hpp as operators on a record: what one call *)
(* does to the counters.  Peak, clipping and the size of the widest gap are  *)
(* left out: nothing in the audio path depends on them.  Samples are "zero"  *)
(* (all exactly 0) or "sound".                                               *)
EXTENDS Integers

CONSTANTS Tick,     \* tickNs: the length of one audio tick
          Levels    \* what a block of live audio can hold: "zero", "sound"

ASSUME TickAssumption == Tick \in Nat \ {0}

Counters == [ticks : Nat, idle : Nat, silent : Nat, longest : Nat, jumps : Nat, run : Nat, last : Nat]

NoStats == [ticks |-> 0, idle |-> 0, silent |-> 0, longest |-> 0, jumps |-> 0,
            run |-> 0, last |-> 0]

\* A mutant: an idle tick keeps the last timestamp.
StatsIdleKeepsLast(s) == [s EXCEPT !.idle = @ + 1]

StatsIdle(s) == [s EXCEPT !.idle = @ + 1, !.last = 0]

StatsSlip(s) == [s EXCEPT !.jumps = @ + 1]

\* A mutant: sound does not end a silence.
StatsBlockKeepsRun(s, level) ==
    IF level = "zero"
    THEN [s EXCEPT !.ticks = @ + 1, !.silent = @ + 1, !.run = @ + 1,
                   !.longest = IF s.run + 1 > @ THEN s.run + 1 ELSE @]
    ELSE [s EXCEPT !.ticks = @ + 1]

StatsBlock(s, level) ==
    IF level = "zero"
    THEN [s EXCEPT !.ticks = @ + 1, !.silent = @ + 1, !.run = @ + 1,
                   !.longest = IF s.run + 1 > @ THEN s.run + 1 ELSE @]
    ELSE [s EXCEPT !.ticks = @ + 1, !.run = 0]

Gap(a, b) == IF b > a THEN b - a ELSE a - b

\* The source's clock did not move by about one tick from `from` to `to`.
OutOfStep(from, to) == \/ to <= from
                       \/ Gap(from, to) < Tick \div 2
                       \/ Gap(from, to) > Tick + Tick \div 2

StatsTimestamp(s, ts) ==
    [s EXCEPT !.last = ts,
              !.jumps = IF s.last # 0 /\ OutOfStep(s.last, ts) THEN @ + 1 ELSE @]
=============================================================================
