--------------------------- MODULE SessionTimeline ---------------------------
(* The clocks of a session: its epoch and pause spans (src/iso-session.cpp)   *)
(* and each recorder's start, pauses and end (src/source-recorder.cpp), from  *)
(* which a file's offset, its duration and its verdict in the manifest follow.*)
(* The session reads the clock once for a pause and every recorder again for  *)
(* itself, after its output has paused; time passes between, and an output    *)
(* may refuse the pause or die on its own thread.  Times are ticks of an      *)
(* unsigned clock; the rounding to the frame grid is left out.  A slot of     *)
(* File holds one recording at a time, and the record of the last.            *)
EXTENDS Integers, Sequences, FiniteSets

CONSTANTS File,        \* slots for recordings
          Rate,        \* frames a tick of each kind of recording
          JudgedFrom,  \* a shorter file is not judged (10 s)
          Share,       \* per cent of the frames that may be missing (2)
          Ramp,        \* per cent of a tick's frames that may be missing (50)
          Width,       \* bits of a clock
          MaxTime,     \* bound: the last tick
          MaxPauses,   \* bound: pauses of a session
          MaxTrouble,  \* bound: frames dropped, deaths, refusals, ticks within a handler
          NoFile       \* no file

\* With an encoder of its own, at full or half rate, or the live stream's.
Kind == {"own", "half", "shared"}

ASSUME TimelineAssumption ==
    /\ NoFile \notin File /\ Rate \in [Kind -> Nat \ {0}]
    /\ {JudgedFrom, Share, Ramp, Width, MaxTime, MaxPauses, MaxTrouble} \subseteq Nat
    /\ 1 <= MaxTime /\ MaxTime < 2^Width

VARIABLES now,   \* os_gettime_ns
          ses,   \* the session
          file,  \* its recordings
          todo,  \* what is left of the handler that runs
          live,  \* history: ticks since the epoch in which the session was not paused
          trouble \* history: how often something went wrong, or took its time

vars == <<now, ses, file, todo, live, trouble>>

Minus(a, b) == (a - b) % 2^Width
Smaller(a, b) == IF a < b THEN a ELSE b
Larger(a, b) == IF a < b THEN b ELSE a

NewFile == [phase |-> "new", kind |-> "own", out |-> "off", started |-> FALSE, failed |-> FALSE,
            startNs |-> 0, offset |-> 0, first |-> 0, stopNs |-> 0,
            paused |-> FALSE, pauseStart |-> 0, pausedNs |-> 0, frames |-> 0,
            listed |-> [offset |-> 0, duration |-> 0, status |-> "none"],
            \* history: ticks recorded, ticks between a call and its reading of the
            \* clock, place on the session's timeline, whether it refused to pause
            ran |-> 0, slack |-> 0, place |-> 0, refused |-> FALSE]

NoWork == [starting |-> {}, fresh |-> FALSE, pausing |-> {}, held |-> NoFile,
           closing |-> {}, ending |-> FALSE, resumable |-> FALSE]

Init == /\ now = 1
        /\ ses = [active |-> FALSE, paused |-> FALSE, resumable |-> FALSE, epoch |-> 0,
                  pauses |-> <<>>, duration |-> 0]
        /\ file = [f \in File |-> NewFile]
        /\ todo = NoWork
        /\ live = 0 /\ trouble = 0

\* Whether it happens here.
Troubled(happens) ==
    /\ trouble' = IF happens THEN trouble + 1 ELSE trouble
    /\ trouble' <= MaxTrouble

Idle == todo = NoWork
Shared == {f \in File : file[f].kind = "shared"}
OpenFiles == {f \in File : file[f].phase = "open"}

-----------------------------------------------------------------------------
(* What the clocks say.                                                      *)

\* The sum of the first n terms of t.
Total(t, n) ==
    LET sum[i \in 0..n] == IF i = 0 THEN 0 ELSE sum[i - 1] + t[i]
    IN  sum[n]

\* A mutant: a pause that goes on counts for nothing.
PausedBeforeEnded(wall) ==
    LET Span(span) == Larger(0, Smaller(span.end, wall) - span.start)
    IN  Total([i \in DOMAIN ses.pauses |-> Span(ses.pauses[i])], Len(ses.pauses))

PausedBefore(wall) ==
    LET Until(span) == Smaller(IF span.end = 0 THEN wall ELSE span.end, wall)
        Span(span) == Larger(0, Until(span) - span.start)
    IN  Total([i \in DOMAIN ses.pauses |-> Span(ses.pauses[i])], Len(ses.pauses))

\* elapsedSeconds
Elapsed(wall) == Minus(Minus(wall, ses.epoch), PausedBefore(wall))

\* startOffsetNs: a shared file starts with its first key frame.
StartOffset(r) ==
    IF r.kind = "shared" /\ r.first # 0 THEN Larger(0, r.first - ses.epoch) ELSE r.offset

\* A mutant: all pauses so far count.
OffsetForNow(r) ==
    LET o == StartOffset(r) IN Minus(o, Smaller(o, PausedBefore(now)))

OffsetFor(r) ==
    LET o == StartOffset(r) IN Minus(o, Smaller(o, PausedBefore(ses.epoch + o)))

\* durationSeconds
Duration(r) ==
    LET start == IF r.kind = "shared" /\ r.first # 0 THEN r.first ELSE r.startNs
        end == IF r.stopNs # 0 THEN r.stopNs ELSE now
        paused == (r.pausedNs + IF r.paused THEN Minus(end, r.pauseStart) ELSE 0) % 2^Width
    IN  IF start = 0 \/ end <= start \/ paused >= end - start THEN 0 ELSE end - start - paused

\* A mutant: a file of just the length is not judged.
ShortfallLonger(delivered, duration, rate) ==
    /\ duration > JudgedFrom
    /\ 100 * (rate * duration - delivered) > Larger(Share * rate * duration, Ramp * rate)

\* frameShortfall
Shortfall(delivered, duration, rate) ==
    /\ duration >= JudgedFrom
    /\ 100 * (rate * duration - delivered) > Larger(Share * rate * duration, Ramp * rate)

-----------------------------------------------------------------------------
(* The session.                                                              *)

\* A mutant: a session that is carried on forgets its pauses.
StartForgetful(S) ==
    /\ Idle /\ ~ses.active
    /\ ses' = [ses EXCEPT !.active = TRUE, !.resumable = FALSE, !.pauses = <<>>, !.duration = 0,
                          !.epoch = IF ses.resumable THEN @ ELSE now]
    /\ file' = [f \in File |-> IF ses.resumable /\ f \notin S THEN file[f] ELSE NewFile]
    /\ live' = IF ses.resumable THEN live ELSE 0
    /\ todo' = [NoWork EXCEPT !.starting = S, !.fresh = S # {} /\ ~ses.resumable]
    /\ UNCHANGED <<now, trouble>>

\* start(): a session that is carried on keeps its epoch, pauses and files.
Start(S) ==
    /\ Idle /\ ~ses.active
    /\ ses' = IF ses.resumable THEN [ses EXCEPT !.active = TRUE, !.resumable = FALSE, !.duration = 0]
              ELSE [ses EXCEPT !.active = TRUE, !.epoch = now, !.pauses = <<>>, !.duration = 0]
    /\ file' = [f \in File |-> IF ses.resumable /\ f \notin S THEN file[f] ELSE NewFile]
    /\ live' = IF ses.resumable THEN live ELSE 0
    /\ todo' = [NoWork EXCEPT !.starting = S, !.fresh = S # {} /\ ~ses.resumable]
    /\ UNCHANGED <<now, trouble>>

\* noteStart, and in a paused session the pause that follows.
Opened(f, kind, atSessionStart) ==
    /\ file' = [file EXCEPT ![f] =
           [NewFile EXCEPT !.phase = "open", !.kind = kind, !.out = "on", !.started = TRUE, !.startNs = now,
                     !.offset = IF atSessionStart THEN 0 ELSE Minus(now, ses.epoch),
                     !.place = live,
                     !.slack = IF f \in todo.starting THEN file[f].slack ELSE 0]]
    /\ UNCHANGED <<now, ses, live, trouble>>

StartFile(f, kind) ==
    /\ f \in todo.starting
    /\ Opened(f, kind, todo.fresh)
    /\ todo' = IF todo.starting = {f} THEN NoWork ELSE [todo EXCEPT !.starting = @ \ {f}]

\* A source ticked, resized, or of the next game.
JoinFile(f, kind) ==
    /\ Idle /\ ses.active /\ f \notin OpenFiles
    /\ Opened(f, kind, FALSE)
    /\ todo' = IF ses.paused /\ kind # "shared" THEN [todo EXCEPT !.pausing = {f}] ELSE todo

\* setPaused of the session
PauseSession ==
    /\ Idle /\ ses.active
    /\ ses.paused \/ Len(ses.pauses) < MaxPauses
    /\ ses' = [ses EXCEPT !.paused = ~@,
                          !.pauses = IF ses.paused THEN [@ EXCEPT ![Len(@)].end = now]
                                     ELSE Append(@, [start |-> now, end |-> 0])]
    /\ todo' = [todo EXCEPT !.pausing = OpenFiles \ Shared]
    /\ UNCHANGED <<now, file, live, trouble>>

\* stop(): a pause ends before the files close.
Stop(resumable) ==
    /\ Idle /\ ses.active
    /\ ses' = IF ses.paused
              THEN [ses EXCEPT !.paused = FALSE, !.pauses[Len(ses.pauses)].end = now]
              ELSE ses
    /\ todo' = [todo EXCEPT !.pausing = IF ses.paused THEN OpenFiles \ Shared ELSE {},
                            !.closing = OpenFiles, !.ending = TRUE, !.resumable = resumable]
    /\ UNCHANGED <<now, file, live, trouble>>

EndSession ==
    /\ todo.ending /\ todo.pausing = {} /\ todo.held = NoFile /\ todo.closing = {}
    /\ ses' = [ses EXCEPT !.active = FALSE, !.resumable = todo.resumable,
                          !.duration = Elapsed(now)]
    /\ todo' = NoWork
    /\ UNCHANGED <<now, file, live, trouble>>

-----------------------------------------------------------------------------
(* One recorder.                                                             *)

\* setPaused until the output has answered: a file that is over or in that state
\* already is passed over, as one that shares the stream's encoder always is.
PauseOutput(f, ok) ==
    LET r == file[f]
        concerned == r.started /\ r.paused # ses.paused
    IN
    /\ f \in todo.pausing /\ todo.held = NoFile
    /\ ok \/ concerned
    /\ Troubled(~ok)
    /\ todo' = [todo EXCEPT !.pausing = @ \ {f}, !.held = IF concerned /\ ok THEN f ELSE NoFile]
    /\ file' = CASE ~concerned -> file
                 [] concerned /\ ok -> [file EXCEPT ![f].out = IF ses.paused THEN "paused" ELSE "on"]
                 [] OTHER -> [file EXCEPT ![f].refused = TRUE]
    /\ UNCHANGED <<now, ses, live>>

\* A mutant: the last pause replaces the earlier ones.
ReadClockAnew ==
    LET f == todo.held IN
    /\ f # NoFile
    /\ file' = [file EXCEPT ![f].paused = ses.paused,
                            ![f].pauseStart = IF ses.paused THEN now ELSE @,
                            ![f].pausedNs = IF ses.paused THEN @ ELSE Minus(now, file[f].pauseStart)]
    /\ todo' = [todo EXCEPT !.held = NoFile]
    /\ UNCHANGED <<now, ses, live, trouble>>

\* ... and its reading of the clock, also when the output died since.
ReadClock ==
    LET f == todo.held IN
    /\ f # NoFile
    /\ file' = [file EXCEPT ![f].paused = ses.paused,
                            ![f].pauseStart = IF ses.paused THEN now ELSE @,
                            ![f].pausedNs = IF ses.paused THEN @
                                            ELSE (@ + Minus(now, file[f].pauseStart)) % 2^Width]
    /\ todo' = [todo EXCEPT !.held = NoFile]
    /\ UNCHANGED <<now, ses, live, trouble>>

\* onPacket: the stream's first key frame, which the encoder took a moment ago.
FirstFrame(f, ago) ==
    /\ f \in OpenFiles \cap Shared /\ file[f].started /\ file[f].first = 0 /\ ago < now
    /\ Troubled(ago > 0)
    /\ file' = [file EXCEPT ![f].first = now - ago, ![f].place = live, ![f].slack = @ + ago,
                            ![f].ran = 0, ![f].frames = 0]
    /\ UNCHANGED <<now, ses, todo, live>>

\* onOutputStopped, at any moment
OutputDies(f) ==
    /\ f \in OpenFiles /\ file[f].started /\ Troubled(TRUE)
    /\ file' = [file EXCEPT ![f].out = "off", ![f].started = FALSE, ![f].failed = TRUE,
                            ![f].stopNs = now]
    /\ UNCHANGED <<now, ses, todo, live>>

\* finishRecorder: the times are read, the recorder stops, its frames are counted,
\* and what remains is its record.
Closed(f) ==
    LET r == file[f]
        d == Duration(r)
        status == CASE r.failed -> "failed"
                    [] ~r.failed /\ Shortfall(r.frames, d, Rate[r.kind]) -> "aborted"
                    [] OTHER -> "complete"
    IN  [NewFile EXCEPT !.phase = "closed", !.kind = r.kind,
                        !.listed = [offset |-> OffsetFor(r), duration |-> d, status |-> status],
                        !.failed = r.failed, !.first = r.first, !.frames = r.frames,
                        !.ran = r.ran, !.slack = r.slack, !.place = r.place,
                        !.refused = r.refused]

\* closeEntry, of a source unticked or resized, or before the next game.
Leave(f) ==
    /\ Idle /\ f \in OpenFiles
    /\ file' = [file EXCEPT ![f] = Closed(f)]
    /\ UNCHANGED <<now, ses, todo, live, trouble>>

\* closeEntry, in stop()
CloseFile(f) ==
    /\ f \in todo.closing /\ todo.pausing = {} /\ todo.held = NoFile
    /\ file' = [file EXCEPT ![f] = Closed(f)]
    /\ todo' = [todo EXCEPT !.closing = @ \ {f}]
    /\ UNCHANGED <<now, ses, live, trouble>>

\* External: a tick of time.  Each output that records delivers its frames, but
\* an encoder in L drops one.
Recording(f) == file[f].out = "on" /\ (f \in Shared => file[f].first # 0)
Advance(L) ==
    /\ now < MaxTime /\ (ses.active \/ ses.resumable)
    /\ L \subseteq {f \in File : Recording(f)}
    /\ trouble' = trouble + Cardinality(L) + (IF Idle THEN 0 ELSE 1) /\ trouble' <= MaxTrouble
    /\ now' = now + 1
    /\ live' = IF ses.epoch # 0 /\ ~ses.paused THEN live + 1 ELSE live
    /\ file' = [f \in File |->
           [file[f] EXCEPT
               !.ran = IF Recording(f) THEN @ + 1 ELSE @,
               !.frames = IF Recording(f) THEN @ + Rate[file[f].kind] - (IF f \in L THEN 1 ELSE 0) ELSE @,
               !.slack = IF f \in todo.starting \cup todo.pausing \cup {todo.held} THEN @ + 1 ELSE @]]
    /\ UNCHANGED <<ses, todo>>

Next == \/ \E S \in SUBSET File : Start(S)
        \/ \E f \in File, kind \in Kind : StartFile(f, kind) \/ JoinFile(f, kind)
        \/ \E f \in File : Leave(f) \/ CloseFile(f) \/ OutputDies(f)
        \/ \E f \in File, ok \in BOOLEAN : PauseOutput(f, ok)
        \/ \E f \in File, ago \in 0..1 : FirstFrame(f, ago)
        \/ PauseSession \/ ReadClock \/ EndSession
        \/ \E resumable \in BOOLEAN : Stop(resumable)
        \/ \E L \in SUBSET File : Advance(L)

Spec == Init /\ [][Next]_vars

-----------------------------------------------------------------------------
(* Properties.                                                               *)

Recorded == {f \in File : file[f].phase # "new"}
OffsetOf(f) == IF file[f].phase = "closed" THEN file[f].listed.offset ELSE OffsetFor(file[f])
DurationOf(f) == IF file[f].phase = "closed" THEN file[f].listed.duration ELSE Duration(file[f])

\* Types: a handler waits for one recorder at a time and only a session's own.
TypeOK ==
    /\ now \in 1..MaxTime /\ live \in 0..MaxTime /\ ses.duration \in 0..MaxTime
    /\ Len(ses.pauses) <= MaxPauses
    /\ todo.pausing \cup todo.closing \subseteq OpenFiles
    /\ todo.held \in OpenFiles \cup {NoFile}
    /\ OpenFiles # {} => ses.active
    /\ \A f \in File : /\ file[f].pausedNs \in 0..MaxTime
                       /\ file[f].offset \in 0..MaxTime
                       /\ file[f].listed.duration \in 0..MaxTime

\* iso-session.cpp:293: the session's clock is its wall clock without the pauses,
\* through any number of pauses and through a stop that is carried on, and so is
\* the duration that a session ends with.  No difference of two times wraps.
ClockSkipsPauses ==
    /\ TypeOK
    /\ ses.epoch # 0 => Elapsed(now) = live
    /\ ~ses.active /\ ~ses.resumable => ses.duration = live

\* iso-session.cpp:367: the place of a file is where the session's timeline stood
\* when it began, before, in and after pauses, give or take the start's own time.
OffsetIsPlace ==
    \A f \in Recorded : OffsetOf(f) \in file[f].place - file[f].slack .. file[f].place + file[f].slack

\* docs/spec.md:200-201: the offset is written down "so the editor places the clip
\* exactly", so later pauses do not change it (a shared file's first frame does).
OffsetsStay ==
    [][\A f \in OpenFiles : file'[f].first = file[f].first =>
          OffsetOf(f)' = OffsetOf(f)]_vars

\* source-recorder.cpp:62-104: a file's duration is what its output recorded, through
\* pauses, refusals and its death, give or take the time between an output's pause
\* and the reading of the clock.  (An output that dies in that time lists 0: the
\* pause then seems to begin after the end.)
DurationIsRecorded ==
    \A f \in Recorded :
        LET r == file[f] IN
        \/ DurationOf(f) \in r.ran - r.slack .. r.ran + r.slack
        \/ r.failed /\ r.slack > 0 /\ DurationOf(f) = 0
        \/ f \in Shared /\ r.first = 0

\* No file of its own encoder that pauses when it is told to reaches past the
\* session's clock.
FilesFitTheSession ==
    \A f \in Recorded \ Shared :
        ~file[f].refused => OffsetOf(f) + DurationOf(f) <= live + file[f].slack

\* The clock of a recorder, which is read after the session's, stays with it.
ClocksAgree == DurationIsRecorded /\ FilesFitTheSession

\* iso-session.cpp:161-180: an encoder that lost no more than half a second is not
\* blamed, however often it was paused, and at half rate.
HealthyIsComplete ==
    \A f \in Recorded :
        LET r == file[f] IN
        r.listed.status = "aborted" /\ (f \in Shared => r.first # 0) =>
            100 * (Rate[file[f].kind] * (r.ran + r.slack) - r.frames) > Ramp * Rate[file[f].kind]

\* ... and one that lost more in a file long enough is.
LossyIsNamed ==
    \A f \in Recorded :
        LET r == file[f] IN
        r.listed.status = "complete" /\ r.ran - r.slack >= JudgedFrom =>
            100 * (Rate[file[f].kind] * (r.ran - r.slack) - r.frames)
                <= Larger(Share * Rate[file[f].kind] * (r.ran + r.slack), Ramp * Rate[file[f].kind])

\* The frame verdict blames an encoder for what it lost and for nothing else.
VerdictIsJust == HealthyIsComplete /\ LossyIsNamed
=============================================================================
