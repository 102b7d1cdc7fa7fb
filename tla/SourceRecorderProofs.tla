------------------------ MODULE SourceRecorderProofs ------------------------
(* Proofs about SourceRecorder, for recorders of any kinds: what it holds at  *)
(* every point of its life, and with it that no callback on another thread    *)
(* meets what is gone, that its own stop is no failure, and that its encoders *)
(* outlive its output.                                                        *)
EXTENDS SourceRecorder, TLAPS

USE KindsAssumption

-----------------------------------------------------------------------------
(* What is held.                                                             *)

\* The view of a video, which outlives a refused pipeline.
View == IF kind = "video" THEN {"view", "showing"} ELSE {}

Launched == View \cup CASE kind = "video"  -> {"output", "venc", "aenc", "audio"}
                        [] kind = "shared" -> {"output", "venc", "aenc", "packets"}
                        [] kind = "audio"  -> {"audio", "wav", "pcm"}

\* All that a recorder holds when it runs.
Full == Launched \cup (IF kind = "audio" THEN {"showing"} ELSE {"event", "signal"})

\* A shared recorder whose output died: its stop() finds nothing to do.
LeftBehind == kind = "shared" /\ held = Full /\ ~started /\ out = "ended" /\ cb = "idle"

Before == {"new", "wavOpen", "view", "close", "refused"}

HoldsOnTheWayIn ==
    /\ pc \in Before => out = "none" /\ ~started /\ ~outputStarted /\ ~dying
    /\ pc = "new" => held = {}
    /\ pc = "wavOpen" => kind = "audio" /\ held = Launched
    /\ pc = "view" => kind = "video" /\ held = View
    /\ pc = "close" => kind # "audio" /\ held \ Pipeline = View
    /\ pc = "refused" => held \subseteq View
    /\ pc = "launched" => kind # "audio" /\ held = Launched /\ ~started /\ ~dying
    /\ pc = "listen" => kind # "audio" /\ held = Launched \cup {"event"} /\ started /\ ~dying
                        /\ outputStarted
    /\ pc \in {"launched", "listen"} => out \in {"active", "ended"}
    /\ kind = "audio" => out = "none"
    /\ retry => kind = "video"
    /\ "showing" \in held => "view" \in held \/ kind = "audio"

\* From the running recorder to the last step of the destructor.
HoldsOnTheWayOut ==
    /\ pc = "running" \/ (pc = "stop" /\ ~dying) =>
          /\ held = Full /\ ~dying
          /\ outputStarted <=> kind # "audio"
          /\ kind # "audio" => out \in {"active", "emitting", "ended"}
          /\ kind # "audio" /\ ~started => out = "ended"
    /\ pc = "stop" /\ dying => ~started /\ (held \subseteq View \/ LeftBehind)
    /\ pc \in {"force", "wait", "disconnect"} => held = Full /\ kind # "audio" /\ ~started
    /\ pc = "force" => out \in {"active", "emitting", "ended"}
    /\ pc = "wait" => out \in {"stopping", "emitting", "ended"}
    /\ pc = "disconnect" => out \in {"emitting", "ended"}
    /\ pc \in {"count", "release"} => out = "ended" /\ ~started /\ kind # "audio"
    /\ pc = "count" => held = Full \ {"signal"}
    /\ pc = "release" => held = Full \ {"signal", "packets"}
    /\ pc \in {"free", "audio", "view2"} =>
          /\ out \in {"none", "ended"} /\ ~started
          /\ held \cap {"output", "signal", "packets"} = {}
    /\ pc \in {"audio", "view2"} => held \cap {"event", "aenc", "venc"} = {}
    /\ pc = "view2" => held \cap {"pcm", "audio"} = {}
    /\ pc \in {"finished", "gone"} => ~started /\ (held = {} \/ LeftBehind)
    /\ pc = "finished" => ~dying

\* The output and the two callbacks.
OutInv ==
    /\ out = "emitting" <=> cb # "idle"
    /\ cb # "idle" => "signal" \in held /\ kind # "audio"
    /\ out = "none" => ~counted
    /\ counted => out = "ended"
    /\ eventSet => out \in {"emitting", "ended"} /\ cb # "event"
    /\ "signal" \in held => held = Full /\ kind # "audio"
    /\ out \in {"active", "stopping"} => {"output", "venc", "aenc"} \subseteq held /\ (kind = "video" => "audio" \in held)
    /\ pcm # "idle" => "pcm" \in held
    /\ "pcm" \in held => {"wav", "audio"} \subseteq held /\ kind = "audio"

\* Who ended it.
BlameInv ==
    /\ OwnStopIsNoFailure
    /\ started /\ cb # "idle" => died
    /\ out = "stopping" => ~started

Flags == /\ retry \in BOOLEAN /\ dying \in BOOLEAN /\ started \in BOOLEAN
         /\ outputStarted \in BOOLEAN /\ failed \in BOOLEAN /\ eventSet \in BOOLEAN
         /\ paused \in BOOLEAN /\ counted \in BOOLEAN /\ died \in BOOLEAN
         /\ encoderPaused \in BOOLEAN

Typed == /\ kind \in {"video", "shared", "audio"}
         /\ pc \in {"new", "wavOpen", "view", "close", "launched", "listen", "running",
                    "stop", "force", "wait", "disconnect", "count", "release", "free",
                    "audio", "view2", "finished", "refused", "gone"}
         /\ error \in Causes
         /\ out \in {"none", "active", "stopping", "emitting", "ended"}
         /\ cb \in {"idle", "event", "check", "fail", "error", "clear"}
         /\ pcm \in {"idle", "write", "error"}

Kept == /\ held \subseteq Resources
        /\ report \in [status : {"none", "complete", "failed"}, reason : Causes]

RecorderInv ==
    Typed /\ Kept /\ Flags /\ HoldsOnTheWayIn /\ HoldsOnTheWayOut /\ OutInv /\ BlameInv /\ StreamNeverPaused

-----------------------------------------------------------------------------
(* Every step keeps it.                                                      *)

LEMMA StepFlags == ASSUME RecorderInv, [Next]_vars PROVE Flags'
<1> USE DEF RecorderInv, Flags, mainVars
<1>1. CASE OpenWav \/ StartWav
  BY <1>1, ZenonT(60) DEF OpenWav, StartWav, Fail
<1>2. CASE OpenView \/ PipelineRefused
  BY <1>2, ZenonT(60) DEF OpenView, PipelineRefused, Fail, Opening, Partial
<1>3. CASE CloseVideoPipeline
  BY <1>3, ZenonT(60) DEF CloseVideoPipeline, Fail
<1>4. CASE OutputRuns \/ MarkStarted \/ ConnectStop
  BY <1>4, ZenonT(60) DEF OutputRuns, MarkStarted, ConnectStop, Opening
<1>5. CASE SetPaused \/ ReadVerdict \/ Destroy
  BY <1>5, ZenonT(60) DEF SetPaused, ReadVerdict, Destroy
<1>6. CASE StopReturnsEarly
  BY <1>6, ZenonT(60) DEF StopReturnsEarly, NothingToStop
<1>7. CASE StopBegins \/ ForceStop
  BY <1>7, ZenonT(60) DEF StopBegins, ForceStop, NothingToStop
<1>8. CASE StopReported \/ StopTimesOut \/ DisconnectStop
  BY <1>8, ZenonT(60) DEF StopReported, StopTimesOut, DisconnectStop
<1>9. CASE CountFrames \/ ReleaseOutput
  BY <1>9, ZenonT(60) DEF CountFrames, ReleaseOutput
<1>10. CASE FreeEncoders \/ FreeAudio
  BY <1>10, ZenonT(60) DEF FreeEncoders, FreeAudio
<1>11. CASE FreeViewAndFile
  BY <1>11, ZenonT(60) DEF FreeViewAndFile
<1>12. CASE OutputDies \/ OutputStops
  BY <1>12, ZenonT(60) DEF OutputDies, OutputStops, Emit
<1>13. CASE SignalEvent \/ CheckStarted \/ MarkFailed \/ SetError \/ ClearStarted
  BY <1>13, ZenonT(60) DEF SignalEvent, CheckStarted, MarkFailed, SetError, ClearStarted, CallbackReturns
<1>14. CASE PcmArrives \/ PcmWrites \/ PcmSetsError
  BY <1>14, ZenonT(60) DEF PcmArrives, PcmWrites, PcmSetsError
<1>15. CASE UNCHANGED vars BY <1>15 DEF vars
<1>16. QED
  BY <1>1, <1>2, <1>3, <1>4, <1>5, <1>6, <1>7, <1>8, <1>9, <1>10, <1>11, <1>12, <1>13, <1>14, <1>15
     DEF Next, Main, Starts, Stops, StopCallback, PcmCallback

LEMMA StepTypes == ASSUME RecorderInv, [Next]_vars PROVE Typed'
<1> USE DEF RecorderInv, Typed, Causes, mainVars
<1>1. CASE OpenWav \/ StartWav
  BY <1>1 DEF OpenWav, StartWav, Fail
<1>2. CASE OpenView \/ PipelineRefused
  BY <1>2 DEF OpenView, PipelineRefused, Fail, Opening, Partial
<1>3. CASE CloseVideoPipeline
  BY <1>3 DEF CloseVideoPipeline, Fail
<1>4. CASE OutputRuns \/ MarkStarted \/ ConnectStop
  BY <1>4 DEF OutputRuns, MarkStarted, ConnectStop, Opening
<1>5. CASE SetPaused \/ ReadVerdict \/ Destroy
  BY <1>5 DEF SetPaused, ReadVerdict, Destroy
<1>6. CASE StopReturnsEarly
  BY <1>6 DEF StopReturnsEarly, NothingToStop
<1>7. CASE StopBegins \/ ForceStop
  BY <1>7 DEF StopBegins, ForceStop, NothingToStop
<1>8. CASE StopReported \/ StopTimesOut \/ DisconnectStop
  BY <1>8 DEF StopReported, StopTimesOut, DisconnectStop
<1>9. CASE CountFrames \/ ReleaseOutput
  BY <1>9 DEF CountFrames, ReleaseOutput
<1>10. CASE FreeEncoders \/ FreeAudio
  BY <1>10 DEF FreeEncoders, FreeAudio
<1>11. CASE FreeViewAndFile
  BY <1>11 DEF FreeViewAndFile
<1>12. CASE OutputDies \/ OutputStops
  BY <1>12 DEF OutputDies, OutputStops, Emit
<1>13. CASE SignalEvent \/ CheckStarted \/ MarkFailed \/ SetError \/ ClearStarted
  BY <1>13 DEF SignalEvent, CheckStarted, MarkFailed, SetError, ClearStarted, CallbackReturns
<1>14. CASE PcmArrives \/ PcmWrites \/ PcmSetsError
  BY <1>14 DEF PcmArrives, PcmWrites, PcmSetsError
<1>15. CASE UNCHANGED vars BY <1>15 DEF vars
<1>16. QED
  BY <1>1, <1>2, <1>3, <1>4, <1>5, <1>6, <1>7, <1>8, <1>9, <1>10, <1>11, <1>12, <1>13, <1>14, <1>15
     DEF Next, Main, Starts, Stops, StopCallback, PcmCallback

LEMMA StepKept == ASSUME RecorderInv, [Next]_vars PROVE Kept'
<1> USE DEF RecorderInv, Typed, Kept, Resources, Causes, Pipeline, mainVars
<1>1. CASE OpenWav \/ StartWav
  BY <1>1 DEF OpenWav, StartWav, Fail
<1>2. CASE OpenView \/ PipelineRefused
  BY <1>2 DEF OpenView, PipelineRefused, Fail, Opening, Partial
<1>3. CASE CloseVideoPipeline
  BY <1>3 DEF CloseVideoPipeline, Fail
<1>4. CASE OutputRuns \/ MarkStarted \/ ConnectStop
  BY <1>4 DEF OutputRuns, MarkStarted, ConnectStop, Opening
<1>5. CASE SetPaused \/ Destroy
  BY <1>5 DEF SetPaused, Destroy
<1>6. CASE StopReturnsEarly
  BY <1>6 DEF StopReturnsEarly, NothingToStop
<1>7. CASE StopBegins \/ ForceStop
  BY <1>7 DEF StopBegins, ForceStop, NothingToStop
<1>8. CASE StopReported \/ StopTimesOut \/ DisconnectStop
  BY <1>8 DEF StopReported, StopTimesOut, DisconnectStop
<1>9. CASE CountFrames \/ ReleaseOutput
  BY <1>9 DEF CountFrames, ReleaseOutput
<1>10. CASE FreeEncoders \/ FreeAudio
  BY <1>10 DEF FreeEncoders, FreeAudio
<1>11. CASE FreeViewAndFile
  BY <1>11 DEF FreeViewAndFile
<1>12. CASE OutputDies \/ OutputStops
  BY <1>12 DEF OutputDies, OutputStops, Emit
<1>13. CASE SignalEvent \/ CheckStarted \/ MarkFailed \/ SetError \/ ClearStarted
  BY <1>13 DEF SignalEvent, CheckStarted, MarkFailed, SetError, ClearStarted, CallbackReturns
<1>14. CASE PcmArrives \/ PcmWrites \/ PcmSetsError
  BY <1>14 DEF PcmArrives, PcmWrites, PcmSetsError
<1>15. CASE UNCHANGED vars BY <1>15 DEF vars
<1>16. CASE ReadVerdict
  <2>1. report'.status \in {"none", "complete", "failed"} /\ report'.reason \in Causes /\ held' = held
    BY <1>16 DEF ReadVerdict
  <2>2. report' = [status |-> report'.status, reason |-> report'.reason] BY <1>16 DEF ReadVerdict
  <2>3. QED BY <2>1, <2>2
<1>17. QED
  BY <1>1, <1>2, <1>3, <1>4, <1>5, <1>6, <1>7, <1>8, <1>9, <1>10, <1>11, <1>12, <1>13, <1>14, <1>15, <1>16
     DEF Next, Main, Starts, Stops, StopCallback, PcmCallback

LEMMA StepWayIn == ASSUME RecorderInv, [Next]_vars PROVE HoldsOnTheWayIn'
<1> USE DEF RecorderInv, Typed, HoldsOnTheWayIn, HoldsOnTheWayOut, OutInv, mainVars,
           LeftBehind, Before, Full, Launched, View, Pipeline
<1>1. CASE OpenWav \/ StartWav
  BY <1>1 DEF OpenWav, StartWav, Fail
<1>2. CASE OpenView \/ PipelineRefused
  BY <1>2 DEF OpenView, PipelineRefused, Fail, Opening, Partial
<1>3. CASE CloseVideoPipeline
  BY <1>3 DEF CloseVideoPipeline, Fail
<1>4. CASE OutputRuns \/ MarkStarted \/ ConnectStop
  BY <1>4 DEF OutputRuns, MarkStarted, ConnectStop, Opening
<1>5. CASE SetPaused \/ ReadVerdict \/ Destroy
  BY <1>5 DEF SetPaused, ReadVerdict, Destroy
<1>6. CASE StopReturnsEarly
  BY <1>6 DEF StopReturnsEarly, NothingToStop
<1>7. CASE StopBegins \/ ForceStop
  BY <1>7 DEF StopBegins, ForceStop, NothingToStop
<1>8. CASE StopReported \/ StopTimesOut \/ DisconnectStop
  BY <1>8 DEF StopReported, StopTimesOut, DisconnectStop
<1>9. CASE CountFrames \/ ReleaseOutput
  BY <1>9 DEF CountFrames, ReleaseOutput
<1>10. CASE FreeEncoders \/ FreeAudio
  BY <1>10 DEF FreeEncoders, FreeAudio
<1>11. CASE FreeViewAndFile
  BY <1>11 DEF FreeViewAndFile
<1>12. CASE OutputDies \/ OutputStops
  BY <1>12 DEF OutputDies, OutputStops, Emit
<1>13. CASE SignalEvent \/ CheckStarted \/ MarkFailed \/ SetError \/ ClearStarted
  BY <1>13 DEF SignalEvent, CheckStarted, MarkFailed, SetError, ClearStarted, CallbackReturns
<1>14. CASE PcmArrives \/ PcmWrites \/ PcmSetsError
  BY <1>14 DEF PcmArrives, PcmWrites, PcmSetsError
<1>15. CASE UNCHANGED vars BY <1>15 DEF vars
<1>16. QED
  BY <1>1, <1>2, <1>3, <1>4, <1>5, <1>6, <1>7, <1>8, <1>9, <1>10, <1>11, <1>12, <1>13, <1>14, <1>15
     DEF Next, Main, Starts, Stops, StopCallback, PcmCallback

LEMMA StepWayOut == ASSUME RecorderInv, [Next]_vars PROVE HoldsOnTheWayOut'
<1> USE DEF RecorderInv, Typed, HoldsOnTheWayIn, HoldsOnTheWayOut, OutInv, mainVars,
           LeftBehind, Before, Full, Launched, View, Pipeline
<1>1. CASE OpenWav \/ StartWav
  BY <1>1 DEF OpenWav, StartWav, Fail
<1>2. CASE OpenView \/ PipelineRefused
  BY <1>2 DEF OpenView, PipelineRefused, Fail, Opening, Partial
<1>3. CASE CloseVideoPipeline
  BY <1>3 DEF CloseVideoPipeline, Fail
<1>4. CASE OutputRuns \/ MarkStarted \/ ConnectStop
  BY <1>4 DEF OutputRuns, MarkStarted, ConnectStop, Opening
<1>5. CASE SetPaused \/ ReadVerdict \/ Destroy
  BY <1>5 DEF SetPaused, ReadVerdict, Destroy
<1>6. CASE StopReturnsEarly
  BY <1>6 DEF StopReturnsEarly, NothingToStop
<1>7. CASE StopBegins \/ ForceStop
  BY <1>7 DEF StopBegins, ForceStop, NothingToStop
<1>8. CASE StopReported \/ StopTimesOut \/ DisconnectStop
  BY <1>8 DEF StopReported, StopTimesOut, DisconnectStop
<1>9. CASE CountFrames \/ ReleaseOutput
  BY <1>9 DEF CountFrames, ReleaseOutput
<1>10. CASE FreeEncoders \/ FreeAudio
  BY <1>10 DEF FreeEncoders, FreeAudio
<1>11. CASE FreeViewAndFile
  BY <1>11 DEF FreeViewAndFile, Kept, Resources
<1>12. CASE OutputDies \/ OutputStops
  BY <1>12 DEF OutputDies, OutputStops, Emit
<1>13. CASE SignalEvent \/ CheckStarted \/ MarkFailed \/ SetError \/ ClearStarted
  BY <1>13 DEF SignalEvent, CheckStarted, MarkFailed, SetError, ClearStarted, CallbackReturns
<1>14. CASE PcmArrives \/ PcmWrites \/ PcmSetsError
  BY <1>14 DEF PcmArrives, PcmWrites, PcmSetsError
<1>15. CASE UNCHANGED vars BY <1>15 DEF vars
<1>16. QED
  BY <1>1, <1>2, <1>3, <1>4, <1>5, <1>6, <1>7, <1>8, <1>9, <1>10, <1>11, <1>12, <1>13, <1>14, <1>15
     DEF Next, Main, Starts, Stops, StopCallback, PcmCallback

LEMMA StepOut == ASSUME RecorderInv, [Next]_vars PROVE OutInv'
<1> USE DEF RecorderInv, Typed, HoldsOnTheWayIn, HoldsOnTheWayOut, OutInv, mainVars,
           LeftBehind, Before, Full, Launched, View, Pipeline
<1>1. CASE OpenWav \/ StartWav
  BY <1>1 DEF OpenWav, StartWav, Fail
<1>2. CASE OpenView \/ PipelineRefused
  BY <1>2 DEF OpenView, PipelineRefused, Fail, Opening, Partial
<1>3. CASE CloseVideoPipeline
  BY <1>3 DEF CloseVideoPipeline, Fail
<1>4. CASE OutputRuns \/ MarkStarted \/ ConnectStop
  BY <1>4 DEF OutputRuns, MarkStarted, ConnectStop, Opening
<1>5. CASE SetPaused \/ ReadVerdict \/ Destroy
  BY <1>5 DEF SetPaused, ReadVerdict, Destroy
<1>6. CASE StopReturnsEarly
  BY <1>6 DEF StopReturnsEarly, NothingToStop
<1>7. CASE StopBegins \/ ForceStop
  BY <1>7 DEF StopBegins, ForceStop, NothingToStop
<1>8. CASE StopReported \/ StopTimesOut \/ DisconnectStop
  BY <1>8 DEF StopReported, StopTimesOut, DisconnectStop
<1>9. CASE CountFrames \/ ReleaseOutput
  BY <1>9 DEF CountFrames, ReleaseOutput
<1>10. CASE FreeEncoders \/ FreeAudio
  BY <1>10 DEF FreeEncoders, FreeAudio
<1>11. CASE FreeViewAndFile
  BY <1>11 DEF FreeViewAndFile
<1>12. CASE OutputDies \/ OutputStops
  BY <1>12 DEF OutputDies, OutputStops, Emit
<1>13. CASE SignalEvent \/ CheckStarted \/ MarkFailed \/ SetError \/ ClearStarted
  BY <1>13 DEF SignalEvent, CheckStarted, MarkFailed, SetError, ClearStarted, CallbackReturns
<1>14. CASE PcmArrives \/ PcmWrites \/ PcmSetsError
  BY <1>14 DEF PcmArrives, PcmWrites, PcmSetsError
<1>15. CASE UNCHANGED vars BY <1>15 DEF vars
<1>16. QED
  BY <1>1, <1>2, <1>3, <1>4, <1>5, <1>6, <1>7, <1>8, <1>9, <1>10, <1>11, <1>12, <1>13, <1>14, <1>15
     DEF Next, Main, Starts, Stops, StopCallback, PcmCallback

LEMMA StepBlame == ASSUME RecorderInv, [Next]_vars PROVE BlameInv' /\ StreamNeverPaused'
<1> USE DEF RecorderInv, Typed, BlameInv, OwnStopIsNoFailure, StreamNeverPaused, HoldsOnTheWayIn, HoldsOnTheWayOut, OutInv, mainVars,
           LeftBehind, Before, Full, Launched, View, Pipeline
<1>1. CASE OpenWav \/ StartWav
  BY <1>1 DEF OpenWav, StartWav, Fail
<1>2. CASE OpenView \/ PipelineRefused
  BY <1>2 DEF OpenView, PipelineRefused, Fail, Opening, Partial
<1>3. CASE CloseVideoPipeline
  BY <1>3 DEF CloseVideoPipeline, Fail
<1>4. CASE OutputRuns \/ MarkStarted \/ ConnectStop
  BY <1>4 DEF OutputRuns, MarkStarted, ConnectStop, Opening
<1>5. CASE SetPaused \/ ReadVerdict \/ Destroy
  BY <1>5 DEF SetPaused, ReadVerdict, Destroy
<1>6. CASE StopReturnsEarly
  BY <1>6 DEF StopReturnsEarly, NothingToStop
<1>7. CASE StopBegins \/ ForceStop
  BY <1>7 DEF StopBegins, ForceStop, NothingToStop
<1>8. CASE StopReported \/ StopTimesOut \/ DisconnectStop
  BY <1>8 DEF StopReported, StopTimesOut, DisconnectStop
<1>9. CASE CountFrames \/ ReleaseOutput
  BY <1>9 DEF CountFrames, ReleaseOutput
<1>10. CASE FreeEncoders \/ FreeAudio
  BY <1>10 DEF FreeEncoders, FreeAudio
<1>11. CASE FreeViewAndFile
  BY <1>11 DEF FreeViewAndFile
<1>12. CASE OutputDies \/ OutputStops
  BY <1>12 DEF OutputDies, OutputStops, Emit
<1>13. CASE SignalEvent \/ CheckStarted \/ MarkFailed \/ SetError \/ ClearStarted
  BY <1>13 DEF SignalEvent, CheckStarted, MarkFailed, SetError, ClearStarted, CallbackReturns
<1>14. CASE PcmArrives \/ PcmWrites \/ PcmSetsError
  BY <1>14 DEF PcmArrives, PcmWrites, PcmSetsError
<1>15. CASE UNCHANGED vars BY <1>15 DEF vars
<1>16. QED
  BY <1>1, <1>2, <1>3, <1>4, <1>5, <1>6, <1>7, <1>8, <1>9, <1>10, <1>11, <1>12, <1>13, <1>14, <1>15
     DEF Next, Main, Starts, Stops, StopCallback, PcmCallback

-----------------------------------------------------------------------------
(* The invariant, and what follows from it.                                  *)

LEMMA InitInv == Init => RecorderInv
<1> SUFFICES ASSUME Init PROVE RecorderInv OBVIOUS
<1>1. Typed /\ Kept BY DEF Init, Typed, Kept, Causes
<1>2. Flags
  <2>1. retry \in BOOLEAN BY DEF Init
  <2>2. QED BY <2>1 DEF Init, Flags
<1>3. HoldsOnTheWayIn /\ HoldsOnTheWayOut
  BY DEF Init, HoldsOnTheWayIn, HoldsOnTheWayOut
<1>4. OutInv /\ BlameInv /\ StreamNeverPaused
  BY DEF Init, OutInv, BlameInv, OwnStopIsNoFailure, StreamNeverPaused
<1>5. QED BY <1>1, <1>2, <1>3, <1>4 DEF RecorderInv

LEMMA RecorderInvariant == Spec => []RecorderInv
<1>1. RecorderInv /\ [Next]_vars => RecorderInv'
  BY StepFlags, StepTypes, StepKept, StepWayIn, StepWayOut, StepOut, StepBlame DEF RecorderInv
<1>2. QED BY InitInv, <1>1, PTL DEF Spec

LEMMA TypesFollow == RecorderInv => TypeOK
<1> SUFFICES ASSUME RecorderInv PROVE TypeOK OBVIOUS
<1>1. {retry, dying, started, outputStarted, failed, eventSet, paused, counted, died,
       encoderPaused} \subseteq BOOLEAN
  BY DEF RecorderInv, Flags
<1>2. pc \in {"finished", "gone"} => ~started BY DEF RecorderInv, HoldsOnTheWayOut
<1>3. QED BY <1>1, <1>2 DEF RecorderInv, Typed, Kept, TypeOK

\* Whatever the order of the main thread's steps and of the two callbacks, from the
\* start of a recorder of any kind to the end of its destructor, a callback finds
\* the event, the output and the file it uses.
THEOREM CallbacksStaySafe == Spec => []CallbacksAreSafe
<1>1. ASSUME RecorderInv PROVE CallbacksAreSafe
  <2> USE DEF RecorderInv
  <2>1. TypeOK BY <1>1, TypesFollow
  <2>2. CallbackHasItsEvent
    BY <1>1 DEF CallbackHasItsEvent, HoldsOnTheWayOut, OutInv, LeftBehind, Full, Launched, View, Typed
  <2>3. NoCallbackIntoTheDead
    BY <1>1 DEF NoCallbackIntoTheDead, HoldsOnTheWayOut, OutInv, LeftBehind, Full, Launched, View, Typed
  <2>4. WavWrittenWhileOpen BY <1>1 DEF WavWrittenWhileOpen, OutInv
  <2>5. QED BY <2>1, <2>2, <2>3, <2>4 DEF CallbacksAreSafe
<1>2. QED BY RecorderInvariant, <1>1, PTL

\* In no interleaving is a recorder called failed because it was stopped.
THEOREM OwnStopNeverFails == Spec => []OwnStopIsNoFailure
<1>1. RecorderInv => OwnStopIsNoFailure BY DEF RecorderInv, BlameInv
<1>2. QED BY RecorderInvariant, <1>1, PTL

\* Encoders and audio device outlive the output they feed, and the stream's are
\* never paused.
THEOREM EncodersOutliveOutput == Spec => []EncodersAreSafe
<1>1. ASSUME RecorderInv PROVE EncodersAreSafe
  <2> USE DEF RecorderInv
  <2>1. OutputKeepsItsFeed
    BY <1>1 DEF OutputKeepsItsFeed, OutInv, Full, Launched, View, Typed
  <2>2. QED BY <1>1, <2>1 DEF EncodersAreSafe
<1>2. QED BY RecorderInvariant, <1>1, PTL

\* totalFrames() is read only off an output that has ended, also when stop() timed out.
THEOREM FramesAreCountedLast == Spec => []FramesCountedAtTheEnd
<1>1. RecorderInv => FramesCountedAtTheEnd BY DEF RecorderInv, OutInv, FramesCountedAtTheEnd
<1>2. QED BY RecorderInvariant, <1>1, PTL

\* However its start was refused, its output died or its stop timed out, a recorder
\* with its own encoder or a WAV gives back all it took.
THEOREM OwnRecorderLeavesNothing == Spec => []OwnLeavesNothing
<1>1. RecorderInv => OwnLeavesNothing
  BY DEF RecorderInv, HoldsOnTheWayOut, LeftBehind, OwnLeavesNothing
<1>2. QED BY RecorderInvariant, <1>1, PTL
=============================================================================
