--------------------------- MODULE SourceRecorder ---------------------------
(* The life of one SourceRecorder (src/source-recorder.cpp): the main thread *)
(* opens it, pauses it, stops it and deletes it, while OBS's threads call    *)
(* back into it: onOutputStopped on the output's thread, onPcm on the        *)
(* recorder's audio thread, onPacket on the stream encoder's thread.  Every  *)
(* step of stop() and of the two callbacks that write shared state is a step *)
(* here, so they interleave as the threads do.  Picture size, timestamps and *)
(* audio content are not modelled here (AudioPath has the audio hand-over).  *)
(*                                                                           *)
(* An OBS output is external.  It may die while active; when it ends, by     *)
(* itself or after a force stop, its thread emits "stop" while the output    *)
(* still counts as running; signal_handler_disconnect and the removals of    *)
(* the packet and PCM callbacks wait for a callback that is running; and     *)
(* releasing an output waits until it has ended.                             *)
EXTENDS FiniteSets

CONSTANT Kinds   \* the recorders checked: "video", "shared", "audio"
ASSUME KindsAssumption == Kinds \subseteq {"video", "shared", "audio"}

VARIABLES
  kind,          \* own video encoder, the stream's encoders (shared_), or a WAV
  pc,            \* where the main thread is
  retry,         \* a second, software encoder is still to be tried
  dying,         \* the stop() that runs was called by the destructor
  held,          \* what the recorder owns or has registered
  started,       \* started_
  outputStarted, \* outputStarted_
  failed,        \* failed_
  error,         \* error_, as its cause
  eventSet,      \* stopEvent_ is signalled
  paused,        \* paused_
  counted,       \* totalFrames_ was read
  out,           \* external: the OBS output
  died,          \* history: the output ended without being asked to
  encoderPaused, \* external: the output's encoders are paused
  cb,            \* where onOutputStopped is
  pcm,           \* where onPcm is
  report         \* what finishRecorder wrote into the manifest

mainVars == <<kind, retry, dying, outputStarted, counted, paused, encoderPaused>>
vars == <<kind, pc, retry, dying, held, started, outputStarted, failed, error, eventSet,
          paused, counted, out, died, encoderPaused, cb, pcm, report>>

Resources == {"view", "showing", "output", "venc", "aenc", "audio", "event", "signal",
              "packets", "pcm", "wav"}
Causes == {"none", "start", "died", "wav"}

Init == /\ kind \in Kinds
        /\ retry \in (IF kind = "video" THEN BOOLEAN ELSE {FALSE})
        /\ pc = "new"
        /\ dying = FALSE
        /\ held = {}
        /\ started = FALSE /\ outputStarted = FALSE
        /\ failed = FALSE /\ error = "none"
        /\ eventSet = FALSE
        /\ paused = FALSE /\ counted = FALSE
        /\ out = "none" /\ died = FALSE /\ encoderPaused = FALSE
        /\ cb = "idle" /\ pcm = "idle"
        /\ report = [status |-> "none", reason |-> "none"]

-----------------------------------------------------------------------------
(* start() and startShared(), on the main thread.                            *)

\* fail(): the caller destroys the recorder.
Fail == failed' = TRUE /\ error' = "start" /\ pc' = "refused"

\* An audio-only source: the device, the file and the PCM callback, or nothing.
OpenWav ==
    /\ pc = "new" /\ kind = "audio"
    /\ \/ /\ held' = held \cup {"audio", "wav", "pcm"}
          /\ pc' = "wavOpen"
          /\ UNCHANGED <<failed, error>>
       \/ Fail /\ UNCHANGED held
    /\ UNCHANGED <<mainVars, started, eventSet, out, died, cb, pcm, report>>

\* Samples may already arrive before started_ is set.
StartWav ==
    /\ pc = "wavOpen"
    /\ held' = held \cup {"showing"}
    /\ started' = TRUE
    /\ pc' = "running"
    /\ UNCHANGED <<mainVars, failed, error, eventSet, out, died, cb, pcm, report>>

\* The private view with its background; each can be refused.
OpenView ==
    /\ pc = "new" /\ kind = "video"
    /\ \/ /\ held' = held \cup {"view", "showing"}
          /\ pc' = "view"
          /\ UNCHANGED <<failed, error>>
       \/ Fail /\ held' \in {held, held \cup {"view"}}
    /\ UNCHANGED <<mainVars, started, eventSet, out, died, cb, pcm, report>>

\* How far openVideoPipeline or startShared can get before something is refused.
Partial == IF kind = "shared"
           THEN {{}, {"output", "venc", "aenc", "packets"}}
           ELSE {{}, {"venc"}, {"venc", "output"}, {"venc", "output", "audio"},
                 {"venc", "output", "audio", "aenc"}}

Opening == pc = "view" \/ (pc = "new" /\ kind = "shared")

PipelineRefused ==
    /\ Opening
    /\ \E part \in Partial : held' = held \cup part
    /\ error' = "start"
    /\ pc' = "close"
    /\ UNCHANGED <<mainVars, started, failed, eventSet, out, died, cb, pcm, report>>

\* closeVideoPipeline: an output that never ran is released without waiting, and
\* its packet callback goes with it.
Pipeline == {"output", "venc", "aenc", "audio", "packets"}

CloseVideoPipeline ==
    /\ pc = "close"
    /\ held' = held \ Pipeline
    /\ started' = FALSE /\ outputStarted' = FALSE
    /\ IF retry
       THEN pc' = "view" /\ retry' = FALSE /\ UNCHANGED <<failed, error>>
       ELSE Fail /\ UNCHANGED retry
    /\ UNCHANGED <<kind, dying, counted, paused, encoderPaused, eventSet, out, died, cb,
                   pcm, report>>

\* obs_output_start succeeds: the output runs before anyone listens to it.
OutputRuns ==
    /\ Opening
    /\ held' = held \cup {"output", "venc", "aenc"}
                    \cup (IF kind = "shared" THEN {"packets"} ELSE {"audio"})
    /\ error' = "none"
    /\ out' = "active"
    /\ pc' = "launched"
    /\ UNCHANGED <<mainVars, started, failed, eventSet, died, cb, pcm, report>>

MarkStarted ==
    /\ pc = "launched"
    /\ started' = TRUE /\ outputStarted' = TRUE
    /\ held' = held \cup {"event"}
    /\ pc' = "listen"
    /\ UNCHANGED <<kind, retry, dying, counted, paused, encoderPaused, failed, error,
                   eventSet, out, died, cb, pcm, report>>

ConnectStop ==
    /\ pc = "listen"
    /\ held' = held \cup {"signal"}
    /\ pc' = "running"
    /\ UNCHANGED <<mainVars, started, failed, error, eventSet, out, died, cb, pcm, report>>

-----------------------------------------------------------------------------
\* setPaused: a shared recorder is left alone, the output of an own pipeline is
\* paused at its encoders and can refuse, a WAV drops its samples.
SetPaused ==
    /\ pc = "running"
    /\ started /\ kind # "shared"
    /\ "output" \in held => out = "active"
    /\ paused' = ~paused
    /\ encoderPaused' = (IF "output" \in held THEN paused' ELSE encoderPaused)
    /\ UNCHANGED <<kind, pc, retry, dying, held, started, outputStarted, failed, error,
                   eventSet, counted, out, died, cb, pcm, report>>

\* finishRecorder asks for the verdict before it stops the recorder.
ReadVerdict ==
    /\ pc = "running"
    /\ report' = [status |-> IF failed THEN "failed" ELSE "complete",
                  reason |-> IF failed THEN error ELSE "none"]
    /\ pc' = "stop"
    /\ UNCHANGED <<mainVars, held, started, failed, error, eventSet, out, died, cb, pcm>>

\* The destructor, after finishRecorder or after a start that failed.
Destroy ==
    /\ pc \in {"finished", "refused"}
    /\ dying' = TRUE
    /\ pc' = "stop"
    /\ UNCHANGED <<kind, retry, held, started, outputStarted, failed, error, eventSet,
                   paused, counted, out, died, encoderPaused, cb, pcm, report>>

-----------------------------------------------------------------------------
(* stop(), on the main thread.                                               *)

\* A mutant: only a started recorder has something to stop.
NothingStarted == ~started

NothingToStop == ~started /\ {"view", "audio"} \cap held = {}

StopReturnsEarly ==
    /\ pc = "stop"
    /\ NothingToStop
    /\ pc' = (IF dying THEN "gone" ELSE "finished")
    /\ UNCHANGED <<mainVars, held, started, failed, error, eventSet, out, died, cb, pcm,
                   report>>

\* Mutants of StopBegins: started_ stays up; the output is not stopped.
StopBeginsStarted ==
    /\ pc = "stop"
    /\ ~NothingToStop
    /\ pc' = (IF "output" \in held /\ outputStarted THEN "force" ELSE "free")
    /\ UNCHANGED <<mainVars, started, held, failed, error, eventSet, out, died, cb, pcm, report>>

StopBeginsFreeing ==
    /\ pc = "stop"
    /\ ~NothingToStop
    /\ started' = FALSE
    /\ pc' = "free"
    /\ UNCHANGED <<mainVars, held, failed, error, eventSet, out, died, cb, pcm, report>>

\* started_ goes down first, so the callback of this stop is not taken for a failure.
StopBegins ==
    /\ pc = "stop"
    /\ ~NothingToStop
    /\ started' = FALSE
    /\ pc' = (IF "output" \in held /\ outputStarted THEN "force" ELSE "free")
    /\ UNCHANGED <<mainVars, held, failed, error, eventSet, out, died, cb, pcm, report>>

ForceStop ==
    /\ pc = "force"
    /\ out' = (IF out = "active" THEN "stopping" ELSE out)
    /\ pc' = "wait"
    /\ UNCHANGED <<mainVars, held, started, failed, error, eventSet, died, cb, pcm, report>>

\* A mutant: nobody waits for the event.
StopNotAwaited ==
    /\ pc = "wait"
    /\ eventSet' = FALSE
    /\ pc' = "disconnect"
    /\ UNCHANGED <<mainVars, held, started, failed, error, out, died, cb, pcm, report>>

\* os_event_timedwait returns because the event, an auto event, was signalled ...
StopReported ==
    /\ pc = "wait"
    /\ eventSet
    /\ eventSet' = FALSE
    /\ pc' = "disconnect"
    /\ UNCHANGED <<mainVars, held, started, failed, error, out, died, cb, pcm, report>>

\* A mutant: after the timeout nothing ends the output.
StopOnlyWaits ==
    /\ pc = "wait"
    /\ ~eventSet /\ cb = "idle"
    /\ pc' = "disconnect"
    /\ UNCHANGED <<mainVars, held, started, failed, error, eventSet, out, died, cb, pcm, report>>

\* ... or because five seconds passed: end_data_capture then ends the output.
StopTimesOut ==
    /\ pc = "wait"
    /\ ~eventSet /\ cb = "idle"
    /\ out' = "ended"
    /\ pc' = "disconnect"
    /\ UNCHANGED <<mainVars, held, started, failed, error, eventSet, died, cb, pcm, report>>

\* signal_handler_disconnect waits for a callback that is running.
DisconnectStop ==
    /\ pc = "disconnect"
    /\ cb = "idle"
    /\ held' = held \ {"signal"}
    /\ pc' = "count"
    /\ UNCHANGED <<mainVars, started, failed, error, eventSet, out, died, cb, pcm, report>>

CountFrames ==
    /\ pc = "count"
    /\ counted' = TRUE
    /\ held' = held \ {"packets"}
    /\ pc' = "release"
    /\ UNCHANGED <<kind, retry, dying, outputStarted, paused, encoderPaused, started, failed,
                   error, eventSet, out, died, cb, pcm, report>>

\* obs_output_release destroys the output, which waits until it has ended.
ReleaseOutput ==
    /\ pc = "release"
    /\ out = "ended"
    /\ held' = held \ {"output"}
    /\ pc' = "free"
    /\ UNCHANGED <<mainVars, started, failed, error, eventSet, out, died, cb, pcm, report>>

\* The event, then the encoders, which go before the audio device.
FreeEncoders ==
    /\ pc = "free"
    /\ outputStarted' = FALSE
    /\ held' = held \ {"event", "aenc", "venc"}
    /\ pc' = "audio"
    /\ UNCHANGED <<kind, retry, dying, paused, counted, encoderPaused, started, failed, error,
                   eventSet, out, died, cb, pcm, report>>

\* A mutant: the PCM callback stays connected.
FreeAudioConnected ==
    /\ pc = "audio"
    /\ held' = held \ {"audio"}
    /\ pc' = "view2"
    /\ UNCHANGED <<mainVars, started, failed, error, eventSet, out, died, cb, pcm, report>>

\* audio_output_disconnect waits for an onPcm that is running.
FreeAudio ==
    /\ pc = "audio"
    /\ "pcm" \in held => pcm = "idle"
    /\ held' = held \ {"pcm", "audio"}
    /\ pc' = "view2"
    /\ UNCHANGED <<mainVars, started, failed, error, eventSet, out, died, cb, pcm, report>>

FreeViewAndFile ==
    /\ pc = "view2"
    /\ held' = held \ {"showing", "view", "wav"}
    /\ pc' = (IF dying THEN "gone" ELSE "finished")
    /\ UNCHANGED <<mainVars, started, failed, error, eventSet, out, died, cb, pcm, report>>

-----------------------------------------------------------------------------
(* The output's thread.                                                      *)

Emit == /\ cb' = (IF "signal" \in held THEN "event" ELSE cb)
        /\ out' = (IF "signal" \in held THEN "emitting" ELSE "ended")

\* The output fails by itself: a full disk, an encoder error.
OutputDies ==
    /\ out = "active" /\ cb = "idle"
    /\ died' = TRUE
    /\ Emit
    /\ UNCHANGED <<mainVars, pc, held, started, failed, error, eventSet, pcm, report>>

\* The output has written its last packet after a force stop.
OutputStops ==
    /\ out = "stopping" /\ cb = "idle"
    /\ Emit
    /\ UNCHANGED <<mainVars, pc, held, started, failed, error, eventSet, died, pcm, report>>

CallbackReturns == cb' = "idle" /\ out' = "ended"

\* onOutputStopped, one step per access to what it shares with the main thread.
SignalEvent ==
    /\ cb = "event"
    /\ eventSet' = ("event" \in held \/ eventSet)
    /\ cb' = "check"
    /\ UNCHANGED <<mainVars, pc, held, started, failed, error, out, died, pcm, report>>

CheckStarted ==
    /\ cb = "check"
    /\ IF started THEN cb' = "fail" /\ UNCHANGED out ELSE CallbackReturns
    /\ UNCHANGED <<mainVars, pc, held, started, failed, error, eventSet, died, pcm, report>>

MarkFailed ==
    /\ cb = "fail"
    /\ failed' = TRUE
    /\ cb' = "error"
    /\ UNCHANGED <<mainVars, pc, held, started, error, eventSet, out, died, pcm, report>>

SetError ==
    /\ cb = "error"
    /\ error' = "died"
    /\ cb' = "clear"
    /\ UNCHANGED <<mainVars, pc, held, started, failed, eventSet, out, died, pcm, report>>

ClearStarted ==
    /\ cb = "clear"
    /\ started' = FALSE
    /\ CallbackReturns
    /\ UNCHANGED <<mainVars, pc, held, failed, error, eventSet, died, pcm, report>>

-----------------------------------------------------------------------------
(* The recorder's audio thread: onPcm.                                       *)

PcmArrives ==
    /\ "pcm" \in held /\ pcm = "idle"
    /\ ~failed /\ ~paused
    /\ pcm' = "write"
    /\ UNCHANGED <<mainVars, pc, held, started, failed, error, eventSet, out, died, cb, report>>

PcmWrites ==
    /\ pcm = "write"
    /\ \/ pcm' = "idle" /\ UNCHANGED failed
       \/ pcm' = "error" /\ failed' = TRUE
    /\ UNCHANGED <<mainVars, pc, held, started, error, eventSet, out, died, cb, report>>

PcmSetsError ==
    /\ pcm = "error"
    /\ error' = "wav"
    /\ pcm' = "idle"
    /\ UNCHANGED <<mainVars, pc, held, started, failed, eventSet, out, died, cb, report>>

-----------------------------------------------------------------------------
Starts == \/ OpenWav \/ StartWav \/ OpenView \/ PipelineRefused \/ CloseVideoPipeline
          \/ OutputRuns \/ MarkStarted \/ ConnectStop

Stops == \/ StopReturnsEarly \/ StopBegins \/ ForceStop \/ StopReported \/ StopTimesOut
         \/ DisconnectStop \/ CountFrames \/ ReleaseOutput \/ FreeEncoders \/ FreeAudio
         \/ FreeViewAndFile

Main == Starts \/ SetPaused \/ ReadVerdict \/ Stops \/ Destroy

StopCallback == \/ SignalEvent \/ CheckStarted \/ MarkFailed \/ SetError \/ ClearStarted

PcmCallback == PcmWrites \/ PcmSetsError

Next == \/ Main
        \/ OutputDies \/ OutputStops \/ StopCallback
        \/ PcmArrives \/ PcmCallback

\* The main thread and a callback that has begun go on; nothing obliges an
\* output to end after a force stop, or samples to arrive.  Samples come once per
\* audio tick and are written in a fraction of it, so audio_output_disconnect
\* gets its lock between two of them (the strong fairness of FreeAudio).
Fairness == /\ WF_vars(Stops) /\ SF_vars(FreeAudio)
            /\ WF_vars(StopCallback) /\ WF_vars(PcmCallback)

Spec == Init /\ [][Next]_vars /\ Fairness

-----------------------------------------------------------------------------
\* Types; and a recorder that was stopped is not active.
TypeOK == /\ kind \in {"video", "shared", "audio"}
          /\ pc \in {"new", "wavOpen", "view", "close", "launched", "listen", "running",
                     "stop", "force", "wait", "disconnect", "count", "release", "free",
                     "audio", "view2", "finished", "refused", "gone"}
          /\ held \subseteq Resources
          /\ {retry, dying, started, outputStarted, failed, eventSet, paused, counted, died,
              encoderPaused} \subseteq BOOLEAN
          /\ error \in Causes
          /\ out \in {"none", "active", "stopping", "emitting", "ended"}
          /\ cb \in {"idle", "event", "check", "fail", "error", "clear"}
          /\ pcm \in {"idle", "write", "error"}
          /\ pc \in {"finished", "gone"} => ~started
          /\ report \in [status : {"none", "complete", "failed"}, reason : Causes]

\* What onOutputStopped uses exists until it returns: its event, its output and
\* the recorder itself.  stop() disconnects before it destroys the event, and the
\* event exists before anything can be connected.
CallbackHasItsEvent == cb # "idle" => {"event", "output"} \subseteq held /\ pc # "gone"

\* Once the destructor is through, no thread can still call the recorder: the PCM
\* callback is gone, and an output it left registered has ended.
NoCallbackIntoTheDead ==
    pc = "gone" => /\ cb = "idle" /\ pcm = "idle"
                   /\ "pcm" \notin held
                   /\ held \cap {"signal", "packets"} # {} => out = "ended"

\* A recorder that was asked to stop is never called failed for having stopped:
\* onOutputStopped finds started_ down unless the output died first.
OwnStopIsNoFailure == error = "died" \/ cb \in {"fail", "error", "clear"} => died

\* While the output still runs, the encoders and the audio device that feed it
\* exist (source-recorder.cpp:574-575).
OutputKeepsItsFeed ==
    out \in {"active", "stopping", "emitting"} =>
        /\ {"output", "venc", "aenc"} \subseteq held
        /\ kind = "video" => "audio" \in held

\* totalFrames() is read off an output that has written its last packet.
FramesCountedAtTheEnd == counted => out = "ended"

\* A WAV file is written only while it is open.
WavWrittenWhileOpen == pcm = "write" => "wav" \in held

\* A callback on any thread finds what it uses, from the start of the recorder to
\* the end of its destructor.
CallbacksAreSafe == TypeOK /\ CallbackHasItsEvent /\ NoCallbackIntoTheDead /\ WavWrittenWhileOpen

\* An own video file or a WAV leaves nothing behind, however its start failed, its
\* output died or its stop timed out.
OwnLeavesNothing ==
    kind # "shared" /\ pc \in {"finished", "gone"} => held = {}

\* The encoders of the live stream are never paused.
StreamNeverPaused == kind = "shared" => ~encoderPaused

\* The recorder treats encoders as their owner must: its own outlive the output
\* they feed, the stream's are left as they are.
EncodersAreSafe == OutputKeepsItsFeed /\ StreamNeverPaused

\* stop() returns even when the output never reports back.
StopReturns == pc = "stop" ~> pc \in {"finished", "gone"}

-----------------------------------------------------------------------------
(* What the documentation says and some interleaving contradicts.            *)

\* source-recorder.hpp:59: totalFrames() is "final once stop() has run".
FramesFinalAfterStop == pc = "finished" /\ kind # "audio" => counted
=============================================================================
