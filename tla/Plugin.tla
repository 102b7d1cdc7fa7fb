-------------------------------- MODULE Plugin --------------------------------
(* The plugin around the session: OBS's frontend events (src/plugin-main.cpp), *)
(* the dock with its list, ticks, button and once-a-second timer               *)
(* (src/iso-dock.cpp) and the settings store, over launches, scene collections *)
(* and crashes.  Everything runs on OBS's main thread, so a handler is one     *)
(* step: the composition of the calls it makes, each an operator from the      *)
(* plugin's memory (app) to the next.  What OBS does around it (obs) is        *)
(* external.  Between SCENE_COLLECTION_CHANGING and _CHANGED, and between      *)
(* SCRIPTING_SHUTDOWN and EXIT, OBS fires no other event and runs no timer.    *)
(* Names are those of video sources; a sound source is treated alike but never *)
(* counts for the warning.  Status texts, tool tips and half rate are left out.*)
EXTENDS SettingsStore, FiniteSets

CONSTANTS Threshold,   \* kEncoderWarnThreshold
          Content,     \* the names of each collection's sources at first
          EarlyName,   \* sources that exist before the scene collection has loaded
          Encoder,     \* encoders the stream can use
          Toggles,     \* bound: the options that somebody changes
          Events,      \* what OBS does, of AllEvents
          Edits,       \* bound: the names that are added and deleted
          None         \* no collection, file, question or encoder

AllEvents == {"stream", "recording", "collection", "crash", "disk full"}

ASSUME PluginAssumption ==
    /\ Threshold \in Nat /\ Content \in [Collection -> SUBSET Name]
    /\ EarlyName \subseteq Name /\ Edits \subseteq Name
    /\ Toggles \subseteq Option /\ Events \subseteq AllEvents
    /\ Collection # {} /\ None \notin Encoder \cup Collection \cup Store \cup (Collection \X Name)

VARIABLES obs,     \* external: OBS
          app,     \* the plugin's memory
          file,    \* settings.json
          wanted   \* history: what was ticked last and not unticked since

vars == <<obs, app, file, wanted>>

\* A source is an object of its collection; the plugin compares it by address.
Object == Collection \X Name
NameOf(x) == x[2]

Session == INSTANCE SessionControl WITH Tickable <- Object, ses <- app.ses

\* The sources OBS lists: all of the collection once it has loaded.
Present(o) ==
    {<<o.coll, n>> : n \in IF o.phase = "loading" THEN o.content[o.coll] \cap EarlyName
                           ELSE o.content[o.coll]}

NoApp == [ses |-> Session!NoSession, by |-> "dock",
          listed |-> {}, drawn |-> [running |-> FALSE, enabled |-> FALSE, checked |-> {}],
          remembered |-> {}, memoryOf |-> None, dirty |-> FALSE, unsaved |-> FALSE,
          asking |-> None,
          options |-> {}, config |-> [options |-> {}, enc |-> None, live |-> TRUE],
          kept |-> [armed |-> [c \in Collection |-> {}], options |-> {}]]

Init == /\ obs = [phase |-> "off", coll |-> CHOOSE c \in Collection : TRUE,
                  content |-> Content,
                  live |-> FALSE, rolling |-> "off", enc |-> None]
        /\ app = NoApp
        /\ file = None
        /\ wanted = [c \in Collection |-> FirstArmed(c)]

-----------------------------------------------------------------------------
(* The dock.                                                                 *)

\* refreshSources: the ticks of a collection are loaded when its name is new ...
Loaded(a, o) ==
    IF a.memoryOf = o.coll THEN a
    ELSE [a EXCEPT !.memoryOf = o.coll, !.remembered = ArmedIn(a.kept, o.coll)]

\* A mutant: they are put back only until something is ticked.
RestoredOnce(a, o) ==
    IF a.ses.active \/ a.ses.ticked # {} THEN a
    ELSE [a EXCEPT !.ses = Session!Ticking(@, {x \in Present(o) : NameOf(x) \in a.remembered})]

\* ... and put back (restoreArms) whenever the session is idle.
Restored(a, o) ==
    IF a.ses.active THEN a
    ELSE [a EXCEPT !.ses = Session!Ticking(@, {x \in Present(o) : NameOf(x) \in a.remembered})]

\* The rows hold a reference each; then the button.
Drawn(a, o) ==
    [a EXCEPT !.listed = Present(o),
              !.drawn = [running |-> a.ses.active,
                         enabled |-> a.ses.active \/ a.ses.ticked # {},
                         checked |-> a.ses.ticked \cap Present(o)]]

Refreshed(a, o) == LET b == Restored(Loaded(a, o), o) IN Drawn(b, o)

\* refreshSessionConfig: the widgets' values, "same as the stream" resolved.  The
\* settings the last call copied are given back; a running session keeps pointing
\* to them (setConfig).
Resolved(options, o) ==
    IF "sameAsStream" \in options /\ o.enc \in Encoder THEN o.enc ELSE None

Configured(a, o) ==
    IF a.ses.active THEN [a EXCEPT !.config.live = FALSE]
    ELSE [a EXCEPT !.config = [options |-> a.options, enc |-> Resolved(a.options, o), live |-> TRUE]]

\* rememberArmed
Remembering(a, n) == [a EXCEPT !.remembered = @ \cup {n}, !.dirty = TRUE]
Forgetting(a, n) == [a EXCEPT !.remembered = @ \ {n}, !.dirty = TRUE]

\* saveSettings: the store in memory always, the file unless it cannot be written.
Writes == IF "disk full" \in Events THEN BOOLEAN ELSE {TRUE}
Stored(a) == Saved(a.kept, a.memoryOf, a.remembered, a.options)

\* A mutant: the options alone are saved.
SavingOptions(a, ok) ==
    [a EXCEPT !.kept = Saved(a.kept, a.memoryOf, ArmedIn(a.kept, a.memoryOf), a.options),
              !.dirty = FALSE, !.unsaved = ~ok]

Saving(a, ok) == [a EXCEPT !.kept = Stored(a), !.dirty = FALSE, !.unsaved = ~ok]
FileAfter(a, ok) == IF ok THEN Stored(a) ELSE file

\* releaseSources of the dock
Unlisted(a) == [a EXCEPT !.listed = {}, !.drawn.checked = {}]

-----------------------------------------------------------------------------
(* The session, as the handlers use it.                                      *)

\* startWithReport: preflight can refuse, the folder can be refused, or it runs.
Outcomes == {"refused", "noFolder", "runs"}
StartedBy(a, who, outcome) ==
    CASE outcome = "refused"  -> a
      [] outcome = "noFolder" -> [a EXCEPT !.by = who, !.ses = Session!Refusing(@)]
      [] outcome = "runs"     -> [a EXCEPT !.by = who, !.ses = Session!Starting(@)]

Stopped(a, resumable) ==
    IF a.ses.active THEN [a EXCEPT !.ses = Session!Stopping(@, resumable)] ELSE a

\* releaseSources of the session
LetGo(a) == [a EXCEPT !.ses = Session!Unticking(@, Object)]

\* STREAMING_STARTED and RECORDING_STARTED, for the option that asks for it.
StartedWith(a, option, who, outcome) ==
    IF option \in a.config.options /\ ~a.ses.active /\ a.ses.ticked # {}
    THEN StartedBy(a, who, outcome) ELSE a

-----------------------------------------------------------------------------
(* Events of OBS's frontend.                                                 *)

Up == obs.phase = "up"

\* A mutant: the encoder is not asked for again.
StreamStartsUnresolved(outcome) ==
    /\ "stream" \in Events /\ Up /\ ~obs.live
    /\ \E enc \in Encoder : obs' = [obs EXCEPT !.live = TRUE, !.enc = enc]
    /\ app' = Refreshed(StartedWith(app, "withStream", "stream", outcome), obs')
    /\ UNCHANGED <<file, wanted>>

StreamStarts(outcome) ==
    /\ "stream" \in Events /\ Up /\ ~obs.live
    /\ \E enc \in Encoder : obs' = [obs EXCEPT !.live = TRUE, !.enc = enc]
    /\ app' = Refreshed(StartedWith(Configured(app, obs'), "withStream", "stream", outcome), obs')
    /\ UNCHANGED <<file, wanted>>

\* A mutant: the end of the stream ends every session.
StreamStopsAll ==
    /\ Up /\ obs.live
    /\ obs' = [obs EXCEPT !.live = FALSE]
    /\ app' = Refreshed(Stopped(app, FALSE), obs')
    /\ UNCHANGED <<file, wanted>>

\* The end of the stream ends any session but one that OBS's Record started.
StreamStops ==
    /\ Up /\ obs.live
    /\ obs' = [obs EXCEPT !.live = FALSE]
    /\ app' = Refreshed(IF app.by # "record" THEN Stopped(app, FALSE) ELSE app, obs')
    /\ UNCHANGED <<file, wanted>>

RecordingStarts(outcome) ==
    /\ "recording" \in Events /\ Up /\ obs.rolling = "off"
    /\ obs' = [obs EXCEPT !.rolling = "on"]
    /\ app' = Refreshed(StartedWith(Configured(app, obs'), "withRecording", "record", outcome), obs')
    /\ UNCHANGED <<file, wanted>>

RecordingStops ==
    /\ Up /\ obs.rolling # "off"
    /\ obs' = [obs EXCEPT !.rolling = "off"]
    /\ app' = Refreshed(IF app.by = "record" THEN Stopped(app, FALSE) ELSE app, obs')
    /\ UNCHANGED <<file, wanted>>

\* A mutant: any session is paused.
RecordingPausesAny ==
    /\ Up /\ obs.rolling # "off"
    /\ obs' = [obs EXCEPT !.rolling = IF @ = "on" THEN "paused" ELSE "on"]
    /\ app' = Refreshed([app EXCEPT !.ses = Session!PausingAs(@, obs'.rolling = "paused")], obs')
    /\ UNCHANGED <<file, wanted>>

\* RECORDING_PAUSED and _UNPAUSED
RecordingPauses ==
    /\ Up /\ obs.rolling # "off"
    /\ obs' = [obs EXCEPT !.rolling = IF @ = "on" THEN "paused" ELSE "on"]
    /\ app' = Refreshed(IF app.by = "record"
                        THEN [app EXCEPT !.ses = Session!PausingAs(@, obs'.rolling = "paused")]
                        ELSE app, obs')
    /\ UNCHANGED <<file, wanted>>

\* A mutant: the dock keeps its rows.
CollectionChangingListed ==
    /\ "collection" \in Events /\ Up /\ app.asking = None
    /\ ~app.dirty
    /\ obs' = [obs EXCEPT !.phase = "changing"]
    /\ app' = LetGo(Stopped(app, TRUE))
    /\ UNCHANGED <<file, wanted>>

\* SCENE_COLLECTION_CHANGING: everything held of the old collection goes.  Nobody
\* changes it in the second between a change in the dock and its save (~app.dirty):
\* refreshSources would load the new collection's ticks over the unsaved ones.
CollectionChanging ==
    /\ "collection" \in Events /\ Up /\ app.asking = None
    /\ ~app.dirty
    /\ obs' = [obs EXCEPT !.phase = "changing"]
    /\ app' = Unlisted(LetGo(Stopped(app, TRUE)))
    /\ UNCHANGED <<file, wanted>>

\* SCENE_COLLECTION_CHANGED, to another one or back to the same.
CollectionChanged ==
    /\ obs.phase = "changing"
    /\ \E c \in Collection : obs' = [obs EXCEPT !.phase = "up", !.coll = c]
    /\ app' = Refreshed(app, obs')
    /\ UNCHANGED <<file, wanted>>

\* SCRIPTING_SHUTDOWN, then EXIT and the unloading of the module.
Shutdown(ok) ==
    /\ Up /\ app.asking = None
    /\ obs' = [obs EXCEPT !.phase = "closing"]
    /\ app' = Unlisted(Saving(LetGo(Stopped(app, FALSE)), ok))
    /\ file' = FileAfter(app, ok)
    /\ UNCHANGED wanted

\* The next launch finds what is on disk; what was not saved is given up.
Gone == [obs EXCEPT !.phase = "off", !.live = FALSE, !.rolling = "off", !.enc = None]
OnDisk == IF file = None THEN [c \in Collection |-> FirstArmed(c)] ELSE file.armed

Exit(ok) ==
    /\ obs.phase = "closing"
    /\ obs' = Gone
    /\ app' = NoApp
    /\ file' = FileAfter(app, ok)
    /\ wanted' = IF ok \/ ~app.unsaved THEN wanted ELSE OnDisk

\* OBS dies: a tick that was not saved yet is lost.
Crash ==
    /\ "crash" \in Events /\ obs.phase # "off"
    /\ obs' = Gone
    /\ app' = NoApp
    /\ wanted' = IF app.dirty \/ app.unsaved THEN OnDisk ELSE wanted
    /\ UNCHANGED file

\* obs_module_load: the store is read, or filled from the profiles and written.
Launch(ok) ==
    /\ obs.phase = "off"
    /\ obs' = [obs EXCEPT !.phase = "loading"]
    /\ LET store == IF file = None THEN Migrated ELSE file
       IN  /\ app' = Refreshed([NoApp EXCEPT !.kept = store, !.options = store.options,
                                              !.unsaved = file = None /\ ~ok], obs')
           /\ file' = IF file = None /\ ok THEN Migrated ELSE file
    /\ UNCHANGED wanted

\* The collection has loaded, and the dock's first look at the stream's encoder.
CollectionLoads ==
    /\ obs.phase = "loading"
    /\ obs' = [obs EXCEPT !.phase = "up"]
    /\ app' = Configured(app, obs')
    /\ UNCHANGED <<file, wanted>>

-----------------------------------------------------------------------------
(* The timer and the widgets.  A question is modal: while it is open, OBS's   *)
(* events and the timer go on and the widgets do not.                         *)

\* onTick: the list, then refreshManifest drops deleted sources, then the save.
Tick(ok) ==
    /\ Up
    /\ UNCHANGED <<obs, wanted>>
    /\ LET b == Refreshed(app, obs)
           c == [b EXCEPT !.ses = Session!Unticking(@, @.ticked \ Present(obs))]
       IN  IF c.dirty THEN app' = Saving(c, ok) /\ file' = FileAfter(c, ok)
           ELSE app' = c /\ UNCHANGED file

AtEase == Up /\ app.asking = None

\* onItemChanged: a refused recorder leaves the source ticked and not remembered;
\* one video too many asks first, and the list is drawn after the answer.
TickBox(x, ok) ==
    /\ AtEase
    /\ x \in app.listed \ app.drawn.checked
    /\ app.ses.active \/ ok
    /\ LET a == [app EXCEPT !.ses = Session!Ticking(@, {x})]
           b == IF ok THEN Remembering(a, NameOf(x)) ELSE a
       IN  app' = IF ok /\ Cardinality(b.ses.ticked) > Threshold
                  THEN [b EXCEPT !.asking = x, !.drawn.checked = @ \cup {x}]
                  ELSE Refreshed(b, obs)
    /\ wanted' = IF ok THEN [wanted EXCEPT ![obs.coll] = @ \cup {NameOf(x)}] ELSE wanted
    /\ UNCHANGED <<obs, file>>

UntickBox(x) ==
    /\ AtEase
    /\ x \in app.drawn.checked
    /\ app' = Refreshed(Forgetting([app EXCEPT !.ses = Session!Unticking(@, {x})], NameOf(x)), obs)
    /\ wanted' = [wanted EXCEPT ![obs.coll] = @ \ {NameOf(x)}]
    /\ UNCHANGED <<obs, file>>

\* The answer to the warning.
Answer(yes) ==
    LET x == app.asking
        a == [app EXCEPT !.asking = None]
    IN
    /\ Up /\ x # None
    /\ app' = Refreshed(IF yes THEN a
                        ELSE Forgetting([a EXCEPT !.ses = Session!Unticking(@, {x})], NameOf(x)), obs)
    /\ wanted' = IF yes THEN wanted ELSE [wanted EXCEPT ![x[1]] = @ \ {NameOf(x)}]
    /\ UNCHANGED <<obs, file>>

\* A mutant: the dock is not drawn again.
RecordClickedUndrawn(outcome) ==
    /\ AtEase /\ app.drawn.enabled
    /\ app' = IF app.ses.active THEN Stopped(app, TRUE)
              ELSE StartedBy(Configured(app, obs), "dock", outcome)
    /\ UNCHANGED <<obs, file, wanted>>

\* onRecordClicked: Record, or Stop recording.
RecordClicked(outcome) ==
    /\ AtEase /\ app.drawn.enabled
    /\ app' = Refreshed(IF app.ses.active THEN Stopped(app, TRUE)
                        ELSE StartedBy(Configured(app, obs), "dock", outcome), obs)
    /\ UNCHANGED <<obs, file, wanted>>

\* onConfigChanged, of a widget that is enabled only while the dock shows no session.
OptionChanged(option) ==
    /\ AtEase /\ ~app.drawn.running
    /\ LET on == app.options
           a == [app EXCEPT !.options = IF option \in on THEN on \ {option} ELSE on \cup {option},
                            !.dirty = TRUE]
       IN  app' = Configured(a, obs)
    /\ UNCHANGED <<obs, file, wanted>>

\* Somebody deletes a source, or makes one whose name nothing holds any more.
Delete(n) ==
    /\ AtEase /\ n \in obs.content[obs.coll]
    /\ obs' = [obs EXCEPT !.content[obs.coll] = @ \ {n}]
    /\ UNCHANGED <<app, file, wanted>>

Add(n) ==
    /\ AtEase /\ n \notin obs.content[obs.coll]
    /\ <<obs.coll, n>> \notin app.ses.ticked \cup app.listed
    /\ obs' = [obs EXCEPT !.content[obs.coll] = @ \cup {n}]
    /\ UNCHANGED <<app, file, wanted>>

Ticks == \E ok \in Writes : Tick(ok)

Next == \/ \E outcome \in Outcomes : StreamStarts(outcome) \/ RecordingStarts(outcome)
        \/ StreamStops \/ RecordingStops \/ RecordingPauses
        \/ CollectionChanging \/ CollectionChanged
        \/ \E ok \in Writes : Shutdown(ok) \/ Exit(ok) \/ Launch(ok)
        \/ Crash \/ CollectionLoads
        \/ Ticks
        \/ \E x \in Object, ok \in BOOLEAN : TickBox(x, ok)
        \/ \E x \in Object : UntickBox(x)
        \/ \E yes \in BOOLEAN : Answer(yes)
        \/ \E outcome \in Outcomes : RecordClicked(outcome)
        \/ \E option \in Toggles : OptionChanged(option)
        \/ \E n \in Edits : Delete(n) \/ Add(n)

\* The timer runs from the launch to the shutdown.
Spec == Init /\ [][Next]_vars /\ WF_vars(Ticks)

-----------------------------------------------------------------------------
(* Properties.                                                               *)

\* Types; and a row that is ticked has its source held (iso-dock.cpp:39).
TypeOK ==
    /\ obs.phase \in {"off", "loading", "up", "changing", "closing"}
    /\ obs.coll \in Collection /\ obs.content \in [Collection -> SUBSET Name]
    /\ obs.rolling \in {"off", "on", "paused"} /\ obs.enc \in Encoder \cup {None}
    /\ app.ses.ticked \cup app.listed \subseteq Object /\ app.drawn.checked \subseteq app.listed
    /\ {app.ses.active, app.ses.paused, app.ses.resumable, app.dirty, app.unsaved,
        app.config.live, obs.live} \subseteq BOOLEAN
    /\ app.by \in {"dock", "stream", "record"}
    /\ app.remembered \subseteq Name /\ app.memoryOf \in Collection \cup {None}
    /\ app.asking \in Object \cup {None}
    /\ app.kept \in Store /\ file \in Store \cup {None}

\* plugin-main.cpp:88-97: when OBS removes the sources of a collection, or its
\* own at shutdown, the session has ended and neither it nor the dock holds one
\* of them; afterwards neither holds a source of another collection.
ReferencesAreBack ==
    /\ TypeOK
    /\ obs.phase \in {"changing", "closing"} =>
          ~app.ses.active /\ app.ses.ticked = {} /\ app.listed = {}
    /\ \A x \in app.ses.ticked \cup app.listed : x[1] = obs.coll

\* A session lasts no longer than what started it and does as it does: the stream's
\* ends with the stream and has its encoder when it is to be the same, though the
\* plugin first looked before there was one (plugin-main.cpp:24); OBS's Record's
\* ends with the recording, whose pauses it shares.
SessionFollowsItsStarter ==
    app.ses.active =>
        CASE app.by = "stream" -> /\ obs.live /\ ~app.ses.paused
                                  /\ "sameAsStream" \in app.config.options =>
                                        app.config.enc = obs.enc
          [] app.by = "record" -> /\ obs.rolling # "off"
                                  /\ app.ses.paused <=> obs.rolling = "paused"
          [] app.by = "dock"   -> ~app.ses.paused

\* What the dock remembers of the current collection, and the store of the others,
\* is what was ticked last: over sessions, collections, questions, launches,
\* saves that fail and crashes (which cost what was not saved yet), and in the
\* first launch what the first profile that had any says.
RememberedIsWanted ==
    obs.phase # "off" =>
        \A c \in Collection :
            wanted[c] = IF c = app.memoryOf THEN app.remembered ELSE ArmedIn(app.kept, c)

\* Once a change was saved, settings.json has it, with the ticks of the collection
\* they were made in, and the options the dock shows.
FileIsCurrent ==
    obs.phase # "off" /\ ~app.dirty /\ ~app.unsaved =>
        file = app.kept /\ app.kept = Stored(app)

\* The dock offers Stop exactly while a session runs, never disables the button of
\* a session or of a ticked source, and ticks a row exactly for an armed source
\* that is still there.
DockTellsTruth ==
    Up /\ app.asking = None =>
        /\ app.drawn.running = app.ses.active
        /\ app.ses.active \/ app.ses.ticked # {} => app.drawn.enabled
        /\ app.drawn.checked \cap Present(obs) = app.ses.ticked \cap Present(obs) \cap app.listed

Starts == ~app.ses.active /\ app'.ses.active

\* A session starts with the options the dock shows and with encoder settings that
\* are still held: those an earlier look gave back are never used.
StartUsesWhatIsShown == [][Starts => app'.config.live /\ app'.config.options = app.options]_vars

\* Unless the user or OBS's end stops it, a session goes on: OBS's recording
\* does not end one that it did not start, nor the stream one that OBS's Record
\* button started (plugin-main.cpp:42).
OthersLeaveItAlone ==
    [][app.ses.active /\ ~app'.ses.active /\ obs'.phase = "up" =>
         IF app.by = "record" THEN obs'.live = obs.live ELSE obs'.rolling = obs.rolling]_vars

\* Nothing waits to be saved, and an idle session has every remembered tick.
Settled ==
    /\ ~app.dirty
    /\ app.ses.active \/ \A x \in Present(obs) : NameOf(x) \in app.remembered => x \in app.ses.ticked

\* docs/spec.md:345-348: as long as the session is idle, remembered ticks come back
\* with their sources, and what was changed is saved; nothing else waits for it.
TimerServes == []<>(~Up \/ Settled)
=============================================================================
