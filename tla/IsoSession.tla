----------------------------- MODULE IsoSession -----------------------------
(* IsoSession (src/iso-session.cpp): the ticked sources, the running         *)
(* recorders, the numbering of the files and the manifest in the session     *)
(* folder.  Everything here runs on OBS's main thread, so one call is one    *)
(* step; between two calls a recorder may die, a source may gain or lose its *)
(* picture, change size or be deleted, and OBS may crash.  How a recorder    *)
(* dies is SourceRecorder's subject.  Times, labels, the wording of reasons  *)
(* and the frame shortfall of a complete file are left out.                  *)
EXTENDS Integers, FiniteSets

CONSTANTS
  Source,           \* the sources of the scene collection
  Video,            \* those with a picture (Kind::Video); the others are Kind::Audio
  Scene,            \* the live scene, recorded as the composite
  RecordComposite,  \* config_.recordComposite
  MaxGames,         \* bound: game folders of a session
  MaxSegments,      \* bound: files of a source in a game folder
  Events            \* what happens around the session, of AllEvents

ASSUME SourceAssumption == IsFiniteSet(Source) /\ Video \subseteq Source /\ Scene \notin Source
ASSUME CompositeAssumption == RecordComposite \in BOOLEAN
ASSUME BoundAssumption == MaxGames \in Nat \ {0} /\ MaxSegments \in Nat \ {0}

AllEvents == {"dies", "resizes", "picture", "deleted", "crash"}
ASSUME EventsAssumption == Events \subseteq AllEvents

Audio == Source \ Video
Kinds == {"video", "audio"}
KindOf(s) == IF s \in Video THEN "video" ELSE "audio"
OfKind(k) == IF k = "video" THEN Video ELSE Audio

VARIABLES
  armed, before,    \* entries_: the ticked sources and the order of their ticks
  seg, idx,         \* Entry::segment and Entry::index; 0 when not ticked
  waiting,          \* the entries with waitingForPicture set
  rec,              \* Entry::recorder; "misfit" is one whose source changed size
  segCount,         \* segmentCount_
  indexFor,         \* indexFor_; 0 when the source has no index
  nextIndex,        \* nextIndex_
  comp,             \* composite_
  active, paused, canResume, failedSeen,
  game,             \* gameNumber_ and gameFolder_, in folder_
  finished,         \* finished_, without the order of the records
  disk,             \* session.json of the newest session that started
  pictured, gone,   \* sources with a picture; ticked sources deleted from OBS
  opened, reopened  \* history: files opened in that session, and whether one was twice

entries == <<armed, before, seg, idx, waiting, rec>>
numbering == <<segCount, indexFor, nextIndex>>
flags == <<active, paused, canResume, failedSeen>>
manifest == <<finished, disk>>
sources == <<pictured, gone>>
history == <<opened, reopened>>
vars == <<entries, numbering, comp, flags, game, manifest, sources, history>>

Zero == [s \in Source |-> 0]
NoRec == [s \in Source |-> "none"]
FirstIndex == [k \in Kinds |-> 1]

\* A file that was recorded, or (index 0, segment 0) a source that never got one.
Record(s, g, i, n, status) ==
    [src |-> s, game |-> g, index |-> i, segment |-> n, status |-> status]
Failure(s, g) == Record(s, g, 0, 0, "failed")

Init == /\ armed = {} /\ before = {}
        /\ seg = Zero /\ idx = Zero /\ waiting = {} /\ rec = NoRec
        /\ segCount = Zero /\ indexFor = Zero /\ nextIndex = FirstIndex
        /\ comp = "none"
        /\ active = FALSE /\ paused = FALSE /\ canResume = FALSE /\ failedSeen = 0
        /\ game = 1
        /\ finished = {}
        /\ disk = [ended |-> TRUE, recordings |-> {}]
        /\ pictured \in SUBSET Video /\ gone = {}
        /\ opened = {} /\ reopened = FALSE

-----------------------------------------------------------------------------
(* Parts of the operations.                                                  *)

\* startEntry: a video source without a picture waits; any other source records,
\* unless its recorder refuses (a source outside ok).
Ready(s) == s \in Audio \/ s \in pictured
Started(S, ok) == {s \in S : Ready(s)} \cap ok
StartFailures(S, ok, g) == {Failure(s, g) : s \in {t \in S : Ready(t)} \ ok}

\* startComposite, and its record when it refuses or there is no live scene
CompStarted(ok) == IF RecordComposite /\ Scene \in ok THEN "run" ELSE "none"
CompFailures(ok, g) == IF RecordComposite /\ Scene \notin ok THEN {Failure(Scene, g)} ELSE {}

\* closeEntry and closeComposite through finishRecorder: a recorder that has
\* failed stays failed whatever the reason it is closed for.
\* A mutant: the reason a file is closed for decides its status.
VerdictOfReason(state, okStatus) == okStatus

Verdict(state, okStatus) == IF state = "dead" THEN "failed" ELSE okStatus
Closed(S, okStatus) ==
    {Record(s, game, idx[s], seg[s], Verdict(rec[s], okStatus)) : s \in {t \in S : rec[t] # "none"}}
\* A mutant: the composite is closed without a record.
CompClosedUnrecorded == {}

CompClosed ==
    IF comp = "none" THEN {} ELSE {Record(Scene, game, 0, 1, Verdict(comp, "complete"))}

\* liveRecording, for the recorders in r with their index, segment and folder
LiveStatus(state) == IF state = "dead" THEN "failed" ELSE "recording"
Live(r, i, n, g) ==
    {Record(s, g, i[s], n[s], LiveStatus(r[s])) : s \in {t \in Source : r[t] # "none"}}
CompLive(c, g) == IF c = "none" THEN {} ELSE {Record(Scene, g, 0, 1, LiveStatus(c))}

\* rewriteManifest: what has finished and what is live
\* A mutant: a file is listed only when it has finished.
ManifestOfFinished(fin, r, i, n, c, g) == [ended |-> FALSE, recordings |-> fin]

Manifest(fin, r, i, n, c, g) ==
    [ended |-> FALSE, recordings |-> fin \cup Live(r, i, n, g) \cup CompLive(c, g)]
Rewrite == disk' = Manifest(finished', rec', idx', seg', comp', game')

\* The files the recorders of S open, as makeFilename names them.
Files(g, S, i, n) == {[game |-> g, src |-> s, index |-> i[s], segment |-> n[s]] : s \in S}
CompFile(c, g) == IF c = "run" THEN {[game |-> g, src |-> Scene, index |-> 0, segment |-> 1]} ELSE {}
Open(held, files) == /\ opened' = held \cup files
                     /\ reopened' = (reopened \/ held \cap files # {})

\* The place of a ticked source among those of its kind.
Place(s) == Cardinality({t \in armed : KindOf(t) = KindOf(s) /\ (t = s \/ <<t, s>> \in before)})

\* removeEntry for the sources in G: the entries and their references go.
Forget(G) == /\ armed' = armed \ G
             /\ before' = {p \in before : p[1] \notin G /\ p[2] \notin G}
             /\ waiting' = waiting \ G
             /\ gone' = gone \ G
Drop(G, f, none) == [s \in Source |-> IF s \in G THEN none ELSE f[s]]

-----------------------------------------------------------------------------
(* Operations of the dock and of the plugin's event handler.                 *)

\* arm: a source keeps the index it has in this game folder and takes its next
\* segment; in a running session its file starts at once.
Arm(s, ok) ==
    /\ s \notin armed /\ segCount[s] < MaxSegments
    /\ armed' = armed \cup {s}
    /\ before' = before \cup (armed \X {s})
    /\ segCount' = [segCount EXCEPT ![s] = @ + 1]
    /\ seg' = [seg EXCEPT ![s] = segCount[s] + 1]
    /\ indexFor' = [indexFor EXCEPT ![s] = IF @ = 0 THEN nextIndex[KindOf(s)] ELSE @]
    /\ nextIndex' = [nextIndex EXCEPT ![KindOf(s)] = IF indexFor[s] = 0 THEN @ + 1 ELSE @]
    /\ idx' = [idx EXCEPT ![s] = indexFor'[s]]
    /\ UNCHANGED <<comp, flags, game, sources>>
    /\ \/ /\ ~active
          /\ UNCHANGED <<waiting, rec, manifest, history>>
       \/ /\ active
          /\ waiting' = IF Ready(s) THEN waiting ELSE waiting \cup {s}
          /\ rec' = [rec EXCEPT ![s] = IF s \in Started({s}, ok) THEN "run" ELSE "none"]
          /\ finished' = finished \cup StartFailures({s}, ok, game)
          /\ Open(opened, Files(game, Started({s}, ok), idx', seg'))
          /\ Rewrite

\* Mutants of Disarm: the recorder is not closed; the name loses its number.
DisarmOpen(s) ==
    /\ s \in armed
    /\ Forget({s})
    /\ seg' = Drop({s}, seg, 0) /\ idx' = Drop({s}, idx, 0)
    /\ UNCHANGED <<rec, numbering, comp, flags, game, finished, pictured, history>>
    /\ IF active THEN Rewrite ELSE UNCHANGED disk

DisarmForgetsSegment(s) ==
    /\ s \in armed
    /\ Forget({s})
    /\ finished' = finished \cup Closed({s}, "complete")
    /\ rec' = Drop({s}, rec, "none")
    /\ seg' = Drop({s}, seg, 0) /\ idx' = Drop({s}, idx, 0)
    /\ segCount' = Drop({s}, segCount, 0)
    /\ UNCHANGED <<indexFor, nextIndex, comp, flags, game, pictured, history>>
    /\ IF active THEN Rewrite ELSE UNCHANGED disk

\* disarm: unticking closes the file as complete.
Disarm(s) ==
    /\ s \in armed
    /\ Forget({s})
    /\ finished' = finished \cup Closed({s}, "complete")
    /\ rec' = Drop({s}, rec, "none")
    /\ seg' = Drop({s}, seg, 0) /\ idx' = Drop({s}, idx, 0)
    /\ UNCHANGED <<numbering, comp, flags, game, pictured, history>>
    /\ IF active THEN Rewrite ELSE UNCHANGED disk

\* releaseSources, on a scene collection change or at shutdown, after any stop.
ReleaseSources ==
    /\ ~active /\ armed # {}
    /\ Forget(armed)
    /\ seg' = Zero /\ idx' = Zero
    /\ UNCHANGED <<rec, numbering, comp, flags, game, manifest, pictured, history>>

\* The end of start() and newGame(): every entry and the composite start in the
\* game folder, after the files of held, and the manifest is written.
StartAll(ok, fin, held) ==
    /\ rec' = [s \in Source |-> IF s \in Started(armed, ok) THEN "run" ELSE "none"]
    /\ waiting' = {s \in armed : ~Ready(s)}
    /\ comp' = CompStarted(ok)
    /\ finished' = fin \cup StartFailures(armed, ok, game') \cup CompFailures(ok, game')
    /\ Open(held, Files(game', Started(armed, ok), idx', seg') \cup CompFile(comp', game'))
    /\ Rewrite

\* start(): the dock can call it with nothing ticked, when the last ticked source
\* was deleted since the button was drawn.  A new session has a new folder.
StartFresh(ok) ==
    /\ ~active
    /\ active' = TRUE /\ canResume' = FALSE /\ paused' = FALSE /\ failedSeen' = 0
    /\ game' = 1
    /\ UNCHANGED <<armed, before, seg, idx, numbering, sources>>
    /\ StartAll(ok, {}, {})

\* After a stop with the button, in a folder that is still there, start() carries
\* on with the next game of the same session.
StartResumed(ok) ==
    /\ ~active /\ canResume /\ game < MaxGames
    /\ active' = TRUE /\ canResume' = FALSE /\ paused' = FALSE /\ failedSeen' = 0
    /\ game' = game + 1
    /\ UNCHANGED <<armed, before, seg, idx, numbering, sources>>
    /\ StartAll(ok, finished, opened)

\* The session folder or the game folder cannot be created.
StartRefused ==
    /\ ~active
    /\ canResume' = FALSE
    /\ \/ game' \in {game, 1}
       \/ canResume /\ game < MaxGames /\ game' = game + 1
    /\ UNCHANGED <<entries, numbering, comp, active, paused, failedSeen, manifest, sources,
                   history>>

\* The manifest stop() writes last, with the "ended" line.
\* A mutant: it is written before the files are closed.
EndedTooEarly ==
    [ended |-> TRUE, recordings |-> finished \cup Live(rec, idx, seg, game) \cup CompLive(comp, game)]

EndedManifest == [ended |-> TRUE, recordings |-> finished']

\* What stop() does to the session. A mutant: a pause does not end.
DeactivatePaused(resumable) == active' = FALSE /\ canResume' = resumable /\ UNCHANGED paused

Deactivate(resumable) == active' = FALSE /\ canResume' = resumable /\ paused' = FALSE

\* stop(): a source that never had a picture is reported, every file closes, and
\* only then is the manifest ended and the numbering reset.
Stop(resumable) ==
    /\ active
    /\ finished' = finished \cup Closed(armed, "complete") \cup CompClosed
                     \cup {Failure(s, game) : s \in {t \in waiting : rec[t] = "none"}}
    /\ Forget(armed)
    /\ rec' = NoRec /\ seg' = Zero /\ idx' = Zero
    /\ comp' = "none"
    /\ disk' = EndedManifest
    /\ Deactivate(resumable)
    /\ segCount' = Zero /\ indexFor' = Zero /\ nextIndex' = FirstIndex
    /\ UNCHANGED <<failedSeen, game, pictured, history>>

\* A mutant: sources that are not ticked keep their numbers in a new game.
RenumberTicked ==
    /\ seg' = [s \in Source |-> IF s \in armed THEN 1 ELSE 0]
    /\ idx' = [s \in Source |-> IF s \in armed THEN Place(s) ELSE 0]
    /\ segCount' = [s \in Source |-> IF s \in armed THEN 1 ELSE segCount[s]]
    /\ indexFor' = [s \in Source |-> IF s \in armed THEN Place(s) ELSE indexFor[s]]
    /\ nextIndex' = [k \in Kinds |-> Cardinality(armed \cap OfKind(k)) + 1]

\* newGame(): every file closes and the ticked sources are numbered from one.
Renumber ==
    /\ seg' = [s \in Source |-> IF s \in armed THEN 1 ELSE 0]
    /\ idx' = [s \in Source |-> IF s \in armed THEN Place(s) ELSE 0]
    /\ segCount' = seg' /\ indexFor' = idx'
    /\ nextIndex' = [k \in Kinds |-> Cardinality(armed \cap OfKind(k)) + 1]

NewGame(ok) ==
    /\ active /\ ~paused /\ game < MaxGames
    /\ game' = game + 1
    /\ Renumber
    /\ UNCHANGED <<armed, before, flags, sources>>
    /\ StartAll(ok, finished \cup Closed(armed, "complete") \cup CompClosed, opened)

\* The game folder cannot be created: the files are closed, nothing starts and the
\* manifest is not rewritten.
NewGameRefused ==
    /\ active /\ ~paused /\ game < MaxGames
    /\ game' = game + 1
    /\ Renumber
    /\ rec' = NoRec /\ comp' = "none"
    /\ finished' = finished \cup Closed(armed, "complete") \cup CompClosed
    /\ UNCHANGED <<armed, before, waiting, flags, disk, sources, history>>

SetPaused == /\ active
             /\ paused' = ~paused
             /\ UNCHANGED <<entries, numbering, comp, active, canResume, failedSeen, game,
                            manifest, sources, history>>

-----------------------------------------------------------------------------
(* refreshManifest, once a second: deleted sources are dropped; unless the   *)
(* session is paused, sources with a new picture start and those of another  *)
(* size carry on in their next segment; a new failure rewrites the manifest. *)

Deleted == armed \cap gone
Appeared == IF paused THEN {} ELSE {s \in waiting \ gone : rec[s] = "none" /\ s \in pictured}
\* sizeChanged: a source that has lost its picture has no new size to record
Resized == IF paused THEN {} ELSE {s \in pictured \ gone : rec[s] = "misfit"}

Dead(r, c) == Cardinality({s \in Source : r[s] = "dead"}) + (IF c = "dead" THEN 1 ELSE 0)

RefreshIdle ==
    /\ ~active
    /\ Forget(Deleted)
    /\ seg' = Drop(Deleted, seg, 0) /\ idx' = Drop(Deleted, idx, 0)
    /\ UNCHANGED <<rec, numbering, comp, flags, game, manifest, pictured, history>>

RefreshActive(ok) ==
    LET started == Started(Appeared \cup Resized, ok)
        dropped == finished \cup Closed(Deleted, "aborted")
    IN
    /\ active
    /\ UNCHANGED <<indexFor, nextIndex, comp, active, paused, canResume, game, pictured>>
    /\ armed' = armed \ Deleted
    /\ before' = {p \in before : p[1] \notin Deleted /\ p[2] \notin Deleted}
    /\ gone' = gone \ Deleted
    /\ waiting' = (waiting \ Deleted) \ Appeared
    /\ rec' = [s \in Source |-> IF s \in started THEN "run"
                                ELSE IF s \in Deleted \cup Resized THEN "none" ELSE rec[s]]
    /\ segCount' = [s \in Source |-> IF s \in Resized THEN segCount[s] + 1 ELSE segCount[s]]
    /\ seg' = [s \in Source |-> IF s \in Deleted THEN 0
                                ELSE IF s \in Resized THEN segCount'[s] ELSE seg[s]]
    /\ idx' = Drop(Deleted, idx, 0)
    /\ finished' = dropped \cup Closed(Resized, "complete")
                     \cup StartFailures(Appeared \cup Resized, ok, game)
    /\ Open(opened, Files(game, started, idx', seg'))
    /\ failedSeen' = IF Dead(rec', comp) > failedSeen THEN Dead(rec', comp) ELSE failedSeen
    /\ IF started \cap Appeared # {} \/ Resized # {} \/ failedSeen' # failedSeen
       THEN Rewrite
       ELSE disk' = IF Deleted = {} THEN disk
                    ELSE Manifest(dropped, rec', idx', seg', comp, game)

\* A mutant: a paused session is not looked at.
RefreshUnlessPaused ==
    RefreshIdle \/ (~paused /\ \E ok \in SUBSET Source : RefreshActive(ok))

Refresh == RefreshIdle \/ \E ok \in SUBSET Source : RefreshActive(ok)

-----------------------------------------------------------------------------
(* What happens around the session.                                          *)

RecorderDies(s) == /\ "dies" \in Events
                   /\ rec[s] \in {"run", "misfit"}
                   /\ rec' = [rec EXCEPT ![s] = "dead"]
                   /\ UNCHANGED <<armed, before, seg, idx, waiting, numbering, comp, flags, game,
                                  manifest, sources, history>>

CompositeDies == /\ "dies" \in Events
                 /\ comp = "run"
                 /\ comp' = "dead"
                 /\ UNCHANGED <<entries, numbering, flags, game, manifest, sources, history>>

\* A running source changes to another size, or back to the size of its file.
Resize(s) == /\ "resizes" \in Events
             /\ s \in Video /\ segCount[s] < MaxSegments
             /\ rec[s] \in {"run", "misfit"}
             /\ rec' = [rec EXCEPT ![s] = IF @ = "run" THEN "misfit" ELSE "run"]
             /\ UNCHANGED <<armed, before, seg, idx, waiting, numbering, comp, flags, game,
                            manifest, sources, history>>

PictureChanges(s) ==
    /\ "picture" \in Events
    /\ s \in Video
    /\ pictured' = IF s \in pictured THEN pictured \ {s} ELSE pictured \cup {s}
    /\ UNCHANGED <<entries, numbering, comp, flags, game, manifest, gone, history>>

Delete(s) == /\ "deleted" \in Events
             /\ s \in armed \ gone
             /\ gone' = gone \cup {s}
             /\ UNCHANGED <<entries, numbering, comp, flags, game, manifest, pictured, history>>

\* OBS dies and starts again: what was in memory is gone, the folder is as it was.
Crash == /\ "crash" \in Events
         /\ armed' = {} /\ before' = {}
         /\ seg' = Zero /\ idx' = Zero /\ waiting' = {} /\ rec' = NoRec
         /\ segCount' = Zero /\ indexFor' = Zero /\ nextIndex' = FirstIndex
         /\ comp' = "none"
         /\ active' = FALSE /\ paused' = FALSE /\ canResume' = FALSE /\ failedSeen' = 0
         /\ game' = 1 /\ finished' = {} /\ gone' = {}
         /\ UNCHANGED <<disk, pictured, history>>

Outcomes == SUBSET (Source \cup {Scene})

Next == \/ \E s \in Source, ok \in Outcomes : Arm(s, ok)
        \/ \E s \in Source : Disarm(s)
        \/ ReleaseSources
        \/ \E ok \in Outcomes : StartFresh(ok)
        \/ \E ok \in Outcomes : StartResumed(ok)
        \/ StartRefused
        \/ \E resumable \in BOOLEAN : Stop(resumable)
        \/ \E ok \in Outcomes : NewGame(ok)
        \/ NewGameRefused
        \/ SetPaused
        \/ Refresh
        \/ \E s \in Source : RecorderDies(s)
        \/ CompositeDies
        \/ \E s \in Source : Resize(s)
        \/ \E s \in Source : PictureChanges(s)
        \/ \E s \in Source : Delete(s)
        \/ Crash

\* The dock's timer runs as long as OBS does.
Spec == Init /\ [][Next]_vars /\ WF_vars(Refresh)
-----------------------------------------------------------------------------
(* Properties.                                                               *)

RecStates == {"none", "run", "misfit", "dead"}
Statuses == {"complete", "aborted", "failed", "recording"}
Records == [src : Source \cup {Scene}, game : Nat, index : Nat, segment : Nat, status : Statuses]

EntriesOK ==
    /\ armed \subseteq Source /\ before \subseteq Source \X Source
    /\ waiting \subseteq armed \cap Video /\ gone \subseteq armed /\ pictured \subseteq Video
    /\ seg \in [Source -> Nat] /\ idx \in [Source -> Nat] /\ rec \in [Source -> RecStates]
    /\ \A s \in Source \ armed : rec[s] = "none" /\ seg[s] = 0 /\ idx[s] = 0
NumberingOK ==
    segCount \in [Source -> Nat] /\ indexFor \in [Source -> Nat] /\ nextIndex \in [Kinds -> Nat]
FlagsOK ==
    /\ comp \in {"none", "run", "dead"}
    /\ active \in BOOLEAN /\ paused \in BOOLEAN /\ canResume \in BOOLEAN /\ reopened \in BOOLEAN
    /\ failedSeen \in Nat /\ game \in Nat
ManifestOK ==
    finished \subseteq Records /\ disk.recordings \subseteq Records /\ disk.ended \in BOOLEAN

\* Types; and a source that is not ticked has no recorder, no number and nothing
\* to wait for, after every restart, game, deletion and crash.
TypeOK == EntriesOK /\ NumberingOK /\ FlagsOK /\ ManifestOK

FileOf(r) == [game |-> r.game, src |-> r.src, index |-> r.index, segment |-> r.segment]
LiveNow == Live(rec, idx, seg, game) \cup CompLive(comp, game)

\* No file is opened twice in a session, whatever is ticked, unticked, restarted
\* for its size, renumbered by a new game or resumed after a stop: a second
\* opening would overwrite what was recorded.
UniqueFiles == ~reopened

\* In a game folder no two sources of a kind share a number, and a ticked source
\* has the number and the segment its name was given last (segmentCount_ and
\* indexFor_ agree with the entries after every renumbering).
NumberingAgrees ==
    /\ \A s, t \in Source :
         s # t /\ KindOf(s) = KindOf(t) /\ indexFor[s] # 0 => indexFor[s] # indexFor[t]
    /\ \A s \in Source : indexFor[s] < nextIndex[KindOf(s)]
    /\ \A s \in armed : idx[s] = indexFor[s] /\ idx[s] # 0 /\ seg[s] = segCount[s]

\* While no session is on nothing is recorded: no recorder outlives stop(), a
\* refused start or a crash, and no entry is left waiting for a picture.
IdleHoldsNothing ==
    ~active => rec = NoRec /\ comp = "none" /\ waiting = {} /\ ~paused

\* A manifest with an "ended" line lists no file as still recording, which is how
\* a folder that was cut short is told from a whole one.
EndedMeansFinal == disk.ended => \A r \in disk.recordings : r.status # "recording"

\* Every file of the running session is accounted for exactly once: it is live, or
\* it has one finished record, never both and never neither.
OneRecordPerFile ==
    active => \A f \in opened : Cardinality({r \in finished \cup LiveNow : FileOf(r) = f}) = 1

\* Every file that was opened is named in the manifest on disk, at every moment,
\* so a crash leaves no file the manifest does not know of.
OpenedIsListed == \A f \in opened : \E r \in disk.recordings : FileOf(r) = f

\* A verdict written to the manifest is never changed or taken back in that
\* session: not by a restart, a new game, a pause, a crash or the end.
NewSession == ~active /\ active' /\ game' = 1
VerdictsStay ==
    [][NewSession \/ \A r \in disk.recordings :
         r.status = "recording" \/ r \in disk'.recordings]_vars

\* The once-a-second refresh does its work: a source never waits forever with its
\* picture there, keeps a file of the wrong size forever, or stays ticked forever
\* after it was deleted, while the session runs unpaused.
Pending == Deleted \cup Appeared \cup Resized
PendingIsServed == \A s \in Source : []<>(~active \/ s \notin Pending)

\* What the plugin relies on: ticks, start, stop and pause act on the session as
\* SessionControl says, whatever the recorders, the files, the refresh and the
\* deletions around them do; an end by any way leaves nothing ticked or paused.
ControlView == [active |-> active, paused |-> paused, resumable |-> canResume, ticked |-> armed]
Control == INSTANCE SessionControl WITH Tickable <- Source, ses <- ControlView
ImplementsControl == Control!ControlSpec

-----------------------------------------------------------------------------
(* What the documentation and comments say and the code does not do.         *)

\* docs/spec.md:378-379: a failing output is marked and the dock shows it; the
\* refresh lists every recorder that has failed as failed.
Marked(s) == Record(s, game, idx[s], seg[s], "failed") \in disk.recordings
FailureIsMarked == \A s \in Source : rec[s] = "dead" ~> (rec[s] # "dead" \/ Marked(s))
=============================================================================
