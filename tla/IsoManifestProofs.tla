-------------------------- MODULE IsoManifestProofs --------------------------
(* What session.json says of the files of a session, and the numbers, names  *)
(* and records of those files, proved of IsoSession for every set of sources *)
(* and every bound: no two sources share a number, no file is opened twice,  *)
(* every file has one record, and the names and clocks listed are right.     *)
EXTENDS SessionListing, IsoSessionProofs, WellFoundedInduction, SequenceTheorems

-----------------------------------------------------------------------------
(* A manifest that has ended.                                                *)

\* A finished record is never one of a file still recording.
FinishedFinal == \A r \in finished : r.status # "recording"

Final(R) == \A r \in R : r.status # "recording"

LEMMA ClosedIsFinal ==
    ASSUME NEW S, NEW okStatus \in {"complete", "aborted"} PROVE Final(Closed(S, okStatus))
BY DEF Final, Closed, Record, Verdict

LEMMA CompClosedIsFinal == Final(CompClosed)
BY DEF Final, CompClosed, Record, Verdict

LEMMA FailureIsFinal == ASSUME NEW s, NEW g PROVE Failure(s, g).status = "failed"
BY DEF Failure, Record

LEMMA FailuresAreFinal ==
    ASSUME NEW S, NEW ok, NEW g PROVE Final(StartFailures(S, ok, g)) /\ Final(CompFailures(ok, g))
BY FailureIsFinal DEF Final, StartFailures, CompFailures

LEMMA StartAllIsFinal ==
    ASSUME NEW ok, NEW fin, NEW held, Final(fin), StartAll(ok, fin, held)
    PROVE  FinishedFinal' /\ disk'.ended = FALSE
<1>1. Final(StartFailures(armed, ok, game')) /\ Final(CompFailures(ok, game'))
  BY FailuresAreFinal
<1>2. FinishedFinal' BY <1>1 DEF StartAll, FinishedFinal, Final
<1>3. disk'.ended = FALSE BY DEF StartAll, Rewrite, Manifest
<1>4. QED BY <1>2, <1>3

LEMMA StepFinal ==
    ASSUME FinishedFinal, EndedMeansFinal, [Next]_vars PROVE FinishedFinal' /\ EndedMeansFinal'
<1>1. Final(finished) BY DEF FinishedFinal, Final
<1>2. Final({}) BY DEF Final
<1>3. CASE finished' = finished /\ disk' = disk BY <1>3 DEF FinishedFinal, EndedMeansFinal
<1>4. CASE FinishedFinal' /\ disk'.ended = FALSE BY <1>4 DEF EndedMeansFinal
<1>5. ASSUME NEW s \in Source, NEW ok \in Outcomes, Arm(s, ok)
      PROVE  FinishedFinal' /\ EndedMeansFinal'
  <2>1. CASE ~active BY <1>3, <1>5, <2>1 DEF Arm, manifest
  <2>2. CASE active
    <3>1. Final(StartFailures({s}, ok, game)) BY FailuresAreFinal
    <3>2. FinishedFinal' BY <1>1, <1>5, <2>2, <3>1 DEF Arm, FinishedFinal, Final
    <3>3. disk'.ended = FALSE BY <1>5, <2>2 DEF Arm, Rewrite, Manifest
    <3>4. QED BY <1>4, <3>2, <3>3
  <2>3. QED BY <2>1, <2>2
<1>6. ASSUME NEW s \in Source, Disarm(s) PROVE FinishedFinal' /\ EndedMeansFinal'
  <2>1. Final(Closed({s}, "complete")) BY ClosedIsFinal
  <2>2. FinishedFinal' BY <1>1, <1>6, <2>1 DEF Disarm, FinishedFinal, Final
  <2>3. CASE active
    <3>1. disk'.ended = FALSE BY <1>6, <2>3 DEF Disarm, Rewrite, Manifest
    <3>2. QED BY <1>4, <2>2, <3>1
  <2>4. CASE ~active BY <1>6, <2>2, <2>4 DEF Disarm, EndedMeansFinal
  <2>5. QED BY <2>3, <2>4
<1>7. CASE ReleaseSources \/ StartRefused \/ SetPaused \/ RefreshIdle \/ CompositeDies
  BY <1>3, <1>7 DEF ReleaseSources, StartRefused, SetPaused, RefreshIdle, CompositeDies, manifest
<1>8. ASSUME NEW s \in Source,
             RecorderDies(s) \/ Resize(s) \/ PictureChanges(s) \/ Delete(s)
      PROVE  FinishedFinal' /\ EndedMeansFinal'
  BY <1>3, <1>8 DEF RecorderDies, Resize, PictureChanges, Delete, manifest
<1>9. ASSUME NEW ok \in Outcomes, StartFresh(ok) \/ StartResumed(ok)
      PROVE  FinishedFinal' /\ EndedMeansFinal'
  <2>1. StartAll(ok, {}, {}) \/ StartAll(ok, finished, opened) BY <1>9 DEF StartFresh, StartResumed
  <2>2. QED BY <1>1, <1>2, <1>4, <2>1, StartAllIsFinal
<1>10. Final(finished \cup Closed(armed, "complete") \cup CompClosed)
  <2>1. Final(Closed(armed, "complete")) BY ClosedIsFinal
  <2>2. QED BY <1>1, <2>1, CompClosedIsFinal DEF Final
<1>11. ASSUME NEW ok \in Outcomes, NewGame(ok) PROVE FinishedFinal' /\ EndedMeansFinal'
  BY <1>4, <1>10, <1>11, StartAllIsFinal DEF NewGame
<1>12. CASE NewGameRefused
  BY <1>10, <1>12 DEF NewGameRefused, FinishedFinal, Final, EndedMeansFinal
<1>13. ASSUME NEW resumable \in BOOLEAN, Stop(resumable)
       PROVE  FinishedFinal' /\ EndedMeansFinal'
  <2>1. Final({Failure(s, game) : s \in {t \in waiting : rec[t] = "none"}})
    BY FailureIsFinal DEF Final
  <2>2. FinishedFinal' BY <1>10, <1>13, <2>1 DEF Stop, FinishedFinal, Final
  <2>3. disk'.recordings = finished' BY <1>13 DEF Stop, EndedManifest
  <2>4. QED BY <2>2, <2>3 DEF FinishedFinal, EndedMeansFinal
<1>14. ASSUME NEW ok \in SUBSET Source, RefreshActive(ok) PROVE FinishedFinal' /\ EndedMeansFinal'
  <2>1. /\ Final(Closed(Deleted, "aborted")) /\ Final(Closed(Resized, "complete"))
        /\ Final(StartFailures(Appeared \cup Resized, ok, game))
    BY ClosedIsFinal, FailuresAreFinal
  <2>2. FinishedFinal' BY <1>1, <1>14, <2>1 DEF RefreshActive, FinishedFinal, Final
  <2>3. disk' = disk \/ disk'.ended = FALSE BY <1>14 DEF RefreshActive, Rewrite, Manifest
  <2>4. QED BY <2>2, <2>3 DEF EndedMeansFinal
<1>15. CASE Crash BY <1>15 DEF Crash, FinishedFinal, EndedMeansFinal
<1>16. CASE UNCHANGED vars BY <1>3, <1>16 DEF vars, manifest
<1>17. QED BY <1>5, <1>6, <1>7, <1>8, <1>9, <1>11, <1>12, <1>13, <1>14, <1>15, <1>16
           DEF Next, Refresh

\* A manifest that has its "ended" line lists no file as still recording: stop()
\* writes it only from finished_, and no finished record says "recording".
THEOREM EndedManifestIsFinal == Spec => []EndedMeansFinal
<1> DEFINE Inv == FinishedFinal /\ EndedMeansFinal
<1>1. Init => Inv BY DEF Init, FinishedFinal, EndedMeansFinal
<1>2. Inv /\ [Next]_vars => Inv' BY StepFinal
<1>3. Inv => EndedMeansFinal OBVIOUS
<1>4. QED BY <1>1, <1>2, <1>3, PTL DEF Spec

-----------------------------------------------------------------------------
(* What a step does with the records of a running session.  Every file that  *)
(* is known is known after it, and a verdict is carried over unchanged.      *)

Known == finished \cup LiveNow
SourceRecord(s, okStatus) == Record(s, game, idx[s], seg[s], Verdict(rec[s], okStatus))
CompRecord == Record(Scene, game, 0, 1, Verdict(comp, "complete"))

\* A recorder goes on with its file, or its file has a record in fin.
Keeps(s) == /\ rec'[s] # "none" /\ (rec[s] = "dead" => rec'[s] = "dead")
            /\ idx'[s] = idx[s] /\ seg'[s] = seg[s] /\ game' = game
Closes(s, fin) == \E okStatus \in Statuses : SourceRecord(s, okStatus) \in fin
KeepsComp == comp' # "none" /\ (comp = "dead" => comp' = "dead") /\ game' = game

StepKeeps(fin) ==
    /\ finished \subseteq fin
    /\ \A s \in Source : rec[s] = "none" \/ Keeps(s) \/ Closes(s, fin)
    /\ comp = "none" \/ KeepsComp \/ CompRecord \in fin

LEMMA StatusOfLive ==
    ASSUME NEW s, NEW g, NEW i, NEW n, NEW old, NEW okStatus,
           NEW new, old = "dead" => new = "dead"
    PROVE  /\ FileOf(Record(s, g, i, n, LiveStatus(new))) = FileOf(Record(s, g, i, n, LiveStatus(old)))
           /\ FileOf(Record(s, g, i, n, Verdict(old, okStatus)))
                = FileOf(Record(s, g, i, n, LiveStatus(old)))
           /\ Record(s, g, i, n, LiveStatus(old)).status # "recording"
                => /\ Record(s, g, i, n, LiveStatus(new)) = Record(s, g, i, n, LiveStatus(old))
                   /\ Record(s, g, i, n, Verdict(old, okStatus))
                        = Record(s, g, i, n, LiveStatus(old))
BY DEF FileOf, Record, LiveStatus, Verdict

LEMMA Carry ==
    ASSUME NEW fin, StepKeeps(fin), NEW r \in Known
    PROVE  \E q \in fin \cup LiveNow' :
             FileOf(q) = FileOf(r) /\ (r.status # "recording" => q = r)
<1> USE DEF Known
<1>1. CASE r \in finished BY <1>1 DEF StepKeeps
<1>2. ASSUME NEW s \in Source, rec[s] # "none",
             r = Record(s, game, idx[s], seg[s], LiveStatus(rec[s]))
      PROVE  \E q \in fin \cup LiveNow' :
               FileOf(q) = FileOf(r) /\ (r.status # "recording" => q = r)
  <2>1. CASE Keeps(s)
    <3> DEFINE q == Record(s, game, idx[s], seg[s], LiveStatus(rec'[s]))
    <3>1. q \in LiveNow' BY <2>1 DEF Keeps, LiveNow, Live
    <3>2. FileOf(q) = FileOf(r) /\ (r.status # "recording" => q = r)
      BY <1>2, <2>1, StatusOfLive DEF Keeps
    <3>3. QED BY <3>1, <3>2
  <2>2. ASSUME NEW okStatus \in Statuses, SourceRecord(s, okStatus) \in fin
        PROVE  \E q \in fin \cup LiveNow' :
                 FileOf(q) = FileOf(r) /\ (r.status # "recording" => q = r)
    <3>1. /\ FileOf(SourceRecord(s, okStatus)) = FileOf(r)
          /\ r.status # "recording" => SourceRecord(s, okStatus) = r
      BY <1>2, StatusOfLive DEF SourceRecord
    <3>2. QED BY <2>2, <3>1
  <2>3. QED BY <1>2, <2>1, <2>2 DEF StepKeeps, Closes
<1>3. ASSUME comp # "none", r = Record(Scene, game, 0, 1, LiveStatus(comp))
      PROVE  \E q \in fin \cup LiveNow' :
               FileOf(q) = FileOf(r) /\ (r.status # "recording" => q = r)
  <2>1. CASE KeepsComp
    <3> DEFINE q == Record(Scene, game, 0, 1, LiveStatus(comp'))
    <3>1. q \in LiveNow' BY <2>1 DEF KeepsComp, LiveNow, CompLive
    <3>2. FileOf(q) = FileOf(r) /\ (r.status # "recording" => q = r)
      BY <1>3, <2>1, StatusOfLive DEF KeepsComp
    <3>3. QED BY <3>1, <3>2
  <2>2. CASE CompRecord \in fin
    <3>1. FileOf(CompRecord) = FileOf(r) /\ (r.status # "recording" => CompRecord = r)
      BY <1>3, StatusOfLive DEF CompRecord
    <3>2. QED BY <2>2, <3>1
  <2>3. QED BY <1>3, <2>1, <2>2 DEF StepKeeps
<1>4. r \in finished \/ r \in LiveNow OBVIOUS
<1>5. CASE r \in LiveNow BY <1>2, <1>3, <1>5 DEF LiveNow, Live, CompLive
<1>6. QED BY <1>1, <1>4, <1>5

\* Every file opened in the session is known while the session may go on, every
\* verdict in the manifest is known, and every file is listed.
Going == active \/ canResume
Accounted == Going => \A f \in opened : \E r \in Known : FileOf(r) = f
VerdictsKnown == Going => \A r \in disk.recordings : r.status = "recording" \/ r \in Known
ListInv == Accounted /\ VerdictsKnown /\ OpenedIsListed

VerdictsKept == \A r \in disk.recordings : r.status = "recording" \/ r \in disk'.recordings

\* A step that goes on with a session: it keeps what is known, in fin, opens only
\* files that are live after it, and writes nothing or all that it kept.
StepLists(fin) ==
    /\ Going' => Going
    /\ fin \subseteq finished'
    /\ StepKeeps(fin)
    /\ \A f \in opened' : f \in opened \/ \E q \in LiveNow' : FileOf(q) = f
    /\ \/ disk' = disk /\ opened' \subseteq opened
       \/ Going /\ disk'.recordings = fin \cup LiveNow'

LEMMA StepListsInv ==
    ASSUME ListInv, NEW fin, StepLists(fin) PROVE ListInv' /\ VerdictsKept
<1>1. fin \cup LiveNow' \subseteq Known' BY DEF StepLists, Known
<1>2. \A f \in opened' : Going => \E q \in fin \cup LiveNow' : FileOf(q) = f
  <2>1. SUFFICES ASSUME NEW f \in opened', Going
                 PROVE  \E q \in fin \cup LiveNow' : FileOf(q) = f
    OBVIOUS
  <2>2. CASE f \in opened
    <3>1. PICK r \in Known : FileOf(r) = f BY <2>1, <2>2 DEF ListInv, Accounted
    <3>2. QED BY <3>1, Carry DEF StepLists
  <2>3. CASE f \notin opened BY <2>1, <2>3 DEF StepLists
  <2>4. QED BY <2>2, <2>3
<1>3. \A r \in disk.recordings :
        Going => r.status = "recording" \/ r \in fin \cup LiveNow'
  <2>1. SUFFICES ASSUME NEW r \in disk.recordings, Going, r.status # "recording"
                 PROVE  r \in fin \cup LiveNow'
    OBVIOUS
  <2>2. r \in Known BY <2>1 DEF ListInv, VerdictsKnown
  <2>3. QED BY <2>1, <2>2, Carry DEF StepLists
<1>4. Accounted' BY <1>1, <1>2 DEF Accounted, StepLists
<1>5. CASE disk' = disk /\ opened' \subseteq opened
  <2>1. VerdictsKnown' BY <1>1, <1>3, <1>5 DEF VerdictsKnown, StepLists
  <2>2. OpenedIsListed' BY <1>5 DEF ListInv, OpenedIsListed
  <2>3. QED BY <1>4, <1>5, <2>1, <2>2 DEF ListInv, VerdictsKept
<1>6. CASE Going /\ disk'.recordings = fin \cup LiveNow'
  <2>1. VerdictsKnown' BY <1>1, <1>6 DEF VerdictsKnown
  <2>2. OpenedIsListed' BY <1>2, <1>6 DEF OpenedIsListed
  <2>3. VerdictsKept BY <1>3, <1>6 DEF VerdictsKept
  <2>4. QED BY <1>4, <2>1, <2>2, <2>3 DEF ListInv
<1>7. QED BY <1>5, <1>6 DEF StepLists

\* Files that are opened are live, and the files of rec' and comp' are listed.
LEMMA OpenedIsLive ==
    ASSUME NEW S \in SUBSET Source, \A s \in S : rec'[s] # "none", NEW f,
           f \in Files(game', S, idx', seg') \cup CompFile(comp', game')
    PROVE  \E q \in LiveNow' : FileOf(q) = f
<1>1. ASSUME NEW s \in S,
             f = [game |-> game', src |-> s, index |-> idx'[s], segment |-> seg'[s]]
      PROVE  \E q \in LiveNow' : FileOf(q) = f
  <2> DEFINE q == Record(s, game', idx'[s], seg'[s], LiveStatus(rec'[s]))
  <2>1. q \in LiveNow' BY DEF LiveNow, Live
  <2>2. FileOf(q) = f BY <1>1 DEF FileOf, Record
  <2>3. QED BY <2>1, <2>2
<1>2. ASSUME comp' = "run",
             f = [game |-> game', src |-> Scene, index |-> 0, segment |-> 1]
      PROVE  \E q \in LiveNow' : FileOf(q) = f
  <2> DEFINE q == Record(Scene, game', 0, 1, LiveStatus(comp'))
  <2>1. q \in LiveNow' BY <1>2 DEF LiveNow, CompLive
  <2>2. FileOf(q) = f BY <1>2 DEF FileOf, Record
  <2>3. QED BY <2>1, <2>2
<1>3. QED BY <1>1, <1>2 DEF Files, CompFile

LEMMA RewriteLists == ASSUME Rewrite PROVE disk'.recordings = finished' \cup LiveNow'
BY DEF Rewrite, Manifest, LiveNow

\* closeEntry gives every recorder of S its record.
LEMMA ClosedCloses ==
    ASSUME NEW S, NEW s \in S, rec[s] # "none", NEW okStatus \in Statuses, NEW fin,
           Closed(S, okStatus) \subseteq fin
    PROVE  Closes(s, fin)
BY DEF Closed, Closes, SourceRecord

LEMMA CompClosedCloses ==
    ASSUME NEW fin, CompClosed \subseteq fin PROVE comp = "none" \/ CompRecord \in fin
BY DEF CompClosed, CompRecord

LEMMA StartAllLists ==
    ASSUME NEW ok, NEW fin, NEW held, StartAll(ok, fin, held), armed \subseteq Source
    PROVE  /\ fin \subseteq finished'
           /\ disk'.recordings = finished' \cup LiveNow'
           /\ \A f \in opened' : f \in held \/ \E q \in LiveNow' : FileOf(q) = f
<1> DEFINE S == Started(armed, ok)
<1>1. S \in SUBSET Source BY DEF Started
<1>2. \A s \in S : rec'[s] # "none" BY <1>1 DEF StartAll
<1>3. opened' = held \cup (Files(game', S, idx', seg') \cup CompFile(comp', game'))
  BY DEF StartAll, Open
<1> HIDE DEF S
<1>4. \A f \in opened' : f \in held \/ \E q \in LiveNow' : FileOf(q) = f
  BY <1>1, <1>2, <1>3, OpenedIsLive
<1>5. fin \subseteq finished' BY DEF StartAll
<1>6. disk'.recordings = finished' \cup LiveNow' BY RewriteLists DEF StartAll
<1>7. QED BY <1>4, <1>5, <1>6

\* Steps that open nothing and write nothing.
LEMMA QuietLists ==
    ASSUME Going' => Going, finished' = finished, disk' = disk, opened' = opened,
           \A s \in Source : rec[s] = "none" \/ Keeps(s), comp = "none" \/ KeepsComp
    PROVE  StepLists(finished)
BY DEF StepLists, StepKeeps

LEMMA IdleStepLists ==
    ASSUME SessionInv, ~active, ReleaseSources \/ StartRefused \/ RefreshIdle
    PROVE  StepLists(finished)
<1>1. (\A s \in Source : rec[s] = "none") /\ comp = "none"
  BY DEF SessionInv, IdleHoldsNothing, NoRec
<1>2. finished' = finished /\ disk' = disk /\ opened' = opened /\ (Going' => Going)
  BY DEF ReleaseSources, StartRefused, RefreshIdle, manifest, history, flags, Going
<1>3. QED BY <1>1, <1>2, QuietLists

LEMMA OutsideStepLists ==
    ASSUME SessionInv,
           \/ SetPaused \/ CompositeDies \/ UNCHANGED vars
           \/ \E s \in Source : RecorderDies(s) \/ Resize(s) \/ PictureChanges(s) \/ Delete(s)
    PROVE  StepLists(finished)
<1>1. UNCHANGED <<idx, seg, game, active, canResume, finished, disk, opened>>
  BY DEF SetPaused, CompositeDies, RecorderDies, Resize, PictureChanges, Delete, vars, entries,
         flags, manifest, history
<1>2. \A s \in Source : rec[s] = "none" \/ (rec'[s] # "none" /\ (rec[s] = "dead" => rec'[s] = "dead"))
  <2>1. rec \in [Source -> RecStates] BY DEF SessionInv, TypeOK, EntriesOK
  <2>2. CASE rec' = rec BY <2>2
  <2>3. ASSUME NEW s \in Source, RecorderDies(s) \/ Resize(s)
        PROVE  \A t \in Source : rec[t] = "none" \/ (rec'[t] # "none" /\ (rec[t] = "dead" => rec'[t] = "dead"))
    BY <2>1, <2>3 DEF RecorderDies, Resize
  <2>4. QED BY <2>2, <2>3 DEF SetPaused, CompositeDies, PictureChanges, Delete, vars, entries
<1>3. comp = "none" \/ (comp' # "none" /\ (comp = "dead" => comp' = "dead"))
  BY DEF SetPaused, CompositeDies, RecorderDies, Resize, PictureChanges, Delete, vars
<1>4. QED BY <1>1, <1>2, <1>3, QuietLists DEF Keeps, KeepsComp, Going

LEMMA ArmLists ==
    ASSUME SessionInv, NEW s \in Source, NEW ok, Arm(s, ok)
    PROVE  \E fin : StepLists(fin)
<1>1. EntriesOK BY DEF SessionInv, TypeOK
<1>2. UNCHANGED <<comp, game, active, canResume>> BY DEF Arm, flags
<1>3. CASE ~active
  <2>1. (\A t \in Source : rec[t] = "none") /\ comp = "none"
    BY <1>3 DEF SessionInv, IdleHoldsNothing, NoRec
  <2>2. finished' = finished /\ disk' = disk /\ opened' = opened
    BY <1>3 DEF Arm, manifest, history
  <2>3. QED BY <1>2, <2>1, <2>2, QuietLists DEF Going
<1>4. CASE active
  <2>1. rec[s] = "none" BY <1>1 DEF Arm, EntriesOK
  <2>2. \A t \in Source \ {s} : rec'[t] = rec[t] /\ idx'[t] = idx[t] /\ seg'[t] = seg[t]
    BY <1>1, <1>4 DEF Arm, EntriesOK
  <2>3. finished \subseteq finished' BY <1>4 DEF Arm
  <2>4. StepKeeps(finished') BY <1>2, <2>1, <2>2, <2>3 DEF StepKeeps, Keeps, KeepsComp
  <2>5. disk'.recordings = finished' \cup LiveNow' BY <1>4, RewriteLists DEF Arm
  <2>6. \A f \in opened' : f \in opened \/ \E q \in LiveNow' : FileOf(q) = f
    <3> DEFINE S == Started({s}, ok)
    <3>1. S \in SUBSET Source /\ S \subseteq {s} BY DEF Started
    <3>2. rec' = [rec EXCEPT ![s] = IF s \in S THEN "run" ELSE "none"] BY <1>4 DEF Arm
    <3>3. opened' = opened \cup Files(game', S, idx', seg') BY <1>2, <1>4 DEF Arm, Open
    <3> HIDE DEF S
    <3>4. \A t \in S : rec'[t] # "none" BY <1>1, <3>1, <3>2 DEF EntriesOK
    <3>5. QED BY <3>1, <3>3, <3>4, OpenedIsLive
  <2>7. QED BY <1>2, <1>4, <2>4, <2>5, <2>6 DEF StepLists, Going
<1>5. QED BY <1>3, <1>4

LEMMA DisarmLists ==
    ASSUME SessionInv, NEW s \in Source, Disarm(s) PROVE StepLists(finished')
<1>1. UNCHANGED <<comp, game, active, canResume, opened>> BY DEF Disarm, flags, history
<1>2. \A t \in Source \ {s} : rec'[t] = rec[t] /\ idx'[t] = idx[t] /\ seg'[t] = seg[t]
  BY DEF Disarm, Drop
<1>3. rec[s] = "none" \/ Closes(s, finished')
  <2>1. Closed({s}, "complete") \subseteq finished' /\ "complete" \in Statuses
    BY DEF Disarm, Statuses
  <2>2. QED BY <2>1, ClosedCloses
<1>4. StepKeeps(finished') BY <1>1, <1>2, <1>3 DEF Disarm, StepKeeps, Keeps, KeepsComp
<1>5. active => disk'.recordings = finished' \cup LiveNow' BY RewriteLists DEF Disarm
<1>6. ~active => disk' = disk BY DEF Disarm
<1>7. QED BY <1>1, <1>4, <1>5, <1>6 DEF StepLists, Going

LEMMA ResumedLists ==
    ASSUME SessionInv, NEW ok, StartResumed(ok) PROVE StepLists(finished')
<1>1. (\A s \in Source : rec[s] = "none") /\ comp = "none"
  BY DEF SessionInv, IdleHoldsNothing, NoRec, StartResumed
<1>2. armed \subseteq Source BY DEF SessionInv, TypeOK, EntriesOK
<1>3. /\ finished \subseteq finished'
      /\ disk'.recordings = finished' \cup LiveNow'
      /\ \A f \in opened' : f \in opened \/ \E q \in LiveNow' : FileOf(q) = f
  BY <1>2, StartAllLists DEF StartResumed
<1>4. Going BY DEF StartResumed, Going
<1>5. QED BY <1>1, <1>3, <1>4 DEF StepLists, StepKeeps

\* stop() and newGame() close every recorder there is.
LEMMA AllClosed ==
    ASSUME SessionInv, Closed(armed, "complete") \cup CompClosed \cup finished \subseteq finished'
    PROVE  StepKeeps(finished')
<1>1. \A s \in Source : rec[s] # "none" => s \in armed BY DEF SessionInv, TypeOK, EntriesOK
<1>2. \A s \in Source : rec[s] = "none" \/ Closes(s, finished')
  <2>1. "complete" \in Statuses BY DEF Statuses
  <2>2. QED BY <1>1, <2>1, ClosedCloses
<1>3. comp = "none" \/ CompRecord \in finished' BY CompClosedCloses
<1>4. QED BY <1>2, <1>3 DEF StepKeeps

LEMMA NewGameLists ==
    ASSUME SessionInv, NEW ok, NewGame(ok) \/ NewGameRefused PROVE StepLists(finished')
<1>1. armed \subseteq Source BY DEF SessionInv, TypeOK, EntriesOK
<1>2. Going BY DEF NewGame, NewGameRefused, Going
<1>3. CASE NewGame(ok)
  <2>1. /\ finished \cup Closed(armed, "complete") \cup CompClosed \subseteq finished'
        /\ disk'.recordings = finished' \cup LiveNow'
        /\ \A f \in opened' : f \in opened \/ \E q \in LiveNow' : FileOf(q) = f
    BY <1>1, <1>3, StartAllLists DEF NewGame
  <2>2. StepKeeps(finished') BY <2>1, AllClosed
  <2>3. QED BY <1>2, <2>1, <2>2 DEF StepLists
<1>4. CASE NewGameRefused
  <2>1. StepKeeps(finished') BY <1>4, AllClosed DEF NewGameRefused
  <2>2. disk' = disk /\ opened' = opened BY <1>4 DEF NewGameRefused, history
  <2>3. QED BY <1>2, <2>1, <2>2 DEF StepLists
<1>5. QED BY <1>3, <1>4

LEMMA StopLists ==
    ASSUME SessionInv, NEW resumable, Stop(resumable) PROVE StepLists(finished')
<1>1. StepKeeps(finished') BY AllClosed DEF Stop
<1>2. LiveNow' = {} BY DEF Stop, LiveNow, Live, CompLive, NoRec
<1>3. disk'.recordings = finished' /\ opened' = opened BY DEF Stop, EndedManifest, history
<1>4. Going BY DEF Stop, Going
<1>5. QED BY <1>1, <1>2, <1>3, <1>4 DEF StepLists

\* The refresh closes what was deleted as aborted and what changed size as
\* complete; when it starts nothing and no recorder has died, it may write only
\* what was closed, and there is then no file it leaves out.
LEMMA RefreshLists ==
    ASSUME SessionInv, NEW ok, RefreshActive(ok) PROVE \E fin : StepLists(fin)
<1> DEFINE started == Started(Appeared \cup Resized, ok)
           dropped == finished \cup Closed(Deleted, "aborted")
           news == started \cap Appeared # {} \/ Resized # {} \/ failedSeen' # failedSeen
<1>1. UNCHANGED <<comp, game, active, canResume>> /\ Going BY DEF RefreshActive, Going
<1>2. EntriesOK BY DEF SessionInv, TypeOK
<1>3. Deleted \subseteq armed /\ Appeared \cup Resized \subseteq armed \ Deleted
  BY <1>2, PendingSources
<1>4. armed \subseteq Source BY <1>2 DEF EntriesOK
<1>5. started \subseteq Appeared \cup Resized BY DEF Started
<1>6. /\ rec' = [s \in Source |-> IF s \in started THEN "run"
                                  ELSE IF s \in Deleted \cup Resized THEN "none" ELSE rec[s]]
      /\ seg' = [s \in Source |-> IF s \in Deleted THEN 0
                                  ELSE IF s \in Resized THEN segCount'[s] ELSE seg[s]]
      /\ idx' = Drop(Deleted, idx, 0)
  BY DEF RefreshActive
<1>7. opened' = opened \cup Files(game', started, idx', seg')
  BY <1>1 DEF RefreshActive, Open
<1>8. finished' = dropped \cup Closed(Resized, "complete")
                     \cup StartFailures(Appeared \cup Resized, ok, game)
  BY DEF RefreshActive
<1>9. IF news THEN Rewrite
      ELSE disk' = IF Deleted = {} THEN disk
                   ELSE Manifest(dropped, rec', idx', seg', comp, game)
  BY DEF RefreshActive
<1>10. \A s \in Appeared : rec[s] = "none" BY DEF Appeared
<1> HIDE DEF started
<1>11. \A s \in Source \ (Deleted \cup Resized) : rec[s] = "none" \/ Keeps(s)
  <2>1. SUFFICES ASSUME NEW s \in Source \ (Deleted \cup Resized), rec[s] # "none" PROVE Keeps(s)
    OBVIOUS
  <2>2. s \notin started BY <1>5, <1>10, <2>1
  <2>3. rec'[s] = rec[s] /\ seg'[s] = seg[s] /\ idx'[s] = idx[s] BY <1>6, <2>1, <2>2 DEF Drop
  <2>4. QED BY <1>1, <2>1, <2>3 DEF Keeps
<1>12. \A s \in Deleted : rec[s] = "none" \/ Closes(s, dropped)
  <2>1. "aborted" \in Statuses BY DEF Statuses
  <2>2. QED BY <2>1, ClosedCloses
<1>13. \A f \in opened' : f \in opened \/ \E q \in LiveNow' : FileOf(q) = f
  <2>1. started \in SUBSET Source BY <1>3, <1>4, <1>5
  <2>2. \A s \in started : rec'[s] # "none" BY <1>6, <2>1
  <2>3. QED BY <1>7, <2>1, <2>2, OpenedIsLive
<1>14. CASE news
  <2>1. \A s \in Resized : rec[s] = "none" \/ Closes(s, finished')
    <3>1. "complete" \in Statuses BY DEF Statuses
    <3>2. QED BY <1>8, <3>1, ClosedCloses
  <2>2. \A s \in Deleted : Closes(s, dropped) => Closes(s, finished') BY <1>8 DEF Closes
  <2>3. \A s \in Source : rec[s] = "none" \/ Keeps(s) \/ Closes(s, finished')
    BY <1>11, <1>12, <2>1, <2>2
  <2>4. StepKeeps(finished') BY <1>1, <1>8, <2>3 DEF StepKeeps, KeepsComp
  <2>5. disk'.recordings = finished' \cup LiveNow' BY <1>9, <1>14, RewriteLists
  <2>6. QED BY <1>1, <1>13, <2>4, <2>5 DEF StepLists
<1>15. CASE ~news
  <2>1. Resized = {} /\ started = {} BY <1>5, <1>15
  <2>2. opened' = opened BY <1>7, <2>1 DEF Files
  <2>3. \A s \in Source : rec[s] = "none" \/ Keeps(s) \/ Closes(s, dropped)
    BY <1>11, <1>12, <2>1
  <2>4. StepKeeps(dropped) BY <1>1, <2>3 DEF StepKeeps, KeepsComp
  <2>5. dropped \subseteq finished' BY <1>8
  <2>6. disk' = disk \/ disk' = Manifest(dropped, rec', idx', seg', comp, game) BY <1>9, <1>15
  <2>7. Manifest(dropped, rec', idx', seg', comp, game).recordings = dropped \cup LiveNow'
    BY <1>1 DEF Manifest, LiveNow
  <2>8. QED
    <3> HIDE DEF dropped
    <3> QED BY <1>1, <1>13, <2>2, <2>4, <2>5, <2>6, <2>7 DEF StepLists
<1>16. QED BY <1>14, <1>15

\* A new session starts with its own files, all of them live and listed.
LEMMA FreshLists ==
    ASSUME SessionInv, NEW ok, StartFresh(ok) PROVE ListInv' /\ NewSession
<1>1. armed \subseteq Source BY DEF SessionInv, TypeOK, EntriesOK
<1>2. /\ disk'.recordings = finished' \cup LiveNow'
      /\ \A f \in opened' : \E q \in LiveNow' : FileOf(q) = f
  BY <1>1, StartAllLists DEF StartFresh
<1>3. NewSession BY DEF StartFresh, NewSession
<1>4. QED BY <1>2, <1>3 DEF ListInv, Accounted, VerdictsKnown, OpenedIsListed, Known

LEMMA CrashLists == ASSUME ListInv, Crash PROVE ListInv' /\ VerdictsKept
BY DEF Crash, ListInv, Accounted, VerdictsKnown, OpenedIsListed, Going, VerdictsKept, history

LEMMA StepListed ==
    ASSUME SessionInv, ListInv, [Next]_vars PROVE ListInv' /\ (NewSession \/ VerdictsKept)
<1>1. CASE \E s \in Source, ok \in Outcomes : Arm(s, ok) BY <1>1, ArmLists, StepListsInv
<1>2. CASE \E s \in Source : Disarm(s) BY <1>2, DisarmLists, StepListsInv
<1>3. CASE ReleaseSources \/ StartRefused \/ RefreshIdle
  <2>1. ~active BY <1>3 DEF ReleaseSources, StartRefused, RefreshIdle
  <2>2. QED BY <1>3, <2>1, IdleStepLists, StepListsInv
<1>4. CASE \E ok \in Outcomes : StartFresh(ok) BY <1>4, FreshLists
<1>5. CASE \E ok \in Outcomes : StartResumed(ok) BY <1>5, ResumedLists, StepListsInv
<1>6. CASE \E resumable \in BOOLEAN : Stop(resumable) BY <1>6, StopLists, StepListsInv
<1>7. CASE NewGameRefused \/ \E ok \in Outcomes : NewGame(ok)
  BY <1>7, NewGameLists, StepListsInv
<1>8. CASE \/ SetPaused \/ CompositeDies \/ UNCHANGED vars
           \/ \E s \in Source : RecorderDies(s) \/ Resize(s) \/ PictureChanges(s) \/ Delete(s)
  BY <1>8, OutsideStepLists, StepListsInv
<1>9. CASE \E ok \in SUBSET Source : RefreshActive(ok) BY <1>9, RefreshLists, StepListsInv
<1>10. CASE Crash BY <1>10, CrashLists
<1>11. QED BY <1>1, <1>2, <1>3, <1>4, <1>5, <1>6, <1>7, <1>8, <1>9, <1>10 DEF Next, Refresh

LEMMA ListInvariant == Spec => [](SessionInv /\ ListInv)
<1>1. Init => ListInv
  BY DEF Init, ListInv, Accounted, VerdictsKnown, OpenedIsListed, Going
<1>2. SessionInv /\ ListInv /\ [Next]_vars => (SessionInv /\ ListInv)'
  BY StepListed, StepTypes, StepIdle DEF SessionInv
<1>3. QED BY InitSession, <1>1, <1>2, PTL DEF Spec

\* Every file of the newest session is named in session.json at every moment, so a
\* crash leaves none the manifest does not know of: whatever opens a file writes
\* the manifest in the same step, and no rewrite leaves a known file out.
THEOREM OpenedFilesAreListed == Spec => []OpenedIsListed
<1>1. SessionInv /\ ListInv => OpenedIsListed BY DEF ListInv
<1>2. QED BY ListInvariant, <1>1, PTL

\* A verdict in session.json is never changed or taken back in its session: every
\* one of them is a finished record or one of a dead recorder, and closing a dead
\* recorder gives the same record for whatever reason it is closed.
THEOREM ManifestVerdictsStay == Spec => VerdictsStay
<1>1. SessionInv /\ ListInv /\ [Next]_vars => [NewSession \/ VerdictsKept]_vars
  BY StepListed
<1>2. [NewSession \/ VerdictsKept]_vars => [NewSession \/ \A r \in disk.recordings :
                                          r.status = "recording" \/ r \in disk'.recordings]_vars
  BY DEF VerdictsKept
<1>3. QED BY ListInvariant, <1>1, <1>2, PTL DEF Spec, VerdictsStay

-----------------------------------------------------------------------------
(* Numbers: the ticks have an order, and a new game counts along it.         *)

\* entries_ is a list: of two ticked sources one was ticked first.
Ordered ==
    /\ before \subseteq armed \X armed
    /\ \A s \in armed : <<s, s>> \notin before
    /\ \A s, t \in armed : s = t \/ <<s, t>> \in before \/ <<t, s>> \in before
    /\ \A r, s, t \in armed : <<r, s>> \in before /\ <<s, t>> \in before => <<r, t>> \in before

Prefix(s) == {t \in armed : KindOf(t) = KindOf(s) /\ (t = s \/ <<t, s>> \in before)}

LEMMA PlaceGrows ==
    ASSUME EntriesOK, Ordered, NEW s \in armed, NEW t \in armed, KindOf(s) = KindOf(t),
           <<s, t>> \in before
    PROVE  Place(s) < Place(t)
<1>1. Prefix(s) \in SUBSET Source /\ Prefix(t) \in SUBSET Source BY DEF EntriesOK, Prefix
<1>2. Prefix(s) \subseteq Prefix(t) BY DEF Ordered, Prefix
<1>3. t \in Prefix(t) /\ t \notin Prefix(s) BY DEF Ordered, Prefix
<1>4. IsFiniteSet(Prefix(t)) BY <1>1, SourceAssumption, FS_Subset
<1>5. Cardinality(Prefix(s)) < Cardinality(Prefix(t))
  <2>1. Cardinality(Prefix(s)) \in Nat /\ Cardinality(Prefix(t)) \in Nat BY <1>1, SizeOfSources
  <2>2. Cardinality(Prefix(s)) <= Cardinality(Prefix(t)) BY <1>2, <1>4, FS_Subset
  <2>3. Cardinality(Prefix(s)) # Cardinality(Prefix(t)) BY <1>2, <1>3, <1>4, FS_Subset
  <2>4. QED BY <2>1, <2>2, <2>3
<1>6. QED BY <1>5 DEF Place, Prefix

LEMMA PlaceIsInRange ==
    ASSUME EntriesOK, NEW s \in armed
    PROVE  Place(s) # 0 /\ Place(s) <= Cardinality(armed \cap OfKind(KindOf(s)))
<1> DEFINE T == armed \cap OfKind(KindOf(s))
<1>1. Prefix(s) \in SUBSET Source /\ T \in SUBSET Source BY DEF EntriesOK, Prefix
<1>2. s \in Prefix(s) BY DEF Prefix
<1>3. \A t \in armed : KindOf(t) = KindOf(s) => t \in OfKind(KindOf(s))
  BY DEF EntriesOK, KindOf, OfKind, Audio
<1>4. Prefix(s) \subseteq T BY <1>3 DEF Prefix
<1> HIDE DEF T
<1>5. IsFiniteSet(T) /\ IsFiniteSet(Prefix(s)) BY <1>1, SourceAssumption, FS_Subset
<1>6. Cardinality(Prefix(s)) <= Cardinality(T) BY <1>4, <1>5, FS_Subset
<1>7. Cardinality(Prefix(s)) # 0 BY <1>2, <1>5, FS_EmptySet
<1>8. QED BY <1>6, <1>7 DEF Place, Prefix, T

\* After a new game the ticked sources have the numbers 1, 2, ... of their kind.
LEMMA RenumberAgrees ==
    ASSUME EntriesOK, Ordered, Renumber, armed' = armed PROVE NumberingAgrees'
<1>1. \A s \in armed : s \in Source BY DEF EntriesOK
<1>2. \A s \in Source : indexFor'[s] = IF s \in armed THEN Place(s) ELSE 0 BY DEF Renumber
<1>3. ASSUME NEW s \in Source, NEW t \in Source, s # t, KindOf(s) = KindOf(t), indexFor'[s] # 0
      PROVE  indexFor'[s] # indexFor'[t]
  <2>1. s \in armed BY <1>2, <1>3
  <2>2. CASE t \notin armed BY <1>2, <1>3, <2>2
  <2>3. CASE t \in armed
    <3>1. <<s, t>> \in before \/ <<t, s>> \in before BY <1>3, <2>1, <2>3 DEF Ordered
    <3>2. Place(s) < Place(t) \/ Place(t) < Place(s) BY <1>3, <2>1, <2>3, <3>1, PlaceGrows
    <3>3. Place(s) \in Nat /\ Place(t) \in Nat BY PlaceIsNat DEF EntriesOK
    <3>4. QED BY <1>2, <2>1, <2>3, <3>2, <3>3
  <2>4. QED BY <2>2, <2>3
<1>4. ASSUME NEW s \in Source PROVE indexFor'[s] < nextIndex'[KindOf(s)]
  <2> DEFINE T == armed \cap OfKind(KindOf(s))
  <2>1. nextIndex'[KindOf(s)] = Cardinality(T) + 1 BY DEF Renumber, KindOf, Kinds
  <2>2. Cardinality(T) \in Nat
    <3>1. T \in SUBSET Source BY DEF EntriesOK
    <3>2. QED BY <3>1, SizeOfSources
  <2>3. s \in armed => Place(s) \in Nat /\ Place(s) <= Cardinality(T)
    BY PlaceIsInRange, PlaceIsNat DEF EntriesOK
  <2> HIDE DEF T
  <2>4. QED BY <1>2, <2>1, <2>2, <2>3
<1>5. ASSUME NEW s \in armed' PROVE idx'[s] = indexFor'[s] /\ idx'[s] # 0 /\ seg'[s] = segCount'[s]
  BY <1>1, <1>2, <1>5, PlaceIsInRange DEF Renumber
<1>6. QED BY <1>3, <1>4, <1>5 DEF NumberingAgrees

LEMMA ArmNumbers ==
    ASSUME TypeOK, Ordered, NumberingAgrees, NEW s \in Source, NEW ok, Arm(s, ok)
    PROVE  Ordered' /\ NumberingAgrees'
<1>1. EntriesOK /\ NumberingOK BY DEF TypeOK
<1>2. s \notin armed /\ armed' = armed \cup {s} /\ before' = before \cup (armed \X {s}) BY DEF Arm
<1>3. Ordered'
  <2>1. \A p \in before : p[1] \in armed /\ p[2] \in armed BY DEF Ordered
  <2>2. \A t \in armed' : <<s, t>> \notin before' BY <1>2, <2>1
  <2>3. \A r, t \in armed : <<r, t>> \in before' <=> <<r, t>> \in before BY <1>2
  <2>4. before' \subseteq armed' \X armed' BY <1>2 DEF Ordered
  <2>5. \A t \in armed' : <<t, t>> \notin before' BY <1>2, <2>2, <2>3 DEF Ordered
  <2>6. \A t \in armed : <<t, s>> \in before' BY <1>2
  <2>7. \A r, t \in armed' : r = t \/ <<r, t>> \in before' \/ <<t, r>> \in before'
    BY <1>2, <2>3, <2>6 DEF Ordered
  <2>8. \A q, r, t \in armed' :
            <<q, r>> \in before' /\ <<r, t>> \in before' => <<q, t>> \in before'
    BY <1>2, <2>2, <2>3, <2>6 DEF Ordered
  <2>9. QED BY <2>4, <2>5, <2>7, <2>8 DEF Ordered
<1> DEFINE k == KindOf(s)
           next == nextIndex[k]
<1>4. k \in Kinds /\ next \in Nat BY <1>1 DEF NumberingOK, KindOf, Kinds
<1>5. /\ indexFor' = [indexFor EXCEPT ![s] = IF @ = 0 THEN next ELSE @]
      /\ nextIndex' = [nextIndex EXCEPT ![k] = IF indexFor[s] = 0 THEN @ + 1 ELSE @]
      /\ segCount' = [segCount EXCEPT ![s] = @ + 1]
      /\ seg' = [seg EXCEPT ![s] = segCount[s] + 1]
      /\ idx' = [idx EXCEPT ![s] = indexFor'[s]]
  BY DEF Arm
<1>6. \A t \in Source \ {s} : indexFor'[t] = indexFor[t] BY <1>1, <1>5 DEF NumberingOK
<1>7. indexFor'[s] = IF indexFor[s] = 0 THEN next ELSE indexFor[s] BY <1>1, <1>5 DEF NumberingOK
<1>8. \A t \in Source : indexFor[t] < nextIndex[KindOf(t)] /\ indexFor[t] \in Nat
  BY <1>1 DEF NumberingAgrees, NumberingOK
<1>9. indexFor'[s] # 0
  <2>1. indexFor[s] < next BY <1>8
  <2>2. QED BY <1>4, <1>7, <1>8, <2>1
<1>10. \A t, u \in Source :
         t # u /\ KindOf(t) = KindOf(u) /\ indexFor'[t] # 0 => indexFor'[t] # indexFor'[u]
  <2>1. \A t \in Source : KindOf(t) = k => indexFor[t] < next BY <1>8
  <2> HIDE DEF next
  <2>2. \A t \in Source \ {s} : KindOf(t) = k => indexFor'[t] # indexFor'[s]
    BY <1>4, <1>6, <1>7, <1>8, <2>1 DEF NumberingAgrees
  <2>3. QED BY <1>6, <2>2 DEF NumberingAgrees
<1>11. \A t \in Source : indexFor'[t] < nextIndex'[KindOf(t)]
  <2>1. \A j \in Kinds : nextIndex'[j] = IF j = k /\ indexFor[s] = 0 THEN nextIndex[j] + 1 ELSE nextIndex[j]
    BY <1>1, <1>5 DEF NumberingOK
  <2>2. \A t \in Source : KindOf(t) \in Kinds /\ nextIndex[KindOf(t)] \in Nat
    BY <1>1 DEF NumberingOK, KindOf, Kinds
  <2>3. ASSUME NEW t \in Source \ {s} PROVE indexFor'[t] < nextIndex'[KindOf(t)]
    BY <1>6, <1>8, <2>1, <2>2
  <2>4. indexFor'[s] < nextIndex'[k] BY <1>7, <1>8, <2>1, <2>2
  <2>5. QED BY <2>3, <2>4
<1>12. \A t \in armed' : idx'[t] = indexFor'[t] /\ idx'[t] # 0 /\ seg'[t] = segCount'[t]
  <2>1. idx'[s] = indexFor'[s] /\ seg'[s] = segCount'[s] BY <1>1, <1>5 DEF EntriesOK, NumberingOK
  <2>2. \A t \in armed : t \in Source \ {s} BY <1>1, <1>2 DEF EntriesOK
  <2>3. \A t \in Source \ {s} : idx'[t] = idx[t] /\ seg'[t] = seg[t] /\ segCount'[t] = segCount[t]
    BY <1>1, <1>5 DEF EntriesOK, NumberingOK
  <2>4. QED BY <1>2, <1>6, <1>9, <2>1, <2>2, <2>3 DEF NumberingAgrees
<1>13. QED BY <1>3, <1>10, <1>11, <1>12 DEF NumberingAgrees

\* What is not forgotten keeps its place and its numbers.
LEMMA ForgetNumbers ==
    ASSUME EntriesOK, Ordered, NumberingAgrees, NEW G, armed' = armed \ G,
           before' = {p \in before : p[1] \notin G /\ p[2] \notin G},
           indexFor' = indexFor, nextIndex' = nextIndex,
           \A s \in armed \ G : idx'[s] = idx[s] /\ seg'[s] = segCount'[s]
    PROVE  Ordered' /\ NumberingAgrees'
<1>1. \A s, t \in armed' : <<s, t>> \in before' <=> <<s, t>> \in before OBVIOUS
<1>2. before' \subseteq armed' \X armed' BY DEF Ordered
<1>3. Ordered' BY <1>1, <1>2 DEF Ordered
<1>4. NumberingAgrees' BY DEF NumberingAgrees
<1>5. QED BY <1>3, <1>4

LEMMA StepNumbers ==
    ASSUME SessionInv, Ordered, NumberingAgrees, [Next]_vars PROVE Ordered' /\ NumberingAgrees'
<1> USE DEF SessionInv
<1>0. EntriesOK /\ NumberingOK /\ \A s \in armed : s \in Source BY DEF TypeOK, EntriesOK
<1>1. CASE \E s \in Source, ok \in Outcomes : Arm(s, ok) BY <1>1, ArmNumbers
<1>2. ASSUME NEW s \in Source, Disarm(s) PROVE Ordered' /\ NumberingAgrees'
  <2>1. \A t \in armed \ {s} : idx'[t] = idx[t] /\ seg'[t] = segCount'[t]
    BY <1>0, <1>2 DEF Disarm, Drop, numbering, NumberingAgrees
  <2>2. QED BY <1>0, <1>2, <2>1, ForgetNumbers DEF Disarm, Forget, numbering
<1>3. CASE ReleaseSources
  BY <1>0, <1>3, ForgetNumbers DEF ReleaseSources, Forget, numbering
<1>4. CASE RefreshIdle
  <2>1. \A t \in armed \ Deleted : idx'[t] = idx[t] /\ seg'[t] = segCount'[t]
    BY <1>0, <1>4 DEF RefreshIdle, Drop, numbering, NumberingAgrees
  <2>2. QED BY <1>0, <1>4, <2>1, ForgetNumbers DEF RefreshIdle, Forget, numbering
<1>5. ASSUME NEW ok \in SUBSET Source, RefreshActive(ok) PROVE Ordered' /\ NumberingAgrees'
  <2>1. /\ segCount' = [s \in Source |-> IF s \in Resized THEN segCount[s] + 1 ELSE segCount[s]]
        /\ seg' = [s \in Source |-> IF s \in Deleted THEN 0
                                    ELSE IF s \in Resized THEN segCount'[s] ELSE seg[s]]
        /\ idx' = Drop(Deleted, idx, 0)
        /\ armed' = armed \ Deleted
        /\ before' = {p \in before : p[1] \notin Deleted /\ p[2] \notin Deleted}
        /\ indexFor' = indexFor /\ nextIndex' = nextIndex
    BY <1>5 DEF RefreshActive
  <2>2. \A t \in armed \ Deleted : seg'[t] = segCount'[t] BY <1>0, <2>1 DEF NumberingAgrees
  <2>3. \A t \in armed \ Deleted : idx'[t] = idx[t] BY <1>0, <2>1 DEF Drop
  <2>4. QED BY <1>0, <2>1, <2>2, <2>3, ForgetNumbers
<1>6. ASSUME NEW resumable \in BOOLEAN, Stop(resumable) PROVE Ordered' /\ NumberingAgrees'
  <2>1. armed' = {} /\ before' = {} BY <1>6 DEF Stop, Forget, Ordered
  <2>2. indexFor' = Zero /\ nextIndex' = FirstIndex BY <1>6 DEF Stop
  <2>3. QED BY <2>1, <2>2 DEF Ordered, NumberingAgrees, Zero, FirstIndex, KindOf, Kinds
<1>7. CASE Crash
  <2>1. armed' = {} /\ before' = {} /\ indexFor' = Zero /\ nextIndex' = FirstIndex BY <1>7 DEF Crash
  <2>2. QED BY <2>1 DEF Ordered, NumberingAgrees, Zero, FirstIndex, KindOf, Kinds
<1>8. CASE NewGameRefused \/ \E ok \in Outcomes : NewGame(ok)
  <2>1. Renumber /\ armed' = armed /\ before' = before BY <1>8 DEF NewGame, NewGameRefused
  <2>2. NumberingAgrees' BY <1>0, <2>1, RenumberAgrees
  <2>3. QED BY <2>1, <2>2 DEF Ordered
<1>9. CASE \/ \E ok \in Outcomes : StartFresh(ok) \/ StartResumed(ok)
           \/ StartRefused \/ SetPaused \/ CompositeDies \/ UNCHANGED vars
           \/ \E s \in Source : RecorderDies(s) \/ Resize(s) \/ PictureChanges(s) \/ Delete(s)
  <2>1. UNCHANGED <<armed, before, seg, idx, numbering>>
    BY <1>9 DEF StartFresh, StartResumed, StartRefused, SetPaused, CompositeDies, RecorderDies,
                Resize, PictureChanges, Delete, vars, entries
  <2>2. QED BY <2>1 DEF Ordered, NumberingAgrees, numbering
<1>10. QED BY <1>1, <1>2, <1>3, <1>4, <1>5, <1>6, <1>7, <1>8, <1>9 DEF Next, Refresh

NumberInv == SessionInv /\ Ordered /\ NumberingAgrees

LEMMA NumberInvariant == Spec => []NumberInv
<1>1. Init => Ordered /\ NumberingAgrees
  BY DEF Init, Ordered, NumberingAgrees, Zero, FirstIndex, KindOf, Kinds
<1>2. NumberInv /\ [Next]_vars => NumberInv'
  BY StepTypes, StepIdle, StepNumbers DEF NumberInv, SessionInv
<1>3. QED BY InitSession, <1>1, <1>2, PTL DEF Spec, NumberInv

\* In a game folder no two sources of a kind share a number, and each ticked source
\* has the number and segment its name was given last, for any sources, ticked and
\* unticked in any order over any number of games: newGame() numbers along the order
\* of the ticks, and what it gives out stays below nextIndex_.
THEOREM NumbersAgree == Spec => []NumberingAgrees
<1>1. NumberInv => NumberingAgrees BY DEF NumberInv
<1>2. QED BY NumberInvariant, <1>1, PTL
-----------------------------------------------------------------------------
(* Files: what is opened was never opened before in its session.             *)

Filenames == [game : Nat, src : Source \cup {Scene}, index : Nat, segment : Nat \ {0}]

\* No file lies in a later game; in the running game none has a later segment than
\* its source, nor the segment of a source that waits for its picture.
FreshInv ==
    /\ ~reopened
    /\ opened \subseteq Filenames
    /\ Going => \A f \in opened : f.game <= game
    /\ active => \A f \in opened :
                    f.game = game /\ f.src \in Source => f.segment <= segCount[f.src]
    /\ \A s \in armed : seg[s] # 0
    /\ \A s \in waiting : rec[s] = "none"
    /\ \A s \in waiting, f \in opened : f.game = game /\ f.src = s => f.segment < seg[s]

LEMMA FilesAreFiles ==
    ASSUME NEW S \in SUBSET Source, NEW g \in Nat, NEW i \in [Source -> Nat],
           NEW n \in [Source -> Nat], \A s \in S : n[s] # 0
    PROVE  \A f \in Files(g, S, i, n) :
             f \in Filenames /\ f.game = g /\ f.src \in S /\ f.segment = n[f.src]
BY DEF Files, Filenames

LEMMA CompFileIsFile ==
    ASSUME NEW g \in Nat, NEW c
    PROVE  \A f \in CompFile(c, g) : f \in Filenames /\ f.game = g /\ f.src = Scene
BY DEF CompFile, Filenames

\* start() and newGame() open the files of a game that has none.
LEMMA StartAllOpens ==
    ASSUME TypeOK, TypeOK', NEW ok, NEW fin, NEW held, StartAll(ok, fin, held), FreshInv,
           held \subseteq opened, \A f \in held : f.game < game', armed' = armed,
           \A s \in armed : seg'[s] = segCount'[s] /\ seg'[s] # 0
    PROVE  FreshInv'
<1> DEFINE S == Started(armed, ok)
           N == Files(game', S, idx', seg') \cup CompFile(comp', game')
<1>1. EntriesOK /\ EntriesOK' /\ game' \in Nat BY DEF TypeOK, FlagsOK
<1>2. S \in SUBSET Source /\ S \subseteq armed BY <1>1 DEF EntriesOK, Started
<1>3. /\ opened' = held \cup N
      /\ reopened' = (reopened \/ held \cap N # {})
      /\ waiting' = {s \in armed : ~Ready(s)}
      /\ rec' = [s \in Source |-> IF s \in S THEN "run" ELSE "none"]
  BY DEF StartAll, Open
<1>4. \A s \in S : Ready(s) BY DEF Started
<1> HIDE DEF S
<1>5. /\ N \subseteq Filenames
      /\ \A f \in N : f.game = game'
      /\ \A f \in N : f.src \in Source => f.src \in S /\ f.segment = seg'[f.src]
  <2>1. seg' \in [Source -> Nat] /\ idx' \in [Source -> Nat] BY <1>1 DEF EntriesOK
  <2>2. \A s \in S : seg'[s] # 0 BY <1>2
  <2>3. \A f \in Files(game', S, idx', seg') :
          f \in Filenames /\ f.game = game' /\ f.src \in S /\ f.segment = seg'[f.src]
    BY <1>1, <1>2, <2>1, <2>2, FilesAreFiles
  <2>4. \A f \in CompFile(comp', game') : f \in Filenames /\ f.game = game' /\ f.src = Scene
    BY <1>1, CompFileIsFile
  <2>5. QED BY <2>3, <2>4, SourceAssumption
<1> HIDE DEF N
<1>6. \A f \in held : f.game \in Nat BY DEF FreshInv, Filenames
<1>7. held \cap N = {} BY <1>1, <1>5, <1>6
<1>8. ~reopened' BY <1>3, <1>7 DEF FreshInv
<1>9. opened' \subseteq Filenames BY <1>3, <1>5 DEF FreshInv
<1>10. \A f \in opened' : f.game <= game' BY <1>1, <1>3, <1>5, <1>6
<1>11. \A f \in opened' : f.game = game' /\ f.src \in Source => f.src \in S /\ f.segment = seg'[f.src]
  BY <1>1, <1>3, <1>5, <1>6
<1>12. \A f \in opened' : f.game = game' /\ f.src \in Source => f.segment <= segCount'[f.src]
  <2>1. \A s \in S : seg'[s] = segCount'[s] /\ seg'[s] \in Nat BY <1>1, <1>2 DEF EntriesOK
  <2>2. QED BY <1>11, <2>1
<1>13. \A s \in waiting' : s \in Source /\ s \notin S /\ rec'[s] = "none"
  BY <1>1, <1>3, <1>4 DEF EntriesOK
<1>14. \A s \in waiting', f \in opened' : f.game = game' /\ f.src = s => f.segment < seg'[s]
  BY <1>11, <1>13
<1>15. \A s \in armed' : seg'[s] # 0 OBVIOUS
<1>16. QED BY <1>8, <1>9, <1>10, <1>12, <1>13, <1>14, <1>15 DEF FreshInv

LEMMA ArmOpens ==
    ASSUME NumberInv, TypeOK', FreshInv, NEW s \in Source, NEW ok, Arm(s, ok) PROVE FreshInv'
<1>1. /\ EntriesOK /\ NumberingOK /\ game \in Nat /\ EntriesOK'
      /\ (~active => waiting = {} /\ rec = NoRec)
  BY DEF NumberInv, SessionInv, TypeOK, FlagsOK, IdleHoldsNothing
<1>2. /\ s \notin armed /\ seg' = [seg EXCEPT ![s] = segCount[s] + 1]
      /\ segCount' = [segCount EXCEPT ![s] = @ + 1]
      /\ game' = game /\ active' = active /\ canResume' = canResume
  BY DEF Arm, flags
<1>3. s \notin waiting BY <1>1, <1>2 DEF EntriesOK
<1>4. segCount[s] \in Nat /\ segCount'[s] = segCount[s] + 1 /\ seg'[s] = segCount[s] + 1
  BY <1>1, <1>2 DEF EntriesOK, NumberingOK
<1>5. \A t \in Source \ {s} : seg'[t] = seg[t] /\ segCount'[t] = segCount[t]
  BY <1>1, <1>2 DEF EntriesOK, NumberingOK
<1>10. \A t \in armed' : seg'[t] # 0
  <2>1. armed' = armed \cup {s} /\ \A t \in armed : t \in Source \ {s}
    BY <1>1, <1>2 DEF Arm, EntriesOK
  <2>2. QED BY <1>4, <1>5, <2>1 DEF FreshInv
<1>6. CASE ~active
  <2>1. waiting' = waiting /\ rec' = rec /\ opened' = opened /\ reopened' = reopened
    BY <1>6 DEF Arm, history
  <2>2. QED BY <1>1, <1>2, <1>6, <1>10, <2>1 DEF FreshInv, Going
<1>7. CASE active
  <2> DEFINE S == Started({s}, ok)
             N == Files(game, S, idx', seg')
  <2>1. S \in SUBSET Source /\ S \subseteq {s} BY DEF Started
  <2>2. (s \in S => Ready(s)) BY DEF Started
  <2>3. /\ opened' = opened \cup N
        /\ reopened' = (reopened \/ opened \cap N # {})
        /\ waiting' = IF Ready(s) THEN waiting ELSE waiting \cup {s}
        /\ rec' = [rec EXCEPT ![s] = IF s \in S THEN "run" ELSE "none"]
    BY <1>7 DEF Arm, Open
  <2> HIDE DEF S
  <2>4. /\ N \subseteq Filenames
        /\ \A f \in N : f.game = game /\ f.src = s /\ s \in S /\ f.segment = segCount[s] + 1
    <3>1. seg' \in [Source -> Nat] /\ idx' \in [Source -> Nat] BY <1>1 DEF EntriesOK
    <3>2. \A t \in S : seg'[t] # 0 BY <1>4, <2>1
    <3>3. \A f \in N :
            f \in Filenames /\ f.game = game /\ f.src \in S /\ f.segment = seg'[f.src]
      BY <1>1, <2>1, <3>1, <3>2, FilesAreFiles
    <3>4. QED BY <1>4, <2>1, <3>3
  <2> HIDE DEF N
  <2>5. \A f \in opened : f.game = game /\ f.src \in Source => f.segment <= segCount[f.src]
    BY <1>7 DEF FreshInv
  <2>6. \A f \in opened : f.segment \in Nat BY DEF FreshInv, Filenames
  <2>7. opened \cap N = {} BY <1>4, <2>4, <2>5, <2>6
  <2>8. ~reopened' /\ opened' \subseteq Filenames BY <2>3, <2>4, <2>7 DEF FreshInv
  <2>9. \A f \in opened' : f.game <= game'
    BY <1>1, <1>2, <1>7, <2>3, <2>4 DEF FreshInv, Going
  <2>10. \A f \in opened' : f.game = game' /\ f.src \in Source => f.segment <= segCount'[f.src]
    <3>1. \A f \in opened : f.game = game /\ f.src = s => f.segment <= segCount[s] + 1
      BY <1>4, <2>5, <2>6
    <3>2. QED BY <1>2, <1>4, <1>5, <2>3, <2>4, <2>5, <3>1
  <2>11. \A t \in waiting' : rec'[t] = "none"
    <3>1. rec'[s] = IF s \in S THEN "run" ELSE "none" BY <1>1, <2>3 DEF EntriesOK
    <3>2. \A t \in Source \ {s} : rec'[t] = rec[t] BY <1>1, <2>3 DEF EntriesOK
    <3>3. waiting \subseteq Source \ {s} BY <1>1, <1>3 DEF EntriesOK
    <3>4. QED BY <1>3, <2>2, <2>3, <3>1, <3>2, <3>3 DEF FreshInv
  <2>12. \A t \in waiting', f \in opened' : f.game = game' /\ f.src = t => f.segment < seg'[t]
    <3>1. waiting \subseteq Source \ {s} BY <1>1, <1>3 DEF EntriesOK
    <3>2. ASSUME NEW t \in waiting, NEW f \in opened', f.game = game, f.src = t
          PROVE  f.segment < seg'[t]
      <4>1. f \in opened BY <2>3, <2>4, <3>1, <3>2
      <4>2. QED BY <1>5, <3>1, <3>2, <4>1 DEF FreshInv
    <3>3. ASSUME s \in waiting', NEW f \in opened', f.game = game, f.src = s
          PROVE  f.segment < seg'[s]
      <4>1. s \notin S BY <1>3, <2>2, <2>3, <3>3
      <4>2. f \in opened BY <2>3, <2>4, <3>3, <4>1
      <4>3. QED BY <1>4, <2>5, <2>6, <3>3, <4>2
    <3>4. QED BY <1>2, <2>3, <3>2, <3>3
  <2>13. QED BY <1>10, <2>8, <2>9, <2>10, <2>11, <2>12 DEF FreshInv
<1>8. QED BY <1>6, <1>7

\* A source that grew gets its next segment, one that waited the segment it was given.
LEMMA RefreshOpens ==
    ASSUME NumberInv, TypeOK', FreshInv, NEW ok, RefreshActive(ok) PROVE FreshInv'
<1> DEFINE S == Started(Appeared \cup Resized, ok)
           N == Files(game, S, idx', seg')
<1>1. EntriesOK /\ NumberingOK /\ game \in Nat /\ EntriesOK' /\ active
  BY DEF NumberInv, SessionInv, TypeOK, FlagsOK, RefreshActive
<1>2. /\ opened' = opened \cup N
      /\ reopened' = (reopened \/ opened \cap N # {})
      /\ waiting' = (waiting \ Deleted) \ Appeared
      /\ rec' = [s \in Source |-> IF s \in S THEN "run"
                                  ELSE IF s \in Deleted \cup Resized THEN "none" ELSE rec[s]]
      /\ segCount' = [s \in Source |-> IF s \in Resized THEN segCount[s] + 1 ELSE segCount[s]]
      /\ seg' = [s \in Source |-> IF s \in Deleted THEN 0
                                  ELSE IF s \in Resized THEN segCount'[s] ELSE seg[s]]
      /\ game' = game /\ active' = active /\ canResume' = canResume
  BY DEF RefreshActive, Open
<1>3. Deleted \subseteq armed /\ Appeared \cup Resized \subseteq armed \ Deleted /\ armed \subseteq Source
  BY <1>1, PendingSources DEF EntriesOK
<1>4. S \in SUBSET Source /\ S \subseteq Appeared \cup Resized BY <1>3 DEF Started
<1>5. \A s \in Source : segCount[s] \in Nat /\ seg[s] \in Nat BY <1>1 DEF EntriesOK, NumberingOK
<1>6. \A s \in armed : seg[s] = segCount[s] BY DEF NumberInv, NumberingAgrees
<1>7. Appeared \subseteq waiting /\ Resized \cap waiting = {}
  BY DEF Appeared, Resized, FreshInv
<1>8. \A s \in S : \/ s \in Resized /\ seg'[s] = segCount[s] + 1 /\ segCount'[s] = segCount[s] + 1
                   \/ s \in Appeared /\ seg'[s] = seg[s] /\ segCount'[s] = seg[s]
  BY <1>2, <1>3, <1>4, <1>6, <1>7
<1>9. \A s \in Source : segCount'[s] \in Nat /\ segCount[s] <= segCount'[s] BY <1>2, <1>5
<1> HIDE DEF S
<1>10. \A f \in opened : f.segment \in Nat /\ f.segment # 0 BY DEF FreshInv, Filenames
<1>11. \A s \in armed' : seg'[s] # 0
  <2>1. armed' = armed \ Deleted BY DEF RefreshActive
  <2>2. \A s \in armed' : s \in Source /\ seg[s] # 0 BY <1>3, <2>1 DEF FreshInv
  <2>3. QED BY <1>2, <1>5, <2>1, <2>2
<1>12. /\ N \subseteq Filenames
       /\ \A f \in N : f.game = game /\ f.src \in S /\ f.segment = seg'[f.src]
  <2>1. seg' \in [Source -> Nat] /\ idx' \in [Source -> Nat] BY <1>1 DEF EntriesOK
  <2>2. \A s \in S : seg'[s] # 0
    <3>1. armed' = armed \ Deleted BY DEF RefreshActive
    <3>2. QED BY <1>3, <1>4, <1>11, <3>1
  <2>3. \A f \in N :
          f \in Filenames /\ f.game = game /\ f.src \in S /\ f.segment = seg'[f.src]
    BY <1>1, <1>4, <2>1, <2>2, FilesAreFiles
  <2>4. QED BY <2>3
<1> HIDE DEF N
<1>13. \A f \in opened : f.game = game /\ f.src \in Source => f.segment <= segCount[f.src]
  BY <1>1 DEF FreshInv
<1>14. \A f \in N : f \notin opened
  <2>1. SUFFICES ASSUME NEW f \in N, f \in opened PROVE FALSE OBVIOUS
  <2>2. f.src \in S /\ f.src \in Source /\ f.game = game /\ f.segment = seg'[f.src]
    BY <1>4, <1>12
  <2>3. CASE f.src \in Resized /\ seg'[f.src] = segCount[f.src] + 1
    BY <1>5, <1>10, <1>13, <2>1, <2>2, <2>3
  <2>4. CASE f.src \in Appeared /\ seg'[f.src] = seg[f.src]
    <3>1. f.segment < seg[f.src] BY <1>7, <2>1, <2>2, <2>4 DEF FreshInv
    <3>2. QED BY <1>5, <1>10, <2>1, <2>2, <2>4, <3>1
  <2>5. QED BY <1>8, <2>2, <2>3, <2>4
<1>15. ~reopened' /\ opened' \subseteq Filenames BY <1>2, <1>12, <1>14 DEF FreshInv
<1>16. \A f \in opened' : f.game <= game' BY <1>1, <1>2, <1>12 DEF FreshInv, Going
<1>17. \A f \in opened' : f.game = game' /\ f.src \in Source => f.segment <= segCount'[f.src]
  <2>1. \A f \in opened : f.game = game /\ f.src \in Source => f.segment <= segCount'[f.src]
    BY <1>5, <1>9, <1>10, <1>13
  <2>2. \A s \in S : seg'[s] <= segCount'[s] BY <1>4, <1>5, <1>8, <1>9
  <2>3. QED BY <1>2, <1>12, <2>1, <2>2
<1>18. \A s \in waiting' : s \in Source /\ s \in waiting /\ s \notin Appeared /\ s \notin Resized
                           /\ s \notin Deleted /\ s \notin S
  BY <1>1, <1>2, <1>4, <1>7 DEF EntriesOK
<1>19. \A s \in waiting' : rec'[s] = "none" BY <1>2, <1>18 DEF FreshInv
<1>20. \A s \in waiting', f \in opened' : f.game = game' /\ f.src = s => f.segment < seg'[s]
  <2>1. \A s \in waiting' : seg'[s] = seg[s] BY <1>2, <1>18
  <2>2. \A s \in waiting', f \in opened' : f.src = s => f \in opened BY <1>2, <1>12, <1>18
  <2>3. QED BY <1>2, <1>18, <2>1, <2>2 DEF FreshInv
<1>21. QED BY <1>11, <1>15, <1>16, <1>17, <1>19, <1>20 DEF FreshInv

LEMMA StepOpens ==
    ASSUME NumberInv, NumberInv', FreshInv, [Next]_vars PROVE FreshInv'
<1>0. /\ TypeOK /\ TypeOK' /\ EntriesOK /\ game \in Nat
      /\ ~active => waiting = {} /\ rec = NoRec
      /\ ~active' => waiting' = {}
  BY DEF NumberInv, SessionInv, TypeOK, FlagsOK, IdleHoldsNothing
<1>1. CASE \E s \in Source, ok \in Outcomes : Arm(s, ok) BY <1>0, <1>1, ArmOpens
<1>2. CASE \E ok \in SUBSET Source : RefreshActive(ok) BY <1>0, <1>2, RefreshOpens
<1>3. ASSUME NEW G, armed' = armed \ G, waiting' = waiting \ G,
             \A s \in armed \ G : seg'[s] = seg[s] /\ rec'[s] = rec[s],
             UNCHANGED <<segCount, opened, reopened, game, active, canResume>>
      PROVE  FreshInv'
  <2>1. \A s \in waiting' : s \in armed \ G BY <1>0, <1>3 DEF EntriesOK
  <2>2. QED BY <1>3, <2>1 DEF FreshInv, Going
<1>4. ASSUME NEW s \in Source, Disarm(s) PROVE FreshInv'
  <2>1. \A t \in armed \ {s} : seg'[t] = seg[t] /\ rec'[t] = rec[t]
    BY <1>0, <1>4 DEF Disarm, Drop, EntriesOK
  <2>2. QED BY <1>3, <1>4, <2>1 DEF Disarm, Forget, numbering, history, flags
<1>5. CASE ReleaseSources
  BY <1>3, <1>5 DEF ReleaseSources, Forget, numbering, history, flags
<1>6. CASE RefreshIdle
  <2>1. \A t \in armed \ Deleted : seg'[t] = seg[t] /\ rec'[t] = rec[t]
    BY <1>0, <1>6 DEF RefreshIdle, Drop, EntriesOK
  <2>2. QED BY <1>3, <1>6, <2>1 DEF RefreshIdle, Forget, numbering, history, flags
<1>7. ASSUME NEW ok \in Outcomes, StartFresh(ok) \/ StartResumed(ok) PROVE FreshInv'
  <2>1. /\ UNCHANGED <<armed, seg, segCount>>
        /\ \A s \in armed : seg'[s] = segCount'[s] /\ seg'[s] # 0
    BY <1>7 DEF StartFresh, StartResumed, numbering, NumberInv, NumberingAgrees, FreshInv
  <2>2. CASE StartFresh(ok) BY <1>0, <2>1, <2>2, StartAllOpens DEF StartFresh
  <2>3. CASE StartResumed(ok)
    <3>1. \A f \in opened : f.game < game'
      BY <1>0, <2>3 DEF StartResumed, FreshInv, Filenames, Going
    <3>2. QED BY <1>0, <2>1, <2>3, <3>1, StartAllOpens DEF StartResumed
  <2>4. QED BY <1>7, <2>2, <2>3
<1>8. ASSUME NEW ok \in Outcomes, NewGame(ok) PROVE FreshInv'
  <2>1. \A s \in armed : seg'[s] = segCount'[s] /\ seg'[s] # 0
    BY <1>0, <1>8 DEF NewGame, Renumber, EntriesOK
  <2>2. \A f \in opened : f.game < game' BY <1>0, <1>8 DEF NewGame, FreshInv, Filenames, Going
  <2>3. QED BY <1>0, <1>8, <2>1, <2>2, StartAllOpens DEF NewGame
<1>9. CASE NewGameRefused
  <2>1. \A f \in opened : f.game < game' /\ f.game <= game'
    BY <1>0, <1>9 DEF NewGameRefused, FreshInv, Filenames, Going
  <2>2. \A s \in armed' : seg'[s] # 0 BY <1>0, <1>9 DEF NewGameRefused, Renumber, EntriesOK
  <2>3. \A s \in waiting' : rec'[s] = "none" BY <1>0, <1>9 DEF NewGameRefused, NoRec, EntriesOK
  <2>4. opened' = opened /\ reopened' = reopened BY <1>9 DEF NewGameRefused, history
  <2>5. \A f \in opened' : f.game # game'
    <3>1. game' = game + 1 /\ \A f \in opened : f.game \in Nat
      BY <1>9 DEF NewGameRefused, FreshInv, Filenames
    <3>2. QED BY <1>0, <2>1, <2>4, <3>1
  <2>6. QED BY <2>1, <2>2, <2>3, <2>4, <2>5 DEF FreshInv
<1>10. ASSUME NEW resumable \in BOOLEAN, Stop(resumable) PROVE FreshInv'
  <2>1. armed' = {} /\ active' = FALSE /\ active /\ UNCHANGED <<opened, reopened, game>>
    BY <1>10 DEF Stop, Forget, Deactivate, history
  <2>2. QED BY <1>0, <2>1 DEF FreshInv, Going
<1>11. CASE Crash
  <2>1. armed' = {} /\ active' = FALSE /\ canResume' = FALSE /\ UNCHANGED <<opened, reopened>>
    BY <1>11 DEF Crash, history
  <2>2. QED BY <1>0, <2>1 DEF FreshInv, Going
<1>12. CASE StartRefused
  <2>1. ~active /\ active' = active /\ canResume' = FALSE
        /\ UNCHANGED <<armed, seg, waiting, rec, opened, reopened>>
    BY <1>12 DEF StartRefused, entries, history
  <2>2. QED BY <1>0, <2>1 DEF FreshInv, Going
<1>13. CASE \/ SetPaused \/ CompositeDies \/ UNCHANGED vars
            \/ \E s \in Source : PictureChanges(s) \/ Delete(s)
  <2>1. UNCHANGED <<armed, seg, segCount, waiting, rec, opened, reopened, game, active, canResume>>
    BY <1>13 DEF SetPaused, CompositeDies, PictureChanges, Delete, vars, entries, numbering, flags,
                 history
  <2>2. QED BY <2>1 DEF FreshInv, Going
<1>14. ASSUME NEW s \in Source, RecorderDies(s) \/ Resize(s) PROVE FreshInv'
  <2>1. UNCHANGED <<armed, seg, segCount, waiting, opened, reopened, game, active, canResume>>
    BY <1>14 DEF RecorderDies, Resize, numbering, flags, history
  <2>2. \A t \in waiting : rec'[t] = "none"
    BY <1>0, <1>14 DEF RecorderDies, Resize, EntriesOK, FreshInv
  <2>3. QED BY <2>1, <2>2 DEF FreshInv, Going
<1>15. QED BY <1>1, <1>2, <1>4, <1>5, <1>6, <1>7, <1>8, <1>9, <1>10, <1>11, <1>12, <1>13,
              <1>14 DEF Next, Refresh

LEMMA FreshInvariant == Spec => [](NumberInv /\ FreshInv)
<1>1. Init => FreshInv BY DEF Init, FreshInv, Going
<1>2. Init => NumberInv
  BY InitSession DEF NumberInv, Init, Ordered, NumberingAgrees, Zero, FirstIndex, KindOf, Kinds
<1>3. NumberInv /\ [Next]_vars => NumberInv'
  BY StepTypes, StepIdle, StepNumbers DEF NumberInv, SessionInv
<1>4. NumberInv /\ NumberInv' /\ FreshInv /\ [Next]_vars => FreshInv' BY StepOpens
<1>5. QED BY <1>1, <1>2, <1>3, <1>4, PTL DEF Spec

\* No file is opened twice in a session, for any sources, games and segments: what
\* startEntry opens has a segment its source never had in that game folder.
THEOREM FilesAreUnique == Spec => []UniqueFiles
<1>1. FreshInv => UniqueFiles BY DEF FreshInv, UniqueFiles
<1>2. QED BY FreshInvariant, <1>1, PTL
LEMMA RefreshServes ==
    ASSUME NumberInv, FreshInv, Refresh, active PROVE Pending' = {}
<1>1. PICK ok : RefreshActive(ok) BY DEF Refresh, RefreshIdle
<1>2. EntriesOK BY DEF NumberInv, SessionInv, TypeOK
<1>3. /\ armed' = armed \ Deleted /\ gone' = gone \ Deleted
      /\ waiting' = (waiting \ Deleted) \ Appeared
      /\ pictured' = pictured /\ paused' = paused
  BY <1>1 DEF RefreshActive
<1>4. rec' = [s \in Source |-> IF s \in Started(Appeared \cup Resized, ok) THEN "run"
                               ELSE IF s \in Deleted \cup Resized THEN "none" ELSE rec[s]]
  BY <1>1 DEF RefreshActive
<1>5. gone' = {} BY <1>2, <1>3 DEF Deleted, EntriesOK
<1>6. gone = Deleted BY <1>2 DEF Deleted, EntriesOK
<1>7. Deleted' = {} BY <1>5 DEF Deleted
<1>8. Appeared' = {}
  <2>1. \A s \in waiting' : s \in waiting /\ s \notin gone /\ s \notin Appeared /\ rec[s] = "none"
    BY <1>3, <1>6 DEF FreshInv
  <2>2. SUFFICES ASSUME ~paused, NEW s \in waiting', s \in pictured PROVE FALSE
    BY <1>3 DEF Appeared
  <2>3. s \in Appeared BY <2>1, <2>2 DEF Appeared
  <2>4. QED BY <2>1, <2>3
<1>9. Resized' = {}
  <2>1. SUFFICES ASSUME ~paused, NEW s \in pictured, rec'[s] = "misfit" PROVE FALSE
    BY <1>3 DEF Resized
  <2>2. s \in Source BY <1>2, SourceAssumption DEF EntriesOK
  <2>3. rec[s] = "misfit" /\ s \notin Deleted /\ s \notin Resized BY <1>4, <2>1, <2>2
  <2>4. s \in Resized BY <1>6, <2>1, <2>3 DEF Resized
  <2>5. QED BY <2>3, <2>4
<1>10. QED BY <1>7, <1>8, <1>9 DEF Pending

\* A single look of the once-a-second refresh serves all there is to serve, for any
\* sources, and a source that is dropped, starts or carries on makes no new work:
\* this is what PendingIsServed needs of each step; that there is one, is fairness.
THEOREM RefreshServesAll == Spec => [][Refresh => ~active \/ Pending' = {}]_vars
<1>1. NumberInv /\ FreshInv /\ [Next]_vars => [Refresh => ~active \/ Pending' = {}]_vars
  BY RefreshServes
<1>2. QED BY FreshInvariant, <1>1, PTL DEF Spec
-----------------------------------------------------------------------------
(* Records: a file is live or has one finished record, never both.           *)

LiveFiles == {FileOf(r) : r \in LiveNow}
FinishedFiles == {FileOf(r) : r \in {q \in finished : q.segment # 0}}
RecordInv ==
    Going => /\ \A q, r \in finished : q.segment # 0 /\ FileOf(q) = FileOf(r) => q = r
             /\ LiveFiles \cap FinishedFiles = {}
             /\ LiveFiles \cup FinishedFiles \subseteq opened

SourceFile(s, g, i, n) == [game |-> g, src |-> s, index |-> i[s], segment |-> n[s]]
SceneFile(g) == [game |-> g, src |-> Scene, index |-> 0, segment |-> 1]

IsLive(f) == \/ \E s \in Source : rec[s] # "none" /\ f = SourceFile(s, game, idx, seg)
             \/ comp # "none" /\ f = SceneFile(game)

\* The files of the recorders and of the composite, one record for each.
LEMMA LiveRecords ==
    \A q \in LiveNow :
       \/ \E s \in Source : /\ rec[s] # "none" /\ FileOf(q) = SourceFile(s, game, idx, seg)
                            /\ q = Record(s, game, idx[s], seg[s], LiveStatus(rec[s]))
       \/ /\ comp # "none" /\ FileOf(q) = SceneFile(game)
          /\ q = Record(Scene, game, 0, 1, LiveStatus(comp))
<1>1. \A q \in Live(rec, idx, seg, game) :
        \E s \in Source : /\ rec[s] # "none" /\ FileOf(q) = SourceFile(s, game, idx, seg)
                          /\ q = Record(s, game, idx[s], seg[s], LiveStatus(rec[s]))
  BY DEF Live, FileOf, Record, SourceFile
<1>2. \A q \in CompLive(comp, game) :
        /\ comp # "none" /\ FileOf(q) = SceneFile(game)
        /\ q = Record(Scene, game, 0, 1, LiveStatus(comp))
  BY DEF CompLive, FileOf, Record, SceneFile
<1>3. QED BY <1>1, <1>2 DEF LiveNow

LEMMA OneLiveRecord == \A p, q \in LiveNow : FileOf(p) = FileOf(q) => p = q
<1>1. \A s, t \in Source :
        /\ SourceFile(s, game, idx, seg) = SourceFile(t, game, idx, seg) => s = t
        /\ SourceFile(s, game, idx, seg) # SceneFile(game)
  BY SourceAssumption DEF SourceFile, SceneFile
<1>2. QED BY <1>1, LiveRecords

LEMMA LiveFile == \A f : f \in LiveFiles <=> IsLive(f)
<1>1. ASSUME NEW f \in LiveFiles PROVE IsLive(f) BY LiveRecords DEF LiveFiles, IsLive
<1>2. ASSUME NEW s \in Source, rec[s] # "none"
      PROVE  SourceFile(s, game, idx, seg) \in LiveFiles
  <2> DEFINE q == Record(s, game, idx[s], seg[s], LiveStatus(rec[s]))
  <2>1. q \in LiveNow BY <1>2 DEF LiveNow, Live
  <2>2. FileOf(q) = SourceFile(s, game, idx, seg) BY DEF FileOf, Record, SourceFile
  <2>3. QED BY <2>1, <2>2 DEF LiveFiles
<1>3. ASSUME comp # "none" PROVE SceneFile(game) \in LiveFiles
  <2> DEFINE q == Record(Scene, game, 0, 1, LiveStatus(comp))
  <2>1. q \in LiveNow BY <1>3 DEF LiveNow, CompLive
  <2>2. FileOf(q) = SceneFile(game) BY DEF FileOf, Record, SceneFile
  <2>3. QED BY <2>1, <2>2 DEF LiveFiles
<1>4. QED BY <1>1, <1>2, <1>3 DEF IsLive

LEMMA LiveFileAfter == (\A f : f \in LiveFiles <=> IsLive(f))'
BY LiveFile, PTL

\* closeEntry and closeComposite: one record for each file they close.
LEMMA ClosedFiles ==
    ASSUME NEW S, NEW okStatus
    PROVE  \A q \in Closed(S, okStatus) :
             \E s \in S : /\ rec[s] # "none" /\ FileOf(q) = SourceFile(s, game, idx, seg)
                          /\ q = SourceRecord(s, okStatus)
BY DEF Closed, SourceRecord, FileOf, Record, SourceFile

LEMMA CompClosedFile ==
    \A q \in CompClosed : comp # "none" /\ FileOf(q) = SceneFile(game) /\ q = CompRecord
BY DEF CompClosed, CompRecord, FileOf, Record, SceneFile

LEMMA FailuresHaveNoFile ==
    ASSUME NEW S, NEW ok, NEW g
    PROVE  \A q \in StartFailures(S, ok, g) \cup CompFailures(ok, g) : q.segment = 0
BY DEF StartFailures, CompFailures, Failure, Record

\* A step that goes on with the files in kept, opens those in new, and gives each of
\* the others a record in closed.
StepRecords(kept, closed, new) ==
    /\ Going' => Going
    /\ \A q \in finished' : q \in finished \/ q \in closed \/ q.segment = 0
    /\ \A q, r \in closed : FileOf(q) = FileOf(r) => q = r
    /\ \A q \in closed : FileOf(q) \in LiveFiles /\ FileOf(q) \notin kept
    /\ kept \subseteq LiveFiles
    /\ LiveFiles' \subseteq kept \cup new
    /\ new \cap opened = {}
    /\ opened \cup new \subseteq opened'

LEMMA StepRecordsInv ==
    ASSUME RecordInv, NEW kept, NEW closed, NEW new, StepRecords(kept, closed, new)
    PROVE  RecordInv'
<1> SUFFICES ASSUME Going' PROVE
        /\ \A q, r \in finished' : q.segment # 0 /\ FileOf(q) = FileOf(r) => q = r
        /\ LiveFiles' \cap FinishedFiles' = {}
        /\ LiveFiles' \cup FinishedFiles' \subseteq opened'
  BY DEF RecordInv
<1> USE DEF StepRecords
<1>1. Going OBVIOUS
<1>2. \A q, r : FileOf(q) = FileOf(r) => q.segment = r.segment BY DEF FileOf
<1>3. \A q \in finished : q.segment # 0 => FileOf(q) \in FinishedFiles BY DEF FinishedFiles
<1>4. /\ \A q, r \in finished : q.segment # 0 /\ FileOf(q) = FileOf(r) => q = r
      /\ LiveFiles \cap FinishedFiles = {}
      /\ LiveFiles \cup FinishedFiles \subseteq opened
  BY <1>1 DEF RecordInv
<1>5. \A q, r \in finished' : q.segment # 0 /\ FileOf(q) = FileOf(r) => q = r
  BY <1>2, <1>3, <1>4
<1>6. \A f \in FinishedFiles' : f \in FinishedFiles \/ \E q \in closed : f = FileOf(q)
  BY <1>3 DEF FinishedFiles
<1>7. LiveFiles' \cap FinishedFiles' = {} BY <1>4, <1>6
<1>8. LiveFiles' \cup FinishedFiles' \subseteq opened' BY <1>4, <1>6
<1>9. QED BY <1>5, <1>7, <1>8

\* The recorders in S are closed, those in T started, the others go on.
LEMMA SourcesStep ==
    ASSUME NEW S \in SUBSET Source, NEW T \in SUBSET Source, game' = game, comp' = comp,
           \A s \in Source \ (S \cup T) :
              rec'[s] # "none" => rec[s] # "none" /\ idx'[s] = idx[s] /\ seg'[s] = seg[s],
           \A s \in S \ T : rec'[s] = "none"
    PROVE  \A f \in LiveFiles' :
             (f \in LiveFiles /\ f.src \notin S) \/ f \in Files(game', T, idx', seg')
<1>1. SUFFICES ASSUME NEW f \in LiveFiles', f \notin Files(game', T, idx', seg')
               PROVE  f \in LiveFiles /\ f.src \notin S
  OBVIOUS
<1>2. \/ \E s \in Source : rec'[s] # "none" /\ f = SourceFile(s, game', idx', seg')
      \/ comp' # "none" /\ f = SceneFile(game')
  BY <1>1, LiveFileAfter DEF IsLive
<1>3. CASE comp' # "none" /\ f = SceneFile(game')
  <2>1. f \in LiveFiles BY <1>3, LiveFile DEF IsLive
  <2>2. QED BY <1>3, <2>1, SourceAssumption DEF SceneFile
<1>4. ASSUME NEW s \in Source, rec'[s] # "none", f = SourceFile(s, game', idx', seg')
      PROVE  f \in LiveFiles /\ f.src \notin S
  <2>1. s \notin T BY <1>1, <1>4 DEF Files, SourceFile
  <2>2. s \notin S /\ rec[s] # "none" /\ f = SourceFile(s, game, idx, seg)
    BY <1>4, <2>1 DEF SourceFile
  <2>3. f \in LiveFiles BY <2>2, LiveFile DEF IsLive
  <2>4. QED BY <2>2, <2>3 DEF SourceFile
<1>5. QED BY <1>2, <1>3, <1>4

LEMMA SameLive ==
    ASSUME UNCHANGED <<idx, seg, game>>,
           \A s \in Source : rec'[s] # "none" => rec[s] # "none", comp' # "none" => comp # "none"
    PROVE  LiveFiles' \subseteq LiveFiles
<1>1. ASSUME NEW f \in LiveFiles' PROVE f \in LiveFiles
  <2>1. \/ \E s \in Source : rec'[s] # "none" /\ f = SourceFile(s, game', idx', seg')
        \/ comp' # "none" /\ f = SceneFile(game')
    BY LiveFileAfter DEF IsLive
  <2>2. \/ \E s \in Source : rec[s] # "none" /\ f = SourceFile(s, game, idx, seg)
        \/ comp # "none" /\ f = SceneFile(game)
    BY <2>1 DEF SourceFile
  <2>3. QED BY <2>2, LiveFile DEF IsLive
<1>2. QED BY <1>1

LEMMA NoneLive ==
    ASSUME \A s \in Source : rec[s] = "none", comp = "none" PROVE LiveFiles = {}
BY LiveFile DEF IsLive

LEMMA NoneLiveAfter ==
    ASSUME \A s \in Source : rec'[s] = "none", comp' = "none" PROVE LiveFiles' = {}
BY LiveFileAfter DEF IsLive

\* What start() and newGame() leave live is what they opened.
LEMMA StartAllLive ==
    ASSUME NEW ok, NEW fin, NEW held, StartAll(ok, fin, held), armed \subseteq Source, ~reopened'
    PROVE  \E new : /\ LiveFiles' \subseteq new /\ new \cap held = {} /\ opened' = held \cup new
                    /\ \A q \in finished' : q \in fin \/ q.segment = 0
<1> DEFINE S == Started(armed, ok)
           new == Files(game', S, idx', seg') \cup CompFile(comp', game')
<1>1. opened' = held \cup new /\ new \cap held = {} BY DEF StartAll, Open
<1>2. \A q \in finished' : q \in fin \/ q.segment = 0 BY FailuresHaveNoFile DEF StartAll
<1>3. S \in SUBSET Source BY DEF Started
<1>4. /\ \A s \in Source : rec'[s] # "none" => s \in S
      /\ comp' # "none" => comp' = "run"
  BY DEF StartAll, CompStarted
<1>5. LiveFiles' \subseteq new
  <2>1. \A f \in LiveFiles' : \/ \E s \in Source : rec'[s] # "none" /\ f = SourceFile(s, game', idx', seg')
                              \/ comp' # "none" /\ f = SceneFile(game')
    BY LiveFileAfter DEF IsLive
  <2> HIDE DEF S
  <2>2. QED BY <1>4, <2>1 DEF Files, CompFile, SourceFile, SceneFile
<1>6. QED BY <1>1, <1>2, <1>5

LEMMA ClosedSources ==
    ASSUME NEW S \in SUBSET Source, NEW okStatus
    PROVE  /\ \A q, r \in Closed(S, okStatus) : FileOf(q) = FileOf(r) => q = r
           /\ \A q \in Closed(S, okStatus) : FileOf(q) \in LiveFiles /\ FileOf(q).src \in S
<1>1. \A q \in Closed(S, okStatus) :
        \E s \in S : /\ rec[s] # "none" /\ FileOf(q) = SourceFile(s, game, idx, seg)
                     /\ q = SourceRecord(s, okStatus)
  BY ClosedFiles
<1>2. \A s, t \in Source : SourceFile(s, game, idx, seg) = SourceFile(t, game, idx, seg) => s = t
  BY DEF SourceFile
<1>3. \A s \in S : rec[s] # "none" =>
        /\ SourceFile(s, game, idx, seg) \in LiveFiles
        /\ SourceFile(s, game, idx, seg).src = s
  BY LiveFile DEF IsLive, SourceFile
<1>4. QED BY <1>1, <1>2, <1>3

\* stop() and newGame() give every live file its record.
LEMMA AllClosedRecords ==
    ASSUME EntriesOK, NEW okStatus, NEW closed, closed = Closed(armed, okStatus) \cup CompClosed
    PROVE  /\ \A q, r \in closed : FileOf(q) = FileOf(r) => q = r
           /\ \A q \in closed : FileOf(q) \in LiveFiles
<1>1. armed \in SUBSET Source BY DEF EntriesOK
<1>2. /\ \A q, r \in Closed(armed, okStatus) : FileOf(q) = FileOf(r) => q = r
      /\ \A q \in Closed(armed, okStatus) : FileOf(q) \in LiveFiles /\ FileOf(q).src \in armed
  BY <1>1, ClosedSources
<1>3. \A q \in CompClosed : /\ q = CompRecord /\ FileOf(q) \in LiveFiles
                            /\ FileOf(q).src = Scene
  BY CompClosedFile, LiveFile DEF IsLive, SceneFile
<1>4. QED BY <1>1, <1>2, <1>3, SourceAssumption

\* Nothing is closed and nothing opened.
LEMMA QuietRecords ==
    ASSUME Going' => Going, finished' = finished, opened' = opened, LiveFiles' \subseteq LiveFiles
    PROVE  StepRecords(LiveFiles, {}, {})
BY DEF StepRecords

LEMMA ArmRecords ==
    ASSUME SessionInv, FreshInv', NEW s \in Source, NEW ok, Arm(s, ok)
    PROVE  \E kept, closed, new : StepRecords(kept, closed, new)
<1>1. EntriesOK /\ rec[s] = "none" BY DEF SessionInv, TypeOK, EntriesOK, Arm
<1>2. UNCHANGED <<comp, game, active, canResume>> BY DEF Arm, flags
<1>3. CASE ~active
  <2>1. finished' = finished /\ opened' = opened /\ rec' = rec
    BY <1>3 DEF Arm, manifest, history
  <2>2. (\A t \in Source : rec'[t] = "none") /\ comp' = "none"
    BY <1>2, <1>3, <2>1 DEF SessionInv, IdleHoldsNothing, NoRec
  <2>3. LiveFiles' \subseteq LiveFiles BY <2>2, NoneLiveAfter
  <2>4. QED BY <1>2, <2>1, <2>3, QuietRecords DEF Going
<1>4. CASE active
  <2> DEFINE T == Started({s}, ok)
             new == Files(game', T, idx', seg')
  <2>1. T \in SUBSET Source /\ T \subseteq {s} BY DEF Started
  <2>2. /\ opened' = opened \cup new
        /\ reopened' = (reopened \/ opened \cap new # {})
        /\ rec' = [rec EXCEPT ![s] = IF s \in T THEN "run" ELSE "none"]
        /\ finished' = finished \cup StartFailures({s}, ok, game)
    BY <1>2, <1>4 DEF Arm, Open
  <2> HIDE DEF T
  <2>3. \A t \in Source \ T :
          rec'[t] # "none" => rec[t] # "none" /\ idx'[t] = idx[t] /\ seg'[t] = seg[t]
    BY <1>1, <2>1, <2>2 DEF Arm, EntriesOK
  <2>5. LiveFiles' \subseteq LiveFiles \cup new
    <3> DEFINE S == {}
    <3>1. S \in SUBSET Source /\ \A t \in Source \ (S \cup T) : t \in Source \ T OBVIOUS
    <3>2. \A t \in S \ T : rec'[t] = "none" OBVIOUS
    <3> HIDE DEF S
    <3>3. \A f \in LiveFiles' :
            (f \in LiveFiles /\ f.src \notin S) \/ f \in Files(game', T, idx', seg')
      BY <1>2, <2>1, <2>3, <3>1, <3>2, SourcesStep
    <3>4. QED BY <3>3
  <2>6. \A q \in StartFailures({s}, ok, game) : q.segment = 0 BY FailuresHaveNoFile
  <2> HIDE DEF new
  <2>7. new \cap opened = {} BY <2>2 DEF FreshInv
  <2>8. StepRecords(LiveFiles, {}, new)
    BY <1>2, <2>2, <2>5, <2>6, <2>7 DEF StepRecords, Going
  <2>9. QED BY <2>8
<1>5. QED BY <1>3, <1>4

LEMMA DisarmRecords ==
    ASSUME SessionInv, NEW s \in Source, Disarm(s)
    PROVE  \E kept, closed, new : StepRecords(kept, closed, new)
<1> DEFINE kept == {f \in LiveFiles : f.src \notin {s}}
           closed == Closed({s}, "complete")
<1>1. /\ UNCHANGED <<comp, game, active, canResume, opened>>
      /\ finished' = finished \cup closed
  BY DEF Disarm, flags, history
<1>2. rec'[s] = "none" /\ \A t \in Source \ {s} : rec'[t] = rec[t] /\ idx'[t] = idx[t] /\ seg'[t] = seg[t]
  BY DEF Disarm, Drop
<1>3. /\ \A q, r \in closed : FileOf(q) = FileOf(r) => q = r
      /\ \A q \in closed : FileOf(q) \in LiveFiles /\ FileOf(q).src \in {s}
  BY ClosedSources
<1>4. LiveFiles' \subseteq kept
  <2> DEFINE S == {s}
             T == {}
  <2>1. /\ S \in SUBSET Source /\ T \in SUBSET Source
        /\ \A t \in S \ T : rec'[t] = "none"
        /\ \A t \in Source \ (S \cup T) :
             rec'[t] # "none" => rec[t] # "none" /\ idx'[t] = idx[t] /\ seg'[t] = seg[t]
    BY <1>2
  <2>2. Files(game', T, idx', seg') = {} BY DEF Files
  <2> HIDE DEF S, T
  <2>3. \A f \in LiveFiles' :
          (f \in LiveFiles /\ f.src \notin S) \/ f \in Files(game', T, idx', seg')
    BY <1>1, <2>1, SourcesStep
  <2>4. QED BY <2>2, <2>3 DEF S
<1> HIDE DEF closed
<1>5. StepRecords(kept, closed, {}) BY <1>1, <1>3, <1>4 DEF StepRecords, Going
<1>6. QED BY <1>5

LEMMA StopRecords ==
    ASSUME SessionInv, NEW resumable, Stop(resumable)
    PROVE  \E kept, closed, new : StepRecords(kept, closed, new)
<1> DEFINE closed == Closed(armed, "complete") \cup CompClosed
           waited == {Failure(s, game) : s \in {t \in waiting : rec[t] = "none"}}
<1>1. EntriesOK BY DEF SessionInv, TypeOK
<1>2. /\ \A q, r \in closed : FileOf(q) = FileOf(r) => q = r
      /\ \A q \in closed : FileOf(q) \in LiveFiles
  BY <1>1, AllClosedRecords
<1>3. finished' = finished \cup closed \cup waited /\ opened' = opened
  BY DEF Stop, history
<1>4. \A q \in waited : q.segment = 0 BY DEF Failure, Record
<1>5. LiveFiles' = {}
  <2>1. (\A s \in Source : rec'[s] = "none") /\ comp' = "none" BY DEF Stop, NoRec
  <2>2. QED BY <2>1, NoneLiveAfter
<1>6. Going BY DEF Stop, Going
<1> HIDE DEF closed, waited
<1>7. StepRecords({}, closed, {}) BY <1>2, <1>3, <1>4, <1>5, <1>6 DEF StepRecords
<1>8. QED BY <1>7

LEMMA NewGameRecords ==
    ASSUME SessionInv, FreshInv', NEW ok, NewGame(ok) \/ NewGameRefused
    PROVE  \E kept, closed, new : StepRecords(kept, closed, new)
<1> DEFINE closed == Closed(armed, "complete") \cup CompClosed
<1>1. EntriesOK /\ armed \subseteq Source BY DEF SessionInv, TypeOK, EntriesOK
<1>2. /\ \A q, r \in closed : FileOf(q) = FileOf(r) => q = r
      /\ \A q \in closed : FileOf(q) \in LiveFiles
  BY <1>1, AllClosedRecords
<1>3. Going BY DEF NewGame, NewGameRefused, Going
<1>4. CASE NewGame(ok)
  <2>1. StartAll(ok, finished \cup closed, opened) BY <1>4 DEF NewGame
  <2> HIDE DEF closed
  <2>2. ~reopened' BY DEF FreshInv
  <2>3. PICK new : /\ LiveFiles' \subseteq new /\ new \cap opened = {} /\ opened' = opened \cup new
                   /\ \A q \in finished' : q \in finished \cup closed \/ q.segment = 0
    BY <1>1, <2>1, <2>2, StartAllLive
  <2>4. StepRecords({}, closed, new) BY <1>2, <1>3, <2>3 DEF StepRecords
  <2>5. QED BY <2>4
<1>5. CASE NewGameRefused
  <2>1. finished' = finished \cup closed /\ opened' = opened
    BY <1>5 DEF NewGameRefused, history
  <2>2. LiveFiles' = {}
    <3>1. (\A s \in Source : rec'[s] = "none") /\ comp' = "none"
      BY <1>5 DEF NewGameRefused, NoRec
    <3>2. QED BY <3>1, NoneLiveAfter
  <2> HIDE DEF closed
  <2>3. StepRecords({}, closed, {}) BY <1>2, <1>3, <2>1, <2>2 DEF StepRecords
  <2>4. QED BY <2>3
<1>6. QED BY <1>4, <1>5

LEMMA ResumedRecords ==
    ASSUME SessionInv, FreshInv', NEW ok, StartResumed(ok)
    PROVE  \E kept, closed, new : StepRecords(kept, closed, new)
<1>1. armed \subseteq Source BY DEF SessionInv, TypeOK, EntriesOK
<1>2. Going BY DEF StartResumed, Going
<1>3. StartAll(ok, finished, opened) BY DEF StartResumed
<1>4. ~reopened' BY DEF FreshInv
<1>5. PICK new : /\ LiveFiles' \subseteq new /\ new \cap opened = {} /\ opened' = opened \cup new
                 /\ \A q \in finished' : q \in finished \/ q.segment = 0
  BY <1>1, <1>3, <1>4, StartAllLive
<1>6. StepRecords({}, {}, new) BY <1>2, <1>5 DEF StepRecords
<1>7. QED BY <1>6

\* A new session has no finished file, and what is live was opened in it.
LEMMA FreshRecords ==
    ASSUME SessionInv, FreshInv', NEW ok, StartFresh(ok) PROVE RecordInv'
<1>1. armed \subseteq Source BY DEF SessionInv, TypeOK, EntriesOK
<1>2. StartAll(ok, {}, {}) BY DEF StartFresh
<1>3. ~reopened' BY DEF FreshInv
<1>4. PICK new : /\ LiveFiles' \subseteq new /\ opened' = {} \cup new
                 /\ \A q \in finished' : q \in {} \/ q.segment = 0
  BY <1>1, <1>2, <1>3, StartAllLive
<1>5. FinishedFiles' = {} BY <1>4 DEF FinishedFiles
<1>6. QED BY <1>4, <1>5 DEF RecordInv

\* The refresh closes the deleted sources and those of another size, starts those
\* with a picture and those of another size, and leaves the others alone.
LEMMA RefreshRecords ==
    ASSUME SessionInv, FreshInv', NEW ok, RefreshActive(ok)
    PROVE  \E kept, closed, new : StepRecords(kept, closed, new)
<1> DEFINE S == Deleted \cup Resized
           T == Started(Appeared \cup Resized, ok)
           kept == {f \in LiveFiles : f.src \notin S}
           closed == Closed(Deleted, "aborted") \cup Closed(Resized, "complete")
           new == Files(game', T, idx', seg')
           refused == StartFailures(Appeared \cup Resized, ok, game)
<1>1. UNCHANGED <<comp, game, active, canResume>> /\ EntriesOK
  BY DEF RefreshActive, SessionInv, TypeOK
<1>2. /\ Deleted \in SUBSET Source /\ Resized \in SUBSET Source /\ Deleted \cap Resized = {}
      /\ T \in SUBSET Source
  BY <1>1, PendingSources DEF EntriesOK, Started
<1>3. /\ opened' = opened \cup new
      /\ reopened' = (reopened \/ opened \cap new # {})
      /\ finished' = finished \cup closed \cup refused
      /\ rec' = [s \in Source |-> IF s \in T THEN "run"
                                  ELSE IF s \in Deleted \cup Resized THEN "none" ELSE rec[s]]
      /\ seg' = [s \in Source |-> IF s \in Deleted THEN 0
                                  ELSE IF s \in Resized THEN segCount'[s] ELSE seg[s]]
      /\ idx' = Drop(Deleted, idx, 0)
  BY <1>1 DEF RefreshActive, Open
<1> HIDE DEF T
<1>4. /\ S \in SUBSET Source
      /\ \A s \in S \ T : rec'[s] = "none"
      /\ \A s \in Source \ (S \cup T) : rec'[s] = rec[s] /\ idx'[s] = idx[s] /\ seg'[s] = seg[s]
  BY <1>2, <1>3 DEF Drop
<1>5. LiveFiles' \subseteq kept \cup new
  <2> HIDE DEF S
  <2>1. \A f \in LiveFiles' :
          (f \in LiveFiles /\ f.src \notin S) \/ f \in Files(game', T, idx', seg')
    BY <1>1, <1>2, <1>4, SourcesStep
  <2>2. QED BY <2>1
<1>6. /\ \A q, r \in closed : FileOf(q) = FileOf(r) => q = r
      /\ \A q \in closed : FileOf(q) \in LiveFiles /\ FileOf(q).src \in S
  <2>1. /\ \A q, r \in Closed(Deleted, "aborted") : FileOf(q) = FileOf(r) => q = r
        /\ \A q \in Closed(Deleted, "aborted") :
             FileOf(q) \in LiveFiles /\ FileOf(q).src \in Deleted
    BY <1>2, ClosedSources
  <2>2. /\ \A q, r \in Closed(Resized, "complete") : FileOf(q) = FileOf(r) => q = r
        /\ \A q \in Closed(Resized, "complete") :
             FileOf(q) \in LiveFiles /\ FileOf(q).src \in Resized
    BY <1>2, ClosedSources
  <2>3. QED BY <1>2, <2>1, <2>2
<1>7. \A q \in refused : q.segment = 0 BY FailuresHaveNoFile
<1> HIDE DEF closed, new, refused, S
<1>8. new \cap opened = {} BY <1>3 DEF FreshInv
<1>9. StepRecords(kept, closed, new)
  BY <1>1, <1>3, <1>5, <1>6, <1>7, <1>8 DEF StepRecords, Going
<1>10. QED BY <1>9

LEMMA StepRecorded ==
    ASSUME SessionInv, FreshInv', RecordInv, [Next]_vars PROVE RecordInv'
<1>1. CASE \E kept, closed, new : StepRecords(kept, closed, new) BY <1>1, StepRecordsInv
<1>2. CASE \E s \in Source, ok \in Outcomes : Arm(s, ok) BY <1>1, <1>2, ArmRecords
<1>3. CASE \E s \in Source : Disarm(s) BY <1>1, <1>3, DisarmRecords
<1>4. CASE \E resumable \in BOOLEAN : Stop(resumable) BY <1>1, <1>4, StopRecords
<1>5. CASE NewGameRefused \/ \E ok \in Outcomes : NewGame(ok) BY <1>1, <1>5, NewGameRecords
<1>6. CASE \E ok \in Outcomes : StartResumed(ok) BY <1>1, <1>6, ResumedRecords
<1>7. CASE \E ok \in Outcomes : StartFresh(ok) BY <1>7, FreshRecords
<1>8. CASE \E ok \in SUBSET Source : RefreshActive(ok) BY <1>1, <1>8, RefreshRecords
<1>9. CASE Crash BY <1>9 DEF Crash, RecordInv, Going
<1>10. CASE ReleaseSources \/ StartRefused \/ RefreshIdle
  <2>1. /\ ~active /\ (Going' => Going) /\ finished' = finished /\ opened' = opened
        /\ rec' = rec /\ comp' = comp
    BY <1>10 DEF ReleaseSources, StartRefused, RefreshIdle, entries, manifest, history, flags, Going
  <2>2. (\A s \in Source : rec'[s] = "none") /\ comp' = "none"
    BY <2>1 DEF SessionInv, IdleHoldsNothing, NoRec
  <2>3. LiveFiles' \subseteq LiveFiles BY <2>2, NoneLiveAfter
  <2>4. QED BY <1>1, <2>1, <2>3, QuietRecords
<1>11. CASE \/ SetPaused \/ CompositeDies \/ UNCHANGED vars
            \/ \E s \in Source : RecorderDies(s) \/ Resize(s) \/ PictureChanges(s) \/ Delete(s)
  <2>1. UNCHANGED <<idx, seg, game, active, canResume, finished, opened>>
    BY <1>11 DEF SetPaused, CompositeDies, RecorderDies, Resize, PictureChanges, Delete, vars,
                 entries, flags, manifest, history
  <2>2. comp' # "none" => comp # "none"
    BY <1>11 DEF SetPaused, CompositeDies, RecorderDies, Resize, PictureChanges, Delete, vars
  <2>3. \A s \in Source : rec'[s] # "none" => rec[s] # "none"
    <3>1. rec \in [Source -> RecStates] BY DEF SessionInv, TypeOK, EntriesOK
    <3>2. CASE rec' = rec BY <3>2
    <3>3. ASSUME NEW s \in Source, RecorderDies(s) \/ Resize(s)
          PROVE  \A t \in Source : rec'[t] # "none" => rec[t] # "none"
      BY <3>1, <3>3 DEF RecorderDies, Resize
    <3>4. QED BY <1>11, <3>2, <3>3 DEF SetPaused, CompositeDies, PictureChanges, Delete, vars, entries
  <2>4. LiveFiles' \subseteq LiveFiles BY <2>1, <2>2, <2>3, SameLive
  <2>5. QED BY <1>1, <2>1, <2>4, QuietRecords DEF Going
<1>12. QED BY <1>2, <1>3, <1>4, <1>5, <1>6, <1>7, <1>8, <1>9, <1>10, <1>11 DEF Next, Refresh

LEMMA RecordInvariant == Spec => [](FreshInv /\ Accounted /\ RecordInv)
<1>1. Init => RecordInv BY DEF Init, RecordInv, Going
<1>2. NumberInv /\ (NumberInv /\ FreshInv)' /\ RecordInv /\ [Next]_vars => RecordInv'
  BY StepRecorded DEF NumberInv
<1>3. SessionInv /\ ListInv => Accounted BY DEF ListInv
<1>4. QED BY FreshInvariant, ListInvariant, <1>1, <1>2, <1>3, PTL DEF Spec

LEMMA OneRecord ==
    ASSUME FreshInv, Accounted, RecordInv PROVE OneRecordPerFile
<1>1. SUFFICES ASSUME active, NEW f \in opened
               PROVE  Cardinality({r \in Known : FileOf(r) = f}) = 1
  BY DEF OneRecordPerFile, Known
<1>2. Going BY <1>1 DEF Going
<1>3. PICK r \in Known : FileOf(r) = f BY <1>1, <1>2 DEF Accounted
<1>4. ASSUME NEW p \in Known, NEW q \in Known, FileOf(p) = f, FileOf(q) = f PROVE p = q
  <2>1. p.segment # 0 /\ q.segment # 0
    <3>1. f.segment # 0 BY <1>1 DEF FreshInv, Filenames
    <3>2. QED BY <1>4, <3>1 DEF FileOf
  <2>2. CASE p \in LiveNow /\ q \in LiveNow BY <1>4, <2>2, OneLiveRecord
  <2>3. CASE p \in finished /\ q \in finished
    BY <1>2, <1>4, <2>1, <2>3 DEF RecordInv
  <2>4. \A a \in finished, b \in LiveNow : a.segment # 0 => FileOf(a) # FileOf(b)
    BY <1>2 DEF RecordInv, LiveFiles, FinishedFiles
  <2>5. QED BY <1>4, <2>1, <2>2, <2>3, <2>4 DEF Known
<1>5. {p \in Known : FileOf(p) = f} = {r} BY <1>3, <1>4
<1>6. QED BY <1>5, FS_Singleton

\* Every file of the running session has exactly one record, for any sources, games
\* and segments: what is closed was live, it is not opened again, and each way of
\* closing a recorder writes its one record in the step that lets go of it.
THEOREM FilesHaveOneRecord == Spec => []OneRecordPerFile
<1>1. FreshInv /\ Accounted /\ RecordInv => OneRecordPerFile BY OneRecord
<1>2. QED BY RecordInvariant, <1>1, PTL

-----------------------------------------------------------------------------
(* File names: numbers are given out without a gap, so that they and the      *)
(* segments stay among those whose texts differ.                             *)

NumbersDense == \A k \in Kinds : nextIndex[k] = Cardinality({s \in OfKind(k) : indexFor[s] # 0}) + 1
SegmentsBounded ==
    \A s \in Source : segCount[s] <= MaxSegments /\ (rec[s] = "misfit" => segCount[s] < MaxSegments)

LEMMA NumbersInRange ==
    ASSUME NEW i \in [Source -> Nat], NEW n, NEW s \in Source,
           \A k \in Kinds : n[k] = Cardinality({t \in OfKind(k) : i[t] # 0}) + 1,
           i[s] < n[KindOf(s)]
    PROVE  i[s] <= Cardinality(Source)
<1> DEFINE S == {t \in OfKind(KindOf(s)) : i[t] # 0}
<1>1. KindOf(s) \in Kinds BY DEF KindOf, Kinds
<1>2. n[KindOf(s)] = Cardinality(S) + 1 BY <1>1
<1>3. S \in SUBSET Source BY SourceAssumption DEF OfKind, Audio
<1> HIDE DEF S
<1>4. Cardinality(S) \in Nat /\ Cardinality(Source) \in Nat /\ Cardinality(S) <= Cardinality(Source)
  BY <1>3, SourceAssumption, FS_Subset, FS_CardinalityType
<1>5. QED BY <1>2, <1>4

LEMMA NoneNumbered ==
    ASSUME indexFor' = Zero, nextIndex' = FirstIndex PROVE NumbersDense'
<1>1. SUFFICES ASSUME NEW k \in Kinds
               PROVE  nextIndex'[k] = Cardinality({s \in OfKind(k) : indexFor'[s] # 0}) + 1
  BY DEF NumbersDense
<1>2. {s \in OfKind(k) : indexFor'[s] # 0} = {} BY SourceAssumption DEF Zero, OfKind, Audio
<1>3. QED BY <1>2, FS_EmptySet DEF FirstIndex

LEMMA RenumberIsDense ==
    ASSUME EntriesOK, Renumber PROVE NumbersDense'
<1>1. SUFFICES ASSUME NEW k \in Kinds
               PROVE  nextIndex'[k] = Cardinality({s \in OfKind(k) : indexFor'[s] # 0}) + 1
  BY DEF NumbersDense
<1>2. \A s \in Source : indexFor'[s] # 0 <=> s \in armed
  <2>1. \A s \in Source : indexFor'[s] = IF s \in armed THEN Place(s) ELSE 0 BY DEF Renumber
  <2>2. QED BY <2>1, PlaceIsInRange
<1>3. OfKind(k) \subseteq Source BY SourceAssumption DEF OfKind, Audio
<1>4. {s \in OfKind(k) : indexFor'[s] # 0} = armed \cap OfKind(k) BY <1>2, <1>3
<1>5. QED BY <1>4 DEF Renumber

LEMMA ArmIsDense ==
    ASSUME TypeOK, NumberingAgrees, NumbersDense, NEW s \in Source, NEW ok, Arm(s, ok)
    PROVE  NumbersDense'
<1>0. NumberingOK BY DEF TypeOK
<1>1. SUFFICES ASSUME NEW k \in Kinds
               PROVE  nextIndex'[k] = Cardinality({t \in OfKind(k) : indexFor'[t] # 0}) + 1
  BY DEF NumbersDense
<1> DEFINE was == {t \in OfKind(k) : indexFor[t] # 0}
           is == {t \in OfKind(k) : indexFor'[t] # 0}
<1>2. OfKind(k) \subseteq Source /\ (s \in OfKind(k) <=> k = KindOf(s))
  BY SourceAssumption DEF OfKind, Audio, KindOf, Kinds
<1>3. \A t \in Source \ {s} : indexFor'[t] = indexFor[t] BY <1>0 DEF Arm, NumberingOK
<1>4. indexFor'[s] = IF indexFor[s] = 0 THEN nextIndex[KindOf(s)] ELSE indexFor[s]
  BY <1>0 DEF Arm, NumberingOK
<1>5. nextIndex'[k] = IF k = KindOf(s) /\ indexFor[s] = 0 THEN nextIndex[k] + 1 ELSE nextIndex[k]
  BY <1>0 DEF Arm, NumberingOK
<1>6. nextIndex[k] = Cardinality(was) + 1 BY DEF NumbersDense
<1>7. was \in SUBSET Source /\ IsFiniteSet(was) /\ Cardinality(was) \in Nat
  <2>1. was \in SUBSET Source BY <1>2
  <2>2. QED BY <2>1, SizeOfSources, SourceAssumption, FS_Subset
<1>8. CASE k = KindOf(s) /\ indexFor[s] = 0
  <2>1. indexFor'[s] # 0
    <3>1. indexFor[s] < nextIndex[KindOf(s)] BY DEF NumberingAgrees
    <3>2. QED BY <1>4, <1>8, <3>1
  <2>2. is = was \cup {s} /\ s \notin was BY <1>2, <1>3, <1>8, <2>1
  <2> HIDE DEF is, was
  <2>3. Cardinality(is) = Cardinality(was) + 1 BY <1>7, <2>2, FS_AddElement
  <2> USE DEF is
  <2>4. QED BY <1>5, <1>6, <1>7, <1>8, <2>3
<1>9. CASE ~(k = KindOf(s) /\ indexFor[s] = 0)
  <2>1. is = was BY <1>2, <1>3, <1>4, <1>9
  <2>2. QED BY <1>5, <1>6, <1>9, <2>1
<1>10. QED BY <1>8, <1>9

LEMMA StepIsDense ==
    ASSUME NumberInv, NumbersDense, [Next]_vars PROVE NumbersDense'
<1>0. TypeOK /\ EntriesOK /\ NumberingAgrees BY DEF NumberInv, SessionInv, TypeOK
<1>1. CASE \E s \in Source, ok \in Outcomes : Arm(s, ok) BY <1>0, <1>1, ArmIsDense
<1>2. CASE \E resumable \in BOOLEAN : Stop(resumable) BY <1>2, NoneNumbered DEF Stop
<1>3. CASE Crash BY <1>3, NoneNumbered DEF Crash
<1>4. CASE NewGameRefused \/ \E ok \in Outcomes : NewGame(ok)
  BY <1>0, <1>4, RenumberIsDense DEF NewGame, NewGameRefused
<1>5. CASE \/ \E ok \in Outcomes : StartFresh(ok) \/ StartResumed(ok)
           \/ ReleaseSources \/ StartRefused \/ SetPaused \/ CompositeDies \/ Refresh \/ UNCHANGED vars
           \/ \E s \in Source : \/ Disarm(s) \/ RecorderDies(s) \/ Resize(s) \/ PictureChanges(s)
                                \/ Delete(s)
  <2>1. UNCHANGED <<indexFor, nextIndex>>
    BY <1>5 DEF Disarm, ReleaseSources, RefreshActive, RefreshIdle, Refresh, StartFresh, StartResumed,
                StartRefused, SetPaused, CompositeDies, RecorderDies, Resize, PictureChanges, Delete,
                vars, numbering
  <2>2. QED BY <2>1 DEF NumbersDense
<1>6. QED BY <1>1, <1>2, <1>3, <1>4, <1>5 DEF Next

\* A recorder is closed, started or left as it is, and only a source whose picture
\* changed its size is given another segment.
LEMMA StepIsBounded ==
    ASSUME NumberInv, SegmentsBounded, [Next]_vars PROVE SegmentsBounded'
<1>0. /\ EntriesOK /\ NumberingOK /\ MaxSegments \in Nat \ {0}
      /\ rec \in [Source -> RecStates] /\ segCount \in [Source -> Nat]
      /\ ~active => rec = NoRec
  BY BoundAssumption DEF NumberInv, SessionInv, TypeOK, EntriesOK, NumberingOK, IdleHoldsNothing
<1>1. CASE \E s \in Source, ok \in Outcomes : Arm(s, ok)
  <2>1. PICK s \in Source, ok \in Outcomes : Arm(s, ok) BY <1>1
  <2>2. segCount' = [segCount EXCEPT ![s] = @ + 1] /\ segCount[s] < MaxSegments BY <2>1 DEF Arm
  <2>3. \/ rec' = rec /\ rec = NoRec
        \/ rec' = [rec EXCEPT ![s] = IF s \in Started({s}, ok) THEN "run" ELSE "none"]
    BY <1>0, <2>1 DEF Arm
  <2>4. rec'[s] # "misfit" /\ \A t \in Source \ {s} : rec'[t] = rec[t]
    BY <1>0, <2>3 DEF NoRec
  <2>5. QED BY <1>0, <2>2, <2>4 DEF SegmentsBounded
<1>2. CASE \E ok \in SUBSET Source : RefreshActive(ok)
  <2>1. PICK ok \in SUBSET Source : RefreshActive(ok) BY <1>2
  <2>2. \A s \in Source : segCount'[s] = IF s \in Resized THEN segCount[s] + 1 ELSE segCount[s]
    BY <2>1 DEF RefreshActive
  <2>3. \A s \in Source : rec'[s] # "misfit" \/ (rec'[s] = rec[s] /\ s \notin Resized)
    BY <2>1 DEF RefreshActive
  <2>4. \A s \in Resized : rec[s] = "misfit" BY DEF Resized
  <2>5. QED BY <1>0, <2>2, <2>3, <2>4 DEF SegmentsBounded
<1>3. CASE \/ Crash \/ NewGameRefused \/ \E resumable \in BOOLEAN : Stop(resumable)
           \/ \E ok \in Outcomes : NewGame(ok)
  <2>1. \A s \in Source : segCount'[s] \in 0..1
    BY <1>3 DEF Crash, NewGameRefused, NewGame, Stop, Renumber, Zero
  <2>2. \A s \in Source : rec'[s] # "misfit"
    BY <1>3 DEF Crash, NewGameRefused, NewGame, Stop, StartAll, NoRec
  <2>3. QED BY <1>0, <2>1, <2>2 DEF SegmentsBounded
<1>4. ASSUME NEW s \in Source, Resize(s) PROVE SegmentsBounded'
  <2>1. /\ segCount' = segCount /\ segCount[s] < MaxSegments
        /\ \A t \in Source \ {s} : rec'[t] = rec[t]
    BY <1>0, <1>4 DEF Resize, numbering
  <2>2. QED BY <1>0, <2>1 DEF SegmentsBounded
<1>5. CASE \/ \E ok \in Outcomes : StartFresh(ok) \/ StartResumed(ok)
           \/ ReleaseSources \/ StartRefused \/ SetPaused \/ CompositeDies \/ RefreshIdle \/ UNCHANGED vars
           \/ \E s \in Source : Disarm(s) \/ RecorderDies(s) \/ PictureChanges(s) \/ Delete(s)
  <2>1. segCount' = segCount
    BY <1>5 DEF Disarm, ReleaseSources, RefreshIdle, StartFresh, StartResumed, StartRefused,
                SetPaused, CompositeDies, RecorderDies, PictureChanges, Delete, vars, numbering
  <2>2. \A t \in Source : rec'[t] # "misfit" \/ rec'[t] = rec[t]
    BY <1>0, <1>5 DEF Disarm, Drop, ReleaseSources, RefreshIdle, StartFresh, StartResumed, StartAll,
                StartRefused, SetPaused, CompositeDies, RecorderDies, PictureChanges, Delete, vars,
                entries
  <2>3. QED BY <2>1, <2>2 DEF SegmentsBounded
<1>6. QED BY <1>1, <1>2, <1>3, <1>4, <1>5 DEF Next, Refresh

\* A source keeps its number through a game, and the composite has 0 to itself.
HasNumber(f) == f.src # Scene => f.index = indexFor[f.src]
InRange(f) ==
    \/ f.src = Scene /\ f.index = 0 /\ f.segment = 1
    \/ f.src \in Source /\ f.index \in 1..Cardinality(Source) /\ f.segment \in 1..MaxSegments
Told(f, g) ==
    /\ f.src = g.src => f.index = g.index
    /\ f.src # g.src /\ KindOf(f.src) = KindOf(g.src) => f.index # g.index
ToldInv ==
    /\ \A f \in opened : InRange(f)
    /\ \A f, g \in opened : f.game = g.game /\ f.src # Scene /\ g.src # Scene => Told(f, g)
    /\ active => \A f \in opened : f.game = game => HasNumber(f)

\* A file that is opened has the number and the segment of its source.
FileOfNow(f) ==
    \/ f.src = Scene /\ f.index = 0 /\ f.segment = 1
    \/ f.src \in Source /\ f.index = indexFor[f.src] /\ f.index # 0 /\ f.segment = segCount[f.src]

LEMMA OpenedAreTold ==
    ASSUME NumberInv', NumbersDense', SegmentsBounded', ToldInv, FreshInv',
           NEW held \in SUBSET opened, NEW N, opened' = held \cup N,
           N # {} => active',
           \A f \in N : f.game = game' /\ FileOfNow(f)',
           active' => \A f \in held : f.game = game' => HasNumber(f)'
    PROVE  ToldInv'
<1>1. /\ indexFor' \in [Source -> Nat] /\ segCount' \in [Source -> Nat]
      /\ \A s \in Source : indexFor'[s] < nextIndex'[KindOf(s)]
      /\ \A s, t \in Source :
           s # t /\ KindOf(s) = KindOf(t) /\ indexFor'[s] # 0 => indexFor'[s] # indexFor'[t]
  BY DEF NumberInv, SessionInv, TypeOK, NumberingOK, NumberingAgrees
<1>2. \A s \in Source : indexFor'[s] <= Cardinality(Source)
  BY <1>1, NumbersInRange DEF NumbersDense
<1>3. Cardinality(Source) \in Nat /\ MaxSegments \in Nat
  BY SourceAssumption, BoundAssumption, FS_CardinalityType
<1>4. opened' \subseteq Filenames BY DEF FreshInv
<1>5. ASSUME NEW f \in N PROVE InRange(f) /\ HasNumber(f)'
  <2>1. f \in Filenames BY <1>4
  <2>2. CASE f.src = Scene BY <2>2, SourceAssumption DEF FileOfNow, InRange, HasNumber
  <2>3. CASE f.src \in Source
    <3>1. /\ f.index = indexFor'[f.src] /\ f.index # 0 /\ f.segment = segCount'[f.src]
          /\ f.segment # 0
      BY <2>1, <2>3, SourceAssumption DEF FileOfNow, Filenames
    <3>2. segCount'[f.src] <= MaxSegments BY <2>3 DEF SegmentsBounded
    <3>3. f.index \in 1..Cardinality(Source) /\ f.segment \in 1..MaxSegments
      BY <1>1, <1>2, <1>3, <2>3, <3>1, <3>2
    <3>4. QED BY <2>3, <3>1, <3>3 DEF InRange, HasNumber
  <2>4. QED BY <2>2, <2>3 DEF FileOfNow
<1>6. \A f \in opened' : InRange(f) BY <1>5 DEF ToldInv
<1>7. active' => \A f \in opened' : f.game = game' => HasNumber(f)' BY <1>5
<1>8. ASSUME NEW f \in opened', NEW g \in opened', f.game = g.game, f.src # Scene, g.src # Scene
      PROVE  Told(f, g)
  <2>1. CASE f \in opened /\ g \in opened BY <1>8, <2>1 DEF ToldInv
  <2>2. CASE f \in N \/ g \in N
    <3>1. active' /\ f.game = game' /\ g.game = game' BY <1>8, <2>2
    <3>2. f.src \in Source /\ g.src \in Source BY <1>6, <1>8 DEF InRange
    <3>3. f.index = indexFor'[f.src] /\ g.index = indexFor'[g.src]
      BY <1>7, <1>8, <3>1 DEF HasNumber
    <3>4. f.index # 0
      <4>1. f.index \in 1..Cardinality(Source) BY <1>6, <1>8 DEF InRange
      <4>2. QED BY <4>1
    <3>5. QED BY <1>1, <3>2, <3>3, <3>4 DEF Told
  <2>3. QED BY <2>1, <2>2
<1>9. QED BY <1>6, <1>7, <1>8 DEF ToldInv

LEMMA OpenedNow ==
    ASSUME NumberInv', FreshInv', NEW S \in SUBSET Source, NEW c,
           \A s \in S : idx'[s] = indexFor'[s] /\ idx'[s] # 0 /\ seg'[s] = segCount'[s]
    PROVE  \A f \in Files(game', S, idx', seg') \cup CompFile(c, game') :
             f.game = game' /\ FileOfNow(f)'
<1>1. \A f \in Files(game', S, idx', seg') : f.game = game' /\ FileOfNow(f)'
  BY DEF Files, FileOfNow
<1>2. \A f \in CompFile(c, game') : f.game = game' /\ FileOfNow(f)' BY DEF CompFile, FileOfNow
<1>3. QED BY <1>1, <1>2

StepTold == /\ NumberInv /\ NumberInv' /\ FreshInv /\ FreshInv' /\ ToldInv
            /\ NumbersDense' /\ SegmentsBounded'

LEMMA StartAllIsTold ==
    ASSUME StepTold, active', NEW ok, NEW fin, NEW held \in SUBSET opened, StartAll(ok, fin, held),
           armed' = armed, \A f \in held : f.game < game'
    PROVE  ToldInv'
<1> DEFINE S == Started(armed, ok)
           N == Files(game', S, idx', seg') \cup CompFile(comp', game')
<1>1. opened' = held \cup N BY DEF StartAll, Open
<1>2. /\ S \in SUBSET Source /\ game' \in Nat
      /\ \A s \in S : idx'[s] = indexFor'[s] /\ idx'[s] # 0 /\ seg'[s] = segCount'[s]
  <2>1. armed \subseteq Source /\ game' \in Nat
    BY DEF StepTold, NumberInv, SessionInv, TypeOK, EntriesOK, FlagsOK
  <2>2. \A s \in armed : idx'[s] = indexFor'[s] /\ idx'[s] # 0 /\ seg'[s] = segCount'[s]
    BY DEF StepTold, NumberInv, NumberingAgrees
  <2>3. QED BY <2>1, <2>2 DEF Started
<1> HIDE DEF S
<1>3. \A f \in N : f.game = game' /\ FileOfNow(f)' BY <1>2, OpenedNow DEF StepTold
<1> HIDE DEF N
<1>4. \A f \in held : f.game # game'
  <2>1. \A f \in held : f.game \in Nat BY DEF StepTold, FreshInv, Filenames
  <2>2. QED BY <1>2, <2>1
<1>5. QED BY <1>1, <1>3, <1>4, OpenedAreTold DEF StepTold

LEMMA NothingOpened ==
    ASSUME StepTold, opened' = opened, active' => \A f \in opened : f.game = game' => HasNumber(f)'
    PROVE  ToldInv'
<1> DEFINE none == {}
<1>1. opened \in SUBSET opened /\ opened' = opened \cup none /\ (none # {} => active')
      /\ \A f \in none : f.game = game' /\ FileOfNow(f)'
  OBVIOUS
<1> HIDE DEF none
<1>2. QED BY <1>1, OpenedAreTold DEF StepTold

LEMMA ArmIsTold ==
    ASSUME StepTold, NEW s \in Source, NEW ok, Arm(s, ok) PROVE ToldInv'
<1>0. NumberingOK BY DEF StepTold, NumberInv, SessionInv, TypeOK
<1>1. game' = game /\ active' = active BY DEF Arm, flags
<1>2. CASE ~active
  <2>1. opened' = opened BY <1>2 DEF Arm, history
  <2>2. QED BY <1>1, <1>2, <2>1, NothingOpened
<1>3. CASE active
  <2> DEFINE S == Started({s}, ok)
             N == Files(game, S, idx', seg')
  <2>1. opened' = opened \cup N BY <1>3 DEF Arm, Open
  <2>2. S \in SUBSET Source BY DEF Started
  <2>3. s \in armed' BY DEF Arm
  <2>4. idx'[s] = indexFor'[s] /\ idx'[s] # 0 /\ seg'[s] = segCount'[s]
    BY <2>3 DEF StepTold, NumberInv, NumberingAgrees
  <2>5. \A t \in S : idx'[t] = indexFor'[t] /\ idx'[t] # 0 /\ seg'[t] = segCount'[t]
    BY <2>4 DEF Started
  <2> HIDE DEF S
  <2>6. \A f \in N : f.game = game' /\ FileOfNow(f)' BY <1>1, <2>2, <2>5, OpenedNow DEF StepTold
  <2> HIDE DEF N
  <2>7. ASSUME NEW f \in opened, f.game = game', f.src # Scene PROVE f.index = indexFor'[f.src]
    <3>1. f.src \in Source /\ f.index \in 1..Cardinality(Source) BY <2>7 DEF StepTold, ToldInv, InRange
    <3>2. f.index = indexFor[f.src] BY <1>1, <1>3, <2>7 DEF StepTold, ToldInv, HasNumber
    <3>3. indexFor[f.src] # 0 BY <3>1, <3>2
    <3>4. indexFor'[f.src] = indexFor[f.src] BY <1>0, <3>1, <3>3 DEF Arm, NumberingOK
    <3>5. QED BY <3>2, <3>4
  <2>8. \A f \in opened : f.game = game' => HasNumber(f)' BY <2>7 DEF HasNumber
  <2>9. QED BY <1>1, <1>3, <2>1, <2>6, <2>8, OpenedAreTold DEF StepTold
<1>4. QED BY <1>2, <1>3

LEMMA RefreshIsTold ==
    ASSUME StepTold, NEW ok, RefreshActive(ok) PROVE ToldInv'
<1> DEFINE S == Started(Appeared \cup Resized, ok)
           N == Files(game, S, idx', seg')
<1>1. /\ opened' = opened \cup N /\ active /\ active' = active /\ game' = game
      /\ indexFor' = indexFor /\ armed' = armed \ Deleted
  BY DEF RefreshActive, Open
<1>2. EntriesOK BY DEF StepTold, NumberInv, SessionInv, TypeOK
<1>3. S \subseteq armed' /\ S \in SUBSET Source
  <2>1. Appeared \cup Resized \subseteq armed \ Deleted BY <1>2, PendingSources
  <2>2. QED BY <1>1, <1>2, <2>1 DEF Started, EntriesOK
<1>4. \A t \in S : idx'[t] = indexFor'[t] /\ idx'[t] # 0 /\ seg'[t] = segCount'[t]
  BY <1>3 DEF StepTold, NumberInv, NumberingAgrees
<1> HIDE DEF S
<1>5. \A f \in N : f.game = game' /\ FileOfNow(f)' BY <1>1, <1>3, <1>4, OpenedNow DEF StepTold
<1> HIDE DEF N
<1>6. \A f \in opened : f.game = game' => HasNumber(f)' BY <1>1 DEF StepTold, ToldInv, HasNumber
<1>7. QED BY <1>1, <1>5, <1>6, OpenedAreTold DEF StepTold

LEMMA StepIsTold == ASSUME StepTold, [Next]_vars PROVE ToldInv'
<1>1. CASE \E s \in Source, ok \in Outcomes : Arm(s, ok) BY <1>1, ArmIsTold
<1>2. CASE \E ok \in SUBSET Source : RefreshActive(ok) BY <1>2, RefreshIsTold
<1>3. game \in Nat /\ game' \in Nat
  BY DEF StepTold, NumberInv, SessionInv, TypeOK, FlagsOK
<1>4. ASSUME NEW ok \in Outcomes, StartFresh(ok) PROVE ToldInv'
  <2>1. {} \in SUBSET opened OBVIOUS
  <2>2. QED BY <1>4, <2>1, StartAllIsTold DEF StartFresh
<1>5. ASSUME NEW ok \in Outcomes, StartResumed(ok) \/ NewGame(ok) PROVE ToldInv'
  <2>1. game' = game + 1 /\ Going /\ armed' = armed /\ active'
    BY <1>5 DEF StartResumed, NewGame, Going, flags
  <2>2. \A f \in opened : f.game < game' BY <1>3, <2>1 DEF StepTold, FreshInv, Filenames
  <2>3. opened \in SUBSET opened OBVIOUS
  <2>4. QED BY <1>5, <2>1, <2>2, <2>3, StartAllIsTold DEF StartResumed, NewGame
<1>7. CASE NewGameRefused
  <2>1. game' = game + 1 /\ Going /\ opened' = opened BY <1>7 DEF NewGameRefused, Going, history
  <2>2. \A f \in opened : f.game # game' BY <1>3, <2>1 DEF StepTold, FreshInv, Filenames
  <2>3. QED BY NothingOpened, <2>1, <2>2
<1>8. CASE Crash \/ StartRefused \/ RefreshIdle \/ ReleaseSources \/ \E resumable \in BOOLEAN : Stop(resumable)
  <2>1. opened' = opened /\ ~active'
    BY <1>8 DEF Crash, StartRefused, RefreshIdle, ReleaseSources, Stop, Deactivate, flags, history
  <2>2. QED BY NothingOpened, <2>1
<1>9. CASE \/ SetPaused \/ CompositeDies \/ UNCHANGED vars
           \/ \E s \in Source : Disarm(s) \/ RecorderDies(s) \/ Resize(s) \/ PictureChanges(s) \/ Delete(s)
  <2>1. UNCHANGED <<opened, active, game, indexFor>>
    BY <1>9 DEF SetPaused, CompositeDies, Disarm, RecorderDies, Resize, PictureChanges, Delete, vars,
                numbering, flags, history
  <2>2. \A f \in opened : HasNumber(f)' = HasNumber(f) BY <2>1 DEF HasNumber
  <2>3. QED BY NothingOpened, <2>1, <2>2 DEF StepTold, ToldInv
<1>10. QED BY <1>1, <1>2, <1>4, <1>5, <1>7, <1>8, <1>9 DEF Next, Refresh

NamedInv == NumbersDense /\ SegmentsBounded /\ ToldInv

LEMMA NamedInvariant == Spec => [](NumberInv /\ FreshInv /\ NamedInv)
<1>1. Init => NamedInv
  <2>1. SUFFICES ASSUME Init PROVE NamedInv OBVIOUS
  <2>2. indexFor = Zero /\ nextIndex = FirstIndex /\ segCount = Zero /\ rec = NoRec /\ opened = {}
    BY <2>1 DEF Init
  <2>3. \A k \in Kinds : {s \in OfKind(k) : indexFor[s] # 0} = {}
    BY <2>2, SourceAssumption DEF Zero, OfKind, Audio
  <2>4. NumbersDense BY <2>2, <2>3, FS_EmptySet DEF NumbersDense, FirstIndex
  <2>5. SegmentsBounded BY <2>2, BoundAssumption DEF SegmentsBounded, Zero, NoRec
  <2>6. QED BY <2>2, <2>4, <2>5 DEF NamedInv, ToldInv
<1>2. ASSUME NumberInv, NumberInv', FreshInv, FreshInv', NamedInv, [Next]_vars PROVE NamedInv'
  <2>1. NumbersDense' /\ SegmentsBounded' BY <1>2, StepIsDense, StepIsBounded DEF NamedInv
  <2>2. ToldInv' BY <1>2, <2>1, StepIsTold DEF StepTold, NamedInv
  <2>3. QED BY <2>1, <2>2 DEF NamedInv
<1>3. QED BY FreshInvariant, <1>1, <1>2, PTL DEF Spec

-----------------------------------------------------------------------------
(* The characters of a name: sanitizeName's text after each of them.          *)

LEMMA SmallestNumber ==
    ASSUME NEW T \in SUBSET Nat, T # {} PROVE \E m \in T : \A n \in T : m <= n
<1> DEFINE R == {p \in Nat \X Nat : p[1] < p[2]}
<1>1. IsWellFoundedOn(R, Nat) BY NatLessThanWellFounded DEF OpToRel
<1> HIDE DEF R
<1>2. PICK m \in T : \A n \in T : ~ (<<n, m>> \in R) BY <1>1, WFMin
<1>3. \A n \in T : ~(n < m) BY <1>2 DEF R
<1>4. QED BY <1>3

TextTo(g, name, k) ==
    g = [n \in 0..k |-> IF n = 0 THEN <<>> ELSE SanitizeNext(g[n - 1], name[n])]

LEMMA TextExists == ASSUME NEW name, NEW k \in Nat PROVE \E g : TextTo(g, name, k)
<1> DEFINE T == {n \in Nat : ~\E g : TextTo(g, name, n)}
<1>1. SUFFICES ASSUME T # {} PROVE FALSE OBVIOUS
<1>2. T \in SUBSET Nat OBVIOUS
<1>3. PICK m \in T : \A n \in T : m <= n
  <2> HIDE DEF T
  <2> QED BY <1>1, <1>2, SmallestNumber
<1>4. m \in Nat /\ ~\E g : TextTo(g, name, m) OBVIOUS
<1>5. CASE m = 0
  <2> DEFINE g == [n \in 0..m |-> <<>>]
  <2>1. TextTo(g, name, m) BY <1>5 DEF TextTo
  <2>2. QED BY <1>4, <2>1
<1>6. CASE m # 0
  <2>1. m - 1 \in Nat /\ m - 1 \notin T
    <3> HIDE DEF T
    <3> QED BY <1>3, <1>4, <1>6
  <2>2. PICK g : TextTo(g, name, m - 1) BY <2>1
  <2> HIDE DEF T
  <2> DEFINE h == [n \in 0..m |-> IF n = m THEN SanitizeNext(g[m - 1], name[m]) ELSE g[n]]
  <2>3. \A n \in 0..m - 1 : g[n] = IF n = 0 THEN <<>> ELSE SanitizeNext(g[n - 1], name[n])
    BY <2>2 DEF TextTo
  <2>4. \A n \in 0..m : n # m => n \in 0..m - 1 /\ (n # 0 => n - 1 \in 0..m - 1) BY <1>4
  <2>5. \A n \in 0..m : h[n] = IF n = 0 THEN <<>> ELSE SanitizeNext(h[n - 1], name[n])
    <3>1. h[m] = SanitizeNext(h[m - 1], name[m]) BY <1>4, <1>6
    <3>2. \A n \in 0..m : n # m => h[n] = IF n = 0 THEN <<>> ELSE SanitizeNext(h[n - 1], name[n])
      BY <1>4, <2>3, <2>4
    <3>3. QED BY <1>6, <3>1, <3>2
  <2>6. TextTo(h, name, m)
    <3>1. h = [n \in 0..m |-> h[n]] OBVIOUS
    <3> HIDE DEF h
    <3>2. QED BY <2>5, <3>1 DEF TextTo
  <2>7. QED BY <1>4, <2>6
<1>7. QED BY <1>5, <1>6

\* What is shown of a name before it ends: a gap is, before what follows it is seen.
Seen(name) == KeptAt(name) \cup GapsAt(name)
SeenTo(name, n) == {i \in Seen(name) : i <= n}
Rank(name, n) == Cardinality(SeenTo(name, n))
Char(name, i) == IF i \in KeptAt(name) THEN name[i] ELSE "_"

TextIs(out, name, n) ==
    /\ out \in Seq(Kept \cup {"_"}) /\ Len(out) = Rank(name, n)
    /\ \A i \in SeenTo(name, n) : out[Rank(name, i)] = Char(name, i)
    /\ (out # <<>> /\ out[Len(out)] # "_") <=> n \in KeptAt(name)
    /\ out # <<>> /\ out[Len(out)] = "_" =>
         \E i \in SeenTo(name, n) : /\ i \notin KeptAt(name) /\ Rank(name, i) = Len(out)
                                    /\ \A j \in KeptAt(name) : j <= n => j < i

LEMMA SeenIsFinite ==
    ASSUME NEW name \in Seq(Kept \cup Other), NEW n \in Int
    PROVE  /\ Seen(name) \subseteq 1..Len(name)
           /\ IsFiniteSet(SeenTo(name, n)) /\ Rank(name, n) \in Nat
<1>1. Seen(name) \subseteq 1..Len(name) BY DEF Seen, KeptAt, GapsAt
<1>2. IsFiniteSet(1..Len(name)) BY FS_Interval
<1>3. SeenTo(name, n) \subseteq 1..Len(name) BY <1>1 DEF SeenTo
<1>4. QED BY <1>1, <1>2, <1>3, FS_Subset, FS_CardinalityType DEF Rank

LEMMA RankNext ==
    ASSUME NEW name \in Seq(Kept \cup Other), NEW n \in 1..Len(name)
    PROVE  /\ n \in Seen(name) => /\ SeenTo(name, n) = SeenTo(name, n - 1) \cup {n}
                                  /\ Rank(name, n) = Rank(name, n - 1) + 1
           /\ n \notin Seen(name) => /\ SeenTo(name, n) = SeenTo(name, n - 1)
                                     /\ Rank(name, n) = Rank(name, n - 1)
<1>1. Seen(name) \subseteq 1..Len(name) /\ IsFiniteSet(SeenTo(name, n - 1)) BY SeenIsFinite
<1>2. n \notin SeenTo(name, n - 1) BY DEF SeenTo
<1>3. CASE n \in Seen(name)
  <2>1. SeenTo(name, n) = SeenTo(name, n - 1) \cup {n} BY <1>1, <1>3 DEF SeenTo
  <2>2. QED BY <1>1, <1>2, <1>3, <2>1, FS_AddElement DEF Rank
<1>4. CASE n \notin Seen(name)
  <2>1. SeenTo(name, n) = SeenTo(name, n - 1) BY <1>1, <1>4 DEF SeenTo
  <2>2. QED BY <1>4, <2>1 DEF Rank
<1>5. QED BY <1>3, <1>4

LEMMA RankInRange ==
    ASSUME NEW name \in Seq(Kept \cup Other), NEW n \in Int, NEW i \in SeenTo(name, n)
    PROVE  Rank(name, i) \in 1..Rank(name, n)
<1>0. Seen(name) \subseteq Int
  <2>1. Seen(name) \subseteq 1..Len(name) /\ 1..Len(name) \subseteq Int BY SeenIsFinite
  <2>2. QED BY <2>1
<1>1. i \in Int /\ i \in SeenTo(name, i) /\ SeenTo(name, i) \subseteq SeenTo(name, n)
  <2>1. i \in Seen(name) /\ i <= n /\ i \in Int BY <1>0 DEF SeenTo
  <2>2. \A j \in Seen(name) : j <= i => j <= n BY <1>0, <2>1
  <2>3. i <= i BY <2>1
  <2>4. i \in SeenTo(name, i) BY <2>1, <2>3 DEF SeenTo
  <2>5. SeenTo(name, i) \subseteq SeenTo(name, n) BY <2>2 DEF SeenTo
  <2>6. QED BY <2>1, <2>4, <2>5
<1>2. IsFiniteSet(SeenTo(name, n)) /\ IsFiniteSet(SeenTo(name, i)) /\ Rank(name, i) \in Nat
      /\ Rank(name, n) \in Nat
  BY <1>1, SeenIsFinite
<1>3. Rank(name, i) <= Rank(name, n) BY <1>1, <1>2, FS_Subset DEF Rank
<1>4. Rank(name, i) # 0 BY <1>1, <1>2, FS_EmptySet DEF Rank
<1>5. QED BY <1>2, <1>3, <1>4

LEMMA AppendIs ==
    ASSUME NEW T, NEW s \in Seq(T), NEW e \in T
    PROVE  /\ Append(s, e) \in Seq(T) /\ Len(Append(s, e)) = Len(s) + 1
           /\ \A k \in 1..Len(s) : Append(s, e)[k] = s[k]
           /\ Append(s, e)[Len(s) + 1] = e
           /\ Append(s, e) # <<>>
<1>1. Append(s, e) \in Seq(T) /\ Len(Append(s, e)) = Len(s) + 1 OBVIOUS
<1>2. \A k \in 1..Len(s) : Append(s, e)[k] = s[k] OBVIOUS
<1>3. Append(s, e)[Len(s) + 1] = e OBVIOUS
<1>4. Append(s, e) # <<>>
  <2>1. Len(s) \in Nat /\ Len(<<>>) = 0 OBVIOUS
  <2>2. Len(Append(s, e)) # Len(<<>>) BY <1>1, <2>1
  <2>3. QED BY <2>2
<1>5. QED BY <1>1, <1>2, <1>3, <1>4

LEMMA TextAppends ==
    ASSUME NEW name \in Seq(Kept \cup Other), NEW n \in 1..Len(name), NEW out,
           TextIs(out, name, n - 1), n \in Seen(name)
    PROVE  LET text == Append(out, Char(name, n))
           IN  /\ text \in Seq(Kept \cup {"_"}) /\ Len(text) = Rank(name, n)
               /\ \A i \in SeenTo(name, n) : text[Rank(name, i)] = Char(name, i)
               /\ text # <<>> /\ text[Len(text)] = Char(name, n)
<1> DEFINE c == Char(name, n)
<1>1. c \in Kept \cup {"_"} BY DEF Char, KeptAt
<1>2. /\ out \in Seq(Kept \cup {"_"}) /\ Len(out) = Rank(name, n - 1)
      /\ \A i \in SeenTo(name, n - 1) : out[Rank(name, i)] = Char(name, i)
  BY DEF TextIs
<1>3. SeenTo(name, n) = SeenTo(name, n - 1) \cup {n} /\ Rank(name, n) = Rank(name, n - 1) + 1
  BY RankNext
<1> HIDE DEF c
<1>4. /\ Append(out, c) \in Seq(Kept \cup {"_"}) /\ Len(Append(out, c)) = Len(out) + 1
      /\ \A k \in 1..Len(out) : Append(out, c)[k] = out[k]
      /\ Append(out, c)[Len(out) + 1] = c
      /\ Append(out, c) # <<>>
  BY <1>1, <1>2, AppendIs, ZenonT(60)
<1>5. \A i \in SeenTo(name, n - 1) : Rank(name, i) \in 1..Len(out)
  <2>1. n - 1 \in Int OBVIOUS
  <2>2. QED BY <1>2, <2>1, RankInRange
<1>6. \A i \in SeenTo(name, n - 1) : Append(out, c)[Rank(name, i)] = Char(name, i)
  BY <1>2, <1>4, <1>5
<1>7. Append(out, c)[Rank(name, n)] = Char(name, n) BY <1>2, <1>3, <1>4 DEF c
<1>8. QED BY <1>2, <1>3, <1>4, <1>6, <1>7 DEF c

LEMMA TextNext ==
    ASSUME NEW name \in Seq(Kept \cup Other), NEW n \in 1..Len(name), NEW out,
           TextIs(out, name, n - 1)
    PROVE  TextIs(SanitizeNext(out, name[n]), name, n)
<1>1. n \in DOMAIN name /\ n \in Int OBVIOUS
<1>2. (n \in KeptAt(name) <=> name[n] \in Kept)
      /\ (n \in GapsAt(name) <=> name[n] \notin Kept /\ n - 1 \in KeptAt(name))
  BY <1>1 DEF KeptAt, GapsAt
<1>3. (out # <<>> /\ out[Len(out)] # "_") <=> n - 1 \in KeptAt(name) BY DEF TextIs
<1>4. KeptAt(name) \subseteq Int BY DEF KeptAt
<1>5. CASE name[n] \in Kept
  <2>1. n \in Seen(name) /\ n \in KeptAt(name) BY <1>2, <1>5 DEF Seen
  <2>2. SanitizeNext(out, name[n]) = Append(out, Char(name, n))
    BY <1>5, <2>1 DEF SanitizeNext, Char
  <2>3. Char(name, n) # "_" BY <1>5, <2>1, CharacterAssumption DEF Char
  <2> DEFINE text == Append(out, Char(name, n))
  <2>4. /\ text \in Seq(Kept \cup {"_"}) /\ Len(text) = Rank(name, n)
        /\ \A i \in SeenTo(name, n) : text[Rank(name, i)] = Char(name, i)
        /\ text # <<>> /\ text[Len(text)] # "_"
    BY <2>1, <2>3, TextAppends
  <2> HIDE DEF text
  <2>5. TextIs(text, name, n) BY <2>1, <2>4 DEF TextIs
  <2>6. QED BY <2>2, <2>5 DEF text
<1>6. CASE name[n] \notin Kept /\ n - 1 \in KeptAt(name)
  <2>1. n \in Seen(name) /\ n \notin KeptAt(name) BY <1>2, <1>6 DEF Seen
  <2>2. Char(name, n) = "_" BY <2>1 DEF Char
  <2>3. SanitizeNext(out, name[n]) = Append(out, Char(name, n))
    BY <1>3, <1>6, <2>2 DEF SanitizeNext
  <2>4. \A j \in KeptAt(name) : j <= n => j < n BY <1>1, <1>4, <2>1
  <2>5. n \in SeenTo(name, n) BY <1>1, <2>1 DEF SeenTo
  <2> DEFINE text == Append(out, Char(name, n))
  <2>6. /\ text \in Seq(Kept \cup {"_"}) /\ Len(text) = Rank(name, n)
        /\ \A i \in SeenTo(name, n) : text[Rank(name, i)] = Char(name, i)
        /\ text # <<>> /\ text[Len(text)] = "_"
    BY <2>1, <2>2, TextAppends
  <2> HIDE DEF text
  <2>7. TextIs(text, name, n) BY <2>1, <2>4, <2>5, <2>6 DEF TextIs
  <2>8. QED BY <2>3, <2>7 DEF text
<1>7. CASE name[n] \notin Kept /\ n - 1 \notin KeptAt(name)
  <2>1. n \notin Seen(name) /\ n \notin KeptAt(name) BY <1>2, <1>7 DEF Seen
  <2>2. SanitizeNext(out, name[n]) = out BY <1>3, <1>7 DEF SanitizeNext
  <2>3. SeenTo(name, n) = SeenTo(name, n - 1) /\ Rank(name, n) = Rank(name, n - 1)
    BY <2>1, RankNext
  <2>4. \A j \in KeptAt(name) : j <= n => j <= n - 1 BY <1>1, <1>4, <2>1
  <2>5. TextIs(out, name, n) BY <1>3, <1>7, <2>1, <2>3, <2>4 DEF TextIs
  <2>6. QED BY <2>2, <2>5
<1>8. QED BY <1>5, <1>6, <1>7

LEMMA TextIsRight ==
    ASSUME NEW name \in Seq(Kept \cup Other), NEW g, TextTo(g, name, Len(name))
    PROVE  TextIs(g[Len(name)], name, Len(name))
<1> DEFINE T == {n \in 0..Len(name) : ~TextIs(g[n], name, n)}
<1>0. Len(name) \in Nat OBVIOUS
<1>1. \A n \in 0..Len(name) : g[n] = IF n = 0 THEN <<>> ELSE SanitizeNext(g[n - 1], name[n])
  BY DEF TextTo
<1>2. SUFFICES ASSUME T # {} PROVE FALSE BY <1>0
<1>3. T \in SUBSET Nat BY <1>0
<1>4. PICK m \in T : \A n \in T : m <= n
  <2> HIDE DEF T
  <2> QED BY <1>2, <1>3, SmallestNumber
<1>5. m \in 0..Len(name) /\ ~TextIs(g[m], name, m) OBVIOUS
<1>6. CASE m = 0
  <2>1. g[0] = <<>> BY <1>0, <1>1
  <2>2. SeenTo(name, 0) = {} /\ 0 \notin KeptAt(name)
    <3>1. Seen(name) \subseteq 1..Len(name) BY SeenIsFinite
    <3>2. QED BY <1>0, <3>1 DEF SeenTo, KeptAt
  <2>3. Rank(name, 0) = 0 BY <2>2, FS_EmptySet DEF Rank
  <2>4. TextIs(<<>>, name, 0)
    <3> DEFINE none == <<>>
    <3>1. none \in Seq(Kept \cup {"_"}) /\ Len(none) = 0 OBVIOUS
    <3>2. none = <<>> OBVIOUS
    <3> HIDE DEF none
    <3>3. TextIs(none, name, 0) BY <2>2, <2>3, <3>1, <3>2 DEF TextIs
    <3>4. QED BY <3>2, <3>3
  <2>5. QED BY <1>5, <1>6, <2>1, <2>4
<1>7. CASE m # 0
  <2>1. m \in 1..Len(name) /\ m - 1 \in 0..Len(name) BY <1>0, <1>5, <1>7
  <2>2. m - 1 \notin T
    <3> HIDE DEF T
    <3> QED BY <1>3, <1>4, <2>1
  <2>3. TextIs(g[m - 1], name, m - 1) BY <2>1, <2>2
  <2>4. g[m] = SanitizeNext(g[m - 1], name[m]) BY <1>1, <2>1
  <2>5. QED BY <1>5, <2>1, <2>3, <2>4, TextNext
<1>8. QED BY <1>6, <1>7

NeverEmpty(out) == IF out = <<>> THEN <<"source">> ELSE out

LEMMA SanitizedIs ==
    ASSUME NEW name \in Seq(Kept \cup Other)
    PROVE  \E out : TextIs(out, name, Len(name)) /\ Sanitized(name) = NeverEmpty(Stripped(out))
<1> DEFINE text == CHOOSE g : TextTo(g, name, Len(name))
<1>1. \E g : TextTo(g, name, Len(name))
  <2>1. Len(name) \in Nat OBVIOUS
  <2>2. QED BY <2>1, TextExists
<1>2. TextTo(text, name, Len(name)) BY <1>1
<1>3. Sanitized(name) = NeverEmpty(Stripped(text[Len(name)])) BY DEF Sanitized, TextTo, NeverEmpty
<1> HIDE DEF text
<1>4. TextIs(text[Len(name)], name, Len(name)) BY <1>2, TextIsRight
<1>5. QED BY <1>3, <1>4

LEMMA ShownIs ==
    ASSUME NEW name \in Seq(Kept \cup Other)
    PROVE  /\ Seen(name) \subseteq 1..Len(name) /\ SeenTo(name, Len(name)) = Seen(name)
           /\ Shown(name) \subseteq Seen(name) /\ KeptAt(name) \subseteq Shown(name)
           /\ Len(name) \in KeptAt(name) => Shown(name) = Seen(name)
<1>1. Seen(name) \subseteq 1..Len(name) BY SeenIsFinite
<1>2. \A i \in Seen(name) : i \in Int /\ i <= Len(name) BY <1>1
<1>3. SeenTo(name, Len(name)) = Seen(name) BY <1>2 DEF SeenTo
<1>4. Shown(name) \subseteq Seen(name) /\ KeptAt(name) \subseteq Shown(name) BY DEF Shown, Seen
<1>5. ASSUME Len(name) \in KeptAt(name), NEW i \in GapsAt(name) PROVE i \in Shown(name)
  <2>1. i \notin KeptAt(name) /\ i \in Seen(name) BY DEF GapsAt, Seen
  <2>2. i < Len(name) BY <1>2, <1>5, <2>1
  <2>3. QED BY <1>5, <2>2 DEF Shown
<1>6. QED BY <1>1, <1>3, <1>4, <1>5 DEF Seen, Shown

LEMMA LastGap ==
    ASSUME NEW name \in Seq(Kept \cup Other), NEW m \in Seen(name), m \notin KeptAt(name),
           \A j \in KeptAt(name) : j < m
    PROVE  /\ Shown(name) = Seen(name) \ {m} /\ m - 1 \in Shown(name)
           /\ \A i \in Shown(name) : i \in Int /\ i < m
<1>0. Seen(name) \subseteq 1..Len(name) /\ KeptAt(name) \subseteq Int /\ m \in Int
  <2>1. Seen(name) \subseteq 1..Len(name) BY SeenIsFinite
  <2>2. QED BY <2>1 DEF KeptAt
<1>1. m - 1 \in KeptAt(name) BY DEF Seen, GapsAt
<1>2. m \notin Shown(name)
  <2>1. \A j \in KeptAt(name) : ~(m < j) BY <1>0
  <2>2. QED BY <2>1 DEF Shown
<1>3. ASSUME NEW i \in GapsAt(name), i # m PROVE i < m /\ i \in Shown(name)
  <2>1. i \in Int /\ i - 1 \in KeptAt(name) /\ i \notin KeptAt(name)
    BY <1>0 DEF Seen, GapsAt
  <2>2. i - 1 < m BY <2>1
  <2>3. i < m BY <1>0, <1>3, <2>1, <2>2
  <2>4. i # m - 1 BY <1>1, <2>1
  <2>5. i < m - 1 BY <1>0, <2>1, <2>3, <2>4
  <2>6. QED BY <1>1, <2>3, <2>5 DEF Shown
<1>4. \A i \in Seen(name) : i = m \/ (i < m /\ i \in Shown(name)) BY <1>3 DEF Seen, Shown
<1>5. QED BY <1>0, <1>1, <1>2, <1>4, ShownIs

LEMMA FrontIs ==
    ASSUME NEW T, NEW s \in Seq(T), s # <<>>
    PROVE  LET front == SubSeq(s, 1, Len(s) - 1)
           IN  /\ front \in Seq(T) /\ Len(front) = Len(s) - 1
               /\ \A k \in 1..Len(s) - 1 : front[k] = s[k]
<1> DEFINE n == Len(s) - 1
<1>1. n \in Nat BY EmptySeq
<1>2. \A k \in 1..n : s[k] \in T OBVIOUS
<1> HIDE DEF n
<1>3. /\ SubSeq(s, 1, n) \in Seq(T) /\ Len(SubSeq(s, 1, n)) = IF 1 <= n THEN n - 1 + 1 ELSE 0
      /\ \A k \in 1..n - 1 + 1 : SubSeq(s, 1, n)[k] = s[1 + k - 1]
  BY <1>1, <1>2, SubSeqProperties
<1>4. Len(SubSeq(s, 1, n)) = n BY <1>1, <1>3
<1>5. n - 1 + 1 = n /\ \A k \in 1..n : 1 + k - 1 = k BY <1>1
<1>6. \A k \in 1..n : SubSeq(s, 1, n)[k] = s[k] BY <1>3, <1>5
<1>7. QED BY <1>3, <1>4, <1>6 DEF n

LEMMA StrippedIsClean ==
    ASSUME NEW name \in Seq(Kept \cup Other), NEW out, TextIs(out, name, Len(name))
    PROVE  /\ Stripped(out) \in Seq(Kept \cup {"_"})
           /\ Clean(NeverEmpty(Stripped(out)), name)
<1>1. /\ out \in Seq(Kept \cup {"_"}) /\ Len(out) = Cardinality(Seen(name))
      /\ \A i \in Seen(name) : out[Rank(name, i)] = Char(name, i)
  BY ShownIs DEF TextIs, Rank
<1>2. Shown(name) \subseteq Seen(name) /\ IsFiniteSet(Seen(name)) /\ IsFiniteSet(Shown(name))
  <2>1. IsFiniteSet(1..Len(name)) BY FS_Interval
  <2>2. QED BY <2>1, ShownIs, FS_Subset
<1>3. CASE out = <<>>
  <2>1. Cardinality(Seen(name)) = 0 BY <1>1, <1>3
  <2>2. Shown(name) = {} BY <1>2, <2>1, FS_EmptySet
  <2>3. QED BY <1>1, <1>3, <2>2 DEF Stripped, NeverEmpty, Clean
<1>4. CASE out # <<>> /\ out[Len(out)] # "_"
  <2>1. Len(name) \in KeptAt(name) BY <1>4 DEF TextIs
  <2>2. Shown(name) = Seen(name) /\ Shown(name) # {} BY <2>1, ShownIs
  <2>3. NeverEmpty(Stripped(out)) = out /\ Stripped(out) = out BY <1>4 DEF NeverEmpty, Stripped
  <2>4. \A i \in Shown(name) :
          out[Cardinality({j \in Shown(name) : j <= i})] = IF i \in KeptAt(name) THEN name[i] ELSE "_"
    BY <1>1, <2>2 DEF Rank, SeenTo, Char
  <2>5. Clean(out, name) BY <1>1, <2>2, <2>4 DEF Clean
  <2>6. QED BY <1>1, <2>3, <2>5
<1>5. CASE out # <<>> /\ out[Len(out)] = "_"
  <2> DEFINE s == SubSeq(out, 1, Len(out) - 1)
  <2>1. PICK m \in Seen(name) : m \notin KeptAt(name) /\ Rank(name, m) = Len(out)
                                /\ \A j \in KeptAt(name) : j < m
    <3>1. PICK m \in SeenTo(name, Len(name)) :
              m \notin KeptAt(name) /\ Rank(name, m) = Len(out)
              /\ \A j \in KeptAt(name) : j <= Len(name) => j < m
      BY <1>5 DEF TextIs
    <3>2. \A j \in KeptAt(name) : j <= Len(name) BY DEF KeptAt
    <3>3. QED BY <3>1, <3>2, ShownIs
  <2>2. /\ Shown(name) = Seen(name) \ {m} /\ m - 1 \in Shown(name)
        /\ \A i \in Shown(name) : i \in Int /\ i < m
    BY <2>1, LastGap
  <2>3. Cardinality(Seen(name)) \in Nat /\ Cardinality(Shown(name)) \in Nat
        /\ Cardinality(Shown(name)) = Cardinality(Seen(name)) - 1
    BY <1>2, <2>1, <2>2, FS_RemoveElement, FS_CardinalityType
  <2>4. Cardinality(Shown(name)) # 0 BY <1>2, <2>2, FS_EmptySet
  <2>5. /\ s \in Seq(Kept \cup {"_"}) /\ Len(s) = Cardinality(Shown(name))
        /\ \A k \in 1..Cardinality(Shown(name)) : s[k] = out[k]
    <3>1. /\ s \in Seq(Kept \cup {"_"}) /\ Len(s) = Len(out) - 1
          /\ \A k \in 1..Len(out) - 1 : s[k] = out[k]
      BY <1>1, <1>5, FrontIs
    <3> HIDE DEF s
    <3>2. Len(out) - 1 = Cardinality(Shown(name)) BY <1>1, <2>3
    <3>3. QED BY <3>1, <3>2
  <2>6. s # <<>> /\ Stripped(out) = s BY <1>5, <2>3, <2>4, <2>5 DEF Stripped
  <2> HIDE DEF s
  <2>7. ASSUME NEW i \in Shown(name)
        PROVE  s[Cardinality({j \in Shown(name) : j <= i})] = Char(name, i)
    <3> DEFINE R == {j \in Shown(name) : j <= i}
    <3>1. i \in Int /\ i < m /\ i \in Seen(name) BY <2>2
    <3>2. m \in Int
      <4>1. Seen(name) \subseteq 1..Len(name) BY ShownIs
      <4>2. QED BY <2>1, <4>1
    <3>3. ~(m <= i) BY <3>1, <3>2
    <3>4. R = SeenTo(name, i) BY <2>2, <3>3 DEF SeenTo
    <3>5. R \subseteq Shown(name) /\ i \in R BY <3>1
    <3> HIDE DEF R
    <3>6. Cardinality(R) \in Nat /\ Cardinality(R) <= Cardinality(Shown(name)) /\ Cardinality(R) # 0
      <4>1. IsFiniteSet(R) BY <1>2, <3>5, FS_Subset
      <4>2. QED BY <1>2, <3>5, <4>1, FS_Subset, FS_CardinalityType, FS_EmptySet
    <3>7. Cardinality(R) \in 1..Cardinality(Shown(name)) BY <2>3, <3>6
    <3>8. Cardinality(R) = Rank(name, i) BY <3>4 DEF Rank
    <3>9. s[Cardinality(R)] = Char(name, i) BY <1>1, <2>5, <3>1, <3>7, <3>8
    <3>10. QED BY <3>9 DEF R
  <2>8. Clean(s, name) BY <2>2, <2>5, <2>7 DEF Clean, Char
  <2>9. QED BY <2>5, <2>6, <2>8 DEF NeverEmpty
<1>6. QED BY <1>3, <1>4, <1>5

\* sanitizeName keeps what can be kept of a name, in order, with one "_" for what
\* it drops between, and makes "source" of a name with nothing to keep: for every
\* name, of any length and characters.
THEOREM NamesAreClean ==
    ASSUME NEW name \in Seq(Kept \cup Other)
    PROVE  Sanitized(name) \in Seq(Kept \cup {"_", "source"}) /\ Clean(Sanitized(name), name)
<1>1. PICK out : TextIs(out, name, Len(name)) /\ Sanitized(name) = NeverEmpty(Stripped(out))
  BY SanitizedIs
<1>2. Stripped(out) \in Seq(Kept \cup {"_"}) /\ Clean(NeverEmpty(Stripped(out)), name)
  BY <1>1, StrippedIsClean
<1>3. NeverEmpty(Stripped(out)) \in Seq(Kept \cup {"_", "source"})
  <2>1. Stripped(out) \in Seq(Kept \cup {"_", "source"})
    <3>1. Kept \cup {"_"} \subseteq Kept \cup {"_", "source"} OBVIOUS
    <3>2. QED BY <1>2, <3>1, SeqMonotonic
  <2>2. <<"source">> \in Seq(Kept \cup {"_", "source"}) OBVIOUS
  <2>3. QED BY <2>1, <2>2 DEF NeverEmpty
<1>4. QED BY <1>1, <1>2, <1>3

\* makeFilename: the number is first and the extension last, and a segment after
\* the first makes the name longer and stands at its end.
LEMMA FilenameIs ==
    ASSUME NEW kind, NEW index \in Numbers, NEW name \in Seq(Kept \cup Other),
           NEW segment \in Numbers, NEW codec
    PROVE  LET file == MakeFilename(kind, index, name, segment, codec)
               n == Len(Sanitized(name))
           IN  /\ n \in Nat /\ Len(file) = n + (IF segment > 1 THEN 6 ELSE 4)
               /\ file[1] = Numeral(index)
               /\ file[Len(file)] = Extension(kind, codec)
               /\ segment > 1 => file[n + 4] = Numeral(segment)
<1> DEFINE word == Sanitized(name)
           ext == Extension(kind, codec)
           T == Kept \cup {"_", "source", ".", Numeral(index), Numeral(segment), ext}
           number == <<Numeral(index), "_">>
           part == IF segment > 1 THEN <<"_", Numeral(segment)>> ELSE <<>>
           tail == <<".", ext>>
<1>1. word \in Seq(T)
  <2>1. word \in Seq(Kept \cup {"_", "source"}) BY NamesAreClean
  <2>2. Kept \cup {"_", "source"} \subseteq T OBVIOUS
  <2> HIDE DEF word, T
  <2>3. QED BY <2>1, <2>2, SeqMonotonic
<1>2. /\ number \in Seq(T) /\ Len(number) = 2 /\ number[1] = Numeral(index)
      /\ tail \in Seq(T) /\ Len(tail) = 2 /\ tail[2] = ext
  OBVIOUS
<1>3. /\ part \in Seq(T) /\ Len(part) = IF segment > 1 THEN 2 ELSE 0
      /\ segment > 1 => part[2] = Numeral(segment)
  <2>1. CASE segment > 1 BY <2>1
  <2>2. CASE ~(segment > 1) BY <2>2
  <2>3. QED BY <2>1, <2>2
<1>4. MakeFilename(kind, index, name, segment, codec) = ((number \o word) \o part) \o tail
  BY DEF MakeFilename
<1> HIDE DEF word, ext, number, part, tail, T
<1> DEFINE a == number \o word
<1>5. /\ Len(word) \in Nat /\ a \in Seq(T) /\ Len(a) = 2 + Len(word)
      /\ \A i \in 1..2 + Len(word) : a[i] = IF i <= 2 THEN number[i] ELSE word[i - 2]
  <2>1. Len(word) \in Nat BY <1>1
  <2>2. /\ a \in Seq(T) /\ Len(a) = Len(number) + Len(word)
        /\ \A i \in 1..Len(number) + Len(word) :
             a[i] = IF i <= Len(number) THEN number[i] ELSE word[i - Len(number)]
    BY <1>1, <1>2, ConcatProperties, Zenon
  <2> HIDE DEF a
  <2>3. QED BY <1>2, <2>1, <2>2
<1> HIDE DEF a
<1> DEFINE b == a \o part
<1>6. /\ b \in Seq(T) /\ Len(b) = Len(a) + Len(part)
      /\ \A i \in 1..Len(a) + Len(part) : b[i] = IF i <= Len(a) THEN a[i] ELSE part[i - Len(a)]
  BY <1>3, <1>5, ConcatProperties
<1> HIDE DEF b
<1> DEFINE file == b \o tail
<1>7. /\ Len(file) = Len(b) + 2
      /\ \A i \in 1..Len(b) + 2 : file[i] = IF i <= Len(b) THEN b[i] ELSE tail[i - Len(b)]
  <2>1. /\ file \in Seq(T) /\ Len(file) = Len(b) + Len(tail)
        /\ \A i \in 1..Len(b) + Len(tail) : file[i] = IF i <= Len(b) THEN b[i] ELSE tail[i - Len(b)]
    <3>1. b \in Seq(T) /\ tail \in Seq(T) BY <1>2, <1>6
    <3>2. QED BY <3>1, ConcatProperties, Zenon
  <2> HIDE DEF file
  <2>2. QED BY <1>2, <2>1
<1> HIDE DEF file
<1>8. Len(b) = Len(word) + (IF segment > 1 THEN 4 ELSE 2) BY <1>3, <1>5, <1>6
<1>9. file[1] = Numeral(index)
  <2>1. 1 \in 1..Len(b) + 2 /\ 1 <= Len(b) BY <1>5, <1>8
  <2>2. 1 \in 1..Len(a) + Len(part) /\ 1 <= Len(a) /\ 1 \in 1..2 + Len(word) BY <1>3, <1>5
  <2>3. file[1] = b[1] /\ b[1] = a[1] /\ a[1] = number[1] BY <1>5, <1>6, <1>7, <2>1, <2>2
  <2>4. QED BY <1>2, <2>3
<1>10. file[Len(file)] = ext
  <2>1. Len(b) \in Nat BY <1>5, <1>8
  <2>2. Len(file) \in 1..Len(b) + 2 /\ ~(Len(file) <= Len(b)) /\ Len(file) - Len(b) = 2
    BY <1>7, <2>1
  <2>3. QED BY <1>2, <1>7, <2>2
<1>11. segment > 1 => file[Len(word) + 4] = Numeral(segment)
  <2>1. SUFFICES ASSUME segment > 1 PROVE file[Len(word) + 4] = Numeral(segment) OBVIOUS
  <2>2. Len(b) = Len(word) + 4 /\ Len(a) = Len(word) + 2 /\ Len(part) = 2 BY <1>3, <1>5, <1>8, <2>1
  <2>3. /\ Len(word) + 4 \in 1..Len(b) + 2 /\ Len(word) + 4 <= Len(b)
        /\ Len(word) + 4 \in 1..Len(a) + Len(part) /\ ~(Len(word) + 4 <= Len(a))
        /\ Len(word) + 4 - Len(a) = 2
    BY <1>5, <2>2
  <2>4. file[Len(word) + 4] = b[Len(word) + 4] BY <1>7, <2>3
  <2>5. b[Len(word) + 4] = part[2] BY <1>6, <2>3
  <2>6. QED BY <1>3, <2>1, <2>4, <2>5
<1>12. Len(file) = Len(word) + (IF segment > 1 THEN 6 ELSE 4) BY <1>5, <1>7, <1>8
<1>13. QED BY <1>4, <1>5, <1>9, <1>10, <1>11, <1>12 DEF file, b, a, word, ext

\* formatClock rounds every start to tenths and carries into minutes and hours.
THEOREM ClockIsRight == ASSUME NEW hundredths \in Nat PROVE RightClock(hundredths)
<1> DEFINE a == hundredths % 100
           q == hundredths \div 100
           t == (a + 5) \div 10
           total == q + (IF t = 10 THEN 1 ELSE 0)
           tenths == IF t = 10 THEN 0 ELSE t
<1>1. hundredths = 100 * q + a /\ a \in 0..99 /\ q \in Nat OBVIOUS
<1>2. FormatClock(hundredths) =
        [h |-> total \div 3600, m |-> (total % 3600) \div 60, s |-> total % 60, tenths |-> tenths]
  BY DEF FormatClock
<1> HIDE DEF a, q
<1>3. t \in 0..10 /\ 10 * t <= a + 5 /\ a + 5 < 10 * t + 10 BY <1>1
<1> HIDE DEF t
<1>4. total \in Nat /\ tenths \in 0..9 /\ total * 10 + tenths = 10 * q + t BY <1>1, <1>3
<1>5. (hundredths + 5) \div 10 = 10 * q + t BY <1>1, <1>3
<1> HIDE DEF total, tenths
<1>6. /\ total % 60 \in 0..59 /\ (total % 3600) \div 60 \in 0..59
      /\ ((total \div 3600) * 60 + (total % 3600) \div 60) * 60 + (total % 60) = total
  <2>1. total = 3600 * (total \div 3600) + (total % 3600) /\ total % 3600 \in 0..3599 BY <1>4
  <2> DEFINE r == total % 3600
             h == total \div 3600
  <2>2. h \in Nat BY <1>4
  <2> HIDE DEF r, h
  <2>3. total % 60 = r % 60 /\ total = 3600 * h + r /\ r \in 0..3599
    <3>1. total = 3600 * h + r /\ r \in 0..3599 BY <2>1 DEF r, h
    <3>2. (3600 * h + r) % 60 = r % 60 BY <2>2, <3>1
    <3>3. QED BY <3>1, <3>2
  <2>4. r % 60 \in 0..59 /\ r \div 60 \in 0..59 /\ r = 60 * (r \div 60) + (r % 60) BY <2>3
  <2>5. (h * 60 + r \div 60) * 60 + (r % 60) = total BY <2>2, <2>3, <2>4
  <2>6. QED BY <2>3, <2>4, <2>5 DEF r, h
<1>7. QED BY <1>2, <1>4, <1>5, <1>6 DEF RightClock

LEMMA FileNumbers ==
    ASSUME NEW f, InRange(f)
    PROVE  /\ FileKind(f.src) \in Kinds /\ f.index \in 0..Cardinality(Source)
           /\ f.segment \in 1..MaxSegments /\ f.index \in Numbers /\ f.segment \in Numbers
<1>1. Cardinality(Source) \in Nat /\ MaxSegments \in Nat \ {0}
  BY SourceAssumption, BoundAssumption, FS_CardinalityType
<1>2. FileKind(f.src) \in Kinds BY DEF FileKind, KindOf, Kinds
<1>3. f.index \in 0..Cardinality(Source) /\ f.segment \in 1..MaxSegments BY <1>1 DEF InRange
<1>4. QED BY <1>1, <1>2, <1>3 DEF Numbers

LEMMA NamesOfFileAre ==
    ASSUME NEW f, InRange(f), NEW name \in Names, NEW m \in NamesOfFile(f, name)
    PROVE  \E codec : m = MakeFilename(FileKind(f.src), f.index, name, f.segment, codec)
<1>1. /\ FileKind(f.src) \in Kinds /\ f.index \in 0..Cardinality(Source)
      /\ f.segment \in 1..MaxSegments
  BY FileNumbers
<1>2. NamesOfFile(f, name) =
        {MakeFilename(FileKind(f.src), f.index, name, f.segment, codec) : codec \in Codecs}
  BY <1>1 DEF NameTable, NamesOfFile
<1>3. QED BY <1>2

LEMMA NamesDiffer ==
    ASSUME FreshInv, NamedInv PROVE FileNamesDiffer
<1>1. SUFFICES ASSUME NEW f \in opened, NEW g \in opened, f # g, f.game = g.game,
                      NEW x \in Names, NEW y \in Names, f.src = g.src => x = y,
                      NEW m \in NamesOfFile(f, x), m \in NamesOfFile(g, y)
               PROVE  FALSE
  BY DEF FileNamesDiffer
<1>2. InRange(f) /\ InRange(g) BY DEF NamedInv, ToldInv
<1>3. /\ f.index \in Numbers /\ g.index \in Numbers
      /\ f.segment \in Numbers /\ g.segment \in Numbers
      /\ FileKind(f.src) \in Kinds /\ FileKind(g.src) \in Kinds
      /\ f.segment \in Nat \ {0} /\ g.segment \in Nat \ {0}
  <2>1. MaxSegments \in Nat BY BoundAssumption
  <2>2. QED BY <1>2, <2>1, FileNumbers
<1>4. x \in Seq(Kept \cup Other) /\ y \in Seq(Kept \cup Other) BY ListingAssumption
<1>5. PICK c : m = MakeFilename(FileKind(f.src), f.index, x, f.segment, c)
  BY <1>2, NamesOfFileAre
<1>6. PICK d : m = MakeFilename(FileKind(g.src), g.index, y, g.segment, d)
  BY <1>1, <1>2, NamesOfFileAre
<1> DEFINE n == Len(Sanitized(x))
           k == Len(Sanitized(y))
<1>7. /\ n \in Nat /\ Len(m) = n + (IF f.segment > 1 THEN 6 ELSE 4)
      /\ m[1] = Numeral(f.index) /\ m[Len(m)] = Extension(FileKind(f.src), c)
      /\ f.segment > 1 => m[n + 4] = Numeral(f.segment)
  BY <1>3, <1>4, <1>5, FilenameIs
<1>8. /\ k \in Nat /\ Len(m) = k + (IF g.segment > 1 THEN 6 ELSE 4)
      /\ m[1] = Numeral(g.index) /\ m[Len(m)] = Extension(FileKind(g.src), d)
      /\ g.segment > 1 => m[k + 4] = Numeral(g.segment)
  BY <1>3, <1>4, <1>6, FilenameIs
<1>9. f.index = g.index BY <1>3, <1>7, <1>8, ListingAssumption
<1>10. FileKind(f.src) = FileKind(g.src) BY <1>3, <1>7, <1>8 DEF Extension, Kinds
<1>11. CASE f.src = g.src
  <2>1. f.segment # g.segment
    <3>1. f \in Filenames /\ g \in Filenames BY DEF FreshInv
    <3>2. QED BY <1>1, <1>9, <1>11, <3>1 DEF Filenames
  <2>2. n = k BY <1>1, <1>11
  <2>3. f.segment > 1 /\ g.segment > 1 BY <1>3, <1>7, <1>8, <2>1, <2>2
  <2>4. Numeral(f.segment) = Numeral(g.segment) BY <1>7, <1>8, <2>2, <2>3
  <2>5. QED BY <1>3, <2>1, <2>4, ListingAssumption
<1>12. CASE f.src # g.src
  <2>1. CASE f.src # Scene /\ g.src # Scene
    <3>1. KindOf(f.src) = KindOf(g.src) BY <1>10, <2>1 DEF FileKind
    <3>2. QED BY <1>1, <1>9, <1>12, <2>1, <3>1 DEF NamedInv, ToldInv, Told
  <2>2. CASE f.src = Scene \/ g.src = Scene
    <3>1. Cardinality(Source) \in Nat BY SourceAssumption, FS_CardinalityType
    <3>2. QED BY <1>2, <1>9, <1>12, <2>2, <3>1, SourceAssumption DEF InRange
  <2>3. QED BY <2>1, <2>2
<1>13. QED BY <1>11, <1>12

LEMMA ConstantsListRight == SanitizedIsClean /\ ClockCarries
<1>1. SanitizedIsClean
  <2>1. SUFFICES ASSUME NEW n \in 0..MaxLength, NEW name \in [1..n -> Kept \cup Other]
                 PROVE  Clean(Sanitized(name), name)
    BY DEF SanitizedIsClean
  <2>2. n \in Nat BY ListingAssumption
  <2>3. name \in Seq(Kept \cup Other) BY <2>2
  <2>4. QED BY <2>3, NamesAreClean
<1>2. ClockCarries
  <2>1. 0..700 \cup 5980..6010 \cup 359980..360010 \subseteq Nat OBVIOUS
  <2>2. QED BY <2>1, ClockIsRight DEF ClockCarries
<1>3. QED BY <1>1, <1>2

\* The names of a session's files differ game by game, whatever the sources are
\* called: a file's number comes first and its kind last, a source keeps its number
\* through a game, and its segments differ in a part of the name or in their text.
\* The names are clean and the clocks in README.txt are right.
THEOREM ListingIsRight == Spec => []ListedIsRight
<1>1. FreshInv /\ NamedInv => ListedIsRight BY NamesDiffer, ConstantsListRight DEF ListedIsRight
<1>2. QED BY NamedInvariant, <1>1, PTL
=============================================================================
