-------------------------- MODULE IsoSessionProofs --------------------------
(* Proofs about IsoSession for every set of sources and every bound.         *)
EXTENDS IsoSession, FiniteSetTheorems, TLAPS

-----------------------------------------------------------------------------
(* What the parts of the operations return.                                  *)

\* Any set of sources is finite, so it has a size.
LEMMA SizeOfSources ==
    ASSUME NEW S \in SUBSET Source PROVE Cardinality(S) \in Nat
BY SourceAssumption, FS_Subset, FS_CardinalityType

LEMMA PlaceIsNat ==
    ASSUME armed \subseteq Source, NEW s PROVE Place(s) \in Nat
<1>1. {t \in armed : KindOf(t) = KindOf(s) /\ (t = s \/ <<t, s>> \in before)} \in SUBSET Source
  OBVIOUS
<1>2. QED BY <1>1, SizeOfSources DEF Place

LEMMA DeadIsNat ==
    ASSUME NEW r, NEW c PROVE Dead(r, c) \in Nat
<1>1. Cardinality({s \in Source : r[s] = "dead"}) \in Nat BY SizeOfSources
<1>2. QED BY <1>1 DEF Dead

LEMMA RecordIsRecord ==
    ASSUME NEW s \in Source \cup {Scene}, NEW g \in Nat, NEW i \in Nat, NEW n \in Nat,
           NEW status \in Statuses
    PROVE  Record(s, g, i, n, status) \in Records
BY DEF Record, Records

LEMMA FailureIsRecord ==
    ASSUME NEW s \in Source \cup {Scene}, NEW g \in Nat
    PROVE  Failure(s, g) \in Records
BY RecordIsRecord DEF Failure, Statuses

LEMMA FailuresAreRecords ==
    ASSUME NEW S \in SUBSET Source, NEW ok, NEW g \in Nat
    PROVE  StartFailures(S, ok, g) \cup CompFailures(ok, g) \subseteq Records
BY FailureIsRecord DEF StartFailures, CompFailures

LEMMA ClosedAreRecords ==
    ASSUME EntriesOK, FlagsOK, NEW S \in SUBSET Source, NEW okStatus \in Statuses
    PROVE  Closed(S, okStatus) \subseteq Records
<1>1. \A s \in Source : Verdict(rec[s], okStatus) \in Statuses BY DEF Verdict, Statuses
<1>2. \A s \in Source : idx[s] \in Nat /\ seg[s] \in Nat BY DEF EntriesOK
<1>3. game \in Nat BY DEF FlagsOK
<1>4. QED BY <1>1, <1>2, <1>3, RecordIsRecord DEF Closed

LEMMA CompClosedIsRecord ==
    ASSUME FlagsOK PROVE CompClosed \subseteq Records
<1>1. Verdict(comp, "complete") \in Statuses BY DEF Verdict, Statuses
<1>2. game \in Nat BY DEF FlagsOK
<1>3. QED BY <1>1, <1>2, RecordIsRecord DEF CompClosed

LEMMA LiveAreRecords ==
    ASSUME NEW r, NEW i \in [Source -> Nat], NEW n \in [Source -> Nat], NEW c, NEW g \in Nat
    PROVE  Live(r, i, n, g) \cup CompLive(c, g) \subseteq Records
<1>1. \A x : LiveStatus(x) \in Statuses BY DEF LiveStatus, Statuses
<1>2. \A s \in Source : i[s] \in Nat /\ n[s] \in Nat OBVIOUS
<1>3. Live(r, i, n, g) \subseteq Records BY <1>1, <1>2, RecordIsRecord DEF Live
<1>4. CompLive(c, g) \subseteq Records
  <2>1. LiveStatus(c) \in Statuses BY <1>1
  <2>2. Record(Scene, g, 0, 1, LiveStatus(c)) \in Records BY <2>1, RecordIsRecord
  <2>3. QED BY <2>2 DEF CompLive
<1>5. QED BY <1>3, <1>4

LEMMA ManifestIsManifest ==
    ASSUME NEW fin \in SUBSET Records, NEW r, NEW i \in [Source -> Nat], NEW n \in [Source -> Nat],
           NEW c, NEW g \in Nat
    PROVE  /\ Manifest(fin, r, i, n, c, g).recordings \subseteq Records
           /\ Manifest(fin, r, i, n, c, g).ended = FALSE
<1>1. Live(r, i, n, g) \cup CompLive(c, g) \subseteq Records BY LiveAreRecords
<1>2. QED BY <1>1 DEF Manifest
-----------------------------------------------------------------------------
(* The common parts of the actions, in a state of the right types.           *)

\* rewriteManifest after the records, numbers and recorders of the next state.
LEMMA RewriteKeepsTypes ==
    ASSUME Rewrite, finished' \subseteq Records, idx' \in [Source -> Nat],
           seg' \in [Source -> Nat], game' \in Nat
    PROVE  disk'.recordings \subseteq Records /\ disk'.ended = FALSE
BY ManifestIsManifest DEF Rewrite

LEMMA ForgetKeepsTypes ==
    ASSUME EntriesOK, NEW G \in SUBSET Source, Forget(G)
    PROVE  /\ armed' \subseteq Source /\ before' \subseteq Source \X Source
           /\ waiting' \subseteq armed' \cap Video /\ gone' \subseteq armed'
BY DEF EntriesOK, Forget

LEMMA DropKeepsTypes ==
    ASSUME NEW G, NEW T, NEW f \in [Source -> T], NEW none \in T
    PROVE  /\ Drop(G, f, none) \in [Source -> T]
           /\ \A s \in Source \cap G : Drop(G, f, none)[s] = none
           /\ \A s \in Source \ G : Drop(G, f, none)[s] = f[s]
BY DEF Drop

LEMMA OpenKeepsTypes ==
    ASSUME FlagsOK, NEW held, NEW files, Open(held, files)
    PROVE  reopened' \in BOOLEAN
BY DEF FlagsOK, Open

\* start() and newGame() end in a state of the right types.
LEMMA StartAllKeepsTypes ==
    ASSUME EntriesOK, FlagsOK, NEW ok, NEW fin \in SUBSET Records, NEW held,
           StartAll(ok, fin, held), armed' = armed,
           seg' \in [Source -> Nat], idx' \in [Source -> Nat], game' \in Nat
    PROVE  /\ rec' \in [Source -> RecStates]
           /\ \A s \in Source \ armed : rec'[s] = "none"
           /\ waiting' \subseteq armed \cap Video
           /\ comp' \in {"none", "run", "dead"}
           /\ reopened' \in BOOLEAN
           /\ ManifestOK'
<1>1. /\ rec' \in [Source -> RecStates]
      /\ \A s \in Source \ armed : rec'[s] = "none"
  BY DEF StartAll, Started, RecStates
<1>2. waiting' \subseteq armed \cap Video BY DEF EntriesOK, StartAll, Ready, Audio
<1>3. comp' \in {"none", "run", "dead"} BY DEF StartAll, CompStarted
<1>4. reopened' \in BOOLEAN BY OpenKeepsTypes DEF StartAll
<1>5. finished' \subseteq Records
  <2>1. armed \in SUBSET Source BY DEF EntriesOK
  <2>2. StartFailures(armed, ok, game') \cup CompFailures(ok, game') \subseteq Records
    BY <2>1, FailuresAreRecords
  <2>3. QED BY <2>2 DEF StartAll
<1>6. disk'.recordings \subseteq Records /\ disk'.ended = FALSE
  BY <1>5, RewriteKeepsTypes DEF StartAll
<1>7. QED BY <1>1, <1>2, <1>3, <1>4, <1>5, <1>6 DEF ManifestOK
-----------------------------------------------------------------------------
(* Every action keeps the types: one lemma per action.                       *)

LEMMA ArmTypes == ASSUME TypeOK, NEW s \in Source, NEW ok, Arm(s, ok) PROVE TypeOK'
<1>1. EntriesOK /\ NumberingOK /\ FlagsOK /\ ManifestOK BY DEF TypeOK
<1>2. NumberingOK'
  <2>1. segCount' \in [Source -> Nat] BY <1>1 DEF Arm, NumberingOK
  <2>2. nextIndex[KindOf(s)] \in Nat BY <1>1 DEF NumberingOK, KindOf, Kinds
  <2>3. indexFor' \in [Source -> Nat] BY <1>1, <2>2 DEF Arm, NumberingOK
  <2>4. nextIndex' \in [Kinds -> Nat]
    <3> DEFINE next == IF indexFor[s] = 0 THEN nextIndex[KindOf(s)] + 1 ELSE nextIndex[KindOf(s)]
    <3>1. next \in Nat BY <2>2
    <3>2. nextIndex' = [nextIndex EXCEPT ![KindOf(s)] = next] BY DEF Arm
    <3>3. nextIndex \in [Kinds -> Nat] BY <1>1 DEF NumberingOK
    <3>4. QED
      <4> HIDE DEF next
      <4> QED BY <3>1, <3>2, <3>3
  <2>5. QED BY <2>1, <2>3, <2>4 DEF NumberingOK
<1>3. /\ seg' \in [Source -> Nat] /\ idx' \in [Source -> Nat]
      /\ \A t \in Source \ {s} : seg'[t] = seg[t] /\ idx'[t] = idx[t]
  <2>1. segCount[s] \in Nat /\ indexFor'[s] \in Nat BY <1>1, <1>2 DEF NumberingOK
  <2>2. QED BY <1>1, <2>1 DEF Arm, EntriesOK
<1>4. game' = game /\ game \in Nat BY <1>1 DEF Arm, FlagsOK
<1>5. CASE ~active
  <2>1. EntriesOK' BY <1>1, <1>3, <1>5 DEF Arm, EntriesOK, sources
  <2>2. FlagsOK' BY <1>1, <1>5 DEF Arm, FlagsOK, flags, history
  <2>3. ManifestOK' BY <1>1, <1>5 DEF Arm, ManifestOK, manifest
  <2>4. QED BY <1>2, <2>1, <2>2, <2>3 DEF TypeOK
<1>6. CASE active
  <2>1. EntriesOK'
    <3>1. rec' \in [Source -> RecStates] /\ \A t \in Source \ {s} : rec'[t] = rec[t]
      BY <1>1, <1>6 DEF Arm, EntriesOK, RecStates
    <3>2. armed' = armed \cup {s} /\ before' = before \cup (armed \X {s}) BY DEF Arm
    <3>3. waiting' \subseteq armed' \cap Video
      BY <1>1, <1>6, <3>2 DEF Arm, EntriesOK, Ready, Audio
    <3>4. gone' = gone /\ pictured' = pictured BY DEF Arm, sources
    <3>5. QED BY <1>1, <1>3, <3>1, <3>2, <3>3, <3>4 DEF EntriesOK
  <2>2. FlagsOK'
    <3>1. reopened' \in BOOLEAN BY <1>1, <1>6, OpenKeepsTypes DEF Arm
    <3>2. QED BY <1>1, <3>1 DEF Arm, FlagsOK, flags
  <2>3. ManifestOK'
    <3>1. StartFailures({s}, ok, game) \subseteq Records BY <1>4, FailuresAreRecords
    <3>2. finished' \subseteq Records BY <1>1, <1>6, <3>1 DEF Arm, ManifestOK
    <3>3. disk'.recordings \subseteq Records /\ disk'.ended = FALSE
      BY <1>3, <1>4, <1>6, <3>2, RewriteKeepsTypes DEF Arm
    <3>4. QED BY <3>2, <3>3 DEF ManifestOK
  <2>4. QED BY <1>2, <2>1, <2>2, <2>3 DEF TypeOK
<1>7. QED BY <1>5, <1>6

\* The entries after those in G have gone, if their recorders, numbers go too.
LEMMA ForgottenEntries ==
    ASSUME EntriesOK, NEW G \in SUBSET Source, Forget(G), pictured' = pictured,
           rec' = Drop(G, rec, "none"), seg' = Drop(G, seg, 0), idx' = Drop(G, idx, 0)
    PROVE  EntriesOK'
<1>1. rec' \in [Source -> RecStates] BY DEF EntriesOK, Drop, RecStates
<1>2. seg' \in [Source -> Nat] /\ idx' \in [Source -> Nat] BY DEF EntriesOK, Drop
<1>3. \A s \in Source \ armed' : rec'[s] = "none" /\ seg'[s] = 0 /\ idx'[s] = 0
  BY DEF EntriesOK, Forget, Drop
<1>4. QED BY <1>1, <1>2, <1>3, ForgetKeepsTypes DEF EntriesOK

LEMMA DisarmTypes == ASSUME TypeOK, NEW s \in Source, Disarm(s) PROVE TypeOK'
<1>1. EntriesOK /\ NumberingOK /\ FlagsOK /\ ManifestOK BY DEF TypeOK
<1>2. EntriesOK'
  <2>1. {s} \in SUBSET Source OBVIOUS
  <2>2. QED BY <1>1, <2>1, ForgottenEntries DEF Disarm
<1>3. NumberingOK' BY <1>1 DEF Disarm, NumberingOK, numbering
<1>4. FlagsOK' BY <1>1 DEF Disarm, FlagsOK, flags, history
<1>5. ManifestOK'
  <2>1. Closed({s}, "complete") \subseteq Records BY <1>1, ClosedAreRecords DEF Statuses
  <2>2. finished' \subseteq Records BY <1>1, <2>1 DEF Disarm, ManifestOK
  <2>3. CASE active
    <3>1. disk'.recordings \subseteq Records /\ disk'.ended = FALSE
      BY <1>2, <1>4, <2>2, <2>3, RewriteKeepsTypes DEF Disarm, EntriesOK, FlagsOK
    <3>2. QED BY <2>2, <3>1 DEF ManifestOK
  <2>4. CASE ~active BY <1>1, <2>2, <2>4 DEF Disarm, ManifestOK
  <2>5. QED BY <2>3, <2>4
<1>6. QED BY <1>2, <1>3, <1>4, <1>5 DEF TypeOK

\* An idle session has no recorder, so the sources may go without their recorders.
LEMMA ReleaseTypes == ASSUME TypeOK, IdleHoldsNothing, ReleaseSources PROVE TypeOK'
<1>1. EntriesOK /\ NumberingOK /\ FlagsOK /\ ManifestOK BY DEF TypeOK
<1>2. EntriesOK'
  <2>1. rec' = NoRec /\ waiting' = {} /\ armed' = {} /\ gone' = {}
    BY <1>1 DEF ReleaseSources, IdleHoldsNothing, Forget, EntriesOK
  <2>2. before' \subseteq Source \X Source BY <1>1 DEF EntriesOK, ReleaseSources, Forget
  <2>3. seg' \in [Source -> Nat] /\ idx' \in [Source -> Nat] /\ rec' \in [Source -> RecStates]
    BY <2>1 DEF ReleaseSources, Zero, NoRec, RecStates
  <2>4. \A s \in Source : rec'[s] = "none" /\ seg'[s] = 0 /\ idx'[s] = 0
    BY <2>1 DEF ReleaseSources, Zero, NoRec
  <2>5. pictured' \subseteq Video BY <1>1 DEF EntriesOK, ReleaseSources
  <2>6. QED BY <2>1, <2>2, <2>3, <2>4, <2>5 DEF EntriesOK
<1>3. NumberingOK' BY <1>1 DEF ReleaseSources, NumberingOK, numbering
<1>4. FlagsOK' BY <1>1 DEF ReleaseSources, FlagsOK, flags, history
<1>5. ManifestOK' BY <1>1 DEF ReleaseSources, ManifestOK, manifest
<1>6. QED BY <1>2, <1>3, <1>4, <1>5 DEF TypeOK

\* start(), with the game number and the finished records of either kind of session.
LEMMA StartTypes ==
    ASSUME TypeOK, NEW ok, NEW g \in Nat, NEW fin \in SUBSET Records, NEW held,
           active' = TRUE, canResume' = FALSE, paused' = FALSE, failedSeen' = 0, game' = g,
           UNCHANGED <<armed, before, seg, idx, numbering, sources>>, StartAll(ok, fin, held)
    PROVE  TypeOK'
<1>1. EntriesOK /\ NumberingOK /\ FlagsOK /\ ManifestOK BY DEF TypeOK
<1>2. armed' = armed /\ seg' \in [Source -> Nat] /\ idx' \in [Source -> Nat] /\ game' \in Nat
  BY <1>1 DEF EntriesOK
<1>3. /\ rec' \in [Source -> RecStates]
      /\ \A s \in Source \ armed : rec'[s] = "none"
      /\ waiting' \subseteq armed \cap Video
      /\ comp' \in {"none", "run", "dead"}
      /\ reopened' \in BOOLEAN
      /\ ManifestOK'
  BY <1>1, <1>2, StartAllKeepsTypes
<1>4. EntriesOK' BY <1>1, <1>2, <1>3 DEF EntriesOK, sources
<1>5. NumberingOK' BY <1>1 DEF NumberingOK, numbering
<1>6. FlagsOK' BY <1>2, <1>3 DEF FlagsOK
<1>7. QED BY <1>3, <1>4, <1>5, <1>6 DEF TypeOK

LEMMA StartFreshTypes == ASSUME TypeOK, NEW ok, StartFresh(ok) PROVE TypeOK'
<1>1. {} \in SUBSET Records OBVIOUS
<1>2. QED BY <1>1, StartTypes DEF StartFresh

LEMMA StartResumedTypes == ASSUME TypeOK, NEW ok, StartResumed(ok) PROVE TypeOK'
<1>1. game + 1 \in Nat /\ finished \in SUBSET Records BY DEF TypeOK, FlagsOK, ManifestOK
<1>2. QED BY <1>1, StartTypes DEF StartResumed

LEMMA StartRefusedTypes == ASSUME TypeOK, StartRefused PROVE TypeOK'
<1>1. EntriesOK /\ NumberingOK /\ FlagsOK /\ ManifestOK BY DEF TypeOK
<1>2. EntriesOK' BY <1>1 DEF StartRefused, EntriesOK, entries, sources
<1>3. NumberingOK' BY <1>1 DEF StartRefused, NumberingOK, numbering
<1>4. FlagsOK'
  <2>1. game' \in Nat BY <1>1 DEF StartRefused, FlagsOK
  <2>2. reopened' = reopened /\ comp' = comp /\ active' = active BY DEF StartRefused, history
  <2>3. paused' = paused /\ canResume' = FALSE /\ failedSeen' = failedSeen BY DEF StartRefused
  <2>4. QED BY <1>1, <2>1, <2>2, <2>3 DEF FlagsOK
<1>5. ManifestOK' BY <1>1 DEF StartRefused, ManifestOK, manifest
<1>6. QED BY <1>2, <1>3, <1>4, <1>5 DEF TypeOK

LEMMA StopTypes == ASSUME TypeOK, NEW resumable \in BOOLEAN, Stop(resumable) PROVE TypeOK'
<1>1. EntriesOK /\ NumberingOK /\ FlagsOK /\ ManifestOK BY DEF TypeOK
<1>2. EntriesOK'
  <2>1. /\ armed' = {} /\ waiting' = {} /\ gone' = {}
        /\ before' \subseteq Source \X Source /\ pictured' = pictured
    BY <1>1 DEF Stop, Forget, EntriesOK
  <2>2. /\ seg' \in [Source -> Nat] /\ idx' \in [Source -> Nat] /\ rec' \in [Source -> RecStates]
        /\ \A s \in Source : rec'[s] = "none" /\ seg'[s] = 0 /\ idx'[s] = 0
    BY DEF Stop, Zero, NoRec, RecStates
  <2>3. QED BY <1>1, <2>1, <2>2 DEF EntriesOK
<1>3. NumberingOK' BY DEF Stop, NumberingOK, Zero, FirstIndex
<1>4. FlagsOK' BY <1>1 DEF Stop, Deactivate, FlagsOK, history
<1>5. ManifestOK'
  <2>1. Closed(armed, "complete") \cup CompClosed \subseteq Records
    BY <1>1, ClosedAreRecords, CompClosedIsRecord DEF EntriesOK, Statuses
  <2>2. {Failure(s, game) : s \in {t \in waiting : rec[t] = "none"}} \subseteq Records
    BY <1>1, FailureIsRecord DEF EntriesOK, FlagsOK
  <2>3. finished' \subseteq Records BY <1>1, <2>1, <2>2 DEF Stop, ManifestOK
  <2>4. disk'.recordings = finished' /\ disk'.ended = TRUE BY DEF Stop, EndedManifest
  <2>5. QED BY <2>3, <2>4 DEF ManifestOK
<1>6. QED BY <1>2, <1>3, <1>4, <1>5 DEF TypeOK

\* A new game numbers every ticked source, and no other.
LEMMA RenumberTypes ==
    ASSUME EntriesOK, Renumber, armed' = armed
    PROVE  /\ NumberingOK'
           /\ seg' \in [Source -> Nat] /\ idx' \in [Source -> Nat]
           /\ \A s \in Source \ armed : seg'[s] = 0 /\ idx'[s] = 0
<1>1. \A s \in Source : Place(s) \in Nat BY PlaceIsNat DEF EntriesOK
<1>2. seg' \in [Source -> Nat] /\ \A s \in Source \ armed : seg'[s] = 0 BY DEF Renumber
<1>3. idx' \in [Source -> Nat] /\ \A s \in Source \ armed : idx'[s] = 0 BY <1>1 DEF Renumber
<1>4. nextIndex' \in [Kinds -> Nat]
  <2>1. \A k \in Kinds : armed \cap OfKind(k) \in SUBSET Source BY DEF EntriesOK
  <2>2. \A k \in Kinds : Cardinality(armed \cap OfKind(k)) \in Nat BY <2>1, SizeOfSources
  <2>3. \A k \in Kinds : Cardinality(armed \cap OfKind(k)) + 1 \in Nat BY <2>2
  <2>4. QED BY <2>3 DEF Renumber
<1>5. segCount' = seg' /\ indexFor' = idx' BY DEF Renumber
<1>6. QED BY <1>2, <1>3, <1>4, <1>5 DEF NumberingOK

LEMMA NewGameTypes == ASSUME TypeOK, NEW ok, NewGame(ok) PROVE TypeOK'
<1>1. EntriesOK /\ NumberingOK /\ FlagsOK /\ ManifestOK BY DEF TypeOK
<1>2. armed' = armed /\ before' = before /\ pictured' = pictured /\ gone' = gone
  BY DEF NewGame, sources
<1>3. /\ NumberingOK'
      /\ seg' \in [Source -> Nat] /\ idx' \in [Source -> Nat]
      /\ \A s \in Source \ armed : seg'[s] = 0 /\ idx'[s] = 0
  BY <1>1, <1>2, RenumberTypes DEF NewGame
<1>4. game' \in Nat BY <1>1 DEF NewGame, FlagsOK
<1>5. finished \cup Closed(armed, "complete") \cup CompClosed \in SUBSET Records
  BY <1>1, ClosedAreRecords, CompClosedIsRecord DEF EntriesOK, Statuses, ManifestOK
<1>6. /\ rec' \in [Source -> RecStates]
      /\ \A s \in Source \ armed : rec'[s] = "none"
      /\ waiting' \subseteq armed \cap Video
      /\ comp' \in {"none", "run", "dead"}
      /\ reopened' \in BOOLEAN
      /\ ManifestOK'
  BY <1>1, <1>2, <1>3, <1>4, <1>5, StartAllKeepsTypes DEF NewGame
<1>7. EntriesOK' BY <1>1, <1>2, <1>3, <1>6 DEF EntriesOK
<1>8. FlagsOK' BY <1>1, <1>4, <1>6 DEF NewGame, FlagsOK, flags
<1>9. QED BY <1>3, <1>6, <1>7, <1>8 DEF TypeOK

LEMMA NewGameRefusedTypes == ASSUME TypeOK, NewGameRefused PROVE TypeOK'
<1>1. EntriesOK /\ NumberingOK /\ FlagsOK /\ ManifestOK BY DEF TypeOK
<1>2. armed' = armed BY DEF NewGameRefused
<1>3. /\ NumberingOK'
      /\ seg' \in [Source -> Nat] /\ idx' \in [Source -> Nat]
      /\ \A s \in Source \ armed : seg'[s] = 0 /\ idx'[s] = 0
  BY <1>1, <1>2, RenumberTypes DEF NewGameRefused
<1>4. EntriesOK'
  <2>1. rec' \in [Source -> RecStates] /\ \A s \in Source : rec'[s] = "none"
    BY DEF NewGameRefused, NoRec, RecStates
  <2>2. QED BY <1>1, <1>3, <2>1 DEF NewGameRefused, EntriesOK, sources
<1>5. FlagsOK' BY <1>1 DEF NewGameRefused, FlagsOK, flags, history
<1>6. ManifestOK'
  <2>1. Closed(armed, "complete") \cup CompClosed \subseteq Records
    BY <1>1, ClosedAreRecords, CompClosedIsRecord DEF EntriesOK, Statuses
  <2>2. QED BY <1>1, <2>1 DEF NewGameRefused, ManifestOK
<1>7. QED BY <1>3, <1>4, <1>5, <1>6 DEF TypeOK

LEMMA SetPausedTypes == ASSUME TypeOK, SetPaused PROVE TypeOK'
<1>1. EntriesOK /\ NumberingOK /\ FlagsOK /\ ManifestOK BY DEF TypeOK
<1>2. EntriesOK' BY <1>1 DEF SetPaused, EntriesOK, entries, sources
<1>3. NumberingOK' BY <1>1 DEF SetPaused, NumberingOK, numbering
<1>4. FlagsOK' BY <1>1 DEF SetPaused, FlagsOK, history
<1>5. ManifestOK' BY <1>1 DEF SetPaused, ManifestOK, manifest
<1>6. QED BY <1>2, <1>3, <1>4, <1>5 DEF TypeOK

LEMMA RefreshIdleTypes == ASSUME TypeOK, IdleHoldsNothing, RefreshIdle PROVE TypeOK'
<1>1. EntriesOK /\ NumberingOK /\ FlagsOK /\ ManifestOK BY DEF TypeOK
<1>2. EntriesOK'
  <2>1. Deleted \in SUBSET Source BY <1>1 DEF Deleted, EntriesOK
  <2>2. rec' = Drop(Deleted, rec, "none") BY DEF RefreshIdle, IdleHoldsNothing, Drop, NoRec
  <2>3. QED BY <1>1, <2>1, <2>2, ForgottenEntries DEF RefreshIdle
<1>3. NumberingOK' BY <1>1 DEF RefreshIdle, NumberingOK, numbering
<1>4. FlagsOK' BY <1>1 DEF RefreshIdle, FlagsOK, flags, history
<1>5. ManifestOK' BY <1>1 DEF RefreshIdle, ManifestOK, manifest
<1>6. QED BY <1>2, <1>3, <1>4, <1>5 DEF TypeOK

\* What the refresh works on is ticked, and what it starts has not been deleted.
LEMMA PendingSources ==
    ASSUME EntriesOK
    PROVE  /\ Deleted \subseteq armed
           /\ Appeared \cup Resized \subseteq armed \ Deleted
<1>1. \A s \in Video : s \in Source BY SourceAssumption
<1>2. Deleted \subseteq armed BY DEF Deleted
<1>3. Appeared \subseteq armed \ Deleted BY DEF EntriesOK, Deleted, Appeared
<1>4. Resized \subseteq armed \ Deleted
  <2>1. \A s \in Resized : s \in Source /\ s \notin gone /\ rec[s] = "misfit"
    BY <1>1 DEF EntriesOK, Resized
  <2>2. QED BY <2>1 DEF EntriesOK, Deleted
<1>5. QED BY <1>2, <1>3, <1>4

LEMMA RefreshActiveTypes == ASSUME TypeOK, NEW ok, RefreshActive(ok) PROVE TypeOK'
<1> DEFINE started == Started(Appeared \cup Resized, ok)
           dropped == finished \cup Closed(Deleted, "aborted")
<1>1. EntriesOK /\ NumberingOK /\ FlagsOK /\ ManifestOK BY DEF TypeOK
<1>2. Deleted \subseteq armed /\ Appeared \cup Resized \subseteq armed \ Deleted
  BY <1>1, PendingSources
<1>3. started \subseteq Appeared \cup Resized BY DEF Started
<1>4. NumberingOK'
  <2>1. segCount' \in [Source -> Nat] BY <1>1 DEF RefreshActive, NumberingOK
  <2>2. QED BY <1>1, <2>1 DEF RefreshActive, NumberingOK
<1>5. seg' \in [Source -> Nat] /\ \A s \in Source \ armed' : seg'[s] = 0
  <2>1. armed' = armed \ Deleted BY DEF RefreshActive
  <2>2. seg' = [s \in Source |-> IF s \in Deleted THEN 0
                                 ELSE IF s \in Resized THEN segCount'[s] ELSE seg[s]]
    BY DEF RefreshActive
  <2>3. \A s \in Source : segCount'[s] \in Nat /\ seg[s] \in Nat
    BY <1>1, <1>4 DEF NumberingOK, EntriesOK
  <2>4. \A s \in Source \ armed : seg[s] = 0 BY <1>1 DEF EntriesOK
  <2>5. QED BY <1>2, <2>1, <2>2, <2>3, <2>4
<1>6. idx' \in [Source -> Nat] /\ \A s \in Source \ armed' : idx'[s] = 0
  <2>1. armed' = armed \ Deleted /\ idx' = Drop(Deleted, idx, 0) BY DEF RefreshActive
  <2>2. QED BY <1>1, <2>1 DEF Drop, EntriesOK
<1>7. rec' \in [Source -> RecStates] /\ \A s \in Source \ armed' : rec'[s] = "none"
  <2>1. armed' = armed \ Deleted BY DEF RefreshActive
  <2>2. rec' = [s \in Source |-> IF s \in started THEN "run"
                                 ELSE IF s \in Deleted \cup Resized THEN "none" ELSE rec[s]]
    BY DEF RefreshActive
  <2>3. rec \in [Source -> RecStates] /\ \A s \in Source \ armed : rec[s] = "none"
    BY <1>1 DEF EntriesOK
  <2> HIDE DEF started
  <2>4. rec' \in [Source -> RecStates] BY <2>2, <2>3 DEF RecStates
  <2>5. \A s \in Source \ armed' : rec'[s] = "none" BY <1>2, <1>3, <2>1, <2>2, <2>3
  <2>6. QED BY <2>4, <2>5
<1>8. EntriesOK'
  <2>1. armed' = armed \ Deleted /\ gone' = gone \ Deleted /\ pictured' = pictured
    BY DEF RefreshActive
  <2>2. before' \subseteq before /\ waiting' \subseteq waiting \ Deleted BY DEF RefreshActive
  <2>3. QED BY <1>1, <1>5, <1>6, <1>7, <2>1, <2>2 DEF EntriesOK
<1>9. dropped \subseteq Records
  <2>1. Closed(Deleted, "aborted") \subseteq Records
    BY <1>1, <1>2, ClosedAreRecords DEF EntriesOK, Statuses
  <2>2. QED BY <1>1, <2>1 DEF ManifestOK
<1>10. finished' \subseteq Records
  <2>1. Appeared \cup Resized \in SUBSET Source /\ game \in Nat
    BY <1>1, <1>2 DEF EntriesOK, FlagsOK
  <2>2. Closed(Resized, "complete") \subseteq Records
    BY <1>1, <2>1, ClosedAreRecords DEF Statuses
  <2>3. StartFailures(Appeared \cup Resized, ok, game) \subseteq Records
    BY <2>1, FailuresAreRecords
  <2>4. finished' = dropped \cup Closed(Resized, "complete")
                     \cup StartFailures(Appeared \cup Resized, ok, game)
    BY DEF RefreshActive
  <2>5. QED BY <1>9, <2>2, <2>3, <2>4
<1>11. game' = game /\ game \in Nat /\ comp' = comp BY <1>1 DEF RefreshActive, FlagsOK
<1>12. FlagsOK'
  <2>1. Dead(rec', comp) \in Nat BY DeadIsNat
  <2>2. failedSeen' \in Nat BY <1>1, <2>1 DEF RefreshActive, FlagsOK
  <2>3. reopened' \in BOOLEAN BY <1>1, OpenKeepsTypes DEF RefreshActive
  <2>4. active' = active /\ paused' = paused /\ canResume' = canResume BY DEF RefreshActive
  <2>5. QED BY <1>1, <1>11, <2>2, <2>3, <2>4 DEF FlagsOK
<1>13. disk'.recordings \subseteq Records /\ disk'.ended \in BOOLEAN
  <2>1. \/ Rewrite
        \/ disk' = disk
        \/ disk' = Manifest(dropped, rec', idx', seg', comp, game)
    BY DEF RefreshActive
  <2>2. CASE Rewrite
    <3>1. disk'.recordings \subseteq Records /\ disk'.ended = FALSE
      BY <1>5, <1>6, <1>10, <1>11, <2>2, RewriteKeepsTypes
    <3>2. QED BY <3>1
  <2>3. CASE disk' = disk BY <1>1, <2>3 DEF ManifestOK
  <2>4. CASE disk' = Manifest(dropped, rec', idx', seg', comp, game)
    <3>1. /\ Manifest(dropped, rec', idx', seg', comp, game).recordings \subseteq Records
          /\ Manifest(dropped, rec', idx', seg', comp, game).ended = FALSE
      <4> HIDE DEF dropped
      <4> QED BY <1>5, <1>6, <1>9, <1>11, ManifestIsManifest
    <3>2. QED BY <2>4, <3>1
  <2>5. QED BY <2>1, <2>2, <2>3, <2>4
<1>14. ManifestOK' BY <1>10, <1>13 DEF ManifestOK
<1>15. QED BY <1>4, <1>8, <1>12, <1>14 DEF TypeOK

LEMMA RecorderChangesTypes ==
    ASSUME TypeOK, NEW s \in Source, RecorderDies(s) \/ Resize(s) PROVE TypeOK'
<1>1. EntriesOK /\ NumberingOK /\ FlagsOK /\ ManifestOK BY DEF TypeOK
<1>2. UNCHANGED <<armed, before, seg, idx, waiting, numbering, comp, flags, game, manifest,
                  sources, history>>
  BY DEF RecorderDies, Resize
<1>3. EntriesOK'
  <2>1. rec' \in [Source -> RecStates] BY <1>1 DEF EntriesOK, RecorderDies, Resize, RecStates
  <2>2. \A t \in Source \ armed : rec'[t] = "none" BY <1>1 DEF EntriesOK, RecorderDies, Resize
  <2>3. QED BY <1>1, <1>2, <2>1, <2>2 DEF EntriesOK, sources
<1>4. NumberingOK' BY <1>1, <1>2 DEF NumberingOK, numbering
<1>5. FlagsOK' BY <1>1, <1>2 DEF FlagsOK, flags, history
<1>6. ManifestOK' BY <1>1, <1>2 DEF ManifestOK, manifest
<1>7. QED BY <1>3, <1>4, <1>5, <1>6 DEF TypeOK

LEMMA CompositeDiesTypes == ASSUME TypeOK, CompositeDies PROVE TypeOK'
<1>1. EntriesOK /\ NumberingOK /\ FlagsOK /\ ManifestOK BY DEF TypeOK
<1>2. EntriesOK' BY <1>1 DEF CompositeDies, EntriesOK, entries, sources
<1>3. NumberingOK' BY <1>1 DEF CompositeDies, NumberingOK, numbering
<1>4. FlagsOK' BY <1>1 DEF CompositeDies, FlagsOK, flags, history
<1>5. ManifestOK' BY <1>1 DEF CompositeDies, ManifestOK, manifest
<1>6. QED BY <1>2, <1>3, <1>4, <1>5 DEF TypeOK

LEMMA SourceChangesTypes ==
    ASSUME TypeOK, NEW s \in Source, PictureChanges(s) \/ Delete(s) PROVE TypeOK'
<1>1. EntriesOK /\ NumberingOK /\ FlagsOK /\ ManifestOK BY DEF TypeOK
<1>2. UNCHANGED <<entries, numbering, comp, flags, game, manifest, history>>
  BY DEF PictureChanges, Delete
<1>3. EntriesOK'
  <2>1. pictured' \subseteq Video /\ gone' \subseteq armed
    BY <1>1 DEF PictureChanges, Delete, EntriesOK
  <2>2. QED BY <1>1, <1>2, <2>1 DEF EntriesOK, entries
<1>4. NumberingOK' BY <1>1, <1>2 DEF NumberingOK, numbering
<1>5. FlagsOK' BY <1>1, <1>2 DEF FlagsOK, flags, history
<1>6. ManifestOK' BY <1>1, <1>2 DEF ManifestOK, manifest
<1>7. QED BY <1>3, <1>4, <1>5, <1>6 DEF TypeOK

\* Before the first session, and after a crash, nothing is held in memory.
LEMMA EmptyEntries ==
    ASSUME armed = {}, before = {}, waiting = {}, gone = {}, pictured \subseteq Video,
           seg = Zero, idx = Zero, rec = NoRec,
           segCount = Zero, indexFor = Zero, nextIndex = FirstIndex
    PROVE  EntriesOK /\ NumberingOK
BY DEF EntriesOK, NumberingOK, Zero, NoRec, FirstIndex, RecStates

LEMMA CrashTypes == ASSUME TypeOK, Crash PROVE TypeOK'
<1>1. EntriesOK /\ FlagsOK /\ ManifestOK BY DEF TypeOK
<1>2. EntriesOK'
  BY <1>1 DEF Crash, EntriesOK, Zero, NoRec, RecStates
<1>3. NumberingOK' BY DEF Crash, NumberingOK, Zero, FirstIndex
<1>4. FlagsOK' BY <1>1 DEF Crash, FlagsOK, history
<1>5. ManifestOK' BY <1>1 DEF Crash, ManifestOK
<1>6. QED BY <1>2, <1>3, <1>4, <1>5 DEF TypeOK
-----------------------------------------------------------------------------
(* The session's types hold because an idle session holds nothing: what      *)
(* releases the sources of an idle session does not look at its recorders.   *)

SessionInv == TypeOK /\ IdleHoldsNothing

LEMMA InitSession == Init => SessionInv
<1> SUFFICES ASSUME Init PROVE SessionInv OBVIOUS
<1>1. EntriesOK /\ NumberingOK BY EmptyEntries DEF Init
<1>2. FlagsOK /\ ManifestOK BY DEF Init, FlagsOK, ManifestOK
<1>3. IdleHoldsNothing BY DEF Init, IdleHoldsNothing
<1>4. QED BY <1>1, <1>2, <1>3 DEF SessionInv, TypeOK

LEMMA StepTypes == ASSUME SessionInv, [Next]_vars PROVE TypeOK'
<1> USE DEF SessionInv
<1>1. CASE \E s \in Source, ok \in Outcomes : Arm(s, ok) BY <1>1, ArmTypes
<1>2. CASE \E s \in Source : Disarm(s) BY <1>2, DisarmTypes
<1>3. CASE ReleaseSources BY <1>3, ReleaseTypes
<1>4. CASE \E ok \in Outcomes : StartFresh(ok) BY <1>4, StartFreshTypes
<1>5. CASE \E ok \in Outcomes : StartResumed(ok) BY <1>5, StartResumedTypes
<1>6. CASE StartRefused BY <1>6, StartRefusedTypes
<1>7. CASE \E resumable \in BOOLEAN : Stop(resumable) BY <1>7, StopTypes
<1>8. CASE \E ok \in Outcomes : NewGame(ok) BY <1>8, NewGameTypes
<1>9. CASE NewGameRefused BY <1>9, NewGameRefusedTypes
<1>10. CASE SetPaused BY <1>10, SetPausedTypes
<1>11. CASE Refresh BY <1>11, RefreshIdleTypes, RefreshActiveTypes DEF Refresh
<1>12. CASE \E s \in Source : RecorderDies(s) \/ Resize(s) BY <1>12, RecorderChangesTypes
<1>13. CASE CompositeDies BY <1>13, CompositeDiesTypes
<1>14. CASE \E s \in Source : PictureChanges(s) \/ Delete(s) BY <1>14, SourceChangesTypes
<1>15. CASE Crash BY <1>15, CrashTypes
<1>16. CASE UNCHANGED vars
  BY <1>16 DEF TypeOK, EntriesOK, NumberingOK, FlagsOK, ManifestOK, vars, entries, numbering,
               flags, manifest, sources, history
<1>17. QED BY <1>1, <1>2, <1>3, <1>4, <1>5, <1>6, <1>7, <1>8, <1>9, <1>10, <1>11, <1>12, <1>13,
              <1>14, <1>15, <1>16 DEF Next

\* An action that keeps the session idle, or ends it, holds nothing afterwards.
LEMMA StepIdle == ASSUME SessionInv, [Next]_vars PROVE IdleHoldsNothing'
<1> USE DEF SessionInv, IdleHoldsNothing
<1>1. ASSUME NEW s \in Source, NEW ok \in Outcomes, Arm(s, ok) PROVE IdleHoldsNothing'
  BY <1>1 DEF Arm, flags
<1>2. ASSUME NEW s \in Source, Disarm(s) PROVE IdleHoldsNothing'
  BY <1>2 DEF Disarm, Forget, Drop, NoRec, flags
<1>3. CASE ReleaseSources BY <1>3 DEF ReleaseSources, Forget, flags
<1>4. ASSUME NEW ok \in Outcomes, StartFresh(ok) \/ StartResumed(ok) \/ NewGame(ok)
      PROVE  IdleHoldsNothing'
  BY <1>4 DEF StartFresh, StartResumed, NewGame, flags
<1>5. CASE StartRefused BY <1>5 DEF StartRefused, entries
<1>6. ASSUME NEW resumable \in BOOLEAN, Stop(resumable) PROVE IdleHoldsNothing'
  BY <1>6 DEF Stop, Deactivate, Forget, TypeOK, EntriesOK
<1>7. CASE NewGameRefused \/ SetPaused BY <1>7 DEF NewGameRefused, SetPaused, flags
<1>8. CASE RefreshIdle BY <1>8 DEF RefreshIdle, Forget, flags
<1>9. ASSUME NEW ok \in SUBSET Source, RefreshActive(ok) PROVE IdleHoldsNothing'
  BY <1>9 DEF RefreshActive
<1>10. ASSUME NEW s \in Source, RecorderDies(s) \/ Resize(s) PROVE IdleHoldsNothing'
  BY <1>10 DEF RecorderDies, Resize, NoRec, flags
<1>11. CASE CompositeDies BY <1>11 DEF CompositeDies, flags
<1>12. ASSUME NEW s \in Source, PictureChanges(s) \/ Delete(s) PROVE IdleHoldsNothing'
  BY <1>12 DEF PictureChanges, Delete, entries, flags
<1>13. CASE Crash BY <1>13 DEF Crash
<1>14. CASE UNCHANGED vars BY <1>14 DEF vars, entries, flags
<1>15. QED BY <1>1, <1>2, <1>3, <1>4, <1>5, <1>6, <1>7, <1>8, <1>9, <1>10, <1>11, <1>12, <1>13,
              <1>14 DEF Next, Refresh

LEMMA SessionInvariant == Spec => []SessionInv
<1>1. SessionInv /\ [Next]_vars => SessionInv' BY StepTypes, StepIdle DEF SessionInv
<1>2. QED BY InitSession, <1>1, PTL DEF Spec

\* TypeOK holds for any sources, games and segments: a source that is not ticked
\* holds no recorder and no number, and every record is one of a ticked source or
\* of the composite, whatever disarm, newGame, refreshManifest and stop leave.
THEOREM SessionTypeCorrect == Spec => []TypeOK
<1>1. SessionInv => TypeOK BY DEF SessionInv
<1>2. QED BY SessionInvariant, <1>1, PTL

\* No recorder outlives stop(), a refused start, a deletion or a crash.
THEOREM IdleSessionHoldsNothing == Spec => []IdleHoldsNothing
<1>1. SessionInv => IdleHoldsNothing BY DEF SessionInv
<1>2. QED BY SessionInvariant, <1>1, PTL

-----------------------------------------------------------------------------
(* IsoSession implements SessionControl: what Plugin takes a session to be is *)
(* what its recorders, files, numbers and manifest amount to.                *)

USE DEF ControlView

\* Ticking a source, unticking it, letting go of all and the dropping of the deleted.
LEMMA ArmTicks ==
    ASSUME NEW s \in Source, NEW ok, Arm(s, ok) PROVE Control!ControlNext
<1>1. armed' = armed \cup {s} /\ UNCHANGED <<active, paused, canResume>> BY DEF Arm, flags
<1>2. ControlView' = Control!Ticking(ControlView, {s}) BY <1>1, SMTT(60) DEF Control!Ticking
<1>3. QED BY <1>2 DEF Control!ControlNext

LEMMA ForgetUnticks ==
    ASSUME TypeOK, NEW G \in SUBSET armed, armed' = armed \ G,
           UNCHANGED <<active, paused, canResume>>
    PROVE  Control!ControlNext
<1>1. G \in SUBSET Source BY DEF TypeOK, EntriesOK
<1>2. ControlView' = Control!Unticking(ControlView, G) BY DEF Control!Unticking
<1>3. QED BY <1>1, <1>2 DEF Control!ControlNext

\* start() in its three forms, and stop().
LEMMA StartFreshStarts ==
    ASSUME NEW ok, StartFresh(ok) PROVE Control!ControlNext
<1>1. active' = TRUE /\ paused' = FALSE /\ canResume' = FALSE /\ armed' = armed BY DEF StartFresh
<1>2. ControlView' = Control!Starting(ControlView) BY <1>1 DEF Control!Starting
<1>3. ~ControlView.active BY DEF StartFresh
<1>4. QED BY <1>2, <1>3 DEF Control!ControlNext

LEMMA StartResumedStarts ==
    ASSUME NEW ok, StartResumed(ok) PROVE Control!ControlNext
<1>1. active' = TRUE /\ paused' = FALSE /\ canResume' = FALSE /\ armed' = armed BY DEF StartResumed
<1>2. ControlView' = Control!Starting(ControlView) BY <1>1 DEF Control!Starting
<1>3. ~ControlView.active BY DEF StartResumed
<1>4. QED BY <1>2, <1>3 DEF Control!ControlNext

LEMMA StartRefusedRefuses ==
    ASSUME StartRefused PROVE Control!ControlNext
<1>1. canResume' = FALSE /\ UNCHANGED <<active, paused, armed>> BY DEF StartRefused, entries
<1>2. ControlView' = Control!Refusing(ControlView)
  <2>1. \A b : [ControlView EXCEPT !.resumable = b]
               = [active |-> active, paused |-> paused, resumable |-> b, ticked |-> armed]
    OBVIOUS
  <2>2. ControlView' = [active |-> active, paused |-> paused, resumable |-> FALSE, ticked |-> armed]
    BY <1>1
  <2>3. Control!Refusing(ControlView) = [ControlView EXCEPT !.resumable = FALSE] BY DEF Control!Refusing
  <2>4. QED BY <2>1, <2>2, <2>3, Zenon
<1>3. ~ControlView.active BY DEF StartRefused
<1>4. QED BY <1>2, <1>3 DEF Control!ControlNext

LEMMA StopStops ==
    ASSUME NEW resumable \in BOOLEAN, Stop(resumable) PROVE Control!ControlNext
<1>1. ControlView' = Control!Stopping(ControlView, resumable)
  BY DEF Stop, Forget, Deactivate, Control!Stopping
<1>2. QED BY <1>1 DEF Stop, Control!ControlNext

LEMMA SetPausedPauses ==
    ASSUME TypeOK, SetPaused PROVE Control!ControlNext
<1>1. paused' \in BOOLEAN BY DEF SetPaused, TypeOK, FlagsOK
<1>2. ControlView' = Control!PausingAs(ControlView, paused')
  BY DEF SetPaused, entries, Control!PausingAs
<1>3. QED BY <1>1, <1>2 DEF SetPaused, Control!ControlNext

\* Every step of the session is a call that its callers know of, or one they do
\* not see: a new game, a death, a picture, a deletion.
LEMMA StepControl ==
    ASSUME SessionInv, [Next]_vars PROVE [Control!ControlNext]_ControlView
<1>0. TypeOK BY DEF SessionInv
<1>1. ASSUME NEW s \in Source, NEW ok \in Outcomes, Arm(s, ok) PROVE Control!ControlNext
  BY <1>1, ArmTicks
<1>2. ASSUME NEW s \in Source, Disarm(s) PROVE Control!ControlNext
  BY <1>0, <1>2, ForgetUnticks DEF Disarm, Forget, flags
<1>3. CASE ReleaseSources
  BY <1>0, <1>3, ForgetUnticks DEF ReleaseSources, Forget, flags
<1>4. ASSUME NEW ok \in Outcomes, StartFresh(ok) \/ StartResumed(ok) PROVE Control!ControlNext
  BY <1>4, StartFreshStarts, StartResumedStarts
<1>5. CASE StartRefused BY <1>5, StartRefusedRefuses
<1>6. ASSUME NEW resumable \in BOOLEAN, Stop(resumable) PROVE Control!ControlNext
  BY <1>6, StopStops
<1>7. ASSUME NEW ok \in Outcomes, NewGame(ok) PROVE UNCHANGED ControlView
  BY <1>7 DEF NewGame, flags
<1>8. CASE NewGameRefused BY <1>8 DEF NewGameRefused, flags
<1>9. CASE SetPaused BY <1>0, <1>9, SetPausedPauses
<1>10. CASE RefreshIdle
  BY <1>0, <1>10, ForgetUnticks DEF RefreshIdle, Forget, Deleted, flags
<1>11. ASSUME NEW ok \in SUBSET Source, RefreshActive(ok) PROVE Control!ControlNext
  BY <1>0, <1>11, ForgetUnticks DEF RefreshActive, Deleted
<1>12. ASSUME NEW s \in Source, RecorderDies(s) \/ Resize(s) \/ PictureChanges(s) \/ Delete(s)
       PROVE  UNCHANGED ControlView
  BY <1>12 DEF RecorderDies, Resize, PictureChanges, Delete, entries, flags
<1>13. CASE CompositeDies BY <1>13 DEF CompositeDies, entries, flags
<1>14. CASE Crash
  <2>1. ControlView' = Control!NoSession BY <1>14 DEF Crash, Control!NoSession
  <2>2. QED BY <2>1 DEF Control!ControlNext
<1>15. CASE UNCHANGED vars BY <1>15 DEF vars, entries, flags
<1>16. QED BY <1>1, <1>2, <1>3, <1>4, <1>5, <1>6, <1>7, <1>8, <1>9, <1>10, <1>11, <1>12, <1>13,
              <1>14, <1>15 DEF Next, Refresh

\* For any sources and any number of games, the session does to its callers what
\* the plugin's event handler and the dock (Plugin) are modelled to rely on.
THEOREM SessionImplementsControl == Spec => ImplementsControl
<1>1. Init => Control!ControlInit BY DEF Init, Control!ControlInit, Control!NoSession
<1>2. SessionInv /\ [Next]_vars => [Control!ControlNext]_ControlView BY StepControl
<1>3. QED BY <1>1, <1>2, SessionInvariant, PTL DEF Spec, ImplementsControl, Control!ControlSpec

HIDE DEF ControlView
=============================================================================
