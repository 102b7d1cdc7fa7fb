----------------------------- MODULE PluginProofs -----------------------------
(* Proofs about Plugin and SettingsStore, for any collections, names and      *)
(* profiles: what the dock remembers and holds, whom a session follows, and   *)
(* what settings.json says, after any events of OBS and any clicks.           *)
EXTENDS Plugin, WellFoundedInduction, TLAPS

-----------------------------------------------------------------------------
(* The migration.  Taken is defined by recursion over the profiles, which     *)
(* holds because a least counterexample would not be one.                     *)

LEMMA LeastNumber ==
    ASSUME NEW T \in SUBSET Nat, T # {} PROVE \E m \in T : \A n \in T : m <= n
<1> DEFINE R == {p \in Nat \X Nat : p[1] < p[2]}
<1>1. IsWellFoundedOn(R, Nat) BY NatLessThanWellFounded DEF OpToRel
<1> HIDE DEF R
<1>2. PICK m \in T : \A n \in T : ~ (<<n, m>> \in R) BY <1>1, WFMin
<1>3. \A n \in T : ~(n < m) BY <1>2 DEF R
<1>4. QED BY <1>3

NoneTaken == [armed |-> [c \in Collection |-> {}], options |-> DefaultOptions, given |-> FALSE]
TakesTo(g, k) ==
    g = [n \in 0..k |-> IF n = 0 THEN NoneTaken ELSE MigrateProfile(g[n - 1], Profiles[n])]

LEMMA TakenDef == TakesTo(Taken, Len(Profiles))
<1> DEFINE T == {k \in 0..Len(Profiles) : ~\E g : TakesTo(g, k)}
<1>0. Len(Profiles) \in Nat BY ProfilesAssumption
<1>1. T = {}
  <2> SUFFICES ASSUME T # {} PROVE FALSE OBVIOUS
  <2>1. T \in SUBSET Nat OBVIOUS
  <2>2. PICK m \in T : \A n \in T : m <= n
    <3> HIDE DEF T
    <3> QED BY <2>1, LeastNumber
  <2>3. m \in 0..Len(Profiles) /\ ~\E g : TakesTo(g, m) OBVIOUS
  <2>4. CASE m = 0
    <3> DEFINE g == [n \in 0..m |-> NoneTaken]
    <3>1. \A n \in 0..m : n = 0 BY <2>4
    <3>2. TakesTo(g, m) BY <3>1 DEF TakesTo
    <3>3. QED BY <2>3, <3>2
  <2>5. CASE m # 0
    <3>1. m - 1 \in 0..Len(Profiles) /\ m - 1 \notin T
      <4> HIDE DEF T
      <4> QED BY <1>0, <2>2, <2>3, <2>5
    <3>2. PICK g : TakesTo(g, m - 1) BY <3>1
    <3> DEFINE h == [n \in 0..m |-> IF n = m THEN MigrateProfile(g[m - 1], Profiles[m]) ELSE g[n]]
    <3> HIDE DEF T
    <3>3. \A n \in 0..m - 1 : g[n] = IF n = 0 THEN NoneTaken ELSE MigrateProfile(g[n - 1], Profiles[n])
      BY <3>2 DEF TakesTo
    <3>4. \A n \in 0..m : n # m => n \in 0..m - 1 /\ (n # 0 => n - 1 \in 0..m - 1) BY <2>3
    <3>5. \A n \in 0..m : h[n] = IF n = 0 THEN NoneTaken ELSE MigrateProfile(h[n - 1], Profiles[n])
      <4>1. h[m] = MigrateProfile(h[m - 1], Profiles[m]) BY <2>3, <2>5
      <4>2. \A n \in 0..m : n # m =>
              h[n] = IF n = 0 THEN NoneTaken ELSE MigrateProfile(h[n - 1], Profiles[n])
        BY <2>3, <3>3, <3>4
      <4>3. QED BY <2>5, <4>1, <4>2
    <3>6. TakesTo(h, m)
      <4>1. h = [n \in 0..m |-> h[n]] OBVIOUS
      <4> HIDE DEF h
      <4>2. QED BY <3>5, <4>1 DEF TakesTo
    <3>7. QED BY <2>3, <3>6
  <2>6. QED BY <2>4, <2>5
<1>2. \E g : TakesTo(g, Len(Profiles)) BY <1>0, <1>1
<1>3. Taken = CHOOSE g : TakesTo(g, Len(Profiles)) BY DEF Taken, TakesTo, NoneTaken
<1>4. QED BY <1>2, <1>3

\* What n profiles have given: a collection's ticks are those of the first that has any.
Given(n) ==
    /\ Taken[n] \in [armed : [Collection -> SUBSET Name], options : SUBSET Option, given : BOOLEAN]
    /\ \A c \in Collection :
          \/ Taken[n].armed[c] = {} /\ \A j \in 1..n : Profiles[j].armed[c] = {}
          \/ \E i \in 1..n : i \in FirstArming(c) /\ Taken[n].armed[c] = Profiles[i].armed[c]

LEMMA GivenAtFirst == Given(0)
<1>1. Len(Profiles) \in Nat BY ProfilesAssumption
<1>2. Taken[0] = NoneTaken BY <1>1, TakenDef DEF TakesTo
<1>3. QED BY <1>2, ProfilesAssumption DEF Given, NoneTaken

LEMMA GivenNext ==
    ASSUME NEW n \in 1..Len(Profiles), Given(n - 1) PROVE Given(n)
<1> DEFINE m == Taken[n - 1]
           p == Profiles[n]
<1>1. Len(Profiles) \in Nat /\ p \in Profile /\ DOMAIN Profiles = 1..Len(Profiles)
  BY ProfilesAssumption
<1>2. n \in 0..Len(Profiles) /\ n # 0 BY <1>1
<1>3. Taken[n] = MigrateProfile(m, p) BY <1>2, TakenDef DEF TakesTo
<1>4. m \in [armed : [Collection -> SUBSET Name], options : SUBSET Option, given : BOOLEAN]
  BY DEF Given
<1> HIDE DEF m, p
<1> DEFINE armed == [c \in Collection |-> IF m.armed[c] = {} THEN p.armed[c] ELSE m.armed[c]]
           options == IF ~m.given /\ p.given THEN p.options ELSE m.options
           given == m.given \/ p.given
<1>5. Taken[n] = [armed |-> armed, options |-> options, given |-> given]
  BY <1>3 DEF MigrateProfile
<1>6. Taken[n] \in [armed : [Collection -> SUBSET Name], options : SUBSET Option, given : BOOLEAN]
  <2>1. p.armed \in [Collection -> SUBSET Name] /\ p.options \in SUBSET Option /\ p.given \in BOOLEAN
    BY <1>1 DEF Profile
  <2>2. armed \in [Collection -> SUBSET Name] BY <1>4, <2>1
  <2>3. options \in SUBSET Option BY <1>4, <2>1
  <2>4. given \in BOOLEAN OBVIOUS
  <2> HIDE DEF armed, options, given
  <2>5. QED BY <1>5, <2>2, <2>3, <2>4
<1>7. \A c \in Collection : Taken[n].armed[c] = IF m.armed[c] = {} THEN p.armed[c] ELSE m.armed[c]
  <2> HIDE DEF options, given
  <2>1. Taken[n].armed = armed BY <1>5
  <2>2. QED BY <2>1
<1>8. ASSUME NEW c \in Collection
      PROVE  \/ Taken[n].armed[c] = {} /\ \A j \in 1..n : Profiles[j].armed[c] = {}
             \/ \E i \in 1..n : i \in FirstArming(c) /\ Taken[n].armed[c] = Profiles[i].armed[c]
  <2>1. CASE m.armed[c] = {} /\ \A j \in 1..n - 1 : Profiles[j].armed[c] = {}
    <3>1. \A j \in 1..n : j = n \/ j \in 1..n - 1 BY <1>1
    <3>2. CASE p.armed[c] = {} BY <1>7, <2>1, <3>1, <3>2 DEF p
    <3>3. CASE p.armed[c] # {}
      <4>1. n \in FirstArming(c) BY <1>1, <2>1, <3>3 DEF FirstArming, p
      <4>2. n \in 1..n /\ Taken[n].armed[c] = Profiles[n].armed[c] BY <1>1, <1>7, <2>1 DEF p
      <4>3. QED BY <4>1, <4>2
    <3>4. QED BY <3>2, <3>3
  <2>2. ASSUME NEW i \in 1..n - 1, i \in FirstArming(c), m.armed[c] = Profiles[i].armed[c]
        PROVE  \E j \in 1..n : j \in FirstArming(c) /\ Taken[n].armed[c] = Profiles[j].armed[c]
    <3>1. i \in 1..n BY <1>1
    <3>2. m.armed[c] # {} BY <2>2 DEF FirstArming
    <3>3. QED BY <1>7, <2>2, <3>1, <3>2
  <2>3. QED BY <2>1, <2>2 DEF Given, m
<1>9. QED BY <1>6, <1>8 DEF Given

\* migrateFromProfiles leaves each collection the ticks of the first profile that has any.
THEOREM MigrationGivesFirst == Migrated \in Store /\ \A c \in Collection : Migrated.armed[c] = FirstArmed(c)
<1> DEFINE T == {n \in 0..Len(Profiles) : ~Given(n)}
<1>0. Len(Profiles) \in Nat /\ DOMAIN Profiles = 1..Len(Profiles) BY ProfilesAssumption
<1>1. T = {}
  <2> SUFFICES ASSUME T # {} PROVE FALSE OBVIOUS
  <2>1. T \in SUBSET Nat OBVIOUS
  <2>2. \A n \in 0..Len(Profiles) : n \notin T => Given(n) OBVIOUS
  <2>3. \A n \in T : n \in 0..Len(Profiles) /\ ~Given(n) OBVIOUS
  <2> HIDE DEF T
  <2>4. PICK m \in T : \A n \in T : m <= n BY <2>1, LeastNumber
  <2>5. m # 0 BY <2>3, <2>4, GivenAtFirst
  <2>6. m - 1 \in 0..Len(Profiles) /\ m - 1 \notin T BY <1>0, <2>1, <2>3, <2>4, <2>5
  <2>7. m \in 1..Len(Profiles) BY <1>0, <2>3, <2>4, <2>5
  <2>8. QED BY <2>2, <2>3, <2>4, <2>6, <2>7, GivenNext
<1>2. Given(Len(Profiles)) BY <1>0, <1>1
<1>3. Migrated \in Store BY <1>2 DEF Migrated, Store, Given
<1>4. ASSUME NEW c \in Collection PROVE Migrated.armed[c] = FirstArmed(c)
  <2>1. \A i, j \in FirstArming(c) : i = j
    <3>1. ASSUME NEW i \in FirstArming(c), NEW j \in FirstArming(c), i < j PROVE FALSE
      <4>1. i \in 1..Len(Profiles) /\ j \in 1..Len(Profiles) BY <1>0 DEF FirstArming
      <4>2. i \in 1..j - 1 BY <1>0, <3>1, <4>1
      <4>3. QED BY <4>2 DEF FirstArming
    <3>2. FirstArming(c) \subseteq Int BY <1>0 DEF FirstArming
    <3>3. QED BY <3>1, <3>2
  <2>2. CASE Taken[Len(Profiles)].armed[c] = {}
             /\ \A j \in 1..Len(Profiles) : Profiles[j].armed[c] = {}
    <3>1. FirstArming(c) = {} BY <1>0, <2>2 DEF FirstArming
    <3>2. QED BY <2>2, <3>1 DEF FirstArmed, Migrated
  <2>3. ASSUME NEW i \in FirstArming(c), Taken[Len(Profiles)].armed[c] = Profiles[i].armed[c]
        PROVE  Migrated.armed[c] = FirstArmed(c)
    <3>1. FirstArming(c) = {i} BY <2>1
    <3>2. FirstArmed(c) = Profiles[i].armed[c] BY <3>1 DEF FirstArmed
    <3>3. QED BY <2>3, <3>2 DEF Migrated
  <2>4. QED BY <1>2, <2>2, <2>3 DEF Given
<1>5. QED BY <1>3, <1>4

LEMMA FirstArmedNames == \A c \in Collection : FirstArmed(c) \in SUBSET Name
<1>1. \A c \in Collection : Migrated.armed[c] \in SUBSET Name BY MigrationGivesFirst DEF Store
<1>2. QED BY <1>1, MigrationGivesFirst

-----------------------------------------------------------------------------
(* Memory: what each part of a handler leaves.                               *)

SesType == [active : BOOLEAN, paused : BOOLEAN, resumable : BOOLEAN, ticked : SUBSET Object]
AppType == [ses : SesType, by : {"dock", "stream", "record"}, listed : SUBSET Object,
            drawn : [running : BOOLEAN, enabled : BOOLEAN, checked : SUBSET Object],
            remembered : SUBSET Name, memoryOf : Collection \cup {None},
            dirty : BOOLEAN, unsaved : BOOLEAN, asking : Object \cup {None},
            options : SUBSET Option,
            config : [options : SUBSET Option, enc : Encoder \cup {None}, live : BOOLEAN],
            kept : Store]
ObsType == [phase : {"off", "loading", "up", "changing", "closing"}, coll : Collection,
            content : [Collection -> SUBSET Name], live : BOOLEAN,
            rolling : {"off", "on", "paused"}, enc : Encoder \cup {None}]

LEMMA PresentObjects ==
    ASSUME NEW o \in ObsType
    PROVE  Present(o) \in SUBSET Object /\ \A x \in Present(o) : x[1] = o.coll
<1>1. o.coll \in Collection /\ o.content[o.coll] \in SUBSET Name BY DEF ObsType
<1>2. QED BY <1>1 DEF Present, Object

LEMMA LoadedIs ==
    ASSUME NEW a \in AppType, NEW o \in ObsType, NEW b, b = Loaded(a, o)
    PROVE  /\ b \in AppType
           /\ b.memoryOf = o.coll
           /\ b.remembered = IF a.memoryOf = o.coll THEN a.remembered ELSE a.kept.armed[o.coll]
           /\ b.ses = a.ses /\ b.by = a.by /\ b.listed = a.listed /\ b.drawn = a.drawn
           /\ b.dirty = a.dirty /\ b.unsaved = a.unsaved /\ b.asking = a.asking
           /\ b.options = a.options /\ b.config = a.config /\ b.kept = a.kept
<1>1. o.coll \in Collection /\ a.kept.armed[o.coll] \in SUBSET Name BY DEF ObsType, AppType, Store
<1>2. QED BY <1>1 DEF Loaded, ArmedIn, AppType

LEMMA RestoredIs ==
    ASSUME NEW a \in AppType, NEW o \in ObsType, NEW b, b = Restored(a, o)
    PROVE  /\ b \in AppType
           /\ b.ses.active = a.ses.active /\ b.ses.paused = a.ses.paused
           /\ b.ses.resumable = a.ses.resumable
           /\ b.ses.ticked = IF a.ses.active THEN a.ses.ticked
                             ELSE a.ses.ticked \cup {x \in Present(o) : NameOf(x) \in a.remembered}
           /\ b.memoryOf = a.memoryOf /\ b.remembered = a.remembered
           /\ b.by = a.by /\ b.listed = a.listed /\ b.drawn = a.drawn
           /\ b.dirty = a.dirty /\ b.unsaved = a.unsaved /\ b.asking = a.asking
           /\ b.options = a.options /\ b.config = a.config /\ b.kept = a.kept
<1> DEFINE S == {x \in Present(o) : NameOf(x) \in a.remembered}
           t == [a.ses EXCEPT !.ticked = @ \cup S]
<1>1. S \in SUBSET Object BY PresentObjects
<1>2. a.ses \in SesType BY DEF AppType
<1> HIDE DEF S
<1>3. t \in SesType /\ t.active = a.ses.active /\ t.paused = a.ses.paused
      /\ t.resumable = a.ses.resumable /\ t.ticked = a.ses.ticked \cup S
  BY <1>1, <1>2 DEF SesType
<1>4. b = IF a.ses.active THEN a ELSE [a EXCEPT !.ses = t]
  BY DEF Restored, Session!Ticking, S
<1> HIDE DEF t
<1>5. CASE a.ses.active BY <1>4, <1>5
<1>6. CASE ~a.ses.active
  <2>1. b = [a EXCEPT !.ses = t] BY <1>4, <1>6
  <2>2. b \in AppType BY <1>3, <2>1 DEF AppType
  <2>3. b.ses = t BY <2>1 DEF AppType
  <2>4. /\ b.memoryOf = a.memoryOf /\ b.remembered = a.remembered
        /\ b.by = a.by /\ b.listed = a.listed /\ b.drawn = a.drawn
        /\ b.dirty = a.dirty /\ b.unsaved = a.unsaved /\ b.asking = a.asking
        /\ b.options = a.options /\ b.config = a.config /\ b.kept = a.kept
    BY <2>1 DEF AppType
  <2>5. QED BY <1>3, <1>6, <2>2, <2>3, <2>4 DEF S
<1>7. QED BY <1>5, <1>6

Drawing(a, o, b) ==
    /\ b \in AppType
    /\ b.listed = Present(o) /\ b.drawn.running = a.ses.active
    /\ b.drawn.enabled <=> (a.ses.active \/ a.ses.ticked # {})
    /\ b.drawn.checked = a.ses.ticked \cap Present(o)
    /\ b.ses = a.ses /\ b.memoryOf = a.memoryOf /\ b.remembered = a.remembered
    /\ b.by = a.by /\ b.dirty = a.dirty /\ b.unsaved = a.unsaved /\ b.asking = a.asking
    /\ b.options = a.options /\ b.config = a.config /\ b.kept = a.kept

LEMMA DrawnIs ==
    ASSUME NEW a \in AppType, NEW o \in ObsType, NEW b, b = Drawn(a, o) PROVE Drawing(a, o, b)
<1> DEFINE d == [running |-> a.ses.active, enabled |-> a.ses.active \/ a.ses.ticked # {},
                 checked |-> a.ses.ticked \cap Present(o)]
<1>1. Present(o) \in SUBSET Object BY PresentObjects
<1>2. a.ses.active \in BOOLEAN /\ a.ses.ticked \in SUBSET Object BY DEF AppType, SesType
<1>3. d \in [running : BOOLEAN, enabled : BOOLEAN, checked : SUBSET Object] BY <1>1, <1>2
<1>4. /\ d.running = a.ses.active /\ d.enabled = (a.ses.active \/ a.ses.ticked # {})
      /\ d.checked = a.ses.ticked \cap Present(o)
  OBVIOUS
<1>5. b = [a EXCEPT !.listed = Present(o), !.drawn = d] BY DEF Drawn
<1> HIDE DEF d
<1>6. b \in AppType BY <1>1, <1>3, <1>5 DEF AppType
<1>7. /\ b.listed = Present(o) /\ b.drawn = d
      /\ b.ses = a.ses /\ b.memoryOf = a.memoryOf /\ b.remembered = a.remembered
      /\ b.by = a.by /\ b.dirty = a.dirty /\ b.unsaved = a.unsaved /\ b.asking = a.asking
      /\ b.options = a.options /\ b.config = a.config /\ b.kept = a.kept
  BY <1>5 DEF AppType
<1>8. QED BY <1>4, <1>6, <1>7 DEF Drawing

\* refreshSources: the ticks of the collection are loaded if they are not, put back
\* if the session is idle, and drawn.
Refreshing(a, o, b) ==
    /\ b \in AppType
    /\ b.memoryOf = o.coll
    /\ b.remembered = IF a.memoryOf = o.coll THEN a.remembered ELSE a.kept.armed[o.coll]
    /\ b.ses.active = a.ses.active /\ b.ses.paused = a.ses.paused
    /\ b.ses.resumable = a.ses.resumable
    /\ b.ses.ticked = IF a.ses.active THEN a.ses.ticked
                      ELSE a.ses.ticked \cup {x \in Present(o) : NameOf(x) \in b.remembered}
    /\ b.listed = Present(o) /\ b.drawn.running = a.ses.active
    /\ b.drawn.enabled <=> (a.ses.active \/ b.ses.ticked # {})
    /\ b.drawn.checked = b.ses.ticked \cap Present(o)
    /\ b.by = a.by /\ b.dirty = a.dirty /\ b.unsaved = a.unsaved /\ b.asking = a.asking
    /\ b.options = a.options /\ b.config = a.config /\ b.kept = a.kept

LEMMA RefreshedIs ==
    ASSUME NEW a \in AppType, NEW o \in ObsType PROVE Refreshing(a, o, Refreshed(a, o))
<1> DEFINE b == Loaded(a, o)
           c == Restored(b, o)
           d == Drawn(c, o)
<1>1. Refreshed(a, o) = d BY DEF Refreshed
<1> HIDE DEF d
<1>2. d = Drawn(c, o) BY DEF d
<1> HIDE DEF c
<1>3. c = Restored(b, o) BY DEF c
<1> HIDE DEF b
<1>4. b = Loaded(a, o) BY DEF b
<1>5. /\ b \in AppType
      /\ b.memoryOf = o.coll
      /\ b.remembered = IF a.memoryOf = o.coll THEN a.remembered ELSE a.kept.armed[o.coll]
      /\ b.ses = a.ses /\ b.by = a.by
      /\ b.dirty = a.dirty /\ b.unsaved = a.unsaved /\ b.asking = a.asking
      /\ b.options = a.options /\ b.config = a.config /\ b.kept = a.kept
  BY <1>4, LoadedIs
<1>6. /\ c \in AppType
      /\ c.ses.active = b.ses.active /\ c.ses.paused = b.ses.paused
      /\ c.ses.resumable = b.ses.resumable
      /\ c.ses.ticked = IF b.ses.active THEN b.ses.ticked
                        ELSE b.ses.ticked \cup {x \in Present(o) : NameOf(x) \in b.remembered}
      /\ c.memoryOf = b.memoryOf /\ c.remembered = b.remembered /\ c.by = b.by
      /\ c.dirty = b.dirty /\ c.unsaved = b.unsaved /\ c.asking = b.asking
      /\ c.options = b.options /\ c.config = b.config /\ c.kept = b.kept
  BY <1>3, <1>5, RestoredIs
<1>7. Drawing(c, o, d)
  <2>1. c \in AppType BY <1>6
  <2>2. QED BY <1>2, <2>1, DrawnIs
<1>8. QED BY <1>1, <1>5, <1>6, <1>7 DEF Refreshing, Drawing

SameMemory(a, b) ==
    /\ b.memoryOf = a.memoryOf /\ b.remembered = a.remembered
    /\ b.dirty = a.dirty /\ b.unsaved = a.unsaved
    /\ b.options = a.options /\ b.kept = a.kept
SameList(a, b) == b.listed = a.listed /\ b.drawn = a.drawn /\ b.asking = a.asking
SameSession(a, b) == b.ses = a.ses /\ b.by = a.by /\ b.config = a.config

\* refreshSessionConfig: a session that is off gets the options and the encoder.
Configuring(a, o, b) ==
    /\ b \in AppType
    /\ b.ses = a.ses /\ b.by = a.by /\ SameMemory(a, b) /\ SameList(a, b)
    /\ a.ses.active => b.config.options = a.config.options /\ b.config.enc = a.config.enc
    /\ ~a.ses.active => /\ b.config.options = a.options /\ b.config.live
                        /\ b.config.enc = Resolved(a.options, o)

LEMMA ConfiguredIs ==
    ASSUME NEW a \in AppType, NEW o \in ObsType PROVE Configuring(a, o, Configured(a, o))
<1> DEFINE b == Configured(a, o)
           quiet == [a.config EXCEPT !.live = FALSE]
           fresh == [options |-> a.options, enc |-> Resolved(a.options, o), live |-> TRUE]
           Config == [options : SUBSET Option, enc : Encoder \cup {None}, live : BOOLEAN]
<1>1. a.config \in Config BY DEF AppType
<1>2. quiet \in Config /\ quiet.options = a.config.options /\ quiet.enc = a.config.enc BY <1>1
<1>3. Resolved(a.options, o) \in Encoder \cup {None} BY DEF Resolved, ObsType
<1>4. fresh \in Config BY <1>3 DEF AppType
<1>5. /\ fresh.options = a.options /\ fresh.live = TRUE /\ fresh.enc = Resolved(a.options, o)
  OBVIOUS
<1>6. b = [a EXCEPT !.config = IF a.ses.active THEN quiet ELSE fresh] BY DEF Configured
<1> HIDE DEF b, quiet, fresh
<1>7. b \in AppType BY <1>2, <1>4, <1>6 DEF AppType
<1>8. b.config = IF a.ses.active THEN quiet ELSE fresh BY <1>6 DEF AppType
<1>9. b.ses = a.ses /\ b.by = a.by /\ SameMemory(a, b) /\ SameList(a, b)
  BY <1>6 DEF AppType, SameMemory, SameList
<1>10. Configuring(a, o, b) BY <1>2, <1>5, <1>7, <1>8, <1>9 DEF Configuring
<1>11. QED BY <1>10 DEF b

\* The session of memory a is replaced by t.
Becoming(a, t, who, b) ==
    /\ b \in AppType /\ b.ses = t /\ b.by = who /\ b.config = a.config
    /\ SameMemory(a, b) /\ SameList(a, b)

LEMMA SessionBecomes ==
    ASSUME NEW a \in AppType, NEW t \in SesType, NEW who \in {"dock", "stream", "record"}
    PROVE  /\ Becoming(a, t, a.by, [a EXCEPT !.ses = t])
           /\ Becoming(a, t, who, [a EXCEPT !.by = who, !.ses = t])
<1>1. Becoming(a, t, a.by, [a EXCEPT !.ses = t])
  BY DEF Becoming, AppType, SameMemory, SameList
<1>2. Becoming(a, t, who, [a EXCEPT !.by = who, !.ses = t])
  <2> DEFINE b == [a EXCEPT !.by = who]
             c == [b EXCEPT !.ses = t]
  <2>1. b \in AppType BY DEF AppType
  <2>2. /\ b.by = who /\ b.config = a.config /\ SameMemory(a, b) /\ SameList(a, b)
    BY DEF AppType, SameMemory, SameList
  <2> HIDE DEF b
  <2>3. Becoming(b, t, b.by, c) BY <2>1 DEF Becoming, AppType, SameMemory, SameList
  <2>4. Becoming(a, t, who, c) BY <2>2, <2>3 DEF Becoming, SameMemory, SameList
  <2>5. QED BY <2>4 DEF b
<1>3. QED BY <1>1, <1>2

\* stop(), releaseSources and the dropping or unticking of the sources in S.
LEMMA StoppedIs ==
    ASSUME NEW a \in AppType, NEW resumable \in BOOLEAN
    PROVE  LET b == Stopped(a, resumable)
           IN  /\ b \in AppType /\ ~b.ses.active /\ b.by = a.by /\ b.config = a.config
               /\ b.ses.ticked = IF a.ses.active THEN {} ELSE a.ses.ticked
               /\ SameMemory(a, b) /\ SameList(a, b)
<1> DEFINE t == Session!Stopping(a.ses, resumable)
<1>1. t \in SesType /\ ~t.active /\ t.ticked = {} BY SMTT(60) DEF Session!Stopping, SesType
<1>2. Becoming(a, t, a.by, [a EXCEPT !.ses = t])
  <2> HIDE DEF t
  <2>1. a.by \in {"dock", "stream", "record"} BY DEF AppType
  <2>2. QED BY <1>1, <2>1, SessionBecomes
<1>3. Stopped(a, resumable) = IF a.ses.active THEN [a EXCEPT !.ses = t] ELSE a BY DEF Stopped
<1> HIDE DEF t
<1>4. QED BY <1>1, <1>2, <1>3, SMTT(60) DEF Becoming, SameMemory, SameList

LEMMA UntickedIs ==
    ASSUME NEW a \in AppType, NEW S
    PROVE  LET b == [a EXCEPT !.ses = Session!Unticking(@, S)]
           IN  /\ b \in AppType /\ b.ses.active = a.ses.active /\ b.ses.paused = a.ses.paused
               /\ b.by = a.by /\ b.config = a.config
               /\ b.ses.ticked = a.ses.ticked \ S
               /\ SameMemory(a, b) /\ SameList(a, b)
<1> DEFINE t == Session!Unticking(a.ses, S)
<1>0. a.ses \in SesType /\ a.by \in {"dock", "stream", "record"} BY DEF AppType
<1>1. /\ t \in SesType /\ t.active = a.ses.active /\ t.paused = a.ses.paused
      /\ t.ticked = a.ses.ticked \ S
  BY <1>0 DEF Session!Unticking, SesType
<1>2. [a EXCEPT !.ses = Session!Unticking(@, S)] = [a EXCEPT !.ses = t] OBVIOUS
<1> HIDE DEF t
<1>3. Becoming(a, t, a.by, [a EXCEPT !.ses = t]) BY <1>0, <1>1, SessionBecomes
<1>4. QED BY <1>1, <1>2, <1>3 DEF Becoming

\* startWithReport: the session runs unpaused, or its state is what it was.
StartingBy(a, who, b) ==
    /\ b \in AppType /\ b.ses.ticked = a.ses.ticked /\ b.config = a.config
    /\ SameMemory(a, b) /\ SameList(a, b)
    /\ b.ses.active => ~b.ses.paused /\ b.by = who

LEMMA StartedByIs ==
    ASSUME NEW a \in AppType, ~a.ses.active, NEW who \in {"dock", "stream", "record"},
           NEW outcome \in Outcomes
    PROVE  StartingBy(a, who, StartedBy(a, who, outcome))
<1>0. a.ses \in SesType BY DEF AppType
<1>1. ASSUME NEW t \in SesType, t.ticked = a.ses.ticked, t.active => ~t.paused
      PROVE  StartingBy(a, who, [a EXCEPT !.by = who, !.ses = t])
  <2>1. Becoming(a, t, who, [a EXCEPT !.by = who, !.ses = t]) BY <1>1, SessionBecomes
  <2>2. QED BY <1>1, <2>1, SMTT(60) DEF Becoming, StartingBy
<1>2. CASE outcome = "refused"
  <2>1. StartedBy(a, who, outcome) = a BY <1>2 DEF StartedBy
  <2>2. QED BY <2>1 DEF StartingBy, SameMemory, SameList
<1>3. CASE outcome = "noFolder"
  <2> DEFINE t == Session!Refusing(a.ses)
  <2>1. t \in SesType /\ t.ticked = a.ses.ticked /\ ~t.active
    BY <1>0 DEF Session!Refusing, SesType
  <2>2. StartedBy(a, who, outcome) = [a EXCEPT !.by = who, !.ses = t] BY <1>3 DEF StartedBy
  <2> HIDE DEF t
  <2>3. QED BY <1>1, <2>1, <2>2
<1>4. CASE outcome = "runs"
  <2> DEFINE t == Session!Starting(a.ses)
  <2>1. t \in SesType /\ t.ticked = a.ses.ticked /\ ~t.paused
    BY <1>0 DEF Session!Starting, SesType
  <2>2. StartedBy(a, who, outcome) = [a EXCEPT !.by = who, !.ses = t] BY <1>4 DEF StartedBy
  <2> HIDE DEF t
  <2>3. QED BY <1>1, <2>1, <2>2
<1>5. QED BY <1>2, <1>3, <1>4 DEF Outcomes

\* STREAMING_STARTED and RECORDING_STARTED: whatever runs now, its options were the
\* ones it was configured with.
LEMMA StartedWithIs ==
    ASSUME NEW a \in AppType, NEW who \in {"dock", "stream", "record"}, NEW option,
           NEW outcome \in Outcomes, NEW b, b = StartedWith(a, option, who, outcome)
    PROVE  /\ b \in AppType /\ b.ses.ticked = a.ses.ticked /\ b.config = a.config
           /\ SameMemory(a, b) /\ SameList(a, b)
           /\ a.ses.active => b = a
           /\ ~a.ses.active /\ b.ses.active => ~b.ses.paused /\ b.by = who
<1>1. CASE b = a BY <1>1 DEF SameMemory, SameList
<1>2. CASE ~a.ses.active /\ b = StartedBy(a, who, outcome)
  <2>1. StartingBy(a, who, b) BY <1>2, StartedByIs
  <2>2. QED BY <1>2, <2>1 DEF StartingBy
<1>3. QED BY <1>1, <1>2 DEF StartedWith

\* rememberArmed: the names are not saved yet.
Noting(a, names, b) ==
    /\ b \in AppType /\ b.ses = a.ses /\ b.by = a.by /\ b.config = a.config
    /\ b.memoryOf = a.memoryOf /\ b.kept = a.kept /\ b.options = a.options
    /\ b.dirty /\ b.remembered = names /\ SameList(a, b)

LEMMA NotingIs ==
    ASSUME NEW a \in AppType, NEW n \in Name
    PROVE  /\ Noting(a, a.remembered \cup {n}, Remembering(a, n))
           /\ Noting(a, a.remembered \ {n}, Forgetting(a, n))
<1>1. Noting(a, a.remembered \cup {n}, Remembering(a, n))
  BY DEF Noting, Remembering, AppType, SameList
<1>2. Noting(a, a.remembered \ {n}, Forgetting(a, n))
  BY DEF Noting, Forgetting, AppType, SameList
<1>3. QED BY <1>1, <1>2

\* saveSettings: the store has what is remembered, also when it is saved again.
SavingIs(a, ok, b) ==
    /\ b \in AppType /\ b.ses = a.ses /\ b.by = a.by /\ b.config = a.config
    /\ b.memoryOf = a.memoryOf /\ b.remembered = a.remembered /\ b.options = a.options
    /\ ~b.dirty /\ (b.unsaved <=> ~ok) /\ b.kept = Stored(a) /\ Stored(b) = Stored(a)
    /\ SameList(a, b)

LEMMA StoredIs ==
    ASSUME NEW a \in AppType, a.memoryOf \in Collection
    PROVE  /\ Stored(a) \in Store /\ Stored(a).options = a.options
           /\ \A c \in Collection :
                 Stored(a).armed[c] = IF c = a.memoryOf THEN a.remembered ELSE a.kept.armed[c]
<1>1. a.kept \in Store /\ a.remembered \in SUBSET Name /\ a.options \in SUBSET Option
  BY DEF AppType
<1>2. QED BY <1>1 DEF Stored, Saved, Store

LEMMA SavedIs ==
    ASSUME NEW a \in AppType, NEW ok \in BOOLEAN, a.memoryOf \in Collection
    PROVE  SavingIs(a, ok, Saving(a, ok))
<1> DEFINE s == Stored(a)
           no == ~ok
           b == [a EXCEPT !.kept = s, !.dirty = FALSE, !.unsaved = no]
<1>1. s \in Store BY StoredIs
<1>2. Saving(a, ok) = b BY DEF Saving
<1>3. no \in BOOLEAN /\ (no <=> ~ok) OBVIOUS
<1> HIDE DEF s, no
<1>4. b \in AppType BY <1>1, <1>3 DEF AppType
<1>5. /\ b.ses = a.ses /\ b.by = a.by /\ b.config = a.config
      /\ b.memoryOf = a.memoryOf /\ b.remembered = a.remembered /\ b.options = a.options
      /\ b.dirty = FALSE /\ b.unsaved = no /\ b.kept = s /\ SameList(a, b)
  BY DEF AppType, SameList
<1> HIDE DEF b
<1>6. Stored(b) = Stored(a)
  <2>1. s = [armed |-> [a.kept.armed EXCEPT ![a.memoryOf] = a.remembered], options |-> a.options]
    BY DEF s, Stored, Saved
  <2>2. a.kept.armed \in [Collection -> SUBSET Name] BY DEF AppType, Store
  <2>3. s.armed = [a.kept.armed EXCEPT ![a.memoryOf] = a.remembered] BY <2>1
  <2>4. [s.armed EXCEPT ![a.memoryOf] = a.remembered] = s.armed BY <2>2, <2>3
  <2>5. Stored(b) = [armed |-> [s.armed EXCEPT ![a.memoryOf] = a.remembered], options |-> a.options]
    BY <1>5 DEF Stored, Saved
  <2>6. QED BY <2>1, <2>3, <2>4, <2>5 DEF s
<1>7. QED BY <1>2, <1>3, <1>4, <1>5, <1>6 DEF SavingIs, s
-----------------------------------------------------------------------------
(* The invariant.                                                            *)

Typed ==
    /\ obs \in ObsType /\ app \in AppType /\ file \in Store \cup {None}
    /\ wanted \in [Collection -> SUBSET Name]
    /\ app.drawn.checked \subseteq app.listed

\* What the plugin holds is of the current collection, and nothing is left where
\* OBS removes sources.
HeldInv ==
    /\ obs.phase # "up" => ~app.ses.active /\ app.asking = None /\ ~app.dirty
    /\ obs.phase \in {"changing", "closing"} => app.ses.ticked = {} /\ app.listed = {}
    /\ obs.phase = "off" => app = NoApp
    /\ obs.phase # "off" => app.memoryOf = obs.coll
    /\ \A x \in app.ses.ticked \cup app.listed : x[1] = obs.coll
    /\ app.asking # None => app.asking[1] = obs.coll

\* The store in memory is the dock's as soon as nothing waits to be saved.
MemoryInv ==
    /\ obs.phase = "off" => wanted = OnDisk
    /\ RememberedIsWanted
    /\ obs.phase # "off" /\ ~app.dirty => app.kept = Stored(app)
    /\ obs.phase # "off" /\ ~app.dirty /\ ~app.unsaved => file = app.kept

\* The rows are drawn, whether or not their sources are still there.
DockInv ==
    obs.phase \in {"loading", "up"} /\ app.asking = None =>
        /\ app.drawn.running = app.ses.active
        /\ app.ses.active \/ app.ses.ticked # {} => app.drawn.enabled
        /\ app.drawn.checked = app.ses.ticked \cap app.listed

PluginInv == Typed /\ HeldInv /\ SessionFollowsItsStarter /\ MemoryInv /\ DockInv

\* SessionFollowsItsStarter, of any memory.
Following(a, o) ==
    a.ses.active =>
        CASE a.by = "stream" -> /\ o.live /\ ~a.ses.paused
                                /\ "sameAsStream" \in a.config.options => a.config.enc = o.enc
          [] a.by = "record" -> /\ o.rolling # "off"
                                /\ a.ses.paused <=> o.rolling = "paused"
          [] a.by = "dock"   -> ~a.ses.paused

LEMMA FollowingIs == SessionFollowsItsStarter <=> Following(app, obs)
BY DEF SessionFollowsItsStarter, Following

\* A handler that ends by drawing the list, in memory b: what b must have kept.
ReadyToDraw(b) ==
    /\ b \in AppType /\ obs' \in ObsType /\ wanted' \in [Collection -> SUBSET Name]
    /\ obs.phase = "up" /\ obs'.phase = "up" /\ obs'.coll = obs.coll
    /\ app' = Refreshed(b, obs') /\ file' = file
    /\ b.memoryOf = app.memoryOf /\ b.kept = app.kept
    /\ \A x \in b.ses.ticked : x[1] = obs.coll
    /\ b.asking # None => b.asking[1] = obs.coll
    /\ \A c \in Collection :
          wanted'[c] = IF c = obs.coll THEN b.remembered ELSE app.kept.armed[c]
    /\ b.dirty \/ SameMemory(app, b)
    /\ Following(b, obs')

LEMMA DrawingKeeps ==
    ASSUME PluginInv, NEW b, ReadyToDraw(b) PROVE PluginInv'
<1> DEFINE a == app'
<1>1. Refreshing(b, obs', a)
  <2>1. b \in AppType /\ obs' \in ObsType BY DEF ReadyToDraw
  <2>2. Refreshing(b, obs', Refreshed(b, obs')) BY <2>1, RefreshedIs
  <2>3. QED BY <2>2 DEF ReadyToDraw
<1>2. Present(obs') \in SUBSET Object /\ \A x \in Present(obs') : x[1] = obs.coll
  BY PresentObjects DEF ReadyToDraw
<1>3. app.memoryOf = obs.coll BY DEF PluginInv, HeldInv, ReadyToDraw
<1>4. a.remembered = b.remembered /\ a.memoryOf = obs.coll BY <1>1, <1>3 DEF Refreshing, ReadyToDraw
<1>5. Typed' BY <1>1 DEF Refreshing, ReadyToDraw, PluginInv, Typed
<1>6. HeldInv'
  <2>1. \A x \in a.ses.ticked \cup a.listed : x[1] = obs.coll
    BY <1>1, <1>2 DEF Refreshing, ReadyToDraw
  <2>2. QED BY <1>1, <2>1 DEF Refreshing, ReadyToDraw, HeldInv
<1>7. SessionFollowsItsStarter'
  <2>1. Following(a, obs') BY <1>1, ZenonT(60) DEF Refreshing, ReadyToDraw, Following
  <2>2. QED BY <2>1 DEF SessionFollowsItsStarter, Following
<1>8. MemoryInv'
  <2>1. RememberedIsWanted'
    BY <1>1, <1>4 DEF Refreshing, ReadyToDraw, RememberedIsWanted, ArmedIn
  <2>2. ASSUME ~a.dirty
        PROVE  a.kept = Stored(a) /\ (~a.unsaved => file' = a.kept)
    <3>1. ~b.dirty /\ SameMemory(app, b) BY <1>1, <2>2 DEF Refreshing, ReadyToDraw
    <3>2. ~app.dirty /\ app.kept = Stored(app) /\ (~app.unsaved => file = app.kept)
      BY <3>1 DEF SameMemory, PluginInv, MemoryInv, ReadyToDraw
    <3>3. Stored(a) = Stored(app)
      BY <1>1, <1>3, <1>4, <3>1 DEF Stored, Saved, SameMemory, Refreshing
    <3>4. a.kept = app.kept /\ (a.unsaved <=> app.unsaved)
      BY <1>1, <3>1 DEF Refreshing, SameMemory
    <3>5. QED BY <3>2, <3>3, <3>4 DEF ReadyToDraw
  <2>3. QED BY <2>1, <2>2 DEF MemoryInv, ReadyToDraw
<1>9. DockInv'
  <2>1. a.drawn.running = a.ses.active BY <1>1 DEF Refreshing
  <2>2. a.ses.active \/ a.ses.ticked # {} => a.drawn.enabled BY <1>1 DEF Refreshing
  <2>3. a.drawn.checked = a.ses.ticked \cap a.listed BY <1>1 DEF Refreshing
  <2>4. QED BY <2>1, <2>2, <2>3 DEF DockInv
<1>10. QED BY <1>5, <1>6, <1>7, <1>8, <1>9 DEF PluginInv

\* An event in which nothing is ticked or unticked by hand.
LEMMA EventKeeps ==
    ASSUME PluginInv, obs.phase = "up", obs' \in ObsType, obs'.phase = "up", obs'.coll = obs.coll,
           NEW b \in AppType, app' = Refreshed(b, obs'), UNCHANGED <<file, wanted>>,
           SameMemory(app, b), b.asking = app.asking, b.ses.ticked \subseteq app.ses.ticked,
           Following(b, obs')
    PROVE  PluginInv'
<1>1. app.memoryOf = obs.coll BY DEF PluginInv, HeldInv
<1>2. \A c \in Collection :
          wanted'[c] = IF c = obs.coll THEN b.remembered ELSE app.kept.armed[c]
  BY <1>1 DEF PluginInv, MemoryInv, RememberedIsWanted, ArmedIn, SameMemory
<1>3. /\ \A x \in b.ses.ticked : x[1] = obs.coll
      /\ b.asking # None => b.asking[1] = obs.coll
  BY DEF PluginInv, HeldInv
<1>4. b.memoryOf = app.memoryOf /\ b.kept = app.kept BY DEF SameMemory
<1>5. wanted' \in [Collection -> SUBSET Name] BY DEF PluginInv, Typed
<1>6. ReadyToDraw(b) BY <1>2, <1>3, <1>4, <1>5 DEF ReadyToDraw
<1>7. QED BY <1>6, DrawingKeeps

LEMMA StreamStartsKeeps ==
    ASSUME PluginInv, NEW outcome \in Outcomes, StreamStarts(outcome) PROVE PluginInv'
<1> DEFINE a == Configured(app, obs')
           b == StartedWith(a, "withStream", "stream", outcome)
<1>0. app \in AppType /\ obs \in ObsType BY DEF PluginInv, Typed
<1>1. PICK enc \in Encoder : obs' = [obs EXCEPT !.live = TRUE, !.enc = enc] BY DEF StreamStarts
<1>2. obs' \in ObsType /\ obs'.live /\ obs'.enc \in Encoder /\ obs'.phase = obs.phase
      /\ obs'.coll = obs.coll /\ obs'.rolling = obs.rolling
  BY <1>0, <1>1 DEF ObsType
<1>3. Configuring(app, obs', a) BY <1>0, <1>2, ConfiguredIs
<1>4. app' = Refreshed(b, obs') /\ obs.phase = "up" /\ ~obs.live /\ UNCHANGED <<file, wanted>>
  BY DEF StreamStarts, Up
<1> HIDE DEF a
<1>5. a \in AppType BY <1>3 DEF Configuring
<1>6. /\ b \in AppType /\ b.ses.ticked = a.ses.ticked /\ b.config = a.config
      /\ SameMemory(a, b) /\ SameList(a, b)
      /\ a.ses.active => b = a
      /\ ~a.ses.active /\ b.ses.active => ~b.ses.paused /\ b.by = "stream"
  BY <1>5, StartedWithIs
<1> HIDE DEF b
<1>7. SameMemory(app, b) /\ b.asking = app.asking /\ b.ses.ticked \subseteq app.ses.ticked
  BY <1>3, <1>6 DEF Configuring, SameMemory, SameList
<1>8. Following(app, obs) BY FollowingIs DEF PluginInv
<1>9. Following(b, obs')
  <2>1. CASE a.ses.active
    <3>1. b = a /\ app.ses.active /\ a.by = app.by /\ a.ses = app.ses BY <1>3, <1>6, <2>1 DEF Configuring
    <3>2. app.by # "stream" BY <1>4, <1>8, <3>1 DEF Following
    <3>3. app.by \in {"dock", "stream", "record"} BY <1>0 DEF AppType
    <3>4. QED BY <1>2, <1>8, <3>1, <3>2, <3>3 DEF Following
  <2>2. CASE ~a.ses.active
    <3>1. b.config.options = app.options /\ b.config.enc = Resolved(app.options, obs')
      BY <1>3, <1>6, <2>2 DEF Configuring
    <3>2. "sameAsStream" \in b.config.options => b.config.enc = obs'.enc
      BY <1>2, <3>1 DEF Resolved
    <3>3. QED BY <1>2, <1>6, <2>2, <3>2 DEF Following
  <2>3. QED BY <2>1, <2>2
<1>10. QED BY <1>2, <1>4, <1>6, <1>7, <1>9, EventKeeps

LEMMA StreamStopsKeeps ==
    ASSUME PluginInv, StreamStops PROVE PluginInv'
<1> DEFINE b == IF app.by # "record" THEN Stopped(app, FALSE) ELSE app
           c == Stopped(app, FALSE)
<1>0. app \in AppType /\ obs \in ObsType BY DEF PluginInv, Typed
<1>1. obs' = [obs EXCEPT !.live = FALSE] BY DEF StreamStops
<1>2. obs' \in ObsType /\ obs'.phase = obs.phase /\ obs'.coll = obs.coll
      /\ obs'.rolling = obs.rolling /\ obs'.enc = obs.enc
  BY <1>0, <1>1 DEF ObsType
<1>3. app' = Refreshed(b, obs') /\ obs.phase = "up" /\ UNCHANGED <<file, wanted>>
  BY DEF StreamStops, Up
<1>4. /\ c \in AppType /\ ~c.ses.active /\ c.by = app.by
      /\ c.ses.ticked = IF app.ses.active THEN {} ELSE app.ses.ticked
      /\ SameMemory(app, c) /\ SameList(app, c)
  BY <1>0, StoppedIs
<1> HIDE DEF c
<1>5. b = IF app.by # "record" THEN c ELSE app BY DEF c
<1> HIDE DEF b
<1>6. b \in AppType /\ SameMemory(app, b) /\ b.asking = app.asking
      /\ b.ses.ticked \subseteq app.ses.ticked
  BY <1>0, <1>4, <1>5 DEF SameMemory, SameList
<1>7. Following(app, obs) BY FollowingIs DEF PluginInv
<1>8. Following(b, obs') BY <1>2, <1>4, <1>5, <1>7 DEF Following
<1>9. QED BY <1>2, <1>3, <1>6, <1>8, EventKeeps

LEMMA RecordingStartsKeeps ==
    ASSUME PluginInv, NEW outcome \in Outcomes, RecordingStarts(outcome) PROVE PluginInv'
<1> DEFINE a == Configured(app, obs')
           b == StartedWith(a, "withRecording", "record", outcome)
<1>0. app \in AppType /\ obs \in ObsType BY DEF PluginInv, Typed
<1>1. obs' = [obs EXCEPT !.rolling = "on"] BY DEF RecordingStarts
<1>2. obs' \in ObsType /\ obs'.rolling = "on" /\ obs'.phase = obs.phase
      /\ obs'.coll = obs.coll /\ obs'.live = obs.live /\ obs'.enc = obs.enc
  BY <1>0, <1>1 DEF ObsType
<1>3. Configuring(app, obs', a) BY <1>0, <1>2, ConfiguredIs
<1>4. app' = Refreshed(b, obs') /\ obs.phase = "up" /\ obs.rolling = "off"
      /\ UNCHANGED <<file, wanted>>
  BY DEF RecordingStarts, Up
<1> HIDE DEF a
<1>5. a \in AppType BY <1>3 DEF Configuring
<1>6. /\ b \in AppType /\ b.ses.ticked = a.ses.ticked /\ b.config = a.config
      /\ SameMemory(a, b) /\ SameList(a, b)
      /\ a.ses.active => b = a
      /\ ~a.ses.active /\ b.ses.active => ~b.ses.paused /\ b.by = "record"
  BY <1>5, StartedWithIs
<1> HIDE DEF b
<1>7. SameMemory(app, b) /\ b.asking = app.asking /\ b.ses.ticked \subseteq app.ses.ticked
  BY <1>3, <1>6 DEF Configuring, SameMemory, SameList
<1>8. Following(app, obs) BY FollowingIs DEF PluginInv
<1>9. Following(b, obs')
  <2>1. CASE a.ses.active
    <3>1. /\ b = a /\ app.ses.active /\ a.by = app.by /\ a.ses = app.ses
          /\ a.config.options = app.config.options /\ a.config.enc = app.config.enc
      BY <1>3, <1>6, <2>1 DEF Configuring
    <3>2. app.by # "record" BY <1>4, <1>8, <3>1 DEF Following
    <3>3. app.by \in {"dock", "stream", "record"} BY <1>0 DEF AppType
    <3>4. QED BY <1>2, <1>8, <3>1, <3>2, <3>3 DEF Following
  <2>2. CASE ~a.ses.active BY <1>2, <1>6, <2>2 DEF Following
  <2>3. QED BY <2>1, <2>2
<1>10. QED BY <1>2, <1>4, <1>6, <1>7, <1>9, EventKeeps

LEMMA RecordingStopsKeeps ==
    ASSUME PluginInv, RecordingStops PROVE PluginInv'
<1> DEFINE b == IF app.by = "record" THEN Stopped(app, FALSE) ELSE app
           c == Stopped(app, FALSE)
<1>0. app \in AppType /\ obs \in ObsType BY DEF PluginInv, Typed
<1>1. obs' = [obs EXCEPT !.rolling = "off"] BY DEF RecordingStops
<1>2. obs' \in ObsType /\ obs'.phase = obs.phase /\ obs'.coll = obs.coll
      /\ obs'.live = obs.live /\ obs'.enc = obs.enc
  BY <1>0, <1>1 DEF ObsType
<1>3. app' = Refreshed(b, obs') /\ obs.phase = "up" /\ UNCHANGED <<file, wanted>>
  BY DEF RecordingStops, Up
<1>4. /\ c \in AppType /\ ~c.ses.active /\ c.by = app.by
      /\ c.ses.ticked = IF app.ses.active THEN {} ELSE app.ses.ticked
      /\ SameMemory(app, c) /\ SameList(app, c)
  BY <1>0, StoppedIs
<1> HIDE DEF c
<1>5. b = IF app.by = "record" THEN c ELSE app BY DEF c
<1> HIDE DEF b
<1>6. b \in AppType /\ SameMemory(app, b) /\ b.asking = app.asking
      /\ b.ses.ticked \subseteq app.ses.ticked
  BY <1>0, <1>4, <1>5 DEF SameMemory, SameList
<1>7. Following(app, obs) BY FollowingIs DEF PluginInv
<1>8. app.by \in {"dock", "stream", "record"} BY <1>0 DEF AppType
<1>9. Following(b, obs') BY <1>2, <1>4, <1>5, <1>7, <1>8 DEF Following
<1>10. QED BY <1>2, <1>3, <1>6, <1>9, EventKeeps

LEMMA RecordingPausesKeeps ==
    ASSUME PluginInv, RecordingPauses PROVE PluginInv'
<1> DEFINE now == obs'.rolling = "paused"
           t == Session!PausingAs(app.ses, now)
           c == [app EXCEPT !.ses = t]
           b == IF app.by = "record" THEN c ELSE app
<1>0. app \in AppType /\ obs \in ObsType /\ app.ses \in SesType BY DEF PluginInv, Typed, AppType
<1>1. obs.rolling # "off" /\ obs' = [obs EXCEPT !.rolling = IF @ = "on" THEN "paused" ELSE "on"]
  BY DEF RecordingPauses
<1>2. obs' \in ObsType /\ obs'.phase = obs.phase /\ obs'.coll = obs.coll
      /\ obs'.live = obs.live /\ obs'.enc = obs.enc /\ obs'.rolling # "off"
  BY <1>0, <1>1 DEF ObsType
<1>3. app' = Refreshed(b, obs') /\ obs.phase = "up" /\ UNCHANGED <<file, wanted>>
  BY DEF RecordingPauses, Up
<1>4. now \in BOOLEAN OBVIOUS
<1> HIDE DEF now
<1>5. t \in SesType /\ t.active = app.ses.active /\ t.ticked = app.ses.ticked
      /\ (t.active => t.paused = now)
  BY <1>0, <1>4, SMTT(60) DEF Session!PausingAs, SesType
<1> HIDE DEF t
<1>6. Becoming(app, t, app.by, c)
  <2>1. app.by \in {"dock", "stream", "record"} BY <1>0 DEF AppType
  <2>2. QED BY <1>0, <1>5, <2>1, SessionBecomes
<1> HIDE DEF c
<1>7. c \in AppType /\ c.ses = t /\ c.by = app.by /\ SameMemory(app, c) /\ SameList(app, c)
  BY <1>6 DEF Becoming
<1> HIDE DEF b
<1>8. b = IF app.by = "record" THEN c ELSE app BY DEF b
<1>9. b \in AppType /\ SameMemory(app, b) /\ b.asking = app.asking
      /\ b.ses.ticked \subseteq app.ses.ticked
  BY <1>0, <1>5, <1>7, <1>8 DEF SameMemory, SameList
<1>10. Following(app, obs) BY FollowingIs DEF PluginInv
<1>11. app.by \in {"dock", "stream", "record"} BY <1>0 DEF AppType
<1>12. Following(b, obs')
  <2>1. CASE app.by = "record"
    <3>1. b = c /\ b.by = "record" /\ b.ses = t BY <1>7, <1>8, <2>1
    <3>2. t.active => t.paused = (obs'.rolling = "paused") BY <1>5 DEF now
    <3>3. QED BY <1>2, <3>1, <3>2 DEF Following
  <2>2. CASE app.by # "record" BY <1>2, <1>8, <1>10, <1>11, <2>2 DEF Following
  <2>3. QED BY <2>1, <2>2
<1>13. QED BY <1>2, <1>3, <1>9, <1>12, EventKeeps

\* releaseSources of the session and of the dock.
LEMMA LetGoIs ==
    ASSUME NEW a \in AppType
    PROVE  LET b == LetGo(a)
           IN  /\ b \in AppType /\ b.ses.active = a.ses.active
               /\ b.ses.ticked = {} /\ SameMemory(a, b) /\ SameList(a, b)
<1>1. a.ses.ticked \ Object = {} BY DEF AppType, SesType
<1> DEFINE b == [a EXCEPT !.ses = Session!Unticking(@, Object)]
<1>2. LetGo(a) = b BY DEF LetGo
<1>3. b \in AppType /\ b.ses.active = a.ses.active
      /\ b.ses.ticked = a.ses.ticked \ Object /\ SameMemory(a, b) /\ SameList(a, b)
  BY UntickedIs
<1> HIDE DEF b
<1>4. QED BY <1>1, <1>2, <1>3

LEMMA UnlistedIs ==
    ASSUME NEW a \in AppType
    PROVE  LET b == Unlisted(a)
           IN  /\ b \in AppType /\ b.ses = a.ses /\ SameMemory(a, b) /\ b.asking = a.asking
               /\ b.listed = {} /\ b.drawn.checked = {}
<1> DEFINE d == [a.drawn EXCEPT !.checked = {}]
           b == [a EXCEPT !.listed = {}, !.drawn = d]
<1>1. d \in [running : BOOLEAN, enabled : BOOLEAN, checked : SUBSET Object] /\ d.checked = {}
  BY DEF AppType
<1>2. Unlisted(a) = b BY DEF Unlisted
<1> HIDE DEF d
<1>3. b \in AppType BY <1>1 DEF AppType
<1>4. b.ses = a.ses /\ SameMemory(a, b) /\ b.asking = a.asking /\ b.listed = {} /\ b.drawn = d
  BY DEF AppType, SameMemory
<1>5. QED BY <1>1, <1>2, <1>3, <1>4

LEMMA CollectionChangingKeeps ==
    ASSUME PluginInv, CollectionChanging PROVE PluginInv'
<1> DEFINE b == Stopped(app, TRUE)
           c == LetGo(b)
           d == Unlisted(c)
<1>0. app \in AppType /\ obs \in ObsType BY DEF PluginInv, Typed
<1>1. /\ obs' = [obs EXCEPT !.phase = "changing"] /\ obs.phase = "up" /\ app.asking = None
      /\ ~app.dirty /\ app' = d /\ UNCHANGED <<file, wanted>>
  BY DEF CollectionChanging, Up
<1>2. obs' \in ObsType /\ obs'.phase = "changing" /\ obs'.coll = obs.coll
  BY <1>0, <1>1 DEF ObsType
<1>3. b \in AppType /\ ~b.ses.active /\ SameMemory(app, b) /\ SameList(app, b)
  BY <1>0, StoppedIs
<1> HIDE DEF b
<1>4. /\ c \in AppType /\ c.ses.active = b.ses.active
      /\ c.ses.ticked = {} /\ SameMemory(b, c) /\ SameList(b, c)
  BY <1>3, LetGoIs
<1> HIDE DEF c
<1>5. /\ d \in AppType /\ d.ses = c.ses /\ SameMemory(c, d) /\ d.asking = c.asking
      /\ d.listed = {} /\ d.drawn.checked = {}
  BY <1>4, UnlistedIs
<1> HIDE DEF d
<1>6. ~d.ses.active /\ d.ses.ticked = {} /\ SameMemory(app, d) /\ d.asking = None
  BY <1>1, <1>3, <1>4, <1>5 DEF SameMemory, SameList
<1>7. Typed' BY <1>1, <1>2, <1>5 DEF PluginInv, Typed
<1>8. HeldInv' BY <1>1, <1>2, <1>5, <1>6 DEF PluginInv, HeldInv, SameMemory
<1>9. SessionFollowsItsStarter' BY <1>1, <1>6 DEF SessionFollowsItsStarter
<1>10. MemoryInv'
  <2>1. RememberedIsWanted'
    BY <1>1, <1>6 DEF PluginInv, MemoryInv, RememberedIsWanted, SameMemory, ArmedIn
  <2>2. d.kept = Stored(d) BY <1>1, <1>6 DEF PluginInv, MemoryInv, SameMemory, Stored
  <2>3. ~d.unsaved => file = d.kept BY <1>1, <1>6 DEF PluginInv, MemoryInv, SameMemory
  <2>4. QED BY <1>1, <1>2, <2>1, <2>2, <2>3 DEF MemoryInv
<1>11. DockInv' BY <1>2 DEF DockInv
<1>12. QED BY <1>7, <1>8, <1>9, <1>10, <1>11 DEF PluginInv

LEMMA CollectionChangedKeeps ==
    ASSUME PluginInv, CollectionChanged PROVE PluginInv'
<1> DEFINE a == app'
<1>0. app \in AppType /\ obs \in ObsType BY DEF PluginInv, Typed
<1>1. PICK c \in Collection : obs' = [obs EXCEPT !.phase = "up", !.coll = c]
  BY DEF CollectionChanged
<1>2. /\ obs' \in ObsType /\ obs'.phase = "up" /\ obs'.coll = c
  BY <1>0, <1>1 DEF ObsType
<1>3. obs.phase = "changing" /\ UNCHANGED <<file, wanted>> BY DEF CollectionChanged
<1>4. Refreshing(app, obs', a) BY <1>0, <1>2, RefreshedIs DEF CollectionChanged
<1>5. /\ ~app.ses.active /\ app.asking = None /\ ~app.dirty /\ app.ses.ticked = {}
      /\ app.memoryOf = obs.coll
  BY <1>3 DEF PluginInv, HeldInv
<1>6. Present(obs') \in SUBSET Object /\ \A x \in Present(obs') : x[1] = obs'.coll
  BY <1>2, PresentObjects
<1>7. Typed' BY <1>2, <1>3, <1>4 DEF Refreshing, PluginInv, Typed
<1>8. HeldInv'
  <2>1. \A x \in a.ses.ticked \cup a.listed : x[1] = obs'.coll BY <1>4, <1>5, <1>6 DEF Refreshing
  <2>2. QED BY <1>2, <1>4, <1>5, <2>1 DEF HeldInv, Refreshing
<1>9. SessionFollowsItsStarter' BY <1>4, <1>5 DEF SessionFollowsItsStarter, Refreshing
<1>10. MemoryInv'
  <2> DEFINE was == app.memoryOf
  <2>1. /\ app.kept = Stored(app) /\ (~app.unsaved => file = app.kept)
        /\ \A d \in Collection : wanted[d] = IF d = was THEN app.remembered ELSE app.kept.armed[d]
    BY <1>3, <1>5 DEF PluginInv, MemoryInv, RememberedIsWanted, ArmedIn
  <2>2. was \in Collection BY <1>0, <1>5 DEF ObsType
  <2>3. /\ Stored(app).options = app.options
        /\ \A d \in Collection :
              Stored(app).armed[d] = IF d = was THEN app.remembered ELSE app.kept.armed[d]
    BY <1>0, <2>2, StoredIs
  <2>4. \A d \in Collection : wanted[d] = app.kept.armed[d] BY <2>1, <2>3
  <2>5. a.remembered = app.kept.armed[c]
    BY <1>2, <1>4, <2>1, <2>2, <2>3 DEF Refreshing
  <2>6. a.kept = app.kept /\ a.memoryOf = c /\ a.options = app.options
        /\ (a.unsaved <=> app.unsaved)
    BY <1>2, <1>4 DEF Refreshing
  <2>7. RememberedIsWanted'
    BY <1>3, <2>4, <2>5, <2>6 DEF RememberedIsWanted, ArmedIn
  <2>8. a.kept = Stored(a)
    <3>1. app.kept \in Store BY <1>0 DEF AppType
    <3>2. app.kept.options = app.options BY <2>1, <2>3
    <3>3. [app.kept.armed EXCEPT ![c] = app.kept.armed[c]] = app.kept.armed BY <3>1 DEF Store
    <3>4. Stored(a) = [armed |-> app.kept.armed, options |-> app.options]
      BY <2>5, <2>6, <3>3 DEF Stored, Saved
    <3>5. QED BY <2>6, <3>1, <3>2, <3>4 DEF Store
  <2>9. QED BY <1>2, <1>3, <2>1, <2>6, <2>7, <2>8 DEF MemoryInv
<1>11. DockInv'
  <2>1. a.drawn.running = a.ses.active BY <1>4 DEF Refreshing
  <2>2. a.ses.active \/ a.ses.ticked # {} => a.drawn.enabled BY <1>4 DEF Refreshing
  <2>3. a.drawn.checked = a.ses.ticked \cap a.listed BY <1>4 DEF Refreshing
  <2>4. QED BY <2>1, <2>2, <2>3 DEF DockInv
<1>12. QED BY <1>7, <1>8, <1>9, <1>10, <1>11 DEF PluginInv

LEMMA NoAppIs ==
    /\ NoApp \in AppType /\ ~NoApp.ses.active /\ NoApp.ses.ticked = {} /\ NoApp.listed = {}
    /\ NoApp.drawn.checked = {} /\ NoApp.asking = None /\ ~NoApp.dirty /\ NoApp.memoryOf = None
<1> DEFINE t == Session!NoSession
           d == [running |-> FALSE, enabled |-> FALSE, checked |-> {}]
           f == [options |-> {}, enc |-> None, live |-> TRUE]
           k == [armed |-> [c \in Collection |-> {}], options |-> {}]
<1>1. t \in SesType /\ ~t.active /\ t.ticked = {} BY DEF Session!NoSession, SesType
<1>2. d \in [running : BOOLEAN, enabled : BOOLEAN, checked : SUBSET Object] /\ d.checked = {}
  OBVIOUS
<1>3. f \in [options : SUBSET Option, enc : Encoder \cup {None}, live : BOOLEAN] OBVIOUS
<1>4. k \in Store BY DEF Store
<1>5. NoApp = [ses |-> t, by |-> "dock", listed |-> {}, drawn |-> d, remembered |-> {},
               memoryOf |-> None, dirty |-> FALSE, unsaved |-> FALSE, asking |-> None,
               options |-> {}, config |-> f, kept |-> k]
  BY DEF NoApp
<1> HIDE DEF t, d, f, k
<1>6. QED BY <1>1, <1>2, <1>3, <1>4, <1>5 DEF AppType

LEMMA PluginBegins == Init => PluginInv
<1> SUFFICES ASSUME Init PROVE PluginInv OBVIOUS
<1> DEFINE c == CHOOSE c \in Collection : TRUE
<1>1. c \in Collection BY PluginAssumption
<1> HIDE DEF c
<1>2. obs = [phase |-> "off", coll |-> c, content |-> Content, live |-> FALSE,
             rolling |-> "off", enc |-> None]
  BY DEF Init, c
<1>3. obs \in ObsType /\ obs.phase = "off" BY <1>1, <1>2, PluginAssumption DEF ObsType
<1>4. app = NoApp /\ file = None /\ wanted = [d \in Collection |-> FirstArmed(d)] BY DEF Init
<1>5. wanted \in [Collection -> SUBSET Name] BY <1>4, FirstArmedNames
<1>6. wanted = OnDisk BY <1>4 DEF OnDisk
<1>7. Typed BY <1>3, <1>4, <1>5, NoAppIs DEF Typed
<1>8. HeldInv BY <1>3, <1>4, NoAppIs DEF HeldInv
<1>9. SessionFollowsItsStarter BY <1>4, NoAppIs DEF SessionFollowsItsStarter
<1>10. MemoryInv BY <1>3, <1>6 DEF MemoryInv, RememberedIsWanted
<1>11. DockInv BY <1>3 DEF DockInv
<1>12. QED BY <1>7, <1>8, <1>9, <1>10, <1>11 DEF PluginInv

\* What is on disk once all of it was saved.
LEMMA OnDiskIs ==
    ASSUME PluginInv, obs.phase # "off", ~app.dirty, ~app.unsaved PROVE wanted = OnDisk
<1>0. app \in AppType /\ obs \in ObsType /\ app.memoryOf = obs.coll BY DEF PluginInv, Typed, HeldInv
<1>1. file = app.kept /\ app.kept = Stored(app) BY DEF PluginInv, MemoryInv
<1>2. app.memoryOf \in Collection BY <1>0 DEF ObsType
<1>3. \A c \in Collection : wanted[c] = Stored(app).armed[c]
  BY <1>0, <1>2, StoredIs DEF PluginInv, MemoryInv, RememberedIsWanted, ArmedIn
<1>4. file \in Store BY <1>0, <1>1 DEF AppType
<1>5. OnDisk = file.armed BY <1>4, PluginAssumption DEF OnDisk
<1>6. wanted \in [Collection -> SUBSET Name] /\ file.armed \in [Collection -> SUBSET Name]
  BY <1>4 DEF PluginInv, Typed, Store
<1>7. QED BY <1>1, <1>3, <1>5, <1>6

LEMMA ShutdownKeeps ==
    ASSUME PluginInv, NEW ok \in Writes, Shutdown(ok) PROVE PluginInv'
<1> DEFINE b == Stopped(app, FALSE)
           c == LetGo(b)
           d == Saving(c, ok)
           e == Unlisted(d)
<1>0. app \in AppType /\ obs \in ObsType /\ ok \in BOOLEAN BY DEF PluginInv, Typed, Writes
<1>1. /\ obs' = [obs EXCEPT !.phase = "closing"] /\ obs.phase = "up" /\ app.asking = None
      /\ app' = e /\ UNCHANGED wanted /\ file' = IF ok THEN Stored(app) ELSE file
  BY DEF Shutdown, Up, FileAfter
<1>2. obs' \in ObsType /\ obs'.phase = "closing" /\ obs'.coll = obs.coll
  BY <1>0, <1>1 DEF ObsType
<1>3. app.memoryOf = obs.coll BY <1>1 DEF PluginInv, HeldInv
<1>4. b \in AppType /\ ~b.ses.active /\ SameMemory(app, b) /\ SameList(app, b)
  BY <1>0, StoppedIs
<1> HIDE DEF b
<1>5. /\ c \in AppType /\ c.ses.active = b.ses.active
      /\ c.ses.ticked = {} /\ SameMemory(b, c) /\ SameList(b, c)
  BY <1>4, LetGoIs
<1> HIDE DEF c
<1>6. SavingIs(c, ok, d)
  <2>1. c.memoryOf \in Collection BY <1>0, <1>3, <1>4, <1>5 DEF SameMemory, ObsType
  <2>2. QED BY <1>0, <1>5, <2>1, SavedIs
<1> HIDE DEF d
<1>7. d \in AppType BY <1>6 DEF SavingIs
<1>8. /\ e \in AppType /\ e.ses = d.ses /\ SameMemory(d, e) /\ e.asking = d.asking
      /\ e.listed = {} /\ e.drawn.checked = {}
  BY <1>7, UnlistedIs
<1> HIDE DEF e
<1>9. SameMemory(app, c) BY <1>4, <1>5 DEF SameMemory
<1>10. Stored(c) = Stored(app) BY <1>9 DEF SameMemory, Stored
<1>11. /\ ~e.ses.active /\ e.ses.ticked = {} /\ e.asking = None /\ ~e.dirty
       /\ e.memoryOf = app.memoryOf /\ e.remembered = app.remembered
       /\ e.kept = Stored(app) /\ e.unsaved = d.unsaved
  BY <1>1, <1>4, <1>5, <1>6, <1>8, <1>9, <1>10 DEF SameMemory, SameList, SavingIs
<1>12. Stored(e) = Stored(app)
  <2>1. Stored(e) = Stored(d) BY <1>8 DEF SameMemory, Stored
  <2>2. QED BY <1>6, <1>10, <2>1 DEF SavingIs
<1>13. app.memoryOf \in Collection BY <1>0, <1>3 DEF ObsType
<1>14. Typed'
  <2>1. Stored(app) \in Store BY <1>0, <1>13, StoredIs
  <2>2. QED BY <1>1, <1>2, <1>8, <2>1 DEF PluginInv, Typed
<1>15. HeldInv' BY <1>1, <1>2, <1>3, <1>8, <1>11 DEF HeldInv
<1>16. SessionFollowsItsStarter' BY <1>1, <1>11 DEF SessionFollowsItsStarter
<1>17. MemoryInv'
  <2>1. \A x \in Collection :
            wanted[x] = IF x = app.memoryOf THEN app.remembered ELSE app.kept.armed[x]
    BY <1>1 DEF PluginInv, MemoryInv, RememberedIsWanted, ArmedIn
  <2>2. \A x \in Collection :
            Stored(app).armed[x] = IF x = app.memoryOf THEN app.remembered ELSE app.kept.armed[x]
    BY <1>0, <1>13, StoredIs
  <2>3. RememberedIsWanted' BY <1>1, <1>11, <2>1, <2>2 DEF RememberedIsWanted, ArmedIn
  <2>4. ~e.unsaved => file' = e.kept BY <1>0, <1>1, <1>6, <1>11 DEF SavingIs
  <2>5. QED BY <1>1, <1>2, <1>11, <1>12, <2>3, <2>4 DEF MemoryInv
<1>18. DockInv' BY <1>2 DEF DockInv
<1>19. QED BY <1>14, <1>15, <1>16, <1>17, <1>18 DEF PluginInv

LEMMA GoneKeeps ==
    ASSUME PluginInv, obs' = Gone, app' = NoApp, file' \in Store \cup {None},
           wanted' \in [Collection -> SUBSET Name], wanted' = OnDisk'
    PROVE  PluginInv'
<1>0. obs \in ObsType BY DEF PluginInv, Typed
<1>1. obs' \in ObsType /\ obs'.phase = "off" BY <1>0 DEF Gone, ObsType
<1>2. Typed' BY <1>1, NoAppIs DEF Typed
<1>3. HeldInv' BY <1>1, NoAppIs DEF HeldInv
<1>4. SessionFollowsItsStarter' BY NoAppIs DEF SessionFollowsItsStarter
<1>5. MemoryInv' BY <1>1 DEF MemoryInv, RememberedIsWanted
<1>6. DockInv' BY <1>1 DEF DockInv
<1>7. QED BY <1>2, <1>3, <1>4, <1>5, <1>6 DEF PluginInv

LEMMA ExitKeeps ==
    ASSUME PluginInv, NEW ok \in Writes, Exit(ok) PROVE PluginInv'
<1>0. app \in AppType /\ obs \in ObsType /\ ok \in BOOLEAN BY DEF PluginInv, Typed, Writes
<1>1. /\ obs.phase = "closing" /\ obs' = Gone /\ app' = NoApp
      /\ file' = IF ok THEN Stored(app) ELSE file
      /\ wanted' = IF ok \/ ~app.unsaved THEN wanted ELSE OnDisk
  BY DEF Exit, FileAfter
<1>2. ~app.dirty /\ app.memoryOf \in Collection BY <1>0, <1>1 DEF PluginInv, HeldInv, ObsType
<1>3. /\ Stored(app) \in Store
      /\ \A c \in Collection : wanted[c] = Stored(app).armed[c]
  BY <1>0, <1>1, <1>2, StoredIs DEF PluginInv, MemoryInv, RememberedIsWanted, ArmedIn
<1>4. wanted \in [Collection -> SUBSET Name] /\ file \in Store \cup {None} BY DEF PluginInv, Typed
<1>5. CASE ok
  <2>1. file' = Stored(app) /\ wanted' = wanted BY <1>1, <1>5
  <2>2. OnDisk' = Stored(app).armed BY <1>3, <2>1, PluginAssumption DEF OnDisk
  <2>3. wanted = Stored(app).armed BY <1>3, <1>4 DEF Store
  <2>4. QED BY <1>1, <1>3, <1>4, <2>1, <2>2, <2>3, GoneKeeps
<1>6. CASE ~ok
  <2>1. file' = file BY <1>1, <1>6
  <2>2. OnDisk' = OnDisk BY <2>1 DEF OnDisk
  <2>3. wanted' = OnDisk BY <1>1, <1>2, <1>6, OnDiskIs
  <2>4. OnDisk \in [Collection -> SUBSET Name] BY <1>4, FirstArmedNames DEF OnDisk, Store
  <2>5. QED BY <1>1, <1>4, <2>1, <2>2, <2>3, <2>4, GoneKeeps
<1>7. QED BY <1>0, <1>5, <1>6

LEMMA CrashKeeps ==
    ASSUME PluginInv, Crash PROVE PluginInv'
<1>0. app \in AppType /\ obs \in ObsType BY DEF PluginInv, Typed
<1>1. /\ obs.phase # "off" /\ obs' = Gone /\ app' = NoApp /\ file' = file
      /\ wanted' = IF app.dirty \/ app.unsaved THEN OnDisk ELSE wanted
  BY DEF Crash
<1>2. wanted' = OnDisk BY <1>0, <1>1, OnDiskIs
<1>3. OnDisk' = OnDisk BY <1>1 DEF OnDisk
<1>4. file \in Store \cup {None} BY DEF PluginInv, Typed
<1>5. OnDisk \in [Collection -> SUBSET Name] BY <1>4, FirstArmedNames DEF OnDisk, Store
<1>6. QED BY <1>1, <1>2, <1>3, <1>4, <1>5, GoneKeeps

LEMMA LaunchKeeps ==
    ASSUME PluginInv, NEW ok \in Writes, Launch(ok) PROVE PluginInv'
<1> DEFINE store == IF file = None THEN Migrated ELSE file
           lost == file = None /\ ~ok
           a == [NoApp EXCEPT !.kept = store, !.options = store.options, !.unsaved = lost]
           b == app'
<1>0. obs \in ObsType /\ ok \in BOOLEAN /\ file \in Store \cup {None}
      /\ wanted \in [Collection -> SUBSET Name]
  BY DEF PluginInv, Typed, Writes
<1>1. /\ obs.phase = "off" /\ obs' = [obs EXCEPT !.phase = "loading"]
      /\ b = Refreshed(a, obs') /\ wanted' = wanted
      /\ file' = IF file = None /\ ok THEN Migrated ELSE file
  BY DEF Launch
<1>2. obs' \in ObsType /\ obs'.phase = "loading" /\ obs'.coll = obs.coll /\ obs.coll \in Collection
  BY <1>0, <1>1 DEF ObsType
<1>3. store \in Store BY <1>0, MigrationGivesFirst
<1>4. wanted = OnDisk BY <1>1 DEF PluginInv, MemoryInv
<1>5. \A c \in Collection : wanted[c] = store.armed[c]
  BY <1>4, MigrationGivesFirst DEF OnDisk
<1>6. file' = IF lost THEN file ELSE store BY <1>0, <1>1
<1>7. file' \in Store \cup {None} BY <1>0, <1>1, MigrationGivesFirst
<1>8. lost \in BOOLEAN OBVIOUS
<1> HIDE DEF store, lost
<1>9. store.options \in SUBSET Option BY <1>3 DEF Store
<1>10. a \in AppType BY <1>3, <1>8, <1>9, NoAppIs DEF AppType
<1>11. /\ a.ses = NoApp.ses /\ a.memoryOf = None /\ ~a.dirty /\ a.unsaved = lost
       /\ a.asking = None /\ a.options = store.options /\ a.kept = store
  BY NoAppIs DEF AppType
<1> HIDE DEF a
<1>12. Refreshing(a, obs', b) BY <1>1, <1>2, <1>10, RefreshedIs
<1>13. obs.coll # None BY <1>2, PluginAssumption
<1>14. /\ b \in AppType /\ b.memoryOf = obs.coll /\ b.remembered = store.armed[obs.coll]
       /\ ~b.ses.active /\ ~b.dirty /\ b.unsaved = lost /\ b.asking = None
       /\ b.options = store.options /\ b.kept = store
  BY <1>2, <1>11, <1>12, <1>13, NoAppIs DEF Refreshing
<1>15. Typed' BY <1>0, <1>1, <1>2, <1>7, <1>12 DEF Refreshing, Typed
<1>16. HeldInv'
  <2>1. Present(obs') \in SUBSET Object /\ \A x \in Present(obs') : x[1] = obs'.coll
    BY <1>2, PresentObjects
  <2>2. \A x \in b.ses.ticked \cup b.listed : x[1] = obs'.coll
    BY <1>11, <1>12, <2>1, NoAppIs DEF Refreshing
  <2>3. QED BY <1>2, <1>14, <2>2 DEF HeldInv
<1>17. SessionFollowsItsStarter' BY <1>14 DEF SessionFollowsItsStarter
<1>18. MemoryInv'
  <2>1. RememberedIsWanted' BY <1>1, <1>5, <1>14 DEF RememberedIsWanted, ArmedIn
  <2>2. [store.armed EXCEPT ![obs.coll] = store.armed[obs.coll]] = store.armed BY <1>3 DEF Store
  <2>3. Stored(b) = [armed |-> store.armed, options |-> store.options]
    BY <1>14, <2>2 DEF Stored, Saved
  <2>4. b.kept = Stored(b) BY <1>3, <1>14, <2>3 DEF Store
  <2>5. ~b.unsaved => file' = b.kept BY <1>6, <1>14
  <2>6. QED BY <1>2, <2>1, <2>4, <2>5 DEF MemoryInv
<1>19. DockInv' BY <1>12 DEF Refreshing, DockInv
<1>20. QED BY <1>15, <1>16, <1>17, <1>18, <1>19 DEF PluginInv

\* Nothing but the configuration, or OBS's list of sources, changes.
LEMMA SameDockKeeps ==
    ASSUME PluginInv, obs' \in ObsType, obs'.coll = obs.coll,
           obs'.phase = obs.phase \/ (obs.phase = "loading" /\ obs'.phase = "up"),
           app' \in AppType, app'.ses = app.ses, SameList(app, app'), UNCHANGED <<file, wanted>>,
           obs.phase # "off", Following(app', obs'),
           SameMemory(app, app')
              \/ /\ app'.dirty /\ obs.phase = "up" /\ app'.memoryOf = app.memoryOf
                 /\ app'.remembered = app.remembered /\ app'.kept = app.kept
    PROVE  PluginInv'
<1> DEFINE a == app'
<1>1. Typed' BY DEF PluginInv, Typed, SameList
<1>2. a.memoryOf = app.memoryOf /\ a.remembered = app.remembered /\ a.kept = app.kept
  BY DEF SameMemory
<1>3. obs'.phase # "up" => ~a.dirty BY DEF PluginInv, HeldInv, SameMemory
<1>4. HeldInv' BY <1>2, <1>3 DEF PluginInv, HeldInv, SameList
<1>5. SessionFollowsItsStarter' BY DEF Following, SessionFollowsItsStarter
<1>6. MemoryInv'
  <2>1. RememberedIsWanted' BY <1>2 DEF PluginInv, MemoryInv, RememberedIsWanted, ArmedIn
  <2>2. ~a.dirty => SameMemory(app, a) OBVIOUS
  <2>3. ~a.dirty => a.kept = Stored(a)
    BY <1>2, <2>2 DEF PluginInv, MemoryInv, Stored, SameMemory
  <2>4. ~a.dirty /\ ~a.unsaved => file' = a.kept
    BY <1>2, <2>2 DEF PluginInv, MemoryInv, SameMemory
  <2>5. QED BY <2>1, <2>3, <2>4 DEF MemoryInv
<1>7. DockInv' BY DEF PluginInv, DockInv, SameList
<1>8. QED BY <1>1, <1>4, <1>5, <1>6, <1>7 DEF PluginInv

LEMMA CollectionLoadsKeeps ==
    ASSUME PluginInv, CollectionLoads PROVE PluginInv'
<1>0. app \in AppType /\ obs \in ObsType BY DEF PluginInv, Typed
<1>1. /\ obs.phase = "loading" /\ obs' = [obs EXCEPT !.phase = "up"]
      /\ app' = Configured(app, obs') /\ UNCHANGED <<file, wanted>>
  BY DEF CollectionLoads
<1>2. obs' \in ObsType /\ obs'.phase = "up" /\ obs'.coll = obs.coll BY <1>0, <1>1 DEF ObsType
<1>3. Configuring(app, obs', app') BY <1>0, <1>1, <1>2, ConfiguredIs
<1>4. ~app.ses.active BY <1>1 DEF PluginInv, HeldInv
<1>5. Following(app', obs') BY <1>3, <1>4 DEF Following, Configuring
<1>6. QED BY <1>1, <1>2, <1>3, <1>5, SameDockKeeps DEF Configuring

LEMMA OptionChangedKeeps ==
    ASSUME PluginInv, NEW option \in Toggles, OptionChanged(option) PROVE PluginInv'
<1> DEFINE on == IF option \in app.options THEN app.options \ {option} ELSE app.options \cup {option}
           a == [app EXCEPT !.options = on, !.dirty = TRUE]
<1>0. app \in AppType /\ obs \in ObsType BY DEF PluginInv, Typed
<1>1. /\ obs.phase = "up" /\ app' = Configured(a, obs) /\ UNCHANGED <<obs, file, wanted>>
      /\ app.asking = None /\ ~app.drawn.running
  BY DEF OptionChanged, AtEase, Up
<1>2. on \in SUBSET Option BY <1>0, PluginAssumption DEF AppType
<1> HIDE DEF on
<1>3. a \in AppType BY <1>0, <1>2 DEF AppType
<1>4. /\ a.ses = app.ses /\ a.by = app.by /\ SameList(app, a) /\ a.dirty
      /\ a.memoryOf = app.memoryOf /\ a.remembered = app.remembered /\ a.kept = app.kept
  BY <1>0 DEF AppType, SameList
<1> HIDE DEF a
<1>5. Configuring(a, obs, app') BY <1>0, <1>1, <1>3, ConfiguredIs
<1>6. ~app.ses.active BY <1>1 DEF PluginInv, DockInv
<1>7. Following(app', obs) BY <1>4, <1>5, <1>6 DEF Following, Configuring
<1>8. /\ app' \in AppType /\ app'.ses = app.ses /\ SameList(app, app')
      /\ app'.dirty /\ app'.memoryOf = app.memoryOf
      /\ app'.remembered = app.remembered /\ app'.kept = app.kept
  BY <1>4, <1>5 DEF Configuring, SameMemory, SameList
<1>9. QED BY <1>0, <1>1, <1>7, <1>8, SameDockKeeps

LEMMA EditsKeep ==
    ASSUME PluginInv, NEW n \in Edits, Delete(n) \/ Add(n) PROVE PluginInv'
<1>0. app \in AppType /\ obs \in ObsType BY DEF PluginInv, Typed
<1>1. obs.phase = "up" /\ UNCHANGED <<app, file, wanted>> BY DEF Delete, Add, AtEase, Up
<1>2. n \in Name /\ obs.coll \in Collection /\ obs.content[obs.coll] \in SUBSET Name
  BY <1>0, PluginAssumption DEF ObsType
<1>3. PICK S \in SUBSET Name : obs' = [obs EXCEPT !.content[obs.coll] = S]
  BY <1>2 DEF Delete, Add
<1>4. obs' \in ObsType /\ obs'.coll = obs.coll /\ obs'.phase = obs.phase
      /\ obs'.live = obs.live /\ obs'.rolling = obs.rolling /\ obs'.enc = obs.enc
  BY <1>0, <1>3 DEF ObsType
<1>5. Following(app, obs) BY FollowingIs DEF PluginInv
<1>6. Following(app', obs') BY <1>1, <1>4, <1>5 DEF Following
<1>7. SameMemory(app, app') /\ SameList(app, app') BY <1>1 DEF SameMemory, SameList
<1>8. QED BY <1>0, <1>1, <1>4, <1>6, <1>7, SameDockKeeps

\* onTick: what was unsaved is saved from the list that was just drawn.
LEMMA TickKeeps ==
    ASSUME PluginInv, NEW ok \in Writes, Tick(ok) PROVE PluginInv'
<1> DEFINE b == Refreshed(app, obs)
           c == [b EXCEPT !.ses = Session!Unticking(@, @.ticked \ Present(obs))]
           a == app'
<1>0. app \in AppType /\ obs \in ObsType /\ ok \in BOOLEAN BY DEF PluginInv, Typed, Writes
<1>1. /\ obs.phase = "up" /\ UNCHANGED <<obs, wanted>>
      /\ IF c.dirty THEN app' = Saving(c, ok) /\ file' = FileAfter(c, ok)
                    ELSE app' = c /\ UNCHANGED file
  BY DEF Tick, Up
<1>2. Refreshing(app, obs, b) BY <1>0, RefreshedIs
<1> HIDE DEF b
<1>3. b \in AppType BY <1>2 DEF Refreshing
<1>4. /\ c \in AppType /\ c.ses.active = b.ses.active /\ c.ses.paused = b.ses.paused
      /\ c.by = b.by /\ c.config = b.config
      /\ c.ses.ticked = b.ses.ticked \ (b.ses.ticked \ Present(obs))
      /\ SameMemory(b, c) /\ SameList(b, c)
  BY <1>3, UntickedIs
<1> HIDE DEF c
<1>5. app.memoryOf = obs.coll /\ obs.coll \in Collection
  BY <1>0, <1>1 DEF PluginInv, HeldInv, ObsType
<1>6. /\ c.memoryOf = obs.coll /\ c.remembered = app.remembered /\ c.dirty = app.dirty
      /\ c.unsaved = app.unsaved /\ c.options = app.options /\ c.kept = app.kept
  BY <1>2, <1>4, <1>5 DEF Refreshing, SameMemory
<1>7. Stored(c) = Stored(app) BY <1>5, <1>6 DEF Stored
<1>8. /\ a \in AppType /\ a.ses = c.ses /\ a.by = c.by /\ a.config = c.config /\ ~a.dirty
      /\ a.memoryOf = obs.coll /\ a.remembered = app.remembered
      /\ a.kept = Stored(app) /\ Stored(a) = Stored(app) /\ SameList(c, a)
      /\ file' \in Store \cup {None} /\ (~a.unsaved => file' = a.kept)
  <2>1. CASE c.dirty
    <3>1. SavingIs(c, ok, a) BY <1>0, <1>1, <1>4, <1>5, <1>6, <2>1, SavedIs
    <3>2. file' = IF ok THEN Stored(c) ELSE file BY <1>1, <2>1 DEF FileAfter
    <3>3. Stored(c) \in Store BY <1>4, <1>5, <1>6, StoredIs
    <3>4. file \in Store \cup {None} BY DEF PluginInv, Typed
    <3>5. QED BY <1>6, <1>7, <3>1, <3>2, <3>3, <3>4 DEF SavingIs
  <2>2. CASE ~c.dirty
    <3>1. a = c /\ file' = file BY <1>1, <2>2
    <3>2. app.kept = Stored(app) /\ (~app.unsaved => file = app.kept)
      BY <1>1, <1>6, <2>2 DEF PluginInv, MemoryInv
    <3>3. QED BY <1>4, <1>6, <1>7, <2>2, <3>1, <3>2 DEF SameList, PluginInv, Typed
  <2>3. QED BY <2>1, <2>2
<1>9. /\ a.listed = Present(obs) /\ a.drawn = b.drawn /\ a.asking = app.asking
      /\ a.ses.ticked = b.ses.ticked \cap Present(obs)
  BY <1>2, <1>4, <1>8 DEF SameList, Refreshing
<1>10. Present(obs) \in SUBSET Object /\ \A x \in Present(obs) : x[1] = obs.coll
  BY <1>0, PresentObjects
<1>11. Typed' BY <1>0, <1>1, <1>2, <1>8, <1>9 DEF PluginInv, Typed, Refreshing
<1>12. HeldInv' BY <1>1, <1>8, <1>9, <1>10 DEF PluginInv, HeldInv
<1>13. SessionFollowsItsStarter'
  <2>1. Following(app, obs) BY FollowingIs DEF PluginInv
  <2>2. /\ a.ses.active = app.ses.active /\ a.ses.paused = app.ses.paused
        /\ a.by = app.by /\ a.config = app.config
    BY <1>2, <1>4, <1>8 DEF Refreshing
  <2>3. Following(a, obs) BY <2>1, <2>2 DEF Following
  <2>4. QED BY <1>1, <2>3 DEF Following, SessionFollowsItsStarter
<1>14. MemoryInv'
  <2>1. \A x \in Collection :
            wanted[x] = IF x = app.memoryOf THEN app.remembered ELSE app.kept.armed[x]
    BY <1>1 DEF PluginInv, MemoryInv, RememberedIsWanted, ArmedIn
  <2>2. \A x \in Collection :
            Stored(app).armed[x] = IF x = app.memoryOf THEN app.remembered ELSE app.kept.armed[x]
    BY <1>0, <1>5, StoredIs
  <2>3. RememberedIsWanted' BY <1>1, <1>5, <1>8, <2>1, <2>2 DEF RememberedIsWanted, ArmedIn
  <2>4. QED BY <1>1, <1>8, <2>3 DEF MemoryInv
<1>15. DockInv' BY <1>2, <1>4, <1>8, <1>9 DEF DockInv, Refreshing
<1>16. QED BY <1>11, <1>12, <1>13, <1>14, <1>15 DEF PluginInv

LEMMA TickSettles ==
    ASSUME PluginInv, NEW ok \in Writes, Tick(ok) PROVE Settled'
<1> DEFINE b == Refreshed(app, obs)
           c == [b EXCEPT !.ses = Session!Unticking(@, @.ticked \ Present(obs))]
<1>0. app \in AppType /\ obs \in ObsType /\ ok \in BOOLEAN BY DEF PluginInv, Typed, Writes
<1>1. obs' = obs /\ obs.phase = "up" /\ (IF c.dirty THEN app' = Saving(c, ok) ELSE app' = c)
  BY DEF Tick, Up
<1>2. Refreshing(app, obs, b) BY <1>0, RefreshedIs
<1> HIDE DEF b
<1>3. b \in AppType BY <1>2 DEF Refreshing
<1>4. /\ c \in AppType /\ c.ses.active = b.ses.active
      /\ c.ses.ticked = b.ses.ticked \ (b.ses.ticked \ Present(obs)) /\ SameMemory(b, c)
  BY <1>3, UntickedIs
<1> HIDE DEF c
<1>5. c.memoryOf = obs.coll /\ c.remembered = b.remembered /\ obs.coll \in Collection
  BY <1>0, <1>2, <1>4 DEF Refreshing, SameMemory, ObsType
<1>6. ~app'.dirty /\ app'.ses = c.ses /\ app'.remembered = c.remembered
  <2>1. CASE c.dirty
    <3>1. SavingIs(c, ok, app') BY <1>0, <1>1, <1>4, <1>5, <2>1, SavedIs
    <3>2. QED BY <3>1 DEF SavingIs
  <2>2. CASE ~c.dirty BY <1>1, <2>2
  <2>3. QED BY <2>1, <2>2
<1>7. ASSUME ~app'.ses.active, NEW x \in Present(obs), NameOf(x) \in app'.remembered
      PROVE  x \in app'.ses.ticked
  <2>1. ~app.ses.active BY <1>2, <1>4, <1>6, <1>7 DEF Refreshing
  <2>2. x \in b.ses.ticked BY <1>2, <1>5, <1>6, <1>7, <2>1 DEF Refreshing
  <2>3. QED BY <1>4, <1>6, <1>7, <2>2
<1>8. Present(obs)' = Present(obs) BY <1>1 DEF Present
<1>9. QED BY <1>6, <1>7, <1>8 DEF Settled

LEMMA TickBoxKeeps ==
    ASSUME PluginInv, NEW x \in Object, NEW ok \in BOOLEAN, TickBox(x, ok) PROVE PluginInv'
<1> DEFINE t == Session!Ticking(app.ses, {x})
           a == [app EXCEPT !.ses = t]
           r == Remembering(a, NameOf(x))
           b == IF ok THEN r ELSE a
           asked == [b EXCEPT !.asking = x, !.drawn.checked = @ \cup {x}]
           asks == ok /\ Cardinality(b.ses.ticked) > Threshold
<1>0. app \in AppType /\ obs \in ObsType /\ app.ses \in SesType /\ NameOf(x) \in Name
      /\ app.by \in {"dock", "stream", "record"}
  BY DEF PluginInv, Typed, AppType, Object, NameOf
<1>1. /\ obs.phase = "up" /\ UNCHANGED <<obs, file>> /\ app.asking = None
      /\ x \in app.listed /\ app' = IF asks THEN asked ELSE Refreshed(b, obs)
      /\ wanted' = IF ok THEN [wanted EXCEPT ![obs.coll] = @ \cup {NameOf(x)}] ELSE wanted
  BY DEF TickBox, AtEase, Up
<1>2. t \in SesType /\ t.active = app.ses.active /\ t.paused = app.ses.paused
      /\ t.ticked = app.ses.ticked \cup {x}
  BY <1>0, SMTT(60) DEF Session!Ticking, SesType
<1> HIDE DEF asks, asked, t
<1>3. Becoming(app, t, app.by, a) BY <1>0, <1>2, SessionBecomes
<1> HIDE DEF a
<1>4. a \in AppType BY <1>3 DEF Becoming
<1>5. Noting(a, a.remembered \cup {NameOf(x)}, r) BY <1>0, <1>4, NotingIs
<1> HIDE DEF r
<1>6. /\ b \in AppType /\ b.ses = t /\ b.by = app.by /\ b.config = app.config
      /\ b.memoryOf = app.memoryOf /\ b.kept = app.kept /\ SameList(app, b)
      /\ b.remembered = IF ok THEN app.remembered \cup {NameOf(x)} ELSE app.remembered
      /\ IF ok THEN b.dirty ELSE SameMemory(app, b)
  BY <1>3, <1>5 DEF Becoming, Noting, SameMemory, SameList
<1> HIDE DEF b
<1>7. app.memoryOf = obs.coll /\ obs.coll \in Collection
  BY <1>0, <1>1 DEF PluginInv, HeldInv, ObsType
<1>8. x[1] = obs.coll /\ \A y \in b.ses.ticked \cup app.listed : y[1] = obs.coll
  BY <1>1, <1>2, <1>6 DEF PluginInv, HeldInv
<1>9. /\ wanted' \in [Collection -> SUBSET Name]
      /\ \A c \in Collection :
            wanted'[c] = IF c = obs.coll THEN b.remembered ELSE app.kept.armed[c]
  <2>1. wanted \in [Collection -> SUBSET Name] BY DEF PluginInv, Typed
  <2>2. \A c \in Collection :
            wanted[c] = IF c = obs.coll THEN app.remembered ELSE app.kept.armed[c]
    BY <1>1, <1>7 DEF PluginInv, MemoryInv, RememberedIsWanted, ArmedIn
  <2>3. QED BY <1>0, <1>1, <1>6, <1>7, <2>1, <2>2
<1>10. Following(b, obs)
  <2>1. Following(app, obs) BY FollowingIs DEF PluginInv
  <2>2. QED BY <1>2, <1>6, <2>1 DEF Following
<1>11. CASE ~asks
  <2>1. app' = Refreshed(b, obs') BY <1>1, <1>11
  <2>2. Following(b, obs') BY <1>1, <1>10
  <2>3. b.asking = None BY <1>1, <1>6 DEF SameList
  <2>4. ReadyToDraw(b) BY <1>0, <1>1, <1>6, <1>8, <1>9, <2>1, <2>2, <2>3 DEF ReadyToDraw
  <2>5. QED BY <2>4, DrawingKeeps
<1>12. CASE asks
  <2> DEFINE d == [b.drawn EXCEPT !.checked = @ \cup {x}]
             e == [b EXCEPT !.asking = x, !.drawn = d]
  <2>1. d \in [running : BOOLEAN, enabled : BOOLEAN, checked : SUBSET Object]
        /\ d.checked = app.drawn.checked \cup {x}
    BY <1>6 DEF AppType, SameList
  <2>2. app' = e BY <1>1, <1>12 DEF asked
  <2> HIDE DEF d
  <2>3. /\ e \in AppType /\ e.ses = b.ses /\ e.by = b.by /\ e.config = b.config
        /\ SameMemory(b, e) /\ e.asking = x /\ e.listed = b.listed /\ e.drawn = d
    BY <1>6, <2>1 DEF AppType, SameMemory
  <2> HIDE DEF e
  <2>4. ok BY <1>12 DEF asks
  <2>5. x # None BY PluginAssumption DEF Object
  <2>6. /\ e.dirty /\ e.listed = app.listed /\ e.memoryOf = obs.coll
        /\ e.remembered = b.remembered /\ e.kept = app.kept
    BY <1>6, <1>7, <2>3, <2>4 DEF SameMemory, SameList
  <2>7. Typed' BY <1>0, <1>1, <1>9, <2>1, <2>2, <2>3, <2>6 DEF PluginInv, Typed
  <2>8. HeldInv' BY <1>1, <1>8, <2>2, <2>3, <2>6 DEF HeldInv
  <2>9. SessionFollowsItsStarter'
    <3>1. Following(e, obs) BY <1>10, <2>3 DEF Following
    <3>2. QED BY <1>1, <2>2, <3>1 DEF Following, SessionFollowsItsStarter
  <2>10. MemoryInv'
    <3>1. RememberedIsWanted' BY <1>9, <2>2, <2>6 DEF RememberedIsWanted, ArmedIn
    <3>2. QED BY <1>1, <2>2, <2>6, <3>1 DEF MemoryInv
  <2>11. DockInv' BY <2>2, <2>3, <2>5 DEF DockInv
  <2>12. QED BY <2>7, <2>8, <2>9, <2>10, <2>11 DEF PluginInv
<1>13. QED BY <1>11, <1>12

\* A source is unticked and forgotten, from the row or as the answer to the warning.
LEMMA UntickKeeps ==
    ASSUME PluginInv, obs.phase = "up", UNCHANGED <<obs, file>>,
           NEW x \in Object, NEW a \in AppType, a.ses = app.ses, a.by = app.by,
           a.config = app.config, SameMemory(app, a), a.asking = None,
           app' = Refreshed(Forgetting([a EXCEPT !.ses = Session!Unticking(@, {x})], NameOf(x)), obs),
           wanted' = [wanted EXCEPT ![obs.coll] = @ \ {NameOf(x)}]
    PROVE  PluginInv'
<1> DEFINE d == [a EXCEPT !.ses = Session!Unticking(@, {x})]
           b == Forgetting(d, NameOf(x))
<1>0. obs \in ObsType /\ NameOf(x) \in Name BY DEF PluginInv, Typed, Object, NameOf
<1>1. app' = Refreshed(b, obs') OBVIOUS
<1>2. /\ d \in AppType /\ d.ses.active = a.ses.active /\ d.ses.paused = a.ses.paused
      /\ d.by = a.by /\ d.config = a.config /\ d.ses.ticked = a.ses.ticked \ {x}
      /\ SameMemory(a, d) /\ SameList(a, d)
  BY UntickedIs
<1> HIDE DEF d
<1>3. Noting(d, d.remembered \ {NameOf(x)}, b) BY <1>0, <1>2, NotingIs
<1> HIDE DEF b
<1>4. /\ b \in AppType /\ b.ses = d.ses /\ b.by = app.by /\ b.config = app.config
      /\ b.memoryOf = app.memoryOf /\ b.kept = app.kept /\ b.asking = None /\ b.dirty
      /\ b.remembered = app.remembered \ {NameOf(x)}
  BY <1>2, <1>3 DEF Noting, SameMemory, SameList
<1>5. app.memoryOf = obs.coll /\ obs.coll \in Collection
  BY <1>0 DEF PluginInv, HeldInv, ObsType
<1>6. \A y \in b.ses.ticked : y[1] = obs.coll BY <1>2, <1>4 DEF PluginInv, HeldInv
<1>7. /\ wanted' \in [Collection -> SUBSET Name]
      /\ \A c \in Collection :
            wanted'[c] = IF c = obs.coll THEN b.remembered ELSE app.kept.armed[c]
  <2>1. wanted \in [Collection -> SUBSET Name] BY DEF PluginInv, Typed
  <2>2. \A c \in Collection :
            wanted[c] = IF c = obs.coll THEN app.remembered ELSE app.kept.armed[c]
    BY <1>5 DEF PluginInv, MemoryInv, RememberedIsWanted, ArmedIn
  <2>3. QED BY <1>0, <1>4, <1>5, <2>1, <2>2
<1>8. Following(app, obs) BY FollowingIs DEF PluginInv
<1>9. Following(b, obs') BY <1>2, <1>4, <1>8 DEF Following
<1>10. ReadyToDraw(b) BY <1>0, <1>1, <1>4, <1>6, <1>7, <1>9 DEF ReadyToDraw
<1>11. QED BY <1>10, DrawingKeeps

LEMMA UntickBoxKeeps ==
    ASSUME PluginInv, NEW x \in Object, UntickBox(x) PROVE PluginInv'
<1>1. app \in AppType /\ app.asking = None /\ obs.phase = "up"
  BY DEF PluginInv, Typed, UntickBox, AtEase, Up
<1>2. /\ app' = Refreshed(Forgetting([app EXCEPT !.ses = Session!Unticking(@, {x})], NameOf(x)), obs)
      /\ wanted' = [wanted EXCEPT ![obs.coll] = @ \ {NameOf(x)}] /\ UNCHANGED <<obs, file>>
  BY DEF UntickBox
<1>3. SameMemory(app, app) BY DEF SameMemory
<1>4. QED BY <1>1, <1>2, <1>3, UntickKeeps

LEMMA AnswerKeeps ==
    ASSUME PluginInv, NEW yes \in BOOLEAN, Answer(yes) PROVE PluginInv'
<1> DEFINE x == app.asking
           a == [app EXCEPT !.asking = None]
<1>0. app \in AppType /\ obs \in ObsType BY DEF PluginInv, Typed
<1>1. obs.phase = "up" /\ x # None /\ UNCHANGED <<obs, file>> BY DEF Answer, Up
<1>2. x \in Object /\ x[1] = obs.coll BY <1>0, <1>1 DEF AppType, PluginInv, HeldInv
<1>3. /\ a \in AppType /\ a.ses = app.ses /\ a.by = app.by /\ a.config = app.config
      /\ SameMemory(app, a) /\ a.asking = None
  BY <1>0 DEF AppType, SameMemory
<1>4. CASE yes
  <2>1. app' = Refreshed(a, obs) /\ wanted' = wanted BY <1>4 DEF Answer
  <2> HIDE DEF a
  <2>2. app.memoryOf = obs.coll BY <1>1 DEF PluginInv, HeldInv
  <2>3. \A c \in Collection :
            wanted'[c] = IF c = obs.coll THEN a.remembered ELSE app.kept.armed[c]
    BY <1>1, <1>3, <2>1, <2>2 DEF PluginInv, MemoryInv, RememberedIsWanted, ArmedIn, SameMemory
  <2>4. Following(app, obs) BY FollowingIs DEF PluginInv
  <2>5. Following(a, obs') BY <1>1, <1>3, <2>4 DEF Following
  <2>6. \A y \in a.ses.ticked : y[1] = obs.coll BY <1>3 DEF PluginInv, HeldInv
  <2>7. wanted' \in [Collection -> SUBSET Name] BY <2>1 DEF PluginInv, Typed
  <2>8. a.memoryOf = app.memoryOf /\ a.kept = app.kept BY <1>3 DEF SameMemory
  <2>9. app' = Refreshed(a, obs') BY <1>1, <2>1
  <2>10. ReadyToDraw(a)
    BY <1>0, <1>1, <1>3, <2>3, <2>5, <2>6, <2>7, <2>8, <2>9 DEF ReadyToDraw
  <2>11. QED BY <2>10, DrawingKeeps
<1>5. CASE ~yes
  <2>1. app' = Refreshed(Forgetting([a EXCEPT !.ses = Session!Unticking(@, {x})], NameOf(x)), obs)
        /\ wanted' = [wanted EXCEPT ![x[1]] = @ \ {NameOf(x)}]
    BY <1>5 DEF Answer
  <2> HIDE DEF a, x
  <2>2. QED BY <1>1, <1>2, <1>3, <2>1, UntickKeeps
<1>6. QED BY <1>4, <1>5

LEMMA RecordClickedKeeps ==
    ASSUME PluginInv, NEW outcome \in Outcomes, RecordClicked(outcome) PROVE PluginInv'
<1> DEFINE s == Stopped(app, TRUE)
           d == Configured(app, obs)
           r == StartedBy(d, "dock", outcome)
           b == IF app.ses.active THEN s ELSE r
<1>0. app \in AppType /\ obs \in ObsType BY DEF PluginInv, Typed
<1>1. /\ obs.phase = "up" /\ UNCHANGED <<obs, file, wanted>> /\ app' = Refreshed(b, obs')
  BY DEF RecordClicked, AtEase, Up
<1>2. /\ s \in AppType /\ ~s.ses.active /\ s.ses.ticked \subseteq app.ses.ticked
      /\ SameMemory(app, s) /\ SameList(app, s)
  BY <1>0, StoppedIs
<1>3. Configuring(app, obs, d) BY <1>0, ConfiguredIs
<1> HIDE DEF d, s
<1>4. d \in AppType /\ d.ses = app.ses BY <1>3 DEF Configuring
<1>5. ~app.ses.active => StartingBy(d, "dock", r) BY <1>4, StartedByIs
<1> HIDE DEF r
<1>6. /\ b \in AppType /\ b.ses.ticked \subseteq app.ses.ticked
      /\ SameMemory(app, b) /\ SameList(app, b)
      /\ b.ses.active => ~b.ses.paused /\ b.by = "dock"
  BY <1>2, <1>3, <1>5 DEF StartingBy, Configuring, SameMemory, SameList
<1> HIDE DEF b
<1>7. Following(b, obs') BY <1>6 DEF Following
<1>8. b.asking = app.asking BY <1>6 DEF SameList
<1>9. QED BY <1>0, <1>1, <1>6, <1>7, <1>8, EventKeeps

LEMMA PluginStays == PluginInv /\ [Next]_vars => PluginInv'
<1> SUFFICES ASSUME PluginInv, [Next]_vars PROVE PluginInv' OBVIOUS
<1>1. CASE \E outcome \in Outcomes :
              StreamStarts(outcome) \/ RecordingStarts(outcome) \/ RecordClicked(outcome)
  BY <1>1, StreamStartsKeeps, RecordingStartsKeeps, RecordClickedKeeps
<1>2. CASE StreamStops \/ RecordingStops \/ RecordingPauses
  BY <1>2, StreamStopsKeeps, RecordingStopsKeeps, RecordingPausesKeeps
<1>3. CASE CollectionChanging \/ CollectionChanged \/ CollectionLoads \/ Crash
  BY <1>3, CollectionChangingKeeps, CollectionChangedKeeps, CollectionLoadsKeeps, CrashKeeps
<1>4. CASE \E ok \in Writes : Shutdown(ok) \/ Exit(ok) \/ Launch(ok) \/ Tick(ok)
  BY <1>4, ShutdownKeeps, ExitKeeps, LaunchKeeps, TickKeeps
<1>5. CASE \/ \E x \in Object, ok \in BOOLEAN : TickBox(x, ok)
           \/ \E x \in Object : UntickBox(x)
           \/ \E yes \in BOOLEAN : Answer(yes)
  BY <1>5, TickBoxKeeps, UntickBoxKeeps, AnswerKeeps
<1>6. CASE (\E option \in Toggles : OptionChanged(option)) \/ \E n \in Edits : Delete(n) \/ Add(n)
  BY <1>6, OptionChangedKeeps, EditsKeep
<1>7. CASE UNCHANGED vars
  BY <1>7 DEF vars, PluginInv, Typed, HeldInv, SessionFollowsItsStarter, MemoryInv, OnDisk,
              RememberedIsWanted, ArmedIn, Stored, DockInv
<1>8. QED BY <1>1, <1>2, <1>3, <1>4, <1>5, <1>6, <1>7 DEF Next, Ticks

LEMMA PluginAlways == Spec => []PluginInv
BY PluginBegins, PluginStays, PTL DEF Spec

\* When OBS removes sources, of a collection or its own at shutdown, the plugin holds
\* none of them, and never one of another collection: ReferencesAreBack.
THEOREM ReferencesGoBack == Spec => []ReferencesAreBack
<1>1. PluginInv => ReferencesAreBack
  <2> SUFFICES ASSUME PluginInv PROVE ReferencesAreBack OBVIOUS
  <2>1. obs \in ObsType /\ app \in AppType /\ file \in Store \cup {None}
    BY DEF PluginInv, Typed
  <2>2. app.ses \in SesType /\ app.listed \subseteq Object /\ app.drawn.checked \subseteq app.listed
    BY <2>1 DEF AppType, PluginInv, Typed
  <2>3. /\ app.ses.ticked \cup app.listed \subseteq Object
        /\ {app.ses.active, app.ses.paused, app.ses.resumable, app.dirty, app.unsaved,
            app.config.live, obs.live} \subseteq BOOLEAN
    BY <2>1, <2>2 DEF AppType, ObsType, SesType
  <2>4. TypeOK BY <2>1, <2>2, <2>3 DEF TypeOK, ObsType, AppType
  <2>5. QED BY <2>4 DEF ReferencesAreBack, PluginInv, HeldInv
<1>2. QED BY <1>1, PluginAlways, PTL

\* A session ends with what started it, and is paused and encoded as that is.
THEOREM SessionsFollow == Spec => []SessionFollowsItsStarter
<1>1. PluginInv => SessionFollowsItsStarter BY DEF PluginInv
<1>2. QED BY <1>1, PluginAlways, PTL

\* Ticks are remembered over sessions, collections, launches, failed saves and crashes.
THEOREM TicksAreRemembered == Spec => []RememberedIsWanted
<1>1. PluginInv => RememberedIsWanted BY DEF PluginInv, MemoryInv
<1>2. QED BY <1>1, PluginAlways, PTL

\* What was saved is what the dock remembers and shows.
THEOREM SettingsAreSaved == Spec => []FileIsCurrent
<1>1. PluginInv => FileIsCurrent BY DEF PluginInv, MemoryInv, FileIsCurrent
<1>2. QED BY <1>1, PluginAlways, PTL

\* The button and the rows say what the session does.
THEOREM DockIsRight == Spec => []DockTellsTruth
<1>1. PluginInv => DockTellsTruth BY DEF PluginInv, DockInv, DockTellsTruth, Up
<1>2. QED BY <1>1, PluginAlways, PTL

-----------------------------------------------------------------------------
(* Which steps start a session, and which end one.                           *)

\* Those that do neither.
LEMMA QuietSteps ==
    ASSUME Typed, Typed',
           \/ RecordingPauses \/ CollectionChanged \/ CollectionLoads
           \/ \E ok \in Writes : Tick(ok)
           \/ \E x \in Object, ok \in BOOLEAN : TickBox(x, ok)
           \/ \E x \in Object : UntickBox(x)
           \/ \E yes \in BOOLEAN : Answer(yes)
           \/ \E option \in Toggles : OptionChanged(option)
           \/ \E n \in Edits : Delete(n) \/ Add(n)
           \/ UNCHANGED vars
    PROVE  app'.ses.active = app.ses.active
<1>0. app \in AppType /\ obs \in ObsType /\ obs' \in ObsType /\ app.ses \in SesType
  BY DEF Typed, AppType
<1> DEFINE Same(b) == b \in AppType /\ b.ses.active = app.ses.active
<1>1. ASSUME NEW b, Same(b), NEW o \in ObsType PROVE Same(Refreshed(b, o))
  BY <1>1, RefreshedIs DEF Refreshing
<1>2. ASSUME NEW b, Same(b), NEW S
      PROVE Same([b EXCEPT !.ses = Session!Unticking(@, S)])
  BY <1>2, UntickedIs
<1>3. ASSUME NEW b, Same(b), NEW n \in Name PROVE Same(Remembering(b, n)) /\ Same(Forgetting(b, n))
  BY <1>3, NotingIs DEF Noting
<1>4. ASSUME NEW b, Same(b), NEW o \in ObsType PROVE Same(Configured(b, o))
  BY <1>4, ConfiguredIs DEF Configuring
<1>5. Same(app) BY <1>0
<1>6. CASE RecordingPauses
  <2> DEFINE t == Session!PausingAs(app.ses, obs'.rolling = "paused")
             c == [app EXCEPT !.ses = t]
  <2>1. t \in SesType /\ t.active = app.ses.active BY <1>0 DEF Session!PausingAs, SesType
  <2> HIDE DEF t
  <2>2. Same(c) BY <1>0, <2>1 DEF AppType
  <2> DEFINE d == IF app.by = "record" THEN c ELSE app
  <2>3. app' = Refreshed(d, obs') BY <1>6 DEF RecordingPauses, t
  <2> HIDE DEF c
  <2>4. Same(d) BY <1>5, <2>2
  <2> HIDE DEF d
  <2>5. Same(Refreshed(d, obs')) BY <1>0, <1>1, <2>4
  <2>6. QED BY <2>3, <2>5
<1>7. CASE CollectionChanged \/ CollectionLoads
  <2>1. Same(Refreshed(app, obs')) /\ Same(Configured(app, obs')) BY <1>0, <1>1, <1>4, <1>5
  <2>2. QED BY <1>7, <2>1 DEF CollectionChanged, CollectionLoads
<1>8. ASSUME NEW ok \in Writes, Tick(ok) PROVE app'.ses.active = app.ses.active
  <2> DEFINE b == Refreshed(app, obs)
             c == [b EXCEPT !.ses = Session!Unticking(@, @.ticked \ Present(obs))]
  <2>1. Same(b) BY <1>0, <1>1, <1>5
  <2>2. Same(c) BY <1>2, <2>1
  <2>3. app' = IF c.dirty THEN Saving(c, ok) ELSE c BY <1>8 DEF Tick
  <2> HIDE DEF b, c
  <2>4. Saving(c, ok).ses = c.ses BY <2>2 DEF Saving, AppType
  <2>5. QED BY <2>2, <2>3, <2>4
<1>9. ASSUME NEW x \in Object, NEW ok \in BOOLEAN, TickBox(x, ok)
      PROVE  app'.ses.active = app.ses.active
  <2> DEFINE t == Session!Ticking(app.ses, {x})
             a == [app EXCEPT !.ses = t]
             b == IF ok THEN Remembering(a, NameOf(x)) ELSE a
             c == [b EXCEPT !.asking = x, !.drawn.checked = @ \cup {x}]
  <2>1. t \in SesType /\ t.active = app.ses.active BY <1>0 DEF Session!Ticking, SesType
  <2>2. app' = IF ok /\ Cardinality(b.ses.ticked) > Threshold THEN c ELSE Refreshed(b, obs)
    BY <1>9 DEF TickBox
  <2> HIDE DEF t
  <2>3. Same(a) BY <1>0, <2>1 DEF AppType
  <2>4. NameOf(x) \in Name BY DEF Object, NameOf
  <2> HIDE DEF a
  <2>5. Same(b) BY <1>3, <2>3, <2>4
  <2> HIDE DEF b
  <2>6. c.ses = b.ses BY <2>5 DEF AppType
  <2>7. Same(Refreshed(b, obs)) BY <1>0, <1>1, <2>5
  <2>8. QED BY <2>2, <2>5, <2>6, <2>7
<1>10. ASSUME NEW x \in Object, NEW a, Same(a)
       PROVE Same(Refreshed(Forgetting([a EXCEPT !.ses = Session!Unticking(@, {x})], NameOf(x)), obs))
  <2>1. NameOf(x) \in Name BY DEF Object, NameOf
  <2>2. Same([a EXCEPT !.ses = Session!Unticking(@, {x})]) BY <1>2, <1>10
  <2>3. Same(Forgetting([a EXCEPT !.ses = Session!Unticking(@, {x})], NameOf(x)))
    BY <1>3, <2>1, <2>2
  <2>4. QED BY <1>0, <1>1, <2>3
<1>11. CASE \E x \in Object : UntickBox(x) BY <1>5, <1>10, <1>11 DEF UntickBox
<1>12. ASSUME NEW yes \in BOOLEAN, Answer(yes) PROVE app'.ses.active = app.ses.active
  <2> DEFINE x == app.asking
             a == [app EXCEPT !.asking = None]
             b == Forgetting([a EXCEPT !.ses = Session!Unticking(@, {x})], NameOf(x))
  <2>1. x \in Object BY <1>0, <1>12 DEF Answer, AppType
  <2>2. Same(a) BY <1>0 DEF AppType
  <2>3. app' = Refreshed(IF yes THEN a ELSE b, obs) BY <1>12 DEF Answer
  <2> HIDE DEF x, a
  <2>4. Same(Refreshed(b, obs)) BY <1>10, <2>1, <2>2
  <2>5. Same(Refreshed(a, obs)) BY <1>0, <1>1, <2>2
  <2>6. QED BY <2>3, <2>4, <2>5
<1>13. ASSUME NEW option \in Toggles, OptionChanged(option) PROVE app'.ses.active = app.ses.active
  <2> DEFINE on == IF option \in app.options THEN app.options \ {option} ELSE app.options \cup {option}
             a == [app EXCEPT !.options = on, !.dirty = TRUE]
  <2>1. app' = Configured(a, obs) BY <1>13 DEF OptionChanged
  <2>2. on \in SUBSET Option BY <1>0, PluginAssumption DEF AppType
  <2> HIDE DEF on
  <2>3. Same(a) BY <1>0, <2>2 DEF AppType
  <2> HIDE DEF a
  <2>4. QED BY <1>0, <1>4, <2>1, <2>3
<1>14. CASE (\E n \in Edits : Delete(n) \/ Add(n)) \/ UNCHANGED vars BY <1>14 DEF Delete, Add, vars
<1>15. QED BY <1>6, <1>7, <1>8, <1>9, <1>11, <1>12, <1>13, <1>14

\* Those after which OBS is not up: no session runs.
LEMMA EndingSteps ==
    ASSUME PluginInv', CollectionChanging \/ Crash \/ \E ok \in Writes : Shutdown(ok) \/ Exit(ok) \/ Launch(ok),
           Typed
    PROVE  obs'.phase # "up" /\ ~app'.ses.active
<1>1. obs \in ObsType BY DEF Typed
<1>2. obs'.phase # "up"
  BY <1>1 DEF CollectionChanging, Crash, Shutdown, Exit, Launch, Gone, ObsType
<1>3. QED BY <1>2 DEF PluginInv, HeldInv

\* Those that can start one: only an idle session, and with what it was just given.
LEMMA StartingSteps ==
    ASSUME Typed, Typed', NEW outcome \in Outcomes,
           StreamStarts(outcome) \/ RecordingStarts(outcome) \/ RecordClicked(outcome)
    PROVE  /\ Starts => app'.config.live /\ app'.config.options = app.options
           /\ app.ses.active /\ ~app'.ses.active => obs' = obs
<1>0. app \in AppType /\ obs \in ObsType /\ obs' \in ObsType BY DEF Typed
<1> DEFINE a == Configured(app, obs')
<1>1. Configuring(app, obs', a) BY <1>0, ConfiguredIs
<1> HIDE DEF a
<1>2. a \in AppType BY <1>1 DEF Configuring
<1>3. ASSUME NEW option, NEW who \in {"dock", "stream", "record"},
             app' = Refreshed(StartedWith(a, option, who, outcome), obs')
      PROVE  /\ Starts => app'.config.live /\ app'.config.options = app.options
             /\ app.ses.active => app'.ses.active
  <2> DEFINE b == StartedWith(a, option, who, outcome)
  <2>1. b \in AppType /\ b.config = a.config /\ (a.ses.active => b = a) BY <1>2, StartedWithIs
  <2> HIDE DEF b
  <2>2. Refreshing(b, obs', app') BY <1>0, <1>3, <2>1, RefreshedIs DEF b
  <2>3. QED BY <1>1, <2>1, <2>2 DEF Refreshing, Configuring, Starts
<1>4. CASE StreamStarts(outcome)
  <2>1. app' = Refreshed(StartedWith(a, "withStream", "stream", outcome), obs')
    BY <1>4 DEF StreamStarts, a
  <2>2. QED BY <1>3, <2>1
<1>5. CASE RecordingStarts(outcome)
  <2>1. app' = Refreshed(StartedWith(a, "withRecording", "record", outcome), obs')
    BY <1>5 DEF RecordingStarts, a
  <2>2. QED BY <1>3, <2>1
<1>6. CASE RecordClicked(outcome)
  <2> DEFINE r == StartedBy(a, "dock", outcome)
  <2>1. obs' = obs /\ (~app.ses.active => app' = Refreshed(r, obs')) BY <1>6 DEF RecordClicked, a
  <2>2. ASSUME Starts PROVE app'.config.live /\ app'.config.options = app.options
    <3>1. ~a.ses.active /\ ~app.ses.active BY <1>1, <2>2 DEF Configuring, Starts
    <3>2. StartingBy(a, "dock", r) BY <1>2, <3>1, StartedByIs
    <3>3. r \in AppType /\ r.config = a.config BY <3>2 DEF StartingBy
    <3> HIDE DEF r
    <3>4. Refreshing(r, obs', app') BY <1>0, <2>1, <3>1, <3>3, RefreshedIs
    <3>5. QED BY <1>1, <3>1, <3>3, <3>4 DEF Refreshing, Configuring
  <2>3. QED BY <2>1, <2>2
<1>7. QED BY <1>4, <1>5, <1>6

\* Those in which OBS's outputs end.
LEMMA StoppingSteps ==
    ASSUME Typed, Typed', StreamStops \/ RecordingStops
    PROVE  /\ ~Starts
           /\ app.ses.active /\ ~app'.ses.active =>
                  IF app.by = "record" THEN obs'.live = obs.live ELSE obs'.rolling = obs.rolling
<1>0. app \in AppType /\ obs \in ObsType /\ obs' \in ObsType BY DEF Typed
<1> DEFINE c == Stopped(app, FALSE)
<1>1. c \in AppType /\ ~c.ses.active BY <1>0, StoppedIs
<1> HIDE DEF c
<1>2. CASE StreamStops
  <2> DEFINE b == IF app.by # "record" THEN c ELSE app
  <2>1. app' = Refreshed(b, obs') /\ obs'.rolling = obs.rolling
    BY <1>0, <1>2 DEF StreamStops, c, ObsType
  <2>2. Refreshing(b, obs', app') BY <1>0, <1>1, <2>1, RefreshedIs
  <2>3. QED BY <1>1, <2>1, <2>2 DEF Refreshing, Starts
<1>3. CASE RecordingStops
  <2> DEFINE b == IF app.by = "record" THEN c ELSE app
  <2>1. app' = Refreshed(b, obs') /\ obs'.live = obs.live
    BY <1>0, <1>3 DEF RecordingStops, c, ObsType
  <2>2. Refreshing(b, obs', app') BY <1>0, <1>1, <2>1, RefreshedIs
  <2>3. QED BY <1>1, <2>1, <2>2 DEF Refreshing, Starts
<1>4. QED BY <1>2, <1>3

LEMMA SessionSteps ==
    ASSUME PluginInv, PluginInv', [Next]_vars
    PROVE  /\ Starts => app'.config.live /\ app'.config.options = app.options
           /\ app.ses.active /\ ~app'.ses.active /\ obs'.phase = "up" =>
                  IF app.by = "record" THEN obs'.live = obs.live ELSE obs'.rolling = obs.rolling
<1>1. Typed /\ Typed' BY DEF PluginInv
<1>2. CASE \/ RecordingPauses \/ CollectionChanged \/ CollectionLoads
           \/ \E ok \in Writes : Tick(ok)
           \/ \E x \in Object, ok \in BOOLEAN : TickBox(x, ok)
           \/ \E x \in Object : UntickBox(x)
           \/ \E yes \in BOOLEAN : Answer(yes)
           \/ \E option \in Toggles : OptionChanged(option)
           \/ \E n \in Edits : Delete(n) \/ Add(n)
           \/ UNCHANGED vars
  <2>1. app'.ses.active = app.ses.active BY <1>1, <1>2, QuietSteps
  <2>2. QED BY <2>1 DEF Starts
<1>3. CASE CollectionChanging \/ Crash \/ \E ok \in Writes : Shutdown(ok) \/ Exit(ok) \/ Launch(ok)
  BY <1>1, <1>3, EndingSteps DEF Starts
<1>4. ASSUME NEW outcome \in Outcomes,
             StreamStarts(outcome) \/ RecordingStarts(outcome) \/ RecordClicked(outcome)
      PROVE  /\ Starts => app'.config.live /\ app'.config.options = app.options
             /\ app.ses.active /\ ~app'.ses.active => obs' = obs
  BY <1>1, <1>4, StartingSteps
<1>5. CASE StreamStops \/ RecordingStops BY <1>1, <1>5, StoppingSteps
<1>6. QED BY <1>2, <1>3, <1>4, <1>5 DEF Next, Ticks

\* A session starts with the options that the dock shows, in settings that are held.
THEOREM StartsAreConfigured == Spec => StartUsesWhatIsShown
<1>1. PluginInv /\ PluginInv' /\ [Next]_vars
          => [Starts => app'.config.live /\ app'.config.options = app.options]_vars
  BY SessionSteps
<1>2. QED BY <1>1, PluginAlways, PTL DEF Spec, StartUsesWhatIsShown

\* The other output of OBS does not end a session.
THEOREM OthersLeaveSessionsAlone == Spec => OthersLeaveItAlone
<1>1. PluginInv /\ PluginInv' /\ [Next]_vars
          => [app.ses.active /\ ~app'.ses.active /\ obs'.phase = "up" =>
                IF app.by = "record" THEN obs'.live = obs.live ELSE obs'.rolling = obs.rolling]_vars
  BY SessionSteps
<1>2. QED BY <1>1, PluginAlways, PTL DEF Spec, OthersLeaveItAlone

\* A single tick of the dock's timer puts every remembered tick back and leaves
\* nothing unsaved, whatever the dock, the store and OBS were in: this is what
\* TimerServes needs of each tick; that there is one, is fairness.
THEOREM TickSettlesAll == Spec => [][Ticks => Settled']_vars
<1>1. PluginInv /\ [Next]_vars => [Ticks => Settled']_vars BY TickSettles DEF Ticks
<1>2. QED BY <1>1, PluginAlways, PTL DEF Spec
=============================================================================
