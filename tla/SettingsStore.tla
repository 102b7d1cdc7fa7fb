---------------------------- MODULE SettingsStore ----------------------------
(* The plugin's settings (src/iso-settings.cpp): one store for all scene      *)
(* collections, kept in memory and written to settings.json.  The first time, *)
(* it is filled from the OBS profiles, where earlier versions kept it.  Here  *)
(* a store has each collection's ticked sources and the options that are on;  *)
(* the half-rate sets are loaded, saved and migrated as the ticked ones are.  *)
EXTENDS Integers, Sequences

CONSTANTS Collection,      \* scene collections
          Name,            \* names of sources
          Option,          \* the settings that are on or off
          DefaultOptions,  \* those that are on in a new SessionConfig
          Profiles         \* the OBS profiles, the current one first

\* What a profile can hold; Given says whether it has options at all.
Profile == [armed : [Collection -> SUBSET Name], given : BOOLEAN, options : SUBSET Option]
ASSUME ProfilesAssumption == Profiles \in Seq(Profile) /\ DefaultOptions \subseteq Option

Store == [armed : [Collection -> SUBSET Name], options : SUBSET Option]

\* A mutant: a later profile replaces what an earlier one gave.
MigrateProfileOver(m, p) ==
    [armed |-> [c \in Collection |-> IF p.armed[c] # {} THEN p.armed[c] ELSE m.armed[c]],
     options |-> IF ~m.given /\ p.given THEN p.options ELSE m.options,
     given |-> m.given \/ p.given]

\* migrateProfile: a profile gives what no profile before it gave.
MigrateProfile(m, p) ==
    [armed |-> [c \in Collection |-> IF m.armed[c] = {} THEN p.armed[c] ELSE m.armed[c]],
     options |-> IF ~m.given /\ p.given THEN p.options ELSE m.options,
     given |-> m.given \/ p.given]

\* migrateFromProfiles: what the first n profiles have given.
Taken[n \in 0..Len(Profiles)] ==
    IF n = 0
    THEN [armed |-> [c \in Collection |-> {}], options |-> DefaultOptions, given |-> FALSE]
    ELSE MigrateProfile(Taken[n - 1], Profiles[n])

\* ... and loadConfig of what it leaves.
Migrated == [armed |-> Taken[Len(Profiles)].armed, options |-> Taken[Len(Profiles)].options]

\* loadArmedSources
ArmedIn(store, c) == store.armed[c]

\* saveConfig and saveArmedSources: one collection's set, beside the others'.
Saved(store, c, names, options) ==
    [armed |-> [store.armed EXCEPT ![c] = names], options |-> options]

-----------------------------------------------------------------------------
\* What the migration should come to: each collection's ticks from the first
\* profile that has any.
FirstArming(c) ==
    {i \in DOMAIN Profiles : Profiles[i].armed[c] # {} /\ \A j \in 1..i - 1 : Profiles[j].armed[c] = {}}

FirstArmed(c) == UNION {Profiles[i].armed[c] : i \in FirstArming(c)}
=============================================================================
