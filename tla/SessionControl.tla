---------------------------- MODULE SessionControl ----------------------------
(* A session (src/iso-session.hpp) as the dock and the plugin's event handler *)
(* see it: whether it runs, is paused or can be carried on, and what is       *)
(* ticked.  The operators say what each call does, so a handler that makes    *)
(* several calls is their composition (Plugin).  ControlSpec makes them one   *)
(* at a time: that is what IsoSession, with its recorders, files, numbers and *)
(* manifest, implements.                                                      *)
CONSTANT Tickable   \* the sources that can be ticked

VARIABLE ses

NoSession == [active |-> FALSE, paused |-> FALSE, resumable |-> FALSE, ticked |-> {}]

\* arm, also of a source whose recorder is refused: the entry is kept.
Ticking(s, S) == [s EXCEPT !.ticked = @ \cup S]

\* disarm, the dropping of deleted sources, and releaseSources.
Unticking(s, S) == [s EXCEPT !.ticked = @ \ S]

\* start() in a session that is off.
Starting(s) == [active |-> TRUE, paused |-> FALSE, resumable |-> FALSE, ticked |-> s.ticked]

\* start() that could not create its folder: what was stopped cannot be carried on.
Refusing(s) == [s EXCEPT !.resumable = FALSE]

\* stop(): a pause ends, and every source is let go of.
Stopping(s, resumable) ==
    [active |-> FALSE, paused |-> FALSE, resumable |-> resumable, ticked |-> {}]

\* setPaused: only a running session can be paused.
PausingAs(s, p) == IF s.active THEN [s EXCEPT !.paused = p] ELSE s

-----------------------------------------------------------------------------
ControlInit == ses = NoSession

ControlNext ==
    \/ \E S \in SUBSET Tickable : ses' = Ticking(ses, S)
    \/ \E S \in SUBSET Tickable : ses' = Unticking(ses, S)
    \/ ~ses.active /\ ses' = Starting(ses)
    \/ ~ses.active /\ ses' = Refusing(ses)
    \/ ses.active /\ \E resumable \in BOOLEAN : ses' = Stopping(ses, resumable)
    \/ ses.active /\ \E p \in BOOLEAN : ses' = PausingAs(ses, p)
    \/ ses' = NoSession   \* OBS dies and starts again

ControlSpec == ControlInit /\ [][ControlNext]_ses
=============================================================================
