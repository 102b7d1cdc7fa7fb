------------------------------- MODULE MCPlugin -------------------------------
(* Plugin after an update from a version that kept its settings in the OBS    *)
(* profiles: two of them, which disagree on the first collection.             *)
EXTENDS Plugin, TLC

CONSTANTS home, away, cam, game

Scenes == home :> {cam, game} @@ away :> {cam}

TwoProfiles ==
    <<[armed |-> home :> {cam} @@ away :> {}, given |-> FALSE, options |-> {}],
      [armed |-> home :> {game} @@ away :> {cam}, given |-> TRUE,
       options |-> {"withStream", "withRecording", "sameAsStream"}]>>
=============================================================================
