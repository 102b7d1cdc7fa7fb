----------------------------- MODULE MCIsoSession -----------------------------
(* IsoSession with sources of a kind that TLC may exchange: they differ in    *)
(* nothing but their place in the list, so one order stands for the others;   *)
(* and with names for them, each way round.                                   *)
EXTENDS SessionListing, TLC

Alike == Permutations(Video) \cup Permutations(Audio)

\* Names that can be told apart only by their numbers: "a 2" is sanitized as "a"
\* is in its second segment, and "a_2" as "a 2".
Awkward == {<<"a">>, <<"a", " ", "2">>, <<"a", "_", "2">>}
=============================================================================
