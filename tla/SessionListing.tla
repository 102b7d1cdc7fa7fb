---------------------------- MODULE SessionListing ----------------------------
(* What IsoSession lists in README.txt and session.json: the files it has     *)
(* opened under the names SessionWriter makes for them (SessionNames).  A     *)
(* source may have any of the names, and the codec of a file may be any.      *)
EXTENDS IsoSession, SessionNames

CONSTANTS Names,      \* what sources are called in OBS
          MaxLength   \* of the names that sanitizeName is tried on

\* No two numbers that a file name can hold have the same text.
Numbers == 0..Cardinality(Source) + MaxSegments
ASSUME ListingAssumption ==
    /\ Names \subseteq Seq(Kept \cup Other)
    /\ MaxLength \in Nat
    /\ \A i, j \in Numbers : Numeral(i) = Numeral(j) => i = j

\* The composite is a video file with the number 0.
FileKind(src) == IF src = Scene THEN "video" ELSE KindOf(src)

\* The names a file can have, one for each codec, for its kind, its number, its
\* source's name and its segment; made once for all files.
NameTable ==
    [kind \in Kinds |-> [index \in 0..Cardinality(Source) |-> [segment \in 1..MaxSegments |->
        [name \in Names |-> {MakeFilename(kind, index, name, segment, codec) : codec \in Codecs}]]]]
NamesOfFile(f, name) == NameTable[FileKind(f.src)][f.index][f.segment][name]

\* iso-session.cpp:580: two files of a game never have one name, whatever their
\* sources are called: the digits of a segment can look like a part of another
\* source's name, and different names are sanitized alike.
FileNamesDiffer ==
    \A f \in opened, g \in opened :
        f # g /\ f.game = g.game =>
            \A x, y \in Names :
                (f.src = g.src => x = y) => NamesOfFile(f, x) \cap NamesOfFile(g, y) = {}

\* session-writer.cpp:49: a file name keeps what can be kept of a source's name, in
\* order, with nothing else in it but single underscores between its parts.
SanitizedIsClean ==
    \A n \in 0..MaxLength : \A name \in [1..n -> Kept \cup Other] : Clean(Sanitized(name), name)

\* session-writer.cpp:95: the clock in README.txt is the start rounded to tenths.
ClockCarries == \A hundredths \in 0..700 \cup 5980..6010 \cup 359980..360010 : RightClock(hundredths)

\* What README.txt lists tells the files of a session apart: names that differ, from
\* names that are clean, and clocks that are right.
ListedIsRight == FileNamesDiffer /\ SanitizedIsClean /\ ClockCarries
=============================================================================
