----------------------------- MODULE SessionNames -----------------------------
(* What src/session-writer.cpp makes of a recording's name and start: the     *)
(* name of its file, and its clock in README.txt.  A name is a sequence of    *)
(* characters; a number in a file name is one of them.                       *)
EXTENDS Integers, Sequences, FiniteSets

CONSTANTS Kept,        \* the letters, digits, dots and hyphens
          Other,       \* the characters that cannot be kept; "_" is one
          Numeral(_)   \* the text of a number (snprintf, std::to_string)

ASSUME CharacterAssumption == "_" \in Other /\ Kept \cap Other = {}

\* The body of sanitizeName's loop, for the character c after the text out.
SanitizeNext(out, c) ==
    CASE c \in Kept -> Append(out, c)
      [] c \notin Kept /\ out # <<>> /\ out[Len(out)] # "_" -> Append(out, "_")
      [] OTHER -> out

\* The "_" at its end is taken off: the loop never leaves more than one.
Stripped(out) == IF out # <<>> /\ out[Len(out)] = "_" THEN SubSeq(out, 1, Len(out) - 1) ELSE out

\* sanitizeName
Sanitized(name) ==
    LET text[n \in 0..Len(name)] == IF n = 0 THEN <<>> ELSE SanitizeNext(text[n - 1], name[n])
        out == Stripped(text[Len(name)])
    IN  IF out = <<>> THEN <<"source">> ELSE out

\* codecForEncoderId: the codecs a file can be named for
Codecs == {"h264", "hevc", "prores", "av1"}

\* extensionFor and containerFor: only AV1 needs the MP4 container.
Extension(kind, codec) ==
    CASE kind = "audio" -> "wav"
      [] kind = "video" /\ codec = "av1" -> "mp4"
      [] OTHER -> "mov"

\* A mutant: a name's second segment has the name of its first.
MakeFilenameWhole(kind, index, name, segment, codec) ==
    <<Numeral(index), "_">> \o Sanitized(name) \o <<".", Extension(kind, codec)>>

\* makeFilename
MakeFilename(kind, index, name, segment, codec) ==
    <<Numeral(index), "_">> \o Sanitized(name) \o (IF segment > 1 THEN <<"_", Numeral(segment)>> ELSE <<>>)
        \o <<".", Extension(kind, codec)>>

\* formatClock, of hundredths of a second
FormatClock(hundredths) ==
    LET tenths == ((hundredths % 100) + 5) \div 10
        total == hundredths \div 100 + (IF tenths = 10 THEN 1 ELSE 0)
    IN  [h |-> total \div 3600, m |-> (total % 3600) \div 60, s |-> total % 60,
         tenths |-> IF tenths = 10 THEN 0 ELSE tenths]

-----------------------------------------------------------------------------
(* What a sanitized name and a clock should be.                              *)

\* Of a name are shown the kept characters and, as one "_", the first of the
\* others between two of them; a name of which nothing is shown is "source".
KeptAt(name) == {i \in DOMAIN name : name[i] \in Kept}
GapsAt(name) == {i \in DOMAIN name \ KeptAt(name) : i - 1 \in KeptAt(name)}
Shown(name) == KeptAt(name) \cup {i \in GapsAt(name) : \E j \in KeptAt(name) : i < j}
Clean(out, name) ==
    IF Shown(name) = {}
    THEN out = <<"source">>
    ELSE /\ Len(out) = Cardinality(Shown(name))
         /\ \A i \in Shown(name) :
              out[Cardinality({j \in Shown(name) : j <= i})] = IF i \in KeptAt(name) THEN name[i] ELSE "_"

\* The start rounded to tenths, also where rounding carries into minutes and hours.
RightClock(hundredths) ==
    LET c == FormatClock(hundredths)
    IN  /\ ((c.h * 60 + c.m) * 60 + c.s) * 10 + c.tenths = (hundredths + 5) \div 10
        /\ c.m < 60 /\ c.s < 60 /\ c.tenths < 10
=============================================================================
