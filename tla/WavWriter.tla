------------------------------ MODULE WavWriter ------------------------------
(* WavWriter (src/wav-writer.cpp) and the file it writes: a header that says *)
(* "unknown length" while recording and is rewritten by close(), 32-bit      *)
(* sizes that give way to RF64, and samples that reach the disk later than   *)
(* they are written, if they do.  The recorder's samples and its callback's  *)
(* guard are those of onPcm (src/source-recorder.cpp).  What a sample is,    *)
(* and the fields of the format chunk, are left out.                         *)
EXTENDS Integers

CONSTANTS
  NonData,      \* kNonDataBytes, what the RIFF size counts beside the samples
  BlockAlign,   \* bytes of a frame
  Unknown,      \* 0xFFFFFFFF, the largest 32-bit number and the mark for "unknown length"
  MaxFrames,    \* bound: frames of one write
  MaxData       \* bound: bytes of samples in the file

ASSUME SizesAssumption ==
    /\ NonData \in Nat \ {0} /\ BlockAlign \in Nat \ {0} /\ Unknown \in Nat /\ NonData < Unknown
    /\ MaxFrames \in Nat \ {0} /\ MaxData \in Nat

VARIABLES
  pc,         \* "shut", "open", in close(): "sought", "rewritten", "stuck"; "closed", "crashed"
  dataBytes,  \* dataBytes_
  failed,     \* failed_, and the recorder's, which a failed write sets
  given,      \* bytes of the frames that were to be written
  torn,       \* history: a write began inside a frame
  ok,         \* ok in close()
  header,     \* the header on disk, or none
  pending,    \* the header in stdio's buffer, or none
  onDisk,     \* bytes of samples that have reached the disk
  stray       \* a header stands behind the samples

vars == <<pc, dataBytes, failed, given, torn, ok, header, pending, onDisk, stray>>

none == [tag |-> "none"]

U32(n) == n % (Unknown + 1)

\* A mutant: the ceiling is compared with the samples alone.
BigByData(data) == data > Unknown

\* buildWavHeader: the sizes as their fields hold them, the 64-bit ones only in RF64.
\* The 64-bit sizes do not wrap in the lifetime of a computer (wav-writer.cpp:99).
Big(data) == NonData + data > Unknown

Header(data, streaming) ==
    [tag    |-> IF Big(data) THEN "RF64" ELSE "RIFF",
     riff   |-> IF streaming \/ Big(data) THEN Unknown ELSE U32(NonData + data),
     data   |-> IF streaming \/ Big(data) THEN Unknown ELSE U32(data),
     riff64 |-> IF Big(data) THEN NonData + data ELSE 0,
     data64 |-> IF Big(data) THEN data ELSE 0]

Init == /\ pc = "shut" /\ dataBytes = 0 /\ failed = FALSE /\ given = 0 /\ torn = FALSE
        /\ ok = FALSE /\ header = none /\ pending = none /\ onDisk = 0 /\ stray = FALSE

-----------------------------------------------------------------------------
(* Operations.                                                               *)

\* open(): the file is made, its header is in stdio's buffer.  When it cannot be
\* made, nothing has changed.
Open == /\ pc = "shut"
        /\ pc' = "open"
        /\ pending' = Header(0, TRUE)
        /\ UNCHANGED <<dataBytes, failed, given, torn, ok, header, onDisk, stray>>

\* A mutant: the recorder goes on after a write that fell short.
WriteOn(frames, written) ==
    /\ pc = "open"
    /\ given' = given + frames * BlockAlign
    /\ torn' = (torn \/ dataBytes % BlockAlign # 0)
    /\ dataBytes' = dataBytes + written
    /\ failed' = (failed \/ written # frames * BlockAlign)
    /\ UNCHANGED <<pc, ok, header, pending, onDisk, stray>>

\* onPcm and write(): fwrite may take fewer bytes, and stop inside a frame; the
\* recorder gives nothing more to a writer that failed.
Write(frames, written) ==
    /\ pc = "open" /\ ~failed
    /\ given' = given + frames * BlockAlign
    /\ torn' = (torn \/ dataBytes % BlockAlign # 0)
    /\ dataBytes' = dataBytes + written
    /\ failed' = (written # frames * BlockAlign)
    /\ UNCHANGED <<pc, ok, header, pending, onDisk, stray>>

\* stdio writes some of its buffer, in the order of the file.
Flushed == IF pending = none THEN header ELSE pending
Flush == /\ pc = "open"
         /\ header' = Flushed /\ pending' = none
         /\ onDisk' \in onDisk .. dataBytes
         /\ UNCHANGED <<pc, dataBytes, failed, given, torn, ok, stray>>

\* close(): fseek writes everything out and goes back to the start of the file.
Seek == /\ pc = "open"
        /\ pc' = "sought"
        /\ header' = Flushed /\ pending' = none
        /\ onDisk' = dataBytes
        /\ ok' = ~failed
        /\ UNCHANGED <<dataBytes, failed, given, torn, stray>>

\* Or it fails, and the end of the file stays where the next header is written.
SeekFails == /\ pc = "open"
             /\ pc' = "stuck"
             /\ ok' = FALSE
             /\ UNCHANGED <<dataBytes, failed, given, torn, header, pending, onDisk, stray>>

\* A mutant: the header is that of a file still recording.
RewriteHeaderStreaming ==
    /\ pc = "sought"
    /\ pc' = "rewritten"
    /\ pending' = Header(dataBytes, TRUE)
    /\ UNCHANGED <<dataBytes, failed, given, torn, ok, header, onDisk, stray>>

\* The header of the bytes that were written; fwrite may refuse it.
RewriteHeader ==
    /\ pc = "sought"
    /\ pc' = "rewritten"
    /\ \/ pending' = Header(dataBytes, FALSE) /\ ok' = ok
       \/ pending' = none /\ ok' = FALSE
    /\ UNCHANGED <<dataBytes, failed, given, torn, header, onDisk, stray>>

\* fclose writes the header out, or fails to.
Close == /\ pc = "rewritten"
         /\ pc' = "closed"
         /\ \/ header' = Flushed /\ ok' = ok
            \/ header' = header /\ ok' = FALSE
         /\ pending' = none
         /\ UNCHANGED <<dataBytes, failed, given, torn, onDisk, stray>>

\* After a failed fseek, the new header and fclose: what the disk takes of the
\* buffer, in the order of the file, with the new header behind the samples.
CloseStuck == /\ pc = "stuck"
              /\ pc' = "closed"
              /\ \/ header' = Flushed
                    /\ onDisk' \in onDisk .. dataBytes
                    /\ stray' \in {FALSE, onDisk' = dataBytes}
                 \/ UNCHANGED <<header, onDisk, stray>>
              /\ pending' = none
              /\ UNCHANGED <<dataBytes, failed, given, torn, ok>>

\* OBS is killed: what stdio held is lost.
Crash == /\ pc \in {"open", "sought", "stuck", "rewritten"}
         /\ pc' = "crashed"
         /\ pending' = none
         /\ UNCHANGED <<dataBytes, failed, given, torn, ok, header, onDisk, stray>>

Next == \/ Open
        \/ \E frames \in 1 .. MaxFrames : \E written \in 0 .. frames * BlockAlign :
              dataBytes + frames * BlockAlign <= MaxData /\ Write(frames, written)
        \/ Flush \/ Seek \/ SeekFails \/ RewriteHeader \/ Close \/ CloseStuck \/ Crash

Spec == Init /\ [][Next]_vars
-----------------------------------------------------------------------------
(* Properties.                                                               *)

Headers == [tag : {"RF64", "RIFF"}, riff : 0 .. Unknown, data : 0 .. Unknown,
            riff64 : Nat, data64 : Nat]

\* Types; the 32-bit fields of a header hold 32-bit numbers, and no more reaches
\* the disk than was written, nor is written than was given.
TypeOK ==
    /\ pc \in {"shut", "open", "sought", "rewritten", "stuck", "closed", "crashed"}
    /\ failed \in BOOLEAN /\ torn \in BOOLEAN /\ ok \in BOOLEAN /\ stray \in BOOLEAN
    /\ header \in Headers \cup {none} /\ pending \in Headers \cup {none}
    /\ given \in Nat /\ dataBytes \in 0 .. given /\ onDisk \in 0 .. dataBytes

\* The sizes a reader takes from a header: those of RF64 are in its ds64 chunk.
Sizes(h) == IF h.tag = "RF64" THEN <<h.riff64, h.data64>> ELSE <<h.riff, h.data>>
Endless(h) == h.tag = "RIFF" /\ Sizes(h) = <<Unknown, Unknown>>
Counts(h, bytes) == Sizes(h) = <<NonData + bytes, bytes>>

\* Whatever is on disk opens, at every moment and after a kill at any moment: no
\* sample is there before the header, and the header either leaves the length open
\* or has the number of bytes that are there, on both sides of the 32-bit ceiling
\* and after writes that fell short.
FileAlwaysOpens ==
    IF header = none THEN onDisk = 0 ELSE Endless(header) \/ Counts(header, onDisk)

\* When close() returns true, the file has every frame that was given to it and
\* nothing else, and its header says so.
ClosedMeansWhole ==
    pc = "closed" /\ ok => header # none /\ Counts(header, given) /\ onDisk = given /\ ~stray

\* Samples stay in their place: after a write that stopped inside a frame, nothing
\* is written that would be read as the rest of it, and no more is on disk than
\* was written, nor written than was given.
WholeFrames == TypeOK /\ ~torn
==============================================================================
