--------------------------- MODULE WavWriterProofs ---------------------------
(* Proofs about WavWriter for every size of header, frame and 32-bit field.  *)
EXTENDS WavWriter, TLAPS

\* A number that fits keeps its value in a 32-bit field.
LEMMA FitsIsKept == ASSUME NEW n \in 0 .. Unknown PROVE U32(n) = n
BY SizesAssumption DEF U32

LEMMA HeaderIsHeader ==
    ASSUME NEW data \in Nat, NEW streaming \in BOOLEAN
    PROVE  Header(data, streaming) \in Headers /\ Header(data, streaming) # none
<1>1. NonData + data \in Nat /\ Unknown \in Nat BY SizesAssumption
<1>2. ~Big(data) => NonData + data \in 0 .. Unknown /\ data \in 0 .. Unknown
  BY SizesAssumption DEF Big
<1>3. ~Big(data) => U32(NonData + data) \in 0 .. Unknown /\ U32(data) \in 0 .. Unknown
  BY <1>2, FitsIsKept
<1>4. Unknown \in 0 .. Unknown BY <1>1
<1>5. Header(data, streaming) \in Headers BY <1>1, <1>3, <1>4 DEF Header, Headers
<1>6. Header(data, streaming) # none BY DEF Header, none
<1>7. QED BY <1>5, <1>6

\* The header of a file still recording leaves its length open.
LEMMA StreamingIsEndless == Endless(Header(0, TRUE))
<1>1. ~Big(0) BY SizesAssumption DEF Big
<1>2. QED BY <1>1 DEF Endless, Header, Sizes

\* Every other header has the sizes of its file, below and above the ceiling.
LEMMA HeaderCounts == ASSUME NEW data \in Nat PROVE Counts(Header(data, FALSE), data)
<1>1. CASE Big(data) BY <1>1 DEF Counts, Header, Sizes
<1>2. CASE ~Big(data)
  <2>1. NonData + data \in 0 .. Unknown /\ data \in 0 .. Unknown
    BY <1>2, SizesAssumption DEF Big
  <2>2. U32(NonData + data) = NonData + data /\ U32(data) = data BY <2>1, FitsIsKept
  <2>3. QED BY <1>2, <2>2 DEF Counts, Header, Sizes
<1>3. QED BY <1>1, <1>2

-----------------------------------------------------------------------------
(* Where the headers are in each step of the writer.                         *)

Front ==
    IF pending = none THEN header # none /\ Endless(header)
    ELSE header = none /\ onDisk = 0 /\ Endless(pending)
HeaderInv ==
    /\ pc = "shut" => header = none /\ pending = none /\ onDisk = 0
    /\ pc \in {"open", "stuck"} => Front
    /\ pc \in {"sought", "rewritten"} =>
         header # none /\ Endless(header) /\ onDisk = dataBytes
    /\ pc = "sought" => pending = none
    /\ pc = "rewritten" => pending = none \/ Counts(pending, dataBytes)
    /\ FileAlwaysOpens
WholeInv ==
    /\ ~failed => dataBytes = given
    /\ pc \in {"shut", "open", "stuck"} => ~ok
    /\ ok => ~failed
    /\ pc # "closed" => ~stray
    /\ pc \in {"rewritten", "closed"} /\ ok => onDisk = dataBytes /\ ~stray
    /\ pc = "rewritten" /\ ok => pending # none
    /\ ClosedMeansWhole
WavInv == TypeOK /\ HeaderInv /\ WholeInv

LEMMA InitWav == Init => WavInv
<1> SUFFICES ASSUME Init PROVE WavInv OBVIOUS
<1>1. TypeOK
  <2>1. given \in Nat /\ dataBytes \in 0 .. given /\ onDisk \in 0 .. dataBytes BY DEF Init
  <2>2. pc = "shut" /\ ~failed /\ ~torn /\ ~ok /\ ~stray /\ header = none /\ pending = none
    BY DEF Init
  <2>3. failed \in BOOLEAN /\ torn \in BOOLEAN /\ ok \in BOOLEAN /\ stray \in BOOLEAN
    BY DEF Init
  <2>4. QED BY <2>1, <2>2, <2>3 DEF TypeOK
<1>2. HeaderInv BY DEF Init, HeaderInv, FileAlwaysOpens
<1>3. WholeInv BY DEF Init, WholeInv, ClosedMeansWhole
<1>4. QED BY <1>1, <1>2, <1>3 DEF WavInv

LEMMA StepTypes == ASSUME TypeOK, [Next]_vars PROVE TypeOK'
<1> USE DEF TypeOK
<1>0. dataBytes \in Nat /\ onDisk \in Nat OBVIOUS
<1>1. CASE Open BY <1>1, HeaderIsHeader DEF Open
<1>2. ASSUME NEW frames \in 1 .. MaxFrames, NEW written \in 0 .. frames * BlockAlign,
             Write(frames, written)
      PROVE  TypeOK'
  <2>1. frames * BlockAlign \in Nat BY SizesAssumption
  <2>2. given' \in Nat /\ dataBytes' \in 0 .. given' /\ onDisk' \in 0 .. dataBytes'
    BY <1>2, <2>1 DEF Write
  <2>3. torn' \in BOOLEAN /\ failed' \in BOOLEAN BY <1>2 DEF Write
  <2>4. QED BY <1>2, <2>2, <2>3 DEF Write
<1>3. CASE Flush BY <1>3 DEF Flush, Flushed
<1>4. CASE Seek BY <1>4 DEF Seek, Flushed
<1>5. CASE SeekFails BY <1>5 DEF SeekFails
<1>6. CASE RewriteHeader
  <2>1. Header(dataBytes, FALSE) \in Headers BY <1>0, HeaderIsHeader
  <2>2. pending' \in Headers \cup {none} BY <1>6, <2>1 DEF RewriteHeader
  <2>3. ok' \in BOOLEAN BY <1>6 DEF RewriteHeader
  <2>4. QED BY <1>6, <2>2, <2>3 DEF RewriteHeader
<1>7. CASE Close
  <2>1. header' \in Headers \cup {none} /\ ok' \in BOOLEAN BY <1>7 DEF Close, Flushed
  <2>2. QED BY <1>7, <2>1 DEF Close
<1>8. CASE CloseStuck
  <2>1. header' \in Headers \cup {none} BY <1>8 DEF CloseStuck, Flushed
  <2>2. onDisk' \in 0 .. dataBytes
    <3>1. onDisk' = onDisk \/ onDisk' \in onDisk .. dataBytes BY <1>8, Zenon DEF CloseStuck
    <3>2. QED BY <1>0, <3>1
  <2>3. stray' \in BOOLEAN BY <1>8 DEF CloseStuck
  <2>4. QED BY <1>8, <2>1, <2>2, <2>3 DEF CloseStuck
<1>9. CASE Crash BY <1>9 DEF Crash
<1>10. CASE UNCHANGED vars BY <1>10 DEF vars
<1>11. QED BY <1>1, <1>2, <1>3, <1>4, <1>5, <1>6, <1>7, <1>8, <1>9, <1>10 DEF Next

LEMMA StepHeader == ASSUME TypeOK, HeaderInv, [Next]_vars PROVE HeaderInv'
<1> USE DEF HeaderInv, FileAlwaysOpens, Front
<1>0. dataBytes \in Nat BY DEF TypeOK
<1>1. CASE Open BY <1>1, HeaderIsHeader, StreamingIsEndless DEF Open
<1>2. ASSUME NEW frames, NEW written, Write(frames, written) PROVE HeaderInv'
  BY <1>2 DEF Write
<1>3. CASE Flush BY <1>3 DEF Flush, Flushed
<1>4. CASE Seek BY <1>4 DEF Seek, Flushed
<1>5. CASE SeekFails BY <1>5 DEF SeekFails
<1>6. CASE RewriteHeader
  <2>1. Counts(Header(dataBytes, FALSE), dataBytes) BY <1>0, HeaderCounts
  <2>2. pending' = none \/ Counts(pending', dataBytes') BY <1>6, <2>1 DEF RewriteHeader
  <2>3. QED BY <1>6, <2>2 DEF RewriteHeader
<1>7. CASE Close BY <1>7 DEF Close, Flushed
<1>8. CASE CloseStuck BY <1>8 DEF CloseStuck, Flushed
<1>9. CASE Crash BY <1>9 DEF Crash
<1>10. CASE UNCHANGED vars BY <1>10 DEF vars
<1>11. QED BY <1>1, <1>2, <1>3, <1>4, <1>5, <1>6, <1>7, <1>8, <1>9, <1>10 DEF Next

LEMMA StepWhole == ASSUME TypeOK, HeaderInv, WholeInv, [Next]_vars PROVE WholeInv'
<1> USE DEF WholeInv, ClosedMeansWhole
<1>0. dataBytes \in Nat BY DEF TypeOK
<1>1. CASE Open BY <1>1 DEF Open
<1>2. ASSUME NEW frames, NEW written, Write(frames, written) PROVE WholeInv'
  BY <1>2 DEF Write
<1>3. CASE Flush BY <1>3 DEF Flush
<1>4. CASE Seek BY <1>4 DEF Seek
<1>5. CASE SeekFails BY <1>5 DEF SeekFails
<1>6. CASE RewriteHeader
  <2>1. Header(dataBytes, FALSE) # none BY <1>0, HeaderIsHeader
  <2>2. ok' => ok /\ pending' # none BY <1>6, <2>1 DEF RewriteHeader
  <2>3. onDisk' = dataBytes' BY <1>6 DEF RewriteHeader, HeaderInv
  <2>4. pc' = "rewritten" /\ pc = "sought" /\ UNCHANGED <<dataBytes, failed, given, stray>>
    BY <1>6 DEF RewriteHeader
  <2>5. QED BY <2>2, <2>3, <2>4
<1>7. CASE Close BY <1>7 DEF Close, Flushed, HeaderInv
<1>8. CASE CloseStuck BY <1>8 DEF CloseStuck
<1>9. CASE Crash BY <1>9 DEF Crash
<1>10. CASE UNCHANGED vars BY <1>10 DEF vars
<1>11. QED BY <1>1, <1>2, <1>3, <1>4, <1>5, <1>6, <1>7, <1>8, <1>9, <1>10 DEF Next

LEMMA WavInvariant == Spec => []WavInv
<1>1. WavInv /\ [Next]_vars => WavInv' BY StepTypes, StepHeader, StepWhole DEF WavInv
<1>2. QED BY InitWav, <1>1, PTL DEF Spec

\* Whatever a kill leaves on disk opens, for every size of file: buildWavHeader's
\* sizes are true on both sides of the 32-bit ceiling, and close() has flushed the
\* samples before the header that counts them.
THEOREM WavAlwaysOpens == Spec => []FileAlwaysOpens
<1>1. WavInv => FileAlwaysOpens BY DEF WavInv, HeaderInv
<1>2. QED BY WavInvariant, <1>1, PTL

\* A close() that returned true left a whole file.
THEOREM ClosedWavIsWhole == Spec => []ClosedMeansWhole
<1>1. WavInv => ClosedMeansWhole BY DEF WavInv, WholeInv
<1>2. QED BY WavInvariant, <1>1, PTL
-----------------------------------------------------------------------------
(* Frames.                                                                   *)

\* Whole frames end where a frame ends.
LEMMA FramesDivide == ASSUME NEW k \in Nat PROVE (k * BlockAlign) % BlockAlign = 0
<1>1. BlockAlign \in Nat \ {0} BY SizesAssumption
<1>2. k * BlockAlign \in Nat BY <1>1
<1>3. QED BY <1>1, <1>2, SMTT(20)

\* What was given is whole frames, and what was taken of it is all of it until a
\* write falls short: no write begins inside a frame.
FramesInv == ~torn /\ \E k \in Nat : given = k * BlockAlign

LEMMA StepFrames == ASSUME WavInv, FramesInv, [Next]_vars PROVE FramesInv'
<1>1. ASSUME NEW frames \in 1 .. MaxFrames, NEW written, Write(frames, written)
      PROVE  FramesInv'
  <2>1. dataBytes = given BY <1>1 DEF WavInv, WholeInv, Write
  <2>2. PICK k \in Nat : given = k * BlockAlign BY DEF FramesInv
  <2>3. dataBytes % BlockAlign = 0 BY <2>1, <2>2, FramesDivide
  <2>4. ~torn' BY <1>1, <2>3 DEF FramesInv, Write
  <2>5. given' = (k + frames) * BlockAlign BY <1>1, <2>2, SizesAssumption DEF Write
  <2>6. k + frames \in Nat OBVIOUS
  <2>7. QED BY <2>4, <2>5, <2>6 DEF FramesInv
<1>2. ASSUME UNCHANGED <<given, torn>> PROVE FramesInv'
  BY <1>2 DEF FramesInv
<1>3. \/ \E frames \in 1 .. MaxFrames : \E written : Write(frames, written)
      \/ UNCHANGED <<given, torn>>
  BY DEF Next, Open, Flush, Seek, SeekFails, RewriteHeader, Close, CloseStuck, Crash, vars
<1>4. QED BY <1>1, <1>2, <1>3

\* For every frame size, the recorder's guard keeps every sample of a file in its
\* place: nothing is written after a write that stopped inside a frame.
THEOREM FramesStayWhole == Spec => []WholeFrames
<1>1. Init => FramesInv
  <2>1. Init => ~torn /\ given = 0 * BlockAlign BY SizesAssumption DEF Init
  <2>2. QED BY <2>1 DEF FramesInv
<1>2. WavInv /\ FramesInv /\ [Next]_vars => FramesInv' BY StepFrames
<1>3. WavInv /\ FramesInv => WholeFrames BY DEF WavInv, FramesInv, WholeFrames
<1>4. QED BY WavInvariant, <1>1, <1>2, <1>3, PTL DEF Spec
=============================================================================
