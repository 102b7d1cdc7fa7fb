-------------------------- MODULE BlockQueueProofs --------------------------
(* Proofs about BlockQueue for every capacity, prime level and set of        *)
(* blocks: its types, that the ring arithmetic covers exactly the queued     *)
(* blocks, and that it implements the drop-oldest queue.                     *)
EXTENDS BlockQueue, SequenceTheorems, TLAPS

USE CapacityAssumption, PrimeAssumption

-----------------------------------------------------------------------------
(* Arithmetic of the ring: an offset below the capacity wraps at most once.  *)

\* Every index push and pop compute is a slot of the ring.
LEMMA IndexIsSlot ==
    ASSUME NEW n \in Nat PROVE n % Capacity \in Slot
BY DEF Slot

\* An index below the capacity is its own slot, and one lap later is the same slot.
LEMMA IndexWraps ==
    ASSUME NEW n \in 0..2 * Capacity - 1
    PROVE  n % Capacity = IF n < Capacity THEN n ELSE n - Capacity
<1>1. CASE n < Capacity BY <1>1
<1>2. CASE n >= Capacity
  <2>1. PICK m \in 0..Capacity - 1 : n = m + Capacity
    <3>1. n - Capacity \in 0..Capacity - 1 /\ n = (n - Capacity) + Capacity BY <1>2
    <3>2. QED BY <3>1
  <2>2. (m + Capacity) % Capacity = m OBVIOUS
  <2>3. QED BY <2>1, <2>2, <1>2
<1>3. QED BY <1>1, <1>2

\* Offsets 0..Capacity - 1 from a slot land on different slots.
LEMMA OffsetsAreDistinct ==
    ASSUME NEW h \in Slot, NEW i \in 0..Capacity - 1, NEW j \in 0..Capacity - 1,
           (h + i) % Capacity = (h + j) % Capacity
    PROVE  i = j
<1>1. h + i \in 0..2 * Capacity - 1 /\ h + j \in 0..2 * Capacity - 1 BY DEF Slot
<1>2. QED BY <1>1, IndexWraps DEF Slot

\* Stepping the head by one and counting from there is counting one further.
LEMMA HeadStep ==
    ASSUME NEW h \in Slot, NEW i \in 0..Capacity - 1
    PROVE  (Next1(h) + i) % Capacity = (h + (i + 1)) % Capacity
<1>1. h + 1 \in 0..2 * Capacity - 1 BY DEF Slot
<1>2. Next1(h) = IF h + 1 < Capacity THEN h + 1 ELSE h + 1 - Capacity
  BY <1>1, IndexWraps DEF Next1, Slot
<1>3. CASE h + 1 < Capacity
  BY <1>2, <1>3 DEF Slot
<1>4. CASE ~(h + 1 < Capacity)
  <2>1. Next1(h) = 0 /\ h + 1 = Capacity BY <1>2, <1>4 DEF Slot
  <2>2. i % Capacity = i OBVIOUS
  <2>3. (i + Capacity) % Capacity = i OBVIOUS
  <2>4. h + (i + 1) = i + Capacity BY <2>1 DEF Slot
  <2>5. QED BY <2>1, <2>2, <2>3, <2>4
<1>5. QED BY <1>3, <1>4

-----------------------------------------------------------------------------
\* Every step keeps the types.
LEMMA NextKeepsTypes ==
    ASSUME QueueTypeOK, [QueueNext]_queueVars
    PROVE  QueueTypeOK'
<1>1. /\ ring \in [Slot -> Block \cup {NoBlock}]
      /\ primed \in BOOLEAN
      /\ reply \in Replies
  BY DEF QueueTypeOK
<1>2. head \in Slot /\ head \in Nat /\ size \in 0..Capacity
  BY DEF QueueTypeOK, Slot
<1>3. Next1(head) \in Slot /\ Next1(head) \in Nat
  <2>1. (head + 1) % Capacity \in Slot BY <1>2, IndexIsSlot
  <2>2. QED BY <2>1 DEF Next1, Slot
<1>4. ASSUME NEW b \in Block, PushKept(b) PROVE QueueTypeOK'
  <2>1. (head + size) % Capacity \in Slot BY <1>2, IndexIsSlot
  <2>2. ring' \in [Slot -> Block \cup {NoBlock}] BY <1>1, <1>4, <2>1 DEF PushKept
  <2>3. head' \in Slot /\ size' \in 0..Capacity BY <1>2, <1>4 DEF PushKept, Full
  <2>4. primed' \in BOOLEAN BY <1>1, <1>4 DEF PushKept
  <2>5. reply' \in Replies BY <1>4 DEF PushKept, Replies
  <2>6. QED BY <2>2, <2>3, <2>4, <2>5 DEF QueueTypeOK
<1>5. ASSUME NEW b \in Block, PushDropping(b) PROVE QueueTypeOK'
  <2>1. head' = Next1(head) /\ size' = size /\ size = Capacity
    BY <1>5 DEF PushDropping, Full
  <2>2. (head' + (size - 1)) % Capacity \in Slot BY <1>3, <2>1, IndexIsSlot
  <2>3. ring' \in [Slot -> Block \cup {NoBlock}] BY <1>1, <1>5, <2>2 DEF PushDropping
  <2>4. primed' \in BOOLEAN BY <1>1, <1>5 DEF PushDropping
  <2>5. reply' \in Replies BY <1>5 DEF PushDropping, Replies
  <2>6. QED BY <1>2, <1>3, <2>1, <2>3, <2>4, <2>5 DEF QueueTypeOK
<1>6. CASE PopOk
  <2>1. head' = Next1(head) /\ size' = size - 1 /\ size # 0
    BY <1>6 DEF PopOk, PopGot
  <2>2. size' \in 0..Capacity BY <1>2, <2>1
  <2>3. ring[head] \in Block \cup {NoBlock} BY <1>1, <1>2
  <2>4. reply' \in Replies BY <1>6, <2>3 DEF PopOk, Replies
  <2>5. UNCHANGED <<ring, primed>> BY <1>6 DEF PopOk
  <2>6. QED BY <1>1, <1>3, <2>1, <2>2, <2>4, <2>5 DEF QueueTypeOK
<1>7. CASE PopNothing
  <2>1. reply' \in Replies BY <1>7 DEF PopNothing, PopGot, Replies
  <2>2. QED BY <1>1, <1>2, <1>7, <2>1 DEF PopNothing, ringVars, QueueTypeOK
<1>8. CASE Clear
  <2>1. reply' \in Replies BY <1>8 DEF Clear, Replies
  <2>2. head' \in Slot /\ size' \in 0..Capacity BY <1>8 DEF Clear, Slot
  <2>3. UNCHANGED ring /\ primed' \in BOOLEAN BY <1>8 DEF Clear
  <2>4. QED BY <1>1, <2>1, <2>2, <2>3 DEF QueueTypeOK
<1>9. CASE UNCHANGED queueVars
  BY <1>1, <1>2, <1>9 DEF queueVars, QueueTypeOK
<1>10. QED BY <1>4, <1>5, <1>6, <1>7, <1>8, <1>9 DEF QueueNext, Push, Pop

\* The initial state is well typed.
LEMMA InitTypes == QueueInit => QueueTypeOK
<1> SUFFICES ASSUME QueueInit PROVE QueueTypeOK OBVIOUS
<1>1. ring \in [Slot -> Block \cup {NoBlock}] BY DEF QueueInit
<1>2. head \in Slot BY DEF QueueInit, Slot
<1>3. size \in 0..Capacity BY DEF QueueInit
<1>4. reply \in Replies BY DEF QueueInit, Replies
<1>5. QED BY <1>1, <1>2, <1>3, <1>4 DEF QueueInit, QueueTypeOK

\* The types of block-queue.hpp hold in every reachable state: head_ indexes the
\* ring and size_ never exceeds kCapacity, for every capacity and prime level.
THEOREM TypeCorrect == QueueSpec => []QueueTypeOK
<1>1. QueueTypeOK /\ [QueueNext]_queueVars => QueueTypeOK' BY NextKeepsTypes
<1>2. QED BY InitTypes, <1>1, PTL DEF QueueSpec

-----------------------------------------------------------------------------
(* What each operation does to the waiting blocks.  The facts are about any  *)
(* ring content r, head h and size n, so that they serve both the state      *)
(* before a step and the state after it.                                     *)

Content == Block \cup {NoBlock}
Ring == [Slot -> Content]
Blocks(r, h, n) == [i \in 1..n |-> r[(h + (i - 1)) % Capacity]]
Write(r, h, j, b) == [r EXCEPT ![(h + j) % Capacity] = b]

\* The queued blocks are a sequence of n blocks.
LEMMA BlocksAreSeq ==
    ASSUME NEW r \in Ring, NEW h \in Slot, NEW n \in 0..Capacity
    PROVE  /\ Blocks(r, h, n) \in Seq(Content)
           /\ Len(Blocks(r, h, n)) = n
           /\ \A i \in 1..n : Blocks(r, h, n)[i] = r[(h + (i - 1)) % Capacity]
<1>1. ASSUME NEW i \in 1..n PROVE r[(h + (i - 1)) % Capacity] \in Content
  <2>1. h + (i - 1) \in Nat BY DEF Slot
  <2>2. (h + (i - 1)) % Capacity \in Slot BY <2>1, IndexIsSlot
  <2>3. QED BY <2>2 DEF Ring
<1>2. n \in Nat OBVIOUS
<1>3. QED BY <1>1, <1>2 DEF Blocks

\* A write to one offset changes that offset and no other.
LEMMA WriteOneOffset ==
    ASSUME NEW r \in Ring, NEW h \in Slot, NEW j \in 0..Capacity - 1, NEW b \in Content
    PROVE  /\ Write(r, h, j, b) \in Ring
           /\ Write(r, h, j, b)[(h + j) % Capacity] = b
           /\ \A i \in 0..Capacity - 1 :
                 i # j => Write(r, h, j, b)[(h + i) % Capacity] = r[(h + i) % Capacity]
<1> DEFINE s == Write(r, h, j, b)
<1>1. h + j \in Nat BY DEF Slot
<1>2. (h + j) % Capacity \in Slot BY <1>1, IndexIsSlot
<1>3. s \in Ring /\ s[(h + j) % Capacity] = b BY <1>2 DEF Ring, Write
<1>4. ASSUME NEW i \in 0..Capacity - 1, i # j
      PROVE  s[(h + i) % Capacity] = r[(h + i) % Capacity]
  <2>1. h + i \in Nat BY DEF Slot
  <2>2. (h + i) % Capacity \in Slot BY <2>1, IndexIsSlot
  <2>3. (h + i) % Capacity # (h + j) % Capacity BY <1>4, OffsetsAreDistinct
  <2>4. QED BY <1>2, <2>2, <2>3 DEF Ring, Write
<1>5. QED BY <1>3, <1>4

\* Writing behind the last queued block appends it.
LEMMA WriteBehindAppends ==
    ASSUME NEW r \in Ring, NEW h \in Slot, NEW n \in 0..Capacity - 1, NEW b \in Content
    PROVE  Blocks(Write(r, h, n, b), h, n + 1) = Append(Blocks(r, h, n), b)
<1> DEFINE s == Write(r, h, n, b)
<1>1. /\ s \in Ring
      /\ s[(h + n) % Capacity] = b
      /\ \A i \in 0..Capacity - 1 : i # n => s[(h + i) % Capacity] = r[(h + i) % Capacity]
  BY WriteOneOffset
<1> HIDE DEF s
<1> DEFINE w == Blocks(r, h, n)
           v == Blocks(s, h, n + 1)
<1>2. /\ w \in Seq(Content)
      /\ Len(w) = n
      /\ \A i \in 1..n : w[i] = r[(h + (i - 1)) % Capacity]
  <2>1. n \in 0..Capacity OBVIOUS
  <2>2. QED BY <2>1, BlocksAreSeq
<1>3. /\ v \in Seq(Content)
      /\ Len(v) = n + 1
      /\ \A i \in 1..n + 1 : v[i] = s[(h + (i - 1)) % Capacity]
  <2>1. n + 1 \in 0..Capacity OBVIOUS
  <2>2. QED BY <1>1, <2>1, BlocksAreSeq
<1> HIDE DEF w, v
<1>4. /\ Append(w, b) \in Seq(Content)
      /\ Len(Append(w, b)) = n + 1
      /\ \A i \in 1..n : Append(w, b)[i] = w[i]
      /\ Append(w, b)[n + 1] = b
  BY <1>2, AppendProperties
<1>5. ASSUME NEW i \in 1..n + 1 PROVE v[i] = Append(w, b)[i]
  <2>1. CASE i = n + 1
    <3>1. i - 1 = n BY <2>1
    <3>2. QED BY <1>1, <1>3, <1>4, <2>1, <3>1
  <2>2. CASE i # n + 1
    <3>1. i \in 1..n /\ i - 1 \in 0..Capacity - 1 /\ i - 1 # n BY <2>2
    <3>2. QED BY <1>1, <1>2, <1>3, <1>4, <3>1
  <2>3. QED BY <2>1, <2>2
<1>6. v = Append(w, b) BY <1>3, <1>4, <1>5, SeqEqual
<1>7. QED BY <1>6 DEF w, v, s

\* Moving the head on by one removes the oldest block.
LEMMA HeadStepRemovesOldest ==
    ASSUME NEW r \in Ring, NEW h \in Slot, NEW n \in 1..Capacity
    PROVE  /\ Blocks(r, h, n) # <<>>
           /\ Head(Blocks(r, h, n)) = r[h]
           /\ Blocks(r, Next1(h), n - 1) = Tail(Blocks(r, h, n))
<1> DEFINE w == Blocks(r, h, n)
           v == Blocks(r, Next1(h), n - 1)
<1>1. h + 1 \in Nat BY DEF Slot
<1>2. Next1(h) \in Slot BY <1>1, IndexIsSlot DEF Next1
<1>3. /\ w \in Seq(Content)
      /\ Len(w) = n
      /\ \A i \in 1..n : w[i] = r[(h + (i - 1)) % Capacity]
  BY BlocksAreSeq
<1>4. /\ v \in Seq(Content)
      /\ Len(v) = n - 1
      /\ \A i \in 1..n - 1 : v[i] = r[(Next1(h) + (i - 1)) % Capacity]
  <2>1. n - 1 \in 0..Capacity OBVIOUS
  <2>2. QED BY <1>2, <2>1, BlocksAreSeq
<1> HIDE DEF w, v
<1>5. w # <<>> BY <1>3, EmptySeq
<1>6. /\ Tail(w) \in Seq(Content)
      /\ Len(Tail(w)) = n - 1
      /\ \A i \in 1..n - 1 : Tail(w)[i] = w[i + 1]
  BY <1>3, <1>5, HeadTailProperties
<1>7. ASSUME NEW i \in 1..n - 1 PROVE v[i] = Tail(w)[i]
  <2>1. i - 1 \in 0..Capacity - 1 /\ (i - 1) + 1 = i /\ (i + 1) - 1 = i /\ i + 1 \in 1..n
    OBVIOUS
  <2>2. v[i] = r[(h + i) % Capacity] BY <1>4, <2>1, HeadStep
  <2>3. w[i + 1] = r[(h + i) % Capacity] BY <1>3, <2>1
  <2>4. QED BY <1>6, <2>2, <2>3
<1>8. v = Tail(w) BY <1>4, <1>6, <1>7, SeqEqual
<1>9. Head(w) = r[h]
  <2>1. w[1] = r[(h + 0) % Capacity] BY <1>3
  <2>2. h % Capacity = h /\ h + 0 = h BY DEF Slot
  <2>3. Head(w) = w[1] BY <1>3, <1>5
  <2>4. QED BY <2>1, <2>2, <2>3
<1>10. QED BY <1>5, <1>8, <1>9 DEF w, v
-----------------------------------------------------------------------------
(* Each operation, seen on the waiting blocks.                               *)

\* The waiting blocks before and after a step between well-typed states.
LEMMA WaitingBlocks ==
    ASSUME QueueTypeOK
    PROVE  /\ Waiting = Blocks(ring, head, size)
           /\ ring \in Ring /\ head \in Slot /\ size \in 0..Capacity
           /\ Waiting \in Seq(Content) /\ Len(Waiting) = size
<1>1. ring \in Ring /\ head \in Slot /\ size \in 0..Capacity
  BY DEF QueueTypeOK, Ring, Content
<1>2. Waiting = Blocks(ring, head, size) BY DEF Waiting, Blocks
<1>3. QED BY <1>1, <1>2, BlocksAreSeq

\* A push with room appends the block.
LEMMA KeptAppends ==
    ASSUME QueueTypeOK, NEW b \in Block, PushKept(b)
    PROVE  Waiting' = Append(Waiting, b)
<1>1. size \in 0..Capacity - 1 /\ size' = size + 1 /\ head' = head
  BY WaitingBlocks DEF PushKept, Full
<1>2. ring' = Write(ring, head, size, b) BY DEF PushKept, Write
<1>3. b \in Content BY DEF Content
<1>4. Waiting' = Blocks(ring', head', size') BY DEF Waiting, Blocks
<1>5. Blocks(Write(ring, head, size, b), head, size + 1) = Append(Blocks(ring, head, size), b)
  BY <1>1, <1>3, WaitingBlocks, WriteBehindAppends
<1>6. QED BY <1>1, <1>2, <1>4, <1>5, WaitingBlocks

\* A push into a full queue removes the oldest block and appends the new one.
LEMMA DroppingShifts ==
    ASSUME QueueTypeOK, NEW b \in Block, PushDropping(b)
    PROVE  /\ Waiting # <<>> /\ size = Capacity
           /\ Waiting' = Append(Tail(Waiting), b)
<1>1. size = Capacity /\ size' = Capacity /\ head' = Next1(head)
  BY DEF PushDropping, Full
<1>2. size \in 1..Capacity /\ Capacity - 1 \in 0..Capacity - 1 /\ (Capacity - 1) + 1 = Capacity
  BY <1>1
<1>3. Next1(head) \in Slot
  <2>1. head + 1 \in Nat BY WaitingBlocks DEF Slot
  <2>2. QED BY <2>1, IndexIsSlot DEF Next1
<1>4. ring' = Write(ring, Next1(head), Capacity - 1, b) BY <1>1 DEF PushDropping, Write
<1>5. b \in Content BY DEF Content
<1>6. Waiting' = Blocks(ring', head', size') BY DEF Waiting, Blocks
<1>7. Blocks(Write(ring, Next1(head), Capacity - 1, b), Next1(head), (Capacity - 1) + 1)
        = Append(Blocks(ring, Next1(head), Capacity - 1), b)
  BY <1>2, <1>3, <1>5, WaitingBlocks, WriteBehindAppends
<1>8. /\ Blocks(ring, head, size) # <<>>
      /\ Blocks(ring, Next1(head), size - 1) = Tail(Blocks(ring, head, size))
  BY <1>2, WaitingBlocks, HeadStepRemovesOldest
<1>9. QED BY <1>1, <1>2, <1>4, <1>6, <1>7, <1>8, WaitingBlocks

\* A pop that answers Ok hands out and removes the oldest block.
LEMMA PopRemovesOldest ==
    ASSUME QueueTypeOK, PopOk
    PROVE  /\ Waiting # <<>>
           /\ reply'.out = Head(Waiting)
           /\ Waiting' = Tail(Waiting)
<1>1. size # 0 /\ size' = size - 1 /\ head' = Next1(head) /\ ring' = ring
  BY DEF PopOk, PopGot
<1>2. size \in 1..Capacity BY <1>1, WaitingBlocks
<1>3. /\ Blocks(ring, head, size) # <<>>
      /\ Head(Blocks(ring, head, size)) = ring[head]
      /\ Blocks(ring, Next1(head), size - 1) = Tail(Blocks(ring, head, size))
  BY <1>2, WaitingBlocks, HeadStepRemovesOldest
<1>4. reply'.out = ring[head] BY DEF PopOk
<1>5. Waiting' = Blocks(ring', head', size') BY DEF Waiting, Blocks
<1>6. QED BY <1>1, <1>3, <1>4, <1>5, WaitingBlocks

\* An empty queue is the empty sequence, and only that.
LEMMA EmptyWaiting ==
    ASSUME QueueTypeOK
    PROVE  Waiting = <<>> <=> size = 0
<1>1. Waiting = <<>> => size = 0 BY WaitingBlocks, EmptySeq
<1>2. size = 0 => Waiting = <<>> BY WaitingBlocks, EmptySeq
<1>3. QED BY <1>1, <1>2

-----------------------------------------------------------------------------
\* The initial state is an empty drop-oldest queue.
LEMMA InitRefines == QueueInit => Abstract!Init
<1> SUFFICES ASSUME QueueInit PROVE Abstract!Init OBVIOUS
<1>1. QueueTypeOK BY InitTypes
<1>2. Waiting = <<>> BY <1>1, EmptyWaiting DEF QueueInit
<1>3. QED BY <1>2 DEF QueueInit, Abstract!Init

\* Every step is a step of the drop-oldest queue, or changes nothing it shows.
LEMMA NextRefines ==
    ASSUME QueueTypeOK, [QueueNext]_queueVars
    PROVE  [Abstract!Next]_(Abstract!qvars)
<1>1. Waiting \in Seq(Content) /\ Len(Waiting) = size /\ size \in 0..Capacity
  BY WaitingBlocks
<1>2. ASSUME NEW b \in Block, PushKept(b) PROVE Abstract!Put(b)
  <2>1. Waiting' = Append(Waiting, b) BY <1>2, KeptAppends
  <2>2. Len(Waiting) # Capacity BY <1>1, <1>2 DEF PushKept, Full
  <2>3. Abstract!Room = Waiting BY <2>2 DEF Abstract!Room
  <2>4. primed' = (primed \/ size + 1 >= Prime) BY <1>2 DEF PushKept
  <2>5. reply' = [got |-> "kept", out |-> NoBlock] BY <1>2 DEF PushKept
  <2>6. QED BY <1>1, <2>1, <2>2, <2>3, <2>4, <2>5 DEF Abstract!Put
<1>3. ASSUME NEW b \in Block, PushDropping(b) PROVE Abstract!Put(b)
  <2>1. /\ Waiting # <<>> /\ size = Capacity
        /\ Waiting' = Append(Tail(Waiting), b)
    BY <1>3, DroppingShifts
  <2>2. Abstract!Room = Tail(Waiting) BY <1>1, <2>1 DEF Abstract!Room
  <2>3. Len(Tail(Waiting)) + 1 = size BY <1>1, <2>1, HeadTailProperties
  <2>4. primed' = (primed \/ size >= Prime) BY <1>3 DEF PushDropping
  <2>5. reply' = [got |-> "dropped", out |-> NoBlock] BY <1>3 DEF PushDropping
  <2>6. QED BY <1>1, <2>1, <2>2, <2>3, <2>4, <2>5 DEF Abstract!Put
<1>4. CASE PopOk
  <2>1. /\ Waiting # <<>> /\ reply'.out = Head(Waiting) /\ Waiting' = Tail(Waiting)
    BY <1>4, PopRemovesOldest
  <2>2. primed /\ primed' = primed BY <1>4 DEF PopOk, PopGot
  <2>3. reply' = [got |-> "Ok", out |-> Head(Waiting)] BY <1>4, <2>1 DEF PopOk
  <2>4. Abstract!TakeOldest BY <2>1, <2>2, <2>3 DEF Abstract!TakeOldest
  <2>5. QED BY <2>4 DEF Abstract!Next
<1>5. CASE PopNothing
  <2>1. Waiting' = Waiting /\ primed' = primed
    BY <1>5 DEF PopNothing, ringVars, Waiting
  <2>2. ~primed \/ Waiting = <<>> BY <1>5, EmptyWaiting DEF PopNothing, PopGot
  <2>3. reply' = [got |-> IF primed THEN "Empty" ELSE "Priming", out |-> NoBlock]
    BY <1>5 DEF PopNothing, PopGot
  <2>4. Abstract!TakeNothing BY <2>1, <2>2, <2>3 DEF Abstract!TakeNothing
  <2>5. QED BY <2>4 DEF Abstract!Next
<1>6. CASE Clear
  <2>1. QueueTypeOK' BY NextKeepsTypes
  <2>2. size' = 0 /\ primed' = FALSE /\ reply' = [got |-> "cleared", out |-> NoBlock]
    BY <1>6 DEF Clear
  <2>3. Waiting' = Blocks(ring', head', 0) BY <2>2 DEF Waiting, Blocks
  <2>4. Blocks(ring', head', 0) = <<>>
    <3>1. ring' \in Ring /\ head' \in Slot /\ 0 \in 0..Capacity
      BY <2>1 DEF QueueTypeOK, Ring, Content
    <3>2. Blocks(ring', head', 0) \in Seq(Content) /\ Len(Blocks(ring', head', 0)) = 0
      BY <3>1, BlocksAreSeq
    <3>3. QED BY <3>2, EmptySeq
  <2>5. Abstract!Reset BY <2>2, <2>3, <2>4 DEF Abstract!Reset
  <2>6. QED BY <2>5 DEF Abstract!Next
<1>7. CASE UNCHANGED queueVars
  BY <1>7 DEF queueVars, Abstract!qvars, Waiting
<1>8. QED BY <1>2, <1>3, <1>4, <1>5, <1>6, <1>7 DEF QueueNext, Push, Pop, Abstract!Next

\* block-queue.hpp is a drop-oldest FIFO: for every capacity, prime level and set
\* of blocks, every call answers what the abstract queue answers.
THEOREM QueueRefinement == QueueSpec => ImplementsDropOldest
<1>1. QueueTypeOK /\ [QueueNext]_queueVars => [Abstract!Next]_(Abstract!qvars) BY NextRefines
<1>2. QED BY InitRefines, TypeCorrect, <1>1, PTL DEF QueueSpec, ImplementsDropOldest, Abstract!Spec

-----------------------------------------------------------------------------
\* WaitingIsReal, said of the sequence of waiting blocks.
LEMMA RealAsSequence ==
    QueueTypeOK => (WaitingIsReal <=> /\ size >= Prime => primed
                                 /\ Waiting \in Seq(Block))
<1> SUFFICES ASSUME QueueTypeOK
             PROVE  WaitingIsReal <=> /\ size >= Prime => primed
                                      /\ Waiting \in Seq(Block)
  OBVIOUS
<1>1. /\ Waiting \in Seq(Content) /\ Len(Waiting) = size
      /\ \A i \in 1..size : Waiting[i] = ring[(head + (i - 1)) % Capacity]
  <2>1. Waiting \in Seq(Content) /\ Len(Waiting) = size BY WaitingBlocks
  <2>2. QED BY <2>1 DEF Waiting
<1>2. (\A i \in 1..size : Waiting[i] \in Block) <=> Waiting \in Seq(Block)
  <2>1. ASSUME Waiting \in Seq(Block), NEW i \in 1..size PROVE Waiting[i] \in Block
    BY <1>1, <2>1, ElementOfSeq
  <2>2. ASSUME \A i \in 1..size : Waiting[i] \in Block PROVE Waiting \in Seq(Block)
    BY <1>1, <2>2, WaitingBlocks
  <2>3. QED BY <2>1, <2>2
<1>3. QED BY <1>1, <1>2 DEF WaitingIsReal

\* Pops are held back only while fewer than kPrime blocks wait, and what a pop
\* hands out was pushed before: no pop ever reads a slot that push left unwritten.
THEOREM OnlyRealBlocksWait == QueueSpec => []WaitingIsReal
<1>1. QueueInit => WaitingIsReal
  BY PrimeAssumption DEF QueueInit, WaitingIsReal
<1>2. ASSUME QueueTypeOK, WaitingIsReal, [QueueNext]_queueVars
      PROVE  WaitingIsReal'
  <2>1. /\ size >= Prime => primed
        /\ Waiting \in Seq(Block)
    BY <1>2, RealAsSequence
  <2>2. QueueTypeOK' BY <1>2, NextKeepsTypes
  <2>3. Waiting \in Seq(Content) /\ Len(Waiting) = size /\ size \in 0..Capacity
    BY <1>2, WaitingBlocks
  <2>4. ASSUME NEW b \in Block, PushKept(b)
        PROVE  (size' >= Prime => primed') /\ Waiting' \in Seq(Block)
    <3>1. Waiting' = Append(Waiting, b) BY <1>2, <2>4, KeptAppends
    <3>2. Waiting' \in Seq(Block) BY <2>1, <3>1, AppendProperties
    <3>3. QED BY <2>4, <3>2 DEF PushKept
  <2>5. ASSUME NEW b \in Block, PushDropping(b)
        PROVE  (size' >= Prime => primed') /\ Waiting' \in Seq(Block)
    <3>1. Waiting # <<>> /\ Waiting' = Append(Tail(Waiting), b)
      BY <1>2, <2>5, DroppingShifts
    <3>2. Tail(Waiting) \in Seq(Block) BY <2>1, <3>1, HeadTailProperties
    <3>3. Waiting' \in Seq(Block) BY <3>1, <3>2, AppendProperties
    <3>4. QED BY <2>5, <3>3 DEF PushDropping
  <2>6. ASSUME PopOk
        PROVE  (size' >= Prime => primed') /\ Waiting' \in Seq(Block)
    <3>1. Waiting # <<>> /\ Waiting' = Tail(Waiting) BY <1>2, <2>6, PopRemovesOldest
    <3>2. Waiting' \in Seq(Block) BY <2>1, <3>1, HeadTailProperties
    <3>3. QED BY <2>6, <3>2 DEF PopOk, PopGot
  <2>7. ASSUME PopNothing \/ UNCHANGED queueVars
        PROVE  (size' >= Prime => primed') /\ Waiting' \in Seq(Block)
    <3>1. Waiting' = Waiting /\ size' = size /\ primed' = primed
      BY <2>7 DEF PopNothing, ringVars, queueVars, Waiting
    <3>2. QED BY <2>1, <3>1
  <2>8. ASSUME Clear
        PROVE  (size' >= Prime => primed') /\ Waiting' \in Seq(Block)
    <3>1. size' = 0 BY <2>8 DEF Clear
    <3>2. Waiting' = Blocks(ring', head', 0) BY <3>1 DEF Waiting, Blocks
    <3>3. ring' \in Ring /\ head' \in Slot /\ 0 \in 0..Capacity
      BY <2>2 DEF QueueTypeOK, Ring, Content
    <3>4. Waiting' \in Seq(Content) /\ Len(Waiting') = 0 BY <3>2, <3>3, BlocksAreSeq
    <3>5. Waiting' = <<>> BY <3>4, EmptySeq
    <3>6. QED BY <3>1, <3>5, EmptySeq, PrimeAssumption
  <2>9. (size' >= Prime => primed') /\ Waiting' \in Seq(Block)
    BY <1>2, <2>4, <2>5, <2>6, <2>7, <2>8 DEF QueueNext, Push, Pop
  <2>10. (WaitingIsReal <=> /\ size >= Prime => primed
                            /\ Waiting \in Seq(Block))'
    BY <2>2, RealAsSequence, PTL
  <2>11. QED BY <2>9, <2>10
<1>3. QED BY <1>1, <1>2, TypeCorrect, PTL DEF QueueSpec
=============================================================================
