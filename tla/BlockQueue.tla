----------------------------- MODULE BlockQueue -----------------------------
(* BlockQueue of src/block-queue.hpp: a ring buffer that hands audio from    *)
(* OBS's audio thread (push) to the recorder's own audio thread (pop), one   *)
(* block per tick.  The main thread empties it (clear) when a device opens.  *)
(* Every method holds mutex_ for its whole body, so a call is one step.      *)
EXTENDS Integers, Sequences

CONSTANTS Block,     \* the blocks a caller can push
          NoBlock,   \* the content of a slot that was never written
          Capacity,  \* kCapacity
          Prime      \* kPrime

ASSUME CapacityAssumption == Capacity \in Nat \ {0}
ASSUME PrimeAssumption == Prime \in 1..Capacity

VARIABLES ring, head, size, primed,
          reply      \* what the last call returned to its thread

ringVars == <<ring, head, size, primed>>
queueVars == <<ring, head, size, primed, reply>>

Slot == 0..Capacity - 1
Replies == [got : {"none", "kept", "dropped", "Priming", "Empty", "Ok", "cleared"},
            out : Block \cup {NoBlock}]

QueueInit ==
    /\ ring = [s \in Slot |-> NoBlock]
    /\ head = 0
    /\ size = 0
    /\ primed = FALSE
    /\ reply = [got |-> "none", out |-> NoBlock]

Full == size = Capacity
Next1(s) == (s + 1) % Capacity

\* A mutant: primed by the first block.
PushKeptPrimesAtOnce(b) ==
    /\ ~Full
    /\ ring' = [ring EXCEPT ![(head + size) % Capacity] = b]
    /\ size' = size + 1
    /\ primed' = TRUE
    /\ reply' = [got |-> "kept", out |-> NoBlock]
    /\ UNCHANGED head

\* push: a full queue first gives up its oldest block, and says so.
PushKept(b) ==
    /\ ~Full
    /\ ring' = [ring EXCEPT ![(head + size) % Capacity] = b]
    /\ size' = size + 1
    /\ primed' = (primed \/ size' >= Prime)
    /\ reply' = [got |-> "kept", out |-> NoBlock]
    /\ UNCHANGED head

\* A mutant: the full queue gives up its newest block.
PushDroppingNewest(b) ==
    /\ Full
    /\ ring' = [ring EXCEPT ![(head + (size - 1)) % Capacity] = b]
    /\ primed' = (primed \/ size >= Prime)
    /\ reply' = [got |-> "dropped", out |-> NoBlock]
    /\ UNCHANGED <<head, size>>

PushDropping(b) ==
    /\ Full
    /\ head' = Next1(head)
    /\ ring' = [ring EXCEPT ![(head' + (size - 1)) % Capacity] = b]
    /\ primed' = (primed \/ size >= Prime)
    /\ reply' = [got |-> "dropped", out |-> NoBlock]
    /\ UNCHANGED size

Push(b) == PushKept(b) \/ PushDropping(b)

\* What a pop answers in the current state.
PopGot == IF ~primed THEN "Priming" ELSE IF size = 0 THEN "Empty" ELSE "Ok"

\* A mutant: head_ stays on the block.
PopOkRepeats ==
    /\ PopGot = "Ok"
    /\ reply' = [got |-> "Ok", out |-> ring[head]]
    /\ size' = size - 1
    /\ UNCHANGED <<ring, head, primed>>

PopOk ==
    /\ PopGot = "Ok"
    /\ reply' = [got |-> "Ok", out |-> ring[head]]
    /\ head' = Next1(head)
    /\ size' = size - 1
    /\ UNCHANGED <<ring, primed>>

PopNothing ==
    /\ PopGot # "Ok"
    /\ reply' = [got |-> PopGot, out |-> NoBlock]
    /\ UNCHANGED ringVars

Pop == PopOk \/ PopNothing

Clear ==
    /\ head' = 0
    /\ size' = 0
    /\ primed' = FALSE
    /\ reply' = [got |-> "cleared", out |-> NoBlock]
    /\ UNCHANGED ring

QueueNext == (\E b \in Block : Push(b)) \/ Pop \/ Clear

QueueSpec == QueueInit /\ [][QueueNext]_queueVars

-----------------------------------------------------------------------------
\* Types: head stays a slot of the ring and size never exceeds the capacity.
QueueTypeOK ==
    /\ ring \in [Slot -> Block \cup {NoBlock}]
    /\ head \in Slot
    /\ size \in 0..Capacity
    /\ primed \in BOOLEAN
    /\ reply \in Replies

\* The blocks waiting in the ring, oldest first.
Waiting == [i \in 1..size |-> ring[(head + (i - 1)) % Capacity]]

\* A pop can be held back only while fewer than kPrime blocks wait, and no slot
\* that push never wrote can be handed out: the head_/size_ arithmetic of
\* block-queue.hpp covers exactly the slots that hold queued blocks.
WaitingIsReal == /\ (size >= Prime => primed)
                 /\ \A i \in 1..size : ring[(head + (i - 1)) % Capacity] \in Block

Abstract == INSTANCE DropOldestQueue WITH q <- Waiting, ready <- primed

\* The ring buffer implements the drop-oldest queue: same answers, same blocks,
\* same order, whatever the calls and wherever head_ has wrapped to.
ImplementsDropOldest == Abstract!Spec
=============================================================================
