--------------------------- MODULE DropOldestQueue ---------------------------
(* What the audio hand-over promises its two threads: a FIFO of blocks that  *)
(* never refuses a new block.  When it is full the oldest block makes room.  *)
(* Nothing is handed out until Prime blocks have been waiting together; from *)
(* then on, and until a Reset, every block that is still queued is handed    *)
(* out.  BlockQueue implements this over a ring buffer.                      *)
EXTENDS Integers, Sequences

CONSTANTS Block, NoBlock, Capacity, Prime

VARIABLES q,      \* the waiting blocks, oldest first
          ready,  \* Prime blocks have been waiting since the last Reset
          reply   \* what the last call returned

qvars == <<q, ready, reply>>

Init == /\ q = <<>>
        /\ ready = FALSE
        /\ reply = [got |-> "none", out |-> NoBlock]

Room == IF Len(q) = Capacity THEN Tail(q) ELSE q

Put(b) == /\ q' = Append(Room, b)
          /\ ready' = (ready \/ Len(Room) + 1 >= Prime)
          /\ reply' = [got  |-> IF Len(q) = Capacity THEN "dropped" ELSE "kept",
                       out |-> NoBlock]

TakeOldest == /\ ready /\ q # <<>>
              /\ reply' = [got |-> "Ok", out |-> Head(q)]
              /\ q' = Tail(q)
              /\ UNCHANGED ready

TakeNothing == /\ ~ready \/ q = <<>>
               /\ reply' = [got |-> IF ready THEN "Empty" ELSE "Priming",
                            out |-> NoBlock]
               /\ UNCHANGED <<q, ready>>

Reset == /\ q' = <<>>
         /\ ready' = FALSE
         /\ reply' = [got |-> "cleared", out |-> NoBlock]

Next == (\E b \in Block : Put(b)) \/ TakeOldest \/ TakeNothing \/ Reset

Spec == Init /\ [][Next]_qvars
=============================================================================
