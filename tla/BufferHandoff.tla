--------------------------- MODULE BufferHandoff ---------------------------
(***************************************************************************)
(* What a buffer queue promises to its clients, without the cache, the     *)
(* states of its elements, the capacities, the threads' calls and the      *)
(* listeners: a buffer is idle, filled, in the hands of one client, or     *)
(* does not exist, and filled buffers are acquired in the order in which   *)
(* they were returned.                                                     *)
(***************************************************************************)
EXTENDS Naturals, SequencesExt

CONSTANTS Buffers, Clients

VARIABLES
    idle,       \* the buffers the queue can lend
    filled,     \* the buffers that wait to be acquired, oldest first
    out         \* the buffers each client has in its hands

vars == <<idle, filled, out>>

Init == idle = {} /\ filled = <<>> /\ out = [c \in Clients |-> {}]

Unused == Buffers \ (idle \cup ToSet(filled) \cup UNION {out[c] : c \in Clients})

\* The queue may delete idle buffers, and the oldest of the filled ones.
Shrink(stay) ==
    /\ idle' = idle \cap stay
    /\ \E n \in 0..Len(filled) : filled' = SubSeq(filled, n + 1, Len(filled))

\* A client obtains an idle buffer, a new one, or one it has already.
Lend(c, b) ==
    /\ b \in idle \cup Unused \cup out[c]
    /\ \E stay \in SUBSET Buffers : b \notin stay /\ Shrink(stay)
    /\ out' = [out EXCEPT ![c] = @ \cup {b}]

Fill(c, b) ==
    /\ b \in out[c]
    /\ filled' = Append(filled, b)
    /\ out' = [out EXCEPT ![c] = @ \ {b}]
    /\ UNCHANGED idle

Acquire(c) ==
    /\ filled # <<>>
    /\ filled' = Tail(filled)
    /\ out' = [out EXCEPT ![c] = @ \cup {Head(filled)}]
    /\ UNCHANGED idle

\* A client gives a buffer back, to be lent again or destroyed.
GiveBack(c, b) ==
    /\ b \in out[c]
    /\ idle' \in {idle, idle \cup {b}}
    /\ out' = [out EXCEPT ![c] = @ \ {b}]
    /\ UNCHANGED filled

Pass(c, d, b) ==
    /\ b \in out[c]
    /\ out' = [out EXCEPT ![c] = @ \ {b}, ![d] = @ \cup {b}]
    /\ UNCHANGED <<idle, filled>>

Discard == (\E stay \in SUBSET Buffers : Shrink(stay)) /\ UNCHANGED out

Next ==
    \/ \E c \in Clients, b \in Buffers : Lend(c, b) \/ Fill(c, b) \/ GiveBack(c, b)
    \/ \E c \in Clients : Acquire(c)
    \/ \E c, d \in Clients, b \in Buffers : Pass(c, d, b)
    \/ Discard

Spec == Init /\ [][Next]_vars

=============================================================================
