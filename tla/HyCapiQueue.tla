------------------------------ MODULE HyCapiQueue ------------------------------
(***************************************************************************)
(* What the transmit ring of hycapi.c promises the card: a first-in       *)
(* first-out queue of at most Capacity entries.  The driver puts entries  *)
(* at the tail, the card takes the head unless it is a NULL entry, and a  *)
(* new controller starts with an empty queue.  Nothing stops an entry     *)
(* from being put on a full queue; from then on an unsent entry has been  *)
(* overwritten and the queue promises nothing more.                       *)
(***************************************************************************)
EXTENDS Naturals, Sequences

CONSTANTS
    Entries,    \* what can be queued, a NULL entry included
    NoEntry,    \* the NULL entry, which the card never takes
    Capacity    \* HYSDN_MAX_CAPI_SKB

VARIABLES
    queue,      \* the entries put and not yet taken, oldest first
    lost        \* an entry was put on a full queue

vars == <<queue, lost>>

Init == queue = <<>> /\ lost = FALSE

(* An entry is put at the tail of a queue with room.                       *)
Put(e) ==
    /\ ~lost /\ Len(queue) < Capacity
    /\ queue' = Append(queue, e)
    /\ UNCHANGED lost

(* An entry is put on a full queue: the oldest unsent one is overwritten. *)
Overfill ==
    /\ ~lost /\ Len(queue) >= Capacity
    /\ queue' = <<>> /\ lost' = TRUE

(* The card takes the head, which is not a NULL entry.                     *)
Take ==
    /\ ~lost /\ queue # <<>> /\ Head(queue) # NoEntry
    /\ queue' = Tail(queue)
    /\ UNCHANGED lost

(* A new controller starts with an empty queue.                            *)
Clear ==
    /\ queue' = <<>>
    /\ UNCHANGED lost

Next == (\E e \in Entries : Put(e)) \/ Overfill \/ Take \/ Clear

Spec == Init /\ [][Next]_vars

================================================================================
