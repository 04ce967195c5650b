----------------------------- MODULE EventFifo ------------------------------
(***************************************************************************)
(* What the keyboard event queue promises its two users: a bounded FIFO.   *)
(* The interrupt side offers events and never waits; an offer to a full    *)
(* queue leaves it as it is.  The polling side takes the oldest event.     *)
(***************************************************************************)
EXTENDS Naturals, Sequences, SequencesExt

CONSTANTS Capacity, Item

VARIABLES queue,      \* the events accepted and not taken yet, oldest first
          taken       \* the event the last Take handed out

fifoVars == <<queue, taken>>

FifoInit == /\ queue = <<>>
            /\ taken \in Item

(* Some event is appended.  The event is named through queue', so that a   *)
(* step can be checked without enumerating Item.                           *)
Offer == /\ Len(queue) < Capacity
         /\ Len(queue') = Len(queue) + 1
         /\ queue' = Append(queue, Last(queue'))
         /\ Last(queue') \in Item
         /\ taken' = taken

Take == /\ queue # <<>>
        /\ taken' = Head(queue)
        /\ queue' = Tail(queue)

FifoNext == Take \/ Offer

FifoSpec == FifoInit /\ [][FifoNext]_fifoVars
=============================================================================
