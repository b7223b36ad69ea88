---------------------------- MODULE MessageFifo -----------------------------
(***************************************************************************)
(* What the logic server's message hand-off promises, without rings, locks *)
(* or a condition variable.  Messages are numbered 1, 2, ... in the order  *)
(* the message thread receives them.  Each is accepted or refused, for     *)
(* good; one may be refused only while a whole buffer of accepted messages *)
(* is still undelivered; accepted ones are dispatched once each, in order. *)
(***************************************************************************)
EXTENDS Naturals, Sequences

CONSTANTS Capacity,     \* messages a buffer holds, positive
          MaxMsgs       \* bound on the messages of a behaviour

VARIABLES received,     \* how many messages were offered
          accepted,     \* the accepted ones, in order
          dispatched    \* the dispatched ones, in order

fifoVars == <<received, accepted, dispatched>>

Backlog == Len(accepted) - Len(dispatched)

FifoInit == received = 0 /\ accepted = <<>> /\ dispatched = <<>>

Accept ==
    /\ received < MaxMsgs
    /\ received' = received + 1
    /\ accepted' = Append(accepted, received')
    /\ UNCHANGED dispatched

Refuse ==
    /\ received < MaxMsgs
    /\ Backlog >= Capacity
    /\ received' = received + 1
    /\ UNCHANGED <<accepted, dispatched>>

Dispatch ==
    /\ Backlog > 0
    /\ dispatched' = Append(dispatched, accepted[Len(dispatched) + 1])
    /\ UNCHANGED <<received, accepted>>

FifoNext == Accept \/ Refuse \/ Dispatch

FifoSpec == FifoInit /\ [][FifoNext]_fifoVars

\* Every accepted message is dispatched in the end.
FifoFairSpec == FifoSpec /\ WF_fifoVars(Dispatch)
=============================================================================
