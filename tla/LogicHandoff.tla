---------------------------- MODULE LogicHandoff ----------------------------
(***************************************************************************)
(* The logic server's hand-off of game messages between its two threads    *)
(* (logic_manager.cpp, logic_thread.cpp).  The message thread pushes each  *)
(* forwarded message into a ring of its own, m_msg_queue; when it believes *)
(* there is something to hand over it locks m_cond, moves what fits into   *)
(* m_msg_queue_inner and notifies.  The main logic thread waits on m_cond, *)
(* moves m_msg_queue_inner into a local ring and dispatches one by one.    *)
(*                                                                         *)
(* A step is one loop iteration of Append, so that the message thread's    *)
(* unlocked look at m_msg_queue_inner (HaveMessage) falls between any two  *)
(* of them.  Messages are numbered in order of arrival; MaxMsgs bounds     *)
(* them.  received, accepted and dispatched are history variables.         *)
(***************************************************************************)
EXTENDS LoopArray, Sequences

CONSTANTS MaxMsgs       \* bound on the messages of a behaviour

ASSUME ItemAssumption == MaxMsgs \in Nat /\ Item = 1 .. MaxMsgs

VARIABLES outer,        \* m_msg_queue, touched by the message thread only
          inner,        \* m_msg_queue_inner, guarded by m_cond
          local,        \* msg_queue, a local of ThreadRun
          hand,         \* msg, the message being dispatched
          owner,        \* the thread holding m_cond's mutex
          waiting,      \* the logic thread is blocked in m_cond.Wait()
          mpc, lpc,     \* where the message and the logic thread are
          received, accepted, dispatched

rings == <<outer, inner, local>>
history == <<received, accepted, dispatched>>
vars == <<outer, inner, local, hand, owner, waiting, mpc, lpc, received, accepted, dispatched>>

MsgPc == {"recv", "have", "lock", "append", "notify"}
LogicPc == {"lock", "check", "wait", "append", "pop", "dispatch"}

Init ==
    /\ outer = EmptyRing /\ inner = EmptyRing /\ local = EmptyRing
    /\ hand = NULL
    /\ owner = "none" /\ waiting = FALSE
    /\ mpc = "recv" /\ lpc = "lock"
    /\ received = 0 /\ accepted = <<>> /\ dispatched = <<>>

-----------------------------------------------------------------------------
(* The message thread.                                                     *)

\* OnClientMsg hands a TRANSIT_CMD message over; the result of push_back is ignored.
SetMessage ==
    /\ mpc = "recv"
    /\ received < MaxMsgs
    /\ received' = received + 1
    /\ outer' = PushBack(outer, received')
    /\ accepted' = IF IsFull(outer) THEN accepted ELSE Append(accepted, received')
    /\ UNCHANGED <<inner, local, hand, owner, waiting, mpc, lpc, dispatched>>

\* The batch that ReceiveMessage returned, possibly an empty one, is used up.
BatchDone ==
    /\ mpc = "recv"
    /\ mpc' = "have"
    /\ UNCHANGED <<rings, hand, owner, waiting, lpc, history>>

\* Reads m_msg_queue_inner without the lock.
HaveMessage ==
    /\ mpc = "have"
    /\ mpc' = IF ~IsEmpty(outer) \/ ~IsEmpty(inner) THEN "lock" ELSE "recv"
    /\ UNCHANGED <<rings, hand, owner, waiting, lpc, history>>

NotifyLock ==
    /\ mpc = "lock"
    /\ owner = "none"
    /\ owner' = "msg"
    /\ mpc' = "append"
    /\ UNCHANGED <<rings, hand, waiting, lpc, history>>

\* Variant with a fault: does not look for room first.
NotifyAppendUnchecked ==
    /\ mpc = "append"
    /\ ~IsEmpty(outer)
    /\ inner' = PushBack(inner, Front(outer))
    /\ outer' = PopFront(outer)
    /\ UNCHANGED <<local, hand, owner, waiting, mpc, lpc, history>>

NotifyAppend ==
    /\ mpc = "append"
    /\ ~IsFull(inner) /\ ~IsEmpty(outer)
    /\ inner' = PushBack(inner, Front(outer))
    /\ outer' = PopFront(outer)
    /\ UNCHANGED <<local, hand, owner, waiting, mpc, lpc, history>>

NotifyAppendDone ==
    /\ mpc = "append"
    /\ IsFull(inner) \/ IsEmpty(outer)
    /\ mpc' = "notify"
    /\ UNCHANGED <<rings, hand, owner, waiting, lpc, history>>

\* Variant with a fault: notifies only while there is room left.
NotifyUnlessFull ==
    /\ mpc = "notify"
    /\ waiting' = (waiting /\ IsFull(inner))
    /\ owner' = "none"
    /\ mpc' = "recv"
    /\ UNCHANGED <<rings, hand, lpc, history>>

\* notify(), and the unlock at the end of the scope.
Notify ==
    /\ mpc = "notify"
    /\ waiting' = FALSE
    /\ owner' = "none"
    /\ mpc' = "recv"
    /\ UNCHANGED <<rings, hand, lpc, history>>

MsgThread ==
    \/ SetMessage \/ BatchDone \/ HaveMessage
    \/ NotifyLock \/ NotifyAppend \/ NotifyAppendDone \/ Notify

-----------------------------------------------------------------------------
(* The main logic thread.                                                  *)

LogicLock ==
    /\ lpc = "lock"
    /\ owner = "none"
    /\ owner' = "logic"
    /\ lpc' = "check"
    /\ UNCHANGED <<rings, hand, waiting, mpc, history>>

\* Wait() releases the mutex in the same step.
LogicWait ==
    /\ lpc = "check"
    /\ IsEmpty(inner)
    /\ owner' = "none"
    /\ waiting' = TRUE
    /\ lpc' = "wait"
    /\ UNCHANGED <<rings, hand, mpc, history>>

LogicGo ==
    /\ lpc = "check"
    /\ ~IsEmpty(inner)
    /\ lpc' = "append"
    /\ UNCHANGED <<rings, hand, owner, waiting, mpc, history>>

\* pthread_cond_wait may return without a notification.
SpuriousWakeup ==
    /\ waiting
    /\ waiting' = FALSE
    /\ UNCHANGED <<rings, hand, owner, mpc, lpc, history>>

\* Variant with a fault: Wait() returns before the mutex is free.
LogicWokenEarly ==
    /\ lpc = "wait"
    /\ ~waiting
    /\ owner' = "logic"
    /\ lpc' = "check"
    /\ UNCHANGED <<rings, hand, waiting, mpc, history>>

\* Wait() returns holding the mutex; the while loop looks again.
LogicWoken ==
    /\ lpc = "wait"
    /\ ~waiting
    /\ owner = "none"
    /\ owner' = "logic"
    /\ lpc' = "check"
    /\ UNCHANGED <<rings, hand, waiting, mpc, history>>

LogicAppend ==
    /\ lpc = "append"
    /\ ~IsFull(local) /\ ~IsEmpty(inner)
    /\ local' = PushBack(local, Front(inner))
    /\ inner' = PopFront(inner)
    /\ UNCHANGED <<outer, hand, owner, waiting, mpc, lpc, history>>

LogicUnlock ==
    /\ lpc = "append"
    /\ IsFull(local) \/ IsEmpty(inner)
    /\ owner' = "none"
    /\ lpc' = "pop"
    /\ UNCHANGED <<rings, hand, waiting, mpc, history>>

LogicPop ==
    /\ lpc = "pop"
    /\ hand' = Front(local)
    /\ local' = PopFront(local)
    /\ lpc' = "dispatch"
    /\ UNCHANGED <<outer, inner, owner, waiting, mpc, history>>

\* Variant with a fault: one message of the batch, then back to the queue.
LogicDispatchOne ==
    /\ lpc = "dispatch"
    /\ dispatched' = Append(dispatched, hand)
    /\ hand' = NULL
    /\ lpc' = "lock"
    /\ UNCHANGED <<rings, owner, waiting, mpc, received, accepted>>

\* DispatchModuleMessage and FreeMessage, then round the do-while loop.
LogicDispatch ==
    /\ lpc = "dispatch"
    /\ dispatched' = Append(dispatched, hand)
    /\ hand' = NULL
    /\ lpc' = IF IsEmpty(local) THEN "lock" ELSE "pop"
    /\ UNCHANGED <<rings, owner, waiting, mpc, received, accepted>>

LogicRun ==
    \/ LogicLock \/ LogicWait \/ LogicGo \/ LogicWoken
    \/ LogicAppend \/ LogicUnlock \/ LogicPop \/ LogicDispatch

Next == MsgThread \/ LogicRun \/ SpuriousWakeup

Spec == Init /\ [][Next]_vars

\* Both threads keep running; the mutex is not withheld for ever from a thread
\* that asks for it again and again, and a batch of messages ends.
Fairness ==
    /\ WF_vars(BatchDone) /\ WF_vars(HaveMessage)
    /\ WF_vars(NotifyAppend) /\ WF_vars(NotifyAppendDone) /\ WF_vars(Notify)
    /\ WF_vars(LogicWait) /\ WF_vars(LogicGo)
    /\ WF_vars(LogicAppend) /\ WF_vars(LogicUnlock)
    /\ WF_vars(LogicPop) /\ WF_vars(LogicDispatch)
    /\ SF_vars(NotifyLock) /\ SF_vars(LogicLock) /\ SF_vars(LogicWoken)

FairSpec == Spec /\ Fairness

-----------------------------------------------------------------------------
(* Properties.                                                             *)

TypeOK ==
    /\ outer \in Ring /\ inner \in Ring /\ local \in Ring
    /\ hand \in Item \cup {NULL}
    /\ owner \in {"none", "msg", "logic"}
    /\ waiting \in BOOLEAN
    /\ mpc \in MsgPc /\ lpc \in LogicPc
    /\ received \in 0 .. MaxMsgs
    /\ accepted \in Seq(Item) /\ dispatched \in Seq(Item)

\* Ring r holds the messages of seq that follow its first base ones, in order.
Holds(r, seq, base) ==
    /\ WellFormed(r)
    /\ \A k \in 0 .. r.size - 1 : At(r, k) = seq[base + k + 1]

InHand == IF lpc = "dispatch" THEN 1 ELSE 0
LocalBase == Len(dispatched) + InHand
InnerBase == LocalBase + local.size
OuterBase == InnerBase + inner.size

\* Between SetMessage and the modules no accepted message is lost, duplicated or
\* overtaken, whichever of the three rings or the logic thread's hand it is in; so
\* DispatchModuleMessage is never given the NULL pop_front returns on an empty ring.
NoLossNoReorder ==
    /\ Len(accepted) = OuterBase + outer.size
    /\ Holds(local, accepted, LocalBase)
    /\ Holds(inner, accepted, InnerBase)
    /\ Holds(outer, accepted, OuterBase)
    /\ lpc = "dispatch" => hand = accepted[Len(dispatched) + 1]
    /\ \A k \in 1 .. Len(dispatched) : dispatched[k] = accepted[k]

\* m_msg_queue_inner is appended to and taken from by one thread at a time.
InnerExclusive ==
    /\ mpc \in {"append", "notify"} => owner = "msg"
    /\ lpc \in {"check", "append"} => owner = "logic"

\* The logic thread never sleeps on messages nobody will tell it of: whenever it is
\* blocked while m_msg_queue_inner holds something, a Notify is under way.
NoLostWakeup ==
    waiting /\ ~IsEmpty(inner) => mpc \in {"append", "notify"}

\* With the locations from which the logic thread pops, the above is inductive: Unlock
\* follows an Append that moved at least one message.
PopReady ==
    /\ lpc = "pop" => ~IsEmpty(local)
    /\ lpc = "append" => ~IsEmpty(local) \/ ~IsEmpty(inner)

AsleepInWait == waiting => lpc = "wait"

IInv ==
    TypeOK /\ NoLossNoReorder /\ InnerExclusive /\ PopReady /\ AsleepInWait /\ NoLostWakeup

\* The hand-off implements the bounded FIFO, its liveness included.
Fifo == INSTANCE MessageFifo WITH Capacity <- Capacity, MaxMsgs <- MaxMsgs,
                                  received <- received, accepted <- accepted,
                                  dispatched <- dispatched
ImplementsFifo == Fifo!FifoFairSpec
=============================================================================
