---------------------------- MODULE MonitorQueue ----------------------------
(***************************************************************************)
(* The event queue of the status monitor, its semaphore, the callback      *)
(* threads that fill the queue and the event thread that empties it:       *)
(* rmh_monitor_util.c, RMHMonitor_RMHCallback of rmh_monitor.c and the     *)
(* control flow of RMHMonitor_Event_Thread of rmh_monitor_events.c.  What  *)
(* an event makes the monitor do is the subject of MonitorStatus; here an  *)
(* event is an identity, one allocated RMHMonitor_CallbackEvent.           *)
(*                                                                         *)
(* The queue is written head first: queue[1] is tqh_first.  Operations     *)
(* done under eventQueueProtect are one step.  The event thread reads      *)
(* tqh_first without that lock; TAILQ_INSERT_HEAD publishes the new head   *)
(* with one pointer store, so the read returns the head from before or     *)
(* from after the insertion, which is what interleaving gives.             *)
(***************************************************************************)
EXTENDS Naturals, Sequences, FiniteSets, SequencesExt

CONSTANTS
    Callback,   \* the threads of the MoCA library that run RMHMonitor_RMHCallback
    Event,      \* the events the library reports, each of them once
    NoEvent     \* the NULL that tqh_first holds when the queue is empty

ASSUME EventAssumption == NoEvent \notin Event

VARIABLES
    queue,      \* app->eventQueue
    signal,     \* app->eventNotify->signal
    cbpc,       \* where each callback is: idle, or inserted and about to signal
    tpc,        \* where the event thread is
    wake,       \* what pthread_cond_timedwait returned
    current,    \* cbE, the record the event thread is working on
    refused,    \* history: events dropped because malloc returned NULL
    freed,      \* history: events whose record was removed and freed
    passes,     \* history: how often each event went through the switch
    raced       \* history: events inserted while a record was being handled

vars == <<queue, signal, cbpc, tpc, wake, current, refused, freed, passes, raced>>

callbackVars == <<cbpc, refused>>
historyVars  == <<freed, passes, raced>>

ThreadState == {"exited", "init", "wait", "asleep", "woken", "validate",
                "peek", "handle", "dequeue"}

WakeReason == {"signalled", "spurious", "eintr", "timeout", "error"}

Pending == ToSet(queue)

Handled == {e \in Event : passes[e] > 0}

\* Every pass through the switch: the event and the how-manieth time it was.
Passes == UNION {{e} \X (1 .. passes[e]) : e \in Event}

Fresh(e) == e \notin Pending \cup freed \cup refused

\* The records that lie before the one being handled, which were inserted
\* since it was read from the head.
Ahead == {e \in Pending : \E i, j \in DOMAIN queue :
                            i < j /\ queue[i] = e /\ queue[j] = current}

-----------------------------------------------------------------------------
Init == /\ queue = <<>>
        /\ signal = FALSE
        /\ cbpc = [c \in Callback |-> "idle"]
        /\ tpc = "exited"
        /\ wake = "signalled"
        /\ current = NoEvent
        /\ refused = {}
        /\ freed = {}
        /\ passes = [e \in Event |-> 0]
        /\ raced = {}

-----------------------------------------------------------------------------
(* Mutants: plausible mistakes in the actions below, used to see that each *)
(* property notices one.  None of them is part of the specification.       *)

\* Queue_Enqueue without the test of malloc's result.
EnqueueNull(c, e) ==
    /\ cbpc[c] = "idle"
    /\ Fresh(e)
    /\ queue' = <<NoEvent>> \o queue
    /\ refused' = refused \cup {e}
    /\ UNCHANGED <<signal, cbpc, tpc, wake, current, historyVars>>

\* WaitTimeout that does not look at the signal before it blocks.
WaitBlockBlindly ==
    /\ tpc = "wait"
    /\ tpc' = "asleep"
    /\ UNCHANGED <<queue, signal, wake, current, callbackVars, historyVars>>

\* WaitTimeout that goes back to sleep after a timeout.
WaitCheckRetriesTimeout ==
    /\ tpc = "woken"
    /\ signal' = FALSE
    /\ tpc' = IF signal \/ wake = "error" THEN "validate" ELSE "asleep"
    /\ UNCHANGED <<queue, wake, current, callbackVars, historyVars>>

\* The record is dequeued before it is handled.
PeekAndDequeue ==
    /\ tpc = "peek"
    /\ current' = IF queue = <<>> THEN NoEvent ELSE Head(queue)
    /\ tpc' = IF queue = <<>> THEN "wait" ELSE "handle"
    /\ queue' = IF queue = <<>> THEN queue ELSE Tail(queue)
    /\ UNCHANGED <<signal, wake, callbackVars, historyVars>>

\* Queue_Dequeue gives up when the head is no longer the handled record.
DequeueIfHead ==
    /\ tpc = "dequeue"
    /\ queue' = IF Head(queue) = current THEN Tail(queue) ELSE queue
    /\ freed' = IF Head(queue) = current THEN freed \cup {current} ELSE freed
    /\ current' = NoEvent
    /\ tpc' = "wait"
    /\ UNCHANGED <<signal, wake, callbackVars, passes, raced>>

\* Queue_Dequeue flushes the queue.
DequeueAll ==
    /\ tpc = "dequeue"
    /\ queue' = <<>>
    /\ freed' = freed \cup Pending
    /\ current' = NoEvent
    /\ tpc' = "wait"
    /\ UNCHANGED <<signal, wake, callbackVars, passes, raced>>

-----------------------------------------------------------------------------
(* Callback threads.  Print events never reach the queue.                  *)

\* Queue_Enqueue up to the unlock of the queue: a record at the head.
Enqueue(c, e) ==
    /\ cbpc[c] = "idle"
    /\ Fresh(e)
    /\ queue' = <<e>> \o queue
    /\ cbpc' = [cbpc EXCEPT ![c] = "signal"]
    /\ raced' = IF current = NoEvent THEN raced ELSE raced \cup {e}
    /\ UNCHANGED <<signal, tpc, wake, current, refused, freed, passes>>

\* Queue_Enqueue when malloc returns NULL: the event is gone.
EnqueueNoMemory(c, e) ==
    /\ cbpc[c] = "idle"
    /\ Fresh(e)
    /\ refused' = refused \cup {e}
    /\ UNCHANGED <<queue, signal, cbpc, tpc, wake, current, historyVars>>

\* Semaphore_Signal, after the queue has been unlocked.
SemaphoreSignal(c) ==
    /\ cbpc[c] = "signal"
    /\ cbpc' = [cbpc EXCEPT ![c] = "idle"]
    /\ signal' = TRUE
    /\ IF tpc = "asleep" THEN tpc' = "woken" /\ wake' = "signalled"
                         ELSE UNCHANGED <<tpc, wake>>
    /\ UNCHANGED <<queue, current, refused, historyVars>>

-----------------------------------------------------------------------------
(* The event thread.                                                       *)

\* RMHMonitor_Connect creates the thread; queue and semaphore stay as they are.
ThreadStart ==
    /\ tpc = "exited"
    /\ tpc' = "init"
    /\ UNCHANGED <<queue, signal, wake, current, callbackVars, historyVars>>

\* The handle is valid and GetEnabled answers: the loop is entered.
ThreadReady ==
    /\ tpc = "init"
    /\ tpc' = "wait"
    /\ UNCHANGED <<queue, signal, wake, current, callbackVars, historyVars>>

\* goto exit_err, before the loop or after the wait.
ThreadExit ==
    /\ tpc \in {"init", "validate"}
    /\ tpc' = "exited"
    /\ UNCHANGED <<queue, signal, wake, current, callbackVars, historyVars>>

\* WaitTimeout finds the signal set and takes it.
WaitSignalled ==
    /\ tpc = "wait"
    /\ signal
    /\ signal' = FALSE
    /\ tpc' = "validate"
    /\ UNCHANGED <<queue, wake, current, callbackVars, historyVars>>

\* WaitTimeout blocks in pthread_cond_timedwait.
WaitBlock ==
    /\ tpc = "wait"
    /\ ~signal
    /\ tpc' = "asleep"
    /\ UNCHANGED <<queue, signal, wake, current, callbackVars, historyVars>>

\* pthread_cond_timedwait returns although nobody signalled.
WaitReturns(r) ==
    /\ tpc = "asleep"
    /\ tpc' = "woken"
    /\ wake' = r
    /\ UNCHANGED <<queue, signal, current, callbackVars, historyVars>>

\* The lock is held again: the signal decides first, then the return code.
WaitCheck ==
    /\ tpc = "woken"
    /\ signal' = FALSE
    /\ tpc' = IF signal \/ wake \in {"timeout", "error"} THEN "validate" ELSE "asleep"
    /\ UNCHANGED <<queue, wake, current, callbackVars, historyVars>>

\* The handle is still valid; the periodic prints are done.
ThreadValidate ==
    /\ tpc = "validate"
    /\ tpc' = "peek"
    /\ UNCHANGED <<queue, signal, wake, current, callbackVars, historyVars>>

\* cbE = tqh_first, without the lock.
Peek ==
    /\ tpc = "peek"
    /\ current' = IF queue = <<>> THEN NoEvent ELSE Head(queue)
    /\ tpc' = IF queue = <<>> THEN "wait" ELSE "handle"
    /\ UNCHANGED <<queue, signal, wake, callbackVars, historyVars>>

\* The switch over cbE->event.
Handle ==
    /\ tpc = "handle"
    /\ passes' = [passes EXCEPT ![current] = @ + 1]
    /\ tpc' = "dequeue"
    /\ UNCHANGED <<queue, signal, wake, current, callbackVars, freed, raced>>

\* Queue_Dequeue: whatever is at the head by now is removed and freed.
Dequeue ==
    /\ tpc = "dequeue"
    /\ queue' = Tail(queue)
    /\ freed' = freed \cup {Head(queue)}
    /\ current' = NoEvent
    /\ tpc' = "wait"
    /\ UNCHANGED <<signal, wake, callbackVars, passes, raced>>

-----------------------------------------------------------------------------
CallbackNext == \E c \in Callback :
    \/ \E e \in Event : Enqueue(c, e) \/ EnqueueNoMemory(c, e)
    \/ SemaphoreSignal(c)

Loop == \/ WaitSignalled
        \/ WaitBlock
        \/ \E r \in WakeReason \ {"signalled"} : WaitReturns(r)
        \/ WaitCheck
        \/ ThreadValidate
        \/ Peek
        \/ Handle
        \/ Dequeue

Next == CallbackNext \/ ThreadStart \/ ThreadReady \/ ThreadExit \/ Loop

Spec == Init /\ [][Next]_vars

(***************************************************************************)
(* The scheduler runs every thread that can run.  The 2000 ms timeout of   *)
(* WaitTimeout is armed anew after each spurious wakeup, so it needs       *)
(* strong fairness: wakeups without a cause do not come more often than    *)
(* every 2000 ms for ever.  Nothing is assumed of the library: it need not *)
(* report an event, and the handle may turn invalid at any time.           *)
(***************************************************************************)
Fairness == /\ \A c \in Callback : WF_vars(SemaphoreSignal(c))
            /\ WF_vars(ThreadStart) /\ WF_vars(ThreadReady)
            /\ WF_vars(WaitSignalled) /\ WF_vars(WaitBlock)
            /\ SF_vars(WaitReturns("timeout")) /\ WF_vars(WaitCheck)
            /\ WF_vars(ThreadValidate)
            /\ WF_vars(Peek) /\ WF_vars(Handle) /\ WF_vars(Dequeue)

FairSpec == Spec /\ Fairness

-----------------------------------------------------------------------------
(* Properties.                                                             *)

\* Every variable holds a value of its kind; the history variables count
\* and collect events.
TypeOK == /\ queue \in Seq(Event)
          /\ signal \in BOOLEAN
          /\ cbpc \in [Callback -> {"idle", "signal"}]
          /\ tpc \in ThreadState
          /\ wake \in WakeReason
          /\ current \in Event \cup {NoEvent}
          /\ refused \subseteq Event
          /\ freed \subseteq Event
          /\ passes \in [Event -> Nat]
          /\ raced \subseteq Event

\* The event thread reads cbE after it has peeked at it without the lock
\* (rmh_monitor_events.c:449-486): the record it reads is still linked in the
\* queue, so nobody has freed it.
RecordLive == current # NoEvent => current \in Pending

\* An event is removed from the queue without having been handled only if it
\* was inserted between the peek and the dequeue of another one: the only
\* loss is the one of the unlocked window in RMHMonitor_Event_Thread.  The runs
\* check it as a part of ImplementsBuffer; here it is what the proofs need.
LossOnlyByRace == freed \ Handled \subseteq raced

\* Each pass of the event thread through the switch removes one record, so
\* every event lost in the queue is matched by one that was handled again.
LossMatchedByRepeat ==
    Cardinality(Passes) = Cardinality(freed) + (IF tpc = "dequeue" THEN 1 ELSE 0)

\* The event thread never sleeps in pthread_cond_timedwait while the signal
\* is set: no wakeup of Semaphore_Signal is missed, also when it comes
\* between a timeout and the return of the lock.
NoMissedWakeup == tpc = "asleep" => ~signal

\* The queue implements the order-free buffer.
Buffer == INSTANCE EventBuffer WITH pending <- Pending, busy <- current,
              late <- Ahead, gone <- freed \cup refused, seen <- Handled

ImplementsBuffer == Buffer!Spec

\* Unless the handle keeps turning invalid, the queue is emptied for good
\* once the library reports no more events: signals coalesce, but the timeout
\* of WaitTimeout brings the event thread back to what is left.
Drained == <>[](tpc # "exited") => <>[](queue = <<>>)

\* rmh_monitor_events.c:491, "Clear this handled event off the queue".
RemovesHandled == [][freed' # freed => freed' = freed \cup {current}]_vars
=============================================================================
