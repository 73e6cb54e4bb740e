-------------------------- MODULE RMHMonitor_proofs --------------------------
(***************************************************************************)
(* Proofs about RMHMonitor: the event thread owns the handle, the delay    *)
(* counts the failures, and the composition implements MonitorQueue and    *)
(* with it all that MonitorQueue_proofs proves.                            *)
(***************************************************************************)
EXTENDS RMHMonitor, TLAPS

\* The main thread has opened the handle in each place between connecting and
\* destroying it, and the event thread lives only while main waits for it.
SessionInv ==
    /\ TypeOK
    /\ mpc \in {"register", "create", "join"} => rmh = "open"
    /\ mpc = "join" => eventThreadRunning
    /\ tpc # "exited" => mpc = "join"

\* The actions of the event thread and the callbacks that are steps of the
\* queue alone, but for the test of the handle.
QueueAlone ==
    \/ ThreadExit \/ ThreadValidate \/ ThreadWait \/ ThreadWork
    \/ CallbackBegins \/ \E c \in Callback : CallbackSignals(c)

\* Each of them is a step of MonitorQueue and leaves the session alone.
LEMMA QueueAloneStep == QueueAlone => Q!Next /\ UNCHANGED sessionVars
  BY DEF QueueAlone, ThreadExit, ThreadValidate, ThreadWait, ThreadWork, CallbackBegins,
         CallbackSignals, Q!Next, Q!CallbackNext, Q!Loop

\* A thread that does not exist stays so: only the main thread starts it.
LEMMA QueueAloneKeepsExited == QueueAlone /\ tpc = "exited" => tpc' = "exited"
  BY DEF QueueAlone, ThreadExit, ThreadValidate, ThreadWait, ThreadWork, CallbackBegins,
         CallbackSignals, Q!ThreadExit, Q!ThreadValidate, Q!WaitSignalled, Q!WaitBlock,
         Q!WaitCheck, Q!WaitReturns, Q!Peek, Q!Handle, Q!Dequeue, Q!Enqueue,
         Q!EnqueueNoMemory, Q!SemaphoreSignal, Q!callbackVars, Q!historyVars

\* Nothing is open and no thread exists at the start.
LEMMA SessionInvInit == Init => SessionInv
<1>. SUFFICES ASSUME Init PROVE SessionInv
  OBVIOUS
<1>1. 0 \in 0..MaxFailures /\ 0 \in 0..60
  BY SessionAssumption
<1>2. tpc = "exited"
  BY DEF Init, Q!Init
<1>. QED  BY <1>1, <1>2 DEF Init, SessionInv, TypeOK, MainState

\* Main goes on only when the thread is gone, and starts it only with a handle.
LEMMA SessionInvNext == SessionInv /\ [Next]_vars => SessionInv'
<1>. SUFFICES ASSUME SessionInv, [Next]_vars PROVE SessionInv'
  OBVIOUS
<1>. USE SessionAssumption DEF SessionInv, TypeOK, MainState, queueVars, sessionVars
<1>1. CASE Initialize
  BY <1>1 DEF Initialize
<1>2. CASE ConnectFails
  BY <1>2 DEF ConnectFails
<1>3. CASE Register
  BY <1>3 DEF Register
<1>4. CASE CreateThread
  BY <1>4 DEF CreateThread
<1>5. CASE CreateThreadFails
  BY <1>5 DEF CreateThreadFails
<1>6. CASE Join
  BY <1>6 DEF Join
<1>7. CASE Cleanup
  BY <1>7 DEF Cleanup
<1>8. CASE Sleep
  BY <1>8 DEF Sleep, Min
<1>9. CASE ThreadReady
  BY <1>9 DEF ThreadReady, Q!ThreadReady
<1>10. CASE QueueAlone
  BY <1>10, QueueAloneStep, QueueAloneKeepsExited
<1>11. CASE HandleTurnsInvalid
  BY <1>11 DEF HandleTurnsInvalid
<1>12. CASE UNCHANGED vars
  BY <1>12 DEF vars
<1>. QED
  BY <1>1, <1>2, <1>3, <1>4, <1>5, <1>6, <1>7, <1>8, <1>9, <1>10, <1>11, <1>12
     DEF Next, Main, Thread, QueueAlone

\* The invariant of the session holds throughout.
THEOREM SessionInvHolds == Spec => []SessionInv
  BY SessionInvInit, SessionInvNext, PTL DEF Spec

\* The handle, main's place and the delay keep their types: the delay stays
\* within a minute however often the connection fails.
THEOREM TypeCorrect == Spec => []TypeOK
<1>1. SessionInv => TypeOK
  BY DEF SessionInv
<1>. QED  BY <1>1, SessionInvHolds, PTL

\* The event thread never runs on a handle that main has destroyed.
THEOREM ThreadOwnsHandleHolds == Spec => []ThreadOwnsHandle
<1>1. SessionInv => ThreadOwnsHandle
  BY DEF SessionInv, ThreadOwnsHandle
<1>. QED  BY <1>1, SessionInvHolds, PTL

\* The delay is five seconds for each failure, a minute at most.
THEOREM BackoffHolds == Spec => []BackoffCountsFailures
<1>1. Init => BackoffCountsFailures
  BY DEF Init, BackoffCountsFailures, Min
<1>2. SessionInv /\ BackoffCountsFailures /\ [Next]_vars => BackoffCountsFailures'
  <2>. SUFFICES ASSUME SessionInv, BackoffCountsFailures, [Next]_vars
                PROVE  BackoffCountsFailures'
    OBVIOUS
  <2>1. CASE Sleep
    <3>1. failures \in Nat /\ MaxFailures \in Nat /\ MaxFailures >= 12
      BY SessionAssumption DEF SessionInv, TypeOK
    <3>2. CASE failures + 1 <= MaxFailures
      BY <2>1, <3>1, <3>2 DEF Sleep, BackoffCountsFailures, Min
    <3>3. CASE failures + 1 > MaxFailures
      BY <2>1, <3>1, <3>3 DEF Sleep, BackoffCountsFailures, Min
    <3>. QED  BY <3>1, <3>2, <3>3
  <2>2. CASE ThreadReady
    BY <2>2 DEF ThreadReady, BackoffCountsFailures, Min
  <2>3. CASE UNCHANGED <<reconnectSeconds, failures>>
    BY <2>3 DEF BackoffCountsFailures
  <2>4. CASE QueueAlone
    BY <2>3, <2>4, QueueAloneStep DEF sessionVars
  <2>5. CASE \/ Initialize \/ ConnectFails \/ Register \/ CreateThread
             \/ CreateThreadFails \/ Join \/ Cleanup \/ HandleTurnsInvalid
    BY <2>3, <2>5 DEF Initialize, ConnectFails, Register, CreateThread, CreateThreadFails,
                      Join, Cleanup, HandleTurnsInvalid
  <2>6. CASE UNCHANGED vars
    BY <2>3, <2>6 DEF vars, sessionVars
  <2>. QED
    BY <2>1, <2>2, <2>4, <2>5, <2>6 DEF Next, Main, Thread, QueueAlone
<1>. QED  BY <1>1, <1>2, SessionInvHolds, PTL DEF Spec

\* Whatever is proved of MonitorQueue holds of the monitor.
THEOREM SessionImplementsQueue == Spec => QueueSpec
<1>1. Init => Q!Init
  BY DEF Init
<1>2. [Next]_vars => [Q!Next]_(Q!vars)
  <2>. SUFFICES ASSUME [Next]_vars PROVE [Q!Next]_(Q!vars)
    OBVIOUS
  <2>1. CASE UNCHANGED queueVars
    BY <2>1 DEF queueVars, Q!vars
  <2>2. CASE CreateThread
    BY <2>2 DEF CreateThread, Q!Next
  <2>3. CASE ThreadReady
    BY <2>3 DEF ThreadReady, Q!Next
  <2>4. CASE QueueAlone
    BY <2>4, QueueAloneStep
  <2>5. CASE \/ Initialize \/ ConnectFails \/ Register \/ CreateThreadFails
             \/ Join \/ Cleanup \/ Sleep \/ HandleTurnsInvalid
    BY <2>1, <2>5 DEF Initialize, ConnectFails, Register, CreateThreadFails, Join,
                      Cleanup, Sleep, HandleTurnsInvalid
  <2>6. CASE UNCHANGED vars
    BY <2>1, <2>6 DEF vars
  <2>. QED
    BY <2>2, <2>3, <2>4, <2>5, <2>6 DEF Next, Main, Thread, QueueAlone
<1>. QED  BY <1>1, <1>2, PTL DEF Spec, QueueSpec, Q!Spec

-----------------------------------------------------------------------------
(***************************************************************************)
(* What is proved of the queue, for the monitor.                           *)
(***************************************************************************)
QP == INSTANCE MonitorQueue_proofs

\* The actions of the queue that the session runs are those the proofs of
\* the queue speak of.
LEMMA SameQueue ==
    /\ Q!Init <=> QP!Init
    /\ Q!Next <=> QP!Next
<1>1. Q!Init <=> QP!Init
  BY DEF Q!Init, QP!Init
<1>2. \A c, e : /\ Q!Enqueue(c, e) <=> QP!Enqueue(c, e)
                /\ Q!EnqueueNoMemory(c, e) <=> QP!EnqueueNoMemory(c, e)
                /\ Q!SemaphoreSignal(c) <=> QP!SemaphoreSignal(c)
  BY Zenon DEF Q!Enqueue, QP!Enqueue, Q!EnqueueNoMemory, QP!EnqueueNoMemory,
               Q!SemaphoreSignal, QP!SemaphoreSignal, Q!Fresh, QP!Fresh,
               Q!Pending, QP!Pending, Q!ToSet, QP!ToSet, Q!historyVars, QP!historyVars
<1>3. Q!CallbackNext <=> QP!CallbackNext
  BY <1>2, Zenon DEF Q!CallbackNext, QP!CallbackNext
<1>4. Q!Loop <=> QP!Loop
  BY Zenon DEF Q!Loop, QP!Loop, Q!WaitSignalled, QP!WaitSignalled, Q!WaitBlock, QP!WaitBlock,
               Q!WaitReturns, QP!WaitReturns, Q!WakeReason, QP!WakeReason,
               Q!WaitCheck, QP!WaitCheck, Q!ThreadValidate, QP!ThreadValidate,
               Q!Peek, QP!Peek, Q!Handle, QP!Handle, Q!Dequeue, QP!Dequeue,
               Q!callbackVars, QP!callbackVars, Q!historyVars, QP!historyVars
<1>5. /\ Q!ThreadStart <=> QP!ThreadStart
      /\ Q!ThreadReady <=> QP!ThreadReady
      /\ Q!ThreadExit <=> QP!ThreadExit
  BY Zenon DEF Q!ThreadStart, QP!ThreadStart, Q!ThreadReady, QP!ThreadReady,
               Q!ThreadExit, QP!ThreadExit, Q!callbackVars, QP!callbackVars,
               Q!historyVars, QP!historyVars
<1>6. Q!Next <=> QP!Next
  BY <1>3, <1>4, <1>5, Zenon DEF Q!Next, QP!Next
<1>. QED  BY <1>1, <1>6

\* So every behaviour of the monitor is one of the queue.
LEMMA SessionIsQueue == Spec => QP!Spec
<1>1. Spec => Q!Spec
  BY SessionImplementsQueue DEF QueueSpec
<1>2. Q!Init => QP!Init
  BY SameQueue
<1>3. [Q!Next]_(Q!vars) => [QP!Next]_(QP!vars)
  BY SameQueue, Zenon DEF Q!vars, QP!vars
<1>. QED  BY <1>1, <1>2, <1>3, PTL DEF Q!Spec, QP!Spec

\* Over any number of sessions, whatever fails while one is opened or closed
\* and whenever a handle turns invalid: the event thread reads only records
\* that are still queued, an event is lost only in the unlocked window, each
\* loss is matched by a repetition, and no wakeup is missed.
THEOREM QueueSafeInSessions ==
    Spec => [](Q!RecordLive /\ Q!LossOnlyByRace /\ Q!LossMatchedByRepeat /\ Q!NoMissedWakeup)
<1>1. NoEvent \notin Event
  BY SessionAssumption
<1>2. QP!Spec => []QP!RecordLive
  BY <1>1, QP!RecordLiveHolds
<1>3. QP!Spec => []QP!LossOnlyByRace
  BY <1>1, QP!LossOnlyByRaceHolds
<1>4. QP!Spec => []QP!LossMatchedByRepeat
  BY <1>1, QP!LossMatchedByRepeatHolds
<1>5. QP!Spec => []QP!NoMissedWakeup
  BY <1>1, QP!NoMissedWakeupHolds
<1>6. QP!RecordLive => Q!RecordLive
  BY DEF Q!RecordLive, QP!RecordLive, Q!Pending, QP!Pending, Q!ToSet, QP!ToSet
<1>7. QP!LossOnlyByRace => Q!LossOnlyByRace
  BY DEF Q!LossOnlyByRace, QP!LossOnlyByRace, Q!Handled, QP!Handled
<1>8. QP!LossMatchedByRepeat => Q!LossMatchedByRepeat
  BY DEF Q!LossMatchedByRepeat, QP!LossMatchedByRepeat, Q!Passes, QP!Passes,
         Q!Cardinality, QP!Cardinality
<1>9. QP!NoMissedWakeup => Q!NoMissedWakeup
  BY DEF Q!NoMissedWakeup, QP!NoMissedWakeup
<1>. QED
  BY <1>2, <1>3, <1>4, <1>5, <1>6, <1>7, <1>8, <1>9, SessionIsQueue, PTL

\* The whole monitor gives whoever reports an event what EventBuffer promises.
THEOREM SessionImplementsBuffer == Spec => Q!ImplementsBuffer
<1>1. NoEvent \notin Event
  BY SessionAssumption
<1>2. QP!Spec => QP!ImplementsBuffer
  BY <1>1, QP!QueueImplementsBuffer
<1>. USE DEF Q!Pending, QP!Pending, Q!ToSet, QP!ToSet, Q!Ahead, QP!Ahead, Q!Handled, QP!Handled
<1>3. QP!Buffer!Init => Q!Buffer!Init
  BY DEF QP!Buffer!Init, Q!Buffer!Init
<1>4. [QP!Buffer!Next]_(QP!Buffer!vars) => [Q!Buffer!Next]_(Q!Buffer!vars)
  BY DEF QP!Buffer!vars, Q!Buffer!vars, QP!Buffer!Next, Q!Buffer!Next,
         QP!Buffer!Report, Q!Buffer!Report, QP!Buffer!Refuse, Q!Buffer!Refuse,
         QP!Buffer!TakeUp, Q!Buffer!TakeUp, QP!Buffer!See, Q!Buffer!See,
         QP!Buffer!Drop, Q!Buffer!Drop, QP!Buffer!New, Q!Buffer!New
<1>5. QP!ImplementsBuffer => Q!ImplementsBuffer
  BY <1>3, <1>4, PTL DEF QP!ImplementsBuffer, Q!ImplementsBuffer, QP!Buffer!Spec, Q!Buffer!Spec
<1>. QED  BY <1>2, <1>5, SessionIsQueue, PTL
=============================================================================
