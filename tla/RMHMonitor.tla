------------------------------ MODULE RMHMonitor ------------------------------
(***************************************************************************)
(* The sessions of the status monitor: main and RMHMonitor_Connect of      *)
(* rmh_monitor.c, composed with the event queue and the event thread of    *)
(* MonitorQueue.  A session opens a handle on the MoCA library, registers  *)
(* the callbacks, runs the event thread until that finds the handle        *)
(* invalid, and destroys the handle; then the monitor sleeps and tries     *)
(* again.  Queue, semaphore and their contents outlive the session.        *)
(***************************************************************************)
EXTENDS Naturals, Sequences

CONSTANTS
    Callback, Event, NoEvent,   \* those of MonitorQueue
    CanValidate,                \* FALSE: RMH_ValidateHandle is unimplemented
    MaxFailures                 \* where the history variable stops counting

ASSUME SessionAssumption == /\ NoEvent \notin Event
                            /\ CanValidate \in BOOLEAN
                            /\ MaxFailures \in Nat /\ MaxFailures >= 12

VARIABLES
    queue, signal, cbpc, tpc, wake, current,    \* those of MonitorQueue
    refused, freed, passes, raced,
    mpc,                \* where the main thread is
    rmh,                \* app->rmh: "NULL" or "open"
    valid,              \* whether the driver still honours the open handle
    listening,          \* whether the callbacks are registered
    eventThreadRunning, \* app->eventThreadRunning
    reconnect,          \* what RMHMonitor_Connect returned
    reconnectSeconds,   \* app->reconnectSeconds
    failures            \* history: sleeps since a session got going

queueVars   == <<queue, signal, cbpc, tpc, wake, current, refused, freed, passes, raced>>
sessionVars == <<mpc, rmh, valid, listening, eventThreadRunning, reconnect,
                 reconnectSeconds, failures>>
vars == <<queueVars, sessionVars>>

Q == INSTANCE MonitorQueue

MainState == {"connect", "register", "create", "join", "cleanup", "sleep", "done"}

Min(a, b) == IF a < b THEN a ELSE b

-----------------------------------------------------------------------------
Init == /\ Q!Init
        /\ mpc = "connect"
        /\ rmh = "NULL"
        /\ valid = FALSE
        /\ listening = FALSE
        /\ eventThreadRunning = FALSE
        /\ reconnect = FALSE
        /\ reconnectSeconds = 0
        /\ failures = 0

-----------------------------------------------------------------------------
(* Mutants: plausible mistakes in the actions below.                       *)

\* The thread is not joined.
JoinTooEarly ==
    /\ mpc = "join"
    /\ eventThreadRunning' = FALSE
    /\ reconnect' = TRUE
    /\ mpc' = "cleanup"
    /\ UNCHANGED <<queueVars, rmh, valid, listening, reconnectSeconds, failures>>

\* The cap is tested before 5 is added.
SleepCapsFirst ==
    /\ mpc = "sleep"
    /\ reconnectSeconds' = Min(reconnectSeconds, 60) + 5
    /\ failures' = Min(failures + 1, MaxFailures)
    /\ mpc' = "connect"
    /\ UNCHANGED <<queueVars, rmh, valid, listening, eventThreadRunning, reconnect>>

\* Every result of RMH_ValidateHandle is taken for a success.
ThreadValidateAny == Q!ThreadValidate /\ UNCHANGED sessionVars

\* Destroying the handle also throws the queue away, without a lock.
CleanupFlushes ==
    /\ mpc = "cleanup"
    /\ rmh' = "NULL" /\ valid' = FALSE /\ listening' = FALSE
    /\ queue' = <<>>
    /\ mpc' = IF reconnect THEN "sleep" ELSE "done"
    /\ UNCHANGED <<signal, cbpc, tpc, wake, current, refused, freed, passes, raced,
                   eventThreadRunning, reconnect, reconnectSeconds, failures>>

-----------------------------------------------------------------------------
(* The main thread.                                                        *)

\* RMH_Initialize opens a handle.
Initialize ==
    /\ mpc = "connect"
    /\ rmh' = "open" /\ valid' = TRUE
    /\ mpc' = "register"
    /\ UNCHANGED <<queueVars, listening, eventThreadRunning, reconnect,
                   reconnectSeconds, failures>>

\* RMH_Initialize returns NULL, or RMH_SetEventCallbacks fails.
ConnectFails ==
    /\ mpc \in {"connect", "register"}
    /\ reconnect' = TRUE
    /\ mpc' = "cleanup"
    /\ UNCHANGED <<queueVars, rmh, valid, listening, eventThreadRunning,
                   reconnectSeconds, failures>>

\* RMH_SetEventCallbacks; the result of RMH_Log_SetAPILevel is only printed.
Register ==
    /\ mpc = "register"
    /\ listening' = TRUE
    /\ mpc' = "create"
    /\ UNCHANGED <<queueVars, rmh, valid, eventThreadRunning, reconnect,
                   reconnectSeconds, failures>>

CreateThread ==
    /\ mpc = "create"
    /\ Q!ThreadStart
    /\ eventThreadRunning' = TRUE
    /\ mpc' = "join"
    /\ UNCHANGED <<rmh, valid, listening, reconnect, reconnectSeconds, failures>>

\* pthread_create fails: the one way to leave the loop of main.
CreateThreadFails ==
    /\ mpc = "create"
    /\ eventThreadRunning' = TRUE
    /\ reconnect' = FALSE
    /\ mpc' = "cleanup"
    /\ UNCHANGED <<queueVars, rmh, valid, listening, reconnectSeconds, failures>>

\* pthread_join; the thread's result is the address of a variable, never NULL.
\* It cannot fail: main joins, once, the joinable thread that it has created.
Join ==
    /\ mpc = "join"
    /\ tpc = "exited"
    /\ eventThreadRunning' = FALSE
    /\ reconnect' = TRUE
    /\ mpc' = "cleanup"
    /\ UNCHANGED <<queueVars, rmh, valid, listening, reconnectSeconds, failures>>

\* RMH_Destroy, if there is a handle.
Cleanup ==
    /\ mpc = "cleanup"
    /\ rmh' = "NULL" /\ valid' = FALSE /\ listening' = FALSE
    /\ mpc' = IF reconnect THEN "sleep" ELSE "done"
    /\ UNCHANGED <<queueVars, eventThreadRunning, reconnect, reconnectSeconds, failures>>

\* usleep, and the next delay.
Sleep ==
    /\ mpc = "sleep"
    /\ reconnectSeconds' = Min(reconnectSeconds + 5, 60)
    /\ failures' = Min(failures + 1, MaxFailures)
    /\ mpc' = "connect"
    /\ UNCHANGED <<queueVars, rmh, valid, listening, eventThreadRunning, reconnect>>

-----------------------------------------------------------------------------
(* The event thread and the callbacks, as far as the session guards them.  *)

ThreadReady ==
    /\ Q!ThreadReady
    /\ valid \/ ~CanValidate
    /\ reconnectSeconds' = 0
    /\ failures' = 0
    /\ UNCHANGED <<mpc, rmh, valid, listening, eventThreadRunning, reconnect>>

\* The handle is invalid, or GetEnabled fails in the thread's first lines.
ThreadExit ==
    /\ Q!ThreadExit
    /\ tpc = "init" \/ (CanValidate /\ ~valid)
    /\ UNCHANGED sessionVars

ThreadValidate ==
    /\ Q!ThreadValidate
    /\ valid \/ ~CanValidate
    /\ UNCHANGED sessionVars

ThreadWait ==
    /\ \/ Q!WaitSignalled \/ Q!WaitBlock \/ Q!WaitCheck
       \/ \E r \in Q!WakeReason \ {"signalled"} : Q!WaitReturns(r)
    /\ UNCHANGED sessionVars

ThreadWork == (Q!Peek \/ Q!Handle \/ Q!Dequeue) /\ UNCHANGED sessionVars

\* The library calls back only a registered client.  A callback that has
\* begun goes on to signal whatever the main thread does meanwhile.
CallbackBegins ==
    /\ listening
    /\ \E c \in Callback, e \in Event : Q!Enqueue(c, e) \/ Q!EnqueueNoMemory(c, e)
    /\ UNCHANGED sessionVars

CallbackSignals(c) == Q!SemaphoreSignal(c) /\ UNCHANGED sessionVars

\* The driver restarts and forgets the handle.
HandleTurnsInvalid ==
    /\ valid
    /\ valid' = FALSE
    /\ UNCHANGED <<queueVars, mpc, rmh, listening, eventThreadRunning, reconnect,
                   reconnectSeconds, failures>>

-----------------------------------------------------------------------------
Main == \/ Initialize \/ ConnectFails \/ Register \/ CreateThread
        \/ CreateThreadFails \/ Join \/ Cleanup \/ Sleep

Thread == ThreadReady \/ ThreadExit \/ ThreadValidate \/ ThreadWait \/ ThreadWork

Next == \/ Main \/ Thread
        \/ CallbackBegins \/ (\E c \in Callback : CallbackSignals(c))
        \/ HandleTurnsInvalid

Spec == Init /\ [][Next]_vars

(***************************************************************************)
(* Both threads are scheduled, and the timeout of the wait fires however   *)
(* often the wait is woken without a cause (see MonitorQueue).             *)
(***************************************************************************)
Fairness == /\ WF_vars(Main)
            /\ WF_vars(ThreadReady \/ ThreadExit)
            /\ WF_vars(ThreadValidate \/ ThreadExit)
            /\ SF_vars(Q!WaitReturns("timeout") /\ UNCHANGED sessionVars)
            /\ WF_vars((Q!WaitSignalled \/ Q!WaitBlock \/ Q!WaitCheck)
                       /\ UNCHANGED sessionVars)
            /\ WF_vars(ThreadWork)

FairSpec == Spec /\ Fairness

-----------------------------------------------------------------------------
(* Properties.                                                             *)

\* The session's variables hold values of their kind.
TypeOK == /\ mpc \in MainState
          /\ rmh \in {"NULL", "open"}
          /\ valid \in BOOLEAN
          /\ listening \in BOOLEAN
          /\ eventThreadRunning \in BOOLEAN
          /\ reconnect \in BOOLEAN
          /\ reconnectSeconds \in 0..60
          /\ failures \in 0..MaxFailures

\* While the event thread exists, the handle it calls the library with is not
\* destroyed, the flag its loop tests is set, and main does nothing but wait
\* for it (rmh_monitor.c:146, pthread_join before main's RMH_Destroy).
ThreadOwnsHandle ==
    tpc # "exited" => rmh = "open" /\ eventThreadRunning /\ mpc = "join"

\* The delay before the next attempt grows by 5 seconds with each attempt that
\* failed since a session last got going, up to a minute (rmh_monitor.c:273,
\* reset by the event thread at rmh_monitor_events.c:398).
BackoffCountsFailures == reconnectSeconds = Min(5 * failures, 60)

\* The composition implements MonitorQueue: no step of a session, opening,
\* closing or reconnecting, disturbs the queue or what is in it, so all that
\* holds of MonitorQueue holds of the whole monitor.
QueueSpec == Q!Spec

\* A session whose handle turned invalid does not hang: main opens another
\* handle, or the monitor ends because no thread could be created.
Recovers == (rmh = "open" /\ ~valid) ~> (mpc \in {"connect", "done"})
===============================================================================
