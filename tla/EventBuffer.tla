----------------------------- MODULE EventBuffer -----------------------------
(***************************************************************************)
(* What the monitor's event queue promises to whoever reports an event,    *)
(* without its order, its semaphore and its threads.  Reported events are  *)
(* pending until they are dropped.  The consumer takes up a pending event, *)
(* sees it, and then drops one: the event it took up, or one of those      *)
(* that were reported since it took it up.  So an event may be dropped     *)
(* unseen, but only if it was reported while another was being worked on.  *)
(* MonitorQueue is shown to implement this.                                *)
(***************************************************************************)
CONSTANTS Event, NoEvent

VARIABLES
    pending,    \* reported and not dropped
    busy,       \* the event being worked on, or NoEvent
    late,       \* pending events reported since busy was taken up
    gone,       \* dropped or refused, never pending again
    seen        \* events the consumer has seen

vars == <<pending, busy, late, gone, seen>>

Init == /\ pending = {}
        /\ busy = NoEvent
        /\ late = {}
        /\ gone = {}
        /\ seen = {}

New(e) == e \notin pending \cup gone

Report(e) ==
    /\ New(e)
    /\ pending' = pending \cup {e}
    /\ late' = IF busy = NoEvent THEN {} ELSE late \cup {e}
    /\ UNCHANGED <<busy, gone, seen>>

Refuse(e) ==
    /\ New(e)
    /\ gone' = gone \cup {e}
    /\ UNCHANGED <<pending, busy, late, seen>>

TakeUp(e) ==
    /\ busy = NoEvent
    /\ e \in pending
    /\ busy' = e
    /\ late' = {}
    /\ UNCHANGED <<pending, gone, seen>>

See ==
    /\ busy # NoEvent
    /\ seen' = seen \cup {busy}
    /\ UNCHANGED <<pending, busy, late, gone>>

Drop(e) ==
    /\ busy \in seen
    /\ e \in late \cup {busy}
    /\ pending' = pending \ {e}
    /\ gone' = gone \cup {e}
    /\ busy' = NoEvent
    /\ late' = {}
    /\ UNCHANGED seen

Next == See \/ \E e \in Event : Report(e) \/ Refuse(e) \/ TakeUp(e) \/ Drop(e)

Spec == Init /\ [][Next]_vars
=============================================================================
