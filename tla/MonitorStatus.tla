---------------------------- MODULE MonitorStatus ----------------------------
(***************************************************************************)
(* The network snapshot of the status monitor: what the handlers of        *)
(* rmh_monitor_events.c do to linkStatus, linkStatusValid and netStatus    *)
(* while the MoCA driver, outside the monitor, changes under them.         *)
(*                                                                         *)
(* A handler asks the driver again and again while it works (the node id,  *)
(* the remote nodes, the NC, the network version when the link comes up);  *)
(* each such query is a step of its own, may fail, and sees the driver as  *)
(* it is at that moment.  Queue, peek and dequeue are those of             *)
(* MonitorQueue, with the event's data and without the semaphore.          *)
(*                                                                         *)
(* MAC address, preferred NC and highest version of a node are left out:   *)
(* they are copied and printed, and decide nothing.  INTERFACE_DOWN is     *)
(* treated as NO_LINK by all of the code and stands under that name.       *)
(***************************************************************************)
EXTENDS Naturals, Sequences, SequencesExt

CONSTANTS
    Node,           \* node ids
    Self,           \* the id the driver gives this node
    Version,        \* versions of the MoCA network
    NoValue,        \* an unset ncNodeId or networkMoCAVer; an NC event without NC
    MaxEvents,      \* bound on the events the driver reports
    MaxQueue,       \* bound on the events waiting in the queue
    MaxSessions     \* bound on the connections the monitor makes

ASSUME StatusAssumption == /\ Node \subseteq Nat
                           /\ {0, Self} \subseteq Node
                           /\ NoValue \notin Node \cup Version
                           /\ {MaxEvents, MaxQueue, MaxSessions} \subseteq Nat

VARIABLES
    driver,     \* the MoCA driver: link, remote nodes present, NC, version
    queue,      \* app->eventQueue, head first
    app,        \* linkStatus, linkStatusValid and netStatus of RMHMonitor
    pc,         \* where the event thread is; "off" when no session is open
    current,    \* the event being handled; None in the initialisation
    reported,   \* number of events reported, up to MaxEvents
    sessions,   \* number of sessions begun, up to MaxSessions
    trust       \* history: nothing has happened that the snapshot may miss

vars == <<driver, queue, app, pc, current, reported, sessions, trust>>

LinkStatus == {"DISABLED", "NO_LINK", "UP"}

Message == [type : {"link"}, value : LinkStatus]
      \cup [type : {"joined", "dropped"}, value : Node]
      \cup [type : {"nc"}, value : Node \cup {NoValue}]
      \cup [type : {"version"}, value : Version]
      \cup [type : {"other"}, value : {NoValue}]

None == [type |-> "none", value |-> NoValue]

Remote == Node \ {Self}

Snapshot == [linkStatus : LinkStatus, linkStatusValid : BOOLEAN,
             joined : SUBSET Node, selfNode : Node,
             nc : Node \cup {NoValue}, version : Version \cup {NoValue}]

ThreadState == {"off", "init", "self", "remotes", "nc", "version", "wait", "dequeue"}

-----------------------------------------------------------------------------
(* The handlers that need no query, as functions of the snapshot.          *)

\* Mutant of ClearNet: forgets the NC.
ClearNodes(a) == [a EXCEPT !.joined = {}, !.selfNode = 0, !.version = NoValue]

\* memset of netStatus.
ClearNet(a) == [a EXCEPT !.joined = {}, !.selfNode = 0,
                         !.nc = NoValue, !.version = NoValue]

\* RMHMonitor_Event_SelfNodeId
SelfNodeId(a, n) ==
    IF a.linkStatus # "UP" \/ (a.selfNode = n /\ n \in a.joined)
    THEN a
    ELSE [a EXCEPT !.selfNode = n, !.joined = @ \cup {n}]

\* RMHMonitor_Event_JoinNode, for one node or for each that a query lists.
JoinNodes(a, nodes) ==
    IF a.linkStatus # "UP" THEN a ELSE [a EXCEPT !.joined = @ \cup nodes]

\* RMHMonitor_Event_DropNode
DropNode(a, n) ==
    IF a.linkStatus # "UP" THEN a ELSE [a EXCEPT !.joined = @ \ {n}]

\* RMHMonitor_Event_NCChanged; an event without an NC is not passed to it.
NCChanged(a, n) ==
    IF a.linkStatus # "UP" \/ n = NoValue THEN a ELSE [a EXCEPT !.nc = n]

\* RMHMonitor_Event_NetworkMoCAVersionChanged
VersionChanged(a, v) ==
    IF a.linkStatus # "UP" THEN a ELSE [a EXCEPT !.version = v]

\* Mutant of HandleMessage: a case without its break.
HandleMessageFallsThrough(a, m) ==
    CASE m.type = "joined"  -> JoinNodes(a, {m.value})
      [] m.type = "dropped" -> DropNode(a, m.value)
      [] m.type = "nc"      -> NCChanged(a, m.value)
      [] m.type = "version" -> JoinNodes(VersionChanged(a, m.value), {m.value})
      [] m.type = "other"   -> a

\* The switch over the events that are not a change of the link.
HandleMessage(a, m) ==
    CASE m.type = "joined"  -> JoinNodes(a, {m.value})
      [] m.type = "dropped" -> DropNode(a, m.value)
      [] m.type = "nc"      -> NCChanged(a, m.value)
      [] m.type = "version" -> VersionChanged(a, m.value)
      [] m.type = "other"   -> a

\* The early return of RMHMonitor_Event_LinkStatusChanged.
LinkUnchanged(a, s) == a.linkStatusValid /\ a.linkStatus = s

\* Mutant of SetLink: a link that is lost for a moment keeps its network.
SetLinkKeepsNet(a, s) ==
    LET b == [a EXCEPT !.linkStatus = s, !.linkStatusValid = TRUE]
    IN  IF s = "DISABLED" THEN ClearNet(b) ELSE b

\* RMHMonitor_Event_LinkStatusChanged up to its queries.
SetLink(a, s) ==
    LET b == [a EXCEPT !.linkStatus = s, !.linkStatusValid = TRUE]
    IN  IF s = "UP" THEN b ELSE ClearNet(b)

-----------------------------------------------------------------------------
Init ==
    /\ driver \in [link : LinkStatus, present : {{}}, nc : {NoValue}, version : Version]
    /\ queue = <<>>
    /\ app = [linkStatus |-> "DISABLED", linkStatusValid |-> FALSE,
              joined |-> {}, selfNode |-> 0, nc |-> NoValue, version |-> NoValue]
    /\ pc = "off"
    /\ current = None
    /\ reported = 0
    /\ sessions = 0
    /\ trust = FALSE

-----------------------------------------------------------------------------
(* The driver.  While no session is open no callback is registered and the *)
(* network changes without a report.                                       *)

\* The driver changes to d and, when someone listens, reports m.
DriverStep(d, m) ==
    /\ driver' = d
    /\ IF pc = "off"
       THEN UNCHANGED <<queue, reported, trust>>
       ELSE /\ reported < MaxEvents
            /\ Len(queue) < MaxQueue
            /\ reported' = reported + 1
            /\ queue' = <<m>> \o queue
            /\ trust' = (trust /\ queue = <<>>)
    /\ UNCHANGED <<app, pc, current, sessions>>

LinkChanges(s, nodes, n) ==
    /\ s # driver.link
    /\ DriverStep([driver EXCEPT !.link = s,
                                 !.present = IF s = "UP" THEN nodes ELSE {},
                                 !.nc = IF s = "UP" THEN n ELSE NoValue],
                  [type |-> "link", value |-> s])

NodeJoins(n) ==
    /\ driver.link = "UP"
    /\ n \notin driver.present
    /\ DriverStep([driver EXCEPT !.present = @ \cup {n}],
                  [type |-> "joined", value |-> n])

NodeDrops(n) ==
    /\ n \in driver.present
    /\ DriverStep([driver EXCEPT !.present = @ \ {n}],
                  [type |-> "dropped", value |-> n])

NCChanges(n) ==
    /\ driver.link = "UP"
    /\ n # driver.nc
    /\ DriverStep([driver EXCEPT !.nc = n], [type |-> "nc", value |-> n])

VersionChanges(v) ==
    /\ v # driver.version
    /\ DriverStep([driver EXCEPT !.version = v], [type |-> "version", value |-> v])

\* Admission status, reset and low bandwidth are printed and change nothing.
OtherEvent == pc # "off" /\ DriverStep(driver, [type |-> "other", value |-> NoValue])

-----------------------------------------------------------------------------
(* The event thread.                                                       *)

\* Connect and the start of RMHMonitor_Event_Thread: linkStatusValid and
\* netStatus are reset, linkStatus and the queue are not.
SessionStart ==
    /\ pc = "off"
    /\ sessions < MaxSessions
    /\ sessions' = sessions + 1
    /\ app' = ClearNet([app EXCEPT !.linkStatusValid = FALSE])
    /\ pc' = "init"
    /\ current' = None
    /\ trust' = (queue = <<>>)
    /\ UNCHANGED <<driver, queue, reported>>

\* The handle turns out to be invalid, or GetEnabled fails.
SessionEnd ==
    /\ pc \in {"init", "wait"}
    /\ pc' = "off"
    /\ UNCHANGED <<driver, queue, app, current, reported, sessions, trust>>

\* GetEnabled and GetLinkStatus answer; a disabled MoCA has that as its link.
InitLink ==
    /\ pc = "init"
    /\ app' = SetLink(app, driver.link)
    /\ pc' = IF driver.link = "UP" THEN "self" ELSE "wait"
    /\ UNCHANGED <<driver, queue, current, reported, sessions, trust>>

\* GetLinkStatus fails: the loop is entered all the same.
InitLinkFails ==
    /\ pc = "init"
    /\ driver.link # "DISABLED"
    /\ pc' = "wait"
    /\ trust' = FALSE
    /\ UNCHANGED <<driver, queue, app, current, reported, sessions>>

\* Where a handler returns to: the loop of the thread, or its first lines.
Return == IF current = None THEN "wait" ELSE "dequeue"

\* Peek, and the handler of a change of the link up to its queries.  It makes
\* a fresh start when nothing else is queued, unless the link was up before
\* without being valid: then nodes of the last session's messages stay.
HandleLink ==
    /\ pc = "wait"
    /\ queue # <<>>
    /\ Head(queue).type = "link"
    /\ current' = Head(queue)
    /\ IF LinkUnchanged(app, current'.value)
       THEN pc' = "dequeue" /\ UNCHANGED <<app, trust>>
       ELSE /\ app' = SetLink(app, current'.value)
            /\ pc' = IF current'.value = "UP" THEN "self" ELSE "dequeue"
            /\ trust' = /\ Len(queue) = 1
                        /\ current'.value = driver.link
                        /\ current'.value = "UP" => app.linkStatus # "UP"
    /\ UNCHANGED <<driver, queue, reported, sessions>>

\* Peek and every other handler.
HandleOther ==
    /\ pc = "wait"
    /\ queue # <<>>
    /\ Head(queue).type # "link"
    /\ current' = Head(queue)
    /\ app' = HandleMessage(app, current')
    /\ pc' = "dequeue"
    /\ UNCHANGED <<driver, queue, reported, sessions, trust>>

\* One query of LinkStatusChanged: it answers and the snapshot becomes a, or
\* it fails and the snapshot stays as it is.
Query(at, next, a) ==
    /\ pc = at
    /\ pc' = next
    /\ \/ app' = a /\ UNCHANGED trust
       \/ UNCHANGED app /\ trust' = FALSE
    /\ UNCHANGED <<driver, queue, current, reported, sessions>>

QuerySelf    == Query("self", "remotes", SelfNodeId(app, Self))
QueryRemotes == Query("remotes", "nc", JoinNodes(app, driver.present))
QueryNC      == Query("nc", "version", NCChanged(app, driver.nc))
QueryVersion == Query("version", Return, VersionChanged(app, driver.version))

\* Queue_Dequeue: the head of now, which may not be the handled message.
Dequeue ==
    /\ pc = "dequeue"
    /\ queue' = Tail(queue)
    /\ current' = None
    /\ pc' = "wait"
    /\ UNCHANGED <<driver, app, reported, sessions, trust>>

-----------------------------------------------------------------------------
DriverNext ==
    \/ \E s \in LinkStatus, nodes \in SUBSET Remote, n \in Node : LinkChanges(s, nodes, n)
    \/ \E n \in Remote : NodeJoins(n) \/ NodeDrops(n)
    \/ \E n \in Node \cup {NoValue} : NCChanges(n)
    \/ \E v \in Version : VersionChanges(v)
    \/ OtherEvent

ThreadNext == \/ SessionStart \/ SessionEnd
              \/ InitLink \/ InitLinkFails
              \/ HandleLink \/ HandleOther
              \/ QuerySelf \/ QueryRemotes \/ QueryNC \/ QueryVersion
              \/ Dequeue

Next == DriverNext \/ ThreadNext

Spec == Init /\ [][Next]_vars

-----------------------------------------------------------------------------
(* Properties.                                                             *)

\* Driver, queue and snapshot hold values of their kind.
TypeOK ==
    /\ driver \in [link : LinkStatus, present : SUBSET Remote,
                   nc : Node \cup {NoValue}, version : Version]
    /\ queue \in Seq(Message)
    /\ app \in Snapshot
    /\ pc \in ThreadState
    /\ current \in Message \cup {None}
    /\ reported \in 0..MaxEvents
    /\ sessions \in 0..MaxSessions
    /\ trust \in BOOLEAN

\* No handler leaves a node, an NC or a version in netStatus while the link
\* is not up (rmh_monitor_events.c: every handler tests the link, and
\* LinkStatusChanged and the start of the thread clear netStatus), so what
\* is on record at the next link up was learnt from that network.
DownIsEmpty == app.linkStatus # "UP" => /\ app.joined = {} /\ app.selfNode = 0
                                        /\ app.nc = NoValue /\ app.version = NoValue

\* The snapshot is the network (rmh_monitor.h:61, "The current snapshot
\* status of the network"): once the thread waits with an empty queue, it
\* holds exactly what the driver says, provided that since the link last
\* changed no query failed and no event came while another was queued.
SnapshotAccurate ==
    pc = "wait" /\ queue = <<>> /\ trust =>
        /\ app.linkStatusValid /\ app.linkStatus = driver.link
        /\ app.linkStatus = "UP" =>
              /\ app.joined = driver.present \cup {Self}
              /\ app.selfNode = Self
              /\ app.version = driver.version
              /\ driver.nc # NoValue => app.nc = driver.nc

\* rmh_monitor.h:89, linkStatusValid is "Set to true if the value of
\* 'linkStatus' is valid": nodes are taken onto the network only while the
\* link status they are tested against is valid.
JoinedOnlyIfValid == app.joined # {} => app.linkStatusValid
=============================================================================
