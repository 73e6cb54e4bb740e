------------------------- MODULE MonitorStatus_proofs -------------------------
(***************************************************************************)
(* Proofs about MonitorStatus, for any nodes, versions and bounds: type    *)
(* correctness, that nothing of the network stays on record while the link *)
(* is not up, and that the snapshot is the network when no message waits.  *)
(***************************************************************************)
EXTENDS MonitorStatus, SequenceTheorems, TLAPS

\* The message being handled, or one that came since, is there to be removed.
SomethingQueued == /\ pc = "dequeue" => current # None
                   /\ current # None => queue # <<>>

Inv == TypeOK /\ DownIsEmpty /\ SomethingQueued

\* One more message at the head.
LEMMA PushMessage ==
    ASSUME NEW S, NEW s \in Seq(S), NEW e \in S
    PROVE  <<e>> \o s \in Seq(S) /\ <<e>> \o s # <<>>
  OBVIOUS

\* One message less at the head.
LEMMA PopMessage ==
    ASSUME NEW S, NEW s \in Seq(S), s # <<>>
    PROVE  Tail(s) \in Seq(S) /\ Head(s) \in S
  OBVIOUS

-----------------------------------------------------------------------------
(* What the handlers make of a snapshot.                                   *)

\* Each handler turns a snapshot into a snapshot.
LEMMA HandlerTypes ==
    ASSUME NEW a \in Snapshot
    PROVE  /\ ClearNet(a) \in Snapshot
           /\ \A n \in Node : SelfNodeId(a, n) \in Snapshot /\ DropNode(a, n) \in Snapshot
           /\ \A nodes \in SUBSET Node : JoinNodes(a, nodes) \in Snapshot
           /\ \A n \in Node \cup {NoValue} : NCChanged(a, n) \in Snapshot
           /\ \A v \in Version : VersionChanged(a, v) \in Snapshot
           /\ \A s \in LinkStatus : SetLink(a, s) \in Snapshot
  BY StatusAssumption DEF Snapshot, ClearNet, SelfNodeId, DropNode, JoinNodes, NCChanged,
                          VersionChanged, SetLink, LinkStatus

\* A link that is not up has an empty network.
Clean(a) == a.linkStatus # "UP" => a.joined = {} /\ a.selfNode = 0
                                   /\ a.nc = NoValue /\ a.version = NoValue

\* Each handler leaves a clean snapshot clean.
LEMMA HandlersClean ==
    ASSUME NEW a \in Snapshot, Clean(a)
    PROVE  /\ \A n \in Node : Clean(SelfNodeId(a, n)) /\ Clean(DropNode(a, n))
           /\ \A nodes \in SUBSET Node : Clean(JoinNodes(a, nodes))
           /\ \A n \in Node \cup {NoValue} : Clean(NCChanged(a, n))
           /\ \A v \in Version : Clean(VersionChanged(a, v))
<1>. USE DEF Clean
<1>1. \A n \in Node : Clean(SelfNodeId(a, n)) /\ Clean(DropNode(a, n))
  BY DEF SelfNodeId, DropNode, Snapshot
<1>2. \A nodes \in SUBSET Node : Clean(JoinNodes(a, nodes))
  BY DEF JoinNodes, Snapshot
<1>3. \A n \in Node \cup {NoValue} : Clean(NCChanged(a, n))
  BY DEF NCChanged, Snapshot
<1>4. \A v \in Version : Clean(VersionChanged(a, v))
  BY DEF VersionChanged, Snapshot
<1>. QED  BY <1>1, <1>2, <1>3, <1>4

\* A new link status, and the memset, leave any snapshot clean.
LEMMA ResetsClean ==
    ASSUME NEW a \in Snapshot
    PROVE  Clean(ClearNet(a)) /\ \A s \in LinkStatus : Clean(SetLink(a, s))
  BY DEF Clean, ClearNet, SetLink, Snapshot, LinkStatus

\* The switch keeps type and cleanness, by the handlers it calls.
LEMMA HandleMessageClean ==
    ASSUME NEW a \in Snapshot, Clean(a), NEW m \in Message, m.type # "link"
    PROVE  HandleMessage(a, m) \in Snapshot /\ Clean(HandleMessage(a, m))
<1>1. CASE m.type \in {"joined", "dropped"}
  <2>1. m.value \in Node
    BY <1>1 DEF Message
  <2>. QED  BY <1>1, <2>1, HandlerTypes, HandlersClean DEF HandleMessage
<1>2. CASE m.type = "nc"
  <2>1. m.value \in Node \cup {NoValue}
    BY <1>2 DEF Message
  <2>. QED  BY <1>2, <2>1, HandlerTypes, HandlersClean DEF HandleMessage
<1>3. CASE m.type = "version"
  <2>1. m.value \in Version
    BY <1>3 DEF Message
  <2>. QED  BY <1>3, <2>1, HandlerTypes, HandlersClean DEF HandleMessage
<1>4. CASE m.type = "other"
  BY <1>4 DEF HandleMessage
<1>. QED  BY <1>1, <1>2, <1>3, <1>4 DEF Message

-----------------------------------------------------------------------------
(* The steps.                                                              *)

\* DownIsEmpty is cleanness of the monitor's snapshot.
LEMMA DownIsEmptyIsClean == DownIsEmpty <=> Clean(app)
  BY DEF DownIsEmpty, Clean

\* The snapshot of the last session, its link no longer valid.
LEMMA ResetTypes == TypeOK => [app EXCEPT !.linkStatusValid = FALSE] \in Snapshot
  BY DEF TypeOK, Snapshot

\* The invariant holds at the start.
LEMMA InitInv == Init => Inv
<1>. SUFFICES ASSUME Init PROVE Inv
  OBVIOUS
<1>1. 0 \in 0..MaxEvents /\ 0 \in 0..MaxSessions
  BY StatusAssumption
<1>2. app \in Snapshot
  BY StatusAssumption DEF Init, Snapshot, LinkStatus
<1>3. DownIsEmpty
  BY DEF Init, DownIsEmpty
<1>4. TypeOK
  BY <1>1, <1>2, EmptySeq DEF Init, TypeOK, ThreadState
<1>. QED  BY <1>3, <1>4 DEF Inv, SomethingQueued, Init

\* A report of the driver does not touch the snapshot.
LEMMA DriverStepInv ==
    ASSUME Inv, NEW m \in Message,
           NEW d \in [link : LinkStatus, present : SUBSET Remote,
                      nc : Node \cup {NoValue}, version : Version],
           DriverStep(d, m)
    PROVE  Inv'
<1>1. <<m>> \o queue \in Seq(Message) /\ <<m>> \o queue # <<>>
  BY PushMessage DEF Inv, TypeOK
<1>2. reported < MaxEvents => reported + 1 \in 0..MaxEvents
  BY StatusAssumption DEF Inv, TypeOK
<1>3. TypeOK'
  BY <1>1, <1>2 DEF DriverStep, Inv, TypeOK
<1>4. DownIsEmpty'
  BY DEF DriverStep, Inv, DownIsEmpty
<1>5. SomethingQueued'
  BY <1>1 DEF DriverStep, Inv, SomethingQueued
<1>. QED  BY <1>3, <1>4, <1>5 DEF Inv

\* So no step of the driver does.
LEMMA DriverNextInv == Inv /\ DriverNext => Inv'
<1>. SUFFICES ASSUME Inv, DriverNext PROVE Inv'
  OBVIOUS
<1>. USE DEF Inv, TypeOK, Message
<1>1. ASSUME NEW s \in LinkStatus, NEW nodes \in SUBSET Remote, NEW n \in Node,
             LinkChanges(s, nodes, n)
      PROVE  Inv'
  BY <1>1, DriverStepInv DEF LinkChanges
<1>2. ASSUME NEW n \in Remote, NodeJoins(n) \/ NodeDrops(n)
      PROVE  Inv'
  BY <1>2, DriverStepInv DEF NodeJoins, NodeDrops, Remote
<1>3. ASSUME NEW n \in Node \cup {NoValue}, NCChanges(n)
      PROVE  Inv'
  BY <1>3, DriverStepInv DEF NCChanges
<1>4. ASSUME NEW v \in Version, VersionChanges(v)
      PROVE  Inv'
  BY <1>4, DriverStepInv DEF VersionChanges
<1>5. CASE OtherEvent
  BY <1>5, DriverStepInv DEF OtherEvent
<1>. QED  BY <1>1, <1>2, <1>3, <1>4, <1>5 DEF DriverNext

\* A query that answers with a clean snapshot.
LEMMA QueryInv ==
    ASSUME Inv, NEW at \in ThreadState, NEW next \in ThreadState,
           next = "dequeue" => current # None,
           NEW a \in Snapshot, Clean(a), Query(at, next, a)
    PROVE  Inv'
<1>1. TypeOK'
  BY DEF Query, Inv, TypeOK
<1>2. Clean(app')
  BY DownIsEmptyIsClean DEF Query, Inv
<1>3. SomethingQueued'
  BY DEF Query, Inv, SomethingQueued
<1>. QED  BY <1>1, <1>2, <1>3 DEF Inv, DownIsEmpty, Clean

\* A step of the event thread that is given a clean snapshot.
LEMMA StepInv ==
    ASSUME Inv, app' \in Snapshot, Clean(app'), pc' \in ThreadState,
           queue' \in Seq(Message), current' \in Message \cup {None},
           sessions' \in 0..MaxSessions, trust' \in BOOLEAN,
           UNCHANGED <<driver, reported>>, SomethingQueued'
    PROVE  Inv'
  BY DEF Inv, TypeOK, DownIsEmpty, Clean

\* Every step of the event thread keeps the snapshot clean.
LEMMA ThreadNextInv == Inv /\ ThreadNext => Inv'
<1>. SUFFICES ASSUME Inv, ThreadNext PROVE Inv'
  OBVIOUS
<1>0. TypeOK /\ app \in Snapshot /\ Clean(app) /\ SomethingQueued
  BY DownIsEmptyIsClean DEF Inv, TypeOK
<1>. USE DEF SomethingQueued
<1>1. CASE SessionStart
  <2>1. app' \in Snapshot /\ Clean(app')
    BY <1>0, <1>1, ResetTypes, HandlerTypes, ResetsClean DEF SessionStart
  <2>2. sessions + 1 \in 0..MaxSessions
    BY <1>0, <1>1, StatusAssumption DEF SessionStart, TypeOK
  <2>. QED  BY <1>0, <1>1, <2>1, <2>2, StepInv DEF SessionStart, TypeOK, ThreadState
<1>2. CASE SessionEnd
  BY <1>0, <1>2, StepInv DEF SessionEnd, TypeOK, ThreadState
<1>3. CASE InitLink
  <2>1. driver.link \in LinkStatus
    BY <1>0 DEF TypeOK
  <2>2. app' \in Snapshot /\ Clean(app')
    BY <1>0, <1>3, <2>1, HandlerTypes, ResetsClean DEF InitLink
  <2>. QED  BY <1>0, <1>3, <2>2, StepInv DEF InitLink, TypeOK, ThreadState
<1>4. CASE InitLinkFails
  BY <1>0, <1>4, StepInv DEF InitLinkFails, TypeOK, ThreadState
<1>5. CASE HandleLink
  <2>1. Head(queue) \in Message /\ Head(queue) # None
    BY <1>0, <1>5, PopMessage DEF HandleLink, TypeOK, None
  <2>2. Head(queue).value \in LinkStatus
    BY <1>5, <2>1 DEF HandleLink, Message
  <2>3. app' \in Snapshot /\ Clean(app')
    BY <1>0, <1>5, <2>2, HandlerTypes, ResetsClean DEF HandleLink
  <2>4. pc' \in ThreadState /\ trust' \in BOOLEAN
    BY <1>0, <1>5 DEF HandleLink, TypeOK, ThreadState
  <2>. QED  BY <1>0, <1>5, <2>1, <2>3, <2>4, StepInv DEF HandleLink, TypeOK
<1>6. CASE HandleOther
  <2>1. Head(queue) \in Message /\ Head(queue) # None
    BY <1>0, <1>6, PopMessage DEF HandleOther, TypeOK, Message, None
  <2>2. app' \in Snapshot /\ Clean(app')
    BY <1>0, <1>6, <2>1, HandleMessageClean DEF HandleOther
  <2>. QED  BY <1>0, <1>6, <2>1, <2>2, StepInv DEF HandleOther, TypeOK, ThreadState
<1>7. CASE QuerySelf \/ QueryRemotes \/ QueryNC \/ QueryVersion
  <2>1. /\ Self \in Node /\ driver.present \in SUBSET Node
        /\ driver.nc \in Node \cup {NoValue} /\ driver.version \in Version
    BY <1>0, StatusAssumption DEF TypeOK, Remote
  <2>2. Return \in ThreadState /\ (Return = "dequeue" => current # None)
    BY DEF Return, ThreadState
  <2>3. CASE QuerySelf
    BY <1>0, <2>1, <2>3, HandlerTypes, HandlersClean, QueryInv DEF QuerySelf, ThreadState
  <2>4. CASE QueryRemotes
    BY <1>0, <2>1, <2>4, HandlerTypes, HandlersClean, QueryInv DEF QueryRemotes, ThreadState
  <2>5. CASE QueryNC
    BY <1>0, <2>1, <2>5, HandlerTypes, HandlersClean, QueryInv DEF QueryNC, ThreadState
  <2>6. CASE QueryVersion
    BY <1>0, <2>1, <2>2, <2>6, HandlerTypes, HandlersClean, QueryInv
       DEF QueryVersion, ThreadState
  <2>. QED  BY <1>7, <2>3, <2>4, <2>5, <2>6
<1>8. CASE Dequeue
  <2>1. Tail(queue) \in Seq(Message)
    BY <1>0, <1>8, PopMessage DEF Dequeue, TypeOK
  <2>. QED  BY <1>0, <1>8, <2>1, StepInv DEF Dequeue, TypeOK, ThreadState
<1>. QED  BY <1>1, <1>2, <1>3, <1>4, <1>5, <1>6, <1>7, <1>8 DEF ThreadNext

\* The invariant holds throughout.
THEOREM InvHolds == Spec => []Inv
<1>1. Inv /\ UNCHANGED vars => Inv'
  BY DEF Inv, vars, TypeOK, DownIsEmpty, SomethingQueued
<1>2. Inv /\ [Next]_vars => Inv'
  BY <1>1, DriverNextInv, ThreadNextInv DEF Next
<1>. QED  BY <1>2, InitInv, PTL DEF Spec

\* Snapshot, queue and driver keep their types.
THEOREM TypeCorrect == Spec => []TypeOK
  BY InvHolds, PTL DEF Inv

\* With the link down the monitor remembers nothing of the network.
THEOREM DownIsEmptyHolds == Spec => []DownIsEmpty
  BY InvHolds, PTL DEF Inv
-----------------------------------------------------------------------------
(* The snapshot is the network.                                            *)

Querying == {"self", "remotes", "nc", "version"}

\* The driver is as the latest report m says.
Reports(m, d) == /\ m.type = "link" => m.value = d.link
                 /\ m.type = "joined" => m.value \in d.present
                 /\ m.type = "dropped" => m.value \in Remote \ d.present
                 /\ m.type = "nc" => m.value = d.nc
                 /\ m.type = "version" => m.value = d.version

\* What the snapshot a will be when the message that waits in q is handled.
\* A change of the link starts a new snapshot.
Pending(a, q) == IF q = <<>> \/ Head(q).type = "link" THEN a ELSE HandleMessage(a, Head(q))

\* What is on record of the network d at a place of the thread: a is the
\* snapshot, b what it will be when the waiting message is handled.
Known(place, a, b, d) ==
    /\ place = "self" => a.joined = {}
    /\ place = "remotes" => a.joined = {Self} /\ a.selfNode = Self
    /\ place \in {"nc", "version", "wait", "dequeue"} =>
          b.joined = d.present \cup {Self} /\ b.selfNode = Self
    /\ place \in {"version", "wait", "dequeue"} /\ d.nc # NoValue => b.nc = d.nc
    /\ place \in {"wait", "dequeue"} => b.version = d.version

\* One message waits at most; the one for which the queries are made says that
\* the link came up.
OneReport ==
    /\ queue # <<>> => Len(queue) = 1 /\ Reports(Head(queue), driver)
    /\ pc \in Querying /\ current # None =>
          Head(queue).type = "link" /\ Head(queue).value = "UP"

\* The link is the driver's, or the waiting message says that it changed; the
\* network is known as far as the queries have come.
UpToDate ==
    /\ app.linkStatusValid
    /\ app.linkStatus # driver.link =>
          pc # "dequeue" /\ queue # <<>> /\ Head(queue).type = "link"
    /\ app.linkStatus = "UP" /\ driver.link = "UP" =>
          Known(pc, app, IF pc = "dequeue" THEN app ELSE Pending(app, queue), driver)

TrustInv ==
    /\ pc = "init" => app.joined = {} /\ current = None
    /\ pc \in Querying => app.linkStatus = "UP"
    /\ trust /\ pc # "off" => OneReport
    /\ trust /\ pc \notin {"off", "init"} => UpToDate

\* What a message changes in a snapshot whose link is up.
LEMMA MessageFields ==
    ASSUME NEW a \in Snapshot, a.linkStatus = "UP", NEW m \in Message, m.type # "link"
    PROVE  LET b == HandleMessage(a, m) IN
           /\ b.selfNode = a.selfNode
           /\ b.joined = IF m.type = "joined" THEN a.joined \cup {m.value}
                         ELSE IF m.type = "dropped" THEN a.joined \ {m.value} ELSE a.joined
           /\ b.nc = IF m.type = "nc" /\ m.value # NoValue THEN m.value ELSE a.nc
           /\ b.version = IF m.type = "version" THEN m.value ELSE a.version
<1>1. CASE m.type = "joined"
  BY <1>1 DEF HandleMessage, JoinNodes, Snapshot
<1>2. CASE m.type = "dropped"
  BY <1>2 DEF HandleMessage, DropNode, Snapshot
<1>3. CASE m.type = "nc"
  BY <1>3 DEF HandleMessage, NCChanged, Snapshot
<1>4. CASE m.type = "version"
  BY <1>4 DEF HandleMessage, VersionChanged, Snapshot
<1>5. CASE m.type = "other"
  BY <1>5 DEF HandleMessage
<1>. QED  BY <1>1, <1>2, <1>3, <1>4, <1>5 DEF Message

\* No message changes the link on record, nor a snapshot whose link is not up.
LEMMA MessageLink ==
    ASSUME NEW a \in Snapshot, NEW m \in Message, m.type # "link"
    PROVE  /\ HandleMessage(a, m).linkStatus = a.linkStatus
           /\ HandleMessage(a, m).linkStatusValid = a.linkStatusValid
<1>1. CASE m.type = "joined"
  BY <1>1 DEF HandleMessage, JoinNodes, Snapshot
<1>2. CASE m.type = "dropped"
  BY <1>2 DEF HandleMessage, DropNode, Snapshot
<1>3. CASE m.type = "nc"
  BY <1>3 DEF HandleMessage, NCChanged, Snapshot
<1>4. CASE m.type = "version"
  BY <1>4 DEF HandleMessage, VersionChanged, Snapshot
<1>5. CASE m.type = "other"
  BY <1>5 DEF HandleMessage
<1>. QED  BY <1>1, <1>2, <1>3, <1>4, <1>5 DEF Message

\* What a waiting message will change.
LEMMA PendingFields ==
    ASSUME NEW a \in Snapshot, a.linkStatus = "UP", NEW q, q # <<>> => Head(q) \in Message
    PROVE  LET b == Pending(a, q)
               is(type) == q # <<>> /\ Head(q).type = type
           IN  /\ b.selfNode = a.selfNode
               /\ b.joined = IF is("joined") THEN a.joined \cup {Head(q).value}
                             ELSE IF is("dropped") THEN a.joined \ {Head(q).value} ELSE a.joined
               /\ b.nc = IF is("nc") /\ Head(q).value # NoValue THEN Head(q).value ELSE a.nc
               /\ b.version = IF is("version") THEN Head(q).value ELSE a.version
<1>1. CASE q = <<>> \/ Head(q).type = "link"
  BY <1>1 DEF Pending
<1>2. CASE q # <<>> /\ Head(q).type # "link"
  BY <1>2, MessageFields DEF Pending
<1>. QED  BY <1>1, <1>2

\* The first message of an empty queue.
LEMMA FirstMessage ==
    ASSUME NEW S, NEW s \in Seq(S), NEW e \in S, s = <<>>
    PROVE  <<e>> \o s # <<>> /\ Head(<<e>> \o s) = e /\ Len(<<e>> \o s) = 1
  OBVIOUS

\* The driver changes by what it reports: either the link, or what the message
\* will make of the snapshot.
LEMMA DriverStepTrust ==
    ASSUME Inv, TrustInv, NEW m \in Message, NEW d, DriverStep(d, m), Reports(m, d),
           m.type = "link" => d.link # driver.link,
           m.type # "link" => d.link = driver.link,
           m.type # "link" /\ app.linkStatus = "UP" =>
               \A place \in ThreadState :
                   Known(place, app, app, driver) => Known(place, app, HandleMessage(app, m), d)
    PROVE  TrustInv'
<1>1. driver' = d /\ UNCHANGED <<app, pc, current>>
  BY DEF DriverStep
<1>2. ASSUME trust', pc # "off"
      PROVE  OneReport' /\ (pc # "init" => UpToDate')
  <2>1. trust /\ queue = <<>> /\ queue' = <<m>> \o queue /\ current = None /\ pc # "dequeue"
        /\ pc \in ThreadState
    BY <1>2 DEF DriverStep, Inv, SomethingQueued, TypeOK
  <2>2. queue' # <<>> /\ Head(queue') = m /\ Len(queue') = 1
    BY <2>1, FirstMessage DEF Inv, TypeOK
  <2>3. OneReport'
    BY <1>1, <2>1, <2>2 DEF OneReport
  <2>4. ASSUME pc # "init"
        PROVE  UpToDate'
    <3>1. /\ app.linkStatusValid /\ app.linkStatus = driver.link
          /\ app.linkStatus = "UP" => Known(pc, app, app, driver)
      BY <1>2, <2>1, <2>4 DEF TrustInv, UpToDate, Pending
    <3>2. m.type # "link" => Pending(app, queue') = HandleMessage(app, m)
      BY <2>2 DEF Pending
    <3>. QED  BY <1>1, <2>1, <2>2, <3>1, <3>2 DEF UpToDate
  <2>. QED  BY <2>3, <2>4
<1>. QED  BY <1>1, <1>2 DEF TrustInv

\* Each change of the driver is such a step.
LEMMA DriverNextTrust == Inv /\ TrustInv /\ DriverNext => TrustInv'
<1>. SUFFICES ASSUME Inv, TrustInv, DriverNext PROVE TrustInv'
  OBVIOUS
<1>0. /\ app \in Snapshot /\ NoValue \notin Node
      /\ driver \in [link : LinkStatus, present : SUBSET Remote,
                     nc : Node \cup {NoValue}, version : Version]
  BY StatusAssumption DEF Inv, TypeOK
<1>1. ASSUME NEW s \in LinkStatus, NEW nodes \in SUBSET Remote, NEW n \in Node,
             LinkChanges(s, nodes, n)
      PROVE  TrustInv'
  <2>. DEFINE m == [type |-> "link", value |-> s]
              d == [driver EXCEPT !.link = s, !.present = IF s = "UP" THEN nodes ELSE {},
                                  !.nc = IF s = "UP" THEN n ELSE NoValue]
  <2>1. m \in Message /\ m.type = "link" /\ m.value = s /\ d.link = s
    BY <1>0 DEF Message
  <2>2. s # driver.link /\ DriverStep(d, m)
    BY <1>1 DEF LinkChanges
  <2>. HIDE DEF m, d
  <2>3. Reports(m, d)
    BY <2>1 DEF Reports
  <2>. QED  BY <2>1, <2>2, <2>3, DriverStepTrust
<1>2. ASSUME NEW n \in Remote, NodeJoins(n)
      PROVE  TrustInv'
  <2>. DEFINE m == [type |-> "joined", value |-> n]
              d == [driver EXCEPT !.present = @ \cup {n}]
  <2>1. /\ m \in Message /\ m.type = "joined" /\ m.value = n
        /\ d.link = driver.link /\ d.present = driver.present \cup {n} /\ d.nc = driver.nc
        /\ d.version = driver.version
    BY <1>0 DEF Message, Remote
  <2>2. DriverStep(d, m)
    BY <1>2 DEF NodeJoins
  <2>. HIDE DEF m, d
  <2>3. Reports(m, d)
    BY <2>1 DEF Reports
  <2>4. app.linkStatus = "UP" =>
          \A place \in ThreadState :
              Known(place, app, app, driver) => Known(place, app, HandleMessage(app, m), d)
    <3>. SUFFICES ASSUME app.linkStatus = "UP", NEW place \in ThreadState,
                         Known(place, app, app, driver)
                  PROVE  Known(place, app, HandleMessage(app, m), d)
      OBVIOUS
    <3>. DEFINE b == HandleMessage(app, m)
    <3>1. /\ b.selfNode = app.selfNode /\ b.nc = app.nc /\ b.version = app.version
          /\ b.joined = app.joined \cup {n}
      BY <1>0, <2>1, MessageFields
    <3>. HIDE DEF b
    <3>2. Known(place, app, b, d)
      BY <2>1, <3>1 DEF Known
    <3>. QED  BY <3>2 DEF b
  <2>. QED  BY <2>1, <2>2, <2>3, <2>4, DriverStepTrust
<1>3. ASSUME NEW n \in Remote, NodeDrops(n)
      PROVE  TrustInv'
  <2>. DEFINE m == [type |-> "dropped", value |-> n]
              d == [driver EXCEPT !.present = @ \ {n}]
  <2>1. /\ m \in Message /\ m.type = "dropped" /\ m.value = n /\ n # Self
        /\ d.link = driver.link /\ d.present = driver.present \ {n} /\ d.nc = driver.nc
        /\ d.version = driver.version
    BY <1>0 DEF Message, Remote
  <2>2. DriverStep(d, m)
    BY <1>3 DEF NodeDrops
  <2>. HIDE DEF m, d
  <2>3. Reports(m, d)
    BY <2>1 DEF Reports
  <2>4. app.linkStatus = "UP" =>
          \A place \in ThreadState :
              Known(place, app, app, driver) => Known(place, app, HandleMessage(app, m), d)
    <3>. SUFFICES ASSUME app.linkStatus = "UP", NEW place \in ThreadState,
                         Known(place, app, app, driver)
                  PROVE  Known(place, app, HandleMessage(app, m), d)
      OBVIOUS
    <3>. DEFINE b == HandleMessage(app, m)
    <3>1. /\ b.selfNode = app.selfNode /\ b.nc = app.nc /\ b.version = app.version
          /\ b.joined = app.joined \ {n}
      BY <1>0, <2>1, MessageFields
    <3>. HIDE DEF b
    <3>2. Known(place, app, b, d)
      BY <2>1, <3>1 DEF Known
    <3>. QED  BY <3>2 DEF b
  <2>. QED  BY <2>1, <2>2, <2>3, <2>4, DriverStepTrust
<1>4. ASSUME NEW n \in Node \cup {NoValue}, NCChanges(n)
      PROVE  TrustInv'
  <2>. DEFINE m == [type |-> "nc", value |-> n]
              d == [driver EXCEPT !.nc = n]
  <2>1. /\ m \in Message /\ m.type = "nc" /\ m.value = n
        /\ d.link = driver.link /\ d.present = driver.present /\ d.nc = n
        /\ d.version = driver.version
    BY <1>0 DEF Message
  <2>2. DriverStep(d, m)
    BY <1>4 DEF NCChanges
  <2>. HIDE DEF m, d
  <2>3. Reports(m, d)
    BY <2>1 DEF Reports
  <2>4. app.linkStatus = "UP" =>
          \A place \in ThreadState :
              Known(place, app, app, driver) => Known(place, app, HandleMessage(app, m), d)
    BY <1>0, <2>1, MessageFields DEF Known
  <2>. QED  BY <2>1, <2>2, <2>3, <2>4, DriverStepTrust
<1>5. ASSUME NEW v \in Version, VersionChanges(v)
      PROVE  TrustInv'
  <2>. DEFINE m == [type |-> "version", value |-> v]
              d == [driver EXCEPT !.version = v]
  <2>1. /\ m \in Message /\ m.type = "version" /\ m.value = v
        /\ d.link = driver.link /\ d.present = driver.present /\ d.nc = driver.nc
        /\ d.version = v
    BY <1>0 DEF Message
  <2>2. DriverStep(d, m)
    BY <1>5 DEF VersionChanges
  <2>. HIDE DEF m, d
  <2>3. Reports(m, d)
    BY <2>1 DEF Reports
  <2>4. app.linkStatus = "UP" =>
          \A place \in ThreadState :
              Known(place, app, app, driver) => Known(place, app, HandleMessage(app, m), d)
    BY <1>0, <2>1, MessageFields DEF Known
  <2>. QED  BY <2>1, <2>2, <2>3, <2>4, DriverStepTrust
<1>6. CASE OtherEvent
  <2>. DEFINE m == [type |-> "other", value |-> NoValue]
  <2>1. m \in Message /\ m.type = "other"
    BY DEF Message
  <2>2. DriverStep(driver, m)
    BY <1>6 DEF OtherEvent
  <2>. HIDE DEF m
  <2>3. Reports(m, driver)
    BY <2>1 DEF Reports
  <2>4. app.linkStatus = "UP" =>
          \A place \in ThreadState :
              Known(place, app, app, driver) => Known(place, app, HandleMessage(app, m), driver)
    BY <1>0, <2>1, MessageFields DEF Known
  <2>. QED  BY <2>1, <2>2, <2>3, <2>4, DriverStepTrust
<1>. QED  BY <1>1, <1>2, <1>3, <1>4, <1>5, <1>6 DEF DriverNext

\* A field that two snapshots share, they share when the message is handled.
LEMMA SamePending ==
    ASSUME NEW a \in Snapshot, NEW c \in Snapshot, a.linkStatus = "UP", c.linkStatus = "UP",
           NEW q, q # <<>> => Head(q) \in Message
    PROVE  /\ a.selfNode = c.selfNode => Pending(a, q).selfNode = Pending(c, q).selfNode
           /\ a.joined = c.joined => Pending(a, q).joined = Pending(c, q).joined
           /\ a.nc = c.nc => Pending(a, q).nc = Pending(c, q).nc
<1>1. CASE q = <<>> \/ Head(q).type = "link"
  BY <1>1 DEF Pending
<1>2. CASE q # <<>> /\ Head(q).type # "link"
  <2>. DEFINE m == Head(q)
              b == HandleMessage(a, m)
              d == HandleMessage(c, m)
  <2>1. Pending(a, q) = b /\ Pending(c, q) = d
    BY <1>2 DEF Pending
  <2>2. /\ b.selfNode = a.selfNode
        /\ b.joined = IF m.type = "joined" THEN a.joined \cup {m.value}
                      ELSE IF m.type = "dropped" THEN a.joined \ {m.value} ELSE a.joined
        /\ b.nc = IF m.type = "nc" /\ m.value # NoValue THEN m.value ELSE a.nc
    BY <1>2, MessageFields
  <2>3. /\ d.selfNode = c.selfNode
        /\ d.joined = IF m.type = "joined" THEN c.joined \cup {m.value}
                      ELSE IF m.type = "dropped" THEN c.joined \ {m.value} ELSE c.joined
        /\ d.nc = IF m.type = "nc" /\ m.value # NoValue THEN m.value ELSE c.nc
    BY <1>2, MessageFields
  <2>. HIDE DEF m, b, d
  <2>. QED  BY <2>1, <2>2, <2>3
<1>. QED  BY <1>1, <1>2

\* The answer a of the query at one place says what is known at the next one.
Answers(at, next, a) ==
    (/\ Known(at, app, Pending(app, queue), driver)
     /\ queue # <<>> => Reports(Head(queue), driver)
     /\ next = "dequeue" => Head(queue).type = "link") =>
       Known(next, a, IF next = "dequeue" THEN a ELSE Pending(a, queue), driver)

\* A query of a link that is up: trust ends if it fails.
LEMMA QueryTrust ==
    ASSUME Inv, TrustInv, NEW at \in Querying, NEW next \in Querying \cup {Return}, next # "self",
           NEW a \in Snapshot, Query(at, next, a),
           a.linkStatus = app.linkStatus, a.linkStatusValid = app.linkStatusValid,
           Answers(at, next, a)
    PROVE  TrustInv'
<1>1. /\ pc = at /\ pc' = next /\ UNCHANGED <<driver, queue, current>> /\ app.linkStatus = "UP"
      /\ next \notin {"init", "off"}
  BY DEF Query, TrustInv, Return, Querying
<1>2. next = "dequeue" => current # None /\ queue # <<>>
  BY DEF Return, Inv, SomethingQueued, Querying
<1>3. ASSUME trust'
      PROVE  OneReport' /\ UpToDate'
  <2>1. trust /\ app' = a
    BY <1>3 DEF Query
  <2>2. OneReport /\ UpToDate
    BY <1>1, <2>1 DEF TrustInv, Querying
  <2>3. next = "dequeue" => Head(queue).type = "link" /\ driver.link = "UP"
    BY <1>1, <1>2, <2>2 DEF OneReport, Reports
  <2>4. OneReport'
    BY <1>1, <2>2 DEF OneReport
  <2>5. driver.link = "UP" => Known(at, app, Pending(app, queue), driver)
    BY <1>1, <2>2 DEF UpToDate, Querying
  <2>6. driver.link = "UP" =>
          Known(next, a, IF next = "dequeue" THEN a ELSE Pending(a, queue), driver)
    BY <2>2, <2>3, <2>5 DEF OneReport, Answers
  <2>. QED
    BY <1>1, <2>1, <2>2, <2>3, <2>4, <2>6 DEF UpToDate
<1>4. next \in Querying => app'.linkStatus = "UP"
  BY <1>1 DEF Query
<1>. QED
  BY <1>1, <1>3, <1>4 DEF TrustInv

LEMMA QueriesTrust ==
    ASSUME Inv, TrustInv, QuerySelf \/ QueryRemotes \/ QueryNC \/ QueryVersion
    PROVE  TrustInv'
<1>1. /\ app \in Snapshot /\ Self \in Node /\ driver.present \in SUBSET Node
      /\ driver.nc \in Node \cup {NoValue} /\ driver.version \in Version
      /\ (queue # <<>> => Head(queue) \in Message) /\ driver.present \subseteq Remote
  <2>1. queue \in Seq(Message)
    BY DEF Inv, TypeOK
  <2>. QED
    BY <2>1, PopMessage, StatusAssumption DEF Inv, TypeOK, Remote
<1>2. app.linkStatus = "UP"
  BY DEF TrustInv, Querying, QuerySelf, QueryRemotes, QueryNC, QueryVersion, Query
<1>3. CASE QuerySelf
  <2>. DEFINE a == SelfNodeId(app, Self)
  <2>1. /\ a \in Snapshot /\ a.linkStatus = app.linkStatus
        /\ a.linkStatusValid = app.linkStatusValid
        /\ a.selfNode = Self /\ a.joined = app.joined \cup {Self}
    <3>1. CASE app.selfNode = Self /\ Self \in app.joined
      <4>1. a = app /\ app.joined = app.joined \cup {Self}
        BY <1>1, <1>2, <3>1 DEF SelfNodeId, Snapshot
      <4>. QED
        BY <1>1, <3>1, <4>1
    <3>2. CASE ~(app.selfNode = Self /\ Self \in app.joined)
      BY <1>1, <1>2, <3>2, HandlerTypes DEF SelfNodeId, Snapshot
    <3>. QED
      BY <3>1, <3>2
  <2>2. Query("self", "remotes", a)
    BY <1>3 DEF QuerySelf
  <2>. HIDE DEF a
  <2>3. \A b, c : Known("self", app, b, driver) => Known("remotes", a, c, driver)
    BY <2>1 DEF Known
  <2>4. Answers("self", "remotes", a)
    BY <2>3 DEF Answers
  <2>. QED
    BY <2>1, <2>2, <2>4, QueryTrust DEF Querying
<1>4. CASE QueryRemotes
  <2>. DEFINE a == JoinNodes(app, driver.present)
  <2>1. /\ a \in Snapshot /\ a.linkStatus = app.linkStatus
        /\ a.linkStatusValid = app.linkStatusValid
        /\ a.selfNode = app.selfNode /\ a.joined = app.joined \cup driver.present
    BY <1>1, <1>2, HandlerTypes DEF JoinNodes, Snapshot
  <2>2. Query("remotes", "nc", a)
    BY <1>4 DEF QueryRemotes
  <2>. HIDE DEF a
  <2>3. ASSUME Known("remotes", app, Pending(app, queue), driver),
               queue # <<>> => Reports(Head(queue), driver)
        PROVE  Known("nc", a, Pending(a, queue), driver)
    <3>1. a.joined = driver.present \cup {Self} /\ a.selfNode = Self
      BY <2>1, <2>3 DEF Known
    <3>2. /\ Pending(a, queue).selfNode = a.selfNode
          /\ Pending(a, queue).joined =
                IF queue # <<>> /\ Head(queue).type = "joined"
                THEN a.joined \cup {Head(queue).value}
                ELSE IF queue # <<>> /\ Head(queue).type = "dropped"
                THEN a.joined \ {Head(queue).value} ELSE a.joined
      BY <1>1, <1>2, <2>1, PendingFields
    <3>3. Pending(a, queue).joined = driver.present \cup {Self}
      <4>1. CASE queue # <<>> /\ Head(queue).type = "joined"
        <5>1. Head(queue).value \in driver.present
          BY <2>3, <4>1 DEF Reports
        <5>. QED
          BY <3>1, <3>2, <4>1, <5>1
      <4>2. CASE queue # <<>> /\ Head(queue).type = "dropped"
        <5>1. Head(queue).value \notin driver.present /\ Head(queue).value # Self
          BY <2>3, <4>2 DEF Reports, Remote
        <5>. QED
          BY <3>1, <3>2, <4>2, <5>1
      <4>3. CASE queue = <<>> \/ Head(queue).type \notin {"joined", "dropped"}
        BY <3>1, <3>2, <4>3
      <4>. QED
        BY <4>1, <4>2, <4>3
    <3>. QED
      BY <3>1, <3>2, <3>3 DEF Known
  <2>4. Answers("remotes", "nc", a)
    BY <2>3 DEF Answers
  <2>. QED
    BY <2>1, <2>2, <2>4, QueryTrust DEF Querying
<1>5. CASE QueryNC
  <2>. DEFINE a == NCChanged(app, driver.nc)
  <2>1. /\ a \in Snapshot /\ a.linkStatus = app.linkStatus
        /\ a.linkStatusValid = app.linkStatusValid
        /\ a.selfNode = app.selfNode /\ a.joined = app.joined /\ a.version = app.version
        /\ driver.nc # NoValue => a.nc = driver.nc
    BY <1>1, <1>2, HandlerTypes DEF NCChanged, Snapshot
  <2>2. Query("nc", "version", a)
    BY <1>5 DEF QueryNC
  <2>. HIDE DEF a
  <2>3. ASSUME Known("nc", app, Pending(app, queue), driver),
               queue # <<>> => Reports(Head(queue), driver)
        PROVE  Known("version", a, Pending(a, queue), driver)
    <3>1. /\ Pending(app, queue).joined = driver.present \cup {Self}
          /\ Pending(app, queue).selfNode = Self
      BY <2>3 DEF Known
    <3>2. /\ Pending(a, queue).selfNode = Pending(app, queue).selfNode
          /\ Pending(a, queue).joined = Pending(app, queue).joined
      BY <1>1, <1>2, <2>1, SamePending
    <3>3. driver.nc # NoValue => Pending(a, queue).nc = driver.nc
      <4>1. Pending(a, queue).nc =
              IF (queue # <<>> /\ Head(queue).type = "nc") /\ Head(queue).value # NoValue
              THEN Head(queue).value ELSE a.nc
        BY <1>1, <1>2, <2>1, PendingFields
      <4>. QED
        BY <2>1, <2>3, <4>1 DEF Reports
    <3>. QED
      BY <3>1, <3>2, <3>3 DEF Known
  <2>4. Answers("nc", "version", a)
    BY <2>3 DEF Answers
  <2>. QED
    BY <2>1, <2>2, <2>4, QueryTrust DEF Querying
<1>6. CASE QueryVersion
  <2>. DEFINE a == VersionChanged(app, driver.version)
  <2>1. /\ a \in Snapshot /\ a.linkStatus = app.linkStatus
        /\ a.linkStatusValid = app.linkStatusValid
        /\ a.selfNode = app.selfNode /\ a.joined = app.joined /\ a.nc = app.nc
        /\ a.version = driver.version
    BY <1>1, <1>2, HandlerTypes DEF VersionChanged, Snapshot
  <2>2. Query("version", Return, a)
    BY <1>6 DEF QueryVersion
  <2>. HIDE DEF a
  <2>3. ASSUME Known("version", app, Pending(app, queue), driver),
               queue # <<>> => Reports(Head(queue), driver),
               Return = "dequeue" => Head(queue).type = "link"
        PROVE  Known(Return, a, IF Return = "dequeue" THEN a ELSE Pending(a, queue), driver)
    <3>. DEFINE b == IF Return = "dequeue" THEN a ELSE Pending(a, queue)
    <3>1. b = Pending(a, queue)
      BY <2>3 DEF Pending
    <3>2. /\ Pending(a, queue).selfNode = Pending(app, queue).selfNode
          /\ Pending(a, queue).joined = Pending(app, queue).joined
          /\ Pending(a, queue).nc = Pending(app, queue).nc
      BY <1>1, <1>2, <2>1, SamePending
    <3>3. Pending(a, queue).version = driver.version
      <4>1. Pending(a, queue).version =
              IF queue # <<>> /\ Head(queue).type = "version" THEN Head(queue).value ELSE a.version
        BY <1>1, <1>2, <2>1, PendingFields
      <4>. QED
        BY <2>1, <2>3, <4>1 DEF Reports
    <3>4. Return \in {"wait", "dequeue"}
      BY DEF Return
    <3>. HIDE DEF b
    <3>5. Known(Return, a, b, driver)
      BY <2>3, <3>1, <3>2, <3>3, <3>4 DEF Known
    <3>. QED
      BY <3>5 DEF b
  <2>4. Return # "self"
    BY DEF Return
  <2>5. Answers("version", Return, a)
    BY <2>3 DEF Answers
  <2>. QED
    BY <2>1, <2>2, <2>4, <2>5, QueryTrust DEF Querying
<1>. QED  BY <1>3, <1>4, <1>5, <1>6

\* The other steps of the event thread.
LEMMA ThreadNextTrust == Inv /\ TrustInv /\ ThreadNext => TrustInv'
<1>. SUFFICES ASSUME Inv, TrustInv, ThreadNext PROVE TrustInv'
  OBVIOUS
<1>0. /\ app \in Snapshot /\ queue \in Seq(Message) /\ driver.link \in LinkStatus
      /\ (queue # <<>> => Head(queue) \in Message)
  <2>1. queue \in Seq(Message)
    BY DEF Inv, TypeOK
  <2>. QED
    BY <2>1, PopMessage DEF Inv, TypeOK
<1>1. CASE SessionStart
  <2>1. app'.joined = {}
    BY <1>0, <1>1 DEF SessionStart, ClearNet, Snapshot
  <2>2. pc' = "init" /\ current' = None /\ queue' = queue /\ trust' = (queue = <<>>)
    BY <1>1 DEF SessionStart
  <2>. QED  BY <2>1, <2>2 DEF TrustInv, OneReport, Querying
<1>2. CASE SessionEnd
  BY <1>2 DEF SessionEnd, TrustInv, Querying
<1>3. CASE InitLink
  <2>1. /\ app' = SetLink(app, driver.link) /\ app.joined = {} /\ current = None
        /\ pc' = IF driver.link = "UP" THEN "self" ELSE "wait"
        /\ UNCHANGED <<driver, queue, current, trust>> /\ pc = "init"
    BY <1>3 DEF InitLink, TrustInv
  <2>2. app'.linkStatus = driver.link /\ app'.linkStatusValid /\ app'.joined = {}
    BY <1>0, <2>1 DEF SetLink, ClearNet, Snapshot
  <2>3. trust' => OneReport'
    BY <2>1 DEF TrustInv, OneReport
  <2>4. UpToDate'
    BY <2>1, <2>2 DEF UpToDate, Known
  <2>. QED  BY <2>1, <2>2, <2>3, <2>4 DEF TrustInv, Querying
<1>4. CASE InitLinkFails
  BY <1>4 DEF InitLinkFails, TrustInv, Querying
<1>5. CASE HandleLink
  <2>. DEFINE m == Head(queue)
  <2>1. /\ pc = "wait" /\ queue # <<>> /\ m.type = "link" /\ m \in Message /\ current' = m
        /\ UNCHANGED <<driver, queue>> /\ m.value \in LinkStatus
    BY <1>0, <1>5 DEF HandleLink, Message
  <2>2. CASE LinkUnchanged(app, m.value)
    <3>1. pc' = "dequeue" /\ UNCHANGED <<app, trust>>
      BY <1>5, <2>1, <2>2 DEF HandleLink
    <3>2. ASSUME trust
          PROVE  OneReport' /\ UpToDate'
      <4>1. OneReport /\ UpToDate
        BY <2>1, <3>2 DEF TrustInv
      <4>2. app.linkStatus = driver.link
        BY <2>1, <2>2, <4>1 DEF OneReport, Reports, LinkUnchanged
      <4>3. Pending(app, queue) = app
        BY <2>1 DEF Pending
      <4>4. \A a, b, d : Known("wait", a, b, d) => Known("dequeue", a, b, d)
        BY DEF Known
      <4>. QED
        BY <2>1, <3>1, <4>1, <4>2, <4>3, <4>4 DEF OneReport, UpToDate, Querying
    <3>. QED  BY <3>1, <3>2 DEF TrustInv, Querying
  <2>3. CASE ~LinkUnchanged(app, m.value)
    <3>1. /\ app' = SetLink(app, m.value)
          /\ pc' = IF m.value = "UP" THEN "self" ELSE "dequeue"
          /\ trust' = /\ Len(queue) = 1 /\ m.value = driver.link
                      /\ m.value = "UP" => app.linkStatus # "UP"
      BY <1>5, <2>1, <2>3 DEF HandleLink
    <3>2. app'.linkStatus = m.value /\ app'.linkStatusValid
          /\ (m.value = "UP" => app'.joined = app.joined)
      BY <1>0, <2>1, <3>1 DEF SetLink, ClearNet, Snapshot
    <3>3. ASSUME trust'
          PROVE  OneReport' /\ UpToDate'
      <4>1. Len(queue) = 1 /\ m.value = driver.link
        BY <3>1, <3>3
      <4>2. Reports(m, driver)
        BY <2>1, <4>1 DEF Reports
      <4>3. OneReport'
        BY <2>1, <3>1, <4>1, <4>2 DEF OneReport, Querying
      <4>4. m.value = "UP" => app'.joined = {}
        BY <3>1, <3>2, <3>3 DEF Inv, DownIsEmpty
      <4>5. UpToDate'
        BY <2>1, <3>1, <3>2, <4>1, <4>4 DEF UpToDate, Known
      <4>. QED  BY <4>3, <4>5
    <3>. QED  BY <2>1, <3>1, <3>2, <3>3 DEF TrustInv, Querying
  <2>. QED  BY <2>2, <2>3
<1>6. CASE HandleOther
  <2>. DEFINE m == Head(queue)
  <2>1. /\ pc = "wait" /\ queue # <<>> /\ m.type # "link" /\ m \in Message /\ current' = m
        /\ app' = HandleMessage(app, m) /\ pc' = "dequeue" /\ UNCHANGED <<driver, queue, trust>>
    BY <1>0, <1>6 DEF HandleOther
  <2>2. app'.linkStatus = app.linkStatus /\ app'.linkStatusValid = app.linkStatusValid
    BY <1>0, <2>1, MessageLink
  <2>3. ASSUME trust
        PROVE  OneReport' /\ UpToDate'
    <3>1. OneReport /\ UpToDate
      BY <2>1, <2>3 DEF TrustInv
    <3>2. Pending(app, queue) = app'
      BY <2>1 DEF Pending
    <3>3. \A a, b, c, d : Known("wait", a, b, d) => Known("dequeue", c, b, d)
      BY DEF Known
    <3>. QED  BY <2>1, <2>2, <3>1, <3>2, <3>3 DEF OneReport, UpToDate, Querying
  <2>. QED  BY <2>1, <2>3 DEF TrustInv, Querying
<1>7. CASE QuerySelf \/ QueryRemotes \/ QueryNC \/ QueryVersion
  BY <1>7, QueriesTrust
<1>8. CASE Dequeue
  <2>1. /\ pc = "dequeue" /\ queue' = Tail(queue) /\ pc' = "wait" /\ current' = None
        /\ UNCHANGED <<driver, app, trust>> /\ queue # <<>>
    BY <1>8 DEF Dequeue, Inv, SomethingQueued
  <2>2. ASSUME trust
        PROVE  OneReport' /\ UpToDate'
    <3>1. OneReport /\ UpToDate
      BY <2>1, <2>2 DEF TrustInv
    <3>2. queue' = <<>>
      <4>1. Len(queue) = 1
        BY <2>1, <3>1 DEF OneReport
      <4>. QED  BY <1>0, <2>1, <4>1
    <3>3. \A a, b, d : Known("dequeue", a, b, d) => Known("wait", a, b, d)
      BY DEF Known
    <3>. QED  BY <2>1, <3>1, <3>2, <3>3 DEF OneReport, UpToDate, Pending
  <2>. QED  BY <2>1, <2>2 DEF TrustInv, Querying
<1>. QED  BY <1>1, <1>2, <1>3, <1>4, <1>5, <1>6, <1>7, <1>8 DEF ThreadNext

\* What is known holds throughout.
LEMMA TrustHolds == Spec => []TrustInv
<1>1. Init => TrustInv
  BY DEF Init, TrustInv, Querying
<1>2. Inv /\ TrustInv /\ UNCHANGED vars => TrustInv'
  BY DEF TrustInv, OneReport, UpToDate, vars
<1>3. Inv /\ TrustInv /\ [Next]_vars => TrustInv'
  BY <1>2, DriverNextTrust, ThreadNextTrust DEF Next
<1>. QED  BY <1>1, <1>3, InvHolds, PTL DEF Spec

\* The snapshot is the network when no message waits, unless a query failed or
\* messages overtook each other since the link last changed: for any number of
\* nodes, versions, sessions and changes of the driver, whenever they happen.
THEOREM SnapshotAccurateHolds == Spec => []SnapshotAccurate
<1>1. TrustInv => SnapshotAccurate
  BY DEF TrustInv, UpToDate, Pending, Known, SnapshotAccurate
<1>. QED  BY <1>1, TrustHolds, PTL
=============================================================================
