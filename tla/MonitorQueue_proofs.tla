------------------------ MODULE MonitorQueue_proofs ------------------------
(***************************************************************************)
(* Proofs about MonitorQueue, for any sets of callback threads and events: *)
(* type correctness, that a wakeup is not missed, that the record being    *)
(* handled is not freed, that an event is lost only in the unlocked window *)
(* of the event thread and that each loss is matched by a repetition.      *)
(***************************************************************************)
EXTENDS MonitorQueue, SequenceTheorems, FiniteSetTheorems, TLAPS

\* The parts of the invariant below that speak of the queue.

\* A record is in the queue once, and a record that was freed is not in it.
RecordsDistinct ==
    /\ \A i, j \in 1..Len(queue) : queue[i] = queue[j] => i = j
    /\ \A i \in 1..Len(queue) : queue[i] \notin freed \cup refused

\* The event thread holds a record exactly while it handles and removes it,
\* and has passed it through the switch before it removes anything.
HoldsRecord ==
    /\ (tpc \in {"handle", "dequeue"}) <=> (current # NoEvent)
    /\ current # NoEvent => \E i \in 1..Len(queue) : queue[i] = current
    /\ tpc = "dequeue" => passes[current] > 0

\* Whatever lies before the record being handled came after the peek.
AheadIsRaced ==
    \A i, j \in 1..Len(queue) : i < j /\ queue[j] = current => queue[i] \in raced

Inv == /\ TypeOK
       /\ RecordsDistinct
       /\ HoldsRecord
       /\ AheadIsRaced
       /\ LossOnlyByRace

-----------------------------------------------------------------------------
(* Two facts about sequences: one element more, one less, at the front.    *)

\* What TAILQ_INSERT_HEAD does to the places of the records.
LEMMA PushFront ==
    ASSUME NEW S, NEW s \in Seq(S), NEW e \in S
    PROVE  LET t == <<e>> \o s
           IN  /\ t \in Seq(S)
               /\ Len(t) = Len(s) + 1
               /\ t[1] = e
               /\ \A i \in 1..Len(t) : i > 1 => i - 1 \in 1..Len(s) /\ t[i] = s[i - 1]
  OBVIOUS

\* What removing tqh_first does to the places of the records.
LEMMA PopFront ==
    ASSUME NEW S, NEW s \in Seq(S), s # <<>>
    PROVE  /\ Tail(s) \in Seq(S)
           /\ Len(s) \in Nat /\ Len(s) >= 1
           /\ Len(Tail(s)) = Len(s) - 1
           /\ Head(s) = s[1] /\ Head(s) \in S
           /\ \A i \in 1..Len(Tail(s)) : i + 1 \in 1..Len(s) /\ Tail(s)[i] = s[i + 1]
  OBVIOUS

-----------------------------------------------------------------------------
\* No wakeup is missed: the event thread falls asleep only with the signal
\* clear, and who sets the signal wakes it.
THEOREM NoMissedWakeupHolds == Spec => []NoMissedWakeup
<1>1. Init => NoMissedWakeup
  BY DEF Init, NoMissedWakeup
<1>2. NoMissedWakeup /\ [Next]_vars => NoMissedWakeup'
  BY DEF NoMissedWakeup, Next, vars, CallbackNext, Loop, Enqueue, EnqueueNoMemory,
         SemaphoreSignal, ThreadStart, ThreadReady, ThreadExit, WaitSignalled,
         WaitBlock, WaitReturns, WaitCheck, ThreadValidate, Peek, Handle, Dequeue,
         callbackVars, historyVars
<1>. QED  BY <1>1, <1>2, PTL DEF Spec

-----------------------------------------------------------------------------
\* The invariant holds at the start.
LEMMA InitInv == Init => Inv
<1>. SUFFICES ASSUME Init PROVE Inv
  OBVIOUS
<1>1. TypeOK
  BY EventAssumption, EmptySeq DEF Init, TypeOK, ThreadState, WakeReason
<1>2. 1..Len(queue) = {}
  BY DEF Init
<1>3. RecordsDistinct /\ HoldsRecord /\ AheadIsRaced /\ LossOnlyByRace
  BY <1>2 DEF Init, RecordsDistinct, HoldsRecord, AheadIsRaced, LossOnlyByRace, Handled
<1>. QED  BY <1>1, <1>3 DEF Inv

\* A step that leaves the records alone and neither begins nor ends the
\* handling of one keeps the invariant.
LEMMA SkipInv ==
    ASSUME Inv, TypeOK',
           UNCHANGED <<queue, current, freed, passes, raced>>,
           refused' = refused,
           tpc' = tpc \/ {tpc, tpc'} \cap {"handle", "dequeue"} = {}
    PROVE  Inv'
<1>1. RecordsDistinct' /\ AheadIsRaced' /\ LossOnlyByRace'
  BY DEF Inv, RecordsDistinct, AheadIsRaced, LossOnlyByRace, Handled
<1>2. HoldsRecord'
  BY DEF Inv, HoldsRecord
<1>. QED  BY <1>1, <1>2 DEF Inv

\* Queue_Enqueue puts the new record before all others.
LEMMA EnqueueInv ==
    ASSUME Inv, NEW c \in Callback, NEW e \in Event, Enqueue(c, e)
    PROVE  Inv'
<1>. USE DEF Inv
<1>1. TypeOK'
  BY PushFront DEF Enqueue, TypeOK
<1>2. /\ queue' \in Seq(Event)
      /\ Len(queue') = Len(queue) + 1 /\ Len(queue) \in Nat
      /\ queue'[1] = e
      /\ \A i \in 1..Len(queue') :
            i > 1 => i - 1 \in 1..Len(queue) /\ queue'[i] = queue[i - 1]
  BY PushFront DEF Enqueue, TypeOK
<1>3. \A i \in 1..Len(queue) : queue[i] # e /\ queue'[i + 1] = queue[i]
  BY <1>2 DEF Enqueue, Fresh, Pending, ToSet, TypeOK
<1>4. RecordsDistinct'
  <2>1. ASSUME NEW i \in 1..Len(queue'), NEW j \in 1..Len(queue'),
               queue'[i] = queue'[j]
        PROVE  i = j
    <3>1. CASE i = 1 /\ j = 1
      BY <3>1
    <3>2. CASE i > 1 /\ j > 1
      BY <1>2, <2>1, <3>2 DEF RecordsDistinct
    <3>3. CASE i = 1 /\ j > 1
      BY <1>2, <1>3, <2>1, <3>3
    <3>4. CASE i > 1 /\ j = 1
      BY <1>2, <1>3, <2>1, <3>4
    <3>. QED  BY <3>1, <3>2, <3>3, <3>4
  <2>2. e \notin freed \cup refused
    BY DEF Enqueue, Fresh
  <2>. QED  BY <1>2, <2>1, <2>2 DEF RecordsDistinct, Enqueue
<1>5. HoldsRecord'
  <2>1. ASSUME current' # NoEvent
        PROVE  \E i \in 1..Len(queue') : queue'[i] = current'
    <3>1. PICK i \in 1..Len(queue) : queue[i] = current
      BY <2>1 DEF HoldsRecord, Enqueue
    <3>2. i + 1 \in 1..Len(queue') /\ queue'[i + 1] = current'
      BY <1>2, <1>3, <3>1 DEF Enqueue
    <3>. QED  BY <3>2
  <2>. QED  BY <2>1 DEF HoldsRecord, Enqueue
<1>6. AheadIsRaced'
  <2>. SUFFICES ASSUME NEW i \in 1..Len(queue'), NEW j \in 1..Len(queue'),
                       i < j, queue'[j] = current'
                PROVE  queue'[i] \in raced'
    BY DEF AheadIsRaced
  <2>1. j - 1 \in 1..Len(queue) /\ queue[j - 1] = current
    BY <1>2 DEF Enqueue
  <2>2. current # NoEvent
    BY <2>1, ElementOfSeq, EventAssumption DEF TypeOK
  <2>3. CASE i = 1
    BY <1>2, <2>2, <2>3 DEF Enqueue
  <2>4. CASE i > 1
    BY <1>2, <2>1, <2>2, <2>4 DEF AheadIsRaced, Enqueue
  <2>. QED  BY <2>3, <2>4
<1>7. LossOnlyByRace'
  BY DEF LossOnlyByRace, Handled, Enqueue
<1>. QED  BY <1>1, <1>4, <1>5, <1>6, <1>7

\* malloc failed: the event was in no queue and never will be.
LEMMA EnqueueNoMemoryInv ==
    ASSUME Inv, NEW c \in Callback, NEW e \in Event, EnqueueNoMemory(c, e)
    PROVE  Inv'
<1>. USE DEF Inv, EnqueueNoMemory, historyVars
<1>1. TypeOK' /\ HoldsRecord' /\ AheadIsRaced' /\ LossOnlyByRace'
  BY DEF TypeOK, HoldsRecord, AheadIsRaced, LossOnlyByRace, Handled
<1>2. RecordsDistinct'
  BY DEF RecordsDistinct, Fresh, Pending, ToSet, TypeOK
<1>. QED  BY <1>1, <1>2

\* The peek takes the head, so nothing lies before it yet.
LEMMA PeekInv == Inv /\ Peek => Inv'
<1>. SUFFICES ASSUME Inv, Peek PROVE Inv'
  OBVIOUS
<1>. USE DEF Inv, Peek, callbackVars, historyVars
<1>1. TypeOK'
  BY PopFront DEF TypeOK, ThreadState
<1>2. RecordsDistinct' /\ LossOnlyByRace'
  BY DEF RecordsDistinct, LossOnlyByRace, Handled
<1>3. CASE queue = <<>>
  BY <1>1, <1>2, <1>3 DEF HoldsRecord, AheadIsRaced, TypeOK
<1>4. CASE queue # <<>>
  <2>1. /\ current' = queue[1] /\ 1 \in 1..Len(queue) /\ tpc' = "handle"
        /\ current' # NoEvent
    BY <1>4, PopFront, EventAssumption DEF TypeOK
  <2>2. HoldsRecord'
    BY <2>1 DEF HoldsRecord
  <2>3. AheadIsRaced'
    BY <2>1 DEF AheadIsRaced, RecordsDistinct
  <2>. QED  BY <1>1, <1>2, <2>2, <2>3
<1>. QED  BY <1>3, <1>4

\* The handled record counts as handled before anything is removed.
LEMMA HandleInv == Inv /\ Handle => Inv'
<1>. SUFFICES ASSUME Inv, Handle PROVE Inv'
  OBVIOUS
<1>. USE DEF Inv, Handle, callbackVars
<1>1. current \in Event
  BY EventAssumption DEF HoldsRecord, TypeOK
<1>2. TypeOK'
  BY <1>1 DEF TypeOK, ThreadState
<1>3. \A e \in Event : passes'[e] >= passes[e] /\ passes'[current] > 0
  BY <1>1 DEF TypeOK
<1>4. RecordsDistinct' /\ AheadIsRaced' /\ HoldsRecord'
  BY <1>1, <1>3 DEF RecordsDistinct, AheadIsRaced, HoldsRecord
<1>5. Handled \subseteq Handled'
  BY <1>2, <1>3 DEF Handled, TypeOK
<1>6. LossOnlyByRace'
  BY <1>5 DEF LossOnlyByRace
<1>. QED  BY <1>2, <1>4, <1>6

\* The removed head is the handled record, or lies before it and so came
\* in the unlocked window.
LEMMA DequeueInv == Inv /\ Dequeue => Inv'
<1>. SUFFICES ASSUME Inv, Dequeue PROVE Inv'
  OBVIOUS
<1>. USE DEF Inv, Dequeue, callbackVars
<1>1. PICK k \in 1..Len(queue) : queue[k] = current /\ current # NoEvent
  BY DEF HoldsRecord
<1>2. queue # <<>>
  BY <1>1 DEF TypeOK
<1>3. /\ queue' \in Seq(Event) /\ Len(queue) \in Nat /\ Len(queue) >= 1
      /\ Len(queue') = Len(queue) - 1
      /\ Head(queue) = queue[1] /\ Head(queue) \in Event
      /\ \A i \in 1..Len(queue') : i + 1 \in 1..Len(queue) /\ queue'[i] = queue[i + 1]
  BY <1>2, PopFront DEF TypeOK
<1>4. TypeOK'
  BY <1>3 DEF TypeOK, ThreadState
<1>5. RecordsDistinct'
  BY <1>3 DEF RecordsDistinct
<1>6. HoldsRecord'
  BY DEF HoldsRecord
<1>7. AheadIsRaced'
  <2>1. \A i \in 1..Len(queue') : queue'[i] # current'
    BY <1>3, ElementOfSeq, EventAssumption
  <2>. QED  BY <2>1 DEF AheadIsRaced
<1>8. LossOnlyByRace'
  <2>1. CASE k = 1
    BY <1>1, <1>3, <2>1 DEF LossOnlyByRace, Handled, HoldsRecord
  <2>2. CASE k # 1
    BY <1>1, <1>3, <2>2 DEF LossOnlyByRace, Handled, AheadIsRaced
  <2>. QED  BY <2>1, <2>2
<1>. QED  BY <1>4, <1>5, <1>6, <1>7, <1>8

\* Every step keeps the invariant.
LEMMA NextInv == Inv /\ [Next]_vars => Inv'
<1>. SUFFICES ASSUME Inv, [Next]_vars PROVE Inv'
  OBVIOUS
<1>1. CASE UNCHANGED vars
  <2>1. TypeOK'
    BY <1>1 DEF vars, Inv, TypeOK
  <2>. QED  BY <1>1, <2>1, SkipInv DEF vars
<1>2. ASSUME NEW c \in Callback, NEW e \in Event, Enqueue(c, e)
      PROVE  Inv'
  BY <1>2, EnqueueInv
<1>3. ASSUME NEW c \in Callback, NEW e \in Event, EnqueueNoMemory(c, e)
      PROVE  Inv'
  BY <1>3, EnqueueNoMemoryInv
<1>4. ASSUME NEW c \in Callback, SemaphoreSignal(c)
      PROVE  Inv'
  <2>1. TypeOK'
    BY <1>4 DEF SemaphoreSignal, historyVars, Inv, TypeOK, ThreadState, WakeReason
  <2>. QED  BY <1>4, <2>1, SkipInv DEF SemaphoreSignal, historyVars
<1>5. CASE ThreadStart \/ ThreadReady \/ ThreadExit \/ ThreadValidate
  <2>. USE DEF ThreadStart, ThreadReady, ThreadExit, ThreadValidate, callbackVars, historyVars
  <2>1. TypeOK'
    BY <1>5 DEF Inv, TypeOK, ThreadState
  <2>. QED  BY <1>5, <2>1, SkipInv
<1>6. CASE WaitSignalled \/ WaitBlock \/ WaitCheck
  <2>. USE DEF WaitSignalled, WaitBlock, WaitCheck, callbackVars, historyVars
  <2>1. TypeOK'
    BY <1>6 DEF Inv, TypeOK, ThreadState
  <2>. QED  BY <1>6, <2>1, SkipInv
<1>7. ASSUME NEW r \in WakeReason, WaitReturns(r)
      PROVE  Inv'
  <2>. USE DEF WaitReturns, callbackVars, historyVars
  <2>1. TypeOK'
    BY <1>7 DEF Inv, TypeOK, ThreadState
  <2>. QED  BY <1>7, <2>1, SkipInv
<1>8. CASE Peek \/ Handle \/ Dequeue
  BY <1>8, PeekInv, HandleInv, DequeueInv
<1>. QED  BY <1>1, <1>2, <1>3, <1>4, <1>5, <1>6, <1>7, <1>8 DEF Next, CallbackNext, Loop

\* The invariant holds throughout.
THEOREM InvHolds == Spec => []Inv
  BY InitInv, NextInv, PTL DEF Spec

\* Every variable of the queue keeps its type.
THEOREM TypeCorrect == Spec => []TypeOK
  BY InvHolds, PTL DEF Inv

\* The record the event thread reads without the lock is still queued.
THEOREM RecordLiveHolds == Spec => []RecordLive
<1>1. Inv => RecordLive
  BY DEF Inv, TypeOK, HoldsRecord, RecordLive, Pending, ToSet
<1>. QED  BY <1>1, InvHolds, PTL

\* Only the unlocked window loses events.
THEOREM LossOnlyByRaceHolds == Spec => []LossOnlyByRace
  BY InvHolds, PTL DEF Inv

-----------------------------------------------------------------------------
(* Passes and removals.                                                    *)

\* What has been counted so far is finite, and the counts agree.
CountInv == /\ IsFiniteSet(Passes)
            /\ IsFiniteSet(freed)
            /\ LossMatchedByRepeat

\* A step that begins and ends no pass and removes nothing.
LEMMA SkipCount ==
    ASSUME CountInv, UNCHANGED <<passes, freed>>, tpc' = "dequeue" <=> tpc = "dequeue"
    PROVE  CountInv'
<1>1. Passes' = Passes
  BY DEF Passes
<1>. QED  BY <1>1 DEF CountInv, LossMatchedByRepeat

\* The switch adds one pass, that of the record being handled.
LEMMA HandleCount == Inv /\ CountInv /\ Handle => CountInv'
<1>. SUFFICES ASSUME Inv, CountInv, Handle PROVE CountInv'
  OBVIOUS
<1>. DEFINE pass == <<current, passes[current] + 1>>
<1>1. /\ current \in Event /\ passes \in [Event -> Nat]
      /\ tpc = "handle" /\ tpc' = "dequeue" /\ freed' = freed
      /\ passes' = [passes EXCEPT ![current] = @ + 1]
  BY EventAssumption DEF Inv, TypeOK, HoldsRecord, Handle
<1>2. pass \notin Passes
  BY <1>1 DEF Passes
<1>3. Passes' = Passes \cup {pass}
  <2>1. \A e \in Event : 1 .. passes'[e] =
            (1 .. passes[e]) \cup (IF e = current THEN {passes[e] + 1} ELSE {})
    BY <1>1
  <2>. QED  BY <1>1, <2>1 DEF Passes
<1>4. IsFiniteSet(Passes') /\ Cardinality(Passes') = Cardinality(Passes) + 1
  <2>. HIDE DEF pass
  <2>. QED  BY <1>2, <1>3, FS_AddElement DEF CountInv
<1>5. Cardinality(freed) \in Nat
  BY FS_CardinalityType DEF CountInv
<1>. QED  BY <1>1, <1>4, <1>5 DEF CountInv, LossMatchedByRepeat

\* The removal frees one record more, since none is freed twice.
LEMMA DequeueCount == Inv /\ CountInv /\ Dequeue => CountInv'
<1>. SUFFICES ASSUME Inv, CountInv, Dequeue PROVE CountInv'
  OBVIOUS
<1>1. /\ tpc = "dequeue" /\ tpc' = "wait" /\ Passes' = Passes
      /\ freed' = freed \cup {Head(queue)}
  BY DEF Dequeue, Passes
<1>2. Head(queue) \notin freed
  <2>1. queue # <<>>
    BY <1>1 DEF Inv, TypeOK, HoldsRecord
  <2>2. Head(queue) = queue[1] /\ 1 \in 1..Len(queue)
    BY <2>1, PopFront DEF Inv, TypeOK
  <2>. QED  BY <2>2 DEF Inv, RecordsDistinct
<1>3. IsFiniteSet(freed') /\ Cardinality(freed') = Cardinality(freed) + 1
  BY <1>1, <1>2, FS_AddElement DEF CountInv
<1>4. Cardinality(freed) \in Nat
  BY FS_CardinalityType DEF CountInv
<1>. QED  BY <1>1, <1>3, <1>4 DEF CountInv, LossMatchedByRepeat

\* Every other step leaves both counts alone.
LEMMA NextCount == Inv /\ CountInv /\ [Next]_vars => CountInv'
<1>. SUFFICES ASSUME Inv, CountInv, [Next]_vars PROVE CountInv'
  OBVIOUS
<1>1. CASE UNCHANGED vars
  BY <1>1, SkipCount DEF vars
<1>2. CASE CallbackNext
  <2>1. UNCHANGED <<passes, freed>> /\ (tpc' = tpc \/ (tpc = "asleep" /\ tpc' = "woken"))
    BY <1>2 DEF CallbackNext, Enqueue, EnqueueNoMemory, SemaphoreSignal, historyVars
  <2>. QED  BY <2>1, SkipCount
<1>3. CASE \/ ThreadStart \/ ThreadReady \/ ThreadExit \/ WaitSignalled \/ WaitBlock
           \/ WaitCheck \/ ThreadValidate \/ Peek
           \/ \E r \in WakeReason \ {"signalled"} : WaitReturns(r)
  <2>1. UNCHANGED <<passes, freed>> /\ tpc # "dequeue" /\ tpc' # "dequeue"
    BY <1>3 DEF ThreadStart, ThreadReady, ThreadExit, WaitSignalled, WaitBlock, WaitCheck,
                ThreadValidate, Peek, WaitReturns, historyVars
  <2>. QED  BY <2>1, SkipCount
<1>4. CASE Handle
  BY <1>4, HandleCount
<1>5. CASE Dequeue
  BY <1>5, DequeueCount
<1>. QED  BY <1>1, <1>2, <1>3, <1>4, <1>5 DEF Next, Loop

\* Every pass through the switch is paid for by one removal: whatever the
\* window loses is matched by an event that is handled once more.
THEOREM LossMatchedByRepeatHolds == Spec => []LossMatchedByRepeat
<1>1. Init => CountInv
  <2>. SUFFICES ASSUME Init PROVE CountInv
    OBVIOUS
  <2>1. Passes = {} /\ freed = {} /\ tpc = "exited"
    BY DEF Init, Passes
  <2>. QED  BY <2>1, FS_EmptySet DEF CountInv, LossMatchedByRepeat
<1>2. CountInv => LossMatchedByRepeat
  BY DEF CountInv
<1>. QED  BY <1>1, <1>2, NextCount, InvHolds, PTL DEF Spec

-----------------------------------------------------------------------------
(* MonitorQueue implements EventBuffer.                                    *)

\* A queued record is a reported event.
LEMMA EnqueueReports ==
    ASSUME Inv, Inv', NEW c \in Callback, NEW e \in Event, Enqueue(c, e)
    PROVE  Buffer!Report(e)
<1>. USE DEF Inv
<1>1. /\ Len(queue') = Len(queue) + 1 /\ Len(queue) \in Nat
      /\ DOMAIN queue = 1..Len(queue) /\ DOMAIN queue' = 1..Len(queue')
      /\ queue'[1] = e
      /\ \A i \in 1..Len(queue') :
            i > 1 => i - 1 \in 1..Len(queue) /\ queue'[i] = queue[i - 1]
  BY PushFront DEF Enqueue, TypeOK
<1>2. \A i \in 1..Len(queue) : i + 1 \in 1..Len(queue') /\ queue'[i + 1] = queue[i]
  BY <1>1
<1>3. Pending' = Pending \cup {e}
  <2>1. Pending' \subseteq Pending \cup {e}
    BY <1>1 DEF Pending, ToSet
  <2>2. Pending \subseteq Pending'
    BY <1>1, <1>2 DEF Pending, ToSet
  <2>3. e \in Pending'
    BY <1>1 DEF Pending, ToSet
  <2>. QED  BY <2>1, <2>2, <2>3
<1>4. Ahead' = IF current = NoEvent THEN {} ELSE Ahead \cup {e}
  <2>1. CASE current = NoEvent
    BY <2>1, ElementOfSeq, EventAssumption DEF Enqueue, Ahead, TypeOK
  <2>2. CASE current # NoEvent
    <3>1. PICK k \in 1..Len(queue) : queue[k] = current
      BY <2>2 DEF HoldsRecord
    <3>2. /\ 1 \in DOMAIN queue' /\ k + 1 \in DOMAIN queue' /\ 1 < k + 1
          /\ queue'[1] = e /\ queue'[k + 1] = current'
      BY <1>1, <1>2, <3>1 DEF Enqueue
    <3>5. e \in Ahead'
      BY <1>3, <3>2 DEF Ahead
    <3>3. Ahead \subseteq Ahead'
      <4>. SUFFICES ASSUME NEW x \in Ahead PROVE x \in Ahead'
        OBVIOUS
      <4>1. PICK i \in 1..Len(queue), j \in 1..Len(queue) :
                i < j /\ queue[i] = x /\ queue[j] = current
        BY <1>1 DEF Ahead
      <4>2. /\ i + 1 \in DOMAIN queue' /\ j + 1 \in DOMAIN queue' /\ i + 1 < j + 1
            /\ queue'[i + 1] = x /\ queue'[j + 1] = current'
        BY <1>1, <1>2, <4>1 DEF Enqueue
      <4>. QED  BY <1>3, <4>2 DEF Ahead
    <3>4. Ahead' \subseteq Ahead \cup {e}
      <4>. SUFFICES ASSUME NEW x \in Ahead', x # e PROVE x \in Ahead
        OBVIOUS
      <4>1. PICK i \in 1..Len(queue'), j \in 1..Len(queue') :
                i < j /\ queue'[i] = x /\ queue'[j] = current
        BY <1>1 DEF Ahead, Enqueue
      <4>2. /\ i - 1 \in DOMAIN queue /\ j - 1 \in DOMAIN queue /\ i - 1 < j - 1
            /\ queue[i - 1] = x /\ queue[j - 1] = current
        BY <1>1, <4>1
      <4>3. x \in Pending
        BY <4>2 DEF Pending, ToSet
      <4>. QED  BY <4>2, <4>3 DEF Ahead
    <3>. QED  BY <2>2, <3>3, <3>4, <3>5
  <2>. QED  BY <2>1, <2>2
<1>5. UNCHANGED <<current, freed, refused, passes>> /\ Handled' = Handled
  BY DEF Enqueue, Handled
<1>6. e \notin Pending \cup (freed \cup refused)
  BY DEF Enqueue, Fresh
<1>. QED  BY <1>3, <1>4, <1>5, <1>6 DEF Buffer!Report, Buffer!New

\* Reading the head takes up a pending event, with nothing before it.
LEMMA PeekTakesUp ==
    ASSUME Inv, Inv', Peek, queue # <<>>
    PROVE  \E e \in Event : Buffer!TakeUp(e)
<1>. USE DEF Inv, Peek, callbackVars, historyVars
<1>1. /\ current' = queue[1] /\ 1 \in DOMAIN queue /\ queue[1] \in Event
      /\ DOMAIN queue = 1..Len(queue) /\ Len(queue) \in Nat
  BY PopFront DEF TypeOK
<1>2. current = NoEvent
  BY DEF HoldsRecord
<1>3. Ahead' = {}
  BY <1>1 DEF Ahead, RecordsDistinct
<1>4. queue[1] \in Pending
  BY <1>1 DEF Pending, ToSet
<1>5. Pending' = Pending /\ Handled' = Handled /\ UNCHANGED <<freed, refused>>
  BY DEF Pending, Handled
<1>. QED  BY <1>1, <1>2, <1>3, <1>4, <1>5 DEF Buffer!TakeUp

\* The switch sees the event taken up.
LEMMA HandleSees ==
    ASSUME Inv, Inv', Handle
    PROVE  Buffer!See
<1>. USE DEF Inv, Handle, callbackVars
<1>1. current \in Event /\ current # NoEvent
  BY EventAssumption DEF HoldsRecord, TypeOK
<1>2. Handled' = Handled \cup {current}
  BY <1>1 DEF Handled, TypeOK
<1>3. UNCHANGED <<Pending, current, Ahead, freed \cup refused>>
  BY DEF Pending, Ahead
<1>. QED  BY <1>1, <1>2, <1>3 DEF Buffer!See

\* What is removed is the event taken up, or came since.
LEMMA DequeueDrops ==
    ASSUME Inv, Inv', Dequeue
    PROVE  \E e \in Event : Buffer!Drop(e)
<1>. USE DEF Inv, Dequeue, callbackVars
<1>1. PICK k \in 1..Len(queue) : queue[k] = current /\ current # NoEvent
  BY DEF HoldsRecord
<1>2. queue # <<>>
  BY <1>1 DEF TypeOK
<1>3. /\ Len(queue) \in Nat /\ Len(queue) >= 1 /\ Len(queue') = Len(queue) - 1
      /\ DOMAIN queue = 1..Len(queue) /\ DOMAIN queue' = 1..Len(queue')
      /\ Head(queue) = queue[1] /\ queue[1] \in Event
      /\ \A i \in 1..Len(queue') : i + 1 \in 1..Len(queue) /\ queue'[i] = queue[i + 1]
  BY <1>2, PopFront DEF TypeOK
<1>4. \A i \in 2..Len(queue) : i - 1 \in 1..Len(queue') /\ queue'[i - 1] = queue[i]
  BY <1>3
<1>5. Pending' = Pending \ {queue[1]}
  <2>1. Pending' \subseteq Pending \ {queue[1]}
    BY <1>3 DEF Pending, ToSet, RecordsDistinct
  <2>2. ASSUME NEW x \in Pending, x # queue[1]
        PROVE  x \in Pending'
    <3>1. PICK i \in 1..Len(queue) : queue[i] = x
      BY <1>3 DEF Pending, ToSet
    <3>2. i - 1 \in DOMAIN queue' /\ queue'[i - 1] = x
      BY <1>3, <1>4, <2>2, <3>1
    <3>. QED  BY <3>2 DEF Pending, ToSet
  <2>. QED  BY <2>1, <2>2
<1>6. queue[1] \in Ahead \cup {current}
  BY <1>1, <1>3 DEF Ahead, Pending, ToSet
<1>7. current \in Handled
  BY <1>1 DEF HoldsRecord, Handled, TypeOK
<1>8. Ahead' = {}
  BY <1>3, ElementOfSeq, EventAssumption DEF Ahead, TypeOK
<1>9. current' = NoEvent /\ Handled' = Handled
      /\ (freed \cup refused)' = (freed \cup refused) \cup {queue[1]}
  BY <1>3 DEF Handled
<1>. QED  BY <1>3, <1>5, <1>6, <1>7, <1>8, <1>9 DEF Buffer!Drop

\* The queue, whatever its order and its races, is an event buffer.
THEOREM QueueImplementsBuffer == Spec => ImplementsBuffer
<1>1. Init => Buffer!Init
  BY EventAssumption, EmptySeq DEF Init, Buffer!Init, Pending, ToSet, Ahead, Handled
<1>2. Inv /\ Inv' /\ [Next]_vars => [Buffer!Next]_(Buffer!vars)
  <2>. SUFFICES ASSUME Inv, Inv', [Next]_vars
                PROVE  [Buffer!Next]_(Buffer!vars)
    OBVIOUS
  <2>1. ASSUME UNCHANGED <<queue, current, freed, refused, passes>>
        PROVE  UNCHANGED Buffer!vars
    BY <2>1 DEF Buffer!vars, Pending, Ahead, Handled
  <2>2. ASSUME NEW c \in Callback, NEW e \in Event, Enqueue(c, e)
        PROVE  Buffer!Next
    BY <2>2, EnqueueReports DEF Buffer!Next
  <2>3. ASSUME NEW c \in Callback, NEW e \in Event, EnqueueNoMemory(c, e)
        PROVE  Buffer!Next
    <3>1. Buffer!Refuse(e)
      BY <2>3 DEF EnqueueNoMemory, historyVars, Buffer!Refuse, Buffer!New, Fresh,
                  Pending, Ahead, Handled
    <3>. QED  BY <3>1 DEF Buffer!Next
  <2>4. CASE Peek
    <3>1. CASE queue = <<>>
      <4>1. UNCHANGED <<queue, current, freed, refused, passes>>
        BY <2>4, <3>1 DEF Peek, callbackVars, historyVars, Inv, HoldsRecord
      <4>. QED  BY <2>1, <4>1
    <3>2. CASE queue # <<>>
      BY <2>4, <3>2, PeekTakesUp DEF Buffer!Next
    <3>. QED  BY <3>1, <3>2
  <2>5. CASE Handle
    BY <2>5, HandleSees DEF Buffer!Next
  <2>6. CASE Dequeue
    BY <2>6, DequeueDrops DEF Buffer!Next
  <2>7. ASSUME NEW c \in Callback, SemaphoreSignal(c)
        PROVE  UNCHANGED Buffer!vars
    BY <2>1, <2>7 DEF SemaphoreSignal, historyVars
  <2>8. CASE \/ ThreadStart \/ ThreadReady \/ ThreadExit \/ ThreadValidate
             \/ WaitSignalled \/ WaitBlock \/ WaitCheck
    BY <2>1, <2>8 DEF ThreadStart, ThreadReady, ThreadExit, ThreadValidate, WaitSignalled,
                      WaitBlock, WaitCheck, callbackVars, historyVars
  <2>9. ASSUME NEW r \in WakeReason, WaitReturns(r)
        PROVE  UNCHANGED Buffer!vars
    BY <2>1, <2>9 DEF WaitReturns, callbackVars, historyVars
  <2>10. CASE UNCHANGED vars
    BY <2>1, <2>10 DEF vars
  <2>. QED
    BY <2>2, <2>3, <2>4, <2>5, <2>6, <2>7, <2>8, <2>9, <2>10 DEF Next, CallbackNext, Loop
<1>. QED  BY <1>1, <1>2, InvHolds, PTL DEF Spec, ImplementsBuffer, Buffer!Spec

-----------------------------------------------------------------------------
\* What a dequeue removes is the record that was handled exactly when no
\* callback has inserted another since the peek (rmh_monitor_events.c:491 says
\* it always is).
HandledUnlessRaced == [][Dequeue => (freed' = freed \cup {current} <=> Ahead = {})]_vars

\* It is so: what is ahead of the record being handled is all that stands
\* between it and the head.
THEOREM HandledUnlessRacedHolds == Spec => HandledUnlessRaced
<1>1. Inv /\ [Next]_vars => [Dequeue => (freed' = freed \cup {current} <=> Ahead = {})]_vars
  <2>. SUFFICES ASSUME Inv, Dequeue
                PROVE  freed' = freed \cup {current} <=> Ahead = {}
    OBVIOUS
  <2>. USE DEF Inv
  <2>1. PICK k \in 1..Len(queue) : queue[k] = current /\ current # NoEvent
    BY DEF Dequeue, HoldsRecord
  <2>2. queue # <<>>
    BY <2>1 DEF TypeOK
  <2>3. /\ Len(queue) \in Nat /\ Len(queue) >= 1 /\ DOMAIN queue = 1..Len(queue)
        /\ Head(queue) = queue[1] /\ 1 \in 1..Len(queue)
    BY <2>2, PopFront DEF TypeOK
  <2>4. freed' = freed \cup {queue[1]}
    BY <2>3 DEF Dequeue
  <2>5. queue[1] \notin freed /\ current \notin freed
    BY <2>1, <2>3 DEF RecordsDistinct
  <2>6. freed' = freed \cup {current} <=> queue[1] = current
    BY <2>4, <2>5
  <2>7. ASSUME queue[1] = current
        PROVE  Ahead = {}
    <3>1. \A j \in 1..Len(queue) : queue[j] = current => j = 1
      BY <2>3, <2>7 DEF RecordsDistinct
    <3>. QED  BY <2>3, <3>1 DEF Ahead
  <2>8. ASSUME queue[1] # current
        PROVE  queue[1] \in Ahead
    <3>1. 1 < k
      BY <2>1, <2>3, <2>8
    <3>. QED  BY <2>1, <2>3, <3>1 DEF Ahead, Pending, ToSet
  <2>. QED  BY <2>6, <2>7, <2>8
<1>. QED  BY <1>1, InvHolds, PTL DEF Spec, HandledUnlessRaced
=============================================================================
