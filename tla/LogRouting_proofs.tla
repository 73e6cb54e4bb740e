-------------------------- MODULE LogRouting_proofs --------------------------
(***************************************************************************)
(* Proofs about LogRouting, for any file names and bounds: type            *)
(* correctness; no stream is lost but by the two early returns; a report   *)
(* lands in its own file, a success ends a redirection, and debug lines    *)
(* are only turned on for a file of their own.                             *)
(***************************************************************************)
EXTENDS LogRouting, StackLemmas

Restore == "RestoreRDKDefaultSettings"
Creates == "CreateDriverFile"

\* The places of each API.
PlacesOf(api) ==
    CASE api \in Report -> {"open", "ask", "body", "close"}
      [] api = "PrintModulation" -> {"ask"}
      [] api = Creates -> {"name", "made"}
      [] OTHER -> {"enabled", "defaults", "level", "create", "created", "filename", "debug", "settings"}

\* One call.  Only RestoreRDKDefaultSettings looks for the debug files, and
\* debugging is on at its end at the earliest.
FrameOK(f) ==
    /\ f.pc \in PlacesOf(f.api)
    /\ f.api # Restore => f.flag = "none" /\ ~f.debug
    /\ f.debug => f.pc = "settings"
    /\ f.api = Creates /\ f.pc = "made" => f.made # None

\* f has called g.
Nested(f, g) ==
    \/ f.api = Creates /\ f.pc = "made" /\ g.api = "PrintStatus" /\ g.made # None
    \/ f.api = Restore /\ f.pc = "created" /\ g.api = Creates

StackInv == /\ \A i \in 1 .. Len(stack) : FrameOK(stack[i])
            /\ \A i \in 1 .. Len(stack) - 1 : Nested(stack[i], stack[i + 1])

\* The innermost call is a report that has opened a file of its own.
OwnReport(f) == f.api \in Report /\ f.arg # None /\ f.pc # "open"

\* No failure of this call has left a stream open yet.
Unfailed(f) == f.api \in Report \/ f.pc \in {"name", "enabled", "defaults", "level", "create"}

\* A report works on the file it was given; what is open was counted when it
\* was opened, and stays open only by a failure.
StreamInv ==
    /\ localLogToFile # None => streams >= 1
    /\ stack = <<>> => streams <= failed
    /\ stack # <<>> =>
          /\ failed <= MaxFailed
          /\ Unfailed(Top) => failed < MaxFailed
          /\ OwnReport(Top) => localLogToFile = Top.arg
          /\ streams <= failed + (IF OwnReport(Top) THEN 1 ELSE 0)

\* The debug log: the file that was made is the driver's before its level is
\* raised.
DebugInv ==
    /\ stack # <<>> => returned = NoReturn
    /\ stack # <<>> /\ Top.api = Restore =>
          /\ Top.pc = "created" /\ Top.ret = "SUCCESS" => Top.made # None
          /\ Top.pc = "filename" => Top.made # None
          /\ Top.flag = "forever" /\ (Top.pc = "debug" \/ Top.debug) =>
                driver.file = Top.made /\ Top.made # None

Inv == TypeOK /\ StackInv /\ StreamInv /\ DebugInv
         /\ OwnFile /\ HealedBySuccess /\ DebugInOwnFile

-----------------------------------------------------------------------------
(* What the three kinds of step do to the stack.                           *)

\* The place below the top.
LEMMA CallerPlace ==
    \A n \in Nat \ {0} : n # 1 =>
        n - 1 \in 1 .. n - 1 /\ n - 1 \in 1 .. n /\ (n - 1) + 1 = n /\ n - 1 \in Nat \ {0}
  OBVIOUS

\* The innermost call is one that is possible.
LEMMA TopFacts ==
    ASSUME TypeOK, StackInv, stack # <<>>
    PROVE  /\ Top \in FrameType /\ FrameOK(Top) /\ Top = stack[Len(stack)]
           /\ Len(stack) \in Nat \ {0}
           /\ Len(stack) # 1 => Nested(stack[Len(stack) - 1], Top)
<1>1. /\ Top \in FrameType /\ Top = stack[Len(stack)] /\ Len(stack) \in Nat \ {0}
  BY TopElement DEF TypeOK, Top
<1>2. FrameOK(Top)
  BY <1>1 DEF StackInv
<1>3. ASSUME Len(stack) # 1
      PROVE  Nested(stack[Len(stack) - 1], Top)
  <2>1. Len(stack) - 1 \in 1 .. Len(stack) - 1 /\ (Len(stack) - 1) + 1 = Len(stack)
    BY <1>1, <1>3, CallerPlace, Zenon
  <2>2. Nested(stack[Len(stack) - 1], stack[(Len(stack) - 1) + 1])
    BY <2>1 DEF StackInv
  <2>. QED
    BY <1>1, <2>1, <2>2
<1>. QED
  BY <1>1, <1>2, <1>3

\* It goes on to f.
LEMMA GoesOn ==
    ASSUME TypeOK, StackInv, stack # <<>>, NEW f \in FrameType, FrameOK(f), Becomes(f),
           f.api = Top.api, f.api = "PrintStatus" => f.made = Top.made
    PROVE  /\ stack' \in Seq(FrameType) /\ StackInv' /\ stack' # <<>> /\ Top' = f
           /\ returned' = returned
<1>1. /\ stack' \in Seq(FrameType) /\ stack' # <<>> /\ Len(stack') = Len(stack)
      /\ Last(stack') = f /\ stack'[Len(stack)] = f
      /\ \A i \in 1 .. Len(stack) - 1 : stack'[i] = stack[i]
  BY ReplaceTop DEF TypeOK, Becomes
<1>2. /\ Top = stack[Len(stack)] /\ Len(stack) \in Nat \ {0}
      /\ Len(stack) # 1 => Nested(stack[Len(stack) - 1], Top)
  BY TopFacts
<1>3. \A i \in 1 .. Len(stack) : FrameOK(stack'[i])
  BY <1>1, <1>2 DEF StackInv
<1>4. ASSUME NEW i \in 1 .. Len(stack) - 1
      PROVE  Nested(stack'[i], stack'[i + 1])
  <2>1. CASE i = Len(stack) - 1
    <3>1. Nested(stack[i], Top) /\ stack'[i] = stack[i] /\ stack'[i + 1] = f
      BY <1>1, <1>2, <2>1
    <3>. QED
      BY <3>1 DEF Nested
  <2>2. CASE i # Len(stack) - 1
    <3>1. i \in 1 .. Len(stack) - 1 /\ i + 1 \in 1 .. Len(stack) - 1
      BY <1>2, <2>2
    <3>. QED
      BY <1>1, <3>1 DEF StackInv
  <2>. QED
    BY <2>1, <2>2
<1>5. StackInv'
  BY <1>1, <1>3, <1>4 DEF StackInv
<1>. QED
  BY <1>1, <1>5 DEF Becomes, Top

\* It makes the call g.
LEMMA Calling ==
    ASSUME TypeOK, StackInv, stack # <<>>, NEW f \in FrameType, NEW g \in FrameType,
           FrameOK(f), FrameOK(g), f.api = Top.api, Nested(f, g),
           stack' = Append(Front(stack), f) \o <<g>>
    PROVE  stack' \in Seq(FrameType) /\ StackInv' /\ stack' # <<>> /\ Top' = g
<1>1. /\ stack' \in Seq(FrameType) /\ stack' # <<>> /\ Len(stack') = Len(stack) + 1
      /\ Last(stack') = g /\ stack'[Len(stack) + 1] = g /\ stack'[Len(stack)] = f
      /\ \A i \in 1 .. Len(stack) - 1 : stack'[i] = stack[i]
  BY ReplaceAndPush DEF TypeOK
<1>2. /\ Top = stack[Len(stack)] /\ Len(stack) \in Nat \ {0}
      /\ Len(stack) # 1 => Nested(stack[Len(stack) - 1], Top)
  BY TopFacts
<1>3. \A i \in 1 .. Len(stack) + 1 : FrameOK(stack'[i])
  BY <1>1, <1>2 DEF StackInv
<1>4. ASSUME NEW i \in 1 .. Len(stack)
      PROVE  Nested(stack'[i], stack'[i + 1])
  <2>1. CASE i = Len(stack)
    BY <1>1, <2>1
  <2>2. CASE i = Len(stack) - 1
    <3>1. Nested(stack[i], Top) /\ stack'[i] = stack[i] /\ stack'[i + 1] = f
      BY <1>1, <1>2, <2>2
    <3>. QED
      BY <3>1 DEF Nested, Creates, Restore
  <2>3. CASE i \notin {Len(stack), Len(stack) - 1}
    <3>1. i \in 1 .. Len(stack) - 1 /\ i + 1 \in 1 .. Len(stack) - 1
      BY <1>2, <2>3
    <3>. QED
      BY <1>1, <3>1 DEF StackInv
  <2>. QED
    BY <2>1, <2>2, <2>3
<1>5. Len(stack') - 1 = Len(stack)
  BY <1>1, <1>2
<1>6. StackInv'
  BY <1>1, <1>3, <1>4, <1>5 DEF StackInv
<1>. QED
  BY <1>1, <1>6 DEF Top

\* What the client has been told.
Told(r) == [api |-> Top.api, ret |-> r, flag |-> Top.flag, debug |-> Top.debug, made |-> Top.made]

\* It returns r: to the client, or to the API that has called it.
LEMMA Returning ==
    ASSUME TypeOK, StackInv, stack # <<>>, NEW r \in Result, Return(r)
    PROVE  /\ stack' \in Seq(FrameType) /\ StackInv'
           /\ Top.api \notin {"PrintStatus", Creates} => stack' = <<>>
           /\ stack' = <<>> => returned' = Told(r)
           /\ stack' # <<>> =>
                /\ returned' = returned /\ Top'.ret = r /\ Top'.made = Top.made
                /\ Top' \in FrameType /\ ~Top'.debug
                /\ \/ Top.api = "PrintStatus" /\ Top'.api = Creates /\ Top'.pc = "made"
                   \/ Top.api = Creates /\ Top'.api = Restore /\ Top'.pc = "created"
<1>0. /\ Top = stack[Len(stack)] /\ Len(stack) \in Nat \ {0} /\ Top \in FrameType
      /\ Len(stack) # 1 => Nested(stack[Len(stack) - 1], Top)
  BY TopFacts
<1>1. CASE Len(stack) = 1
  BY <1>1 DEF Return, StackInv, Told
<1>2. CASE Len(stack) # 1
  <2>. DEFINE g == stack[Len(stack) - 1]
              f == [g EXCEPT !.ret = r, !.made = Top.made]
  <2>1. /\ Nested(g, Top) /\ Len(stack) - 1 \in 1 .. Len(stack)
        /\ stack' = Append(Front(Front(stack)), f) /\ returned' = returned
    <3>1. Nested(g, Top) /\ Len(stack) - 1 \in 1 .. Len(stack)
      BY <1>0, <1>2, CallerPlace, Zenon
    <3>2. stack' = Append(Front(Front(stack)), f) /\ returned' = returned
      BY <1>2, Zenon DEF Return
    <3>. QED
      BY <3>1, <3>2
  <2>2. g \in FrameType /\ FrameOK(g)
    BY <2>1 DEF TypeOK, StackInv
  <2>3. /\ f \in FrameType /\ f.api = g.api /\ f.pc = g.pc /\ f.ret = r /\ f.made = Top.made
        /\ f.flag = g.flag /\ f.debug = g.debug
    BY <1>0, <2>2 DEF FrameType
  <2>4. FrameOK(f) /\ ~f.debug
    BY <2>1, <2>2, <2>3 DEF FrameOK, Nested, Restore, Creates
  <2>. HIDE DEF f, g
  <2>5. /\ stack' \in Seq(FrameType) /\ stack' # <<>> /\ Len(stack') = Len(stack) - 1
        /\ Last(stack') = f /\ stack'[Len(stack) - 1] = f
        /\ \A i \in 1 .. Len(stack) - 2 : stack'[i] = stack[i]
    BY <1>2, <2>1, <2>3, PopTop DEF TypeOK
  <2>6. \A i \in 1 .. Len(stack) - 1 : FrameOK(stack'[i])
    BY <1>0, <2>4, <2>5 DEF StackInv
  <2>7. ASSUME NEW i \in 1 .. Len(stack) - 2
        PROVE  Nested(stack'[i], stack'[i + 1])
    <3>1. CASE i = Len(stack) - 2
      <4>1. Nested(stack[i], g) /\ stack'[i] = stack[i] /\ stack'[i + 1] = f
        BY <1>0, <2>5, <3>1 DEF StackInv, g
      <4>. QED
        BY <2>1, <2>3, <4>1 DEF Nested, Creates, Restore
    <3>2. CASE i # Len(stack) - 2
      <4>1. i \in 1 .. Len(stack) - 2 /\ i + 1 \in 1 .. Len(stack) - 2
        BY <1>0, <3>2
      <4>. QED
        BY <1>0, <2>5, <4>1 DEF StackInv
    <3>. QED
      BY <3>1, <3>2
  <2>8. Len(stack') - 1 = Len(stack) - 2
    BY <1>0, <2>5
  <2>9. StackInv'
    BY <2>5, <2>6, <2>7, <2>8 DEF StackInv
  <2>10. /\ Top' = f /\ stack' # <<>>
         /\ \/ Top.api = "PrintStatus" /\ f.api = Creates /\ f.pc = "made"
            \/ Top.api = Creates /\ f.api = Restore /\ f.pc = "created"
    BY <2>1, <2>3, <2>5 DEF Top, Nested
  <2>. QED
    BY <2>1, <2>3, <2>4, <2>5, <2>9, <2>10
<1>. QED
  BY <1>1, <1>2

-----------------------------------------------------------------------------
(* What a step has to show for the invariant.                              *)

LineType == [api : API \cup {"none"}, arg : File, body : BOOLEAN,
             sink : Name \cup {"callback", "stdout"}]

\* A line, wherever it is printed.  What a report prints goes to its own file.
LEMMA Printed ==
    ASSUME TypeOK, StackInv, StreamInv, stack # <<>>, NEW body \in BOOLEAN,
           body => Top.api \notin Report \/ OwnReport(Top) \/ Top.arg = None,
           NEW file \in File, body => file = localLogToFile, line' = Line(file, body)
    PROVE  line' \in LineType /\ OwnFile'
<1>1. Top \in FrameType
  BY TopFacts
<1>2. line'.api = Top.api /\ line'.arg = Top.arg /\ line'.body = body /\ line'.sink = Sink(file)
  BY DEF Line
<1>3. line' \in LineType
  BY <1>1 DEF Line, LineType, Sink, File, FrameType
<1>4. ASSUME body, Top.api \in Report, Top.arg # None
      PROVE  Sink(file) = Top.arg
  BY <1>4 DEF StreamInv, OwnReport, Sink
<1>. QED
  BY <1>2, <1>3, <1>4 DEF OwnFile

LEMMA NotPrinted ==
    ASSUME Inv, UNCHANGED line
    PROVE  line' \in LineType /\ OwnFile'
  BY DEF Inv, TypeOK, OwnFile, LineType

\* The innermost call goes on to f and leaves files and failures alone.
LEMMA OnKeeps ==
    ASSUME Inv, stack # <<>>, NEW f \in FrameType, FrameOK(f), Becomes(f),
           f.api = Top.api, f.arg = Top.arg, f.api = "PrintStatus" => f.made = Top.made,
           UNCHANGED <<localLogToFile, streams, listening, failed>>,
           driver' \in DriverState, line' \in LineType, OwnFile',
           Unfailed(f) => Unfailed(Top), OwnReport(f) <=> OwnReport(Top),
           f.api = Restore =>
              /\ f.pc = "created" /\ f.ret = "SUCCESS" => f.made # None
              /\ f.pc = "filename" => f.made # None
              /\ f.flag = "forever" /\ (f.pc = "debug" \/ f.debug) =>
                    driver'.file = f.made /\ f.made # None
    PROVE  Inv'
<1>1. /\ stack' \in Seq(FrameType) /\ StackInv' /\ stack' # <<>> /\ Top' = f
      /\ returned' = returned /\ returned = NoReturn
  BY GoesOn DEF Inv, DebugInv
<1>2. TypeOK'
  BY <1>1 DEF Inv, TypeOK, LineType
<1>3. StreamInv'
  BY <1>1 DEF Inv, StreamInv
<1>4. DebugInv'
  BY <1>1 DEF DebugInv
<1>5. HealedBySuccess' /\ DebugInOwnFile'
  BY <1>1 DEF HealedBySuccess, DebugInOwnFile, NoReturn, Report
<1>. QED
  BY <1>1, <1>2, <1>3, <1>4, <1>5 DEF Inv

\* The innermost call returns r.
LEMMA BackKeeps ==
    ASSUME Inv, stack # <<>>, NEW r \in Result, Return(r),
           UNCHANGED <<driver, listening>>, line' \in LineType, OwnFile',
           streams' \in 0 .. MaxStreams, localLogToFile' \in File,
           localLogToFile' # None => streams' >= 1, streams' <= failed',
           failed' = failed \/ (failed' = failed + 1 /\ (Unfailed(Top) \/ Top.api = Restore)),
           Top.api \in Report /\ r = "SUCCESS" => localLogToFile' = None,
           Top.api = Creates /\ r = "SUCCESS" => Top.made # None
    PROVE  Inv'
<1>1. /\ stack' \in Seq(FrameType) /\ StackInv'
      /\ Top.api \notin {"PrintStatus", Creates} => stack' = <<>>
      /\ stack' = <<>> => returned' = Told(r)
      /\ stack' # <<>> =>
           /\ returned' = returned /\ Top'.ret = r /\ Top'.made = Top.made
           /\ Top' \in FrameType /\ ~Top'.debug
           /\ \/ Top.api = "PrintStatus" /\ Top'.api = Creates /\ Top'.pc = "made"
              \/ Top.api = Creates /\ Top'.api = Restore /\ Top'.pc = "created"
  BY Returning DEF Inv
<1>2. Top \in FrameType /\ FrameOK(Top) /\ returned = NoReturn
  BY TopFacts DEF Inv, DebugInv
<1>3. failed' \in 0 .. MaxFailed + 1 /\ (stack' # <<>> => failed' <= MaxFailed)
  BY <1>1, RoutingAssumption DEF Inv, TypeOK, StreamInv, Restore, Creates
<1>4. returned' \in [api : API \cup {"none"}, ret : Result, debug : BOOLEAN,
                     flag : {"none", "debug", "forever"}, made : File]
  BY <1>1, <1>2 DEF Told, FrameType, Inv, TypeOK
<1>5. TypeOK'
  BY <1>1, <1>3, <1>4 DEF Inv, TypeOK, LineType
<1>6. ASSUME stack' # <<>>
      PROVE  ~Unfailed(Top') /\ ~OwnReport(Top')
  BY <1>1, <1>6 DEF Unfailed, OwnReport, Report, Creates, Restore
<1>7. StreamInv'
  BY <1>3, <1>6 DEF StreamInv
<1>8. DebugInv'
  BY <1>1, <1>2 DEF DebugInv, Creates, Restore
<1>9. HealedBySuccess' /\ DebugInOwnFile'
  <2>1. CASE stack' = <<>>
    <3>1. /\ returned'.api = Top.api /\ returned'.ret = r /\ returned'.flag = Top.flag
          /\ returned'.debug = Top.debug /\ returned'.made = Top.made
      BY <1>1, <2>1 DEF Told
    <3>2. Top.debug => Top.api = Restore
      BY <1>2 DEF FrameOK
    <3>. QED
      BY <3>1, <3>2 DEF Inv, DebugInv, HealedBySuccess, DebugInOwnFile
  <2>2. CASE stack' # <<>>
    BY <1>1, <1>2, <2>2 DEF HealedBySuccess, DebugInOwnFile, NoReturn, Report
  <2>. QED
    BY <2>1, <2>2
<1>. QED
  BY <1>1, <1>5, <1>7, <1>8, <1>9 DEF Inv

-----------------------------------------------------------------------------
(* The client's steps.                                                     *)

LEMMA CallStep ==
    ASSUME Inv, NEW api \in API, NEW arg \in File, Call(api, arg)
    PROVE  Inv'
<1>. DEFINE f == Frame(api, arg)
<1>1. f \in FrameType /\ FrameOK(f)
  BY DEF Frame, FrameType, FrameOK, Begin, PlacesOf, PC, API, Report, File, Result, Answer,
         Restore, Creates
<1>2. f.api = api /\ f.pc = Begin(api) /\ ~f.debug /\ f.ret = "SUCCESS"
  BY DEF Frame
<1>3. stack = <<>> /\ stack' = <<f>> /\ returned' = NoReturn /\ line' = NoLine /\ failed < MaxFailed
  BY DEF Call
<1>. HIDE DEF f
<1>4. stack' \in Seq(FrameType) /\ stack' # <<>> /\ Top' = f /\ StackInv'
  BY <1>1, <1>3 DEF Top, Last, StackInv
<1>5. TypeOK'
  BY <1>3, <1>4 DEF Inv, TypeOK, Call, Keeps, NoReturn, NoLine, Result, Answer, File
<1>6. ~OwnReport(f) /\ (f.api = Restore => f.pc = "enabled")
  BY <1>2 DEF OwnReport, Begin, Report, Restore
<1>7. StreamInv'
  BY <1>3, <1>4, <1>6, RoutingAssumption DEF Inv, TypeOK, StreamInv, Call, Keeps
<1>8. DebugInv'
  BY <1>2, <1>3, <1>4, <1>6 DEF DebugInv
<1>9. OwnFile' /\ HealedBySuccess' /\ DebugInOwnFile'
  BY <1>3 DEF OwnFile, HealedBySuccess, DebugInOwnFile, NoLine, NoReturn, Report
<1>. QED
  BY <1>4, <1>5, <1>7, <1>8, <1>9 DEF Inv

LEMMA RegisterStep == ASSUME Inv, SetEventCallbacks PROVE Inv'
<1>1. stack = <<>> /\ stack' = stack /\ returned' = NoReturn /\ line' = NoLine
  BY DEF SetEventCallbacks
<1>2. TypeOK'
  BY <1>1 DEF Inv, TypeOK, SetEventCallbacks, NoReturn, NoLine, Result, Answer, File
<1>3. StackInv' /\ StreamInv' /\ DebugInv'
  BY <1>1 DEF Inv, StackInv, StreamInv, DebugInv, SetEventCallbacks
<1>4. OwnFile' /\ HealedBySuccess' /\ DebugInOwnFile'
  BY <1>1 DEF OwnFile, HealedBySuccess, DebugInOwnFile, NoLine, NoReturn, Report
<1>. QED
  BY <1>2, <1>3, <1>4 DEF Inv

-----------------------------------------------------------------------------
(* The reports.                                                            *)

\* What is known of a call that has got to pc.
LEMMA AtFacts ==
    ASSUME Inv, NEW A, NEW pc, At(A, pc)
    PROVE  /\ stack # <<>> /\ Top \in FrameType /\ FrameOK(Top) /\ Top.api \in A /\ Top.pc = pc
           /\ returned = NoReturn /\ failed <= MaxFailed /\ TypeOK /\ StackInv /\ StreamInv
  BY TopFacts DEF At, Inv, StreamInv, DebugInv

\* Opening a file changes what the lines go to, so it is done from scratch.
LEMMA OpensStep == ASSUME Inv, ReportOpens PROVE Inv'
<1>0. /\ stack # <<>> /\ Top \in FrameType /\ FrameOK(Top) /\ Top.api \in Report
      /\ Top.pc = "open" /\ returned = NoReturn /\ TypeOK /\ StackInv /\ StreamInv
  BY AtFacts DEF ReportOpens
<1>1. /\ stack # <<>> /\ Top \in FrameType /\ FrameOK(Top) /\ Top.api \in Report
      /\ Top.pc = "open" /\ returned = NoReturn /\ TypeOK /\ StackInv
      /\ failed < MaxFailed /\ streams <= failed
  BY <1>0, RoutingAssumption DEF StreamInv, OwnReport, Unfailed, TypeOK
<1>. DEFINE f == [Top EXCEPT !.pc = "ask"]
<1>2. /\ f \in FrameType /\ f.api = Top.api /\ f.arg = Top.arg /\ f.pc = "ask" /\ f.made = Top.made
      /\ f.flag = Top.flag /\ f.debug = Top.debug
  BY <1>1 DEF FrameType, PC
<1>3. Becomes(f) /\ UNCHANGED returned
  BY DEF ReportOpens, Goes, Becomes
<1>. HIDE DEF f
<1>4. FrameOK(f)
  BY <1>1, <1>2 DEF FrameOK, PlacesOf, Report, Restore, Creates
<1>5. stack' \in Seq(FrameType) /\ StackInv' /\ stack' # <<>> /\ Top' = f
  BY <1>1, <1>2, <1>3, <1>4, GoesOn
<1>6. localLogToFile' = f.arg /\ f.arg \in Name /\ streams' = streams + 1 /\ streams' \in 0 .. MaxStreams
  BY <1>1, <1>2, RoutingAssumption DEF ReportOpens, Open, FrameType, File, TypeOK
<1>7. TypeOK'
  BY <1>1, <1>3, <1>5, <1>6 DEF TypeOK, ReportOpens, File
<1>8. StreamInv'
  BY <1>1, <1>2, <1>5, <1>6, RoutingAssumption DEF StreamInv, OwnReport, ReportOpens, TypeOK
<1>9. DebugInv' /\ OwnFile' /\ HealedBySuccess' /\ DebugInOwnFile'
  <2>1. f.api # Restore
    BY <1>1, <1>2 DEF Report, Restore
  <2>. QED
    BY <1>1, <1>3, <1>5, <2>1 DEF Inv, DebugInv, OwnFile, HealedBySuccess, DebugInOwnFile,
       NoReturn, ReportOpens, Report
<1>. QED
  BY <1>5, <1>7, <1>8, <1>9 DEF Inv

LEMMA CannotOpenStep == ASSUME Inv, ReportCannotOpen PROVE Inv'
<1>1. /\ stack # <<>> /\ Top \in FrameType /\ Top.api \in Report /\ Top.pc = "open"
      /\ TypeOK /\ StackInv /\ StreamInv
  BY AtFacts DEF ReportCannotOpen
<1>2. line' \in LineType /\ OwnFile'
  BY <1>1, Printed DEF ReportCannotOpen, Prints, File
<1>3. /\ streams' <= failed' /\ failed' = failed /\ streams' \in 0 .. MaxStreams
      /\ localLogToFile' = None /\ None \in File /\ UNCHANGED <<driver, listening>>
      /\ Return("FAILURE") /\ "FAILURE" \in Result /\ Top.api # Creates
  BY <1>1 DEF StreamInv, OwnReport, TypeOK, ReportCannotOpen, File, Result, Answer, Report, Creates
<1>. QED
  BY <1>1, <1>2, <1>3, BackKeeps

LEMMA NamesNoFileStep == ASSUME Inv, ReportNamesNoFile PROVE Inv'
<1>1. /\ stack # <<>> /\ Top \in FrameType /\ FrameOK(Top) /\ Top.api \in Report
      /\ Top.pc = "open" /\ Top.arg = None
  BY AtFacts DEF ReportNamesNoFile
<1>. DEFINE f == [Top EXCEPT !.pc = "ask"]
<1>2. /\ f \in FrameType /\ f.api = Top.api /\ f.arg = Top.arg /\ f.pc = "ask" /\ f.made = Top.made
      /\ f.flag = Top.flag /\ f.debug = Top.debug
  BY <1>1 DEF FrameType, PC
<1>3. Becomes(f) /\ Keeps /\ UNCHANGED line
  BY DEF ReportNamesNoFile, Goes
<1>. HIDE DEF f
<1>4. FrameOK(f) /\ f.api # Restore
  BY <1>1, <1>2 DEF FrameOK, PlacesOf, Report, Restore, Creates
<1>5. (Unfailed(f) => Unfailed(Top)) /\ (OwnReport(f) <=> OwnReport(Top))
  BY <1>1, <1>2 DEF Unfailed, OwnReport
<1>. QED
  BY <1>1, <1>2, <1>3, <1>4, <1>5, NotPrinted, OnKeeps DEF Keeps, Inv, TypeOK

LEMMA StatusFailsStep == ASSUME Inv, NEW r \in Result, StatusFails(r) PROVE Inv'
<1>1. /\ stack # <<>> /\ Top \in FrameType /\ Top.api = "PrintStatus" /\ Top.pc = "ask"
      /\ TypeOK /\ StackInv /\ StreamInv
  BY AtFacts DEF StatusFails
<1>2. line' \in LineType /\ OwnFile'
  BY <1>1, Printed DEF StatusFails, Prints, TypeOK
<1>3. /\ streams' <= failed'
      /\ failed' = failed \/ (failed' = failed + 1 /\ Unfailed(Top))
      /\ streams' = streams /\ streams \in 0 .. MaxStreams
      /\ localLogToFile' = localLogToFile /\ localLogToFile \in File
      /\ localLogToFile # None => streams >= 1
  BY <1>1 DEF StatusFails, StreamInv, OwnReport, TypeOK, Unfailed, Report
<1>4. /\ Return(r) /\ r # "SUCCESS" /\ UNCHANGED <<driver, listening>>
  BY DEF StatusFails
<1>. QED
  BY <1>1, <1>2, <1>3, <1>4, BackKeeps

LEMMA AsksStep == ASSUME Inv, ReportAsks PROVE Inv'
<1>1. /\ stack # <<>> /\ Top \in FrameType /\ FrameOK(Top) /\ Top.api \in Report /\ Top.pc = "ask"
  BY AtFacts DEF ReportAsks
<1>. DEFINE f == [Top EXCEPT !.pc = "body"]
<1>2. /\ f \in FrameType /\ f.api = Top.api /\ f.arg = Top.arg /\ f.pc = "body" /\ f.made = Top.made
      /\ f.flag = Top.flag /\ f.debug = Top.debug
  BY <1>1 DEF FrameType, PC
<1>3. Becomes(f) /\ Keeps /\ UNCHANGED line
  BY DEF ReportAsks, Goes
<1>. HIDE DEF f
<1>4. FrameOK(f) /\ f.api # Restore
  BY <1>1, <1>2 DEF FrameOK, PlacesOf, Report, Restore, Creates
<1>5. (Unfailed(f) => Unfailed(Top)) /\ (OwnReport(f) <=> OwnReport(Top))
  BY <1>1, <1>2 DEF Unfailed, OwnReport
<1>. QED
  BY <1>1, <1>2, <1>3, <1>4, <1>5, NotPrinted, OnKeeps DEF Keeps, Inv, TypeOK

LEMMA PrintsStep == ASSUME Inv, ReportPrints PROVE Inv'
<1>1. /\ stack # <<>> /\ Top \in FrameType /\ FrameOK(Top) /\ Top.api \in Report /\ Top.pc = "body"
      /\ TypeOK /\ StackInv /\ StreamInv
  BY AtFacts DEF ReportPrints
<1>. DEFINE f == [Top EXCEPT !.pc = "close"]
<1>2. /\ f \in FrameType /\ f.api = Top.api /\ f.arg = Top.arg /\ f.pc = "close" /\ f.made = Top.made
      /\ f.flag = Top.flag /\ f.debug = Top.debug
  BY <1>1 DEF FrameType, PC
<1>3. Becomes(f) /\ Keeps
  BY DEF ReportPrints, Goes
<1>. HIDE DEF f
<1>4. FrameOK(f) /\ f.api # Restore
  BY <1>1, <1>2 DEF FrameOK, PlacesOf, Report, Restore, Creates
<1>5. (Unfailed(f) => Unfailed(Top)) /\ (OwnReport(f) <=> OwnReport(Top))
  BY <1>1, <1>2 DEF Unfailed, OwnReport
<1>6. Top.api \notin Report \/ OwnReport(Top) \/ Top.arg = None
  BY <1>1 DEF OwnReport
<1>7. line' = Line(localLogToFile, TRUE) /\ localLogToFile \in File
  BY <1>1 DEF ReportPrints, PrintsTables, TypeOK
<1>8. line' \in LineType /\ OwnFile'
  BY <1>1, <1>6, <1>7, Printed
<1>. QED
  BY <1>1, <1>2, <1>3, <1>4, <1>5, <1>8, OnKeeps DEF Keeps, TypeOK

LEMMA ClosesStep == ASSUME Inv, ReportCloses PROVE Inv'
<1>1. /\ stack # <<>> /\ Top \in FrameType /\ Top.api \in Report /\ Top.pc = "close"
      /\ TypeOK /\ StackInv /\ StreamInv
  BY AtFacts DEF ReportCloses
<1>2. line' \in LineType /\ OwnFile'
  BY NotPrinted DEF ReportCloses
<1>3. /\ streams' <= failed' /\ failed' = failed /\ streams' \in 0 .. MaxStreams
      /\ localLogToFile' = None /\ None \in File
  BY <1>1, RoutingAssumption DEF ReportCloses, Close, StreamInv, OwnReport, TypeOK, File
<1>4. /\ UNCHANGED <<driver, listening>> /\ Return("SUCCESS") /\ "SUCCESS" \in Result
      /\ Top.api # Creates
  BY <1>1 DEF ReportCloses, Result, Answer, Report, Creates
<1>. QED
  BY <1>1, <1>2, <1>3, <1>4, BackKeeps

\* A return that leaves everything alone but the line that is printed.
LEMMA PlainReturn ==
    ASSUME Inv, stack # <<>>, NEW r \in Result, Return(r), Keeps, ~OwnReport(Top),
           line' \in LineType, OwnFile', Top.api \notin Report,
           Top.api = Creates /\ r = "SUCCESS" => Top.made # None
    PROVE  Inv'
<1>1. TypeOK /\ StreamInv
  BY DEF Inv
<1>2. /\ streams' <= failed' /\ failed' = failed /\ streams' \in 0 .. MaxStreams
      /\ localLogToFile' = localLogToFile /\ localLogToFile' \in File
      /\ localLogToFile' # None => streams' >= 1
  BY <1>1 DEF Keeps, StreamInv, TypeOK
<1>3. UNCHANGED <<driver, listening>>
  BY DEF Keeps
<1>. QED
  BY <1>2, <1>3, BackKeeps

LEMMA ModulationStep ==
    ASSUME Inv, NEW r \in Result, ModulationDown(r) \/ ModulationFails(r) \/ ModulationPrints(r)
    PROVE  Inv'
<1>1. At({"PrintModulation"}, "ask")
  BY DEF ModulationDown, ModulationFails, ModulationPrints
<1>2. /\ stack # <<>> /\ Top.api = "PrintModulation" /\ TypeOK /\ StackInv /\ StreamInv
      /\ localLogToFile \in File
  BY <1>1, AtFacts DEF TypeOK
<1>3. Top.api \notin Report /\ ~OwnReport(Top) /\ Top.api # Creates
  BY <1>2 DEF OwnReport, Report, Creates
<1>4. Return(r) /\ Keeps
  BY DEF ModulationDown, ModulationFails, ModulationPrints
<1>5. \/ line' = Line(localLogToFile, FALSE) \/ line' = Line(localLogToFile, TRUE)
      \/ UNCHANGED line
  BY DEF ModulationDown, ModulationFails, ModulationPrints, Prints, PrintsTables
<1>6. line' \in LineType /\ OwnFile'
  BY <1>2, <1>3, <1>5, Printed, NotPrinted
<1>. QED
  BY <1>2, <1>3, <1>4, <1>6, PlainReturn

-----------------------------------------------------------------------------
(* The driver log file.                                                    *)

LEMMA CreateFailsStep == ASSUME Inv, NEW r \in Result, CreateFails(r) PROVE Inv'
<1>1. /\ stack # <<>> /\ Top.api = Creates /\ TypeOK /\ StackInv /\ StreamInv
      /\ localLogToFile \in File
  BY AtFacts DEF CreateFails, TypeOK, Creates
<1>2. Top.api \notin Report /\ ~OwnReport(Top)
  BY <1>1 DEF OwnReport, Report, Creates
<1>3. Return(r) /\ Keeps /\ r # "SUCCESS" /\ line' = Line(localLogToFile, FALSE)
  BY DEF CreateFails, Prints
<1>4. line' \in LineType /\ OwnFile'
  BY <1>1, <1>3, Printed
<1>. QED
  BY <1>1, <1>2, <1>3, <1>4, PlainReturn

LEMMA CreateWritesStep == ASSUME Inv, NEW n \in Name, CreateWrites(n) PROVE Inv'
<1>1. /\ stack # <<>> /\ Top \in FrameType /\ FrameOK(Top) /\ Top.api = Creates /\ Top.pc = "name"
      /\ TypeOK /\ StackInv /\ StreamInv /\ returned = NoReturn
  BY AtFacts DEF CreateWrites, Creates
<1>. DEFINE f == [Top EXCEPT !.pc = "made", !.made = n]
            g == [Frame("PrintStatus", n) EXCEPT !.made = n]
<1>2. /\ f \in FrameType /\ f.api = Creates /\ f.pc = "made" /\ f.made = n /\ n # None
      /\ f.flag = Top.flag /\ f.debug = Top.debug
  BY <1>1, RoutingAssumption DEF FrameType, File, PC
<1>3. /\ g \in FrameType /\ g.api = "PrintStatus" /\ g.pc = "open" /\ g.made = n
      /\ g.flag = "none" /\ ~g.debug
  BY DEF Frame, Begin, FrameType, File, PC, API, Report, Result, Answer
<1>4. stack' = Append(Front(stack), f) \o <<g>>
  BY DEF CreateWrites
<1>. HIDE DEF f, g
<1>5. FrameOK(f) /\ FrameOK(g) /\ Nested(f, g)
  BY <1>1, <1>2, <1>3 DEF FrameOK, Nested, PlacesOf, Report, Creates, Restore
<1>6. stack' \in Seq(FrameType) /\ StackInv' /\ stack' # <<>> /\ Top' = g
  BY <1>1, <1>2, <1>3, <1>4, <1>5, Calling
<1>7. TypeOK' /\ OwnFile' /\ HealedBySuccess' /\ DebugInOwnFile'
  BY <1>1, <1>6 DEF Inv, TypeOK, OwnFile, HealedBySuccess, DebugInOwnFile, CreateWrites, Keeps
<1>8. Unfailed(Top) /\ ~OwnReport(Top) /\ ~OwnReport(g)
  BY <1>1, <1>3 DEF Unfailed, OwnReport, Report, Creates
<1>9. StreamInv' /\ DebugInv'
  <2>1. g.api # Restore
    BY <1>3 DEF Restore
  <2>. QED
    BY <1>1, <1>6, <1>8, <2>1 DEF StreamInv, DebugInv, CreateWrites, Keeps
<1>. QED
  BY <1>6, <1>7, <1>9 DEF Inv

LEMMA CreateReturnsStep == ASSUME Inv, CreateReturns PROVE Inv'
<1>1. /\ stack # <<>> /\ Top.api = Creates /\ Top.pc = "made" /\ FrameOK(Top)
      /\ TypeOK /\ StackInv /\ StreamInv /\ localLogToFile \in File
  BY AtFacts DEF CreateReturns, TypeOK, Creates
<1>2. Top.api \notin Report /\ ~OwnReport(Top) /\ Top.made # None /\ "SUCCESS" \in Result
  BY <1>1 DEF OwnReport, Report, Creates, FrameOK, Result, Answer
<1>3. /\ Return("SUCCESS") /\ Keeps
      /\ line' = Line(localLogToFile, FALSE) \/ UNCHANGED line
  BY DEF CreateReturns, Prints
<1>4. line' \in LineType /\ OwnFile'
  BY <1>1, <1>3, Printed, NotPrinted
<1>. QED
  BY <1>1, <1>2, <1>3, <1>4, PlainReturn

-----------------------------------------------------------------------------
(* The default settings.                                                   *)

\* What is known of RestoreRDKDefaultSettings, and what it has to show when it
\* goes on to f.
LEMMA RestoreFacts ==
    ASSUME Inv, NEW pc, At({"RestoreRDKDefaultSettings"}, pc)
    PROVE  /\ stack # <<>> /\ Top \in FrameType /\ FrameOK(Top) /\ Top.api = Restore
           /\ Top.pc = pc /\ TypeOK /\ StackInv /\ StreamInv /\ DebugInv
           /\ localLogToFile \in File /\ driver \in DriverState
           /\ Top.api # Creates /\ Top.api \notin Report /\ ~OwnReport(Top)
<1>1. /\ stack # <<>> /\ Top \in FrameType /\ FrameOK(Top) /\ Top.api = Restore
      /\ Top.pc = pc /\ TypeOK /\ StackInv /\ StreamInv /\ DebugInv
  BY AtFacts DEF Restore, Inv
<1>. QED
  BY <1>1 DEF OwnReport, Report, Restore, Creates, TypeOK

LEMMA RestoreGoesOn ==
    ASSUME Inv, stack # <<>>, Top.api = Restore, NEW f \in FrameType, Becomes(f), FrameOK(f),
           f.api = Restore, f.arg = Top.arg,
           UNCHANGED <<localLogToFile, streams, listening, failed>>,
           driver' \in DriverState, line' \in LineType, OwnFile',
           Unfailed(f) => Unfailed(Top),
           f.pc = "created" /\ f.ret = "SUCCESS" => f.made # None,
           f.pc = "filename" => f.made # None,
           f.flag = "forever" /\ (f.pc = "debug" \/ f.debug) =>
               driver'.file = f.made /\ f.made # None
    PROVE  Inv'
<1>1. f.api # "PrintStatus" /\ ~OwnReport(f) /\ ~OwnReport(Top)
  BY DEF OwnReport, Report, Restore
<1>. QED
  BY <1>1, OnKeeps

LEMMA RestoreEndsStep ==
    ASSUME Inv, NEW r \in Result,
           RestoreRefused(r) \/ RestoreReturns(r) \/ (RestoreDefaultsFails /\ r = "FAILURE")
    PROVE  Inv'
<1>1. PICK pc \in PC : At({"RestoreRDKDefaultSettings"}, pc)
  BY DEF RestoreRefused, RestoreReturns, RestoreDefaultsFails, PC
<1>2. /\ stack # <<>> /\ TypeOK /\ StackInv /\ StreamInv /\ localLogToFile \in File
      /\ Top.api # Creates /\ Top.api \notin Report /\ ~OwnReport(Top)
  BY <1>1, RestoreFacts
<1>3. Return(r) /\ Keeps /\ (line' = Line(localLogToFile, FALSE) \/ UNCHANGED line)
  BY DEF RestoreRefused, RestoreReturns, RestoreDefaultsFails, Prints
<1>4. line' \in LineType /\ OwnFile'
  BY <1>2, <1>3, Printed, NotPrinted
<1>. QED
  BY <1>2, <1>3, <1>4, PlainReturn

LEMMA RestoreStartsStep == ASSUME Inv, RestoreStarts PROVE Inv'
<1>1. /\ stack # <<>> /\ Top \in FrameType /\ FrameOK(Top) /\ Top.api = Restore
      /\ Top.pc = "enabled" /\ driver \in DriverState
  BY RestoreFacts DEF RestoreStarts
<1>. DEFINE f == [Top EXCEPT !.pc = "defaults"]
<1>2. /\ f \in FrameType /\ f.api = Top.api /\ f.arg = Top.arg /\ f.pc = "defaults"
      /\ f.flag = Top.flag /\ f.debug = Top.debug
  BY <1>1 DEF FrameType, PC
<1>3. Becomes(f) /\ Keeps /\ UNCHANGED line
  BY DEF RestoreStarts, Goes
<1>. HIDE DEF f
<1>4. FrameOK(f) /\ ~f.debug /\ Unfailed(Top)
  BY <1>1, <1>2 DEF FrameOK, PlacesOf, Report, Restore, Creates, Unfailed
<1>. QED
  BY <1>1, <1>2, <1>3, <1>4, NotPrinted, RestoreGoesOn DEF Keeps

LEMMA RestoreDefaultsStep == ASSUME Inv, NEW d \in DriverState, RestoreDefaults(d) PROVE Inv'
<1>1. /\ stack # <<>> /\ Top \in FrameType /\ FrameOK(Top) /\ Top.api = Restore
      /\ Top.pc = "defaults"
  BY RestoreFacts DEF RestoreDefaults
<1>. DEFINE f == [Top EXCEPT !.pc = "level"]
<1>2. /\ f \in FrameType /\ f.api = Top.api /\ f.arg = Top.arg /\ f.pc = "level"
      /\ f.flag = Top.flag /\ f.debug = Top.debug
  BY <1>1 DEF FrameType, PC
<1>3. /\ Becomes(f) /\ driver' = d
      /\ UNCHANGED <<localLogToFile, streams, listening, line, failed>>
  BY DEF RestoreDefaults, Goes
<1>. HIDE DEF f
<1>4. FrameOK(f) /\ ~f.debug /\ Unfailed(Top)
  BY <1>1, <1>2 DEF FrameOK, PlacesOf, Report, Restore, Creates, Unfailed
<1>. QED
  BY <1>1, <1>2, <1>3, <1>4, NotPrinted, RestoreGoesOn

LEMMA RestoreLevelStep ==
    ASSUME Inv, NEW r \in Answer, NEW flag \in {"none", "debug", "forever"}, RestoreLevel(r, flag)
    PROVE  Inv'
<1>1. /\ stack # <<>> /\ Top \in FrameType /\ FrameOK(Top) /\ Top.api = Restore
      /\ Top.pc = "level" /\ driver \in DriverState
      /\ TypeOK /\ StackInv /\ StreamInv /\ localLogToFile \in File
  BY RestoreFacts DEF RestoreLevel
<1>. DEFINE place == CASE flag = "forever" -> "create" [] flag = "debug" -> "debug"
                       [] OTHER -> "settings"
            f == [Top EXCEPT !.flag = flag, !.pc = place]
<1>2. place \in {"create", "debug", "settings"} /\ (place = "debug" => flag # "forever")
  OBVIOUS
<1>3. /\ Becomes(f) /\ UNCHANGED <<localLogToFile, streams, listening, failed>>
      /\ driver' \in {driver, [driver EXCEPT !.level = "default"]}
      /\ line' = Line(localLogToFile, FALSE) \/ UNCHANGED line
  BY DEF RestoreLevel, Prints
<1>. HIDE DEF place
<1>4. /\ f \in FrameType /\ f.api = Top.api /\ f.arg = Top.arg /\ f.pc = place
      /\ f.flag = flag /\ f.debug = Top.debug
  BY <1>1, <1>2 DEF FrameType, PC
<1>. HIDE DEF f
<1>5. FrameOK(f) /\ ~f.debug /\ Unfailed(Top)
  BY <1>1, <1>2, <1>4 DEF FrameOK, PlacesOf, Report, Restore, Creates, Unfailed
<1>6. driver' \in DriverState
  BY <1>1, <1>3 DEF DriverState
<1>7. line' \in LineType /\ OwnFile'
  BY <1>1, <1>3, Printed, NotPrinted
<1>. QED
  BY <1>1, <1>2, <1>3, <1>4, <1>5, <1>6, <1>7, RestoreGoesOn

LEMMA RestoreCreatesStep == ASSUME Inv, RestoreCreates PROVE Inv'
<1>1. /\ stack # <<>> /\ Top \in FrameType /\ FrameOK(Top) /\ Top.api = Restore
      /\ Top.pc = "create" /\ TypeOK /\ StackInv /\ StreamInv /\ ~OwnReport(Top)
  BY RestoreFacts DEF RestoreCreates
<1>. DEFINE f == [Top EXCEPT !.pc = "created"]
            g == Frame("CreateDriverFile", None)
<1>2. /\ f \in FrameType /\ f.api = Restore /\ f.pc = "created"
      /\ f.flag = Top.flag /\ f.debug = Top.debug
  BY <1>1 DEF FrameType, PC
<1>3. /\ g \in FrameType /\ g.api = Creates /\ g.pc = "name" /\ g.flag = "none" /\ ~g.debug
  BY DEF Frame, Begin, FrameType, File, PC, API, Report, Result, Answer, Creates
<1>4. stack' = Append(Front(stack), f) \o <<g>>
  BY DEF RestoreCreates
<1>. HIDE DEF f, g
<1>5. FrameOK(f) /\ FrameOK(g) /\ Nested(f, g)
  BY <1>1, <1>2, <1>3 DEF FrameOK, Nested, PlacesOf, Report, Creates, Restore
<1>6. stack' \in Seq(FrameType) /\ StackInv' /\ stack' # <<>> /\ Top' = g
  BY <1>1, <1>2, <1>3, <1>4, <1>5, Calling
<1>7. TypeOK' /\ OwnFile' /\ HealedBySuccess' /\ DebugInOwnFile'
  BY <1>1, <1>6 DEF Inv, TypeOK, OwnFile, HealedBySuccess, DebugInOwnFile, RestoreCreates, Keeps
<1>8. Unfailed(Top) /\ ~OwnReport(g) /\ g.api # Restore
  BY <1>1, <1>3 DEF Unfailed, OwnReport, Report, Creates, Restore
<1>9. StreamInv' /\ DebugInv'
  BY <1>1, <1>6, <1>8 DEF Inv, StreamInv, DebugInv, RestoreCreates, Keeps
<1>. QED
  BY <1>6, <1>7, <1>9 DEF Inv

LEMMA RestoreCreatedStep == ASSUME Inv, RestoreCreated PROVE Inv'
<1>1. /\ stack # <<>> /\ Top \in FrameType /\ FrameOK(Top) /\ Top.api = Restore
      /\ Top.pc = "created" /\ TypeOK /\ StackInv /\ StreamInv /\ DebugInv
      /\ localLogToFile \in File /\ driver \in DriverState
  BY RestoreFacts DEF RestoreCreated
<1>. DEFINE place == NextIf(Top.ret, "filename")
            f == [Top EXCEPT !.pc = place]
<1>2. /\ place \in {"filename", "settings"}
      /\ place = "filename" => Top.made # None
  BY <1>1 DEF NextIf, DebugInv
<1>3. /\ Becomes(f) /\ Keeps
      /\ line' = Line(localLogToFile, FALSE) \/ UNCHANGED line
  BY DEF RestoreCreated, Prints, Goes
<1>. HIDE DEF place
<1>4. /\ f \in FrameType /\ f.api = Top.api /\ f.arg = Top.arg /\ f.pc = place
      /\ f.flag = Top.flag /\ f.debug = Top.debug /\ f.made = Top.made
  BY <1>1, <1>2 DEF FrameType, PC
<1>. HIDE DEF f
<1>5. FrameOK(f) /\ ~f.debug /\ ~Unfailed(f)
  BY <1>1, <1>2, <1>4 DEF FrameOK, PlacesOf, Report, Restore, Creates, Unfailed
<1>6. line' \in LineType /\ OwnFile'
  BY <1>1, <1>3, Printed, NotPrinted
<1>7. UNCHANGED <<localLogToFile, streams, listening, failed>> /\ driver' = driver
  BY <1>3 DEF Keeps
<1>. QED
  BY <1>1, <1>2, <1>3, <1>4, <1>5, <1>6, <1>7, RestoreGoesOn

LEMMA RestoreFilenameStep == ASSUME Inv, NEW r \in Answer, RestoreFilename(r) PROVE Inv'
<1>1. /\ stack # <<>> /\ Top \in FrameType /\ FrameOK(Top) /\ Top.api = Restore
      /\ Top.pc = "filename" /\ TypeOK /\ StackInv /\ StreamInv /\ DebugInv
      /\ localLogToFile \in File /\ driver \in DriverState
  BY RestoreFacts DEF RestoreFilename
<1>. DEFINE place == NextIf(r, "debug")
            f == [Top EXCEPT !.pc = place]
<1>2. /\ place \in {"debug", "settings"} /\ (place = "debug" => r = "SUCCESS")
      /\ Top.made # None
  BY <1>1 DEF NextIf, DebugInv
<1>3. /\ Becomes(f) /\ UNCHANGED <<localLogToFile, streams, listening, failed>>
      /\ IF r = "SUCCESS" THEN driver' = [driver EXCEPT !.file = Top.made] ELSE driver' = driver
      /\ line' = Line(localLogToFile, FALSE) \/ UNCHANGED line
  BY DEF RestoreFilename, Prints, Goes
<1>. HIDE DEF place
<1>4. /\ f \in FrameType /\ f.api = Top.api /\ f.arg = Top.arg /\ f.pc = place
      /\ f.flag = Top.flag /\ f.debug = Top.debug /\ f.made = Top.made
  BY <1>1, <1>2 DEF FrameType, PC
<1>. HIDE DEF f
<1>5. FrameOK(f) /\ ~f.debug /\ ~Unfailed(f)
  BY <1>1, <1>2, <1>4 DEF FrameOK, PlacesOf, Report, Restore, Creates, Unfailed
<1>6. driver' \in DriverState /\ (r = "SUCCESS" => driver'.file = Top.made)
  BY <1>1, <1>3 DEF DriverState, FrameType
<1>7. line' \in LineType /\ OwnFile'
  BY <1>1, <1>3, Printed, NotPrinted
<1>. QED
  BY <1>1, <1>2, <1>3, <1>4, <1>5, <1>6, <1>7, RestoreGoesOn

LEMMA RestoreDebugStep == ASSUME Inv, NEW r \in Answer, RestoreDebug(r) PROVE Inv'
<1>1. /\ stack # <<>> /\ Top \in FrameType /\ FrameOK(Top) /\ Top.api = Restore
      /\ Top.pc = "debug" /\ TypeOK /\ StackInv /\ StreamInv /\ DebugInv
      /\ localLogToFile \in File /\ driver \in DriverState
  BY RestoreFacts DEF RestoreDebug
<1>. DEFINE f == [Top EXCEPT !.pc = "settings", !.debug = (r = "SUCCESS")]
<1>2. /\ Becomes(f) /\ UNCHANGED <<localLogToFile, streams, listening, failed>>
      /\ driver' \in {driver, [driver EXCEPT !.level = "debug"]}
      /\ line' = Line(localLogToFile, FALSE)
  BY DEF RestoreDebug, Prints
<1>3. /\ f \in FrameType /\ f.api = Top.api /\ f.arg = Top.arg /\ f.pc = "settings"
      /\ f.flag = Top.flag /\ f.made = Top.made
  BY <1>1 DEF FrameType, PC
<1>. HIDE DEF f
<1>4. FrameOK(f) /\ ~Unfailed(f)
  BY <1>1, <1>3 DEF FrameOK, PlacesOf, Report, Restore, Creates, Unfailed
<1>5. driver' \in DriverState /\ driver'.file = driver.file
  BY <1>1, <1>2 DEF DriverState
<1>6. line' \in LineType /\ OwnFile'
  BY <1>1, <1>2, Printed
<1>7. Top.flag = "forever" => driver.file = Top.made /\ Top.made # None
  BY <1>1 DEF DebugInv
<1>. QED
  BY <1>1, <1>2, <1>3, <1>4, <1>5, <1>6, <1>7, RestoreGoesOn

LEMMA RestoreBadMacStep == ASSUME Inv, RestoreBadMac PROVE Inv'
<1>1. /\ stack # <<>> /\ Top.api = Restore /\ TypeOK /\ StackInv /\ StreamInv
      /\ localLogToFile \in File /\ Top.api # Creates /\ Top.api \notin Report /\ ~OwnReport(Top)
  BY RestoreFacts DEF RestoreBadMac
<1>2. /\ streams' <= failed' /\ failed' = failed + 1 /\ streams' \in 0 .. MaxStreams
      /\ localLogToFile' = localLogToFile /\ (localLogToFile # None => streams' >= 1)
  BY <1>1, RoutingAssumption DEF RestoreBadMac, StreamInv, TypeOK
<1>3. /\ Return("FAILURE") /\ "FAILURE" \in Result /\ UNCHANGED <<driver, listening>>
      /\ line' = Line(localLogToFile, FALSE)
  BY DEF RestoreBadMac, Prints, Result, Answer
<1>4. line' \in LineType /\ OwnFile'
  BY <1>1, <1>3, Printed
<1>. QED
  BY <1>1, <1>2, <1>3, <1>4, BackKeeps

-----------------------------------------------------------------------------
LEMMA InitInv == Init => Inv
  BY RoutingAssumption
     DEF Init, Inv, TypeOK, StackInv, StreamInv, DebugInv, OwnFile, HealedBySuccess, DebugInOwnFile,
         NoLine, NoReturn, File, DriverState, Result, Answer, Report

LEMMA StepInv == Inv /\ [Next]_vars => Inv'
<1>. SUFFICES ASSUME Inv, [Next]_vars PROVE Inv'
  OBVIOUS
<1>1. ASSUME NEW api \in API, NEW arg \in File, Call(api, arg) PROVE Inv'
  BY <1>1, CallStep
<1>2. Report \cup {"PrintModulation"} \subseteq API
      /\ {"CreateDriverFile", "RestoreRDKDefaultSettings"} \subseteq API /\ None \in File
      /\ Answer \subseteq Result /\ "FAILURE" \in Result
  BY DEF API, File, Result, Answer
<1>3. CASE \/ ReportOpens \/ ReportCannotOpen \/ ReportNamesNoFile
           \/ ReportAsks \/ ReportPrints \/ ReportCloses \/ SetEventCallbacks
  BY <1>3, OpensStep, CannotOpenStep, NamesNoFileStep, AsksStep, PrintsStep, ClosesStep,
     RegisterStep
<1>4. CASE \E r \in Result : \/ StatusFails(r) \/ ModulationDown(r) \/ ModulationFails(r)
                             \/ ModulationPrints(r) \/ CreateFails(r) \/ RestoreRefused(r)
  BY <1>4, StatusFailsStep, ModulationStep, CreateFailsStep, RestoreEndsStep
<1>5. CASE (\E n \in Name : CreateWrites(n)) \/ CreateReturns
  BY <1>5, CreateWritesStep, CreateReturnsStep
<1>6. CASE RestoreStarts \/ (\E d \in DriverState : RestoreDefaults(d)) \/ RestoreDefaultsFails
  BY <1>2, <1>6, RestoreStartsStep, RestoreDefaultsStep, RestoreEndsStep
<1>7. CASE \E r \in Answer, flag \in {"none", "debug", "forever"} : RestoreLevel(r, flag)
  BY <1>7, RestoreLevelStep
<1>8. CASE RestoreCreates \/ RestoreCreated \/ RestoreBadMac
  BY <1>8, RestoreCreatesStep, RestoreCreatedStep, RestoreBadMacStep
<1>9. CASE \E r \in Answer : RestoreFilename(r) \/ RestoreDebug(r) \/ RestoreReturns(r)
  BY <1>2, <1>9, RestoreFilenameStep, RestoreDebugStep, RestoreEndsStep
<1>10. CASE UNCHANGED vars
  BY <1>10 DEF vars, Inv, TypeOK, StackInv, StreamInv, DebugInv, OwnFile, HealedBySuccess,
     DebugInOwnFile, Top
<1>. QED
  BY <1>1, <1>2, <1>3, <1>4, <1>5, <1>6, <1>7, <1>8, <1>9, <1>10 DEF Next

LEMMA InvHolds == Spec => []Inv
  BY InitInv, StepInv, PTL DEF Spec

(***************************************************************************)
(* The handle, the driver's log, the calls in progress and the history     *)
(* variables keep their types; in particular no FILE is closed that these  *)
(* functions have not opened (streams never falls below 0).                *)
(***************************************************************************)
THEOREM TypeCorrect == Spec => []TypeOK
<1>1. Inv => TypeOK
  BY DEF Inv
<1>. QED
  BY <1>1, InvHolds, PTL

(***************************************************************************)
(* No more FILEs are open than the failures of PrintStatus and of the      *)
(* reading of the address file account for, and the report in progress.    *)
(***************************************************************************)
THEOREM LeakNeedsFailureHolds == Spec => []LeakNeedsFailure
<1>1. ASSUME Inv PROVE LeakNeedsFailure
  <2>1. stack # <<>> /\ OwnReport(Top) => Reporting
    BY <1>1, TopFacts DEF OwnReport, Reporting, Inv, TypeOK
  <2>. QED
    BY <1>1, <2>1 DEF LeakNeedsFailure, Inv, StreamInv, TypeOK
<1>. QED
  BY <1>1, InvHolds, PTL

(***************************************************************************)
(* A report prints to the file it was given, whatever an earlier one left. *)
(***************************************************************************)
THEOREM OwnFileHolds == Spec => []OwnFile
<1>1. Inv => OwnFile
  BY DEF Inv
<1>. QED
  BY <1>1, InvHolds, PTL

(***************************************************************************)
(* A report that succeeds ends every redirection of the library's lines.   *)
(***************************************************************************)
THEOREM HealedBySuccessHolds == Spec => []HealedBySuccess
<1>1. Inv => HealedBySuccess
  BY DEF Inv
<1>. QED
  BY <1>1, InvHolds, PTL

(***************************************************************************)
(* RestoreRDKDefaultSettings raises the driver's level for ever only after *)
(* the driver logs to the file made for it.                                *)
(***************************************************************************)
THEOREM DebugInOwnFileHolds == Spec => []DebugInOwnFile
<1>1. Inv => DebugInOwnFile
  BY DEF Inv
<1>. QED
  BY <1>1, InvHolds, PTL
=============================================================================
