---------------------------- MODULE ApiWrap_proofs ----------------------------
(***************************************************************************)
(* Proofs about ApiWrap, for any masks, SoC libraries and bounds: type     *)
(* correctness, the balance of apiDepth, that no half runs after a failed  *)
(* one, that masks the client was told of agree, that a link status is     *)
(* true, that the result of RMH_Destroy is, and that every call comes      *)
(* back.                                                                   *)
(***************************************************************************)
EXTENDS ApiWrap, StackLemmas

LinkAPI == "RMH_Self_GetLinkStatus"
IfaceAPI == "RMH_Interface_GetEnabled"
Destroy == "RMH_Destroy"

\* The halves that have run have the results the frame keeps.  A SoC half that
\* comes second has not run before the end.
RanOK(f) ==
    /\ \A j \in 1 .. Len(f.ran) :
           \/ f.ran[j] = <<"soc", f.socRet>> /\ f.pc # "before"
           \/ f.ran[j] = <<"generic", f.genRet>> /\ f.pc \in {"after", "exit"}
    /\ ~SocBeforeGeneric(f.api) /\ f.pc # "exit" =>
          \A j \in 1 .. Len(f.ran) : f.ran[j] = <<"generic", f.genRet>> /\ f.pc = "after"
    /\ \A j \in 1 .. Len(f.ran) - 1 : f.ran[j][2] = "SUCCESS"

FrameOK(f) == /\ RanOK(f)
              /\ f.pc \in {"before", "generic"} \/ f.api \in Getter => f.genRet = "SUCCESS"
              /\ f.api \in Setter => f.arg \in Value

\* f has called g.
Nested(f, g) ==
    /\ f.pc = "generic"
    /\ g.torn => f.torn
    /\ \/ f.api = LinkAPI /\ g.api = LinkChecks[f.next].api
       \/ f.api = IfaceAPI /\ f.next = 1 /\ g.api = "RMH_Interface_GetName"

StackInv == /\ \A i \in 1 .. Len(stack) : FrameOK(stack[i])
            /\ \A i \in 1 .. Len(stack) - 1 : Nested(stack[i], stack[i + 1])

\* While the driver stands still, what f has read is what the driver d has.
ReadsTrue(d, f) ==
    ~f.torn =>
      /\ f.api = "RMH_Self_GetEnabled" /\ f.pc = "exit" /\ f.socRet = "SUCCESS" =>
            f.value = d.enabled
      /\ f.api = "RMH_Self_GetMoCALinkUp" /\ f.pc = "exit" /\ f.socRet = "SUCCESS" =>
            f.value = d.link
      /\ f.api = IfaceAPI /\ f.pc \in {"after", "exit"} /\ f.genRet = "SUCCESS" /\ ~f.unset =>
            f.value = d.iface
      /\ f.api = LinkAPI /\ ~f.unset =>
            /\ f.pc \in {"before", "generic"} /\ f.next > 1 => d.enabled
            /\ f.pc \in {"before", "generic"} /\ f.next > 2 => d.link
            /\ f.pc \in {"after", "exit"} /\ f.genRet = "SUCCESS" => f.status = DriverStatus(d)

ReadsInv == \A i \in 1 .. Len(stack) : ReadsTrue(driver, stack[i])

\* How far the call f of a setter has brought its mask.
MaskOK(h, s, f) ==
    /\ f.pc \in {"after", "exit"} /\ f.genRet = "SUCCESS" => h.reg[f.api] = f.arg
    /\ f.pc = "exit" /\ f.genRet = "SUCCESS" /\ f.socRet = "SUCCESS" => s[f.api] = f.arg

\* The call f of RMH_Destroy has freed the struct, or not.
DestroyOK(h, f) ==
    IF f.pc \in {"before", "generic"} THEN h.live
    ELSE h.live <=> ~(f.socRet = "SUCCESS" /\ f.genRet = "SUCCESS")

Busy(api) == stack # <<>> /\ Top.api = api

HandleInv ==
    /\ handle = NoHandle => stack = <<>>
    /\ handle # NoHandle =>
          /\ leaked < MaxLeaks /\ handle.depth = Len(stack)
          /\ \A s \in Setter : acked[s] /\ ~Busy(s) => handle.reg[s] = socReg[s]
          /\ ~Busy(Destroy) => handle.live
    /\ stack # <<>> /\ Top.api \in Setter => MaskOK(handle, socReg, Top)
    /\ Busy(Destroy) => DestroyOK(handle, Top)

ReturnedType == [api : API \cup {"none"}, ret : Result, status : LinkStatus,
                 found : BOOLEAN, exact : BOOLEAN, freed : BOOLEAN]

Inv == TypeOK /\ StackInv /\ ReadsInv /\ HandleInv
         /\ returned \in ReturnedType /\ LinkStatusTrue /\ DestroySaysFreed

-----------------------------------------------------------------------------
(* What a step does to the stack.                                          *)

\* The place below the top.
LEMMA CallerPlace ==
    \A n \in Nat \ {0} : n # 1 =>
        n - 1 \in 1 .. n - 1 /\ n - 1 \in 1 .. n /\ (n - 1) + 1 = n /\ n - 1 \in Nat \ {0}
  OBVIOUS

\* The innermost call is one that is possible.
LEMMA TopFacts ==
    ASSUME TypeOK, StackInv, stack # <<>>
    PROVE  /\ Top \in FrameType /\ FrameOK(Top) /\ Top = stack[Len(stack)]
           /\ Len(stack) \in Nat \ {0}
           /\ Len(stack) # 1 => Nested(stack[Len(stack) - 1], Top)
<1>1. /\ Top \in FrameType /\ Top = stack[Len(stack)] /\ Len(stack) \in Nat \ {0}
  BY TopElement DEF TypeOK, Top
<1>2. FrameOK(Top)
  BY <1>1 DEF StackInv
<1>3. ASSUME Len(stack) # 1
      PROVE  Nested(stack[Len(stack) - 1], Top)
  <2>1. Len(stack) - 1 \in 1 .. Len(stack) - 1 /\ (Len(stack) - 1) + 1 = Len(stack)
    BY <1>1, <1>3, CallerPlace, Zenon
  <2>2. Nested(stack[Len(stack) - 1], stack[(Len(stack) - 1) + 1])
    BY <2>1 DEF StackInv
  <2>. QED
    BY <1>1, <2>1, <2>2
<1>. QED
  BY <1>1, <1>2, <1>3

LEMMA TopReads == TypeOK /\ StackInv /\ ReadsInv /\ stack # <<>> => ReadsTrue(driver, Top)
  BY TopFacts DEF ReadsInv

\* What is known of a call in progress.
LEMMA Running ==
    ASSUME Inv, stack # <<>>
    PROVE  /\ Top \in FrameType /\ FrameOK(Top) /\ ReadsTrue(driver, Top)
           /\ handle # NoHandle /\ handle \in HandleType /\ handle.depth = Len(stack)
           /\ leaked < MaxLeaks
  BY TopFacts, TopReads DEF Inv, HandleInv, TypeOK

\* The innermost call goes on to f.
LEMMA GoesOn ==
    ASSUME TypeOK, StackInv, ReadsInv, stack # <<>>, NEW f \in FrameType, FrameOK(f), Becomes(f),
           f.api = Top.api, f.torn = Top.torn, ReadsTrue(driver, f), driver' = driver
    PROVE  /\ stack' \in Seq(FrameType) /\ StackInv' /\ ReadsInv' /\ stack' # <<>> /\ Top' = f
           /\ Len(stack') = Len(stack)
<1>1. /\ stack' \in Seq(FrameType) /\ stack' # <<>> /\ Len(stack') = Len(stack)
      /\ Last(stack') = f /\ stack'[Len(stack)] = f
      /\ \A i \in 1 .. Len(stack) - 1 : stack'[i] = stack[i]
  BY ReplaceTop DEF TypeOK, Becomes
<1>2. /\ Top = stack[Len(stack)] /\ Len(stack) \in Nat \ {0}
      /\ Len(stack) # 1 => Nested(stack[Len(stack) - 1], Top)
  BY TopFacts
<1>3. \A i \in 1 .. Len(stack) : FrameOK(stack'[i])
  BY <1>1, <1>2 DEF StackInv
<1>4. ASSUME NEW i \in 1 .. Len(stack) - 1
      PROVE  Nested(stack'[i], stack'[i + 1])
  <2>1. CASE i = Len(stack) - 1
    <3>1. Nested(stack[i], Top) /\ stack'[i] = stack[i] /\ stack'[i + 1] = f
      BY <1>1, <1>2, <2>1
    <3>. QED
      BY <3>1 DEF Nested
  <2>2. CASE i # Len(stack) - 1
    <3>1. i \in 1 .. Len(stack) - 1 /\ i + 1 \in 1 .. Len(stack) - 1
      BY <1>2, <2>2
    <3>. QED
      BY <1>1, <3>1 DEF StackInv
  <2>. QED
    BY <2>1, <2>2
<1>5. StackInv'
  BY <1>1, <1>3, <1>4 DEF StackInv
<1>6. ReadsInv'
  BY <1>1, <1>2 DEF ReadsInv
<1>. QED
  BY <1>1, <1>5, <1>6 DEF Top

\* It makes the call g.
LEMMA Calling ==
    ASSUME TypeOK, StackInv, ReadsInv, stack # <<>>, NEW g \in FrameType, FrameOK(g),
           Nested(Top, g), stack' = Append(stack, g), ReadsTrue(driver, g), driver' = driver
    PROVE  /\ stack' \in Seq(FrameType) /\ StackInv' /\ ReadsInv' /\ stack' # <<>> /\ Top' = g
           /\ Len(stack') = Len(stack) + 1
<1>1. /\ stack' \in Seq(FrameType) /\ stack' # <<>> /\ Len(stack') = Len(stack) + 1
      /\ Last(stack') = g /\ stack'[Len(stack) + 1] = g
      /\ \A i \in 1 .. Len(stack) : stack'[i] = stack[i]
  BY PushOn DEF TypeOK
<1>2. Top = stack[Len(stack)] /\ Len(stack) \in Nat \ {0}
  BY TopFacts
<1>3. \A i \in 1 .. Len(stack) + 1 : FrameOK(stack'[i])
  BY <1>1, <1>2 DEF StackInv
<1>4. ASSUME NEW i \in 1 .. Len(stack)
      PROVE  Nested(stack'[i], stack'[i + 1])
  <2>1. CASE i = Len(stack)
    BY <1>1, <1>2, <2>1
  <2>2. CASE i # Len(stack)
    <3>1. i \in 1 .. Len(stack) - 1 /\ i + 1 \in 1 .. Len(stack)
      BY <1>2, <2>2
    <3>. QED
      BY <1>1, <3>1 DEF StackInv
  <2>. QED
    BY <2>1, <2>2
<1>5. Len(stack') - 1 = Len(stack)
  BY <1>1, <1>2
<1>6. StackInv'
  BY <1>1, <1>3, <1>4, <1>5 DEF StackInv
<1>7. ReadsInv'
  BY <1>1, <1>2 DEF ReadsInv
<1>. QED
  BY <1>1, <1>6, <1>7 DEF Top

\* It returns, and the caller goes on to f.
LEMMA Returning ==
    ASSUME TypeOK, StackInv, ReadsInv, stack # <<>>, Len(stack) # 1, NEW f \in FrameType,
           stack' = Append(Front(Front(stack)), f), FrameOK(f),
           f.api = stack[Len(stack) - 1].api, f.torn = stack[Len(stack) - 1].torn,
           ReadsTrue(driver, f), driver' = driver
    PROVE  /\ stack' \in Seq(FrameType) /\ StackInv' /\ ReadsInv' /\ stack' # <<>> /\ Top' = f
           /\ Len(stack') = Len(stack) - 1
<1>1. /\ stack' \in Seq(FrameType) /\ stack' # <<>> /\ Len(stack') = Len(stack) - 1
      /\ Last(stack') = f /\ stack'[Len(stack) - 1] = f
      /\ \A i \in 1 .. Len(stack) - 2 : stack'[i] = stack[i]
  BY PopTop DEF TypeOK
<1>2. Len(stack) \in Nat \ {0}
  BY TopFacts
<1>3. \A i \in 1 .. Len(stack) - 1 : FrameOK(stack'[i])
  BY <1>1, <1>2 DEF StackInv
<1>4. ASSUME NEW i \in 1 .. Len(stack) - 2
      PROVE  Nested(stack'[i], stack'[i + 1])
  <2>1. CASE i = Len(stack) - 2
    <3>1. /\ Nested(stack[i], stack[i + 1]) /\ i + 1 = Len(stack) - 1
          /\ stack'[i] = stack[i] /\ stack'[i + 1] = f
      BY <1>1, <1>2, <2>1 DEF StackInv
    <3>. QED
      BY <3>1 DEF Nested
  <2>2. CASE i # Len(stack) - 2
    <3>1. i \in 1 .. Len(stack) - 2 /\ i + 1 \in 1 .. Len(stack) - 2
      BY <1>2, <2>2
    <3>. QED
      BY <1>1, <1>2, <3>1 DEF StackInv
  <2>. QED
    BY <2>1, <2>2
<1>5. Len(stack') - 1 = Len(stack) - 2
  BY <1>1, <1>2
<1>6. StackInv'
  BY <1>1, <1>3, <1>4, <1>5 DEF StackInv
<1>7. ReadsInv'
  BY <1>1, <1>2 DEF ReadsInv
<1>. QED
  BY <1>1, <1>6, <1>7 DEF Top

-----------------------------------------------------------------------------
(* What a step has to show for the invariant.                              *)

Others == <<soc, driver, leaked, acked, returned>>

\* A call that goes on to f inside the wrapper.
LEMMA OnKeeps ==
    ASSUME Inv, stack # <<>>, NEW f \in FrameType, FrameOK(f), Becomes(f),
           f.api = Top.api, f.torn = Top.torn, ReadsTrue(driver, f), UNCHANGED Others,
           handle' \in HandleType, handle'.depth = handle.depth, socReg' \in [Setter -> Value],
           \A s \in Setter : s # f.api => handle'.reg[s] = handle.reg[s] /\ socReg'[s] = socReg[s],
           f.api \in Setter => MaskOK(handle', socReg', f),
           f.api = Destroy => DestroyOK(handle', f),
           f.api # Destroy => handle'.live = handle.live
    PROVE  Inv'
<1>1. /\ stack' \in Seq(FrameType) /\ StackInv' /\ ReadsInv' /\ stack' # <<>> /\ Top' = f
      /\ Len(stack') = Len(stack)
  BY GoesOn DEF Inv, Others
<1>2. handle # NoHandle /\ handle \in HandleType /\ handle.depth = Len(stack) /\ handle' # NoHandle
  BY Running, HandleAssumption
<1>3. TypeOK'
  BY <1>1 DEF Inv, TypeOK, Others
<1>4. HandleInv'
  BY <1>1, <1>2 DEF Inv, HandleInv, Busy, Others
<1>5. returned' \in ReturnedType /\ LinkStatusTrue' /\ DestroySaysFreed'
  BY DEF Inv, LinkStatusTrue, DestroySaysFreed, Others
<1>. QED
  BY <1>1, <1>3, <1>4, <1>5 DEF Inv

\* .. that leaves handle and SoC library alone.
LEMMA OnPlain ==
    ASSUME Inv, stack # <<>>, NEW f \in FrameType, FrameOK(f), Becomes(f),
           f.api = Top.api, f.torn = Top.torn, ReadsTrue(driver, f), UNCHANGED Others,
           UNCHANGED <<handle, socReg>>,
           f.api \in Setter => MaskOK(handle, socReg, f),
           f.api = Destroy => DestroyOK(handle, f)
    PROVE  Inv'
<1>1. handle \in HandleType /\ socReg \in [Setter -> Value]
  BY Running DEF Inv, TypeOK
<1>. QED
  BY <1>1, OnKeeps

\* The frame of a new call.
LEMMA NewFrame ==
    ASSUME Inv, NEW h \in HandleType, NEW api \in API, NEW arg \in Value \cup {NoHandle},
           api \in Setter => arg \in Value
    PROVE  /\ Frame(h, api, arg) \in FrameType /\ FrameOK(Frame(h, api, arg))
           /\ Frame(h, api, arg).api = api /\ Frame(h, api, arg).pc = "before"
           /\ ~Frame(h, api, arg).torn /\ ReadsTrue(driver, Frame(h, api, arg))
<1>. DEFINE f == Frame(h, api, arg)
<1>1. /\ f.api = api /\ f.arg = arg /\ f.pc = "before" /\ f.genRet = "SUCCESS" /\ f.value = FALSE
      /\ f.status = "DISABLED" /\ f.next = 1 /\ f.ran = <<>> /\ ~f.unset /\ ~f.torn
      /\ f.socRet \in Result /\ f.found \in BOOLEAN
  BY DEF Frame, Lookup, Result, SocAnswer, Found, SocEnabled, HandleType
<1>2. f \in FrameType
  <2>1. <<>> \in Seq({"soc", "generic"} \X Result)
    OBVIOUS
  <2>. QED
    BY <1>1, <2>1 DEF Frame, FrameType, Result, SocAnswer, LinkStatus
<1>. HIDE DEF f
<1>3. FrameOK(f)
  BY <1>1 DEF FrameOK, RanOK
<1>4. ReadsTrue(driver, f)
  BY <1>1 DEF ReadsTrue
<1>. QED
  BY <1>1, <1>2, <1>3, <1>4 DEF f

\* A call of a composite API that makes a nested one.
LEMMA InKeeps ==
    ASSUME Inv, stack # <<>>, NEW api \in API, Enter(handle, api, NoHandle),
           Top.pc = "generic", Top.api \notin Setter, Top.api # Destroy,
           \/ Top.api = LinkAPI /\ api = LinkChecks[Top.next].api
           \/ Top.api = IfaceAPI /\ Top.next = 1 /\ api = "RMH_Interface_GetName",
           api \notin Setter, api # Destroy,
           UNCHANGED <<soc, socReg, driver, leaked, acked, returned>>
    PROVE  Inv'
<1>1. handle # NoHandle /\ handle \in HandleType /\ handle.depth = Len(stack) /\ leaked < MaxLeaks
  BY Running
<1>. DEFINE g == Frame(handle, api, NoHandle)
<1>2. /\ g \in FrameType /\ FrameOK(g) /\ g.api = api /\ ~g.torn /\ ReadsTrue(driver, g)
  BY <1>1, NewFrame
<1>3. stack' = Append(stack, g) /\ handle' = Deeper(handle)
  BY DEF Enter
<1>. HIDE DEF g
<1>4. Nested(Top, g)
  BY <1>2 DEF Nested
<1>5. /\ stack' \in Seq(FrameType) /\ StackInv' /\ ReadsInv' /\ stack' # <<>> /\ Top' = g
      /\ Len(stack') = Len(stack) + 1
  BY <1>2, <1>3, <1>4, Calling DEF Inv
<1>6. Len(stack) \in Nat
  BY TopFacts DEF Inv
<1>7. /\ handle' \in HandleType /\ handle' # NoHandle /\ handle'.depth = Len(stack')
      /\ handle'.reg = handle.reg /\ handle'.live = handle.live
  BY <1>1, <1>3, <1>5, <1>6, HandleAssumption DEF Deeper, HandleType
<1>8. TypeOK'
  BY <1>5, <1>7 DEF Inv, TypeOK
<1>9. HandleInv'
  BY <1>1, <1>2, <1>5, <1>7 DEF Inv, HandleInv, Busy
<1>10. returned' \in ReturnedType /\ LinkStatusTrue' /\ DestroySaysFreed'
  BY DEF Inv, LinkStatusTrue, DestroySaysFreed
<1>. QED
  BY <1>5, <1>8, <1>9, <1>10 DEF Inv

-----------------------------------------------------------------------------
(* The client's steps.                                                     *)

\* A new instance.
LEMMA NewHandleType ==
    \A lib, open \in BOOLEAN :
        /\ NewHandle(lib, open) \in HandleType /\ NewHandle(lib, open).depth = 0
        /\ NewHandle(lib, open).live
<1>1. (CHOOSE v \in Value : TRUE) \in Value
  BY WrapAssumption
<1>. QED
  BY <1>1 DEF NewHandle, HandleType

\* apiDepth is the only field PreAPIExecute and PostAPIExecute change.
LEMMA Counted ==
    \A h \in HandleType :
        /\ Deeper(h) \in HandleType /\ Deeper(h).depth = h.depth + 1
        /\ Deeper(h).reg = h.reg /\ Deeper(h).live = h.live
        /\ h.depth # 0 => Shallower(h) \in HandleType
        /\ Shallower(h).depth = h.depth - 1
        /\ Shallower(h).reg = h.reg /\ Shallower(h).live = h.live
  BY DEF Deeper, Shallower, HandleType

\* The first frame of a call of the client.
LEMMA FirstCall ==
    ASSUME Inv, NEW h \in HandleType, NEW api \in API, NEW arg \in Value \cup {NoHandle},
           api \in Setter => arg \in Value,
           stack = <<>>, h.depth = 0, h.live, leaked < MaxLeaks,
           \A s \in Setter : acked'[s] => s = api \/ h.reg[s] = socReg[s],
           acked' \in [Setter -> BOOLEAN],
           Enter(h, api, arg), returned' = NoCall, UNCHANGED <<soc, socReg, driver, leaked>>
    PROVE  Inv'
<1>. DEFINE g == Frame(h, api, arg)
<1>1. /\ g \in FrameType /\ FrameOK(g) /\ g.api = api /\ g.pc = "before" /\ ReadsTrue(driver, g)
  BY NewFrame
<1>2. stack' = <<g>> /\ handle' = Deeper(h)
  BY DEF Enter
<1>. HIDE DEF g
<1>3. /\ stack' \in Seq(FrameType) /\ stack' # <<>> /\ Top' = g /\ Len(stack') = 1
      /\ StackInv' /\ ReadsInv'
  BY <1>1, <1>2 DEF Top, Last, StackInv, ReadsInv
<1>4. /\ handle' \in HandleType /\ handle' # NoHandle /\ handle'.depth = 1
      /\ handle'.reg = h.reg /\ handle'.live = h.live
  <2>1. /\ Deeper(h) \in HandleType /\ Deeper(h).depth = h.depth + 1
        /\ Deeper(h).reg = h.reg /\ Deeper(h).live = h.live
    BY Counted, Zenon
  <2>2. handle' \in HandleType /\ handle'.depth = 1 /\ handle'.reg = h.reg /\ handle'.live = h.live
    BY <1>2, <2>1
  <2>. QED
    BY <2>2, HandleAssumption
<1>5. TypeOK'
  BY <1>3, <1>4 DEF Inv, TypeOK
<1>6. HandleInv'
  BY <1>1, <1>3, <1>4 DEF HandleInv, Busy, MaskOK, DestroyOK
<1>7. returned' \in ReturnedType /\ LinkStatusTrue' /\ DestroySaysFreed'
  BY DEF LinkStatusTrue, DestroySaysFreed, NoCall, ReturnedType, Result, SocAnswer, LinkStatus
<1>. QED
  BY <1>3, <1>5, <1>6, <1>7 DEF Inv

LEMMA CallStep ==
    ASSUME Inv, NEW api \in API, NEW arg \in Value \cup {NoHandle}, Call(api, arg),
           api \in Setter => arg \in Value
    PROVE  Inv'
<1>1. /\ stack = <<>> /\ handle # NoHandle /\ handle \in HandleType /\ handle.depth = 0
      /\ handle.live /\ leaked < MaxLeaks /\ acked' = acked /\ acked \in [Setter -> BOOLEAN]
      /\ \A s \in Setter : acked[s] => handle.reg[s] = socReg[s]
  BY DEF Call, Inv, HandleInv, TypeOK, Busy
<1>. QED
  BY <1>1, FirstCall DEF Call

LEMMA InitializeFailsStep == ASSUME Inv, InitializeFails PROVE Inv'
<1>1. /\ stack = <<>> /\ leaked < MaxLeaks /\ acked' = [s \in Setter |-> FALSE]
      /\ returned' = NoCall /\ UNCHANGED <<soc, socReg, driver, leaked>>
  BY DEF InitializeFails, MayInitialize, Inv, HandleInv
<1>2. PICK lib \in BOOLEAN : Enter(NewHandle(lib, FALSE), "RMH_Destroy", NoHandle)
  BY DEF InitializeFails
<1>3. /\ NewHandle(lib, FALSE) \in HandleType /\ NewHandle(lib, FALSE).depth = 0
      /\ NewHandle(lib, FALSE).live /\ "RMH_Destroy" \in API \ Setter
  BY NewHandleType DEF API, Setter
<1>. QED
  BY <1>1, <1>2, <1>3, FirstCall

LEMMA InitializeStep == ASSUME Inv, Initialize PROVE Inv'
<1>1. /\ stack = <<>> /\ stack' = stack /\ leaked < MaxLeaks /\ acked' = [s \in Setter |-> FALSE]
      /\ returned' = NoCall /\ UNCHANGED <<soc, socReg, driver, leaked>>
  BY DEF Initialize, MayInitialize, Inv, HandleInv
<1>2. /\ handle' \in HandleType /\ handle'.depth = 0 /\ handle'.live
  <2>1. soc.lib \in BOOLEAN /\ (soc.lib /\ soc.init = "works") \in BOOLEAN
    BY DEF Inv, TypeOK
  <2>. QED
    BY <2>1, NewHandleType DEF Initialize
<1>3. TypeOK'
  BY <1>1, <1>2 DEF Inv, TypeOK
<1>4. StackInv' /\ ReadsInv' /\ HandleInv'
  BY <1>1, <1>2, HandleAssumption DEF StackInv, ReadsInv, HandleInv, Busy
<1>5. returned' \in ReturnedType /\ LinkStatusTrue' /\ DestroySaysFreed'
  BY <1>1 DEF LinkStatusTrue, DestroySaysFreed, NoCall, ReturnedType, Result, SocAnswer, LinkStatus
<1>. QED
  BY <1>3, <1>4, <1>5 DEF Inv

-----------------------------------------------------------------------------
(* Steps inside a wrapper.                                                 *)

\* The kinds of API.
LEMMA Kinds ==
    ASSUME NEW api \in API
    PROVE  /\ api \in Getter => SocEnabled(api) /\ ~GenericEnabled(api) /\ ~SocBeforeGeneric(api)
           /\ api \in Setter => SocEnabled(api) /\ GenericEnabled(api) /\ ~SocBeforeGeneric(api)
                                  /\ api # Destroy /\ api \notin Getter
           /\ api \in Composite => ~SocEnabled(api) /\ GenericEnabled(api) /\ ~SocBeforeGeneric(api)
           /\ SocBeforeGeneric(api) <=> api = Destroy
           /\ api = Destroy => SocEnabled(api) /\ GenericEnabled(api) /\ api \notin Getter
           /\ api \in {LinkAPI, IfaceAPI} => api \in Composite /\ api \notin Getter
  BY DEF API, Getter, Setter, Composite, SocEnabled, GenericEnabled, SocBeforeGeneric, Destroy,
         LinkAPI, IfaceAPI

LEMMA SkipStep == ASSUME Inv, Skip PROVE Inv'
<1>1. stack # <<>> /\ UNCHANGED Others /\ UNCHANGED <<handle, socReg>>
  BY DEF Skip, At, Others
<1>2. /\ Top \in FrameType /\ FrameOK(Top) /\ ReadsTrue(driver, Top) /\ Top.api \in API
      /\ Top.api \in Setter => MaskOK(handle, socReg, Top)
      /\ Top.api = Destroy => DestroyOK(handle, Top)
  BY <1>1, Running DEF Inv, HandleInv, Busy, FrameType
<1>3. PICK place \in {"generic", "after", "exit"} :
         /\ Becomes([Top EXCEPT !.pc = place])
         /\ place = "generic" => Top.pc = "before"
         /\ place = "after" => Top.pc = "generic" /\ ~RunsGeneric(Top)
         /\ place = "exit" => Top.pc = "after" /\ ~RunsAfter(Top)
  BY DEF Skip, At
<1>. DEFINE f == [Top EXCEPT !.pc = place]
<1>4. /\ f \in FrameType /\ f.api = Top.api /\ f.torn = Top.torn /\ f.pc = place
      /\ f.socRet = Top.socRet /\ f.genRet = Top.genRet /\ f.ran = Top.ran /\ f.value = Top.value
      /\ f.status = Top.status /\ f.next = Top.next /\ f.unset = Top.unset /\ f.arg = Top.arg
  BY <1>2 DEF FrameType
<1>5. Becomes(f)
  BY <1>3
<1>. HIDE DEF f
<1>6. FrameOK(f)
  <2>1. RanOK(f)
    BY <1>2, <1>3, <1>4 DEF FrameOK, RanOK
  <2>. QED
    BY <1>2, <1>3, <1>4, <2>1, Kinds DEF FrameOK
<1>7. ReadsTrue(driver, f)
  <2>1. CASE f.api \in Getter
    <3>1. place = "exit" => Top.socRet # "SUCCESS"
      BY <1>2, <1>3, <1>4, <2>1, Kinds DEF RunsAfter, FrameOK
    <3>. QED
      BY <1>2, <1>3, <1>4, <2>1, <3>1 DEF ReadsTrue, Getter, LinkAPI, IfaceAPI
  <2>2. CASE f.api \in {LinkAPI, IfaceAPI}
    <3>1. place # "after"
      BY <1>2, <1>3, <1>4, <2>2, Kinds DEF RunsGeneric
    <3>. QED
      BY <1>2, <1>3, <1>4, <2>2, <3>1 DEF ReadsTrue, LinkAPI, IfaceAPI
  <2>3. CASE f.api \notin Getter \cup {LinkAPI, IfaceAPI}
    BY <2>3 DEF ReadsTrue, Getter, LinkAPI, IfaceAPI
  <2>. QED
    BY <2>1, <2>2, <2>3
<1>8. f.api \in Setter => MaskOK(handle, socReg, f)
  <2>1. Top.api \in Setter => place # "after"
    BY <1>2, <1>3, Kinds DEF RunsGeneric
  <2>2. Top.api \in Setter /\ place = "exit" => ~(Top.socRet = "SUCCESS" /\ Top.genRet = "SUCCESS")
    BY <1>2, <1>3, Kinds DEF RunsAfter
  <2>. QED
    BY <1>2, <1>3, <1>4, <2>1, <2>2 DEF MaskOK
<1>9. f.api = Destroy => DestroyOK(handle, f)
  <2>1. Top.api = Destroy /\ place = "after" => Top.socRet # "SUCCESS"
    BY <1>2, <1>3, Kinds DEF RunsGeneric
  <2>. QED
    BY <1>2, <1>3, <1>4, <2>1 DEF DestroyOK
<1>. QED
  BY <1>1, <1>4, <1>5, <1>6, <1>7, <1>8, <1>9, OnPlain

\* One more half has run.
LEMMA RanMore ==
    ASSUME NEW s \in Seq({"soc", "generic"} \X Result),
           NEW e \in {"soc", "generic"} \X Result
    PROVE  /\ Append(s, e) \in Seq({"soc", "generic"} \X Result)
           /\ Len(Append(s, e)) = Len(s) + 1 /\ Append(s, e)[Len(s) + 1] = e
           /\ Len(s) \in Nat
           /\ \A i \in 1 .. Len(s) : Append(s, e)[i] = s[i]
  OBVIOUS

LEMMA SocStep ==
    ASSUME Inv, NEW r \in SocAnswer, SocBefore(r) \/ SocAfter(r)
    PROVE  Inv'
<1>1. stack # <<>>
  BY DEF SocBefore, SocAfter, At
<1>2. /\ Top \in FrameType /\ FrameOK(Top) /\ ReadsTrue(driver, Top) /\ Top.api \in API
      /\ handle \in HandleType
      /\ Top.api \in Setter => MaskOK(handle, socReg, Top)
      /\ Top.api = Destroy => DestroyOK(handle, Top)
  BY <1>1, Running DEF Inv, HandleInv, Busy, FrameType
<1>3. PICK place \in {"generic", "exit"} :
         /\ SocAnswers(Top, r, place)
         /\ place = "generic" => Top.pc = "before" /\ RunsBefore(Top)
         /\ place = "exit" => Top.pc = "after" /\ RunsAfter(Top)
  BY DEF SocBefore, SocAfter, At
<1>. DEFINE value == CASE r # "SUCCESS" -> Top.value
                       [] Top.api = "RMH_Self_GetEnabled" -> driver.enabled
                       [] Top.api = "RMH_Self_GetMoCALinkUp" -> driver.link
                       [] OTHER -> Top.value
            ran == Append(Top.ran, <<"soc", r>>)
            f == [Top EXCEPT !.pc = place, !.socRet = r, !.ran = ran, !.value = value]
<1>4. /\ value \in BOOLEAN
      /\ r = "SUCCESS" /\ Top.api = "RMH_Self_GetEnabled" => value = driver.enabled
      /\ r = "SUCCESS" /\ Top.api = "RMH_Self_GetMoCALinkUp" => value = driver.link
  BY <1>2 DEF FrameType, Inv, TypeOK
<1>5. r \in Result /\ <<"soc", r>> \in {"soc", "generic"} \X Result
  BY DEF Result
<1>6. /\ ran \in Seq({"soc", "generic"} \X Result) /\ Len(ran) = Len(Top.ran) + 1
      /\ ran[Len(Top.ran) + 1] = <<"soc", r>> /\ Len(Top.ran) \in Nat
      /\ \A i \in 1 .. Len(Top.ran) : ran[i] = Top.ran[i]
  BY <1>2, <1>5, RanMore DEF FrameType
<1>7. Becomes(f) /\ UNCHANGED Others /\ handle' = handle
  BY <1>3 DEF SocAnswers, Others
<1>8. /\ socReg' = IF r = "SUCCESS" /\ Top.api \in Setter
                     THEN [socReg EXCEPT ![Top.api] = Top.arg] ELSE socReg
      /\ socReg \in [Setter -> Value]
  BY <1>3 DEF SocAnswers, Inv, TypeOK
<1>. HIDE DEF value, ran
<1>9. /\ f \in FrameType /\ f.api = Top.api /\ f.torn = Top.torn /\ f.pc = place
      /\ f.socRet = r /\ f.genRet = Top.genRet /\ f.ran = ran /\ f.value = value
      /\ f.status = Top.status /\ f.next = Top.next /\ f.unset = Top.unset /\ f.arg = Top.arg
  BY <1>2, <1>4, <1>5, <1>6 DEF FrameType
<1>. HIDE DEF f
<1>10. /\ Top.socRet = "SUCCESS" /\ (place = "exit" => Top.genRet = "SUCCESS")
       /\ SocEnabled(Top.api) /\ (place = "generic" <=> SocBeforeGeneric(Top.api))
  BY <1>3 DEF RunsBefore, RunsAfter
<1>11. FrameOK(f)
  <2>1. \A j \in 1 .. Len(Top.ran) : Top.ran[j] = <<"generic", Top.genRet>> /\ place = "exit"
    BY <1>2, <1>3, <1>10 DEF FrameOK, RanOK
  <2>2. \A j \in 1 .. Len(ran) : \/ ran[j] = <<"soc", r>>
                                 \/ ran[j] = <<"generic", Top.genRet>> /\ place = "exit"
    BY <1>6, <2>1
  <2>3. \A j \in 1 .. Len(ran) - 1 : ran[j][2] = "SUCCESS"
    BY <1>6, <1>10, <2>1
  <2>4. RanOK(f)
    BY <1>3, <1>9, <1>10, <2>2, <2>3 DEF RanOK
  <2>. QED
    BY <1>2, <1>3, <1>9, <1>10, <2>4 DEF FrameOK
<1>12. ReadsTrue(driver, f)
  <2>1. Top.api \notin {LinkAPI, IfaceAPI}
    BY <1>2, <1>10, Kinds
  <2>. QED
    BY <1>4, <1>9, <2>1 DEF ReadsTrue
<1>13. f.api \in Setter => MaskOK(handle, socReg', f)
  BY <1>2, <1>3, <1>8, <1>9, <1>10, Kinds DEF MaskOK
<1>14. f.api = Destroy => DestroyOK(handle, f)
  BY <1>2, <1>3, <1>9, <1>10, Kinds DEF DestroyOK
<1>15. socReg' \in [Setter -> Value]
  <2>1. Top.api \in Setter => Top.arg \in Value
    BY <1>2 DEF FrameOK
  <2>. QED
    BY <1>8, <2>1
<1>16. \A s \in Setter : s # f.api => socReg'[s] = socReg[s]
  BY <1>8, <1>9
<1>. QED
  BY <1>1, <1>2, <1>7, <1>9, <1>11, <1>12, <1>13, <1>14, <1>15, <1>16, OnKeeps

-----------------------------------------------------------------------------
(* Steps of the generic halves.                                            *)

\* A call at its generic half.
LEMMA AtGeneric ==
    ASSUME Inv, At("generic"), RunsGeneric(Top)
    PROVE  /\ stack # <<>> /\ Top \in FrameType /\ FrameOK(Top) /\ ReadsTrue(driver, Top)
           /\ Top.pc = "generic" /\ Top.api \in API /\ Top.api \notin Getter
           /\ handle \in HandleType
           /\ Top.api = Destroy => handle.live /\ Top.socRet = "SUCCESS"
           /\ Top.ran = <<>> \/ Top.socRet = "SUCCESS"
<1>1. stack # <<>> /\ Top.pc = "generic"
  BY DEF At
<1>2. /\ Top \in FrameType /\ FrameOK(Top) /\ ReadsTrue(driver, Top) /\ Top.api \in API
      /\ handle \in HandleType /\ Top.ran \in Seq({"soc", "generic"} \X Result)
  BY <1>1, Running DEF FrameType
<1>3. Top.api \notin Getter
  BY <1>2, Kinds DEF RunsGeneric
<1>4. Top.api = Destroy => handle.live /\ Top.socRet = "SUCCESS"
  BY <1>1, <1>2, Kinds DEF Inv, HandleInv, Busy, DestroyOK, RunsGeneric
<1>5. ASSUME ~SocBeforeGeneric(Top.api)
      PROVE  Top.ran = <<>>
  <2>1. ~(\E j \in 1 .. Len(Top.ran) : TRUE)
    BY <1>1, <1>2, <1>5 DEF FrameOK, RanOK
  <2>. QED
    BY <1>2, <2>1
<1>. QED
  BY <1>1, <1>2, <1>3, <1>4, <1>5, Kinds

\* What the frame of a generic function that returned r is.
LEMMA ReturnedFrame ==
    ASSUME NEW f \in FrameType, NEW r \in Result, FrameOK(f), f.pc = "generic",
           f.api \notin Getter, f.ran = <<>> \/ f.socRet = "SUCCESS"
    PROVE  /\ Returned(f, r) \in FrameType /\ FrameOK(Returned(f, r))
           /\ Returned(f, r).api = f.api /\ Returned(f, r).arg = f.arg
           /\ Returned(f, r).pc = "after" /\ Returned(f, r).genRet = r
           /\ Returned(f, r).socRet = f.socRet /\ Returned(f, r).torn = f.torn
           /\ Returned(f, r).unset = f.unset /\ Returned(f, r).value = f.value
           /\ Returned(f, r).status = f.status /\ Returned(f, r).next = f.next
<1>. DEFINE g == Returned(f, r)
            ran == Append(f.ran, <<"generic", r>>)
<1>1. <<"generic", r>> \in {"soc", "generic"} \X Result
  OBVIOUS
<1>2. /\ ran \in Seq({"soc", "generic"} \X Result) /\ Len(ran) = Len(f.ran) + 1
      /\ ran[Len(f.ran) + 1] = <<"generic", r>> /\ Len(f.ran) \in Nat
      /\ \A i \in 1 .. Len(f.ran) : ran[i] = f.ran[i]
  BY <1>1, RanMore DEF FrameType
<1>. HIDE DEF ran
<1>3. /\ g \in FrameType /\ g.api = f.api /\ g.arg = f.arg /\ g.pc = "after" /\ g.genRet = r
      /\ g.socRet = f.socRet /\ g.torn = f.torn /\ g.unset = f.unset /\ g.value = f.value
      /\ g.status = f.status /\ g.next = f.next /\ g.ran = ran
  BY <1>2 DEF Returned, FrameType, ran
<1>. HIDE DEF g
<1>4. \A j \in 1 .. Len(f.ran) : f.ran[j] = <<"soc", f.socRet>> /\ SocBeforeGeneric(f.api)
  BY DEF FrameOK, RanOK
<1>5. f.ran = <<>> => Len(f.ran) = 0
  OBVIOUS
<1>6. \A j \in 1 .. Len(f.ran) : f.ran[j][2] = "SUCCESS"
  BY <1>4, <1>5
<1>7. \A j \in 1 .. Len(ran) - 1 : ran[j][2] = "SUCCESS"
  BY <1>2, <1>6
<1>8. \A j \in 1 .. Len(ran) : \/ ran[j] = <<"soc", f.socRet>> /\ SocBeforeGeneric(f.api)
                               \/ ran[j] = <<"generic", r>>
  BY <1>2, <1>4
<1>9. RanOK(g)
  BY <1>3, <1>7, <1>8 DEF RanOK
<1>10. FrameOK(g)
  BY <1>3, <1>9 DEF FrameOK
<1>. QED
  BY <1>3, <1>10 DEF g

LEMMA NotCalledStep == ASSUME Inv, GenericNotCalled PROVE Inv'
<1>1. /\ At("generic") /\ RunsGeneric(Top) /\ UNCHANGED Others /\ UNCHANGED <<handle, socReg>>
      /\ Becomes([Top EXCEPT !.pc = "after", !.genRet = "UNIMPLEMENTED"])
  BY DEF GenericNotCalled, Others
<1>2. /\ stack # <<>> /\ Top \in FrameType /\ FrameOK(Top) /\ ReadsTrue(driver, Top)
      /\ Top.pc = "generic" /\ Top.api \notin Getter /\ handle \in HandleType
      /\ Top.api = Destroy => handle.live
  BY <1>1, AtGeneric
<1>. DEFINE f == [Top EXCEPT !.pc = "after", !.genRet = "UNIMPLEMENTED"]
<1>3. /\ f \in FrameType /\ f.api = Top.api /\ f.arg = Top.arg /\ f.pc = "after"
      /\ f.genRet = "UNIMPLEMENTED" /\ f.socRet = Top.socRet /\ f.torn = Top.torn
      /\ f.ran = Top.ran
  BY <1>2 DEF FrameType, Result
<1>4. Becomes(f)
  BY <1>1
<1>. HIDE DEF f
<1>5. FrameOK(f)
  <2>1. RanOK(f)
    BY <1>2, <1>3 DEF FrameOK, RanOK
  <2>. QED
    BY <1>2, <1>3, <2>1 DEF FrameOK
<1>6. ReadsTrue(driver, f)
  BY <1>2, <1>3 DEF ReadsTrue, Getter
<1>7. MaskOK(handle, socReg, f)
  BY <1>3 DEF MaskOK
<1>8. f.api = Destroy => DestroyOK(handle, f)
  BY <1>2, <1>3 DEF DestroyOK
<1>. QED
  BY <1>1, <1>2, <1>3, <1>4, <1>5, <1>6, <1>7, <1>8, OnPlain

LEMMA SetsStep == ASSUME Inv, NEW s \in Setter, GenericSets(s) PROVE Inv'
<1>1. /\ At("generic") /\ RunsGeneric(Top) /\ Top.api = s /\ UNCHANGED Others /\ socReg' = socReg
      /\ handle' = [handle EXCEPT !.reg[s] = Top.arg] /\ Becomes(Returned(Top, "SUCCESS"))
  BY DEF GenericSets, InGeneric, Others
<1>2. /\ stack # <<>> /\ Top \in FrameType /\ FrameOK(Top) /\ Top.pc = "generic"
      /\ Top.api \notin Getter /\ handle \in HandleType /\ Top.arg \in Value
      /\ Top.ran = <<>> \/ Top.socRet = "SUCCESS"
  BY <1>1, AtGeneric DEF FrameOK
<1>. DEFINE f == Returned(Top, "SUCCESS")
<1>3. "SUCCESS" \in Result
  BY DEF Result, SocAnswer
<1>4. /\ f \in FrameType /\ FrameOK(f) /\ f.api = s /\ f.arg = Top.arg /\ f.pc = "after"
      /\ f.torn = Top.torn
  BY <1>1, <1>2, <1>3, ReturnedFrame
<1>5. Becomes(f)
  BY <1>1
<1>. HIDE DEF f
<1>6. /\ handle' \in HandleType /\ handle'.depth = handle.depth /\ handle'.live = handle.live
      /\ handle'.reg[s] = Top.arg /\ \A t \in Setter : t # s => handle'.reg[t] = handle.reg[t]
  BY <1>1, <1>2 DEF HandleType
<1>7. s # Destroy /\ s \notin Getter \cup Composite
  BY DEF Setter, Getter, Composite, Destroy
<1>8. ReadsTrue(driver, f)
  BY <1>4, <1>7 DEF ReadsTrue, Getter, Composite, LinkAPI, IfaceAPI
<1>9. MaskOK(handle', socReg', f)
  BY <1>4, <1>6 DEF MaskOK
<1>10. socReg' \in [Setter -> Value]
  BY <1>1 DEF Inv, TypeOK
<1>. QED
  BY <1>1, <1>2, <1>4, <1>5, <1>6, <1>7, <1>8, <1>9, <1>10, OnKeeps

LEMMA DestroysStep == ASSUME Inv, GenericDestroys PROVE Inv'
<1>1. /\ At("generic") /\ RunsGeneric(Top) /\ Top.api = Destroy /\ UNCHANGED Others
      /\ socReg' = socReg
      /\ handle' = [handle EXCEPT !.live = FALSE] /\ Becomes(Returned(Top, "SUCCESS"))
  BY DEF GenericDestroys, InGeneric, Others, Destroy
<1>2. /\ stack # <<>> /\ Top \in FrameType /\ FrameOK(Top) /\ Top.pc = "generic"
      /\ Top.api \notin Getter /\ handle \in HandleType /\ Top.socRet = "SUCCESS"
  BY <1>1, AtGeneric
<1>. DEFINE f == Returned(Top, "SUCCESS")
<1>3. "SUCCESS" \in Result
  BY DEF Result, SocAnswer
<1>4. /\ f \in FrameType /\ FrameOK(f) /\ f.api = Destroy /\ f.pc = "after"
      /\ f.torn = Top.torn /\ f.genRet = "SUCCESS" /\ f.socRet = "SUCCESS"
  BY <1>1, <1>2, <1>3, ReturnedFrame
<1>5. Becomes(f)
  BY <1>1
<1>. HIDE DEF f
<1>6. /\ handle' \in HandleType /\ handle'.depth = handle.depth /\ ~handle'.live
      /\ handle'.reg = handle.reg
  BY <1>1, <1>2 DEF HandleType
<1>7. Destroy \notin Setter \cup Getter \cup Composite
  BY DEF Setter, Getter, Composite, Destroy
<1>8. ReadsTrue(driver, f)
  BY <1>4, <1>7 DEF ReadsTrue, Getter, Composite, LinkAPI, IfaceAPI
<1>9. DestroyOK(handle', f)
  BY <1>4, <1>6 DEF DestroyOK
<1>10. socReg' \in [Setter -> Value]
  BY <1>1 DEF Inv, TypeOK
<1>. QED
  BY <1>1, <1>2, <1>4, <1>5, <1>6, <1>7, <1>8, <1>9, <1>10, OnKeeps

LEMMA KernelStep ==
    ASSUME Inv, NEW up \in BOOLEAN, NEW r \in {"SUCCESS", "FAILURE"}, AsksKernel(up, r)
    PROVE  Inv'
<1>1. /\ At("generic") /\ RunsGeneric(Top) /\ Top.api = IfaceAPI /\ UNCHANGED Others
      /\ UNCHANGED <<handle, socReg>> /\ Becomes(Returned([Top EXCEPT !.value = up], r))
      /\ r = "SUCCESS" => Top.unset \/ up = driver.iface
  BY DEF AsksKernel, InGeneric, Others, IfaceAPI
<1>2. /\ stack # <<>> /\ Top \in FrameType /\ FrameOK(Top) /\ Top.pc = "generic"
      /\ Top.api \notin Getter /\ (Top.ran = <<>> \/ Top.socRet = "SUCCESS")
  BY <1>1, AtGeneric
<1>. DEFINE t == [Top EXCEPT !.value = up]
            f == Returned(t, r)
<1>3. r \in Result
  BY DEF Result, SocAnswer
<1>4. /\ t \in FrameType /\ t.api = Top.api /\ t.pc = Top.pc /\ t.ran = Top.ran /\ t.arg = Top.arg
      /\ t.socRet = Top.socRet /\ t.genRet = Top.genRet /\ t.torn = Top.torn
      /\ t.unset = Top.unset /\ t.value = up
  BY <1>2 DEF FrameType
<1>5. Becomes(f)
  BY <1>1
<1>. HIDE DEF t
<1>6. FrameOK(t)
  <2>1. RanOK(t)
    BY <1>2, <1>4 DEF FrameOK, RanOK
  <2>. QED
    BY <1>2, <1>4, <2>1 DEF FrameOK
<1>7. /\ f \in FrameType /\ FrameOK(f) /\ f.api = IfaceAPI /\ f.pc = "after" /\ f.value = up
      /\ f.torn = Top.torn /\ f.unset = Top.unset /\ f.genRet = r
  BY <1>1, <1>2, <1>3, <1>4, <1>6, ReturnedFrame
<1>. HIDE DEF f
<1>8. IfaceAPI \notin Setter /\ IfaceAPI # Destroy
  BY DEF IfaceAPI, Setter, Destroy
<1>9. ReadsTrue(driver, f)
  BY <1>1, <1>7 DEF ReadsTrue, LinkAPI, IfaceAPI
<1>. QED
  BY <1>1, <1>2, <1>5, <1>7, <1>8, <1>9, OnPlain

LEMMA AsksNextStep == ASSUME Inv, AsksNext PROVE Inv'
<1>1. /\ At("generic") /\ RunsGeneric(Top) /\ Top.api = LinkAPI
      /\ Enter(handle, LinkChecks[Top.next].api, NoHandle)
      /\ UNCHANGED <<soc, socReg, driver, leaked, acked, returned>>
  BY DEF AsksNext, InGeneric, LinkAPI
<1>2. stack # <<>> /\ Top \in FrameType /\ Top.pc = "generic" /\ Top.next \in 1 .. 3
  BY <1>1, AtGeneric DEF FrameType
<1>3. /\ LinkChecks[Top.next].api \in API /\ LinkChecks[Top.next].api \notin Setter
      /\ LinkChecks[Top.next].api # Destroy
  <2>1. LinkChecks[Top.next].api \in
          {"RMH_Self_GetEnabled", "RMH_Self_GetMoCALinkUp", "RMH_Interface_GetEnabled"}
    BY <1>2 DEF LinkChecks
  <2>. QED
    BY <2>1 DEF API, Setter, Getter, Composite, Destroy
<1>4. LinkAPI \notin Setter /\ LinkAPI # Destroy
  BY DEF LinkAPI, Setter, Destroy
<1>. QED
  BY <1>1, <1>2, <1>3, <1>4, InKeeps

LEMMA AsksNameStep == ASSUME Inv, AsksName PROVE Inv'
<1>1. /\ At("generic") /\ RunsGeneric(Top) /\ Top.api = IfaceAPI /\ Top.next = 1
      /\ Enter(handle, "RMH_Interface_GetName", NoHandle)
      /\ UNCHANGED <<soc, socReg, driver, leaked, acked, returned>>
  BY DEF AsksName, InGeneric, IfaceAPI
<1>2. stack # <<>> /\ Top.pc = "generic"
  BY <1>1, AtGeneric
<1>3. /\ "RMH_Interface_GetName" \in API \ Setter /\ "RMH_Interface_GetName" # Destroy
      /\ IfaceAPI \notin Setter /\ IfaceAPI # Destroy
  BY DEF API, Setter, Getter, Destroy, IfaceAPI
<1>. QED
  BY <1>1, <1>2, <1>3, InKeeps

-----------------------------------------------------------------------------
(* Returns and the driver.                                                 *)

\* The result is RMH_SUCCESS only if both halves' are.
LEMMA OutcomeSucceeds ==
    \A f : Outcome(f) = "SUCCESS" <=> f.socRet = "SUCCESS" /\ f.genRet = "SUCCESS"
  BY DEF Outcome

\* A composite that has not come to an end.
LEMMA Unfinished ==
    \A f : f.ran = <<>> /\ f.pc = "generic" /\ f.genRet = "SUCCESS" /\ f.api \notin Setter
              => FrameOK(f)
  BY DEF FrameOK, RanOK

\* The caller c knows what its nested call g has told it.
Told(c, g) == [c EXCEPT !.unset = @ \/ (Outcome(g) = "NOT_SUPPORTED"
                                         \/ (Outcome(g) = "SUCCESS" /\ g.unset))]

\* The call c goes on to f.
LeadsTo(c, f) == f \in FrameType /\ FrameOK(f) /\ f.api = c.api /\ f.torn = c.torn
                   /\ ReadsTrue(driver, f)

\* How the caller c goes on after its nested call g, which answered v.
LEMMA Resumed ==
    ASSUME NEW c \in FrameType, NEW g \in FrameType, NEW v \in BOOLEAN, FrameOK(c), FrameOK(g),
           Nested(c, g), g.pc = "exit", ReadsTrue(driver, c), ReadsTrue(driver, g),
           Outcome(g) = "NOT_SUPPORTED" \/ v = g.value, driver.enabled \in BOOLEAN,
           driver.link \in BOOLEAN, driver.iface \in BOOLEAN, c.ran = <<>>
    PROVE  LeadsTo(c, Resume(Told(c, g), Outcome(g), v))
<1>. DEFINE r == Outcome(g)
            b == c.unset \/ (r = "NOT_SUPPORTED" \/ (r = "SUCCESS" /\ g.unset))
            d == Told(c, g)
            f == Resume(d, r, v)
<1>1. /\ d \in FrameType /\ d.api = c.api /\ d.pc = "generic" /\ d.ran = <<>> /\ d.arg = c.arg
      /\ d.socRet = c.socRet /\ d.genRet = c.genRet /\ d.torn = c.torn /\ d.next = c.next
      /\ d.unset = b /\ d.next \in 1 .. 3 /\ d.status = c.status
  <2>1. b \in BOOLEAN /\ d = [c EXCEPT !.unset = b]
    BY DEF Told
  <2>. HIDE DEF b, d
  <2>. QED
    BY <2>1 DEF FrameType, Nested
<1>2. r \in Result
  BY DEF Outcome, FrameType
<1>3. (d.api = LinkAPI \/ d.api = IfaceAPI) /\ d.api \notin Getter \cup Setter
  BY <1>1 DEF Nested, LinkAPI, IfaceAPI, Getter, Setter
<1>4. FrameOK(d) /\ d.genRet = "SUCCESS"
  <2>1. d.genRet = "SUCCESS"
    BY <1>1 DEF FrameOK, Nested
  <2>. QED
    BY <1>1, <1>3, <2>1, Unfinished
<1>5. /\ r = "SUCCESS" <=> g.socRet = "SUCCESS" /\ g.genRet = "SUCCESS"
      /\ r = "NOT_SUPPORTED" \/ v = g.value
  BY OutcomeSucceeds
<1>6. b \in BOOLEAN /\ (~b => ~c.unset /\ r # "NOT_SUPPORTED" /\ (r = "SUCCESS" => ~g.unset))
  OBVIOUS
<1>7. f = Resume(d, r, v)
  OBVIOUS
<1>. HIDE DEF d, r, f, b
<1>8. CASE r \notin {"SUCCESS", "NOT_SUPPORTED"}
  <2>1. f = Returned(d, r)
    BY <1>7, <1>8 DEF Resume
  <2>2. /\ f \in FrameType /\ FrameOK(f) /\ f.api = c.api /\ f.torn = c.torn
        /\ f.pc = "after" /\ f.genRet = r
    BY <1>1, <1>2, <1>3, <1>4, <2>1, ReturnedFrame
  <2>3. ReadsTrue(driver, f)
    BY <1>1, <1>3, <1>8, <2>2 DEF ReadsTrue, LinkAPI, IfaceAPI
  <2>. QED
    BY <2>2, <2>3 DEF f, d, r, LeadsTo
<1>9. CASE r \in {"SUCCESS", "NOT_SUPPORTED"} /\ d.api = IfaceAPI
  <2>1. f = [d EXCEPT !.next = 2]
    BY <1>7, <1>9 DEF Resume, IfaceAPI
  <2>2. /\ f \in FrameType /\ f.api = d.api /\ f.torn = d.torn /\ f.pc = "generic"
        /\ f.ran = <<>> /\ f.genRet = d.genRet
    BY <1>1, <2>1 DEF FrameType
  <2>3. FrameOK(f)
    BY <1>3, <1>4, <2>2, Unfinished
  <2>4. ReadsTrue(driver, f)
    BY <1>9, <2>2 DEF ReadsTrue, LinkAPI, IfaceAPI
  <2>. QED
    BY <1>1, <2>2, <2>3, <2>4 DEF f, d, r, LeadsTo
<1>10. CASE r \in {"SUCCESS", "NOT_SUPPORTED"} /\ d.api = LinkAPI
  \* What the caller knows of the driver, and what it has just been told.
  <2>1. /\ c.api = LinkAPI /\ c.pc = "generic" /\ c.next \in 1 .. 3 /\ (g.torn => c.torn)
        /\ g.api = LinkChecks[c.next].api
    BY <1>1, <1>10 DEF Nested, LinkAPI, IfaceAPI
  <2>2. ~c.torn /\ ~b => /\ c.next > 1 => driver.enabled
                         /\ c.next > 2 => driver.link
    BY <1>6, <2>1 DEF ReadsTrue
  <2>3. /\ c.next = 1 => g.api = "RMH_Self_GetEnabled"
        /\ c.next = 2 => g.api = "RMH_Self_GetMoCALinkUp"
        /\ c.next = 3 => g.api = IfaceAPI
    BY <2>1 DEF LinkChecks, IfaceAPI
  <2>4. ~c.torn /\ ~b => /\ c.next = 1 => (v <=> driver.enabled)
                         /\ c.next = 2 => (v <=> driver.link)
                         /\ c.next = 3 => (v <=> driver.iface)
    <3>1. ~c.torn /\ ~b => r = "SUCCESS" /\ v = g.value /\ ~g.torn /\ ~g.unset
                             /\ g.socRet = "SUCCESS" /\ g.genRet = "SUCCESS"
      BY <1>5, <1>6, <1>10, <2>1
    <3>. QED
      BY <2>3, <3>1 DEF ReadsTrue
  <2>5. CASE ~v
    <3>. DEFINE e == [d EXCEPT !.status = LinkChecks[d.next].no]
    <3>1. LinkChecks[d.next].no = CASE d.next = 1 -> "DISABLED"
                                    [] d.next = 2 -> "NO_LINK"
                                    [] OTHER -> "INTERFACE_DOWN"
      BY <1>1 DEF LinkChecks
    <3>2. /\ e \in FrameType /\ e.api = d.api /\ e.torn = d.torn /\ e.pc = "generic"
          /\ e.ran = <<>> /\ e.arg = d.arg /\ e.unset = d.unset /\ e.next = d.next
          /\ e.socRet = d.socRet /\ e.genRet = d.genRet /\ e.status = LinkChecks[d.next].no
      BY <1>1, <3>1 DEF FrameType, LinkStatus
    <3>3. f = Returned(e, "SUCCESS")
      BY <1>7, <1>10, <2>5 DEF Resume, LinkAPI, IfaceAPI
    <3>. HIDE DEF e
    <3>4. FrameOK(e)
      BY <1>3, <1>4, <3>2, Unfinished
    <3>5. /\ f \in FrameType /\ FrameOK(f) /\ f.api = LinkAPI /\ f.torn = c.torn
          /\ f.pc = "after" /\ f.unset = b /\ f.status = LinkChecks[d.next].no
      <4>1. "SUCCESS" \in Result
        BY DEF Result, SocAnswer
      <4>. QED
        BY <1>1, <1>3, <1>10, <3>2, <3>3, <3>4, <4>1, ReturnedFrame
    <3>6. ~c.torn /\ ~b => f.status = DriverStatus(driver)
      BY <1>1, <2>1, <2>2, <2>4, <2>5, <3>1, <3>5 DEF DriverStatus
    <3>7. ReadsTrue(driver, f)
      BY <3>5, <3>6 DEF ReadsTrue, LinkAPI, IfaceAPI
    <3>. QED
      BY <1>1, <1>10, <3>5, <3>7 DEF f, d, r, LeadsTo
  <2>6. CASE v /\ d.next = 3
    <3>. DEFINE e == [d EXCEPT !.status = "UP"]
    <3>1. /\ e \in FrameType /\ e.api = d.api /\ e.torn = d.torn /\ e.pc = "generic"
          /\ e.ran = <<>> /\ e.arg = d.arg /\ e.unset = d.unset /\ e.next = d.next
          /\ e.socRet = d.socRet /\ e.genRet = d.genRet /\ e.status = "UP"
      BY <1>1 DEF FrameType, LinkStatus
    <3>2. Len(LinkChecks) = 3
      BY DEF LinkChecks
    <3>3. f = Returned(e, "SUCCESS")
      BY <1>7, <1>10, <2>6, <3>2 DEF Resume, LinkAPI, IfaceAPI
    <3>. HIDE DEF e
    <3>4. FrameOK(e)
      BY <1>3, <1>4, <3>1, Unfinished
    <3>5. /\ f \in FrameType /\ FrameOK(f) /\ f.api = LinkAPI /\ f.torn = c.torn
          /\ f.pc = "after" /\ f.unset = b /\ f.status = "UP"
      <4>1. "SUCCESS" \in Result
        BY DEF Result, SocAnswer
      <4>. QED
        BY <1>1, <1>3, <1>10, <3>1, <3>3, <3>4, <4>1, ReturnedFrame
    <3>6. ~c.torn /\ ~b => f.status = DriverStatus(driver)
      <4>1. ~c.torn /\ ~b => driver.enabled /\ driver.link /\ driver.iface
        BY <1>1, <2>2, <2>4, <2>6
      <4>. QED
        BY <3>5, <4>1 DEF DriverStatus
    <3>7. ReadsTrue(driver, f)
      BY <3>5, <3>6 DEF ReadsTrue, LinkAPI, IfaceAPI
    <3>. QED
      BY <1>1, <1>10, <3>5, <3>7 DEF f, d, r, LeadsTo
  <2>7. CASE v /\ d.next # 3
    <3>1. Len(LinkChecks) = 3
      BY DEF LinkChecks
    <3>2. f = [d EXCEPT !.next = @ + 1]
      BY <1>7, <1>10, <2>7, <3>1 DEF Resume, LinkAPI, IfaceAPI
    <3>3. /\ f \in FrameType /\ f.api = d.api /\ f.torn = d.torn /\ f.pc = "generic"
          /\ f.ran = <<>> /\ f.genRet = d.genRet /\ f.unset = b /\ f.next = c.next + 1
      <4>1. d.next + 1 \in 1 .. 3 /\ d.next = c.next
        BY <1>1, <2>7
      <4>2. /\ f \in FrameType /\ f.api = d.api /\ f.torn = d.torn /\ f.pc = d.pc
            /\ f.ran = d.ran /\ f.genRet = d.genRet /\ f.unset = d.unset /\ f.next = d.next + 1
        BY <1>1, <3>2, <4>1 DEF FrameType
      <4>. QED
        BY <1>1, <4>1, <4>2
    <3>4. FrameOK(f)
      BY <1>3, <1>4, <3>3, Unfinished
    <3>5. ~c.torn /\ ~b => /\ f.next > 1 => driver.enabled
                           /\ f.next > 2 => driver.link
      BY <1>1, <2>1, <2>2, <2>4, <2>7, <3>3
    <3>6. ReadsTrue(driver, f)
      BY <1>1, <1>10, <3>3, <3>5 DEF ReadsTrue, LinkAPI, IfaceAPI
    <3>. QED
      BY <1>1, <3>3, <3>4, <3>6 DEF f, d, r, LeadsTo
  <2>. QED
    BY <1>1, <2>5, <2>6, <2>7
<1>. QED
  BY <1>3, <1>8, <1>9, <1>10

LEMMA ReturnsToCallerStep == ASSUME Inv, NEW v \in BOOLEAN, ReturnsToCaller(v) PROVE Inv'
<1>. DEFINE c == stack[Len(stack) - 1]
            f == Resume(Told(c, Top), Outcome(Top), v)
<1>1. /\ stack # <<>> /\ Top.pc = "exit" /\ Len(stack) > 1 /\ handle' = Shallower(handle)
      /\ Outcome(Top) = "NOT_SUPPORTED" \/ v = Top.value
      /\ stack' = Append(Front(Front(stack)), f)
      /\ UNCHANGED <<soc, socReg, driver, leaked, acked, returned>>
  BY DEF ReturnsToCaller, At, Told
<1>2. /\ Top \in FrameType /\ FrameOK(Top) /\ ReadsTrue(driver, Top)
      /\ handle # NoHandle /\ handle \in HandleType /\ handle.depth = Len(stack)
      /\ leaked < MaxLeaks
  BY <1>1, Running
<1>3. Len(stack) \in Nat \ {0} /\ Len(stack) # 1 /\ Nested(c, Top)
  BY <1>1, TopFacts DEF Inv
<1>4. c \in FrameType /\ FrameOK(c) /\ ReadsTrue(driver, c)
  <2>1. Len(stack) - 1 \in 1 .. Len(stack)
    BY <1>3, CallerPlace, Zenon
  <2>. QED
    BY <2>1 DEF Inv, TypeOK, StackInv, ReadsInv
<1>5. /\ c.api \in API /\ c.api \notin Setter /\ c.api # Destroy /\ c.pc = "generic"
      /\ ~SocBeforeGeneric(c.api)
      /\ Top.api \notin Setter /\ Top.api # Destroy
  <2>1. c.next \in 1 .. 3 /\ c.api \in API
    BY <1>4 DEF FrameType
  <2>2. \/ c.api = LinkAPI /\ Top.api = LinkChecks[c.next].api
        \/ c.api = IfaceAPI /\ Top.api = "RMH_Interface_GetName"
    BY <1>3 DEF Nested
  <2>3. LinkChecks[c.next].api \in
          {"RMH_Self_GetEnabled", "RMH_Self_GetMoCALinkUp", "RMH_Interface_GetEnabled"}
    BY <2>1 DEF LinkChecks
  <2>4. c.pc = "generic"
    BY <1>3 DEF Nested
  <2>. QED
    BY <2>1, <2>2, <2>3, <2>4 DEF Setter, Destroy, LinkAPI, IfaceAPI, SocBeforeGeneric
<1>6. c.ran = <<>>
  <2>1. c.ran \in Seq({"soc", "generic"} \X Result)
    BY <1>4 DEF FrameType
  <2>2. ~(\E j \in 1 .. Len(c.ran) : TRUE)
    BY <1>4, <1>5 DEF FrameOK, RanOK
  <2>. QED
    BY <2>1, <2>2
<1>7. driver.enabled \in BOOLEAN /\ driver.link \in BOOLEAN /\ driver.iface \in BOOLEAN
  BY DEF Inv, TypeOK
<1>8. LeadsTo(c, f)
  <2>. HIDE DEF c
  <2>. QED
    BY <1>1, <1>2, <1>3, <1>4, <1>6, <1>7, Resumed
<1>. HIDE DEF f
<1>9. /\ stack' \in Seq(FrameType) /\ StackInv' /\ ReadsInv' /\ stack' # <<>> /\ Top' = f
       /\ Len(stack') = Len(stack) - 1
  BY <1>1, <1>3, <1>8, Returning DEF Inv, LeadsTo
<1>10. /\ handle' \in HandleType /\ handle'.depth = Len(stack')
       /\ handle'.reg = handle.reg /\ handle'.live = handle.live
  BY <1>1, <1>2, <1>3, <1>9, Counted
<1>11. handle' # NoHandle
  BY <1>10, HandleAssumption
<1>12. TypeOK'
  BY <1>1, <1>9, <1>10 DEF Inv, TypeOK
<1>13. HandleInv'
  BY <1>1, <1>2, <1>5, <1>8, <1>9, <1>10, <1>11 DEF Inv, LeadsTo, HandleInv, Busy
<1>14. returned' \in ReturnedType /\ LinkStatusTrue' /\ DestroySaysFreed'
  BY <1>1 DEF Inv, LinkStatusTrue, DestroySaysFreed
<1>. QED
  BY <1>9, <1>12, <1>13, <1>14 DEF Inv

LEMMA ReturnsToClientStep == ASSUME Inv, ReturnsToClient PROVE Inv'
<1>1. /\ stack # <<>> /\ Top.pc = "exit" /\ Len(stack) = 1 /\ stack' = <<>>
      /\ returned' = [api |-> Top.api, ret |-> Outcome(Top), status |-> Top.status,
                      found |-> Top.found, exact |-> ~Top.unset /\ ~Top.torn,
                      freed |-> ~handle.live]
      /\ acked' = IF Top.api \in Setter
                  THEN [acked EXCEPT ![Top.api] = (Outcome(Top) = "SUCCESS")] ELSE acked
      /\ UNCHANGED <<soc, socReg, driver>>
  BY DEF ReturnsToClient, At
<1>2. /\ Top \in FrameType /\ FrameOK(Top) /\ ReadsTrue(driver, Top)
      /\ handle # NoHandle /\ handle \in HandleType /\ handle.depth = 1 /\ leaked < MaxLeaks
  BY <1>1, Running
<1>3. /\ Top.api = Destroy => /\ handle' = NoHandle
                              /\ leaked' = leaked + (IF handle.live THEN 1 ELSE 0)
      /\ Top.api # Destroy => handle' = Shallower(handle) /\ leaked' = leaked
  BY DEF ReturnsToClient, Destroy
<1>4. /\ Top.api \in API /\ Outcome(Top) \in Result /\ Top.status \in LinkStatus
      /\ Top.found \in BOOLEAN /\ Top.unset \in BOOLEAN /\ Top.torn \in BOOLEAN
  BY <1>2 DEF FrameType, Outcome
<1>5. leaked' \in 0 .. MaxLeaks /\ (Top.api # Destroy => leaked' < MaxLeaks)
  <2>1. leaked \in 0 .. MaxLeaks
    BY DEF Inv, TypeOK
  <2>. QED
    BY <1>2, <1>3, <2>1, WrapAssumption
<1>6. Top.api # Destroy =>
        /\ handle' \in HandleType /\ handle' # NoHandle /\ handle'.depth = 0
        /\ handle'.reg = handle.reg /\ handle'.live = handle.live
  <2>1. /\ Shallower(handle) \in HandleType /\ Shallower(handle).depth = 0
        /\ Shallower(handle).reg = handle.reg /\ Shallower(handle).live = handle.live
    BY <1>2, Counted
  <2>. QED
    BY <1>3, <2>1, HandleAssumption
<1>7. acked' \in [Setter -> BOOLEAN]
  BY <1>1 DEF Inv, TypeOK
<1>8. TypeOK'
  <2>1. handle' = NoHandle \/ handle' \in HandleType
    BY <1>3, <1>6
  <2>2. stack' \in Seq(FrameType)
    BY <1>1
  <2>. QED
    BY <1>1, <1>5, <1>7, <2>1, <2>2 DEF Inv, TypeOK
<1>9. StackInv' /\ ReadsInv'
  BY <1>1 DEF StackInv, ReadsInv
<1>10. ASSUME NEW s \in Setter, acked'[s], Top.api # Destroy
       PROVE  handle.reg[s] = socReg[s]
  <2>1. CASE s = Top.api
    <3>1. Outcome(Top) = "SUCCESS"
      BY <1>1, <1>10, <2>1 DEF Inv, TypeOK
    <3>2. Top.socRet = "SUCCESS" /\ Top.genRet = "SUCCESS"
      BY <3>1, OutcomeSucceeds
    <3>. QED
      BY <1>1, <2>1, <3>2 DEF Inv, HandleInv, MaskOK
  <2>2. CASE s # Top.api
    <3>1. acked[s]
      BY <1>1, <1>10, <2>2 DEF Inv, TypeOK
    <3>. QED
      BY <1>2, <2>2, <3>1 DEF Inv, HandleInv, Busy
  <2>. QED
    BY <2>1, <2>2
<1>11. HandleInv'
  <2>1. Top.api # Destroy => handle.live
    BY <1>2 DEF Inv, HandleInv, Busy
  <2>2. Top.api = Destroy => handle' = NoHandle
    BY <1>3
  <2>. QED
    BY <1>1, <1>5, <1>6, <1>10, <2>1, <2>2 DEF HandleInv, Busy
<1>12. returned' \in ReturnedType
  <2>1. handle.live \in BOOLEAN
    BY <1>2 DEF HandleType
  <2>. QED
    BY <1>1, <1>4, <2>1 DEF ReturnedType
<1>13. LinkStatusTrue'
  <2>1. ASSUME Top.api = LinkAPI, Outcome(Top) = "SUCCESS", ~Top.unset, ~Top.torn
        PROVE  Top.status = DriverStatus(driver)
    <3>1. Top.genRet = "SUCCESS"
      BY <2>1, OutcomeSucceeds
    <3>. QED
      BY <1>1, <1>2, <2>1, <3>1 DEF ReadsTrue
  <2>2. returned'.api = Top.api /\ returned'.ret = Outcome(Top) /\ returned'.status = Top.status
    BY <1>1
  <2>3. returned'.exact => ~Top.unset /\ ~Top.torn
    BY <1>1
  <2>. QED
    BY <1>1, <2>1, <2>2, <2>3 DEF LinkStatusTrue, LinkAPI
<1>14. DestroySaysFreed'
  <2>1. Top.api = Destroy => (Outcome(Top) = "SUCCESS" <=> ~handle.live)
    BY <1>1, <1>2, OutcomeSucceeds DEF Inv, HandleInv, Busy, DestroyOK
  <2>2. returned'.api = Top.api /\ returned'.ret = Outcome(Top)
    BY <1>1
  <2>3. returned'.freed <=> ~handle.live
    BY <1>1
  <2>. QED
    BY <2>1, <2>2, <2>3 DEF DestroySaysFreed, Destroy
<1>. QED
  BY <1>8, <1>9, <1>11, <1>12, <1>13, <1>14 DEF Inv

\* The stack when every call has been overtaken by the driver.
Overtaken(s) == [i \in DOMAIN s |-> [s[i] EXCEPT !.torn = TRUE]]

LEMMA OvertakenFrame ==
    ASSUME NEW f \in FrameType
    PROVE  LET g == [f EXCEPT !.torn = TRUE] IN
           /\ g \in FrameType /\ g.torn /\ g.api = f.api /\ g.pc = f.pc /\ g.ran = f.ran
           /\ g.socRet = f.socRet /\ g.genRet = f.genRet /\ g.arg = f.arg /\ g.next = f.next
  BY DEF FrameType

LEMMA OvertakenStack ==
    ASSUME NEW s \in Seq(FrameType)
    PROVE  /\ Overtaken(s) \in Seq(FrameType) /\ Len(Overtaken(s)) = Len(s)
           /\ \A i \in 1 .. Len(s) : Overtaken(s)[i] = [s[i] EXCEPT !.torn = TRUE]
<1>. DEFINE e(i) == [s[i] EXCEPT !.torn = TRUE]
<1>1. DOMAIN s = 1 .. Len(s) /\ Len(s) \in Nat
  OBVIOUS
<1>2. \A i \in 1 .. Len(s) : e(i) \in FrameType
  BY OvertakenFrame
<1>3. /\ [i \in 1 .. Len(s) |-> e(i)] \in Seq(FrameType)
      /\ Len([i \in 1 .. Len(s) |-> e(i)]) = Len(s)
      /\ \A i \in 1 .. Len(s) : [k \in 1 .. Len(s) |-> e(k)][i] = e(i)
  <2>. HIDE DEF e
  <2>. QED
    BY <1>1, <1>2
<1>. QED
  BY <1>1, <1>3 DEF Overtaken

LEMMA DriverStep ==
    ASSUME Inv, NEW d \in [enabled : BOOLEAN, link : BOOLEAN, iface : BOOLEAN], DriverChanges(d)
    PROVE  Inv'
<1>1. /\ driver' = d /\ returned' = [returned EXCEPT !.exact = FALSE]
      /\ stack' = Overtaken(stack)
      /\ UNCHANGED <<soc, socReg, handle, leaked, acked>>
  BY DEF DriverChanges, Overtaken
<1>2. /\ stack' \in Seq(FrameType) /\ Len(stack') = Len(stack) /\ Len(stack) \in Nat
      /\ \A i \in 1 .. Len(stack) : stack'[i] = [stack[i] EXCEPT !.torn = TRUE]
      /\ \A i \in 1 .. Len(stack) : stack[i] \in FrameType
  <2>1. stack \in Seq(FrameType)
    BY DEF Inv, TypeOK
  <2>. QED
    BY <1>1, <2>1, OvertakenStack
<1>3. ASSUME NEW i \in 1 .. Len(stack)
      PROVE  /\ stack'[i].torn /\ stack'[i].api = stack[i].api /\ stack'[i].pc = stack[i].pc
             /\ stack'[i].ran = stack[i].ran /\ stack'[i].socRet = stack[i].socRet
             /\ stack'[i].genRet = stack[i].genRet /\ stack'[i].arg = stack[i].arg
             /\ stack'[i].next = stack[i].next
  <2>1. stack'[i] = [stack[i] EXCEPT !.torn = TRUE] /\ stack[i] \in FrameType
    BY <1>2, <1>3
  <2>. QED
    BY <2>1, OvertakenFrame, Zenon
<1>4. \A i \in 1 .. Len(stack) : FrameOK(stack'[i])
  <2>. TAKE i \in 1 .. Len(stack)
  <2>1. FrameOK(stack[i])
    BY DEF Inv, StackInv
  <2>2. RanOK(stack'[i])
    BY <1>3, <2>1 DEF FrameOK, RanOK
  <2>. QED
    BY <1>3, <2>1, <2>2 DEF FrameOK
<1>5. \A i \in 1 .. Len(stack) - 1 : Nested(stack'[i], stack'[i + 1])
  <2>. TAKE i \in 1 .. Len(stack) - 1
  <2>1. i \in 1 .. Len(stack) /\ i + 1 \in 1 .. Len(stack) /\ Nested(stack[i], stack[i + 1])
    BY <1>2 DEF Inv, StackInv
  <2>2. stack'[i].torn
    BY <1>3, <2>1
  <2>. QED
    BY <1>3, <2>1, <2>2 DEF Nested
<1>6. StackInv'
  BY <1>2, <1>4, <1>5 DEF StackInv
<1>7. ReadsInv'
  BY <1>2, <1>3 DEF ReadsInv, ReadsTrue
<1>8. TypeOK'
  BY <1>1, <1>2 DEF Inv, TypeOK
<1>9. stack # <<>> => /\ Top'.api = Top.api /\ Top'.pc = Top.pc /\ Top'.socRet = Top.socRet
                      /\ Top'.genRet = Top.genRet /\ Top'.arg = Top.arg
  <2>. SUFFICES ASSUME stack # <<>>
                PROVE  /\ Top'.api = Top.api /\ Top'.pc = Top.pc /\ Top'.socRet = Top.socRet
                       /\ Top'.genRet = Top.genRet /\ Top'.arg = Top.arg
    OBVIOUS
  <2>1. Top = stack[Len(stack)] /\ Len(stack) \in 1 .. Len(stack)
    BY TopFacts DEF Inv
  <2>2. stack' # <<>>
    BY <1>2, <2>1
  <2>3. Top' = stack'[Len(stack)]
    BY <1>2, <2>2, TopElement DEF Top
  <2>. QED
    BY <1>3, <2>1, <2>3
<1>10. (stack # <<>>) <=> (stack' # <<>>)
  <2>1. stack \in Seq(FrameType)
    BY DEF Inv, TypeOK
  <2>. QED
    BY <1>2, <2>1
<1>11. HandleInv'
  BY <1>1, <1>2, <1>9, <1>10 DEF Inv, HandleInv, Busy, MaskOK, DestroyOK
<1>12. /\ returned' \in ReturnedType /\ ~returned'.exact /\ returned'.api = returned.api
       /\ returned'.ret = returned.ret /\ returned'.freed = returned.freed
  BY <1>1 DEF Inv, ReturnedType
<1>13. LinkStatusTrue' /\ DestroySaysFreed'
  BY <1>12 DEF Inv, LinkStatusTrue, DestroySaysFreed
<1>. QED
  BY <1>6, <1>7, <1>8, <1>11, <1>12, <1>13 DEF Inv

-----------------------------------------------------------------------------
(* The invariant and what follows from it.                                 *)

\* Before the client has called anything.
LEMMA InitInv == Init => Inv
<1>. SUFFICES ASSUME Init
              PROVE  Inv
  OBVIOUS
<1>1. stack = <<>> /\ handle = NoHandle /\ returned = NoCall /\ leaked = 0
  BY DEF Init
<1>2. TypeOK
  BY <1>1, WrapAssumption DEF Init, TypeOK
<1>3. StackInv /\ ReadsInv /\ HandleInv
  BY <1>1 DEF StackInv, ReadsInv, HandleInv, Busy
<1>4. returned \in ReturnedType /\ LinkStatusTrue /\ DestroySaysFreed
  BY <1>1 DEF LinkStatusTrue, DestroySaysFreed, NoCall, ReturnedType, Result, SocAnswer, LinkStatus
<1>. QED
  BY <1>2, <1>3, <1>4 DEF Inv

LEMMA StepInv == Inv /\ [Next]_vars => Inv'
<1>. SUFFICES ASSUME Inv, [Next]_vars
              PROVE  Inv'
  OBVIOUS
<1>1. CASE Initialize
  BY <1>1, InitializeStep
<1>2. CASE InitializeFails
  BY <1>2, InitializeFailsStep
<1>3. ASSUME NEW s \in Setter, NEW v \in Value, Call(s, v)
      PROVE  Inv'
  BY <1>3, CallStep DEF API
<1>4. ASSUME NEW api \in API \ Setter, Call(api, NoHandle)
      PROVE  Inv'
  BY <1>4, CallStep
<1>5. CASE Skip
  BY <1>5, SkipStep
<1>6. CASE \E r \in SocAnswer : SocBefore(r) \/ SocAfter(r)
  BY <1>6, SocStep
<1>7. CASE GenericNotCalled
  BY <1>7, NotCalledStep
<1>8. CASE \E s \in Setter : GenericSets(s)
  BY <1>8, SetsStep
<1>9. CASE GenericDestroys
  BY <1>9, DestroysStep
<1>10. CASE AsksNext
  BY <1>10, AsksNextStep
<1>11. CASE AsksName
  BY <1>11, AsksNameStep
<1>12. CASE \E up \in BOOLEAN, r \in {"SUCCESS", "FAILURE"} : AsksKernel(up, r)
  BY <1>12, KernelStep
<1>13. CASE \E v \in BOOLEAN : ReturnsToCaller(v)
  BY <1>13, ReturnsToCallerStep
<1>14. CASE ReturnsToClient
  BY <1>14, ReturnsToClientStep
<1>15. CASE \E d \in [enabled : BOOLEAN, link : BOOLEAN, iface : BOOLEAN] : DriverChanges(d)
  BY <1>15, DriverStep
<1>16. CASE UNCHANGED vars
  BY <1>16 DEF vars, Inv, TypeOK, StackInv, ReadsInv, HandleInv, Busy, Top, LinkStatusTrue,
               DestroySaysFreed
<1>. QED
  BY <1>1, <1>2, <1>3, <1>4, <1>5, <1>6, <1>7, <1>8, <1>9, <1>10, <1>11, <1>12, <1>13, <1>14,
     <1>15, <1>16 DEF Next

LEMMA InvHolds == Spec => []Inv
  BY InitInv, StepInv, PTL DEF Spec

\* The fields of struct RMH, the frames of the wrapper calls and the history
\* variables keep their types.
THEOREM TypeCorrect == Spec => []TypeOK
<1>1. Inv => TypeOK
  BY DEF Inv
<1>. QED
  BY <1>1, InvHolds, PTL

\* apiDepth is the number of wrapper calls in progress (librmh_wrap.c:45-69),
\* whatever nests and however it fails.
THEOREM DepthBalancedHolds == Spec => []DepthBalanced
<1>1. Inv => DepthBalanced
  BY DEF Inv, HandleInv, DepthBalanced
<1>. QED
  BY <1>1, InvHolds, PTL

\* No half of a wrapper runs after the other one failed (librmh_wrap.h:101).
THEOREM StopsOnFailureHolds == Spec => []StopsOnFailure
<1>1. ASSUME Inv
      PROVE  StopsOnFailure
  <2>1. DOMAIN stack = 1 .. Len(stack)
    BY DEF Inv, TypeOK
  <2>2. \A i \in 1 .. Len(stack) : RanOK(stack[i])
    BY <1>1 DEF Inv, StackInv, FrameOK
  <2>. QED
    BY <2>1, <2>2 DEF StopsOnFailure, RanOK
<1>. QED
  BY <1>1, InvHolds, PTL

\* A mask whose setter returned RMH_SUCCESS is the mask of the handle and of
\* the SoC library, for any masks a client may set.
THEOREM AckedMasksAgreeHolds == Spec => []AckedMasksAgree
<1>1. Inv => AckedMasksAgree
  BY DEF Inv, HandleInv, Busy, AckedMasksAgree
<1>. QED
  BY <1>1, InvHolds, PTL

\* RMH_Self_GetLinkStatus answers the status of the device when the device
\* stood still and every reading was supported.
THEOREM LinkStatusTrueHolds == Spec => []LinkStatusTrue
<1>1. Inv => LinkStatusTrue
  BY DEF Inv
<1>. QED
  BY <1>1, InvHolds, PTL

\* RMH_Destroy returns RMH_SUCCESS exactly when it has freed the struct.
THEOREM DestroySaysFreedHolds == Spec => []DestroySaysFreed
<1>1. Inv => DestroySaysFreed
  BY DEF Inv
<1>. QED
  BY <1>1, InvHolds, PTL
-----------------------------------------------------------------------------
(* How far a call has come.                                                *)

\* Every call has at most as many steps before it as one that is not there.
LEMMA StepsFew ==
    \A f \in FrameType :
        /\ StepsLeftIn(f) \in 0 .. 5
        /\ f.pc = "before" => StepsLeftIn(f) = 5
        /\ f.pc = "generic" => StepsLeftIn(f) = 5 - f.next /\ f.next \in 1 .. 3
        /\ f.pc = "after" => StepsLeftIn(f) = 1
        /\ f.pc = "exit" => StepsLeftIn(f) = 0
  BY DEF StepsLeftIn, FrameType

LEMMA StepsAtFew ==
    ASSUME NEW s \in Seq(FrameType), NEW i \in 1 .. 3
    PROVE  /\ StepsAt(s, i) \in 0 .. 6
           /\ i <= Len(s) => StepsAt(s, i) = StepsLeftIn(s[i])
           /\ i > Len(s) => StepsAt(s, i) = 6
<1>1. Len(s) \in Nat /\ DOMAIN s = 1 .. Len(s)
  OBVIOUS
<1>2. CASE i <= Len(s)
  <2>1. i \in DOMAIN s /\ s[i] \in FrameType
    BY <1>1, <1>2
  <2>. QED
    BY <1>2, <2>1, StepsFew DEF StepsAt
<1>3. CASE i > Len(s)
  <2>1. i \notin DOMAIN s
    BY <1>1, <1>3
  <2>. QED
    BY <1>3, <2>1 DEF StepsAt
<1>. QED
  BY <1>1, <1>2, <1>3

\* Three digits to the base of seven.
LEMMA FirstDigit ==
    ASSUME NEW a \in Nat, NEW b \in Nat, NEW c \in Nat, NEW p \in Nat, NEW q \in Nat,
           NEW r \in Nat, b <= 6, c <= 6, p > a
    PROVE  49 * a + 7 * b + c < 49 * p + 7 * q + r
  OBVIOUS

LEMMA SecondDigit ==
    ASSUME NEW a \in Nat, NEW b \in Nat, NEW c \in Nat, NEW q \in Nat, NEW r \in Nat,
           c <= 6, q > b
    PROVE  49 * a + 7 * b + c < 49 * a + 7 * q + r
  OBVIOUS

LEMMA ThirdDigit ==
    ASSUME NEW a \in Nat, NEW b \in Nat, NEW c \in Nat, NEW r \in Nat, r > c
    PROVE  49 * a + 7 * b + c < 49 * a + 7 * b + r
  OBVIOUS

\* The outermost call that moves decides.
LEMMA Nearer ==
    ASSUME NEW s \in Seq(FrameType), NEW t \in Seq(FrameType), NEW k \in 1 .. 3,
           \A i \in 1 .. k - 1 : StepsAt(t, i) = StepsAt(s, i), StepsAt(t, k) < StepsAt(s, k)
    PROVE  StepsLeft(t) < StepsLeft(s)
<1>. DEFINE a1 == StepsAt(t, 1)  a2 == StepsAt(t, 2)  a3 == StepsAt(t, 3)
            b1 == StepsAt(s, 1)  b2 == StepsAt(s, 2)  b3 == StepsAt(s, 3)
<1>1. \A i \in 1 .. 3 : StepsAt(s, i) \in 0 .. 6 /\ StepsAt(t, i) \in 0 .. 6
  BY StepsAtFew
<1>2. /\ a1 \in Nat /\ a2 \in Nat /\ a3 \in Nat /\ a2 <= 6 /\ a3 <= 6
      /\ b1 \in Nat /\ b2 \in Nat /\ b3 \in Nat
  BY <1>1
<1>3. \/ b1 > a1
      \/ a1 = b1 /\ b2 > a2
      \/ a1 = b1 /\ a2 = b2 /\ b3 > a3
  <2>1. k = 1 \/ k = 2 \/ k = 3
    OBVIOUS
  <2>2. CASE k = 1
    BY <1>2, <2>2
  <2>3. CASE k = 2
    BY <1>2, <2>3
  <2>4. CASE k = 3
    BY <1>2, <2>4
  <2>. QED
    BY <2>1, <2>2, <2>3, <2>4
<1>4. StepsLeft(t) = 49 * a1 + 7 * a2 + a3 /\ StepsLeft(s) = 49 * b1 + 7 * b2 + b3
  BY DEF StepsLeft
<1>. HIDE DEF a1, a2, a3, b1, b2, b3
<1>5. 49 * a1 + 7 * a2 + a3 < 49 * b1 + 7 * b2 + b3
  <2>1. CASE b1 > a1
    BY <1>2, <2>1, FirstDigit
  <2>2. CASE a1 = b1 /\ b2 > a2
    BY <1>2, <2>2, SecondDigit
  <2>3. CASE a1 = b1 /\ a2 = b2 /\ b3 > a3
    BY <1>2, <2>3, ThirdDigit
  <2>. QED
    BY <1>3, <2>1, <2>2, <2>3
<1>. QED
  BY <1>4, <1>5

\* A getter calls nothing, RMH_Interface_GetEnabled a getter, and
\* RMH_Self_GetLinkStatus one of these.
LEMMA NestingBounded ==
    ASSUME NEW s \in Seq(FrameType), \A i \in 1 .. Len(s) - 1 : Nested(s[i], s[i + 1])
    PROVE  Len(s) <= 3
<1>1. /\ Len(s) \in Nat
      /\ \A i \in 1 .. Len(s) : s[i] \in FrameType
  OBVIOUS
<1>2. ASSUME NEW i \in 1 .. Len(s), i + 1 <= Len(s)
      PROVE  /\ s[i].api \in {LinkAPI, IfaceAPI} /\ s[i + 1].api # LinkAPI
             /\ s[i + 1].api = IfaceAPI => s[i].api = LinkAPI
  <2>1. Nested(s[i], s[i + 1])
    BY <1>1, <1>2
  <2>2. LinkChecks[s[i].next].api \in {"RMH_Self_GetEnabled", "RMH_Self_GetMoCALinkUp", IfaceAPI}
    <3>1. s[i].next \in 1 .. 3
      BY <1>1 DEF FrameType
    <3>. QED
      BY <3>1 DEF LinkChecks, IfaceAPI
  <2>. QED
    BY <2>1, <2>2 DEF Nested, LinkAPI, IfaceAPI
<1>3. ASSUME NEW i \in 1 .. Len(s), s[i].api = LinkAPI
      PROVE  i = 1
  <2>1. i # 1 => i - 1 \in 1 .. Len(s) /\ (i - 1) + 1 = i /\ (i - 1) + 1 <= Len(s)
    BY <1>1
  <2>2. i # 1 => s[(i - 1) + 1].api # LinkAPI
    BY <1>2, <2>1
  <2>. QED
    BY <1>3, <2>1, <2>2
<1>4. ASSUME NEW i \in 1 .. Len(s), s[i].api = IfaceAPI
      PROVE  i <= 2
  <2>1. i # 1 => i - 1 \in 1 .. Len(s) /\ (i - 1) + 1 = i /\ (i - 1) + 1 <= Len(s)
    BY <1>1
  <2>2. i # 1 => s[i - 1].api = LinkAPI
    BY <1>2, <1>4, <2>1
  <2>. QED
    BY <1>3, <2>1, <2>2
<1>. SUFFICES ASSUME Len(s) > 3 PROVE FALSE
  BY <1>1
<1>5. 3 \in 1 .. Len(s) /\ 3 + 1 <= Len(s)
  BY <1>1
<1>6. s[3].api \in {LinkAPI, IfaceAPI}
  BY <1>2, <1>5
<1>. QED
  BY <1>3, <1>4, <1>5, <1>6

\* So no stack of calls is higher than three.
LEMMA ThreeCalls == ASSUME Inv, stack # <<>> PROVE Len(stack) \in 1 .. 3
<1>1. stack \in Seq(FrameType) /\ Len(stack) \in Nat \ {0}
  BY TopFacts DEF Inv, TypeOK
<1>2. Len(stack) <= 3
  BY <1>1, NestingBounded DEF Inv, StackInv
<1>3. \A m \in Nat \ {0} : m <= 3 => m \in 1 .. 3
  OBVIOUS
<1>. QED
  BY <1>1, <1>2, <1>3, Zenon

\* The innermost call moves on to f.
LEMMA MovesOn ==
    ASSUME Inv, Inv', stack # <<>>, NEW f \in FrameType, Becomes(f),
           StepsLeftIn(f) < StepsLeftIn(Top)
    PROVE  StepsLeft(stack') < StepsLeft(stack)
<1>. DEFINE n == Len(stack)
<1>1. stack \in Seq(FrameType) /\ stack' \in Seq(FrameType) /\ n \in 1 .. 3
  <2>1. stack \in Seq(FrameType) /\ stack' \in Seq(FrameType)
    BY DEF Inv, TypeOK
  <2>. QED
    BY <2>1, ThreeCalls, Zenon
<1>2. /\ Top = stack[n] /\ Len(stack') = n /\ stack'[n] = f
      /\ \A i \in 1 .. n - 1 : stack'[i] = stack[i]
  BY <1>1, ReplaceTop, TopElement DEF Becomes, Top
<1>. HIDE DEF n
<1>3. StepsAt(stack', n) < StepsAt(stack, n)
  <2>1. StepsAt(stack', n) = StepsLeftIn(stack'[n]) /\ StepsAt(stack, n) = StepsLeftIn(stack[n])
    BY <1>1, <1>2, StepsAtFew DEF n
  <2>. QED
    BY <1>2, <2>1
<1>4. ASSUME NEW i \in 1 .. n - 1
      PROVE  StepsAt(stack', i) = StepsAt(stack, i)
  <2>1. i \in 1 .. 3 /\ i <= Len(stack) /\ i <= Len(stack')
    BY <1>1, <1>2 DEF n
  <2>2. StepsAt(stack', i) = StepsLeftIn(stack'[i]) /\ StepsAt(stack, i) = StepsLeftIn(stack[i])
    BY <1>1, <2>1, StepsAtFew
  <2>. QED
    BY <1>2, <2>2
<1>. QED
  BY <1>1, <1>3, <1>4, Nearer

\* The innermost call makes a nested one.
LEMMA GoesDeeper ==
    ASSUME Inv, Inv', stack # <<>>, NEW g \in FrameType, stack' = Append(stack, g)
    PROVE  StepsLeft(stack') < StepsLeft(stack)
<1>. DEFINE n == Len(stack)
<1>1. stack \in Seq(FrameType) /\ stack' \in Seq(FrameType) /\ n \in Nat
  BY DEF Inv, TypeOK
<1>2. Len(stack') = n + 1 /\ stack'[n + 1] = g /\ \A i \in 1 .. n : stack'[i] = stack[i]
  BY <1>1, PushOn
<1>3. n + 1 \in 1 .. 3
  <2>1. Len(stack') <= 3
    BY <1>1, NestingBounded DEF Inv, StackInv
  <2>. QED
    BY <1>1, <1>2, <2>1
<1>. DEFINE k == n + 1
<1>4. StepsAt(stack', k) < StepsAt(stack, k)
  <2>0. k \in 1 .. 3 /\ k <= Len(stack') /\ k > Len(stack) /\ stack'[k] = g
    BY <1>1, <1>2, <1>3
  <2>. HIDE DEF k
  <2>1. StepsAt(stack', k) = StepsLeftIn(g)
    BY <1>1, <2>0, StepsAtFew
  <2>2. StepsAt(stack, k) = 6
    BY <1>1, <2>0, StepsAtFew
  <2>3. StepsLeftIn(g) \in 0 .. 5
    BY StepsFew
  <2>. QED
    BY <2>1, <2>2, <2>3
<1>5. ASSUME NEW i \in 1 .. k - 1
      PROVE  StepsAt(stack', i) = StepsAt(stack, i)
  <2>1. i \in 1 .. 3 /\ i <= Len(stack) /\ i <= Len(stack') /\ i \in 1 .. n
    BY <1>1, <1>2, <1>3
  <2>2. StepsAt(stack', i) = StepsLeftIn(stack'[i]) /\ StepsAt(stack, i) = StepsLeftIn(stack[i])
    BY <1>1, <2>1, StepsAtFew
  <2>. QED
    BY <1>2, <2>1, <2>2
<1>6. k \in 1 .. 3
  BY <1>3
<1>. HIDE DEF k
<1>. QED
  BY <1>1, <1>4, <1>5, <1>6, Nearer

\* A nested call returns, and its caller moves on to f.
LEMMA ComesBack ==
    ASSUME Inv, Inv', stack # <<>>, Len(stack) # 1, NEW f \in FrameType,
           stack' = Append(Front(Front(stack)), f),
           StepsLeftIn(f) < StepsLeftIn(stack[Len(stack) - 1])
    PROVE  StepsLeft(stack') < StepsLeft(stack)
<1>. DEFINE n == Len(stack)
            k == n - 1
<1>1. stack \in Seq(FrameType) /\ stack' \in Seq(FrameType) /\ n \in 1 .. 3
  <2>1. stack \in Seq(FrameType) /\ stack' \in Seq(FrameType)
    BY DEF Inv, TypeOK
  <2>. QED
    BY <2>1, ThreeCalls, Zenon
<1>2. /\ Len(stack') = n - 1 /\ stack'[n - 1] = f
      /\ \A i \in 1 .. n - 2 : stack'[i] = stack[i]
  BY <1>1, PopTop
<1>3. /\ k \in 1 .. 3 /\ n - 1 = k /\ n - 2 = k - 1 /\ k <= Len(stack) /\ k <= Len(stack')
      /\ stack'[k] = f
  BY <1>1, <1>2
<1>4. stack[k] = stack[Len(stack) - 1]
  OBVIOUS
<1>. HIDE DEF n, k
<1>5. StepsAt(stack', k) < StepsAt(stack, k)
  <2>1. StepsAt(stack', k) = StepsLeftIn(stack'[k])
    BY <1>1, <1>3, StepsAtFew
  <2>2. StepsAt(stack, k) = StepsLeftIn(stack[k])
    BY <1>1, <1>3, StepsAtFew
  <2>. QED
    BY <1>3, <1>4, <2>1, <2>2
<1>6. ASSUME NEW i \in 1 .. k - 1
      PROVE  StepsAt(stack', i) = StepsAt(stack, i)
  <2>1. i \in 1 .. 3 /\ i <= Len(stack) /\ i <= Len(stack')
    BY <1>2, <1>3
  <2>2. StepsAt(stack', i) = StepsLeftIn(stack'[i]) /\ StepsAt(stack, i) = StepsLeftIn(stack[i])
    BY <1>1, <2>1, StepsAtFew
  <2>. QED
    BY <1>2, <1>3, <2>2
<1>. QED
  BY <1>1, <1>3, <1>5, <1>6, Nearer

\* How Resume goes on.
LEMMA ResumesLater ==
    ASSUME NEW c \in FrameType, NEW g, Nested(c, g), NEW r \in Result, NEW v \in BOOLEAN,
           NEW b \in BOOLEAN, Resume([c EXCEPT !.unset = b], r, v) \in FrameType
    PROVE  StepsLeftIn(Resume([c EXCEPT !.unset = b], r, v)) < StepsLeftIn(c)
<1>. DEFINE d == [c EXCEPT !.unset = b]
            f == Resume(d, r, v)
<1>1. d \in FrameType /\ d.pc = "generic" /\ d.next = c.next /\ d.api = c.api
  BY DEF FrameType, Nested
<1>2. StepsLeftIn(c) = 5 - c.next /\ c.next \in 1 .. 3
  BY StepsFew DEF Nested
<1>3. c.api = IfaceAPI => c.next = 1
  BY DEF Nested, LinkAPI, IfaceAPI
<1>. HIDE DEF d
<1>4. \/ f.pc = "after"
      \/ f.pc = "generic" /\ f.next = c.next + 1
  <2>1. \A e \in FrameType, q \in Result : Returned(e, q).pc = "after"
    BY DEF Returned, FrameType
  <2>2. CASE r \notin {"SUCCESS", "NOT_SUPPORTED"}
    <3>1. f = Returned(d, r)
      BY <2>2 DEF Resume
    <3>. QED
      BY <1>1, <2>1, <3>1
  <2>3. CASE r \in {"SUCCESS", "NOT_SUPPORTED"} /\ d.api = IfaceAPI
    <3>1. f = [d EXCEPT !.next = 2]
      BY <2>3 DEF Resume, IfaceAPI
    <3>. QED
      BY <1>1, <1>3, <2>3, <3>1 DEF FrameType
  <2>4. CASE r \in {"SUCCESS", "NOT_SUPPORTED"} /\ d.api # IfaceAPI /\ ~v
    <3>. DEFINE e == [d EXCEPT !.status = LinkChecks[d.next].no]
    <3>1. f = Returned(e, "SUCCESS")
      BY <2>4 DEF Resume, IfaceAPI
    <3>2. LinkChecks[d.next].no \in LinkStatus
      BY <1>1, <1>2 DEF LinkChecks, LinkStatus
    <3>3. e \in FrameType /\ "SUCCESS" \in Result
      BY <1>1, <3>2 DEF FrameType, Result, SocAnswer
    <3>. QED
      BY <2>1, <3>1, <3>3
  <2>5. CASE r \in {"SUCCESS", "NOT_SUPPORTED"} /\ d.api # IfaceAPI /\ v /\ d.next = 3
    <3>. DEFINE e == [d EXCEPT !.status = "UP"]
    <3>1. Len(LinkChecks) = 3
      BY DEF LinkChecks
    <3>2. f = Returned(e, "SUCCESS")
      BY <2>5, <3>1 DEF Resume, IfaceAPI
    <3>3. "UP" \in LinkStatus
      BY DEF LinkStatus
    <3>4. e \in FrameType
      BY <1>1, <3>3 DEF FrameType
    <3>5. "SUCCESS" \in Result
      BY DEF Result, SocAnswer
    <3>. QED
      BY <2>1, <3>2, <3>4, <3>5
  <2>6. CASE r \in {"SUCCESS", "NOT_SUPPORTED"} /\ d.api # IfaceAPI /\ v /\ d.next # 3
    <3>1. Len(LinkChecks) = 3
      BY DEF LinkChecks
    <3>2. f = [d EXCEPT !.next = @ + 1]
      BY <2>6, <3>1 DEF Resume, IfaceAPI
    <3>. QED
      BY <1>1, <3>2 DEF FrameType
  <2>. QED
    BY <2>2, <2>3, <2>4, <2>5, <2>6
<1>5. f \in FrameType
  BY DEF d
<1>6. StepsLeftIn(f) < StepsLeftIn(c)
  <2>. HIDE DEF f
  <2>. QED
    BY <1>2, <1>4, <1>5, StepsFew
<1>. QED
  BY <1>6 DEF d

\* A call of the client comes back (librmh_wrap.h:105-127): each step of the
\* library brings the return nearer, whatever the SoC library answers, and no
\* API is reached from itself.
THEOREM CallReturnsHolds == Spec => CallReturns
<1>1. ASSUME Inv, Inv', Next, stack # <<>>, stack' # <<>>, driver' = driver
      PROVE  StepsLeft(stack') < StepsLeft(stack)
  <2>1. Top \in FrameType /\ Top.next \in 1 .. 3
    BY <1>1, Running DEF FrameType
  <2>2. \A f \in FrameType : Becomes(f) /\ StepsLeftIn(f) < StepsLeftIn(Top) =>
           StepsLeft(stack') < StepsLeft(stack)
    BY <1>1, MovesOn
  <2>3. CASE Initialize \/ InitializeFails \/ (\E s \in Setter, v \in Value : Call(s, v))
               \/ (\E api \in API \ Setter : Call(api, NoHandle)) \/ ReturnsToClient
    <3>1. CASE Initialize \/ InitializeFails
      BY <1>1, <3>1 DEF Initialize, InitializeFails, MayInitialize, Inv, HandleInv
    <3>2. CASE ReturnsToClient
      BY <1>1, <3>2 DEF ReturnsToClient
    <3>. QED
      BY <1>1, <2>3, <3>1, <3>2 DEF Call
  <2>4. CASE Skip
    <3>1. PICK place \in {"generic", "after", "exit"} :
             /\ Becomes([Top EXCEPT !.pc = place])
             /\ place = "generic" => Top.pc = "before"
             /\ place = "after" => Top.pc = "generic"
             /\ place = "exit" => Top.pc = "after"
      BY <2>4 DEF Skip, At
    <3>. DEFINE f == [Top EXCEPT !.pc = place]
    <3>2. f \in FrameType /\ f.pc = place /\ f.next = Top.next
      BY <2>1 DEF FrameType
    <3>3. Becomes(f)
      BY <3>1
    <3>. HIDE DEF f
    <3>4. StepsLeftIn(f) < StepsLeftIn(Top)
      BY <2>1, <3>1, <3>2, StepsFew
    <3>. QED
      BY <2>2, <3>2, <3>3, <3>4
  <2>5. CASE \E r \in SocAnswer : SocBefore(r) \/ SocAfter(r)
    <3>1. PICK r \in SocAnswer : SocBefore(r) \/ SocAfter(r)
      BY <2>5
    <3>2. PICK w \in BOOLEAN, place \in {"generic", "exit"} :
             /\ Becomes([Top EXCEPT !.pc = place, !.socRet = r, !.ran = Append(@, <<"soc", r>>),
                                    !.value = w])
             /\ place = "generic" => Top.pc = "before"
             /\ place = "exit" => Top.pc = "after"
      <4>1. Top.value \in BOOLEAN /\ driver.enabled \in BOOLEAN /\ driver.link \in BOOLEAN
        BY <1>1, <2>1 DEF FrameType, Inv, TypeOK
      <4>2. \E place \in {"generic", "exit"} :
              /\ SocAnswers(Top, r, place)
              /\ place = "generic" => Top.pc = "before"
              /\ place = "exit" => Top.pc = "after"
        BY <3>1 DEF SocBefore, SocAfter, At
      <4>. QED
        BY <4>1, <4>2 DEF SocAnswers
    <3>. DEFINE ran == Append(Top.ran, <<"soc", r>>)
                f == [Top EXCEPT !.pc = place, !.socRet = r, !.ran = ran, !.value = w]
    <3>3. ran \in Seq({"soc", "generic"} \X Result) /\ r \in Result
      BY <2>1, RanMore DEF FrameType, Result
    <3>4. Becomes(f)
      BY <3>2
    <3>. HIDE DEF ran
    <3>5. f \in FrameType /\ f.pc = place /\ f.next = Top.next
      BY <2>1, <3>3 DEF FrameType
    <3>. HIDE DEF f
    <3>6. StepsLeftIn(f) < StepsLeftIn(Top)
      BY <2>1, <3>2, <3>5, StepsFew
    <3>. QED
      BY <2>2, <3>4, <3>5, <3>6
  <2>6. CASE GenericNotCalled
    <3>. DEFINE f == [Top EXCEPT !.pc = "after", !.genRet = "UNIMPLEMENTED"]
    <3>1. Becomes(f) /\ Top.pc = "generic"
      BY <2>6 DEF GenericNotCalled, At
    <3>2. f \in FrameType /\ f.pc = "after"
      BY <2>1 DEF FrameType, Result
    <3>. HIDE DEF f
    <3>3. StepsLeftIn(f) < StepsLeftIn(Top)
      BY <2>1, <3>1, <3>2, StepsFew
    <3>. QED
      BY <2>2, <3>1, <3>2, <3>3
  <2>7. ASSUME NEW e \in FrameType, e.pc = "generic", Top.pc = "generic", NEW r \in Result,
               FrameOK(e), e.api \notin Getter, e.ran = <<>> \/ e.socRet = "SUCCESS",
               Becomes(Returned(e, r))
        PROVE  StepsLeft(stack') < StepsLeft(stack)
    <3>1. Returned(e, r) \in FrameType /\ Returned(e, r).pc = "after"
      BY <2>7, ReturnedFrame
    <3>2. StepsLeftIn(Returned(e, r)) < StepsLeftIn(Top)
      BY <2>1, <2>7, <3>1, StepsFew
    <3>. QED
      BY <2>2, <2>7, <3>1, <3>2
  <2>8. CASE (\E s \in Setter : GenericSets(s)) \/ GenericDestroys
    <3>1. At("generic") /\ RunsGeneric(Top) /\ Becomes(Returned(Top, "SUCCESS"))
      BY <2>8 DEF GenericSets, GenericDestroys, InGeneric
    <3>. QED
      BY <1>1, <2>7, <3>1, AtGeneric DEF Result, SocAnswer
  <2>9. CASE \E up \in BOOLEAN, r \in {"SUCCESS", "FAILURE"} : AsksKernel(up, r)
    <3>1. PICK up \in BOOLEAN, r \in {"SUCCESS", "FAILURE"} : AsksKernel(up, r)
      BY <2>9
    <3>. DEFINE e == [Top EXCEPT !.value = up]
    <3>2. At("generic") /\ RunsGeneric(Top) /\ Becomes(Returned(e, r)) /\ r \in Result
      BY <3>1 DEF AsksKernel, InGeneric, Result, SocAnswer
    <3>3. /\ Top.pc = "generic" /\ FrameOK(Top) /\ Top.api \notin Getter
          /\ Top.ran = <<>> \/ Top.socRet = "SUCCESS"
      BY <1>1, <3>2, AtGeneric
    <3>4. /\ e \in FrameType /\ e.api = Top.api /\ e.pc = Top.pc /\ e.ran = Top.ran
          /\ e.arg = Top.arg /\ e.socRet = Top.socRet /\ e.genRet = Top.genRet
      BY <2>1 DEF FrameType
    <3>. HIDE DEF e
    <3>5. FrameOK(e)
      <4>1. RanOK(e)
        BY <3>3, <3>4 DEF FrameOK, RanOK
      <4>. QED
        BY <3>3, <3>4, <4>1 DEF FrameOK
    <3>. QED
      BY <2>7, <3>2, <3>3, <3>4, <3>5
  <2>10. CASE AsksNext \/ AsksName
    <3>1. PICK api \in API : Enter(handle, api, NoHandle) /\ api \notin Setter
      <4>1. CASE AsksNext
        <5>1. LinkChecks[Top.next].api \in
                {"RMH_Self_GetEnabled", "RMH_Self_GetMoCALinkUp", "RMH_Interface_GetEnabled"}
          BY <2>1 DEF LinkChecks
        <5>. QED
          BY <4>1, <5>1 DEF AsksNext, API, Setter, Getter, Composite
      <4>2. CASE AsksName
        BY <4>2 DEF AsksName, API, Setter, Getter
      <4>. QED
        BY <2>10, <4>1, <4>2
    <3>2. handle \in HandleType
      BY <1>1, Running
    <3>3. Frame(handle, api, NoHandle) \in FrameType
      BY <1>1, <3>1, <3>2, NewFrame
    <3>. QED
      BY <1>1, <3>1, <3>3, GoesDeeper DEF Enter
  <2>11. CASE \E v \in BOOLEAN : ReturnsToCaller(v)
    <3>1. PICK v \in BOOLEAN : ReturnsToCaller(v)
      BY <2>11
    <3>. DEFINE c == stack[Len(stack) - 1]
                b == c.unset \/ (Outcome(Top) = "NOT_SUPPORTED"
                                   \/ (Outcome(Top) = "SUCCESS" /\ Top.unset))
                f == Resume([c EXCEPT !.unset = b], Outcome(Top), v)
    <3>2. Len(stack) > 1 /\ stack' = Append(Front(Front(stack)), f)
      BY <3>1 DEF ReturnsToCaller
    <3>3. Len(stack) \in Nat \ {0} /\ Len(stack) # 1 /\ Nested(c, Top)
      BY <1>1, <3>2, TopFacts DEF Inv
    <3>4. c \in FrameType /\ b \in BOOLEAN /\ Outcome(Top) \in Result
      <4>1. Len(stack) - 1 \in 1 .. Len(stack)
        BY <3>3, CallerPlace, Zenon
      <4>2. c \in FrameType
        BY <1>1, <4>1 DEF Inv, TypeOK
      <4>. QED
        BY <2>1, <4>2 DEF FrameType, Outcome
    <3>5. f \in FrameType
      <4>. HIDE DEF f
      <4>1. stack \in Seq(FrameType) /\ stack' \in Seq(FrameType)
        BY <1>1 DEF Inv, TypeOK
      <4>2. stack' # <<>> /\ Last(stack') \in FrameType
        BY <1>1, <4>1, TopElement
      <4>3. Front(Front(stack)) \in Seq(FrameType)
        <5>1. Front(stack) \in Seq(FrameType) /\ Len(Front(stack)) = Len(stack) - 1
          BY <1>1, <4>1, BelowTop
        <5>2. Front(stack) # <<>>
          BY <3>3, <5>1
        <5>. QED
          BY <5>1, <5>2, BelowTop
      <4>4. Last(Append(Front(Front(stack)), f)) = f
        BY <4>3 DEF Last
      <4>. QED
        BY <3>2, <4>2, <4>4
    <3>6. StepsLeftIn(f) < StepsLeftIn(c)
      <4>. HIDE DEF c, b
      <4>. QED
        BY <3>3, <3>4, <3>5, ResumesLater
    <3>. HIDE DEF f
    <3>. QED
      BY <1>1, <3>2, <3>3, <3>5, <3>6, ComesBack
  <2>12. CASE \E d \in [enabled : BOOLEAN, link : BOOLEAN, iface : BOOLEAN] : DriverChanges(d)
    BY <1>1, <2>12 DEF DriverChanges
  <2>. QED
    BY <1>1, <2>3, <2>4, <2>5, <2>6, <2>8, <2>9, <2>10, <2>11, <2>12 DEF Next
<1>2. Inv /\ Inv' /\ [Next]_vars =>
        [stack # <<>> /\ stack' # <<>> /\ driver' = driver =>
             StepsLeft(stack') < StepsLeft(stack)]_vars
  BY <1>1
<1>. QED
  BY <1>2, InvHolds, PTL DEF Spec, CallReturns
=============================================================================
