------------------------------- MODULE ApiWrap -------------------------------
(***************************************************************************)
(* The call path of the RMH library: RMH_Initialize, the wrapper function  *)
(* that the macro __RMH_API_WRAP_TRUE of librmh_wrap.h defines for every   *)
(* API, its helpers in librmh_wrap.c, and the generic halves that change   *)
(* the handle or call further APIs.                                        *)
(*                                                                         *)
(* One client thread calls the APIs of one handle at a time.  A call is a  *)
(* frame on a stack, because RMH_Self_GetLinkStatus and                    *)
(* RMH_Interface_GetEnabled call wrapped APIs themselves.  The SoC library *)
(* (librdkmocahalsoc.so.0) is not part of the repository: it is described  *)
(* by what it exports and by how its functions answer.                     *)
(***************************************************************************)
EXTENDS Naturals, Sequences, SequencesExt

CONSTANTS
    Value,      \* the masks a client sets
    Support,    \* the sets of APIs a SoC library may implement
    NoHandle,   \* a NULL RMH_Handle
    MaxLeaks    \* bound: instances lost before the client stops initializing

ASSUME WrapAssumption == /\ MaxLeaks \in Nat
                         /\ Value # {}
                         /\ \A v \in Value : v # NoHandle

VARIABLES
    soc,        \* the SoC library: is it there, what RMH_Initialize does, what it implements
    socReg,     \* the masks the SoC library has been given
    driver,     \* what its getters would answer now
    handle,     \* the client's handle, one struct RMH
    stack,      \* the wrapper calls in progress, the innermost last
    leaked,     \* history: structs allocated, not freed, and out of reach
    acked,      \* history: is the latest call to set this mask one that returned RMH_SUCCESS
    returned    \* history: the latest call of the client and what it returned

vars == <<soc, socReg, driver, handle, stack, leaked, acked, returned>>

Setter == {"RMH_SetEventCallbacks", "RMH_Log_SetAPILevel"}
Getter == {"RMH_Self_GetEnabled", "RMH_Self_GetMoCALinkUp", "RMH_Interface_GetName"}
Composite == {"RMH_Self_GetLinkStatus", "RMH_Interface_GetEnabled"}
API == Setter \cup Getter \cup Composite \cup {"RMH_Destroy", "RMH_ValidateHandle"}

LinkStatus == {"DISABLED", "NO_LINK", "INTERFACE_DOWN", "UP"}

\* What a SoC function may answer, and what a wrapper may add to that.
SocAnswer == {"SUCCESS", "FAILURE", "NOT_SUPPORTED"}
Result == SocAnswer \cup {"UNIMPLEMENTED", "INVALID_INTERNAL_STATE"}

\* The three booleans each RMH_API_IMPLEMENTATION_ macro passes to the wrapper.
SocEnabled(api) == api \notin Composite
GenericEnabled(api) == api \in Setter \cup Composite \cup {"RMH_Destroy"}
SocBeforeGeneric(api) == api = "RMH_Destroy"

\* The nested calls of GENERIC_IMPL__RMH_Self_GetLinkStatus, and the status
\* each of them makes it answer when it reads false.
LinkChecksTwo == << [api |-> "RMH_Self_GetEnabled",    no |-> "DISABLED"],
                    [api |-> "RMH_Self_GetMoCALinkUp", no |-> "NO_LINK"] >>
LinkChecksCircular == << [api |-> "RMH_Self_GetEnabled",      no |-> "DISABLED"],
                         [api |-> "RMH_Self_GetLinkStatus",   no |-> "NO_LINK"],
                         [api |-> "RMH_Interface_GetEnabled", no |-> "INTERFACE_DOWN"] >>
LinkChecks == << [api |-> "RMH_Self_GetEnabled",      no |-> "DISABLED"],
                 [api |-> "RMH_Self_GetMoCALinkUp",   no |-> "NO_LINK"],
                 [api |-> "RMH_Interface_GetEnabled", no |-> "INTERFACE_DOWN"] >>

\* The status RMH_Self_GetLinkStatus is documented to combine.
DriverStatus(d) == CASE ~d.enabled -> "DISABLED"
                     [] d.enabled /\ ~d.link -> "NO_LINK"
                     [] d.enabled /\ d.link /\ ~d.iface -> "INTERFACE_DOWN"
                     [] OTHER -> "UP"

-----------------------------------------------------------------------------
\* The wrapper's decisions, each on the frame of the call.

\* pRMH_APIWRAP_GetSoCAPI: is the symbol found, and what the lookup returns.
Found(h, api) == h.lib /\ api \in soc.api
Lookup(h, api) == IF ~Found(h, api) THEN "UNIMPLEMENTED"
                  ELSE IF h.open THEN "SUCCESS" ELSE "INVALID_INTERNAL_STATE"

RunsBefore(f) == f.socRet = "SUCCESS" /\ SocEnabled(f.api) /\ SocBeforeGeneric(f.api)

RunsGeneric(f) == /\ GenericEnabled(f.api)
                  /\ SocBeforeGeneric(f.api) => f.socRet = "SUCCESS"

RunsAfter(f) == /\ f.socRet = "SUCCESS" /\ f.genRet = "SUCCESS"
                /\ SocEnabled(f.api) /\ ~SocBeforeGeneric(f.api)

\* The result pRMH_APIWRAP_PostAPIExecute makes of the two halves.
GenericOutcome(f) == f.genRet
Outcome(f) == IF f.socRet = "SUCCESS" THEN f.genRet ELSE f.socRet

\* pRMH_APIWRAP_PreAPIExecute and PostAPIExecute count the nesting.
ForgetsDepth(h) == h
Deeper(h) == [h EXCEPT !.depth = @ + 1]
Shallower(h) == [h EXCEPT !.depth = @ - 1]

-----------------------------------------------------------------------------
Top == Last(stack)

\* The frame of a call that has done its PreAPIExecute and its lookup.
Frame(h, api, arg) ==
    [api |-> api, arg |-> arg, pc |-> "before",
     found  |-> SocEnabled(api) /\ Found(h, api),
     socRet |-> IF SocEnabled(api) THEN Lookup(h, api) ELSE "SUCCESS",
     genRet |-> "SUCCESS",
     value  |-> FALSE,      \* *response of the APIs that answer a bool
     status |-> "DISABLED", \* *response of RMH_Self_GetLinkStatus
     next   |-> 1,          \* the nested call a composite has got to
     ran    |-> <<>>,       \* history: the halves that ran and their results
     unset  |-> FALSE,      \* history: a variable was read that nobody had set
     torn   |-> FALSE]      \* history: the driver changed during the call

Enter(h, api, arg) == /\ handle' = Deeper(h)
                      /\ stack' = Append(stack, Frame(h, api, arg))

Becomes(f) == stack' = Append(Front(stack), f)

\* The frame f after its generic half returned r.
Returned(f, r) ==
    [f EXCEPT !.pc = "after", !.genRet = r, !.ran = Append(@, <<"generic", r>>)]

At(pc) == stack # <<>> /\ Top.pc = pc

NewHandle(lib, open) ==
    [lib |-> lib, open |-> open, depth |-> 0, live |-> TRUE,
     reg |-> [s \in Setter |-> CHOOSE v \in Value : TRUE]]

NoCall == [api |-> "none", ret |-> "SUCCESS", status |-> "DISABLED",
           found |-> FALSE, exact |-> FALSE, freed |-> FALSE]

Init == /\ soc \in [lib : BOOLEAN, init : {"missing", "works", "fails"}, api : Support]
        /\ socReg \in [Setter -> Value]
        /\ driver \in [enabled : BOOLEAN, link : BOOLEAN, iface : BOOLEAN]
        /\ handle = NoHandle
        /\ stack = <<>>
        /\ leaked = 0
        /\ acked = [s \in Setter |-> FALSE]
        /\ returned = NoCall

-----------------------------------------------------------------------------
(***************************************************************************)
(* RMH_Initialize.  Without the SoC library, or without an RMH_Initialize  *)
(* in it, the client gets a handle all the same.  When the SoC library     *)
(* fails to initialize, or the print buffer cannot be allocated, error_out *)
(* calls the wrapped RMH_Destroy and the client gets NULL.                 *)
(***************************************************************************)
MayInitialize == /\ handle = NoHandle /\ leaked < MaxLeaks
                 /\ acked' = [s \in Setter |-> FALSE]
                 /\ returned' = NoCall
                 /\ UNCHANGED <<soc, socReg, driver, leaked>>

Initialize == /\ MayInitialize
              /\ soc.lib => soc.init # "fails"
              /\ handle' = NewHandle(soc.lib, soc.lib /\ soc.init = "works")
              /\ UNCHANGED stack

InitializeFails ==
    /\ MayInitialize
    /\ \/ soc.lib /\ soc.init = "fails" /\ Enter(NewHandle(TRUE, FALSE), "RMH_Destroy", NoHandle)
       \/ Enter(NewHandle(FALSE, FALSE), "RMH_Destroy", NoHandle)

\* The client calls an API; what an earlier call returned is forgotten.
Call(api, arg) ==
    /\ handle # NoHandle /\ stack = <<>>
    /\ Enter(handle, api, arg)
    /\ returned' = NoCall
    /\ UNCHANGED <<soc, socReg, driver, leaked, acked>>

\* A half whose condition does not hold is passed over.
Skip == /\ \/ At("before") /\ ~RunsBefore(Top) /\ Becomes([Top EXCEPT !.pc = "generic"])
           \/ At("generic") /\ ~RunsGeneric(Top) /\ Becomes([Top EXCEPT !.pc = "after"])
           \/ At("after") /\ ~RunsAfter(Top) /\ Becomes([Top EXCEPT !.pc = "exit"])
        /\ UNCHANGED <<soc, socReg, driver, handle, leaked, acked, returned>>

\* The SoC half of f: the library does what it is asked, or changes nothing.
SocAnswers(f, r, pc) ==
    /\ Becomes([f EXCEPT !.pc = pc, !.socRet = r, !.ran = Append(@, <<"soc", r>>),
                         !.value = CASE r # "SUCCESS" -> @
                                     [] f.api = "RMH_Self_GetEnabled" -> driver.enabled
                                     [] f.api = "RMH_Self_GetMoCALinkUp" -> driver.link
                                     [] OTHER -> @])
    /\ socReg' = IF r = "SUCCESS" /\ f.api \in Setter
                 THEN [socReg EXCEPT ![f.api] = f.arg] ELSE socReg
    /\ UNCHANGED <<soc, driver, handle, leaked, acked, returned>>

SocBefore(r) == At("before") /\ RunsBefore(Top) /\ SocAnswers(Top, r, "generic")

SocAfter(r) == At("after") /\ RunsAfter(Top) /\ SocAnswers(Top, r, "exit")

-----------------------------------------------------------------------------
\* A wrapper that found no SoC function does not call the generic one either.
GenericNotCalled ==
    /\ At("generic") /\ RunsGeneric(Top) /\ SocEnabled(Top.api) /\ ~Top.found
    /\ Becomes([Top EXCEPT !.pc = "after", !.genRet = "UNIMPLEMENTED"])
    /\ UNCHANGED <<soc, socReg, driver, handle, leaked, acked, returned>>

InGeneric(api) == /\ At("generic") /\ RunsGeneric(Top) /\ Top.api = api
                  /\ SocEnabled(api) => Top.found
                  /\ UNCHANGED <<soc, socReg, driver, leaked, acked, returned>>

\* GENERIC_IMPL__RMH_SetEventCallbacks and GENERIC_IMPL__RMH_Log_SetAPILevel.
GenericSets(s) == /\ InGeneric(s)
                  /\ handle' = [handle EXCEPT !.reg[s] = Top.arg]
                  /\ Becomes(Returned(Top, "SUCCESS"))

\* GENERIC_IMPL__RMH_Destroy frees the handle.  PostAPIExecute still writes
\* apiDepth in it, and is taken to find the memory as it was.
GenericDestroys == /\ InGeneric("RMH_Destroy")
                   /\ handle' = [handle EXCEPT !.live = FALSE]
                   /\ Becomes(Returned(Top, "SUCCESS"))

\* GENERIC_IMPL__RMH_Self_GetLinkStatus makes its next nested call.
AsksNext == /\ InGeneric("RMH_Self_GetLinkStatus")
            /\ Enter(handle, LinkChecks[Top.next].api, NoHandle)

\* GENERIC_IMPL__RMH_Interface_GetEnabled asks for the name of the interface,
\* then the kernel for its flags; a name nobody has set may be any interface's.
AsksName == /\ InGeneric("RMH_Interface_GetEnabled") /\ Top.next = 1
            /\ Enter(handle, "RMH_Interface_GetName", NoHandle)

AsksKernel(up, r) ==
    /\ InGeneric("RMH_Interface_GetEnabled") /\ Top.next = 2
    /\ \/ r = "SUCCESS" /\ (Top.unset \/ up = driver.iface)
       \/ r = "FAILURE" /\ ~up
    /\ Becomes(Returned([Top EXCEPT !.value = up], r))
    /\ UNCHANGED handle

(***************************************************************************)
(* The caller's frame f after its nested call returned r and answered v    *)
(* (BRMH_RETURN_IF_FAILED): NOT_SUPPORTED does not stop it, and what it    *)
(* then reads is a local variable nobody has set.                          *)
(***************************************************************************)
Resume(f, r, v) ==
    CASE r \notin {"SUCCESS", "NOT_SUPPORTED"} -> Returned(f, r)
      [] OTHER ->
         IF f.api = "RMH_Interface_GetEnabled" THEN [f EXCEPT !.next = 2]
         ELSE IF ~v THEN Returned([f EXCEPT !.status = LinkChecks[f.next].no], "SUCCESS")
         ELSE IF f.next = Len(LinkChecks) THEN Returned([f EXCEPT !.status = "UP"], "SUCCESS")
         ELSE [f EXCEPT !.next = @ + 1]

\* PostAPIExecute, and the return to the generic function that made the call.
ReturnsToCaller(v) ==
    /\ At("exit") /\ Len(stack) > 1
    /\ LET r == Outcome(Top)
           caller == stack[Len(stack) - 1]
           unset == r = "NOT_SUPPORTED" \/ (r = "SUCCESS" /\ Top.unset)
       IN  /\ r = "NOT_SUPPORTED" \/ v = Top.value
           /\ stack' = Append(Front(Front(stack)),
                              Resume([caller EXCEPT !.unset = @ \/ unset], r, v))
    /\ handle' = Shallower(handle)
    /\ UNCHANGED <<soc, socReg, driver, leaked, acked, returned>>

\* PostAPIExecute, and the return to the client, which has no use for a
\* handle it has passed to RMH_Destroy.
ReturnsToClient ==
    /\ At("exit") /\ Len(stack) = 1
    /\ stack' = <<>>
    /\ returned' = [api |-> Top.api, ret |-> Outcome(Top), status |-> Top.status,
                    found |-> Top.found, exact |-> ~Top.unset /\ ~Top.torn,
                    freed |-> ~handle.live]
    /\ acked' = IF Top.api \in Setter
                THEN [acked EXCEPT ![Top.api] = (Outcome(Top) = "SUCCESS")] ELSE acked
    /\ IF Top.api = "RMH_Destroy"
       THEN /\ handle' = NoHandle
            /\ leaked' = leaked + (IF handle.live THEN 1 ELSE 0)
       ELSE handle' = Shallower(handle) /\ UNCHANGED leaked
    /\ UNCHANGED <<soc, socReg, driver>>

\* The MoCA driver and the network interface change when they like.
DriverChanges(d) ==
    /\ d # driver
    /\ driver' = d
    /\ stack' = [i \in DOMAIN stack |-> [stack[i] EXCEPT !.torn = TRUE]]
    /\ returned' = [returned EXCEPT !.exact = FALSE]
    /\ UNCHANGED <<soc, socReg, handle, leaked, acked>>

Next == \/ Initialize \/ InitializeFails
        \/ \E s \in Setter, v \in Value : Call(s, v)
        \/ \E api \in API \ Setter : Call(api, NoHandle)
        \/ Skip \/ \E r \in SocAnswer : SocBefore(r) \/ SocAfter(r)
        \/ GenericNotCalled \/ (\E s \in Setter : GenericSets(s)) \/ GenericDestroys
        \/ AsksNext \/ AsksName
        \/ \E up \in BOOLEAN, r \in {"SUCCESS", "FAILURE"} : AsksKernel(up, r)
        \/ (\E v \in BOOLEAN : ReturnsToCaller(v)) \/ ReturnsToClient
        \/ \E d \in [enabled : BOOLEAN, link : BOOLEAN, iface : BOOLEAN] : DriverChanges(d)

Spec == Init /\ [][Next]_vars

-----------------------------------------------------------------------------
FrameType == [api : API, arg : Value \cup {NoHandle},
              pc : {"before", "generic", "after", "exit"}, found : BOOLEAN,
              socRet : Result, genRet : Result, value : BOOLEAN, status : LinkStatus,
              next : 1 .. 3, ran : Seq({"soc", "generic"} \X Result),
              unset : BOOLEAN, torn : BOOLEAN]

HandleType == [lib : BOOLEAN, open : BOOLEAN, depth : Nat, live : BOOLEAN,
               reg : [Setter -> Value]]

ASSUME HandleAssumption == NoHandle \notin HandleType

\* The fields of struct RMH, the locals of each wrapper call and the history
\* variables keep their types.
TypeOK == /\ soc \in [lib : BOOLEAN, init : {"missing", "works", "fails"}, api : Support]
          /\ socReg \in [Setter -> Value]
          /\ driver \in [enabled : BOOLEAN, link : BOOLEAN, iface : BOOLEAN]
          /\ handle = NoHandle \/ handle \in HandleType
          /\ stack \in Seq(FrameType)
          /\ leaked \in 0 .. MaxLeaks
          /\ acked \in [Setter -> BOOLEAN]

(***************************************************************************)
(* apiDepth is the number of wrapper calls in progress, however the nested *)
(* calls of a composite API end: it is what indents the trace of           *)
(* librmh_wrap.c:45-69, and the client finds it 0 between its calls.       *)
(***************************************************************************)
DepthBalanced == handle # NoHandle => handle.depth = Len(stack)

(***************************************************************************)
(* librmh_wrap.h:101: "If an api fails, further api calls will not be      *)
(* made".  Whichever half of a wrapper runs first, the other one has not   *)
(* run after it failed.  Proved in ApiWrap_proofs.                         *)
(***************************************************************************)
StopsOnFailure ==
    \A i \in DOMAIN stack :
        \A j \in 1 .. Len(stack[i].ran) - 1 : stack[i].ran[j][2] = "SUCCESS"

(***************************************************************************)
(* A mask the client was told is set (PostAPIExecute's choice between the  *)
(* two results) is the mask of both libraries: the generic half changes    *)
(* the handle before the SoC library has agreed, so only a returned error  *)
(* tells the client that the two may differ.                               *)
(***************************************************************************)
AckedMasksAgree ==
    handle # NoHandle /\ stack = <<>> =>
        \A s \in Setter : acked[s] => handle.reg[s] = socReg[s]

(***************************************************************************)
(* RMH_Self_GetLinkStatus combines three separate readings.  When nothing  *)
(* moved meanwhile and every reading was supported, a successful answer is *)
(* the status of the device; it is never UP with a part of it down.        *)
(***************************************************************************)
LinkStatusTrue ==
    returned.api = "RMH_Self_GetLinkStatus" /\ returned.ret = "SUCCESS" /\ returned.exact
        => returned.status = DriverStatus(driver)

(***************************************************************************)
(* RMH_Destroy tells the truth: it returns RMH_SUCCESS exactly when the    *)
(* struct has been freed, so a client that ignores the result is the only  *)
(* one who cannot know that it has lost an instance.                       *)
(***************************************************************************)
DestroySaysFreed ==
    returned.api = "RMH_Destroy" => (returned.ret = "SUCCESS" <=> returned.freed)

\* What is left of the wrapper call f itself, and of a stack of at most three
\* calls; a call that is not there has all its steps before it.
StepsLeftIn(f) == CASE f.pc = "before" -> 5
                    [] f.pc = "generic" -> 5 - f.next
                    [] f.pc = "after" -> 1
                    [] OTHER -> 0
StepsAt(s, i) == IF i \in DOMAIN s THEN StepsLeftIn(s[i]) ELSE 6
StepsLeft(s) == 49 * StepsAt(s, 1) + 7 * StepsAt(s, 2) + StepsAt(s, 3)

(***************************************************************************)
(* A call of the client comes back to it however its halves and the nested *)
(* calls of the composite APIs end: every step of the library brings the   *)
(* return nearer, no API is reached again from itself and no call is       *)
(* nested deeper than RMH_Self_GetLinkStatus, RMH_Interface_GetEnabled,    *)
(* RMH_Interface_GetName.                                                  *)
(***************************************************************************)
CallReturns ==
    [][stack # <<>> /\ stack' # <<>> /\ driver' = driver =>
           StepsLeft(stack') < StepsLeft(stack)]_vars

(***************************************************************************)
(* rmh_api.h:83 of RMH_Destroy: "Destroy the instance of RMH library which *)
(* was created by RMH_Initialize".  The code does so only when the SoC     *)
(* library is there, was initialized and its own RMH_Destroy succeeds.     *)
(***************************************************************************)
DestroyFrees == returned.api = "RMH_Destroy" => returned.freed
=============================================================================
