------------------------------ MODULE LogRouting ------------------------------
(***************************************************************************)
(* Where the lines of the RMH library go.  RMH_Print writes to             *)
(* handle->localLogToFile when that is set, and the reports                *)
(* (RMH_Log_PrintStatus, PrintStats, PrintFlows) set it for the time of    *)
(* one call.  RMH_Log_CreateDriverFile makes such a report, and            *)
(* RMH_Self_RestoreRDKDefaultSettings makes such a file.                   *)
(*                                                                         *)
(* One client thread calls these APIs of one handle.  A call is a frame on *)
(* a stack; the SoC library answers each query as it likes.  The level     *)
(* mask is left out: every line is printed.  What a report prints is one   *)
(* line, the same for all the tables it is made of.                        *)
(***************************************************************************)
EXTENDS Naturals, Sequences, SequencesExt

CONSTANTS
    Name,           \* file names
    None,           \* a NULL FILE pointer or file name
    SetMacFromProc, \* the build option RMH_START_SET_MAC_FROM_PROC
    MaxStreams,     \* the streams the process may have open
    MaxFailed       \* bound: failures that leave a stream open before the client stops

ASSUME RoutingAssumption == /\ None \notin Name
                            /\ Name \cap {"callback", "stdout"} = {}
                            /\ SetMacFromProc \in BOOLEAN
                            /\ MaxStreams \in Nat \ {0} /\ MaxFailed \in Nat

VARIABLES
    localLogToFile, \* handle->localLogToFile, by the name it was opened with
    streams,        \* how many FILEs of these functions are open
    listening,      \* a callback is registered and RMH_EVENT_API_PRINT is in its mask
    driver,         \* the SoC driver's log level and log file
    stack,          \* the calls in progress, the innermost last
    line,           \* history: the line printed last, by whom, and where it went
    failed,         \* history: returns and failures that left a stream open
    returned        \* history: what the latest call of the client returned

vars == <<localLogToFile, streams, listening, driver, stack, line, failed, returned>>

Report == {"PrintStatus", "PrintStats", "PrintFlows"}
API == Report \cup {"PrintModulation", "CreateDriverFile", "RestoreRDKDefaultSettings"}
Answer == {"SUCCESS", "NOT_SUPPORTED", "FAILURE"}
Result == Answer \cup {"INSUFFICIENT_SPACE", "INVALID_INTERNAL_STATE"}
File == Name \cup {None}
PC == {"open", "ask", "body", "close", "name", "create", "made",
       "enabled", "defaults", "level", "flag", "created", "filename", "debug", "settings"}

DriverState == [level : {"default", "debug", "other"}, file : File]

NoLine == [api |-> "none", arg |-> None, body |-> FALSE, sink |-> "stdout"]
NoReturn == [api |-> "none", ret |-> "SUCCESS", flag |-> "none", debug |-> FALSE, made |-> None]

Begin(api) == CASE api \in Report -> "open"
                [] api = "PrintModulation" -> "ask"
                [] api = "CreateDriverFile" -> "name"
                [] OTHER -> "enabled"

\* made: the file CreateDriverFile made; flag: the debug file that was found;
\* debug: RMH_LOG_DEBUG has been set; ret: what the nested call returned.
Frame(api, arg) == [api |-> api, arg |-> arg, pc |-> Begin(api), ret |-> "SUCCESS",
                    made |-> None, flag |-> "none", debug |-> FALSE]

Init == /\ localLogToFile = None
        /\ streams = 0
        /\ listening \in BOOLEAN
        /\ driver = [level |-> "default", file |-> None]
        /\ stack = <<>>
        /\ line = NoLine
        /\ failed = 0
        /\ returned = NoReturn

-----------------------------------------------------------------------------
Top == Last(stack)

\* The innermost call is one of A and has got to pc.
At(A, pc) == stack # <<>> /\ Top.api \in A /\ Top.pc = pc

Becomes(f) == stack' = Append(Front(stack), f) /\ UNCHANGED returned
Goes(pc) == Becomes([Top EXCEPT !.pc = pc])

\* The innermost call returns r, to the API that made it or to the client.
Return(r) ==
    IF Len(stack) = 1
    THEN /\ stack' = <<>>
         /\ returned' = [api |-> Top.api, ret |-> r, flag |-> Top.flag,
                         debug |-> Top.debug, made |-> Top.made]
    ELSE /\ stack' = Append(Front(Front(stack)),
                            [stack[Len(stack) - 1] EXCEPT !.ret = r, !.made = Top.made])
         /\ UNCHANGED returned

\* RMH_Print: a file before the callback, the callback before stdout.
Sink(file) == IF file # None THEN file ELSE IF listening THEN "callback" ELSE "stdout"

\* The innermost call prints while localLogToFile is file: a warning or an
\* error, or the tables of a report.
Line(file, body) == [api |-> Top.api, arg |-> Top.arg, body |-> body, sink |-> Sink(file)]
Prints(file) == line' = Line(file, FALSE)
PrintsTables(file) == line' = Line(file, TRUE)

Keeps == UNCHANGED <<localLogToFile, streams, listening, driver, failed>>

-----------------------------------------------------------------------------
\* The client calls an API, or registers for the lines of the library or not.
Call(api, arg) ==
    /\ stack = <<>> /\ failed < MaxFailed
    /\ stack' = <<Frame(api, arg)>>
    /\ line' = NoLine /\ returned' = NoReturn
    /\ Keeps

SetEventCallbacks ==
    /\ stack = <<>>
    /\ listening' = ~listening
    /\ line' = NoLine /\ returned' = NoReturn
    /\ UNCHANGED <<localLogToFile, streams, driver, stack, failed>>

-----------------------------------------------------------------------------
\* A report opens the file it was given, in place of whatever was there.
OpenUnlessOpen(file) ==
    localLogToFile' = IF localLogToFile = None THEN file ELSE localLogToFile
Open(file) == localLogToFile' = file

ReportOpens == /\ At(Report, "open") /\ Top.arg # None /\ streams < MaxStreams
               /\ Open(Top.arg)
               /\ streams' = streams + 1
               /\ Goes("ask")
               /\ UNCHANGED <<listening, driver, line, failed>>

\* fopen returned NULL, which is then the value of localLogToFile.
ReportCannotOpen == /\ At(Report, "open") /\ Top.arg # None
                    /\ localLogToFile' = None
                    /\ Prints(None)
                    /\ Return("FAILURE")
                    /\ UNCHANGED <<streams, listening, driver, failed>>

ReportNamesNoFile == /\ At(Report, "open") /\ Top.arg = None
                     /\ Goes("ask")
                     /\ Keeps /\ UNCHANGED line

\* PrintStatus asks RMH_Self_GetEnabled and gives up when that fails, with
\* localLogToFile as it is; the other reports print what they can.
StatusFails(r) == /\ At({"PrintStatus"}, "ask") /\ r # "SUCCESS"
                  /\ Prints(localLogToFile)
                  /\ Return(r)
                  /\ failed' = failed + (IF localLogToFile # None THEN 1 ELSE 0)
                  /\ UNCHANGED <<localLogToFile, streams, listening, driver>>

ReportAsks == /\ At(Report, "ask")
              /\ Goes("body")
              /\ Keeps /\ UNCHANGED line

ReportPrints == /\ At(Report, "body")
                /\ PrintsTables(localLogToFile)
                /\ Goes("close")
                /\ Keeps

\* The end of a report closes localLogToFile, whoever opened it.
CloseOwn == IF Top.arg # None
            THEN localLogToFile' = None /\ streams' = streams - 1
            ELSE UNCHANGED <<localLogToFile, streams>>
CloseForgets == localLogToFile' = None /\ UNCHANGED streams
CloseAlways == localLogToFile' = None /\ streams' = streams - 1
Close == IF localLogToFile # None
         THEN localLogToFile' = None /\ streams' = streams - 1
         ELSE UNCHANGED <<localLogToFile, streams>>

ReportCloses == /\ At(Report, "close")
                /\ Close
                /\ Return("SUCCESS")
                /\ UNCHANGED <<listening, driver, line, failed>>

\* PrintModulation does not look at the file name.  Its queries fail one by
\* one; a link that is down is reported with the result of asking for it.
ModulationDown(r) == /\ At({"PrintModulation"}, "ask")
                     /\ Prints(localLogToFile)
                     /\ Return(r)
                     /\ Keeps

ModulationFails(r) == /\ At({"PrintModulation"}, "ask") /\ r # "SUCCESS"
                      /\ Return(r)
                      /\ Keeps /\ UNCHANGED line

ModulationPrints(r) == /\ At({"PrintModulation"}, "ask")
                       /\ PrintsTables(localLogToFile)
                       /\ Return(r)
                       /\ Keeps

-----------------------------------------------------------------------------
\* CreateDriverFile: the name does not fit the buffer, or the file cannot be
\* created.
CreateFails(r) == /\ At({"CreateDriverFile"}, "name")
                  /\ r \in {"FAILURE", "INSUFFICIENT_SPACE"}
                  /\ Prints(localLogToFile)
                  /\ Return(r)
                  /\ Keeps

\* The file is written, with the version of the device, and closed; then
\* PrintStatus appends to it.
CreateWrites(n) ==
    /\ At({"CreateDriverFile"}, "name") /\ streams < MaxStreams
    /\ stack' = Append(Front(stack), [Top EXCEPT !.pc = "made", !.made = n])
                    \o <<[Frame("PrintStatus", n) EXCEPT !.made = n]>>
    /\ Keeps /\ UNCHANGED <<line, returned>>

\* A report that failed is worth a warning; the file is there all the same.
CreateReturns == /\ At({"CreateDriverFile"}, "made")
                 /\ IF Top.ret # "SUCCESS" THEN Prints(localLogToFile) ELSE UNCHANGED line
                 /\ Return("SUCCESS")
                 /\ Keeps

-----------------------------------------------------------------------------
\* RestoreRDKDefaultSettings: not while MoCA is started.  When asking for it
\* is not supported, what it then tests is a variable nobody has set.
RestoreRefused(r) == /\ At({"RestoreRDKDefaultSettings"}, "enabled")
                     /\ r \in {"INVALID_INTERNAL_STATE", "FAILURE"}
                     /\ Prints(localLogToFile)
                     /\ Return(r)
                     /\ Keeps

RestoreStarts == /\ At({"RestoreRDKDefaultSettings"}, "enabled")
                 /\ Goes("defaults")
                 /\ Keeps /\ UNCHANGED line

\* RMH_Self_RestoreDefaultSettings of the SoC library, which may reset its log.
RestoreDefaults(d) ==
    /\ At({"RestoreRDKDefaultSettings"}, "defaults")
    /\ driver' = d
    /\ Goes("level")
    /\ UNCHANGED <<localLogToFile, streams, listening, line, failed>>

RestoreDefaultsFails == /\ At({"RestoreRDKDefaultSettings"}, "defaults")
                        /\ Return("FAILURE")
                        /\ Prints(localLogToFile)
                        /\ Keeps

\* RMH_Log_SetDriverLevel(RMH_LOG_DEFAULT), which need not succeed, and the
\* look for the two files that ask for debug logging.
RestoreLevel(r, flag) ==
    /\ At({"RestoreRDKDefaultSettings"}, "level")
    /\ IF r = "SUCCESS" THEN driver' = [driver EXCEPT !.level = "default"] /\ UNCHANGED line
                        ELSE UNCHANGED driver /\ Prints(localLogToFile)
    /\ Becomes([Top EXCEPT !.flag = flag,
                           !.pc = CASE flag = "forever" -> "create"
                                    [] flag = "debug" -> "debug"
                                    [] OTHER -> "settings"])
    /\ UNCHANGED <<localLogToFile, streams, listening, failed>>

RestoreCreates ==
    /\ At({"RestoreRDKDefaultSettings"}, "create")
    /\ stack' = Append(Front(stack), [Top EXCEPT !.pc = "created"])
                    \o <<Frame("CreateDriverFile", None)>>
    /\ Keeps /\ UNCHANGED <<line, returned>>

\* The next step after a step of the debug setup that answered r: the first
\* one that fails ends it.
NextAnyway(r, pc) == pc
NextIf(r, pc) == IF r = "SUCCESS" THEN pc ELSE "settings"

RestoreCreated == /\ At({"RestoreRDKDefaultSettings"}, "created")
                  /\ IF Top.ret # "SUCCESS" THEN Prints(localLogToFile) ELSE UNCHANGED line
                  /\ Goes(NextIf(Top.ret, "filename"))
                  /\ Keeps

RestoreFilename(r) ==
    /\ At({"RestoreRDKDefaultSettings"}, "filename")
    /\ IF r = "SUCCESS" THEN driver' = [driver EXCEPT !.file = Top.made] /\ UNCHANGED line
                        ELSE UNCHANGED driver /\ Prints(localLogToFile)
    /\ Goes(NextIf(r, "debug"))
    /\ UNCHANGED <<localLogToFile, streams, listening, failed>>

\* RMH_Log_SetDriverLevel(RMH_LOG_DEFAULT | RMH_LOG_DEBUG), and what came of it.
RestoreDebug(r) ==
    /\ At({"RestoreRDKDefaultSettings"}, "debug")
    /\ driver' = IF r = "SUCCESS" THEN [driver EXCEPT !.level = "debug"] ELSE driver
    /\ Prints(localLogToFile)
    /\ Becomes([Top EXCEPT !.pc = "settings", !.debug = (r = "SUCCESS")])
    /\ UNCHANGED <<localLogToFile, streams, listening, failed>>

(***************************************************************************)
(* The device configuration: each setter that fails ends the call, the two *)
(* at the end are not checked.  The address file of the interface is read  *)
(* in between; when it does not hold six bytes, the call returns with that *)
(* file open.                                                              *)
(***************************************************************************)
RestoreReturns(r) == /\ At({"RestoreRDKDefaultSettings"}, "settings")
                     /\ r \in {"SUCCESS", "FAILURE"}
                     /\ Return(r)
                     /\ IF r = "SUCCESS" THEN UNCHANGED line ELSE Prints(localLogToFile)
                     /\ Keeps

RestoreBadMac == /\ At({"RestoreRDKDefaultSettings"}, "settings")
                 /\ SetMacFromProc /\ streams < MaxStreams
                 /\ streams' = streams + 1
                 /\ failed' = failed + 1
                 /\ Prints(localLogToFile)
                 /\ Return("FAILURE")
                 /\ UNCHANGED <<localLogToFile, listening, driver>>

Next == \/ (\E api \in Report \cup {"PrintModulation"}, arg \in File : Call(api, arg))
        \/ (\E api \in {"CreateDriverFile", "RestoreRDKDefaultSettings"} : Call(api, None))
        \/ SetEventCallbacks
        \/ ReportOpens \/ ReportCannotOpen \/ ReportNamesNoFile
        \/ ReportAsks \/ ReportPrints \/ ReportCloses
        \/ \E r \in Result : \/ StatusFails(r) \/ ModulationDown(r) \/ ModulationFails(r)
                             \/ ModulationPrints(r) \/ CreateFails(r) \/ RestoreRefused(r)
        \/ (\E n \in Name : CreateWrites(n)) \/ CreateReturns
        \/ RestoreStarts \/ (\E d \in DriverState : RestoreDefaults(d)) \/ RestoreDefaultsFails
        \/ \E r \in Answer, flag \in {"none", "debug", "forever"} : RestoreLevel(r, flag)
        \/ RestoreCreates \/ RestoreCreated
        \/ \E r \in Answer : RestoreFilename(r) \/ RestoreDebug(r) \/ RestoreReturns(r)
        \/ RestoreBadMac

Spec == Init /\ [][Next]_vars

-----------------------------------------------------------------------------
FrameType == [api : API, arg : File, pc : PC, ret : Result, made : File,
              flag : {"none", "debug", "forever"}, debug : BOOLEAN]

\* The handle, the driver's log, the locals of each call and the history
\* variables keep their types.
TypeOK == /\ localLogToFile \in File
          /\ streams \in 0 .. MaxStreams
          /\ listening \in BOOLEAN
          /\ driver \in DriverState
          /\ stack \in Seq(FrameType)
          /\ line \in [api : API \cup {"none"}, arg : File, body : BOOLEAN,
                       sink : Name \cup {"callback", "stdout"}]
          /\ failed \in 0 .. MaxFailed + 1
          /\ returned \in [api : API \cup {"none"}, ret : Result, debug : BOOLEAN,
                           flag : {"none", "debug", "forever"}, made : File]

\* The report that is being written to a file of its own, if there is one.
Reporting == \E i \in DOMAIN stack : /\ stack[i].api \in Report /\ stack[i].arg # None
                                    /\ stack[i].pc # "open"

(***************************************************************************)
(* Only the two early returns that skip an fclose leave a stream open (a   *)
(* PrintStatus whose RMH_Self_GetEnabled failed, an address file without   *)
(* six bytes): whatever is called in whatever order, no more streams are   *)
(* open than those failures and the report in progress account for.        *)
(***************************************************************************)
LeakNeedsFailure == streams <= failed + (IF Reporting THEN 1 ELSE 0)

(***************************************************************************)
(* rmh_api.h:6447: "If it is not NULL the status will be appended to that  *)
(* file".  What a report prints goes to the file it was given, also when   *)
(* an earlier report has left another one behind, and when the report is   *)
(* made by RMH_Log_CreateDriverFile.                                       *)
(***************************************************************************)
OwnFile == line.body /\ line.api \in Report /\ line.arg # None => line.sink = line.arg

(***************************************************************************)
(* After a report that returned RMH_SUCCESS the lines of the library are   *)
(* no longer redirected, even when it was not the one that redirected      *)
(* them: a stale file lasts until the next report that succeeds.           *)
(***************************************************************************)
HealedBySuccess ==
    returned.api \in Report /\ returned.ret = "SUCCESS" => localLogToFile = None

(***************************************************************************)
(* RestoreRDKDefaultSettings with the "debug forever" file present turns   *)
(* RMH_LOG_DEBUG on only with the driver logging to the file that was      *)
(* created for it in the same call, however many of the steps failed.      *)
(***************************************************************************)
DebugInOwnFile == returned.flag = "forever" /\ returned.debug =>
                      driver.file = returned.made /\ returned.made # None

(***************************************************************************)
(* rmh_api.h:6446, "If <filename> is NULL all log messages are printed     *)
(* with RMH_LOG_MESSAGE": they do not go to some file.                     *)
(***************************************************************************)
NullMeansLog == line.body /\ line.arg = None => line.sink \notin Name
=============================================================================
