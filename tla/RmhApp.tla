------------------------------- MODULE RmhApp -------------------------------
(***************************************************************************)
(* The rmh command line application: what main does with its arguments,    *)
(* the menus, the handlers one call at a time, the local commands that     *)
(* switch MoCA and its debug log, and the viewer of driver logs with its   *)
(* signal handler.  The driver keeps its state from one run of the         *)
(* program to the next, and other programs use it too.                     *)
(***************************************************************************)
EXTENDS AppHandlers, EnumTexts, GenericApis

CONSTANTS
    Words,       \* the command words that are tried
    NoWord,      \* argRunCommand is NULL
    OptionSets,  \* the sets of options given on the command line
    SocExports,  \* the APIs the SoC library exports
    StartLevels, \* log levels the driver may have when it is started
    OtherLevels, \* log levels other programs give to the driver
    MaxOthers    \* bound: how often they do so while one rmh runs

Levels == 0 .. 4
DEBUG == 3
RMH_LOG_DEFAULT == {0, 1, 2}

ASSUME AppAssumption ==
    /\ NoWord \notin Words
    /\ OptionSets \subseteq SUBSET {"debug", "help", "match", "list"}
    /\ StartLevels \subseteq SUBSET Levels /\ OtherLevels \subseteq SUBSET Levels
    /\ MaxOthers \in Nat

VARIABLES
    level, ownFile, enabled, \* the driver: log level, a log file of its own, MoCA runs
    pc,                      \* the next step of the process, "off" when there is none
    cmd, opts,               \* argRunCommand and the options
    menu, row,               \* the list on the screen, the row that is run
    at, arg, seen,           \* steps of the handler done, the value it read, logLevel
    result,                  \* what the command returned
    erange,                  \* errno is ERANGE
    handle,                  \* app->rmh
    hooked, saved,           \* gIntApp is set, driverLogLevel
    found,                   \* history: the level when the command began, or set by others since
    others,                  \* history: changes by other programs during this run
    frees, ended,            \* history: successful RMH_Destroy, how the process ended
    failed, mishaps          \* history: a step of the handler failed; what went wrong

driver == <<level, ownFile, enabled>>
command == <<cmd, opts, menu, row>>
progress == <<at, arg, seen, result, failed>>
viewer == <<hooked, saved>>
library == <<handle, frees>>
vars == <<driver, pc, command, progress, erange, library, viewer, found, others, ended, mishaps>>

\* The tables, for the words that are tried.
RowFor == [word \in Words |-> RMHApp_FindHandler(word)]
Known == {word \in Words : RMHApp_FindAPI(word)}
Outcomes == [api \in {r.api : r \in HandledRows} |-> CallResults(api, SocExports)]

Debug == "RMHApp_EnableDriverDebugLogging"
NoDebug == "RMHApp_DisableDriverDebugLogging"
Forever == "RMHApp_DriverLogForever"

LocalPCs == {"getFile", "dropFile", "createFile", "takeFile", "getLevel", "setLevel",
             "getEnabled", "setEnabled"}
ViewerPCs == {"viewEvents", "viewLevel", "raise", "watch", "restore"}
PCs == {"off", "init", "lists", "dispatch", "menu", "running", "destroy", "return"}
         \cup LocalPCs \cup ViewerPCs
Menus == {"none", "tags", "all", "unimplemented", "local", "tag", "search"}
Results == {"none", "RMH_SUCCESS", "RMH_FAILURE", "RMH_INVALID_INTERNAL_STATE"}

Init ==
    /\ level \in StartLevels /\ ownFile \in BOOLEAN /\ enabled \in BOOLEAN
    /\ pc = "off" /\ cmd = NoWord /\ opts = {} /\ menu = "none" /\ row = NoRow
    /\ at = 0 /\ arg = 0 /\ seen = {} /\ result = "none" /\ failed = FALSE
    /\ erange = FALSE /\ handle = "none" /\ hooked = FALSE /\ saved = {}
    /\ found = level /\ others = 0 /\ frees = 0 /\ ended = "no" /\ mishaps = {}

-----------------------------------------------------------------------------
\* RMHApp_ParseOptions: the word is the first argument that is no option; an
\* unknown option ends the parsing before it.
Start(word, options) ==
    /\ pc = "off" /\ pc' = "init"
    /\ cmd' = word /\ opts' = options /\ menu' = "none" /\ row' = NoRow
    /\ at' = 0 /\ arg' = 0 /\ seen' = {} /\ result' = "none" /\ failed' = FALSE
    /\ erange' = FALSE /\ handle' = "none" /\ hooked' = FALSE /\ saved' = {}
    /\ found' = level /\ others' = 0 /\ frees' = 0 /\ ended' = "no" /\ mishaps' = {}
    /\ UNCHANGED driver

\* main returns without RMH_Destroy when the list of APIs cannot be had.
InitializeUnchecked(ok) ==
    /\ pc = "init" /\ pc' = "lists"
    /\ handle' = IF ok THEN "valid" ELSE "none"
    /\ UNCHANGED <<driver, command, progress, erange, frees, viewer,
                   found, others, ended, mishaps>>

Initialize(ok) ==
    /\ pc = "init"
    /\ pc' = IF ok THEN "lists" ELSE "return"
    /\ handle' = IF ok THEN "valid" ELSE "none"
    /\ result' = IF ok THEN result ELSE "RMH_FAILURE"
    /\ UNCHANGED <<driver, command, at, arg, seen, failed, erange, frees, viewer,
                   found, others, ended, mishaps>>

\* Of the calls that prepare the lists only the first one must succeed.
GetAllAPIs(ok) ==
    /\ pc = "lists"
    /\ pc' = IF ok THEN "dispatch" ELSE "return"
    /\ result' = IF ok THEN result ELSE "RMH_FAILURE"
    /\ UNCHANGED <<driver, command, at, arg, seen, failed, erange, library, viewer,
                   found, others, ended, mishaps>>

-----------------------------------------------------------------------------
\* A command returns r: to main, or to the menu it was picked from.
Returns(r) ==
    /\ result' = r
    /\ pc' = IF menu = "none" THEN "destroy" ELSE "menu"

KeepsWorld == UNCHANGED <<driver, library, viewer, others, ended>>

\* Where apiHandlerFunc begins: a local command makes its first call.
FirstStep(r) ==
    CASE r.api \in {Debug, NoDebug, Forever} -> "getFile"
      [] r.api \in {"RMHApp_Start", "RMHApp_Stop"} -> "getEnabled"
      [] OTHER -> "running"

RunsRow(r) ==
    /\ row' = r /\ pc' = FirstStep(r)
    /\ at' = 0 /\ arg' = 0 /\ seen' = {} /\ result' = "none" /\ failed' = FALSE
    /\ found' = level /\ mishaps' = {}

Commanded == pc = "dispatch" /\ cmd # NoWord

\* RMHApp_ExecuteCommand with --search; then it is a menu like the others.
ExecuteSearch(hit) ==
    /\ Commanded /\ "match" \in opts
    /\ cmd \in Known \ LocalNames => hit
    /\ IF hit
         THEN cmd' = NoWord /\ menu' = "search" /\ pc' = "menu" /\ UNCHANGED result
         ELSE Returns("RMH_FAILURE") /\ UNCHANGED <<cmd, menu>>
    /\ UNCHANGED <<opts, row, at, arg, seen, failed, erange, found, mishaps>> /\ KeepsWorld

\* .. with --help, and with a word that has no handler: nothing is run.
ExecuteNothing ==
    /\ Commanded /\ "match" \notin opts
    /\ \/ /\ "help" \in opts
          /\ Returns(IF RowFor[cmd] # NoRow \/ cmd \in Known THEN "RMH_SUCCESS" ELSE "RMH_FAILURE")
       \/ "help" \notin opts /\ RowFor[cmd] = NoRow /\ Returns("RMH_FAILURE")
    /\ UNCHANGED <<command, at, arg, seen, failed, erange, found, mishaps>> /\ KeepsWorld

\* .. and with a word that has one.
ExecuteCommand ==
    /\ Commanded /\ opts \cap {"match", "help"} = {}
    /\ RowFor[cmd] # NoRow
    /\ RunsRow(RowFor[cmd])
    /\ UNCHANGED <<cmd, opts, menu, erange>> /\ KeepsWorld

Uncommanded == pc = "dispatch" /\ cmd = NoWord

\* --list, or --help alone.
PrintsOnly ==
    /\ Uncommanded
    /\ "list" \in opts \/ ("help" \in opts /\ "debug" \notin opts)
    /\ Returns("RMH_SUCCESS")
    /\ UNCHANGED <<command, at, arg, seen, failed, erange, found, mishaps>> /\ KeepsWorld

ExecuteTagList ==
    /\ Uncommanded /\ opts \cap {"list", "debug", "help"} = {}
    /\ menu' = "tags" /\ pc' = "menu"
    /\ UNCHANGED <<cmd, opts, row, progress, erange, found, mishaps>> /\ KeepsWorld

-----------------------------------------------------------------------------
(***************************************************************************)
(* The menus.  RMHApp_ReadMenuOption takes a number when errno is not      *)
(* ERANGE, which a number out of range sets and nothing clears.            *)
(***************************************************************************)
Choice == pc = "menu" /\ ~erange

\* 1: exit, or back to the tags.
MenuLeft ==
    /\ Choice
    /\ IF menu \in {"tags", "search"}
         THEN menu' = "none" /\ pc' = "destroy" /\ result' = "RMH_SUCCESS"
         ELSE menu' = "tags" /\ UNCHANGED <<pc, result>>
    /\ row' = NoRow /\ mishaps' = {}
    /\ UNCHANGED <<cmd, opts, at, arg, seen, failed, erange, found>> /\ KeepsWorld

MenuOpened(m) ==
    /\ Choice /\ menu = "tags"
    /\ menu' = m
    /\ UNCHANGED <<pc, cmd, opts, row, progress, erange, found, mishaps>> /\ KeepsWorld

Listing(m) ==
    CASE m = "local" -> LocalNames
      [] m = "unimplemented" -> Unimplemented(SocExports)
      [] m = "tag" -> UNION {Tagged(AllApis, t) : t \in TagsOf(AllApis)}
      [] m \in {"all", "search"} -> ApiNames
      [] OTHER -> {}

Listed == [m \in Menus |-> Words \cap Listing(m)]

\* RMHApp_ExecuteAPIList runs what was picked; with a question mark or --help
\* it prints the help instead, and an API without a handler is an error.
MenuPicked(word) ==
    /\ Choice /\ word \in Listed[menu] /\ "help" \notin opts
    /\ IF RowFor[word] = NoRow
         THEN /\ row' = NoRow /\ result' = "RMH_FAILURE" /\ mishaps' = {}
              /\ UNCHANGED <<pc, at, arg, seen, failed, found>>
         ELSE RunsRow(RowFor[word])
    /\ UNCHANGED <<cmd, opts, menu, erange>> /\ KeepsWorld

\* Any other line is refused and changes nothing.
MenuOutOfRange ==
    /\ pc = "menu"
    /\ erange' = TRUE
    /\ UNCHANGED <<pc, command, progress, found, mishaps>> /\ KeepsWorld

-----------------------------------------------------------------------------
(***************************************************************************)
(* A handler: its readers, then its API, then what else it calls.          *)
(***************************************************************************)
HandlerOf(r) == HandlerNamed[r.handler]
StepsOf(h) == Len(h.reads) + 1 + h.later

\* The readers that use strtol look at errno.  A reader gets what it asks
\* for, the name of a log level, a number out of range, or something else.
StrtolReaders == {"uint32", "int32", "hex", "logLevel"}
Inputs == {"good", "name", "range", "bad"}
Accepts(reader, input) ==
    \/ input = "good" /\ (reader \in StrtolReaders => ~erange)
    \/ input = "name" /\ reader = "logLevel"

\* What was read, where a later step or a property depends on it.
ValuesRead(reader) ==
    CASE reader = "logLevel" -> Levels
      [] reader = "bool" -> {0, 1}
      [] OTHER -> {0}

\* The step at + 1 of h: the handler goes on after a success and returns
\* after its last step or a failure.
ResultOfEarlier(h, step, ok) == IF ok \/ step >= h.counted THEN "RMH_SUCCESS" ELSE "RMH_FAILURE"
ResultOf(h, step, ok) == IF ok \/ step > h.counted THEN "RMH_SUCCESS" ELSE "RMH_FAILURE"

StepRepeated(h, ok) ==
    /\ failed' = ~ok
    /\ at' = IF ok THEN at + 1 ELSE at
    /\ IF ok /\ at + 1 = StepsOf(h) THEN Returns("RMH_SUCCESS") ELSE UNCHANGED <<pc, result>>

StepDone(h, ok) ==
    /\ at' = at + 1
    /\ failed' = ~ok
    /\ IF ok /\ at + 1 < StepsOf(h)
         THEN UNCHANGED <<pc, result>>
         ELSE Returns(ResultOf(h, at + 1, ok))

Reads(h, input) ==
    /\ at < Len(h.reads)
    /\ LET reader == h.reads[at + 1] IN
       /\ erange' = (erange \/ (input = "range" /\ reader \in StrtolReaders))
       /\ arg' \in ValuesRead(reader)
       /\ StepDone(h, Accepts(reader, input))
    /\ UNCHANGED <<command, seen, found, mishaps>> /\ KeepsWorld

\* From the rest of the command line, or from the user.
ReadsArg ==
    pc = "running" /\ cmd # NoWord /\ \E input \in Inputs : Reads(HandlerOf(row), input)
ReadsLine ==
    pc = "running" /\ cmd = NoWord /\ \E input \in Inputs : Reads(HandlerOf(row), input)

\* The driver takes the value as a mask; what was read is the place of a
\* name in RMH_LogLevelStr.
MaskShifted(n) == {n + 1}
MaskOf(n) == {b \in Levels : (n \div 2^b) % 2 = 1}

\* What the API does to the driver: a set that fails changes nothing, a
\* restore may have got anywhere.
Effect(api, ok) ==
    CASE api = "RMH_Log_SetDriverLevel" /\ ok ->
           level' = MaskOf(arg) /\ UNCHANGED <<ownFile, enabled>>
      [] api = "RMH_Log_SetDriverFilename" /\ ok ->
           ownFile' = TRUE /\ UNCHANGED <<level, enabled>>
      [] api = "RMH_Self_SetEnabled" /\ ok ->
           enabled' = (arg = 1) /\ UNCHANGED <<level, ownFile>>
      [] api \in {"RMH_Self_RestoreDefaultSettings", "RMH_Self_RestoreRDKDefaultSettings"} ->
           /\ level' \in {level, RMH_LOG_DEFAULT, RMH_LOG_DEFAULT \cup {DEBUG}}
           /\ ownFile' \in BOOLEAN /\ enabled' \in BOOLEAN
      [] OTHER -> UNCHANGED driver

\* The API, or what the handler calls after it.  A call may change errno, but
\* the library has no reason to leave ERANGE there.
CallsApi(ok) ==
    /\ pc = "running"
    /\ LET h == HandlerOf(row) IN
       /\ at >= Len(h.reads)
       /\ at = Len(h.reads) => ok \in Outcomes[row.api]
       /\ StepDone(h, ok)
       /\ IF at = Len(h.reads) THEN Effect(row.api, ok) ELSE UNCHANGED driver
    /\ erange' \in {erange, FALSE}
    /\ UNCHANGED <<command, arg, seen, library, viewer, found, others, ended, mishaps>>

-----------------------------------------------------------------------------
(***************************************************************************)
(* The local commands, one call of the library at a time.                  *)
(***************************************************************************)
KeepsLocal == UNCHANGED <<command, at, arg, failed, erange, library, viewer, found, others, ended>>

Goes(next) == pc' = next /\ UNCHANGED result

\* RMH_Log_GetDriverFilename: only the stop looks at its result.
GetsFile(ok) ==
    /\ pc = "getFile"
    /\ Goes(CASE row.api = Forever -> "createFile"
              [] row.api = NoDebug /\ ok -> "dropFile"
              [] OTHER -> "getLevel")
    /\ mishaps' = IF ok THEN mishaps ELSE mishaps \cup {"fileUnknown"}
    /\ UNCHANGED <<driver, seen>> /\ KeepsLocal

\* RMH_Log_SetDriverFilename: to NULL, or to the file that was made.
SetsFile(ok) ==
    /\ pc \in {"dropFile", "takeFile"}
    /\ IF ok
         THEN Goes("getLevel") /\ ownFile' = (pc = "takeFile")
         ELSE Returns("RMH_FAILURE") /\ UNCHANGED ownFile
    /\ UNCHANGED <<level, enabled, seen, mishaps>> /\ KeepsLocal

CreatesFile(ok) ==
    /\ pc = "createFile"
    /\ IF ok THEN Goes("takeFile") ELSE Returns("RMH_FAILURE")
    /\ UNCHANGED <<driver, seen, mishaps>> /\ KeepsLocal

\* The level the command wants when the driver has level l.
WantedDefault(l) == IF row.api = NoDebug THEN RMH_LOG_DEFAULT ELSE RMH_LOG_DEFAULT \cup {DEBUG}
Wanted(l) == IF row.api = NoDebug THEN l \ {DEBUG} ELSE l \cup {DEBUG}

GetsLevel(ok) ==
    /\ pc = "getLevel"
    /\ IF ~ok THEN Returns("RMH_FAILURE") /\ UNCHANGED seen
       ELSE /\ seen' = level
            /\ IF Wanted(level) = level THEN Returns("RMH_SUCCESS") ELSE Goes("setLevel")
    /\ UNCHANGED <<driver, mishaps>> /\ KeepsLocal

SetsLevel(ok) ==
    /\ pc = "setLevel"
    /\ level' = IF ok THEN Wanted(seen) ELSE level
    /\ Returns(IF ok THEN "RMH_SUCCESS" ELSE "RMH_FAILURE")
    /\ UNCHANGED <<ownFile, enabled, seen, mishaps>> /\ KeepsLocal

\* RMH_Self_GetEnabled.  When it fails, RMHApp_Start takes MoCA for stopped
\* and RMHApp_Stop tests a variable that nobody has set.
Started(ok) == IF ok THEN {enabled} ELSE IF row.api = "RMHApp_Start" THEN {FALSE} ELSE BOOLEAN

\* One of the two files that forbid a start.  RMHApp_Start then returns what
\* RMH_Self_GetEnabled did.
GetsEnabled(ok, started, forbidden) ==
    /\ pc = "getEnabled" /\ started \in Started(ok)
    /\ forbidden => row.api = "RMHApp_Start"
    /\ IF started = (row.api = "RMHApp_Start")
         THEN Returns("RMH_INVALID_INTERNAL_STATE") /\ UNCHANGED mishaps
       ELSE IF forbidden
         THEN /\ Returns(IF ok THEN "RMH_SUCCESS" ELSE "RMH_FAILURE")
              /\ mishaps' = mishaps \cup {"forbidden"}
       ELSE Goes("setEnabled") /\ UNCHANGED mishaps
    /\ UNCHANGED <<driver, seen>> /\ KeepsLocal

SetsEnabled(ok) ==
    /\ pc = "setEnabled"
    /\ enabled' = IF ok THEN row.api = "RMHApp_Start" ELSE enabled
    /\ Returns(IF ok THEN "RMH_SUCCESS" ELSE "RMH_FAILURE")
    /\ UNCHANGED <<level, ownFile, seen, mishaps>> /\ KeepsLocal

-----------------------------------------------------------------------------
(***************************************************************************)
(* RMHApp_ExecuteMonitorDriverDebug and its signal handler.                *)
(***************************************************************************)
\* What is left of a process: nothing that runs a command.
Gone ==
    /\ pc' = "off" /\ cmd' = NoWord /\ opts' = {} /\ menu' = "none" /\ row' = NoRow
    /\ at' = 0 /\ arg' = 0 /\ seen' = {} /\ result' = "none" /\ failed' = FALSE
    /\ erange' = FALSE

KeepsViewer == UNCHANGED <<ownFile, enabled, command, at, arg, seen, failed, erange,
                           library, found, others, ended>>

\* gIntApp and the handler come first; driverLogLevel is still 0.
ExecuteMonitorDriverDebug ==
    /\ Uncommanded /\ "debug" \in opts /\ "list" \notin opts
    /\ Goes("viewEvents")
    /\ hooked' = TRUE /\ mishaps' = {"unread"}
    /\ UNCHANGED <<level, saved>> /\ KeepsViewer

ViewerSetsEvents(ok) ==
    /\ pc = "viewEvents"
    /\ IF ok THEN Goes("viewLevel") ELSE Returns("RMH_FAILURE")
    /\ UNCHANGED <<level, viewer, mishaps>> /\ KeepsViewer

ViewerGetsLevel(ok) ==
    /\ pc = "viewLevel" /\ Goes("raise")
    /\ saved' = IF ok THEN level ELSE RMH_LOG_DEFAULT
    /\ mishaps' = IF ok THEN {} ELSE {"assumed"}
    /\ UNCHANGED <<level, hooked>> /\ KeepsViewer

ViewerRaisesLevel(ok) ==
    /\ pc = "raise"
    /\ level' = IF ok THEN saved \cup {DEBUG} ELSE level
    /\ IF ok THEN Goes("watch") ELSE Returns("RMH_FAILURE")
    /\ UNCHANGED <<viewer, mishaps>> /\ KeepsViewer

\* The user presses enter.
ViewerStops ==
    /\ pc = "watch" /\ Goes("restore")
    /\ UNCHANGED <<level, viewer, mishaps>> /\ KeepsViewer

\* RMH_Log_SetDriverLevel(driverLogLevel), whose result nobody looks at.
ViewerLeavesLevel(ok) ==
    /\ pc = "restore" /\ Returns("RMH_SUCCESS")
    /\ UNCHANGED <<level, viewer, mishaps>> /\ KeepsViewer

ViewerRestoresLevel(ok) ==
    /\ pc = "restore" /\ Returns("RMH_SUCCESS")
    /\ level' = IF ok THEN saved ELSE level
    /\ mishaps' = IF ok THEN mishaps ELSE mishaps \cup {"refused"}
    /\ UNCHANGED viewer /\ KeepsViewer

\* RMHApp_CleanupOnInt, at any point of main: the level, RMH_Destroy, exit.
\* A handle that main has freed is used all the same, with any outcome.
Interrupted(ok, freed) ==
    /\ hooked /\ pc # "off" /\ ended' = "interrupted"
    /\ level' = IF ok THEN saved ELSE level
    /\ mishaps' = IF ok THEN mishaps ELSE mishaps \cup {"refused"}
    /\ handle = "freed" => freed
    /\ frees' = IF freed THEN frees + 1 ELSE frees
    /\ handle' = IF freed THEN "freed" ELSE handle
    /\ UNCHANGED <<ownFile, enabled, viewer, found, others>> /\ Gone

-----------------------------------------------------------------------------
\* The end of main; RMH_Destroy may fail, and then frees nothing.
Destroys(ok) ==
    /\ pc = "destroy" /\ pc' = "return"
    /\ handle' = IF ok THEN "freed" ELSE handle
    /\ frees' = IF ok THEN frees + 1 ELSE frees
    /\ UNCHANGED <<driver, command, progress, erange, viewer, found, others, ended, mishaps>>

Exits ==
    /\ pc = "return" /\ ended' = "returned"
    /\ UNCHANGED <<driver, library, viewer, found, others, mishaps>> /\ Gone

\* The process is killed: by SIGINT without the handler, or by SIGKILL.
Killed ==
    /\ pc # "off" /\ ended' = "killed"
    /\ handle' = "none" /\ frees' = 0 /\ hooked' = FALSE /\ saved' = {}
    /\ found' = level /\ others' = 0 /\ mishaps' = {}
    /\ UNCHANGED driver /\ Gone

\* Another program sets the log level.  "overtaken": after rmh has read it.
HasRead == {"setLevel", "raise", "watch", "restore", "menu", "destroy", "return"}
OtherSetsLevel(l) ==
    /\ others < MaxOthers /\ others' = others + 1
    /\ level' = l /\ found' = l
    /\ mishaps' = IF pc \in HasRead THEN mishaps \cup {"overtaken"} ELSE mishaps
    /\ UNCHANGED <<ownFile, enabled, pc, command, progress, erange, library, viewer, ended>>

-----------------------------------------------------------------------------
\* What the process does without waiting for anybody.
Runs ==
    \/ \E ok \in BOOLEAN : Initialize(ok) \/ GetAllAPIs(ok)
    \/ \E hit \in BOOLEAN : ExecuteSearch(hit)
    \/ ExecuteNothing \/ ExecuteCommand \/ PrintsOnly \/ ExecuteTagList
    \/ ReadsArg
    \/ \E ok \in BOOLEAN : CallsApi(ok)
    \/ \E ok \in BOOLEAN : GetsFile(ok) \/ SetsFile(ok) \/ CreatesFile(ok)
    \/ \E ok \in BOOLEAN : GetsLevel(ok) \/ SetsLevel(ok) \/ SetsEnabled(ok)
    \/ \E ok, started, forbidden \in BOOLEAN : GetsEnabled(ok, started, forbidden)
    \/ ExecuteMonitorDriverDebug
    \/ \E ok \in BOOLEAN : ViewerSetsEvents(ok) \/ ViewerGetsLevel(ok)
    \/ \E ok \in BOOLEAN : ViewerRaisesLevel(ok) \/ ViewerRestoresLevel(ok)
    \/ \E ok \in BOOLEAN : Destroys(ok)
    \/ Exits

User ==
    \/ \E word \in Words \cup {NoWord}, options \in OptionSets : Start(word, options)
    \/ MenuLeft
    \/ \E m \in {"all", "unimplemented", "local", "tag"} : MenuOpened(m)
    \/ \E word \in Words : MenuPicked(word)
    \/ MenuOutOfRange
    \/ ReadsLine
    \/ ViewerStops
    \/ \E ok, freed \in BOOLEAN : Interrupted(ok, freed)
    \/ Killed

Next == Runs \/ User \/ \E l \in OtherLevels : OtherSetsLevel(l)

\* Every call of the library comes back.
Spec == Init /\ [][Next]_vars /\ WF_vars(Runs)

-----------------------------------------------------------------------------
TypeOK ==
    /\ level \subseteq Levels /\ ownFile \in BOOLEAN /\ enabled \in BOOLEAN
    /\ pc \in PCs /\ cmd \in Words \cup {NoWord} /\ opts \in OptionSets \cup {{}}
    /\ menu \in Menus /\ row \in HandledRows \cup {NoRow}
    /\ at \in Nat /\ arg \in Levels /\ seen \subseteq Levels
    /\ result \in Results /\ failed \in BOOLEAN /\ erange \in BOOLEAN
    /\ handle \in {"none", "valid", "freed"}
    /\ hooked \in BOOLEAN /\ saved \subseteq Levels /\ found \subseteq Levels
    /\ others \in 0 .. MaxOthers /\ frees \in 0 .. 2
    /\ ended \in {"no", "returned", "interrupted", "killed"}
    /\ mishaps \subseteq {"fileUnknown", "forbidden", "unread", "assumed", "refused", "overtaken"}

\* When the first command is looked up (RMHApp_RegisterAPIHandlers has run),
\* the handlers fit the APIs they were registered for, the fixed lists of
\* rmh_type.h hold what was put into them and no word stands for two commands.
HandlersRegistered == pc \notin {"off", "init", "lists"} => TablesFit

\* Whatever a handler asks for and prints, the generic APIs that compute an
\* answer and the texts are right within the limits their comments name.
AnswersTrue ==
    pc = "running" => BandwidthTrue /\ IdsTrue /\ InterfaceTrue /\ NamesTrue /\ MasksTrue

\* However the viewer ends, other than by being killed, the driver has the log
\* level it had before, unless the driver refused it, was not able to tell it,
\* or SIGINT came before it was asked.
ViewerRestores ==
    pc = "off" /\ hooked /\ ended # "killed" /\ "overtaken" \notin mishaps =>
        \/ level = found
        \/ "refused" \in mishaps /\ level = saved \cup {DEBUG}
        \/ "assumed" \in mishaps /\ level = RMH_LOG_DEFAULT
        \/ "unread" \in mishaps /\ ended = "interrupted" /\ level = {}

\* No call is made without a handle.  RMH_Destroy is only called for a freed
\* one when SIGINT arrives after main's own call.
HandleUsable ==
    /\ pc \notin {"off", "init", "return"} => handle = "valid" /\ frees = 0
    /\ frees = 2 => hooked /\ ended = "interrupted"

\* Three handlers return RMH_SUCCESS although one of their steps failed, and
\* no other does.
FailureReported ==
    row \in HandledRows \ LocalRows /\ failed /\ result = "RMH_SUCCESS" =>
        row.handler \in {"RMHApp__IN_UINT32_IN_UINT32", "RMHApp__IN_POWER_MODE", "RMHApp__SET_TABOO"}

Finished(api) == row.api = api /\ result = "RMH_SUCCESS" /\ pc \in {"menu", "destroy", "return"}
Overtaken == "overtaken" \in mishaps

\* A local command that returns RMH_SUCCESS has switched the driver as asked
\* and left the rest of its log level alone, except that a stop of the log
\* keeps the file it was not told of, and a start that is forbidden succeeds.
SwitchTrue ==
    /\ Finished(Debug) => Overtaken \/ level = found \cup {DEBUG}
    /\ Finished(Forever) => ownFile /\ (Overtaken \/ level = found \cup {DEBUG})
    /\ Finished(NoDebug) => /\ Overtaken \/ level = found \ {DEBUG}
                            /\ ownFile => "fileUnknown" \in mishaps
    /\ Finished("RMHApp_Start") => enabled \/ "forbidden" \in mishaps
    /\ Finished("RMHApp_Stop") => ~enabled

\* A command given on the command line comes to an end without a word from
\* the user.
CommandEnds == pc = "dispatch" /\ cmd # NoWord /\ "match" \notin opts ~> pc = "off"

\* "This is set as a bitmask of <RMH_LogLevel>": after rmh has passed a level
\* the driver has it.
LevelAsNamed == Finished("RMH_Log_SetDriverLevel") => Overtaken \/ arg \in level
=============================================================================
