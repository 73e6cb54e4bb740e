# rdk-mocahal in TLA+

This directory holds TLA+ models of rdk-mocahal, TLC configurations that check
them on small instances, and TLAPS proofs of the results that matter most for
every value of the constants. Line numbers refer to the sources in `src/`.

## The system

rdk-mocahal is a hardware abstraction for MoCA network chips. A client links
`librdkmocahal`, a library of 240 APIs, each of which is a *wrapper* around
up to two functions: one in a SoC vendor's library that is loaded at run time
(`librdkmocahalsoc.so.0`, not in the repository) and a *generic* one in this
repository. Two applications use it: `rmh`, a command line with one command per
API, and `rmh_monitor`, a daemon that keeps a snapshot of the MoCA network and
logs what changes.

| Part | State it keeps | Operations | Talks to |
|---|---|---|---|
| Monitor, queue and threads (`rmh_monitor_util.c`, the callback in `rmh_monitor.c`, the loop of `rmh_monitor_events.c`) | `eventQueue` and its mutex, `eventNotify` (condition variable and one boolean) | Enqueue, Dequeue, Semaphore_Signal, Semaphore_WaitTimeout, the callback, the loop | callbacks run on threads of the library; the event thread empties the queue |
| Monitor, snapshot (`rmh_monitor_events.c`) | `linkStatus`, `linkStatusValid`, `netStatus` | one handler for each event, up to four queries of the driver when the link comes up | queries go to the library while the driver changes |
| Monitor, sessions (`rmh_monitor.c`) | the handle, `eventThreadRunning`, `reconnectSeconds` | main's loop, RMHMonitor_Connect, the way out of the event thread | opens and destroys the handle which the thread and the callbacks use |
| Monitor, print schedule (`rmh_monitor_events.c`, `rmh_monitor.h`) | `lastPrint` (shared by all threads), `lastStatusPrint`, `lastStatusPing`, `printStatus`, `appPrefix` | the decision of each pass: full dump, ping, nothing | every printed line, of any thread, moves `lastPrint` |
| Library, wrapper and instance (`librmh_wrap.c/.h`, `librmh_api_no_wrap.c`, parts of the generic APIs) | `struct RMH`: SoC library, SoC handle, `apiDepth`, `eventCallbackMask`, `logLevelMask` | RMH_Initialize, the wrapper with its Pre/Post steps, RMH_Destroy, the mask setters, the composites | generic functions call wrapped APIs again |
| Library, log routing (`librmh_api_wrap_generic_only.c`, `librmh_globals.c`) | `localLogToFile`, open files, the SoC driver's log level and file | RMH_Print, PrintStatus, PrintStats, PrintFlows, PrintModulation, CreateDriverFile, RestoreRDKDefaultSettings | reports are made for clients and for each other |
| Library, other generic APIs (`librmh_api_wrap_generic_only.c`, `librmh_api_no_wrap.c`, `librmh_wrap.c`) | the registry of APIs, tag lists | egress bandwidth, associated ids, Interface_GetEnabled and SetEnabled, GetAllAPIs, GetUnimplementedAPIs, GetAPITags | wrapped APIs, the kernel |
| Library, conversions to text (`librmh_api_no_wrap.c`) | none | XToString, XToMultiString: a name for each value or bit | |
| API definitions (`rmh_api.h`, `rmh_type.h`) | the table of 240 APIs, the enumerations, the sizes of the fixed lists | included by library, `rmh` and generators with macros of their own | |
| `rmh` application (`rmh_app.c`, `rmh_app_api_handlers.c`) | options and word, lists of APIs and tags, the handler table, the menus, errno, `driverLogLevel` and `gIntApp` of the viewer | ParseOptions, RegisterAPIHandlers, ExecuteCommand, the menus, 43 handlers and 5 local commands, the driver log viewer and its signal handler | the library, the user; the driver, which other programs change too |
| SoC library and driver (external) | the network | queries, events | callbacks into the client |
| Generators, build files, documentation | none | | |

### What is hard here

* *Interleaving and atomicity.* The event thread reads the head of the queue
  without the lock and works on the record while callbacks insert. Main destroys
  a handle that another thread uses. Three threads write `lastPrint`.
* *Ordering.* Events are inserted at the head and removed from the head.
* *Lost wakeups and coalescing.* Signals are one boolean, one wakeup handles one
  event, a timeout races a signal.
* *Staleness.* The driver changes between the queries of one handler, and between
  the readings of one composite API. A new session inherits `linkStatus` and the
  queue of the last one.
* *Partial failure.* Any query may fail and is not repeated; either half of a
  wrapped API may fail after the other took effect; a report may return before it
  closes its file.
* *Retry.* The driver forgets handles when it restarts; the monitor reconnects
  with a growing delay.
* *A signal handler* of `rmh` restores the driver's log level from a variable that
  the interrupted program may not have filled yet, and destroys a handle that main
  may have destroyed.
* *Switches of several calls.* "Turn the debug log on" is up to five calls of the
  library, each of which may fail, while another program sets the same level.
* *Tables.* 240 APIs, their handlers, their tags and the fixed lists they are put into
  agree only if every row does; a result variable declared twice in a handler hides
  a failure.
* *errno.* Numbers from the user are refused while errno is ERANGE, which nothing clears.

`PROJECT.json` lists every such place, at its line, with the properties that
watch it.

## The modules

| Module | Models | Composes |
|---|---|---|
| `EventBuffer` | what the queue promises: nothing appears from nowhere, an event may be dropped unseen only if it was reported while another was worked on | |
| `MonitorQueue` | queue, semaphore, callback threads, event thread | implements `EventBuffer` |
| `RMHMonitor` | main, sessions, reconnection, together with the queue | instance `Q` of `MonitorQueue`, which it implements |
| `MonitorStatus` | the snapshot and its handlers against a changing driver | |
| `MonitorSchedule` | when the monitor prints | |
| `ApiWrap` | the call path of the library, one struct RMH over many lives | |
| `LogRouting` | where log lines and files go | |
| `ApiTable` | `rmh_api.h` row by row: implementer, parameter types, tags; the registry, the list of unimplemented APIs, the tag lists | |
| `EnumTexts` | the enumerations of `rmh_type.h` and the text each value and bit mask gets | |
| `GenericApis` | bandwidth, associated ids, the Ethernet interface | |
| `AppHandlers` | the handlers of `rmh`, what each reads and calls, and the table of what it can run | extends `ApiTable` |
| `RmhApp` | `rmh` as a process, run after run, with its user, its signal and other programs | extends `AppHandlers`, `EnumTexts`, `GenericApis` |
| `MC*` | the constants of the runs | each extends one module |
| `*_proofs` | theorems and their proofs | each extends one module |
| `StackLemmas` | lemmas about call stacks | extended by the proofs of `ApiWrap` and `LogRouting` |

### How state and actions correspond to the code

**MonitorQueue.** `queue` is the TAILQ, head first. An operation done with the
mutex held is one step. `Enqueue` and `SemaphoreSignal` are two steps because
RMHMonitor_Queue_Enqueue unlocks the queue before it signals
(`rmh_monitor_util.c:131-135`). `tpc` is the place of the event thread:
`WaitSignalled`, `WaitBlock`, `WaitReturns`, `WaitCheck` are the loop of
RMHMonitor_Semaphore_WaitTimeout, where the test of the boolean comes before that
of the return code; `Peek` is the unlocked read of `tqh_first` (events.c:449),
`Handle` the switch, `Dequeue` the removal of whatever is the head by then
(events.c:492). `ThreadExit` covers every `goto exit_err`. An event is an identity;
what it carries is in `MonitorStatus`. The variables marked *history* record what
happened and guide no step, save that an event is reported once.

**RMHMonitor.** `mpc` walks through main's loop and RMHMonitor_Connect. The actions of the
thread are those of `Q`, with the guards the session gives them: a handle that is
valid, or whose validity cannot be asked (`CanValidate = FALSE`, the SoC library
does not implement RMH_ValidateHandle). `valid` is the driver's side of the handle and
turns FALSE at any moment. The library calls back only between registration and
RMH_Destroy, but a callback that has begun finishes on its own.

**MonitorStatus.** `app` is the part of RMHMonitor that the handlers write. The
functions `SelfNodeId`, `JoinNodes`, `DropNode`, `NCChanged`, `VersionChanged` and `SetLink`
are the handlers of the same names with their early returns. When the link
comes up, `QuerySelf`, `QueryRemotes`, `QueryNC` and `QueryVersion` are separate steps in
the order of events.c:231-262, each may fail, and the driver moves between them.
`SessionStart` resets what the start of the thread resets, and no more.
`trust` is a history variable: it is TRUE while nothing has happened since the last
fresh start that the snapshot may miss.

**MonitorSchedule.** Time stamps are ages. `PrintsFull`, `PrintsPing` and `PrintsNothing`
are the three outcomes of events.c:433-446; `HandlesNothing`, `HandlesChange`,
`HandlesRepeat`, `HandlesReport` and `HandlesNoNC` the end of a pass, by whether the event printed,
asked for a dump and touched the prefix. `LibraryPrints` is any line of another thread.

**ApiWrap.** A call is a frame whose `pc` goes `before`, `generic`, `after`, `exit`
through the three conditional calls of the macro __RMH_API_WRAP_TRUE; `RunsBefore`,
`RunsGeneric`, `RunsAfter` and `Outcome` are its conditions and its result. The wrapper
is modelled for each kind of API by APIs of that kind: SoC only
(Self_GetEnabled, Self_GetMoCALinkUp, Interface_GetName, ValidateHandle), generic only with nested
calls (Self_GetLinkStatus, Interface_GetEnabled), generic then SoC (SetEventCallbacks, Log_SetAPILevel), SoC
then generic (Destroy). `soc` says whether the library is there, whether its RMH_Initialize
exists and works, and which APIs it exports. A local variable that is read after a
nested call returned RMH_NOT_SUPPORTED (`librmh.h:42` lets it pass) holds either value.
Memory that RMH_Destroy has freed is taken to keep its contents until the
wrapper's last write to it.

**LogRouting.** `localLogToFile` names the file it was opened with; `streams` counts the
FILEs these functions have open. Each report is `ReportOpens` (or one of its two
alternatives), `ReportAsks`, `ReportPrints`, `ReportCloses`, and `StatusFails` for the return
that PrintStatus makes before its close. RestoreRDKDefaultSettings goes through
its steps in order, each with its failure. The tables of a report are one line, and
the level mask is left out.

**ApiTable, EnumTexts.** A row of `rmh_api.h` is a record of what the program
makes of it: `soc` and `generic` (who implements it), `params` (the C types, handle included),
`tags` in the form pRMH_FindTagList gives them; `WithHandle` puts the handle before the types
of a wrapped API, as the macro does. Rows that share everything but the name are
one set. `AllApis`, `Unimplemented`, `TagsOf` and `Tagged` are the lists the library makes of them. An enumeration is
the sequence of its values in the order of the definition, because the text of a
value is found by its place.

**GenericApis.** Each API is an operator from the answers of its nested calls to the set of results it may
have. `query` is what the first of them returned, for the list of remote nodes or the name of the interface; `Stops` and
`Holds` are the macro BRMH_RETURN_IF_FAILED: it returns on a failure, but goes on after RMH_NOT_SUPPORTED, and the variable
of the query is then any list, or the name of any interface. Loops over a list are recursive functions with the loop's
variable as their argument (`BestAfter`, `AssociatedCounter`). The interface is read back through `RMH_Interface_GetEnabled`,
and after a failure of that the variable holds either value.

**AppHandlers.** A handler is what it reads in order, the prototype it calls its API with,
the calls it makes afterwards and how many of its steps count for what it returns: a
second `ret` in an inner block (`rmh_app_api_handlers.c:484`) makes the later steps not
count. `HandledRows` is what RMHApp_RegisterAPIHandlers leaves in the table, `LocalRows` the local
commands with their aliases among them.

**RmhApp.** One process at a time; `level`, `ownFile` and `enabled` are the driver and stay
from one run to the next. `pc` is the place of the process: `init` and `lists` are the start of main,
`dispatch` its choice between a command, the menus, the viewer and printing, `menu` a
prompt, `running` a handler (`at` counts its steps), `LocalPCs` the calls of the local
commands, `ViewerPCs` those of RMHApp_ExecuteMonitorDriverDebug, `destroy` and `return` the
end. `Reads` is any of the readers, with `erange` for errno; `CallsApi` is the API or a
call after it. A call may fail when `CallResults` says that it can; a set that
fails changes nothing, a restore of defaults may leave anything. `Interrupted` is
RMHApp_CleanupOnInt at any point once the handler is installed, `Killed` a SIGINT before
that, or a SIGKILL. `OtherSetsLevel` is another program. `found`, `others`, `frees`, `ended`, `failed`
and `mishaps` are history and guide no step but the bound on `others`.

## The runs

| Run | Instance | What it shows |
|---|---|---|
| `queue` (34 247 states) | 2 callback threads, 3 events | no sleep with the signal set, the record being handled is not freed, an event is lost only in the unlocked window and each loss is matched by one that is handled again, the queue drains, `EventBuffer` is implemented |
| `status` (650 508) | 2 node ids, 2 versions, 3 events, 2 queued, 2 sessions | the snapshot equals the network whenever nothing failed or overtook; it is empty while the link is not up |
| `session` (54 514) | 1 callback, 2 events, failures counted to 13 | the thread's handle is never destroyed under it, the delay is exactly the capped number of failures, no session hangs on an invalid handle, the composition implements `MonitorQueue` |
| `schedule` (2 840) | stabilisation 2, ping 4, dump 9, pass within 1, ages to 11 | no silence beyond two pings, dumps not too dense, prefix and debt agree, a dump that is owed comes, within `Stable + Period` once the log is still |
| `wrap` (923 360) | 2 masks; a SoC library with all APIs, none, or all but one; one lost instance | depth balanced, acknowledged masks agree, link status true, RMH_Destroy truthful, every call comes back |
| `logging` (14 902) | 2 file names, 3 streams, 2 failures | leaks are accounted for, a report lands in its own file, success heals, debug goes to its own file |
| `app` (314 044) | 17 words, 5 sets of options, 3 starting levels, one change by others, 4 nodes, bandwidths to 3; a SoC library with all APIs but one | handlers and lists fit the APIs, computed answers and texts are right, the viewer restores the level, handles are usable, failures are reported by all handlers but three, a switch that succeeds has switched, a command ends without its user |
| `queue_removes_handled` | as `queue` | violated, see below |
| `status_joined_only_if_valid` | as `status` | violated |
| `wrap_destroy_frees` | as `wrap` | violated |
| `logging_null_file` | as `logging` | violated |
| `app_level_as_named` | as `app` | violated |

**Why the bounds are enough.** Three events are what the race of the queue needs:
one being handled, one inserted in the window, one more behind; two callbacks let
one insert between another's insertion and signal. In `status`, two node ids give
one remote node and one self, so that a drop may overtake a join and the two ids
may be confused; two queued messages are a reordering; two sessions are the
inheritance from one to the next. In `session`, twelve failures reach
the cap of 60 seconds and the thirteenth stays there. In `schedule` the three times
keep the order of the real ones (10 seconds, 2 and 60 minutes, a pass every 2 seconds);
ages beyond `Horizon` are alike for every test, which the assumption
`ScheduleAssumption` ensures. In `wrap`, the stack reaches its greatest depth of three
(GetLinkStatus, Interface_GetEnabled, Interface_GetName), and a library that lacks one API
lacks each of them in turn. In `logging`, two names tell one's own file from
another's; three streams are the two leaked ones and the one in use. In `app` the words are one
for each kind of handler (no argument, one, two, several calls, a hidden result, the APIs that change the driver),
the five local commands, one of them by its alias, an API without a handler, and no
command at all; each set of options makes main take another branch. Every
row of the table is checked by `HandlersRegistered` whatever the words are. One change by
another program falls between any two steps. The starting levels are none, the default,
and the default with the debug bit, which is what the switches distinguish. The
algorithms of `GenericApis` are evaluated for every set of four nodes, every answer of each and every kind of result of the query before them.

**Deadlock** is checked in `queue`, `status`, `schedule` and `app`. It is not checked
where the system stops by itself: in `session` main leaves its loop when
pthread_create fails, in `wrap` the client stops after `MaxLeaks` lost instances, in
`logging` after `MaxFailed` failures. In `status` the driver stops reporting at
`MaxEvents`, but a session can still change hands or the driver change unheard.

**Fairness.** Steps of the monitor's own threads are weakly fair: the scheduler runs
what can run. The timeout of the wait is strongly fair, because a spurious
wakeup computes a new deadline (`rmh_monitor_util.c:81`); the assumption is that
wakeups without a cause do not come more often than every two seconds for ever.
In `MonitorSchedule` time is strongly fair, because each pass disables `Tick` for a
moment. Nothing is assumed of the library, the driver, events, or the validity of
handles: `Drained` is conditional on the event thread not being sent away for ever,
and `Recovers` promises another attempt, not a success. In `RmhApp` the process is
weakly fair as long as it does not wait for its user (`Runs`): every call of the library
comes back. Nothing is assumed of the user, signals and other programs.

## Where code and documentation disagree

Shown by a run:

1. *The wrong event may be removed.* `rmh_monitor_events.c:491` clears "this handled
   event"; an event inserted since the peek is removed instead, unseen, and the
   handled one is handled again (`RemovesHandled`; what remains true is
   `LossOnlyByRace` and `LossMatchedByRepeat`).
2. *The link status of the last session.* Handlers test `linkStatus` without
   `linkStatusValid` (`rmh_monitor.h:89`), and a new session clears only the latter (`JoinedOnlyIfValid`).
3. *RMH_Destroy* frees the instance only if the SoC library took part
   (`rmh_api.h:83`; `DestroyFrees`). What holds is that its result says so (`DestroySaysFreed`).
4. *A report without a file name* is written to the file of an earlier PrintStatus
   that failed (`rmh_api.h:6446`; `NullMeansLog`). What holds is that the next
   successful report ends that (`HealedBySuccess`), and that a report with a name is
   not misled (`OwnFile`).
5. *The log level of `rmh`.* RMHApp_ReadLogLevel gives the place of a name in its list, and the API
   takes a bit mask (`rmh_api.h:6328`): choosing RMH_LOG_DEBUG, place 3, sets the bits of
   errors and warnings (`LevelAsNamed`).

Seen while modelling; the modules do what the code does:

* The hourly dump does not wait for a stable network. `rmh_monitor_events.c:430-431` says "Before we print
  anything make sure the network is stable", and line 24 has the dump come "in a stable environment"; the condition of
  lines 433-434 tests stability only for a dump that a change asked for. Two results stand on what the code does:
  `OwedDumpComes`, because while other threads keep printing a debt is paid by the hourly dump alone, and the theorem
  `DumpedHourlyHolds`. If the code did what the comment says, both would fail. The purpose that the comment names, that
  changes do not flood the log, is kept (`DumpsSpaced`).
* The queue is a stack. `rmh_monitor_util.c:140` and `:146` say that Dequeue removes the oldest event, the tail;
  insertion and removal are both at the head.
* RMH_NOT_SUPPORTED passes BRMH_RETURN_IF_FAILED (`librmh.h:42`), and the code goes on with a variable that nobody has set. In
  `GenericApis` it is the list of remote nodes or the name of the interface: RMH_Network_GetAssociatedIds then
  gives ids to whatever the list holds and returns RMH_SUCCESS, though `rmh_api.h:2641` says that it numbers every remote
  node on the network; a best bandwidth, a node id or an associated id comes from such a list too, and
  the interface that is read or switched is any. What holds then is that the ids are in range and
  a bandwidth is some node's answer; when the query failed otherwise there is no success (`AnswersTrue`). In `ApiWrap`
  it is the boolean of a nested call, and `LinkStatusTrue` excludes it.
* Without a SoC function the generic half of a generic-then-SoC API is not called, though
  `rdk_moca_hal.h:61` says its result is returned.
* The bits of RMH_Event are named by their place in the definition
  (`rmh_api.h:540` promises a name for each); the definition leaves bit 3 out, so that each
  later bit gets the name of the next one, and the last one none. RMH_BAND_H is 8 in a list of eight: its
  text is read past the end. `MasksTrue` and `NamesTrue` hold of the other masks and enumerations.
* RMH_PQoS_GetMaxEgressBandwidth is a failure when every answer is 0 (`BandwidthTrue` says so). It answers the
  bandwidth, where `rmh_api.h:5034` promises the node's id.
* RMH_Log_PrintModulation does not use the file name it is given (see `LogRouting`): its lines go to the log, or where an
  earlier report left `localLogToFile`.
* Three handlers of `rmh` return RMH_SUCCESS when a later step failed (`FailureReported` names them).
* RMHApp_Start refused by one of the two files that forbid it returns RMH_SUCCESS; RMHApp_DisableDriverDebugLogging
  keeps the driver's file when it could not ask for it (`SwitchTrue` has both).
* SIGINT between the installation of the viewer's handler and its reading of the level
  sets the level to none; one after main's RMH_Destroy uses the freed handle; a level that
  another program set meanwhile is overwritten (`ViewerRestores`, `HandleUsable` exclude exactly these).
* After one number out of range, every number is refused, the one that means
  Exit included: errno stays ERANGE (`MenuOutOfRange`).

## What is proved

All proofs hold for every value of the constants that satisfies the named
assumption of the module, and TLC evaluates the assumption in every run.

**MonitorQueue_proofs** (`EventAssumption`: NULL is no event). `Inv` is `TypeOK`
with `RecordsDistinct` (a record is queued once and never after it was freed),
`HoldsRecord` (while the thread handles or removes, its record is queued and, before
removal, has been handled), `AheadIsRaced` (what lies before the record came
after the peek) and `LossOnlyByRace`. The second is what makes the third inductive:
the head that is removed is the handled record or lies before it. `Inv` gives
`RecordLive` and `LossOnlyByRace`; `QueueImplementsBuffer` uses it to map each step
of the queue to a step or a stutter of `EventBuffer`. `NoMissedWakeup` is
inductive by itself: whoever sets the signal wakes a sleeper.
`LossMatchedByRepeat` counts: `CountInv` says that the passes through the switch, written
as the set `Passes` of pairs of an event and a number, are finitely many, as many as the records removed
and one more between handling and removal. A pass adds one pair (`HandleCount`), and a removal one event
that was not in `freed` before, by `RecordsDistinct` (`DequeueCount`).
`HandledUnlessRaced` is the exact condition under which the comment
at `rmh_monitor_events.c:491` is true, which the run `queue_removes_handled` refutes as it stands:
what is removed is the handled record if and only if `Ahead` is empty.

**RMHMonitor_proofs** (`SessionAssumption`). `SessionInv` ties the handle and the flag
to main's place and says that the thread exists only while main joins it; this is
`ThreadOwnsHandle`. `BackoffCountsFailures` follows by induction with the cap
(twelve failures reach it). `SessionImplementsQueue` shows that each step of
the composition is a step of `MonitorQueue` or leaves its variables alone. With it the theorems of
`MonitorQueue_proofs`, instantiated as `QP`, hold of the whole monitor: `QueueSafeInSessions`
and `SessionImplementsBuffer`. The lemma `SameQueue` is needed because the instance in the model and that of the
proofs are two copies of the same definitions.

**MonitorStatus_proofs** (`StatusAssumption`). `Inv` is `TypeOK`, `DownIsEmpty` and
`SomethingQueued` (there is a record to dequeue while one is being handled). The
lemmas `HandlersClean` and `ResetsClean` state that no handler fills and each reset clears
a snapshot whose link is not up.
`SnapshotAccurate` looks at the thread between two events only; `TrustInv` says what holds in between, as long as
`trust` is TRUE. `OneReport`: at most one message waits, and the driver is as it says. `UpToDate`: the
link on record is the driver's unless the waiting message is about the link, and `Known` gives the part of the network
that the queries made so far have answered. A change of the driver in the middle of the queries is the hard
case: what counts is not the snapshot but `Pending`, the snapshot as the waiting message
will leave it, since a query made after the change may or may not have seen it already. `DriverStepTrust`, `QueryTrust`
and `ThreadNextTrust` are the three cases.

**MonitorSchedule_proofs** (`ScheduleAssumption`: the order of the three times, as the
headers define them). The invariant dates each age by the pass the thread is in:
`DumpInTime` and `PingInTime` say that what was not due at the last pass can be late by
the time since that pass at most; `OwedIsPrinted`, that a debt is younger than the
last dump, from which `DumpsSpaced` follows; `SilentDump`, that only a dump that
printed nothing sets the ping timer without a line in the log, and that
the line before it was then at most a ping old. From them `DumpedHourly` (stated with its proof), `NeverSilent`,
`PrefixMeansOwed` and `DumpsSpaced`. `OwedInTime` dates a debt in the same way: a debt that the last pass
left alone was left because the log had moved within `Stable` seconds before it. With it
`OwedWhileBusy`: as long as a dump is owed, the last line is at most `Stable + Period` old. It is what remains of
the liveness property `OwedDumpComes` when nothing is assumed about other threads.

**RmhApp_proofs** (`AppAssumption`, `GenericAssumption`). `Inv` is `TypeOK` with five parts that describe
the process at each place. `RowInv` says that in `running` and in the local commands `row` is what the place belongs to
and `at` is one of its steps; `HandleInv` that the handle is valid from `lists` to `destroy`, and what the
number of frees can be; `ViewerInv` what `saved` and the level are at each place of the
viewer, up to what `mishaps` records; `SwitchInv` the same for the
local commands; `FailureInv` that a handler goes on only after a success. The lemmas `RowHandlers`, `HandlersNamed`, `HandlersCount`
and `RowCounts` prove from the tables themselves, expanded row by row, that every handler but three
counts all its steps, which is what `FailureReported` rests on, and that none has more than five, which bounds
`StepsLeft`: each place of the process has a number (`PlaceNumbers`), a handler adds the steps it has left, and
`RunsOut` goes through the actions to show that each lowers the sum (`CommandRunsOut`, stated with its proof). This is
the half of `CommandEnds` that needs no fairness. Nothing is assumed of the words and
options that are tried: the theorems hold of any command line.

`AnswersTrue` is a statement about loops, written as recursive functions over the places of a list, for any
RMH_MAX_MOCA_NODES and any largest bandwidth. The library's theorems on induction cannot be
used, but a set of places can take the part of the formula: `AlongPlaces` shows from the
well-foundedness of < that a set with 0 and with each place after a place of it has all of
them. `LoopExists` uses it to build the function that a loop defines, so that `BestAfterDefined`,
`CounterCounts` and `TextAfterDefined` may say what the recursive
definition of each loop is at every place. Each loop then has an invariant: `BestSoFar`, no answer so far beats the one
held; `CounterCounts`, the counter is the number of nodes gone past, so that ids are ranks and
the two conversions are inverse (`Ranks`, `IdsDoAgree`); as all this is proved of any list, it also
says what an unset list can give (`ListsAreLists`, `IdsAreInRange`); `TextIs`, a text that was not too small names the bits gone past,
and is as long as its names and separators. `PrintedInFull` compares that with
the sizes of the buffers. The texts of a value are found by place (`NamesAreTrue`).

`HandlersRegistered` compares tables, and its proof reads them. `SectionOf` and the nine lemmas after it
(`NumberPrototypes` and so on) say what the handlers of each section expect; `NamesAre` which APIs each section of the
header declares; `SectionsAgree` puts a section of the rows against a section of the header at a time, so that a
handler and the prototype it is called for agree in the width of every parameter. The fixed lists are counted from above:
`SmallSections` bounds each section, `AllApisSmall` their union, `LargestSearchBound` what a search by number of
parameters may collect, `AllTagsSmall` the tags. `WordsUnique` shows that no two rows share a name or an alias.

**LogRouting_proofs** (`RoutingAssumption`). `OwnFile` and `LeakNeedsFailure` look at the innermost call
only; what keeps them is a statement about the whole stack. `StackInv` says at which places each API
can be and which API each frame can have called, so that what a call returns to is known; `StreamInv` counts
the FILEs, one for each failure of the two early returns and one for the report in
progress; `DebugInv` says that RestoreRDKDefaultSettings has a file before it raises the level. With them
`HealedBySuccess` and `DebugInOwnFile` are inductive.

**ApiWrap_proofs** (`WrapAssumption`, and `HandleAssumption`: no struct RMH is NULL). `FrameOK` states of each wrapper call in
progress which halves can have run at its place, with which results (`RanOK`); `Nested`, which API a
composite has called; `ReadsTrue`, what a call has read of the driver as long as the driver stood
still, which for RMH_Self_GetLinkStatus is what the checks before the present one must have
answered; `HandleInv`, that `depth` is the length of the stack and how far the innermost call of
a setter (`MaskOK`) or of RMH_Destroy (`DestroyOK`) has brought the handle. `DepthBalanced`,
`StopsOnFailure` (no half runs after the other one failed), `AckedMasksAgree`, `LinkStatusTrue` and `DestroySaysFreed` follow, for any masks, any SoC
library and any number of lives. `Resumed` is the lemma that says how a composite goes on after a nested call.
For `CallReturns`, a call in progress has at most five steps left and one that has not begun counts six, so a stack of
calls is a number of three digits to the base seven, the client's own call first (`StepsLeft`). `NestingBounded` follows
from `Nested`: a getter calls nothing, RMH_Interface_GetEnabled a getter, RMH_Self_GetLinkStatus one of these; there is no
fourth call. `MovesOn`, `GoesDeeper` and `ComesBack` show that a step, a nested call and a return each lower the number.

`StackLemmas` holds what both use: what pushing, replacing and popping do to the elements of a stack.

**Only model-checked.** The liveness properties `Drained`, `Recovers`, `OwedDumpComes` and `CommandEnds`:
liveness under fairness is beyond the proof system. Of the last two the theorems `OwedWhileBusyHolds` and
`CommandRunsOutHolds` prove the part that is a matter of single steps. Every invariant and every action property
of a passing run is also the statement of a theorem.

## What is not modelled, and why

* Formatting, tables of names, the layout of reports, the text of log lines; the
  garbling of lines that two threads print at once (`rmh_monitor_print.c:36`).
* A clock that is set while the monitor runs: intervals are differences of
  gettimeofday, ages are not.
* MAC addresses, preferred NC and versions of single nodes: copied and printed only.
* The end of main, where mutex and semaphore are destroyed, against a callback that is
  still running: whether RMH_Destroy waits for callbacks is not in the repository.
* RMH_Interface_GetMac and the socket helper `pRMH_IOCTL_Get`, which leaves its socket open when the
  ioctl fails (`librmh_api_wrap_generic_only.c:50`): one call, no state.
* A failure of pthread_join (`rmh_monitor.c:146`), after which main would return an unset value: main joins, once, a
  joinable thread that it has created and that is not itself, so none of the call's errors can occur.
* The monitor's arguments, service file and RFC parameters: read once, they choose
  the log level and the output file.
* `rmh`: the wording and wrapping of help and answers; the later queries of REQUEST_ACA,
  whose outcome is only printed; a line longer than the buffer, whose rest answers the next prompt; an
  end of file on stdin, after which a menu asks again without end; RMHApp_FindSimilarAPIs, which
  only prints.
* Build files and generators.

## Plan

Written, in the order of how much of the system depends on each: `EventBuffer`, `MonitorQueue`, `MonitorStatus`,
`RMHMonitor`, `MonitorSchedule`, `ApiWrap`, `LogRouting`, `ApiTable`, `GenericApis`, `EnumTexts`, `AppHandlers`, `RmhApp`.

What is left:

1. RMHMonitor_Event_PrintFull with its temporary handle: `ApiWrap` composed with the schedule.
2. The schedule under a clock that jumps; the first delay after a session, which is
   zero while the comment at `rmh_monitor.c:271` speaks of a wait.
