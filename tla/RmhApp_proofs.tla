---------------------------- MODULE RmhApp_proofs ----------------------------
(***************************************************************************)
(* Proofs about RmhApp, for any words, options, exported APIs and log      *)
(* levels: type correctness; that the handle, the log level, the switches, *)
(* the results and, for any number of nodes, the answers are as the        *)
(* properties of RmhApp say; that a command runs out; and that the tables  *)
(* of APIs and handlers fit each other.                                    *)
(***************************************************************************)
EXTENDS RmhApp, FiniteSetTheorems, TLAPS

(***************************************************************************)
(* The invariant.  Each property of RmhApp speaks of the end of a command; *)
(* each part below also says what holds on the way there.                  *)
(***************************************************************************)
\* The handle: at most one RMH_Destroy before the process is gone.
HandleInv ==
    /\ pc = "init" => frees = 0
    /\ pc # "off" => frees <= 1
    /\ HandleUsable

\* Who is at work: nobody before the command is known, then a row of the
\* tables, or the viewer.
LocalApi == {Debug, NoDebug, Forever, "RMHApp_Start", "RMHApp_Stop"}

RowInv ==
    /\ pc \in {"init", "lists", "dispatch"} =>
          row = NoRow /\ menu = "none" /\ ~hooked /\ saved = {}
    /\ pc \in {"init", "lists", "dispatch", "viewEvents", "viewLevel"} => level = found
    /\ pc \in ViewerPCs => hooked
    /\ hooked => pc \in ViewerPCs \cup {"destroy", "return", "off"} /\ row = NoRow /\ menu = "none"
    /\ pc = "running" => row \in HandledRows /\ row.api \notin LocalApi
    /\ pc \in {"getFile", "getLevel", "setLevel"} => row.api \in {Debug, NoDebug, Forever}
    /\ pc = "dropFile" => row.api = NoDebug
    /\ pc \in {"createFile", "takeFile"} => row.api = Forever
    /\ pc \in {"getEnabled", "setEnabled"} => row.api \in {"RMHApp_Start", "RMHApp_Stop"}

\* The level the viewer will restore is the one that was found, or the default.
Aimed == saved = found \/ ("assumed" \in mishaps /\ saved = RMH_LOG_DEFAULT)

ViewerInv ==
    hooked /\ ~Overtaken =>
        /\ pc \in {"viewEvents", "viewLevel"} => level = found /\ saved = {} /\ "unread" \in mishaps
        /\ pc = "raise" => level = found /\ Aimed
        /\ pc \in {"watch", "restore"} => level = saved \cup {DEBUG} /\ Aimed
        /\ pc \in {"destroy", "return"} =>
              \/ level = found /\ saved = {} /\ "unread" \in mishaps
              \/ Aimed /\ (level \in {found, saved} \/ ("refused" \in mishaps /\ level = saved \cup {DEBUG}))
        /\ pc = "off" => ViewerRestores

\* A local command on its way: what it has read is what was found, and what it
\* did to the log file is done.
SwitchInv ==
    /\ pc \in {"getFile", "dropFile", "createFile", "takeFile", "getLevel"} => level = found
    /\ pc = "setLevel" => Overtaken \/ (level = found /\ seen = found)
    /\ pc \in {"getLevel", "setLevel"} /\ row.api = Forever => ownFile
    /\ pc \in {"getLevel", "setLevel"} /\ row.api = NoDebug /\ ownFile => "fileUnknown" \in mishaps
    /\ pc \in LocalPCs => result = "none"
    /\ SwitchTrue

\* A handler on its way: every step so far has succeeded, and one is left.
FailureInv ==
    /\ pc \in LocalPCs \cup {"running"} => result = "none" /\ ~failed
    /\ pc = "running" => at < StepsOf(HandlerOf(row))
    /\ FailureReported

Inv == TypeOK /\ HandleInv /\ RowInv /\ ViewerInv /\ SwitchInv /\ FailureInv

-----------------------------------------------------------------------------
(* The tables.                                                             *)

\* A word stands for a row of the table or for none.
LEMMA RowsFound == \A word \in Words : RowFor[word] \in HandledRows \cup {NoRow}
  BY DEF RowFor, RMHApp_FindHandler

\* Where a handler begins.
LEMMA FirstSteps ==
    ASSUME NEW r
    PROVE  /\ r.api \in {Debug, NoDebug, Forever} => FirstStep(r) = "getFile"
           /\ r.api \in {"RMHApp_Start", "RMHApp_Stop"} => FirstStep(r) = "getEnabled"
           /\ r.api \notin LocalApi => FirstStep(r) = "running"
  BY DEF FirstStep, LocalApi, Debug, NoDebug, Forever

\* The handlers rows are registered with.
HandlersUsed ==
    { "RMHApp__OUT_UINT32", "RMHApp__OUT_UINT32_HEX", "RMHApp__OUT_INT32",
      "RMHApp__OUT_UINT32_ARRAY", "RMHApp__OUT_MAC_ARRAY", "RMHApp__IN_UINT32_OUT_UINT32",
      "RMHApp__IN_UINT32_IN_UINT32", "RMHApp__IN_UINT32_OUT_FLOAT", "RMHApp__OUT_BOOL",
      "RMHApp__IN_UINT32_OUT_BOOL", "RMHApp__OUT_STRING", "RMHApp__OUT_UINT8_ARRAY",
      "RMHApp__IN_RMH_ENUM", "RMHApp__OUT_MAC", "RMHApp__IN_MAC", "RMHApp__IN_MAC_OUT_UINT32",
      "RMHApp__IN_MAC_OUT_MAC", "RMHApp__IN_UINT32_OUT_MAC", "RMHApp__OUT_POWER_MODE",
      "RMHApp__IN_POWER_MODE", "RMHApp__OUT_BAND", "RMHApp__OUT_LINK_STATUS",
      "RMHApp__OUT_MOCA_VERSION", "RMHApp__IN_UINT32_OUT_MOCA_VERSION", "RMHApp__OUT_LOGLEVEL",
      "RMHApp__OUT_UINT32_NODELIST", "RMHApp__OUT_UINT32_NODEMESH", "RMHApp__IN_BOOL",
      "RMHApp__IN_UINT32", "RMHApp__IN_INT32", "RMHApp__IN_UINT32_HEX", "RMHApp__IN_STRING",
      "RMHApp__IN_LOGLEVEL", "RMHApp__PRINT_STATUS", "RMHApp__HANDLE_ONLY",
      "RMHApp__LOCAL_HANDLE_ONLY", "RMHApp__GET_TABOO", "RMHApp__SET_TABOO",
      "RMHApp__OUT_ACA_TYPE", "RMHApp__OUT_ACA_STATUS", "RMHApp__REQUEST_ACA",
      "RMHApp__MoCA_RESET", "RMHApp__OUT_RESET_REASON", "RMHApp__OUT_MODULATION" }

\* Every row is registered with one of them.
LEMMA RowHandlers == \A r \in HandledRows : r.handler \in HandlersUsed
<1>1. ASSUME NEW handler \in HandlersUsed, NEW apis, NEW aliases
      PROVE  \A r \in Rows(handler, apis, aliases) : r.handler \in HandlersUsed
  BY DEF Rows
<1>. DEFINE Good(rows) == \A r \in rows : r.handler \in HandlersUsed
<1>2. Good(SelfRows)
  BY <1>1 DEF SelfRows, HandlersUsed
<1>3. Good(InterfaceRows)
  BY <1>1 DEF InterfaceRows, HandlersUsed
<1>4. Good(PowerRows)
  BY <1>1 DEF PowerRows, HandlersUsed
<1>5. Good(StatsRows)
  BY <1>1 DEF StatsRows, HandlersUsed
<1>6. Good(PQoSRows)
  BY <1>1 DEF PQoSRows, HandlersUsed
<1>7. Good(NetworkRows)
  BY <1>1 DEF NetworkRows, HandlersUsed
<1>8. Good(RemoteNodeRows)
  BY <1>1 DEF RemoteNodeRows, HandlersUsed
<1>9. Good(LogRows)
  BY <1>1 DEF LogRows, HandlersUsed
<1>10. Good(ACARows)
  BY <1>1 DEF ACARows, HandlersUsed
<1>11. Good(ResultRows)
  BY <1>1 DEF ResultRows, HandlersUsed
<1>12. Good(LocalRows)
  BY <1>1 DEF LocalRows, HandlersUsed
<1>. QED
  BY <1>2, <1>3, <1>4, <1>5, <1>6, <1>7, <1>8, <1>9, <1>10, <1>11, <1>12 DEF
     HandledRows

\* A handler has one to five steps, and counts them all unless it is one of
\* the three.
HidesFailures == {"RMHApp__IN_UINT32_IN_UINT32", "RMHApp__IN_POWER_MODE", "RMHApp__SET_TABOO"}

Counts(h) ==
    /\ StepsOf(h) \in Nat \ {0} /\ StepsOf(h) <= 5
    /\ h.name \notin HidesFailures => h.counted = StepsOf(h)

\* No handler reads more than four things.
Short(reads) == Len(reads) \in Nat /\ Len(reads) <= 4

\* The lists of readers there are.
LEMMA ShortLists ==
    /\ Short(<<>>)
    /\ \A x, y, z, w : Short(<<x>>) /\ Short(<<x, y>>) /\ Short(<<x, y, z, w>>)
  BY DEF Short

LEMMA TwoReaders == \A x, y : Len(<<x, y>>) = 2
  OBVIOUS

\* So is every handler.
LEMMA HandlersCount == \A h \in Handlers : Counts(h)
<1>1. ASSUME NEW n, NEW reads, NEW a, Short(reads)
      PROVE  Counts(H(n, reads, a))
  BY <1>1 DEF Counts, StepsOf, H, Handler, Short
<1>2. \A n, a : Counts(Out(n, a))
  BY <1>1, ShortLists DEF Out
<1>3. \A n, x, a : Counts(H(n, <<x>>, a))
  BY <1>1, ShortLists
<1>4. ASSUME NEW n \in HidesFailures, NEW reads, NEW a, NEW c, Short(reads)
      PROVE  Counts(Handler(n, reads, a, 0, c))
  BY <1>4 DEF Counts, StepsOf, Handler, Short
<1>5. \A n \in HidesFailures : \A x, a, c : Counts(Handler(n, <<x>>, a, 0, c))
  BY <1>4, ShortLists
<1>6. \A n \in HidesFailures : \A x, y, a, c : Counts(Handler(n, <<x, y>>, a, 0, c))
  BY <1>4, ShortLists
<1>7. \A n, x, y, a : Counts(H(n, <<x, y>>, a)) /\ Counts(Handler(n, <<x, y>>, a, 1, 4))
  <2>1. \A n, x, y, a : Counts(H(n, <<x, y>>, a))
    BY <1>1, ShortLists
  <2>2. \A n, x, y, a : Counts(Handler(n, <<x, y>>, a, 1, 4))
    BY TwoReaders DEF Counts, StepsOf, Handler
  <2>. QED  BY <2>1, <2>2
<1>8. \A n, x, y, z, w, a : Counts(H(n, <<x, y, z, w>>, a))
  BY <1>1, ShortLists
<1>9. \A h \in NumberHandlers : Counts(h)
  BY <1>2 DEF NumberHandlers
<1>10. \A h \in NodeHandlers : Counts(h)
  BY <1>3, <1>6 DEF NodeHandlers, HidesFailures
<1>11. \A h \in BoolTextHandlers : Counts(h)
  BY <1>2, <1>3 DEF BoolTextHandlers
<1>12. \A h \in MacHandlers : Counts(h)
  BY <1>2, <1>3 DEF MacHandlers
<1>13. \A h \in EnumHandlers : Counts(h)
  BY <1>2, <1>3, <1>5 DEF EnumHandlers, HidesFailures
<1>14. \A h \in NodeListHandlers : Counts(h)
  BY <1>2 DEF NodeListHandlers
<1>15. \A h \in SetHandlers : Counts(h)
  BY <1>1, <1>2, <1>3, ShortLists DEF SetHandlers
<1>16. \A h \in TabooAcaHandlers : Counts(h)
  BY <1>2, <1>6, <1>8 DEF TabooAcaHandlers, HidesFailures
<1>17. \A h \in ResetModulationHandlers : Counts(h)
  BY <1>2, <1>7 DEF ResetModulationHandlers
<1>. QED
  BY <1>9, <1>10, <1>11, <1>12, <1>13, <1>14, <1>15, <1>16, <1>17 DEF Handlers

\* Every handler that is used is one of the tables.
LEMMA HandlersNamed == HandlersUsed \subseteq {h.name : h \in Handlers}
<1>1. {"RMHApp__OUT_UINT32", "RMHApp__OUT_UINT32_HEX", "RMHApp__OUT_INT32",
      "RMHApp__OUT_UINT32_ARRAY", "RMHApp__OUT_MAC_ARRAY"}
        \subseteq {h.name : h \in NumberHandlers}
  BY DEF NumberHandlers, Handler, H, Out
<1>2. {"RMHApp__IN_UINT32_OUT_UINT32", "RMHApp__IN_UINT32_IN_UINT32",
      "RMHApp__IN_UINT32_OUT_FLOAT"}
        \subseteq {h.name : h \in NodeHandlers}
  BY DEF NodeHandlers, Handler, H, Out
<1>3. {"RMHApp__OUT_BOOL", "RMHApp__IN_UINT32_OUT_BOOL", "RMHApp__OUT_STRING",
      "RMHApp__OUT_UINT8_ARRAY", "RMHApp__IN_RMH_ENUM"}
        \subseteq {h.name : h \in BoolTextHandlers}
  BY DEF BoolTextHandlers, Handler, H, Out
<1>4. {"RMHApp__OUT_MAC", "RMHApp__IN_MAC", "RMHApp__IN_MAC_OUT_UINT32",
      "RMHApp__IN_MAC_OUT_MAC", "RMHApp__IN_UINT32_OUT_MAC"}
        \subseteq {h.name : h \in MacHandlers}
  BY DEF MacHandlers, Handler, H, Out
<1>5. {"RMHApp__OUT_POWER_MODE", "RMHApp__IN_POWER_MODE", "RMHApp__OUT_BAND",
      "RMHApp__OUT_LINK_STATUS", "RMHApp__OUT_MOCA_VERSION",
      "RMHApp__IN_UINT32_OUT_MOCA_VERSION", "RMHApp__OUT_LOGLEVEL"}
        \subseteq {h.name : h \in EnumHandlers}
  BY DEF EnumHandlers, Handler, H, Out
<1>6. {"RMHApp__OUT_UINT32_NODELIST", "RMHApp__OUT_UINT32_NODEMESH"}
        \subseteq {h.name : h \in NodeListHandlers}
  BY DEF NodeListHandlers, Handler, H, Out
<1>7. {"RMHApp__IN_BOOL", "RMHApp__IN_UINT32", "RMHApp__IN_INT32",
      "RMHApp__IN_UINT32_HEX", "RMHApp__IN_STRING", "RMHApp__IN_LOGLEVEL",
      "RMHApp__PRINT_STATUS", "RMHApp__HANDLE_ONLY", "RMHApp__LOCAL_HANDLE_ONLY"}
        \subseteq {h.name : h \in SetHandlers}
  BY DEF SetHandlers, Handler, H, Out
<1>8. {"RMHApp__GET_TABOO", "RMHApp__SET_TABOO", "RMHApp__OUT_ACA_TYPE",
      "RMHApp__OUT_ACA_STATUS", "RMHApp__REQUEST_ACA"}
        \subseteq {h.name : h \in TabooAcaHandlers}
  BY DEF TabooAcaHandlers, Handler, H, Out
<1>9. {"RMHApp__MoCA_RESET", "RMHApp__OUT_RESET_REASON", "RMHApp__OUT_MODULATION"}
        \subseteq {h.name : h \in ResetModulationHandlers}
  BY DEF ResetModulationHandlers, Handler, H, Out
<1>. QED
  BY <1>1, <1>2, <1>3, <1>4, <1>5, <1>6, <1>7, <1>8, <1>9 DEF Handlers,
     HandlersUsed

\* What is needed of all this: the handler of a row.
LEMMA RowCounts ==
    ASSUME NEW r \in HandledRows
    PROVE  /\ StepsOf(HandlerOf(r)) \in Nat \ {0} /\ StepsOf(HandlerOf(r)) <= 5
           /\ r.handler \notin HidesFailures => HandlerOf(r).counted = StepsOf(HandlerOf(r))
<1>1. PICK h \in Handlers : h.name = r.handler
  BY RowHandlers, HandlersNamed
<1>2. HandlerOf(r) \in Handlers /\ HandlerOf(r).name = r.handler
  BY <1>1 DEF HandlerOf, HandlerNamed
<1>. QED  BY <1>2, HandlersCount DEF Counts

\* The row for no command is none of the table, and no local command.
LEMMA NoRowIsNone == NoRow \notin HandledRows /\ NoRow.api \notin LocalApi
<1>1. NoRow.handler \notin HandlersUsed
  BY DEF NoRow, HandlersUsed
<1>. QED  BY <1>1, RowHandlers DEF NoRow, LocalApi, Debug, NoDebug, Forever

-----------------------------------------------------------------------------
(* The steps, part by part of the invariant.                               *)

\* The levels there are.
LEMMA LevelValues ==
    /\ RMH_LOG_DEFAULT \subseteq Levels /\ DEBUG \in Levels /\ 0 \in Levels
    /\ {} \subseteq Levels /\ RMH_LOG_DEFAULT \cup {DEBUG} \subseteq Levels
  BY DEF RMH_LOG_DEFAULT, DEBUG, Levels

\* A reader leaves a number of the list of levels.
LEMMA ReadValues == ASSUME NEW reader PROVE ValuesRead(reader) \subseteq Levels
  BY DEF Levels, ValuesRead

\* A mask is a set of levels.
LEMMA MaskValues == ASSUME NEW n PROVE MaskOf(n) \subseteq Levels
  BY DEF MaskOf

\* So is what a command wants.
LEMMA WantedValues == ASSUME NEW l \in SUBSET Levels PROVE Wanted(l) \in SUBSET Levels
  BY LevelValues DEF Wanted

\* A handler returns one of two results.
LEMMA ResultValues ==
    ASSUME NEW h, NEW step, NEW ok
    PROVE  ResultOf(h, step, ok) \in {"RMH_SUCCESS", "RMH_FAILURE"}
  BY DEF ResultOf

\* Other programs give the driver levels too.
LEMMA OtherValues == (\A l \in OtherLevels : l \subseteq Levels) /\ (\A l \in StartLevels : l \subseteq Levels)
  BY AppAssumption

\* Nothing has happened yet.
LEMMA ZeroOthers == 0 \in 0 .. MaxOthers
  BY AppAssumption

\* A local command and a handler begin where the process can be.
LEMMA FirstStepPC == \A r : FirstStep(r) \in {"getFile", "getEnabled", "running"}
  BY DEF FirstStep

\* TypeOK in parts: the log levels and what goes into them, the process and its
\* command, what has been done, what went wrong.
LevelType ==
    /\ level \subseteq Levels /\ ownFile \in BOOLEAN /\ enabled \in BOOLEAN
    /\ arg \in Levels /\ seen \subseteq Levels /\ saved \subseteq Levels /\ found \subseteq Levels
ProcessType ==
    /\ pc \in PCs /\ cmd \in Words \cup {NoWord} /\ opts \in OptionSets \cup {{}}
    /\ menu \in Menus /\ row \in HandledRows \cup {NoRow} /\ result \in Results
CountType ==
    at \in Nat /\ others \in 0 .. MaxOthers /\ frees \in 0 .. 2
FlagType ==
    /\ failed \in BOOLEAN /\ erange \in BOOLEAN /\ hooked \in BOOLEAN
    /\ handle \in {"none", "valid", "freed"}
    /\ ended \in {"no", "returned", "interrupted", "killed"}
MishapType ==
    mishaps \subseteq {"fileUnknown", "forbidden", "unread", "assumed", "refused", "overtaken"}

\* They are all there is of it.
LEMMA TypeParts == TypeOK <=> LevelType /\ ProcessType /\ CountType /\ FlagType /\ MishapType
  BY DEF TypeOK, LevelType, ProcessType, CountType, FlagType, MishapType

\* What an API does to the driver keeps its types.
LEMMA EffectType ==
    ASSUME LevelType, NEW api, NEW ok, Effect(api, ok)
    PROVE  level' \subseteq Levels /\ ownFile' \in BOOLEAN /\ enabled' \in BOOLEAN
  BY LevelValues, MaskValues DEF LevelType, Effect, driver

\* Every step keeps the types of the first part.
LEMMA LevelStep == TypeOK /\ [Next]_vars => LevelType'
<1>. SUFFICES ASSUME LevelType, [Next]_vars PROVE LevelType'
  BY TypeParts
<1>1. ASSUME NEW word \in Words \cup {NoWord}, NEW options \in OptionSets,
            Start(word, options)
     PROVE  LevelType'
  BY <1>1, LevelValues
     DEF LevelType, Start, driver
<1>2. ASSUME NEW ok \in BOOLEAN, Initialize(ok) \/ GetAllAPIs(ok)
     PROVE  LevelType'
  BY <1>2
     DEF LevelType, Initialize, GetAllAPIs, driver, command, library, viewer
<1>3. ASSUME NEW hit \in BOOLEAN, ExecuteSearch(hit)
     PROVE  LevelType'
  BY <1>3
     DEF LevelType, ExecuteSearch, Commanded, Returns, KeepsWorld, command, progress,
         driver, library, viewer
<1>4. ASSUME ExecuteNothing \/ PrintsOnly \/ ExecuteTagList
     PROVE  LevelType'
  BY <1>4
     DEF LevelType, ExecuteNothing, PrintsOnly, ExecuteTagList, Commanded, Uncommanded,
         Returns, KeepsWorld, command, progress, driver, library, viewer
<1>5. ASSUME ExecuteCommand
     PROVE  LevelType'
  BY <1>5, LevelValues
     DEF LevelType, ExecuteCommand, Commanded, RunsRow, KeepsWorld, command, progress,
         driver, library, viewer
<1>6. ASSUME NEW m \in {"all", "unimplemented", "local", "tag"}, MenuLeft \/
            MenuOpened(m) \/ MenuOutOfRange
     PROVE  LevelType'
  BY <1>6
     DEF LevelType, MenuLeft, MenuOpened, MenuOutOfRange, Choice, KeepsWorld, command,
         progress, driver, library, viewer
<1>7. ASSUME NEW word \in Words, MenuPicked(word)
     PROVE  LevelType'
  BY <1>7, LevelValues
     DEF LevelType, MenuPicked, Choice, RunsRow, KeepsWorld, command, progress, driver,
         library, viewer
<1>8. ASSUME NEW input \in Inputs, pc = "running" /\ Reads(HandlerOf(row),
            input)
     PROVE  LevelType'
  BY <1>8, ReadValues
     DEF LevelType, Reads, StepDone, Returns, KeepsWorld, command, progress, driver,
         library, viewer
<1>9. ASSUME NEW ok \in BOOLEAN, CallsApi(ok)
     PROVE  LevelType'
  BY <1>9, EffectType
     DEF LevelType, CallsApi, StepDone, Returns, driver, command, library, viewer
<1>10. ASSUME NEW ok \in BOOLEAN, GetsFile(ok) \/ SetsFile(ok) \/
            CreatesFile(ok)
     PROVE  LevelType'
  BY <1>10
     DEF LevelType, GetsFile, SetsFile, CreatesFile, Goes, Returns, KeepsLocal, command,
         driver, library, viewer
<1>11. ASSUME NEW ok \in BOOLEAN, GetsLevel(ok) \/ SetsLevel(ok)
     PROVE  LevelType'
  BY <1>11, WantedValues
     DEF LevelType, GetsLevel, SetsLevel, Goes, Returns, KeepsLocal, command, driver,
         library, viewer
<1>12. ASSUME NEW ok \in BOOLEAN, NEW started \in BOOLEAN, NEW forbidden \in
            BOOLEAN, GetsEnabled(ok, started, forbidden) \/ SetsEnabled(ok)
     PROVE  LevelType'
  BY <1>12
     DEF LevelType, GetsEnabled, SetsEnabled, Goes, Returns, KeepsLocal, command,
         driver, library, viewer
<1>13. ASSUME ExecuteMonitorDriverDebug
     PROVE  LevelType'
  BY <1>13
     DEF LevelType, ExecuteMonitorDriverDebug, Uncommanded, Goes, KeepsViewer, command,
         library
<1>14. ASSUME NEW ok \in BOOLEAN, ViewerSetsEvents(ok) \/
            ViewerGetsLevel(ok) \/ ViewerRaisesLevel(ok) \/ ViewerStops \/
            ViewerRestoresLevel(ok)
     PROVE  LevelType'
  BY <1>14, LevelValues
     DEF LevelType, ViewerSetsEvents, ViewerGetsLevel, ViewerRaisesLevel, ViewerStops,
         ViewerRestoresLevel, Goes, Returns, KeepsViewer, viewer, command, library
<1>15. ASSUME NEW ok \in BOOLEAN, NEW freed \in BOOLEAN, Interrupted(ok,
            freed)
     PROVE  LevelType'
  BY <1>15, LevelValues
     DEF LevelType, Interrupted, Gone, viewer
<1>16. ASSUME NEW ok \in BOOLEAN, Destroys(ok) \/ Exits
     PROVE  LevelType'
  BY <1>16, LevelValues
     DEF LevelType, Destroys, Exits, Gone, driver, command, progress, viewer, library
<1>17. ASSUME Killed
     PROVE  LevelType'
  BY <1>17, LevelValues
     DEF LevelType, Killed, Gone, driver
<1>18. ASSUME NEW l \in OtherLevels, OtherSetsLevel(l)
     PROVE  LevelType'
  BY <1>18, OtherValues
     DEF LevelType, OtherSetsLevel, command, progress, library, viewer
<1>19. ASSUME UNCHANGED vars
     PROVE  LevelType'
  BY <1>19
     DEF LevelType, vars, driver, command, progress, viewer, library
<1>. QED
  BY <1>1, <1>2, <1>3, <1>4, <1>5, <1>6, <1>7, <1>8, <1>9, <1>10, <1>11, <1>12,
       <1>13, <1>14, <1>15, <1>16, <1>17, <1>18, <1>19
     DEF Next, Runs, User, ReadsArg, ReadsLine

\* .. and of the second,
LEMMA ProcessStep == TypeOK /\ [Next]_vars => ProcessType'
<1>. SUFFICES ASSUME ProcessType, [Next]_vars PROVE ProcessType'
  BY TypeParts
<1>1. ASSUME NEW word \in Words \cup {NoWord}, NEW options \in OptionSets,
            Start(word, options)
     PROVE  ProcessType'
  BY <1>1
     DEF ProcessType, PCs, LocalPCs, ViewerPCs, Menus, Results, Start, driver
<1>2. ASSUME NEW ok \in BOOLEAN, Initialize(ok) \/ GetAllAPIs(ok)
     PROVE  ProcessType'
  BY <1>2
     DEF ProcessType, PCs, LocalPCs, ViewerPCs, Menus, Results, Initialize, GetAllAPIs,
         driver, command, library, viewer
<1>3. ASSUME NEW hit \in BOOLEAN, ExecuteSearch(hit)
     PROVE  ProcessType'
  BY <1>3
     DEF ProcessType, PCs, LocalPCs, ViewerPCs, Menus, Results, ExecuteSearch,
         Commanded, Returns, KeepsWorld, command, progress, driver, library, viewer
<1>4. ASSUME ExecuteNothing \/ PrintsOnly \/ ExecuteTagList
     PROVE  ProcessType'
  BY <1>4
     DEF ProcessType, PCs, LocalPCs, ViewerPCs, Menus, Results, ExecuteNothing,
         PrintsOnly, ExecuteTagList, Commanded, Uncommanded, Returns, KeepsWorld,
         command, progress, driver, library, viewer
<1>5. ASSUME ExecuteCommand
     PROVE  ProcessType'
  BY <1>5, RowsFound, FirstStepPC
     DEF ProcessType, PCs, LocalPCs, ViewerPCs, Menus, Results, ExecuteCommand,
         Commanded, RunsRow, KeepsWorld, command, progress, driver, library, viewer
<1>6. ASSUME NEW m \in {"all", "unimplemented", "local", "tag"}, MenuLeft \/
            MenuOpened(m) \/ MenuOutOfRange
     PROVE  ProcessType'
  BY <1>6
     DEF ProcessType, PCs, LocalPCs, ViewerPCs, Menus, Results, MenuLeft, MenuOpened,
         MenuOutOfRange, Choice, KeepsWorld, command, progress, driver, library, viewer
<1>7. ASSUME NEW word \in Words, MenuPicked(word)
     PROVE  ProcessType'
  BY <1>7, RowsFound, FirstStepPC
     DEF ProcessType, PCs, LocalPCs, ViewerPCs, Menus, Results, MenuPicked, Choice,
         RunsRow, KeepsWorld, command, progress, driver, library, viewer
<1>8. ASSUME NEW input \in Inputs, pc = "running" /\ Reads(HandlerOf(row),
            input)
     PROVE  ProcessType'
  BY <1>8, ResultValues
     DEF ProcessType, PCs, LocalPCs, ViewerPCs, Menus, Results, Reads, StepDone,
         Returns, KeepsWorld, command, progress, driver, library, viewer
<1>9. ASSUME NEW ok \in BOOLEAN, CallsApi(ok)
     PROVE  ProcessType'
  BY <1>9, ResultValues
     DEF ProcessType, PCs, LocalPCs, ViewerPCs, Menus, Results, CallsApi, StepDone,
         Returns, driver, command, library, viewer
<1>10. ASSUME NEW ok \in BOOLEAN, GetsFile(ok) \/ SetsFile(ok) \/
            CreatesFile(ok)
     PROVE  ProcessType'
  BY <1>10
     DEF ProcessType, PCs, LocalPCs, ViewerPCs, Menus, Results, GetsFile, SetsFile,
         CreatesFile, Goes, Returns, KeepsLocal, command, driver, library, viewer
<1>11. ASSUME NEW ok \in BOOLEAN, GetsLevel(ok) \/ SetsLevel(ok)
     PROVE  ProcessType'
  BY <1>11
     DEF ProcessType, PCs, LocalPCs, ViewerPCs, Menus, Results, GetsLevel, SetsLevel,
         Goes, Returns, KeepsLocal, command, driver, library, viewer
<1>12. ASSUME NEW ok \in BOOLEAN, NEW started \in BOOLEAN, NEW forbidden \in
            BOOLEAN, GetsEnabled(ok, started, forbidden) \/ SetsEnabled(ok)
     PROVE  ProcessType'
  BY <1>12
     DEF ProcessType, PCs, LocalPCs, ViewerPCs, Menus, Results, GetsEnabled,
         SetsEnabled, Goes, Returns, KeepsLocal, command, driver, library, viewer
<1>13. ASSUME ExecuteMonitorDriverDebug
     PROVE  ProcessType'
  BY <1>13
     DEF ProcessType, PCs, LocalPCs, ViewerPCs, Menus, Results,
         ExecuteMonitorDriverDebug, Uncommanded, Goes, KeepsViewer, command, library
<1>14. ASSUME NEW ok \in BOOLEAN, ViewerSetsEvents(ok) \/
            ViewerGetsLevel(ok) \/ ViewerRaisesLevel(ok) \/ ViewerStops \/
            ViewerRestoresLevel(ok)
     PROVE  ProcessType'
  BY <1>14
     DEF ProcessType, PCs, LocalPCs, ViewerPCs, Menus, Results, ViewerSetsEvents,
         ViewerGetsLevel, ViewerRaisesLevel, ViewerStops, ViewerRestoresLevel, Goes,
         Returns, KeepsViewer, viewer, command, library
<1>15. ASSUME NEW ok \in BOOLEAN, NEW freed \in BOOLEAN, Interrupted(ok,
            freed)
     PROVE  ProcessType'
  BY <1>15
     DEF ProcessType, PCs, LocalPCs, ViewerPCs, Menus, Results, Interrupted, Gone,
         viewer
<1>16. ASSUME NEW ok \in BOOLEAN, Destroys(ok) \/ Exits
     PROVE  ProcessType'
  BY <1>16
     DEF ProcessType, PCs, LocalPCs, ViewerPCs, Menus, Results, Destroys, Exits, Gone,
         driver, command, progress, viewer, library
<1>17. ASSUME Killed
     PROVE  ProcessType'
  BY <1>17
     DEF ProcessType, PCs, LocalPCs, ViewerPCs, Menus, Results, Killed, Gone, driver
<1>18. ASSUME NEW l \in OtherLevels, OtherSetsLevel(l)
     PROVE  ProcessType'
  BY <1>18
     DEF ProcessType, PCs, LocalPCs, ViewerPCs, Menus, Results, OtherSetsLevel, command,
         progress, library, viewer
<1>19. ASSUME UNCHANGED vars
     PROVE  ProcessType'
  BY <1>19
     DEF ProcessType, PCs, LocalPCs, ViewerPCs, Menus, Results, vars, driver, command,
         progress, viewer, library
<1>. QED
  BY <1>1, <1>2, <1>3, <1>4, <1>5, <1>6, <1>7, <1>8, <1>9, <1>10, <1>11, <1>12,
       <1>13, <1>14, <1>15, <1>16, <1>17, <1>18, <1>19
     DEF Next, Runs, User, ReadsArg, ReadsLine

\* .. and of the third,
LEMMA CountStep == TypeOK /\ HandleInv /\ [Next]_vars => CountType'
<1>. SUFFICES ASSUME CountType, HandleInv, [Next]_vars PROVE CountType'
  BY TypeParts
<1>1. ASSUME NEW word \in Words \cup {NoWord}, NEW options \in OptionSets,
            Start(word, options)
     PROVE  CountType'
  BY <1>1, ZeroOthers
     DEF CountType, Start, driver
<1>2. ASSUME NEW ok \in BOOLEAN, Initialize(ok) \/ GetAllAPIs(ok)
     PROVE  CountType'
  BY <1>2
     DEF CountType, Initialize, GetAllAPIs, driver, command, library, viewer
<1>3. ASSUME NEW hit \in BOOLEAN, ExecuteSearch(hit)
     PROVE  CountType'
  BY <1>3
     DEF CountType, ExecuteSearch, Commanded, Returns, KeepsWorld, command, progress,
         driver, library, viewer
<1>4. ASSUME ExecuteNothing \/ PrintsOnly \/ ExecuteTagList
     PROVE  CountType'
  BY <1>4
     DEF CountType, ExecuteNothing, PrintsOnly, ExecuteTagList, Commanded, Uncommanded,
         Returns, KeepsWorld, command, progress, driver, library, viewer
<1>5. ASSUME ExecuteCommand
     PROVE  CountType'
  BY <1>5
     DEF CountType, ExecuteCommand, Commanded, RunsRow, KeepsWorld, command, progress,
         driver, library, viewer
<1>6. ASSUME NEW m \in {"all", "unimplemented", "local", "tag"}, MenuLeft \/
            MenuOpened(m) \/ MenuOutOfRange
     PROVE  CountType'
  BY <1>6
     DEF CountType, MenuLeft, MenuOpened, MenuOutOfRange, Choice, KeepsWorld, command,
         progress, driver, library, viewer
<1>7. ASSUME NEW word \in Words, MenuPicked(word)
     PROVE  CountType'
  BY <1>7
     DEF CountType, MenuPicked, Choice, RunsRow, KeepsWorld, command, progress, driver,
         library, viewer
<1>8. ASSUME NEW input \in Inputs, pc = "running" /\ Reads(HandlerOf(row),
            input)
     PROVE  CountType'
  BY <1>8
     DEF CountType, Reads, StepDone, Returns, KeepsWorld, command, progress, driver,
         library, viewer
<1>9. ASSUME NEW ok \in BOOLEAN, CallsApi(ok)
     PROVE  CountType'
  BY <1>9
     DEF CountType, CallsApi, StepDone, Returns, driver, command, library, viewer
<1>10. ASSUME NEW ok \in BOOLEAN, GetsFile(ok) \/ SetsFile(ok) \/
            CreatesFile(ok)
     PROVE  CountType'
  BY <1>10
     DEF CountType, GetsFile, SetsFile, CreatesFile, Goes, Returns, KeepsLocal, command,
         driver, library, viewer
<1>11. ASSUME NEW ok \in BOOLEAN, GetsLevel(ok) \/ SetsLevel(ok)
     PROVE  CountType'
  BY <1>11
     DEF CountType, GetsLevel, SetsLevel, Goes, Returns, KeepsLocal, command, driver,
         library, viewer
<1>12. ASSUME NEW ok \in BOOLEAN, NEW started \in BOOLEAN, NEW forbidden \in
            BOOLEAN, GetsEnabled(ok, started, forbidden) \/ SetsEnabled(ok)
     PROVE  CountType'
  BY <1>12
     DEF CountType, GetsEnabled, SetsEnabled, Goes, Returns, KeepsLocal, command,
         driver, library, viewer
<1>13. ASSUME ExecuteMonitorDriverDebug
     PROVE  CountType'
  BY <1>13
     DEF CountType, ExecuteMonitorDriverDebug, Uncommanded, Goes, KeepsViewer, command,
         library
<1>14. ASSUME NEW ok \in BOOLEAN, ViewerSetsEvents(ok) \/
            ViewerGetsLevel(ok) \/ ViewerRaisesLevel(ok) \/ ViewerStops \/
            ViewerRestoresLevel(ok)
     PROVE  CountType'
  BY <1>14
     DEF CountType, ViewerSetsEvents, ViewerGetsLevel, ViewerRaisesLevel, ViewerStops,
         ViewerRestoresLevel, Goes, Returns, KeepsViewer, viewer, command, library
<1>15. ASSUME NEW ok \in BOOLEAN, NEW freed \in BOOLEAN, Interrupted(ok,
            freed)
     PROVE  CountType'
  BY <1>15
     DEF CountType, Interrupted, Gone, viewer, HandleInv, HandleUsable
<1>16. ASSUME NEW ok \in BOOLEAN, Destroys(ok) \/ Exits
     PROVE  CountType'
  BY <1>16
     DEF CountType, Destroys, Exits, Gone, driver, command, progress, viewer, library,
         HandleInv, HandleUsable
<1>17. ASSUME Killed
     PROVE  CountType'
  BY <1>17, ZeroOthers
     DEF CountType, Killed, Gone, driver
<1>18. ASSUME NEW l \in OtherLevels, OtherSetsLevel(l)
     PROVE  CountType'
  BY <1>18, AppAssumption
     DEF CountType, OtherSetsLevel, command, progress, library, viewer
<1>19. ASSUME UNCHANGED vars
     PROVE  CountType'
  BY <1>19
     DEF CountType, vars, driver, command, progress, viewer, library
<1>. QED
  BY <1>1, <1>2, <1>3, <1>4, <1>5, <1>6, <1>7, <1>8, <1>9, <1>10, <1>11, <1>12,
       <1>13, <1>14, <1>15, <1>16, <1>17, <1>18, <1>19
     DEF Next, Runs, User, ReadsArg, ReadsLine

\* .. and of the fourth,
LEMMA FlagStep == TypeOK /\ [Next]_vars => FlagType'
<1>. SUFFICES ASSUME FlagType, [Next]_vars PROVE FlagType'
  BY TypeParts
<1>1. ASSUME NEW word \in Words \cup {NoWord}, NEW options \in OptionSets,
            Start(word, options)
     PROVE  FlagType'
  BY <1>1
     DEF FlagType, Start, driver
<1>2. ASSUME NEW ok \in BOOLEAN, Initialize(ok) \/ GetAllAPIs(ok)
     PROVE  FlagType'
  BY <1>2
     DEF FlagType, Initialize, GetAllAPIs, driver, command, library, viewer
<1>3. ASSUME NEW hit \in BOOLEAN, ExecuteSearch(hit)
     PROVE  FlagType'
  BY <1>3
     DEF FlagType, ExecuteSearch, Commanded, Returns, KeepsWorld, command, progress,
         driver, library, viewer
<1>4. ASSUME ExecuteNothing \/ PrintsOnly \/ ExecuteTagList
     PROVE  FlagType'
  BY <1>4
     DEF FlagType, ExecuteNothing, PrintsOnly, ExecuteTagList, Commanded, Uncommanded,
         Returns, KeepsWorld, command, progress, driver, library, viewer
<1>5. ASSUME ExecuteCommand
     PROVE  FlagType'
  BY <1>5
     DEF FlagType, ExecuteCommand, Commanded, RunsRow, KeepsWorld, command, progress,
         driver, library, viewer
<1>6. ASSUME NEW m \in {"all", "unimplemented", "local", "tag"}, MenuLeft \/
            MenuOpened(m) \/ MenuOutOfRange
     PROVE  FlagType'
  BY <1>6
     DEF FlagType, MenuLeft, MenuOpened, MenuOutOfRange, Choice, KeepsWorld, command,
         progress, driver, library, viewer
<1>7. ASSUME NEW word \in Words, MenuPicked(word)
     PROVE  FlagType'
  BY <1>7
     DEF FlagType, MenuPicked, Choice, RunsRow, KeepsWorld, command, progress, driver,
         library, viewer
<1>8. ASSUME NEW input \in Inputs, pc = "running" /\ Reads(HandlerOf(row),
            input)
     PROVE  FlagType'
  BY <1>8
     DEF FlagType, Reads, StepDone, Returns, KeepsWorld, command, progress, driver,
         library, viewer
<1>9. ASSUME NEW ok \in BOOLEAN, CallsApi(ok)
     PROVE  FlagType'
  BY <1>9
     DEF FlagType, CallsApi, StepDone, Returns, driver, command, library, viewer
<1>10. ASSUME NEW ok \in BOOLEAN, GetsFile(ok) \/ SetsFile(ok) \/
            CreatesFile(ok)
     PROVE  FlagType'
  BY <1>10
     DEF FlagType, GetsFile, SetsFile, CreatesFile, Goes, Returns, KeepsLocal, command,
         driver, library, viewer
<1>11. ASSUME NEW ok \in BOOLEAN, GetsLevel(ok) \/ SetsLevel(ok)
     PROVE  FlagType'
  BY <1>11
     DEF FlagType, GetsLevel, SetsLevel, Goes, Returns, KeepsLocal, command, driver,
         library, viewer
<1>12. ASSUME NEW ok \in BOOLEAN, NEW started \in BOOLEAN, NEW forbidden \in
            BOOLEAN, GetsEnabled(ok, started, forbidden) \/ SetsEnabled(ok)
     PROVE  FlagType'
  BY <1>12
     DEF FlagType, GetsEnabled, SetsEnabled, Goes, Returns, KeepsLocal, command, driver,
         library, viewer
<1>13. ASSUME ExecuteMonitorDriverDebug
     PROVE  FlagType'
  BY <1>13
     DEF FlagType, ExecuteMonitorDriverDebug, Uncommanded, Goes, KeepsViewer, command,
         library
<1>14. ASSUME NEW ok \in BOOLEAN, ViewerSetsEvents(ok) \/
            ViewerGetsLevel(ok) \/ ViewerRaisesLevel(ok) \/ ViewerStops \/
            ViewerRestoresLevel(ok)
     PROVE  FlagType'
  BY <1>14
     DEF FlagType, ViewerSetsEvents, ViewerGetsLevel, ViewerRaisesLevel, ViewerStops,
         ViewerRestoresLevel, Goes, Returns, KeepsViewer, viewer, command, library
<1>15. ASSUME NEW ok \in BOOLEAN, NEW freed \in BOOLEAN, Interrupted(ok,
            freed)
     PROVE  FlagType'
  BY <1>15
     DEF FlagType, Interrupted, Gone, viewer
<1>16. ASSUME NEW ok \in BOOLEAN, Destroys(ok) \/ Exits
     PROVE  FlagType'
  BY <1>16
     DEF FlagType, Destroys, Exits, Gone, driver, command, progress, viewer, library
<1>17. ASSUME Killed
     PROVE  FlagType'
  BY <1>17
     DEF FlagType, Killed, Gone, driver
<1>18. ASSUME NEW l \in OtherLevels, OtherSetsLevel(l)
     PROVE  FlagType'
  BY <1>18
     DEF FlagType, OtherSetsLevel, command, progress, library, viewer
<1>19. ASSUME UNCHANGED vars
     PROVE  FlagType'
  BY <1>19
     DEF FlagType, vars, driver, command, progress, viewer, library
<1>. QED
  BY <1>1, <1>2, <1>3, <1>4, <1>5, <1>6, <1>7, <1>8, <1>9, <1>10, <1>11, <1>12,
       <1>13, <1>14, <1>15, <1>16, <1>17, <1>18, <1>19
     DEF Next, Runs, User, ReadsArg, ReadsLine

\* .. and of the fifth.
LEMMA MishapStep == TypeOK /\ [Next]_vars => MishapType'
<1>. SUFFICES ASSUME MishapType, [Next]_vars PROVE MishapType'
  BY TypeParts
<1>1. ASSUME NEW word \in Words \cup {NoWord}, NEW options \in OptionSets,
            Start(word, options)
     PROVE  MishapType'
  BY <1>1
     DEF MishapType, Start, driver
<1>2. ASSUME NEW ok \in BOOLEAN, Initialize(ok) \/ GetAllAPIs(ok)
     PROVE  MishapType'
  BY <1>2
     DEF MishapType, Initialize, GetAllAPIs, driver, command, library, viewer
<1>3. ASSUME NEW hit \in BOOLEAN, ExecuteSearch(hit)
     PROVE  MishapType'
  BY <1>3
     DEF MishapType, ExecuteSearch, Commanded, Returns, KeepsWorld, command, progress,
         driver, library, viewer
<1>4. ASSUME ExecuteNothing \/ PrintsOnly \/ ExecuteTagList
     PROVE  MishapType'
  BY <1>4
     DEF MishapType, ExecuteNothing, PrintsOnly, ExecuteTagList, Commanded, Uncommanded,
         Returns, KeepsWorld, command, progress, driver, library, viewer
<1>5. ASSUME ExecuteCommand
     PROVE  MishapType'
  BY <1>5
     DEF MishapType, ExecuteCommand, Commanded, RunsRow, KeepsWorld, command, progress,
         driver, library, viewer
<1>6. ASSUME NEW m \in {"all", "unimplemented", "local", "tag"}, MenuLeft \/
            MenuOpened(m) \/ MenuOutOfRange
     PROVE  MishapType'
  BY <1>6
     DEF MishapType, MenuLeft, MenuOpened, MenuOutOfRange, Choice, KeepsWorld, command,
         progress, driver, library, viewer
<1>7. ASSUME NEW word \in Words, MenuPicked(word)
     PROVE  MishapType'
  BY <1>7
     DEF MishapType, MenuPicked, Choice, RunsRow, KeepsWorld, command, progress, driver,
         library, viewer
<1>8. ASSUME NEW input \in Inputs, pc = "running" /\ Reads(HandlerOf(row),
            input)
     PROVE  MishapType'
  BY <1>8
     DEF MishapType, Reads, StepDone, Returns, KeepsWorld, command, progress, driver,
         library, viewer
<1>9. ASSUME NEW ok \in BOOLEAN, CallsApi(ok)
     PROVE  MishapType'
  BY <1>9
     DEF MishapType, CallsApi, StepDone, Returns, driver, command, library, viewer
<1>10. ASSUME NEW ok \in BOOLEAN, GetsFile(ok) \/ SetsFile(ok) \/
            CreatesFile(ok)
     PROVE  MishapType'
  BY <1>10
     DEF MishapType, GetsFile, SetsFile, CreatesFile, Goes, Returns, KeepsLocal,
         command, driver, library, viewer
<1>11. ASSUME NEW ok \in BOOLEAN, GetsLevel(ok) \/ SetsLevel(ok)
     PROVE  MishapType'
  BY <1>11
     DEF MishapType, GetsLevel, SetsLevel, Goes, Returns, KeepsLocal, command, driver,
         library, viewer
<1>12. ASSUME NEW ok \in BOOLEAN, NEW started \in BOOLEAN, NEW forbidden \in
            BOOLEAN, GetsEnabled(ok, started, forbidden) \/ SetsEnabled(ok)
     PROVE  MishapType'
  BY <1>12
     DEF MishapType, GetsEnabled, SetsEnabled, Goes, Returns, KeepsLocal, command,
         driver, library, viewer
<1>13. ASSUME ExecuteMonitorDriverDebug
     PROVE  MishapType'
  BY <1>13
     DEF MishapType, ExecuteMonitorDriverDebug, Uncommanded, Goes, KeepsViewer, command,
         library
<1>14. ASSUME NEW ok \in BOOLEAN, ViewerSetsEvents(ok) \/
            ViewerGetsLevel(ok) \/ ViewerRaisesLevel(ok) \/ ViewerStops \/
            ViewerRestoresLevel(ok)
     PROVE  MishapType'
  BY <1>14
     DEF MishapType, ViewerSetsEvents, ViewerGetsLevel, ViewerRaisesLevel, ViewerStops,
         ViewerRestoresLevel, Goes, Returns, KeepsViewer, viewer, command, library
<1>15. ASSUME NEW ok \in BOOLEAN, NEW freed \in BOOLEAN, Interrupted(ok,
            freed)
     PROVE  MishapType'
  BY <1>15
     DEF MishapType, Interrupted, Gone, viewer
<1>16. ASSUME NEW ok \in BOOLEAN, Destroys(ok) \/ Exits
     PROVE  MishapType'
  BY <1>16
     DEF MishapType, Destroys, Exits, Gone, driver, command, progress, viewer, library
<1>17. ASSUME Killed
     PROVE  MishapType'
  BY <1>17
     DEF MishapType, Killed, Gone, driver
<1>18. ASSUME NEW l \in OtherLevels, OtherSetsLevel(l)
     PROVE  MishapType'
  BY <1>18
     DEF MishapType, OtherSetsLevel, command, progress, library, viewer
<1>19. ASSUME UNCHANGED vars
     PROVE  MishapType'
  BY <1>19
     DEF MishapType, vars, driver, command, progress, viewer, library
<1>. QED
  BY <1>1, <1>2, <1>3, <1>4, <1>5, <1>6, <1>7, <1>8, <1>9, <1>10, <1>11, <1>12,
       <1>13, <1>14, <1>15, <1>16, <1>17, <1>18, <1>19
     DEF Next, Runs, User, ReadsArg, ReadsLine

\* Every step keeps the types.
LEMMA TypeStep == TypeOK /\ HandleInv /\ [Next]_vars => TypeOK'
<1>1. LevelType' /\ ProcessType' /\ CountType' /\ FlagType' /\ MishapType' => TypeOK'
  BY DEF TypeOK, LevelType, ProcessType, CountType, FlagType, MishapType
<1>. QED  BY <1>1, LevelStep, ProcessStep, CountStep, FlagStep, MishapStep

-----------------------------------------------------------------------------
(* The parts that speak of the command.                                    *)

\* Every step keeps the handle usable.
LEMMA HandleStep == TypeOK /\ HandleInv /\ RowInv /\ [Next]_vars => HandleInv'
<1>. SUFFICES ASSUME CountType, HandleInv, RowInv, [Next]_vars PROVE HandleInv'
  BY TypeParts
<1>1. ASSUME NEW word \in Words \cup {NoWord}, NEW options \in OptionSets,
            Start(word, options)
     PROVE  HandleInv'
  BY <1>1
     DEF CountType, HandleInv, HandleUsable, ViewerPCs, Start, driver
<1>2. ASSUME NEW ok \in BOOLEAN, Initialize(ok) \/ GetAllAPIs(ok)
     PROVE  HandleInv'
  BY <1>2
     DEF CountType, HandleInv, HandleUsable, ViewerPCs, Initialize, GetAllAPIs, driver,
         command, library, viewer
<1>3. ASSUME NEW hit \in BOOLEAN, ExecuteSearch(hit)
     PROVE  HandleInv'
  BY <1>3
     DEF CountType, HandleInv, HandleUsable, ViewerPCs, ExecuteSearch, Commanded,
         Returns, KeepsWorld, command, progress, driver, library, viewer
<1>4. ASSUME ExecuteNothing \/ PrintsOnly \/ ExecuteTagList
     PROVE  HandleInv'
  BY <1>4
     DEF CountType, HandleInv, HandleUsable, ViewerPCs, ExecuteNothing, PrintsOnly,
         ExecuteTagList, Commanded, Uncommanded, Returns, KeepsWorld, command, progress,
         driver, library, viewer
<1>5. ASSUME ExecuteCommand
     PROVE  HandleInv'
  BY <1>5, FirstStepPC
     DEF CountType, HandleInv, HandleUsable, ViewerPCs, ExecuteCommand, Commanded,
         RunsRow, KeepsWorld, command, progress, driver, library, viewer
<1>6. ASSUME NEW m \in {"all", "unimplemented", "local", "tag"}, MenuLeft \/
            MenuOpened(m) \/ MenuOutOfRange
     PROVE  HandleInv'
  BY <1>6
     DEF CountType, HandleInv, HandleUsable, ViewerPCs, MenuLeft, MenuOpened,
         MenuOutOfRange, Choice, KeepsWorld, command, progress, driver, library, viewer
<1>7. ASSUME NEW word \in Words, MenuPicked(word)
     PROVE  HandleInv'
  BY <1>7, FirstStepPC
     DEF CountType, HandleInv, HandleUsable, ViewerPCs, MenuPicked, Choice, RunsRow,
         KeepsWorld, command, progress, driver, library, viewer
<1>8. ASSUME NEW input \in Inputs, pc = "running" /\ Reads(HandlerOf(row),
            input)
     PROVE  HandleInv'
  BY <1>8
     DEF CountType, HandleInv, HandleUsable, ViewerPCs, Reads, StepDone, Returns,
         KeepsWorld, command, progress, driver, library, viewer
<1>9. ASSUME NEW ok \in BOOLEAN, CallsApi(ok)
     PROVE  HandleInv'
  BY <1>9
     DEF CountType, HandleInv, HandleUsable, ViewerPCs, CallsApi, StepDone, Returns,
         driver, command, library, viewer
<1>10. ASSUME NEW ok \in BOOLEAN, GetsFile(ok) \/ SetsFile(ok) \/
            CreatesFile(ok)
     PROVE  HandleInv'
  BY <1>10
     DEF CountType, HandleInv, HandleUsable, ViewerPCs, GetsFile, SetsFile, CreatesFile,
         Goes, Returns, KeepsLocal, command, driver, library, viewer
<1>11. ASSUME NEW ok \in BOOLEAN, GetsLevel(ok) \/ SetsLevel(ok)
     PROVE  HandleInv'
  BY <1>11
     DEF CountType, HandleInv, HandleUsable, ViewerPCs, GetsLevel, SetsLevel, Goes,
         Returns, KeepsLocal, command, driver, library, viewer
<1>12. ASSUME NEW ok \in BOOLEAN, NEW started \in BOOLEAN, NEW forbidden \in
            BOOLEAN, GetsEnabled(ok, started, forbidden) \/ SetsEnabled(ok)
     PROVE  HandleInv'
  BY <1>12
     DEF CountType, HandleInv, HandleUsable, ViewerPCs, GetsEnabled, SetsEnabled, Goes,
         Returns, KeepsLocal, command, driver, library, viewer
<1>13. ASSUME ExecuteMonitorDriverDebug
     PROVE  HandleInv'
  BY <1>13
     DEF CountType, HandleInv, HandleUsable, ViewerPCs, ExecuteMonitorDriverDebug,
         Uncommanded, Goes, KeepsViewer, command, library
<1>14. ASSUME NEW ok \in BOOLEAN, ViewerSetsEvents(ok) \/
            ViewerGetsLevel(ok) \/ ViewerRaisesLevel(ok) \/ ViewerStops \/
            ViewerRestoresLevel(ok)
     PROVE  HandleInv'
  BY <1>14
     DEF CountType, HandleInv, HandleUsable, ViewerPCs, ViewerSetsEvents,
         ViewerGetsLevel, ViewerRaisesLevel, ViewerStops, ViewerRestoresLevel, Goes,
         Returns, KeepsViewer, viewer, command, library
<1>15. ASSUME NEW ok \in BOOLEAN, NEW freed \in BOOLEAN, Interrupted(ok,
            freed)
     PROVE  HandleInv'
  BY <1>15
     DEF CountType, HandleInv, HandleUsable, ViewerPCs, Interrupted, Gone, viewer,
         RowInv
<1>16. ASSUME NEW ok \in BOOLEAN, Destroys(ok) \/ Exits
     PROVE  HandleInv'
  BY <1>16
     DEF CountType, HandleInv, HandleUsable, ViewerPCs, Destroys, Exits, Gone, driver,
         command, progress, viewer, library, RowInv
<1>17. ASSUME Killed
     PROVE  HandleInv'
  BY <1>17
     DEF CountType, HandleInv, HandleUsable, ViewerPCs, Killed, Gone, driver
<1>18. ASSUME NEW l \in OtherLevels, OtherSetsLevel(l)
     PROVE  HandleInv'
  BY <1>18
     DEF CountType, HandleInv, HandleUsable, ViewerPCs, OtherSetsLevel, command,
         progress, library, viewer
<1>19. ASSUME UNCHANGED vars
     PROVE  HandleInv'
  BY <1>19
     DEF CountType, HandleInv, HandleUsable, ViewerPCs, vars, driver, command, progress,
         viewer, library
<1>. QED
  BY <1>1, <1>2, <1>3, <1>4, <1>5, <1>6, <1>7, <1>8, <1>9, <1>10, <1>11, <1>12,
       <1>13, <1>14, <1>15, <1>16, <1>17, <1>18, <1>19
     DEF Next, Runs, User, ReadsArg, ReadsLine

\* Every step leaves the process where its row belongs.
LEMMA RowStep == TypeOK /\ RowInv /\ [Next]_vars => RowInv'
<1>. SUFFICES ASSUME ProcessType, RowInv, [Next]_vars PROVE RowInv'
  BY TypeParts
<1>1. ASSUME NEW word \in Words \cup {NoWord}, NEW options \in OptionSets,
            Start(word, options)
     PROVE  RowInv'
  BY <1>1
     DEF ProcessType, RowInv, ViewerPCs, Start, driver
<1>2. ASSUME NEW ok \in BOOLEAN, Initialize(ok) \/ GetAllAPIs(ok)
     PROVE  RowInv'
  BY <1>2
     DEF ProcessType, RowInv, ViewerPCs, Initialize, GetAllAPIs, driver, command,
         library, viewer
<1>3. ASSUME NEW hit \in BOOLEAN, ExecuteSearch(hit)
     PROVE  RowInv'
  BY <1>3
     DEF ProcessType, RowInv, ViewerPCs, ExecuteSearch, Commanded, Returns, KeepsWorld,
         command, progress, driver, library, viewer
<1>4. ASSUME ExecuteNothing \/ PrintsOnly \/ ExecuteTagList
     PROVE  RowInv'
  BY <1>4
     DEF ProcessType, RowInv, ViewerPCs, ExecuteNothing, PrintsOnly, ExecuteTagList,
         Commanded, Uncommanded, Returns, KeepsWorld, command, progress, driver,
         library, viewer
<1>5. ASSUME ExecuteCommand
     PROVE  RowInv'
  BY <1>5, RowsFound, FirstSteps, NoRowIsNone
     DEF ProcessType, RowInv, ViewerPCs, ExecuteCommand, Commanded, RunsRow, KeepsWorld,
         command, progress, driver, library, viewer, LocalApi
<1>6. ASSUME NEW m \in {"all", "unimplemented", "local", "tag"}, MenuLeft \/
            MenuOpened(m) \/ MenuOutOfRange
     PROVE  RowInv'
  BY <1>6, NoRowIsNone
     DEF ProcessType, RowInv, ViewerPCs, MenuLeft, MenuOpened, MenuOutOfRange, Choice,
         KeepsWorld, command, progress, driver, library, viewer
<1>7. ASSUME NEW word \in Words, MenuPicked(word)
     PROVE  RowInv'
  BY <1>7, RowsFound, FirstSteps, NoRowIsNone
     DEF ProcessType, RowInv, ViewerPCs, MenuPicked, Choice, RunsRow, KeepsWorld,
         command, progress, driver, library, viewer, LocalApi
<1>8. ASSUME NEW input \in Inputs, pc = "running" /\ Reads(HandlerOf(row),
            input)
     PROVE  RowInv'
  BY <1>8
     DEF ProcessType, RowInv, ViewerPCs, Reads, StepDone, Returns, KeepsWorld, command,
         progress, driver, library, viewer
<1>9. ASSUME NEW ok \in BOOLEAN, CallsApi(ok)
     PROVE  RowInv'
  BY <1>9
     DEF ProcessType, RowInv, ViewerPCs, CallsApi, StepDone, Returns, driver, command,
         library, viewer
<1>10. ASSUME NEW ok \in BOOLEAN, GetsFile(ok) \/ SetsFile(ok) \/
            CreatesFile(ok)
     PROVE  RowInv'
  BY <1>10
     DEF ProcessType, RowInv, ViewerPCs, GetsFile, SetsFile, CreatesFile, Goes, Returns,
         KeepsLocal, command, driver, library, viewer, Debug, NoDebug, Forever
<1>11. ASSUME NEW ok \in BOOLEAN, GetsLevel(ok) \/ SetsLevel(ok)
     PROVE  RowInv'
  BY <1>11
     DEF ProcessType, RowInv, ViewerPCs, GetsLevel, SetsLevel, Goes, Returns,
         KeepsLocal, command, driver, library, viewer
<1>12. ASSUME NEW ok \in BOOLEAN, NEW started \in BOOLEAN, NEW forbidden \in
            BOOLEAN, GetsEnabled(ok, started, forbidden) \/ SetsEnabled(ok)
     PROVE  RowInv'
  BY <1>12
     DEF ProcessType, RowInv, ViewerPCs, GetsEnabled, SetsEnabled, Goes, Returns,
         KeepsLocal, command, driver, library, viewer
<1>13. ASSUME ExecuteMonitorDriverDebug
     PROVE  RowInv'
  BY <1>13
     DEF ProcessType, RowInv, ViewerPCs, ExecuteMonitorDriverDebug, Uncommanded, Goes,
         KeepsViewer, command, library
<1>14. ASSUME NEW ok \in BOOLEAN, ViewerSetsEvents(ok) \/
            ViewerGetsLevel(ok) \/ ViewerRaisesLevel(ok) \/ ViewerStops \/
            ViewerRestoresLevel(ok)
     PROVE  RowInv'
  BY <1>14
     DEF ProcessType, RowInv, ViewerPCs, ViewerSetsEvents, ViewerGetsLevel,
         ViewerRaisesLevel, ViewerStops, ViewerRestoresLevel, Goes, Returns,
         KeepsViewer, viewer, command, library
<1>15. ASSUME NEW ok \in BOOLEAN, NEW freed \in BOOLEAN, Interrupted(ok,
            freed)
     PROVE  RowInv'
  BY <1>15
     DEF ProcessType, RowInv, ViewerPCs, Interrupted, Gone, viewer
<1>16. ASSUME NEW ok \in BOOLEAN, Destroys(ok) \/ Exits
     PROVE  RowInv'
  BY <1>16
     DEF ProcessType, RowInv, ViewerPCs, Destroys, Exits, Gone, driver, command,
         progress, viewer, library
<1>17. ASSUME Killed
     PROVE  RowInv'
  BY <1>17
     DEF ProcessType, RowInv, ViewerPCs, Killed, Gone, driver
<1>18. ASSUME NEW l \in OtherLevels, OtherSetsLevel(l)
     PROVE  RowInv'
  BY <1>18
     DEF ProcessType, RowInv, ViewerPCs, OtherSetsLevel, command, progress, library,
         viewer
<1>19. ASSUME UNCHANGED vars
     PROVE  RowInv'
  BY <1>19
     DEF ProcessType, RowInv, ViewerPCs, vars, driver, command, progress, viewer,
         library
<1>. QED
  BY <1>1, <1>2, <1>3, <1>4, <1>5, <1>6, <1>7, <1>8, <1>9, <1>10, <1>11, <1>12,
       <1>13, <1>14, <1>15, <1>16, <1>17, <1>18, <1>19
     DEF Next, Runs, User, ReadsArg, ReadsLine

\* Every step keeps what is known of the log level while the viewer runs.
LEMMA ViewerStep == TypeOK /\ RowInv /\ ViewerInv /\ [Next]_vars => ViewerInv'
<1>. SUFFICES ASSUME LevelType, RowInv, ViewerInv, [Next]_vars PROVE ViewerInv'
  BY TypeParts
<1>1. ASSUME NEW word \in Words \cup {NoWord}, NEW options \in OptionSets,
            Start(word, options)
     PROVE  ViewerInv'
  BY <1>1
     DEF ViewerInv, RowInv, ViewerPCs, Overtaken, Aimed, Start, driver
<1>2. ASSUME NEW ok \in BOOLEAN, Initialize(ok) \/ GetAllAPIs(ok)
     PROVE  ViewerInv'
  BY <1>2
     DEF ViewerInv, RowInv, ViewerPCs, Overtaken, Aimed, Initialize, GetAllAPIs, driver,
         command, library, viewer
<1>3. ASSUME NEW hit \in BOOLEAN, ExecuteSearch(hit)
     PROVE  ViewerInv'
  BY <1>3
     DEF ViewerInv, RowInv, ViewerPCs, Overtaken, Aimed, ExecuteSearch, Commanded,
         Returns, KeepsWorld, command, progress, driver, library, viewer
<1>4. ASSUME ExecuteNothing \/ PrintsOnly \/ ExecuteTagList
     PROVE  ViewerInv'
  BY <1>4
     DEF ViewerInv, RowInv, ViewerPCs, Overtaken, Aimed, ExecuteNothing, PrintsOnly,
         ExecuteTagList, Commanded, Uncommanded, Returns, KeepsWorld, command, progress,
         driver, library, viewer
<1>5. ASSUME ExecuteCommand
     PROVE  ViewerInv'
  BY <1>5, FirstStepPC
     DEF ViewerInv, RowInv, ViewerPCs, Overtaken, Aimed, ExecuteCommand, Commanded,
         RunsRow, KeepsWorld, command, progress, driver, library, viewer
<1>6. ASSUME NEW m \in {"all", "unimplemented", "local", "tag"}, MenuLeft \/
            MenuOpened(m) \/ MenuOutOfRange
     PROVE  ViewerInv'
  BY <1>6
     DEF ViewerInv, RowInv, ViewerPCs, Overtaken, Aimed, MenuLeft, MenuOpened,
         MenuOutOfRange, Choice, KeepsWorld, command, progress, driver, library, viewer
<1>7. ASSUME NEW word \in Words, MenuPicked(word)
     PROVE  ViewerInv'
  BY <1>7, FirstStepPC
     DEF ViewerInv, RowInv, ViewerPCs, Overtaken, Aimed, MenuPicked, Choice, RunsRow,
         KeepsWorld, command, progress, driver, library, viewer
<1>8. ASSUME NEW input \in Inputs, pc = "running" /\ Reads(HandlerOf(row),
            input)
     PROVE  ViewerInv'
  BY <1>8
     DEF ViewerInv, RowInv, ViewerPCs, Overtaken, Aimed, Reads, StepDone, Returns,
         KeepsWorld, command, progress, driver, library, viewer
<1>9. ASSUME NEW ok \in BOOLEAN, CallsApi(ok)
     PROVE  ViewerInv'
  BY <1>9
     DEF ViewerInv, RowInv, ViewerPCs, Overtaken, Aimed, CallsApi, StepDone, Returns,
         driver, command, library, viewer
<1>10. ASSUME NEW ok \in BOOLEAN, GetsFile(ok) \/ SetsFile(ok) \/
            CreatesFile(ok)
     PROVE  ViewerInv'
  BY <1>10
     DEF ViewerInv, RowInv, ViewerPCs, Overtaken, Aimed, GetsFile, SetsFile,
         CreatesFile, Goes, Returns, KeepsLocal, command, driver, library, viewer
<1>11. ASSUME NEW ok \in BOOLEAN, GetsLevel(ok) \/ SetsLevel(ok)
     PROVE  ViewerInv'
  BY <1>11
     DEF ViewerInv, RowInv, ViewerPCs, Overtaken, Aimed, GetsLevel, SetsLevel, Goes,
         Returns, KeepsLocal, command, driver, library, viewer
<1>12. ASSUME NEW ok \in BOOLEAN, NEW started \in BOOLEAN, NEW forbidden \in
            BOOLEAN, GetsEnabled(ok, started, forbidden) \/ SetsEnabled(ok)
     PROVE  ViewerInv'
  BY <1>12
     DEF ViewerInv, RowInv, ViewerPCs, Overtaken, Aimed, GetsEnabled, SetsEnabled, Goes,
         Returns, KeepsLocal, command, driver, library, viewer
<1>13. ASSUME ExecuteMonitorDriverDebug
     PROVE  ViewerInv'
  BY <1>13
     DEF ViewerInv, RowInv, ViewerPCs, Overtaken, Aimed, ExecuteMonitorDriverDebug,
         Uncommanded, Goes, KeepsViewer, command, library
<1>14. ASSUME NEW ok \in BOOLEAN, ViewerSetsEvents(ok) \/
            ViewerGetsLevel(ok) \/ ViewerRaisesLevel(ok) \/ ViewerStops \/
            ViewerRestoresLevel(ok)
     PROVE  ViewerInv'
  <2>1. CASE ViewerSetsEvents(ok)
    BY <2>1
       DEF ViewerInv, RowInv, ViewerPCs, Overtaken, Aimed, ViewerSetsEvents, Goes,
           Returns, KeepsViewer, viewer, command, library
  <2>2. CASE ViewerGetsLevel(ok)
    <3>1. level = found
      BY <2>2 DEF RowInv, ViewerGetsLevel
    <3>2. pc' = "raise" /\ level' = level /\ found' = found /\ hooked' = hooked /\ ~Overtaken'
      BY <2>2 DEF ViewerGetsLevel, Goes, KeepsViewer, Overtaken
    <3>3. CASE ok
      BY <2>2, <3>1, <3>2, <3>3 DEF ViewerInv, Aimed, ViewerGetsLevel
    <3>4. CASE ~ok
      BY <2>2, <3>1, <3>2, <3>4 DEF ViewerInv, Aimed, ViewerGetsLevel
    <3>. QED  BY <3>3, <3>4
  <2>3. CASE ViewerRaisesLevel(ok)
    BY <2>3
       DEF ViewerInv, RowInv, ViewerPCs, Overtaken, Aimed, ViewerRaisesLevel, Goes,
           Returns, KeepsViewer, viewer, command, library
  <2>4. CASE ViewerStops
    BY <2>4
       DEF ViewerInv, RowInv, ViewerPCs, Overtaken, Aimed, ViewerStops, Goes, Returns,
           KeepsViewer, viewer, command, library
  <2>5. CASE ViewerRestoresLevel(ok)
    BY <2>5
       DEF ViewerInv, RowInv, ViewerPCs, Overtaken, Aimed, ViewerRestoresLevel, Goes,
           Returns, KeepsViewer, viewer, command, library
  <2>. QED  BY <1>14, <2>1, <2>2, <2>3, <2>4, <2>5
<1>15. ASSUME NEW ok \in BOOLEAN, NEW freed \in BOOLEAN, Interrupted(ok,
            freed)
     PROVE  ViewerInv'
  BY <1>15
     DEF ViewerInv, RowInv, ViewerPCs, Overtaken, Aimed, Interrupted, Gone, viewer,
         ViewerRestores
<1>16. ASSUME NEW ok \in BOOLEAN, Destroys(ok) \/ Exits
     PROVE  ViewerInv'
  BY <1>16
     DEF ViewerInv, RowInv, ViewerPCs, Overtaken, Aimed, Destroys, Exits, Gone, driver,
         command, progress, viewer, library, ViewerRestores
<1>17. ASSUME Killed
     PROVE  ViewerInv'
  BY <1>17
     DEF ViewerInv, RowInv, ViewerPCs, Overtaken, Aimed, Killed, Gone, driver
<1>18. ASSUME NEW l \in OtherLevels, OtherSetsLevel(l)
     PROVE  ViewerInv'
  BY <1>18
     DEF ViewerInv, RowInv, ViewerPCs, Overtaken, Aimed, OtherSetsLevel, command,
         progress, library, viewer, ViewerRestores, HasRead
<1>19. ASSUME UNCHANGED vars
     PROVE  ViewerInv'
  BY <1>19
     DEF ViewerInv, RowInv, ViewerPCs, Overtaken, Aimed, vars, driver, command,
         progress, viewer, library, ViewerRestores
<1>. QED
  BY <1>1, <1>2, <1>3, <1>4, <1>5, <1>6, <1>7, <1>8, <1>9, <1>10, <1>11, <1>12,
       <1>13, <1>14, <1>15, <1>16, <1>17, <1>18, <1>19
     DEF Next, Runs, User, ReadsArg, ReadsLine

\* Every step keeps what is known of the driver while a local command runs.
LEMMA SwitchStep == TypeOK /\ RowInv /\ SwitchInv /\ [Next]_vars => SwitchInv'
<1>. SUFFICES ASSUME LevelType, ProcessType, RowInv, SwitchInv, [Next]_vars PROVE SwitchInv'
  BY TypeParts
<1>1. ASSUME NEW word \in Words \cup {NoWord}, NEW options \in OptionSets,
            Start(word, options)
     PROVE  SwitchInv'
  BY <1>1
     DEF SwitchInv, SwitchTrue, Finished, Overtaken, RowInv, LocalPCs, Debug, NoDebug,
         Forever, Start, driver
<1>2. ASSUME NEW ok \in BOOLEAN, Initialize(ok) \/ GetAllAPIs(ok)
     PROVE  SwitchInv'
  BY <1>2
     DEF SwitchInv, SwitchTrue, Finished, Overtaken, RowInv, LocalPCs, Debug, NoDebug,
         Forever, Initialize, GetAllAPIs, driver, command, library, viewer
<1>3. ASSUME NEW hit \in BOOLEAN, ExecuteSearch(hit)
     PROVE  SwitchInv'
  BY <1>3, NoRowIsNone
     DEF SwitchInv, SwitchTrue, Finished, Overtaken, RowInv, LocalPCs, Debug, NoDebug,
         Forever, ExecuteSearch, Commanded, Returns, KeepsWorld, command, progress,
         driver, library, viewer, LocalApi
<1>4. ASSUME ExecuteNothing \/ PrintsOnly \/ ExecuteTagList
     PROVE  SwitchInv'
  BY <1>4, NoRowIsNone
     DEF SwitchInv, SwitchTrue, Finished, Overtaken, RowInv, LocalPCs, Debug, NoDebug,
         Forever, ExecuteNothing, PrintsOnly, ExecuteTagList, Commanded, Uncommanded,
         Returns, KeepsWorld, command, progress, driver, library, viewer, LocalApi
<1>5. ASSUME ExecuteCommand
     PROVE  SwitchInv'
  BY <1>5, FirstSteps, FirstStepPC
     DEF SwitchInv, SwitchTrue, Finished, Overtaken, RowInv, LocalPCs, Debug, NoDebug,
         Forever, ExecuteCommand, Commanded, RunsRow, KeepsWorld, command, progress,
         driver, library, viewer
<1>6. ASSUME NEW m \in {"all", "unimplemented", "local", "tag"}, MenuLeft \/
            MenuOpened(m) \/ MenuOutOfRange
     PROVE  SwitchInv'
  BY <1>6, NoRowIsNone
     DEF SwitchInv, SwitchTrue, Finished, Overtaken, RowInv, LocalPCs, Debug, NoDebug,
         Forever, MenuLeft, MenuOpened, MenuOutOfRange, Choice, KeepsWorld, command,
         progress, driver, library, viewer, LocalApi
<1>7. ASSUME NEW word \in Words, MenuPicked(word)
     PROVE  SwitchInv'
  BY <1>7, FirstStepPC, FirstSteps, NoRowIsNone
     DEF SwitchInv, SwitchTrue, Finished, Overtaken, RowInv, LocalPCs, Debug, NoDebug,
         Forever, MenuPicked, Choice, RunsRow, KeepsWorld, command, progress, driver,
         library, viewer, LocalApi
<1>8. ASSUME NEW input \in Inputs, pc = "running" /\ Reads(HandlerOf(row),
            input)
     PROVE  SwitchInv'
  BY <1>8
     DEF SwitchInv, SwitchTrue, Finished, Overtaken, RowInv, LocalPCs, Debug, NoDebug,
         Forever, Reads, StepDone, Returns, KeepsWorld, command, progress, driver,
         library, viewer, LocalApi
<1>9. ASSUME NEW ok \in BOOLEAN, CallsApi(ok)
     PROVE  SwitchInv'
  BY <1>9
     DEF SwitchInv, SwitchTrue, Finished, Overtaken, RowInv, LocalPCs, Debug, NoDebug,
         Forever, CallsApi, StepDone, Returns, driver, command, library, viewer,
         LocalApi
<1>10. ASSUME NEW ok \in BOOLEAN, GetsFile(ok) \/ SetsFile(ok) \/
            CreatesFile(ok)
     PROVE  SwitchInv'
  BY <1>10
     DEF SwitchInv, SwitchTrue, Finished, Overtaken, RowInv, LocalPCs, Debug, NoDebug,
         Forever, GetsFile, SetsFile, CreatesFile, Goes, Returns, KeepsLocal, command,
         driver, library, viewer
<1>11. ASSUME NEW ok \in BOOLEAN, GetsLevel(ok) \/ SetsLevel(ok)
     PROVE  SwitchInv'
  BY <1>11
     DEF SwitchInv, SwitchTrue, Finished, Overtaken, RowInv, LocalPCs, Debug, NoDebug,
         Forever, GetsLevel, SetsLevel, Goes, Returns, KeepsLocal, command, driver,
         library, viewer, Wanted
<1>12. ASSUME NEW ok \in BOOLEAN, NEW started \in BOOLEAN, NEW forbidden \in
            BOOLEAN, GetsEnabled(ok, started, forbidden) \/ SetsEnabled(ok)
     PROVE  SwitchInv'
  BY <1>12
     DEF SwitchInv, SwitchTrue, Finished, Overtaken, RowInv, LocalPCs, Debug, NoDebug,
         Forever, GetsEnabled, SetsEnabled, Goes, Returns, KeepsLocal, command, driver,
         library, viewer, Started, LevelType
<1>13. ASSUME ExecuteMonitorDriverDebug
     PROVE  SwitchInv'
  BY <1>13, NoRowIsNone
     DEF SwitchInv, SwitchTrue, Finished, Overtaken, RowInv, LocalPCs, Debug, NoDebug,
         Forever, ExecuteMonitorDriverDebug, Uncommanded, Goes, KeepsViewer, command,
         library, LocalApi
<1>14. ASSUME NEW ok \in BOOLEAN, ViewerSetsEvents(ok) \/
            ViewerGetsLevel(ok) \/ ViewerRaisesLevel(ok) \/ ViewerStops \/
            ViewerRestoresLevel(ok)
     PROVE  SwitchInv'
  <2>1. CASE ViewerSetsEvents(ok)
    BY <2>1, NoRowIsNone
       DEF SwitchInv, SwitchTrue, Finished, Overtaken, RowInv, LocalPCs, Debug, NoDebug,
           Forever, ViewerPCs, LocalApi, ViewerSetsEvents, Goes, Returns, KeepsViewer,
           viewer, command, library
  <2>2. CASE ViewerGetsLevel(ok)
    BY <2>2, NoRowIsNone
       DEF SwitchInv, SwitchTrue, Finished, Overtaken, RowInv, LocalPCs, Debug, NoDebug,
           Forever, ViewerPCs, LocalApi, ViewerGetsLevel, Goes, Returns, KeepsViewer,
           viewer, command, library
  <2>3. CASE ViewerRaisesLevel(ok)
    BY <2>3, NoRowIsNone
       DEF SwitchInv, SwitchTrue, Finished, Overtaken, RowInv, LocalPCs, Debug, NoDebug,
           Forever, ViewerPCs, LocalApi, ViewerRaisesLevel, Goes, Returns, KeepsViewer,
           viewer, command, library
  <2>4. CASE ViewerStops
    BY <2>4, NoRowIsNone
       DEF SwitchInv, SwitchTrue, Finished, Overtaken, RowInv, LocalPCs, Debug, NoDebug,
           Forever, ViewerPCs, LocalApi, ViewerStops, Goes, Returns, KeepsViewer,
           viewer, command, library
  <2>5. CASE ViewerRestoresLevel(ok)
    BY <2>5, NoRowIsNone
       DEF SwitchInv, SwitchTrue, Finished, Overtaken, RowInv, LocalPCs, Debug, NoDebug,
           Forever, ViewerPCs, LocalApi, ViewerRestoresLevel, Goes, Returns,
           KeepsViewer, viewer, command, library
  <2>. QED  BY <1>14, <2>1, <2>2, <2>3, <2>4, <2>5
<1>15. ASSUME NEW ok \in BOOLEAN, NEW freed \in BOOLEAN, Interrupted(ok,
            freed)
     PROVE  SwitchInv'
  BY <1>15
     DEF SwitchInv, SwitchTrue, Finished, Overtaken, RowInv, LocalPCs, Debug, NoDebug,
         Forever, Interrupted, Gone, viewer
<1>16. ASSUME NEW ok \in BOOLEAN, Destroys(ok) \/ Exits
     PROVE  SwitchInv'
  BY <1>16
     DEF SwitchInv, SwitchTrue, Finished, Overtaken, RowInv, LocalPCs, Debug, NoDebug,
         Forever, Destroys, Exits, Gone, driver, command, progress, viewer, library
<1>17. ASSUME Killed
     PROVE  SwitchInv'
  BY <1>17
     DEF SwitchInv, SwitchTrue, Finished, Overtaken, RowInv, LocalPCs, Debug, NoDebug,
         Forever, Killed, Gone, driver
<1>18. ASSUME NEW l \in OtherLevels, OtherSetsLevel(l)
     PROVE  SwitchInv'
  BY <1>18
     DEF SwitchInv, SwitchTrue, Finished, Overtaken, RowInv, LocalPCs, Debug, NoDebug,
         Forever, OtherSetsLevel, command, progress, library, viewer, HasRead
<1>19. ASSUME UNCHANGED vars
     PROVE  SwitchInv'
  BY <1>19
     DEF SwitchInv, SwitchTrue, Finished, Overtaken, RowInv, LocalPCs, Debug, NoDebug,
         Forever, vars, driver, command, progress, viewer, library
<1>. QED
  BY <1>1, <1>2, <1>3, <1>4, <1>5, <1>6, <1>7, <1>8, <1>9, <1>10, <1>11, <1>12,
       <1>13, <1>14, <1>15, <1>16, <1>17, <1>18, <1>19
     DEF Next, Runs, User, ReadsArg, ReadsLine

\* A step of a handler leaves it on its way, or returns the failure.
LEMMA StepDoneFailure ==
    ASSUME CountType, RowInv, FailureInv, pc = "running", row' = row,
           NEW ok \in BOOLEAN, StepDone(HandlerOf(row), ok)
    PROVE  FailureInv'
<1>. DEFINE h == HandlerOf(row)
<1>1. /\ row \in HandledRows /\ at \in Nat /\ at < StepsOf(h) /\ StepsOf(h) \in Nat
      /\ row.handler \notin HidesFailures => h.counted = StepsOf(h)
  BY RowCounts DEF CountType, RowInv, FailureInv
<1>2. result = "none"
  BY DEF FailureInv
<1>. HIDE DEF h
<1>3. CASE ok /\ at + 1 < StepsOf(h)
  <2>1. pc' = "running" /\ result' = "none" /\ failed' = FALSE /\ at' = at + 1
    BY <1>2, <1>3 DEF StepDone, h
  <2>2. at' < StepsOf(HandlerOf(row'))
    BY <1>3, <2>1 DEF h
  <2>. QED  BY <2>1, <2>2 DEF FailureInv, FailureReported
<1>4. CASE ok /\ ~(at + 1 < StepsOf(h))
  <2>1. pc' \in {"destroy", "menu"} /\ failed' = FALSE
    BY <1>4 DEF StepDone, Returns, h
  <2>. QED  BY <2>1 DEF FailureInv, FailureReported, LocalPCs
<1>5. CASE ~ok
  <2>1. pc' \in {"destroy", "menu"} /\ result' = ResultOf(h, at + 1, FALSE)
    BY <1>5 DEF StepDone, Returns, h
  <2>2. row.handler \notin HidesFailures => result' = "RMH_FAILURE"
    BY <1>1, <2>1 DEF ResultOf
  <2>. QED  BY <2>1, <2>2 DEF FailureInv, FailureReported, LocalPCs, HidesFailures
<1>. QED  BY <1>3, <1>4, <1>5

\* Every step keeps what is known of the steps of a handler.
LEMMA FailureStep == TypeOK /\ RowInv /\ FailureInv /\ [Next]_vars => FailureInv'
<1>. SUFFICES ASSUME ProcessType, CountType, RowInv, FailureInv, [Next]_vars PROVE FailureInv'
  BY TypeParts
<1>1. ASSUME NEW word \in Words \cup {NoWord}, NEW options \in OptionSets,
            Start(word, options)
     PROVE  FailureInv'
  BY <1>1
     DEF FailureInv, FailureReported, RowInv, LocalPCs, HidesFailures, Start, driver
<1>2. ASSUME NEW ok \in BOOLEAN, Initialize(ok) \/ GetAllAPIs(ok)
     PROVE  FailureInv'
  BY <1>2
     DEF FailureInv, FailureReported, RowInv, LocalPCs, HidesFailures, Initialize,
         GetAllAPIs, driver, command, library, viewer
<1>3. ASSUME NEW hit \in BOOLEAN, ExecuteSearch(hit)
     PROVE  FailureInv'
  BY <1>3, NoRowIsNone
     DEF FailureInv, FailureReported, RowInv, LocalPCs, HidesFailures, ExecuteSearch,
         Commanded, Returns, KeepsWorld, command, progress, driver, library, viewer
<1>4. ASSUME ExecuteNothing \/ PrintsOnly \/ ExecuteTagList
     PROVE  FailureInv'
  BY <1>4, NoRowIsNone
     DEF FailureInv, FailureReported, RowInv, LocalPCs, HidesFailures, ExecuteNothing,
         PrintsOnly, ExecuteTagList, Commanded, Uncommanded, Returns, KeepsWorld,
         command, progress, driver, library, viewer
<1>5. ASSUME ExecuteCommand
     PROVE  FailureInv'
  BY <1>5, FirstSteps, FirstStepPC, RowCounts, RowsFound
     DEF FailureInv, FailureReported, RowInv, LocalPCs, HidesFailures, ExecuteCommand,
         Commanded, RunsRow, KeepsWorld, command, progress, driver, library, viewer,
         ProcessType
<1>6. ASSUME NEW m \in {"all", "unimplemented", "local", "tag"}, MenuLeft \/
            MenuOpened(m) \/ MenuOutOfRange
     PROVE  FailureInv'
  BY <1>6, NoRowIsNone
     DEF FailureInv, FailureReported, RowInv, LocalPCs, HidesFailures, MenuLeft,
         MenuOpened, MenuOutOfRange, Choice, KeepsWorld, command, progress, driver,
         library, viewer
<1>7. ASSUME NEW word \in Words, MenuPicked(word)
     PROVE  FailureInv'
  BY <1>7, FirstStepPC, FirstSteps, NoRowIsNone, RowCounts, RowsFound
     DEF FailureInv, FailureReported, RowInv, LocalPCs, HidesFailures, MenuPicked,
         Choice, RunsRow, KeepsWorld, command, progress, driver, library, viewer
<1>8. ASSUME NEW input \in Inputs, pc = "running" /\ Reads(HandlerOf(row),
            input)
     PROVE  FailureInv'
  <2>1. \E ok \in BOOLEAN : StepDone(HandlerOf(row), ok)
    BY <1>8 DEF Reads, Accepts
  <2>2. row' = row
    BY <1>8 DEF Reads, command
  <2>. QED  BY <1>8, <2>1, <2>2, StepDoneFailure
<1>9. ASSUME NEW ok \in BOOLEAN, CallsApi(ok)
     PROVE  FailureInv'
  <2>1. pc = "running" /\ StepDone(HandlerOf(row), ok) /\ row' = row
    BY <1>9 DEF CallsApi, command
  <2>. QED  BY <2>1, StepDoneFailure
<1>10. ASSUME NEW ok \in BOOLEAN, GetsFile(ok) \/ SetsFile(ok) \/
            CreatesFile(ok)
     PROVE  FailureInv'
  BY <1>10
     DEF FailureInv, FailureReported, RowInv, LocalPCs, HidesFailures, GetsFile,
         SetsFile, CreatesFile, Goes, Returns, KeepsLocal, command, driver, library,
         viewer
<1>11. ASSUME NEW ok \in BOOLEAN, GetsLevel(ok) \/ SetsLevel(ok)
     PROVE  FailureInv'
  BY <1>11
     DEF FailureInv, FailureReported, RowInv, LocalPCs, HidesFailures, GetsLevel,
         SetsLevel, Goes, Returns, KeepsLocal, command, driver, library, viewer
<1>12. ASSUME NEW ok \in BOOLEAN, NEW started \in BOOLEAN, NEW forbidden \in
            BOOLEAN, GetsEnabled(ok, started, forbidden) \/ SetsEnabled(ok)
     PROVE  FailureInv'
  BY <1>12
     DEF FailureInv, FailureReported, RowInv, LocalPCs, HidesFailures, GetsEnabled,
         SetsEnabled, Goes, Returns, KeepsLocal, command, driver, library, viewer
<1>13. ASSUME ExecuteMonitorDriverDebug
     PROVE  FailureInv'
  BY <1>13, NoRowIsNone
     DEF FailureInv, FailureReported, RowInv, LocalPCs, HidesFailures,
         ExecuteMonitorDriverDebug, Uncommanded, Goes, KeepsViewer, command, library
<1>14. ASSUME NEW ok \in BOOLEAN, ViewerSetsEvents(ok) \/
            ViewerGetsLevel(ok) \/ ViewerRaisesLevel(ok) \/ ViewerStops \/
            ViewerRestoresLevel(ok)
     PROVE  FailureInv'
  <2>1. CASE ViewerSetsEvents(ok)
    BY <2>1, NoRowIsNone
       DEF FailureInv, FailureReported, RowInv, LocalPCs, HidesFailures, ViewerPCs,
           ViewerSetsEvents, Goes, Returns, KeepsViewer, viewer, command, library
  <2>2. CASE ViewerGetsLevel(ok)
    BY <2>2, NoRowIsNone
       DEF FailureInv, FailureReported, RowInv, LocalPCs, HidesFailures, ViewerPCs,
           ViewerGetsLevel, Goes, Returns, KeepsViewer, viewer, command, library
  <2>3. CASE ViewerRaisesLevel(ok)
    BY <2>3, NoRowIsNone
       DEF FailureInv, FailureReported, RowInv, LocalPCs, HidesFailures, ViewerPCs,
           ViewerRaisesLevel, Goes, Returns, KeepsViewer, viewer, command, library
  <2>4. CASE ViewerStops
    BY <2>4, NoRowIsNone
       DEF FailureInv, FailureReported, RowInv, LocalPCs, HidesFailures, ViewerPCs,
           ViewerStops, Goes, Returns, KeepsViewer, viewer, command, library
  <2>5. CASE ViewerRestoresLevel(ok)
    BY <2>5, NoRowIsNone
       DEF FailureInv, FailureReported, RowInv, LocalPCs, HidesFailures, ViewerPCs,
           ViewerRestoresLevel, Goes, Returns, KeepsViewer, viewer, command, library
  <2>. QED  BY <1>14, <2>1, <2>2, <2>3, <2>4, <2>5
<1>15. ASSUME NEW ok \in BOOLEAN, NEW freed \in BOOLEAN, Interrupted(ok,
            freed)
     PROVE  FailureInv'
  BY <1>15
     DEF FailureInv, FailureReported, RowInv, LocalPCs, HidesFailures, Interrupted,
         Gone, viewer
<1>16. ASSUME NEW ok \in BOOLEAN, Destroys(ok) \/ Exits
     PROVE  FailureInv'
  BY <1>16
     DEF FailureInv, FailureReported, RowInv, LocalPCs, HidesFailures, Destroys, Exits,
         Gone, driver, command, progress, viewer, library
<1>17. ASSUME Killed
     PROVE  FailureInv'
  BY <1>17
     DEF FailureInv, FailureReported, RowInv, LocalPCs, HidesFailures, Killed, Gone,
         driver
<1>18. ASSUME NEW l \in OtherLevels, OtherSetsLevel(l)
     PROVE  FailureInv'
  BY <1>18
     DEF FailureInv, FailureReported, RowInv, LocalPCs, HidesFailures, OtherSetsLevel,
         command, progress, library, viewer
<1>19. ASSUME UNCHANGED vars
     PROVE  FailureInv'
  BY <1>19
     DEF FailureInv, FailureReported, RowInv, LocalPCs, HidesFailures, vars, driver,
         command, progress, viewer, library
<1>. QED
  BY <1>1, <1>2, <1>3, <1>4, <1>5, <1>6, <1>7, <1>8, <1>9, <1>10, <1>11, <1>12,
       <1>13, <1>14, <1>15, <1>16, <1>17, <1>18, <1>19
     DEF Next, Runs, User, ReadsArg, ReadsLine

-----------------------------------------------------------------------------
(* How far a command has come.                                             *)

\* What is left to do at each place of the process, in calls.
CallsLeft ==
    [ off |-> 0, return |-> 1, destroy |-> 2, menu |-> 3, running |-> 3,
      setEnabled |-> 4, getEnabled |-> 5,
      setLevel |-> 4, getLevel |-> 5, dropFile |-> 6, takeFile |-> 6, createFile |-> 7,
      getFile |-> 8,
      restore |-> 4, watch |-> 5, raise |-> 6, viewLevel |-> 7, viewEvents |-> 8,
      dispatch |-> 9, lists |-> 10, init |-> 11 ]
StepsLeft == CallsLeft[pc] + (IF pc = "running" THEN StepsOf(HandlerOf(row)) - at ELSE 0)

(***************************************************************************)
(* A command runs out: whatever its calls answer, and whether a step is    *)
(* taken by the program, the user at its prompt or a signal, every step    *)
(* but another program's brings rmh nearer to its end or to the menu the   *)
(* command was picked from.  No command takes more than five steps.        *)
(***************************************************************************)
CommandRunsOut ==
    [][pc \notin {"off", "menu"} /\ others' = others => StepsLeft' < StepsLeft]_vars

\* The numbers of the places.
LEMMA PlaceNumbers ==
    /\ CallsLeft["off"] = 0 /\ CallsLeft["return"] = 1 /\ CallsLeft["destroy"] = 2
    /\ CallsLeft["menu"] = 3 /\ CallsLeft["running"] = 3
    /\ CallsLeft["setEnabled"] = 4 /\ CallsLeft["getEnabled"] = 5
    /\ CallsLeft["setLevel"] = 4 /\ CallsLeft["getLevel"] = 5 /\ CallsLeft["dropFile"] = 6
    /\ CallsLeft["takeFile"] = 6 /\ CallsLeft["createFile"] = 7 /\ CallsLeft["getFile"] = 8
    /\ CallsLeft["restore"] = 4 /\ CallsLeft["watch"] = 5 /\ CallsLeft["raise"] = 6
    /\ CallsLeft["viewLevel"] = 7 /\ CallsLeft["viewEvents"] = 8
    /\ CallsLeft["dispatch"] = 9 /\ CallsLeft["lists"] = 10 /\ CallsLeft["init"] = 11
  BY DEF CallsLeft

\* What is left where no handler runs, and where one begins.
LEMMA LeftElsewhere ==
    /\ pc \in PCs /\ pc # "running" => StepsLeft = CallsLeft[pc]
    /\ pc' \in PCs /\ pc' # "running" => StepsLeft' = CallsLeft[pc']
<1>1. \A p \in PCs : CallsLeft[p] \in Nat
  BY PlaceNumbers DEF PCs, LocalPCs, ViewerPCs
<1>. QED  BY <1>1 DEF StepsLeft

LEMMA LeftInHandler ==
    /\ TypeOK /\ RowInv /\ FailureInv /\ pc = "running" =>
          /\ StepsLeft = 3 + (StepsOf(HandlerOf(row)) - at)
          /\ StepsLeft \in 4 .. 8
    /\ pc' = "running" => StepsLeft' = 3 + (StepsOf(HandlerOf(row')) - at')
<1>1. ASSUME TypeOK, RowInv, FailureInv, pc = "running"
      PROVE  StepsOf(HandlerOf(row)) - at \in 1 .. 5
  <2>1. row \in HandledRows /\ at \in Nat /\ at < StepsOf(HandlerOf(row))
    BY <1>1 DEF TypeOK, RowInv, FailureInv
  <2>. QED  BY <2>1, RowCounts
<1>. QED  BY <1>1, PlaceNumbers DEF StepsLeft

\* Every step of a command but another program's leaves less to do.
LEMMA StepDoneLeaves ==
    ASSUME Inv, Inv', pc = "running", row' = row, NEW ok, StepDone(HandlerOf(row), ok)
    PROVE  StepsLeft' < StepsLeft
<1>. DEFINE n == StepsOf(HandlerOf(row))
<1>1. TypeOK /\ RowInv /\ FailureInv /\ pc' \in PCs /\ at \in Nat /\ row \in HandledRows
  BY DEF Inv, TypeOK, RowInv
<1>2. StepsLeft = 3 + (n - at) /\ StepsLeft \in 4 .. 8
  BY <1>1, LeftInHandler
<1>3. n \in Nat
  BY <1>1, RowCounts
<1>4. CASE pc' = "running"
  <2>1. StepsLeft' = 3 + (n - at')
    BY <1>4, LeftInHandler
  <2>2. at' = at + 1
    BY DEF StepDone
  <2>. QED  BY <1>1, <1>2, <1>3, <2>1, <2>2
<1>5. CASE pc' # "running"
  <2>1. pc' \in {"menu", "destroy"}
    BY <1>5 DEF StepDone, Returns
  <2>2. StepsLeft' \in {2, 3}
    BY <1>1, <2>1, LeftElsewhere, PlaceNumbers
  <2>. QED  BY <1>2, <2>2
<1>. QED  BY <1>4, <1>5

LEMMA RunsOut ==
    ASSUME Inv, Inv', [Next]_vars, vars' # vars, pc \notin {"off", "menu"}, others' = others
    PROVE  StepsLeft' < StepsLeft
<1>1. TypeOK /\ pc \in PCs /\ pc' \in PCs
  BY DEF Inv, TypeOK
<1>2. others \in Nat
  BY AppAssumption DEF Inv, TypeOK
<1>. DEFINE Goal == StepsLeft' < StepsLeft
<1>3. ASSUME pc # "running", pc' # "running", CallsLeft[pc'] < CallsLeft[pc]
      PROVE  Goal
  BY <1>1, <1>3, LeftElsewhere
<1>4. ASSUME NEW word \in Words \cup {NoWord}, NEW options \in OptionSets, Start(word, options)
      PROVE  Goal
  BY <1>4 DEF Start
<1>5. ASSUME NEW ok \in BOOLEAN, Initialize(ok) \/ GetAllAPIs(ok)
      PROVE  Goal
  BY <1>3, <1>5, PlaceNumbers DEF Initialize, GetAllAPIs
<1>6. ASSUME NEW hit \in BOOLEAN, ExecuteSearch(hit)
      PROVE  Goal
  BY <1>3, <1>6, PlaceNumbers DEF ExecuteSearch, Commanded, Returns
<1>7. ASSUME ExecuteNothing \/ PrintsOnly \/ ExecuteTagList
      PROVE  Goal
  BY <1>3, <1>7, PlaceNumbers
     DEF ExecuteNothing, PrintsOnly, ExecuteTagList, Commanded, Uncommanded, Returns
<1>8. ASSUME ExecuteCommand
      PROVE  Goal
  <2>1. pc = "dispatch" /\ at' = 0 /\ pc' \in {"getFile", "getEnabled", "running"}
    BY <1>8, FirstStepPC DEF ExecuteCommand, Commanded, RunsRow
  <2>2. row' \in HandledRows
    BY <1>8, <1>1, RowsFound DEF ExecuteCommand, Commanded, RunsRow, TypeOK
  <2>3. StepsLeft = 9
    BY <1>1, <2>1, LeftElsewhere, PlaceNumbers
  <2>4. CASE pc' = "running"
    <3>1. StepsOf(HandlerOf(row')) \in Nat /\ StepsOf(HandlerOf(row')) <= 5
      BY <2>2, RowCounts
    <3>2. StepsLeft' = 3 + (StepsOf(HandlerOf(row')) - 0)
      BY <2>1, <2>4, LeftInHandler
    <3>. QED  BY <2>3, <3>1, <3>2
  <2>5. CASE pc' # "running"
    BY <1>3, <2>1, <2>5, PlaceNumbers
  <2>. QED  BY <2>4, <2>5
<1>9. ASSUME NEW m \in {"all", "unimplemented", "local", "tag"},
             MenuLeft \/ MenuOpened(m) \/ MenuOutOfRange
      PROVE  Goal
  BY <1>9 DEF MenuLeft, MenuOpened, MenuOutOfRange, Choice
<1>10. ASSUME NEW word \in Words, MenuPicked(word)
       PROVE  Goal
  BY <1>10 DEF MenuPicked, Choice
<1>11. ASSUME NEW input \in Inputs, pc = "running", Reads(HandlerOf(row), input)
       PROVE  Goal
  <2>1. row' = row /\ \E ok : StepDone(HandlerOf(row), ok)
    BY <1>11 DEF Reads, command
  <2>. QED  BY <1>11, <2>1, StepDoneLeaves
<1>12. ASSUME NEW ok \in BOOLEAN, CallsApi(ok)
       PROVE  Goal
  <2>1. pc = "running" /\ row' = row /\ StepDone(HandlerOf(row), ok)
    BY <1>12 DEF CallsApi, command
  <2>. QED  BY <2>1, StepDoneLeaves
<1>13. ASSUME NEW ok \in BOOLEAN, GetsFile(ok) \/ SetsFile(ok) \/ CreatesFile(ok)
       PROVE  Goal
  BY <1>3, <1>13, PlaceNumbers DEF GetsFile, SetsFile, CreatesFile, Goes, Returns
<1>14. ASSUME NEW ok \in BOOLEAN, GetsLevel(ok) \/ SetsLevel(ok)
       PROVE  Goal
  BY <1>3, <1>14, PlaceNumbers DEF GetsLevel, SetsLevel, Goes, Returns
<1>15. ASSUME NEW ok \in BOOLEAN, NEW started \in BOOLEAN, NEW forbidden \in BOOLEAN,
              GetsEnabled(ok, started, forbidden) \/ SetsEnabled(ok)
       PROVE  Goal
  BY <1>3, <1>15, PlaceNumbers DEF GetsEnabled, SetsEnabled, Goes, Returns
<1>16. ASSUME ExecuteMonitorDriverDebug
       PROVE  Goal
  BY <1>3, <1>16, PlaceNumbers DEF ExecuteMonitorDriverDebug, Uncommanded, Goes
<1>17. ASSUME NEW ok \in BOOLEAN,
              \/ ViewerSetsEvents(ok) \/ ViewerGetsLevel(ok) \/ ViewerRaisesLevel(ok)
              \/ ViewerStops \/ ViewerRestoresLevel(ok)
       PROVE  Goal
  BY <1>3, <1>17, PlaceNumbers
     DEF ViewerSetsEvents, ViewerGetsLevel, ViewerRaisesLevel, ViewerStops,
         ViewerRestoresLevel, Goes, Returns
<1>18. ASSUME NEW ok \in BOOLEAN, Destroys(ok)
       PROVE  Goal
  BY <1>3, <1>18, PlaceNumbers DEF Destroys
<1>19. ASSUME pc' = "off"
       PROVE  Goal
  <2>1. CASE pc = "running"
    <3>1. StepsLeft \in 4 .. 8
      BY <2>1, LeftInHandler DEF Inv
    <3>. QED  BY <1>1, <1>19, <3>1, LeftElsewhere, PlaceNumbers
  <2>2. CASE pc # "running"
    <3>1. CallsLeft[pc] \in Nat \ {0}
      BY <1>1, <2>2, PlaceNumbers DEF PCs, LocalPCs, ViewerPCs
    <3>. QED  BY <1>3, <1>19, <2>2, <3>1, PlaceNumbers
  <2>. QED  BY <2>1, <2>2
<1>20. ASSUME NEW ok \in BOOLEAN, NEW freed \in BOOLEAN,
              Interrupted(ok, freed) \/ Exits \/ Killed
       PROVE  Goal
  BY <1>19, <1>20 DEF Interrupted, Exits, Killed, Gone
<1>21. ASSUME NEW l \in OtherLevels, OtherSetsLevel(l)
       PROVE  Goal
  BY <1>2, <1>21 DEF OtherSetsLevel
<1>. QED
  BY <1>4, <1>5, <1>6, <1>7, <1>8, <1>9, <1>10, <1>11, <1>12, <1>13, <1>14, <1>15, <1>16,
     <1>17, <1>18, <1>20, <1>21
     DEF Next, Runs, User, ReadsArg, ReadsLine

-----------------------------------------------------------------------------
(* The theorems.                                                           *)

\* The invariant holds at the start.
LEMMA InitInv == Init => Inv
<1>. SUFFICES ASSUME Init PROVE Inv
  OBVIOUS
<1>1. level \subseteq Levels
  BY OtherValues DEF Init
<1>2. LevelType /\ ProcessType
  BY <1>1, LevelValues DEF Init, LevelType, ProcessType, PCs, Menus, Results
<1>3. CountType /\ FlagType /\ MishapType
  <2>1. CountType
    BY ZeroOthers DEF Init, CountType
  <2>2. FlagType
    BY DEF Init, FlagType
  <2>3. MishapType
    BY DEF Init, MishapType
  <2>. QED  BY <2>1, <2>2, <2>3
<1>4. HandleInv /\ RowInv /\ ViewerInv
  BY DEF Init, HandleInv, HandleUsable, RowInv, ViewerInv, ViewerPCs
<1>5. SwitchInv
  BY DEF Init, SwitchInv, SwitchTrue, Finished, LocalPCs
<1>6. FailureInv
  BY DEF Init, FailureInv, FailureReported, LocalPCs
<1>. QED  BY <1>2, <1>3, <1>4, <1>5, <1>6, TypeParts DEF Inv

\* The invariant always holds.
THEOREM InvHolds == Spec => []Inv
<1>1. Inv /\ [Next]_vars => Inv'
  BY TypeStep, HandleStep, RowStep, ViewerStep, SwitchStep, FailureStep DEF Inv
<1>. QED  BY <1>1, InitInv, PTL DEF Spec

\* For any words, options and levels every variable keeps its type.
THEOREM TypeCorrect == Spec => []TypeOK
<1>1. Inv => TypeOK
  BY DEF Inv
<1>. QED  BY <1>1, InvHolds, PTL

\* main and the handlers call the library with the handle they were given,
\* and RMH_Destroy a second time only from the handler of SIGINT.
THEOREM HandleUsableHolds == Spec => []HandleUsable
<1>1. Inv => HandleUsable
  BY DEF Inv, HandleInv
<1>. QED  BY <1>1, InvHolds, PTL

\* However the viewer ends, other than by being killed, the driver has its log
\* level again, but for the four exceptions the property names.
THEOREM ViewerRestoresHolds == Spec => []ViewerRestores
<1>1. Inv => ViewerRestores
  <2>. SUFFICES ASSUME Inv, pc = "off", hooked, "overtaken" \notin mishaps PROVE ViewerRestores
    BY DEF ViewerRestores
  <2>. QED  BY DEF Inv, ViewerInv, Overtaken
<1>. QED  BY <1>1, InvHolds, PTL

\* A local command that succeeds has switched the driver as asked, whichever
\* of its calls failed and whatever other programs did meanwhile.
THEOREM SwitchTrueHolds == Spec => []SwitchTrue
<1>1. Inv => SwitchTrue
  BY DEF Inv, SwitchInv
<1>. QED  BY <1>1, InvHolds, PTL

\* Every row of the table but those of three handlers returns the failure of
\* any of its steps.
THEOREM FailureReportedHolds == Spec => []FailureReported
<1>1. Inv => FailureReported
  BY DEF Inv, FailureInv
<1>. QED  BY <1>1, InvHolds, PTL

\* A command of rmh runs out: each step of the program, of its user's prompt
\* and of its signal handler leaves fewer steps, for any command line, SoC
\* library and any answers of the calls.
THEOREM CommandRunsOutHolds == Spec => CommandRunsOut
<1>1. Inv /\ Inv' /\ [Next]_vars
        => [pc \notin {"off", "menu"} /\ others' = others => StepsLeft' < StepsLeft]_vars
  BY RunsOut
<1>. QED  BY <1>1, InvHolds, PTL DEF Spec, CommandRunsOut

-----------------------------------------------------------------------------
(***************************************************************************)
(* The answers and the texts.  They are the values of loops over the       *)
(* places of a list, which a recursive function describes; each proof says *)
(* what the loop holds after each place.                                   *)
(***************************************************************************)
\* Induction along the places of a list.
LEMMA AlongPlaces ==
    ASSUME NEW M \in Nat, NEW S, 0 \in S, \A n \in 0 .. M - 1 : n \in S => n + 1 \in S
    PROVE  0 .. M \subseteq S
<1>. DEFINE T == (0 .. M) \ S
            Before == {p \in Nat \X Nat : p[1] < p[2]}
<1>. SUFFICES ASSUME T # {} PROVE FALSE
  OBVIOUS
<1>1. IsWellFoundedOn(Before, Nat)
  BY NatLessThanWellFounded DEF OpToRel
<1>2. T \subseteq Nat
  OBVIOUS
<1>3. PICK x \in T : \A y \in T : ~ (<<y, x>> \in Before)
  <2>. HIDE DEF T, Before
  <2>. QED  BY <1>1, <1>2, WFMin
<1>4. \A y \in T : ~(y < x)
  BY <1>2, <1>3
<1>5. x # 0 /\ x - 1 \in 0 .. M - 1 /\ x - 1 \notin T
  BY <1>4
<1>. QED  BY <1>5

\* A function that a loop over the places of a list computes, the value after
\* each place from the value before it.
LoopOf(f, M, D, start, step) ==
    /\ f \in [0 .. M -> D]
    /\ \A n \in 0 .. M : f[n] = IF n = 0 THEN start ELSE step[n][f[n - 1]]

\* There is one.
LEMMA LoopExists ==
    ASSUME NEW M \in Nat, NEW D, NEW start \in D, NEW step \in [1 .. M -> [D -> D]]
    PROVE  \E f : LoopOf(f, M, D, start, step)
<1>. DEFINE S == {k \in 0 .. M : \E f : LoopOf(f, k, D, start, step)}
<1>1. 0 \in S
  <2>1. LoopOf([n \in 0 .. 0 |-> start], 0, D, start, step)
    BY DEF LoopOf
  <2>. QED  BY <2>1
<1>2. ASSUME NEW k \in 0 .. M - 1, k \in S
      PROVE  k + 1 \in S
  <2>1. PICK f : LoopOf(f, k, D, start, step)
    BY <1>2
  <2>. DEFINE g == [n \in 0 .. k + 1 |-> IF n = k + 1 THEN step[n][f[k]] ELSE f[n]]
  <2>2. f[k] \in D /\ k + 1 \in 1 .. M
    BY <2>1 DEF LoopOf
  <2>3. step[k + 1][f[k]] \in D
    BY <2>2
  <2>4. g \in [0 .. k + 1 -> D]
    BY <2>1, <2>3 DEF LoopOf
  <2>5. \A n \in 0 .. k + 1 : g[n] = IF n = 0 THEN start ELSE step[n][g[n - 1]]
    BY <2>1 DEF LoopOf
  <2>6. LoopOf(g, k + 1, D, start, step)
    BY <2>4, <2>5 DEF LoopOf
  <2>7. k + 1 \in 0 .. M
    OBVIOUS
  <2>. QED  BY <2>6, <2>7
<1>3. 0 .. M \subseteq S
  <2>. HIDE DEF S
  <2>. QED  BY <1>1, <1>2, AlongPlaces
<1>4. M \in 0 .. M
  OBVIOUS
<1>. QED  BY <1>3, <1>4

-----------------------------------------------------------------------------
(* The bandwidth APIs.                                                     *)

BestAnswer == [ret : {"RMH_SUCCESS", "RMH_FAILURE"}, response : Bandwidths]

\* What one place of the list does to the best answer so far.
Better(present, answers, largest, n, best) ==
    IF n - 1 \in present /\ answers[n - 1] # NoAnswer
       /\ IF largest THEN answers[n - 1] > best.response
                     ELSE answers[n - 1] < best.response
      THEN [ret |-> "RMH_SUCCESS", response |-> answers[n - 1]]
      ELSE best

\* The loop holds a best answer after each place.
GoesThroughAnswers(after, present, answers, start, largest) ==
    /\ after \in [0 .. RMH_MAX_MOCA_NODES -> BestAnswer]
    /\ after[0] = [ret |-> "RMH_FAILURE", response |-> start]
    /\ \A n \in 1 .. RMH_MAX_MOCA_NODES :
          after[n] = Better(present, answers, largest, n, after[n - 1])

\* So it is computed.
LEMMA BestAfterDefined ==
    ASSUME NEW present \in SUBSET NodeIds, NEW answers \in Answers,
           NEW start \in Bandwidths, NEW largest \in BOOLEAN
    PROVE  GoesThroughAnswers(BestAfter(present, answers, start, largest),
                              present, answers, start, largest)
<1>. DEFINE first == [ret |-> "RMH_FAILURE", response |-> start]
            step == [n \in 1 .. RMH_MAX_MOCA_NODES |->
                       [best \in BestAnswer |-> Better(present, answers, largest, n, best)]]
            after == BestAfter(present, answers, start, largest)
<1>1. first \in BestAnswer
  BY DEF BestAnswer
<1>2. \A n \in 1 .. RMH_MAX_MOCA_NODES, best \in BestAnswer :
         Better(present, answers, largest, n, best) \in BestAnswer
  BY GenericAssumption DEF Better, BestAnswer, Answers, NodeIds, Bandwidths
<1>3. step \in [1 .. RMH_MAX_MOCA_NODES -> [BestAnswer -> BestAnswer]]
  BY <1>2
<1>4. PICK f : LoopOf(f, RMH_MAX_MOCA_NODES, BestAnswer, first, step)
  <2>. HIDE DEF first, step
  <2>. QED  BY <1>1, <1>3, LoopExists, GenericAssumption
<1>5. f = [n \in 0 .. RMH_MAX_MOCA_NODES |->
             IF n = 0 THEN [ret |-> "RMH_FAILURE", response |-> start]
             ELSE Better(present, answers, largest, n, f[n - 1])]
  <2>1. ASSUME NEW n \in 0 .. RMH_MAX_MOCA_NODES
        PROVE  f[n] = IF n = 0 THEN first ELSE Better(present, answers, largest, n, f[n - 1])
    <3>. HIDE DEF first
    <3>1. CASE n = 0
      BY <1>4, <3>1 DEF LoopOf
    <3>2. CASE n # 0
      <4>1. n \in 1 .. RMH_MAX_MOCA_NODES /\ f[n - 1] \in BestAnswer
        BY <1>4, <3>2, GenericAssumption DEF LoopOf
      <4>2. f[n] = step[n][f[n - 1]]
        BY <1>4, <3>2 DEF LoopOf
      <4>. QED  BY <3>2, <4>1, <4>2
    <3>. QED  BY <3>1, <3>2
  <2>. QED  BY <1>4, <2>1 DEF LoopOf
<1>6. after = [n \in 0 .. RMH_MAX_MOCA_NODES |->
                 IF n = 0 THEN [ret |-> "RMH_FAILURE", response |-> start]
                 ELSE Better(present, answers, largest, n, after[n - 1])]
  BY <1>5, Zenon DEF BestAfter, Better
<1>. HIDE DEF after
<1>7. /\ DOMAIN after = 0 .. RMH_MAX_MOCA_NODES
      /\ after[0] = first
      /\ \A n \in 1 .. RMH_MAX_MOCA_NODES :
            after[n] = Better(present, answers, largest, n, after[n - 1])
  BY <1>6, GenericAssumption
<1>8. 0 .. RMH_MAX_MOCA_NODES \subseteq {n \in 0 .. RMH_MAX_MOCA_NODES : after[n] \in BestAnswer}
  <2>. DEFINE S == {n \in 0 .. RMH_MAX_MOCA_NODES : after[n] \in BestAnswer}
  <2>1. 0 \in S
    BY <1>1, <1>7, GenericAssumption
  <2>2. \A n \in 0 .. RMH_MAX_MOCA_NODES - 1 : n \in S => n + 1 \in S
    BY <1>2, <1>7, GenericAssumption
  <2>. HIDE DEF S
  <2>3. 0 .. RMH_MAX_MOCA_NODES \subseteq S
    BY <2>1, <2>2, AlongPlaces, GenericAssumption
  <2>. QED  BY <2>3 DEF S
<1>9. after \in [0 .. RMH_MAX_MOCA_NODES -> BestAnswer]
  BY <1>6, <1>8
<1>. QED  BY <1>7, <1>9 DEF after, GoesThroughAnswers

\* What the first n places answered.
AnsweredBefore(present, answers, n) ==
    {answers[m] : m \in {k \in present : k < n}} \ {NoAnswer}

\* The nodes before a place of the list: none before the first, one more or
\* none with each place, all of them in the end.
LEMMA NodesBefore ==
    ASSUME NEW present \in SUBSET NodeIds
    PROVE  /\ {k \in present : k < 0} = {}
           /\ {k \in present : k < RMH_MAX_MOCA_NODES} = present
           /\ \A n \in 0 .. RMH_MAX_MOCA_NODES - 1 :
                {k \in present : k < n + 1} =
                  {k \in present : k < n} \cup (IF n \in present THEN {n} ELSE {})
<1>1. \A k \in present : k \in Nat /\ k < RMH_MAX_MOCA_NODES
  BY GenericAssumption DEF NodeIds
<1>2. ASSUME NEW n \in 0 .. RMH_MAX_MOCA_NODES - 1
      PROVE  {k \in present : k < n + 1} =
               {k \in present : k < n} \cup (IF n \in present THEN {n} ELSE {})
  <2>1. \A k \in present : k < n + 1 <=> k < n \/ k = n
    BY <1>1
  <2>2. n < n + 1
    OBVIOUS
  <2>. QED  BY <2>1, <2>2
<1>3. {k \in present : k < 0} = {}
  BY <1>1
<1>. QED  BY <1>1, <1>2, <1>3

\* One place more.
LEMMA OneMoreAnswer ==
    ASSUME NEW present \in SUBSET NodeIds, NEW answers, NEW n \in 0 .. RMH_MAX_MOCA_NODES - 1
    PROVE  AnsweredBefore(present, answers, n + 1) =
             AnsweredBefore(present, answers, n)
               \cup (IF n \in present /\ answers[n] # NoAnswer THEN {answers[n]} ELSE {})
<1>1. {k \in present : k < n + 1} =
        {k \in present : k < n} \cup (IF n \in present THEN {n} ELSE {})
  BY NodesBefore
<1>. QED  BY <1>1 DEF AnsweredBefore

\* After each place the loop holds an answer that none so far beats, or there
\* was none but what it starts from, the value every other one beats.
LEMMA BestSoFar ==
    ASSUME NEW present \in SUBSET NodeIds, NEW answers \in Answers,
           NEW start \in Bandwidths, NEW largest \in BOOLEAN,
           start = IF largest THEN 0 ELSE TopBandwidth
    PROVE  LET best == BestBandwidth(present, answers, start, largest)
               got == Answered(present, answers)
           IN  IF best.ret = "RMH_SUCCESS"
                 THEN /\ best.response \in got
                      /\ \A a \in got : IF largest THEN a <= best.response
                                                  ELSE a >= best.response
                 ELSE got \subseteq {start}
<1>. DEFINE after == BestAfter(present, answers, start, largest)
            Got(n) == AnsweredBefore(present, answers, n)
            Beats(a, b) == IF largest THEN a > b ELSE a < b
            Best(n) ==
              IF after[n].ret = "RMH_SUCCESS"
                THEN after[n].response \in Got(n) /\ \A a \in Got(n) : ~ Beats(a, after[n].response)
                ELSE after[n].response = start /\ Got(n) \subseteq {start}
            S == {n \in 0 .. RMH_MAX_MOCA_NODES : Best(n)}
<1>1. /\ after \in [0 .. RMH_MAX_MOCA_NODES -> BestAnswer]
      /\ after[0] = [ret |-> "RMH_FAILURE", response |-> start]
      /\ \A n \in 1 .. RMH_MAX_MOCA_NODES :
            after[n] = Better(present, answers, largest, n, after[n - 1])
  <2>1. GoesThroughAnswers(after, present, answers, start, largest)
    BY BestAfterDefined
  <2>. QED  BY <2>1 DEF GoesThroughAnswers
<1>. HIDE DEF after
<1>2. Got(0) = {} /\ Got(RMH_MAX_MOCA_NODES) = Answered(present, answers)
  BY NodesBefore DEF AnsweredBefore, Answered
<1>3. Best(0)
  BY <1>1, <1>2
<1>4. ASSUME NEW n \in 0 .. RMH_MAX_MOCA_NODES - 1, Best(n)
      PROVE  Best(n + 1)
  <2>1. n + 1 \in 1 .. RMH_MAX_MOCA_NODES /\ (n + 1) - 1 = n /\ n \in 0 .. RMH_MAX_MOCA_NODES
    BY GenericAssumption
  <2>2. after[n + 1] = Better(present, answers, largest, n + 1, after[n])
    BY <1>1, <2>1
  <2>3. Got(n + 1) = Got(n) \cup (IF n \in present /\ answers[n] # NoAnswer
                                  THEN {answers[n]} ELSE {})
    BY OneMoreAnswer
  <2>4. after[n].response \in Bandwidths /\ Got(n) \subseteq Bandwidths
    BY <1>1, <2>1 DEF BestAnswer, AnsweredBefore, Answers
  <2>5. n \in present /\ answers[n] # NoAnswer => answers[n] \in Bandwidths
    BY DEF Answers
  <2>. HIDE DEF Got
  <2>6. CASE n \in present /\ answers[n] # NoAnswer
    <3>1. Got(n + 1) = Got(n) \cup {answers[n]}
      BY <2>3, <2>6
    <3>2. CASE Beats(answers[n], after[n].response)
      <4>1. after[n + 1] = [ret |-> "RMH_SUCCESS", response |-> answers[n]]
        BY <2>1, <2>2, <2>6, <3>2 DEF Better
      <4>. QED  BY <1>4, <2>4, <2>5, <2>6, <3>1, <3>2, <4>1 DEF Bandwidths
    <3>3. CASE ~ Beats(answers[n], after[n].response)
      <4>1. after[n + 1] = after[n]
        BY <2>1, <2>2, <2>6, <3>3 DEF Better
      <4>. QED  BY <1>4, <2>4, <2>5, <2>6, <3>1, <3>3, <4>1, GenericAssumption DEF Bandwidths
    <3>. QED  BY <3>2, <3>3
  <2>7. CASE ~(n \in present /\ answers[n] # NoAnswer)
    <3>1. Got(n + 1) = Got(n) /\ after[n + 1] = after[n]
      BY <2>1, <2>2, <2>3, <2>7 DEF Better
    <3>. QED  BY <1>4, <3>1
  <2>. QED  BY <2>6, <2>7
<1>5. Best(RMH_MAX_MOCA_NODES)
  <2>. HIDE DEF Best
  <2>1. 0 \in S /\ \A n \in 0 .. RMH_MAX_MOCA_NODES - 1 : n \in S => n + 1 \in S
    BY <1>3, <1>4, GenericAssumption
  <2>. HIDE DEF S
  <2>2. 0 .. RMH_MAX_MOCA_NODES \subseteq S
    BY <2>1, AlongPlaces, GenericAssumption
  <2>. QED  BY <2>2, GenericAssumption DEF S
<1>6. BestBandwidth(present, answers, start, largest) = after[RMH_MAX_MOCA_NODES]
  BY DEF BestBandwidth, after
<1>7. /\ after[RMH_MAX_MOCA_NODES].response \in Nat
      /\ \A a \in Answered(present, answers) : a \in Nat
  BY <1>1, GenericAssumption DEF BestAnswer, Bandwidths, Answered, Answers
<1>. QED  BY <1>2, <1>5, <1>6, <1>7

\* What a query leaves in the caller's variable is the driver's list, or a list.
LEMMA ListsAreLists ==
    ASSUME NEW query \in QueryResults, NEW nodes \in SUBSET NodeIds, NEW list \in Lists(query, nodes)
    PROVE  list \in SUBSET NodeIds /\ (query = "RMH_SUCCESS" => list = nodes)
BY DEF Lists, Holds

\* The bandwidth APIs are right for any list of nodes and any answers.
LEMMA BandwidthIsTrue == BandwidthTrue
<1>. SUFFICES ASSUME NEW query \in QueryResults, NEW nodes \in SUBSET NodeIds,
                     NEW answers \in Answers
              PROVE  LET got == Answered(IF query = "RMH_SUCCESS" THEN nodes ELSE NodeIds, answers)
                     IN
       /\ \A max \in RMH_PQoS_GetMaxEgressBandwidth(query, nodes, answers) :
            /\ max.ret = "RMH_SUCCESS" => ~Stops(query) /\ max.response \in got
            /\ query = "RMH_SUCCESS" => IF max.ret = "RMH_SUCCESS"
                                          THEN \A a \in got : a <= max.response
                                          ELSE got \subseteq {0}
       /\ \A min \in RMH_PQoS_GetMinEgressBandwidth(query, nodes, answers) :
            /\ min.ret = "RMH_SUCCESS" => ~Stops(query) /\ min.response \in got
            /\ query = "RMH_SUCCESS" => IF min.ret = "RMH_SUCCESS"
                                          THEN \A a \in got : a >= min.response
                                          ELSE got \subseteq {TopBandwidth}
  BY DEF BandwidthTrue
<1>. DEFINE got == Answered(IF query = "RMH_SUCCESS" THEN nodes ELSE NodeIds, answers)
<1>1. CASE Stops(query)
  <2>1. query # "RMH_SUCCESS"
    BY <1>1 DEF Stops
  <2>. QED  BY <1>1, <2>1 DEF RMH_PQoS_GetMaxEgressBandwidth, RMH_PQoS_GetMinEgressBandwidth
<1>2. CASE ~Stops(query)
  <2>1. 0 \in Bandwidths /\ TopBandwidth \in Bandwidths
    BY GenericAssumption DEF Bandwidths
  <2>2. ASSUME NEW list \in Lists(query, nodes)
        PROVE  /\ list \in SUBSET NodeIds
               /\ Answered(list, answers) \subseteq got
               /\ query = "RMH_SUCCESS" => Answered(list, answers) = got
    BY ListsAreLists DEF Answered
  <2>3. ASSUME NEW max \in RMH_PQoS_GetMaxEgressBandwidth(query, nodes, answers)
        PROVE  /\ max.ret = "RMH_SUCCESS" => max.response \in got
               /\ query = "RMH_SUCCESS" => IF max.ret = "RMH_SUCCESS"
                                             THEN \A a \in got : a <= max.response
                                             ELSE got \subseteq {0}
    <3>1. PICK list \in Lists(query, nodes) : max = BestBandwidth(list, answers, 0, TRUE)
      BY <1>2 DEF RMH_PQoS_GetMaxEgressBandwidth
    <3>2. IF max.ret = "RMH_SUCCESS"
            THEN /\ max.response \in Answered(list, answers)
                 /\ \A a \in Answered(list, answers) : a <= max.response
            ELSE Answered(list, answers) \subseteq {0}
      BY <2>1, <2>2, <3>1, BestSoFar
    <3>. HIDE DEF got
    <3>. QED  BY <2>2, <3>2
  <2>4. ASSUME NEW min \in RMH_PQoS_GetMinEgressBandwidth(query, nodes, answers)
        PROVE  /\ min.ret = "RMH_SUCCESS" => min.response \in got
               /\ query = "RMH_SUCCESS" => IF min.ret = "RMH_SUCCESS"
                                             THEN \A a \in got : a >= min.response
                                             ELSE got \subseteq {TopBandwidth}
    <3>1. PICK list \in Lists(query, nodes) :
             min = BestBandwidth(list, answers, TopBandwidth, FALSE)
      BY <1>2 DEF RMH_PQoS_GetMinEgressBandwidth
    <3>2. IF min.ret = "RMH_SUCCESS"
            THEN /\ min.response \in Answered(list, answers)
                 /\ \A a \in Answered(list, answers) : a >= min.response
            ELSE Answered(list, answers) \subseteq {TopBandwidth}
      BY <2>1, <2>2, <3>1, BestSoFar
    <3>. HIDE DEF got
    <3>. QED  BY <2>2, <3>2
  <2>. QED  BY <1>2, <2>3, <2>4
<1>. QED  BY <1>1, <1>2

-----------------------------------------------------------------------------
(* The associated ids.                                                     *)

\* The nodes of the list before a place.
NodesUpTo(present, n) == {k \in present : k < n}

\* Nodes are few.
LEMMA NodesFinite ==
    ASSUME NEW present \in SUBSET NodeIds
    PROVE  /\ IsFiniteSet(present)
           /\ Cardinality(present) \in 0 .. RMH_MAX_MOCA_NODES
<1>1. IsFiniteSet(NodeIds) /\ Cardinality(NodeIds) = RMH_MAX_MOCA_NODES
  BY FS_Interval, GenericAssumption DEF NodeIds
<1>2. IsFiniteSet(present) /\ Cardinality(present) <= Cardinality(NodeIds)
  BY <1>1, FS_Subset
<1>. QED  BY <1>1, <1>2, FS_CardinalityType, GenericAssumption

\* The counter has counted the nodes it has gone past.
LEMMA CounterCounts ==
    ASSUME NEW present \in SUBSET NodeIds, NEW k \in 0 .. RMH_MAX_MOCA_NODES
    PROVE  AssociatedCounter(present)[k] = Cardinality(NodesUpTo(present, k))
<1>. DEFINE M == RMH_MAX_MOCA_NODES
            step == [n \in 1 .. M |-> [c \in Nat |-> c + (IF n - 1 \in present THEN 1 ELSE 0)]]
            counter == AssociatedCounter(present)
<1>1. step \in [1 .. M -> [Nat -> Nat]]
  OBVIOUS
<1>2. PICK f : LoopOf(f, M, Nat, 0, step)
  <2>. HIDE DEF step
  <2>. QED  BY <1>1, LoopExists, GenericAssumption
<1>3. f = [n \in 0 .. M |->
             IF n = 0 THEN 0 ELSE f[n - 1] + (IF n - 1 \in present THEN 1 ELSE 0)]
  <2>1. ASSUME NEW n \in 0 .. M
        PROVE  f[n] = IF n = 0 THEN 0 ELSE f[n - 1] + (IF n - 1 \in present THEN 1 ELSE 0)
    <3>1. CASE n = 0
      BY <1>2, <3>1 DEF LoopOf
    <3>2. CASE n # 0
      <4>1. n \in 1 .. M /\ f[n - 1] \in Nat
        BY <1>2, <3>2, GenericAssumption DEF LoopOf
      <4>2. f[n] = step[n][f[n - 1]]
        BY <1>2, <3>2 DEF LoopOf
      <4>. QED  BY <3>2, <4>1, <4>2
    <3>. QED  BY <3>1, <3>2
  <2>. QED  BY <1>2, <2>1 DEF LoopOf
<1>4. counter = [n \in 0 .. M |->
                   IF n = 0 THEN 0 ELSE counter[n - 1] + (IF n - 1 \in present THEN 1 ELSE 0)]
  BY <1>3, Zenon DEF AssociatedCounter
<1>. HIDE DEF counter
<1>. DEFINE S == {n \in 0 .. M : counter[n] = Cardinality(NodesUpTo(present, n))}
<1>5. 0 \in S
  <2>1. counter[0] = 0
    BY <1>4, GenericAssumption
  <2>2. NodesUpTo(present, 0) = {}
    BY NodesBefore DEF NodesUpTo
  <2>. QED  BY <2>1, <2>2, FS_EmptySet, GenericAssumption
<1>6. ASSUME NEW n \in 0 .. M - 1, n \in S
      PROVE  n + 1 \in S
  <2>1. n + 1 \in 0 .. M /\ n + 1 # 0 /\ (n + 1) - 1 = n
    BY GenericAssumption
  <2>2. counter[n + 1] = counter[n] + (IF n \in present THEN 1 ELSE 0)
    BY <1>4, <2>1
  <2>3. NodesUpTo(present, n + 1) = NodesUpTo(present, n) \cup (IF n \in present THEN {n} ELSE {})
    BY NodesBefore DEF NodesUpTo
  <2>4. n \notin NodesUpTo(present, n)
    BY GenericAssumption DEF NodesUpTo, NodeIds
  <2>5. NodesUpTo(present, n) \in SUBSET NodeIds
    BY DEF NodesUpTo
  <2>6. IsFiniteSet(NodesUpTo(present, n)) /\ Cardinality(NodesUpTo(present, n)) \in Nat
    BY <2>5, NodesFinite, GenericAssumption
  <2>7. CASE n \in present
    <3>1. Cardinality(NodesUpTo(present, n + 1)) = Cardinality(NodesUpTo(present, n)) + 1
      BY <2>3, <2>4, <2>6, <2>7, FS_AddElement
    <3>. QED  BY <1>6, <2>1, <2>2, <2>7, <3>1
  <2>8. CASE n \notin present
    <3>1. NodesUpTo(present, n + 1) = NodesUpTo(present, n)
      BY <2>3, <2>8
    <3>. QED  BY <1>6, <2>1, <2>2, <2>6, <2>8, <3>1
  <2>. QED  BY <2>7, <2>8
<1>7. 0 .. M \subseteq S
  <2>. HIDE DEF S
  <2>. QED  BY <1>5, <1>6, AlongPlaces, GenericAssumption
<1>. QED  BY <1>7 DEF counter

\* The rank of a node: how many nodes there are up to it.
Rank(present, n) == Cardinality({m \in present : m <= n})

\* It is what the counter has reached behind the node, one at least and the
\* number of nodes at most, no more than the node ids up to it, and tells the node.
LEMMA Ranks ==
    ASSUME NEW present \in SUBSET NodeIds, NEW n \in present
    PROVE  /\ AssociatedCounter(present)[n + 1] = Rank(present, n)
           /\ Rank(present, n) \in 1 .. Cardinality(present)
           /\ Rank(present, n) \in 1 .. n + 1
           /\ \A m \in present : Rank(present, m) = Rank(present, n) => m = n
<1>. DEFINE UpTo(m) == {k \in present : k <= m}
<1>1. \A m \in present : m \in Nat /\ m + 1 \in 0 .. RMH_MAX_MOCA_NODES
  BY GenericAssumption DEF NodeIds
<1>2. AssociatedCounter(present)[n + 1] = Rank(present, n)
  <2>1. NodesUpTo(present, n + 1) = UpTo(n)
    BY <1>1 DEF NodesUpTo
  <2>. QED  BY <1>1, <2>1, CounterCounts DEF Rank
<1>3. \A m \in present : UpTo(m) \in SUBSET present /\ UpTo(m) \in SUBSET NodeIds
  OBVIOUS
<1>4. IsFiniteSet(present) /\ \A m \in present : IsFiniteSet(UpTo(m)) /\ Rank(present, m) \in Nat
  BY <1>3, NodesFinite, GenericAssumption DEF Rank
<1>5. Rank(present, n) \in 1 .. Cardinality(present)
  <2>1. n \in UpTo(n)
    BY <1>1
  <2>2. Rank(present, n) # 0
    BY <1>4, <2>1, FS_EmptySet DEF Rank
  <2>3. Cardinality(UpTo(n)) <= Cardinality(present)
    <3>. HIDE DEF UpTo
    <3>. QED  BY <1>3, <1>4, FS_Subset
  <2>4. Cardinality(present) \in Nat
    BY NodesFinite, GenericAssumption
  <2>. QED  BY <1>4, <2>2, <2>3, <2>4 DEF Rank
<1>6. ASSUME NEW a \in present, NEW b \in present, a < b
      PROVE  Rank(present, a) # Rank(present, b)
  <2>1. UpTo(a) \in SUBSET UpTo(b)
    BY <1>1, <1>6
  <2>2. b \in UpTo(b) /\ b \notin UpTo(a)
    BY <1>1, <1>6
  <2>3. UpTo(a) # UpTo(b)
    BY <2>2
  <2>4. Cardinality(UpTo(b)) # Cardinality(UpTo(a))
    <3>. HIDE DEF UpTo
    <3>. QED  BY <1>4, <2>1, <2>3, FS_Subset
  <2>. QED  BY <2>4 DEF Rank
<1>7. \A m \in present : Rank(present, m) = Rank(present, n) => m = n
  BY <1>1, <1>6
<1>8. Rank(present, n) \in 1 .. n + 1
  <2>1. n \in Nat /\ UpTo(n) \in SUBSET (0 .. n)
    BY <1>1
  <2>2. IsFiniteSet(0 .. n) /\ Cardinality(0 .. n) = n + 1
    BY <2>1, FS_Interval
  <2>3. Cardinality(UpTo(n)) <= n + 1
    <3>. HIDE DEF UpTo
    <3>. QED  BY <2>1, <2>2, FS_Subset
  <2>4. Cardinality(present) \in Nat
    BY NodesFinite, GenericAssumption
  <2>. QED  BY <1>5, <2>1, <2>3, <2>4 DEF Rank
<1>. QED  BY <1>2, <1>5, <1>7, <1>8

\* The three id APIs agree for any list of nodes.
LEMMA IdsDoAgree ==
    ASSUME NEW nodes \in SUBSET NodeIds
    PROVE  IdsAgree(nodes)
<1>. DEFINE rank == [n \in nodes |-> Cardinality({m \in nodes : m <= n})]
<1>1. ~Stops("RMH_SUCCESS") /\ Lists("RMH_SUCCESS", nodes) = {nodes}
  BY DEF Stops, Lists, Holds
<1>2. \A n \in nodes : rank[n] = Rank(nodes, n)
  BY DEF Rank
<1>3. Cardinality(nodes) \in 0 .. RMH_MAX_MOCA_NODES
  BY NodesFinite
<1>4. AssociatedIds(nodes) = rank
  BY Ranks DEF AssociatedIds, Rank
<1>. HIDE DEF rank
<1>5. RMH_Network_GetAssociatedIds("RMH_SUCCESS", nodes) = {[ret |-> "RMH_SUCCESS", ids |-> rank]}
  BY <1>1, <1>4 DEF RMH_Network_GetAssociatedIds
<1>6. ASSUME NEW n \in nodes
      PROVE  RMH_RemoteNode_GetAssociatedIdFromNodeId("RMH_SUCCESS", nodes, n)
               = {[ret |-> "RMH_SUCCESS", id |-> rank[n]]}
  <2>1. ~(n > RMH_MAX_MOCA_NODES)
    BY GenericAssumption DEF NodeIds
  <2>2. AssociatedIdIn(nodes, n) = [ret |-> "RMH_SUCCESS", id |-> rank[n]]
    BY <1>2, Ranks DEF AssociatedIdIn
  <2>. QED  BY <1>1, <2>1, <2>2 DEF RMH_RemoteNode_GetAssociatedIdFromNodeId
<1>7. ASSUME NEW n \in nodes
      PROVE  RMH_RemoteNode_GetNodeIdFromAssociatedId("RMH_SUCCESS", nodes, rank[n])
               = {[ret |-> "RMH_SUCCESS", id |-> n]}
  <2>. DEFINE reached == {m \in nodes : AssociatedCounter(nodes)[m + 1] = rank[n]}
  <2>1. ~(rank[n] > RMH_MAX_MOCA_NODES)
    BY <1>2, <1>3, Ranks, GenericAssumption
  <2>2. reached = {n}
    BY <1>2, Ranks
  <2>3. (CHOOSE m \in reached : \A k \in reached : m <= k) = n
    <3>1. \A m \in reached : (\A k \in reached : m <= k) <=> m = n
      BY <2>2, GenericAssumption DEF NodeIds
    <3>. QED  BY <2>2, <3>1
  <2>4. NodeIdIn(nodes, rank[n]) = [ret |-> "RMH_SUCCESS", id |-> n]
    BY <2>2, <2>3 DEF NodeIdIn
  <2>. QED  BY <1>1, <2>1, <2>4 DEF RMH_RemoteNode_GetNodeIdFromAssociatedId
<1>8. ASSUME NEW n \in (0 .. RMH_MAX_MOCA_NODES + 1) \ nodes,
             NEW r \in RMH_RemoteNode_GetAssociatedIdFromNodeId("RMH_SUCCESS", nodes, n)
      PROVE  r.ret # "RMH_SUCCESS"
  BY <1>1 DEF RMH_RemoteNode_GetAssociatedIdFromNodeId, AssociatedIdIn
<1>9. ASSUME NEW a \in (0 .. RMH_MAX_MOCA_NODES + 1) \ (1 .. Cardinality(nodes)),
             NEW r \in RMH_RemoteNode_GetNodeIdFromAssociatedId("RMH_SUCCESS", nodes, a)
      PROVE  r.ret # "RMH_SUCCESS"
  <2>1. {m \in nodes : AssociatedCounter(nodes)[m + 1] = a} = {}
    BY Ranks
  <2>2. NodeIdIn(nodes, a).ret # "RMH_SUCCESS"
    BY <2>1 DEF NodeIdIn
  <2>. QED  BY <1>1, <2>2 DEF RMH_RemoteNode_GetNodeIdFromAssociatedId
<1>. QED  BY <1>5, <1>6, <1>7, <1>8, <1>9 DEF IdsAgree, rank

\* Their successes are in range on any list.
LEMMA IdsAreInRange ==
    ASSUME NEW query \in QueryResults, NEW nodes \in SUBSET NodeIds
    PROVE  IdsInRange(query, nodes)
<1>1. ASSUME NEW r \in RMH_Network_GetAssociatedIds(query, nodes), r.ret = "RMH_SUCCESS"
      PROVE  ~Stops(query) /\ \A n \in DOMAIN r.ids : n \in NodeIds /\ r.ids[n] \in 1 .. n + 1
  <2>1. ~Stops(query)
    BY <1>1 DEF RMH_Network_GetAssociatedIds, Stops
  <2>2. PICK list \in Lists(query, nodes) : r.ids = AssociatedIds(list)
    BY <2>1 DEF RMH_Network_GetAssociatedIds
  <2>3. list \in SUBSET NodeIds
    BY ListsAreLists
  <2>4. r.ids = [n \in list |-> AssociatedCounter(list)[n + 1]]
    BY <2>2 DEF AssociatedIds
  <2>5. ASSUME NEW n \in list
        PROVE  n \in NodeIds /\ r.ids[n] \in 1 .. n + 1
    BY <2>3, <2>4, Ranks
  <2>. QED  BY <2>1, <2>4, <2>5
<1>2. ASSUME NEW n \in 0 .. RMH_MAX_MOCA_NODES + 1,
             NEW r \in RMH_RemoteNode_GetAssociatedIdFromNodeId(query, nodes, n),
             r.ret = "RMH_SUCCESS"
      PROVE  ~Stops(query) /\ n \in NodeIds /\ r.id \in 1 .. n + 1
  <2>1. ~Stops(query) /\ ~(n > RMH_MAX_MOCA_NODES)
    BY <1>2 DEF RMH_RemoteNode_GetAssociatedIdFromNodeId, Stops
  <2>2. PICK list \in Lists(query, nodes) : r = AssociatedIdIn(list, n)
    BY <2>1 DEF RMH_RemoteNode_GetAssociatedIdFromNodeId
  <2>3. list \in SUBSET NodeIds
    BY ListsAreLists
  <2>4. n \in list /\ r.id = AssociatedCounter(list)[n + 1]
    BY <1>2, <2>2 DEF AssociatedIdIn
  <2>. QED  BY <2>1, <2>3, <2>4, Ranks
<1>3. ASSUME NEW a \in 0 .. RMH_MAX_MOCA_NODES + 1,
             NEW r \in RMH_RemoteNode_GetNodeIdFromAssociatedId(query, nodes, a),
             r.ret = "RMH_SUCCESS"
      PROVE  ~Stops(query) /\ r.id \in NodeIds /\ a \in 1 .. r.id + 1
  <2>1. ~Stops(query) /\ ~(a > RMH_MAX_MOCA_NODES)
    BY <1>3 DEF RMH_RemoteNode_GetNodeIdFromAssociatedId, Stops
  <2>2. PICK list \in Lists(query, nodes) : r = NodeIdIn(list, a)
    BY <2>1 DEF RMH_RemoteNode_GetNodeIdFromAssociatedId
  <2>3. list \in SUBSET NodeIds
    BY ListsAreLists
  <2>. DEFINE reached == {n \in list : AssociatedCounter(list)[n + 1] = a}
  <2>4. reached # {} /\ r.id = CHOOSE n \in reached : \A m \in reached : n <= m
    BY <1>3, <2>2 DEF NodeIdIn
  <2>5. \E n \in reached : \A m \in reached : n <= m
    <3>1. reached \in SUBSET list
      OBVIOUS
    <3>2. ASSUME NEW n \in reached, NEW m \in reached
          PROVE  n = m
      <4>1. Rank(list, n) = a /\ Rank(list, m) = a
        BY <2>3, Ranks
      <4>. QED  BY <2>3, <4>1, Ranks
    <3>3. \A n \in reached : n \in Nat
      BY <2>3 DEF NodeIds
    <3>. HIDE DEF reached
    <3>. QED  BY <2>4, <3>2, <3>3
  <2>6. r.id \in reached
    <3>. HIDE DEF reached
    <3>. QED  BY <2>4, <2>5
  <2>7. r.id \in list /\ AssociatedCounter(list)[r.id + 1] = a
    BY <2>6
  <2>. QED  BY <2>1, <2>3, <2>7, Ranks
<1>. QED  BY <1>1, <1>2, <1>3 DEF IdsInRange

\* Hence what the id APIs answer is right.
LEMMA IdsAreTrue == IdsTrue
BY IdsDoAgree, IdsAreInRange DEF IdsTrue

-----------------------------------------------------------------------------
\* What RMH_Interface_SetEnabled reports is what it read back.
LEMMA InterfaceIsTrue == InterfaceTrue
<1>. SUFFICES ASSUME NEW value \in BOOLEAN, NEW getOk \in BOOLEAN, NEW setOk \in BOOLEAN,
                     NEW getAgainOk \in BOOLEAN, NEW query \in QueryResults,
                     NEW again \in QueryResults, NEW flags \in Flags,
                     "RMH_SUCCESS" \in RMH_Interface_SetEnabled(value, query, getOk, setOk,
                                                               again, getAgainOk, flags)
              PROVE  ~Stops(query) /\ (again = "RMH_SUCCESS" /\ getAgainOk => value = IsEnabled(flags))
  BY DEF InterfaceTrue
<1>1. ~Stops(query) /\ getOk /\ setOk
  BY DEF RMH_Interface_SetEnabled, Stops
<1>2. PICK selected \in RMH_Interface_GetEnabled(again, getAgainOk, flags) :
         selected.response = value
  BY <1>1 DEF RMH_Interface_SetEnabled
<1>3. CASE again = "RMH_SUCCESS" /\ getAgainOk
  <2>1. RMH_Interface_GetEnabled(again, getAgainOk, flags)
          = {[ret |-> "RMH_SUCCESS", response |-> IsEnabled(flags)]}
    BY <1>3 DEF RMH_Interface_GetEnabled, Stops, Holds
  <2>. QED  BY <1>1, <1>2, <2>1
<1>. QED  BY <1>1, <1>3

-----------------------------------------------------------------------------
(* The texts.                                                              *)

\* Every value but the band H finds its own name.
LEMMA NamesAreTrue == NamesTrue
<1>1. ASSUME NEW N \in Nat
      PROVE  \A v \in Values(From0(N)) : NameOf(From0(N), v) = v
  BY DEF Values, From0, NameOf
<1>2. \A enum \in {ENUM_RMH_Result, ENUM_RMH_PERMode, ENUM_RMH_LinkStatus,
                  ENUM_RMH_AdmissionStatus, ENUM_RMH_MoCAResetReason,
                  ENUM_RMH_SubcarrierProfile, ENUM_RMH_ACAType, ENUM_RMH_ACAStatus} :
         \A v \in Values(enum) : NameOf(enum, v) = v
  BY <1>1 DEF ENUM_RMH_Result, ENUM_RMH_PERMode, ENUM_RMH_LinkStatus,
              ENUM_RMH_AdmissionStatus, ENUM_RMH_MoCAResetReason,
              ENUM_RMH_SubcarrierProfile, ENUM_RMH_ACAType, ENUM_RMH_ACAStatus
<1>3. \A v \in Values(ENUM_RMH_MoCAVersion) : RMH_MoCAVersionToString(v) = v
  BY DEF Values, ENUM_RMH_MoCAVersion, RMH_MoCAVersionToString
<1>4. DOMAIN ENUM_RMH_Band = 1 .. 8
  BY DEF ENUM_RMH_Band
<1>5. Values(ENUM_RMH_Band) = {0, 1, 2, 3, 4, 5, 6, 8}
  BY DEF Values, ENUM_RMH_Band
<1>6. \A v \in {0, 1, 2, 3, 4, 5, 6} : NameOf(ENUM_RMH_Band, v) = v
  BY DEF NameOf, ENUM_RMH_Band
<1>7. NameOf(ENUM_RMH_Band, 8) = 99
  BY <1>4 DEF NameOf, Outside
<1>8. {v \in Values(ENUM_RMH_Band) : NameOf(ENUM_RMH_Band, v) # v} = {8}
  BY <1>5, <1>6, <1>7
<1>. QED  BY <1>2, <1>3, <1>8 DEF NamesTrue

-----------------------------------------------------------------------------
(* The texts of bit masks.                                                 *)

Masks == Seq([bit : Nat, length : Nat])
Texts == [names : SUBSET Nat, length : Nat, small : BOOLEAN]
NoText == [names |-> {}, length |-> 0, small |-> FALSE]

\* What one place of the array adds to a text.
Longer(value, size, enum, i, done) ==
    IF done.small \/ i - 1 \notin value THEN done
    ELSE IF size <= done.length + enum[i].length + 3
      THEN [done EXCEPT !.small = TRUE]
      ELSE [names |-> done.names \cup {enum[i].bit},
            length |-> done.length + (IF done.length = 0 THEN 0 ELSE 3) + enum[i].length,
            small |-> FALSE]

\* What a sequence of masks' bits is made of.
LEMMA MaskPlaces ==
    ASSUME NEW enum \in Masks
    PROVE  /\ Len(enum) \in Nat /\ DOMAIN enum = 1 .. Len(enum)
           /\ \A i \in 1 .. Len(enum) : enum[i].bit \in Nat /\ enum[i].length \in Nat
<1>1. ASSUME NEW X, NEW s \in Seq(X)
      PROVE  Len(s) \in Nat /\ DOMAIN s = 1 .. Len(s) /\ \A i \in 1 .. Len(s) : s[i] \in X
  OBVIOUS
<1>. DEFINE Place == [bit : Nat, length : Nat]
<1>2. \A p \in Place : p.bit \in Nat /\ p.length \in Nat
  OBVIOUS
<1>3. enum \in Seq(Place)
  BY DEF Masks
<1>. HIDE DEF Place
<1>. QED  BY <1>1, <1>2, <1>3

\* What it is in each case: as long as before, too long, or longer by a name.
Lengthens(value, size, enum, i, done, longer) ==
    /\ done.small \/ i - 1 \notin value => longer = done
    /\ ~ done.small /\ i - 1 \in value =>
         IF size <= done.length + enum[i].length + 3
           THEN longer.small = TRUE
           ELSE /\ longer.names = done.names \cup {enum[i].bit}
                /\ longer.length = done.length + (IF done.length = 0 THEN 0 ELSE 3)
                                     + enum[i].length
                /\ longer.small = FALSE

\* It is one of them.
LEMMA LongerIs ==
    ASSUME NEW value, NEW size \in Nat, NEW enum \in Masks, NEW i \in 1 .. Len(enum),
           NEW done \in Texts
    PROVE  Lengthens(value, size, enum, i, done, Longer(value, size, enum, i, done))
<1>1. done.small \/ i - 1 \notin value => Longer(value, size, enum, i, done) = done
  BY DEF Longer
<1>2. [done EXCEPT !.small = TRUE].small = TRUE
  BY DEF Texts
<1>. DEFINE longest == [names |-> done.names \cup {enum[i].bit},
                        length |-> done.length + (IF done.length = 0 THEN 0 ELSE 3)
                                     + enum[i].length,
                        small |-> FALSE]
<1>3. /\ longest.names = done.names \cup {enum[i].bit}
      /\ longest.length = done.length + (IF done.length = 0 THEN 0 ELSE 3) + enum[i].length
      /\ longest.small = FALSE
  OBVIOUS
<1>4. ~(done.small \/ i - 1 \notin value) =>
         Longer(value, size, enum, i, done) =
           IF size <= done.length + enum[i].length + 3
             THEN [done EXCEPT !.small = TRUE] ELSE longest
  BY DEF Longer
<1>. HIDE DEF longest
<1>. QED  BY <1>1, <1>2, <1>3, <1>4 DEF Lengthens

\* It is a text.
LEMMA LongerType ==
    ASSUME NEW value, NEW size \in Nat, NEW enum \in Masks, NEW i \in 1 .. Len(enum),
           NEW done \in Texts
    PROVE  Longer(value, size, enum, i, done) \in Texts
<1>1. enum[i].bit \in Nat /\ enum[i].length \in Nat
  BY MaskPlaces
<1>2. done.length + (IF done.length = 0 THEN 0 ELSE 3) + enum[i].length \in Nat
  BY <1>1 DEF Texts
<1>3. done.names \cup {enum[i].bit} \in SUBSET Nat
  BY <1>1 DEF Texts
<1>4. [done EXCEPT !.small = TRUE] \in Texts
  BY DEF Texts
<1>5. [names |-> done.names \cup {enum[i].bit},
       length |-> done.length + (IF done.length = 0 THEN 0 ELSE 3) + enum[i].length,
       small |-> FALSE] \in Texts
  BY <1>2, <1>3 DEF Texts
<1>. QED  BY <1>4, <1>5 DEF Longer

\* The loop of RMH_BitMAskToString computes a text after each place.
LEMMA TextAfterDefined ==
    ASSUME NEW value, NEW size \in Nat, NEW enum \in Masks
    PROVE  /\ TextAfter(value, size, enum) \in [0 .. Len(enum) -> Texts]
           /\ TextAfter(value, size, enum)[0] = NoText
           /\ \A i \in 1 .. Len(enum) :
                TextAfter(value, size, enum)[i] =
                  Longer(value, size, enum, i, TextAfter(value, size, enum)[i - 1])
<1>. DEFINE M == Len(enum)
            step == [i \in 1 .. M |-> [done \in Texts |-> Longer(value, size, enum, i, done)]]
            after == TextAfter(value, size, enum)
<1>0. M \in Nat
  BY DEF Masks
<1>1. NoText \in Texts
  BY DEF NoText, Texts
<1>2. step \in [1 .. M -> [Texts -> Texts]]
  BY LongerType
<1>. HIDE DEF M
<1>3. PICK f : LoopOf(f, M, Texts, NoText, step)
  <2>. HIDE DEF step
  <2>. QED  BY <1>0, <1>1, <1>2, LoopExists
<1>4. f = [i \in 0 .. M |->
             IF i = 0 THEN NoText ELSE Longer(value, size, enum, i, f[i - 1])]
  <2>1. ASSUME NEW i \in 0 .. M
        PROVE  f[i] = IF i = 0 THEN NoText ELSE Longer(value, size, enum, i, f[i - 1])
    <3>1. CASE i = 0
      BY <1>3, <3>1 DEF LoopOf
    <3>2. CASE i # 0
      <4>1. i \in 1 .. M /\ f[i - 1] \in Texts
        BY <1>0, <1>3, <3>2 DEF LoopOf
      <4>2. f[i] = step[i][f[i - 1]]
        BY <1>3, <3>2 DEF LoopOf
      <4>. QED  BY <3>2, <4>1, <4>2
    <3>. QED  BY <3>1, <3>2
  <2>. QED  BY <1>3, <2>1 DEF LoopOf
<1>5. after = [i \in 0 .. M |->
                 IF i = 0 THEN NoText ELSE Longer(value, size, enum, i, after[i - 1])]
  BY <1>4, Zenon DEF TextAfter, Longer, NoText, M
<1>. HIDE DEF after
<1>6. /\ DOMAIN after = 0 .. M
      /\ after[0] = NoText
      /\ \A i \in 1 .. M : after[i] = Longer(value, size, enum, i, after[i - 1])
  BY <1>5, <1>0
<1>7. 0 .. M \subseteq {i \in 0 .. M : after[i] \in Texts}
  <2>. DEFINE S == {i \in 0 .. M : after[i] \in Texts}
  <2>1. 0 \in S
    BY <1>0, <1>1, <1>6
  <2>2. ASSUME NEW i \in 0 .. M - 1, i \in S
        PROVE  i + 1 \in S
    <3>1. i + 1 \in 1 .. M /\ (i + 1) - 1 = i
      BY <1>0
    <3>2. Longer(value, size, enum, i + 1, after[i]) \in Texts
      BY <2>2, <3>1, LongerType DEF M
    <3>. QED  BY <1>0, <1>6, <3>1, <3>2
  <2>. HIDE DEF S
  <2>3. 0 .. M \subseteq S
    BY <1>0, <2>1, <2>2, AlongPlaces
  <2>. QED  BY <2>3 DEF S
<1>8. after \in [0 .. M -> Texts]
  BY <1>5, <1>7
<1>. QED  BY <1>6, <1>8 DEF after, M

\* The bits a text names: those whose place's number is a bit of the value.
Written(value, enum, i) == {enum[j].bit : j \in {k \in DOMAIN enum : k <= i /\ k - 1 \in value}}

\* A text that fits names all of them; names shorter than a bound, with their
\* separators, fit into a size that holds one bound for each place.
LEMMA TextIs ==
    ASSUME NEW value, NEW size \in Nat, NEW enum \in Masks
    PROVE  /\ RMH_BitMAskToString(value, size, enum)
                \in {TooSmall, Written(value, enum, Len(enum))}
           /\ \A c \in Nat :
                (\A i \in DOMAIN enum : enum[i].length + 3 <= c /\ i * c < size)
                  => RMH_BitMAskToString(value, size, enum) = Written(value, enum, Len(enum))
<1>. DEFINE M == Len(enum)
            after == TextAfter(value, size, enum)
<1>0. /\ M \in Nat /\ DOMAIN enum = 1 .. M
      /\ \A i \in 1 .. M : enum[i].bit \in Nat /\ enum[i].length \in Nat
  BY MaskPlaces
<1>1. /\ after \in [0 .. M -> Texts]
      /\ after[0] = NoText
      /\ \A i \in 1 .. M : after[i] = Longer(value, size, enum, i, after[i - 1])
  BY TextAfterDefined
<1>. HIDE DEF M, after
<1>2. ASSUME NEW i \in 0 .. M - 1
      PROVE  Written(value, enum, i + 1) =
               Written(value, enum, i) \cup (IF i \in value THEN {enum[i + 1].bit} ELSE {})
  <2>1. \A k \in DOMAIN enum : k <= i + 1 <=> k <= i \/ k = i + 1
    BY <1>0
  <2>2. i + 1 \in DOMAIN enum /\ (i + 1) - 1 = i
    BY <1>0
  <2>3. {k \in DOMAIN enum : k <= i + 1 /\ k - 1 \in value} =
          {k \in DOMAIN enum : k <= i /\ k - 1 \in value}
            \cup (IF i \in value THEN {i + 1} ELSE {})
    BY <1>0, <2>1, <2>2
  <2>. QED  BY <2>3 DEF Written
<1>3. Written(value, enum, 0) = {}
  BY <1>0 DEF Written
<1>4. ASSUME NEW i \in 0 .. M - 1
      PROVE  /\ i \in 0 .. M /\ i + 1 \in 1 .. M /\ i + 1 \in 0 .. M
             /\ after[i] \in Texts
             /\ (i + 1) - 1 = i
             /\ Lengthens(value, size, enum, i + 1, after[i], after[i + 1])
  <2>1. i \in 0 .. M /\ i + 1 \in 1 .. M /\ i + 1 \in 0 .. M /\ (i + 1) - 1 = i
    BY <1>0
  <2>2. after[i] \in Texts /\ after[i + 1] = Longer(value, size, enum, i + 1, after[i])
    BY <1>1, <2>1
  <2>. QED  BY <2>1, <2>2, LongerIs DEF M
<1>5. \A i \in 0 .. M : after[i].small = FALSE => after[i].names = Written(value, enum, i)
  <2>. DEFINE S == {i \in 0 .. M : after[i].small = FALSE =>
                                     after[i].names = Written(value, enum, i)}
  <2>1. 0 \in S
    <3>1. NoText.names = {}
      BY DEF NoText
    <3>2. after[0].names = {}
      BY <1>1, <3>1
    <3>3. after[0].names = Written(value, enum, 0)
      BY <1>3, <3>2, Zenon
    <3>4. 0 \in 0 .. M
      BY <1>0
    <3>. QED  BY <3>3, <3>4
  <2>2. ASSUME NEW i \in 0 .. M - 1, i \in S
        PROVE  i + 1 \in S
    <3>1. after[i].small \in BOOLEAN
      BY <1>4 DEF Texts
    <3>2. CASE i \notin value \/ after[i].small = TRUE
      <4>1. after[i + 1] = after[i]
        BY <1>4, <3>2 DEF Lengthens
      <4>2. Written(value, enum, i + 1) = Written(value, enum, i) \/ after[i].small = TRUE
        BY <1>2, <3>2
      <4>. QED  BY <1>4, <2>2, <4>1, <4>2
    <3>3. CASE i \in value /\ after[i].small = FALSE
      <4>1. Written(value, enum, i + 1) = Written(value, enum, i) \cup {enum[i + 1].bit}
        BY <1>2, <3>3
      <4>2. \/ after[i + 1].small = TRUE
            \/ after[i + 1].names = after[i].names \cup {enum[i + 1].bit}
        BY <1>4, <3>3 DEF Lengthens
      <4>. QED  BY <1>4, <2>2, <3>3, <4>1, <4>2
    <3>. QED  BY <3>1, <3>2, <3>3
  <2>. HIDE DEF S
  <2>3. 0 .. M \subseteq S
    BY <1>0, <2>1, <2>2, AlongPlaces
  <2>. QED  BY <2>3 DEF S
<1>6. ASSUME NEW c \in Nat, \A i \in DOMAIN enum : enum[i].length + 3 <= c /\ i * c < size
      PROVE  \A i \in 0 .. M : after[i].small = FALSE /\ after[i].length <= i * c
  <2>. DEFINE S == {i \in 0 .. M : after[i].small = FALSE /\ after[i].length <= i * c}
  <2>1. 0 \in S
    BY <1>0, <1>1 DEF NoText
  <2>2. ASSUME NEW i \in 0 .. M - 1, i \in S
        PROVE  i + 1 \in S
    <3>1. (i + 1) * c = i * c + c /\ i * c \in Nat
      BY <1>0
    <3>2. enum[i + 1].length + 3 <= c /\ (i + 1) * c < size /\ enum[i + 1].length \in Nat
      BY <1>0, <1>4, <1>6
    <3>3. after[i].length \in Nat /\ after[i].length <= i * c /\ after[i].small = FALSE
      BY <1>4, <2>2 DEF Texts
    <3>4. ~(size <= after[i].length + enum[i + 1].length + 3)
      BY <3>1, <3>2, <3>3
    <3>5. CASE i \notin value
      <4>1. after[i + 1] = after[i]
        BY <1>4, <3>5 DEF Lengthens
      <4>2. c \in Nat /\ (i + 1) * c \in Nat
        BY <1>0
      <4>. QED  BY <1>4, <3>1, <3>3, <4>1, <4>2
    <3>6. CASE i \in value
      <4>1. /\ after[i + 1].length =
                 after[i].length + (IF after[i].length = 0 THEN 0 ELSE 3) + enum[i + 1].length
            /\ after[i + 1].small = FALSE
        BY <1>4, <3>3, <3>4, <3>6 DEF Lengthens
      <4>2. after[i + 1].length <= (i + 1) * c
        BY <3>1, <3>2, <3>3, <4>1
      <4>. QED  BY <1>4, <4>1, <4>2
    <3>. QED  BY <3>5, <3>6
  <2>. HIDE DEF S
  <2>3. 0 .. M \subseteq S
    BY <1>0, <2>1, <2>2, AlongPlaces
  <2>. QED  BY <2>3 DEF S
<1>7. RMH_BitMAskToString(value, size, enum) =
        IF after[M].small THEN TooSmall ELSE after[M].names
  BY DEF RMH_BitMAskToString, after, M
<1>8. M \in 0 .. M /\ after[M].small \in BOOLEAN
  BY <1>0, <1>1 DEF Texts
<1>. QED  BY <1>5, <1>6, <1>7, <1>8 DEF M

\* A mask of n places with names of up to c characters.
ShortNames(enum, n, c) ==
    /\ enum \in Masks /\ DOMAIN enum = 1 .. n /\ Len(enum) = n
    /\ \A i \in 1 .. n : enum[i].length <= c

Printed(enum, bits, n, c) == ShortNames(enum, n, c) /\ \A i \in 1 .. n : enum[i].bit = bits[i]

\* The masks of the three enumerations.
LEMMA MaskTypes ==
    /\ ShortNames(ENUM_RMH_PowerMode, 4, 25)
    /\ \A i \in 1 .. 4 : ENUM_RMH_PowerMode[i].bit = i - 1
    /\ ShortNames(ENUM_RMH_LogLevel, 5, 15)
    /\ \A i \in 1 .. 5 : ENUM_RMH_LogLevel[i].bit = i - 1
    /\ ShortNames(ENUM_RMH_Event, 10, 34)
    /\ \A i \in 1 .. 10 : ENUM_RMH_Event[i].bit = (IF i <= 3 THEN i - 1 ELSE i)
<1>1. ASSUME NEW n \in Nat, NEW b \in [1 .. n -> Nat], NEW l \in [1 .. n -> Nat], NEW c \in Nat,
             \A i \in 1 .. n : l[i] <= c
      PROVE  Printed(Bits(b, l), b, n, c)
  <2>1. DOMAIN b = 1 .. n
    OBVIOUS
  <2>2. Bits(b, l) = [i \in 1 .. n |-> [bit |-> b[i], length |-> l[i]]]
    BY <2>1 DEF Bits
  <2>3. \A i \in 1 .. n : [bit |-> b[i], length |-> l[i]] \in [bit : Nat, length : Nat]
    OBVIOUS
  <2>4. ASSUME NEW X, NEW f \in [1 .. n -> X]
        PROVE  f \in Seq(X) /\ Len(f) = n
    OBVIOUS
  <2>5. Bits(b, l) \in [1 .. n -> [bit : Nat, length : Nat]]
    BY <2>2, <2>3
  <2>6. Bits(b, l) \in Masks /\ Len(Bits(b, l)) = n
    BY <2>4, <2>5 DEF Masks
  <2>7. \A i \in 1 .. n : Bits(b, l)[i].bit = b[i] /\ Bits(b, l)[i].length = l[i]
    BY <2>2
  <2>. QED  BY <1>1, <2>2, <2>6, <2>7 DEF Printed, ShortNames
<1>2. ShortNames(ENUM_RMH_PowerMode, 4, 25) /\ \A i \in 1 .. 4 : ENUM_RMH_PowerMode[i].bit = i - 1
  <2>. DEFINE bits == <<0, 1, 2, 3>>
              lengths == <<24, 22, 25, 23>>
  <2>1. bits \in [1 .. 4 -> Nat] /\ \A i \in 1 .. 4 : bits[i] = i - 1
    OBVIOUS
  <2>2. lengths \in [1 .. 4 -> Nat] /\ \A i \in 1 .. 4 : lengths[i] <= 25
    OBVIOUS
  <2>3. ENUM_RMH_PowerMode = Bits(bits, lengths)
    BY DEF ENUM_RMH_PowerMode
  <2>. HIDE DEF bits, lengths
  <2>4. Printed(Bits(bits, lengths), bits, 4, 25)
    BY <1>1, <2>1, <2>2
  <2>. QED  BY <2>1, <2>3, <2>4 DEF Printed
<1>3. ShortNames(ENUM_RMH_LogLevel, 5, 15) /\ \A i \in 1 .. 5 : ENUM_RMH_LogLevel[i].bit = i - 1
  <2>. DEFINE bits == <<0, 1, 2, 3, 4>>
              lengths == <<13, 15, 15, 13, 13>>
  <2>1. bits \in [1 .. 5 -> Nat] /\ \A i \in 1 .. 5 : bits[i] = i - 1
    OBVIOUS
  <2>2. lengths \in [1 .. 5 -> Nat] /\ \A i \in 1 .. 5 : lengths[i] <= 15
    OBVIOUS
  <2>3. ENUM_RMH_LogLevel = Bits(bits, lengths)
    BY DEF ENUM_RMH_LogLevel
  <2>. HIDE DEF bits, lengths
  <2>4. Printed(Bits(bits, lengths), bits, 5, 15)
    BY <1>1, <2>1, <2>2
  <2>. QED  BY <2>1, <2>3, <2>4 DEF Printed
<1>4. /\ ShortNames(ENUM_RMH_Event, 10, 34)
      /\ \A i \in 1 .. 10 : ENUM_RMH_Event[i].bit = (IF i <= 3 THEN i - 1 ELSE i)
  <2>. DEFINE bits == <<0, 1, 2, 4, 5, 6, 7, 8, 9, 10>>
              lengths == <<29, 30, 23, 21, 22, 34, 23, 19, 22, 20>>
  <2>1. bits \in [1 .. 10 -> Nat] /\ \A i \in 1 .. 10 : bits[i] = (IF i <= 3 THEN i - 1 ELSE i)
    OBVIOUS
  <2>2. lengths \in [1 .. 10 -> Nat] /\ \A i \in 1 .. 10 : lengths[i] <= 34
    OBVIOUS
  <2>3. ENUM_RMH_Event = Bits(bits, lengths)
    BY DEF ENUM_RMH_Event
  <2>. HIDE DEF bits, lengths
  <2>4. Printed(Bits(bits, lengths), bits, 10, 34)
    BY <1>1, <2>1, <2>2
  <2>. QED  BY <2>1, <2>3, <2>4 DEF Printed
<1>. QED  BY <1>2, <1>3, <1>4

\* A mask whose names, with their separators, fit is printed in full.
LEMMA PrintedInFull ==
    ASSUME NEW enum, NEW n \in Nat, NEW c \in Nat, NEW size \in Nat, ShortNames(enum, n, c),
           n * (c + 3) < size, NEW value
    PROVE  RMH_BitMAskToString(value, size, enum) = Written(value, enum, n)
<1>1. ASSUME NEW i \in DOMAIN enum
      PROVE  enum[i].length + 3 <= c + 3 /\ i * (c + 3) < size
  <2>1. i \in 1 .. n /\ enum[i].length \in Nat /\ enum[i].length <= c
    BY MaskPlaces DEF ShortNames
  <2>2. i * (c + 3) <= n * (c + 3)
    <3>1. n * (c + 3) = i * (c + 3) + (n - i) * (c + 3)
      BY <2>1
    <3>2. (n - i) * (c + 3) >= 0
      BY <2>1
    <3>3. i * (c + 3) \in Int /\ (n - i) * (c + 3) \in Int
      BY <2>1
    <3>. QED  BY <3>1, <3>2, <3>3
  <2>3. i * (c + 3) \in Int /\ n * (c + 3) \in Int
    BY <2>1
  <2>. QED  BY <2>1, <2>2, <2>3
<1>2. c + 3 \in Nat /\ enum \in Masks /\ Len(enum) = n
  BY DEF ShortNames
<1>. QED  BY <1>1, <1>2, TextIs

\* Power modes and log levels are printed as they are, events below the bit
\* that no event has.
LEMMA MasksAreTrue == MasksTrue
<1>1. ASSUME NEW n \in Nat, NEW enum, DOMAIN enum = 1 .. n,
             \A i \in 1 .. n : enum[i].bit = i - 1
      PROVE  \A value \in SUBSET BitsOf(enum) : Written(value, enum, n) = value
  <2>. SUFFICES ASSUME NEW value \in SUBSET BitsOf(enum)
                PROVE  Written(value, enum, n) = value
    OBVIOUS
  <2>1. \A b \in value : b \in 0 .. n - 1 /\ b + 1 \in 1 .. n /\ enum[b + 1].bit = b
    BY <1>1 DEF BitsOf
  <2>2. ASSUME NEW b \in value
        PROVE  b \in Written(value, enum, n)
    <3>1. b + 1 \in {k \in DOMAIN enum : k <= n /\ k - 1 \in value} /\ enum[b + 1].bit = b
      BY <1>1, <2>1
    <3>. QED  BY <3>1 DEF Written
  <2>3. Written(value, enum, n) \subseteq value
    BY <1>1 DEF Written
  <2>. QED  BY <2>2, <2>3
<1>2. \A value \in SUBSET BitsOf(ENUM_RMH_PowerMode) :
         RMH_BitMAskToString(value, 128, ENUM_RMH_PowerMode) = value
  <2>1. \A value : RMH_BitMAskToString(value, 128, ENUM_RMH_PowerMode)
                     = Written(value, ENUM_RMH_PowerMode, 4)
    BY PrintedInFull, MaskTypes
  <2>2. \A value \in SUBSET BitsOf(ENUM_RMH_PowerMode) :
           Written(value, ENUM_RMH_PowerMode, 4) = value
    BY <1>1, MaskTypes DEF ShortNames
  <2>. QED  BY <2>1, <2>2
<1>3. \A value \in SUBSET BitsOf(ENUM_RMH_LogLevel) :
         RMH_BitMAskToString(value, 128, ENUM_RMH_LogLevel) = value
  <2>1. \A value : RMH_BitMAskToString(value, 128, ENUM_RMH_LogLevel)
                     = Written(value, ENUM_RMH_LogLevel, 5)
    BY PrintedInFull, MaskTypes
  <2>2. \A value \in SUBSET BitsOf(ENUM_RMH_LogLevel) :
           Written(value, ENUM_RMH_LogLevel, 5) = value
    BY <1>1, MaskTypes DEF ShortNames
  <2>. QED  BY <2>1, <2>2
<1>4. ASSUME NEW value \in SUBSET BitsOf(ENUM_RMH_Event)
      PROVE  RMH_BitMAskToString(value, 512, ENUM_RMH_Event) = value <=> value \subseteq 0 .. 2
  <2>. DEFINE written == Written(value, ENUM_RMH_Event, 10)
              place(b) == IF b <= 2 THEN b + 1 ELSE b
  <2>2. RMH_BitMAskToString(value, 512, ENUM_RMH_Event) = written
    BY PrintedInFull, MaskTypes
  <2>3. \A b \in value : b \in 0 .. 10 /\ b # 3
    BY MaskTypes DEF BitsOf, ShortNames
  <2>4. \A b \in 0 .. 10 : b \in written <=> b # 3 /\ place(b) - 1 \in value
    <3>1. written = {(IF i <= 3 THEN i - 1 ELSE i) : i \in {k \in 1 .. 10 : k - 1 \in value}}
      BY MaskTypes DEF Written, ShortNames
    <3>. QED  BY <3>1
  <2>5. written \subseteq 0 .. 10
    BY MaskTypes DEF Written, ShortNames
  <2>. HIDE DEF written
  <2>6. ASSUME value \subseteq 0 .. 2
        PROVE  written = value
    <3>1. ASSUME NEW b \in 0 .. 10
          PROVE  b \in written <=> b \in value
      <4>1. CASE b <= 2
        BY <2>4, <4>1
      <4>2. CASE b > 2
        BY <2>4, <2>6, <4>2
      <4>. QED  BY <4>1, <4>2
    <3>. QED  BY <2>3, <2>5, <3>1
  <2>7. ASSUME written = value
        PROVE  value \subseteq 0 .. 2
    <3>1. \A b \in 4 .. 10 : b \in value => b - 1 \in value
      BY <2>4, <2>7
    <3>2. 3 \notin value
      BY <2>3
    <3>3. 4 \notin value
      BY <3>1, <3>2
    <3>4. 5 \notin value
      BY <3>1, <3>3
    <3>5. 6 \notin value
      BY <3>1, <3>4
    <3>6. 7 \notin value
      BY <3>1, <3>5
    <3>7. 8 \notin value
      BY <3>1, <3>6
    <3>8. 9 \notin value
      BY <3>1, <3>7
    <3>9. 10 \notin value
      BY <3>1, <3>8
    <3>. QED  BY <2>3, <3>2, <3>3, <3>4, <3>5, <3>6, <3>7, <3>8, <3>9
  <2>. QED  BY <2>2, <2>6, <2>7
<1>. QED  BY <1>2, <1>3, <1>4 DEF MasksTrue

-----------------------------------------------------------------------------
\* What a handler prints is true, for any number of nodes and any bandwidth.
THEOREM AnswersTrueHolds == Spec => []AnswersTrue
<1>1. AnswersTrue
  BY BandwidthIsTrue, IdsAreTrue, InterfaceIsTrue, NamesAreTrue, MasksAreTrue DEF AnswersTrue
<1>. QED  BY <1>1, PTL

-----------------------------------------------------------------------------
(***************************************************************************)
(* The tables.  They are data, so the proof reads them: what each section  *)
(* of rmh_api.h declares, what the handlers of each section call, and that *)
(* the two agree wherever a row of rmh joins them; how many APIs, tags and *)
(* rows there are; and that no name occurs twice.                          *)
(***************************************************************************)
(* What rmh_api.h and the handlers say, row by row.                        *)

\* What an API of each kind is.
LEMMA SocRow ==
    ASSUME NEW names, NEW params, NEW tags, NEW a \in Soc(names, params, tags)
    PROVE  a.name \in names /\ a.params = WithHandle(params) /\ a.tags = tags
  BY DEF Soc, Api

\* The same of the other kinds.
LEMMA GenericRow ==
    ASSUME NEW names, NEW params, NEW tags, NEW a \in Generic(names, params, tags)
    PROVE  a.name \in names /\ a.params = WithHandle(params) /\ a.tags = tags
  BY DEF Generic, Api

\* Both halves.
LEMMA BothRow ==
    ASSUME NEW names, NEW params, NEW tags, NEW a \in Both(names, params, tags)
    PROVE  a.name \in names /\ a.params = WithHandle(params) /\ a.tags = tags
  BY DEF Both, Api

\* Not wrapped.
LEMMA PlainRow ==
    ASSUME NEW names, NEW params, NEW tags, NEW a \in Plain(names, params, tags)
    PROVE  a.name \in names /\ a.params = params /\ a.tags = tags
  BY DEF Plain, Api

\* What a row of rmh is.
LEMMA HandledRow ==
    ASSUME NEW handler, NEW names, NEW aliases, NEW r \in Rows(handler, names, aliases)
    PROVE  r.api \in names /\ r = [handler |-> handler, api |-> r.api, aliases |-> aliases]
  BY DEF Rows

\* What a handler of each kind is.
LEMMA HandlerIs ==
    /\ \A name, reads, args, later, counted :
          /\ Handler(name, reads, args, later, counted).name = name
          /\ Handler(name, reads, args, later, counted).args = args
    /\ \A name, reads, args : H(name, reads, args).name = name /\ H(name, reads, args).args = args
    /\ \A name, args : Out(name, args).name = name /\ Out(name, args).args = WithHandle(args)
  BY DEF Handler, H, Out

\* The handler of that name calls the API as an API with these parameters is declared.
Fits(handler, params) == \A h \in Handlers : h.name = handler => Widths(h.args) = Widths(params)

\* A log level and a power mode are passed as the unsigned they are made of.
LEMMA SameWidths ==
    /\ Widths(WithHandle(<<"RMH_PowerMode*">>)) = Widths(WithHandle(<<"uint32_t*">>))
    /\ Widths(WithHandle(<<"RMH_LogLevel*">>)) = Widths(WithHandle(<<"uint32_t*">>))
    /\ Widths(WithHandle(<<"RMH_LogLevel">>)) = Widths(WithHandle(<<"uint32_t">>))
<1>1. ASSUME NEW x, NEW y, SameWidth(x) = SameWidth(y)
      PROVE  Widths(WithHandle(<<x>>)) = Widths(WithHandle(<<y>>))
  <2>. DEFINE S == {"RMH_Handle", x, y}
              s == WithHandle(<<x>>)
              t == WithHandle(<<y>>)
  <2>1. /\ s \in Seq(S) /\ Len(s) = 2 /\ s[1] = "RMH_Handle" /\ s[2] = x
        /\ t \in Seq(S) /\ Len(t) = 2 /\ t[1] = "RMH_Handle" /\ t[2] = y
    BY DEF WithHandle
  <2>. HIDE DEF S, s, t
  <2>2. DOMAIN s = 1 .. 2 /\ DOMAIN t = 1 .. 2
    BY <2>1
  <2>3. \A i \in 1 .. 2 : SameWidth(s[i]) = SameWidth(t[i])
    BY <1>1, <2>1
  <2>4. Widths(s) = Widths(t)
    BY <2>2, <2>3 DEF Widths
  <2>. QED
    BY <2>4 DEF s, t
<1>. QED
  BY <1>1 DEF SameWidth

\* The names of the handlers, section by section.
NumberNames ==
    { "RMHApp__OUT_UINT32", "RMHApp__OUT_UINT32_HEX", "RMHApp__OUT_INT32",
      "RMHApp__OUT_UINT32_ARRAY", "RMHApp__OUT_MAC_ARRAY" }
NodeNames ==
    { "RMHApp__IN_UINT32_OUT_UINT32", "RMHApp__IN_UINT32_IN_UINT32",
      "RMHApp__IN_UINT32_OUT_INT32", "RMHApp__IN_UINT32_OUT_FLOAT" }
BoolTextNames ==
    { "RMHApp__OUT_BOOL", "RMHApp__IN_UINT32_OUT_BOOL", "RMHApp__OUT_STRING",
      "RMHApp__OUT_UINT8_ARRAY", "RMHApp__IN_UINT32_OUT_STRING", "RMHApp__IN_RMH_ENUM" }
MacNames ==
    { "RMHApp__OUT_MAC", "RMHApp__IN_MAC", "RMHApp__IN_MAC_OUT_UINT32",
      "RMHApp__IN_MAC_OUT_MAC", "RMHApp__IN_UINT32_OUT_MAC" }
EnumNames ==
    { "RMHApp__OUT_POWER_MODE", "RMHApp__IN_POWER_MODE", "RMHApp__OUT_BAND",
      "RMHApp__OUT_LINK_STATUS", "RMHApp__OUT_MOCA_VERSION",
      "RMHApp__IN_UINT32_OUT_MOCA_VERSION", "RMHApp__OUT_LOGLEVEL" }
NodeListNames ==
    { "RMHApp__OUT_UINT32_NODELIST", "RMHApp__OUT_UINT32_NODEMESH" }
SetNames ==
    { "RMHApp__IN_BOOL", "RMHApp__IN_UINT32", "RMHApp__IN_INT32",
      "RMHApp__IN_UINT32_HEX", "RMHApp__IN_STRING", "RMHApp__IN_LOGLEVEL",
      "RMHApp__PRINT_STATUS", "RMHApp__HANDLE_ONLY", "RMHApp__LOCAL_HANDLE_ONLY" }
TabooAcaNames ==
    { "RMHApp__GET_TABOO", "RMHApp__SET_TABOO", "RMHApp__OUT_ACA_TYPE",
      "RMHApp__OUT_ACA_STATUS", "RMHApp__REQUEST_ACA" }
ResetModulationNames ==
    { "RMHApp__MoCA_RESET", "RMHApp__OUT_RESET_REASON", "RMHApp__OUT_MODULATION" }

\* A name tells the section.
LEMMA SectionOf ==
    \A h \in Handlers :
        /\ h.name \in NumberNames => h \in NumberHandlers
        /\ h.name \in NodeNames => h \in NodeHandlers
        /\ h.name \in BoolTextNames => h \in BoolTextHandlers
        /\ h.name \in MacNames => h \in MacHandlers
        /\ h.name \in EnumNames => h \in EnumHandlers
        /\ h.name \in NodeListNames => h \in NodeListHandlers
        /\ h.name \in SetNames => h \in SetHandlers
        /\ h.name \in TabooAcaNames => h \in TabooAcaHandlers
        /\ h.name \in ResetModulationNames => h \in ResetModulationHandlers
<1>1. \A h \in NumberHandlers : h.name \in NumberNames
  BY HandlerIs DEF NumberHandlers, NumberNames
<1>2. \A h \in NodeHandlers : h.name \in NodeNames
  BY HandlerIs DEF NodeHandlers, NodeNames
<1>3. \A h \in BoolTextHandlers : h.name \in BoolTextNames
  BY HandlerIs DEF BoolTextHandlers, BoolTextNames
<1>4. \A h \in MacHandlers : h.name \in MacNames
  BY HandlerIs DEF MacHandlers, MacNames
<1>5. \A h \in EnumHandlers : h.name \in EnumNames
  BY HandlerIs DEF EnumHandlers, EnumNames
<1>6. \A h \in NodeListHandlers : h.name \in NodeListNames
  BY HandlerIs DEF NodeListHandlers, NodeListNames
<1>7. \A h \in SetHandlers : h.name \in SetNames
  BY HandlerIs DEF SetHandlers, SetNames
<1>8. \A h \in TabooAcaHandlers : h.name \in TabooAcaNames
  BY HandlerIs DEF TabooAcaHandlers, TabooAcaNames
<1>9. \A h \in ResetModulationHandlers : h.name \in ResetModulationNames
  BY HandlerIs DEF ResetModulationHandlers, ResetModulationNames
<1>. QED
  BY <1>1, <1>2, <1>3, <1>4, <1>5, <1>6, <1>7, <1>8, <1>9
  DEF Handlers, NumberNames, NodeNames, BoolTextNames, MacNames, EnumNames, NodeListNames,
      SetNames, TabooAcaNames, ResetModulationNames

\* What the handlers call, section by section of the handlers.
LEMMA NumberPrototypes ==
    /\ Fits("RMHApp__OUT_UINT32", WithHandle(<<"uint32_t*">>))
    /\ Fits("RMHApp__OUT_UINT32_HEX", WithHandle(<<"uint32_t*">>))
    /\ Fits("RMHApp__OUT_INT32", WithHandle(<<"int32_t*">>))
    /\ Fits("RMHApp__OUT_UINT32_ARRAY", WithHandle(<<"uint32_t*", "size_t", "size_t*">>))
    /\ Fits("RMHApp__OUT_MAC_ARRAY", WithHandle(<<"RMH_MacAddress_t*", "size_t", "size_t*">>))
  BY SectionOf, HandlerIs, SameWidths DEF Fits, NumberHandlers, NumberNames

\* NodeHandlers.
LEMMA NodePrototypes ==
    /\ Fits("RMHApp__IN_UINT32_OUT_UINT32", WithHandle(<<"uint32_t", "uint32_t*">>))
    /\ Fits("RMHApp__IN_UINT32_IN_UINT32", WithHandle(<<"uint32_t", "uint32_t">>))
    /\ Fits("RMHApp__IN_UINT32_OUT_FLOAT", WithHandle(<<"uint32_t", "float*">>))
  BY SectionOf, HandlerIs, SameWidths DEF Fits, NodeHandlers, NodeNames

\* BoolTextHandlers.
LEMMA BoolTextPrototypes ==
    /\ Fits("RMHApp__OUT_BOOL", WithHandle(<<"bool*">>))
    /\ Fits("RMHApp__IN_UINT32_OUT_BOOL", WithHandle(<<"uint32_t", "bool*">>))
    /\ Fits("RMHApp__OUT_STRING", WithHandle(<<"char*", "size_t">>))
    /\ Fits("RMHApp__OUT_UINT8_ARRAY", WithHandle(<<"uint8_t*", "size_t", "size_t*">>))
    /\ Fits("RMHApp__IN_RMH_ENUM", <<"RMH_Result">>)
  BY SectionOf, HandlerIs, SameWidths DEF Fits, BoolTextHandlers, BoolTextNames

\* MacHandlers.
LEMMA MacPrototypes ==
    /\ Fits("RMHApp__OUT_MAC", WithHandle(<<"RMH_MacAddress_t*">>))
    /\ Fits("RMHApp__IN_MAC", WithHandle(<<"RMH_MacAddress_t">>))
    /\ Fits("RMHApp__IN_MAC_OUT_UINT32", WithHandle(<<"RMH_MacAddress_t", "uint32_t*">>))
    /\ Fits("RMHApp__IN_MAC_OUT_MAC", WithHandle(<<"RMH_MacAddress_t", "RMH_MacAddress_t*">>))
    /\ Fits("RMHApp__IN_UINT32_OUT_MAC", WithHandle(<<"uint32_t", "RMH_MacAddress_t*">>))
  BY SectionOf, HandlerIs, SameWidths DEF Fits, MacHandlers, MacNames

\* EnumHandlers; a level and a mode travel as the unsigned.
LEMMA EnumPrototypes ==
    /\ Fits("RMHApp__OUT_POWER_MODE", WithHandle(<<"RMH_PowerMode*">>))
    /\ Fits("RMHApp__OUT_POWER_MODE", WithHandle(<<"uint32_t*">>))
    /\ Fits("RMHApp__IN_POWER_MODE", WithHandle(<<"RMH_PowerMode">>))
    /\ Fits("RMHApp__OUT_BAND", WithHandle(<<"RMH_Band*">>))
    /\ Fits("RMHApp__OUT_LINK_STATUS", WithHandle(<<"RMH_LinkStatus*">>))
    /\ Fits("RMHApp__OUT_MOCA_VERSION", WithHandle(<<"RMH_MoCAVersion*">>))
    /\ Fits("RMHApp__IN_UINT32_OUT_MOCA_VERSION", WithHandle(<<"uint32_t", "RMH_MoCAVersion*">>))
    /\ Fits("RMHApp__OUT_LOGLEVEL", WithHandle(<<"RMH_LogLevel*">>))
    /\ Fits("RMHApp__OUT_LOGLEVEL", WithHandle(<<"uint32_t*">>))
  BY SectionOf, HandlerIs, SameWidths DEF Fits, EnumHandlers, EnumNames

\* NodeListHandlers.
LEMMA NodeListPrototypes ==
    /\ Fits("RMHApp__OUT_UINT32_NODELIST", WithHandle(<<"RMH_NodeList_Uint32_t*">>))
    /\ Fits("RMHApp__OUT_UINT32_NODEMESH", WithHandle(<<"RMH_NodeMesh_Uint32_t*">>))
  BY SectionOf, HandlerIs, SameWidths DEF Fits, NodeListHandlers, NodeListNames

\* SetHandlers.
LEMMA SetPrototypes ==
    /\ Fits("RMHApp__IN_BOOL", WithHandle(<<"bool">>))
    /\ Fits("RMHApp__IN_UINT32", WithHandle(<<"uint32_t">>))
    /\ Fits("RMHApp__IN_INT32", WithHandle(<<"int32_t">>))
    /\ Fits("RMHApp__IN_UINT32_HEX", WithHandle(<<"uint32_t">>))
    /\ Fits("RMHApp__IN_STRING", WithHandle(<<"char*">>))
    /\ Fits("RMHApp__IN_LOGLEVEL", WithHandle(<<"RMH_LogLevel">>))
    /\ Fits("RMHApp__IN_LOGLEVEL", WithHandle(<<"uint32_t">>))
    /\ Fits("RMHApp__PRINT_STATUS", WithHandle(<<"char*">>))
    /\ Fits("RMHApp__HANDLE_ONLY", WithHandle(<<>>))
  BY SectionOf, HandlerIs, SameWidths DEF Fits, SetHandlers, SetNames

\* TabooAcaHandlers.
LEMMA TabooAcaPrototypes ==
    /\ Fits("RMHApp__GET_TABOO", WithHandle(<<"uint32_t*", "uint32_t*">>))
    /\ Fits("RMHApp__SET_TABOO", WithHandle(<<"uint32_t", "uint32_t">>))
    /\ Fits("RMHApp__OUT_ACA_TYPE", WithHandle(<<"RMH_ACAType*">>))
    /\ Fits("RMHApp__OUT_ACA_STATUS", WithHandle(<<"RMH_ACAStatus*">>))
    /\ Fits("RMHApp__REQUEST_ACA",
          WithHandle(<<"uint32_t", "uint32_t", "uint32_t", "RMH_ACAType">>))
  BY SectionOf, HandlerIs, SameWidths DEF Fits, TabooAcaHandlers, TabooAcaNames

\* ResetModulationHandlers.
LEMMA ResetModulationPrototypes ==
    /\ Fits("RMHApp__MoCA_RESET", WithHandle(<<"uint32_t", "uint32_t">>))
    /\ Fits("RMHApp__OUT_RESET_REASON", WithHandle(<<"RMH_MoCAResetReason*">>))
    /\ Fits("RMHApp__OUT_MODULATION",
          WithHandle(<<"uint32_t", "RMH_PERMode", "RMH_SubcarrierProfile*", "size_t", "size_t*">>))
  BY SectionOf, HandlerIs, SameWidths DEF Fits, ResetModulationHandlers, ResetModulationNames

-----------------------------------------------------------------------------
(* Sizes of sets.                                                          *)

\* S has at most n elements.
Small(S, n) == IsFiniteSet(S) /\ Cardinality(S) <= n

\* Two of them together.
LEMMA SmallUnion ==
    ASSUME NEW S, NEW T, NEW m \in Nat, NEW n \in Nat, NEW k \in Nat,
           Small(S, m), Small(T, n), m + n <= k
    PROVE  Small(S \cup T, k)
<1>1. /\ IsFiniteSet(S \cup T)
      /\ Cardinality(S \cup T) = Cardinality(S) + Cardinality(T) - Cardinality(S \cap T)
  BY FS_Union DEF Small
<1>2. IsFiniteSet(S \cap T)
  BY FS_Subset DEF Small
<1>3. Cardinality(S) \in Nat /\ Cardinality(T) \in Nat /\ Cardinality(S \cap T) \in Nat
  BY <1>2, FS_CardinalityType DEF Small
<1>. QED
  BY <1>1, <1>3 DEF Small

\* A part of one.
LEMMA SmallSubset ==
    ASSUME NEW S, NEW n \in Nat, Small(S, n), NEW T \in SUBSET S
    PROVE  Small(T, n)
  BY FS_Subset, FS_CardinalityType DEF Small

\* As many elements as are listed.
LEMMA SmallFew ==
    /\ \A a : Small({a}, 1)
    /\ \A a, b : Small({a, b}, 2)
    /\ \A a, b, c : Small({a, b, c}, 3)
    /\ \A a, b, c, d : Small({a, b, c, d}, 4)
    /\ \A a, b, c, d, e : Small({a, b, c, d, e}, 5)
<1>1. ASSUME NEW a PROVE Small({a}, 1)
  <2>1. IsFiniteSet({a}) /\ Cardinality({a}) = 1
    BY FS_Singleton, Zenon
  <2>. QED
    BY <2>1 DEF Small
<1>2. ASSUME NEW a, NEW b PROVE Small({a, b}, 2)
  <2>1. {a, b} = {a} \cup {b}
    OBVIOUS
  <2>2. Small({a}, 1) /\ Small({b}, 1)
    BY <1>1, <1>1
  <2>3. Small({a} \cup {b}, 2)
    BY <2>2, SmallUnion
  <2>. QED
    BY <2>1, <2>3
<1>3. ASSUME NEW a, NEW b, NEW c PROVE Small({a, b, c}, 3)
  <2>1. {a, b, c} = {a, b} \cup {c}
    OBVIOUS
  <2>2. Small({a, b}, 2) /\ Small({c}, 1)
    BY <1>1, <1>2
  <2>3. Small({a, b} \cup {c}, 3)
    BY <2>2, SmallUnion
  <2>. QED
    BY <2>1, <2>3
<1>4. ASSUME NEW a, NEW b, NEW c, NEW d PROVE Small({a, b, c, d}, 4)
  <2>1. {a, b, c, d} = {a, b, c} \cup {d}
    OBVIOUS
  <2>2. Small({a, b, c}, 3) /\ Small({d}, 1)
    BY <1>1, <1>3
  <2>3. Small({a, b, c} \cup {d}, 4)
    BY <2>2, SmallUnion
  <2>. QED
    BY <2>1, <2>3
<1>5. ASSUME NEW a, NEW b, NEW c, NEW d, NEW e PROVE Small({a, b, c, d, e}, 5)
  <2>1. {a, b, c, d, e} = {a, b, c, d} \cup {e}
    OBVIOUS
  <2>2. Small({a, b, c, d}, 4) /\ Small({e}, 1)
    BY <1>1, <1>4
  <2>3. Small({a, b, c, d} \cup {e}, 5)
    BY <2>2, SmallUnion
  <2>. QED
    BY <2>1, <2>3
<1>. QED
  BY <1>1, <1>2, <1>3, <1>4, <1>5

\* A function does not make more of them.
LEMMA SmallImage ==
    ASSUME NEW S, NEW n \in Nat, Small(S, n), NEW f, f = [x \in S |-> f[x]]
    PROVE  Small({f[x] : x \in S}, n)
<1>. DEFINE T == {f[x] : x \in S}
<1>1. f \in Surjection(S, T)
  BY DEF Surjection
<1>2. IsFiniteSet(T) /\ Cardinality(T) <= Cardinality(S)
  BY <1>1, FS_Surjection DEF Small
<1>. QED
  BY <1>2, FS_CardinalityType DEF Small

\* As many APIs as names.
LEMMA SmallRows ==
    ASSUME NEW names, NEW n \in Nat, Small(names, n), NEW params, NEW tags
    PROVE  /\ Small(Soc(names, params, tags), n)
           /\ Small(Generic(names, params, tags), n)
           /\ Small(Both(names, params, tags), n)
           /\ Small(Plain(names, params, tags), n)
<1>1. ASSUME NEW soc, NEW generic, NEW wrapped, NEW types
      PROVE  Small({Api(x, soc, generic, wrapped, types, tags) : x \in names}, n)
  <2>. DEFINE f == [x \in names |-> Api(x, soc, generic, wrapped, types, tags)]
  <2>1. /\ f = [x \in names |-> f[x]]
        /\ \A x \in names : f[x] = Api(x, soc, generic, wrapped, types, tags)
    OBVIOUS
  <2>2. {f[x] : x \in names} = {Api(x, soc, generic, wrapped, types, tags) : x \in names}
    BY <2>1
  <2>. HIDE DEF f
  <2>. QED
    BY <2>1, <2>2, SmallImage
<1>2. Small(Soc(names, params, tags), n)
  BY <1>1 DEF Soc
<1>3. Small(Generic(names, params, tags), n)
  BY <1>1 DEF Generic
<1>4. Small(Both(names, params, tags), n)
  BY <1>1 DEF Both
<1>5. Small(Plain(names, params, tags), n)
  BY <1>1 DEF Plain
<1>. QED
  BY <1>2, <1>3, <1>4, <1>5

\* A few rows.
LEMMA FewRows ==
    /\ \A a, p, t : Small(Soc({a}, p, t), 1)
    /\ \A a, b, p, t : Small(Soc({a, b}, p, t), 2)
    /\ \A a, b, c, p, t : Small(Soc({a, b, c}, p, t), 3)
    /\ \A a, b, c, d, p, t : Small(Soc({a, b, c, d}, p, t), 4)
    /\ \A a, b, c, d, e, p, t : Small(Soc({a, b, c, d, e}, p, t), 5)
    /\ \A a, p, t : Small(Generic({a}, p, t), 1)
    /\ \A a, b, p, t : Small(Generic({a, b}, p, t), 2)
    /\ \A a, p, t : Small(Both({a}, p, t), 1)
    /\ \A a, p, t : Small(Plain({a}, p, t), 1)
    /\ \A a, b, p, t : Small(Plain({a, b}, p, t), 2)
  BY SmallFew, SmallRows

\* Two of them together, for the numbers of one section.
LEMMA FewMore ==
    /\ \A S, T : Small(S, 1) /\ Small(T, 1) => Small(S \cup T, 2)
    /\ \A S, T : Small(S, 1) /\ Small(T, 2) => Small(S \cup T, 3)
    /\ \A S, T : Small(S, 2) /\ Small(T, 1) => Small(S \cup T, 3)
    /\ \A S, T : Small(S, 1) /\ Small(T, 3) => Small(S \cup T, 4)
    /\ \A S, T : Small(S, 2) /\ Small(T, 2) => Small(S \cup T, 4)
    /\ \A S, T : Small(S, 3) /\ Small(T, 1) => Small(S \cup T, 4)
    /\ \A S, T : Small(S, 1) /\ Small(T, 4) => Small(S \cup T, 5)
    /\ \A S, T : Small(S, 2) /\ Small(T, 3) => Small(S \cup T, 5)
    /\ \A S, T : Small(S, 3) /\ Small(T, 2) => Small(S \cup T, 5)
    /\ \A S, T : Small(S, 4) /\ Small(T, 1) => Small(S \cup T, 5)
  BY SmallUnion

\* A section has five APIs at most.
LEMMA SmallIsFive ==
    ASSUME NEW S, NEW n \in 1 .. 5, Small(S, n)
    PROVE  Small(S, 5)
  BY FS_CardinalityType DEF Small

\* How many APIs the sections have.
LEMMA SmallSections ==
    /\ Small(HandleApis, 5) /\ Small(ListApis, 5) /\ Small(TextApis1, 5)
    /\ Small(TextApis2, 5) /\ Small(TextApis3, 5) /\ Small(EnableApis, 5)
    /\ Small(ScanApis, 5) /\ Small(OffsetApis, 5) /\ Small(FrequencyApis, 5)
    /\ Small(FrameApis, 5) /\ Small(BandApis, 5) /\ Small(QAMApis, 5)
    /\ Small(ChannelRateApis, 5) /\ Small(LinkApis, 5) /\ Small(PrivacyApis, 5)
    /\ Small(ResetApis, 5) /\ Small(InterfaceApis, 5) /\ Small(PowerModeApis, 5)
    /\ Small(BeaconPowerApis, 5) /\ Small(NodeIdApis, 5) /\ Small(NCApis, 5)
    /\ Small(ChannelFreqApis, 5) /\ Small(TxRateApis, 5) /\ Small(MeshApis, 5)
    /\ Small(BondingApis, 5) /\ Small(RemoteIdApis, 5) /\ Small(RemoteCapabilityApis, 5)
    /\ Small(RemoteRxRateApis, 5) /\ Small(RemoteRxErrorApis, 5) /\ Small(RemoteTxApis, 5)
    /\ Small(ModulationApis1, 5) /\ Small(ModulationApis2, 5) /\ Small(ConstellationApis, 5)
    /\ Small(FlowLimitApis, 5) /\ Small(FlowApis, 5) /\ Small(FlowTimeApis, 5)
    /\ Small(FlowRuleApis, 5) /\ Small(FlowClassApis, 5) /\ Small(FlowMacApis, 5)
    /\ Small(BandwidthApis, 5) /\ Small(AdmissionApis, 5) /\ Small(AdmissionFailureApis, 5)
    /\ Small(TotalPacketApis, 5) /\ Small(CastPacketApis, 5) /\ Small(ControlPacketApis, 5)
    /\ Small(BeaconApis, 5) /\ Small(ErrorApis, 5) /\ Small(AggregationApis, 5)
    /\ Small(StatsResetApis, 5) /\ Small(LogLevelApis, 5) /\ Small(LogPrintApis, 5)
    /\ Small(LogModulationApis, 5) /\ Small(ACARequestApis, 5) /\ Small(ACAResultApis, 5)
<1>1. /\ Small(HandleApis, 5) /\ Small(ListApis, 5)
      /\ Small(TextApis1, 5) /\ Small(TextApis2, 5)
      /\ Small(TextApis3, 2) /\ Small(EnableApis, 5)
  BY FewRows, FewMore
  DEF HandleApis, ListApis, TextApis1, TextApis2, TextApis3, EnableApis
<1>2. /\ Small(ScanApis, 5) /\ Small(OffsetApis, 5)
      /\ Small(FrequencyApis, 4) /\ Small(FrameApis, 5)
      /\ Small(BandApis, 5) /\ Small(QAMApis, 5)
  BY FewRows, FewMore
  DEF ScanApis, OffsetApis, FrequencyApis, FrameApis, BandApis, QAMApis
<1>3. /\ Small(ChannelRateApis, 5) /\ Small(LinkApis, 5)
      /\ Small(PrivacyApis, 5) /\ Small(ResetApis, 3)
      /\ Small(InterfaceApis, 5) /\ Small(PowerModeApis, 5)
  BY FewRows, FewMore
  DEF ChannelRateApis, LinkApis, PrivacyApis, ResetApis, InterfaceApis, PowerModeApis
<1>4. /\ Small(BeaconPowerApis, 5) /\ Small(NodeIdApis, 5)
      /\ Small(NCApis, 5) /\ Small(ChannelFreqApis, 5)
      /\ Small(TxRateApis, 5) /\ Small(MeshApis, 5)
  BY FewRows, FewMore
  DEF BeaconPowerApis, NodeIdApis, NCApis, ChannelFreqApis, TxRateApis, MeshApis
<1>5. /\ Small(BondingApis, 1) /\ Small(RemoteIdApis, 5)
      /\ Small(RemoteCapabilityApis, 5) /\ Small(RemoteRxRateApis, 5)
      /\ Small(RemoteRxErrorApis, 5) /\ Small(RemoteTxApis, 5)
  BY FewRows, FewMore
  DEF BondingApis, RemoteIdApis, RemoteCapabilityApis, RemoteRxRateApis, RemoteRxErrorApis,
      RemoteTxApis
<1>6. /\ Small(ModulationApis1, 4) /\ Small(ModulationApis2, 5)
      /\ Small(ConstellationApis, 5) /\ Small(FlowLimitApis, 2)
      /\ Small(FlowApis, 4) /\ Small(FlowTimeApis, 5)
  BY FewRows, FewMore
  DEF ModulationApis1, ModulationApis2, ConstellationApis, FlowLimitApis, FlowApis, FlowTimeApis
<1>7. /\ Small(FlowRuleApis, 5) /\ Small(FlowClassApis, 5)
      /\ Small(FlowMacApis, 3) /\ Small(BandwidthApis, 2)
      /\ Small(AdmissionApis, 5) /\ Small(AdmissionFailureApis, 5)
  BY FewRows, FewMore
  DEF FlowRuleApis, FlowClassApis, FlowMacApis, BandwidthApis, AdmissionApis, AdmissionFailureApis
<1>8. /\ Small(TotalPacketApis, 5) /\ Small(CastPacketApis, 5)
      /\ Small(ControlPacketApis, 5) /\ Small(BeaconApis, 5)
      /\ Small(ErrorApis, 5) /\ Small(AggregationApis, 5)
  BY FewRows, FewMore
  DEF TotalPacketApis, CastPacketApis, ControlPacketApis, BeaconApis, ErrorApis, AggregationApis
<1>9. /\ Small(StatsResetApis, 1) /\ Small(LogLevelApis, 5)
      /\ Small(LogPrintApis, 5) /\ Small(LogModulationApis, 1)
      /\ Small(ACARequestApis, 5) /\ Small(ACAResultApis, 3)
  BY FewRows, FewMore
  DEF StatsResetApis, LogLevelApis, LogPrintApis, LogModulationApis, ACARequestApis, ACAResultApis
<1>. QED
  BY SmallIsFive, <1>1, <1>2, <1>3, <1>4, <1>5, <1>6, <1>7, <1>8, <1>9

-----------------------------------------------------------------------------
(* How many APIs there are.                                                *)

\* Six sets of the same size.
LEMMA SixSmall ==
    ASSUME NEW n \in Nat, NEW A, NEW B, NEW C, NEW D, NEW E, NEW F,
           Small(A, n), Small(B, n), Small(C, n), Small(D, n), Small(E, n), Small(F, n)
    PROVE  Small(UNION {A, B, C, D, E, F}, 6 * n)
<1>1. Small(A \cup B, 2 * n) /\ Small(C \cup D, 2 * n) /\ Small(E \cup F, 2 * n)
  BY SmallUnion
<1>2. Small((A \cup B) \cup (C \cup D), 4 * n)
  BY <1>1, SmallUnion
<1>3. Small(((A \cup B) \cup (C \cup D)) \cup (E \cup F), 6 * n)
  BY <1>1, <1>2, SmallUnion
<1>4. UNION {A, B, C, D, E, F} = ((A \cup B) \cup (C \cup D)) \cup (E \cup F)
  OBVIOUS
<1>. QED
  BY <1>3, <1>4

\* Six sections.
LEMMA SixFives ==
    ASSUME NEW A, NEW B, NEW C, NEW D, NEW E, NEW F,
           Small(A, 5), Small(B, 5), Small(C, 5), Small(D, 5), Small(E, 5), Small(F, 5)
    PROVE  Small(UNION {A, B, C, D, E, F}, 30)
<1>1. Small(UNION {A, B, C, D, E, F}, 6 * 5)
  BY SixSmall
<1>. QED
  BY <1>1

\* How many APIs there are (240, counted by sections of five).
LEMMA AllApisSmall == Small(AllApis, 270)
<1>. DEFINE G1 == UNION {HandleApis, ListApis, TextApis1, TextApis2, TextApis3, EnableApis}
            G2 == UNION {ScanApis, OffsetApis, FrequencyApis, FrameApis, BandApis, QAMApis}
            G3 == UNION {ChannelRateApis, LinkApis, PrivacyApis, ResetApis, InterfaceApis,
                        PowerModeApis}
            G4 == UNION {BeaconPowerApis, NodeIdApis, NCApis, ChannelFreqApis, TxRateApis,
                        MeshApis}
            G5 == UNION {BondingApis, RemoteIdApis, RemoteCapabilityApis, RemoteRxRateApis,
                        RemoteRxErrorApis, RemoteTxApis}
            G6 == UNION {ModulationApis1, ModulationApis2, ConstellationApis, FlowLimitApis,
                        FlowApis, FlowTimeApis}
            G7 == UNION {FlowRuleApis, FlowClassApis, FlowMacApis, BandwidthApis, AdmissionApis,
                        AdmissionFailureApis}
            G8 == UNION {TotalPacketApis, CastPacketApis, ControlPacketApis, BeaconApis,
                        ErrorApis, AggregationApis}
            G9 == UNION {StatsResetApis, LogLevelApis, LogPrintApis, LogModulationApis,
                        ACARequestApis, ACAResultApis}
<1>1. Small(G1, 30)
  BY SmallSections, SixFives
<1>2. Small(G2, 30)
  BY SmallSections, SixFives
<1>3. Small(G3, 30)
  BY SmallSections, SixFives
<1>4. Small(G4, 30)
  BY SmallSections, SixFives
<1>5. Small(G5, 30)
  BY SmallSections, SixFives
<1>6. Small(G6, 30)
  BY SmallSections, SixFives
<1>7. Small(G7, 30)
  BY SmallSections, SixFives
<1>8. Small(G8, 30)
  BY SmallSections, SixFives
<1>9. Small(G9, 30)
  BY SmallSections, SixFives
<1>10. \A a \in AllApis : \/ a \in G1 \/ a \in G2 \/ a \in G3 \/ a \in G4 \/ a \in G5
                           \/ a \in G6 \/ a \in G7 \/ a \in G8 \/ a \in G9
  BY DEF AllApis
<1>. HIDE DEF G1, G2, G3, G4, G5, G6, G7, G8, G9
<1>11. Small(UNION {G1, G2, G3, G4, G5, G6}, 180)
  <2>1. Small(UNION {G1, G2, G3, G4, G5, G6}, 6 * 30)
    BY <1>1, <1>2, <1>3, <1>4, <1>5, <1>6, SixSmall
  <2>. QED
    BY <2>1
<1>12. Small(G8 \cup G9, 60)
  BY <1>8, <1>9, SmallUnion
<1>13. Small(G7 \cup (G8 \cup G9), 90)
  BY <1>7, <1>12, SmallUnion
<1>14. Small((UNION {G1, G2, G3, G4, G5, G6}) \cup (G7 \cup (G8 \cup G9)), 270)
  BY <1>11, <1>13, SmallUnion
<1>15. AllApis \subseteq (UNION {G1, G2, G3, G4, G5, G6}) \cup (G7 \cup (G8 \cup G9))
  BY <1>10
<1>. QED
  BY <1>14, <1>15, SmallSubset

\* How many parameters with the handle.
LEMMA LenWithHandle ==
    /\ Len(WithHandle(<<>>)) = 1
    /\ \A a : Len(WithHandle(<<a>>)) = 2
    /\ \A a, b : Len(WithHandle(<<a, b>>)) = 3
    /\ \A a, b, c : Len(WithHandle(<<a, b, c>>)) = 4
    /\ \A a, b, c, d : Len(WithHandle(<<a, b, c, d>>)) = 5
    /\ \A a, b, c, d, e : Len(WithHandle(<<a, b, c, d, e>>)) = 6
  BY DEF WithHandle

-----------------------------------------------------------------------------
(* How many entries a search writes.                                       *)

\* The sections with an API of three parameters or more, the handle included, and those with
\* one of five or more.
LongApis ==
    UNION {TextApis2, OffsetApis, BandApis, LinkApis, PrivacyApis, InterfaceApis, MeshApis,
           RemoteIdApis, RemoteCapabilityApis, RemoteRxRateApis, RemoteRxErrorApis, RemoteTxApis,
           ModulationApis1, ModulationApis2, ConstellationApis, FlowApis, FlowTimeApis,
           FlowRuleApis, FlowClassApis, FlowMacApis, AggregationApis, LogLevelApis, LogPrintApis,
           ACARequestApis, ACAResultApis}

LongestApis == UNION {ModulationApis1, ModulationApis2, ACARequestApis}

\* How many of them there are.
LEMMA LongApisSmall == Small(LongApis, 125)
<1>. DEFINE G1 == UNION {TextApis2, OffsetApis, BandApis, LinkApis, PrivacyApis, InterfaceApis}
            G2 == UNION {MeshApis, RemoteIdApis, RemoteCapabilityApis, RemoteRxRateApis,
                        RemoteRxErrorApis, RemoteTxApis}
            G3 == UNION {ModulationApis1, ModulationApis2, ConstellationApis, FlowApis,
                        FlowTimeApis, FlowRuleApis}
            G4 == UNION {FlowClassApis, FlowMacApis, AggregationApis, LogLevelApis, LogPrintApis,
                        ACARequestApis}
            G == G1 \cup (G2 \cup (G3 \cup (G4 \cup ACAResultApis)))
<1>1. Small(G1, 30)
  BY SmallSections, SixFives
<1>2. Small(G2, 30)
  BY SmallSections, SixFives
<1>3. Small(G3, 30)
  BY SmallSections, SixFives
<1>4. Small(G4, 30)
  BY SmallSections, SixFives
<1>5. \A a \in LongApis : a \in G1 \/ a \in G2 \/ a \in G3 \/ a \in G4 \/ a \in ACAResultApis
  BY DEF LongApis
<1>6. Small(ACAResultApis, 5)
  BY SmallSections
<1>. HIDE DEF G1, G2, G3, G4
<1>7. Small(G4 \cup ACAResultApis, 35)
  BY <1>4, <1>6, SmallUnion
<1>8. Small(G3 \cup (G4 \cup ACAResultApis), 65)
  BY <1>3, <1>7, SmallUnion
<1>9. Small(G2 \cup (G3 \cup (G4 \cup ACAResultApis)), 95)
  BY <1>2, <1>8, SmallUnion
<1>10. Small(G, 125)
  BY <1>1, <1>9, SmallUnion
<1>11. LongApis \subseteq G
  BY <1>5
<1>. QED
  BY <1>10, <1>11, SmallSubset

\* And of those with five parameters or more.
LEMMA LongestApisSmall == Small(LongestApis, 15)
<1>1. Small(ModulationApis2 \cup ACARequestApis, 10)
  BY SmallSections, SmallUnion
<1>2. Small(ModulationApis1 \cup (ModulationApis2 \cup ACARequestApis), 15)
  BY <1>1, SmallSections, SmallUnion
<1>3. LongestApis = ModulationApis1 \cup (ModulationApis2 \cup ACARequestApis)
  BY DEF LongestApis
<1>. QED
  BY <1>2, <1>3

\* How many parameters an API has.
LEMMA LengthBounds ==
    /\ LongestApis \subseteq LongApis
    /\ \A a \in LongestApis : Len(a.params) \in 0 .. 6
    /\ \A a \in LongApis \ LongestApis : Len(a.params) \in 0 .. 4
    /\ \A a \in AllApis \ LongApis : Len(a.params) \in 0 .. 2
<1>1. \A a \in LongestApis : Len(a.params) \in 0 .. 6
  BY LenWithHandle, SocRow DEF LongestApis, ModulationApis1, ModulationApis2, ACARequestApis
<1>2. \A a \in LongApis \ LongestApis : Len(a.params) \in 0 .. 4
  <2>1. \A a \in UNION {TextApis2, OffsetApis, BandApis, LinkApis, PrivacyApis, InterfaceApis,
                       MeshApis, RemoteIdApis} :
          Len(a.params) \in 0 .. 4
    BY LenWithHandle, SocRow, GenericRow, PlainRow
    DEF TextApis2, OffsetApis, BandApis, LinkApis, PrivacyApis, InterfaceApis, MeshApis,
        RemoteIdApis
  <2>2. \A a \in UNION {RemoteCapabilityApis, RemoteRxRateApis, RemoteRxErrorApis, RemoteTxApis,
                       ConstellationApis, FlowApis, FlowTimeApis, FlowRuleApis} :
          Len(a.params) \in 0 .. 4
    BY LenWithHandle, SocRow
    DEF RemoteCapabilityApis, RemoteRxRateApis, RemoteRxErrorApis, RemoteTxApis, ConstellationApis,
        FlowApis, FlowTimeApis, FlowRuleApis
  <2>3. \A a \in UNION {FlowClassApis, FlowMacApis, AggregationApis, LogLevelApis, LogPrintApis,
                       ACAResultApis} :
          Len(a.params) \in 0 .. 4
    BY LenWithHandle, SocRow, GenericRow, BothRow
    DEF FlowClassApis, FlowMacApis, AggregationApis, LogLevelApis, LogPrintApis, ACAResultApis
  <2>. QED
    BY <2>1, <2>2, <2>3 DEF LongApis, LongestApis
<1>3. \A a \in AllApis \ LongApis : Len(a.params) \in 0 .. 2
  <2>1. \A a \in UNION {HandleApis, ListApis, TextApis1, TextApis3, EnableApis, ScanApis,
                       FrequencyApis, FrameApis} :
          Len(a.params) \in 0 .. 2
    BY LenWithHandle, SocRow, GenericRow, BothRow, PlainRow
    DEF HandleApis, ListApis, TextApis1, TextApis3, EnableApis, ScanApis, FrequencyApis, FrameApis
  <2>2. \A a \in UNION {QAMApis, ChannelRateApis, ResetApis, PowerModeApis, BeaconPowerApis,
                       NodeIdApis, NCApis, ChannelFreqApis} :
          Len(a.params) \in 0 .. 2
    BY LenWithHandle, SocRow, GenericRow
    DEF QAMApis, ChannelRateApis, ResetApis, PowerModeApis, BeaconPowerApis, NodeIdApis, NCApis,
        ChannelFreqApis
  <2>3. \A a \in UNION {TxRateApis, BondingApis, FlowLimitApis, BandwidthApis, AdmissionApis,
                       AdmissionFailureApis, TotalPacketApis, CastPacketApis} :
          Len(a.params) \in 0 .. 2
    BY LenWithHandle, SocRow, GenericRow
    DEF TxRateApis, BondingApis, FlowLimitApis, BandwidthApis, AdmissionApis, AdmissionFailureApis,
        TotalPacketApis, CastPacketApis
  <2>4. \A a \in UNION {ControlPacketApis, BeaconApis, ErrorApis, StatsResetApis,
                       LogModulationApis} :
          Len(a.params) \in 0 .. 2
    BY LenWithHandle, SocRow, GenericRow
    DEF ControlPacketApis, BeaconApis, ErrorApis, StatsResetApis, LogModulationApis
  <2>. QED
    BY <2>1, <2>2, <2>3, <2>4 DEF AllApis, LongApis
<1>4. LongestApis \subseteq LongApis
  BY DEF LongApis, LongestApis
<1>. QED
  BY <1>1, <1>2, <1>3, <1>4

\* A search that matches every API and every parameter still fits the list of RMH_MAX_NUM_APIS:
\* most parameters of most APIs are one or two.
LEMMA LargestSearchBound == LargestSearch \in Nat /\ LargestSearch <= 820
<1>. DEFINE most(a) == IF Len(a.params) = 0 THEN 1 ELSE Len(a.params)
            longest == CHOOSE n \in {most(a) : a \in AllApis} : \A a \in AllApis : n >= most(a)
            withAtLeast(n) == Cardinality({a \in AllApis : most(a) >= n})
            upTo[n \in 0 .. longest] == IF n = 0 THEN 0 ELSE upTo[n - 1] + withAtLeast(n)
<1>1. LargestSearch = upTo[longest]
  BY DEF LargestSearch
<1>2. \A a \in AllApis : /\ most(a) \in 1 .. 6
                         /\ most(a) >= 3 => a \in LongApis
                         /\ most(a) >= 5 => a \in LongestApis
  <2>. SUFFICES ASSUME NEW a \in AllApis
                PROVE  /\ most(a) \in 1 .. 6
                       /\ most(a) >= 3 => a \in LongApis
                       /\ most(a) >= 5 => a \in LongestApis
    OBVIOUS
  <2>1. CASE a \in LongestApis
    BY <2>1, LengthBounds
  <2>2. CASE a \in LongApis \ LongestApis
    <3>1. Len(a.params) \in 0 .. 4 /\ a \in LongApis
      BY <2>2, LengthBounds
    <3>2. \A n \in 0 .. 4 : (IF n = 0 THEN 1 ELSE n) \in 1 .. 4
      OBVIOUS
    <3>3. most(a) \in 1 .. 4
      BY <3>1, <3>2
    <3>. HIDE DEF most
    <3>. QED
      BY <3>1, <3>3
  <2>3. CASE a \notin LongApis
    <3>1. Len(a.params) \in 0 .. 2
      BY <2>3, LengthBounds
    <3>2. \A n \in 0 .. 2 : (IF n = 0 THEN 1 ELSE n) \in 1 .. 2
      OBVIOUS
    <3>3. most(a) \in 1 .. 2
      BY <3>1, <3>2
    <3>. HIDE DEF most
    <3>. QED
      BY <3>1, <3>3
  <2>. QED
    BY <2>1, <2>2, <2>3
<1>3. longest = 6
  <2>1. PICK a \in AllApis : most(a) = 6
    <3>1. \A a \in ModulationApis1 : Len(a.params) = 6
      BY LenWithHandle, SocRow DEF ModulationApis1
    <3>2. \E a \in ModulationApis1 : TRUE
      BY DEF ModulationApis1, Soc
    <3>. QED
      BY <3>1, <3>2 DEF AllApis
  <2>. HIDE DEF most
  <2>2. 6 \in {most(b) : b \in AllApis} /\ \A b \in AllApis : 6 >= most(b)
    BY <1>2, <2>1
  <2>3. \A n \in {most(b) : b \in AllApis} : (\A b \in AllApis : n >= most(b)) => n = 6
    BY <1>2, <2>1
  <2>. QED
    BY <2>2, <2>3
<1>4. /\ \A n \in 1 .. 6 : withAtLeast(n) \in Nat /\ withAtLeast(n) <= 270
      /\ \A n \in 3 .. 6 : withAtLeast(n) <= 125
      /\ \A n \in 5 .. 6 : withAtLeast(n) <= 15
  <2>. DEFINE atLeast(n) == {a \in AllApis : most(a) >= n}
  <2>1. \A n \in 1 .. 6 : atLeast(n) \subseteq AllApis
    OBVIOUS
  <2>2. \A n \in 3 .. 6 : atLeast(n) \subseteq LongApis
    BY <1>2
  <2>3. \A n \in 5 .. 6 : atLeast(n) \subseteq LongestApis
    BY <1>2
  <2>. HIDE DEF atLeast
  <2>4. /\ \A n \in 1 .. 6 : Small(atLeast(n), 270)
        /\ \A n \in 3 .. 6 : Small(atLeast(n), 125)
        /\ \A n \in 5 .. 6 : Small(atLeast(n), 15)
    BY <2>1, <2>2, <2>3, AllApisSmall, LongApisSmall, LongestApisSmall, SmallSubset
  <2>5. /\ \A n \in 1 .. 6 : Cardinality(atLeast(n)) \in Nat /\ Cardinality(atLeast(n)) <= 270
        /\ \A n \in 3 .. 6 : Cardinality(atLeast(n)) <= 125
        /\ \A n \in 5 .. 6 : Cardinality(atLeast(n)) <= 15
    BY <2>4, FS_CardinalityType DEF Small
  <2>. QED
    BY <2>5 DEF atLeast
<1>5. upTo = [n \in 0 .. 6 |-> IF n = 0 THEN 0 ELSE upTo[n - 1] + withAtLeast(n)]
  <2>. DEFINE f == [n \in 0 .. 6 |->
                      IF n = 0 THEN 0
                      ELSE IF n = 1 THEN withAtLeast(1)
                      ELSE IF n = 2 THEN withAtLeast(1) + withAtLeast(2)
                      ELSE IF n = 3 THEN withAtLeast(1) + withAtLeast(2) + withAtLeast(3)
                      ELSE IF n = 4 THEN withAtLeast(1) + withAtLeast(2) + withAtLeast(3)
                                         + withAtLeast(4)
                      ELSE IF n = 5 THEN withAtLeast(1) + withAtLeast(2) + withAtLeast(3)
                                         + withAtLeast(4) + withAtLeast(5)
                      ELSE withAtLeast(1) + withAtLeast(2) + withAtLeast(3)
                           + withAtLeast(4) + withAtLeast(5) + withAtLeast(6)]
              g == [n \in 0 .. 6 |-> IF n = 0 THEN 0 ELSE f[n - 1] + withAtLeast(n)]
  <2>. HIDE DEF withAtLeast
  <2>1. \A n \in 0 .. 6 : f[n] = g[n]
    <3>1. f[0] = g[0] /\ f[1] = g[1] /\ f[2] = g[2] /\ f[3] = g[3]
      BY <1>4
    <3>2. f[4] = g[4] /\ f[5] = g[5] /\ f[6] = g[6]
      BY <1>4
    <3>. HIDE DEF f, g
    <3>. QED
      BY <3>1, <3>2
  <2>2. f = g
    BY <2>1
  <2>. HIDE DEF f
  <2>. QED
    BY <1>3, <2>2
<1>. HIDE DEF withAtLeast, upTo, longest
<1>6. upTo[6] \in Nat /\ upTo[6] <= 820
  <2>1. /\ upTo[0] = 0
        /\ \A n \in 1 .. 6 : upTo[n] = upTo[n - 1] + withAtLeast(n)
    BY <1>5
  <2>2. /\ upTo[1] = upTo[0] + withAtLeast(1) /\ upTo[2] = upTo[1] + withAtLeast(2)
        /\ upTo[3] = upTo[2] + withAtLeast(3) /\ upTo[4] = upTo[3] + withAtLeast(4)
        /\ upTo[5] = upTo[4] + withAtLeast(5) /\ upTo[6] = upTo[5] + withAtLeast(6)
    BY <2>1
  <2>3. /\ withAtLeast(1) \in Nat /\ withAtLeast(1) <= 270
        /\ withAtLeast(2) \in Nat /\ withAtLeast(2) <= 270
        /\ withAtLeast(3) \in Nat /\ withAtLeast(3) <= 125
        /\ withAtLeast(4) \in Nat /\ withAtLeast(4) <= 125
        /\ withAtLeast(5) \in Nat /\ withAtLeast(5) <= 15
        /\ withAtLeast(6) \in Nat /\ withAtLeast(6) <= 15
    BY <1>4
  <2>4. upTo[6] = 0 + withAtLeast(1) + withAtLeast(2) + withAtLeast(3) + withAtLeast(4)
                    + withAtLeast(5) + withAtLeast(6)
    BY <2>1, <2>2
  <2>. QED
    BY <2>3, <2>4
<1>. QED
  BY <1>1, <1>3, <1>6

-----------------------------------------------------------------------------
(* Tags and words.                                                         *)

\* The tags of rmh_api.h.
AllTags ==
    UNION {{"ACA", "Bonding", "Core", "Frequency", "Interface"},
           {"Link", "Log", "Mac", "NC", "Network"},
           {"PQoS", "Phy", "Power", "Privacy", "QAM"},
           {"Self", "Stats", "Status", "Taboo", "Turbo"},
           {"Version", ConfigurationGet, ConfigurationSet, RemoteNode}}

\* There are fewer of them than RMH_GetAPITags has lists.
LEMMA AllTagsSmall == Small(AllTags, 24)
<1>. DEFINE T1 == {"ACA", "Bonding", "Core", "Frequency", "Interface"}
            T2 == {"Link", "Log", "Mac", "NC", "Network"}
            T3 == {"PQoS", "Phy", "Power", "Privacy", "QAM"}
            T4 == {"Self", "Stats", "Status", "Taboo", "Turbo"}
            T5 == {"Version", ConfigurationGet, ConfigurationSet, RemoteNode}
<1>1. Small(T1, 5) /\ Small(T2, 5) /\ Small(T3, 5) /\ Small(T4, 5) /\ Small(T5, 4)
  BY SmallFew
<1>2. AllTags = (T1 \cup (T2 \cup (T3 \cup (T4 \cup T5))))
  BY DEF AllTags
<1>. HIDE DEF T1, T2, T3, T4, T5
<1>3. Small(T4 \cup T5, 9)
  BY <1>1,  SmallUnion
<1>4. Small(T3 \cup (T4 \cup T5), 14)
  BY <1>1, <1>3, SmallUnion
<1>5. Small(T2 \cup (T3 \cup (T4 \cup T5)), 19)
  BY <1>1, <1>4, SmallUnion
<1>6. Small(T1 \cup (T2 \cup (T3 \cup (T4 \cup T5))), 24)
  BY <1>1, <1>5, SmallUnion
<1>. QED
  BY <1>2, <1>6

\* No API has another one.
LEMMA TagsKnown == \A a \in AllApis : a.tags \subseteq AllTags
<1>. USE DEF AllTags
<1>1. \A a \in UNION {HandleApis, ListApis, TextApis1, TextApis2, TextApis3, EnableApis} :
        a.tags \subseteq AllTags
  BY SocRow, GenericRow, BothRow, PlainRow
  DEF HandleApis, ListApis, TextApis1, TextApis2, TextApis3, EnableApis
<1>2. \A a \in UNION {ScanApis, OffsetApis, FrequencyApis, FrameApis, BandApis, QAMApis} :
        a.tags \subseteq AllTags
  BY SocRow
  DEF ScanApis, OffsetApis, FrequencyApis, FrameApis, BandApis, QAMApis
<1>3. \A a \in UNION {ChannelRateApis, LinkApis, PrivacyApis, ResetApis, InterfaceApis,
                    PowerModeApis} :
        a.tags \subseteq AllTags
  BY SocRow, GenericRow
  DEF ChannelRateApis, LinkApis, PrivacyApis, ResetApis, InterfaceApis, PowerModeApis
<1>4. \A a \in UNION {BeaconPowerApis, NodeIdApis, NCApis, ChannelFreqApis, TxRateApis, MeshApis} :
        a.tags \subseteq AllTags
  BY SocRow, GenericRow
  DEF BeaconPowerApis, NodeIdApis, NCApis, ChannelFreqApis, TxRateApis, MeshApis
<1>5. \A a \in UNION {BondingApis, RemoteIdApis, RemoteCapabilityApis, RemoteRxRateApis,
                    RemoteRxErrorApis, RemoteTxApis} :
        a.tags \subseteq AllTags
  BY SocRow, GenericRow
  DEF BondingApis, RemoteIdApis, RemoteCapabilityApis, RemoteRxRateApis, RemoteRxErrorApis,
      RemoteTxApis
<1>6. \A a \in UNION {ModulationApis1, ModulationApis2, ConstellationApis, FlowLimitApis, FlowApis,
                    FlowTimeApis} :
        a.tags \subseteq AllTags
  BY SocRow
  DEF ModulationApis1, ModulationApis2, ConstellationApis, FlowLimitApis, FlowApis, FlowTimeApis
<1>7. \A a \in UNION {FlowRuleApis, FlowClassApis, FlowMacApis, BandwidthApis, AdmissionApis,
                    AdmissionFailureApis} :
        a.tags \subseteq AllTags
  BY SocRow, GenericRow
  DEF FlowRuleApis, FlowClassApis, FlowMacApis, BandwidthApis, AdmissionApis,
      AdmissionFailureApis
<1>8. \A a \in UNION {TotalPacketApis, CastPacketApis, ControlPacketApis, BeaconApis, ErrorApis,
                    AggregationApis} :
        a.tags \subseteq AllTags
  BY SocRow
  DEF TotalPacketApis, CastPacketApis, ControlPacketApis, BeaconApis, ErrorApis, AggregationApis
<1>9. \A a \in UNION {StatsResetApis, LogLevelApis, LogPrintApis, LogModulationApis,
                    ACARequestApis, ACAResultApis} :
        a.tags \subseteq AllTags
  BY SocRow, GenericRow, BothRow
  DEF StatsResetApis, LogLevelApis, LogPrintApis, LogModulationApis, ACARequestApis,
      ACAResultApis
<1>. HIDE DEF AllTags
<1>. QED
  BY <1>1, <1>2, <1>3, <1>4, <1>5, <1>6, <1>7, <1>8, <1>9 DEF AllApis

\* The library registers every API and lists every tag.
LEMMA ApiListsHold ==
    /\ RegisteredCount(AllApis) = Cardinality(AllApis)
    /\ DroppedTags(AllApis) = 0
<1>1. RegisteredCount(AllApis) = Cardinality(AllApis)
  BY AllApisSmall, FS_CardinalityType DEF RegisteredCount, Small, RMH_MAX_NUM_APIS
<1>2. TagsOf(AllApis) \subseteq AllTags
  BY TagsKnown DEF TagsOf
<1>3. Small(TagsOf(AllApis), 24)
  BY <1>2, AllTagsSmall, SmallSubset
<1>4. DroppedTags(AllApis) = 0
  BY <1>3, FS_CardinalityType DEF DroppedTags, Small, RMH_MAX_NUM_TAGS
<1>. QED
  BY <1>1, <1>4

\* The aliases.
AliasWords ==
    {"status", "stats", "flows", "modulation", "log_forever", "logforever", "log", "log_stop",
     "logstop", "start", "stop"}

\* A row of rmh is known by its API.
LEMMA RowsByName ==
    \A r, s \in HandledRows : r.api = s.api => r = s
<1>1. \A r \in SelfRows : \A s \in HandledRows : r.api = s.api => r = s
  BY HandledRow
  DEF HandledRows, SelfRows, InterfaceRows, PowerRows, StatsRows, PQoSRows, NetworkRows,
      RemoteNodeRows,
      LogRows, ACARows, ResultRows, LocalRows
<1>2. \A r \in InterfaceRows : \A s \in HandledRows : r.api = s.api => r = s
  BY HandledRow
  DEF HandledRows, SelfRows, InterfaceRows, PowerRows, StatsRows, PQoSRows, NetworkRows,
      RemoteNodeRows,
      LogRows, ACARows, ResultRows, LocalRows
<1>3. \A r \in PowerRows : \A s \in HandledRows : r.api = s.api => r = s
  BY HandledRow
  DEF HandledRows, SelfRows, InterfaceRows, PowerRows, StatsRows, PQoSRows, NetworkRows,
      RemoteNodeRows,
      LogRows, ACARows, ResultRows, LocalRows
<1>4. \A r \in StatsRows : \A s \in HandledRows : r.api = s.api => r = s
  BY HandledRow
  DEF HandledRows, SelfRows, InterfaceRows, PowerRows, StatsRows, PQoSRows, NetworkRows,
      RemoteNodeRows,
      LogRows, ACARows, ResultRows, LocalRows
<1>5. \A r \in PQoSRows : \A s \in HandledRows : r.api = s.api => r = s
  BY HandledRow
  DEF HandledRows, SelfRows, InterfaceRows, PowerRows, StatsRows, PQoSRows, NetworkRows,
      RemoteNodeRows,
      LogRows, ACARows, ResultRows, LocalRows
<1>6. \A r \in NetworkRows : \A s \in HandledRows : r.api = s.api => r = s
  BY HandledRow
  DEF HandledRows, SelfRows, InterfaceRows, PowerRows, StatsRows, PQoSRows, NetworkRows,
      RemoteNodeRows,
      LogRows, ACARows, ResultRows, LocalRows
<1>7. \A r \in RemoteNodeRows : \A s \in HandledRows : r.api = s.api => r = s
  BY HandledRow
  DEF HandledRows, SelfRows, InterfaceRows, PowerRows, StatsRows, PQoSRows, NetworkRows,
      RemoteNodeRows,
      LogRows, ACARows, ResultRows, LocalRows
<1>8. \A r \in LogRows : \A s \in HandledRows : r.api = s.api => r = s
  BY HandledRow
  DEF HandledRows, SelfRows, InterfaceRows, PowerRows, StatsRows, PQoSRows, NetworkRows,
      RemoteNodeRows,
      LogRows, ACARows, ResultRows, LocalRows
<1>9. \A r \in ACARows : \A s \in HandledRows : r.api = s.api => r = s
  BY HandledRow
  DEF HandledRows, SelfRows, InterfaceRows, PowerRows, StatsRows, PQoSRows, NetworkRows,
      RemoteNodeRows,
      LogRows, ACARows, ResultRows, LocalRows
<1>10. \A r \in ResultRows : \A s \in HandledRows : r.api = s.api => r = s
  BY HandledRow
  DEF HandledRows, SelfRows, InterfaceRows, PowerRows, StatsRows, PQoSRows, NetworkRows,
      RemoteNodeRows,
      LogRows, ACARows, ResultRows, LocalRows
<1>11. \A r \in LocalRows : \A s \in HandledRows : r.api = s.api => r = s
  BY HandledRow
  DEF HandledRows, SelfRows, InterfaceRows, PowerRows, StatsRows, PQoSRows, NetworkRows,
      RemoteNodeRows,
      LogRows, ACARows, ResultRows, LocalRows
<1>. QED
  BY <1>1, <1>2, <1>3, <1>4, <1>5, <1>6, <1>7, <1>8, <1>9, <1>10, <1>11 DEF HandledRows

\* An alias is nobody's name and stands in one row.
LEMMA Aliases ==
    /\ \A r \in HandledRows : r.api \notin AliasWords /\ r.aliases \subseteq AliasWords
    /\ \A r, s \in HandledRows : \A w \in r.aliases : w \in s.aliases => r.api = s.api
<1>1. \A r \in HandledRows : r.api \notin AliasWords
  BY HandledRow
  DEF AliasWords, HandledRows, SelfRows, InterfaceRows, PowerRows, StatsRows, PQoSRows,
      NetworkRows, RemoteNodeRows,
      LogRows, ACARows, ResultRows, LocalRows
<1>2. \A r \in HandledRows : r.aliases \subseteq AliasWords
  BY HandledRow
  DEF AliasWords, HandledRows, SelfRows, InterfaceRows, PowerRows, StatsRows, PQoSRows,
      NetworkRows, RemoteNodeRows,
      LogRows, ACARows, ResultRows, LocalRows
<1>3. \A r \in HandledRows : r.aliases # {} => r \in LogRows \cup LocalRows
  BY HandledRow
  DEF HandledRows, SelfRows, InterfaceRows, PowerRows, StatsRows, PQoSRows, NetworkRows,
      RemoteNodeRows,
      LogRows, ACARows, ResultRows, LocalRows
<1>4. \A r, s \in LogRows \cup LocalRows : \A w \in r.aliases : w \in s.aliases => r.api = s.api
  BY HandledRow DEF LogRows, LocalRows
<1>. QED
  BY <1>1, <1>2, <1>3, <1>4

\* No word stands for two commands.
LEMMA WordsUnique == WordsAreUnique
  BY RowsByName, Aliases DEF WordsAreUnique

-----------------------------------------------------------------------------
(* Every handler has its API.                                              *)

\* The names of some APIs.
NamesIn(apis) == {a.name : a \in apis}

\* The names of a section are those it lists.
LEMMA NamesAre ==
    /\ \A names, params, tags : NamesIn(Soc(names, params, tags)) = names
    /\ \A names, params, tags : NamesIn(Generic(names, params, tags)) = names
    /\ \A names, params, tags : NamesIn(Both(names, params, tags)) = names
    /\ \A names, params, tags : NamesIn(Plain(names, params, tags)) = names
    /\ \A S, T : NamesIn(S \cup T) = NamesIn(S) \cup NamesIn(T)
<1>1. ASSUME NEW names, NEW params, NEW tags PROVE NamesIn(Soc(names, params, tags)) = names
  <2>1. \A a \in Soc(names, params, tags) : a.name \in names
    BY SocRow
  <2>2. \A n \in names : Api(n, TRUE, FALSE, TRUE, WithHandle(params), tags)
                           \in Soc(names, params, tags)
    BY DEF Soc
  <2>3. \A n \in names : Api(n, TRUE, FALSE, TRUE, WithHandle(params), tags).name = n
    BY DEF Api
  <2>. QED
    BY <2>1, <2>2, <2>3 DEF NamesIn
<1>2. ASSUME NEW names, NEW params, NEW tags PROVE NamesIn(Generic(names, params, tags)) = names
  <2>1. \A a \in Generic(names, params, tags) : a.name \in names
    BY GenericRow
  <2>2. \A n \in names : Api(n, FALSE, TRUE, TRUE, WithHandle(params), tags)
                           \in Generic(names, params, tags)
    BY DEF Generic
  <2>3. \A n \in names : Api(n, FALSE, TRUE, TRUE, WithHandle(params), tags).name = n
    BY DEF Api
  <2>. QED
    BY <2>1, <2>2, <2>3 DEF NamesIn
<1>3. ASSUME NEW names, NEW params, NEW tags PROVE NamesIn(Both(names, params, tags)) = names
  <2>1. \A a \in Both(names, params, tags) : a.name \in names
    BY BothRow
  <2>2. \A n \in names : Api(n, TRUE, TRUE, TRUE, WithHandle(params), tags)
                           \in Both(names, params, tags)
    BY DEF Both
  <2>3. \A n \in names : Api(n, TRUE, TRUE, TRUE, WithHandle(params), tags).name = n
    BY DEF Api
  <2>. QED
    BY <2>1, <2>2, <2>3 DEF NamesIn
<1>4. ASSUME NEW names, NEW params, NEW tags PROVE NamesIn(Plain(names, params, tags)) = names
  <2>1. \A a \in Plain(names, params, tags) : a.name \in names
    BY PlainRow
  <2>2. \A n \in names : Api(n, FALSE, TRUE, FALSE, params, tags) \in Plain(names, params, tags)
    BY DEF Plain
  <2>3. \A n \in names : Api(n, FALSE, TRUE, FALSE, params, tags).name = n
    BY DEF Api
  <2>. QED
    BY <2>1, <2>2, <2>3 DEF NamesIn
<1>5. \A S, T : NamesIn(S \cup T) = NamesIn(S) \cup NamesIn(T)
  BY DEF NamesIn
<1>. QED
  BY <1>1, <1>2, <1>3, <1>4, <1>5

\* And names of APIs.
LEMMA ApiNamesIn == \A S : S \subseteq AllApis => NamesIn(S) \subseteq ApiNames
  BY DEF NamesIn, ApiNames

\* Every handler is registered for an API the library declares.
LEMMA RowsAreOfApis == \A r \in HandledRows \ LocalRows : r.api \in ApiNames
<1>1. /\ HandleApis \subseteq AllApis /\ ListApis \subseteq AllApis
      /\ TextApis1 \subseteq AllApis /\ TextApis2 \subseteq AllApis
      /\ TextApis3 \subseteq AllApis /\ EnableApis \subseteq AllApis
      /\ ScanApis \subseteq AllApis /\ OffsetApis \subseteq AllApis
      /\ FrequencyApis \subseteq AllApis /\ FrameApis \subseteq AllApis
      /\ BandApis \subseteq AllApis /\ QAMApis \subseteq AllApis
      /\ ChannelRateApis \subseteq AllApis /\ LinkApis \subseteq AllApis
      /\ PrivacyApis \subseteq AllApis /\ ResetApis \subseteq AllApis
      /\ InterfaceApis \subseteq AllApis /\ PowerModeApis \subseteq AllApis
      /\ BeaconPowerApis \subseteq AllApis /\ NodeIdApis \subseteq AllApis
      /\ NCApis \subseteq AllApis /\ ChannelFreqApis \subseteq AllApis
      /\ TxRateApis \subseteq AllApis /\ MeshApis \subseteq AllApis
      /\ BondingApis \subseteq AllApis /\ RemoteIdApis \subseteq AllApis
      /\ RemoteCapabilityApis \subseteq AllApis /\ RemoteRxRateApis \subseteq AllApis
      /\ RemoteRxErrorApis \subseteq AllApis /\ RemoteTxApis \subseteq AllApis
      /\ ModulationApis1 \subseteq AllApis /\ ModulationApis2 \subseteq AllApis
      /\ ConstellationApis \subseteq AllApis /\ FlowLimitApis \subseteq AllApis
      /\ FlowApis \subseteq AllApis /\ FlowTimeApis \subseteq AllApis
      /\ FlowRuleApis \subseteq AllApis /\ FlowClassApis \subseteq AllApis
      /\ FlowMacApis \subseteq AllApis /\ BandwidthApis \subseteq AllApis
      /\ AdmissionApis \subseteq AllApis /\ AdmissionFailureApis \subseteq AllApis
      /\ TotalPacketApis \subseteq AllApis /\ CastPacketApis \subseteq AllApis
      /\ ControlPacketApis \subseteq AllApis /\ BeaconApis \subseteq AllApis
      /\ ErrorApis \subseteq AllApis /\ AggregationApis \subseteq AllApis
      /\ StatsResetApis \subseteq AllApis /\ LogLevelApis \subseteq AllApis
      /\ LogPrintApis \subseteq AllApis /\ LogModulationApis \subseteq AllApis
      /\ ACARequestApis \subseteq AllApis /\ ACAResultApis \subseteq AllApis
  BY DEF AllApis
<1>2. {"RMH_ResultToString"} \subseteq ApiNames
  BY <1>1, NamesAre, ApiNamesIn DEF ListApis
<1>3. {"RMH_Self_GetEnabled", "RMH_Self_SetEnabled", "RMH_Self_GetMoCALinkUp",
        "RMH_Self_GetLOF", "RMH_Self_SetLOF"} \subseteq ApiNames
  BY <1>1, NamesAre, ApiNamesIn DEF EnableApis
<1>4. {"RMH_Self_GetScanLOFOnly", "RMH_Self_SetScanLOFOnly",
        "RMH_Self_GetPreferredNCEnabled", "RMH_Self_SetPreferredNCEnabled",
        "RMH_Self_GetPrimaryChannelOffset"} \subseteq ApiNames
  BY <1>1, NamesAre, ApiNamesIn DEF ScanApis
<1>5. {"RMH_Self_SetPrimaryChannelOffset",
        "RMH_Self_SetSecondaryChannelOffset",
        "RMH_Self_GetSecondaryChannelOffset", "RMH_Self_GetSoftwareVersion",
        "RMH_Self_GetHighestSupportedMoCAVersion"} \subseteq ApiNames
  BY <1>1, NamesAre, ApiNamesIn DEF OffsetApis
<1>6. {"RMH_Self_GetFrequencyMask", "RMH_Self_SetFrequencyMask",
        "RMH_Self_GetMaxPacketAggregation", "RMH_Self_SetMaxPacketAggregation"} \subseteq ApiNames
  BY <1>1, NamesAre, ApiNamesIn DEF FrequencyApis
<1>7. {"RMH_Self_GetMaxFrameSize", "RMH_Self_GetLowBandwidthLimit",
        "RMH_Self_SetMaxFrameSize", "RMH_Self_SetLowBandwidthLimit",
        "RMH_Self_GetMaxBitrate"} \subseteq ApiNames
  BY <1>1, NamesAre, ApiNamesIn DEF FrameApis
<1>8. {"RMH_Self_SetTxPowerLimit", "RMH_Self_GetTxPowerLimit",
        "RMH_Self_GetSupportedFrequencies", "RMH_Self_GetSupportedBand",
        "RMH_Self_GetQAM256Enabled"} \subseteq ApiNames
  BY <1>1, NamesAre, ApiNamesIn DEF BandApis
<1>9. {"RMH_Self_SetQAM256Enabled", "RMH_Self_GetQAM256TargetPhyRate",
        "RMH_Self_GetPrimaryChannelTargetPhyRate",
        "RMH_Self_SetQAM256TargetPhyRate",
        "RMH_Self_SetPrimaryChannelTargetPhyRate"} \subseteq ApiNames
  BY <1>1, NamesAre, ApiNamesIn DEF QAMApis
<1>10. {"RMH_Self_GetSecondaryChannelTargetPhyRate",
        "RMH_Self_SetSecondaryChannelTargetPhyRate",
        "RMH_Self_GetTurboEnabled", "RMH_Self_SetTurboEnabled",
        "RMH_Self_GetBondingEnabled"} \subseteq ApiNames
  BY <1>1, NamesAre, ApiNamesIn DEF ChannelRateApis
<1>11. {"RMH_Self_SetBondingEnabled", "RMH_Self_GetLinkStatus",
        "RMH_Self_GetPrivacyEnabled", "RMH_Self_SetPrivacyEnabled",
        "RMH_Self_GetPrivacyPassword"} \subseteq ApiNames
  BY <1>1, NamesAre, ApiNamesIn DEF LinkApis
<1>12. {"RMH_Self_SetPrivacyPassword", "RMH_Self_GetPrivacyMACManagementKey",
        "RMH_Self_GetTabooChannels", "RMH_Self_SetTabooChannels",
        "RMH_Self_RestoreDefaultSettings"} \subseteq ApiNames
  BY <1>1, NamesAre, ApiNamesIn, SMTT(60) DEF PrivacyApis
<1>13. {"RMH_Self_RestoreRDKDefaultSettings",
        "RMH_Self_GetMaxAllocationElements", "RMH_Self_GetLastResetReason"} \subseteq ApiNames
  BY <1>1, NamesAre, ApiNamesIn DEF ResetApis
<1>14. {"RMH_Interface_GetEnabled", "RMH_Interface_SetEnabled",
        "RMH_Interface_GetName", "RMH_Interface_GetMac",
        "RMH_Interface_SetMac"} \subseteq ApiNames
  BY <1>1, NamesAre, ApiNamesIn DEF InterfaceApis
<1>15. {"RMH_Power_GetMode", "RMH_Power_GetStandbyMode",
        "RMH_Power_GetSupportedModes", "RMH_Power_SetStandbyMode",
        "RMH_Power_GetTxPowerControlEnabled"} \subseteq ApiNames
  BY <1>1, NamesAre, ApiNamesIn DEF PowerModeApis
<1>16. {"RMH_Power_SetTxPowerControlEnabled",
        "RMH_Power_SetTxBeaconPowerReductionEnabled",
        "RMH_Power_GetTxBeaconPowerReductionEnabled",
        "RMH_Power_GetTxBeaconPowerReduction",
        "RMH_Power_SetTxBeaconPowerReduction"} \subseteq ApiNames
  BY <1>1, NamesAre, ApiNamesIn DEF BeaconPowerApis
<1>17. {"RMH_Network_GetNumNodes", "RMH_Network_GetNodeId",
        "RMH_Network_GetNodeIds", "RMH_Network_GetRemoteNodeIds",
        "RMH_Network_GetAssociatedIds"} \subseteq ApiNames
  BY <1>1, NamesAre, ApiNamesIn DEF NodeIdApis
<1>18. {"RMH_Network_GetNCNodeId", "RMH_Network_GetBackupNCNodeId",
        "RMH_Network_GetNCMac", "RMH_Network_GetLinkUptime",
        "RMH_Network_GetResetCount"} \subseteq ApiNames
  BY <1>1, NamesAre, ApiNamesIn DEF NCApis
<1>19. {"RMH_Network_GetLinkDownCount", "RMH_Network_GetMixedMode",
        "RMH_Network_GetRFChannelFreq", "RMH_Network_GetPrimaryChannelFreq",
        "RMH_Network_GetSecondaryChannelFreq"} \subseteq ApiNames
  BY <1>1, NamesAre, ApiNamesIn DEF ChannelFreqApis
<1>20. {"RMH_Network_GetMoCAVersion", "RMH_Network_GetTxBroadcastPhyRate",
        "RMH_Network_GetTxGCDPhyRate", "RMH_Network_GetTxMapPhyRate",
        "RMH_Network_GetTxGcdPowerReduction"} \subseteq ApiNames
  BY <1>1, NamesAre, ApiNamesIn DEF TxRateApis
<1>21. {"RMH_Network_GetTabooChannels", "RMH_Network_GetTxUnicastPhyRate",
        "RMH_Network_GetTxVLPER", "RMH_Network_GetTxNPER",
        "RMH_Network_GetBitLoadingInfo"} \subseteq ApiNames
  BY <1>1, NamesAre, ApiNamesIn DEF MeshApis
<1>22. {"RMH_Network_GetBondedConnections"} \subseteq ApiNames
  BY <1>1, NamesAre, ApiNamesIn DEF BondingApis
<1>23. {"RMH_RemoteNode_GetNodeIdFromAssociatedId",
        "RMH_RemoteNode_GetAssociatedIdFromNodeId", "RMH_RemoteNode_GetMac",
        "RMH_RemoteNode_GetPreferredNC",
        "RMH_RemoteNode_GetHighestSupportedMoCAVersion"} \subseteq ApiNames
  BY <1>1, NamesAre, ApiNamesIn DEF RemoteIdApis
<1>24. {"RMH_RemoteNode_GetActiveMoCAVersion",
        "RMH_RemoteNode_GetQAM256Capable",
        "RMH_RemoteNode_GetMaxPacketAggregation",
        "RMH_RemoteNode_GetMaxFrameSize", "RMH_RemoteNode_GetBondingCapable"} \subseteq ApiNames
  BY <1>1, NamesAre, ApiNamesIn DEF RemoteCapabilityApis
<1>25. {"RMH_RemoteNode_GetRxUnicastPhyRate",
        "RMH_RemoteNode_GetRxBroadcastPhyRate",
        "RMH_RemoteNode_GetRxBroadcastPower",
        "RMH_RemoteNode_GetRxUnicastPower", "RMH_RemoteNode_GetRxMapPower"} \subseteq ApiNames
  BY <1>1, NamesAre, ApiNamesIn DEF RemoteRxRateApis
<1>26. {"RMH_RemoteNode_GetRxPackets", "RMH_RemoteNode_GetRxCorrectedErrors",
        "RMH_RemoteNode_GetRxUnCorrectedErrors",
        "RMH_RemoteNode_GetRxTotalErrors", "RMH_RemoteNode_GetRxSNR"} \subseteq ApiNames
  BY <1>1, NamesAre, ApiNamesIn DEF RemoteRxErrorApis
<1>27. {"RMH_RemoteNode_GetTxUnicastPhyRate",
        "RMH_RemoteNode_GetTxUnicastPower",
        "RMH_RemoteNode_GetTxPowerReduction", "RMH_RemoteNode_GetTxPackets",
        "RMH_RemoteNode_Reset"} \subseteq ApiNames
  BY <1>1, NamesAre, ApiNamesIn DEF RemoteTxApis
<1>28. {"RMH_RemoteNode_GetRxUnicastSubcarrierModulation",
        "RMH_RemoteNode_GetTxUnicastSubcarrierModulation",
        "RMH_RemoteNode_GetSecondaryRxUnicastSubcarrierModulation",
        "RMH_RemoteNode_GetSecondaryTxUnicastSubcarrierModulation"} \subseteq ApiNames
  BY <1>1, NamesAre, ApiNamesIn DEF ModulationApis1
<1>29. {"RMH_RemoteNode_GetRxBroadcastSubcarrierModulation",
        "RMH_RemoteNode_GetTxBroadcastSubcarrierModulation",
        "RMH_RemoteNode_GetMaxConstellation_GCD100",
        "RMH_RemoteNode_GetMaxConstellation_GCD50",
        "RMH_RemoteNode_SetMaxConstellation_GCD100"} \subseteq ApiNames
  BY <1>1, NamesAre, ApiNamesIn DEF ModulationApis2
<1>30. {"RMH_RemoteNode_SetMaxConstellation_GCD50",
        "RMH_RemoteNode_SetMaxConstellation_P2P100",
        "RMH_RemoteNode_SetMaxConstellation_P2P50",
        "RMH_RemoteNode_GetMaxConstellation_P2P100",
        "RMH_RemoteNode_GetMaxConstellation_P2P50"} \subseteq ApiNames
  BY <1>1, NamesAre, ApiNamesIn DEF ConstellationApis
<1>31. {"RMH_PQOS_GetMaxIngressFlows", "RMH_PQOS_GetMaxEgressFlows"} \subseteq ApiNames
  BY <1>1, NamesAre, ApiNamesIn DEF FlowLimitApis
<1>32. {"RMH_PQoS_GetNumIngressFlows", "RMH_PQoS_GetNumEgressFlows",
        "RMH_PQoS_GetEgressBandwidth", "RMH_PQoS_GetIngressFlowIds"} \subseteq ApiNames
  BY <1>1, NamesAre, ApiNamesIn DEF FlowApis
<1>33. {"RMH_PQoSFlow_GetPeakDataRate", "RMH_PQoSFlow_GetBurstSize",
        "RMH_PQoSFlow_GetLeaseTime", "RMH_PQoSFlow_GetLeaseTimeRemaining",
        "RMH_PQoSFlow_GetFlowTag"} \subseteq ApiNames
  BY <1>1, NamesAre, ApiNamesIn DEF FlowTimeApis
<1>34. {"RMH_PQoSFlow_GetMaxLatency", "RMH_PQoSFlow_GetShortTermAvgRatio",
        "RMH_PQoSFlow_GetMaxRetry", "RMH_PQoSFlow_GetVLANTag",
        "RMH_PQoSFlow_GetFlowPer"} \subseteq ApiNames
  BY <1>1, NamesAre, ApiNamesIn DEF FlowRuleApis
<1>35. {"RMH_PQoSFlow_GetIngressClassificationRule",
        "RMH_PQoSFlow_GetPacketSize", "RMH_PQoSFlow_GetTotalTxPackets",
        "RMH_PQoSFlow_GetDSCPMoCA", "RMH_PQoSFlow_GetDFID"} \subseteq ApiNames
  BY <1>1, NamesAre, ApiNamesIn DEF FlowClassApis
<1>36. {"RMH_PQoSFlow_GetDestination", "RMH_PQoSFlow_GetIngressMac",
        "RMH_PQoSFlow_GetEgressMac"} \subseteq ApiNames
  BY <1>1, NamesAre, ApiNamesIn DEF FlowMacApis
<1>37. {"RMH_PQoS_GetMaxEgressBandwidth", "RMH_PQoS_GetMinEgressBandwidth"} \subseteq ApiNames
  BY <1>1, NamesAre, ApiNamesIn DEF BandwidthApis
<1>38. {"RMH_Stats_GetAdmissionAttempts", "RMH_Stats_GetAdmissionFailures",
        "RMH_Stats_GetAdmissionSucceeded", "RMH_Stats_GetAdmissionsDeniedAsNC"} \subseteq ApiNames
  BY <1>1, NamesAre, ApiNamesIn DEF AdmissionApis
<1>39. {"RMH_Stats_GetTxTotalBytes"} \subseteq ApiNames
  BY <1>1, NamesAre, ApiNamesIn DEF AdmissionFailureApis
<1>40. {"RMH_Stats_GetRxTotalBytes", "RMH_Stats_GetTxTotalPackets",
        "RMH_Stats_GetRxTotalPackets", "RMH_Stats_GetTxUnicastPackets",
        "RMH_Stats_GetRxUnicastPackets"} \subseteq ApiNames
  BY <1>1, NamesAre, ApiNamesIn DEF TotalPacketApis
<1>41. {"RMH_Stats_GetTxBroadcastPackets", "RMH_Stats_GetRxBroadcastPackets",
        "RMH_Stats_GetTxMulticastPackets", "RMH_Stats_GetRxMulticastPackets",
        "RMH_Stats_GetTxReservationRequestPackets"} \subseteq ApiNames
  BY <1>1, NamesAre, ApiNamesIn DEF CastPacketApis
<1>42. {"RMH_Stats_GetRxReservationRequestPackets",
        "RMH_Stats_GetTxMapPackets", "RMH_Stats_GetRxMapPackets",
        "RMH_Stats_GetTxLinkControlPackets",
        "RMH_Stats_GetRxLinkControlPackets"} \subseteq ApiNames
  BY <1>1, NamesAre, ApiNamesIn DEF ControlPacketApis
<1>43. {"RMH_Stats_GetTxBeacons", "RMH_Stats_GetRxBeacons",
        "RMH_Stats_GetRxUnknownProtocolPackets",
        "RMH_Stats_GetTxDroppedPackets", "RMH_Stats_GetRxDroppedPackets"} \subseteq ApiNames
  BY <1>1, NamesAre, ApiNamesIn DEF BeaconApis
<1>44. {"RMH_Stats_GetTxTotalErrors", "RMH_Stats_GetRxTotalErrors",
        "RMH_Stats_GetRxCRCErrors", "RMH_Stats_GetRxTimeoutErrors",
        "RMH_Stats_GetRxTotalAggregatedPackets"} \subseteq ApiNames
  BY <1>1, NamesAre, ApiNamesIn DEF ErrorApis
<1>45. {"RMH_Stats_GetTxTotalAggregatedPackets",
        "RMH_Stats_GetRxPacketAggregation", "RMH_Stats_GetTxPacketAggregation",
        "RMH_Stats_GetRxCorrectedErrors", "RMH_Stats_GetRxUncorrectedErrors"} \subseteq ApiNames
  BY <1>1, NamesAre, ApiNamesIn DEF AggregationApis
<1>46. {"RMH_Stats_Reset"} \subseteq ApiNames
  BY <1>1, NamesAre, ApiNamesIn DEF StatsResetApis
<1>47. {"RMH_Log_GetAPILevel", "RMH_Log_SetAPILevel", "RMH_Log_GetDriverLevel",
        "RMH_Log_SetDriverLevel", "RMH_Log_GetDriverFilename"} \subseteq ApiNames
  BY <1>1, NamesAre, ApiNamesIn DEF LogLevelApis
<1>48. {"RMH_Log_SetDriverFilename", "RMH_Log_PrintStatus",
        "RMH_Log_PrintStats", "RMH_Log_PrintFlows"} \subseteq ApiNames
  BY <1>1, NamesAre, ApiNamesIn DEF LogPrintApis
<1>49. {"RMH_Log_PrintModulation"} \subseteq ApiNames
  BY <1>1, NamesAre, ApiNamesIn DEF LogModulationApis
<1>50. {"RMH_ACA_Request", "RMH_ACA_GetChannel", "RMH_ACA_GetSourceNodeId",
        "RMH_ACA_GetDestinationNodeMask", "RMH_ACA_GetType"} \subseteq ApiNames
  BY <1>1, NamesAre, ApiNamesIn DEF ACARequestApis
<1>51. {"RMH_ACA_GetStatus", "RMH_ACA_GetTotalRxPower",
        "RMH_ACA_GetPowerProfile"} \subseteq ApiNames
  BY <1>1, NamesAre, ApiNamesIn DEF ACAResultApis
<1>52. \A r \in SelfRows : r.api \in ApiNames
  BY HandledRow, <1>3, <1>4, <1>5, <1>6, <1>7, <1>8, <1>9, <1>10, <1>11, <1>12, <1>13 DEF SelfRows
<1>53. \A r \in InterfaceRows : r.api \in ApiNames
  BY HandledRow, <1>14 DEF InterfaceRows
<1>54. \A r \in PowerRows : r.api \in ApiNames
  BY HandledRow, <1>15, <1>16 DEF PowerRows
<1>55. \A r \in StatsRows : r.api \in ApiNames
  BY HandledRow, <1>38, <1>39, <1>40, <1>41, <1>42, <1>43, <1>44, <1>45, <1>46 DEF StatsRows
<1>56. \A r \in PQoSRows : r.api \in ApiNames
  BY HandledRow, <1>31, <1>32, <1>33, <1>34, <1>35, <1>36, <1>37 DEF PQoSRows
<1>57. \A r \in NetworkRows : r.api \in ApiNames
  BY HandledRow, <1>17, <1>18, <1>19, <1>20, <1>21, <1>22 DEF NetworkRows
<1>58. \A r \in RemoteNodeRows : r.api \in ApiNames
  BY HandledRow, <1>23, <1>24, <1>25, <1>26, <1>27, <1>28, <1>29, <1>30 DEF RemoteNodeRows
<1>59. \A r \in LogRows : r.api \in ApiNames
  BY HandledRow, <1>47, <1>48, <1>49 DEF LogRows
<1>60. \A r \in ACARows : r.api \in ApiNames
  BY HandledRow, <1>50, <1>51 DEF ACARows
<1>61. \A r \in ResultRows : r.api \in ApiNames
  BY HandledRow, <1>2 DEF ResultRows
<1>. QED
  BY <1>52, <1>53, <1>54, <1>55, <1>56, <1>57, <1>58, <1>59, <1>60, <1>61 DEF HandledRows

-----------------------------------------------------------------------------
(* Every handler calls its API as it is declared.                          *)

\* What the API is declared with, the handler of its row calls it with.
Agree(apis, rows) == \A a \in apis, r \in rows : a.name = r.api => Fits(r.handler, a.params)

\* All handlers call the APIs of their rows as these are declared.
LEMMA SectionsAgree == Agree(AllApis, HandledRows \ LocalRows)
<1>. DEFINE Called == HandledRows \ LocalRows
<1>. USE DEF HandledRows, SelfRows, InterfaceRows, PowerRows, StatsRows, PQoSRows, NetworkRows,
             RemoteNodeRows, LogRows, ACARows, ResultRows, LocalRows
<1>1. Agree(HandleApis, Called)
  BY SocRow, GenericRow, BothRow, PlainRow, HandledRow
  DEF Agree, HandleApis
<1>2. Agree(ListApis, Called)
  BY GenericRow, PlainRow, HandledRow, BoolTextPrototypes
  DEF Agree, ListApis
<1>3. Agree(TextApis1, Called)
  BY PlainRow, HandledRow
  DEF Agree, TextApis1
<1>4. Agree(TextApis2, Called)
  BY PlainRow, HandledRow
  DEF Agree, TextApis2
<1>5. Agree(TextApis3, Called)
  BY PlainRow, HandledRow
  DEF Agree, TextApis3
<1>6. Agree(EnableApis, Called)
  <2>1. \A r \in Called :
         /\ r.api \in {"RMH_Self_GetEnabled", "RMH_Self_GetMoCALinkUp"}
              => r.handler = "RMHApp__OUT_BOOL"
         /\ r.api \in {"RMH_Self_SetEnabled"} => r.handler = "RMHApp__IN_BOOL"
         /\ r.api \in {"RMH_Self_GetLOF"} => r.handler = "RMHApp__OUT_UINT32"
         /\ r.api \in {"RMH_Self_SetLOF"} => r.handler = "RMHApp__IN_UINT32"
    BY HandledRow
  <2>. HIDE DEF Called
  <2>. QED
    BY <2>1, SocRow, NumberPrototypes, BoolTextPrototypes, SetPrototypes
    DEF Agree, EnableApis
<1>7. Agree(ScanApis, Called)
  <2>1. \A r \in Called :
         /\ r.api \in {"RMH_Self_GetScanLOFOnly", "RMH_Self_GetPreferredNCEnabled"}
              => r.handler = "RMHApp__OUT_BOOL"
         /\ r.api \in {"RMH_Self_SetScanLOFOnly", "RMH_Self_SetPreferredNCEnabled"}
              => r.handler = "RMHApp__IN_BOOL"
         /\ r.api \in {"RMH_Self_GetPrimaryChannelOffset"} => r.handler = "RMHApp__OUT_INT32"
    BY HandledRow
  <2>. HIDE DEF Called
  <2>. QED
    BY <2>1, SocRow, NumberPrototypes, BoolTextPrototypes, SetPrototypes
    DEF Agree, ScanApis
<1>8. Agree(OffsetApis, Called)
  <2>1. \A r \in Called :
         /\ r.api \in {"RMH_Self_SetPrimaryChannelOffset",
                         "RMH_Self_SetSecondaryChannelOffset"}
              => r.handler = "RMHApp__IN_INT32"
         /\ r.api \in {"RMH_Self_GetSecondaryChannelOffset"}
              => r.handler = "RMHApp__OUT_INT32"
         /\ r.api \in {"RMH_Self_GetSoftwareVersion"} => r.handler = "RMHApp__OUT_STRING"
         /\ r.api \in {"RMH_Self_GetHighestSupportedMoCAVersion"}
              => r.handler = "RMHApp__OUT_MOCA_VERSION"
    BY HandledRow
  <2>. HIDE DEF Called
  <2>. QED
    BY <2>1, SocRow, NumberPrototypes, BoolTextPrototypes, EnumPrototypes, SetPrototypes
    DEF Agree, OffsetApis
<1>9. Agree(FrequencyApis, Called)
  BY SocRow, HandledRow, NumberPrototypes, SetPrototypes
  DEF Agree, FrequencyApis
<1>10. Agree(FrameApis, Called)
  BY SocRow, HandledRow, NumberPrototypes, SetPrototypes
  DEF Agree, FrameApis
<1>11. Agree(BandApis, Called)
  <2>1. \A r \in Called :
         /\ r.api \in {"RMH_Self_SetTxPowerLimit"} => r.handler = "RMHApp__IN_INT32"
         /\ r.api \in {"RMH_Self_GetTxPowerLimit"} => r.handler = "RMHApp__OUT_INT32"
         /\ r.api \in {"RMH_Self_GetSupportedFrequencies"}
              => r.handler = "RMHApp__OUT_UINT32_ARRAY"
         /\ r.api \in {"RMH_Self_GetSupportedBand"} => r.handler = "RMHApp__OUT_BAND"
         /\ r.api \in {"RMH_Self_GetQAM256Enabled"} => r.handler = "RMHApp__OUT_BOOL"
    BY HandledRow
  <2>. HIDE DEF Called
  <2>. QED
    BY <2>1, SocRow, NumberPrototypes, BoolTextPrototypes, EnumPrototypes, SetPrototypes
    DEF Agree, BandApis
<1>12. Agree(QAMApis, Called)
  BY SocRow, HandledRow, NumberPrototypes, SetPrototypes
  DEF Agree, QAMApis
<1>13. Agree(ChannelRateApis, Called)
  <2>1. \A r \in Called :
         /\ r.api \in {"RMH_Self_GetSecondaryChannelTargetPhyRate"}
              => r.handler = "RMHApp__OUT_UINT32"
         /\ r.api \in {"RMH_Self_SetSecondaryChannelTargetPhyRate"}
              => r.handler = "RMHApp__IN_UINT32"
         /\ r.api \in {"RMH_Self_GetTurboEnabled", "RMH_Self_GetBondingEnabled"}
              => r.handler = "RMHApp__OUT_BOOL"
         /\ r.api \in {"RMH_Self_SetTurboEnabled"} => r.handler = "RMHApp__IN_BOOL"
    BY HandledRow
  <2>. HIDE DEF Called
  <2>. QED
    BY <2>1, SocRow, NumberPrototypes, BoolTextPrototypes, SetPrototypes
    DEF Agree, ChannelRateApis
<1>14. Agree(LinkApis, Called)
  <2>1. \A r \in Called :
         /\ r.api \in {"RMH_Self_SetBondingEnabled", "RMH_Self_SetPrivacyEnabled"}
              => r.handler = "RMHApp__IN_BOOL"
         /\ r.api \in {"RMH_Self_GetLinkStatus"} => r.handler = "RMHApp__OUT_LINK_STATUS"
         /\ r.api \in {"RMH_Self_GetPrivacyEnabled"} => r.handler = "RMHApp__OUT_BOOL"
         /\ r.api \in {"RMH_Self_GetPrivacyPassword"} => r.handler = "RMHApp__OUT_STRING"
    BY HandledRow
  <2>. HIDE DEF Called
  <2>. QED
    BY <2>1, SocRow, GenericRow, BoolTextPrototypes, EnumPrototypes, SetPrototypes
    DEF Agree, LinkApis
<1>15. Agree(PrivacyApis, Called)
  <2>1. \A r \in Called :
         /\ r.api \in {"RMH_Self_SetPrivacyPassword"} => r.handler = "RMHApp__IN_STRING"
         /\ r.api \in {"RMH_Self_GetPrivacyMACManagementKey"}
              => r.handler = "RMHApp__OUT_STRING"
         /\ r.api \in {"RMH_Self_GetTabooChannels"} => r.handler = "RMHApp__GET_TABOO"
         /\ r.api \in {"RMH_Self_SetTabooChannels"} => r.handler = "RMHApp__SET_TABOO"
         /\ r.api \in {"RMH_Self_RestoreDefaultSettings"}
              => r.handler = "RMHApp__HANDLE_ONLY"
    BY HandledRow
  <2>. HIDE DEF Called
  <2>. QED
    BY <2>1, SocRow, BoolTextPrototypes, SetPrototypes, TabooAcaPrototypes
    DEF Agree, PrivacyApis
<1>16. Agree(ResetApis, Called)
  BY SocRow, GenericRow, HandledRow, NumberPrototypes, SetPrototypes, ResetModulationPrototypes
  DEF Agree, ResetApis
<1>17. Agree(InterfaceApis, Called)
  <2>1. \A r \in Called :
         /\ r.api \in {"RMH_Interface_GetEnabled"} => r.handler = "RMHApp__OUT_BOOL"
         /\ r.api \in {"RMH_Interface_SetEnabled"} => r.handler = "RMHApp__IN_BOOL"
         /\ r.api \in {"RMH_Interface_GetName"} => r.handler = "RMHApp__OUT_STRING"
         /\ r.api \in {"RMH_Interface_GetMac"} => r.handler = "RMHApp__OUT_MAC"
         /\ r.api \in {"RMH_Interface_SetMac"} => r.handler = "RMHApp__IN_MAC"
    BY HandledRow
  <2>. HIDE DEF Called
  <2>. QED
    BY <2>1, SocRow, GenericRow, BoolTextPrototypes, MacPrototypes, SetPrototypes
    DEF Agree, InterfaceApis
<1>18. Agree(PowerModeApis, Called)
  BY SocRow, HandledRow, BoolTextPrototypes, EnumPrototypes
  DEF Agree, PowerModeApis
<1>19. Agree(BeaconPowerApis, Called)
  <2>1. \A r \in Called :
         /\ r.api \in {"RMH_Power_SetTxPowerControlEnabled",
                         "RMH_Power_SetTxBeaconPowerReductionEnabled"}
              => r.handler = "RMHApp__IN_BOOL"
         /\ r.api \in {"RMH_Power_GetTxBeaconPowerReductionEnabled"}
              => r.handler = "RMHApp__OUT_BOOL"
         /\ r.api \in {"RMH_Power_GetTxBeaconPowerReduction"}
              => r.handler = "RMHApp__OUT_UINT32"
         /\ r.api \in {"RMH_Power_SetTxBeaconPowerReduction"}
              => r.handler = "RMHApp__IN_UINT32"
    BY HandledRow
  <2>. HIDE DEF Called
  <2>. QED
    BY <2>1, SocRow, NumberPrototypes, BoolTextPrototypes, SetPrototypes
    DEF Agree, BeaconPowerApis
<1>20. Agree(NodeIdApis, Called)
  BY SocRow, GenericRow, HandledRow, NumberPrototypes, NodeListPrototypes
  DEF Agree, NodeIdApis
<1>21. Agree(NCApis, Called)
  BY SocRow, HandledRow, NumberPrototypes, MacPrototypes
  DEF Agree, NCApis
<1>22. Agree(ChannelFreqApis, Called)
  BY SocRow, HandledRow, NumberPrototypes, BoolTextPrototypes
  DEF Agree, ChannelFreqApis
<1>23. Agree(TxRateApis, Called)
  BY SocRow, HandledRow, NumberPrototypes, EnumPrototypes
  DEF Agree, TxRateApis
<1>24. Agree(MeshApis, Called)
  BY SocRow, HandledRow, NodeListPrototypes, TabooAcaPrototypes
  DEF Agree, MeshApis
<1>25. Agree(BondingApis, Called)
  BY SocRow, HandledRow, NodeListPrototypes
  DEF Agree, BondingApis
<1>26. Agree(RemoteIdApis, Called)
  <2>1. \A r \in Called :
         /\ r.api \in {"RMH_RemoteNode_GetNodeIdFromAssociatedId",
                         "RMH_RemoteNode_GetAssociatedIdFromNodeId"}
              => r.handler = "RMHApp__IN_UINT32_OUT_UINT32"
         /\ r.api \in {"RMH_RemoteNode_GetMac"} => r.handler = "RMHApp__IN_UINT32_OUT_MAC"
         /\ r.api \in {"RMH_RemoteNode_GetPreferredNC"}
              => r.handler = "RMHApp__IN_UINT32_OUT_BOOL"
         /\ r.api \in {"RMH_RemoteNode_GetHighestSupportedMoCAVersion"}
              => r.handler = "RMHApp__IN_UINT32_OUT_MOCA_VERSION"
    BY HandledRow
  <2>. HIDE DEF Called
  <2>. QED
    BY <2>1, SocRow, GenericRow, NodePrototypes, BoolTextPrototypes, MacPrototypes, EnumPrototypes
    DEF Agree, RemoteIdApis
<1>27. Agree(RemoteCapabilityApis, Called)
  <2>1. \A r \in Called :
         /\ r.api \in {"RMH_RemoteNode_GetActiveMoCAVersion"}
              => r.handler = "RMHApp__IN_UINT32_OUT_MOCA_VERSION"
         /\ r.api \in {"RMH_RemoteNode_GetQAM256Capable", "RMH_RemoteNode_GetBondingCapable"}
              => r.handler = "RMHApp__IN_UINT32_OUT_BOOL"
         /\ r.api \in {"RMH_RemoteNode_GetMaxPacketAggregation",
                         "RMH_RemoteNode_GetMaxFrameSize"}
              => r.handler = "RMHApp__IN_UINT32_OUT_UINT32"
    BY HandledRow
  <2>. HIDE DEF Called
  <2>. QED
    BY <2>1, SocRow, NodePrototypes, BoolTextPrototypes, EnumPrototypes
    DEF Agree, RemoteCapabilityApis
<1>28. Agree(RemoteRxRateApis, Called)
  BY SocRow, HandledRow, NodePrototypes
  DEF Agree, RemoteRxRateApis
<1>29. Agree(RemoteRxErrorApis, Called)
  BY SocRow, HandledRow, NodePrototypes
  DEF Agree, RemoteRxErrorApis
<1>30. Agree(RemoteTxApis, Called)
  BY SocRow, HandledRow, NodePrototypes, ResetModulationPrototypes
  DEF Agree, RemoteTxApis
<1>31. Agree(ModulationApis1, Called)
  BY SocRow, HandledRow, ResetModulationPrototypes
  DEF Agree, ModulationApis1
<1>32. Agree(ModulationApis2, Called)
  BY SocRow, HandledRow, NodePrototypes, ResetModulationPrototypes
  DEF Agree, ModulationApis2
<1>33. Agree(ConstellationApis, Called)
  BY SocRow, HandledRow, NodePrototypes
  DEF Agree, ConstellationApis
<1>34. Agree(FlowLimitApis, Called)
  BY SocRow, HandledRow, NumberPrototypes
  DEF Agree, FlowLimitApis
<1>35. Agree(FlowApis, Called)
  BY SocRow, HandledRow, NumberPrototypes, NodePrototypes
  DEF Agree, FlowApis
<1>36. Agree(FlowTimeApis, Called)
  BY SocRow, HandledRow, MacPrototypes
  DEF Agree, FlowTimeApis
<1>37. Agree(FlowRuleApis, Called)
  BY SocRow, HandledRow, MacPrototypes
  DEF Agree, FlowRuleApis
<1>38. Agree(FlowClassApis, Called)
  BY SocRow, HandledRow, MacPrototypes
  DEF Agree, FlowClassApis
<1>39. Agree(FlowMacApis, Called)
  BY SocRow, HandledRow, MacPrototypes
  DEF Agree, FlowMacApis
<1>40. Agree(BandwidthApis, Called)
  BY GenericRow, HandledRow, NumberPrototypes
  DEF Agree, BandwidthApis
<1>41. Agree(AdmissionApis, Called)
  BY SocRow, HandledRow, NumberPrototypes
  DEF Agree, AdmissionApis
<1>42. Agree(AdmissionFailureApis, Called)
  BY SocRow, HandledRow, NumberPrototypes
  DEF Agree, AdmissionFailureApis
<1>43. Agree(TotalPacketApis, Called)
  BY SocRow, HandledRow, NumberPrototypes
  DEF Agree, TotalPacketApis
<1>44. Agree(CastPacketApis, Called)
  BY SocRow, HandledRow, NumberPrototypes
  DEF Agree, CastPacketApis
<1>45. Agree(ControlPacketApis, Called)
  BY SocRow, HandledRow, NumberPrototypes
  DEF Agree, ControlPacketApis
<1>46. Agree(BeaconApis, Called)
  BY SocRow, HandledRow, NumberPrototypes
  DEF Agree, BeaconApis
<1>47. Agree(ErrorApis, Called)
  BY SocRow, HandledRow, NumberPrototypes
  DEF Agree, ErrorApis
<1>48. Agree(AggregationApis, Called)
  BY SocRow, HandledRow, NumberPrototypes, NodeListPrototypes
  DEF Agree, AggregationApis
<1>49. Agree(StatsResetApis, Called)
  BY SocRow, HandledRow, SetPrototypes
  DEF Agree, StatsResetApis
<1>50. Agree(LogLevelApis, Called)
  <2>1. \A r \in Called :
         /\ r.api \in {"RMH_Log_GetAPILevel", "RMH_Log_GetDriverLevel"}
              => r.handler = "RMHApp__OUT_LOGLEVEL"
         /\ r.api \in {"RMH_Log_SetAPILevel", "RMH_Log_SetDriverLevel"}
              => r.handler = "RMHApp__IN_LOGLEVEL"
         /\ r.api \in {"RMH_Log_GetDriverFilename"} => r.handler = "RMHApp__OUT_STRING"
    BY HandledRow
  <2>. HIDE DEF Called
  <2>. QED
    BY <2>1, SocRow, BothRow, BoolTextPrototypes, EnumPrototypes, SetPrototypes
    DEF Agree, LogLevelApis
<1>51. Agree(LogPrintApis, Called)
  BY SocRow, GenericRow, HandledRow, SetPrototypes
  DEF Agree, LogPrintApis
<1>52. Agree(LogModulationApis, Called)
  BY GenericRow, HandledRow, SetPrototypes
  DEF Agree, LogModulationApis
<1>53. Agree(ACARequestApis, Called)
  BY SocRow, HandledRow, NumberPrototypes, TabooAcaPrototypes
  DEF Agree, ACARequestApis
<1>54. Agree(ACAResultApis, Called)
  <2>1. \A r \in Called :
         /\ r.api \in {"RMH_ACA_GetStatus"} => r.handler = "RMHApp__OUT_ACA_STATUS"
         /\ r.api \in {"RMH_ACA_GetTotalRxPower"} => r.handler = "RMHApp__OUT_INT32"
         /\ r.api \in {"RMH_ACA_GetPowerProfile"} => r.handler = "RMHApp__OUT_UINT8_ARRAY"
    BY HandledRow
  <2>. HIDE DEF Called
  <2>. QED
    BY <2>1, SocRow, NumberPrototypes, BoolTextPrototypes, TabooAcaPrototypes
    DEF Agree, ACAResultApis
<1>. HIDE DEF Called, HandledRows
<1>55. Agree(AllApis, Called)
  BY <1>1, <1>2, <1>3, <1>4, <1>5, <1>6, <1>7, <1>8, <1>9, <1>10, <1>11, <1>12, <1>13, <1>14,
     <1>15, <1>16, <1>17, <1>18, <1>19, <1>20, <1>21, <1>22, <1>23, <1>24, <1>25, <1>26, <1>27,
     <1>28, <1>29, <1>30, <1>31, <1>32, <1>33, <1>34, <1>35, <1>36, <1>37, <1>38, <1>39, <1>40,
     <1>41, <1>42, <1>43, <1>44, <1>45, <1>46, <1>47, <1>48, <1>49, <1>50, <1>51, <1>52, <1>53,
     <1>54
  DEF Agree, AllApis
<1>. QED
  BY <1>55 DEF Called

-----------------------------------------------------------------------------
(* The theorem.                                                            *)

\* The handlers of rmh fit the APIs they are registered for.
LEMMA HandlersFitTheApis == HandlersFit
<1>. SUFFICES ASSUME NEW r \in HandledRows \ LocalRows
              PROVE  /\ r.api \in ApiNames
                     /\ r.handler \in DOMAIN HandlerNamed
                     /\ Widths(HandlerNamed[r.handler].args) = Widths(ApiOf[r.api].params)
  BY DEF HandlersFit
<1>1. r.api \in ApiNames
  BY RowsAreOfApis
<1>2. r.handler \in {h.name : h \in Handlers}
  BY RowHandlers, HandlersNamed
<1>3. ApiOf[r.api] \in AllApis /\ ApiOf[r.api].name = r.api
  BY <1>1 DEF ApiOf, ApiNames
<1>4. /\ HandlerNamed[r.handler] \in Handlers
      /\ HandlerNamed[r.handler].name = r.handler
  BY <1>2 DEF HandlerNamed
<1>5. Fits(r.handler, ApiOf[r.api].params)
  BY <1>3, SectionsAgree DEF Agree
<1>6. Widths(HandlerNamed[r.handler].args) = Widths(ApiOf[r.api].params)
  BY <1>4, <1>5 DEF Fits
<1>7. r.handler \in DOMAIN HandlerNamed
  BY <1>2 DEF HandlerNamed
<1>. QED
  BY <1>1, <1>6, <1>7

\* The lists hold: a row is told by its API, so there are no more rows than names.
LEMMA HandledRowsSmall == Small(HandledRows, 275)
<1>. DEFINE names == ApiNames \cup LocalNames
            f == [r \in HandledRows |-> r.api]
<1>1. Small(ApiNames, 270)
  <2>. DEFINE g == [a \in AllApis |-> a.name]
  <2>1. {g[a] : a \in AllApis} = ApiNames
    BY DEF ApiNames
  <2>2. g = [a \in AllApis |-> g[a]]
    OBVIOUS
  <2>. HIDE DEF g
  <2>. QED
    BY <2>1, <2>2, AllApisSmall, SmallImage
<1>2. Small(LocalNames, 5)
  <2>. DEFINE five == {"RMHApp_DriverLogForever", "RMHApp_EnableDriverDebugLogging",
                       "RMHApp_DisableDriverDebugLogging", "RMHApp_Start", "RMHApp_Stop"}
  <2>1. Small(five, 5)
    BY SmallFew
  <2>2. LocalNames \subseteq five
    BY HandledRow DEF LocalNames, LocalRows
  <2>. HIDE DEF five
  <2>. QED
    BY <2>1, <2>2, SmallSubset
<1>3. Small(names, 275)
  BY <1>1, <1>2, SmallUnion
<1>4. \A r \in HandledRows : r.api \in names
  BY RowsAreOfApis DEF LocalNames
<1>. HIDE DEF names
<1>5. f \in Injection(HandledRows, names)
  BY <1>4, RowsByName DEF Injection, IsInjective
<1>6. IsFiniteSet(HandledRows) /\ Cardinality(HandledRows) <= Cardinality(names)
  BY <1>3, <1>5, FS_Injection DEF Small
<1>. QED
  BY <1>3, <1>6, FS_CardinalityType DEF Small

\* The lists of the library and of rmh hold what is put into them.
LEMMA ListsFitTheirContents == ListsFit
<1>1. Cardinality(HandledRows) <= 1024
  BY HandledRowsSmall, FS_CardinalityType DEF Small
<1>2. LargestSearch <= 1024
  BY LargestSearchBound
<1>. QED
  BY <1>1, <1>2, ApiListsHold DEF ListsFit, RMH_MAX_NUM_APIS

\* The tables of the library and of the application fit (RMHApp_RegisterAPIHandlers, the lists
\* of rmh_type.h): every handler calls its API with the types it was declared with, no list
\* is written past its end and no word stands for two commands.
THEOREM HandlersRegisteredHolds == Spec => []HandlersRegistered
<1>1. TablesFit
  BY HandlersFitTheApis, ListsFitTheirContents, WordsUnique DEF TablesFit
<1>2. HandlersRegistered
  BY <1>1 DEF HandlersRegistered
<1>. QED
  BY <1>2, PTL
=============================================================================
