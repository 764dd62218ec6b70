# RDO Studio (RAO-Studio): a TLA+ model of its simulator

RDO Studio simulates discrete event models written in the RDO language: resources, events, activities (rules
and operations), decision points with a graph search, and processes made of GPSS blocks. This directory holds
TLA+ models of the parts of it whose order of steps is hard to get right and to test, the TLC runs that check them, and
proofs of their main properties.

Paths below are relative to the root of the repository (`src/`). The build described by the project files is the
single-threaded one (`RDO_ST`, `src/CMakeLists.txt:30`), without `RDOSIM_COMPATIBLE` and `RDO_703_COMPATIBLE`.

## 1. Inventory

| Part | State | Operations | Meets | Hard behaviour |
|---|---|---|---|---|
| Event calendar and main step: `simulator/runtime/rdobase.cpp`, `rdo_simulator.cpp` | current time, next time, map time -> list of planned events, `m_checkOperation`, the activity to be continued | `rdoInit`, `rdoNext`, `doOperation`, `addTimePoint`, `removeTimePoint`, `rdoPostProcess` | calls the bodies of events and the meta logic; they plan and stop events | the next time is chosen in one step and used in the next; the flag decides whether events or activities come first; lists are changed by the bodies they call |
| Run control: head of `rdoNext`, `setMode`, `setSpeed`, `setShowRate`, `breakPoints` | mode, delays, wall clock of the last step, pause before a break point | the setters, called by messages between two steps | delays `rdoNext` | wall clock set back, mode changed while a delay runs, break point and pause |
| Activities: `rdo_logic*.cpp/h`, `rdo_rule.cpp`, `rdo_operation.cpp`, `rdo_activity.cpp`, `rdo_pattern.cpp` | last condition and first ready child of every logic, the running instances of operations | `onStart`, `onStop`, `onCheckCondition`, `onDoOperation`, `onContinue` | called by the main step, plan the end of operations in the calendar | a logic stops while its operations run; priorities recomputed at each scan; the check changes state |
| Events: `rdo_event.cpp`, `calc/calc_event.cpp` | none of their own | plan, stop, happen | calendar, resources | planning for the past, stopping oneself |
| Graph search: `searchtree.cpp`, `rdo_logic_dptsearch.cpp` | tree of states, OPEN, costs | start, expand a node, replay the path | clones of the runtime, activities | a node gets a cheaper parent and its subtree keeps old costs |
| Process blocks: `process/*.cpp`, `calc/calc_process.cpp` | lists of transacts of blocks and of resources, seized resource of a transact, states and lengths | check and operation of each block, events of GENERATE and ADVANCE, start of a transact by an event | scanned as activities, events in the calendar, states of resources shared with patterns | several processes meet in the lists of resources; the check changes state before the operation |
| Runtime, resources, memory stack: `rdo_runtime.cpp`, `rdo_resource.cpp`, `rdo_memory.cpp` | resources by number and type, local variables | create, erase, copy, compare | everything | a number used after its resource is erased |
| Expressions, values: `calc/`, `rdo_value.cpp`, `rdo_array.cpp`, ... | none between calls | evaluate | runtime | numeric edges; unit tests exist |
| Results, trace: `result/`, `rdotrace.cpp`, `simulator/report` | statistics, text | collect, write | notified by the calendar and by resources | intervals open at the end of the run |
| Frames, keyboard: `rdoframe.cpp`, `hotkey.cpp` | drawing lists, pressed keys and areas | draw, press, release | studio window, operations with hot keys | a key pressed and released between two steps |
| Service: `simulator/service/src/simulator.cpp` | parser, runtime, run thread, exit code | parse, run, stop, terminate, close | kernel messages, studio, runtime | stop and run-time error in one step, the farewell of a thread being closed |
| Kernel: `kernel/rdothread.cpp`, `rdokernel.cpp` | registered threads, what each listens to | register, send, broadcast, idle | all of the above | handlers that register or remove threads, order of delivery |
| Studio model: `app/rdo_studio/src/model/model.cpp` | open, changed, running flags | new, open, save, close, build, run, stop | kernel messages, repository, window | flags that follow messages of a run already over |
| Repository, compiler (parser, model builder, process generator), converter, console, CORBA, user interface, plug-ins, utilities | files, tables of the parser, widgets | translation and I/O | service, studio | little: sequential, or pure I/O |

What makes the parts correct: the calendar carries events out in the order of their times and of their planning, loses
none and does not move past one; the activities get their turn; a process serves transacts in order, gives a
resource to one at a time, loses none and counts its queues right; the search returns a path of least cost; a run ends once, with
the reason it ended for; the studio's flags follow the run.

## 2. Plan

| # | Module | State of work | Composes / implements |
|---|---|---|---|
| 1 | `EventCalendar`, abstract `Agenda` | written, checked, proved | `EventCalendar` implements `Agenda` |
| 2 | `Process` | written, checked, proved | - |
| 3 | `SearchTree` | written, checked, proved | what `EventCalendar` continues with `ContinueSearch` |
| 4 | `RunControl`: modes, delays, pacing by the wall clock, keys and areas | written, checked, proved | the head of the step whose rest is `EventCalendar` |
| 5 | `Activities`: decision points, rules, operations, resources and their numbers | written, checked, proved | what `EventCalendar` abstracts to `canRun` and to the bodies of events and activities |
| 6 | `ModelRun`, abstract `RunReport`: service, run thread, kernel, repository, studio, console | written, checked, proved | `ModelRun` composes all of these and implements `RunReport` |
| 7 | `RunControl` over the whole of `EventCalendar`: delays only stutter | open | `EventCalendar` |
| 8 | `ProcessTime`: GENERATE and ADVANCE with their times, the limit and the zero interval | open | `Process` and `EventCalendar` |
| 9 | `Activities`: start and stop of decision points, priorities that depend on the state, events that choose resources | open | - |
| 10 | results: statistics that follow the calendar and the resources | open | - |

Every module that is written is also proved about: each safety invariant and action property its runs check, and the two refinements, are
theorems (section 5). Theorems worth having next are those of rows 7 and 8: that delays only stutter over the calendar, and
that GENERATE and ADVANCE come at their times.

## 3. The modules

### EventCalendar, Agenda

`EventCalendar` is `RDOSimulatorBase` with `RDOSimulator::doOperation`.

| TLA+ | Code |
|---|---|
| `currentTime`, `nextTime`, `checkOperation`, `mustContinue` | `m_currentTime`, `m_nextTime`, `m_checkOperation`, `m_pOprMustContinue` |
| `keys`, `planned` | `m_timePoints`: its keys, and the items of its lists. An item carries the number of the `addTimePoint` call; the list of a key is the items of that time by number |
| `phase` | the body that is running (`onInit`, `preProcess`, an event, an activity), between two steps, stopped, cleared |
| `canRun` | what the meta logic would answer now; chosen anew after each body and each move of the clock |
| `batch` | history only: the rest of the list the last event was taken from, until an event is planned before it |
| `AddTimePoint`, `RemoveTimePoint` | the calls of `RDOCalcEventPlan`, `RDOCalcEventStop` and of GENERATE, ADVANCE and operations, made by the bodies |
| `InitTimePoint`, `Return` | the rest of `rdoInit`; the return of a body |
| `EndCondition`, `RunPlannedEvent`, `StartActivity`, `NoActivity` (with `NextTimePoint`), `ContinueSearch`, `SearchFound`, `SearchFailed` | the ways through one `rdoNext` |
| `RuntimeError`, `UserBreak`, `RdoPostProcess` | the other ends of a run, `rdoPostProcess` |

The model being simulated is the environment: a body may plan and stop any events, for times already passed too
(`addTimePoint` accepts them), and a condition of the end may hold at any time. A body that fails part of the way is `RuntimeError`
after some of its calls. The holds and delays at the head of `rdoNext` are `RunControl`; counters for statistics are left out.

`Agenda` is the promise: a clock and a set of pending events; an event happens no earlier than it
was planned for, in the order of times and, at one time, of planning; the clock moves only to
the time of a pending event; an event leaves by happening, by being stopped or at the end of the run.

### Process

`Process` is the directory `simulator/runtime/process`: any number of processes, each a sequence of blocks.

| TLA+ | Code |
|---|---|
| `Program` | the blocks of each process in the order of `RDOLogic::m_childList` |
| `Entry` | the processes that events of the model send transacts to |
| `block`, `res` | `RDOPROCTransact::m_block`, `m_res` (one resource only) |
| `waiting`, `leaving`, `listed` | `RDOPROCBlock::m_transacts`, `RDOPROCAdvance::leave_list`, `RDOPROCResource::transacts` |
| `rank` | the order of these lists. Each is appended to only by `transactGoIn` (`leave_list` is walked as a whole), so the order of every list is the order of its members' last `transactGoIn`, and a list is a set ordered by `rank` |
| `state`, `length`, `term` | the parameters of the resources that SEIZE/RELEASE and QUEUE/DEPART change, the terminate counter |
| `owners` | history only: who has seized a resource and not released it |
| `DoQueue` ... `DoTerminate` | `onCheckCondition`, which changes state, and `onDoOperation` of a block in one action, with the erasures made by RELEASE blocks whose checks failed before it in the scan (`Passed`, `LostIn`) |
| `ScanInVain`, `ScanCutShort` | a scan in which nothing is done but the RELEASE blocks it came by have erased transacts (`Vain`): no block of the process is ready, or the first that is ready (`MayBeDue`: a GENERATE, or an ADVANCE somebody is due to leave) leaves its work to its event, which is still to come |
| `Generate`, `AdvanceEnds`, `ProcessStart` | the events of GENERATE and ADVANCE, and an event of the model that sends a new transact to the first block of a process of `Entry`; if that is a GENERATE, which takes nobody off its list, the transact waits there for ever |
| `Break`, `Repair` | patterns of the model that change the state of a resource |

A scan goes on to the next process when one has no ready block; the model makes a step of each, in any order, so every
order that the priorities of processes could give is allowed. Time is left out: an event of GENERATE or ADVANCE
may come at any moment, alone or with others of the same ADVANCE. A program is one the parser
accepts; `BlockAssumption` asks for a block after each GENERATE. An event sends only transacts that are in no process yet, though the code does not
ask (`calc_process.cpp:41`; one that is in a process would then be in two lists). Abstracted: what ASSIGN assigns, the amount TERMINATE adds (1 here), tracing and statistics.

### SearchTree

`SearchTree` is one activation of a decision point of type search: `TreeRoot`, `TreeNode` and `RDODPTSearch`.

| TLA+ | Code |
|---|---|
| `Problem` | what the model gives to the search: the state it starts in, the terminal condition, `$Evaluate_by`, `$Compare_tops`, and for each activity where its rule leads from a state and at what cost |
| `1..size`, `db`, `parent`, `activity`, `number`, `costRule`, `costPath`, `costRest` | the nodes in the order they were made and the fields of `TreeNode`; `m_children` is read off `parent` |
| `OPEN`, `target`, `numbers` | `m_OPEN` (a set: it is sorted before it is read, `First`), `m_targetNode`, `m_nodesCount` |
| `pc` | the loop that runs: nodes taken from OPEN, activities, `ReCostSubTree`, the walk up to the root, the rules of the solution |
| `OpenNode`, `NotApplicable`, `NewNode`, `CloseNode` | `ExpandChildren` |
| `FoundBetter`, `FoundLoser`, `ReCostSubTree`, `ChangeParent` | the comparison of states and the change of parents |
| `CollectPath`, `ApplyRule`, `ReportSuccess` | the end of `RDODPTSearch::onContinue`; `real` is the state of the resources of the model |
| `total` | history only: what the rules applied to the model cost |

The states of the resources are values without structure. Costs are positive whole numbers, estimates whole numbers; with
them the tolerance of `compareNodes` plays no part. A set of problems is a constant, so one run covers
thousands of graphs. What a solution is compared with is not the tree but the problem: `Ways(p, n)` is where at most `n` rules lead
from the start and what they cost, whatever the search did; the properties use `MaxRules` for `n`. A problem has `SameCost` if all rules into
one state cost the same (`value after`), and is `Consistent` if no estimate falls by more than a rule costs and goals are estimated at 0. The root is taken to have no parent by number 0 and is never moved, which the proofs show. `onContinue` returns
every 25 ms and is called again in the next step of the simulator; nothing else touches the tree meanwhile, so this is
no step of the model. Statistics and trace are left out.

### RunControl

`RunControl` is how `rdoNext` is held and delayed while the user changes things: `RDOSimulatorBase::rdoNext` and its setters,
`RDOThreadRunTime::proc`, `hotkey.cpp`.

| TLA+ | Code |
|---|---|
| `mode`, `speed`, `current`, `wait` | `m_mode`, `m_speed` (with `m_next_delay_count`, a function `Count` of it), `m_next_delay_current`, `m_msec_wait` |
| `elapsed`, `back` | the wall clock since `m_msec_prev`, and by how much it was set back meanwhile; `Delta` is what the code makes of the two readings |
| `down`, `found`, `clicked` | `KeyDownList::m_keyList` and `m_keyFound`, `AreaList::m_activeAreasMouseClicked` |
| `moved`, `over` | `m_nextTime` has left the start; `rdoNext` has returned false |
| `DelayByCount`, `DelayByWait` | the two early returns of `rdoNext` |
| `End`, `Operate`, `Advance` | the rest of `rdoNext`: the run ends, an operation runs (and a break point may then hold), the time advances and a new wait begins (`Await`). What they do to the calendar is `EventCalendar` |
| `Scan`, `Ask` | the first `n` keyboard operations are asked for their area or key (`choiceFrom`), in their order; `Asked` is what is left of the keys after the first of them |
| `SetMode`, `SetSpeed`, `SetShowRate`, `KeyDown`, `KeyUp`, `AreaClick` | the messages of the studio |
| `Tick`, `ClockSetBack` | the wall clock |
| `fresh`, `lead`, `turn` | history only: no step since the delays were reset; model time less real time since then; the parity of the number of steps |

All times are in one unit (the millisecond of `m_msec_wait`, some units long here); the model's durations are given at the show rate in
force, and a speed is the number that `m_msec_wait` is divided by, turned over: 2 is speed one half. Speed 0 divides by `DBL_MIN`, hence `Longest`.

### Activities

`Activities` is the scan of the decision points and what rules, operations and events do to resources: `rdo_logic*`, `rdo_rule.cpp`,
`rdo_operation.cpp`, `rdo_activity.cpp`, `rdo_pattern.cpp`, `rdo_runtime.cpp`, and the numbers handed out in `simtrace.cpp`.

| TLA+ | Code |
|---|---|
| `model` | the runtime, as a value that can be cloned: `m_resourceListByID` with its length, the list of the type, `m_referenceCount`, `freeResourcesIds`, `maxResourcesId` |
| `running`, `freeOps`, `nextOp` | the copies of operations in the calendar with their relevant resources, `freeOperationsIds`, `maxOperationId` |
| `check`, `failed` | `m_checkOperation`; a runtime error ended the run |
| `Pattern`, `Relevant` | the relevant resources of a pattern, each with the values it is chosen from, its converter statuses at begin and end, and what it is set to (a value, or the parameter) |
| `CreateRes`, `EraseRes`, `Clone`, `Equal`, `IncRefs`, `DecRefs` | `createRes`, `onEraseRes`, `RDORuntime::copyFrom`, `equal`, `incRefCount`, `decRefCount` |
| `Do`, `Pass` | a converter of one relevant resource; `runCalcs` over all of them, up to the first error |
| `Trial`, `Ready`, `Takes`, `Taken` | a rule tried on a clone, `onCheckCondition` of an activity, `RDOOrderSimple` and `RDOOrderDPTPrior`, the meta logic |
| `TrialFails`, `CheckFails`, `ScanFails` | an error in the trial of a rule the scan comes to, which ends the run with the model as it was |
| `RunRule`, `BeginOperation`, `EndOperation`, `Event` | `onDoOperation` of rules and operations, the planned end of an operation, an event |
| `latest` | history only: the last activity and the parameter it began with |

`Taken` is a set because activities of equal priority may be sorted either way; the rule for the parameters
is the one of the code: a check writes them, the beginning of an activity does not. There is one type of resources with one parameter; the end
of an operation may come at any moment. An operation whose pattern erases a resource it also needs in the end stops the run when it begins:
the code dereferences a null pointer there. `MaxRes` and `MaxOps` keep the instance finite: they stop a run that would need
more numbers and are no conditions of the code.

### ModelRun, RunReport

`ModelRun` composes the simulator service, the object that runs a model, the kernel, the repository, and one of two front ends,
the studio or the console. In the single-threaded build a message is a call and a broadcast a loop of
calls, so the state of the program is a call stack: `todo`. Its head is replaced by the calls it makes.

| TLA+ | Code |
|---|---|
| `todo`: `Cast`, `Hear`, `Call` | the rest of a `broadcastMessage`, a message about to be handled by `proc`, the rest of a function that made a call |
| `threads`, `Notifies`, `Broadcast` | `RDOKernel::threads`, `notifies`, `RDOThread::broadcastMessage`, which goes through the list as it is when it gets to a place |
| `loaded`, `whyStop`, `exitCode`, `runThread`, `listens` | `m_pParser` and `m_pRuntime`, `m_whyStop`, `m_exitCode`, `m_pThreadRuntime`, the subscription to the end of a run |
| `Connect`, `RdoInit`, `Idle`, `CloseRuntime`, `Disconnect`, `RdoPostProcess` | `RDOThreadRunTime`: constructor, start, `idle`, and `RT_THREAD_CLOSE` |
| `ParseModel`, `Parse`, `RunModel`, `KeepThread`, `StopModel`, `TerminateModel`, `Terminated`, `ThreadStopAfter`, `ForgetThread`, `CloseModel`, `Report` | `RDOThreadSimulator`; a function that makes calls is cut at each of them |
| `files`, `traceFile`, `FilesMessage` ... `FilesStopModel` | `RDOThreadRepository` |
| `OpenModel`, `FileName`, `OpenFiles`, `CloseBox` | the broadcast of `MODEL_OPEN` in the repository, with the question for a name and the box that says a model was not found; the event loop runs in both |
| `hasModel`, `canRun`, `isRunning`, `buildState`, `modelExit`, `timer`, `window` | `rdo::gui::model::Model` and the main window |
| `StudioFiles` ... `StudioReport`; `UserCloses`, `UserNew`, `UserBuild`, `UserRun`, `UserStop`; `CanClose`, `Answer`, `StudioCloseModel`, `Exit` | what the studio does on messages; the commands of the menu with their `canX` guards; `closeModel`, whose question, or box that says the model is running, runs the event loop (`InDialog`, `Dialogs`) |
| `Timer` | the update of the frames while a run is on, when it fails (`RT_SIMULATOR_MODEL_STOP_RUNTIME_DELAY`) |
| `console`, `ConsoleMain`, `ConsoleHears` | `main` of the console and `console_controller` |
| `owed`, `verdict` | history only: a run was started and not reported; the last report, which is `unfounded` if nothing was owed |

The model that runs may fail at its start, at any step and in post-processing, and may end at any step; a compilation may
fail. `RunReport` is the promise to whoever follows a run: it is reported once, after its end and before another starts, as stopped
if it was asked to stop, else as failed if anything went wrong, else as ended. An unfounded report, a second one of the same run say, is
no step of `RunReport`. `owed` is an abstraction: it is set by the constructor of
the run, which the service always goes on to remember.

## 4. Runs

| Run | Configuration | Shows |
|---|---|---|
| `calendar` | 2 operations, times 0..3, start at 1, 4 plannings, fairness; 395398 states | the calendar keeps its structure (`ListsAgreeWithKeys`, `NextTimeIsAnEvent`) and implements `Agenda`; no activity comes between the events found in one list (`BatchRunsFirst`); `EveryEventHappens` |
| `process_service` | 3 transacts, fairness; a process with two channels and a queue, and one fed by an event that seizes twice in a row and shares both resources | `OneOwner`, `EveryTransactLeaves`; 22350 states |
| `process_breakdown` | the same with patterns that break and repair the resources at any time, and events that send transacts to both processes, one of which begins with a GENERATE; 98523 states | `ListsAgree`, `OnePlace`, `NoStuckSeize`, `ServedInOrder`, `QueueLength`: lists, places, order of service and counts survive; a transact is erased in a failing check, in scans that do nothing else too |
| `process_nested` | one process that holds one resource while it seizes another | violated: the help says RELEASE frees what the transact has seized above |
| `search` | 24576 problems of 6 states whose costs depend on the state reached, all sorts of estimates, with and without `$Compare_tops`; 5648 problems with costs by arc and consistent estimates; fairness | the tree, its costs, the solution and its effect on the model (`ArcsAreRules`, `UniqueStates`, `PathCostsAdd`, `SolutionReachesGoal`, `SolutionCostIsSum`), `FailsOnlyWithoutSolution`, `SearchEnds`; with consistent estimates `OpenIsInOrder` and `FoundIsCheapest` against all ways through the problem |
| `search_loop` | costs by arc, estimates that are too high, fairness | violated: the help says the search stops when a goal is found |
| `run_control` | speeds 1, 1/2 and 0 with 0, 2 and 4 calls between steps, durations 0, 1 and 3, one key with and without one modifier, one area; 340696 states, fairness | `AtOnceAfterChange`, `NeverEarly`, `GoesOn` |
| `run_clock` | the same when the clock may be set back by 2 | violated: the comment says the branch takes care of a clock that reads less than before |
| `activities` | parts arrive by an event, are worked on, looked at, copied, held and packed by operations, painted and taken away by rules, one of which fails in its trial; up to 5 resources and 3 operations; 69144 states | `OperationsKeepResources`, `RefsAgree`, `NumbersAgree`, `NoIdleRule`, `RulesFailOnUse` |
| `activities_prior` | two operations of one prior decision point with different parameters | violated: the help says each activity gives its pattern's parameters their values |
| `model_run` | studio and console, all command line options, fairness; 25913 states, nothing bounded | `RuntimeIsThere`, `ModelIsThere`, `ServiceFollowsRun`, `TraceSpansRun`, `ConsoleTellsTruth`, `FailedRunIsReported`, `MenuComesBack`, and `RunReport` implemented |
| `run_exitcode` | the same | violated: the exit code of a run that failed in a frame is that of a good end |

Bounds. Four plannings and four instants allow a list of several events, two lists at once, one before and one
after the clock, a stop that empties one list of several, and planning again after it. Three transacts let two wait in
both orders for a resource a third one has, at blocks of different processes that list the resources differently; two
resources are what a SEIZE with a choice needs. In `search` state 4 can be reached in three ways and has two states
below it, so that a node with two children moves, and a search may be given a goal or none; `MaxNodes` binds only where states are not compared; `MaxRules` is 6, and a way
that visits none of the 6 states twice has 5 rules.
In `run_control` `MaxWait` (4) lets a wait of 3 follow a rest of 1 that was skipped while a key was down, and at half speed become 8;
`MaxElapsed` (9) lets every such wait run out, and only the wait of speed 0 (`Longest`, 100) does not; `MaxLag` (9) bounds the history variable `lead` from below, where
it can violate nothing; `Repeats` is 2 where the code keeps a key 4 times. In `activities` five resources let two parts be in two operations each while a
third comes and goes, so that numbers are reused in every order; three operations let the number of one that ended be taken while two others go
on. Symmetry is used only in `process_breakdown`, a run of safety properties and one action property, over transacts, which are
neither ordered nor named by a constant of the model. Deadlock is not checked where a program really ends
(after `rdoPostProcess`, when every transact has left, when the search is over, when the studio is left or the console has ended) or where a bound stops it (`activities`);
`run_control` ticks on for ever.

Some properties are about certain models only, and the runs are of such models, which assumptions of the MC modules state: `OneOwner` and
`QueueLength` about programs that pair SEIZE with RELEASE and QUEUE with DEPART (`ServiceIsPaired`) and whose patterns do not free a
resource by hand (`QueueLength` holds with breakdowns too if no RELEASE comes between QUEUE and DEPART); the theorem on `NoIdleRule` about decision points whose activities give their parameters one value if they
are prior (`LogicGivesOneParameter`; `activities_prior` shows what happens otherwise), and `NoIdleRule` itself says nothing of a model whose resource with the highest number
has been erased, for then the code does find idle rules again for ever (section 6); the costs of the tree
about problems that have `SameCost` or are `Consistent` (`CostsAreTame`; `search_loop` shows what happens otherwise). The same conditions are the hypotheses of the theorems below.

Fairness. `RDOKernel::idle` calls the idle handler of the run for ever, and each call is a `rdoNext`; a body is code that
returns; a run that stopped is post-processed. Hence weak fairness of `RdoNext`, `Return`, `InitTimePoint` and
`RdoPostProcess`. `EveryEventHappens` assumes besides that the activities come to rest again and
again: a model may have a rule that is always ready, and then the clock stands still. Nothing is
assumed of the environment (that it plans, that the user stops, or that the model's end condition ever holds:
`EndCondition` is not part of the fair `RdoNext`). In `Process`, weak fairness of `Scan` is the
repetition of `rdoNext`, that of `AdvanceEnds` for each ADVANCE is what `EveryEventHappens` gives; GENERATE owes nothing. In
`SearchTree` weak fairness of `Next` says that the loops are code that runs, and that `onContinue` is called again until it is done. In
`RunControl` it is the repetition of `rdoNext` and the passing of time; `GoesOn` asks that the run is not held or at speed 0 from some time on, while
the user may change everything else for ever. In `ModelRun` weak fairness of `Internal` says that functions return, that of `ConsoleMain` that `main` goes on;
`Idle` is strongly fair because the event loop calls it from a timer without delay whenever it is reached, in
dialogs too, however often the user or the frames interrupt it. Nothing is assumed of the user or of the model that runs.

## 5. What is proved

All theorems hold for every value of the constants that the named assumptions admit, and are checked by TLAPS without
anything taken on trust. They follow one pattern: an inductive invariant, checked with TLC first, one lemma
or step per action, a temporal step at the end.

`EventCalendar_proofs`, from `CalendarAssumption` (times are integers, the start is one of them):

- `TypeCorrect`.
- `KeysAreRight` (`ListsAgreeWithKeys`) and `NextTimeStaysRight` (`NextTimeIsAnEvent`). They are not inductive: the
  invariant `IInv` adds that no key lies before a `nextTime` the clock has yet to reach, with its list not empty (`NextIsFirst`), and what holds while
  `rdoInit` is under way (`InitAtStart`).
- `CalendarImplementsAgenda`: every step of the calendar is a step of `Agenda` or stutters.
- `BatchCorrect`: `BatchRunsFirst`, planning for the past included. The invariant adds that
  while the rest of a batch is pending it is the first list and due, and that item numbers are used once.

`Process_proofs`, from `ProcessAssumption` and `BlockAssumption`, for every set of programs, with and without breakdowns:

- `TypeCorrect`, `EveryoneInOnePlace` (`OnePlace`) and `ListsStayInStep` (`ListsAgree`). The three go together, with "only created transacts are erased":
  that a list of a resource loses the right members depends on the transact being in one place.
- `SeizeIsNeverStuck`: `NoStuckSeize`. If a resource is free and somebody waits for it, the transact
  that went in first among all that wait for free resources is first in its block and in the list of the
  first free resource of that block, so its SEIZE is ready. The least rank exists by well-foundedness of the naturals.
- `FirstComeFirstServed`: `ServedInOrder`.

Also in `Process_proofs`, for programs that pair their blocks:

- `SeizedByOne` (`OneOwner`), if a program releases what it has seized before it seizes again (`SeizesArePaired`) and there are no
  breakdowns. The invariant `OwnInv` ties three views of a service together: the owner of a resource is a transact that is between such a SEIZE
  and its RELEASE and has this resource (`OwnersServe`), a resource is busy if it has an owner (`BusyIsOwned`), and it has one at most (`OwnersAreFew`).
- `QueuesAreCounted` (`QueueLength`), if a program queues once and departs once after it, and a transact does not end in between (`QueuesArePaired`;
  with breakdowns, that is also without a RELEASE in between, whose failing check may erase it). The other transacts stay inside or outside, so each
  QUEUE and DEPART changes the number of those inside by one.

`SearchTree_proofs`, from `SearchAssumption`, for any set of problems, of any size:

- `TypeCorrect`, `EveryArcIsARule` and `SuccessMeansGoal` hold for every problem, also for those whose tree breaks
  (section 6): a search that reports success has brought the model to a goal. The invariant `IInv` says that the path is a chain
  of parents that ends in the target, or runs in a circle that does not contain the root (and then the walk never ends), that
  the root is never moved, and that the model is in the state of the node before the next one of the path.
- `PathsAddUp`, `StatesAreUnique`, `ReportedCostIsSum` hold if the rules that lead to one state cost the same (`SameCost`).
  The invariant `ReCosting` describes a half-done change of parents: only the nodes still to be recomputed are out of step, and
  each is dearer than the new parent, which is therefore not below the moved node. `AllInTree` follows from costs being positive: a
  set of nodes that contains the parents of all its members has no cheapest one.

`SearchOptimal_proofs`, from the same assumption, is about what a search finds and what it cannot miss:

- `FailureMeansNone` (`FailsOnlyWithoutSolution`), for every problem, also for those whose tree breaks. The invariant `EInv` says that every rule
  that applies to a closed node leads to the state of some node of the tree, and the same of the activities already tried at
  the node being expanded; nodes are not taken out of the tree and no closed node is a goal. So a search with nothing left in OPEN has every state
  any number of rules leads to.
- `OpenStaysInOrder` (`OpenIsInOrder`), `CheapestIsFound` (`FoundIsCheapest`), for consistent estimates and any `MaxRules`. The invariant `OInv`:
  the key of an open node is its path plus its estimate (`Keys`); nodes leave OPEN in the order of their keys, so no closed node is
  dearer than an open one (`Ordered`), a cheaper way to a state can only lead to an open node, and open nodes are leaves (`Leaves`,
  `LeafMoves`): the case in which the tree breaks does not arise. Every way of the problem leads to a closed node that is no dearer,
  or costs with the estimate of its end at least what the first of OPEN does (`AllBeaten`); the target is the first of OPEN when it is taken, so no way to a goal
  is cheaper (`TargetIsCheapest`).
- `CostsAreRight`: `PathCostsAdd`, `UniqueStates` and `SolutionCostIsSum` hold also if the problem is `Consistent` and has not `SameCost`.
- What is said of all ways is shown for lengths 0, 1, 2, ... up to `MaxRules`, with the lemma `UpTo` of `NatSets`: a set that has 0 and the successor
  of each of its numbers up to n has them all. `Activities_proofs` and `RunControl_proofs` use it in the same way for passes over a sequence.

`RunControl_proofs`, from `RunControlAssumption`, for a clock that is not set back (`Spec`):

- `ChangesActAtOnce` (`AtOnceAfterChange`): while no step has been made since the delays were reset, the count is full and there is no wait
  (`FreshIsReady`).
- `SyncIsNeverEarly` (`NeverEarly`). The invariant `LeadIsAwaited` says that what the model is ahead by is still waited for: `lead + elapsed =< wait`. It
  is kept by `Advance` because no speed makes a wait shorter, a multiplication the lemma `StretchLengthens` deals with, and because
  nothing is waited for in the modes without pacing (`NoWaitAtOnce`) or before the time has moved (`NoWaitAtStart`).
- `RunControlIsTyped` (`TypeOK`): the count of delays needs its own bound (`CountIsBounded`), and what a scan leaves of keys and areas is shown
  operation by operation.

`Activities_proofs`, from `ActivitiesAssumption`, for all patterns, decision points, initial resources and bounds:

- `ActivitiesAreTyped` (`TypeOK`), `NumbersAreUnique` (`NumbersAgree`), `ReferencesAreCounted` (`RefsAgree`), `ResourcesAreKept`
  (`OperationsKeepResources`). One invariant, `AInv`: a runtime is good (`GoodModel`) if its lists are of one length, the list of the type has each resource that exists once and
  the list of free numbers has each other one once; the numbers of operations are in use or free; and, until an error ends the run, the references agree with
  the operations in progress, whose resources exist (`Agree`). Each converter and each pass keeps `GoodModel`; a pass erases only what nobody refers to.
  That references are counted is not inductive without the rest: a number that is freed and given again must have none.
- `RulesAreNotIdle` (`NoIdleRule`), if the activities of each prior decision point give the parameters one value (`OneParameterEach`). The check
  tries the rule on a clone, the run does it on the runtime: a simulation between a runtime and itself without references (`Unused`, `Blind`)
  shows that a pass that ends without error does the same to both, erasures being allowed in the clone wherever they are in the runtime.
- `RulesFailOnlyOnUse` (`RulesFailOnUse`), for any decision points: a rule whose trial went well fails only if it erases a resource that an operation in
  progress uses, which the clone cannot know. Without such a resource the same simulation has the pass over the runtime do what the pass over the clone did.
  Which parameter is in force plays no part, because no error depends on a value.

`ModelRun_proofs`, without assumptions (`ModelRun` has no constants: front end and options are variables that never change):

- `TypeCorrect` (`TypeOK`), `RunIsThere` (`RuntimeIsThere`), `ModelStaysOpen` (`ModelIsThere`), `ServiceKnowsRun` (`ServiceFollowsRun`),
  `TraceIsClosed` (`TraceSpansRun`) and `ConsoleIsRight` (`ConsoleTellsTruth`) follow from one invariant, `IInv` (`ModelRunInvariant`).
  None of them is inductive, since what a handler may rely on depends on all calls that wait below it. `IInv` is therefore a typing of call stacks.
  The mark of an item (`Mark`) is what it is to the argument: a function that goes on, a handler, or a broadcast, told apart by whether the thread
  for which it matters has heard it. `StackOK` says of each item what marks may be below it and how many items (`Fits`), as a function would
  say who may call it: the limits add up to the twelve of `TypeOK`, so no chain of dialogs, messages and reports grows without end.
- The rest of `IInv` says what the marks on the stack tell about the state: of the run and who remembers it (`RunInv`), how far the end of a run has
  got (`EndInv`), the exit code and the trace (`CodeInv`), and what the studio and the console know by then (`StudioInv`, `ConsoleInv`). A run that is gone and
  not reported, for example, has its report on the stack.
- `Pop`, `Push` and what is built on them reduce a step of the stack to the marks: the head is taken off, and the calls it makes are put on what is left, which is a stack.
  `Hears`, `PassesBy` and `Told` do the same for a broadcast, whose list of threads may grow or shrink between two of its places. `Waits` and `Opening` are what may be on the stack while the user is asked
something: nothing but a command of the menu that closes a model, or the opening of one, whose file dialogs wait below the event loop. Then there is one lemma
  for each operation of the service, the run, the repository, the studio, the console and the user (`...Keeps`).
- `RunIsReportedRightly` (`ImplementsRunReport`): each operation is the start of a run, a failure, a request to stop, the end or the report of `RunReport`, or a stutter; that the report is the
  right one is in `EndInv` and `CodeInv`. It is the only one because a run is owed whenever a report is made, which the marks of a report say.
- TLC explores the same state space in full. The proof adds the reason, and the places where the code depends on it: that a run being stopped is not
  reported as ended rests on the service not listening while it terminates the run, that the model is there for a report on `closeModel` waiting below it.

Only model-checked: liveness (`EveryEventHappens`, `EveryTransactLeaves`, `SearchEnds`, `GoesOn`, `FailedRunIsReported`, `MenuComesBack`), which is out of the
prover's reach under fairness. What recursive functions over data compute for all inputs, such as the costs of all ways
through a problem, is proved up to a given number by steps (`UpTo`), since induction over data is out of its reach too.

## 6. Findings

- `process_nested`: a transact has room for one seized resource; after nested SEIZEs the first one is never released.
- `search_loop`: a change of parents recomputes the costs below the moved node from the cost of the rule it had been made by. If rules
  into one state differ in cost, an ancestor can become the child of its descendant; the two are cut off from the root, and when a goal
  is found below them the walk to the root never ends. The counterexample: 1->2 (5), 2->4 (1), 1->3 (1), 3->4 (4), 4->5 (1),
  5->4 (1), 5->6 (1), goal 6, with estimates that have 4 expanded before 3 and 5 after it. The same order of steps makes the reported cost of a solution wrong.
- `run_exitcode`: a run ended by a failing frame is reported as failed with the exit code of a good end; with `-autoexit -dont_close_if_error` the studio closes.
- `run_clock`: the branch of `rdoNext` meant for midnight is taken when the clock is set back; it adds 49.7 days to the time that has passed and the synchronous mode runs without pacing.
- `activities_prior`: all activities of a prior decision point are checked before one begins, and it begins with the parameters of the one checked last.

Seen while modelling, without a run of its own:

- Calendar: an event planned for a time already passed runs at once, which the help (`rdo_base_instr.htm:63`) describes otherwise; activities get ahead of events
  due at the same moment at the start and after the last event of a list; between two events of one list the decision points are not asked (the help has them asked at every event).
- Search: a change of parents leaves `m_costRest` of the nodes below, by which OPEN is sorted, as it was (`KeyIsPathPlusEstimate` holds with
  consistent estimates, where only leaves move, and fails for the other problems of `search`).
- Pacing: delays skipped while a key is down add up and are waited for later; time spent at a break point counts as waited; speed 0 in the synchronous mode waits for ever;
  an area no operation answers stays clicked and switches pacing off; what is left of a wait is divided by the speed again; `clear` of the key list does not reset `m_keyFound`.
- Activities: the clone has no references, so a rule that erases a resource in use is taken to be applicable and then ends the run; once the
  resource with the highest number has been erased the clone never equals the original, so a rule that changes nothing is found again for ever; a pattern that erases a resource it also keeps meets a null pointer.
- Processes: an event may send a transact to a process that begins with a GENERATE, where it waits for ever.
- Runs: a run whose `rdoInit` failed stays registered until the next `idle` while the studio thinks nothing runs, so closing the model then leaves the run behind (`model.cpp:575`);
  the handler of a good end never asks for the exit code; a model that is new, not reopened, gets no trace and no results file; an exception in post-processing writes the old status to the trace; the console
  ends with the code of a good end after "completed with errors".

## 7. Not modelled

Out of reach or without state: expression evaluation, values and random numbers (floating point; sequential, with unit tests), results and
tracing (statistics over floating point, text), drawing of frames, the parser, the model builder and the converter (sequential
translation), file I/O of the repository, the CORBA interface (generated, not built), editors, widgets and plug-ins, vendored code under `thirdparty`, and the multi-threaded build (`RDO_MT`).

Left out of parts that are modelled: the times of GENERATE and ADVANCE and the limit of GENERATE; in `Activities` the conditions of decision points with their
start and stop, priorities that depend on the state and the order of decision points by priority, `with_min` and `with_max`, several types
of resources, and events that choose resources; in `RunControl` which break point holds a run; in `ModelRun` saving and editing (with them the box
of a failed save, `model.cpp:818`, and the box for a model of the old format without a name, `model.cpp:553`) and the queries for
structure and results, which appear only as the demand that the model is there.
