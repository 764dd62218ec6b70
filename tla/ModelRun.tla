------------------------------ MODULE ModelRun ------------------------------
(***************************************************************************)
(* The life of a model and of its runs: the simulator service and the run  *)
(* "thread" (simulator/service/src/simulator.cpp), the kernel that passes  *)
(* messages between them (kernel/rdokernel.cpp, rdothread.cpp), the        *)
(* repository (repository/rdorepository.cpp), and the two front ends: the  *)
(* studio (app/rdo_studio/src/model/model.cpp, main_window.cpp,            *)
(* application.cpp) and the console (app/rdo_console).                     *)
(*                                                                         *)
(* In the default build (RDO_ST) the "threads" are objects in one thread:  *)
(* a message is a call of the addressee's proc, and a broadcast calls one  *)
(* subscriber after another, each of which may send and broadcast in turn. *)
(* todo is what is still to be executed, the innermost call first: the     *)
(* rest of a broadcast, a message to be handled, or the rest of a          *)
(* function.  The event loop runs when nothing is left to do, and inside a *)
(* modal dialog.  Nothing is bounded: the state space is finite.           *)
(***************************************************************************)
EXTENDS Sequences, Naturals

VARIABLES
  todo,         \* the call stack, see above
  threads,      \* RDOKernel::threads; thread_runtime is set iff "runtime" is in it
  \* RDOThreadSimulator
  loaded,       \* m_pParser and m_pRuntime are set
  whyStop,      \* m_pRuntime->m_whyStop
  exitCode,     \* m_exitCode
  runThread,    \* m_pThreadRuntime is set
  listens,      \* RT_THREAD_STOP_AFTER is in notifies
  \* RDOThreadRunTime
  runtimeError, \* m_runtimeError
  \* RDOThreadRepository
  files,        \* m_hasModel and m_described of the trace and results files:
                \* "none", "new" or "described"
  traceFile,    \* m_traceFile.is_open()
  \* rdo::gui::model::Model and the main window
  hasModel, canRun, isRunning, buildState, modelExit,
  timer,        \* m_updateTimerID # 0
  window,       \* the main window is open
  options,      \* the command line
  \* the console: its place in main, and the fields of console_controller
  console,
  \* history
  owed,         \* a run was started and not reported since
  verdict       \* the last report, "none" since a run has started, "unfounded" if
                \* there was nothing to report

serviceVars == <<loaded, whyStop, exitCode, runThread, listens, runtimeError>>
fileVars    == <<files, traceFile>>
studioVars  == <<hasModel, canRun, isRunning, buildState, modelExit, timer, window, options>>
history     == <<owed, verdict>>
vars == <<todo, threads, serviceVars, fileVars, studioVars, console, history>>

Reports == {"STOP_OK", "STOP_BY_USER", "STOP_RUNTIME_ERROR"}
ExitCodes == {"EC_OK", "EC_NoMoreEvents", "EC_RunTimeError", "EC_UserBreak",
              "EC_ParserError", "EC_ModelNotFound"}

Registered == \E i \in DOMAIN threads : threads[i] = "runtime"
IsStudio == \E i \in DOMAIN threads : threads[i] = "studio"

TypeOK == /\ Len(threads) \in 3..5
          /\ {loaded, runThread, listens, runtimeError, traceFile, hasModel, canRun,
              isRunning, timer, window, owed} \subseteq BOOLEAN
          /\ {whyStop, exitCode, modelExit} \subseteq ExitCodes
          /\ files \in {"none", "new", "described"}
          /\ buildState \in {"BS_UNDEFINED", "BS_COMPLETE", "BS_ERROR"}
          /\ verdict \in Reports \cup {"none", "unfounded"}
          /\ options \in [autoExit : BOOLEAN, dontCloseIfError : BOOLEAN]
          /\ Len(todo) =< 12

-----------------------------------------------------------------------------
(***************************************************************************)
(* The kernel: calls, messages and broadcasts.                             *)
(***************************************************************************)
Cast(m, t) == [kind |-> "cast", what |-> m, who |-> t, pos |-> 1]
Hear(m, t) == [kind |-> "hear", what |-> m, who |-> t, pos |-> 0]
Call(f, x) == [kind |-> "call", what |-> f, who |-> x, pos |-> 0]

Notifies(t) ==
  CASE t = "simulator"  -> {"MODEL_BUILD", "MODEL_RUN", "MODEL_STOP"} \cup
                           IF listens THEN {"THREAD_STOP_AFTER"} ELSE {}
    [] t = "repository" -> {"MODEL_NEW", "MODEL_OPEN", "MODEL_CLOSE", "START_BEFORE"} \cup Reports
    [] t = "tracer"     -> {"START_BEFORE", "START_AFTER"}
    [] t = "studio"     -> {"FILES_OPEN", "FILES_CLOSE", "PARSE_OK", "PARSE_ERROR", "START_AFTER",
                            "STOP_BEFORE"} \cup Reports
    [] t = "console"    -> {"START_BEFORE", "STOP_AFTER", "PARSE_ERROR", "STOP_RUNTIME_ERROR"}
    [] t = "runtime"    -> {}

\* The head of todo is replaced by what it calls, in order.
Do(calls) == todo' = calls \o Tail(todo)

Head1(item) == todo # <<>> /\ Head(todo) = item

\* RDOThread::broadcastMessage goes through the list of threads as it is when it
\* comes to a place: one that has been appended meanwhile is reached too.
Broadcast ==
  /\ todo # <<>> /\ Head(todo).kind = "cast"
  /\ LET c == Head(todo) IN
       IF c.pos > Len(threads) THEN Do(<<>>)
       ELSE LET t == threads[c.pos]
                heard == IF t # c.who /\ c.what \in Notifies(t) THEN <<Hear(c.what, t)>> ELSE <<>>
            IN Do(heard \o <<[c EXCEPT !.pos = @ + 1]>>)
  /\ UNCHANGED <<threads, serviceVars, fileVars, studioVars, console, history>>

-----------------------------------------------------------------------------
(***************************************************************************)
(* RDOThreadRunTime.                                                       *)
(***************************************************************************)
\* Its constructor, called by runModel, registers it and starts the run.
Connect ==
  /\ Head1(Call("connect", "runtime"))
  /\ threads' = Append(threads, "runtime")
  /\ runtimeError' = FALSE
  /\ owed' = TRUE /\ verdict' = "none"
  /\ Do(<<Cast("START_BEFORE", "runtime"), Call("rdoInit", "runtime")>>)
  /\ UNCHANGED <<loaded, whyStop, exitCode, runThread, listens, fileVars, studioVars, console>>

RdoInit ==
  /\ Head1(Call("rdoInit", "runtime"))
  /\ exitCode' = "EC_OK"
  /\ \/ runtimeError' = TRUE /\ whyStop' = "EC_RunTimeError" /\ Do(<<>>)
     \/ UNCHANGED <<runtimeError, whyStop>> /\ Do(<<Cast("START_AFTER", "runtime")>>)
  /\ UNCHANGED <<threads, loaded, runThread, listens, fileVars, studioVars, console, history>>

\* Mutant: the farewell is said when it has left the kernel already.
CloseRuntimeFirst == <<Call("disconnect", "runtime"), Cast("STOP_BEFORE", "runtime"),
                  Call("rdoPostProcess", "runtime"), Cast("STOP_AFTER", "runtime"),
                  Cast("THREAD_STOP_AFTER", "runtime")>>

\* RT_THREAD_CLOSE: it says farewell, leaves the kernel, and stops.
CloseRuntime == <<Cast("STOP_BEFORE", "runtime"), Call("disconnect", "runtime"),
                  Call("rdoPostProcess", "runtime"), Cast("STOP_AFTER", "runtime"),
                  Cast("THREAD_STOP_AFTER", "runtime")>>

\* Mutant: the run stays in the list of the kernel.
StaysRegistered ==
  /\ Head1(Call("disconnect", "runtime"))
  /\ Do(<<>>)
  /\ UNCHANGED <<threads, serviceVars, fileVars, studioVars, console, history>>

Disconnect ==
  /\ Head1(Call("disconnect", "runtime"))
  /\ threads' = IF Registered THEN LET i == CHOOSE j \in DOMAIN threads : threads[j] = "runtime"
                                  IN SubSeq(threads, 1, i - 1) \o SubSeq(threads, i + 1, Len(threads))
                            ELSE threads
  /\ Do(<<>>)
  /\ UNCHANGED <<serviceVars, fileVars, studioVars, console, history>>

RdoPostProcess ==
  /\ Head1(Call("rdoPostProcess", "runtime"))
  /\ \/ runtimeError' = TRUE /\ whyStop' = "EC_RunTimeError"
     \/ UNCHANGED <<runtimeError, whyStop>>
  /\ Do(<<>>)
  /\ UNCHANGED <<threads, loaded, exitCode, runThread, listens, fileVars, studioVars, console,
                 history>>

\* idle: a step of the run, or its end.  An exception in the step only sets the
\* flag; the next idle sees it.  In the console kernel.idle is called in a loop.
Dialogs == {"dialog", "warning", "fileName", "openError"}

InDialog == IF todo = <<>> THEN FALSE ELSE Head(todo).what \in Dialogs

EventLoop == IF IsStudio THEN window /\ (IF todo = <<>> THEN TRUE ELSE InDialog)
                         ELSE todo = <<>> /\ console.at = "loop" /\ console.state # "FINISHED"

\* Mutant: main does not look at runtimeError after idle.
LoopedOn == console' = console

Looped == console' = IF IsStudio THEN console ELSE [console EXCEPT !.at = "check"]

\* Mutant: rdoNext is called without a look at m_runtimeError.
IdleGoesOn ==
  /\ EventLoop
  /\ Looped
  /\ \/ UNCHANGED <<todo, whyStop, runtimeError>>
     \/ /\ Registered /\ whyStop' \in {"EC_OK", "EC_NoMoreEvents"}
        /\ todo' = CloseRuntime \o todo
        /\ UNCHANGED runtimeError
     \/ Registered /\ runtimeError' = TRUE /\ whyStop' = "EC_RunTimeError" /\ UNCHANGED todo
  /\ UNCHANGED <<threads, loaded, exitCode, runThread, listens, fileVars, studioVars, history>>

Idle ==
  /\ EventLoop
  /\ Looped
  /\ \/ ~Registered /\ UNCHANGED <<todo, whyStop, runtimeError>>
     \/ /\ Registered /\ runtimeError
        /\ todo' = CloseRuntime \o todo
        /\ UNCHANGED <<whyStop, runtimeError>>
     \/ /\ Registered /\ ~runtimeError
        /\ \/ UNCHANGED <<todo, whyStop, runtimeError>>
           \/ /\ whyStop' \in {"EC_OK", "EC_NoMoreEvents"}
              /\ todo' = CloseRuntime \o todo
              /\ UNCHANGED runtimeError
           \/ runtimeError' = TRUE /\ whyStop' = "EC_RunTimeError" /\ UNCHANGED todo
  /\ UNCHANGED <<threads, loaded, exitCode, runThread, listens, fileVars, studioVars, history>>

-----------------------------------------------------------------------------
(***************************************************************************)
(* RDOThreadSimulator.                                                     *)
(***************************************************************************)
ParseModel ==
  /\ Head1(Hear("MODEL_BUILD", "simulator"))
  /\ Do(<<Call("terminateModel", "simulator"), Call("parse", "simulator")>>)
  /\ UNCHANGED <<threads, serviceVars, fileVars, studioVars, console, history>>

\* closeModel of the old model, a new parser and its runtime, and the compilation.
Parse ==
  /\ Head1(Call("parse", "simulator"))
  /\ loaded' = TRUE /\ whyStop' = "EC_OK"
  /\ \/ exitCode' = "EC_OK" /\ Do(<<Cast("PARSE_OK", "simulator")>>)
     \/ /\ exitCode' = "EC_ParserError"
        /\ Do(<<Cast("PARSE_ERROR", "simulator"), Call("closeModel", "simulator")>>)
  /\ UNCHANGED <<threads, runThread, listens, runtimeError, fileVars, studioVars, console, history>>

RunModel ==
  /\ Head1(Hear("MODEL_RUN", "simulator"))
  /\ exitCode' = "EC_OK"
  /\ Do(<<Call("connect", "runtime"), Call("keepThread", "simulator")>>)
  /\ UNCHANGED <<threads, loaded, whyStop, runThread, listens, runtimeError, fileVars, studioVars,
                 console, history>>

\* The pointer to the run is set when its constructor has returned.
KeepThread ==
  /\ Head1(Call("keepThread", "simulator"))
  /\ runThread' = TRUE
  /\ Do(<<>>)
  /\ UNCHANGED <<threads, loaded, whyStop, exitCode, listens, runtimeError, fileVars, studioVars,
                 console, history>>

\* Mutant: the stop is reported before the run is closed.
ReportsFirst ==
  /\ Head1(Hear("MODEL_STOP", "simulator"))
  /\ whyStop' = "EC_UserBreak" /\ exitCode' = "EC_UserBreak"
  /\ Do(<<Call("STOP_BY_USER", "simulator"), Call("terminateModel", "simulator"),
          Call("closeModel", "simulator")>>)
  /\ UNCHANGED <<threads, loaded, runThread, listens, runtimeError, fileVars, studioVars, console,
                 history>>

StopModel ==
  /\ Head1(Hear("MODEL_STOP", "simulator"))
  /\ whyStop' = "EC_UserBreak"
  /\ exitCode' = "EC_UserBreak"
  /\ Do(<<Call("terminateModel", "simulator"), Call("STOP_BY_USER", "simulator"),
          Call("closeModel", "simulator")>>)
  /\ UNCHANGED <<threads, loaded, runThread, listens, runtimeError, fileVars, studioVars, console,
                 history>>

\* Mutant: it still listens while it closes the run.
StillListens ==
  /\ Head1(Call("terminateModel", "simulator"))
  /\ Do(IF runThread THEN CloseRuntime \o <<Call("terminated", "simulator")>> ELSE <<>>)
  /\ UNCHANGED <<threads, serviceVars, fileVars, studioVars, console, history>>

\* The farewell of a run that is closed here is not listened to.
TerminateModel ==
  /\ Head1(Call("terminateModel", "simulator"))
  /\ IF runThread
       THEN listens' = FALSE /\ Do(CloseRuntime \o <<Call("terminated", "simulator")>>)
       ELSE Do(<<>>) /\ UNCHANGED listens
  /\ UNCHANGED <<threads, loaded, whyStop, exitCode, runThread, runtimeError, fileVars, studioVars,
                 console, history>>

\* Mutant: it is not subscribed again.
StaysDeaf ==
  /\ Head1(Call("terminated", "simulator"))
  /\ runThread' = FALSE
  /\ Do(<<>>)
  /\ UNCHANGED <<threads, loaded, whyStop, exitCode, listens, runtimeError, fileVars, studioVars,
                 console, history>>

Terminated ==
  /\ Head1(Call("terminated", "simulator"))
  /\ runThread' = FALSE /\ listens' = TRUE
  /\ Do(<<>>)
  /\ UNCHANGED <<threads, loaded, whyStop, exitCode, runtimeError, fileVars, studioVars, console,
                 history>>

\* Mutant: the model is closed before the end of the run is reported.
ClosesFirst ==
  /\ Head1(Hear("THREAD_STOP_AFTER", "simulator"))
  /\ IF runThread
       THEN /\ exitCode' = whyStop
            /\ Do(<<Call("closeModel", "simulator"),
                    Call(IF runtimeError THEN "STOP_RUNTIME_ERROR" ELSE "STOP_OK", "simulator"),
                    Call("forgetThread", "simulator")>>)
       ELSE Do(<<>>) /\ UNCHANGED exitCode
  /\ UNCHANGED <<threads, loaded, whyStop, runThread, listens, runtimeError, fileVars, studioVars,
                 console, history>>

\* RT_THREAD_STOP_AFTER: the run has ended by itself.
ThreadStopAfter ==
  /\ Head1(Hear("THREAD_STOP_AFTER", "simulator"))
  /\ IF runThread
       THEN /\ exitCode' = whyStop
            /\ Do(<<Call(IF runtimeError THEN "STOP_RUNTIME_ERROR" ELSE "STOP_OK", "simulator"),
                    Call("closeModel", "simulator"), Call("forgetThread", "simulator")>>)
       ELSE Do(<<>>) /\ UNCHANGED exitCode
  /\ UNCHANGED <<threads, loaded, whyStop, runThread, listens, runtimeError, fileVars, studioVars,
                 console, history>>

ForgetThread ==
  /\ Head1(Call("forgetThread", "simulator"))
  /\ runThread' = FALSE
  /\ Do(<<>>)
  /\ UNCHANGED <<threads, loaded, whyStop, exitCode, listens, runtimeError, fileVars, studioVars,
                 console, history>>

\* The broadcast that reports the run; a run that has been reported is not owed.
Report(v) ==
  /\ Head1(Call(v, "simulator"))
  /\ owed' = FALSE /\ verdict' = IF owed THEN v ELSE "unfounded"
  /\ Do(<<Cast(v, "simulator")>>)
  /\ UNCHANGED <<threads, serviceVars, fileVars, studioVars, console>>

CloseModel ==
  /\ Head1(Call("closeModel", "simulator"))
  /\ loaded' = FALSE /\ whyStop' = "EC_OK"
  /\ Do(<<>>)
  /\ UNCHANGED <<threads, exitCode, runThread, listens, runtimeError, fileVars, studioVars, console,
                 history>>

-----------------------------------------------------------------------------
(***************************************************************************)
(* RDOThreadRepository.                                                    *)
(***************************************************************************)
RealClose == IF files # "none" THEN <<Call("realCloseModel", "repository")>> ELSE <<>>

FilesMessage(m) ==
  /\ Head1(Hear(m, "repository"))
  /\ Do(RealClose \o IF m = "MODEL_CLOSE" THEN <<>> ELSE <<Call(m, "repository")>>)
  /\ UNCHANGED <<threads, serviceVars, fileVars, studioVars, console, history>>

RealCloseModel ==
  /\ Head1(Call("realCloseModel", "repository"))
  /\ files' = "none"
  /\ Do(<<Cast("FILES_CLOSE", "repository")>>)
  /\ UNCHANGED <<threads, serviceVars, traceFile, studioVars, console, history>>

NewFiles ==
  /\ Head1(Call("MODEL_NEW", "repository"))
  /\ files' = "new"
  /\ Do(<<Cast("FILES_OPEN", "repository")>>)
  /\ UNCHANGED <<threads, serviceVars, traceFile, studioVars, console, history>>

\* The studio is asked for a name unless one is given; it shows a dialog.
OpenModel ==
  /\ Head1(Call("MODEL_OPEN", "repository"))
  /\ Do(<<Call("openFiles", "repository")>>) \/ (IsStudio /\ Do(<<Call("fileName", "studio")>>))
  /\ UNCHANGED <<threads, serviceVars, fileVars, studioVars, console, history>>

\* The user chooses a name or none.
FileName ==
  /\ Head1(Call("fileName", "studio"))
  /\ Do(<<Call("openFiles", "repository")>>) \/ Do(<<>>)
  /\ UNCHANGED <<threads, serviceVars, fileVars, studioVars, console, history>>

\* A model is opened, is one of the old format without a name (then nobody is told
\* but the repository has it), or is not found, which the studio shows in a box.
OpenFiles ==
  /\ Head1(Call("openFiles", "repository"))
  /\ \/ files' = "described" /\ Do(<<Cast("FILES_OPEN", "repository")>>)
     \/ files' = "new" /\ Do(<<>>)
     \/ UNCHANGED files /\ Do(IF IsStudio THEN <<Call("openError", "studio")>> ELSE <<>>)
  /\ UNCHANGED <<threads, serviceVars, traceFile, studioVars, console, history>>

BeforeModelStart ==
  /\ Head1(Hear("START_BEFORE", "repository"))
  /\ traceFile' \in {FALSE, files = "described"}
  /\ Do(<<>>)
  /\ UNCHANGED <<threads, serviceVars, files, studioVars, console, history>>

FilesStopModel(v) ==
  /\ Head1(Hear(v, "repository"))
  /\ traceFile' = FALSE
  /\ Do(<<>>)
  /\ UNCHANGED <<threads, serviceVars, files, studioVars, console, history>>

\* The tracer only asks: the simulator for the structure of the model, the run
\* for its mode.
TracerAsks ==
  /\ \E m \in {"START_BEFORE", "START_AFTER"} : Head1(Hear(m, "tracer"))
  /\ Do(<<>>)
  /\ UNCHANGED <<threads, serviceVars, fileVars, studioVars, console, history>>

-----------------------------------------------------------------------------
(***************************************************************************)
(* The studio: what it does on messages.                                   *)
(***************************************************************************)
\* autoCloseByModel: with -autoexit the main window is closed at the end of a run,
\* with -dont_close_if_error only if the exit code the studio has says all is well.
AutoClose(code) ==
  IF options.autoExit /\ (options.dontCloseIfError => code \in {"EC_OK", "EC_NoMoreEvents"})
    THEN <<Call("canClose", "exit")>>
    ELSE <<>>

StudioFiles(m) ==
  /\ Head1(Hear(m, "studio"))
  /\ hasModel' = (m = "FILES_OPEN")
  /\ Do(<<>>)
  /\ UNCHANGED <<threads, serviceVars, fileVars, canRun, isRunning, buildState, modelExit, timer,
                 window, options, console, history>>

StudioParseOk ==
  /\ Head1(Hear("PARSE_OK", "studio"))
  /\ modelExit' = exitCode
  /\ buildState' = "BS_COMPLETE"
  /\ Do(<<>>)
  /\ UNCHANGED <<threads, serviceVars, fileVars, hasModel, canRun, isRunning, timer, window,
                 options, console, history>>

StudioParseError ==
  /\ Head1(Hear("PARSE_ERROR", "studio"))
  /\ isRunning' = FALSE /\ canRun' = TRUE
  /\ modelExit' = exitCode
  /\ buildState' = "BS_ERROR"
  /\ Do(AutoClose(exitCode))
  /\ UNCHANGED <<threads, serviceVars, fileVars, hasModel, timer, window, options, console, history>>

StudioStartAfter ==
  /\ Head1(Hear("START_AFTER", "studio"))
  /\ isRunning' = TRUE /\ timer' = TRUE
  /\ Do(<<>>)
  /\ UNCHANGED <<threads, serviceVars, fileVars, hasModel, canRun, buildState, modelExit, window,
                 options, console, history>>

\* Mutant: the menu is not enabled again.
MenuStaysDead ==
  /\ Head1(Hear("STOP_BEFORE", "studio"))
  /\ timer' = FALSE /\ isRunning' = FALSE
  /\ Do(<<>>)
  /\ UNCHANGED <<threads, serviceVars, fileVars, hasModel, canRun, buildState, modelExit, window,
                 options, console, history>>

StudioStopBefore ==
  /\ Head1(Hear("STOP_BEFORE", "studio"))
  /\ timer' = FALSE /\ canRun' = TRUE /\ isRunning' = FALSE
  /\ Do(<<>>)
  /\ UNCHANGED <<threads, serviceVars, fileVars, hasModel, buildState, modelExit, window, options,
                 console, history>>

\* The exit code is asked for unless the run has ended well; the results are
\* shown, and after an error the errors.
StudioReport(v) ==
  /\ Head1(Hear(v, "studio"))
  /\ modelExit' = IF v = "STOP_OK" THEN modelExit ELSE exitCode
  /\ Do(IF v = "STOP_BY_USER" THEN <<>> ELSE AutoClose(modelExit'))
  /\ UNCHANGED <<threads, serviceVars, fileVars, hasModel, canRun, isRunning, buildState, timer,
                 window, options, console, history>>

-----------------------------------------------------------------------------
(***************************************************************************)
(* The studio: what the user does.                                         *)
(***************************************************************************)
UserTurn == IsStudio /\ window /\ todo = <<>>

\* closeModel asks whether to save a changed model, or warns that it is running; the
\* event loop runs inside the dialog.  Then the model is closed, and what it was
\* closed for goes on.
CanClose(then) ==
  /\ Head1(Call("canClose", then))
  /\ IF isRunning THEN Do(<<Call("warning", "studio")>>)
                  ELSE Do(<<Call("close", then)>>) \/ Do(<<Call("dialog", then)>>)
  /\ UNCHANGED <<threads, serviceVars, fileVars, studioVars, console, history>>

Answer(then) ==
  /\ Head1(Call("dialog", then))
  /\ Do(<<Call("close", then)>>) \/ Do(<<>>)
  /\ UNCHANGED <<threads, serviceVars, fileVars, studioVars, console, history>>

\* A box that only tells something.
CloseBox ==
  /\ Head1(Call("warning", "studio")) \/ Head1(Call("openError", "studio"))
  /\ Do(<<>>)
  /\ UNCHANGED <<threads, serviceVars, fileVars, studioVars, console, history>>

StudioCloseModel(then) ==
  /\ Head1(Call("close", then))
  /\ hasModel' = FALSE
  /\ Do(<<Cast("MODEL_CLOSE", "kernel")>> \o
        CASE then = "open" -> <<Cast("MODEL_OPEN", "kernel")>>
          [] then = "exit" -> <<Call("exit", "studio")>>
          [] OTHER -> <<>>)
  /\ UNCHANGED <<threads, serviceVars, fileVars, canRun, isRunning, buildState, modelExit, timer,
                 window, options, console, history>>

Exit ==
  /\ Head1(Call("exit", "studio"))
  /\ window' = FALSE /\ timer' = FALSE
  /\ Do(<<>>)
  /\ UNCHANGED <<threads, serviceVars, fileVars, hasModel, canRun, isRunning, buildState, modelExit,
                 options, console, history>>

\* File/Open and the list of recent models, File/Close, the main window.
UserCloses(then) ==
  /\ UserTurn
  /\ then = "none" => hasModel /\ ~isRunning
  /\ todo' = <<Call("canClose", then)>>
  /\ UNCHANGED <<threads, serviceVars, fileVars, studioVars, console, history>>

UserNew ==
  /\ UserTurn
  /\ canRun \/ ~hasModel
  /\ todo' = <<Cast("MODEL_NEW", "kernel")>>
  /\ UNCHANGED <<threads, serviceVars, fileVars, studioVars, console, history>>

\* buildModel, alone or as the first part of runModel.
Build(rest) ==
  /\ UserTurn
  /\ hasModel /\ canRun /\ ~isRunning
  /\ buildState' = "BS_UNDEFINED"
  /\ todo' = <<Cast("MODEL_BUILD", "kernel")>> \o rest
  /\ UNCHANGED <<threads, serviceVars, fileVars, hasModel, canRun, isRunning, modelExit, timer, window,
                 options, console, history>>

UserBuild == Build(<<>>)

UserRun == Build(<<Call("run", "studio")>>)

StudioRunModel ==
  /\ Head1(Call("run", "studio"))
  /\ IF buildState = "BS_COMPLETE"
       THEN canRun' = FALSE /\ Do(<<Cast("MODEL_RUN", "kernel")>>)
       ELSE Do(<<>>) /\ UNCHANGED canRun
  /\ UNCHANGED <<threads, serviceVars, fileVars, hasModel, isRunning, buildState, modelExit, timer,
                 window, options, console, history>>

UserStop ==
  /\ UserTurn
  /\ hasModel /\ isRunning
  /\ todo' = <<Cast("MODEL_STOP", "kernel")>>
  /\ UNCHANGED <<threads, serviceVars, fileVars, studioVars, console, history>>

\* The timer of the main window asks the run for its time, its mode and its
\* frames.  An exception in a frame is told to the run.
Timer ==
  /\ EventLoop /\ IsStudio /\ timer
  /\ runtimeError' = TRUE
  /\ UNCHANGED <<todo, threads, loaded, whyStop, exitCode, runThread, listens, fileVars, studioVars,
                 console, history>>

-----------------------------------------------------------------------------
(***************************************************************************)
(* The console: main opens, builds and runs the model it is given.         *)
(***************************************************************************)
ConsoleMain ==
  /\ ~IsStudio /\ todo = <<>>
  /\ \/ /\ console.at = "open"
        /\ todo' = <<Cast("MODEL_OPEN", "console")>> /\ console' = [console EXCEPT !.at = "build"]
     \/ /\ console.at = "build"
        /\ todo' = <<Cast("MODEL_BUILD", "console")>> /\ console' = [console EXCEPT !.at = "run"]
     \/ /\ console.at = "run" /\ ~console.buildError
        /\ todo' = <<Cast("MODEL_RUN", "console")>> /\ console' = [console EXCEPT !.at = "loop"]
     \/ /\ console.at = "run" /\ console.buildError
        /\ console' = [console EXCEPT !.at = "buildFailed"] /\ UNCHANGED todo
     \/ /\ console.at = "check"
        /\ console' = [console EXCEPT !.at = IF console.runtimeError THEN "runFailed" ELSE "loop"]
        /\ UNCHANGED todo
     \/ /\ console.at = "loop" /\ console.state = "FINISHED"
        /\ console' = [console EXCEPT !.at = IF exitCode = "EC_OK" THEN "success" ELSE "withErrors"]
        /\ UNCHANGED todo
  /\ UNCHANGED <<threads, serviceVars, fileVars, studioVars, history>>

ConsoleHears ==
  /\ \E m \in Notifies("console") :
       /\ Head1(Hear(m, "console"))
       /\ console' = CASE m = "START_BEFORE" -> [console EXCEPT !.state = "IN_PROGRESS"]
                       [] m = "STOP_AFTER"   -> [console EXCEPT !.state = "FINISHED"]
                       [] m = "PARSE_ERROR"  -> [console EXCEPT !.buildError = TRUE]
                       [] OTHER              -> [console EXCEPT !.runtimeError = TRUE]
  /\ Do(<<>>)
  /\ UNCHANGED <<threads, serviceVars, fileVars, studioVars, history>>

ConsoleEnd == {"buildFailed", "runFailed", "success", "withErrors"}

-----------------------------------------------------------------------------
Init ==
  /\ todo = <<>>
  /\ threads \in {<<"simulator", "repository", "tracer", "studio">>,
                  <<"simulator", "repository", "console">>}
  /\ loaded = FALSE /\ whyStop = "EC_OK" /\ exitCode = "EC_OK"
  /\ runThread = FALSE /\ listens = TRUE /\ runtimeError = FALSE
  /\ files = "none" /\ traceFile = FALSE
  /\ hasModel = FALSE /\ canRun = TRUE /\ isRunning = FALSE
  /\ buildState = "BS_UNDEFINED" /\ modelExit = "EC_ModelNotFound"
  /\ timer = FALSE /\ window = IsStudio
  /\ options \in [autoExit : BOOLEAN, dontCloseIfError : BOOLEAN]
  /\ console = [at |-> "open", state |-> "UNDEFINED", buildError |-> FALSE, runtimeError |-> FALSE]
  /\ owed = FALSE /\ verdict = "none"

Closings == {"none", "open", "exit"}

\* What a function that has been called goes on to do.
Internal ==
  \/ Broadcast
  \/ Connect \/ RdoInit \/ Disconnect \/ RdoPostProcess
  \/ ParseModel \/ Parse \/ RunModel \/ KeepThread \/ StopModel
  \/ TerminateModel \/ Terminated \/ ThreadStopAfter \/ ForgetThread \/ CloseModel
  \/ \E v \in Reports : Report(v) \/ FilesStopModel(v) \/ StudioReport(v)
  \/ \E m \in {"MODEL_NEW", "MODEL_OPEN", "MODEL_CLOSE"} : FilesMessage(m)
  \/ RealCloseModel \/ NewFiles \/ OpenModel \/ OpenFiles \/ BeforeModelStart \/ TracerAsks
  \/ \E m \in {"FILES_OPEN", "FILES_CLOSE"} : StudioFiles(m)
  \/ StudioParseOk \/ StudioParseError \/ StudioStartAfter \/ StudioStopBefore \/ StudioRunModel
  \/ \E then \in Closings : CanClose(then) \/ StudioCloseModel(then)
  \/ Exit \/ ConsoleHears

User == \/ \E then \in Closings : UserCloses(then) \/ Answer(then)
        \/ FileName \/ CloseBox
        \/ UserNew \/ UserBuild \/ UserRun \/ UserStop

Next == Internal \/ User \/ Idle \/ Timer \/ ConsoleMain

Spec == Init /\ [][Next]_vars

\* Code runs on, the event loop of the studio calls kernel.idle from a timer with
\* no delay, and main of the console goes on.  Nothing is assumed of the user, or
\* of the model that runs.
FairSpec == Spec /\ WF_vars(Internal) /\ SF_vars(Idle) /\ WF_vars(ConsoleMain)

-----------------------------------------------------------------------------
(***************************************************************************)
(* Properties.                                                             *)
(***************************************************************************)
Hearing(ms, ts) == todo # <<>> /\ Head(todo).kind = "hear"
                   /\ Head(todo).what \in ms /\ Head(todo).who \in ts

\* Whoever sends a message to kernel.runtime() finds it there: the studio and the
\* tracer when the run has started, the studio when it hears the farewell, and in
\* between on every tick of its timer and every change of mode or speed.
RuntimeIsThere ==
  ( \/ Hearing({"START_AFTER"}, {"studio", "tracer"})
    \/ Hearing({"STOP_BEFORE"}, {"studio"})
    \/ EventLoop /\ (timer \/ isRunning) )
  => Registered

\* Whoever uses the parser and the runtime of the service finds them: the run and
\* its post-processing, the service when asked to run or to stop, those who ask
\* for the structure of the model at the start and for its results at the end.
ModelIsThere ==
  ( \/ Registered
    \/ Head1(Call("rdoPostProcess", "runtime"))
    \/ Hearing({"MODEL_RUN", "MODEL_STOP"}, {"simulator"})
    \/ Hearing({"START_BEFORE"} \cup Reports, {"repository", "tracer", "studio"}) )
  => loaded

\* In the event loop the service knows the run that the kernel knows, and hears
\* of its end; a run that is gone has been reported.  (In the dialog of a window
\* that closes itself after a run the service still holds what is left of it.)
ServiceFollowsRun ==
  EventLoop => /\ listens /\ (owed <=> Registered)
               /\ Registered => runThread
               /\ runThread => Registered \/ InDialog

\* The trace file lives as long as its run: what post-processing writes to it comes
\* before the report that closes it, and no file stays open when the run is gone.
TraceSpansRun ==
  /\ Head1(Call("rdoPostProcess", "runtime")) => owed
  /\ EventLoop /\ traceFile => owed

\* The console leaves with "runFailed" exactly if the run was reported as failed;
\* that it is finished is told to it before that report.
ConsoleTellsTruth ==
  /\ console.at = "runFailed" => verdict = "STOP_RUNTIME_ERROR"
  /\ console.at \in {"success", "withErrors"} => verdict = "STOP_OK"
  /\ console.at \in ConsoleEnd => ~owed

R == INSTANCE RunReport WITH
       stage   <- IF ~owed THEN "none" ELSE IF Registered THEN "active" ELSE "ending",
       failed  <- owed /\ runtimeError,
       asked   <- owed /\ exitCode = "EC_UserBreak"

ImplementsRunReport == R!RSpec

\* A run that has failed is reported, whoever noticed it, unless the studio is
\* left first; and the console ends.
FailedRunIsReported == (owed /\ runtimeError) ~> (~owed \/ (IsStudio /\ ~window))

\* After "run" the menu does not stay dead: the model runs, may be run again, or
\* the studio has been left.
MenuComesBack == ~canRun ~> (canRun \/ isRunning \/ ~window)

-----------------------------------------------------------------------------
\* error_code.h: EC_OK is "the model was compiled or has finished without errors",
\* EC_RunTimeError "the run has finished with an error".  An exception in a frame
\* only sets the flag of the run, and the exit code stays EC_OK.
FailedRunHasErrorCode == Hearing({"STOP_RUNTIME_ERROR"}, {"studio"}) => exitCode = "EC_RunTimeError"
=============================================================================
