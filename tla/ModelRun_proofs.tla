--------------------------- MODULE ModelRun_proofs ---------------------------
(***************************************************************************)
(* Proofs about the life of a model and of its runs.  The state of the     *)
(* program is a call stack, so the invariant is a typing of stacks: every  *)
(* item says what may wait below it and how deep it lies at most (Fits),   *)
(* and what is on the stack tells what the service, the run, the studio    *)
(* and the console have done so far (RunInv, EndInv, CodeInv, StudioInv,   *)
(* ConsoleInv).                                                            *)
(***************************************************************************)
EXTENDS ModelRun, SequenceTheorems, TLAPS

-----------------------------------------------------------------------------
(***************************************************************************)
(* What an item of the stack is to the invariant, its mark: the function   *)
(* that goes on, the handler, or the message that is broadcast, told apart *)
(* by whether the one for whom it matters has heard it.                    *)
(***************************************************************************)
Asks     == {"MODEL_NEW", "MODEL_OPEN", "MODEL_CLOSE", "MODEL_BUILD", "MODEL_RUN", "MODEL_STOP"}
RunTells == {"START_BEFORE", "START_AFTER", "STOP_BEFORE", "STOP_AFTER", "THREAD_STOP_AFTER"}
SimTells == {"PARSE_OK", "PARSE_ERROR"} \cup Reports
RepTells == {"FILES_OPEN", "FILES_CLOSE"}

Threads  == {"simulator", "repository", "tracer", "studio", "console", "runtime"}
Calls    == {"connect", "rdoInit", "disconnect", "rdoPostProcess", "parse", "keepThread",
             "terminateModel", "terminated", "forgetThread", "closeModel", "realCloseModel",
             "MODEL_NEW", "MODEL_OPEN", "openFiles", "fileName", "openError", "canClose", "dialog",
             "warning", "close", "exit", "run"} \cup Reports

CastItem == [kind : {"cast"}, what : Asks, who : {"kernel", "console"}, pos : Nat \ {0}] \cup
            [kind : {"cast"}, what : RunTells, who : {"runtime"}, pos : Nat \ {0}] \cup
            [kind : {"cast"}, what : SimTells, who : {"simulator"}, pos : Nat \ {0}] \cup
            [kind : {"cast"}, what : RepTells, who : {"repository"}, pos : Nat \ {0}]
HearItem == [kind : {"hear"}, what : Asks \cup RunTells \cup SimTells \cup RepTells, who : Threads,
             pos : {0}]
CallItem == [kind : {"call"}, what : Calls, who : Threads \cup Closings, pos : {0}]
Item == CastItem \cup HearItem \cup CallItem

CastMark(m, p) ==
  IF m = "MODEL_BUILD" /\ p > 1 THEN "built"
  ELSE IF m = "MODEL_RUN" /\ p > 1 THEN "started"
  ELSE IF m = "MODEL_STOP" /\ p > 1 THEN "stopped"
  ELSE IF m = "THREAD_STOP_AFTER" /\ p > 1 THEN "ended"
  ELSE IF m = "STOP_BEFORE" /\ p > 4 THEN "left"
  ELSE IF m = "PARSE_ERROR" /\ p > 3 THEN "parseFailed"
  ELSE IF m = "STOP_RUNTIME_ERROR" /\ p = 3 THEN "failing"
  ELSE IF m = "STOP_BY_USER" /\ p > 2 THEN "userReported"
  ELSE IF m \in Reports /\ p > 2 THEN "reported"
  ELSE IF m = "MODEL_NEW" THEN "MODEL_OPEN"
  ELSE IF m \in RepTells THEN "FILES"
  ELSE m

HearMark(m, t) ==
  IF t = "simulator" THEN
    IF m = "MODEL_BUILD" THEN "parseModel"
    ELSE IF m = "MODEL_RUN" THEN "runModel"
    ELSE IF m = "MODEL_STOP" THEN "stopModel"
    ELSE IF m = "THREAD_STOP_AFTER" THEN "threadStopAfter"
    ELSE "none"
  ELSE IF t = "repository" THEN
    IF m = "MODEL_CLOSE" THEN "hearClose"
    ELSE IF m \in {"MODEL_NEW", "MODEL_OPEN"} THEN "hearOpen"
    ELSE IF m = "START_BEFORE" THEN "startBefore"
    ELSE IF m \in Reports THEN "filesStop"
    ELSE "none"
  ELSE IF t = "tracer" THEN
    IF m = "START_BEFORE" THEN "startBefore"
    ELSE IF m = "START_AFTER" THEN "startAfter"
    ELSE "none"
  ELSE IF t = "studio" THEN
    IF m \in RepTells THEN "filesHeard"
    ELSE IF m = "PARSE_OK" THEN "parseOk"
    ELSE IF m = "PARSE_ERROR" THEN "studioParseError"
    ELSE IF m = "START_AFTER" THEN "startAfter"
    ELSE IF m = "STOP_BEFORE" THEN "stopBefore"
    ELSE IF m = "STOP_BY_USER" THEN "studioStopped"
    ELSE IF m \in Reports THEN "studioReport"
    ELSE "none"
  ELSE IF t = "console" THEN
    IF m = "START_BEFORE" THEN "startBefore"
    ELSE IF m = "STOP_AFTER" THEN "stopAfter"
    ELSE IF m = "PARSE_ERROR" THEN "consoleParseError"
    ELSE IF m = "STOP_RUNTIME_ERROR" THEN "consoleFails"
    ELSE "none"
  ELSE "none"

CallMark(f) ==
  IF f = "STOP_OK" THEN "reportOk"
  ELSE IF f = "STOP_BY_USER" THEN "reportUser"
  ELSE IF f = "STOP_RUNTIME_ERROR" THEN "reportError"
  ELSE IF f \in {"MODEL_NEW", "MODEL_OPEN"} THEN "openFiles"
  ELSE IF f \in {"fileName", "openError"} THEN "asking"
  ELSE IF f = "warning" THEN "dialog"
  ELSE f

Mark(x) == IF x.kind = "cast" THEN CastMark(x.what, x.pos)
           ELSE IF x.kind = "hear" THEN HearMark(x.what, x.who)
           ELSE CallMark(x.what)

Marks(s) == {Mark(s[i]) : i \in DOMAIN s}
MarksBelow(s, i) == {Mark(s[j]) : j \in (i + 1)..Len(s)}

-----------------------------------------------------------------------------
(***************************************************************************)
(* What may wait below an item.                                            *)
(***************************************************************************)
Between(S, must, may) == must \subseteq S /\ S \subseteq must \cup may

Closing == {"canClose", "dialog", "close"}
Files == {"exit", "MODEL_OPEN", "MODEL_CLOSE", "hearClose", "hearOpen", "openFiles", "asking",
          "realCloseModel", "FILES", "filesHeard"}

\* What may wait for the user while the event loop runs.
Waits == {"dialog", "asking", "MODEL_OPEN"}

UserStops == {"reportUser", "closeModel", "stopped"}

\* Below what a run that ends still has to do, besides P of it.
Ends(S, P) == Between(S, P, Waits) \/ S = P \cup UserStops \cup {"terminated"}

\* Below the report of a run that has ended by itself, of a run that was stopped, and of
\* a compilation that has failed.
ByItself(S, P) == Between(S, P \cup {"closeModel", "forgetThread", "ended"}, Waits)
ByUser(S, P) == S = P \cup {"closeModel", "stopped"}
NotBuilt(S, P) == Between(S, P \cup {"closeModel", "built"}, {"run"})

\* Below a model that is closed or opened, besides P of that: nothing, or a report or the
\* errors of a compilation that the window closes itself after.
Opening(S, P) == S = P \/ ByItself(S, P \cup {"reported"}) \/ NotBuilt(S, P \cup {"parseFailed"})

\* What an item with mark k asks of the n items below it and their marks S.
Fits(k, S, n) ==
  /\ k \in {"MODEL_RUN", "started", "MODEL_STOP", "stopped", "run"} => S = {} /\ n < 1
  /\ k \in {"MODEL_BUILD", "built"} => S \subseteq {"run"} /\ n < 2
  /\ k \in {"parseModel", "parse", "PARSE_OK"} => Between(S, {"built"}, {"run"}) /\ n < 3
  /\ k = "parseOk" => Between(S, {"PARSE_OK", "built"}, {"run"}) /\ n < 4
  /\ k \in {"PARSE_ERROR", "parseFailed"} => NotBuilt(S, {}) /\ n < 4
  /\ k \in {"consoleParseError", "studioParseError"} => NotBuilt(S, {"parseFailed"}) /\ n < 5
  /\ k = "terminateModel" => (S = UserStops \/ Between(S, {"parse", "built"}, {"run"})) /\ n < 4
  /\ k = "closeModel" => /\ \/ Between(S, {"built"}, {"run"})
                            \/ S = {"stopped"}
                            \/ Between(S, {"forgetThread", "ended"}, Waits)
                         /\ n < 7
  /\ k \in {"runModel", "keepThread"} => S = {"started"} /\ n < 2
  /\ k \in {"connect", "rdoInit", "START_AFTER"} => S = {"keepThread", "started"} /\ n < 3
  /\ k = "START_BEFORE" => S = {"rdoInit", "keepThread", "started"} /\ n < 4
  /\ k = "startBefore" => S = {"START_BEFORE", "rdoInit", "keepThread", "started"} /\ n < 5
  /\ k = "startAfter" => S = {"START_AFTER", "keepThread", "started"} /\ n < 4
  /\ k = "stopModel" => S = {"stopped"} /\ n < 2
  /\ k = "terminated" => S = UserStops /\ n < 4
  /\ k \in {"reportUser", "STOP_BY_USER"} => ByUser(S, {}) /\ n < 3
  /\ k \in {"THREAD_STOP_AFTER", "ended"} => Ends(S, {}) /\ n < 5
  /\ k = "STOP_AFTER" => Ends(S, {"THREAD_STOP_AFTER"}) /\ n < 6
  /\ k \in {"stopAfter", "rdoPostProcess"} => Ends(S, {"STOP_AFTER", "THREAD_STOP_AFTER"}) /\ n < 7
  /\ k = "disconnect" => Ends(S, {"rdoPostProcess", "STOP_AFTER", "THREAD_STOP_AFTER"}) /\ n < 8
  /\ k \in {"STOP_BEFORE", "left"} => /\ Ends(S, {"disconnect", "rdoPostProcess", "STOP_AFTER",
                                                  "THREAD_STOP_AFTER"})
                                      /\ n < 9
  /\ k = "stopBefore" => /\ Ends(S, {"left", "disconnect", "rdoPostProcess", "STOP_AFTER",
                                     "THREAD_STOP_AFTER"})
                         /\ n < 10
  /\ k \in {"threadStopAfter", "forgetThread"} => Between(S, {"ended"}, Waits) /\ n < 6
  /\ k \in {"reportOk", "reportError", "STOP_OK", "STOP_RUNTIME_ERROR", "failing"} =>
       ByItself(S, {}) /\ n < 8
  /\ k = "reported" => ByItself(S, {}) /\ n < 8
  /\ k = "userReported" => ByUser(S, {}) /\ n < 3
  /\ k = "filesStop" => /\ \/ ByItself(S, {"reported"})
                           \/ ByItself(S, {"failing"})
                           \/ ByUser(S, {"userReported"})
                        /\ n < 9
  /\ k = "consoleFails" => ByItself(S, {"reported"}) /\ n < 9
  /\ k = "studioReport" => ByItself(S, {"reported"}) /\ n < 9
  /\ k = "studioStopped" => ByUser(S, {"userReported"}) /\ n < 4
  /\ k \in Closing => Opening(S, {}) /\ (S = {} => n < 1) /\ n < 9
  /\ k \in Files => \/ S \subseteq Files
                    \/ Between(S, {"reported", "closeModel", "forgetThread", "ended"},
                               Waits \cup Files)
                    \/ Between(S, {"parseFailed", "closeModel", "built"}, {"run"} \cup Files)
  /\ k = "MODEL_OPEN" => Opening(S, {}) /\ (S = {} => n < 1)
  /\ k \in {"hearOpen", "openFiles", "asking"} =>
       Opening(S, {"MODEL_OPEN"}) /\ (S = {"MODEL_OPEN"} => n < 2)
  /\ k \in {"exit", "MODEL_OPEN"} => n < 9
  /\ k \in {"MODEL_CLOSE", "hearOpen", "openFiles", "asking"} => n < 10
  /\ k \in {"hearClose", "realCloseModel", "FILES"} => n < 11
  /\ n < 12
  /\ k # "none"

StackOK(s) == /\ s \in Seq(Item)
              /\ \A i \in DOMAIN s : Fits(Mark(s[i]), MarksBelow(s, i), Len(s) - i)

-----------------------------------------------------------------------------
(***************************************************************************)
(* What is on the stack tells what has been done, M is its marks.          *)
(***************************************************************************)
Some(M, S) == M \cap S # {}

StudioThreads  == <<"simulator", "repository", "tracer", "studio">>
ConsoleThreads == <<"simulator", "repository", "console">>
StudioRuns     == <<"simulator", "repository", "tracer", "studio", "runtime">>
ConsoleRuns    == <<"simulator", "repository", "console", "runtime">>

Values == /\ {loaded, runThread, listens, runtimeError, traceFile, hasModel, canRun,
              isRunning, timer, window, owed} \subseteq BOOLEAN
          /\ {whyStop, exitCode, modelExit} \subseteq ExitCodes
          /\ files \in {"none", "new", "described"}
          /\ buildState \in {"BS_UNDEFINED", "BS_COMPLETE", "BS_ERROR"}
          /\ verdict \in Reports \cup {"none"}
          /\ options \in [autoExit : BOOLEAN, dontCloseIfError : BOOLEAN]
          /\ threads \in {StudioThreads, StudioRuns, ConsoleThreads, ConsoleRuns}
          /\ console \in [at : {"open", "build", "run", "loop", "check"} \cup ConsoleEnd,
                          state : {"UNDEFINED", "IN_PROGRESS", "FINISHED"},
                          buildError : BOOLEAN, runtimeError : BOOLEAN]

NoRun == {"MODEL_BUILD", "parseModel", "built", "run", "MODEL_RUN", "runModel", "connect"}
Owing == {"THREAD_STOP_AFTER", "threadStopAfter", "terminated", "reportOk", "reportError",
          "reportUser"}
Gone  == {"threadStopAfter", "forgetThread", "ended", "reportOk", "reportError"}

RunInv(M) ==
  /\ listens <=> "terminated" \notin M
  /\ Registered => owed /\ loaded
  /\ Some(M, {"rdoInit", "START_AFTER", "disconnect"}) => Registered
  /\ Some(M, NoRun) => ~owed /\ ~runThread
  /\ "keepThread" \in M => ~runThread /\ (Registered \/ Some(M, {"connect", "runModel"}))
  /\ Registered /\ ~runThread => "keepThread" \in M
  /\ "disconnect" \in M => runThread
  /\ Some(M, {"MODEL_STOP", "stopModel"}) => Registered /\ runThread
  /\ {"terminateModel", "reportUser"} \subseteq M => Registered /\ runThread

EndInv(M) ==
  /\ Some(M, Gone) => ~Registered
  /\ Some(M, {"THREAD_STOP_AFTER", "terminated"}) /\ "disconnect" \notin M => ~Registered
  /\ Some(M, Owing) => owed /\ loaded
  /\ owed /\ ~Registered => Some(M, Owing)
  /\ Some(M, {"THREAD_STOP_AFTER", "terminated", "threadStopAfter", "forgetThread"}) => runThread
  /\ runThread /\ ~Registered =>
       Some(M, {"THREAD_STOP_AFTER", "terminated", "threadStopAfter", "forgetThread"})
  /\ "reportUser" \in M /\ Registered => Some(M, {"terminateModel", "disconnect"})
  /\ {"closeModel", "stopped"} \subseteq M /\ Registered => "reportUser" \in M
  /\ Some(M, {"MODEL_RUN", "runModel", "connect", "PARSE_OK", "STOP_OK", "STOP_BY_USER",
              "STOP_RUNTIME_ERROR", "failing", "reported", "userReported"}) => loaded

CodeInv(M) ==
  /\ Some(M, {"connect", "rdoInit"}) => exitCode # "EC_UserBreak"
  /\ owed /\ exitCode = "EC_UserBreak" => "reportUser" \in M
  /\ "reportUser" \in M => exitCode = "EC_UserBreak"
  /\ whyStop = "EC_UserBreak" => {"closeModel", "stopped"} \subseteq M
  /\ "reportError" \in M => runtimeError
  /\ "reportOk" \in M => ~runtimeError
  /\ traceFile => owed \/ Some(M, Reports \cup {"filesStop"})

StudioInv(M) ==
  /\ IsStudio => console.at = "open"
  /\ IsStudio /\ (timer \/ isRunning) => Registered
  /\ IsStudio /\ "disconnect" \in M /\ ~Some(M, {"STOP_BEFORE", "stopBefore"}) =>
       ~timer /\ ~isRunning
  /\ IsStudio /\ canRun /\ Registered => "disconnect" \in M
  /\ IsStudio /\ Some(M, {"MODEL_RUN", "runModel", "connect", "keepThread"}) => ~canRun
  /\ IsStudio /\ buildState = "BS_COMPLETE" /\ "run" \in M => loaded
  /\ IsStudio /\ buildState = "BS_COMPLETE" =>
       /\ ~Some(M, {"MODEL_BUILD", "parseModel", "parse", "PARSE_ERROR", "parseFailed"})
       /\ ~({"closeModel", "built"} \subseteq M)

ConsoleInv(M) ==
  ~IsStudio =>
    /\ ~timer /\ ~isRunning /\ ~window
    /\ ~Some(M, {"MODEL_STOP", "stopModel", "stopped", "run", "startAfter", "stopBefore",
                 "studioParseError", "studioReport", "studioStopped", "asking"} \cup Closing)
    /\ console.at \in {"open", "build", "run"} \/ Some(M, {"MODEL_RUN", "runModel", "connect"}) =>
         ~owed /\ verdict = "none" /\ ~console.runtimeError /\ console.state = "UNDEFINED"
    /\ Some(M, {"MODEL_RUN", "runModel", "connect"}) => console.at = "loop"
    /\ Some(M, {"MODEL_BUILD", "parseModel", "built"}) => console.at = "run"
    /\ console.at = "run" =>
         loaded \/ console.buildError \/ Some(M, {"MODEL_BUILD", "parseModel", "parse"})
    /\ {"closeModel", "built"} \subseteq M =>
         console.buildError \/ Some(M, {"PARSE_ERROR", "consoleParseError"})
    /\ console.runtimeError =>
         ~owed /\ verdict = "STOP_RUNTIME_ERROR" /\ console.at \in {"check", "runFailed"}
    /\ Some(M, {"THREAD_STOP_AFTER", "ended"}) => console.at = "check"
    /\ verdict = "STOP_RUNTIME_ERROR" =>
         console.runtimeError \/ Some(M, {"STOP_RUNTIME_ERROR", "failing", "consoleFails"})
    /\ Some(M, {"STOP_RUNTIME_ERROR", "failing", "consoleFails"}) =>
         ~owed /\ verdict = "STOP_RUNTIME_ERROR"
    /\ console.state = "FINISHED" => ~Registered
    /\ ~owed /\ verdict = "none" => console.state = "UNDEFINED"
    /\ verdict # "STOP_BY_USER"
    /\ console.at \in ConsoleEnd => M = {}
    /\ console.at = "runFailed" => verdict = "STOP_RUNTIME_ERROR"
    /\ console.at \in {"success", "withErrors"} => verdict = "STOP_OK"
    /\ console.at \in ConsoleEnd => ~owed

MInv(M) == RunInv(M) /\ EndInv(M) /\ CodeInv(M) /\ StudioInv(M) /\ ConsoleInv(M)

IInv == Values /\ StackOK(todo) /\ MInv(Marks(todo))

-----------------------------------------------------------------------------
(***************************************************************************)
(* Taking from a stack and putting on it.                                  *)
(***************************************************************************)
LEMMA MarkOf ==
  /\ \A m, t : Mark(Cast(m, t)) = CastMark(m, 1)
  /\ \A m, t : Mark(Hear(m, t)) = HearMark(m, t)
  /\ \A f, x : Mark(Call(f, x)) = CallMark(f)
BY DEF Mark, Cast, Hear, Call

LEMMA Items ==
  /\ \A m \in Asks \cup RunTells \cup SimTells \cup RepTells, t \in Threads : Hear(m, t) \in Item
  /\ \A f \in Calls, x \in Threads \cup Closings : Call(f, x) \in Item
  /\ \A m \in Asks, t \in {"kernel", "console"} : Cast(m, t) \in Item
  /\ \A m \in RunTells : Cast(m, "runtime") \in Item
  /\ \A m \in SimTells : Cast(m, "simulator") \in Item
  /\ \A m \in RepTells : Cast(m, "repository") \in Item
BY DEF Cast, Hear, Call, Item, CastItem, HearItem, CallItem

\* The head of a stack fits what is below it, which is a stack of its own.
LEMMA Pop ==
  ASSUME NEW s, StackOK(s), s # <<>>
  PROVE  /\ Head(s) \in Item
         /\ StackOK(Tail(s)) /\ Len(Tail(s)) \in Nat
         /\ s = <<Head(s)>> \o Tail(s)
         /\ Fits(Mark(Head(s)), Marks(Tail(s)), Len(Tail(s)))
         /\ Marks(s) = {Mark(Head(s))} \cup Marks(Tail(s))
<1>1. s \in Seq(Item) /\ Len(s) \in Nat \ {0} /\ DOMAIN s = 1..Len(s)
  BY DEF StackOK
<1>2. Tail(s) \in Seq(Item) /\ Len(Tail(s)) = Len(s) - 1 /\ DOMAIN Tail(s) = 1..(Len(s) - 1)
  BY <1>1
<1>3. \A i \in 1..(Len(s) - 1) : Tail(s)[i] = s[i + 1]
  BY <1>1
<1>4. Head(s) = s[1] /\ Head(s) \in Item
  BY <1>1
<1>5. s = <<Head(s)>> \o Tail(s)
  BY <1>1
<1>6. ASSUME NEW i \in 0..(Len(s) - 1)
      PROVE  MarksBelow(Tail(s), i) = MarksBelow(s, i + 1)
  <2>1. \A k : k \in MarksBelow(Tail(s), i) => k \in MarksBelow(s, i + 1)
    BY <1>1, <1>2, <1>3 DEF MarksBelow
  <2>2. ASSUME NEW j \in (i + 1 + 1)..Len(s)
        PROVE  Mark(s[j]) \in MarksBelow(Tail(s), i)
    <3>1. j - 1 \in (i + 1)..(Len(s) - 1) /\ j - 1 \in 1..(Len(s) - 1) /\ Tail(s)[j - 1] = s[j]
      BY <1>1, <1>3
    <3>. QED  BY <3>1, <1>2 DEF MarksBelow
  <2>. QED  BY <2>1, <2>2 DEF MarksBelow
<1>7. Marks(Tail(s)) = MarksBelow(s, 1)
  <2>1. MarksBelow(Tail(s), 0) = MarksBelow(s, 0 + 1)
    BY <1>1, <1>6
  <2>2. DOMAIN Tail(s) = (0 + 1)..Len(Tail(s))
    BY <1>1, <1>2
  <2>3. Marks(Tail(s)) = MarksBelow(Tail(s), 0)
    BY <2>2 DEF Marks, MarksBelow
  <2>. QED  BY <2>1, <2>3
<1>8. Marks(s) = {Mark(Head(s))} \cup Marks(Tail(s))
  <2>1. Marks(s) = {Mark(s[1])} \cup MarksBelow(s, 1)
    BY <1>1 DEF Marks, MarksBelow
  <2>. QED  BY <2>1, <1>4, <1>7
<1>9. StackOK(Tail(s))
  <2>1. ASSUME NEW i \in 1..(Len(s) - 1)
        PROVE  Fits(Mark(Tail(s)[i]), MarksBelow(Tail(s), i), Len(Tail(s)) - i)
    <3>1. /\ i + 1 \in DOMAIN s /\ i \in 0..(Len(s) - 1)
          /\ Tail(s)[i] = s[i + 1]
          /\ Len(Tail(s)) - i = Len(s) - (i + 1)
      BY <1>1, <1>2, <1>3
    <3>. QED  BY <3>1, <1>6 DEF StackOK
  <2>. QED  BY <2>1, <1>2 DEF StackOK
<1>10. Fits(Mark(s[1]), MarksBelow(s, 1), Len(s) - 1)
  BY <1>1 DEF StackOK
<1>. QED  BY <1>1, <1>2, <1>4, <1>5, <1>7, <1>8, <1>9, <1>10

\* An item that fits may be put on a stack.
LEMMA Push ==
  ASSUME NEW s, StackOK(s), NEW x \in Item, Fits(Mark(x), Marks(s), Len(s))
  PROVE  /\ StackOK(<<x>> \o s)
         /\ Marks(<<x>> \o s) = {Mark(x)} \cup Marks(s)
         /\ Len(<<x>> \o s) = Len(s) + 1
<1> DEFINE t == <<x>> \o s
<1>1. s \in Seq(Item) /\ Len(s) \in Nat /\ DOMAIN s = 1..Len(s)
  BY DEF StackOK
<1>2. t \in Seq(Item) /\ Len(t) = Len(s) + 1 /\ DOMAIN t = 1..(Len(s) + 1) /\ t[1] = x
  BY <1>1
<1>3. \A i \in 1..Len(s) : t[i + 1] = s[i]
  BY <1>1
<1> HIDE DEF t
<1>4. ASSUME NEW i \in 0..Len(s)
      PROVE  MarksBelow(t, i + 1) = MarksBelow(s, i)
  <2>1. ASSUME NEW j \in (i + 1)..Len(s)
        PROVE  Mark(s[j]) \in MarksBelow(t, i + 1)
    <3>1. j + 1 \in (i + 1 + 1)..Len(t) /\ t[j + 1] = s[j]
      BY <1>1, <1>2, <1>3
    <3>. QED  BY <3>1 DEF MarksBelow
  <2>2. ASSUME NEW j \in (i + 1 + 1)..Len(t)
        PROVE  Mark(t[j]) \in MarksBelow(s, i)
    <3>1. j - 1 \in (i + 1)..Len(s) /\ t[(j - 1) + 1] = s[j - 1] /\ (j - 1) + 1 = j
      BY <1>1, <1>2, <1>3
    <3>. QED  BY <3>1 DEF MarksBelow
  <2>. QED  BY <2>1, <2>2 DEF MarksBelow
<1>5. MarksBelow(t, 1) = Marks(s)
  <2>1. MarksBelow(t, 0 + 1) = MarksBelow(s, 0)
    BY <1>1, <1>4
  <2>2. MarksBelow(s, 0) = Marks(s)
    BY <1>1 DEF Marks, MarksBelow
  <2>. QED  BY <2>1, <2>2
<1>6. Marks(t) = {Mark(x)} \cup Marks(s)
  <2>1. Marks(t) = {Mark(t[1])} \cup MarksBelow(t, 1)
    BY <1>1, <1>2 DEF Marks, MarksBelow
  <2>. QED  BY <2>1, <1>2, <1>5
<1>7. ASSUME NEW i \in 1..(Len(s) + 1)
      PROVE  Fits(Mark(t[i]), MarksBelow(t, i), Len(t) - i)
  <2>1. CASE i = 1
    <3>1. Len(t) - 1 = Len(s)
      BY <1>1, <1>2
    <3>. QED  BY <2>1, <3>1, <1>2, <1>5
  <2>2. CASE i # 1
    <3>1. i - 1 \in 1..Len(s) /\ i = (i - 1) + 1 /\ i - 1 \in 0..Len(s)
      BY <1>1, <2>2
    <3>2. t[i] = s[i - 1] /\ MarksBelow(t, i) = MarksBelow(s, i - 1)
      BY <3>1, <1>3, <1>4
    <3>3. Fits(Mark(s[i - 1]), MarksBelow(s, i - 1), Len(s) - (i - 1))
      BY <3>1, <1>1 DEF StackOK
    <3>4. Len(t) - i = Len(s) - (i - 1)
      BY <1>1, <1>2, <3>1
    <3>. QED  BY <3>2, <3>3, <3>4
  <2>. QED  BY <2>1, <2>2
<1>. QED  BY <1>2, <1>6, <1>7 DEF StackOK, t

LEMMA PushNone ==
  ASSUME NEW s, StackOK(s)
  PROVE  <<>> \o s = s
BY DEF StackOK

\* Calls are put on the stack one by one.
LEMMA OneByOne ==
  ASSUME NEW s \in Seq(Item), NEW x \in Item, NEW c \in Seq(Item)
  PROVE  (<<x>> \o c) \o s = <<x>> \o (c \o s)
<1>1. <<x>> \in Seq(Item)
  OBVIOUS
<1>. QED  BY <1>1, ConcatAssociative

LEMMA Pair ==
  ASSUME NEW x, NEW y
  PROVE  <<x>> \o <<y>> = <<x, y>>
<1> DEFINE u == <<x>> \o <<y>>
           v == <<x, y>>
           S == {x, y}
<1>1. u \in Seq(S) /\ Len(u) = 2 /\ u[1] = x /\ u[2] = y
  OBVIOUS
<1>2. v \in Seq(S) /\ Len(v) = 2 /\ v[1] = x /\ v[2] = y
  OBVIOUS
<1> HIDE DEF u, v, S
<1>3. \A i \in 1..2 : u[i] = v[i]
  BY <1>1, <1>2
<1>4. u = v
  BY <1>1, <1>2, <1>3, SeqEqual
<1>. QED  BY <1>4 DEF u, v

LEMMA PushTwo ==
  ASSUME NEW s, StackOK(s), NEW x \in Item, NEW y \in Item,
         Fits(Mark(y), Marks(s), Len(s)), Fits(Mark(x), {Mark(y)} \cup Marks(s), Len(s) + 1)
  PROVE  /\ StackOK(<<x, y>> \o s)
         /\ Marks(<<x, y>> \o s) = {Mark(x), Mark(y)} \cup Marks(s)
         /\ Len(<<x, y>> \o s) = Len(s) + 2
<1>1. s \in Seq(Item)
  BY DEF StackOK
<1>2. <<x, y>> \o s = <<x>> \o (<<y>> \o s)
  <2> DEFINE c == <<y>>
  <2>0. c \in Seq(Item)
    OBVIOUS
  <2>1. <<x, y>> = <<x>> \o c
    BY Zenon, Pair
  <2> HIDE DEF c
  <2>2. (<<x>> \o c) \o s = <<x>> \o (c \o s)
    BY <1>1, <2>0, OneByOne
  <2>3. <<x, y>> \o s = <<x>> \o (c \o s)
    BY <2>1, <2>2
  <2>. QED  BY <2>3 DEF c
<1> DEFINE t == <<y>> \o s
<1>3. StackOK(t) /\ Marks(t) = {Mark(y)} \cup Marks(s) /\ Len(t) = Len(s) + 1
  BY Push
<1> HIDE DEF t
<1>4. /\ StackOK(<<x>> \o t)
      /\ Marks(<<x>> \o t) = {Mark(x)} \cup Marks(t)
      /\ Len(<<x>> \o t) = Len(t) + 1
  BY <1>3, Push
<1>5. {Mark(x)} \cup Marks(t) = {Mark(x), Mark(y)} \cup Marks(s)
  BY <1>3
<1>6. Len(t) + 1 = Len(s) + 2
  BY <1>1, <1>3
<1>. QED  BY <1>2, <1>4, <1>5, <1>6 DEF t

LEMMA PushThree ==
  ASSUME NEW s, StackOK(s), NEW x \in Item, NEW y \in Item, NEW z \in Item,
         Fits(Mark(z), Marks(s), Len(s)), Fits(Mark(y), {Mark(z)} \cup Marks(s), Len(s) + 1),
         Fits(Mark(x), {Mark(y), Mark(z)} \cup Marks(s), Len(s) + 2)
  PROVE  /\ StackOK(<<x, y, z>> \o s)
         /\ Marks(<<x, y, z>> \o s) = {Mark(x), Mark(y), Mark(z)} \cup Marks(s)
         /\ Len(<<x, y, z>> \o s) = Len(s) + 3
<1>1. s \in Seq(Item)
  BY DEF StackOK
<1>2. <<x, y, z>> \o s = <<x>> \o (<<y, z>> \o s)
  <2>1. <<x, y, z>> = <<x>> \o <<y, z>> /\ <<y, z>> \in Seq(Item)
    OBVIOUS
  <2>. QED  BY <1>1, <2>1, OneByOne
<1> DEFINE t == <<y, z>> \o s
<1>3. StackOK(t) /\ Marks(t) = {Mark(y), Mark(z)} \cup Marks(s) /\ Len(t) = Len(s) + 2
  BY PushTwo
<1> HIDE DEF t
<1>4. /\ StackOK(<<x>> \o t)
      /\ Marks(<<x>> \o t) = {Mark(x)} \cup Marks(t)
      /\ Len(<<x>> \o t) = Len(t) + 1
  BY <1>3, Push
<1>5. {Mark(x)} \cup Marks(t) = {Mark(x), Mark(y), Mark(z)} \cup Marks(s)
  BY <1>3
<1>6. Len(t) + 1 = Len(s) + 3
  BY <1>1, <1>3
<1>. QED  BY <1>2, <1>4, <1>5, <1>6 DEF t

-----------------------------------------------------------------------------
(***************************************************************************)
(* What the operations do to the stack.                                    *)
(***************************************************************************)
\* The marks X take the place of the head, which has mark k.
Becomes(k, X) ==
  \E S : /\ \E n \in Nat : Fits(k, S, n)
         /\ Marks(todo) = {k} \cup S
         /\ Marks(todo)' = X \cup S

LEMMA HeadIs ==
  ASSUME StackOK(todo), NEW h, Head1(h)
  PROVE  /\ StackOK(Tail(todo)) /\ Len(Tail(todo)) \in Nat
         /\ Fits(Mark(h), Marks(Tail(todo)), Len(Tail(todo)))
         /\ Marks(todo) = {Mark(h)} \cup Marks(Tail(todo))
BY Pop DEF Head1

LEMMA DoNone ==
  ASSUME StackOK(todo), NEW h, Head1(h), Do(<<>>)
  PROVE  StackOK(todo)' /\ Becomes(Mark(h), {})
<1>1. todo' = Tail(todo)
  BY HeadIs, PushNone DEF Do
<1>. QED  BY <1>1, HeadIs DEF Becomes

LEMMA DoOne ==
  ASSUME StackOK(todo), NEW h, Head1(h), NEW x \in Item, Do(<<x>>),
         \A S : \A n \in Nat : Fits(Mark(h), S, n) => Fits(Mark(x), S, n)
  PROVE  StackOK(todo)' /\ Becomes(Mark(h), {Mark(x)})
<1> DEFINE s == Tail(todo)
<1>1. /\ StackOK(s) /\ Len(s) \in Nat
      /\ Fits(Mark(h), Marks(s), Len(s)) /\ Marks(todo) = {Mark(h)} \cup Marks(s)
  BY HeadIs
<1>2. todo' = <<x>> \o s
  BY DEF Do
<1> HIDE DEF s
<1>3. Fits(Mark(x), Marks(s), Len(s))
  BY <1>1
<1>4. StackOK(<<x>> \o s) /\ Marks(<<x>> \o s) = {Mark(x)} \cup Marks(s)
  BY <1>1, <1>3, Push
<1>. QED  BY <1>1, <1>2, <1>4 DEF Becomes

LEMMA DoTwo ==
  ASSUME StackOK(todo), NEW h, Head1(h), NEW x \in Item, NEW y \in Item, Do(<<x, y>>),
         \A S : \A n \in Nat : Fits(Mark(h), S, n) =>
                  Fits(Mark(y), S, n) /\ Fits(Mark(x), {Mark(y)} \cup S, n + 1)
  PROVE  StackOK(todo)' /\ Becomes(Mark(h), {Mark(x), Mark(y)})
<1> DEFINE s == Tail(todo)
<1>1. /\ StackOK(s) /\ Len(s) \in Nat
      /\ Fits(Mark(h), Marks(s), Len(s)) /\ Marks(todo) = {Mark(h)} \cup Marks(s)
  BY HeadIs
<1>2. todo' = <<x, y>> \o s
  BY DEF Do
<1> HIDE DEF s
<1>3. Fits(Mark(y), Marks(s), Len(s)) /\ Fits(Mark(x), {Mark(y)} \cup Marks(s), Len(s) + 1)
  BY <1>1
<1>4. StackOK(<<x, y>> \o s) /\ Marks(<<x, y>> \o s) = {Mark(x), Mark(y)} \cup Marks(s)
  BY <1>1, <1>3, PushTwo
<1>. QED  BY <1>1, <1>2, <1>4 DEF Becomes

LEMMA DoThree ==
  ASSUME StackOK(todo), NEW h, Head1(h), NEW x \in Item, NEW y \in Item, NEW z \in Item,
         Do(<<x, y, z>>),
         \A S : \A n \in Nat : Fits(Mark(h), S, n) =>
                  /\ Fits(Mark(z), S, n) /\ Fits(Mark(y), {Mark(z)} \cup S, n + 1)
                  /\ Fits(Mark(x), {Mark(y), Mark(z)} \cup S, n + 2)
  PROVE  StackOK(todo)' /\ Becomes(Mark(h), {Mark(x), Mark(y), Mark(z)})
<1> DEFINE s == Tail(todo)
<1>1. /\ StackOK(s) /\ Len(s) \in Nat
      /\ Fits(Mark(h), Marks(s), Len(s)) /\ Marks(todo) = {Mark(h)} \cup Marks(s)
  BY HeadIs
<1>2. todo' = <<x, y, z>> \o s
  BY DEF Do
<1> HIDE DEF s
<1>3. /\ Fits(Mark(z), Marks(s), Len(s)) /\ Fits(Mark(y), {Mark(z)} \cup Marks(s), Len(s) + 1)
      /\ Fits(Mark(x), {Mark(y), Mark(z)} \cup Marks(s), Len(s) + 2)
  BY <1>1
<1>4. StackOK(<<x, y, z>> \o s)
      /\ Marks(<<x, y, z>> \o s) = {Mark(x), Mark(y), Mark(z)} \cup Marks(s)
  BY <1>1, <1>3, PushThree
<1>. QED  BY <1>1, <1>2, <1>4 DEF Becomes

LEMMA SameThreads ==
  ASSUME UNCHANGED threads
  PROVE  (Registered' <=> Registered) /\ (IsStudio' <=> IsStudio)
BY DEF Registered, IsStudio

-----------------------------------------------------------------------------
(***************************************************************************)
(* Broadcasts.                                                             *)
(***************************************************************************)
\* The threads of the kernel by their places.
LEMMA Places ==
  ASSUME Values
  PROVE  /\ Len(threads) \in 3..5
         /\ threads[1] = "simulator" /\ threads[2] = "repository"
         /\ IsStudio => /\ Len(threads) = IF Registered THEN 5 ELSE 4
                        /\ threads[3] = "tracer" /\ threads[4] = "studio"
                        /\ Registered => threads[5] = "runtime"
         /\ ~IsStudio => /\ Len(threads) = IF Registered THEN 4 ELSE 3
                         /\ threads[3] = "console"
                         /\ Registered => threads[4] = "runtime"
<1>1. CASE threads = StudioThreads
  BY <1>1 DEF StudioThreads, IsStudio, Registered
<1>2. CASE threads = StudioRuns
  BY <1>2 DEF StudioRuns, IsStudio, Registered
<1>3. CASE threads = ConsoleThreads
  BY <1>3 DEF ConsoleThreads, IsStudio, Registered
<1>4. CASE threads = ConsoleRuns
  BY <1>4 DEF ConsoleRuns, IsStudio, Registered
<1>. QED  BY <1>1, <1>2, <1>3, <1>4 DEF Values

\* A broadcast with mark k is heard by somebody who handles it (mark h), and has mark l
\* when it goes on.
Heard(k, h, l) ==
  \/ k = "MODEL_BUILD" /\ h = "parseModel" /\ l = "built"
  \/ k = "MODEL_RUN" /\ h = "runModel" /\ l = "started"
  \/ k = "MODEL_STOP" /\ h = "stopModel" /\ l = "stopped"
  \/ k = "MODEL_OPEN" /\ h = "hearOpen" /\ l = k
  \/ k = "MODEL_CLOSE" /\ h = "hearClose" /\ l = k
  \/ k = "START_BEFORE" /\ h = "startBefore" /\ l = k
  \/ k = "START_AFTER" /\ h = "startAfter" /\ l = k /\ IsStudio
  \/ k = "STOP_BEFORE" /\ h = "stopBefore" /\ l = "left" /\ IsStudio
  \/ k = "STOP_AFTER" /\ h = "stopAfter" /\ l = k /\ ~IsStudio
  \/ k = "THREAD_STOP_AFTER" /\ h = "threadStopAfter" /\ l = "ended" /\ listens
  \/ k = "PARSE_OK" /\ h = "parseOk" /\ l = k
  \/ k = "PARSE_ERROR" /\ h = "consoleParseError" /\ l = "parseFailed" /\ ~IsStudio
  \/ k = "parseFailed" /\ h = "studioParseError" /\ l = k /\ IsStudio
  \/ k = "STOP_OK" /\ h = "filesStop" /\ l = "reported"
  \/ k = "STOP_BY_USER" /\ h = "filesStop" /\ l = "userReported"
  \/ k = "STOP_RUNTIME_ERROR" /\ h = "filesStop" /\ l = "failing"
  \/ k = "failing" /\ h = "consoleFails" /\ l = "reported" /\ ~IsStudio
  \/ k = "reported" /\ h = "studioReport" /\ l = k /\ IsStudio
  \/ k = "userReported" /\ h = "studioStopped" /\ l = k /\ IsStudio
  \/ k = "FILES" /\ h = "filesHeard" /\ l = k

\* It goes on to the next place.
Passed(k, l) ==
  \/ l = k
  \/ k = "STOP_BEFORE" /\ l = "left" /\ ~IsStudio
  \/ k = "THREAD_STOP_AFTER" /\ l = "ended" /\ ~listens
  \/ k = "PARSE_ERROR" /\ l = "parseFailed" /\ IsStudio
  \/ k = "failing" /\ l = "reported" /\ IsStudio

\* It has gone through the list.
Over(k) ==
  \/ k \in {"built", "started", "stopped", "MODEL_OPEN", "MODEL_CLOSE", "START_BEFORE",
     "START_AFTER",
            "left", "STOP_AFTER", "ended", "PARSE_OK", "parseFailed", "reported", "userReported",
            "FILES"}
  \/ k = "STOP_BEFORE" /\ ~IsStudio

Further(c) == [c EXCEPT !.pos = @ + 1]

LEMMA GoesFurther ==
  ASSUME NEW c \in CastItem
  PROVE  /\ Further(c) \in Item /\ c.kind = "cast" /\ c.pos \in Nat \ {0}
         /\ Mark(c) = CastMark(c.what, c.pos) /\ Mark(Further(c)) = CastMark(c.what, c.pos + 1)
BY DEF Further, CastItem, Item, Mark

LEMMA Subscribed ==
  /\ Notifies("simulator") = {"MODEL_BUILD", "MODEL_RUN", "MODEL_STOP"} \cup
                             IF listens THEN {"THREAD_STOP_AFTER"} ELSE {}
  /\ Notifies("repository") = {"MODEL_NEW", "MODEL_OPEN", "MODEL_CLOSE", "START_BEFORE"}
     \cup Reports
  /\ Notifies("tracer") = {"START_BEFORE", "START_AFTER"}
  /\ Notifies("studio") = {"FILES_OPEN", "FILES_CLOSE", "PARSE_OK", "PARSE_ERROR", "START_AFTER",
                           "STOP_BEFORE"} \cup Reports
  /\ Notifies("console") = {"START_BEFORE", "STOP_AFTER", "PARSE_ERROR", "STOP_RUNTIME_ERROR"}
  /\ Notifies("runtime") = {}
BY DEF Notifies

LEMMA Hears ==
  ASSUME Values, NEW p \in Nat \ {0}, p =< Len(threads), NEW t, t = threads[p],
         NEW m, m \in Notifies(t)
  PROVE  /\ Heard(CastMark(m, p), HearMark(m, t), CastMark(m, p + 1))
         /\ t \in Threads /\ m \in Asks \cup RunTells \cup SimTells \cup RepTells
<1>1. \/ t = "simulator" /\ p = 1
      \/ t = "repository" /\ p = 2
      \/ t = "tracer" /\ p = 3 /\ IsStudio
      \/ t = "studio" /\ p = 4 /\ IsStudio
      \/ t = "console" /\ p = 3 /\ ~IsStudio
      \/ t = "runtime"
  <2>1. Len(threads) \in {3, 4, 5}
    BY Places
  <2>2. p \in {1, 2, 3, 4, 5}
    BY <2>1
  <2>. QED  BY <2>1, <2>2, Places
<1>2. t \in Threads
  BY <1>1 DEF Threads
<1>3. m \in Asks \cup RunTells \cup SimTells \cup RepTells
  BY <1>1, Subscribed DEF Asks, RunTells, SimTells, RepTells, Reports
<1> SUFFICES Heard(CastMark(m, p), HearMark(m, t), CastMark(m, p + 1))
  BY <1>2, <1>3
<1>4. CASE t = "simulator"
  <2>1. p = 1
    BY <1>1, <1>4
  <2>2. CASE m = "MODEL_BUILD"
    <3>1. CastMark(m, p) = "MODEL_BUILD" /\ CastMark(m, p + 1) = "built"
      BY <2>1, <2>2 DEF CastMark, Reports, RepTells
    <3>2. HearMark(m, t) = "parseModel"
      BY <1>4, <2>2 DEF HearMark, Reports, RepTells
    <3>. QED  BY <3>1, <3>2 DEF Heard
  <2>3. CASE m = "MODEL_RUN"
    <3>1. CastMark(m, p) = "MODEL_RUN" /\ CastMark(m, p + 1) = "started"
      BY <2>1, <2>3 DEF CastMark, Reports, RepTells
    <3>2. HearMark(m, t) = "runModel"
      BY <1>4, <2>3 DEF HearMark, Reports, RepTells
    <3>. QED  BY <3>1, <3>2 DEF Heard
  <2>4. CASE m = "MODEL_STOP"
    <3>1. CastMark(m, p) = "MODEL_STOP" /\ CastMark(m, p + 1) = "stopped"
      BY <2>1, <2>4 DEF CastMark, Reports, RepTells
    <3>2. HearMark(m, t) = "stopModel"
      BY <1>4, <2>4 DEF HearMark, Reports, RepTells
    <3>. QED  BY <3>1, <3>2 DEF Heard
  <2>5. CASE m = "THREAD_STOP_AFTER"
    <3>1. CastMark(m, p) = "THREAD_STOP_AFTER" /\ CastMark(m, p + 1) = "ended"
      BY <2>1, <2>5 DEF CastMark, Reports, RepTells
    <3>2. HearMark(m, t) = "threadStopAfter"
      BY <1>4, <2>5 DEF HearMark, Reports, RepTells
    <3>. QED  BY <3>1, <3>2, <1>4, <2>5, Subscribed DEF Heard
  <2>. QED  BY <1>4, <2>2, <2>3, <2>4, <2>5, Subscribed DEF Reports
<1>5. CASE t = "repository"
  <2>1. p = 2
    BY <1>1, <1>5
  <2>2. CASE m = "MODEL_NEW"
    <3>1. CastMark(m, p) = "MODEL_OPEN" /\ CastMark(m, p + 1) = "MODEL_OPEN"
      BY <2>1, <2>2 DEF CastMark, Reports, RepTells
    <3>2. HearMark(m, t) = "hearOpen"
      BY <1>5, <2>2 DEF HearMark, Reports, RepTells
    <3>. QED  BY <3>1, <3>2 DEF Heard
  <2>3. CASE m = "MODEL_OPEN"
    <3>1. CastMark(m, p) = "MODEL_OPEN" /\ CastMark(m, p + 1) = "MODEL_OPEN"
      BY <2>1, <2>3 DEF CastMark, Reports, RepTells
    <3>2. HearMark(m, t) = "hearOpen"
      BY <1>5, <2>3 DEF HearMark, Reports, RepTells
    <3>. QED  BY <3>1, <3>2 DEF Heard
  <2>4. CASE m = "MODEL_CLOSE"
    <3>1. CastMark(m, p) = "MODEL_CLOSE" /\ CastMark(m, p + 1) = "MODEL_CLOSE"
      BY <2>1, <2>4 DEF CastMark, Reports, RepTells
    <3>2. HearMark(m, t) = "hearClose"
      BY <1>5, <2>4 DEF HearMark, Reports, RepTells
    <3>. QED  BY <3>1, <3>2 DEF Heard
  <2>5. CASE m = "START_BEFORE"
    <3>1. CastMark(m, p) = "START_BEFORE" /\ CastMark(m, p + 1) = "START_BEFORE"
      BY <2>1, <2>5 DEF CastMark, Reports, RepTells
    <3>2. HearMark(m, t) = "startBefore"
      BY <1>5, <2>5 DEF HearMark, Reports, RepTells
    <3>. QED  BY <3>1, <3>2 DEF Heard
  <2>6. CASE m = "STOP_OK"
    <3>1. CastMark(m, p) = "STOP_OK" /\ CastMark(m, p + 1) = "reported"
      BY <2>1, <2>6 DEF CastMark, Reports, RepTells
    <3>2. HearMark(m, t) = "filesStop"
      BY <1>5, <2>6 DEF HearMark, Reports, RepTells
    <3>. QED  BY <3>1, <3>2 DEF Heard
  <2>7. CASE m = "STOP_BY_USER"
    <3>1. CastMark(m, p) = "STOP_BY_USER" /\ CastMark(m, p + 1) = "userReported"
      BY <2>1, <2>7 DEF CastMark, Reports, RepTells
    <3>2. HearMark(m, t) = "filesStop"
      BY <1>5, <2>7 DEF HearMark, Reports, RepTells
    <3>. QED  BY <3>1, <3>2 DEF Heard
  <2>8. CASE m = "STOP_RUNTIME_ERROR"
    <3>1. CastMark(m, p) = "STOP_RUNTIME_ERROR" /\ CastMark(m, p + 1) = "failing"
      BY <2>1, <2>8 DEF CastMark, Reports, RepTells
    <3>2. HearMark(m, t) = "filesStop"
      BY <1>5, <2>8 DEF HearMark, Reports, RepTells
    <3>. QED  BY <3>1, <3>2 DEF Heard
  <2>. QED  BY <1>5, <2>2, <2>3, <2>4, <2>5, <2>6, <2>7, <2>8, Subscribed DEF Reports
<1>6. CASE t = "tracer"
  <2>1. p = 3 /\ IsStudio
    BY <1>1, <1>6
  <2>2. CASE m = "START_BEFORE"
    <3>1. CastMark(m, p) = "START_BEFORE" /\ CastMark(m, p + 1) = "START_BEFORE"
      BY <2>1, <2>2 DEF CastMark, Reports, RepTells
    <3>2. HearMark(m, t) = "startBefore"
      BY <1>6, <2>2 DEF HearMark, Reports, RepTells
    <3>. QED  BY <3>1, <3>2, <2>1 DEF Heard
  <2>3. CASE m = "START_AFTER"
    <3>1. CastMark(m, p) = "START_AFTER" /\ CastMark(m, p + 1) = "START_AFTER"
      BY <2>1, <2>3 DEF CastMark, Reports, RepTells
    <3>2. HearMark(m, t) = "startAfter"
      BY <1>6, <2>3 DEF HearMark, Reports, RepTells
    <3>. QED  BY <3>1, <3>2, <2>1 DEF Heard
  <2>. QED  BY <1>6, <2>2, <2>3, Subscribed DEF Reports
<1>7. CASE t = "studio"
  <2>1. p = 4 /\ IsStudio
    BY <1>1, <1>7
  <2>2. CASE m = "FILES_OPEN"
    <3>1. CastMark(m, p) = "FILES" /\ CastMark(m, p + 1) = "FILES"
      BY <2>1, <2>2 DEF CastMark, Reports, RepTells
    <3>2. HearMark(m, t) = "filesHeard"
      BY <1>7, <2>2 DEF HearMark, Reports, RepTells
    <3>. QED  BY <3>1, <3>2, <2>1 DEF Heard
  <2>3. CASE m = "FILES_CLOSE"
    <3>1. CastMark(m, p) = "FILES" /\ CastMark(m, p + 1) = "FILES"
      BY <2>1, <2>3 DEF CastMark, Reports, RepTells
    <3>2. HearMark(m, t) = "filesHeard"
      BY <1>7, <2>3 DEF HearMark, Reports, RepTells
    <3>. QED  BY <3>1, <3>2, <2>1 DEF Heard
  <2>4. CASE m = "PARSE_OK"
    <3>1. CastMark(m, p) = "PARSE_OK" /\ CastMark(m, p + 1) = "PARSE_OK"
      BY <2>1, <2>4 DEF CastMark, Reports, RepTells
    <3>2. HearMark(m, t) = "parseOk"
      BY <1>7, <2>4 DEF HearMark, Reports, RepTells
    <3>. QED  BY <3>1, <3>2, <2>1 DEF Heard
  <2>5. CASE m = "PARSE_ERROR"
    <3>1. CastMark(m, p) = "parseFailed" /\ CastMark(m, p + 1) = "parseFailed"
      BY <2>1, <2>5 DEF CastMark, Reports, RepTells
    <3>2. HearMark(m, t) = "studioParseError"
      BY <1>7, <2>5 DEF HearMark, Reports, RepTells
    <3>. QED  BY <3>1, <3>2, <2>1 DEF Heard
  <2>6. CASE m = "START_AFTER"
    <3>1. CastMark(m, p) = "START_AFTER" /\ CastMark(m, p + 1) = "START_AFTER"
      BY <2>1, <2>6 DEF CastMark, Reports, RepTells
    <3>2. HearMark(m, t) = "startAfter"
      BY <1>7, <2>6 DEF HearMark, Reports, RepTells
    <3>. QED  BY <3>1, <3>2, <2>1 DEF Heard
  <2>7. CASE m = "STOP_BEFORE"
    <3>1. CastMark(m, p) = "STOP_BEFORE" /\ CastMark(m, p + 1) = "left"
      BY <2>1, <2>7 DEF CastMark, Reports, RepTells
    <3>2. HearMark(m, t) = "stopBefore"
      BY <1>7, <2>7 DEF HearMark, Reports, RepTells
    <3>. QED  BY <3>1, <3>2, <2>1 DEF Heard
  <2>8. CASE m = "STOP_OK"
    <3>1. CastMark(m, p) = "reported" /\ CastMark(m, p + 1) = "reported"
      BY <2>1, <2>8 DEF CastMark, Reports, RepTells
    <3>2. HearMark(m, t) = "studioReport"
      BY <1>7, <2>8 DEF HearMark, Reports, RepTells
    <3>. QED  BY <3>1, <3>2, <2>1 DEF Heard
  <2>9. CASE m = "STOP_BY_USER"
    <3>1. CastMark(m, p) = "userReported" /\ CastMark(m, p + 1) = "userReported"
      BY <2>1, <2>9 DEF CastMark, Reports, RepTells
    <3>2. HearMark(m, t) = "studioStopped"
      BY <1>7, <2>9 DEF HearMark, Reports, RepTells
    <3>. QED  BY <3>1, <3>2, <2>1 DEF Heard
  <2>10. CASE m = "STOP_RUNTIME_ERROR"
    <3>1. CastMark(m, p) = "reported" /\ CastMark(m, p + 1) = "reported"
      BY <2>1, <2>10 DEF CastMark, Reports, RepTells
    <3>2. HearMark(m, t) = "studioReport"
      BY <1>7, <2>10 DEF HearMark, Reports, RepTells
    <3>. QED  BY <3>1, <3>2, <2>1 DEF Heard
  <2>. QED  BY <1>7, <2>2, <2>3, <2>4, <2>5, <2>6, <2>7, <2>8, <2>9, <2>10, Subscribed DEF Reports
<1>8. CASE t = "console"
  <2>1. p = 3 /\ ~IsStudio
    BY <1>1, <1>8
  <2>2. CASE m = "START_BEFORE"
    <3>1. CastMark(m, p) = "START_BEFORE" /\ CastMark(m, p + 1) = "START_BEFORE"
      BY <2>1, <2>2 DEF CastMark, Reports, RepTells
    <3>2. HearMark(m, t) = "startBefore"
      BY <1>8, <2>2 DEF HearMark, Reports, RepTells
    <3>. QED  BY <3>1, <3>2, <2>1 DEF Heard
  <2>3. CASE m = "STOP_AFTER"
    <3>1. CastMark(m, p) = "STOP_AFTER" /\ CastMark(m, p + 1) = "STOP_AFTER"
      BY <2>1, <2>3 DEF CastMark, Reports, RepTells
    <3>2. HearMark(m, t) = "stopAfter"
      BY <1>8, <2>3 DEF HearMark, Reports, RepTells
    <3>. QED  BY <3>1, <3>2, <2>1 DEF Heard
  <2>4. CASE m = "PARSE_ERROR"
    <3>1. CastMark(m, p) = "PARSE_ERROR" /\ CastMark(m, p + 1) = "parseFailed"
      BY <2>1, <2>4 DEF CastMark, Reports, RepTells
    <3>2. HearMark(m, t) = "consoleParseError"
      BY <1>8, <2>4 DEF HearMark, Reports, RepTells
    <3>. QED  BY <3>1, <3>2, <2>1 DEF Heard
  <2>5. CASE m = "STOP_RUNTIME_ERROR"
    <3>1. CastMark(m, p) = "failing" /\ CastMark(m, p + 1) = "reported"
      BY <2>1, <2>5 DEF CastMark, Reports, RepTells
    <3>2. HearMark(m, t) = "consoleFails"
      BY <1>8, <2>5 DEF HearMark, Reports, RepTells
    <3>. QED  BY <3>1, <3>2, <2>1 DEF Heard
  <2>. QED  BY <1>8, <2>2, <2>3, <2>4, <2>5, Subscribed DEF Reports
<1>. QED  BY <1>1, <1>4, <1>5, <1>6, <1>7, <1>8, Subscribed

LEMMA PassesBy ==
  ASSUME Values, NEW p \in Nat \ {0}, p =< Len(threads), NEW t, t = threads[p],
         NEW m \in Asks \cup RunTells \cup SimTells \cup RepTells, NEW w,
         m \in Asks => w \in {"kernel", "console"},
         m \in RunTells => w = "runtime",
         m \in SimTells => w = "simulator",
         t = w \/ m \notin Notifies(t)
  PROVE  Passed(CastMark(m, p), CastMark(m, p + 1))
<1> DEFINE same == CastMark(m, p + 1) = CastMark(m, p)
<1>1. CASE p = 1
  <2>1. /\ m \notin {"MODEL_BUILD", "MODEL_RUN", "MODEL_STOP"}
        /\ m = "THREAD_STOP_AFTER" => ~listens
    BY <1>1, Places, Subscribed DEF Asks, RunTells
  <2>2. CASE m = "THREAD_STOP_AFTER"
    <3>1. CastMark(m, p) = m /\ CastMark(m, p + 1) = "ended"
      BY <1>1, <2>2 DEF CastMark, Reports, RepTells
    <3>. QED  BY <3>1, <2>1, <2>2 DEF Passed
  <2>3. CASE m # "THREAD_STOP_AFTER"
    <3>1. same
      BY <1>1, <2>1, <2>3 DEF CastMark
    <3>. QED  BY <3>1 DEF Passed
  <2>. QED  BY <2>2, <2>3
<1>2. CASE p = 2
  <2>1. m \notin Reports
    BY <1>2, Places, Subscribed DEF SimTells
  <2>2. same
    BY <1>2, <2>1 DEF CastMark, Reports
  <2>. QED  BY <2>2 DEF Passed
<1>3. CASE p = 3
  <2>1. IsStudio \/ m \notin {"PARSE_ERROR", "STOP_RUNTIME_ERROR"}
    BY <1>3, Places, Subscribed DEF SimTells, Reports
  <2>2. CASE m = "PARSE_ERROR"
    <3>1. CastMark(m, p) = m /\ CastMark(m, p + 1) = "parseFailed"
      BY <1>3, <2>2 DEF CastMark, Reports, RepTells
    <3>. QED  BY <3>1, <2>1, <2>2 DEF Passed
  <2>3. CASE m = "STOP_RUNTIME_ERROR"
    <3>1. CastMark(m, p) = "failing" /\ CastMark(m, p + 1) = "reported"
      BY <1>3, <2>3 DEF CastMark, Reports
    <3>. QED  BY <3>1, <2>1, <2>3 DEF Passed
  <2>4. CASE m \notin {"PARSE_ERROR", "STOP_RUNTIME_ERROR"}
    <3>1. same
      BY <1>3, <2>4 DEF CastMark
    <3>. QED  BY <3>1 DEF Passed
  <2>. QED  BY <2>2, <2>3, <2>4
<1>4. CASE p = 4
  <2>1. IsStudio => m # "STOP_BEFORE"
    BY <1>4, Places, Subscribed DEF RunTells
  <2>2. CASE m = "STOP_BEFORE"
    <3>1. CastMark(m, p) = m /\ CastMark(m, p + 1) = "left"
      BY <1>4, <2>2 DEF CastMark, Reports, RepTells
    <3>. QED  BY <3>1, <2>1, <2>2 DEF Passed
  <2>3. CASE m # "STOP_BEFORE"
    <3>1. same
      BY <1>4, <2>3 DEF CastMark
    <3>. QED  BY <3>1 DEF Passed
  <2>. QED  BY <2>2, <2>3
<1>5. CASE p > 4
  <2>1. same
    BY <1>5 DEF CastMark
  <2>. QED  BY <2>1 DEF Passed
<1>. QED  BY <1>1, <1>2, <1>3, <1>4, <1>5

LEMMA Told ==
  ASSUME Values, NEW c \in CastItem
  PROVE  /\ c.pos > Len(threads) => Over(Mark(c))
         /\ c.pos =< Len(threads) =>
              IF threads[c.pos] # c.who /\ c.what \in Notifies(threads[c.pos])
                THEN /\ Heard(Mark(c), Mark(Hear(c.what, threads[c.pos])), Mark(Further(c)))
                     /\ Hear(c.what, threads[c.pos]) \in Item
                ELSE Passed(Mark(c), Mark(Further(c)))
<1>1. PICK p, m, t : p = c.pos /\ m = c.what /\ t = threads[p]
  OBVIOUS
<1>2. p \in Nat \ {0} /\ Mark(c) = CastMark(m, p) /\ Mark(Further(c)) = CastMark(m, p + 1)
      /\ Mark(Hear(m, t)) = HearMark(m, t)
  BY <1>1, GoesFurther, MarkOf
<1>3. /\ m \in Asks \cup RunTells \cup SimTells \cup RepTells
      /\ m \in Asks => c.who \in {"kernel", "console"}
      /\ m \in RunTells => c.who = "runtime"
      /\ m \in SimTells => c.who = "simulator"
  BY <1>1 DEF CastItem, Asks, RunTells, SimTells, RepTells, Reports
<1>4. ASSUME p > Len(threads)
      PROVE  Over(CastMark(m, p))
  <2>1. p > 3 /\ (IsStudio => p > 4)
    BY <1>2, <1>4, Places
  <2>. QED  BY <1>2, <1>3, <2>1 DEF CastMark, Over, Asks, RunTells, SimTells, RepTells, Reports
<1>5. ASSUME p =< Len(threads), t # c.who, m \in Notifies(t)
      PROVE  Heard(CastMark(m, p), HearMark(m, t), CastMark(m, p + 1)) /\ Hear(m, t) \in Item
  <2>1. Heard(CastMark(m, p), HearMark(m, t), CastMark(m, p + 1)) /\ t \in Threads
    BY <1>1, <1>2, <1>5, Hears
  <2>. QED  BY <1>3, <2>1, Items
<1>6. ASSUME p =< Len(threads), ~(t # c.who /\ m \in Notifies(t))
      PROVE  Passed(CastMark(m, p), CastMark(m, p + 1))
  BY <1>1, <1>2, <1>3, <1>6, PassesBy
<1>. QED  BY <1>1, <1>2, <1>4, <1>5, <1>6

\* A broadcast that is heard fits where it was, and what hears it fits above it.
LEMMA HeardFits ==
  ASSUME NEW k, NEW h, NEW l, Heard(k, h, l), NEW S, NEW n \in Nat, Fits(k, S, n),
         listens => "terminated" \notin S
  PROVE  Fits(l, S, n) /\ Fits(h, {l} \cup S, n + 1)
<1>1. CASE k = "MODEL_BUILD" /\ h = "parseModel" /\ l = "built"
  BY <1>1 DEF Fits, Between, Ends, ByItself, ByUser, NotBuilt, Opening, Waits, UserStops, Closing,
       Files
<1>2. CASE k = "MODEL_RUN" /\ h = "runModel" /\ l = "started"
  BY <1>2 DEF Fits, Between, Ends, ByItself, ByUser, NotBuilt, Opening, Waits, UserStops, Closing,
       Files
<1>3. CASE k = "MODEL_STOP" /\ h = "stopModel" /\ l = "stopped"
  BY <1>3 DEF Fits, Between, Ends, ByItself, ByUser, NotBuilt, Opening, Waits, UserStops, Closing,
       Files
<1>4. CASE k = "MODEL_OPEN" /\ h = "hearOpen" /\ l = k
  BY <1>4 DEF Fits, Between, Ends, ByItself, ByUser, NotBuilt, Opening, Waits, UserStops, Closing,
       Files
<1>5. CASE k = "MODEL_CLOSE" /\ h = "hearClose" /\ l = k
  BY <1>5 DEF Fits, Between, Ends, ByItself, ByUser, NotBuilt, Opening, Waits, UserStops, Closing,
       Files
<1>6. CASE k = "START_BEFORE" /\ h = "startBefore" /\ l = k
  BY <1>6 DEF Fits, Between, Ends, ByItself, ByUser, NotBuilt, Opening, Waits, UserStops, Closing,
       Files
<1>7. CASE k = "START_AFTER" /\ h = "startAfter" /\ l = k /\ IsStudio
  BY <1>7 DEF Fits, Between, Ends, ByItself, ByUser, NotBuilt, Opening, Waits, UserStops, Closing,
       Files
<1>8. CASE k = "STOP_BEFORE" /\ h = "stopBefore" /\ l = "left" /\ IsStudio
  BY <1>8 DEF Fits, Between, Ends, ByItself, ByUser, NotBuilt, Opening, Waits, UserStops, Closing,
       Files
<1>9. CASE k = "STOP_AFTER" /\ h = "stopAfter" /\ l = k /\ ~IsStudio
  BY <1>9 DEF Fits, Between, Ends, ByItself, ByUser, NotBuilt, Opening, Waits, UserStops, Closing,
       Files
<1>10. CASE k = "THREAD_STOP_AFTER" /\ h = "threadStopAfter" /\ l = "ended" /\ listens
  BY <1>10 DEF Fits, Between, Ends, ByItself, ByUser, NotBuilt, Opening, Waits, UserStops, Closing,
       Files
<1>11. CASE k = "PARSE_OK" /\ h = "parseOk" /\ l = k
  BY <1>11 DEF Fits, Between, Ends, ByItself, ByUser, NotBuilt, Opening, Waits, UserStops, Closing,
       Files
<1>12. CASE k = "PARSE_ERROR" /\ h = "consoleParseError" /\ l = "parseFailed" /\ ~IsStudio
  BY <1>12 DEF Fits, Between, Ends, ByItself, ByUser, NotBuilt, Opening, Waits, UserStops, Closing,
       Files
<1>13. CASE k = "parseFailed" /\ h = "studioParseError" /\ l = k /\ IsStudio
  BY <1>13 DEF Fits, Between, Ends, ByItself, ByUser, NotBuilt, Opening, Waits, UserStops, Closing,
       Files
<1>14. CASE k = "STOP_OK" /\ h = "filesStop" /\ l = "reported"
  BY <1>14 DEF Fits, Between, Ends, ByItself, ByUser, NotBuilt, Opening, Waits, UserStops, Closing,
       Files
<1>15. CASE k = "STOP_BY_USER" /\ h = "filesStop" /\ l = "userReported"
  BY <1>15 DEF Fits, Between, Ends, ByItself, ByUser, NotBuilt, Opening, Waits, UserStops, Closing,
       Files
<1>16. CASE k = "STOP_RUNTIME_ERROR" /\ h = "filesStop" /\ l = "failing"
  BY <1>16 DEF Fits, Between, Ends, ByItself, ByUser, NotBuilt, Opening, Waits, UserStops, Closing,
       Files
<1>17. CASE k = "failing" /\ h = "consoleFails" /\ l = "reported" /\ ~IsStudio
  BY <1>17 DEF Fits, Between, Ends, ByItself, ByUser, NotBuilt, Opening, Waits, UserStops, Closing,
       Files
<1>18. CASE k = "reported" /\ h = "studioReport" /\ l = k /\ IsStudio
  BY <1>18 DEF Fits, Between, Ends, ByItself, ByUser, NotBuilt, Opening, Waits, UserStops, Closing,
       Files
<1>19. CASE k = "userReported" /\ h = "studioStopped" /\ l = k /\ IsStudio
  BY <1>19 DEF Fits, Between, Ends, ByItself, ByUser, NotBuilt, Opening, Waits, UserStops, Closing,
       Files
<1>20. CASE k = "FILES" /\ h = "filesHeard" /\ l = k
  BY <1>20 DEF Fits, Between, Ends, ByItself, ByUser, NotBuilt, Opening, Waits, UserStops, Closing,
       Files
<1>. QED
  BY <1>1, <1>2, <1>3, <1>4, <1>5, <1>6, <1>7, <1>8, <1>9, <1>10, <1>11, <1>12, <1>13, <1>14,
     <1>15, <1>16, <1>17, <1>18, <1>19, <1>20 DEF Heard

LEMMA PassedFits ==
  ASSUME NEW k, NEW l, Passed(k, l), NEW S, NEW n \in Nat, Fits(k, S, n)
  PROVE  Fits(l, S, n)
<1>1. CASE l = k
  BY <1>1
<1>2. CASE k = "STOP_BEFORE" /\ l = "left"
  BY <1>2 DEF Fits, Closing, Files
<1>3. CASE k = "THREAD_STOP_AFTER" /\ l = "ended"
  BY <1>3 DEF Fits, Closing, Files
<1>4. CASE k = "PARSE_ERROR" /\ l = "parseFailed"
  BY <1>4 DEF Fits, Closing, Files
<1>5. CASE k = "failing" /\ l = "reported"
  BY <1>5 DEF Fits, Closing, Files
<1>. QED  BY <1>1, <1>2, <1>3, <1>4, <1>5 DEF Passed

LEMMA HeardKeeps ==
  ASSUME NEW k, NEW h, NEW l, Heard(k, h, l), NEW S, NEW n, Fits(k, S, n), MInv({k} \cup S)
  PROVE  MInv({h, l} \cup S)
<1> USE DEF MInv, Some, Fits, Between, Ends, ByItself, ByUser, NotBuilt, Opening, Waits, UserStops,
     Files
<1>1. CASE k = "MODEL_BUILD" /\ h = "parseModel" /\ l = "built"
  <2>1. RunInv({h, l} \cup S)
    BY <1>1 DEF RunInv, NoRun
  <2>2. EndInv({h, l} \cup S)
    BY <1>1 DEF EndInv, Gone, Owing
  <2>3. CodeInv({h, l} \cup S)
    BY <1>1 DEF CodeInv, Reports
  <2>4. StudioInv({h, l} \cup S)
    BY <1>1 DEF StudioInv
  <2>5. ConsoleInv({h, l} \cup S)
    BY <1>1 DEF ConsoleInv, Closing
  <2>. QED  BY <2>1, <2>2, <2>3, <2>4, <2>5
<1>2. CASE k = "MODEL_RUN" /\ h = "runModel" /\ l = "started"
  <2>1. RunInv({h, l} \cup S)
    BY <1>2 DEF RunInv, NoRun
  <2>2. EndInv({h, l} \cup S)
    BY <1>2 DEF EndInv, Gone, Owing
  <2>3. CodeInv({h, l} \cup S)
    BY <1>2 DEF CodeInv, Reports
  <2>4. StudioInv({h, l} \cup S)
    BY <1>2 DEF StudioInv
  <2>5. ConsoleInv({h, l} \cup S)
    BY <1>2 DEF ConsoleInv, Closing
  <2>. QED  BY <2>1, <2>2, <2>3, <2>4, <2>5
<1>3. CASE k = "MODEL_STOP" /\ h = "stopModel" /\ l = "stopped"
  <2>1. RunInv({h, l} \cup S)
    BY <1>3 DEF RunInv, NoRun
  <2>2. EndInv({h, l} \cup S)
    BY <1>3 DEF EndInv, Gone, Owing
  <2>3. CodeInv({h, l} \cup S)
    BY <1>3 DEF CodeInv, Reports
  <2>4. StudioInv({h, l} \cup S)
    BY <1>3 DEF StudioInv
  <2>5. ConsoleInv({h, l} \cup S)
    BY <1>3 DEF ConsoleInv, Closing
  <2>. QED  BY <2>1, <2>2, <2>3, <2>4, <2>5
<1>4. CASE k = "MODEL_OPEN" /\ h = "hearOpen" /\ l = k
  <2>1. RunInv({h, l} \cup S)
    BY <1>4 DEF RunInv, NoRun
  <2>2. EndInv({h, l} \cup S)
    BY <1>4 DEF EndInv, Gone, Owing
  <2>3. CodeInv({h, l} \cup S)
    BY <1>4 DEF CodeInv, Reports
  <2>4. StudioInv({h, l} \cup S)
    BY <1>4 DEF StudioInv
  <2>5. ConsoleInv({h, l} \cup S)
    BY <1>4 DEF ConsoleInv, Closing
  <2>. QED  BY <2>1, <2>2, <2>3, <2>4, <2>5
<1>5. CASE k = "MODEL_CLOSE" /\ h = "hearClose" /\ l = k
  <2>1. RunInv({h, l} \cup S)
    BY <1>5 DEF RunInv, NoRun
  <2>2. EndInv({h, l} \cup S)
    BY <1>5 DEF EndInv, Gone, Owing
  <2>3. CodeInv({h, l} \cup S)
    BY <1>5 DEF CodeInv, Reports
  <2>4. StudioInv({h, l} \cup S)
    BY <1>5 DEF StudioInv
  <2>5. ConsoleInv({h, l} \cup S)
    BY <1>5 DEF ConsoleInv, Closing
  <2>. QED  BY <2>1, <2>2, <2>3, <2>4, <2>5
<1>6. CASE k = "START_BEFORE" /\ h = "startBefore" /\ l = k
  <2>1. RunInv({h, l} \cup S)
    BY <1>6 DEF RunInv, NoRun
  <2>2. EndInv({h, l} \cup S)
    BY <1>6 DEF EndInv, Gone, Owing
  <2>3. CodeInv({h, l} \cup S)
    BY <1>6 DEF CodeInv, Reports
  <2>4. StudioInv({h, l} \cup S)
    BY <1>6 DEF StudioInv
  <2>5. ConsoleInv({h, l} \cup S)
    BY <1>6 DEF ConsoleInv, Closing
  <2>. QED  BY <2>1, <2>2, <2>3, <2>4, <2>5
<1>7. CASE k = "START_AFTER" /\ h = "startAfter" /\ l = k /\ IsStudio
  <2>1. RunInv({h, l} \cup S)
    BY <1>7 DEF RunInv, NoRun
  <2>2. EndInv({h, l} \cup S)
    BY <1>7 DEF EndInv, Gone, Owing
  <2>3. CodeInv({h, l} \cup S)
    BY <1>7 DEF CodeInv, Reports
  <2>4. StudioInv({h, l} \cup S)
    BY <1>7 DEF StudioInv
  <2>5. ConsoleInv({h, l} \cup S)
    BY <1>7 DEF ConsoleInv, Closing
  <2>. QED  BY <2>1, <2>2, <2>3, <2>4, <2>5
<1>8. CASE k = "STOP_BEFORE" /\ h = "stopBefore" /\ l = "left" /\ IsStudio
  <2>1. RunInv({h, l} \cup S)
    BY <1>8 DEF RunInv, NoRun
  <2>2. EndInv({h, l} \cup S)
    BY <1>8 DEF EndInv, Gone, Owing
  <2>3. CodeInv({h, l} \cup S)
    BY <1>8 DEF CodeInv, Reports
  <2>4. StudioInv({h, l} \cup S)
    BY <1>8 DEF StudioInv
  <2>5. ConsoleInv({h, l} \cup S)
    BY <1>8 DEF ConsoleInv, Closing
  <2>. QED  BY <2>1, <2>2, <2>3, <2>4, <2>5
<1>9. CASE k = "STOP_AFTER" /\ h = "stopAfter" /\ l = k /\ ~IsStudio
  <2>1. RunInv({h, l} \cup S)
    BY <1>9 DEF RunInv, NoRun
  <2>2. EndInv({h, l} \cup S)
    BY <1>9 DEF EndInv, Gone, Owing
  <2>3. CodeInv({h, l} \cup S)
    BY <1>9 DEF CodeInv, Reports
  <2>4. StudioInv({h, l} \cup S)
    BY <1>9 DEF StudioInv
  <2>5. ConsoleInv({h, l} \cup S)
    BY <1>9 DEF ConsoleInv, Closing
  <2>. QED  BY <2>1, <2>2, <2>3, <2>4, <2>5
<1>10. CASE k = "THREAD_STOP_AFTER" /\ h = "threadStopAfter" /\ l = "ended" /\ listens
  <2>1. RunInv({h, l} \cup S)
    BY <1>10 DEF RunInv, NoRun
  <2>2. EndInv({h, l} \cup S)
    BY <1>10 DEF EndInv, Gone, Owing
  <2>3. CodeInv({h, l} \cup S)
    BY <1>10 DEF CodeInv, Reports
  <2>4. StudioInv({h, l} \cup S)
    BY <1>10 DEF StudioInv
  <2>5. ConsoleInv({h, l} \cup S)
    BY <1>10 DEF ConsoleInv, Closing
  <2>. QED  BY <2>1, <2>2, <2>3, <2>4, <2>5
<1>11. CASE k = "PARSE_OK" /\ h = "parseOk" /\ l = k
  <2>1. RunInv({h, l} \cup S)
    BY <1>11 DEF RunInv, NoRun
  <2>2. EndInv({h, l} \cup S)
    BY <1>11 DEF EndInv, Gone, Owing
  <2>3. CodeInv({h, l} \cup S)
    BY <1>11 DEF CodeInv, Reports
  <2>4. StudioInv({h, l} \cup S)
    BY <1>11 DEF StudioInv
  <2>5. ConsoleInv({h, l} \cup S)
    BY <1>11 DEF ConsoleInv, Closing
  <2>. QED  BY <2>1, <2>2, <2>3, <2>4, <2>5
<1>12. CASE k = "PARSE_ERROR" /\ h = "consoleParseError" /\ l = "parseFailed" /\ ~IsStudio
  <2>1. RunInv({h, l} \cup S)
    BY <1>12 DEF RunInv, NoRun
  <2>2. EndInv({h, l} \cup S)
    BY <1>12 DEF EndInv, Gone, Owing
  <2>3. CodeInv({h, l} \cup S)
    BY <1>12 DEF CodeInv, Reports
  <2>4. StudioInv({h, l} \cup S)
    BY <1>12 DEF StudioInv
  <2>5. ConsoleInv({h, l} \cup S)
    BY <1>12 DEF ConsoleInv, Closing
  <2>. QED  BY <2>1, <2>2, <2>3, <2>4, <2>5
<1>13. CASE k = "parseFailed" /\ h = "studioParseError" /\ l = k /\ IsStudio
  <2>1. RunInv({h, l} \cup S)
    BY <1>13 DEF RunInv, NoRun
  <2>2. EndInv({h, l} \cup S)
    BY <1>13 DEF EndInv, Gone, Owing
  <2>3. CodeInv({h, l} \cup S)
    BY <1>13 DEF CodeInv, Reports
  <2>4. StudioInv({h, l} \cup S)
    BY <1>13 DEF StudioInv
  <2>5. ConsoleInv({h, l} \cup S)
    BY <1>13 DEF ConsoleInv, Closing
  <2>. QED  BY <2>1, <2>2, <2>3, <2>4, <2>5
<1>14. CASE k = "STOP_OK" /\ h = "filesStop" /\ l = "reported"
  <2>1. RunInv({h, l} \cup S)
    BY <1>14 DEF RunInv, NoRun
  <2>2. EndInv({h, l} \cup S)
    BY <1>14 DEF EndInv, Gone, Owing
  <2>3. CodeInv({h, l} \cup S)
    BY <1>14 DEF CodeInv, Reports
  <2>4. StudioInv({h, l} \cup S)
    BY <1>14 DEF StudioInv
  <2>5. ConsoleInv({h, l} \cup S)
    BY <1>14 DEF ConsoleInv, Closing
  <2>. QED  BY <2>1, <2>2, <2>3, <2>4, <2>5
<1>15. CASE k = "STOP_BY_USER" /\ h = "filesStop" /\ l = "userReported"
  <2>1. RunInv({h, l} \cup S)
    BY <1>15 DEF RunInv, NoRun
  <2>2. EndInv({h, l} \cup S)
    BY <1>15 DEF EndInv, Gone, Owing
  <2>3. CodeInv({h, l} \cup S)
    BY <1>15 DEF CodeInv, Reports
  <2>4. StudioInv({h, l} \cup S)
    BY <1>15 DEF StudioInv
  <2>5. ConsoleInv({h, l} \cup S)
    BY <1>15 DEF ConsoleInv, Closing
  <2>. QED  BY <2>1, <2>2, <2>3, <2>4, <2>5
<1>16. CASE k = "STOP_RUNTIME_ERROR" /\ h = "filesStop" /\ l = "failing"
  <2>1. RunInv({h, l} \cup S)
    BY <1>16 DEF RunInv, NoRun
  <2>2. EndInv({h, l} \cup S)
    BY <1>16 DEF EndInv, Gone, Owing
  <2>3. CodeInv({h, l} \cup S)
    BY <1>16 DEF CodeInv, Reports
  <2>4. StudioInv({h, l} \cup S)
    BY <1>16 DEF StudioInv
  <2>5. ConsoleInv({h, l} \cup S)
    BY <1>16 DEF ConsoleInv, Closing
  <2>. QED  BY <2>1, <2>2, <2>3, <2>4, <2>5
<1>17. CASE k = "failing" /\ h = "consoleFails" /\ l = "reported" /\ ~IsStudio
  <2>1. RunInv({h, l} \cup S)
    BY <1>17 DEF RunInv, NoRun
  <2>2. EndInv({h, l} \cup S)
    BY <1>17 DEF EndInv, Gone, Owing
  <2>3. CodeInv({h, l} \cup S)
    BY <1>17 DEF CodeInv, Reports
  <2>4. StudioInv({h, l} \cup S)
    BY <1>17 DEF StudioInv
  <2>5. ConsoleInv({h, l} \cup S)
    BY <1>17 DEF ConsoleInv, Closing
  <2>. QED  BY <2>1, <2>2, <2>3, <2>4, <2>5
<1>18. CASE k = "reported" /\ h = "studioReport" /\ l = k /\ IsStudio
  <2>1. RunInv({h, l} \cup S)
    BY <1>18 DEF RunInv, NoRun
  <2>2. EndInv({h, l} \cup S)
    BY <1>18 DEF EndInv, Gone, Owing
  <2>3. CodeInv({h, l} \cup S)
    BY <1>18 DEF CodeInv, Reports
  <2>4. StudioInv({h, l} \cup S)
    BY <1>18 DEF StudioInv
  <2>5. ConsoleInv({h, l} \cup S)
    BY <1>18 DEF ConsoleInv, Closing
  <2>. QED  BY <2>1, <2>2, <2>3, <2>4, <2>5
<1>19. CASE k = "userReported" /\ h = "studioStopped" /\ l = k /\ IsStudio
  <2>1. RunInv({h, l} \cup S)
    BY <1>19 DEF RunInv, NoRun
  <2>2. EndInv({h, l} \cup S)
    BY <1>19 DEF EndInv, Gone, Owing
  <2>3. CodeInv({h, l} \cup S)
    BY <1>19 DEF CodeInv, Reports
  <2>4. StudioInv({h, l} \cup S)
    BY <1>19 DEF StudioInv
  <2>5. ConsoleInv({h, l} \cup S)
    BY <1>19 DEF ConsoleInv, Closing
  <2>. QED  BY <2>1, <2>2, <2>3, <2>4, <2>5
<1>20. CASE k = "FILES" /\ h = "filesHeard" /\ l = k
  <2>1. RunInv({h, l} \cup S)
    BY <1>20 DEF RunInv, NoRun
  <2>2. EndInv({h, l} \cup S)
    BY <1>20 DEF EndInv, Gone, Owing
  <2>3. CodeInv({h, l} \cup S)
    BY <1>20 DEF CodeInv, Reports
  <2>4. StudioInv({h, l} \cup S)
    BY <1>20 DEF StudioInv
  <2>5. ConsoleInv({h, l} \cup S)
    BY <1>20 DEF ConsoleInv, Closing
  <2>. QED  BY <2>1, <2>2, <2>3, <2>4, <2>5
<1>. QED
  BY <1>1, <1>2, <1>3, <1>4, <1>5, <1>6, <1>7, <1>8, <1>9, <1>10, <1>11, <1>12, <1>13, <1>14,
     <1>15, <1>16, <1>17, <1>18, <1>19, <1>20 DEF Heard

LEMMA PassedKeeps ==
  ASSUME NEW k, NEW l, Passed(k, l), NEW S, NEW n, Fits(k, S, n), MInv({k} \cup S)
  PROVE  MInv({l} \cup S)
<1> USE DEF MInv, Some, Fits, Between, Ends, ByItself, ByUser, NotBuilt, Opening, Waits, UserStops,
     Files
<1>1. CASE k = "STOP_BEFORE" /\ l = "left" /\ ~IsStudio
  <2>1. RunInv({l} \cup S)
    BY <1>1 DEF RunInv, NoRun
  <2>2. EndInv({l} \cup S)
    BY <1>1 DEF EndInv, Gone, Owing
  <2>3. CodeInv({l} \cup S)
    BY <1>1 DEF CodeInv, Reports
  <2>4. StudioInv({l} \cup S)
    BY <1>1 DEF StudioInv
  <2>5. ConsoleInv({l} \cup S)
    BY <1>1 DEF ConsoleInv, Closing
  <2>. QED  BY <2>1, <2>2, <2>3, <2>4, <2>5
<1>2. CASE k = "THREAD_STOP_AFTER" /\ l = "ended" /\ ~listens
  <2>1. RunInv({l} \cup S)
    BY <1>2 DEF RunInv, NoRun
  <2>2. EndInv({l} \cup S)
    BY <1>2 DEF RunInv, EndInv, Gone, Owing
  <2>3. CodeInv({l} \cup S)
    BY <1>2 DEF CodeInv, Reports
  <2>4. StudioInv({l} \cup S)
    BY <1>2 DEF StudioInv
  <2>5. ConsoleInv({l} \cup S)
    BY <1>2 DEF ConsoleInv, Closing
  <2>. QED  BY <2>1, <2>2, <2>3, <2>4, <2>5
<1>3. CASE k = "PARSE_ERROR" /\ l = "parseFailed" /\ IsStudio
  <2>1. RunInv({l} \cup S)
    BY <1>3 DEF RunInv, NoRun
  <2>2. EndInv({l} \cup S)
    BY <1>3 DEF EndInv, Gone, Owing
  <2>3. CodeInv({l} \cup S)
    BY <1>3 DEF CodeInv, Reports
  <2>4. StudioInv({l} \cup S)
    BY <1>3 DEF StudioInv
  <2>5. ConsoleInv({l} \cup S)
    BY <1>3 DEF ConsoleInv, Closing
  <2>. QED  BY <2>1, <2>2, <2>3, <2>4, <2>5
<1>4. CASE k = "failing" /\ l = "reported" /\ IsStudio
  <2>1. RunInv({l} \cup S)
    BY <1>4 DEF RunInv, NoRun
  <2>2. EndInv({l} \cup S)
    BY <1>4 DEF EndInv, Gone, Owing
  <2>3. CodeInv({l} \cup S)
    BY <1>4 DEF CodeInv, Reports
  <2>4. StudioInv({l} \cup S)
    BY <1>4 DEF StudioInv
  <2>5. ConsoleInv({l} \cup S)
    BY <1>4 DEF ConsoleInv, Closing
  <2>. QED  BY <2>1, <2>2, <2>3, <2>4, <2>5
<1>. QED  BY <1>1, <1>2, <1>3, <1>4 DEF Passed

LEMMA OverKeeps ==
  ASSUME NEW k, Over(k), NEW S, NEW n, Fits(k, S, n), MInv({k} \cup S)
  PROVE  MInv(S)
<1> USE DEF MInv, Some, Fits, Between, Ends, ByItself, ByUser, NotBuilt, Opening, Waits, UserStops,
     Files
<1>1. CASE k = "built"
  <2>1. RunInv(S)
    BY <1>1 DEF RunInv, NoRun
  <2>2. EndInv(S)
    BY <1>1 DEF EndInv, Gone, Owing
  <2>3. CodeInv(S)
    BY <1>1 DEF CodeInv, Reports
  <2>4. StudioInv(S)
    BY <1>1 DEF StudioInv
  <2>5. ConsoleInv(S)
    BY <1>1 DEF ConsoleInv, Closing
  <2>. QED  BY <2>1, <2>2, <2>3, <2>4, <2>5
<1>2. CASE k \in {"started", "stopped"}
  <2>1. RunInv(S)
    BY <1>2 DEF RunInv, NoRun
  <2>2. EndInv(S)
    BY <1>2 DEF EndInv, Gone, Owing
  <2>3. CodeInv(S)
    BY <1>2 DEF CodeInv, Reports
  <2>4. StudioInv(S)
    BY <1>2 DEF StudioInv
  <2>5. ConsoleInv(S)
    BY <1>2 DEF ConsoleInv, Closing
  <2>. QED  BY <2>1, <2>2, <2>3, <2>4, <2>5
<1>3. CASE k \in {"MODEL_OPEN", "MODEL_CLOSE", "FILES"}
  <2>1. RunInv(S)
    BY <1>3 DEF RunInv, NoRun
  <2>2. EndInv(S)
    BY <1>3 DEF EndInv, Gone, Owing
  <2>3. CodeInv(S)
    BY <1>3 DEF CodeInv, Reports
  <2>4. StudioInv(S)
    BY <1>3 DEF StudioInv
  <2>5. ConsoleInv(S)
    BY <1>3 DEF ConsoleInv, Closing
  <2>. QED  BY <2>1, <2>2, <2>3, <2>4, <2>5
<1>4. CASE k = "START_BEFORE"
  <2>1. RunInv(S)
    BY <1>4 DEF RunInv, NoRun
  <2>2. EndInv(S)
    BY <1>4 DEF EndInv, Gone, Owing
  <2>3. CodeInv(S)
    BY <1>4 DEF CodeInv, Reports
  <2>4. StudioInv(S)
    BY <1>4 DEF StudioInv
  <2>5. ConsoleInv(S)
    BY <1>4 DEF ConsoleInv, Closing
  <2>. QED  BY <2>1, <2>2, <2>3, <2>4, <2>5
<1>5. CASE k = "START_AFTER"
  <2>1. RunInv(S)
    BY <1>5 DEF RunInv, NoRun
  <2>2. EndInv(S)
    BY <1>5 DEF EndInv, Gone, Owing
  <2>3. CodeInv(S)
    BY <1>5 DEF CodeInv, Reports
  <2>4. StudioInv(S)
    BY <1>5 DEF StudioInv
  <2>5. ConsoleInv(S)
    BY <1>5 DEF ConsoleInv, Closing
  <2>. QED  BY <2>1, <2>2, <2>3, <2>4, <2>5
<1>6. CASE k = "left"
  <2>1. RunInv(S)
    BY <1>6 DEF RunInv, NoRun
  <2>2. EndInv(S)
    BY <1>6 DEF EndInv, Gone, Owing
  <2>3. CodeInv(S)
    BY <1>6 DEF CodeInv, Reports
  <2>4. StudioInv(S)
    BY <1>6 DEF StudioInv
  <2>5. ConsoleInv(S)
    BY <1>6 DEF ConsoleInv, Closing
  <2>. QED  BY <2>1, <2>2, <2>3, <2>4, <2>5
<1>7. CASE k = "STOP_BEFORE" /\ ~IsStudio
  <2>1. RunInv(S)
    BY <1>7 DEF RunInv, NoRun
  <2>2. EndInv(S)
    BY <1>7 DEF EndInv, Gone, Owing
  <2>3. CodeInv(S)
    BY <1>7 DEF CodeInv, Reports
  <2>4. StudioInv(S)
    BY <1>7 DEF StudioInv
  <2>5. ConsoleInv(S)
    BY <1>7 DEF ConsoleInv, Closing
  <2>. QED  BY <2>1, <2>2, <2>3, <2>4, <2>5
<1>8. CASE k = "STOP_AFTER"
  <2>1. RunInv(S)
    BY <1>8 DEF RunInv, NoRun
  <2>2. EndInv(S)
    BY <1>8 DEF EndInv, Gone, Owing
  <2>3. CodeInv(S)
    BY <1>8 DEF CodeInv, Reports
  <2>4. StudioInv(S)
    BY <1>8 DEF StudioInv
  <2>5. ConsoleInv(S)
    BY <1>8 DEF ConsoleInv, Closing
  <2>. QED  BY <2>1, <2>2, <2>3, <2>4, <2>5
<1>9. CASE k = "ended"
  <2>1. RunInv(S)
    BY <1>9 DEF RunInv, NoRun
  <2>2. EndInv(S)
    BY <1>9 DEF EndInv, Gone, Owing
  <2>3. CodeInv(S)
    BY <1>9 DEF CodeInv, Reports
  <2>4. StudioInv(S)
    BY <1>9 DEF StudioInv
  <2>5. ConsoleInv(S)
    BY <1>9 DEF ConsoleInv, Closing
  <2>. QED  BY <2>1, <2>2, <2>3, <2>4, <2>5
<1>10. CASE k = "PARSE_OK"
  <2>1. RunInv(S)
    BY <1>10 DEF RunInv, NoRun
  <2>2. EndInv(S)
    BY <1>10 DEF EndInv, Gone, Owing
  <2>3. CodeInv(S)
    BY <1>10 DEF CodeInv, Reports
  <2>4. StudioInv(S)
    BY <1>10 DEF StudioInv
  <2>5. ConsoleInv(S)
    BY <1>10 DEF ConsoleInv, Closing
  <2>. QED  BY <2>1, <2>2, <2>3, <2>4, <2>5
<1>11. CASE k = "parseFailed"
  <2>1. RunInv(S)
    BY <1>11 DEF RunInv, NoRun
  <2>2. EndInv(S)
    BY <1>11 DEF EndInv, Gone, Owing
  <2>3. CodeInv(S)
    BY <1>11 DEF CodeInv, Reports
  <2>4. StudioInv(S)
    BY <1>11 DEF StudioInv
  <2>5. ConsoleInv(S)
    BY <1>11 DEF ConsoleInv, Closing
  <2>. QED  BY <2>1, <2>2, <2>3, <2>4, <2>5
<1>12. CASE k = "reported"
  <2>1. RunInv(S)
    BY <1>12 DEF RunInv, NoRun
  <2>2. EndInv(S)
    BY <1>12 DEF EndInv, Gone, Owing
  <2>3. CodeInv(S)
    BY <1>12 DEF CodeInv, Reports
  <2>4. StudioInv(S)
    BY <1>12 DEF StudioInv
  <2>5. ConsoleInv(S)
    BY <1>12 DEF ConsoleInv, Closing
  <2>. QED  BY <2>1, <2>2, <2>3, <2>4, <2>5
<1>13. CASE k = "userReported"
  <2>1. RunInv(S)
    BY <1>13 DEF RunInv, NoRun
  <2>2. EndInv(S)
    BY <1>13 DEF EndInv, Gone, Owing
  <2>3. CodeInv(S)
    BY <1>13 DEF CodeInv, Reports
  <2>4. StudioInv(S)
    BY <1>13 DEF StudioInv
  <2>5. ConsoleInv(S)
    BY <1>13 DEF ConsoleInv, Closing
  <2>. QED  BY <2>1, <2>2, <2>3, <2>4, <2>5
<1>. QED
  BY <1>1, <1>2, <1>3, <1>4, <1>5, <1>6, <1>7, <1>8, <1>9, <1>10, <1>11, <1>12, <1>13 DEF Over

\* Only the stack has changed.
LEMMA OnlyTodo ==
  ASSUME IInv, UNCHANGED <<threads, serviceVars, fileVars, studioVars, console, history>>,
         StackOK(todo)', MInv(Marks(todo)')
  PROVE  IInv'
<1> USE DEF serviceVars, fileVars, studioVars, history
<1>1. (Registered' <=> Registered) /\ (IsStudio' <=> IsStudio)
  BY SameThreads
<1>2. Values'
  BY DEF IInv, Values
<1>3. RunInv(Marks(todo))' /\ EndInv(Marks(todo))'
  BY <1>1 DEF MInv, RunInv, EndInv
<1>4. CodeInv(Marks(todo))' /\ StudioInv(Marks(todo))'
  BY <1>1 DEF MInv, CodeInv, StudioInv
<1>5. ConsoleInv(Marks(todo))'
  BY <1>1 DEF MInv, ConsoleInv
<1>. QED  BY <1>2, <1>3, <1>4, <1>5 DEF IInv, MInv

LEMMA BroadcastKeeps ==
  ASSUME IInv, Broadcast
  PROVE  IInv'
<1> DEFINE c == Head(todo)
           s == Tail(todo)
           S == Marks(s)
           n == Len(s)
           k == Mark(c)
           l == Mark(Further(c))
<1>1. /\ Values /\ StackOK(todo) /\ todo # <<>> /\ c.kind = "cast"
      /\ UNCHANGED <<threads, serviceVars, fileVars, studioVars, console, history>>
  BY DEF IInv, Broadcast
<1>2. /\ c \in Item /\ StackOK(s) /\ n \in Nat /\ Fits(k, S, n)
      /\ Marks(todo) = {k} \cup S
  BY <1>1, Pop
<1>3. c \in CastItem
  BY <1>1, <1>2 DEF Item, HearItem, CallItem
<1>4. c.pos \in Nat \ {0} /\ Len(threads) \in 3..5 /\ Further(c) \in Item
  BY <1>1, <1>3, GoesFurther, Places
<1>5. MInv({k} \cup S) /\ (listens => "terminated" \notin S)
  BY <1>2 DEF IInv, MInv, RunInv
<1>6. CASE c.pos > Len(threads)
  <2>1. todo' = <<>> \o s
    BY <1>6 DEF Broadcast, Do
  <2>2. StackOK(todo') /\ Marks(todo') = S
    BY <1>2, <2>1, PushNone
  <2>3. Over(k)
    BY <1>1, <1>3, <1>6, Told
  <2>4. MInv(S)
    BY <1>2, <1>5, <2>3, OverKeeps
  <2>. QED  BY <1>1, <2>2, <2>4, OnlyTodo
<1>7. CASE c.pos =< Len(threads) /\ threads[c.pos] # c.who /\ c.what \in Notifies(threads[c.pos])
  <2> DEFINE x == Hear(c.what, threads[c.pos])
             h == Mark(x)
  <2>1. todo' = (<<x>> \o <<Further(c)>>) \o s
    BY <1>4, <1>7 DEF Broadcast, Do, Further
  <2>2. Heard(k, h, l) /\ x \in Item
    BY <1>1, <1>3, <1>7, Told
  <2>3. Fits(l, S, n) /\ Fits(h, {l} \cup S, n + 1)
    BY <1>2, <1>5, <2>2, HeardFits
  <2>4. MInv({h, l} \cup S)
    BY <1>2, <1>5, <2>2, HeardKeeps
  <2>5. todo' = <<x, Further(c)>> \o s
    BY <2>1, Pair, Zenon
  <2> HIDE DEF x, c, s
  <2>6. StackOK(todo') /\ Marks(todo') = {h, l} \cup S
    BY <1>2, <1>4, <2>2, <2>3, <2>5, PushTwo
  <2>. QED  BY <1>1, <2>4, <2>6, OnlyTodo
<1>8. CASE c.pos =< Len(threads) /\ ~(threads[c.pos] # c.who /\ c.what \in Notifies(threads[c.pos]))
  <2>1. todo' = (<<>> \o <<Further(c)>>) \o s
    BY <1>4, <1>8 DEF Broadcast, Do, Further
  <2>2. todo' = <<Further(c)>> \o s
    BY <2>1
  <2>3. Passed(k, l)
    BY <1>1, <1>3, <1>8, Told
  <2>4. Fits(l, S, n)
    BY <1>2, <2>3, PassedFits
  <2>5. MInv({l} \cup S)
    BY <1>2, <1>5, <2>3, PassedKeeps
  <2> HIDE DEF c, s
  <2>6. StackOK(todo') /\ Marks(todo') = {l} \cup S
    BY <1>2, <1>4, <2>2, <2>4, Push
  <2>. QED  BY <1>1, <2>5, <2>6, OnlyTodo
<1>. QED  BY <1>4, <1>6, <1>7, <1>8

-----------------------------------------------------------------------------
(***************************************************************************)
(* One lemma for each operation: it keeps the invariant.  First those of   *)
(* the service and of the run.                                             *)
(***************************************************************************)

LEMMA ParseModelKeeps ==
  ASSUME IInv, ParseModel
  PROVE  IInv'
<1>1. StackOK(todo)' /\ Becomes("parseModel", {"terminateModel", "parse"})
  <2> DEFINE h == Hear("MODEL_BUILD", "simulator")
             x == Call("terminateModel", "simulator")
             y == Call("parse", "simulator")
  <2>1. Mark(h) = "parseModel" /\ x \in Item /\ Mark(x) = "terminateModel" /\ y \in Item
        /\ Mark(y) = "parse"
    BY MarkOf, Items DEF HearMark, Reports, RepTells, CallMark, Calls, Threads, Closings
  <2>2. StackOK(todo) /\ Head1(h) /\ Do(<<x, y>>)
    BY DEF IInv, ParseModel
  <2> HIDE DEF h, x, y
  <2>3. \A S : \A n \in Nat : Fits("parseModel", S, n) =>
         /\ Fits("parse", S, n)
         /\ Fits("terminateModel", {"parse"} \cup S, n + 1)
    BY DEF Fits, Between, Ends, ByItself, ByUser, NotBuilt, Opening, Waits, UserStops, Closing,
         Files
  <2>. QED  BY <2>1, <2>2, <2>3, DoTwo
<1>2. PICK S : /\ \E n : Fits("parseModel", S, n)
               /\ Marks(todo) = {"parseModel"} \cup S
               /\ Marks(todo)' = {"terminateModel", "parse"} \cup S
  BY <1>1 DEF Becomes
<1> USE <1>2 DEF IInv, MInv, Fits, Some, Between, Ends, ByItself, ByUser, NotBuilt, Opening, Waits,
     UserStops, Files
<1>3. RunInv({"terminateModel", "parse"} \cup S)
  BY DEF RunInv, NoRun
<1>4. EndInv({"terminateModel", "parse"} \cup S)
  BY DEF EndInv, Gone, Owing
<1>5. CodeInv({"terminateModel", "parse"} \cup S)
  BY DEF CodeInv, Reports
<1>6. StudioInv({"terminateModel", "parse"} \cup S)
  BY DEF StudioInv
<1>7. ConsoleInv({"terminateModel", "parse"} \cup S)
  BY DEF ConsoleInv, Closing
<1>. QED  BY <1>1, <1>2, <1>3, <1>4, <1>5, <1>6, <1>7, OnlyTodo DEF ParseModel

LEMMA RdoInitKeeps ==
  ASSUME IInv, RdoInit
  PROVE  IInv'
<1>1. CASE runtimeError' = TRUE /\ whyStop' = "EC_RunTimeError" /\ Do(<<>>)
  <2>1. StackOK(todo)' /\ Becomes("rdoInit", {})
    <3> DEFINE h == Call("rdoInit", "runtime")
    <3>1. Mark(h) = "rdoInit"
      BY MarkOf DEF CallMark
    <3>2. StackOK(todo) /\ Head1(h) /\ Do(<<>>)
      BY <1>1 DEF IInv, RdoInit
    <3> HIDE DEF h
    <3>. QED  BY <3>1, <3>2, DoNone
  <2>2. PICK S : /\ \E n : Fits("rdoInit", S, n)
                 /\ Marks(todo) = {"rdoInit"} \cup S
                 /\ Marks(todo)' = S
    BY <2>1 DEF Becomes
  <2>3. (Registered' <=> Registered) /\ (IsStudio' <=> IsStudio)
    BY SameThreads DEF RdoInit
  <2> USE <1>1, <2>2, <2>3 DEF IInv, MInv, RdoInit, serviceVars, fileVars, studioVars, history
  <2>4. Values'
    BY DEF Values, ExitCodes
  <2> USE DEF Fits, Some, Between, Ends, ByItself, ByUser, NotBuilt, Opening, Waits, UserStops,
       Files
  <2>5. RunInv(Marks(todo))'
    BY DEF RunInv, NoRun
  <2>6. EndInv(Marks(todo))'
    BY DEF EndInv, Gone, Owing
  <2>7. CodeInv(Marks(todo))'
    BY DEF CodeInv, Reports
  <2>8. StudioInv(Marks(todo))'
    BY DEF StudioInv
  <2>9. ConsoleInv(Marks(todo))'
    BY DEF ConsoleInv, Closing
  <2>. QED  BY <2>1, <2>4, <2>5, <2>6, <2>7, <2>8, <2>9
<1>2. CASE UNCHANGED <<runtimeError, whyStop>> /\ Do(<<Cast("START_AFTER", "runtime")>>)
  <2>1. StackOK(todo)' /\ Becomes("rdoInit", {"START_AFTER"})
    <3> DEFINE h == Call("rdoInit", "runtime")
               x == Cast("START_AFTER", "runtime")
    <3>1. Mark(h) = "rdoInit" /\ x \in Item /\ Mark(x) = "START_AFTER"
      BY MarkOf, Items DEF CallMark, CastMark, Reports, RepTells, Asks, RunTells, SimTells
    <3>2. StackOK(todo) /\ Head1(h) /\ Do(<<x>>)
      BY <1>2 DEF IInv, RdoInit
    <3> HIDE DEF h, x
    <3>3. \A S : \A n \in Nat : Fits("rdoInit", S, n) => Fits("START_AFTER", S, n)
      BY DEF Fits, Between, Ends, ByItself, ByUser, NotBuilt, Opening, Waits, UserStops, Closing,
           Files
    <3>. QED  BY <3>1, <3>2, <3>3, DoOne
  <2>2. PICK S : /\ \E n : Fits("rdoInit", S, n)
                 /\ Marks(todo) = {"rdoInit"} \cup S
                 /\ Marks(todo)' = {"START_AFTER"} \cup S
    BY <2>1 DEF Becomes
  <2>3. (Registered' <=> Registered) /\ (IsStudio' <=> IsStudio)
    BY SameThreads DEF RdoInit
  <2> USE <1>2, <2>2, <2>3 DEF IInv, MInv, RdoInit, serviceVars, fileVars, studioVars, history
  <2>4. Values'
    BY DEF Values, ExitCodes
  <2> USE DEF Fits, Some, Between, Ends, ByItself, ByUser, NotBuilt, Opening, Waits, UserStops,
       Files
  <2>5. RunInv(Marks(todo))'
    BY DEF RunInv, NoRun
  <2>6. EndInv(Marks(todo))'
    BY DEF EndInv, Gone, Owing
  <2>7. CodeInv(Marks(todo))'
    BY DEF CodeInv, Reports
  <2>8. StudioInv(Marks(todo))'
    BY DEF StudioInv
  <2>9. ConsoleInv(Marks(todo))'
    BY DEF ConsoleInv, Closing
  <2>. QED  BY <2>1, <2>4, <2>5, <2>6, <2>7, <2>8, <2>9
<1>. QED  BY <1>1, <1>2 DEF RdoInit

LEMMA RdoPostProcessKeeps ==
  ASSUME IInv, RdoPostProcess
  PROVE  IInv'
<1>1. StackOK(todo)' /\ Becomes("rdoPostProcess", {})
  <2> DEFINE h == Call("rdoPostProcess", "runtime")
  <2>1. Mark(h) = "rdoPostProcess"
    BY MarkOf DEF CallMark
  <2>2. StackOK(todo) /\ Head1(h) /\ Do(<<>>)
    BY DEF IInv, RdoPostProcess
  <2> HIDE DEF h
  <2>. QED  BY <2>1, <2>2, DoNone
<1>2. PICK S : /\ \E n : Fits("rdoPostProcess", S, n)
               /\ Marks(todo) = {"rdoPostProcess"} \cup S
               /\ Marks(todo)' = S
  BY <1>1 DEF Becomes
<1>3. (Registered' <=> Registered) /\ (IsStudio' <=> IsStudio)
  BY SameThreads DEF RdoPostProcess
<1> USE <1>2, <1>3 DEF IInv, MInv, RdoPostProcess, serviceVars, fileVars, studioVars, history
<1>4. Values'
  <2>1. runtimeError' \in BOOLEAN /\ whyStop' \in ExitCodes
    BY DEF Values, ExitCodes
  <2>. QED  BY <2>1 DEF Values, ExitCodes
<1> USE DEF Fits, Some, Between, Ends, ByItself, ByUser, NotBuilt, Opening, Waits, UserStops, Files
<1>5. RunInv(Marks(todo))'
  BY DEF RunInv, NoRun
<1>6. EndInv(Marks(todo))'
  BY DEF EndInv, Gone, Owing
<1>7. CodeInv(Marks(todo))'
  BY DEF CodeInv, Reports
<1>8. StudioInv(Marks(todo))'
  BY DEF StudioInv
<1>9. ConsoleInv(Marks(todo))'
  BY DEF ConsoleInv, Closing
<1>. QED  BY <1>1, <1>4, <1>5, <1>6, <1>7, <1>8, <1>9

LEMMA ParseKeeps ==
  ASSUME IInv, Parse
  PROVE  IInv'
<1>1. CASE exitCode' = "EC_OK" /\ Do(<<Cast("PARSE_OK", "simulator")>>)
  <2>1. StackOK(todo)' /\ Becomes("parse", {"PARSE_OK"})
    <3> DEFINE h == Call("parse", "simulator")
               x == Cast("PARSE_OK", "simulator")
    <3>1. Mark(h) = "parse" /\ x \in Item /\ Mark(x) = "PARSE_OK"
      BY MarkOf, Items DEF CallMark, CastMark, Reports, RepTells, Asks, RunTells, SimTells
    <3>2. StackOK(todo) /\ Head1(h) /\ Do(<<x>>)
      BY <1>1 DEF IInv, Parse
    <3> HIDE DEF h, x
    <3>3. \A S : \A n \in Nat : Fits("parse", S, n) => Fits("PARSE_OK", S, n)
      BY DEF Fits, Between, Ends, ByItself, ByUser, NotBuilt, Opening, Waits, UserStops, Closing,
           Files
    <3>. QED  BY <3>1, <3>2, <3>3, DoOne
  <2>2. PICK S : /\ \E n : Fits("parse", S, n)
                 /\ Marks(todo) = {"parse"} \cup S
                 /\ Marks(todo)' = {"PARSE_OK"} \cup S
    BY <2>1 DEF Becomes
  <2>3. (Registered' <=> Registered) /\ (IsStudio' <=> IsStudio)
    BY SameThreads DEF Parse
  <2> USE <1>1, <2>2, <2>3 DEF IInv, MInv, Parse, serviceVars, fileVars, studioVars, history
  <2>4. Values'
    BY DEF Values, ExitCodes
  <2> USE DEF Fits, Some, Between, Ends, ByItself, ByUser, NotBuilt, Opening, Waits, UserStops,
       Files
  <2>5. RunInv(Marks(todo))'
    BY DEF RunInv, NoRun
  <2>6. EndInv(Marks(todo))'
    BY DEF EndInv, Gone, Owing
  <2>7. CodeInv(Marks(todo))'
    BY DEF CodeInv, Reports
  <2>8. StudioInv(Marks(todo))'
    BY DEF StudioInv
  <2>9. ConsoleInv(Marks(todo))'
    BY DEF ConsoleInv, Closing
  <2>. QED  BY <2>1, <2>4, <2>5, <2>6, <2>7, <2>8, <2>9
<1>2. CASE exitCode' = "EC_ParserError"
           /\ Do(<<Cast("PARSE_ERROR", "simulator"), Call("closeModel", "simulator")>>)
  <2>1. StackOK(todo)' /\ Becomes("parse", {"PARSE_ERROR", "closeModel"})
    <3> DEFINE h == Call("parse", "simulator")
               x == Cast("PARSE_ERROR", "simulator")
               y == Call("closeModel", "simulator")
    <3>1. Mark(h) = "parse" /\ x \in Item /\ Mark(x) = "PARSE_ERROR" /\ y \in Item
          /\ Mark(y) = "closeModel"
      BY MarkOf, Items DEF CallMark, CastMark, Reports, RepTells, Asks, RunTells, SimTells, Calls,
         Threads, Closings
    <3>2. StackOK(todo) /\ Head1(h) /\ Do(<<x, y>>)
      BY <1>2 DEF IInv, Parse
    <3> HIDE DEF h, x, y
    <3>3. \A S : \A n \in Nat : Fits("parse", S, n) =>
           /\ Fits("closeModel", S, n)
           /\ Fits("PARSE_ERROR", {"closeModel"} \cup S, n + 1)
      BY DEF Fits, Between, Ends, ByItself, ByUser, NotBuilt, Opening, Waits, UserStops, Closing,
           Files
    <3>. QED  BY <3>1, <3>2, <3>3, DoTwo
  <2>2. PICK S : /\ \E n : Fits("parse", S, n)
                 /\ Marks(todo) = {"parse"} \cup S
                 /\ Marks(todo)' = {"PARSE_ERROR", "closeModel"} \cup S
    BY <2>1 DEF Becomes
  <2>3. (Registered' <=> Registered) /\ (IsStudio' <=> IsStudio)
    BY SameThreads DEF Parse
  <2> USE <1>2, <2>2, <2>3 DEF IInv, MInv, Parse, serviceVars, fileVars, studioVars, history
  <2>4. Values'
    BY DEF Values, ExitCodes
  <2> USE DEF Fits, Some, Between, Ends, ByItself, ByUser, NotBuilt, Opening, Waits, UserStops,
       Files
  <2>5. RunInv(Marks(todo))'
    BY DEF RunInv, NoRun
  <2>6. EndInv(Marks(todo))'
    BY DEF EndInv, Gone, Owing
  <2>7. CodeInv(Marks(todo))'
    BY DEF CodeInv, Reports
  <2>8. StudioInv(Marks(todo))'
    BY DEF StudioInv
  <2>9. ConsoleInv(Marks(todo))'
    BY DEF ConsoleInv, Closing
  <2>. QED  BY <2>1, <2>4, <2>5, <2>6, <2>7, <2>8, <2>9
<1>. QED  BY <1>1, <1>2 DEF Parse

LEMMA RunModelKeeps ==
  ASSUME IInv, RunModel
  PROVE  IInv'
<1>1. StackOK(todo)' /\ Becomes("runModel", {"connect", "keepThread"})
  <2> DEFINE h == Hear("MODEL_RUN", "simulator")
             x == Call("connect", "runtime")
             y == Call("keepThread", "simulator")
  <2>1. Mark(h) = "runModel" /\ x \in Item /\ Mark(x) = "connect" /\ y \in Item
        /\ Mark(y) = "keepThread"
    BY MarkOf, Items DEF HearMark, Reports, RepTells, CallMark, Calls, Threads, Closings
  <2>2. StackOK(todo) /\ Head1(h) /\ Do(<<x, y>>)
    BY DEF IInv, RunModel
  <2> HIDE DEF h, x, y
  <2>3. \A S : \A n \in Nat : Fits("runModel", S, n) =>
         /\ Fits("keepThread", S, n)
         /\ Fits("connect", {"keepThread"} \cup S, n + 1)
    BY DEF Fits, Between, Ends, ByItself, ByUser, NotBuilt, Opening, Waits, UserStops, Closing,
         Files
  <2>. QED  BY <2>1, <2>2, <2>3, DoTwo
<1>2. PICK S : /\ \E n : Fits("runModel", S, n)
               /\ Marks(todo) = {"runModel"} \cup S
               /\ Marks(todo)' = {"connect", "keepThread"} \cup S
  BY <1>1 DEF Becomes
<1>3. (Registered' <=> Registered) /\ (IsStudio' <=> IsStudio)
  BY SameThreads DEF RunModel
<1> USE <1>2, <1>3 DEF IInv, MInv, RunModel, serviceVars, fileVars, studioVars, history
<1>4. Values'
  BY DEF Values, ExitCodes
<1> USE DEF Fits, Some, Between, Ends, ByItself, ByUser, NotBuilt, Opening, Waits, UserStops, Files
<1>5. RunInv(Marks(todo))'
  BY DEF RunInv, NoRun
<1>6. EndInv(Marks(todo))'
  BY DEF EndInv, Gone, Owing
<1>7. CodeInv(Marks(todo))'
  BY DEF CodeInv, Reports
<1>8. StudioInv(Marks(todo))'
  BY DEF StudioInv
<1>9. ConsoleInv(Marks(todo))'
  BY DEF ConsoleInv, Closing
<1>. QED  BY <1>1, <1>4, <1>5, <1>6, <1>7, <1>8, <1>9

LEMMA KeepThreadKeeps ==
  ASSUME IInv, KeepThread
  PROVE  IInv'
<1>1. StackOK(todo)' /\ Becomes("keepThread", {})
  <2> DEFINE h == Call("keepThread", "simulator")
  <2>1. Mark(h) = "keepThread"
    BY MarkOf DEF CallMark
  <2>2. StackOK(todo) /\ Head1(h) /\ Do(<<>>)
    BY DEF IInv, KeepThread
  <2> HIDE DEF h
  <2>. QED  BY <2>1, <2>2, DoNone
<1>2. PICK S : /\ \E n : Fits("keepThread", S, n)
               /\ Marks(todo) = {"keepThread"} \cup S
               /\ Marks(todo)' = S
  BY <1>1 DEF Becomes
<1>3. (Registered' <=> Registered) /\ (IsStudio' <=> IsStudio)
  BY SameThreads DEF KeepThread
<1> USE <1>2, <1>3 DEF IInv, MInv, KeepThread, serviceVars, fileVars, studioVars, history
<1>4. Values'
  BY DEF Values
<1> USE DEF Fits, Some, Between, Ends, ByItself, ByUser, NotBuilt, Opening, Waits, UserStops, Files
<1>5. RunInv(Marks(todo))'
  BY DEF RunInv, NoRun
<1>6. EndInv(Marks(todo))'
  BY DEF EndInv, Gone, Owing, RunInv
<1>7. CodeInv(Marks(todo))'
  BY DEF CodeInv, Reports
<1>8. StudioInv(Marks(todo))'
  BY DEF StudioInv
<1>9. ConsoleInv(Marks(todo))'
  BY DEF ConsoleInv, Closing
<1>. QED  BY <1>1, <1>4, <1>5, <1>6, <1>7, <1>8, <1>9

LEMMA StopModelKeeps ==
  ASSUME IInv, StopModel
  PROVE  IInv'
<1>1. StackOK(todo)' /\ Becomes("stopModel", {"terminateModel", "reportUser", "closeModel"})
  <2> DEFINE h == Hear("MODEL_STOP", "simulator")
             x == Call("terminateModel", "simulator")
             y == Call("STOP_BY_USER", "simulator")
             z == Call("closeModel", "simulator")
  <2>1. Mark(h) = "stopModel" /\ x \in Item /\ Mark(x) = "terminateModel" /\ y \in Item
        /\ Mark(y) = "reportUser" /\ z \in Item /\ Mark(z) = "closeModel"
    BY MarkOf, Items DEF HearMark, Reports, RepTells, CallMark, Calls, Threads, Closings
  <2>2. StackOK(todo) /\ Head1(h) /\ Do(<<x, y, z>>)
    BY DEF IInv, StopModel
  <2> HIDE DEF h, x, y, z
  <2>3. \A S : \A n \in Nat : Fits("stopModel", S, n) =>
         /\ Fits("closeModel", S, n)
         /\ Fits("reportUser", {"closeModel"} \cup S, n + 1)
         /\ Fits("terminateModel", {"reportUser", "closeModel"} \cup S, n + 2)
    <3> SUFFICES ASSUME NEW S, NEW n \in Nat, Fits("stopModel", S, n)
                  PROVE  /\ Fits("closeModel", S, n)
                         /\ Fits("reportUser", {"closeModel"} \cup S, n + 1)
                         /\ Fits("terminateModel", {"reportUser", "closeModel"} \cup S, n + 2)
      OBVIOUS
    <3>1. Fits("closeModel", S, n)
      BY DEF Fits, Between, Ends, ByItself, ByUser, NotBuilt, Opening, Waits, UserStops, Closing,
           Files
    <3>2. Fits("reportUser", {"closeModel"} \cup S, n + 1)
      BY DEF Fits, Between, Ends, ByItself, ByUser, NotBuilt, Opening, Waits, UserStops, Closing,
           Files
    <3>3. Fits("terminateModel", {"reportUser", "closeModel"} \cup S, n + 2)
      BY DEF Fits, Between, Ends, ByItself, ByUser, NotBuilt, Opening, Waits, UserStops, Closing,
           Files
    <3>. QED  BY <3>1, <3>2, <3>3
  <2>4. \A S : \A n \in Nat : Fits(Mark(h), S, n) =>
         /\ Fits(Mark(z), S, n)
         /\ Fits(Mark(y), {Mark(z)} \cup S, n + 1)
         /\ Fits(Mark(x), {Mark(y), Mark(z)} \cup S, n + 2)
    BY <2>1, <2>3
  <2>5. x \in Item /\ y \in Item /\ z \in Item
    BY <2>1
  <2>6. StackOK(todo)' /\ Becomes(Mark(h), {Mark(x), Mark(y), Mark(z)})
    BY ONLY <2>2, <2>4, <2>5, DoThree
  <2>. QED  BY <2>1, <2>6
<1>2. PICK S : /\ \E n : Fits("stopModel", S, n)
               /\ Marks(todo) = {"stopModel"} \cup S
               /\ Marks(todo)' = {"terminateModel", "reportUser", "closeModel"} \cup S
  BY <1>1 DEF Becomes
<1>3. (Registered' <=> Registered) /\ (IsStudio' <=> IsStudio)
  BY SameThreads DEF StopModel
<1> USE <1>2, <1>3 DEF IInv, MInv, StopModel, serviceVars, fileVars, studioVars, history
<1>4. Values'
  BY DEF Values, ExitCodes
<1> USE DEF Fits, Some, Between, Ends, ByItself, ByUser, NotBuilt, Opening, Waits, UserStops, Files
<1>5. RunInv(Marks(todo))'
  BY DEF RunInv, NoRun
<1>6. EndInv(Marks(todo))'
  BY DEF EndInv, Gone, Owing, RunInv, NoRun
<1>7. CodeInv(Marks(todo))'
  BY DEF CodeInv, Reports
<1>8. StudioInv(Marks(todo))'
  BY DEF StudioInv
<1>9. ConsoleInv(Marks(todo))'
  BY DEF ConsoleInv, Closing
<1>. QED  BY <1>1, <1>4, <1>5, <1>6, <1>7, <1>8, <1>9

LEMMA TerminatedKeeps ==
  ASSUME IInv, Terminated
  PROVE  IInv'
<1>1. StackOK(todo)' /\ Becomes("terminated", {})
  <2> DEFINE h == Call("terminated", "simulator")
  <2>1. Mark(h) = "terminated"
    BY MarkOf DEF CallMark
  <2>2. StackOK(todo) /\ Head1(h) /\ Do(<<>>)
    BY DEF IInv, Terminated
  <2> HIDE DEF h
  <2>. QED  BY <2>1, <2>2, DoNone
<1>2. PICK S : /\ \E n : Fits("terminated", S, n)
               /\ Marks(todo) = {"terminated"} \cup S
               /\ Marks(todo)' = S
  BY <1>1 DEF Becomes
<1>3. (Registered' <=> Registered) /\ (IsStudio' <=> IsStudio)
  BY SameThreads DEF Terminated
<1> USE <1>2, <1>3 DEF IInv, MInv, Terminated, serviceVars, fileVars, studioVars, history
<1>4. Values'
  <2>1. runThread' \in BOOLEAN /\ listens' \in BOOLEAN
    BY DEF Values
  <2>. QED  BY <2>1 DEF Values
<1> USE DEF Fits, Some, Between, Ends, ByItself, ByUser, NotBuilt, Opening, Waits, UserStops, Files
<1>5. RunInv(Marks(todo))'
  BY DEF RunInv, NoRun, EndInv, Gone, Owing
<1>6. EndInv(Marks(todo))'
  BY DEF EndInv, Gone, Owing
<1>7. CodeInv(Marks(todo))'
  BY DEF CodeInv, Reports
<1>8. StudioInv(Marks(todo))'
  BY DEF StudioInv
<1>9. ConsoleInv(Marks(todo))'
  BY DEF ConsoleInv, Closing
<1>. QED  BY <1>1, <1>4, <1>5, <1>6, <1>7, <1>8, <1>9

LEMMA ForgetThreadKeeps ==
  ASSUME IInv, ForgetThread
  PROVE  IInv'
<1>1. StackOK(todo)' /\ Becomes("forgetThread", {})
  <2> DEFINE h == Call("forgetThread", "simulator")
  <2>1. Mark(h) = "forgetThread"
    BY MarkOf DEF CallMark
  <2>2. StackOK(todo) /\ Head1(h) /\ Do(<<>>)
    BY DEF IInv, ForgetThread
  <2> HIDE DEF h
  <2>. QED  BY <2>1, <2>2, DoNone
<1>2. PICK S : /\ \E n : Fits("forgetThread", S, n)
               /\ Marks(todo) = {"forgetThread"} \cup S
               /\ Marks(todo)' = S
  BY <1>1 DEF Becomes
<1>3. (Registered' <=> Registered) /\ (IsStudio' <=> IsStudio)
  BY SameThreads DEF ForgetThread
<1> USE <1>2, <1>3 DEF IInv, MInv, ForgetThread, serviceVars, fileVars, studioVars, history
<1>4. Values'
  <2>1. runThread' \in BOOLEAN
    BY DEF Values
  <2>. QED  BY <2>1 DEF Values
<1> USE DEF Fits, Some, Between, Ends, ByItself, ByUser, NotBuilt, Opening, Waits, UserStops, Files
<1>5. RunInv(Marks(todo))'
  BY DEF RunInv, NoRun, EndInv, Gone, Owing
<1>6. EndInv(Marks(todo))'
  BY DEF EndInv, Gone, Owing
<1>7. CodeInv(Marks(todo))'
  BY DEF CodeInv, Reports
<1>8. StudioInv(Marks(todo))'
  BY DEF StudioInv
<1>9. ConsoleInv(Marks(todo))'
  BY DEF ConsoleInv, Closing
<1>. QED  BY <1>1, <1>4, <1>5, <1>6, <1>7, <1>8, <1>9

LEMMA CloseModelKeeps ==
  ASSUME IInv, CloseModel
  PROVE  IInv'
<1>1. StackOK(todo)' /\ Becomes("closeModel", {})
  <2> DEFINE h == Call("closeModel", "simulator")
  <2>1. Mark(h) = "closeModel"
    BY MarkOf DEF CallMark
  <2>2. StackOK(todo) /\ Head1(h) /\ Do(<<>>)
    BY DEF IInv, CloseModel
  <2> HIDE DEF h
  <2>. QED  BY <2>1, <2>2, DoNone
<1>2. PICK S : /\ \E n : Fits("closeModel", S, n)
               /\ Marks(todo) = {"closeModel"} \cup S
               /\ Marks(todo)' = S
  BY <1>1 DEF Becomes
<1>3. (Registered' <=> Registered) /\ (IsStudio' <=> IsStudio)
  BY SameThreads DEF CloseModel
<1> USE <1>2, <1>3 DEF IInv, MInv, CloseModel, serviceVars, fileVars, studioVars, history
<1>4. Values'
  <2>1. loaded' \in BOOLEAN
    BY DEF Values, ExitCodes
  <2>. QED  BY <2>1 DEF Values, ExitCodes
<1> USE DEF Fits, Some, Between, Ends, ByItself, ByUser, NotBuilt, Opening, Waits, UserStops, Files
<1>5. RunInv(Marks(todo))'
  BY DEF RunInv, NoRun, EndInv, Gone, Owing
<1>6. EndInv(Marks(todo))'
  BY DEF EndInv, Gone, Owing
<1>7. CodeInv(Marks(todo))'
  BY DEF CodeInv, Reports
<1>8. StudioInv(Marks(todo))'
  BY DEF StudioInv
<1>9. ConsoleInv(Marks(todo))'
  BY DEF ConsoleInv, Closing
<1>. QED  BY <1>1, <1>4, <1>5, <1>6, <1>7, <1>8, <1>9

-----------------------------------------------------------------------------
(***************************************************************************)
(* The repository and the tracer.                                          *)
(***************************************************************************)

LEMMA RealCloseModelKeeps ==
  ASSUME IInv, RealCloseModel
  PROVE  IInv'
<1>1. StackOK(todo)' /\ Becomes("realCloseModel", {"FILES"})
  <2> DEFINE h == Call("realCloseModel", "repository")
             x == Cast("FILES_CLOSE", "repository")
  <2>1. Mark(h) = "realCloseModel" /\ x \in Item /\ Mark(x) = "FILES"
    BY MarkOf, Items DEF CallMark, CastMark, Reports, RepTells, Asks, RunTells, SimTells
  <2>2. StackOK(todo) /\ Head1(h) /\ Do(<<x>>)
    BY DEF IInv, RealCloseModel
  <2> HIDE DEF h, x
  <2>3. \A S : \A n \in Nat : Fits("realCloseModel", S, n) => Fits("FILES", S, n)
    BY DEF Fits, Between, Ends, ByItself, ByUser, NotBuilt, Opening, Waits, UserStops, Closing,
         Files
  <2>. QED  BY <2>1, <2>2, <2>3, DoOne
<1>2. PICK S : /\ \E n : Fits("realCloseModel", S, n)
               /\ Marks(todo) = {"realCloseModel"} \cup S
               /\ Marks(todo)' = {"FILES"} \cup S
  BY <1>1 DEF Becomes
<1>3. (Registered' <=> Registered) /\ (IsStudio' <=> IsStudio)
  BY SameThreads DEF RealCloseModel
<1> USE <1>2, <1>3 DEF IInv, MInv, RealCloseModel, serviceVars, fileVars, studioVars, history
<1>4. Values'
  BY DEF Values
<1> USE DEF Fits, Some, Between, Ends, ByItself, ByUser, NotBuilt, Opening, Waits, UserStops, Files
<1>5. RunInv(Marks(todo))'
  BY DEF RunInv, NoRun
<1>6. EndInv(Marks(todo))'
  BY DEF EndInv, Gone, Owing
<1>7. CodeInv(Marks(todo))'
  BY DEF CodeInv, Reports
<1>8. StudioInv(Marks(todo))'
  BY DEF StudioInv
<1>9. ConsoleInv(Marks(todo))'
  BY DEF ConsoleInv, Closing
<1>. QED  BY <1>1, <1>4, <1>5, <1>6, <1>7, <1>8, <1>9

LEMMA NewFilesKeeps ==
  ASSUME IInv, NewFiles
  PROVE  IInv'
<1>1. StackOK(todo)' /\ Becomes("openFiles", {"FILES"})
  <2> DEFINE h == Call("MODEL_NEW", "repository")
             x == Cast("FILES_OPEN", "repository")
  <2>1. Mark(h) = "openFiles" /\ x \in Item /\ Mark(x) = "FILES"
    BY MarkOf, Items DEF CallMark, CastMark, Reports, RepTells, Asks, RunTells, SimTells
  <2>2. StackOK(todo) /\ Head1(h) /\ Do(<<x>>)
    BY DEF IInv, NewFiles
  <2> HIDE DEF h, x
  <2>3. \A S : \A n \in Nat : Fits("openFiles", S, n) => Fits("FILES", S, n)
    BY DEF Fits, Between, Ends, ByItself, ByUser, NotBuilt, Opening, Waits, UserStops, Closing,
         Files
  <2>. QED  BY <2>1, <2>2, <2>3, DoOne
<1>2. PICK S : /\ \E n : Fits("openFiles", S, n)
               /\ Marks(todo) = {"openFiles"} \cup S
               /\ Marks(todo)' = {"FILES"} \cup S
  BY <1>1 DEF Becomes
<1>3. (Registered' <=> Registered) /\ (IsStudio' <=> IsStudio)
  BY SameThreads DEF NewFiles
<1> USE <1>2, <1>3 DEF IInv, MInv, NewFiles, serviceVars, fileVars, studioVars, history
<1>4. Values'
  BY DEF Values
<1> USE DEF Fits, Some, Between, Ends, ByItself, ByUser, NotBuilt, Opening, Waits, UserStops, Files
<1>5. RunInv(Marks(todo))'
  BY DEF RunInv, NoRun
<1>6. EndInv(Marks(todo))'
  BY DEF EndInv, Gone, Owing
<1>7. CodeInv(Marks(todo))'
  BY DEF CodeInv, Reports
<1>8. StudioInv(Marks(todo))'
  BY DEF StudioInv
<1>9. ConsoleInv(Marks(todo))'
  BY DEF ConsoleInv, Closing
<1>. QED  BY <1>1, <1>4, <1>5, <1>6, <1>7, <1>8, <1>9

\* What opens a model and what asks the user meanwhile take each other's place.
LEMMA SwapMarks ==
  ASSUME NEW k \in {"openFiles", "asking", "dialog"}, NEW l \in {"openFiles", "asking"}, NEW S,
         MInv({k} \cup S), l = "asking" => IsStudio
  PROVE  MInv({l} \cup S) /\ MInv(S)
<1> USE DEF MInv, Some
<1>1. RunInv({l} \cup S) /\ RunInv(S)
  BY DEF RunInv, NoRun
<1>2. EndInv({l} \cup S) /\ EndInv(S)
  BY DEF EndInv, Gone, Owing
<1>3. CodeInv({l} \cup S) /\ CodeInv(S)
  BY DEF CodeInv, Reports
<1>4. StudioInv({l} \cup S) /\ StudioInv(S)
  BY DEF StudioInv
<1>5. ConsoleInv({l} \cup S) /\ ConsoleInv(S)
  BY DEF ConsoleInv, Closing
<1>. QED  BY <1>1, <1>2, <1>3, <1>4, <1>5

LEMMA OpeningKeeps ==
  ASSUME IInv, UNCHANGED <<threads, serviceVars, fileVars, studioVars, console, history>>,
         NEW h, Head1(h), Mark(h) \in {"openFiles", "asking"}, NEW x \in Item, Do(<<x>>),
         Mark(x) \in {"openFiles", "asking"}, Mark(x) = "asking" => IsStudio
  PROVE  IInv'
<1>1. StackOK(todo)
  BY DEF IInv
<1>2. \A S : \A n \in Nat : Fits(Mark(h), S, n) => Fits(Mark(x), S, n)
  BY DEF Fits, Between, Ends, ByItself, ByUser, NotBuilt, Opening, Waits, UserStops, Closing,
       Files
<1>3. StackOK(todo)' /\ Becomes(Mark(h), {Mark(x)})
  BY <1>1, <1>2, DoOne
<1>4. MInv(Marks(todo)')
  BY <1>3, SwapMarks DEF Becomes, IInv
<1>. QED  BY <1>3, <1>4, OnlyTodo

LEMMA AskedKeeps ==
  ASSUME IInv, UNCHANGED <<threads, serviceVars, fileVars, studioVars, console, history>>,
         NEW h, Head1(h), Mark(h) \in {"openFiles", "asking", "dialog"}, Do(<<>>)
  PROVE  IInv'
<1>1. StackOK(todo)' /\ Becomes(Mark(h), {})
  BY DoNone DEF IInv
<1>2. PICK S : Marks(todo) = {Mark(h)} \cup S /\ Marks(todo)' = S
  BY <1>1 DEF Becomes
<1>3. MInv({Mark(h)} \cup S)
  BY <1>2 DEF IInv
<1>4. MInv(S)
  BY <1>3, SwapMarks
<1>. QED  BY <1>1, <1>2, <1>4, OnlyTodo

LEMMA OpenModelKeeps ==
  ASSUME IInv, OpenModel
  PROVE  IInv'
<1> DEFINE h == Call("MODEL_OPEN", "repository")
           x == Call("openFiles", "repository")
           y == Call("fileName", "studio")
<1>1. /\ Mark(h) = "openFiles" /\ x \in Item /\ Mark(x) = "openFiles"
      /\ y \in Item /\ Mark(y) = "asking"
  BY MarkOf, Items DEF CallMark, Calls, Threads
<1>2. /\ Head1(h)
      /\ Do(<<x>>) \/ (IsStudio /\ Do(<<y>>))
      /\ UNCHANGED <<threads, serviceVars, fileVars, studioVars, console, history>>
  BY DEF OpenModel
<1> HIDE DEF h, x, y
<1>. QED  BY <1>1, <1>2, OpeningKeeps

LEMMA FileNameKeeps ==
  ASSUME IInv, FileName
  PROVE  IInv'
<1> DEFINE h == Call("fileName", "studio")
           x == Call("openFiles", "repository")
<1>1. Mark(h) = "asking" /\ x \in Item /\ Mark(x) = "openFiles"
  BY MarkOf, Items DEF CallMark, Calls, Threads
<1>2. /\ Head1(h)
      /\ Do(<<x>>) \/ Do(<<>>)
      /\ UNCHANGED <<threads, serviceVars, fileVars, studioVars, console, history>>
  BY DEF FileName
<1> HIDE DEF h, x
<1>. QED  BY <1>1, <1>2, OpeningKeeps, AskedKeeps

LEMMA CloseBoxKeeps ==
  ASSUME IInv, CloseBox
  PROVE  IInv'
<1> DEFINE g == Call("warning", "studio")
           h == Call("openError", "studio")
<1>1. Mark(g) = "dialog" /\ Mark(h) = "asking"
  BY MarkOf DEF CallMark
<1>2. /\ Head1(g) \/ Head1(h)
      /\ Do(<<>>)
      /\ UNCHANGED <<threads, serviceVars, fileVars, studioVars, console, history>>
  BY DEF CloseBox
<1> HIDE DEF g, h
<1>. QED  BY <1>1, <1>2, AskedKeeps

LEMMA OpenFilesKeeps ==
  ASSUME IInv, OpenFiles
  PROVE  IInv'
<1>1. CASE files' = "described" /\ Do(<<Cast("FILES_OPEN", "repository")>>)
  <2>1. StackOK(todo)' /\ Becomes("openFiles", {"FILES"})
    <3> DEFINE h == Call("openFiles", "repository")
               x == Cast("FILES_OPEN", "repository")
    <3>1. Mark(h) = "openFiles" /\ x \in Item /\ Mark(x) = "FILES"
      BY MarkOf, Items DEF CallMark, CastMark, Reports, RepTells, Asks, RunTells, SimTells
    <3>2. StackOK(todo) /\ Head1(h) /\ Do(<<x>>)
      BY <1>1 DEF IInv, OpenFiles
    <3> HIDE DEF h, x
    <3>3. \A S : \A n \in Nat : Fits("openFiles", S, n) => Fits("FILES", S, n)
      BY DEF Fits, Between, Ends, ByItself, ByUser, NotBuilt, Opening, Waits, UserStops, Closing,
           Files
    <3>. QED  BY <3>1, <3>2, <3>3, DoOne
  <2>2. PICK S : /\ \E n : Fits("openFiles", S, n)
                 /\ Marks(todo) = {"openFiles"} \cup S
                 /\ Marks(todo)' = {"FILES"} \cup S
    BY <2>1 DEF Becomes
  <2>3. (Registered' <=> Registered) /\ (IsStudio' <=> IsStudio)
    BY SameThreads DEF OpenFiles
  <2> USE <1>1, <2>2, <2>3 DEF IInv, MInv, OpenFiles, serviceVars, fileVars, studioVars, history
  <2>4. Values'
    BY DEF Values
  <2> USE DEF Fits, Some, Between, Ends, ByItself, ByUser, NotBuilt, Opening, Waits, UserStops,
       Files
  <2>5. RunInv(Marks(todo))'
    BY DEF RunInv, NoRun
  <2>6. EndInv(Marks(todo))'
    BY DEF EndInv, Gone, Owing
  <2>7. CodeInv(Marks(todo))'
    BY DEF CodeInv, Reports
  <2>8. StudioInv(Marks(todo))'
    BY DEF StudioInv
  <2>9. ConsoleInv(Marks(todo))'
    BY DEF ConsoleInv, Closing
  <2>. QED  BY <2>1, <2>4, <2>5, <2>6, <2>7, <2>8, <2>9
<1>2. CASE (files' = "new" \/ UNCHANGED files) /\ Do(<<>>)
  <2>1. StackOK(todo)' /\ Becomes("openFiles", {})
    <3> DEFINE h == Call("openFiles", "repository")
    <3>1. Mark(h) = "openFiles"
      BY MarkOf DEF CallMark
    <3>2. StackOK(todo) /\ Head1(h) /\ Do(<<>>)
      BY <1>2 DEF IInv, OpenFiles
    <3> HIDE DEF h
    <3>. QED  BY <3>1, <3>2, DoNone
  <2>2. PICK S : /\ \E n : Fits("openFiles", S, n)
                 /\ Marks(todo) = {"openFiles"} \cup S
                 /\ Marks(todo)' = S
    BY <2>1 DEF Becomes
  <2>3. (Registered' <=> Registered) /\ (IsStudio' <=> IsStudio)
    BY SameThreads DEF OpenFiles
  <2> USE <1>2, <2>2, <2>3 DEF IInv, MInv, OpenFiles, serviceVars, fileVars, studioVars, history
  <2>4. Values'
    BY DEF Values
  <2> USE DEF Fits, Some, Between, Ends, ByItself, ByUser, NotBuilt, Opening, Waits, UserStops,
       Files
  <2>5. RunInv(Marks(todo))'
    BY DEF RunInv, NoRun
  <2>6. EndInv(Marks(todo))'
    BY DEF EndInv, Gone, Owing
  <2>7. CodeInv(Marks(todo))'
    BY DEF CodeInv, Reports
  <2>8. StudioInv(Marks(todo))'
    BY DEF StudioInv
  <2>9. ConsoleInv(Marks(todo))'
    BY DEF ConsoleInv, Closing
  <2>. QED  BY <2>1, <2>4, <2>5, <2>6, <2>7, <2>8, <2>9
<1>3. CASE UNCHANGED files /\ IsStudio /\ Do(<<Call("openError", "studio")>>)
  <2> DEFINE h == Call("openFiles", "repository")
             x == Call("openError", "studio")
  <2>1. Mark(h) = "openFiles" /\ x \in Item /\ Mark(x) = "asking"
    BY MarkOf, Items DEF CallMark, Calls, Threads
  <2>2. Head1(h) /\ Do(<<x>>)
    BY <1>3 DEF OpenFiles
  <2>3. UNCHANGED <<threads, serviceVars, fileVars, studioVars, console, history>>
    BY <1>3 DEF OpenFiles, fileVars
  <2> HIDE DEF h, x
  <2>. QED  BY <1>3, <2>1, <2>2, <2>3, OpeningKeeps
<1>. QED  BY <1>1, <1>2, <1>3 DEF OpenFiles

LEMMA FilesMessageKeeps ==
  ASSUME IInv, NEW m \in {"MODEL_NEW", "MODEL_OPEN", "MODEL_CLOSE"}, FilesMessage(m)
  PROVE  IInv'
<1>1. CASE m \in {"MODEL_NEW", "MODEL_OPEN"} /\ files # "none"
  <2>1. StackOK(todo)' /\ Becomes("hearOpen", {"realCloseModel", "openFiles"})
    <3> DEFINE h == Hear(m, "repository")
               x == Call("realCloseModel", "repository")
               y == Call(m, "repository")
    <3>1. Mark(h) = "hearOpen" /\ x \in Item /\ Mark(x) = "realCloseModel" /\ y \in Item
          /\ Mark(y) = "openFiles"
      BY <1>1, MarkOf, Items DEF HearMark, Reports, RepTells, CallMark, Calls, Threads, Closings
    <3>2. StackOK(todo) /\ Head1(h) /\ Do(<<x, y>>)
      <4>1. StackOK(todo) /\ Head1(h) /\ Do(<<x>> \o <<y>>)
        BY <1>1 DEF IInv, FilesMessage, RealClose
      <4>. QED  BY <4>1, Pair, Zenon
    <3> HIDE DEF h, x, y
    <3>3. \A S : \A n \in Nat : Fits("hearOpen", S, n) =>
           /\ Fits("openFiles", S, n)
           /\ Fits("realCloseModel", {"openFiles"} \cup S, n + 1)
      BY DEF Fits, Between, Ends, ByItself, ByUser, NotBuilt, Opening, Waits, UserStops, Closing,
           Files
    <3>. QED  BY <3>1, <3>2, <3>3, DoTwo
  <2>2. PICK S : /\ \E n : Fits("hearOpen", S, n)
                 /\ Marks(todo) = {"hearOpen"} \cup S
                 /\ Marks(todo)' = {"realCloseModel", "openFiles"} \cup S
    BY <2>1 DEF Becomes
  <2> USE <2>2 DEF IInv, MInv, Fits, Some, Between, Ends, ByItself, ByUser, NotBuilt, Opening,
       Waits, UserStops, Files
  <2>3. RunInv({"realCloseModel", "openFiles"} \cup S)
    BY DEF RunInv, NoRun
  <2>4. EndInv({"realCloseModel", "openFiles"} \cup S)
    BY DEF EndInv, Gone, Owing
  <2>5. CodeInv({"realCloseModel", "openFiles"} \cup S)
    BY DEF CodeInv, Reports
  <2>6. StudioInv({"realCloseModel", "openFiles"} \cup S)
    BY DEF StudioInv
  <2>7. ConsoleInv({"realCloseModel", "openFiles"} \cup S)
    BY DEF ConsoleInv, Closing
  <2>. QED  BY <1>1, <2>1, <2>2, <2>3, <2>4, <2>5, <2>6, <2>7, OnlyTodo DEF FilesMessage
<1>2. CASE m \in {"MODEL_NEW", "MODEL_OPEN"} /\ files = "none"
  <2>1. StackOK(todo)' /\ Becomes("hearOpen", {"openFiles"})
    <3> DEFINE h == Hear(m, "repository")
               x == Call(m, "repository")
    <3>1. Mark(h) = "hearOpen" /\ x \in Item /\ Mark(x) = "openFiles"
      BY <1>2, MarkOf, Items DEF HearMark, Reports, RepTells, CallMark, Calls, Threads, Closings
    <3>2. StackOK(todo) /\ Head1(h) /\ Do(<<x>>)
      BY <1>2 DEF IInv, FilesMessage, RealClose
    <3> HIDE DEF h, x
    <3>3. \A S : \A n \in Nat : Fits("hearOpen", S, n) => Fits("openFiles", S, n)
      BY DEF Fits, Between, Ends, ByItself, ByUser, NotBuilt, Opening, Waits, UserStops, Closing,
           Files
    <3>. QED  BY <3>1, <3>2, <3>3, DoOne
  <2>2. PICK S : /\ \E n : Fits("hearOpen", S, n)
                 /\ Marks(todo) = {"hearOpen"} \cup S
                 /\ Marks(todo)' = {"openFiles"} \cup S
    BY <2>1 DEF Becomes
  <2> USE <2>2 DEF IInv, MInv, Fits, Some, Between, Ends, ByItself, ByUser, NotBuilt, Opening,
       Waits, UserStops, Files
  <2>3. RunInv({"openFiles"} \cup S)
    BY DEF RunInv, NoRun
  <2>4. EndInv({"openFiles"} \cup S)
    BY DEF EndInv, Gone, Owing
  <2>5. CodeInv({"openFiles"} \cup S)
    BY DEF CodeInv, Reports
  <2>6. StudioInv({"openFiles"} \cup S)
    BY DEF StudioInv
  <2>7. ConsoleInv({"openFiles"} \cup S)
    BY DEF ConsoleInv, Closing
  <2>. QED  BY <1>2, <2>1, <2>2, <2>3, <2>4, <2>5, <2>6, <2>7, OnlyTodo DEF FilesMessage
<1>3. CASE m = "MODEL_CLOSE" /\ files # "none"
  <2>1. StackOK(todo)' /\ Becomes("hearClose", {"realCloseModel"})
    <3> DEFINE h == Hear("MODEL_CLOSE", "repository")
               x == Call("realCloseModel", "repository")
    <3>1. Mark(h) = "hearClose" /\ x \in Item /\ Mark(x) = "realCloseModel"
      BY MarkOf, Items DEF HearMark, Reports, RepTells, CallMark, Calls, Threads, Closings
    <3>2. StackOK(todo) /\ Head1(h) /\ Do(<<x>>)
      BY <1>3 DEF IInv, FilesMessage, RealClose
    <3> HIDE DEF h, x
    <3>3. \A S : \A n \in Nat : Fits("hearClose", S, n) => Fits("realCloseModel", S, n)
      BY DEF Fits, Between, Ends, ByItself, ByUser, NotBuilt, Opening, Waits, UserStops, Closing,
           Files
    <3>. QED  BY <3>1, <3>2, <3>3, DoOne
  <2>2. PICK S : /\ \E n : Fits("hearClose", S, n)
                 /\ Marks(todo) = {"hearClose"} \cup S
                 /\ Marks(todo)' = {"realCloseModel"} \cup S
    BY <2>1 DEF Becomes
  <2> USE <2>2 DEF IInv, MInv, Fits, Some, Between, Ends, ByItself, ByUser, NotBuilt, Opening,
       Waits, UserStops, Files
  <2>3. RunInv({"realCloseModel"} \cup S)
    BY DEF RunInv, NoRun
  <2>4. EndInv({"realCloseModel"} \cup S)
    BY DEF EndInv, Gone, Owing
  <2>5. CodeInv({"realCloseModel"} \cup S)
    BY DEF CodeInv, Reports
  <2>6. StudioInv({"realCloseModel"} \cup S)
    BY DEF StudioInv
  <2>7. ConsoleInv({"realCloseModel"} \cup S)
    BY DEF ConsoleInv, Closing
  <2>. QED  BY <1>3, <2>1, <2>2, <2>3, <2>4, <2>5, <2>6, <2>7, OnlyTodo DEF FilesMessage
<1>4. CASE m = "MODEL_CLOSE" /\ files = "none"
  <2>1. StackOK(todo)' /\ Becomes("hearClose", {})
    <3> DEFINE h == Hear("MODEL_CLOSE", "repository")
    <3>1. Mark(h) = "hearClose"
      BY MarkOf DEF HearMark, Reports, RepTells
    <3>2. StackOK(todo) /\ Head1(h) /\ Do(<<>>)
      BY <1>4 DEF IInv, FilesMessage, RealClose
    <3> HIDE DEF h
    <3>. QED  BY <3>1, <3>2, DoNone
  <2>2. PICK S : /\ \E n : Fits("hearClose", S, n)
                 /\ Marks(todo) = {"hearClose"} \cup S
                 /\ Marks(todo)' = S
    BY <2>1 DEF Becomes
  <2> USE <2>2 DEF IInv, MInv, Fits, Some, Between, Ends, ByItself, ByUser, NotBuilt, Opening,
       Waits, UserStops, Files
  <2>3. RunInv(S)
    BY DEF RunInv, NoRun
  <2>4. EndInv(S)
    BY DEF EndInv, Gone, Owing
  <2>5. CodeInv(S)
    BY DEF CodeInv, Reports
  <2>6. StudioInv(S)
    BY DEF StudioInv
  <2>7. ConsoleInv(S)
    BY DEF ConsoleInv, Closing
  <2>. QED  BY <1>4, <2>1, <2>2, <2>3, <2>4, <2>5, <2>6, <2>7, OnlyTodo DEF FilesMessage
<1>. QED  BY <1>1, <1>2, <1>3, <1>4 DEF FilesMessage

LEMMA BeforeModelStartKeeps ==
  ASSUME IInv, BeforeModelStart
  PROVE  IInv'
<1>1. StackOK(todo)' /\ Becomes("startBefore", {})
  <2> DEFINE h == Hear("START_BEFORE", "repository")
  <2>1. Mark(h) = "startBefore"
    BY MarkOf DEF HearMark, Reports, RepTells
  <2>2. StackOK(todo) /\ Head1(h) /\ Do(<<>>)
    BY DEF IInv, BeforeModelStart
  <2> HIDE DEF h
  <2>. QED  BY <2>1, <2>2, DoNone
<1>2. PICK S : /\ \E n : Fits("startBefore", S, n)
               /\ Marks(todo) = {"startBefore"} \cup S
               /\ Marks(todo)' = S
  BY <1>1 DEF Becomes
<1>3. (Registered' <=> Registered) /\ (IsStudio' <=> IsStudio)
  BY SameThreads DEF BeforeModelStart
<1> USE <1>2, <1>3 DEF IInv, MInv, BeforeModelStart, serviceVars, fileVars, studioVars, history
<1>4. Values'
  <2>1. traceFile' \in BOOLEAN
    BY DEF Values
  <2>. QED  BY <2>1 DEF Values
<1> USE DEF Fits, Some, Between, Ends, ByItself, ByUser, NotBuilt, Opening, Waits, UserStops, Files
<1>5. RunInv(Marks(todo))'
  BY DEF RunInv, NoRun
<1>6. EndInv(Marks(todo))'
  BY DEF EndInv, Gone, Owing
<1>7. CodeInv(Marks(todo))'
  BY DEF CodeInv, Reports, RunInv
<1>8. StudioInv(Marks(todo))'
  BY DEF StudioInv
<1>9. ConsoleInv(Marks(todo))'
  BY DEF ConsoleInv, Closing
<1>. QED  BY <1>1, <1>4, <1>5, <1>6, <1>7, <1>8, <1>9

LEMMA FilesStopModelKeeps ==
  ASSUME IInv, NEW v \in Reports, FilesStopModel(v)
  PROVE  IInv'
<1>1. StackOK(todo)' /\ Becomes("filesStop", {})
  <2> DEFINE h == Hear(v, "repository")
  <2>1. Mark(h) = "filesStop"
    BY MarkOf DEF HearMark, Reports, RepTells
  <2>2. StackOK(todo) /\ Head1(h) /\ Do(<<>>)
    BY DEF IInv, FilesStopModel
  <2> HIDE DEF h
  <2>. QED  BY <2>1, <2>2, DoNone
<1>2. PICK S : /\ \E n : Fits("filesStop", S, n)
               /\ Marks(todo) = {"filesStop"} \cup S
               /\ Marks(todo)' = S
  BY <1>1 DEF Becomes
<1>3. (Registered' <=> Registered) /\ (IsStudio' <=> IsStudio)
  BY SameThreads DEF FilesStopModel
<1> USE <1>2, <1>3 DEF IInv, MInv, FilesStopModel, serviceVars, fileVars, studioVars, history
<1>4. Values'
  <2>1. traceFile' \in BOOLEAN
    BY DEF Values
  <2>. QED  BY <2>1 DEF Values
<1> USE DEF Fits, Some, Between, Ends, ByItself, ByUser, NotBuilt, Opening, Waits, UserStops, Files
<1>5. RunInv(Marks(todo))'
  BY DEF RunInv, NoRun
<1>6. EndInv(Marks(todo))'
  BY DEF EndInv, Gone, Owing
<1>7. CodeInv(Marks(todo))'
  BY DEF CodeInv, Reports
<1>8. StudioInv(Marks(todo))'
  BY DEF StudioInv
<1>9. ConsoleInv(Marks(todo))'
  BY DEF ConsoleInv, Closing
<1>. QED  BY <1>1, <1>4, <1>5, <1>6, <1>7, <1>8, <1>9

LEMMA TracerAsksKeeps ==
  ASSUME IInv, TracerAsks
  PROVE  IInv'
<1>1. CASE Head1(Hear("START_BEFORE", "tracer"))
  <2>1. StackOK(todo)' /\ Becomes("startBefore", {})
    <3> DEFINE h == Hear("START_BEFORE", "tracer")
    <3>1. Mark(h) = "startBefore"
      BY MarkOf DEF HearMark, Reports, RepTells
    <3>2. StackOK(todo) /\ Head1(h) /\ Do(<<>>)
      BY <1>1 DEF IInv, TracerAsks
    <3> HIDE DEF h
    <3>. QED  BY <3>1, <3>2, DoNone
  <2>2. PICK S : /\ \E n : Fits("startBefore", S, n)
                 /\ Marks(todo) = {"startBefore"} \cup S
                 /\ Marks(todo)' = S
    BY <2>1 DEF Becomes
  <2> USE <2>2 DEF IInv, MInv, Fits, Some, Between, Ends, ByItself, ByUser, NotBuilt, Opening,
       Waits, UserStops, Files
  <2>3. RunInv(S)
    BY DEF RunInv, NoRun
  <2>4. EndInv(S)
    BY DEF EndInv, Gone, Owing
  <2>5. CodeInv(S)
    BY DEF CodeInv, Reports
  <2>6. StudioInv(S)
    BY DEF StudioInv
  <2>7. ConsoleInv(S)
    BY DEF ConsoleInv, Closing
  <2>. QED  BY <1>1, <2>1, <2>2, <2>3, <2>4, <2>5, <2>6, <2>7, OnlyTodo DEF TracerAsks
<1>2. CASE Head1(Hear("START_AFTER", "tracer"))
  <2>1. StackOK(todo)' /\ Becomes("startAfter", {})
    <3> DEFINE h == Hear("START_AFTER", "tracer")
    <3>1. Mark(h) = "startAfter"
      BY MarkOf DEF HearMark, Reports, RepTells
    <3>2. StackOK(todo) /\ Head1(h) /\ Do(<<>>)
      BY <1>2 DEF IInv, TracerAsks
    <3> HIDE DEF h
    <3>. QED  BY <3>1, <3>2, DoNone
  <2>2. PICK S : /\ \E n : Fits("startAfter", S, n)
                 /\ Marks(todo) = {"startAfter"} \cup S
                 /\ Marks(todo)' = S
    BY <2>1 DEF Becomes
  <2> USE <2>2 DEF IInv, MInv, Fits, Some, Between, Ends, ByItself, ByUser, NotBuilt, Opening,
       Waits, UserStops, Files
  <2>3. RunInv(S)
    BY DEF RunInv, NoRun
  <2>4. EndInv(S)
    BY DEF EndInv, Gone, Owing
  <2>5. CodeInv(S)
    BY DEF CodeInv, Reports
  <2>6. StudioInv(S)
    BY DEF StudioInv
  <2>7. ConsoleInv(S)
    BY DEF ConsoleInv, Closing
  <2>. QED  BY <1>2, <2>1, <2>2, <2>3, <2>4, <2>5, <2>6, <2>7, OnlyTodo DEF TracerAsks
<1>. QED  BY <1>1, <1>2 DEF TracerAsks

-----------------------------------------------------------------------------
(***************************************************************************)
(* The studio hears.                                                       *)
(***************************************************************************)

LEMMA StudioFilesKeeps ==
  ASSUME IInv, NEW m \in {"FILES_OPEN", "FILES_CLOSE"}, StudioFiles(m)
  PROVE  IInv'
<1>1. CASE m = "FILES_OPEN"
  <2>1. StackOK(todo)' /\ Becomes("filesHeard", {})
    <3> DEFINE h == Hear("FILES_OPEN", "studio")
    <3>1. Mark(h) = "filesHeard"
      BY MarkOf DEF HearMark, Reports, RepTells
    <3>2. StackOK(todo) /\ Head1(h) /\ Do(<<>>)
      BY <1>1 DEF IInv, StudioFiles
    <3> HIDE DEF h
    <3>. QED  BY <3>1, <3>2, DoNone
  <2>2. PICK S : /\ \E n : Fits("filesHeard", S, n)
                 /\ Marks(todo) = {"filesHeard"} \cup S
                 /\ Marks(todo)' = S
    BY <2>1 DEF Becomes
  <2>3. (Registered' <=> Registered) /\ (IsStudio' <=> IsStudio)
    BY SameThreads DEF StudioFiles
  <2> USE <1>1, <2>2, <2>3 DEF IInv, MInv, StudioFiles, serviceVars, fileVars, studioVars, history
  <2>4. Values'
    <3>1. hasModel' \in BOOLEAN
      BY DEF Values
    <3>. QED  BY <3>1 DEF Values
  <2> USE DEF Fits, Some, Between, Ends, ByItself, ByUser, NotBuilt, Opening, Waits, UserStops,
       Files
  <2>5. RunInv(Marks(todo))'
    BY DEF RunInv, NoRun
  <2>6. EndInv(Marks(todo))'
    BY DEF EndInv, Gone, Owing
  <2>7. CodeInv(Marks(todo))'
    BY DEF CodeInv, Reports
  <2>8. StudioInv(Marks(todo))'
    BY DEF StudioInv
  <2>9. ConsoleInv(Marks(todo))'
    BY DEF ConsoleInv, Closing
  <2>. QED  BY <2>1, <2>4, <2>5, <2>6, <2>7, <2>8, <2>9
<1>2. CASE m = "FILES_CLOSE"
  <2>1. StackOK(todo)' /\ Becomes("filesHeard", {})
    <3> DEFINE h == Hear("FILES_CLOSE", "studio")
    <3>1. Mark(h) = "filesHeard"
      BY MarkOf DEF HearMark, Reports, RepTells
    <3>2. StackOK(todo) /\ Head1(h) /\ Do(<<>>)
      BY <1>2 DEF IInv, StudioFiles
    <3> HIDE DEF h
    <3>. QED  BY <3>1, <3>2, DoNone
  <2>2. PICK S : /\ \E n : Fits("filesHeard", S, n)
                 /\ Marks(todo) = {"filesHeard"} \cup S
                 /\ Marks(todo)' = S
    BY <2>1 DEF Becomes
  <2>3. (Registered' <=> Registered) /\ (IsStudio' <=> IsStudio)
    BY SameThreads DEF StudioFiles
  <2> USE <1>2, <2>2, <2>3 DEF IInv, MInv, StudioFiles, serviceVars, fileVars, studioVars, history
  <2>4. Values'
    <3>1. hasModel' \in BOOLEAN
      BY DEF Values
    <3>. QED  BY <3>1 DEF Values
  <2> USE DEF Fits, Some, Between, Ends, ByItself, ByUser, NotBuilt, Opening, Waits, UserStops,
       Files
  <2>5. RunInv(Marks(todo))'
    BY DEF RunInv, NoRun
  <2>6. EndInv(Marks(todo))'
    BY DEF EndInv, Gone, Owing
  <2>7. CodeInv(Marks(todo))'
    BY DEF CodeInv, Reports
  <2>8. StudioInv(Marks(todo))'
    BY DEF StudioInv
  <2>9. ConsoleInv(Marks(todo))'
    BY DEF ConsoleInv, Closing
  <2>. QED  BY <2>1, <2>4, <2>5, <2>6, <2>7, <2>8, <2>9
<1>. QED  BY <1>1, <1>2 DEF StudioFiles

LEMMA StudioParseOkKeeps ==
  ASSUME IInv, StudioParseOk
  PROVE  IInv'
<1>1. StackOK(todo)' /\ Becomes("parseOk", {})
  <2> DEFINE h == Hear("PARSE_OK", "studio")
  <2>1. Mark(h) = "parseOk"
    BY MarkOf DEF HearMark, Reports, RepTells
  <2>2. StackOK(todo) /\ Head1(h) /\ Do(<<>>)
    BY DEF IInv, StudioParseOk
  <2> HIDE DEF h
  <2>. QED  BY <2>1, <2>2, DoNone
<1>2. PICK S : /\ \E n : Fits("parseOk", S, n)
               /\ Marks(todo) = {"parseOk"} \cup S
               /\ Marks(todo)' = S
  BY <1>1 DEF Becomes
<1>3. (Registered' <=> Registered) /\ (IsStudio' <=> IsStudio)
  BY SameThreads DEF StudioParseOk
<1> USE <1>2, <1>3 DEF IInv, MInv, StudioParseOk, serviceVars, fileVars, studioVars, history
<1>4. Values'
  BY DEF Values
<1> USE DEF Fits, Some, Between, Ends, ByItself, ByUser, NotBuilt, Opening, Waits, UserStops, Files
<1>5. RunInv(Marks(todo))'
  BY DEF RunInv, NoRun
<1>6. EndInv(Marks(todo))'
  BY DEF EndInv, Gone, Owing
<1>7. CodeInv(Marks(todo))'
  BY DEF CodeInv, Reports
<1>8. StudioInv(Marks(todo))'
  BY DEF StudioInv, EndInv, Gone, Owing
<1>9. ConsoleInv(Marks(todo))'
  BY DEF ConsoleInv, Closing
<1>. QED  BY <1>1, <1>4, <1>5, <1>6, <1>7, <1>8, <1>9

LEMMA StudioParseErrorKeeps ==
  ASSUME IInv, StudioParseError
  PROVE  IInv'
<1>1. CASE AutoClose(exitCode) = <<Call("canClose", "exit")>>
  <2>1. StackOK(todo)' /\ Becomes("studioParseError", {"canClose"})
    <3> DEFINE h == Hear("PARSE_ERROR", "studio")
               x == Call("canClose", "exit")
    <3>1. Mark(h) = "studioParseError" /\ x \in Item /\ Mark(x) = "canClose"
      BY MarkOf, Items DEF HearMark, Reports, RepTells, CallMark, Calls, Threads, Closings
    <3>2. StackOK(todo) /\ Head1(h) /\ Do(<<x>>)
      BY <1>1 DEF IInv, StudioParseError
    <3> HIDE DEF h, x
    <3>3. \A S : \A n \in Nat : Fits("studioParseError", S, n) => Fits("canClose", S, n)
      BY DEF Fits, Between, Ends, ByItself, ByUser, NotBuilt, Opening, Waits, UserStops, Closing,
           Files
    <3>. QED  BY <3>1, <3>2, <3>3, DoOne
  <2>2. PICK S : /\ \E n : Fits("studioParseError", S, n)
                 /\ Marks(todo) = {"studioParseError"} \cup S
                 /\ Marks(todo)' = {"canClose"} \cup S
    BY <2>1 DEF Becomes
  <2>3. (Registered' <=> Registered) /\ (IsStudio' <=> IsStudio)
    BY SameThreads DEF StudioParseError
  <2> USE <1>1, <2>2, <2>3 DEF IInv, MInv, StudioParseError, serviceVars, fileVars, studioVars,
          history
  <2>4. Values'
    <3>1. isRunning' \in BOOLEAN /\ canRun' \in BOOLEAN
      BY DEF Values
    <3>. QED  BY <3>1 DEF Values
  <2> USE DEF Fits, Some, Between, Ends, ByItself, ByUser, NotBuilt, Opening, Waits, UserStops,
       Files
  <2>5. RunInv(Marks(todo))'
    BY DEF RunInv, NoRun
  <2>6. EndInv(Marks(todo))'
    BY DEF EndInv, Gone, Owing
  <2>7. CodeInv(Marks(todo))'
    BY DEF CodeInv, Reports
  <2>8. StudioInv(Marks(todo))'
    BY DEF StudioInv, RunInv, NoRun
  <2>9. ConsoleInv(Marks(todo))'
    BY DEF ConsoleInv, Closing
  <2>. QED  BY <2>1, <2>4, <2>5, <2>6, <2>7, <2>8, <2>9
<1>2. CASE AutoClose(exitCode) = <<>>
  <2>1. StackOK(todo)' /\ Becomes("studioParseError", {})
    <3> DEFINE h == Hear("PARSE_ERROR", "studio")
    <3>1. Mark(h) = "studioParseError"
      BY MarkOf DEF HearMark, Reports, RepTells
    <3>2. StackOK(todo) /\ Head1(h) /\ Do(<<>>)
      BY <1>2 DEF IInv, StudioParseError
    <3> HIDE DEF h
    <3>. QED  BY <3>1, <3>2, DoNone
  <2>2. PICK S : /\ \E n : Fits("studioParseError", S, n)
                 /\ Marks(todo) = {"studioParseError"} \cup S
                 /\ Marks(todo)' = S
    BY <2>1 DEF Becomes
  <2>3. (Registered' <=> Registered) /\ (IsStudio' <=> IsStudio)
    BY SameThreads DEF StudioParseError
  <2> USE <1>2, <2>2, <2>3 DEF IInv, MInv, StudioParseError, serviceVars, fileVars, studioVars,
          history
  <2>4. Values'
    <3>1. isRunning' \in BOOLEAN /\ canRun' \in BOOLEAN
      BY DEF Values
    <3>. QED  BY <3>1 DEF Values
  <2> USE DEF Fits, Some, Between, Ends, ByItself, ByUser, NotBuilt, Opening, Waits, UserStops,
       Files
  <2>5. RunInv(Marks(todo))'
    BY DEF RunInv, NoRun
  <2>6. EndInv(Marks(todo))'
    BY DEF EndInv, Gone, Owing
  <2>7. CodeInv(Marks(todo))'
    BY DEF CodeInv, Reports
  <2>8. StudioInv(Marks(todo))'
    BY DEF StudioInv, RunInv, NoRun
  <2>9. ConsoleInv(Marks(todo))'
    BY DEF ConsoleInv, Closing
  <2>. QED  BY <2>1, <2>4, <2>5, <2>6, <2>7, <2>8, <2>9
<1>. QED  BY <1>1, <1>2 DEF AutoClose

LEMMA StudioStartAfterKeeps ==
  ASSUME IInv, StudioStartAfter
  PROVE  IInv'
<1>1. StackOK(todo)' /\ Becomes("startAfter", {})
  <2> DEFINE h == Hear("START_AFTER", "studio")
  <2>1. Mark(h) = "startAfter"
    BY MarkOf DEF HearMark, Reports, RepTells
  <2>2. StackOK(todo) /\ Head1(h) /\ Do(<<>>)
    BY DEF IInv, StudioStartAfter
  <2> HIDE DEF h
  <2>. QED  BY <2>1, <2>2, DoNone
<1>2. PICK S : /\ \E n : Fits("startAfter", S, n)
               /\ Marks(todo) = {"startAfter"} \cup S
               /\ Marks(todo)' = S
  BY <1>1 DEF Becomes
<1>3. (Registered' <=> Registered) /\ (IsStudio' <=> IsStudio)
  BY SameThreads DEF StudioStartAfter
<1> USE <1>2, <1>3 DEF IInv, MInv, StudioStartAfter, serviceVars, fileVars, studioVars, history
<1>4. Values'
  <2>1. isRunning' \in BOOLEAN /\ timer' \in BOOLEAN
    BY DEF Values
  <2>. QED  BY <2>1 DEF Values
<1> USE DEF Fits, Some, Between, Ends, ByItself, ByUser, NotBuilt, Opening, Waits, UserStops, Files
<1>5. RunInv(Marks(todo))'
  BY DEF RunInv, NoRun
<1>6. EndInv(Marks(todo))'
  BY DEF EndInv, Gone, Owing
<1>7. CodeInv(Marks(todo))'
  BY DEF CodeInv, Reports
<1>8. StudioInv(Marks(todo))'
  BY DEF StudioInv, RunInv
<1>9. ConsoleInv(Marks(todo))'
  BY DEF ConsoleInv, Closing
<1>. QED  BY <1>1, <1>4, <1>5, <1>6, <1>7, <1>8, <1>9

LEMMA StudioStopBeforeKeeps ==
  ASSUME IInv, StudioStopBefore
  PROVE  IInv'
<1>1. StackOK(todo)' /\ Becomes("stopBefore", {})
  <2> DEFINE h == Hear("STOP_BEFORE", "studio")
  <2>1. Mark(h) = "stopBefore"
    BY MarkOf DEF HearMark, Reports, RepTells
  <2>2. StackOK(todo) /\ Head1(h) /\ Do(<<>>)
    BY DEF IInv, StudioStopBefore
  <2> HIDE DEF h
  <2>. QED  BY <2>1, <2>2, DoNone
<1>2. PICK S : /\ \E n : Fits("stopBefore", S, n)
               /\ Marks(todo) = {"stopBefore"} \cup S
               /\ Marks(todo)' = S
  BY <1>1 DEF Becomes
<1>3. (Registered' <=> Registered) /\ (IsStudio' <=> IsStudio)
  BY SameThreads DEF StudioStopBefore
<1> USE <1>2, <1>3 DEF IInv, MInv, StudioStopBefore, serviceVars, fileVars, studioVars, history
<1>4. Values'
  <2>1. isRunning' \in BOOLEAN /\ timer' \in BOOLEAN /\ canRun' \in BOOLEAN
    BY DEF Values
  <2>. QED  BY <2>1 DEF Values
<1> USE DEF Fits, Some, Between, Ends, ByItself, ByUser, NotBuilt, Opening, Waits, UserStops, Files
<1>5. RunInv(Marks(todo))'
  BY DEF RunInv, NoRun
<1>6. EndInv(Marks(todo))'
  BY DEF EndInv, Gone, Owing
<1>7. CodeInv(Marks(todo))'
  BY DEF CodeInv, Reports
<1>8. StudioInv(Marks(todo))'
  BY DEF StudioInv
<1>9. ConsoleInv(Marks(todo))'
  BY DEF ConsoleInv, Closing
<1>. QED  BY <1>1, <1>4, <1>5, <1>6, <1>7, <1>8, <1>9

LEMMA StudioReportKeeps ==
  ASSUME IInv, NEW v \in Reports, StudioReport(v)
  PROVE  IInv'
<1>1. CASE v = "STOP_BY_USER"
  <2>1. StackOK(todo)' /\ Becomes("studioStopped", {})
    <3> DEFINE h == Hear("STOP_BY_USER", "studio")
    <3>1. Mark(h) = "studioStopped"
      BY MarkOf DEF HearMark, Reports, RepTells
    <3>2. StackOK(todo) /\ Head1(h) /\ Do(<<>>)
      BY <1>1 DEF IInv, StudioReport
    <3> HIDE DEF h
    <3>. QED  BY <3>1, <3>2, DoNone
  <2>2. PICK S : /\ \E n : Fits("studioStopped", S, n)
                 /\ Marks(todo) = {"studioStopped"} \cup S
                 /\ Marks(todo)' = S
    BY <2>1 DEF Becomes
  <2>3. (Registered' <=> Registered) /\ (IsStudio' <=> IsStudio)
    BY SameThreads DEF StudioReport
  <2> USE <1>1, <2>2, <2>3 DEF IInv, MInv, StudioReport, serviceVars, fileVars, studioVars, history
  <2>4. Values'
    <3>1. modelExit' \in ExitCodes
      BY DEF Values
    <3>. QED  BY <3>1 DEF Values
  <2> USE DEF Fits, Some, Between, Ends, ByItself, ByUser, NotBuilt, Opening, Waits, UserStops,
       Files
  <2>5. RunInv(Marks(todo))'
    BY DEF RunInv, NoRun
  <2>6. EndInv(Marks(todo))'
    BY DEF EndInv, Gone, Owing
  <2>7. CodeInv(Marks(todo))'
    BY DEF CodeInv, Reports
  <2>8. StudioInv(Marks(todo))'
    BY DEF StudioInv
  <2>9. ConsoleInv(Marks(todo))'
    BY DEF ConsoleInv, Closing
  <2>. QED  BY <2>1, <2>4, <2>5, <2>6, <2>7, <2>8, <2>9
<1>2. CASE v = "STOP_OK" /\ AutoClose(modelExit') = <<Call("canClose", "exit")>>
  <2>1. StackOK(todo)' /\ Becomes("studioReport", {"canClose"})
    <3> DEFINE h == Hear("STOP_OK", "studio")
               x == Call("canClose", "exit")
    <3>1. Mark(h) = "studioReport" /\ x \in Item /\ Mark(x) = "canClose"
      BY MarkOf, Items DEF HearMark, Reports, RepTells, CallMark, Calls, Threads, Closings
    <3>2. StackOK(todo) /\ Head1(h) /\ Do(<<x>>)
      BY <1>2 DEF IInv, StudioReport
    <3> HIDE DEF h, x
    <3>3. \A S : \A n \in Nat : Fits("studioReport", S, n) => Fits("canClose", S, n)
      BY DEF Fits, Between, Ends, ByItself, ByUser, NotBuilt, Opening, Waits, UserStops, Closing,
           Files
    <3>. QED  BY <3>1, <3>2, <3>3, DoOne
  <2>2. PICK S : /\ \E n : Fits("studioReport", S, n)
                 /\ Marks(todo) = {"studioReport"} \cup S
                 /\ Marks(todo)' = {"canClose"} \cup S
    BY <2>1 DEF Becomes
  <2>3. (Registered' <=> Registered) /\ (IsStudio' <=> IsStudio)
    BY SameThreads DEF StudioReport
  <2> USE <1>2, <2>2, <2>3 DEF IInv, MInv, StudioReport, serviceVars, fileVars, studioVars, history
  <2>4. Values'
    <3>1. modelExit' \in ExitCodes
      BY DEF Values
    <3>. QED  BY <3>1 DEF Values
  <2> USE DEF Fits, Some, Between, Ends, ByItself, ByUser, NotBuilt, Opening, Waits, UserStops,
       Files
  <2>5. RunInv(Marks(todo))'
    BY DEF RunInv, NoRun
  <2>6. EndInv(Marks(todo))'
    BY DEF EndInv, Gone, Owing
  <2>7. CodeInv(Marks(todo))'
    BY DEF CodeInv, Reports
  <2>8. StudioInv(Marks(todo))'
    BY DEF StudioInv
  <2>9. ConsoleInv(Marks(todo))'
    BY DEF ConsoleInv, Closing
  <2>. QED  BY <2>1, <2>4, <2>5, <2>6, <2>7, <2>8, <2>9
<1>3. CASE v = "STOP_OK" /\ AutoClose(modelExit') = <<>>
  <2>1. StackOK(todo)' /\ Becomes("studioReport", {})
    <3> DEFINE h == Hear("STOP_OK", "studio")
    <3>1. Mark(h) = "studioReport"
      BY MarkOf DEF HearMark, Reports, RepTells
    <3>2. StackOK(todo) /\ Head1(h) /\ Do(<<>>)
      BY <1>3 DEF IInv, StudioReport
    <3> HIDE DEF h
    <3>. QED  BY <3>1, <3>2, DoNone
  <2>2. PICK S : /\ \E n : Fits("studioReport", S, n)
                 /\ Marks(todo) = {"studioReport"} \cup S
                 /\ Marks(todo)' = S
    BY <2>1 DEF Becomes
  <2>3. (Registered' <=> Registered) /\ (IsStudio' <=> IsStudio)
    BY SameThreads DEF StudioReport
  <2> USE <1>3, <2>2, <2>3 DEF IInv, MInv, StudioReport, serviceVars, fileVars, studioVars, history
  <2>4. Values'
    <3>1. modelExit' \in ExitCodes
      BY DEF Values
    <3>. QED  BY <3>1 DEF Values
  <2> USE DEF Fits, Some, Between, Ends, ByItself, ByUser, NotBuilt, Opening, Waits, UserStops,
       Files
  <2>5. RunInv(Marks(todo))'
    BY DEF RunInv, NoRun
  <2>6. EndInv(Marks(todo))'
    BY DEF EndInv, Gone, Owing
  <2>7. CodeInv(Marks(todo))'
    BY DEF CodeInv, Reports
  <2>8. StudioInv(Marks(todo))'
    BY DEF StudioInv
  <2>9. ConsoleInv(Marks(todo))'
    BY DEF ConsoleInv, Closing
  <2>. QED  BY <2>1, <2>4, <2>5, <2>6, <2>7, <2>8, <2>9
<1>4. CASE v = "STOP_RUNTIME_ERROR" /\ AutoClose(modelExit') = <<Call("canClose", "exit")>>
  <2>1. StackOK(todo)' /\ Becomes("studioReport", {"canClose"})
    <3> DEFINE h == Hear("STOP_RUNTIME_ERROR", "studio")
               x == Call("canClose", "exit")
    <3>1. Mark(h) = "studioReport" /\ x \in Item /\ Mark(x) = "canClose"
      BY MarkOf, Items DEF HearMark, Reports, RepTells, CallMark, Calls, Threads, Closings
    <3>2. StackOK(todo) /\ Head1(h) /\ Do(<<x>>)
      BY <1>4 DEF IInv, StudioReport
    <3> HIDE DEF h, x
    <3>3. \A S : \A n \in Nat : Fits("studioReport", S, n) => Fits("canClose", S, n)
      BY DEF Fits, Between, Ends, ByItself, ByUser, NotBuilt, Opening, Waits, UserStops, Closing,
           Files
    <3>. QED  BY <3>1, <3>2, <3>3, DoOne
  <2>2. PICK S : /\ \E n : Fits("studioReport", S, n)
                 /\ Marks(todo) = {"studioReport"} \cup S
                 /\ Marks(todo)' = {"canClose"} \cup S
    BY <2>1 DEF Becomes
  <2>3. (Registered' <=> Registered) /\ (IsStudio' <=> IsStudio)
    BY SameThreads DEF StudioReport
  <2> USE <1>4, <2>2, <2>3 DEF IInv, MInv, StudioReport, serviceVars, fileVars, studioVars, history
  <2>4. Values'
    <3>1. modelExit' \in ExitCodes
      BY DEF Values
    <3>. QED  BY <3>1 DEF Values
  <2> USE DEF Fits, Some, Between, Ends, ByItself, ByUser, NotBuilt, Opening, Waits, UserStops,
       Files
  <2>5. RunInv(Marks(todo))'
    BY DEF RunInv, NoRun
  <2>6. EndInv(Marks(todo))'
    BY DEF EndInv, Gone, Owing
  <2>7. CodeInv(Marks(todo))'
    BY DEF CodeInv, Reports
  <2>8. StudioInv(Marks(todo))'
    BY DEF StudioInv
  <2>9. ConsoleInv(Marks(todo))'
    BY DEF ConsoleInv, Closing
  <2>. QED  BY <2>1, <2>4, <2>5, <2>6, <2>7, <2>8, <2>9
<1>5. CASE v = "STOP_RUNTIME_ERROR" /\ AutoClose(modelExit') = <<>>
  <2>1. StackOK(todo)' /\ Becomes("studioReport", {})
    <3> DEFINE h == Hear("STOP_RUNTIME_ERROR", "studio")
    <3>1. Mark(h) = "studioReport"
      BY MarkOf DEF HearMark, Reports, RepTells
    <3>2. StackOK(todo) /\ Head1(h) /\ Do(<<>>)
      BY <1>5 DEF IInv, StudioReport
    <3> HIDE DEF h
    <3>. QED  BY <3>1, <3>2, DoNone
  <2>2. PICK S : /\ \E n : Fits("studioReport", S, n)
                 /\ Marks(todo) = {"studioReport"} \cup S
                 /\ Marks(todo)' = S
    BY <2>1 DEF Becomes
  <2>3. (Registered' <=> Registered) /\ (IsStudio' <=> IsStudio)
    BY SameThreads DEF StudioReport
  <2> USE <1>5, <2>2, <2>3 DEF IInv, MInv, StudioReport, serviceVars, fileVars, studioVars, history
  <2>4. Values'
    <3>1. modelExit' \in ExitCodes
      BY DEF Values
    <3>. QED  BY <3>1 DEF Values
  <2> USE DEF Fits, Some, Between, Ends, ByItself, ByUser, NotBuilt, Opening, Waits, UserStops,
       Files
  <2>5. RunInv(Marks(todo))'
    BY DEF RunInv, NoRun
  <2>6. EndInv(Marks(todo))'
    BY DEF EndInv, Gone, Owing
  <2>7. CodeInv(Marks(todo))'
    BY DEF CodeInv, Reports
  <2>8. StudioInv(Marks(todo))'
    BY DEF StudioInv
  <2>9. ConsoleInv(Marks(todo))'
    BY DEF ConsoleInv, Closing
  <2>. QED  BY <2>1, <2>4, <2>5, <2>6, <2>7, <2>8, <2>9
<1>. QED  BY <1>1, <1>2, <1>3, <1>4, <1>5 DEF Reports, AutoClose

-----------------------------------------------------------------------------
(***************************************************************************)
(* The studio goes on.                                                     *)
(***************************************************************************)

LEMMA CanCloseKeeps ==
  ASSUME IInv, NEW then \in Closings, CanClose(then)
  PROVE  IInv'
<1>1. CASE Do(<<Call("warning", "studio")>>)
  <2>1. StackOK(todo)' /\ Becomes("canClose", {"dialog"})
    <3> DEFINE h == Call("canClose", then)
               x == Call("warning", "studio")
    <3>1. Mark(h) = "canClose" /\ x \in Item /\ Mark(x) = "dialog"
      BY MarkOf, Items DEF CallMark, Calls, Threads, Closings
    <3>2. StackOK(todo) /\ Head1(h) /\ Do(<<x>>)
      BY <1>1 DEF IInv, CanClose
    <3> HIDE DEF h, x
    <3>3. \A S : \A n \in Nat : Fits("canClose", S, n) => Fits("dialog", S, n)
      BY DEF Fits, Between, Ends, ByItself, ByUser, NotBuilt, Opening, Waits, UserStops, Closing,
           Files
    <3>. QED  BY <3>1, <3>2, <3>3, DoOne
  <2>2. PICK S : /\ \E n : Fits("canClose", S, n)
                 /\ Marks(todo) = {"canClose"} \cup S
                 /\ Marks(todo)' = {"dialog"} \cup S
    BY <2>1 DEF Becomes
  <2> USE <2>2 DEF IInv, MInv, Fits, Some, Between, Ends, ByItself, ByUser, NotBuilt, Opening,
       Waits, UserStops, Files
  <2>3. RunInv({"dialog"} \cup S)
    BY DEF RunInv, NoRun
  <2>4. EndInv({"dialog"} \cup S)
    BY DEF EndInv, Gone, Owing
  <2>5. CodeInv({"dialog"} \cup S)
    BY DEF CodeInv, Reports
  <2>6. StudioInv({"dialog"} \cup S)
    BY DEF StudioInv
  <2>7. ConsoleInv({"dialog"} \cup S)
    BY DEF ConsoleInv, Closing
  <2>. QED  BY <1>1, <2>1, <2>2, <2>3, <2>4, <2>5, <2>6, <2>7, OnlyTodo DEF CanClose
<1>2. CASE Do(<<Call("close", then)>>)
  <2>1. StackOK(todo)' /\ Becomes("canClose", {"close"})
    <3> DEFINE h == Call("canClose", then)
               x == Call("close", then)
    <3>1. Mark(h) = "canClose" /\ x \in Item /\ Mark(x) = "close"
      BY MarkOf, Items DEF CallMark, Calls, Threads, Closings
    <3>2. StackOK(todo) /\ Head1(h) /\ Do(<<x>>)
      BY <1>2 DEF IInv, CanClose
    <3> HIDE DEF h, x
    <3>3. \A S : \A n \in Nat : Fits("canClose", S, n) => Fits("close", S, n)
      BY DEF Fits, Between, Ends, ByItself, ByUser, NotBuilt, Opening, Waits, UserStops, Closing,
           Files
    <3>. QED  BY <3>1, <3>2, <3>3, DoOne
  <2>2. PICK S : /\ \E n : Fits("canClose", S, n)
                 /\ Marks(todo) = {"canClose"} \cup S
                 /\ Marks(todo)' = {"close"} \cup S
    BY <2>1 DEF Becomes
  <2> USE <2>2 DEF IInv, MInv, Fits, Some, Between, Ends, ByItself, ByUser, NotBuilt, Opening,
       Waits, UserStops, Files
  <2>3. RunInv({"close"} \cup S)
    BY DEF RunInv, NoRun
  <2>4. EndInv({"close"} \cup S)
    BY DEF EndInv, Gone, Owing
  <2>5. CodeInv({"close"} \cup S)
    BY DEF CodeInv, Reports
  <2>6. StudioInv({"close"} \cup S)
    BY DEF StudioInv
  <2>7. ConsoleInv({"close"} \cup S)
    BY DEF ConsoleInv, Closing
  <2>. QED  BY <1>2, <2>1, <2>2, <2>3, <2>4, <2>5, <2>6, <2>7, OnlyTodo DEF CanClose
<1>3. CASE Do(<<Call("dialog", then)>>)
  <2>1. StackOK(todo)' /\ Becomes("canClose", {"dialog"})
    <3> DEFINE h == Call("canClose", then)
               x == Call("dialog", then)
    <3>1. Mark(h) = "canClose" /\ x \in Item /\ Mark(x) = "dialog"
      BY MarkOf, Items DEF CallMark, Calls, Threads, Closings
    <3>2. StackOK(todo) /\ Head1(h) /\ Do(<<x>>)
      BY <1>3 DEF IInv, CanClose
    <3> HIDE DEF h, x
    <3>3. \A S : \A n \in Nat : Fits("canClose", S, n) => Fits("dialog", S, n)
      BY DEF Fits, Between, Ends, ByItself, ByUser, NotBuilt, Opening, Waits, UserStops, Closing,
           Files
    <3>. QED  BY <3>1, <3>2, <3>3, DoOne
  <2>2. PICK S : /\ \E n : Fits("canClose", S, n)
                 /\ Marks(todo) = {"canClose"} \cup S
                 /\ Marks(todo)' = {"dialog"} \cup S
    BY <2>1 DEF Becomes
  <2> USE <2>2 DEF IInv, MInv, Fits, Some, Between, Ends, ByItself, ByUser, NotBuilt, Opening,
       Waits, UserStops, Files
  <2>3. RunInv({"dialog"} \cup S)
    BY DEF RunInv, NoRun
  <2>4. EndInv({"dialog"} \cup S)
    BY DEF EndInv, Gone, Owing
  <2>5. CodeInv({"dialog"} \cup S)
    BY DEF CodeInv, Reports
  <2>6. StudioInv({"dialog"} \cup S)
    BY DEF StudioInv
  <2>7. ConsoleInv({"dialog"} \cup S)
    BY DEF ConsoleInv, Closing
  <2>. QED  BY <1>3, <2>1, <2>2, <2>3, <2>4, <2>5, <2>6, <2>7, OnlyTodo DEF CanClose
<1>. QED  BY <1>1, <1>2, <1>3 DEF CanClose

LEMMA AnswerKeeps ==
  ASSUME IInv, NEW then \in Closings, Answer(then)
  PROVE  IInv'
<1>1. CASE Do(<<Call("close", then)>>)
  <2>1. StackOK(todo)' /\ Becomes("dialog", {"close"})
    <3> DEFINE h == Call("dialog", then)
               x == Call("close", then)
    <3>1. Mark(h) = "dialog" /\ x \in Item /\ Mark(x) = "close"
      BY MarkOf, Items DEF CallMark, Calls, Threads, Closings
    <3>2. StackOK(todo) /\ Head1(h) /\ Do(<<x>>)
      BY <1>1 DEF IInv, Answer
    <3> HIDE DEF h, x
    <3>3. \A S : \A n \in Nat : Fits("dialog", S, n) => Fits("close", S, n)
      BY DEF Fits, Between, Ends, ByItself, ByUser, NotBuilt, Opening, Waits, UserStops, Closing,
           Files
    <3>. QED  BY <3>1, <3>2, <3>3, DoOne
  <2>2. PICK S : /\ \E n : Fits("dialog", S, n)
                 /\ Marks(todo) = {"dialog"} \cup S
                 /\ Marks(todo)' = {"close"} \cup S
    BY <2>1 DEF Becomes
  <2> USE <2>2 DEF IInv, MInv, Fits, Some, Between, Ends, ByItself, ByUser, NotBuilt, Opening,
       Waits, UserStops, Files
  <2>3. RunInv({"close"} \cup S)
    BY DEF RunInv, NoRun
  <2>4. EndInv({"close"} \cup S)
    BY DEF EndInv, Gone, Owing
  <2>5. CodeInv({"close"} \cup S)
    BY DEF CodeInv, Reports
  <2>6. StudioInv({"close"} \cup S)
    BY DEF StudioInv
  <2>7. ConsoleInv({"close"} \cup S)
    BY DEF ConsoleInv, Closing
  <2>. QED  BY <1>1, <2>1, <2>2, <2>3, <2>4, <2>5, <2>6, <2>7, OnlyTodo DEF Answer
<1>2. CASE Do(<<>>)
  <2>1. StackOK(todo)' /\ Becomes("dialog", {})
    <3> DEFINE h == Call("dialog", then)
    <3>1. Mark(h) = "dialog"
      BY MarkOf DEF CallMark
    <3>2. StackOK(todo) /\ Head1(h) /\ Do(<<>>)
      BY <1>2 DEF IInv, Answer
    <3> HIDE DEF h
    <3>. QED  BY <3>1, <3>2, DoNone
  <2>2. PICK S : /\ \E n : Fits("dialog", S, n)
                 /\ Marks(todo) = {"dialog"} \cup S
                 /\ Marks(todo)' = S
    BY <2>1 DEF Becomes
  <2> USE <2>2 DEF IInv, MInv, Fits, Some, Between, Ends, ByItself, ByUser, NotBuilt, Opening,
       Waits, UserStops, Files
  <2>3. RunInv(S)
    BY DEF RunInv, NoRun
  <2>4. EndInv(S)
    BY DEF EndInv, Gone, Owing
  <2>5. CodeInv(S)
    BY DEF CodeInv, Reports
  <2>6. StudioInv(S)
    BY DEF StudioInv
  <2>7. ConsoleInv(S)
    BY DEF ConsoleInv, Closing
  <2>. QED  BY <1>2, <2>1, <2>2, <2>3, <2>4, <2>5, <2>6, <2>7, OnlyTodo DEF Answer
<1>. QED  BY <1>1, <1>2 DEF Answer

LEMMA StudioCloseModelKeeps ==
  ASSUME IInv, NEW then \in Closings, StudioCloseModel(then)
  PROVE  IInv'
<1>1. CASE then = "none"
  <2>1. StackOK(todo)' /\ Becomes("close", {"MODEL_CLOSE"})
    <3> DEFINE h == Call("close", "none")
               x == Cast("MODEL_CLOSE", "kernel")
    <3>1. Mark(h) = "close" /\ x \in Item /\ Mark(x) = "MODEL_CLOSE"
      BY MarkOf, Items DEF CallMark, CastMark, Reports, RepTells, Asks, RunTells, SimTells
    <3>2. StackOK(todo) /\ Head1(h) /\ Do(<<x>>)
      BY <1>1 DEF IInv, StudioCloseModel
    <3> HIDE DEF h, x
    <3>3. \A S : \A n \in Nat : Fits("close", S, n) => Fits("MODEL_CLOSE", S, n)
      BY DEF Fits, Between, Ends, ByItself, ByUser, NotBuilt, Opening, Waits, UserStops, Closing,
           Files
    <3>. QED  BY <3>1, <3>2, <3>3, DoOne
  <2>2. PICK S : /\ \E n : Fits("close", S, n)
                 /\ Marks(todo) = {"close"} \cup S
                 /\ Marks(todo)' = {"MODEL_CLOSE"} \cup S
    BY <2>1 DEF Becomes
  <2>3. (Registered' <=> Registered) /\ (IsStudio' <=> IsStudio)
    BY SameThreads DEF StudioCloseModel
  <2> USE <1>1, <2>2, <2>3 DEF IInv, MInv, StudioCloseModel, serviceVars, fileVars, studioVars,
          history
  <2>4. Values'
    <3>1. hasModel' \in BOOLEAN
      BY DEF Values
    <3>. QED  BY <3>1 DEF Values
  <2> USE DEF Fits, Some, Between, Ends, ByItself, ByUser, NotBuilt, Opening, Waits, UserStops,
       Files
  <2>5. RunInv(Marks(todo))'
    BY DEF RunInv, NoRun
  <2>6. EndInv(Marks(todo))'
    BY DEF EndInv, Gone, Owing
  <2>7. CodeInv(Marks(todo))'
    BY DEF CodeInv, Reports
  <2>8. StudioInv(Marks(todo))'
    BY DEF StudioInv
  <2>9. ConsoleInv(Marks(todo))'
    BY DEF ConsoleInv, Closing
  <2>. QED  BY <2>1, <2>4, <2>5, <2>6, <2>7, <2>8, <2>9
<1>2. CASE then = "open"
  <2>1. StackOK(todo)' /\ Becomes("close", {"MODEL_CLOSE", "MODEL_OPEN"})
    <3> DEFINE h == Call("close", "open")
               x == Cast("MODEL_CLOSE", "kernel")
               y == Cast("MODEL_OPEN", "kernel")
    <3>1. Mark(h) = "close" /\ x \in Item /\ Mark(x) = "MODEL_CLOSE" /\ y \in Item
          /\ Mark(y) = "MODEL_OPEN"
      BY MarkOf, Items DEF CallMark, CastMark, Reports, RepTells, Asks, RunTells, SimTells
    <3>2. StackOK(todo) /\ Head1(h) /\ Do(<<x, y>>)
      <4>1. StackOK(todo) /\ Head1(h) /\ Do(<<x>> \o <<y>>)
        BY <1>2 DEF IInv, StudioCloseModel
      <4>. QED  BY <4>1, Pair, Zenon
    <3> HIDE DEF h, x, y
    <3>3. \A S : \A n \in Nat : Fits("close", S, n) =>
           /\ Fits("MODEL_OPEN", S, n)
           /\ Fits("MODEL_CLOSE", {"MODEL_OPEN"} \cup S, n + 1)
      BY DEF Fits, Between, Ends, ByItself, ByUser, NotBuilt, Opening, Waits, UserStops, Closing,
           Files
    <3>. QED  BY <3>1, <3>2, <3>3, DoTwo
  <2>2. PICK S : /\ \E n : Fits("close", S, n)
                 /\ Marks(todo) = {"close"} \cup S
                 /\ Marks(todo)' = {"MODEL_CLOSE", "MODEL_OPEN"} \cup S
    BY <2>1 DEF Becomes
  <2>3. (Registered' <=> Registered) /\ (IsStudio' <=> IsStudio)
    BY SameThreads DEF StudioCloseModel
  <2> USE <1>2, <2>2, <2>3 DEF IInv, MInv, StudioCloseModel, serviceVars, fileVars, studioVars,
          history
  <2>4. Values'
    <3>1. hasModel' \in BOOLEAN
      BY DEF Values
    <3>. QED  BY <3>1 DEF Values
  <2> USE DEF Fits, Some, Between, Ends, ByItself, ByUser, NotBuilt, Opening, Waits, UserStops,
       Files
  <2>5. RunInv(Marks(todo))'
    BY DEF RunInv, NoRun
  <2>6. EndInv(Marks(todo))'
    BY DEF EndInv, Gone, Owing
  <2>7. CodeInv(Marks(todo))'
    BY DEF CodeInv, Reports
  <2>8. StudioInv(Marks(todo))'
    BY DEF StudioInv
  <2>9. ConsoleInv(Marks(todo))'
    BY DEF ConsoleInv, Closing
  <2>. QED  BY <2>1, <2>4, <2>5, <2>6, <2>7, <2>8, <2>9
<1>3. CASE then = "exit"
  <2>1. StackOK(todo)' /\ Becomes("close", {"MODEL_CLOSE", "exit"})
    <3> DEFINE h == Call("close", "exit")
               x == Cast("MODEL_CLOSE", "kernel")
               y == Call("exit", "studio")
    <3>1. Mark(h) = "close" /\ x \in Item /\ Mark(x) = "MODEL_CLOSE" /\ y \in Item
          /\ Mark(y) = "exit"
      BY MarkOf, Items DEF CallMark, CastMark, Reports, RepTells, Asks, RunTells, SimTells, Calls,
         Threads, Closings
    <3>2. StackOK(todo) /\ Head1(h) /\ Do(<<x, y>>)
      <4>1. StackOK(todo) /\ Head1(h) /\ Do(<<x>> \o <<y>>)
        BY <1>3 DEF IInv, StudioCloseModel
      <4>. QED  BY <4>1, Pair, Zenon
    <3> HIDE DEF h, x, y
    <3>3. \A S : \A n \in Nat : Fits("close", S, n) =>
           /\ Fits("exit", S, n)
           /\ Fits("MODEL_CLOSE", {"exit"} \cup S, n + 1)
      BY DEF Fits, Between, Ends, ByItself, ByUser, NotBuilt, Opening, Waits, UserStops, Closing,
           Files
    <3>. QED  BY <3>1, <3>2, <3>3, DoTwo
  <2>2. PICK S : /\ \E n : Fits("close", S, n)
                 /\ Marks(todo) = {"close"} \cup S
                 /\ Marks(todo)' = {"MODEL_CLOSE", "exit"} \cup S
    BY <2>1 DEF Becomes
  <2>3. (Registered' <=> Registered) /\ (IsStudio' <=> IsStudio)
    BY SameThreads DEF StudioCloseModel
  <2> USE <1>3, <2>2, <2>3 DEF IInv, MInv, StudioCloseModel, serviceVars, fileVars, studioVars,
          history
  <2>4. Values'
    <3>1. hasModel' \in BOOLEAN
      BY DEF Values
    <3>. QED  BY <3>1 DEF Values
  <2> USE DEF Fits, Some, Between, Ends, ByItself, ByUser, NotBuilt, Opening, Waits, UserStops,
       Files
  <2>5. RunInv(Marks(todo))'
    BY DEF RunInv, NoRun
  <2>6. EndInv(Marks(todo))'
    BY DEF EndInv, Gone, Owing
  <2>7. CodeInv(Marks(todo))'
    BY DEF CodeInv, Reports
  <2>8. StudioInv(Marks(todo))'
    BY DEF StudioInv
  <2>9. ConsoleInv(Marks(todo))'
    BY DEF ConsoleInv, Closing
  <2>. QED  BY <2>1, <2>4, <2>5, <2>6, <2>7, <2>8, <2>9
<1>. QED  BY <1>1, <1>2, <1>3 DEF Closings

LEMMA ExitKeeps ==
  ASSUME IInv, Exit
  PROVE  IInv'
<1>1. StackOK(todo)' /\ Becomes("exit", {})
  <2> DEFINE h == Call("exit", "studio")
  <2>1. Mark(h) = "exit"
    BY MarkOf DEF CallMark
  <2>2. StackOK(todo) /\ Head1(h) /\ Do(<<>>)
    BY DEF IInv, Exit
  <2> HIDE DEF h
  <2>. QED  BY <2>1, <2>2, DoNone
<1>2. PICK S : /\ \E n : Fits("exit", S, n)
               /\ Marks(todo) = {"exit"} \cup S
               /\ Marks(todo)' = S
  BY <1>1 DEF Becomes
<1>3. (Registered' <=> Registered) /\ (IsStudio' <=> IsStudio)
  BY SameThreads DEF Exit
<1> USE <1>2, <1>3 DEF IInv, MInv, Exit, serviceVars, fileVars, studioVars, history
<1>4. Values'
  <2>1. window' \in BOOLEAN /\ timer' \in BOOLEAN
    BY DEF Values
  <2>. QED  BY <2>1 DEF Values
<1> USE DEF Fits, Some, Between, Ends, ByItself, ByUser, NotBuilt, Opening, Waits, UserStops, Files
<1>5. RunInv(Marks(todo))'
  BY DEF RunInv, NoRun
<1>6. EndInv(Marks(todo))'
  BY DEF EndInv, Gone, Owing
<1>7. CodeInv(Marks(todo))'
  BY DEF CodeInv, Reports
<1>8. StudioInv(Marks(todo))'
  BY DEF StudioInv
<1>9. ConsoleInv(Marks(todo))'
  BY DEF ConsoleInv, Closing
<1>. QED  BY <1>1, <1>4, <1>5, <1>6, <1>7, <1>8, <1>9

LEMMA StudioRunModelKeeps ==
  ASSUME IInv, StudioRunModel
  PROVE  IInv'
<1>1. CASE buildState = "BS_COMPLETE"
  <2>1. StackOK(todo)' /\ Becomes("run", {"MODEL_RUN"})
    <3> DEFINE h == Call("run", "studio")
               x == Cast("MODEL_RUN", "kernel")
    <3>1. Mark(h) = "run" /\ x \in Item /\ Mark(x) = "MODEL_RUN"
      BY MarkOf, Items DEF CallMark, CastMark, Reports, RepTells, Asks, RunTells, SimTells
    <3>2. StackOK(todo) /\ Head1(h) /\ Do(<<x>>)
      BY <1>1 DEF IInv, StudioRunModel
    <3> HIDE DEF h, x
    <3>3. \A S : \A n \in Nat : Fits("run", S, n) => Fits("MODEL_RUN", S, n)
      BY DEF Fits, Between, Ends, ByItself, ByUser, NotBuilt, Opening, Waits, UserStops, Closing,
           Files
    <3>. QED  BY <3>1, <3>2, <3>3, DoOne
  <2>2. PICK S : /\ \E n : Fits("run", S, n)
                 /\ Marks(todo) = {"run"} \cup S
                 /\ Marks(todo)' = {"MODEL_RUN"} \cup S
    BY <2>1 DEF Becomes
  <2>3. (Registered' <=> Registered) /\ (IsStudio' <=> IsStudio)
    BY SameThreads DEF StudioRunModel
  <2> USE <1>1, <2>2, <2>3 DEF IInv, MInv, StudioRunModel, serviceVars, fileVars, studioVars,
          history
  <2>4. Values'
    <3>1. canRun' \in BOOLEAN
      BY DEF Values
    <3>. QED  BY <3>1 DEF Values
  <2> USE DEF Fits, Some, Between, Ends, ByItself, ByUser, NotBuilt, Opening, Waits, UserStops,
       Files
  <2>5. RunInv(Marks(todo))'
    BY DEF RunInv, NoRun
  <2>6. EndInv(Marks(todo))'
    BY DEF EndInv, Gone, Owing, StudioInv, ConsoleInv, Closing
  <2>7. CodeInv(Marks(todo))'
    BY DEF CodeInv, Reports
  <2>8. StudioInv(Marks(todo))'
    BY DEF StudioInv
  <2>9. ConsoleInv(Marks(todo))'
    BY DEF ConsoleInv, Closing
  <2>. QED  BY <2>1, <2>4, <2>5, <2>6, <2>7, <2>8, <2>9
<1>2. CASE buildState # "BS_COMPLETE"
  <2>1. StackOK(todo)' /\ Becomes("run", {})
    <3> DEFINE h == Call("run", "studio")
    <3>1. Mark(h) = "run"
      BY MarkOf DEF CallMark
    <3>2. StackOK(todo) /\ Head1(h) /\ Do(<<>>)
      BY <1>2 DEF IInv, StudioRunModel
    <3> HIDE DEF h
    <3>. QED  BY <3>1, <3>2, DoNone
  <2>2. PICK S : /\ \E n : Fits("run", S, n)
                 /\ Marks(todo) = {"run"} \cup S
                 /\ Marks(todo)' = S
    BY <2>1 DEF Becomes
  <2>3. (Registered' <=> Registered) /\ (IsStudio' <=> IsStudio)
    BY SameThreads DEF StudioRunModel
  <2> USE <1>2, <2>2, <2>3 DEF IInv, MInv, StudioRunModel, serviceVars, fileVars, studioVars,
          history
  <2>4. Values'
    BY DEF Values
  <2> USE DEF Fits, Some, Between, Ends, ByItself, ByUser, NotBuilt, Opening, Waits, UserStops,
       Files
  <2>5. RunInv(Marks(todo))'
    BY DEF RunInv, NoRun
  <2>6. EndInv(Marks(todo))'
    BY DEF EndInv, Gone, Owing
  <2>7. CodeInv(Marks(todo))'
    BY DEF CodeInv, Reports
  <2>8. StudioInv(Marks(todo))'
    BY DEF StudioInv
  <2>9. ConsoleInv(Marks(todo))'
    BY DEF ConsoleInv, Closing
  <2>. QED  BY <2>1, <2>4, <2>5, <2>6, <2>7, <2>8, <2>9
<1>. QED  BY <1>1, <1>2 DEF StudioRunModel

-----------------------------------------------------------------------------
(***************************************************************************)
(* What starts on an empty stack.                                          *)
(***************************************************************************)
LEMMA Empty ==
  StackOK(<<>>) /\ Marks(<<>>) = {} /\ Len(<<>>) = 0
BY DEF StackOK, Marks

LEMMA StartOne ==
  ASSUME todo = <<>>, NEW x \in Item, todo' = <<x>>, Fits(Mark(x), {}, 0)
  PROVE  StackOK(todo)' /\ Marks(todo) = {} /\ Marks(todo)' = {Mark(x)}
<1>1. StackOK(<<x>> \o <<>>) /\ Marks(<<x>> \o <<>>) = {Mark(x)} \cup {}
  BY Empty, Push
<1>2. <<x>> \o <<>> = <<x>>
  OBVIOUS
<1>. QED  BY <1>1, <1>2, Empty

LEMMA StartTwo ==
  ASSUME todo = <<>>, NEW x \in Item, NEW y \in Item, todo' = <<x>> \o <<y>>,
         Fits(Mark(y), {}, 0), Fits(Mark(x), {Mark(y)}, 1)
  PROVE  StackOK(todo)' /\ Marks(todo) = {} /\ Marks(todo)' = {Mark(x), Mark(y)}
<1>1. StackOK(<<y>> \o <<>>) /\ Marks(<<y>> \o <<>>) = {Mark(y)} \cup {}
      /\ Len(<<y>> \o <<>>) = 0 + 1
  BY Empty, Push
<1>2. <<y>> \o <<>> = <<y>>
  OBVIOUS
<1>3. StackOK(<<y>>) /\ Marks(<<y>>) = {Mark(y)} /\ Len(<<y>>) = 1
  BY <1>1, <1>2
<1> DEFINE s == <<y>>
<1> HIDE DEF s
<1>4. StackOK(<<x>> \o s) /\ Marks(<<x>> \o s) = {Mark(x)} \cup Marks(s)
  BY <1>3, Push DEF s
<1>. QED  BY <1>3, <1>4, Empty DEF s

LEMMA UserClosesKeeps ==
  ASSUME IInv, NEW then \in Closings, UserCloses(then)
  PROVE  IInv'
<1>1. StackOK(todo)' /\ Marks(todo) = {} /\ Marks(todo)' = {"canClose"}
  <2> DEFINE x == Call("canClose", then)
  <2>1. x \in Item /\ Mark(x) = "canClose"
    BY MarkOf, Items DEF CallMark, Calls, Threads, Closings
  <2>2. todo = <<>> /\ todo' = <<x>>
    BY DEF UserCloses, UserTurn
  <2> HIDE DEF x
  <2>3. Fits("canClose", {}, 0)
    BY DEF Fits, Closing, Files, Between, NotBuilt, Opening
  <2>. QED  BY <2>1, <2>2, <2>3, StartOne
<1> USE <1>1 DEF IInv, MInv, Some, UserCloses, UserTurn
<1>2. RunInv({"canClose"})
  BY DEF RunInv, NoRun
<1>3. EndInv({"canClose"})
  BY DEF EndInv, Gone, Owing
<1>4. CodeInv({"canClose"})
  BY DEF CodeInv, Reports
<1>5. StudioInv({"canClose"})
  BY DEF StudioInv
<1>6. ConsoleInv({"canClose"})
  BY DEF ConsoleInv, Closing
<1>. QED  BY <1>1, <1>2, <1>3, <1>4, <1>5, <1>6, OnlyTodo DEF UserCloses

LEMMA UserNewKeeps ==
  ASSUME IInv, UserNew
  PROVE  IInv'
<1>1. StackOK(todo)' /\ Marks(todo) = {} /\ Marks(todo)' = {"MODEL_OPEN"}
  <2> DEFINE x == Cast("MODEL_NEW", "kernel")
  <2>1. x \in Item /\ Mark(x) = "MODEL_OPEN"
    BY MarkOf, Items DEF CastMark, Reports, RepTells, Asks, RunTells, SimTells
  <2>2. todo = <<>> /\ todo' = <<x>>
    BY DEF UserNew, UserTurn
  <2> HIDE DEF x
  <2>3. Fits("MODEL_OPEN", {}, 0)
    BY DEF Fits, Closing, Files, Between, NotBuilt, Opening
  <2>. QED  BY <2>1, <2>2, <2>3, StartOne
<1> USE <1>1 DEF IInv, MInv, Some, UserNew, UserTurn
<1>2. RunInv({"MODEL_OPEN"})
  BY DEF RunInv, NoRun
<1>3. EndInv({"MODEL_OPEN"})
  BY DEF EndInv, Gone, Owing
<1>4. CodeInv({"MODEL_OPEN"})
  BY DEF CodeInv, Reports
<1>5. StudioInv({"MODEL_OPEN"})
  BY DEF StudioInv
<1>6. ConsoleInv({"MODEL_OPEN"})
  BY DEF ConsoleInv, Closing
<1>. QED  BY <1>1, <1>2, <1>3, <1>4, <1>5, <1>6, OnlyTodo DEF UserNew

LEMMA UserStopKeeps ==
  ASSUME IInv, UserStop
  PROVE  IInv'
<1>1. StackOK(todo)' /\ Marks(todo) = {} /\ Marks(todo)' = {"MODEL_STOP"}
  <2> DEFINE x == Cast("MODEL_STOP", "kernel")
  <2>1. x \in Item /\ Mark(x) = "MODEL_STOP"
    BY MarkOf, Items DEF CastMark, Reports, RepTells, Asks, RunTells, SimTells
  <2>2. todo = <<>> /\ todo' = <<x>>
    BY DEF UserStop, UserTurn
  <2> HIDE DEF x
  <2>3. Fits("MODEL_STOP", {}, 0)
    BY DEF Fits, Closing, Files, Between, NotBuilt, Opening
  <2>. QED  BY <2>1, <2>2, <2>3, StartOne
<1> USE <1>1 DEF IInv, MInv, Some, UserStop, UserTurn
<1>2. RunInv({"MODEL_STOP"})
  BY DEF RunInv, NoRun, StudioInv
<1>3. EndInv({"MODEL_STOP"})
  BY DEF EndInv, Gone, Owing
<1>4. CodeInv({"MODEL_STOP"})
  BY DEF CodeInv, Reports
<1>5. StudioInv({"MODEL_STOP"})
  BY DEF StudioInv
<1>6. ConsoleInv({"MODEL_STOP"})
  BY DEF ConsoleInv, Closing
<1>. QED  BY <1>1, <1>2, <1>3, <1>4, <1>5, <1>6, OnlyTodo DEF UserStop

LEMMA UserBuildKeeps ==
  ASSUME IInv, UserBuild
  PROVE  IInv'
<1>1. StackOK(todo)' /\ Marks(todo) = {} /\ Marks(todo)' = {"MODEL_BUILD"}
  <2> DEFINE x == Cast("MODEL_BUILD", "kernel")
  <2>1. x \in Item /\ Mark(x) = "MODEL_BUILD"
    BY MarkOf, Items DEF CastMark, Reports, RepTells, Asks, RunTells, SimTells
  <2>2. todo = <<>> /\ todo' = <<x>>
    BY DEF UserBuild, Build, UserTurn
  <2> HIDE DEF x
  <2>3. Fits("MODEL_BUILD", {}, 0)
    BY DEF Fits, Closing, Files, Between, NotBuilt, Opening
  <2>. QED  BY <2>1, <2>2, <2>3, StartOne
<1>2. (Registered' <=> Registered) /\ (IsStudio' <=> IsStudio)
  BY SameThreads DEF UserBuild, Build, UserTurn
<1> USE <1>1, <1>2 DEF IInv, MInv, Some, UserBuild, Build, UserTurn, serviceVars, fileVars,
        studioVars, history
<1>3. Values'
  BY DEF Values
<1>4. RunInv(Marks(todo))'
  BY DEF RunInv, NoRun, StudioInv, EndInv, Gone, Owing
<1>5. EndInv(Marks(todo))'
  BY DEF EndInv, Gone, Owing
<1>6. CodeInv(Marks(todo))'
  BY DEF CodeInv, Reports
<1>7. StudioInv(Marks(todo))'
  BY DEF StudioInv
<1>8. ConsoleInv(Marks(todo))'
  BY DEF ConsoleInv, Closing
<1>. QED  BY <1>1, <1>3, <1>4, <1>5, <1>6, <1>7, <1>8

LEMMA UserRunKeeps ==
  ASSUME IInv, UserRun
  PROVE  IInv'
<1>1. StackOK(todo)' /\ Marks(todo) = {} /\ Marks(todo)' = {"MODEL_BUILD", "run"}
  <2> DEFINE x == Cast("MODEL_BUILD", "kernel")
             y == Call("run", "studio")
  <2>1. x \in Item /\ Mark(x) = "MODEL_BUILD" /\ y \in Item /\ Mark(y) = "run"
    BY MarkOf, Items DEF CastMark, Reports, RepTells, CallMark, Asks, RunTells, SimTells, Calls,
       Threads, Closings
  <2>2. todo = <<>> /\ todo' = <<x>> \o <<y>>
    BY DEF UserRun, Build, UserTurn
  <2> HIDE DEF x, y
  <2>3. Fits("run", {}, 0) /\ Fits("MODEL_BUILD", {"run"}, 1)
    BY DEF Fits, Closing, Files, Between, NotBuilt, Opening
  <2>. QED  BY <2>1, <2>2, <2>3, StartTwo
<1>2. (Registered' <=> Registered) /\ (IsStudio' <=> IsStudio)
  BY SameThreads DEF UserRun, Build, UserTurn
<1> USE <1>1, <1>2 DEF IInv, MInv, Some, UserRun, Build, UserTurn, serviceVars, fileVars,
        studioVars, history
<1>3. Values'
  BY DEF Values
<1>4. RunInv(Marks(todo))'
  BY DEF RunInv, NoRun, StudioInv, EndInv, Gone, Owing
<1>5. EndInv(Marks(todo))'
  BY DEF EndInv, Gone, Owing
<1>6. CodeInv(Marks(todo))'
  BY DEF CodeInv, Reports
<1>7. StudioInv(Marks(todo))'
  BY DEF StudioInv
<1>8. ConsoleInv(Marks(todo))'
  BY DEF ConsoleInv, Closing
<1>. QED  BY <1>1, <1>3, <1>4, <1>5, <1>6, <1>7, <1>8

LEMMA ConsoleMainKeeps ==
  ASSUME IInv, ConsoleMain
  PROVE  IInv'
<1>1. CASE console.at = "open" /\ todo' = <<Cast("MODEL_OPEN", "console")>>
           /\ console' = [console EXCEPT !.at = "build"]
  <2>1. StackOK(todo)' /\ Marks(todo) = {} /\ Marks(todo)' = {"MODEL_OPEN"}
    <3> DEFINE x == Cast("MODEL_OPEN", "console")
    <3>1. x \in Item /\ Mark(x) = "MODEL_OPEN"
      BY MarkOf, Items DEF CastMark, Reports, RepTells, Asks, RunTells, SimTells
    <3>2. todo = <<>> /\ todo' = <<x>>
      BY <1>1 DEF ConsoleMain
    <3> HIDE DEF x
    <3>3. Fits("MODEL_OPEN", {}, 0)
      BY DEF Fits, Closing, Files, Between, NotBuilt, Opening
    <3>. QED  BY <3>1, <3>2, <3>3, StartOne
  <2>2. (Registered' <=> Registered) /\ (IsStudio' <=> IsStudio)
    BY <1>1, SameThreads DEF ConsoleMain
  <2> USE <1>1, <2>1, <2>2 DEF IInv, MInv, Some, ConsoleMain, serviceVars, fileVars, studioVars,
          history
  <2>3. Values'
    BY DEF Values, ConsoleEnd
  <2>4. RunInv(Marks(todo))'
    BY DEF RunInv, NoRun, ConsoleInv, EndInv, Gone, Owing
  <2>5. EndInv(Marks(todo))'
    BY DEF EndInv, Gone, Owing, ConsoleInv
  <2>6. CodeInv(Marks(todo))'
    BY DEF CodeInv, Reports
  <2>7. StudioInv(Marks(todo))'
    BY DEF StudioInv
  <2>8. ConsoleInv(Marks(todo))'
    <3>1. /\ console'.at = "build" /\ console'.state = console.state
          /\ console'.buildError = console.buildError
          /\ console'.runtimeError = console.runtimeError
      BY DEF Values
    <3>. QED  BY <3>1 DEF ConsoleInv, Closing, ConsoleEnd, EndInv, Gone, Owing
  <2>. QED  BY <2>1, <2>3, <2>4, <2>5, <2>6, <2>7, <2>8
<1>2. CASE console.at = "build" /\ todo' = <<Cast("MODEL_BUILD", "console")>>
           /\ console' = [console EXCEPT !.at = "run"]
  <2>1. StackOK(todo)' /\ Marks(todo) = {} /\ Marks(todo)' = {"MODEL_BUILD"}
    <3> DEFINE x == Cast("MODEL_BUILD", "console")
    <3>1. x \in Item /\ Mark(x) = "MODEL_BUILD"
      BY MarkOf, Items DEF CastMark, Reports, RepTells, Asks, RunTells, SimTells
    <3>2. todo = <<>> /\ todo' = <<x>>
      BY <1>2 DEF ConsoleMain
    <3> HIDE DEF x
    <3>3. Fits("MODEL_BUILD", {}, 0)
      BY DEF Fits, Closing, Files, Between, NotBuilt, Opening
    <3>. QED  BY <3>1, <3>2, <3>3, StartOne
  <2>2. (Registered' <=> Registered) /\ (IsStudio' <=> IsStudio)
    BY <1>2, SameThreads DEF ConsoleMain
  <2> USE <1>2, <2>1, <2>2 DEF IInv, MInv, Some, ConsoleMain, serviceVars, fileVars, studioVars,
          history
  <2>3. Values'
    BY DEF Values, ConsoleEnd
  <2>4. RunInv(Marks(todo))'
    BY DEF RunInv, NoRun, ConsoleInv, EndInv, Gone, Owing
  <2>5. EndInv(Marks(todo))'
    BY DEF EndInv, Gone, Owing, ConsoleInv
  <2>6. CodeInv(Marks(todo))'
    BY DEF CodeInv, Reports
  <2>7. StudioInv(Marks(todo))'
    BY DEF StudioInv
  <2>8. ConsoleInv(Marks(todo))'
    <3>1. /\ console'.at = "run" /\ console'.state = console.state
          /\ console'.buildError = console.buildError
          /\ console'.runtimeError = console.runtimeError
      BY DEF Values
    <3>. QED  BY <3>1 DEF ConsoleInv, Closing, ConsoleEnd, EndInv, Gone, Owing
  <2>. QED  BY <2>1, <2>3, <2>4, <2>5, <2>6, <2>7, <2>8
<1>3. CASE console.at = "run" /\ ~console.buildError /\ todo' = <<Cast("MODEL_RUN", "console")>>
           /\ console' = [console EXCEPT !.at = "loop"]
  <2>1. StackOK(todo)' /\ Marks(todo) = {} /\ Marks(todo)' = {"MODEL_RUN"}
    <3> DEFINE x == Cast("MODEL_RUN", "console")
    <3>1. x \in Item /\ Mark(x) = "MODEL_RUN"
      BY MarkOf, Items DEF CastMark, Reports, RepTells, Asks, RunTells, SimTells
    <3>2. todo = <<>> /\ todo' = <<x>>
      BY <1>3 DEF ConsoleMain
    <3> HIDE DEF x
    <3>3. Fits("MODEL_RUN", {}, 0)
      BY DEF Fits, Closing, Files, Between, NotBuilt, Opening
    <3>. QED  BY <3>1, <3>2, <3>3, StartOne
  <2>2. (Registered' <=> Registered) /\ (IsStudio' <=> IsStudio)
    BY <1>3, SameThreads DEF ConsoleMain
  <2> USE <1>3, <2>1, <2>2 DEF IInv, MInv, Some, ConsoleMain, serviceVars, fileVars, studioVars,
          history
  <2>3. Values'
    BY DEF Values, ConsoleEnd
  <2>4. RunInv(Marks(todo))'
    BY DEF RunInv, NoRun, ConsoleInv, EndInv, Gone, Owing
  <2>5. EndInv(Marks(todo))'
    BY DEF EndInv, Gone, Owing, ConsoleInv
  <2>6. CodeInv(Marks(todo))'
    BY DEF CodeInv, Reports
  <2>7. StudioInv(Marks(todo))'
    BY DEF StudioInv
  <2>8. ConsoleInv(Marks(todo))'
    <3>1. /\ console'.at = "loop" /\ console'.state = console.state
          /\ console'.buildError = console.buildError
          /\ console'.runtimeError = console.runtimeError
      BY DEF Values
    <3>. QED  BY <3>1 DEF ConsoleInv, Closing, ConsoleEnd, EndInv, Gone, Owing
  <2>. QED  BY <2>1, <2>3, <2>4, <2>5, <2>6, <2>7, <2>8
<1>4. CASE console.at = "run" /\ console' = [console EXCEPT !.at = "buildFailed"] /\ UNCHANGED todo
  <2>1. StackOK(todo)' /\ Marks(todo) = {} /\ Marks(todo)' = {}
    BY <1>4, Empty DEF ConsoleMain, Marks
  <2>2. (Registered' <=> Registered) /\ (IsStudio' <=> IsStudio)
    BY <1>4, SameThreads DEF ConsoleMain
  <2> USE <1>4, <2>1, <2>2 DEF IInv, MInv, Some, ConsoleMain, serviceVars, fileVars, studioVars,
          history
  <2>3. Values'
    BY DEF Values, ConsoleEnd
  <2>4. RunInv(Marks(todo))'
    BY DEF RunInv, NoRun, ConsoleInv, EndInv, Gone, Owing
  <2>5. EndInv(Marks(todo))'
    BY DEF EndInv, Gone, Owing, ConsoleInv
  <2>6. CodeInv(Marks(todo))'
    BY DEF CodeInv, Reports
  <2>7. StudioInv(Marks(todo))'
    BY DEF StudioInv
  <2>8. ConsoleInv(Marks(todo))'
    <3>1. /\ console'.at = "buildFailed" /\ console'.state = console.state
          /\ console'.buildError = console.buildError
          /\ console'.runtimeError = console.runtimeError
      BY DEF Values
    <3>. QED  BY <3>1 DEF ConsoleInv, Closing, ConsoleEnd, EndInv, Gone, Owing
  <2>. QED  BY <2>1, <2>3, <2>4, <2>5, <2>6, <2>7, <2>8
<1>5. CASE console.at = "check" /\ console.runtimeError
           /\ console' = [console EXCEPT !.at = "runFailed"] /\ UNCHANGED todo
  <2>1. StackOK(todo)' /\ Marks(todo) = {} /\ Marks(todo)' = {}
    BY <1>5, Empty DEF ConsoleMain, Marks
  <2>2. (Registered' <=> Registered) /\ (IsStudio' <=> IsStudio)
    BY <1>5, SameThreads DEF ConsoleMain
  <2> USE <1>5, <2>1, <2>2 DEF IInv, MInv, Some, ConsoleMain, serviceVars, fileVars, studioVars,
          history
  <2>3. Values'
    BY DEF Values, ConsoleEnd
  <2>4. RunInv(Marks(todo))'
    BY DEF RunInv, NoRun, ConsoleInv, EndInv, Gone, Owing
  <2>5. EndInv(Marks(todo))'
    BY DEF EndInv, Gone, Owing, ConsoleInv
  <2>6. CodeInv(Marks(todo))'
    BY DEF CodeInv, Reports
  <2>7. StudioInv(Marks(todo))'
    BY DEF StudioInv
  <2>8. ConsoleInv(Marks(todo))'
    <3>1. /\ console'.at = "runFailed" /\ console'.state = console.state
          /\ console'.buildError = console.buildError
          /\ console'.runtimeError = console.runtimeError
      BY DEF Values
    <3>. QED  BY <3>1 DEF ConsoleInv, Closing, ConsoleEnd, EndInv, Gone, Owing
  <2>. QED  BY <2>1, <2>3, <2>4, <2>5, <2>6, <2>7, <2>8
<1>6. CASE console.at = "check" /\ ~console.runtimeError
           /\ console' = [console EXCEPT !.at = "loop"] /\ UNCHANGED todo
  <2>1. StackOK(todo)' /\ Marks(todo) = {} /\ Marks(todo)' = {}
    BY <1>6, Empty DEF ConsoleMain, Marks
  <2>2. (Registered' <=> Registered) /\ (IsStudio' <=> IsStudio)
    BY <1>6, SameThreads DEF ConsoleMain
  <2> USE <1>6, <2>1, <2>2 DEF IInv, MInv, Some, ConsoleMain, serviceVars, fileVars, studioVars,
          history
  <2>3. Values'
    BY DEF Values, ConsoleEnd
  <2>4. RunInv(Marks(todo))'
    BY DEF RunInv, NoRun, ConsoleInv, EndInv, Gone, Owing
  <2>5. EndInv(Marks(todo))'
    BY DEF EndInv, Gone, Owing, ConsoleInv
  <2>6. CodeInv(Marks(todo))'
    BY DEF CodeInv, Reports
  <2>7. StudioInv(Marks(todo))'
    BY DEF StudioInv
  <2>8. ConsoleInv(Marks(todo))'
    <3>1. /\ console'.at = "loop" /\ console'.state = console.state
          /\ console'.buildError = console.buildError
          /\ console'.runtimeError = console.runtimeError
      BY DEF Values
    <3>. QED  BY <3>1 DEF ConsoleInv, Closing, ConsoleEnd, EndInv, Gone, Owing
  <2>. QED  BY <2>1, <2>3, <2>4, <2>5, <2>6, <2>7, <2>8
<1>7. CASE console.at = "loop" /\ console.state = "FINISHED"
           /\ console' = [console EXCEPT !.at = "success"] /\ UNCHANGED todo
  <2>1. StackOK(todo)' /\ Marks(todo) = {} /\ Marks(todo)' = {}
    BY <1>7, Empty DEF ConsoleMain, Marks
  <2>2. (Registered' <=> Registered) /\ (IsStudio' <=> IsStudio)
    BY <1>7, SameThreads DEF ConsoleMain
  <2> USE <1>7, <2>1, <2>2 DEF IInv, MInv, Some, ConsoleMain, serviceVars, fileVars, studioVars,
          history
  <2>3. Values'
    BY DEF Values, ConsoleEnd
  <2>4. RunInv(Marks(todo))'
    BY DEF RunInv, NoRun, ConsoleInv, EndInv, Gone, Owing
  <2>5. EndInv(Marks(todo))'
    BY DEF EndInv, Gone, Owing, ConsoleInv
  <2>6. CodeInv(Marks(todo))'
    BY DEF CodeInv, Reports
  <2>7. StudioInv(Marks(todo))'
    BY DEF StudioInv
  <2>8. ConsoleInv(Marks(todo))'
    <3>1. /\ console'.at = "success" /\ console'.state = console.state
          /\ console'.buildError = console.buildError
          /\ console'.runtimeError = console.runtimeError
      BY DEF Values
    <3>2. ~owed /\ verdict = "STOP_OK" /\ ~Registered
      BY DEF ConsoleInv, EndInv, Gone, Owing, Values, Reports
    <3>. QED  BY <3>1, <3>2 DEF ConsoleInv, Closing, ConsoleEnd, EndInv, Gone, Owing
  <2>. QED  BY <2>1, <2>3, <2>4, <2>5, <2>6, <2>7, <2>8
<1>8. CASE console.at = "loop" /\ console.state = "FINISHED"
           /\ console' = [console EXCEPT !.at = "withErrors"] /\ UNCHANGED todo
  <2>1. StackOK(todo)' /\ Marks(todo) = {} /\ Marks(todo)' = {}
    BY <1>8, Empty DEF ConsoleMain, Marks
  <2>2. (Registered' <=> Registered) /\ (IsStudio' <=> IsStudio)
    BY <1>8, SameThreads DEF ConsoleMain
  <2> USE <1>8, <2>1, <2>2 DEF IInv, MInv, Some, ConsoleMain, serviceVars, fileVars, studioVars,
          history
  <2>3. Values'
    BY DEF Values, ConsoleEnd
  <2>4. RunInv(Marks(todo))'
    BY DEF RunInv, NoRun, ConsoleInv, EndInv, Gone, Owing
  <2>5. EndInv(Marks(todo))'
    BY DEF EndInv, Gone, Owing, ConsoleInv
  <2>6. CodeInv(Marks(todo))'
    BY DEF CodeInv, Reports
  <2>7. StudioInv(Marks(todo))'
    BY DEF StudioInv
  <2>8. ConsoleInv(Marks(todo))'
    <3>1. /\ console'.at = "withErrors" /\ console'.state = console.state
          /\ console'.buildError = console.buildError
          /\ console'.runtimeError = console.runtimeError
      BY DEF Values
    <3>2. ~owed /\ verdict = "STOP_OK" /\ ~Registered
      BY DEF ConsoleInv, EndInv, Gone, Owing, Values, Reports
    <3>. QED  BY <3>1, <3>2 DEF ConsoleInv, Closing, ConsoleEnd, EndInv, Gone, Owing
  <2>. QED  BY <2>1, <2>3, <2>4, <2>5, <2>6, <2>7, <2>8
<1>. QED  BY <1>1, <1>2, <1>3, <1>4, <1>5, <1>6, <1>7, <1>8 DEF ConsoleMain

LEMMA ConsoleHearsKeeps ==
  ASSUME IInv, ConsoleHears
  PROVE  IInv'
<1>1. CASE Head1(Hear("START_BEFORE", "console"))
           /\ console' = [console EXCEPT !.state = "IN_PROGRESS"]
  <2>1. StackOK(todo)' /\ Becomes("startBefore", {})
    <3> DEFINE h == Hear("START_BEFORE", "console")
    <3>1. Mark(h) = "startBefore"
      BY MarkOf DEF HearMark, Reports, RepTells
    <3>2. StackOK(todo) /\ Head1(h) /\ Do(<<>>)
      BY <1>1 DEF IInv, ConsoleHears
    <3> HIDE DEF h
    <3>. QED  BY <3>1, <3>2, DoNone
  <2>2. PICK S : /\ \E n : Fits("startBefore", S, n)
                 /\ Marks(todo) = {"startBefore"} \cup S
                 /\ Marks(todo)' = S
    BY <2>1 DEF Becomes
  <2>3. (Registered' <=> Registered) /\ (IsStudio' <=> IsStudio)
    BY SameThreads DEF ConsoleHears
  <2>4. UNCHANGED <<threads, serviceVars, fileVars, studioVars, history>>
    BY DEF ConsoleHears
  <2> USE <1>1, <2>2, <2>3, <2>4 DEF IInv, MInv, serviceVars, fileVars, studioVars, history
  <2>5. Values'
    BY DEF Values, ConsoleEnd
  <2> USE DEF Fits, Some, Between, Ends, ByItself, ByUser, NotBuilt, Opening, Waits, UserStops,
       Files
  <2>6. RunInv(Marks(todo))'
    BY DEF RunInv, NoRun
  <2>7. EndInv(Marks(todo))'
    BY DEF EndInv, Gone, Owing
  <2>8. CodeInv(Marks(todo))'
    BY DEF CodeInv, Reports
  <2>9. StudioInv(Marks(todo))'
    BY DEF StudioInv
  <2>10. ConsoleInv(Marks(todo))'
    <3>1. /\ console'.at = console.at /\ console'.state = "IN_PROGRESS"
          /\ console'.buildError = console.buildError
          /\ console'.runtimeError = console.runtimeError
      BY DEF Values
    <3>2. owed
      BY DEF RunInv
    <3>. QED  BY <3>1, <3>2 DEF ConsoleInv, Closing, ConsoleEnd
  <2>. QED  BY <2>1, <2>5, <2>6, <2>7, <2>8, <2>9, <2>10
<1>2. CASE Head1(Hear("STOP_AFTER", "console")) /\ console' = [console EXCEPT !.state = "FINISHED"]
  <2>1. StackOK(todo)' /\ Becomes("stopAfter", {})
    <3> DEFINE h == Hear("STOP_AFTER", "console")
    <3>1. Mark(h) = "stopAfter"
      BY MarkOf DEF HearMark, Reports, RepTells
    <3>2. StackOK(todo) /\ Head1(h) /\ Do(<<>>)
      BY <1>2 DEF IInv, ConsoleHears
    <3> HIDE DEF h
    <3>. QED  BY <3>1, <3>2, DoNone
  <2>2. PICK S : /\ \E n : Fits("stopAfter", S, n)
                 /\ Marks(todo) = {"stopAfter"} \cup S
                 /\ Marks(todo)' = S
    BY <2>1 DEF Becomes
  <2>3. (Registered' <=> Registered) /\ (IsStudio' <=> IsStudio)
    BY SameThreads DEF ConsoleHears
  <2>4. UNCHANGED <<threads, serviceVars, fileVars, studioVars, history>>
    BY DEF ConsoleHears
  <2> USE <1>2, <2>2, <2>3, <2>4 DEF IInv, MInv, serviceVars, fileVars, studioVars, history
  <2>5. Values'
    BY DEF Values, ConsoleEnd
  <2> USE DEF Fits, Some, Between, Ends, ByItself, ByUser, NotBuilt, Opening, Waits, UserStops,
       Files
  <2>6. RunInv(Marks(todo))'
    BY DEF RunInv, NoRun
  <2>7. EndInv(Marks(todo))'
    BY DEF EndInv, Gone, Owing
  <2>8. CodeInv(Marks(todo))'
    BY DEF CodeInv, Reports
  <2>9. StudioInv(Marks(todo))'
    BY DEF StudioInv
  <2>10. ConsoleInv(Marks(todo))'
    <3>1. /\ console'.at = console.at /\ console'.state = "FINISHED"
          /\ console'.buildError = console.buildError
          /\ console'.runtimeError = console.runtimeError
      BY DEF Values
    <3>2. owed /\ ~Registered
      BY DEF EndInv, Gone, Owing
    <3>. QED  BY <3>1, <3>2 DEF ConsoleInv, Closing, ConsoleEnd
  <2>. QED  BY <2>1, <2>5, <2>6, <2>7, <2>8, <2>9, <2>10
<1>3. CASE Head1(Hear("PARSE_ERROR", "console")) /\ console' = [console EXCEPT !.buildError = TRUE]
  <2>1. StackOK(todo)' /\ Becomes("consoleParseError", {})
    <3> DEFINE h == Hear("PARSE_ERROR", "console")
    <3>1. Mark(h) = "consoleParseError"
      BY MarkOf DEF HearMark, Reports, RepTells
    <3>2. StackOK(todo) /\ Head1(h) /\ Do(<<>>)
      BY <1>3 DEF IInv, ConsoleHears
    <3> HIDE DEF h
    <3>. QED  BY <3>1, <3>2, DoNone
  <2>2. PICK S : /\ \E n : Fits("consoleParseError", S, n)
                 /\ Marks(todo) = {"consoleParseError"} \cup S
                 /\ Marks(todo)' = S
    BY <2>1 DEF Becomes
  <2>3. (Registered' <=> Registered) /\ (IsStudio' <=> IsStudio)
    BY SameThreads DEF ConsoleHears
  <2>4. UNCHANGED <<threads, serviceVars, fileVars, studioVars, history>>
    BY DEF ConsoleHears
  <2> USE <1>3, <2>2, <2>3, <2>4 DEF IInv, MInv, serviceVars, fileVars, studioVars, history
  <2>5. Values'
    BY DEF Values, ConsoleEnd
  <2> USE DEF Fits, Some, Between, Ends, ByItself, ByUser, NotBuilt, Opening, Waits, UserStops,
       Files
  <2>6. RunInv(Marks(todo))'
    BY DEF RunInv, NoRun
  <2>7. EndInv(Marks(todo))'
    BY DEF EndInv, Gone, Owing
  <2>8. CodeInv(Marks(todo))'
    BY DEF CodeInv, Reports
  <2>9. StudioInv(Marks(todo))'
    BY DEF StudioInv
  <2>10. ConsoleInv(Marks(todo))'
    <3>1. /\ console'.at = console.at /\ console'.state = console.state
          /\ console'.buildError = TRUE /\ console'.runtimeError = console.runtimeError
      BY DEF Values
    <3>. QED  BY <3>1 DEF ConsoleInv, Closing, ConsoleEnd
  <2>. QED  BY <2>1, <2>5, <2>6, <2>7, <2>8, <2>9, <2>10
<1>4. CASE Head1(Hear("STOP_RUNTIME_ERROR", "console"))
           /\ console' = [console EXCEPT !.runtimeError = TRUE]
  <2>1. StackOK(todo)' /\ Becomes("consoleFails", {})
    <3> DEFINE h == Hear("STOP_RUNTIME_ERROR", "console")
    <3>1. Mark(h) = "consoleFails"
      BY MarkOf DEF HearMark, Reports, RepTells
    <3>2. StackOK(todo) /\ Head1(h) /\ Do(<<>>)
      BY <1>4 DEF IInv, ConsoleHears
    <3> HIDE DEF h
    <3>. QED  BY <3>1, <3>2, DoNone
  <2>2. PICK S : /\ \E n : Fits("consoleFails", S, n)
                 /\ Marks(todo) = {"consoleFails"} \cup S
                 /\ Marks(todo)' = S
    BY <2>1 DEF Becomes
  <2>3. (Registered' <=> Registered) /\ (IsStudio' <=> IsStudio)
    BY SameThreads DEF ConsoleHears
  <2>4. UNCHANGED <<threads, serviceVars, fileVars, studioVars, history>>
    BY DEF ConsoleHears
  <2> USE <1>4, <2>2, <2>3, <2>4 DEF IInv, MInv, serviceVars, fileVars, studioVars, history
  <2>5. Values'
    BY DEF Values, ConsoleEnd
  <2> USE DEF Fits, Some, Between, Ends, ByItself, ByUser, NotBuilt, Opening, Waits, UserStops,
       Files
  <2>6. RunInv(Marks(todo))'
    BY DEF RunInv, NoRun
  <2>7. EndInv(Marks(todo))'
    BY DEF EndInv, Gone, Owing
  <2>8. CodeInv(Marks(todo))'
    BY DEF CodeInv, Reports
  <2>9. StudioInv(Marks(todo))'
    BY DEF StudioInv
  <2>10. ConsoleInv(Marks(todo))'
    <3>1. /\ console'.at = console.at /\ console'.state = console.state
          /\ console'.buildError = console.buildError /\ console'.runtimeError = TRUE
      BY DEF Values
    <3>2. ~IsStudio => ~owed /\ verdict = "STOP_RUNTIME_ERROR" /\ console.at = "check"
      BY DEF ConsoleInv, Closing
    <3>. QED  BY <3>1, <3>2 DEF ConsoleInv, Closing, ConsoleEnd
  <2>. QED  BY <2>1, <2>5, <2>6, <2>7, <2>8, <2>9, <2>10
<1>. QED  BY <1>1, <1>2, <1>3, <1>4 DEF ConsoleHears, Notifies, Head1, Hear

-----------------------------------------------------------------------------
(***************************************************************************)
(* The run comes into the list of the kernel and leaves it.                *)
(***************************************************************************)
LEMMA Lists ==
  /\ StudioThreads \in Seq(Threads) /\ Len(StudioThreads) = 4 /\ DOMAIN StudioThreads = 1..4
     /\ StudioThreads[1] = "simulator" /\ StudioThreads[2] = "repository"
     /\ StudioThreads[3] = "tracer" /\ StudioThreads[4] = "studio"
  /\ StudioRuns \in Seq(Threads) /\ Len(StudioRuns) = 5 /\ DOMAIN StudioRuns = 1..5
     /\ StudioRuns[1] = "simulator" /\ StudioRuns[2] = "repository"
     /\ StudioRuns[3] = "tracer" /\ StudioRuns[4] = "studio"
     /\ StudioRuns[5] = "runtime"
  /\ ConsoleThreads \in Seq(Threads) /\ Len(ConsoleThreads) = 3 /\ DOMAIN ConsoleThreads = 1..3
     /\ ConsoleThreads[1] = "simulator" /\ ConsoleThreads[2] = "repository"
     /\ ConsoleThreads[3] = "console"
  /\ ConsoleRuns \in Seq(Threads) /\ Len(ConsoleRuns) = 4 /\ DOMAIN ConsoleRuns = 1..4
     /\ ConsoleRuns[1] = "simulator" /\ ConsoleRuns[2] = "repository"
     /\ ConsoleRuns[3] = "console" /\ ConsoleRuns[4] = "runtime"
<1>1. {"simulator", "repository", "tracer", "studio", "console", "runtime"} = Threads
  BY DEF Threads
<1>. QED  BY <1>1 DEF Threads, StudioThreads, StudioRuns, ConsoleThreads, ConsoleRuns

LEMMA OneMore ==
  ASSUME NEW s \in Seq(Threads), NEW x \in Threads
  PROVE  /\ Append(s, x) \in Seq(Threads) /\ Len(Append(s, x)) = Len(s) + 1
         /\ \A i \in 1..Len(s) : Append(s, x)[i] = s[i]
         /\ Append(s, x)[Len(s) + 1] = x
OBVIOUS

LEMMA Adding ==
  /\ Append(StudioThreads, "runtime") = StudioRuns
  /\ Append(ConsoleThreads, "runtime") = ConsoleRuns
<1>1. "runtime" \in Threads
  BY DEF Threads
<1>2. Append(StudioThreads, "runtime") = StudioRuns
  <2> DEFINE s == Append(StudioThreads, "runtime")
  <2>1. StudioThreads \in Seq(Threads) /\ Len(StudioThreads) = 4
    BY Lists
  <2>2. /\ s \in Seq(Threads) /\ Len(s) = Len(StudioThreads) + 1
        /\ \A i \in 1..Len(StudioThreads) : s[i] = StudioThreads[i]
        /\ s[Len(StudioThreads) + 1] = "runtime"
    BY <1>1, <2>1, OneMore
  <2> HIDE DEF s
  <2>3. \A i \in 1..5 : s[i] = StudioRuns[i]
    BY <2>1, <2>2, Lists
  <2>4. Len(s) = 5
    BY <2>1, <2>2
  <2>5. s = StudioRuns
    BY <2>2, <2>3, <2>4, Lists, SeqEqual
  <2>. QED  BY <2>5 DEF s
<1>3. Append(ConsoleThreads, "runtime") = ConsoleRuns
  <2> DEFINE s == Append(ConsoleThreads, "runtime")
  <2>1. ConsoleThreads \in Seq(Threads) /\ Len(ConsoleThreads) = 3
    BY Lists
  <2>2. /\ s \in Seq(Threads) /\ Len(s) = Len(ConsoleThreads) + 1
        /\ \A i \in 1..Len(ConsoleThreads) : s[i] = ConsoleThreads[i]
        /\ s[Len(ConsoleThreads) + 1] = "runtime"
    BY <1>1, <2>1, OneMore
  <2> HIDE DEF s
  <2>3. \A i \in 1..4 : s[i] = ConsoleRuns[i]
    BY <2>1, <2>2, Lists
  <2>4. Len(s) = 4
    BY <2>1, <2>2
  <2>5. s = ConsoleRuns
    BY <2>2, <2>3, <2>4, Lists, SeqEqual
  <2>. QED  BY <2>5 DEF s
<1>. QED  BY <1>2, <1>3

LEMMA Removing ==
  /\ SubSeq(StudioRuns, 1, 5 - 1) \o SubSeq(StudioRuns, 5 + 1, 5) = StudioThreads
  /\ SubSeq(ConsoleRuns, 1, 4 - 1) \o SubSeq(ConsoleRuns, 4 + 1, 4) = ConsoleThreads
<1>1. SubSeq(StudioRuns, 1, 5 - 1) \o SubSeq(StudioRuns, 5 + 1, 5) = StudioThreads
  <2> DEFINE s == SubSeq(StudioRuns, 1, 5 - 1)
  <2>1. \A i \in 1..4 : StudioRuns[i] \in Threads /\ StudioRuns[i] = StudioThreads[i]
    BY Lists DEF Threads
  <2>2. /\ s \in Seq(Threads) /\ Len(s) = 4
        /\ \A i \in 1..4 : s[i] = StudioRuns[1 + i - 1]
    BY <2>1, SubSeqProperties
  <2>3. SubSeq(StudioRuns, 5 + 1, 5) = <<>>
    BY SubSeqEmpty
  <2> HIDE DEF s
  <2>4. \A i \in 1..4 : s[i] = StudioThreads[i]
    BY <2>1, <2>2
  <2>5. s = StudioThreads
    BY <2>2, <2>4, Lists, SeqEqual
  <2>6. s \o <<>> = s
    BY <2>2, ConcatEmptySeq
  <2>. QED  BY <2>3, <2>5, <2>6 DEF s
<1>2. SubSeq(ConsoleRuns, 1, 4 - 1) \o SubSeq(ConsoleRuns, 4 + 1, 4) = ConsoleThreads
  <2> DEFINE s == SubSeq(ConsoleRuns, 1, 4 - 1)
  <2>1. \A i \in 1..3 : ConsoleRuns[i] \in Threads /\ ConsoleRuns[i] = ConsoleThreads[i]
    BY Lists DEF Threads
  <2>2. /\ s \in Seq(Threads) /\ Len(s) = 3
        /\ \A i \in 1..3 : s[i] = ConsoleRuns[1 + i - 1]
    BY <2>1, SubSeqProperties
  <2>3. SubSeq(ConsoleRuns, 4 + 1, 4) = <<>>
    BY SubSeqEmpty
  <2> HIDE DEF s
  <2>4. \A i \in 1..3 : s[i] = ConsoleThreads[i]
    BY <2>1, <2>2
  <2>5. s = ConsoleThreads
    BY <2>2, <2>4, Lists, SeqEqual
  <2>6. s \o <<>> = s
    BY <2>2, ConcatEmptySeq
  <2>. QED  BY <2>3, <2>5, <2>6 DEF s
<1>. QED  BY <1>1, <1>2

LEMMA WhoIsThere ==
  ASSUME NEW s \in {StudioThreads, StudioRuns, ConsoleThreads, ConsoleRuns}
  PROVE  /\ (\E i \in DOMAIN s : s[i] = "runtime") <=> s \in {StudioRuns, ConsoleRuns}
         /\ (\E i \in DOMAIN s : s[i] = "studio") <=> s \in {StudioThreads, StudioRuns}
<1>1. CASE s = StudioThreads
  <2>1. s \notin {StudioRuns, ConsoleRuns}
    BY <1>1, Lists
  <2>. QED  BY <1>1, <2>1, Lists
<1>2. CASE s = StudioRuns
  BY <1>2, Lists
<1>3. CASE s = ConsoleThreads
  <2>1. s \notin {StudioThreads, StudioRuns, ConsoleRuns}
    BY <1>3, Lists
  <2>. QED  BY <1>3, <2>1, Lists
<1>4. CASE s = ConsoleRuns
  <2>1. s \notin {StudioThreads, StudioRuns}
    BY <1>4, Lists
  <2>. QED  BY <1>4, <2>1, Lists
<1>. QED  BY <1>1, <1>2, <1>3, <1>4

LEMMA NowThere ==
  ASSUME threads' \in {StudioThreads, StudioRuns, ConsoleThreads, ConsoleRuns}
  PROVE  /\ Registered' <=> threads' \in {StudioRuns, ConsoleRuns}
         /\ IsStudio' <=> threads' \in {StudioThreads, StudioRuns}
BY WhoIsThere DEF Registered, IsStudio

LEMMA AllDifferent ==
  /\ StudioRuns # ConsoleRuns /\ StudioThreads # ConsoleThreads /\ StudioThreads # StudioRuns
  /\ StudioRuns # ConsoleThreads /\ ConsoleRuns # StudioThreads /\ ConsoleRuns # ConsoleThreads
BY Lists

LEMMA Registers ==
  ASSUME Values, ~Registered, threads' = Append(threads, "runtime")
  PROVE  /\ threads' \in {StudioRuns, ConsoleRuns}
         /\ Registered' /\ (IsStudio' <=> IsStudio)
<1>1. threads \in {StudioThreads, ConsoleThreads} /\ (IsStudio <=> threads = StudioThreads)
  <2>1. threads \in {StudioThreads, StudioRuns, ConsoleThreads, ConsoleRuns}
    BY DEF Values
  <2>. QED  BY <2>1, WhoIsThere DEF Registered, IsStudio
<1>2. \/ threads = StudioThreads /\ threads' = StudioRuns
      \/ threads = ConsoleThreads /\ threads' = ConsoleRuns
  BY <1>1, Adding
<1>. QED  BY <1>1, <1>2, NowThere, AllDifferent

LEMMA PlaceOfTheRun ==
  ASSUME Values, Registered, NEW i, i = CHOOSE j \in DOMAIN threads : threads[j] = "runtime"
  PROVE  /\ \/ threads = StudioRuns /\ i = 5 /\ Len(threads) = 5 /\ IsStudio
            \/ threads = ConsoleRuns /\ i = 4 /\ Len(threads) = 4 /\ ~IsStudio
<1>1. threads \in {StudioRuns, ConsoleRuns} /\ (IsStudio <=> threads = StudioRuns)
  <2>1. threads \in {StudioThreads, StudioRuns, ConsoleThreads, ConsoleRuns}
    BY DEF Values
  <2>. QED  BY <2>1, WhoIsThere, AllDifferent DEF Registered, IsStudio
<1>2. i \in DOMAIN threads /\ threads[i] = "runtime"
  BY DEF Registered
<1>. QED  BY <1>1, <1>2, Lists, AllDifferent

LEMMA Unregisters ==
  ASSUME Values, Registered, NEW i, i = CHOOSE j \in DOMAIN threads : threads[j] = "runtime",
         threads' = SubSeq(threads, 1, i - 1) \o SubSeq(threads, i + 1, Len(threads))
  PROVE  /\ threads' \in {StudioThreads, ConsoleThreads}
         /\ ~Registered' /\ (IsStudio' <=> IsStudio)
<1>1. \/ threads = StudioRuns /\ i = 5 /\ Len(threads) = 5 /\ IsStudio
      \/ threads = ConsoleRuns /\ i = 4 /\ Len(threads) = 4 /\ ~IsStudio
  BY PlaceOfTheRun
<1>2. CASE threads = StudioRuns /\ i = 5 /\ Len(threads) = 5 /\ IsStudio
  <2>1. threads' = StudioThreads
    BY <1>2, Removing, Zenon
  <2>. QED  BY <1>2, <2>1, NowThere, AllDifferent
<1>3. CASE threads = ConsoleRuns /\ i = 4 /\ Len(threads) = 4 /\ ~IsStudio
  <2>1. threads' = ConsoleThreads
    BY <1>3, Removing, Zenon
  <2>. QED  BY <1>3, <2>1, NowThere, AllDifferent
<1>. QED  BY <1>1, <1>2, <1>3

LEMMA ConnectKeeps ==
  ASSUME IInv, Connect
  PROVE  IInv'
<1>1. StackOK(todo)' /\ Becomes("connect", {"START_BEFORE", "rdoInit"})
  <2> DEFINE h == Call("connect", "runtime")
             x == Cast("START_BEFORE", "runtime")
             y == Call("rdoInit", "runtime")
  <2>1. Mark(h) = "connect" /\ x \in Item /\ Mark(x) = "START_BEFORE" /\ y \in Item
        /\ Mark(y) = "rdoInit"
    BY MarkOf, Items DEF CallMark, CastMark, Reports, RepTells, Asks, RunTells, SimTells, Calls,
       Threads, Closings
  <2>2. StackOK(todo) /\ Head1(h) /\ Do(<<x, y>>)
    BY DEF IInv, Connect
  <2> HIDE DEF h, x, y
  <2>3. \A S : \A n \in Nat : Fits("connect", S, n) =>
         /\ Fits("rdoInit", S, n)
         /\ Fits("START_BEFORE", {"rdoInit"} \cup S, n + 1)
    BY DEF Fits, Between, Ends, ByItself, ByUser, NotBuilt, Opening, Waits, UserStops, Closing,
         Files
  <2>. QED  BY <2>1, <2>2, <2>3, DoTwo
<1>2. PICK S : /\ \E n : Fits("connect", S, n)
               /\ Marks(todo) = {"connect"} \cup S
               /\ Marks(todo)' = {"START_BEFORE", "rdoInit"} \cup S
  BY <1>1 DEF Becomes
<1>3. /\ threads' \in {StudioRuns, ConsoleRuns}
      /\ ~Registered /\ Registered' /\ (IsStudio' <=> IsStudio)
  <2>1. ~Registered
    BY <1>2 DEF IInv, MInv, RunInv, Some, NoRun
  <2>. QED  BY <2>1, Registers DEF IInv, Connect
<1> USE <1>2, <1>3 DEF IInv, MInv, Connect, serviceVars, fileVars, studioVars, history
<1>4. Values'
  <2>1. runtimeError' \in BOOLEAN /\ owed' \in BOOLEAN
    BY DEF Values
  <2>. QED  BY <2>1 DEF Values
<1> USE DEF Fits, Some, Between, Ends, ByItself, ByUser, NotBuilt, Opening, Waits, UserStops, Files
<1>5. RunInv(Marks(todo))'
  BY DEF RunInv, NoRun, EndInv, Gone, Owing
<1>6. EndInv(Marks(todo))'
  BY DEF EndInv, Gone, Owing
<1>7. CodeInv(Marks(todo))'
  BY DEF CodeInv, Reports
<1>8. StudioInv(Marks(todo))'
  BY DEF StudioInv
<1>9. ConsoleInv(Marks(todo))'
  BY DEF ConsoleInv, Closing
<1>. QED  BY <1>1, <1>4, <1>5, <1>6, <1>7, <1>8, <1>9

LEMMA DisconnectKeeps ==
  ASSUME IInv, Disconnect
  PROVE  IInv'
<1>1. StackOK(todo)' /\ Becomes("disconnect", {})
  <2> DEFINE h == Call("disconnect", "runtime")
  <2>1. Mark(h) = "disconnect"
    BY MarkOf DEF CallMark
  <2>2. StackOK(todo) /\ Head1(h) /\ Do(<<>>)
    BY DEF IInv, Disconnect
  <2> HIDE DEF h
  <2>. QED  BY <2>1, <2>2, DoNone
<1>2. PICK S : /\ \E n : Fits("disconnect", S, n)
               /\ Marks(todo) = {"disconnect"} \cup S
               /\ Marks(todo)' = S
  BY <1>1 DEF Becomes
<1>3. /\ threads' \in {StudioThreads, ConsoleThreads}
      /\ Registered /\ ~Registered' /\ (IsStudio' <=> IsStudio)
  <2>1. Registered
    BY <1>2 DEF IInv, MInv, RunInv, Some
  <2>. QED  BY <2>1, Unregisters DEF IInv, Disconnect
<1>4. UNCHANGED <<serviceVars, fileVars, studioVars, console, history>>
  BY DEF Disconnect
<1> USE <1>2, <1>3, <1>4 DEF IInv, MInv, serviceVars, fileVars, studioVars, history
<1>5. Values'
  BY DEF Values
<1> USE DEF Fits, Some, Between, Ends, ByItself, ByUser, NotBuilt, Opening, Waits, UserStops, Files
<1>6. RunInv(Marks(todo))'
  BY DEF RunInv, NoRun
<1>7. EndInv(Marks(todo))'
  BY DEF EndInv, Gone, Owing
<1>8. CodeInv(Marks(todo))'
  BY DEF CodeInv, Reports
<1>9. StudioInv(Marks(todo))'
  BY DEF StudioInv
<1>10. ConsoleInv(Marks(todo))'
  BY DEF ConsoleInv, Closing
<1>. QED  BY <1>1, <1>5, <1>6, <1>7, <1>8, <1>9, <1>10

LEMMA ReportKeeps ==
  ASSUME IInv, NEW v \in Reports, Report(v)
  PROVE  IInv'
<1>1. CASE v = "STOP_OK"
  <2>1. StackOK(todo)' /\ Becomes("reportOk", {"STOP_OK"})
    <3> DEFINE h == Call("STOP_OK", "simulator")
               x == Cast("STOP_OK", "simulator")
    <3>1. Mark(h) = "reportOk" /\ x \in Item /\ Mark(x) = "STOP_OK"
      BY MarkOf, Items DEF CallMark, CastMark, Reports, RepTells, Asks, RunTells, SimTells
    <3>2. StackOK(todo) /\ Head1(h) /\ Do(<<x>>)
      BY <1>1 DEF IInv, Report
    <3> HIDE DEF h, x
    <3>3. \A S : \A n \in Nat : Fits("reportOk", S, n) => Fits("STOP_OK", S, n)
      BY DEF Fits, Between, Ends, ByItself, ByUser, NotBuilt, Opening, Waits, UserStops, Closing,
           Files
    <3>. QED  BY <3>1, <3>2, <3>3, DoOne
  <2>2. PICK S : /\ \E n : Fits("reportOk", S, n)
                 /\ Marks(todo) = {"reportOk"} \cup S
                 /\ Marks(todo)' = {"STOP_OK"} \cup S
    BY <2>1 DEF Becomes
  <2>3. (Registered' <=> Registered) /\ (IsStudio' <=> IsStudio)
    BY SameThreads DEF Report
  <2>4. owed /\ owed' = FALSE /\ verdict' = v
    <3>1. owed
      BY <2>2 DEF IInv, MInv, EndInv, Some, Owing
    <3>. QED  BY <3>1 DEF Report
  <2> USE <1>1, <2>2, <2>3, <2>4 DEF IInv, MInv, Report, serviceVars, fileVars, studioVars
  <2>10. Values'
    <3>1. owed' \in BOOLEAN
      BY DEF Values
    <3>. QED  BY <3>1 DEF Values
  <2> USE DEF Fits, Some, Between, Ends, ByItself, ByUser, NotBuilt, Opening, Waits, UserStops,
       Files
  <2>5. RunInv(Marks(todo))'
    BY DEF RunInv, NoRun, EndInv, Gone, Owing
  <2>6. EndInv(Marks(todo))'
    BY DEF EndInv, Gone, Owing
  <2>7. CodeInv(Marks(todo))'
    BY DEF CodeInv, Reports
  <2>8. StudioInv(Marks(todo))'
    BY DEF StudioInv
  <2>9. ConsoleInv(Marks(todo))'
    BY DEF ConsoleInv, Closing, EndInv, Gone, Owing
  <2>. QED  BY <2>1, <2>5, <2>6, <2>7, <2>8, <2>9, <2>10
<1>2. CASE v = "STOP_BY_USER"
  <2>1. StackOK(todo)' /\ Becomes("reportUser", {"STOP_BY_USER"})
    <3> DEFINE h == Call("STOP_BY_USER", "simulator")
               x == Cast("STOP_BY_USER", "simulator")
    <3>1. Mark(h) = "reportUser" /\ x \in Item /\ Mark(x) = "STOP_BY_USER"
      BY MarkOf, Items DEF CallMark, CastMark, Reports, RepTells, Asks, RunTells, SimTells
    <3>2. StackOK(todo) /\ Head1(h) /\ Do(<<x>>)
      BY <1>2 DEF IInv, Report
    <3> HIDE DEF h, x
    <3>3. \A S : \A n \in Nat : Fits("reportUser", S, n) => Fits("STOP_BY_USER", S, n)
      BY DEF Fits, Between, Ends, ByItself, ByUser, NotBuilt, Opening, Waits, UserStops, Closing,
           Files
    <3>. QED  BY <3>1, <3>2, <3>3, DoOne
  <2>2. PICK S : /\ \E n : Fits("reportUser", S, n)
                 /\ Marks(todo) = {"reportUser"} \cup S
                 /\ Marks(todo)' = {"STOP_BY_USER"} \cup S
    BY <2>1 DEF Becomes
  <2>3. (Registered' <=> Registered) /\ (IsStudio' <=> IsStudio)
    BY SameThreads DEF Report
  <2>4. owed /\ owed' = FALSE /\ verdict' = v
    <3>1. owed
      BY <2>2 DEF IInv, MInv, EndInv, Some, Owing
    <3>. QED  BY <3>1 DEF Report
  <2> USE <1>2, <2>2, <2>3, <2>4 DEF IInv, MInv, Report, serviceVars, fileVars, studioVars
  <2>10. Values'
    <3>1. owed' \in BOOLEAN
      BY DEF Values
    <3>. QED  BY <3>1 DEF Values
  <2> USE DEF Fits, Some, Between, Ends, ByItself, ByUser, NotBuilt, Opening, Waits, UserStops,
       Files
  <2>5. RunInv(Marks(todo))'
    BY DEF RunInv, NoRun, EndInv, Gone, Owing
  <2>6. EndInv(Marks(todo))'
    BY DEF EndInv, Gone, Owing
  <2>7. CodeInv(Marks(todo))'
    BY DEF CodeInv, Reports
  <2>8. StudioInv(Marks(todo))'
    BY DEF StudioInv
  <2>9. ConsoleInv(Marks(todo))'
    BY DEF ConsoleInv, Closing
  <2>. QED  BY <2>1, <2>5, <2>6, <2>7, <2>8, <2>9, <2>10
<1>3. CASE v = "STOP_RUNTIME_ERROR"
  <2>1. StackOK(todo)' /\ Becomes("reportError", {"STOP_RUNTIME_ERROR"})
    <3> DEFINE h == Call("STOP_RUNTIME_ERROR", "simulator")
               x == Cast("STOP_RUNTIME_ERROR", "simulator")
    <3>1. Mark(h) = "reportError" /\ x \in Item /\ Mark(x) = "STOP_RUNTIME_ERROR"
      BY MarkOf, Items DEF CallMark, CastMark, Reports, RepTells, Asks, RunTells, SimTells
    <3>2. StackOK(todo) /\ Head1(h) /\ Do(<<x>>)
      BY <1>3 DEF IInv, Report
    <3> HIDE DEF h, x
    <3>3. \A S : \A n \in Nat : Fits("reportError", S, n) => Fits("STOP_RUNTIME_ERROR", S, n)
      BY DEF Fits, Between, Ends, ByItself, ByUser, NotBuilt, Opening, Waits, UserStops, Closing,
           Files
    <3>. QED  BY <3>1, <3>2, <3>3, DoOne
  <2>2. PICK S : /\ \E n : Fits("reportError", S, n)
                 /\ Marks(todo) = {"reportError"} \cup S
                 /\ Marks(todo)' = {"STOP_RUNTIME_ERROR"} \cup S
    BY <2>1 DEF Becomes
  <2>3. (Registered' <=> Registered) /\ (IsStudio' <=> IsStudio)
    BY SameThreads DEF Report
  <2>4. owed /\ owed' = FALSE /\ verdict' = v
    <3>1. owed
      BY <2>2 DEF IInv, MInv, EndInv, Some, Owing
    <3>. QED  BY <3>1 DEF Report
  <2> USE <1>3, <2>2, <2>3, <2>4 DEF IInv, MInv, Report, serviceVars, fileVars, studioVars
  <2>10. Values'
    <3>1. owed' \in BOOLEAN
      BY DEF Values
    <3>. QED  BY <3>1 DEF Values
  <2> USE DEF Fits, Some, Between, Ends, ByItself, ByUser, NotBuilt, Opening, Waits, UserStops,
       Files
  <2>5. RunInv(Marks(todo))'
    BY DEF RunInv, NoRun, EndInv, Gone, Owing
  <2>6. EndInv(Marks(todo))'
    BY DEF EndInv, Gone, Owing
  <2>7. CodeInv(Marks(todo))'
    BY DEF CodeInv, Reports
  <2>8. StudioInv(Marks(todo))'
    BY DEF StudioInv
  <2>9. ConsoleInv(Marks(todo))'
    BY DEF ConsoleInv, Closing
  <2>. QED  BY <2>1, <2>5, <2>6, <2>7, <2>8, <2>9, <2>10
<1>. QED  BY <1>1, <1>2, <1>3 DEF Reports

LEMMA ThreadStopAfterKeeps ==
  ASSUME IInv, ThreadStopAfter
  PROVE  IInv'
<1>1. runThread
  <2>1. StackOK(todo) /\ Head1(Hear("THREAD_STOP_AFTER", "simulator"))
    BY DEF IInv, ThreadStopAfter
  <2>2. Mark(Hear("THREAD_STOP_AFTER", "simulator")) = "threadStopAfter"
    BY MarkOf DEF HearMark
  <2>3. "threadStopAfter" \in Marks(todo)
    BY <2>1, <2>2, HeadIs
  <2>. QED  BY <2>3 DEF IInv, MInv, EndInv, Some
<1>2. CASE runThread /\ runtimeError
  <2>1. StackOK(todo)' /\ Becomes("threadStopAfter", {"reportError", "closeModel", "forgetThread"})
    <3> DEFINE h == Hear("THREAD_STOP_AFTER", "simulator")
               x == Call("STOP_RUNTIME_ERROR", "simulator")
               y == Call("closeModel", "simulator")
               z == Call("forgetThread", "simulator")
    <3>1. Mark(h) = "threadStopAfter" /\ x \in Item /\ Mark(x) = "reportError" /\ y \in Item
          /\ Mark(y) = "closeModel" /\ z \in Item /\ Mark(z) = "forgetThread"
      BY MarkOf, Items DEF HearMark, Reports, RepTells, CallMark, Calls, Threads, Closings
    <3>2. StackOK(todo) /\ Head1(h) /\ Do(<<x, y, z>>)
      BY <1>2 DEF IInv, ThreadStopAfter
    <3> HIDE DEF h, x, y, z
    <3>3. \A S : \A n \in Nat : Fits("threadStopAfter", S, n) =>
           /\ Fits("forgetThread", S, n)
           /\ Fits("closeModel", {"forgetThread"} \cup S, n + 1)
           /\ Fits("reportError", {"closeModel", "forgetThread"} \cup S, n + 2)
      <4> SUFFICES ASSUME NEW S, NEW n \in Nat, Fits("threadStopAfter", S, n)
                    PROVE  /\ Fits("forgetThread", S, n)
                           /\ Fits("closeModel", {"forgetThread"} \cup S, n + 1)
                           /\ Fits("reportError", {"closeModel", "forgetThread"} \cup S, n + 2)
        OBVIOUS
      <4>1. Fits("forgetThread", S, n)
        BY DEF Fits, Between, Ends, ByItself, ByUser, NotBuilt, Opening, Waits, UserStops, Closing,
             Files
      <4>2. Fits("closeModel", {"forgetThread"} \cup S, n + 1)
        BY DEF Fits, Between, Ends, ByItself, ByUser, NotBuilt, Opening, Waits, UserStops, Closing,
             Files
      <4>3. Fits("reportError", {"closeModel", "forgetThread"} \cup S, n + 2)
        BY DEF Fits, Between, Ends, ByItself, ByUser, NotBuilt, Opening, Waits, UserStops, Closing,
             Files
      <4>. QED  BY <4>1, <4>2, <4>3
    <3>4. \A S : \A n \in Nat : Fits(Mark(h), S, n) =>
           /\ Fits(Mark(z), S, n)
           /\ Fits(Mark(y), {Mark(z)} \cup S, n + 1)
           /\ Fits(Mark(x), {Mark(y), Mark(z)} \cup S, n + 2)
      BY <3>1, <3>3
    <3>5. x \in Item /\ y \in Item /\ z \in Item
      BY <3>1
    <3>6. StackOK(todo)' /\ Becomes(Mark(h), {Mark(x), Mark(y), Mark(z)})
      BY ONLY <3>2, <3>4, <3>5, DoThree
    <3>. QED  BY <3>1, <3>6
  <2>2. PICK S : /\ \E n : Fits("threadStopAfter", S, n)
                 /\ Marks(todo) = {"threadStopAfter"} \cup S
                 /\ Marks(todo)' = {"reportError", "closeModel", "forgetThread"} \cup S
    BY <2>1 DEF Becomes
  <2>3. (Registered' <=> Registered) /\ (IsStudio' <=> IsStudio)
    BY SameThreads DEF ThreadStopAfter
  <2> USE <1>2, <2>2, <2>3 DEF IInv, MInv, ThreadStopAfter, serviceVars, fileVars, studioVars,
          history
  <2>4. Values'
    BY DEF Values, ExitCodes
  <2> USE DEF Fits, Some, Between, Ends, ByItself, ByUser, NotBuilt, Opening, Waits, UserStops,
       Files
  <2>5. RunInv(Marks(todo))'
    BY DEF RunInv, NoRun
  <2>6. EndInv(Marks(todo))'
    BY DEF EndInv, Gone, Owing
  <2>7. CodeInv(Marks(todo))'
    BY DEF CodeInv, Reports
  <2>8. StudioInv(Marks(todo))'
    BY DEF StudioInv
  <2>9. ConsoleInv(Marks(todo))'
    BY DEF ConsoleInv, Closing
  <2>. QED  BY <2>1, <2>4, <2>5, <2>6, <2>7, <2>8, <2>9
<1>3. CASE runThread /\ ~runtimeError
  <2>1. StackOK(todo)' /\ Becomes("threadStopAfter", {"reportOk", "closeModel", "forgetThread"})
    <3> DEFINE h == Hear("THREAD_STOP_AFTER", "simulator")
               x == Call("STOP_OK", "simulator")
               y == Call("closeModel", "simulator")
               z == Call("forgetThread", "simulator")
    <3>1. Mark(h) = "threadStopAfter" /\ x \in Item /\ Mark(x) = "reportOk" /\ y \in Item
          /\ Mark(y) = "closeModel" /\ z \in Item /\ Mark(z) = "forgetThread"
      BY MarkOf, Items DEF HearMark, Reports, RepTells, CallMark, Calls, Threads, Closings
    <3>2. StackOK(todo) /\ Head1(h) /\ Do(<<x, y, z>>)
      BY <1>3 DEF IInv, ThreadStopAfter
    <3> HIDE DEF h, x, y, z
    <3>3. \A S : \A n \in Nat : Fits("threadStopAfter", S, n) =>
           /\ Fits("forgetThread", S, n)
           /\ Fits("closeModel", {"forgetThread"} \cup S, n + 1)
           /\ Fits("reportOk", {"closeModel", "forgetThread"} \cup S, n + 2)
      <4> SUFFICES ASSUME NEW S, NEW n \in Nat, Fits("threadStopAfter", S, n)
                    PROVE  /\ Fits("forgetThread", S, n)
                           /\ Fits("closeModel", {"forgetThread"} \cup S, n + 1)
                           /\ Fits("reportOk", {"closeModel", "forgetThread"} \cup S, n + 2)
        OBVIOUS
      <4>1. Fits("forgetThread", S, n)
        BY DEF Fits, Between, Ends, ByItself, ByUser, NotBuilt, Opening, Waits, UserStops, Closing,
             Files
      <4>2. Fits("closeModel", {"forgetThread"} \cup S, n + 1)
        BY DEF Fits, Between, Ends, ByItself, ByUser, NotBuilt, Opening, Waits, UserStops, Closing,
             Files
      <4>3. Fits("reportOk", {"closeModel", "forgetThread"} \cup S, n + 2)
        BY DEF Fits, Between, Ends, ByItself, ByUser, NotBuilt, Opening, Waits, UserStops, Closing,
             Files
      <4>. QED  BY <4>1, <4>2, <4>3
    <3>4. \A S : \A n \in Nat : Fits(Mark(h), S, n) =>
           /\ Fits(Mark(z), S, n)
           /\ Fits(Mark(y), {Mark(z)} \cup S, n + 1)
           /\ Fits(Mark(x), {Mark(y), Mark(z)} \cup S, n + 2)
      BY <3>1, <3>3
    <3>5. x \in Item /\ y \in Item /\ z \in Item
      BY <3>1
    <3>6. StackOK(todo)' /\ Becomes(Mark(h), {Mark(x), Mark(y), Mark(z)})
      BY ONLY <3>2, <3>4, <3>5, DoThree
    <3>. QED  BY <3>1, <3>6
  <2>2. PICK S : /\ \E n : Fits("threadStopAfter", S, n)
                 /\ Marks(todo) = {"threadStopAfter"} \cup S
                 /\ Marks(todo)' = {"reportOk", "closeModel", "forgetThread"} \cup S
    BY <2>1 DEF Becomes
  <2>3. (Registered' <=> Registered) /\ (IsStudio' <=> IsStudio)
    BY SameThreads DEF ThreadStopAfter
  <2> USE <1>3, <2>2, <2>3 DEF IInv, MInv, ThreadStopAfter, serviceVars, fileVars, studioVars,
          history
  <2>4. Values'
    BY DEF Values, ExitCodes
  <2> USE DEF Fits, Some, Between, Ends, ByItself, ByUser, NotBuilt, Opening, Waits, UserStops,
       Files
  <2>5. RunInv(Marks(todo))'
    BY DEF RunInv, NoRun
  <2>6. EndInv(Marks(todo))'
    BY DEF EndInv, Gone, Owing
  <2>7. CodeInv(Marks(todo))'
    BY DEF CodeInv, Reports
  <2>8. StudioInv(Marks(todo))'
    BY DEF StudioInv
  <2>9. ConsoleInv(Marks(todo))'
    BY DEF ConsoleInv, Closing
  <2>. QED  BY <2>1, <2>4, <2>5, <2>6, <2>7, <2>8, <2>9
<1>. QED  BY <1>1, <1>2, <1>3 DEF ThreadStopAfter

\* In the event loop nothing is left to do, or a dialog is open.
LEMMA InTheLoop ==
  ASSUME IInv, EventLoop
  PROVE  \/ todo = <<>> /\ Marks(todo) = {}
         \/ /\ IsStudio /\ todo # <<>> /\ InDialog /\ Len(todo) - 1 \in Nat
            /\ \E k, S :
                 /\ k \in {"dialog", "asking"}
                 /\ Fits(k, S, Len(todo) - 1)
                 /\ Marks(todo) = {k} \cup S
<1>1. CASE todo = <<>>
  BY <1>1, Empty
<1>2. CASE todo # <<>>
  <2>1. IsStudio /\ InDialog /\ Head(todo).what \in Dialogs
    BY <1>2 DEF EventLoop, InDialog
  <2>2. /\ Head(todo) \in Item /\ StackOK(Tail(todo))
        /\ Fits(Mark(Head(todo)), Marks(Tail(todo)), Len(Tail(todo)))
        /\ Marks(todo) = {Mark(Head(todo))} \cup Marks(Tail(todo))
    BY <1>2, Pop DEF IInv
  <2>3. Mark(Head(todo)) \in {"dialog", "asking"}
    BY <2>1, <2>2 DEF Item, CastItem, HearItem, CallItem, Asks, RunTells, SimTells, RepTells,
       Reports, Mark, CallMark, Dialogs
  <2>4. Len(Tail(todo)) = Len(todo) - 1 /\ Len(todo) - 1 \in Nat
    BY <1>2 DEF IInv, StackOK
  <2>. QED  BY <1>2, <2>1, <2>2, <2>3, <2>4
<1>. QED  BY <1>1, <1>2

\* A run that is registered in the event loop is not on the stack.
LEMMA RunsFreely ==
  ASSUME IInv, EventLoop, Registered
  PROVE  Marks(todo) \subseteq Waits /\ Len(todo) =< 2
<1>1. CASE todo = <<>>
  BY <1>1, Empty
<1>2. CASE todo # <<>>
  <2>1. PICK k, S :
          /\ k \in {"dialog", "asking"}
          /\ Fits(k, S, Len(todo) - 1) /\ Marks(todo) = {k} \cup S
          /\ Len(todo) - 1 \in Nat
    BY <1>2, InTheLoop
  <2>2. owed /\ ~Some(S, Gone \cup NoRun)
    BY <2>1 DEF IInv, MInv, RunInv, EndInv, Some
  <2>3. CASE k = "dialog"
    <3>1. S = {} /\ Len(todo) - 1 < 1
      BY <2>1, <2>2, <2>3
         DEF Fits, Closing, Opening, ByItself, NotBuilt, Between, Some, Gone, NoRun
    <3>. QED  BY <2>1, <2>3, <3>1 DEF Waits
  <2>4. CASE k = "asking"
    <3>1. S = {"MODEL_OPEN"} /\ Len(todo) - 1 < 2
      BY <2>1, <2>2, <2>4 DEF Fits, Opening, ByItself, NotBuilt, Between, Some, Gone, NoRun
    <3>. QED  BY <2>1, <2>4, <3>1 DEF Waits
  <2>. QED  BY <2>1, <2>3, <2>4
<1>. QED  BY <1>1, <1>2

\* What a run that is closed still has to do, put on a stack.
LEMMA CloseStack ==
  ASSUME NEW s, StackOK(s), Ends(Marks(s), {}), Len(s) < 5
  PROVE  /\ StackOK(CloseRuntime \o s)
         /\ Marks(CloseRuntime \o s) =
              {"STOP_BEFORE", "disconnect", "rdoPostProcess", "STOP_AFTER", "THREAD_STOP_AFTER"}
                  \cup Marks(s)
<1> DEFINE a == Cast("STOP_BEFORE", "runtime")
           b == Call("disconnect", "runtime")
           c == Call("rdoPostProcess", "runtime")
           d == Cast("STOP_AFTER", "runtime")
           e == Cast("THREAD_STOP_AFTER", "runtime")
           u == <<a, b, c>>
           v == <<d, e>>
<1>1. /\ a \in Item /\ b \in Item /\ c \in Item /\ d \in Item /\ e \in Item
      /\ Mark(a) = "STOP_BEFORE" /\ Mark(b) = "disconnect" /\ Mark(c) = "rdoPostProcess"
      /\ Mark(d) = "STOP_AFTER" /\ Mark(e) = "THREAD_STOP_AFTER"
  BY MarkOf, Items DEF CastMark, CallMark, Reports, RepTells, Calls, Threads, Asks, RunTells,
     SimTells
<1>2. CloseRuntime = <<a, b, c, d, e>>
  BY DEF CloseRuntime
<1> HIDE DEF a, b, c, d, e
<1>3. CloseRuntime = u \o v
  <2>1. CloseRuntime \in Seq(Item) /\ Len(CloseRuntime) = 5
    BY <1>1, <1>2
  <2>2. u \o v \in Seq(Item) /\ Len(u \o v) = 5
    BY <1>1
  <2>3. \A i \in 1..5 : CloseRuntime[i] = (u \o v)[i]
    BY <1>1, <1>2
  <2>. QED  BY <2>1, <2>2, <2>3, SeqEqual
<1>4. u \in Seq(Item) /\ v \in Seq(Item) /\ s \in Seq(Item) /\ Len(s) \in Nat
  BY <1>1 DEF StackOK
<1>5. CloseRuntime \o s = u \o (v \o s)
  <2> HIDE DEF u, v
  <2>. QED  BY <1>3, <1>4, ConcatAssociative
<1> DEFINE t == v \o s
<1>6. StackOK(t) /\ Marks(t) = {Mark(d), Mark(e)} \cup Marks(s) /\ Len(t) = Len(s) + 2
  <2>1. Fits("THREAD_STOP_AFTER", Marks(s), Len(s))
    BY <1>4 DEF Fits, Closing, Files
  <2>2. Fits("STOP_AFTER", {"THREAD_STOP_AFTER"} \cup Marks(s), Len(s) + 1)
    BY <1>4 DEF Fits, Closing, Files, Ends, Between, UserStops
  <2>. QED  BY <1>1, <2>1, <2>2, PushTwo
<1> HIDE DEF t
<1>7. Marks(t) = {"STOP_AFTER", "THREAD_STOP_AFTER"} \cup Marks(s)
  BY <1>1, <1>6
<1>8. StackOK(u \o t) /\ Marks(u \o t) = {Mark(a), Mark(b), Mark(c)} \cup Marks(t)
  <2>1. Fits("rdoPostProcess", Marks(t), Len(t))
    BY <1>4, <1>6, <1>7 DEF Fits, Closing, Files, Ends, Between, UserStops
  <2>2. Fits("disconnect", {"rdoPostProcess"} \cup Marks(t), Len(t) + 1)
    BY <1>4, <1>6, <1>7 DEF Fits, Closing, Files, Ends, Between, UserStops
  <2>3. Fits("STOP_BEFORE", {"disconnect", "rdoPostProcess"} \cup Marks(t), Len(t) + 2)
    BY <1>4, <1>6, <1>7 DEF Fits, Closing, Files, Ends, Between, UserStops
  <2>4. /\ Fits(Mark(c), Marks(t), Len(t)) /\ Fits(Mark(b), {Mark(c)} \cup Marks(t), Len(t) + 1)
        /\ Fits(Mark(a), {Mark(b), Mark(c)} \cup Marks(t), Len(t) + 2)
    BY <1>1, <2>1, <2>2, <2>3
  <2>5. a \in Item /\ b \in Item /\ c \in Item /\ StackOK(t)
    BY <1>1, <1>6
  <2>. QED  BY ONLY <2>4, <2>5, PushThree DEF u
<1>. QED  BY <1>1, <1>5, <1>7, <1>8 DEF t

LEMMA TerminateModelKeeps ==
  ASSUME IInv, TerminateModel
  PROVE  IInv'
<1>1. CASE runThread
  <2> DEFINE s == Tail(todo)
             x == Call("terminated", "simulator")
             t == <<x>> \o s
             S == Marks(s)
             F == {"STOP_BEFORE", "disconnect", "rdoPostProcess", "STOP_AFTER", "THREAD_STOP_AFTER"}
  <2>1. /\ StackOK(s) /\ Len(s) \in Nat /\ Marks(todo) = {"terminateModel"} \cup S
        /\ Fits("terminateModel", S, Len(s))
    <3>1. Mark(Call("terminateModel", "simulator")) = "terminateModel"
      BY MarkOf DEF CallMark
    <3>2. StackOK(todo) /\ Head1(Call("terminateModel", "simulator"))
      BY DEF IInv, TerminateModel
    <3>. QED  BY <3>1, <3>2, HeadIs
  <2>2. S = UserStops /\ Len(s) < 4 /\ Registered
    <3>1. S = UserStops /\ Len(s) < 4
      BY <1>1, <2>1 DEF IInv, MInv, RunInv, NoRun, Some, Fits, Between
    <3>2. Registered
      BY <2>1, <3>1 DEF IInv, MInv, RunInv, UserStops
    <3>. QED  BY <3>1, <3>2
  <2>3. x \in Item /\ Mark(x) = "terminated" /\ Fits("terminated", S, Len(s))
    BY <2>1, <2>2, MarkOf, Items DEF CallMark, Calls, Threads, Fits, Closing, Files
  <2>4. StackOK(t) /\ Marks(t) = {"terminated"} \cup S /\ Len(t) = Len(s) + 1
    <3> HIDE DEF x, s
    <3>. QED  BY <2>1, <2>3, Push
  <2>5. StackOK(CloseRuntime \o t) /\ Marks(CloseRuntime \o t) = F \cup {"terminated"} \cup S
    <3>1. Ends(Marks(t), {}) /\ Len(t) < 5
      BY <2>1, <2>2, <2>4 DEF Ends
    <3> HIDE DEF t
    <3>2. Marks(CloseRuntime \o t) = F \cup Marks(t)
      BY <2>4, <3>1, CloseStack
    <3>. QED  BY <2>4, <3>1, <3>2, CloseStack
  <2>6. todo' = CloseRuntime \o t
    <3>1. todo' = (CloseRuntime \o <<x>>) \o s
      BY <1>1 DEF TerminateModel, Do
    <3>2. CloseRuntime \in Seq(Item) /\ <<x>> \in Seq(Item) /\ s \in Seq(Item)
      BY <2>1, <2>3, Items DEF CloseRuntime, StackOK, RunTells, Calls, Threads
    <3> HIDE DEF x, s
    <3>. QED  BY <3>1, <3>2, ConcatAssociative
  <2> HIDE DEF s, x, t
  <2>7. StackOK(todo)' /\ Marks(todo)' = F \cup {"terminated"} \cup UserStops
    BY <2>2, <2>5, <2>6
  <2>8. /\ (Registered' <=> Registered) /\ (IsStudio' <=> IsStudio)
        /\ listens' = FALSE
        /\ UNCHANGED <<threads, loaded, whyStop, exitCode, runThread, runtimeError, fileVars,
           studioVars, console, history>>
    BY <1>1, SameThreads DEF TerminateModel
  <2> USE <1>1, <2>1, <2>2, <2>7, <2>8 DEF IInv, MInv, fileVars, studioVars, history, Some,
          UserStops
  <2>9. Values'
    <3>1. listens' \in BOOLEAN
      BY DEF Values
    <3>. QED  BY <3>1 DEF Values
  <2>10. RunInv(Marks(todo))'
    BY DEF RunInv, NoRun
  <2>11. EndInv(Marks(todo))'
    BY DEF EndInv, RunInv, Gone, Owing
  <2>12. CodeInv(Marks(todo))'
    BY DEF CodeInv, Reports
  <2>13. StudioInv(Marks(todo))'
    BY DEF StudioInv
  <2>14. ConsoleInv(Marks(todo))'
    BY DEF ConsoleInv, Closing
  <2>. QED  BY <2>9, <2>10, <2>11, <2>12, <2>13, <2>14
<1>2. CASE ~runThread
  <2>1. StackOK(todo)' /\ Becomes("terminateModel", {})
    <3> DEFINE h == Call("terminateModel", "simulator")
    <3>1. Mark(h) = "terminateModel"
      BY MarkOf DEF CallMark
    <3>2. StackOK(todo) /\ Head1(h) /\ Do(<<>>)
      BY <1>2 DEF IInv, TerminateModel
    <3> HIDE DEF h
    <3>. QED  BY <3>1, <3>2, DoNone
  <2>2. PICK S : /\ \E n : Fits("terminateModel", S, n)
                 /\ Marks(todo) = {"terminateModel"} \cup S
                 /\ Marks(todo)' = S
    BY <2>1 DEF Becomes
  <2>3. (Registered' <=> Registered) /\ (IsStudio' <=> IsStudio)
    BY SameThreads DEF TerminateModel
  <2> USE <1>2, <2>2, <2>3 DEF IInv, MInv, TerminateModel, serviceVars, fileVars, studioVars,
          history
  <2>4. Values'
    BY DEF Values
  <2> USE DEF Fits, Some, Between, Ends, ByItself, ByUser, NotBuilt, Opening, Waits, UserStops,
       Files
  <2>5. RunInv(Marks(todo))'
    BY DEF RunInv, NoRun
  <2>6. EndInv(Marks(todo))'
    BY DEF EndInv, Gone, Owing, RunInv
  <2>7. CodeInv(Marks(todo))'
    BY DEF CodeInv, Reports
  <2>8. StudioInv(Marks(todo))'
    BY DEF StudioInv
  <2>9. ConsoleInv(Marks(todo))'
    BY DEF ConsoleInv, Closing
  <2>. QED  BY <2>1, <2>4, <2>5, <2>6, <2>7, <2>8, <2>9
<1>. QED  BY <1>1, <1>2

\* The run is closed by the event loop.
LEMMA RunEnds ==
  ASSUME IInv, EventLoop, Registered, Looped, todo' = CloseRuntime \o todo,
         whyStop' \in {whyStop, "EC_OK", "EC_NoMoreEvents"},
         UNCHANGED <<threads, loaded, exitCode, runThread, listens, runtimeError, fileVars,
             studioVars, history>>
  PROVE  IInv'
<1> DEFINE F == {"STOP_BEFORE", "disconnect", "rdoPostProcess", "STOP_AFTER", "THREAD_STOP_AFTER"}
           M == Marks(todo)
<1>1. M \subseteq Waits /\ Len(todo) =< 2 /\ StackOK(todo) /\ Len(todo) \in Nat
  BY RunsFreely DEF IInv, StackOK
<1>2. StackOK(todo') /\ Marks(todo)' = F \cup M
  <2>1. Ends(M, {}) /\ Len(todo) < 5
    BY <1>1 DEF Ends, Between
  <2>. QED  BY <1>1, <2>1, CloseStack
<1>3. (Registered' <=> Registered) /\ (IsStudio' <=> IsStudio)
  BY SameThreads
<1>4. runThread /\ owed /\ loaded /\ listens /\ whyStop # "EC_UserBreak"
  BY <1>1 DEF IInv, MInv, RunInv, EndInv, CodeInv, Waits
<1>5. /\ IsStudio => console' = console
      /\ ~IsStudio => /\ M = {} /\ console.at = "loop" /\ console'.at = "check"
                      /\ console'.state = console.state
                      /\ console'.runtimeError = console.runtimeError
                      /\ console'.buildError = console.buildError
  <2>1. ~IsStudio => M = {} /\ console.at = "loop"
    BY Empty DEF EventLoop
  <2>. QED  BY <2>1 DEF Looped, IInv, Values
<1> USE <1>1, <1>2, <1>3, <1>4, <1>5 DEF IInv, MInv, fileVars, studioVars, history, Some, Waits
<1>6. Values'
  BY DEF Values, Looped, ConsoleEnd, ExitCodes
<1>7. RunInv(Marks(todo))'
  BY DEF RunInv, NoRun
<1>8. EndInv(Marks(todo))'
  BY DEF EndInv, Gone, Owing
<1>9. CodeInv(Marks(todo))'
  BY DEF CodeInv, Reports
<1>10. StudioInv(Marks(todo))'
  BY DEF StudioInv
<1>11. ConsoleInv(Marks(todo))'
  BY DEF ConsoleInv, Closing, ConsoleEnd
<1>. QED  BY <1>2, <1>6, <1>7, <1>8, <1>9, <1>10, <1>11

\* The event loop does not change the stack, though something may go wrong in the run.
LEMMA LoopGoesOn ==
  ASSUME IInv, EventLoop, UNCHANGED <<todo, threads>>,
         console' = console \/ (Looped /\ todo = <<>>),
         whyStop' \in {whyStop, "EC_RunTimeError"}, runtimeError' \in {runtimeError, TRUE},
         UNCHANGED <<loaded, exitCode, runThread, listens, fileVars, studioVars, history>>
  PROVE  IInv'
<1> DEFINE M == Marks(todo)
<1>1. M = {} \/ \E k \in {"dialog", "asking"} : \E S :
                    Fits(k, S, Len(todo) - 1) /\ M = {k} \cup S
  BY InTheLoop
<1>2. ~Some(M, {"reportOk"})
  BY <1>1 DEF Some, Fits, Closing, Opening, ByItself, NotBuilt, Between, Waits
<1>3. (Registered' <=> Registered) /\ (IsStudio' <=> IsStudio)
  BY SameThreads
<1>4. \/ console' = console
      \/ /\ M = {} /\ console.at = "loop" /\ ~IsStudio /\ console'.at = "check"
         /\ console'.state = console.state /\ console'.runtimeError = console.runtimeError
         /\ console'.buildError = console.buildError
  <2>1. todo = <<>> => M = {}
    BY Empty
  <2>2. ~IsStudio => console.at = "loop"
    BY DEF EventLoop
  <2>. QED  BY <2>1, <2>2 DEF Looped, IInv, Values
<1> USE <1>2, <1>3, <1>4 DEF IInv, MInv, fileVars, studioVars, history, Some
<1>5. Values'
  <2>1. runtimeError' \in BOOLEAN /\ whyStop' \in ExitCodes
    BY DEF Values, ExitCodes
  <2>2. console' \in [at : {"open", "build", "run", "loop", "check"} \cup ConsoleEnd,
                      state : {"UNDEFINED", "IN_PROGRESS", "FINISHED"},
                      buildError : BOOLEAN, runtimeError : BOOLEAN]
    BY DEF Values, Looped
  <2>. QED  BY <2>1, <2>2 DEF Values
<1>6. RunInv(Marks(todo))'
  BY DEF RunInv
<1>7. EndInv(Marks(todo))'
  BY DEF EndInv
<1>8. CodeInv(Marks(todo))'
  BY DEF CodeInv
<1>9. StudioInv(Marks(todo))'
  BY DEF StudioInv
<1>10. ConsoleInv(Marks(todo))'
  BY DEF ConsoleInv, Closing, ConsoleEnd
<1>. QED  BY <1>5, <1>6, <1>7, <1>8, <1>9, <1>10

LEMMA IdleKeeps ==
  ASSUME IInv, Idle
  PROVE  IInv'
<1>1. EventLoop /\ Looped /\ (console' = console \/ (Looped /\ todo = <<>>))
  BY DEF Idle, Looped, EventLoop
<1>2. CASE Registered /\ todo' = CloseRuntime \o todo /\ UNCHANGED runtimeError
           /\ whyStop' \in {whyStop, "EC_OK", "EC_NoMoreEvents"}
  BY <1>1, <1>2, RunEnds DEF Idle
<1>3. CASE /\ UNCHANGED todo /\ whyStop' \in {whyStop, "EC_RunTimeError"}
           /\ runtimeError' \in {runtimeError, TRUE}
  BY <1>1, <1>3, LoopGoesOn DEF Idle
<1>. QED  BY <1>2, <1>3 DEF Idle

LEMMA TimerKeeps ==
  ASSUME IInv, Timer
  PROVE  IInv'
BY LoopGoesOn DEF Timer

-----------------------------------------------------------------------------
(***************************************************************************)
(* The invariant.                                                          *)
(***************************************************************************)
LEMMA IInvInit ==
  ASSUME Init
  PROVE  IInv
<1>1. threads \in {StudioThreads, ConsoleThreads}
  BY DEF Init, StudioThreads, ConsoleThreads
<1>2. ~Registered /\ (IsStudio <=> threads = StudioThreads)
  BY <1>1, WhoIsThere, AllDifferent DEF Registered, IsStudio
<1>3. StackOK(todo) /\ Marks(todo) = {}
  BY Empty DEF Init
<1>4. window \in BOOLEAN /\ whyStop \in ExitCodes /\ exitCode \in ExitCodes
      /\ modelExit \in ExitCodes
  BY DEF Init, ExitCodes, IsStudio
<1>5. console.at = "open" /\ console.state = "UNDEFINED" /\ ~console.buildError
      /\ ~console.runtimeError
  BY DEF Init
<1>6. Values
  BY <1>1, <1>4 DEF Init, Values
<1>7. RunInv({}) /\ EndInv({})
  BY <1>2 DEF Init, RunInv, EndInv, Some
<1>8. CodeInv({}) /\ StudioInv({})
  BY <1>2, <1>5 DEF Init, CodeInv, StudioInv, Some
<1>9. ~IsStudio => ~window
  BY DEF Init
<1>10. ConsoleInv({})
  BY <1>2, <1>5, <1>9 DEF Init, ConsoleInv, Some, ConsoleEnd
<1>. QED  BY <1>3, <1>6, <1>7, <1>8, <1>10 DEF IInv, MInv

LEMMA IInvStep ==
  ASSUME IInv, [Next]_vars
  PROVE  IInv'
<1>1. CASE Connect \/ RdoInit \/ Disconnect \/ RdoPostProcess
  BY <1>1, ConnectKeeps, RdoInitKeeps, DisconnectKeeps, RdoPostProcessKeeps
<1>2. CASE ParseModel \/ Parse \/ RunModel \/ KeepThread \/ StopModel
  BY <1>2, ParseModelKeeps, ParseKeeps, RunModelKeeps, KeepThreadKeeps, StopModelKeeps
<1>3. CASE TerminateModel \/ Terminated \/ ThreadStopAfter \/ ForgetThread \/ CloseModel
  BY <1>3, TerminateModelKeeps, TerminatedKeeps, ThreadStopAfterKeeps, ForgetThreadKeeps,
     CloseModelKeeps
<1>4. ASSUME NEW v \in Reports, Report(v) \/ FilesStopModel(v) \/ StudioReport(v)
      PROVE  IInv'
  BY <1>4, ReportKeeps, FilesStopModelKeeps, StudioReportKeeps
<1>5. ASSUME NEW m \in {"MODEL_NEW", "MODEL_OPEN", "MODEL_CLOSE"}, FilesMessage(m)
      PROVE  IInv'
  BY <1>5, FilesMessageKeeps
<1>6. CASE RealCloseModel \/ NewFiles \/ OpenModel \/ OpenFiles \/ BeforeModelStart \/ TracerAsks
           \/ FileName \/ CloseBox
  BY <1>6, RealCloseModelKeeps, NewFilesKeeps, OpenModelKeeps, OpenFilesKeeps,
     BeforeModelStartKeeps, TracerAsksKeeps, FileNameKeeps, CloseBoxKeeps
<1>7. ASSUME NEW m \in {"FILES_OPEN", "FILES_CLOSE"}, StudioFiles(m)
      PROVE  IInv'
  BY <1>7, StudioFilesKeeps
<1>8. CASE StudioParseOk \/ StudioParseError \/ StudioStartAfter \/ StudioStopBefore
           \/ StudioRunModel
  BY <1>8, StudioParseOkKeeps, StudioParseErrorKeeps, StudioStartAfterKeeps, StudioStopBeforeKeeps,
     StudioRunModelKeeps
<1>9. ASSUME NEW then \in Closings,
             CanClose(then) \/ StudioCloseModel(then) \/ UserCloses(then) \/ Answer(then)
      PROVE  IInv'
  BY <1>9, CanCloseKeeps, StudioCloseModelKeeps, UserClosesKeeps, AnswerKeeps
<1>10. CASE Broadcast \/ Exit \/ ConsoleHears
  BY <1>10, BroadcastKeeps, ExitKeeps, ConsoleHearsKeeps
<1>11. CASE UserNew \/ UserBuild \/ UserRun \/ UserStop
  BY <1>11, UserNewKeeps, UserBuildKeeps, UserRunKeeps, UserStopKeeps
<1>12. CASE Idle \/ Timer \/ ConsoleMain
  BY <1>12, IdleKeeps, TimerKeeps, ConsoleMainKeeps
<1>13. CASE UNCHANGED vars
  <2>1. StackOK(todo)' /\ Marks(todo)' = Marks(todo)
    BY <1>13 DEF vars, IInv
  <2>2. MInv(Marks(todo)')
    BY <2>1 DEF IInv
  <2>. QED  BY <1>13, <2>1, <2>2, OnlyTodo DEF vars
<1>. QED  BY <1>1, <1>2, <1>3, <1>4, <1>5, <1>6, <1>7, <1>8, <1>9, <1>10, <1>11, <1>12, <1>13
          DEF Next, Internal, User

LEMMA ModelRunInvariant == Spec => []IInv
BY IInvInit, IInvStep, PTL DEF Spec

-----------------------------------------------------------------------------
(***************************************************************************)
(* What the invariant says to those who look at the state.                 *)
(***************************************************************************)
\* The type invariant: the variables have their values, the kernel has its threads
\* and at most one run, and the calls that go on are at most twelve deep.
THEOREM TypeCorrect == Spec => []TypeOK
<1>1. ASSUME IInv
      PROVE  TypeOK
  <2>1. Len(threads) \in 3..5
    BY <1>1, Places DEF IInv
  <2>2. Len(todo) =< 12
    <3>1. todo \in Seq(Item) /\ Len(todo) \in Nat
      BY <1>1 DEF IInv, StackOK
    <3>2. CASE todo # <<>>
      <4>1. Fits(Mark(todo[1]), MarksBelow(todo, 1), Len(todo) - 1)
        BY <1>1, <3>1, <3>2 DEF IInv, StackOK
      <4>2. Len(todo) - 1 < 12
        BY <4>1 DEF Fits
      <4>. QED  BY <3>1, <4>2
    <3>3. CASE todo = <<>>
      BY <3>3
    <3>. QED  BY <3>2, <3>3
  <2>. QED  BY <1>1, <2>1, <2>2 DEF IInv, Values, TypeOK
<1>. QED  BY <1>1, ModelRunInvariant, PTL

\* Who hears a message tells its mark.
LEMMA HearsTop ==
  ASSUME IInv, NEW ms, NEW ts, Hearing(ms, ts)
  PROVE  \E m \in ms : \E t \in ts : \E S, n :
           Fits(HearMark(m, t), S, n) /\ Marks(todo) = {HearMark(m, t)} \cup S
<1>1. /\ todo # <<>> /\ StackOK(todo) /\ Head(todo).kind = "hear"
      /\ Head(todo).what \in ms /\ Head(todo).who \in ts
  BY DEF IInv, Hearing
<1>2. /\ Fits(Mark(Head(todo)), Marks(Tail(todo)), Len(Tail(todo)))
      /\ Marks(todo) = {Mark(Head(todo))} \cup Marks(Tail(todo))
  BY <1>1, Pop
<1>3. Mark(Head(todo)) = HearMark(Head(todo).what, Head(todo).who)
  BY <1>1 DEF Mark
<1>. QED  BY <1>1, <1>2, <1>3

LEMMA CallsTop ==
  ASSUME IInv, NEW f, NEW x, Head1(Call(f, x))
  PROVE  \E S, n : Fits(CallMark(f), S, n) /\ Marks(todo) = {CallMark(f)} \cup S
BY HeadIs, MarkOf DEF IInv

\* Whoever asks kernel.runtime() finds a run there: the studio and the tracer when
\* the run has started, the studio at its farewell and on every tick of its timer.
THEOREM RunIsThere == Spec => []RuntimeIsThere
<1>1. ASSUME IInv
      PROVE  RuntimeIsThere
  <2>1. ASSUME Hearing({"START_AFTER"}, {"studio", "tracer"})
        PROVE  Registered
    <3>1. PICK S, n : Fits("startAfter", S, n) /\ Marks(todo) = {"startAfter"} \cup S
      BY <1>1, <2>1, HearsTop DEF HearMark, Reports, RepTells
    <3>. QED  BY <1>1, <3>1 DEF Fits, IInv, MInv, RunInv, Some
  <2>2. ASSUME Hearing({"STOP_BEFORE"}, {"studio"})
        PROVE  Registered
    <3>1. PICK S, n : Fits("stopBefore", S, n) /\ Marks(todo) = {"stopBefore"} \cup S
      BY <1>1, <2>2, HearsTop DEF HearMark, Reports, RepTells
    <3>. QED  BY <1>1, <3>1 DEF Fits, Ends, Between, IInv, MInv, RunInv, Some
  <2>3. ASSUME timer \/ isRunning
        PROVE  Registered
    BY <1>1, <2>3 DEF IInv, MInv, StudioInv, ConsoleInv
  <2>. QED  BY <2>1, <2>2, <2>3 DEF RuntimeIsThere
<1>. QED  BY <1>1, ModelRunInvariant, PTL

\* Whoever uses the parser and the runtime of the service finds them: nobody closes
\* the model under a run, under its post-processing, or under those who start,
\* stop and report it.
THEOREM ModelStaysOpen == Spec => []ModelIsThere
<1>1. ASSUME IInv
      PROVE  ModelIsThere
  <2>1. ASSUME Registered
        PROVE  loaded
    BY <1>1, <2>1 DEF IInv, MInv, RunInv
  <2>2. ASSUME Head1(Call("rdoPostProcess", "runtime"))
        PROVE  loaded
    <3>1. PICK S, n : Fits("rdoPostProcess", S, n) /\ Marks(todo) = {"rdoPostProcess"} \cup S
      BY <1>1, <2>2, CallsTop DEF CallMark
    <3>2. "THREAD_STOP_AFTER" \in Marks(todo)
      BY <3>1 DEF Fits, Ends, Between
    <3>. QED  BY <1>1, <3>2 DEF IInv, MInv, EndInv, Some, Owing
  <2>3. ASSUME Hearing({"MODEL_RUN", "MODEL_STOP"}, {"simulator"})
        PROVE  loaded
    <3>1. "runModel" \in Marks(todo) \/ "stopModel" \in Marks(todo)
      BY <1>1, <2>3, HearsTop DEF HearMark
    <3>. QED  BY <1>1, <3>1 DEF IInv, MInv, RunInv, EndInv, Some
  <2>4. ASSUME Hearing({"START_BEFORE"} \cup Reports, {"repository", "tracer", "studio"})
        PROVE  loaded
    <3> DEFINE ms == {"START_BEFORE"} \cup Reports
               ts == {"repository", "tracer", "studio"}
    <3>1. \E m \in ms : \E t \in ts : \E S, n :
            Fits(HearMark(m, t), S, n) /\ Marks(todo) = {HearMark(m, t)} \cup S
      <4>1. Hearing(ms, ts)
        BY <2>4
      <4> HIDE DEF ms, ts
      <4>. QED  BY <1>1, <4>1, HearsTop
    <3>2. PICK k, S, n :
            /\ k \in {"startBefore", "filesStop", "studioReport", "studioStopped", "none"}
            /\ Fits(k, S, n) /\ Marks(todo) = {k} \cup S
      BY <3>1 DEF HearMark, Reports, RepTells
    <3>3. S \cap {"rdoInit", "reported", "failing", "userReported"} # {}
      BY <3>2 DEF Fits, Closing, Files, ByItself, ByUser, Between
    <3>. QED  BY <1>1, <3>2, <3>3 DEF IInv, MInv, RunInv, EndInv, Some
  <2>. QED  BY <2>1, <2>2, <2>3, <2>4 DEF ModelIsThere
<1>. QED  BY <1>1, ModelRunInvariant, PTL

\* In the event loop nothing lies on the stack but a dialog and, below it, the rest
\* of a report: nothing of a run that is still to be told.
LEMMA LoopMarks ==
  ASSUME IInv, EventLoop
  PROVE  /\ ~Some(Marks(todo), Owing \cup Reports \cup {"filesStop", "keepThread"})
         /\ todo = <<>> => Marks(todo) = {}
         /\ todo = <<>> \/ InDialog
<1>1. CASE todo = <<>> /\ Marks(todo) = {}
  BY <1>1 DEF Some
<1>2. ASSUME InDialog, todo # <<>>, NEW k \in {"dialog", "asking"}, NEW S,
             Fits(k, S, Len(todo) - 1), Marks(todo) = {k} \cup S
      PROVE  ~Some(Marks(todo), Owing \cup Reports \cup {"filesStop", "keepThread"})
  BY <1>2 DEF Some, Owing, Reports, Fits, Closing, Opening, ByItself, NotBuilt, Between, Waits
<1>. QED  BY <1>1, <1>2, InTheLoop

\* In the event loop the service has the run that the kernel has, listens to its
\* end, and a run that is gone has been reported.
THEOREM ServiceKnowsRun == Spec => []ServiceFollowsRun
<1>1. ASSUME IInv
      PROVE  ServiceFollowsRun
  <2> SUFFICES ASSUME EventLoop
               PROVE  /\ listens /\ (owed <=> Registered)
                      /\ Registered => runThread
                      /\ runThread => Registered \/ InDialog
    BY DEF ServiceFollowsRun
  <2>1. /\ ~Some(Marks(todo), Owing \cup {"keepThread"})
        /\ InDialog \/ Marks(todo) = {}
    BY <1>1, LoopMarks DEF Some
  <2>2. listens /\ (Registered => owed /\ runThread)
    BY <1>1, <2>1 DEF IInv, MInv, RunInv, Some, Owing
  <2>3. owed => Registered
    BY <1>1, <2>1 DEF IInv, MInv, EndInv, Some
  <2>4. runThread => Registered \/ InDialog
    BY <1>1, <2>1 DEF IInv, MInv, EndInv, Some
  <2>. QED  BY <2>2, <2>3, <2>4
<1>. QED  BY <1>1, ModelRunInvariant, PTL

\* Post-processing writes to the trace before the report that closes it, and no
\* trace file stays open when its run is gone.
THEOREM TraceIsClosed == Spec => []TraceSpansRun
<1>1. ASSUME IInv
      PROVE  TraceSpansRun
  <2>1. ASSUME Head1(Call("rdoPostProcess", "runtime"))
        PROVE  owed
    <3>1. PICK S, n : Fits("rdoPostProcess", S, n) /\ Marks(todo) = {"rdoPostProcess"} \cup S
      BY <1>1, <2>1, CallsTop DEF CallMark
    <3>2. "THREAD_STOP_AFTER" \in Marks(todo)
      BY <3>1 DEF Fits, Ends, Between
    <3>. QED  BY <1>1, <3>2 DEF IInv, MInv, EndInv, Some, Owing
  <2>2. ASSUME EventLoop, traceFile
        PROVE  owed
    <3>1. ~Some(Marks(todo), Reports \cup {"filesStop"})
      BY <1>1, <2>2, LoopMarks DEF Some
    <3>. QED  BY <1>1, <2>2, <3>1 DEF IInv, MInv, CodeInv
  <2>. QED  BY <2>1, <2>2 DEF TraceSpansRun
<1>. QED  BY <1>1, ModelRunInvariant, PTL

\* The console says "runFailed" only of a run that was reported as failed, success
\* (or errors of the model) only of one that ended by itself, and nothing before
\* the report.
THEOREM ConsoleIsRight == Spec => []ConsoleTellsTruth
<1>1. ASSUME IInv
      PROVE  ConsoleTellsTruth
  <2>1. CASE IsStudio
    BY <1>1, <2>1 DEF IInv, MInv, StudioInv, ConsoleTellsTruth, ConsoleEnd
  <2>2. CASE ~IsStudio
    BY <1>1, <2>2 DEF IInv, MInv, ConsoleInv, ConsoleTellsTruth
  <2>. QED  BY <2>1, <2>2
<1>. QED  BY <1>1, ModelRunInvariant, PTL

-----------------------------------------------------------------------------
(***************************************************************************)
(* A run is reported once, after its end, and rightly: the steps of the    *)
(* abstract specification.                                                 *)
(***************************************************************************)
LEMMA Stutters ==
  ASSUME UNCHANGED <<threads, runtimeError, exitCode, owed, verdict>>
  PROVE  UNCHANGED R!rvars
BY SameThreads DEF R!rvars

\* Nothing is told of what happens while no run is owed.
LEMMA NothingOwed ==
  ASSUME ~owed, ~owed', verdict' = verdict
  PROVE  UNCHANGED R!rvars
BY DEF R!rvars

LEMMA ConnectStarts ==
  ASSUME IInv, Connect
  PROVE  R!Start
<1>1. PICK S, n : Fits("connect", S, n) /\ Marks(todo) = {"connect"} \cup S
  BY CallsTop DEF Connect, CallMark
<1>2. ~owed /\ ~Registered /\ exitCode # "EC_UserBreak"
  BY <1>1 DEF IInv, MInv, RunInv, CodeInv, Some, NoRun
<1>3. Registered'
  BY <1>2, Registers DEF IInv, Connect
<1>. QED  BY <1>2, <1>3 DEF Connect, R!Start

\* What may go wrong in a run that is owed.
LEMMA GoesWrong ==
  ASSUME owed, owed', verdict' = verdict, UNCHANGED threads, runtimeError',
         (exitCode' = "EC_UserBreak") <=> (exitCode = "EC_UserBreak")
  PROVE  R!Fail
BY SameThreads DEF R!Fail

LEMMA RdoInitFails ==
  ASSUME IInv, RdoInit
  PROVE  [R!RNext]_(R!rvars)
<1>1. PICK S, n : Fits("rdoInit", S, n) /\ Marks(todo) = {"rdoInit"} \cup S
  BY CallsTop DEF RdoInit, CallMark
<1>2. owed /\ exitCode # "EC_UserBreak" /\ exitCode' # "EC_UserBreak"
  BY <1>1 DEF IInv, MInv, RunInv, CodeInv, Some, RdoInit
<1>3. UNCHANGED threads /\ owed' = owed /\ verdict' = verdict
  BY DEF RdoInit, history
<1>4. CASE runtimeError' = TRUE
  BY <1>2, <1>3, <1>4, GoesWrong DEF R!RNext
<1>5. CASE UNCHANGED runtimeError
  BY <1>2, <1>3, <1>5, SameThreads DEF R!rvars
<1>. QED  BY <1>4, <1>5 DEF RdoInit

LEMMA DisconnectEnds ==
  ASSUME IInv, Disconnect
  PROVE  R!End
<1>1. PICK S, n : Fits("disconnect", S, n) /\ Marks(todo) = {"disconnect"} \cup S
  BY CallsTop DEF Disconnect, CallMark
<1>2. owed /\ Registered
  BY <1>1 DEF IInv, MInv, RunInv, Some
<1>3. ~Registered'
  BY <1>2, Unregisters DEF IInv, Disconnect
<1>4. UNCHANGED <<owed, verdict, runtimeError, exitCode>>
  BY DEF Disconnect, serviceVars, history
<1>. QED  BY <1>2, <1>3, <1>4 DEF R!End

LEMMA RdoPostProcessFails ==
  ASSUME IInv, RdoPostProcess
  PROVE  [R!RNext]_(R!rvars)
<1>1. PICK S, n : Fits("rdoPostProcess", S, n) /\ Marks(todo) = {"rdoPostProcess"} \cup S
  BY CallsTop DEF RdoPostProcess, CallMark
<1>2. "THREAD_STOP_AFTER" \in Marks(todo)
  BY <1>1 DEF Fits, Ends, Between
<1>3. owed
  BY <1>2 DEF IInv, MInv, EndInv, Some, Owing
<1>4. UNCHANGED <<threads, owed, verdict, exitCode>>
  BY DEF RdoPostProcess, history
<1>5. CASE runtimeError' = TRUE
  BY <1>3, <1>4, <1>5, GoesWrong DEF R!RNext
<1>6. CASE UNCHANGED runtimeError
  BY <1>4, <1>6, Stutters
<1>. QED  BY <1>5, <1>6 DEF RdoPostProcess

LEMMA LoopFails ==
  ASSUME IInv, Idle \/ Timer
  PROVE  [R!RNext]_(R!rvars)
<1>1. UNCHANGED <<threads, owed, verdict, exitCode>>
  BY DEF Idle, Timer, history
<1>2. CASE UNCHANGED runtimeError
  BY <1>1, <1>2, Stutters
<1>3. CASE runtimeError' # runtimeError
  <2>1. Registered /\ runtimeError'
    <3>1. CASE Idle
      BY <1>3, <3>1 DEF Idle
    <3>2. CASE Timer
      BY <3>2 DEF Timer, IInv, MInv, StudioInv
    <3>. QED  BY <3>1, <3>2
  <2>2. owed
    BY <2>1 DEF IInv, MInv, RunInv
  <2>. QED  BY <1>1, <2>1, <2>2, GoesWrong DEF R!RNext
<1>. QED  BY <1>2, <1>3

\* A model is compiled, and a run prepared, while no run is owed.
LEMMA BeforeTheRun ==
  ASSUME IInv, Parse \/ RunModel
  PROVE  UNCHANGED R!rvars
<1>1. ~owed
  <2>1. CASE Parse
    <3>1. PICK S, n : Fits("parse", S, n) /\ Marks(todo) = {"parse"} \cup S
      BY <2>1, CallsTop DEF Parse, CallMark
    <3>. QED  BY <3>1 DEF Fits, Between, IInv, MInv, RunInv, NoRun, Some
  <2>2. CASE RunModel
    <3>1. Head1(Hear("MODEL_RUN", "simulator")) /\ StackOK(todo)
      BY <2>2 DEF RunModel, IInv
    <3>2. "runModel" \in Marks(todo)
      BY <3>1, HeadIs, MarkOf DEF HearMark
    <3>. QED  BY <3>2 DEF IInv, MInv, RunInv, NoRun, Some
  <2>. QED  BY <2>1, <2>2
<1>2. owed' = owed /\ verdict' = verdict
  BY DEF Parse, RunModel, history
<1>. QED  BY <1>1, <1>2, NothingOwed

LEMMA StopModelAsks ==
  ASSUME IInv, StopModel
  PROVE  R!Ask
<1>1. "stopModel" \in Marks(todo)
  <2>1. Head1(Hear("MODEL_STOP", "simulator")) /\ StackOK(todo)
    BY DEF StopModel, IInv
  <2>. QED  BY <2>1, HeadIs, MarkOf DEF HearMark
<1>2. owed /\ Registered
  BY <1>1 DEF IInv, MInv, RunInv, Some
<1>3. UNCHANGED <<threads, runtimeError, owed, verdict>> /\ exitCode' = "EC_UserBreak"
  BY DEF StopModel, history
<1>. QED  BY <1>2, <1>3, SameThreads DEF R!Ask

LEMMA ThreadStopAfterStutters ==
  ASSUME IInv, ThreadStopAfter
  PROVE  UNCHANGED R!rvars
<1>1. \E S, n : Fits("threadStopAfter", S, n) /\ Marks(todo) = {"threadStopAfter"} \cup S
  <2>1. Head1(Hear("THREAD_STOP_AFTER", "simulator")) /\ StackOK(todo)
    BY DEF ThreadStopAfter, IInv
  <2>. QED  BY <2>1, HeadIs, MarkOf DEF HearMark
<1>2. owed /\ {"reportUser", "closeModel"} \cap Marks(todo) = {}
  BY <1>1 DEF Fits, Between, Waits, IInv, MInv, EndInv, Some, Owing
<1>3. exitCode # "EC_UserBreak" /\ whyStop # "EC_UserBreak"
  BY <1>2 DEF IInv, MInv, CodeInv
<1>4. UNCHANGED <<threads, runtimeError, owed, verdict>> /\ exitCode' \in {exitCode, whyStop}
  BY DEF ThreadStopAfter, history
<1>. QED  BY <1>3, <1>4, SameThreads DEF R!rvars

LEMMA ReportReports ==
  ASSUME IInv, NEW v \in Reports, Report(v)
  PROVE  R!Report
<1>1. PICK S, n : Fits(CallMark(v), S, n) /\ Marks(todo) = {CallMark(v)} \cup S
  BY CallsTop DEF Report
<1>2. owed /\ ~Registered /\ v = R!Verdict
  <2>1. CASE v = "STOP_BY_USER"
    <3>1. CallMark(v) = "reportUser"
      BY <2>1 DEF CallMark
    <3>2. owed /\ ~Registered
      BY <1>1, <3>1 DEF Fits, ByUser, IInv, MInv, EndInv, Some, Owing
    <3>3. exitCode = "EC_UserBreak"
      BY <1>1, <3>1 DEF IInv, MInv, CodeInv
    <3>. QED  BY <2>1, <3>2, <3>3 DEF R!Verdict
  <2>2. CASE v = "STOP_OK" \/ v = "STOP_RUNTIME_ERROR"
    <3>1. CallMark(v) = IF v = "STOP_OK" THEN "reportOk" ELSE "reportError"
      BY <2>2 DEF CallMark
    <3>2. owed /\ ~Registered
      BY <1>1, <2>2, <3>1 DEF IInv, MInv, EndInv, Some, Owing, Gone
    <3>3. "reportUser" \notin Marks(todo)
      BY <1>1, <2>2, <3>1 DEF Fits, ByItself, Between, Waits
    <3>4. exitCode # "EC_UserBreak" /\ (runtimeError <=> v = "STOP_RUNTIME_ERROR")
      BY <1>1, <2>2, <3>1, <3>2, <3>3 DEF IInv, MInv, CodeInv
    <3>. QED  BY <2>2, <3>2, <3>4 DEF R!Verdict
  <2>. QED  BY <2>1, <2>2 DEF Reports
<1>3. owed' = FALSE /\ verdict' = v
  BY <1>2 DEF Report
<1>. QED  BY <1>2, <1>3 DEF R!Report

\* A run of the model is reported exactly once, after it has ended and before another
\* one starts, and the report says what became of it.
THEOREM RunIsReportedRightly == Spec => ImplementsRunReport
<1>1. Init => R!RInit
  BY DEF Init, R!RInit
<1>2. ASSUME IInv, [Next]_vars
      PROVE  [R!RNext]_(R!rvars)
  <2>1. CASE Connect \/ Disconnect
    BY <1>2, <2>1, ConnectStarts, DisconnectEnds DEF R!RNext
  <2>2. CASE RdoInit \/ RdoPostProcess \/ Idle \/ Timer
    BY <1>2, <2>2, RdoInitFails, RdoPostProcessFails, LoopFails
  <2>3. CASE Parse \/ RunModel \/ ThreadStopAfter
    BY <1>2, <2>3, BeforeTheRun, ThreadStopAfterStutters
  <2>4. CASE StopModel
    BY <1>2, <2>4, StopModelAsks DEF R!RNext
  <2>5. ASSUME NEW v \in Reports, Report(v)
        PROVE  [R!RNext]_(R!rvars)
    BY <1>2, <2>5, ReportReports DEF R!RNext
  <2>6. ASSUME UNCHANGED <<threads, runtimeError, exitCode, owed, verdict>>
        PROVE  [R!RNext]_(R!rvars)
    BY <2>6, Stutters
  <2>7. ASSUME NEW v \in Reports, FilesStopModel(v) \/ StudioReport(v)
        PROVE  [R!RNext]_(R!rvars)
    BY <2>6, <2>7 DEF FilesStopModel, StudioReport, serviceVars, history
  <2>8. CASE ParseModel \/ KeepThread \/ TerminateModel \/ Terminated \/ ForgetThread \/ CloseModel
    BY <2>6, <2>8 DEF ParseModel, KeepThread, TerminateModel, Terminated, ForgetThread, CloseModel,
                      serviceVars, history
  <2>9. ASSUME NEW m, FilesMessage(m) \/ StudioFiles(m)
        PROVE  [R!RNext]_(R!rvars)
    BY <2>6, <2>9 DEF FilesMessage, StudioFiles, serviceVars, history
  <2>10. CASE RealCloseModel \/ NewFiles \/ OpenModel \/ OpenFiles \/ BeforeModelStart
              \/ TracerAsks
    BY <2>6, <2>10 DEF RealCloseModel, NewFiles, OpenModel, OpenFiles, BeforeModelStart,
       TracerAsks, serviceVars, history
  <2>11. CASE StudioParseOk \/ StudioParseError \/ StudioStartAfter \/ StudioStopBefore
              \/ StudioRunModel
    BY <2>6, <2>11 DEF StudioParseOk, StudioParseError, StudioStartAfter, StudioStopBefore,
                       StudioRunModel, serviceVars, history
  <2>12. ASSUME NEW then, CanClose(then) \/ StudioCloseModel(then) \/ UserCloses(then)
                \/ Answer(then)
         PROVE  [R!RNext]_(R!rvars)
    BY <2>6, <2>12 DEF CanClose, StudioCloseModel, UserCloses, Answer, serviceVars, history
  <2>13. CASE Broadcast \/ Exit \/ ConsoleHears \/ ConsoleMain
    BY <2>6, <2>13 DEF Broadcast, Exit, ConsoleHears, ConsoleMain, serviceVars, history
  <2>14. CASE UserNew \/ UserBuild \/ UserRun \/ UserStop
    BY <2>6, <2>14 DEF UserNew, UserBuild, UserRun, UserStop, Build, serviceVars, history
  <2>15. CASE FileName \/ CloseBox
    BY <2>6, <2>15 DEF FileName, CloseBox, serviceVars, history
  <2>16. CASE UNCHANGED vars
    BY <2>6, <2>16 DEF vars, serviceVars, history
  <2>. QED  BY <1>2, <2>1, <2>2, <2>3, <2>4, <2>5, <2>7, <2>8, <2>9, <2>10, <2>11, <2>12, <2>13,
           <2>14, <2>15, <2>16 DEF Next, Internal, User
<1>. QED  BY <1>1, <1>2, ModelRunInvariant, PTL DEF Spec, ImplementsRunReport, R!RSpec
=============================================================================
