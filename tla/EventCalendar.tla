--------------------------- MODULE EventCalendar ---------------------------
(***************************************************************************)
(* The event calendar and the main step of the simulator: RDOSimulatorBase *)
(* (simulator/runtime/rdobase.cpp) with RDOSimulator::doOperation          *)
(* (simulator/runtime/rdo_simulator.cpp), in the default build (FIFO list  *)
(* of current events, no RDO_703_COMPATIBLE).                              *)
(*                                                                         *)
(* m_timePoints maps a time to the list of events planned for it.  The     *)
(* model keeps the keys of that map (a key may have an empty list) and the *)
(* set of planned events; an event carries the number of the addTimePoint  *)
(* call that planned it, so that the list of key t is the events planned   *)
(* for t by increasing number: push_back appends the greatest number and   *)
(* the front of the list is the least one.                                 *)
(*                                                                         *)
(* The model being simulated is the environment: while one of its bodies   *)
(* runs (initialisation, event, activity) it plans and stops events, and   *)
(* after it any activity may or may not be able to start.  The bodies run  *)
(* inside rdoInit and rdoNext, so no other action is enabled meanwhile.    *)
(***************************************************************************)
EXTENDS Integers

CONSTANTS Op,            \* operations (LPIBaseOperation) that events belong to
          Time,          \* model times that are planned for
          StartTime,     \* m_startTime
          MaxPlanned     \* bound: number of addTimePoint calls of a run

ASSUME CalendarAssumption ==
  /\ Time \subseteq Int
  /\ StartTime \in Time
  /\ MaxPlanned \in Nat

VARIABLES currentTime,      \* m_currentTime
          nextTime,         \* m_nextTime
          checkOperation,   \* m_checkOperation
          keys,             \* the keys of m_timePoints
          planned,          \* the items of its lists
          stamp,            \* number of addTimePoint calls so far
          mustContinue,     \* m_pOprMustContinue is set
          phase,            \* the body that runs, "ready" between two rdoNext
          whyStop,          \* RDORuntime::m_whyStop
          canRun,           \* would the meta logic find an activity now?
          batch             \* history: the rest of the list of the last event,
                            \* until the meta logic is asked again or an event is
                            \* planned for a time before that list's

vars == <<currentTime, nextTime, checkOperation, keys, planned, stamp,
          mustContinue, phase, whyStop, canRun, batch>>

clockVars == <<currentTime, nextTime>>
listVars  == <<keys, planned, stamp>>

Item  == [op : Op, at : Time, id : 1..MaxPlanned]
Bodies == {"onInit", "preProcess", "event", "activity"}
Phases == Bodies \cup {"ready", "stopped", "cleared"}
Reasons == {"none", "EC_OK", "EC_NoMoreEvents", "EC_RunTimeError", "EC_UserBreak"}

TypeOK == /\ currentTime \in Time
          /\ nextTime \in Time
          /\ checkOperation \in BOOLEAN
          /\ keys \subseteq Time
          /\ planned \subseteq Item
          /\ stamp \in 0..MaxPlanned
          /\ mustContinue \in BOOLEAN
          /\ phase \in Phases
          /\ whyStop \in Reasons
          /\ canRun \in BOOLEAN
          /\ batch \subseteq Item

-----------------------------------------------------------------------------
(***************************************************************************)
(* The map of lists.                                                       *)
(***************************************************************************)
List(t) == {e \in planned : e.at = t}

\* m_timePoints.begin()
IsBegin(k) == k \in keys /\ \A j \in keys : k =< j

\* list.front()
\* Mutant: list.back(), as in the RDOSIM_COMPATIBLE build.
IsBack(e) == e \in planned /\ \A f \in List(e.at) : f.id =< e.id

IsFront(e) == e \in planned /\ \A f \in List(e.at) : e.id =< f.id

Init == /\ currentTime = StartTime
        /\ nextTime = StartTime
        /\ checkOperation = TRUE
        /\ keys = {} /\ planned = {} /\ stamp = 0
        /\ mustContinue = FALSE
        /\ phase = "onInit"
        /\ whyStop = "none"
        /\ canRun = FALSE
        /\ batch = {}

-----------------------------------------------------------------------------
(***************************************************************************)
(* Calls made by the bodies of the model.                                  *)
(***************************************************************************)
AddTimePoint(op, t) ==
  /\ phase \in Bodies
  /\ stamp < MaxPlanned
  /\ keys' = keys \cup {t}
  /\ planned' = planned \cup {[op |-> op, at |-> t, id |-> stamp + 1]}
  /\ stamp' = stamp + 1
  /\ batch' = IF \E e \in batch : t < e.at THEN {} ELSE batch
  /\ UNCHANGED <<clockVars, checkOperation, mustContinue, phase, whyStop, canRun>>

\* Mutant: removeTimePoint leaves the lists it empties.
RemoveTimePointOnly(op) ==
  /\ phase \in Bodies \ {"preProcess"}
  /\ planned' = {e \in planned : e.op # op}
  /\ UNCHANGED <<clockVars, keys, checkOperation, stamp, mustContinue, phase, whyStop,
                 canRun, batch>>

\* Every item of op goes, and with it every list left (or found) empty.
RemoveTimePoint(op) ==
  /\ phase \in Bodies \ {"preProcess"}
  /\ planned' = {e \in planned : e.op # op}
  /\ keys' = {k \in keys : \E e \in planned' : e.at = k}
  /\ UNCHANGED <<clockVars, checkOperation, stamp, mustContinue, phase, whyStop,
                 canRun, batch>>

\* rdoInit between onInit and preProcess: the list of the start time exists.
InitTimePoint ==
  /\ phase = "onInit"
  /\ phase' = "preProcess"
  /\ keys' = keys \cup {currentTime}
  /\ UNCHANGED <<clockVars, checkOperation, planned, stamp, mustContinue, whyStop,
                 canRun, batch>>

\* A body returns into rdoNext (or rdoInit), which returns true.
Return ==
  /\ phase \in Bodies \ {"onInit"}
  /\ phase' = "ready"
  /\ canRun' \in BOOLEAN
  /\ UNCHANGED <<clockVars, checkOperation, listVars, mustContinue, whyStop, batch>>

-----------------------------------------------------------------------------
(***************************************************************************)
(* rdoNext.  It first makes nextTime the current time, so that everything  *)
(* it does is done at nextTime; what the activities can do then is         *)
(* determined anew when the time has changed.                              *)
(***************************************************************************)
Check == IF currentTime # nextTime THEN BOOLEAN ELSE {canRun}

EndCondition ==
  /\ phase = "ready"
  /\ phase' = "stopped"
  /\ whyStop' = "EC_OK"
  /\ UNCHANGED <<clockVars, checkOperation, listVars, mustContinue, canRun, batch>>

\* doOperation finds a planned event and takes it off its list.
TakeEvent(k, e) ==
  /\ phase = "ready" /\ ~mustContinue
  /\ ~checkOperation
  /\ IsBegin(k) /\ k =< nextTime
  /\ e \in List(k) /\ IsFront(e)
  /\ planned' = planned \ {e}
  /\ currentTime' = nextTime
  /\ phase' = "event"
  /\ batch' = List(k) \ {e}
  /\ UNCHANGED <<nextTime, stamp, mustContinue, whyStop, canRun>>

\* Mutants: the key goes with the first event of its list; m_checkOperation stays
\* true, as in the RDO_703_COMPATIBLE build.
RunEventEraseKey(k, e) ==
  TakeEvent(k, e) /\ keys' = keys \ {k} /\ checkOperation' = (List(k) = {e})

RunEventCheckAlways(k, e) ==
  /\ TakeEvent(k, e)
  /\ keys' = IF List(k) = {e} THEN keys \ {k} ELSE keys
  /\ checkOperation' = TRUE

\* The list that has become empty goes too, or else its next event comes before
\* the activities; then the event runs.
RunPlannedEvent(k, e) ==
  /\ TakeEvent(k, e)
  /\ keys' = IF List(k) = {e} THEN keys \ {k} ELSE keys
  /\ checkOperation' = (List(k) = {e})

NothingFound ==
  /\ phase = "ready" /\ ~mustContinue
  /\ checkOperation \/ ~ \E k \in keys : IsBegin(k) /\ k =< nextTime /\ List(k) # {}

\* The meta logic finds an activity.  It is carried out, or it is a search
\* that asks to be continued in the next step.
StartActivity ==
  /\ NothingFound
  /\ TRUE \in Check /\ canRun' = TRUE
  /\ checkOperation' = (checkOperation \/ keys # {})
  /\ currentTime' = nextTime
  /\ \/ phase' = "activity" /\ UNCHANGED mustContinue
     \/ mustContinue' = TRUE /\ UNCHANGED phase
  /\ batch' = {}
  /\ UNCHANGED <<nextTime, listVars, whyStop>>

NothingMoreToDo ==
  /\ keys = {}
  /\ phase' = "stopped"
  /\ whyStop' = "EC_NoMoreEvents"
  /\ UNCHANGED <<nextTime, listVars>>

\* Mutants: the clamp to the current time, and the erasure of the empty list.
NextTimePointNoClamp ==
  \/ NothingMoreToDo
  \/ \E k \in keys :
       /\ IsBegin(k)
       /\ keys' = IF List(k) = {} THEN keys \ {k} ELSE keys
       /\ nextTime' = k
       /\ UNCHANGED <<planned, stamp, phase, whyStop>>

NextTimePointKeepEmpty ==
  \/ NothingMoreToDo
  \/ \E k \in keys :
       /\ IsBegin(k)
       /\ nextTime' = IF nextTime > k THEN nextTime ELSE k
       /\ UNCHANGED <<listVars, phase, whyStop>>

\* doOperation was false: an empty first list is dropped and the step of its
\* time, or of the first event, becomes the next one.
NextTimePoint ==
  \/ NothingMoreToDo
  \/ \E k \in keys :
       /\ IsBegin(k)
       /\ keys' = IF List(k) = {} THEN keys \ {k} ELSE keys
       /\ nextTime' = IF nextTime > k THEN nextTime ELSE k
       /\ UNCHANGED <<planned, stamp, phase, whyStop>>

\* No activity can start, or the one that was found refuses in onDoOperation.
NoActivity ==
  /\ NothingFound
  /\ canRun' \in Check
  /\ checkOperation' = FALSE
  /\ currentTime' = nextTime
  /\ NextTimePoint
  /\ batch' = {}
  /\ UNCHANGED mustContinue

\* onContinue: the search goes on, has found its path, or has failed.
ContinueSearch ==
  /\ phase = "ready" /\ mustContinue
  /\ currentTime' = nextTime
  /\ canRun' \in Check
  /\ UNCHANGED <<nextTime, checkOperation, listVars, mustContinue, phase, whyStop, batch>>

SearchFound ==
  /\ phase = "ready" /\ mustContinue
  /\ mustContinue' = FALSE
  /\ currentTime' = nextTime
  /\ canRun' \in Check
  /\ phase' = "activity"
  /\ UNCHANGED <<nextTime, checkOperation, listVars, whyStop, batch>>

SearchFailed ==
  /\ phase = "ready" /\ mustContinue
  /\ mustContinue' = FALSE
  /\ currentTime' = nextTime
  /\ canRun' \in Check
  /\ NextTimePoint
  /\ UNCHANGED <<checkOperation, batch>>

-----------------------------------------------------------------------------
(***************************************************************************)
(* The other ways a run ends, and what is left of the calendar.            *)
(***************************************************************************)
RuntimeError ==
  /\ phase \in Bodies \cup {"ready"}
  /\ phase' = "stopped"
  /\ whyStop' = "EC_RunTimeError"
  /\ currentTime' \in IF phase = "ready" THEN {currentTime, nextTime} ELSE {currentTime}
  /\ UNCHANGED <<nextTime, checkOperation, listVars, mustContinue, canRun, batch>>

UserBreak ==
  /\ phase = "ready"
  /\ phase' = "stopped"
  /\ whyStop' = "EC_UserBreak"
  /\ UNCHANGED <<clockVars, checkOperation, listVars, mustContinue, canRun, batch>>

RdoPostProcess ==
  /\ phase = "stopped"
  /\ phase' = "cleared"
  /\ keys' = {} /\ planned' = {}
  /\ UNCHANGED <<clockVars, checkOperation, stamp, mustContinue, whyStop, canRun, batch>>

\* rdoNext when the model's end condition does not hold.
RdoNext == \/ \E k \in keys, e \in planned : RunPlannedEvent(k, e)
           \/ StartActivity \/ NoActivity
           \/ ContinueSearch \/ SearchFound \/ SearchFailed

Next == \/ \E op \in Op : RemoveTimePoint(op) \/ \E t \in Time : AddTimePoint(op, t)
        \/ InitTimePoint \/ Return
        \/ EndCondition \/ RdoNext
        \/ RuntimeError \/ UserBreak \/ RdoPostProcess

Spec == Init /\ [][Next]_vars

\* RDOKernel::idle is called for ever and calls RDOThreadRunTime::idle, a body
\* is code that returns, and a run that has stopped is post-processed.  A model
\* need not have an end condition, so nothing relies on EndCondition.  That the
\* search of a decision point ends is part of WF on RdoNext.
Fairness == WF_vars(RdoNext) /\ WF_vars(Return) /\ WF_vars(InitTimePoint)
            /\ WF_vars(RdoPostProcess)

FairSpec == Spec /\ Fairness

-----------------------------------------------------------------------------
(***************************************************************************)
(* Properties.                                                             *)
(***************************************************************************)
\* Every planned event is reachable from begin(): its time is a key.
PlannedHasKey == \A e \in planned : e.at \in keys

\* The only list that may be empty is the one rdoInit makes, and only while the
\* clock is still at the start: doOperation and removeTimePoint leave no other.
OnlyStartListEmpty ==
  \A k \in keys : List(k) = {} => k = StartTime /\ nextTime = StartTime

\* Keys and lists agree after any sequence of planning, stopping and happening,
\* from inside the bodies of events too.
ListsAgreeWithKeys == PlannedHasKey /\ OnlyStartListEmpty

\* Between two rdoNext the time the clock will move to is the time of an event,
\* lies ahead, and no event is planned before it: what happens between choosing
\* m_nextTime in one call and using it in the next makes no difference.
NextTimeIsAnEvent ==
  (phase = "ready" /\ currentTime # nextTime) =>
     /\ currentTime < nextTime
     /\ List(nextTime) # {}
     /\ \A e \in planned : nextTime =< e.at

\* The step in which the meta logic hands out an activity.
ActivityStarts == \/ phase = "ready" /\ phase' = "activity" /\ ~mustContinue
                  \/ ~mustContinue /\ mustContinue'

\* Events found in one list run as a batch: once the first has run, no activity
\* starts before the others, which were in the list with it, have run too or
\* were stopped (m_checkOperation stays false until the list is exhausted),
\* unless an event planned for an earlier time makes another list the first one.
BatchRunsFirst == [][ActivityStarts => batch \cap planned = {}]_vars

\* The calendar keeps the promises of the Agenda.
A == INSTANCE Agenda WITH clock <- currentTime, pending <- planned

ImplementsAgenda == A!ASpec

\* If the activities do not go on for ever at one instant, every planned event
\* happens, is stopped or is dropped at the end of the run.
Quiescent == phase = "ready" /\ ~canRun

EveryEventHappens ==
  []<>(Quiescent \/ phase = "cleared") =>
     \A i \in 1..MaxPlanned : (\E e \in planned : e.id = i) ~> (\A e \in planned : e.id # i)

=============================================================================
