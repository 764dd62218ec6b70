------------------------ MODULE EventCalendar_proofs ------------------------
(***************************************************************************)
(* Proofs about the event calendar, for every set of operations, every set *)
(* of (integer) times, planning for times already passed included.         *)
(***************************************************************************)
EXTENDS EventCalendar, TLAPS

\* rdoInit leaves every variable with a value of its type.
LEMMA TypeOKInit == Init => TypeOK
<1> USE CalendarAssumption
       DEF TypeOK, Item, Bodies, Phases, Reasons, clockVars, listVars
<1> SUFFICES ASSUME Init PROVE TypeOK
  OBVIOUS
<1>1. currentTime \in Time /\ nextTime \in Time /\ stamp \in 0..MaxPlanned
  BY DEF Init
<1>2. keys \subseteq Time /\ planned \subseteq Item /\ batch \subseteq Item
  BY DEF Init
<1>3. checkOperation \in BOOLEAN /\ mustContinue \in BOOLEAN /\ canRun \in BOOLEAN
  BY DEF Init
<1>4. phase \in Phases /\ whyStop \in Reasons
  BY DEF Init
<1> QED
  BY <1>1, <1>2, <1>3, <1>4

\* So does every step of the simulator.
LEMMA TypeOKStep == TypeOK /\ [Next]_vars => TypeOK'
<1> USE CalendarAssumption
       DEF TypeOK, Item, Bodies, Phases, Reasons, clockVars, listVars
<1> SUFFICES ASSUME TypeOK, [Next]_vars
             PROVE  TypeOK'
  OBVIOUS
<1>1. ASSUME NEW op \in Op, RemoveTimePoint(op)
      PROVE  TypeOK'
  BY <1>1 DEF RemoveTimePoint
<1>2. ASSUME NEW op \in Op, NEW t \in Time, AddTimePoint(op, t)
      PROVE  TypeOK'
  BY <1>2 DEF AddTimePoint
<1>3. CASE InitTimePoint
  BY <1>3 DEF InitTimePoint
<1>4. CASE Return
  BY <1>4 DEF Return
<1>5. CASE EndCondition
  BY <1>5 DEF EndCondition
<1>6. ASSUME NEW k \in keys, NEW e \in planned, RunPlannedEvent(k, e)
      PROVE  TypeOK'
  BY <1>6 DEF RunPlannedEvent, TakeEvent, List
<1>7. CASE StartActivity
  BY <1>7 DEF StartActivity
<1>8. Check \subseteq BOOLEAN
  BY DEF Check
<1>9. ASSUME NextTimePoint
      PROVE  nextTime' \in Time /\ keys' \subseteq Time /\ planned' \subseteq Item
             /\ stamp' \in 0..MaxPlanned /\ phase' \in Phases /\ whyStop' \in Reasons
  BY <1>9 DEF NextTimePoint, NothingMoreToDo
<1>10. CASE NoActivity
  BY <1>8, <1>9, <1>10 DEF NoActivity
<1>11. CASE ContinueSearch
  BY <1>8, <1>11 DEF ContinueSearch
<1>12. CASE SearchFound
  BY <1>8, <1>12 DEF SearchFound
<1>13. CASE SearchFailed
  BY <1>8, <1>9, <1>13 DEF SearchFailed
<1>14. CASE RuntimeError
  BY <1>14 DEF RuntimeError
<1>15. CASE UserBreak
  BY <1>15 DEF UserBreak
<1>16. CASE RdoPostProcess
  BY <1>16 DEF RdoPostProcess
<1>17. CASE UNCHANGED vars
  BY <1>17 DEF vars
<1> QED
  BY <1>1, <1>2, <1>3, <1>4, <1>5, <1>6, <1>7, <1>10, <1>11, <1>12, <1>13, <1>14,
     <1>15, <1>16, <1>17 DEF Next, RdoNext

\* The type invariant: the calendar is a map of lists of planned events and the
\* two clocks are model times.
THEOREM TypeCorrect == Spec => []TypeOK
  BY TypeOKInit, TypeOKStep, PTL DEF Spec

-----------------------------------------------------------------------------
(***************************************************************************)
(* The inductive invariant.  NextIsFirst is what NextTimeIsAnEvent needs:  *)
(* a clock that is to be moved forward is seen only between two calls of   *)
(* rdoNext, and while no body can touch the calendar the time it is to be  *)
(* moved to stays the first key.  That this key has an event rests on      *)
(* OnlyStartListEmpty: the one empty list there can be, which InitAtStart  *)
(* places at the start, is not ahead.                                      *)
(***************************************************************************)
NextIsFirst ==
  currentTime # nextTime =>
     /\ phase \in {"ready", "stopped", "cleared"}
     /\ currentTime < nextTime
     /\ phase = "ready" => IsBegin(nextTime) /\ List(nextTime) # {}

InitAtStart == phase = "onInit" => currentTime = StartTime /\ nextTime = StartTime

IInv == TypeOK /\ PlannedHasKey /\ OnlyStartListEmpty /\ NextIsFirst /\ InitAtStart

\* Choosing the next time point keeps the calendar well formed and leaves the
\* clock where it is or makes it move to the first key, which has an event.
LEMMA NextTimePointKeeps ==
  ASSUME TypeOK, PlannedHasKey, OnlyStartListEmpty, NextTimePoint,
         phase = "ready", currentTime' = nextTime
  PROVE  PlannedHasKey' /\ OnlyStartListEmpty' /\ NextIsFirst'
<1> USE CalendarAssumption DEF TypeOK, listVars, List
<1>1. CASE keys = {} /\ UNCHANGED <<nextTime, listVars>>
  BY <1>1 DEF PlannedHasKey, OnlyStartListEmpty, NextIsFirst
<1>2. ASSUME NEW k \in keys, IsBegin(k),
             keys' = IF List(k) = {} THEN keys \ {k} ELSE keys,
             nextTime' = IF nextTime > k THEN nextTime ELSE k,
             UNCHANGED <<planned, stamp, phase, whyStop>>
      PROVE  PlannedHasKey' /\ OnlyStartListEmpty' /\ NextIsFirst'
  <2> USE <1>2
  <2>1. k \in Int /\ nextTime \in Int /\ StartTime \in Int /\ keys \subseteq Int
    OBVIOUS
  <2>2. PlannedHasKey'
    BY DEF PlannedHasKey
  <2>3. OnlyStartListEmpty'
    BY <2>1 DEF OnlyStartListEmpty, IsBegin
  <2>4. NextIsFirst'
    <3> SUFFICES ASSUME nextTime # nextTime'
                 PROVE  nextTime < nextTime' /\ IsBegin(nextTime)' /\ List(nextTime)' # {}
      BY DEF NextIsFirst
    <3>1. nextTime' = k /\ nextTime < k
      BY <2>1
    <3>2. List(k) # {}
      BY <3>1, <2>1 DEF OnlyStartListEmpty
    <3> QED
      BY <3>1, <3>2 DEF IsBegin
  <2> QED
    BY <2>2, <2>3, <2>4
<1> QED
  BY <1>1, <1>2 DEF NextTimePoint, NothingMoreToDo

\* Every step keeps the invariant.
LEMMA IInvStep == IInv /\ [Next]_vars => IInv'
<1> SUFFICES ASSUME IInv, [Next]_vars, TypeOK'
             PROVE  PlannedHasKey' /\ OnlyStartListEmpty' /\ NextIsFirst'
  <2>1. IInv /\ [Next]_vars => InitAtStart'
    <3> USE DEF IInv, InitAtStart, clockVars, NextTimePoint, NothingMoreToDo, vars, Bodies
    <3> QED
      BY DEF Next, RdoNext, RemoveTimePoint, AddTimePoint, InitTimePoint, Return,
         EndCondition, RunPlannedEvent, TakeEvent, StartActivity, NoActivity, ContinueSearch,
         SearchFound, SearchFailed, RuntimeError, UserBreak, RdoPostProcess, NothingFound
  <2> QED
    BY <2>1, TypeOKStep DEF IInv
<1> USE DEF IInv, Bodies
<1>1. ASSUME NEW op \in Op, RemoveTimePoint(op)
      PROVE  PlannedHasKey' /\ OnlyStartListEmpty' /\ NextIsFirst'
  <2> USE <1>1 DEF RemoveTimePoint
  <2>1. PlannedHasKey'
    BY DEF PlannedHasKey
  <2>2. \A k \in keys' : List(k)' # {}
    BY DEF List
  <2>3. currentTime = nextTime /\ UNCHANGED clockVars
    BY DEF NextIsFirst
  <2> QED
    BY <2>1, <2>2, <2>3 DEF OnlyStartListEmpty, NextIsFirst, clockVars
<1>2. ASSUME NEW op \in Op, NEW t \in Time, AddTimePoint(op, t)
      PROVE  PlannedHasKey' /\ OnlyStartListEmpty' /\ NextIsFirst'
  <2> USE <1>2 DEF AddTimePoint
  <2> DEFINE new == [op |-> op, at |-> t, id |-> stamp + 1]
  <2>1. planned' = planned \cup {new} /\ new.at = t
    OBVIOUS
  <2>2. PlannedHasKey'
    BY <2>1 DEF PlannedHasKey
  <2>3. currentTime = nextTime /\ UNCHANGED clockVars
    BY DEF NextIsFirst
  <2>4. \A k \in keys' : List(k)' = {} => k \in keys /\ List(k) = {}
    <3> HIDE DEF new
    <3> QED
      BY <2>1 DEF List
  <2>5. OnlyStartListEmpty'
    BY <2>3, <2>4 DEF OnlyStartListEmpty, clockVars
  <2> QED
    BY <2>2, <2>3, <2>5 DEF NextIsFirst, clockVars
<1>3. CASE InitTimePoint
  BY <1>3 DEF InitTimePoint, InitAtStart, PlannedHasKey, OnlyStartListEmpty, NextIsFirst,
              List, clockVars
<1>4. CASE Return
  BY <1>4 DEF Return, PlannedHasKey, OnlyStartListEmpty, NextIsFirst, List,
              IsBegin, clockVars, listVars
<1>5. CASE EndCondition \/ UserBreak
  BY <1>5 DEF EndCondition, UserBreak, PlannedHasKey, OnlyStartListEmpty, NextIsFirst,
              List, IsBegin, clockVars, listVars
<1>6. ASSUME NEW k \in keys, NEW e \in planned, RunPlannedEvent(k, e)
      PROVE  PlannedHasKey' /\ OnlyStartListEmpty' /\ NextIsFirst'
  BY <1>6 DEF RunPlannedEvent, TakeEvent, PlannedHasKey, OnlyStartListEmpty, NextIsFirst, List
<1>7. CASE StartActivity
  BY <1>7 DEF StartActivity, PlannedHasKey, OnlyStartListEmpty, NextIsFirst, List,
              listVars
<1>8. CASE NoActivity
  BY <1>8, NextTimePointKeeps DEF NoActivity, NothingFound
<1>9. CASE SearchFailed
  BY <1>9, NextTimePointKeeps DEF SearchFailed
<1>10. CASE ContinueSearch \/ SearchFound
  BY <1>10 DEF ContinueSearch, SearchFound, PlannedHasKey, OnlyStartListEmpty,
               NextIsFirst, List, listVars
<1>11. CASE RuntimeError
  BY <1>11 DEF RuntimeError, PlannedHasKey, OnlyStartListEmpty, NextIsFirst, List,
               listVars
<1>12. CASE RdoPostProcess
  BY <1>12 DEF RdoPostProcess, PlannedHasKey, OnlyStartListEmpty, NextIsFirst, List,
               clockVars
<1>13. CASE UNCHANGED vars
  BY <1>13 DEF vars, PlannedHasKey, OnlyStartListEmpty, NextIsFirst, List, IsBegin
<1> QED
  BY <1>1, <1>2, <1>3, <1>4, <1>5, <1>6, <1>7, <1>8, <1>9, <1>10, <1>11, <1>12, <1>13
     DEF Next, RdoNext

LEMMA CalendarInvariant == Spec => []IInv
<1>1. Init => IInv
  BY TypeOKInit DEF Init, IInv, PlannedHasKey, OnlyStartListEmpty, NextIsFirst, InitAtStart
<1> QED
  BY <1>1, IInvStep, PTL DEF Spec

\* Whatever the bodies plan and stop, the keys are the times that have events,
\* except for the list of the start.
THEOREM KeysAreRight == Spec => []ListsAgreeWithKeys
<1>1. IInv => ListsAgreeWithKeys
  BY DEF IInv, ListsAgreeWithKeys
<1> QED
  BY <1>1, CalendarInvariant, PTL

\* m_nextTime, chosen in one call of rdoNext, is still the time of the first event
\* when the next one uses it.
THEOREM NextTimeStaysRight == Spec => []NextTimeIsAnEvent
<1>1. IInv => NextTimeIsAnEvent
  BY DEF IInv, OnlyStartListEmpty, PlannedHasKey, NextIsFirst, NextTimeIsAnEvent, IsBegin
<1> QED
  BY <1>1, CalendarInvariant, PTL

-----------------------------------------------------------------------------
(***************************************************************************)
(* The calendar implements the Agenda.  The clocks of the two levels are   *)
(* the same; what has to be shown is that the event doOperation takes is   *)
(* the foremost one and that a step that moves the clock forward makes it  *)
(* elapse to the time of an earliest event, both from NextIsFirst.         *)
(***************************************************************************)
\* A step that uses the chosen m_nextTime and leaves the events alone is a move
\* of the clock that the Agenda allows.
LEMMA ClockElapses ==
  ASSUME IInv, phase = "ready", currentTime' = nextTime, UNCHANGED <<planned, stamp>>
  PROVE  [A!ANext]_(A!avars)
<1>1. CASE currentTime = nextTime
  BY <1>1 DEF A!avars
<1>2. CASE currentTime # nextTime
  <2> USE CalendarAssumption DEF IInv, TypeOK
  <2>1. currentTime < nextTime /\ IsBegin(nextTime) /\ List(nextTime) # {}
    BY <1>2 DEF NextIsFirst
  <2>2. PICK e \in planned : e.at = nextTime
    BY <2>1 DEF List
  <2>3. A!Earliest(e)
    BY <2>1, <2>2 DEF A!Earliest, IsBegin, PlannedHasKey
  <2>4. A!Elapse(e)
    BY <2>1, <2>2, <2>3 DEF A!Elapse, A!Later
  <2> QED
    BY <2>2, <2>4 DEF A!ANext
<1> QED
  BY <1>1, <1>2

\* Taking an event off the calendar is the foremost pending event happening, now
\* or at its time.
LEMMA EventHappens ==
  ASSUME IInv, NEW k \in keys, NEW e \in planned, RunPlannedEvent(k, e)
  PROVE  A!Happen(e)
<1> USE CalendarAssumption DEF IInv, TypeOK, RunPlannedEvent, TakeEvent
<1>1. e.at = k /\ k \in Int /\ currentTime \in Int /\ nextTime \in Int
  BY DEF List
<1>2. A!Earliest(e)
  BY <1>1 DEF A!Earliest, IsBegin, PlannedHasKey
<1>3. A!Foremost(e)
  BY <1>2 DEF A!Foremost, IsFront, List
<1>4. nextTime = A!Later(currentTime, e.at)
  BY <1>1 DEF A!Later, NextIsFirst, IsBegin
<1> QED
  BY <1>3, <1>4 DEF A!Happen

\* Every run of the simulator is a run of the Agenda: events happen in the order
\* of their times and, at one time, in the order they were planned in; the clock
\* never passes a pending event; none is lost.
THEOREM CalendarImplementsAgenda == Spec => ImplementsAgenda
<1>1. Init => A!AInit
  BY DEF Init, A!AInit
<1>2. IInv /\ [Next]_vars => [A!ANext]_(A!avars)
  <2> SUFFICES ASSUME IInv, [Next]_vars
               PROVE  [A!ANext]_(A!avars)
    OBVIOUS
  <2>1. ASSUME NEW op \in Op, RemoveTimePoint(op)
        PROVE  [A!ANext]_(A!avars)
    BY <2>1 DEF RemoveTimePoint, A!ANext, A!Stop, clockVars
  <2>2. ASSUME NEW op \in Op, NEW t \in Time, AddTimePoint(op, t)
        PROVE  [A!ANext]_(A!avars)
    BY <2>2 DEF AddTimePoint, A!ANext, A!Plan, clockVars
  <2>3. CASE InitTimePoint \/ Return \/ EndCondition \/ UserBreak
    BY <2>3 DEF InitTimePoint, Return, EndCondition, UserBreak, A!avars, clockVars,
                listVars
  <2>4. ASSUME NEW k \in keys, NEW e \in planned, RunPlannedEvent(k, e)
        PROVE  [A!ANext]_(A!avars)
    BY <2>4, EventHappens DEF A!ANext
  <2>5. CASE StartActivity
    BY <2>5, ClockElapses DEF StartActivity, NothingFound, listVars
  <2>6. CASE NoActivity
    BY <2>6, ClockElapses DEF NoActivity, NothingFound, NextTimePoint, NothingMoreToDo, listVars
  <2>7. CASE ContinueSearch \/ SearchFound
    BY <2>7, ClockElapses DEF ContinueSearch, SearchFound, listVars
  <2>8. CASE SearchFailed
    BY <2>8, ClockElapses DEF SearchFailed, NextTimePoint, NothingMoreToDo, listVars
  <2>9. CASE RuntimeError
    <3>1. CASE currentTime' = currentTime
      BY <2>9, <3>1 DEF RuntimeError, A!avars, listVars
    <3>2. CASE currentTime' # currentTime
      BY <2>9, <3>2, ClockElapses DEF RuntimeError, listVars
    <3> QED
      BY <3>1, <3>2
  <2>10. CASE RdoPostProcess
    BY <2>10 DEF RdoPostProcess, A!ANext, A!Finish, clockVars
  <2>11. CASE UNCHANGED vars
    BY <2>11 DEF vars, A!avars
  <2> QED
    BY <2>1, <2>2, <2>3, <2>4, <2>5, <2>6, <2>7, <2>8, <2>9, <2>10, <2>11
       DEF Next, RdoNext
<1>3. Init => IInv
  BY TypeOKInit DEF Init, IInv, PlannedHasKey, OnlyStartListEmpty, NextIsFirst, InitAtStart
<1> QED
  BY <1>1, <1>2, <1>3, IInvStep, PTL DEF Spec, ImplementsAgenda, A!ASpec

-----------------------------------------------------------------------------
(***************************************************************************)
(* The batch.  What is left of it is due and stays in the first list until *)
(* an event is planned for an earlier time, and while m_checkOperation is  *)
(* false doOperation then finds a planned event.                           *)
(***************************************************************************)
BatchIsDue ==
  \A e \in batch \cap planned :
     /\ ~checkOperation /\ ~mustContinue
     /\ e.at =< currentTime
     /\ \A k \in keys : e.at =< k

IdsAreUsed == \A e \in planned \cup batch : e.id =< stamp

BInv == IInv /\ BatchIsDue /\ IdsAreUsed

\* While some of the batch is left, the meta logic is not asked.
LEMMA BatchIsFound == BInv /\ NothingFound => batch \cap planned = {}
<1> SUFFICES ASSUME BInv, NothingFound, NEW e \in batch \cap planned PROVE FALSE
  OBVIOUS
<1> USE CalendarAssumption DEF BInv, IInv, TypeOK
<1>1. e.at \in Int /\ currentTime \in Int /\ nextTime \in Int /\ currentTime =< nextTime
  <2>1. e.at \in Int
    BY DEF Item
  <2>2. currentTime =< nextTime
    BY DEF NextIsFirst
  <2> QED
    BY <2>1, <2>2
<1>2. IsBegin(e.at) /\ e.at =< nextTime /\ List(e.at) # {}
  BY <1>1 DEF BatchIsDue, IsBegin, PlannedHasKey, List
<1> QED
  BY <1>2, <1>1 DEF NothingFound, BatchIsDue, PlannedHasKey

LEMMA BatchIsDueStep ==
  ASSUME BInv, [Next]_vars
  PROVE  BatchIsDue'
<1> USE CalendarAssumption DEF BInv
<1>1. currentTime \in Int /\ nextTime \in Int /\ Time \subseteq Int /\ keys \subseteq Int
      /\ \A e \in planned : e.at \in Int
  BY DEF IInv, TypeOK, Item
<1>2. ASSUME NEW op \in Op, RemoveTimePoint(op)
      PROVE  BatchIsDue'
  BY <1>2 DEF RemoveTimePoint, BatchIsDue, clockVars
<1>3. ASSUME NEW op \in Op, NEW t \in Time, AddTimePoint(op, t)
      PROVE  BatchIsDue'
  <2> DEFINE new == [op |-> op, at |-> t, id |-> stamp + 1]
  <2>1. batch' = IF \E e \in batch : t < e.at THEN {} ELSE batch
    BY <1>3 DEF AddTimePoint
  <2>2. new \notin batch
    BY DEF IInv, TypeOK, IdsAreUsed
  <2> QED
    BY <1>1, <1>3, <2>1, <2>2 DEF AddTimePoint, BatchIsDue, clockVars
<1>4. CASE InitTimePoint
  BY <1>1, <1>4 DEF InitTimePoint, BatchIsDue, clockVars
<1>5. CASE Return \/ EndCondition \/ UserBreak
  BY <1>5 DEF Return, EndCondition, UserBreak, BatchIsDue, clockVars, listVars
<1>6. ASSUME NEW k \in keys, NEW e \in planned, RunPlannedEvent(k, e)
      PROVE  BatchIsDue'
  BY <1>1, <1>6 DEF RunPlannedEvent, TakeEvent, BatchIsDue, List, IsBegin
<1>7. CASE StartActivity \/ NoActivity
  BY <1>7 DEF StartActivity, NoActivity, BatchIsDue
<1>8. CASE ContinueSearch \/ SearchFound \/ SearchFailed
  BY <1>8 DEF ContinueSearch, SearchFound, SearchFailed, NextTimePoint, NothingMoreToDo, BatchIsDue,
              listVars
<1>9. CASE RuntimeError
  BY <1>1, <1>9 DEF RuntimeError, BatchIsDue, listVars, IInv, NextIsFirst
<1>10. CASE RdoPostProcess
  BY <1>10 DEF RdoPostProcess, BatchIsDue
<1>11. CASE UNCHANGED vars
  BY <1>11 DEF vars, BatchIsDue
<1> QED
  BY <1>2, <1>3, <1>4, <1>5, <1>6, <1>7, <1>8, <1>9, <1>10, <1>11 DEF Next, RdoNext

LEMMA IdsAreUsedStep ==
  ASSUME TypeOK, IdsAreUsed, [Next]_vars
  PROVE  IdsAreUsed'
<1> USE DEF TypeOK, IdsAreUsed, listVars
<1>1. ASSUME NEW op \in Op, NEW t \in Time, AddTimePoint(op, t)
      PROVE  IdsAreUsed'
  BY <1>1 DEF AddTimePoint, Item
<1>2. ASSUME NEW k \in keys, NEW e \in planned, RunPlannedEvent(k, e)
      PROVE  IdsAreUsed'
  BY <1>2 DEF RunPlannedEvent, TakeEvent, List
<1>3. ASSUME planned' \subseteq planned, batch' \subseteq batch, stamp' = stamp
      PROVE  IdsAreUsed'
  BY <1>3
<1> QED
  BY <1>1, <1>2, <1>3
     DEF Next, RdoNext, vars, RemoveTimePoint, InitTimePoint, Return, EndCondition,
         StartActivity, NoActivity, NextTimePoint, NothingMoreToDo, ContinueSearch, SearchFound,
         SearchFailed, RuntimeError, UserBreak, RdoPostProcess

\* No activity comes between the events that were found in one list, unless an
\* event is planned for an earlier time.
THEOREM BatchCorrect == Spec => BatchRunsFirst
<1>1. Init => BInv
  BY TypeOKInit DEF Init, BInv, IInv, PlannedHasKey, OnlyStartListEmpty, NextIsFirst,
                    InitAtStart, BatchIsDue, IdsAreUsed
<1>2. BInv /\ [Next]_vars => BInv'
  BY IInvStep, BatchIsDueStep, IdsAreUsedStep DEF BInv, IInv
<1>3. BInv /\ [Next]_vars => [ActivityStarts => batch \cap planned = {}]_vars
  <2> SUFFICES ASSUME BInv, Next, ActivityStarts, vars' # vars
               PROVE  batch \cap planned = {}
    BY DEF vars
  <2>1. StartActivity
    BY DEF Next, RdoNext, ActivityStarts, RemoveTimePoint, AddTimePoint, InitTimePoint,
           Return, EndCondition, RunPlannedEvent, TakeEvent, NoActivity, NextTimePoint, NothingMoreToDo,
           NothingFound, ContinueSearch, SearchFound, SearchFailed, RuntimeError,
           UserBreak, RdoPostProcess, Bodies
  <2> QED
    BY <2>1, BatchIsFound DEF StartActivity
<1> QED
  BY <1>1, <1>2, <1>3, PTL DEF Spec, BatchRunsFirst
=============================================================================
