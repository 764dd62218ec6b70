----------------------------- MODULE RunControl -----------------------------
(***************************************************************************)
(* How a run is paced and held (RDOSimulatorBase::rdoNext) while the user  *)
(* of the Studio changes its mode, speed and show rate, presses the keys   *)
(* and clicks the frame areas that keyboard operations answer              *)
(* (RDOThreadRunTime::proc, RDOHotKey).                                    *)
(*                                                                         *)
(* A call of rdoNext is held (modes Pause and BreakPoint), or delayed, by  *)
(* the number of calls or by the wall clock, or is a step of the run: an   *)
(* operation of the model, the advance of the model time, the end.         *)
(*                                                                         *)
(* Real and model time are in units of the clock, the model's at the show  *)
(* rate in force.  A speed is the number it divides by: 2 for one half.    *)
(***************************************************************************)
EXTENDS Integers, Sequences

CONSTANTS Speed,        \* the speeds the user may set, 0 for no speed at all
          Count,        \* Count[s]: the calls from one step to the next at speed s
          Longest,      \* 1 / DBL_MIN, what a wait is multiplied by at speed 0
          Duration,     \* between two neighbouring time points of the calendar
          Key,          \* the keys of keyInModel
          Modifier,     \* those of them that are VK_SHIFT and VK_CONTROL
          Repeats,      \* how often a key is kept in the buffer
          HotKey,       \* the keyboard operations, in the order they are asked
          Area,         \* the active areas of the frames
          SetBack,      \* by how much the wall clock may be set back
          UIntMax,      \* UINT_MAX
          MaxWait,      \* bound: model time waited for at once
          MaxElapsed,   \* bound: the clock seen since a wait began
          MaxLag        \* bound of the history variable lead

Mode   == {"MaxSpeed", "Jump", "Sync", "Pause", "BreakPoint"}
Held   == {"Pause", "BreakPoint"}
AtOnce == {"MaxSpeed", "Jump"}

Stretch(s) == IF s = 0 THEN Longest ELSE s

\* The studio's slider gives speeds from 0 to 1; a run begins at speed 1.
ASSUME RunControlAssumption ==
  /\ Speed \subseteq Nat
  /\ 1 \in Speed
  /\ Count \in [Speed -> Nat]
  /\ Count[1] = 0
  /\ Longest \in Nat \ {0}
  /\ Duration \subseteq Nat
  /\ Modifier \subseteq Key
  /\ HotKey \in Seq([key : Key \ Modifier, with : SUBSET Modifier, name : Area])
  /\ SetBack \subseteq Nat \ {0}
  /\ {UIntMax, MaxWait, MaxElapsed, MaxLag, Repeats} \subseteq Nat
  /\ MaxElapsed =< MaxLag

VARIABLES mode,     \* m_mode
          speed,    \* m_speed; it determines m_next_delay_count
          current,  \* m_next_delay_current
          wait,     \* m_msec_wait
          elapsed,  \* real time since m_msec_prev, 0 when there is nothing to wait for
          back,     \* how far the clock has been set back since m_msec_prev
          moved,    \* m_nextTime # m_startTime
          down,     \* KeyDownList::m_keyList, a bag
          found,    \* KeyDownList::m_keyFound
          clicked,  \* AreaList::m_activeAreasMouseClicked
          over,     \* rdoNext has answered that the run is over
          fresh,    \* history: no step since the delays were reset
          lead,     \* history: model time minus real time since they were reset
          turn      \* history: the number of steps, modulo two

delays == <<current, wait, elapsed, back, lead>>
keys   == <<down, found, clicked>>
vars   == <<mode, speed, delays, keys, moved, over, fresh, turn>>

TypeOK == /\ mode \in Mode
          /\ speed \in Speed
          /\ current \in 0..Count[speed]
          /\ wait \in Int
          /\ elapsed \in 0..MaxElapsed
          /\ back \in Nat
          /\ moved \in BOOLEAN
          /\ down \in [Key -> 0..Repeats]
          /\ found \in BOOLEAN
          /\ clicked \subseteq Area
          /\ over \in BOOLEAN
          /\ fresh \in BOOLEAN
          /\ lead \in Int
          /\ turn \in 0..1

\* A model starts in the mode its SMR says (ShowMode); the Studio then sends its
\* speed.
Init == /\ mode \in {"MaxSpeed", "Sync", "Pause"}
        /\ speed = 1
        /\ current = 0
        /\ wait = 0
        /\ elapsed = 0
        /\ back = 0
        /\ moved = FALSE
        /\ down = [k \in Key |-> 0]
        /\ found = FALSE
        /\ clicked = {}
        /\ over = FALSE
        /\ fresh = TRUE
        /\ lead = 0
        /\ turn = 0

-----------------------------------------------------------------------------
(***************************************************************************)
(* Keys and areas.                                                         *)
(***************************************************************************)
IsKeyDown == found \/ clicked # {}

\* A keyboard operation is asked (choiceFrom): for its area, else for its key
\* under exactly its modifiers (isPressed).
Ask(kb, hot) ==
  CASE hot.name \in kb.clicked -> [kb EXCEPT !.clicked = @ \ {hot.name}]
    [] /\ hot.name \notin kb.clicked
       /\ kb.down[hot.key] > 0
       /\ {m \in Modifier : kb.down[m] > 0} = hot.with ->
         [kb EXCEPT !.down[hot.key] = @ - 1, !.found = TRUE]
    [] OTHER -> [kb EXCEPT !.found = FALSE]

\* What the first n keyboard operations leave.
Asked(kb, n) ==
  LET after[i \in 0..n] == IF i = 0 THEN kb ELSE Ask(after[i - 1], HotKey[i])
  IN  after[n]

\* The scan of the activities asks the first n keyboard operations.
Scan(n) ==
  LET kb == Asked([down |-> down, found |-> found, clicked |-> clicked], n)
  IN  /\ down' = kb.down
      /\ found' = kb.found
      /\ clicked' = kb.clicked

-----------------------------------------------------------------------------
(***************************************************************************)
(* rdoNext.                                                                *)
(***************************************************************************)
Running == ~over /\ mode \notin Held

CountDelays == ~IsKeyDown /\ mode # "MaxSpeed" /\ Count[speed] > 0

\* This call is held by the number of calls.
DelayByCount ==
  /\ Running /\ CountDelays
  /\ current + 1 < Count[speed]
  /\ current' = current + 1
  /\ UNCHANGED <<mode, speed, wait, elapsed, back, moved, keys, over, fresh, lead, turn>>

CountPasses == Running /\ (CountDelays => current + 1 >= Count[speed])
Counted == IF CountDelays THEN 0 ELSE current

\* The time that has passed by the wall clock; the branch for a clock that reads
\* less than before is meant for midnight.
Delta == IF elapsed >= back THEN elapsed - back ELSE UIntMax + elapsed - back

Waits == ~IsKeyDown /\ wait > 1

\* Mutant: every look at the wall clock begins the wait anew.
WaitsAnew ==
  /\ CountPasses
  /\ Waits /\ Delta =< wait
  /\ current' = Counted
  /\ elapsed' = 0
  /\ UNCHANGED <<mode, speed, wait, back, moved, keys, over, fresh, lead, turn>>

\* This call is held by the wall clock.
DelayByWait ==
  /\ CountPasses
  /\ Waits /\ Delta =< wait
  /\ current' = Counted
  /\ UNCHANGED <<mode, speed, wait, elapsed, back, moved, keys, over, fresh, lead, turn>>

NotDelayed == CountPasses /\ (Waits => Delta > wait)
Left == IF Waits THEN wait - Delta ELSE wait

Stepped == /\ current' = Counted
           /\ fresh' = FALSE
           /\ turn' = 1 - turn

\* What is left to wait for after this step.
KeepsRest == /\ wait' = Left
             /\ elapsed' = IF Left > 0 THEN elapsed ELSE 0
             /\ back' = IF Left > 0 THEN back ELSE 0
             /\ lead' = lead

\* The end condition, or nothing more to do (an empty calendar).
End ==
  /\ NotDelayed
  /\ Stepped
  /\ over' = TRUE
  /\ \E n \in 0..Len(HotKey) : Scan(n)
  /\ KeepsRest
  /\ UNCHANGED <<mode, speed, moved>>

\* An event runs, or an activity is found after the first n keyboard operations
\* have been asked; a break point may then hold the run.
Operate ==
  /\ NotDelayed
  /\ Stepped
  /\ \E n \in 0..Len(HotKey) : Scan(n)
  /\ KeepsRest
  /\ mode' \in {mode, "BreakPoint"}
  /\ UNCHANGED <<speed, moved, over>>

\* Mutant: the rest of the last wait is lost when the time advances.
AwaitsOnly(d) ==
  /\ moved' = (moved \/ d > 0)
  /\ wait' = d
  /\ elapsed' = 0
  /\ back' = 0
  /\ lead' = lead + d

\* The wait that begins when the model time advances by d.
Await(d) ==
  /\ moved' = (moved \/ d > 0)
  /\ IF mode # "Sync" THEN KeepsRest
     ELSE /\ wait' = IF Left + d =< 0 THEN Left + d
                     ELSE IF moved' THEN (Left + d) * Stretch(speed) ELSE 0
          /\ elapsed' = 0
          /\ back' = 0
          /\ lead' = lead + d

\* No activity is ready: the time advances to the next time point.
Advance ==
  /\ NotDelayed
  /\ Stepped
  /\ \E n \in 0..Len(HotKey) : Scan(n)
  /\ \E d \in Duration : Left + d =< MaxWait /\ Await(d)
  /\ UNCHANGED <<mode, speed, over>>

Step == End \/ Operate \/ Advance

RdoNext == DelayByCount \/ DelayByWait \/ Step

-----------------------------------------------------------------------------
(***************************************************************************)
(* The messages of the Studio, handled between two calls of rdoNext.       *)
(***************************************************************************)
Reset(s) == /\ current' = Count[s]
            /\ wait' = 0
            /\ elapsed' = 0
            /\ back' = 0
            /\ lead' = 0
            /\ fresh' = TRUE

\* Mutant: the count is filled up before it is known for the new speed.
SetSpeedLate(s) ==
  /\ ~over
  /\ speed' = s
  /\ current' = IF current < Count[s] THEN current ELSE Count[s]
  /\ wait' = 0
  /\ elapsed' = 0
  /\ back' = 0
  /\ lead' = 0
  /\ fresh' = TRUE
  /\ UNCHANGED <<mode, moved, keys, over, turn>>

SetSpeed(s) == /\ ~over
               /\ speed' = s
               /\ Reset(s)
               /\ UNCHANGED <<mode, moved, keys, over, turn>>

\* A new show rate: the durations to come are in other units.
SetShowRate == /\ ~over
               /\ Reset(speed)
               /\ UNCHANGED <<mode, speed, moved, keys, over, turn>>

\* Leaving a pause, or for a mode without pacing, resets the delays.
SetMode(m) ==
  /\ ~over
  /\ mode' = m
  /\ IF mode = "Pause" \/ m \in AtOnce THEN Reset(speed)
     ELSE /\ lead' = IF mode \in AtOnce THEN 0 ELSE lead
          /\ UNCHANGED <<current, wait, elapsed, back, fresh>>
  /\ UNCHANGED <<speed, moved, keys, over, turn>>

\* The modifiers empty the buffer of the other keys.
Kept(k) == [j \in Key |-> IF k \in Modifier /\ j \notin Modifier THEN 0 ELSE down[j]]

\* Mutant: a key is kept as often as it repeats.
DownAlways(k) == [Kept(k) EXCEPT ![k] = @ + 1]

Pushed(k) == [Kept(k) EXCEPT ![k] = IF @ < Repeats THEN @ + 1 ELSE @]

\* RT_RUNTIME_KEY_DOWN, once and then for every repeat while the key is held.
KeyDown(k) ==
  /\ ~over
  /\ down' = Pushed(k)
  /\ IF Kept(k)[k] = 0 THEN found' = TRUE /\ Reset(speed)
     ELSE UNCHANGED <<found, delays, fresh>>
  /\ UNCHANGED <<mode, speed, moved, clicked, over, turn>>

KeyUp(k) ==
  /\ ~over
  /\ down' = [down EXCEPT ![k] = 0]
  /\ UNCHANGED <<mode, speed, delays, found, clicked, moved, over, fresh, turn>>

\* RT_RUNTIME_FRAME_AREA_DOWN
AreaClick(a) ==
  /\ ~over
  /\ clicked' = clicked \cup {a}
  /\ Reset(speed)
  /\ UNCHANGED <<mode, speed, moved, down, found, over, turn>>

Control == \/ \E m \in Mode \ {"BreakPoint"} : SetMode(m)
           \/ \E s \in Speed : SetSpeed(s)
           \/ SetShowRate
           \/ \E k \in Key : KeyDown(k)
           \/ \E k \in Key : KeyUp(k)
           \/ \E a \in Area : AreaClick(a)

-----------------------------------------------------------------------------
(***************************************************************************)
(* The wall clock.                                                         *)
(***************************************************************************)
\* Time passes.  Once the clock has been seen for MaxElapsed no wait but that of
\* speed 0 is left.
Tick ==
  /\ elapsed' = IF wait > 0 /\ elapsed < MaxElapsed THEN elapsed + 1 ELSE elapsed
  /\ lead' = IF lead > -MaxLag THEN lead - 1 ELSE lead
  /\ UNCHANGED <<mode, speed, current, wait, back, moved, keys, over, fresh, turn>>

\* The clock is local_time: it is set back at the end of summer time.
ClockSetBack ==
  /\ wait > 0 /\ back = 0
  /\ \E b \in SetBack : back' = b
  /\ UNCHANGED <<mode, speed, current, wait, elapsed, moved, keys, over, fresh, lead, turn>>

Next == RdoNext \/ Control \/ Tick

Spec == Init /\ [][Next]_vars

\* The same run when the clock may be set back.
SpecAnyClock == Init /\ [][Next \/ ClockSetBack]_vars

\* The thread of the run calls rdoNext whenever it is idle, and time passes.
FairSpec == Spec /\ WF_vars(RdoNext) /\ WF_vars(Tick)

-----------------------------------------------------------------------------
(***************************************************************************)
(* Properties.                                                             *)
(***************************************************************************)
\* setMode, setSpeed and setShowRate reset the delays "to go to the next
\* operation at once": after any of them, a first press of a key or a click on
\* an area, whatever other changes and whatever pauses and break points come in
\* between, the first call that is not held is a step, not a delay.
AtOnceAfterChange ==
  [][(DelayByCount \/ DelayByWait) => ~fresh]_vars

\* The synchronous mode is never early: since the delays were last reset the model
\* has not got further ahead than the real time that has passed, by more than the
\* last unit, which is not waited for.  This holds across steps that overshoot
\* their wait, are skipped while a key is down, or are held at a break point, and
\* at every speed.
NeverEarly ==
  [][Step /\ mode = "Sync" /\ ~IsKeyDown => lead =< 1]_vars

\* A run that is no longer held goes on, whatever else the user changes meanwhile:
\* a wait ends although the count of calls begins again each time the clock is
\* looked at.  Only speed 0 may stop it.
GoesOn ==
  <>[](~over /\ mode \notin Held /\ speed # 0) => []<>(turn = 0) /\ []<>(turn = 1)
=============================================================================
