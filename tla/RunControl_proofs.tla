------------------------- MODULE RunControl_proofs -------------------------
(***************************************************************************)
(* Every run of RunControl goes to the next step at once after a change    *)
(* (AtOnceAfterChange), is never early (NeverEarly) and keeps its counters *)
(* and the buffer of keys in their bounds (TypeOK), for all speeds,        *)
(* durations, keyboard operations, keys and bounds.                        *)
(***************************************************************************)
EXTENDS RunControl, NatSets, TLAPS

\* What the delays are made of.
DelayType == /\ mode \in Mode
             /\ speed \in Speed
             /\ current \in Nat
             /\ wait \in Int
             /\ elapsed \in 0..MaxElapsed
             /\ back = 0
             /\ fresh \in BOOLEAN
             /\ lead \in Int

\* After a change nothing delays the next step.
FreshIsReady == fresh => current = Count[speed] /\ wait = 0

\* The modes without pacing have nothing to wait for.
NoWaitAtOnce == mode \in AtOnce => wait = 0

\* What the model is ahead by is still waited for: the wait, less the part of it
\* that has passed.
LeadIsAwaited == /\ wait > 0 => lead + elapsed =< wait
                 /\ wait =< 0 => lead =< wait

\* Before the time first advances nothing is waited for either.
NoWaitAtStart == moved \in BOOLEAN /\ (~moved => wait =< 0)

IInv == DelayType /\ FreshIsReady /\ NoWaitAtOnce /\ NoWaitAtStart /\ LeadIsAwaited

-----------------------------------------------------------------------------
\* Neither a speed nor 1 / DBL_MIN makes a wait shorter (m_msec_wait / m_speed).
LEMMA StretchLengthens ==
  ASSUME NEW s \in Speed, NEW x \in Int, x > 0
  PROVE  x * Stretch(s) \in Int /\ x * Stretch(s) >= x
<1>1. PICK k \in Nat \ {0} : Stretch(s) = k
  BY RunControlAssumption DEF Stretch
<1>2. k = (k - 1) + 1 /\ k - 1 \in Nat
  BY <1>1
<1>3. x * k = x * (k - 1) + x
  BY <1>1, <1>2
<1>4. x * (k - 1) >= 0
  <2>1. k - 1 \in Nat /\ x \in Nat
    BY <1>2
  <2>2. \A a, b \in Nat : a * b \in Nat
    OBVIOUS
  <2>3. x * (k - 1) \in Nat
    BY <2>1, <2>2
  <2>. QED  BY <2>3
<1>. QED  BY <1>1, <1>3, <1>4

\* What a step leaves to wait for is well defined.
LEMMA LeftAwaited ==
  ASSUME IInv, NotDelayed
  PROVE  /\ Left \in Int
         /\ Left > 0 => lead + elapsed =< Left
         /\ lead =< Left
         /\ ~IsKeyDown => Left =< 1
         /\ wait =< 0 => Left = wait
<1>1. Delta = elapsed /\ elapsed \in Nat
  BY DEF IInv, DelayType, Delta
<1>2. CASE Waits
  <2>1. Left = wait - elapsed /\ elapsed > wait
    BY <1>1, <1>2 DEF Left, NotDelayed
  <2>. QED  BY <1>1, <1>2, <2>1 DEF IInv, DelayType, LeadIsAwaited, Waits
<1>3. CASE ~Waits
  <2>1. Left = wait
    BY <1>3 DEF Left
  <2>. QED  BY <1>1, <1>3, <2>1 DEF IInv, DelayType, LeadIsAwaited, Waits
<1>. QED  BY <1>2, <1>3

LEMMA CountedType ==
  ASSUME IInv
  PROVE  Counted \in Nat
BY DEF IInv, DelayType, Counted

\* Keeping the rest of a wait keeps it awaited.
LEMMA RestIsAwaited ==
  ASSUME IInv, NotDelayed, KeepsRest
  PROVE  /\ wait' \in Int
         /\ elapsed' \in 0..MaxElapsed
         /\ back' = 0
         /\ lead' \in Int
         /\ LeadIsAwaited'
         /\ wait =< 0 => wait' = wait
<1>1. MaxElapsed \in Nat
  BY RunControlAssumption
<1>. QED  BY <1>1, LeftAwaited DEF IInv, DelayType, KeepsRest, LeadIsAwaited

\* A new wait covers what the model gets ahead by.
LEMMA NewWaitIsAwaited ==
  ASSUME IInv, NotDelayed, NEW d \in Duration, Await(d)
  PROVE  /\ wait' \in Int
         /\ elapsed' \in 0..MaxElapsed
         /\ back' = 0
         /\ lead' \in Int
         /\ LeadIsAwaited'
         /\ NoWaitAtStart'
         /\ mode \in AtOnce => wait' = 0
<1>0. /\ MaxElapsed \in Nat /\ d \in Nat
      /\ moved \in BOOLEAN /\ moved' = (moved \/ d > 0)
  BY RunControlAssumption DEF IInv, NoWaitAtStart, Await
<1>1. CASE mode # "Sync"
  <2>1. KeepsRest
    BY <1>1 DEF Await
  <2>2. ~moved' => ~moved
    BY <1>0, Zenon
  <2>3. moved' \in BOOLEAN
    BY <1>0, Zenon
  <2>. QED
    BY <2>1, <2>2, <2>3, RestIsAwaited
       DEF IInv, NoWaitAtOnce, NoWaitAtStart, LeadIsAwaited, DelayType
<1>2. CASE mode = "Sync"
  <2>1. /\ elapsed' = 0 /\ back' = 0 /\ lead' = lead + d
        /\ mode \notin AtOnce
    BY <1>2 DEF Await, AtOnce
  <2>2. /\ Left \in Int /\ lead =< Left /\ lead \in Int
    BY LeftAwaited DEF IInv, DelayType
  <2>3. CASE Left + d =< 0
    <3>1. wait' = Left + d
      BY <1>2, <2>3 DEF Await
    <3>. QED  BY <1>0, <2>1, <2>2, <2>3, <3>1 DEF LeadIsAwaited, NoWaitAtStart
  <2>4. CASE Left + d > 0 /\ moved'
    <3>1. wait' = (Left + d) * Stretch(speed)
      BY <1>0, <1>2, <2>2, <2>4 DEF Await
    <3>2. wait' \in Int /\ wait' >= Left + d
      BY <1>0, <2>2, <2>4, <3>1, StretchLengthens DEF IInv, DelayType
    <3>. QED  BY <1>0, <2>1, <2>2, <2>4, <3>2 DEF LeadIsAwaited, NoWaitAtStart
  <2>5. CASE Left + d > 0 /\ ~moved'
    <3>0. ~moved /\ ~(d > 0)
      BY <1>0, <2>5, Zenon
    <3>1. d = 0 /\ ~moved
      BY <1>0, <3>0
    <3>2. Left =< 0
      BY <3>1, LeftAwaited DEF IInv, NoWaitAtStart, DelayType
    <3>. QED  BY <1>0, <2>2, <2>5, <3>1, <3>2
  <2>. QED  BY <1>0, <2>2, <2>3, <2>4, <2>5
<1>. QED  BY <1>1, <1>2

\* Resetting the delays makes the run ready, in any mode and at any speed.
LEMMA ResetIsReady ==
  ASSUME IInv, NEW s \in Speed, Reset(s), speed' = s, mode' \in Mode, moved' = moved
  PROVE  IInv'
<1>1. Count[s] \in Nat /\ MaxElapsed \in Nat
  BY RunControlAssumption
<1>2. DelayType'
  BY <1>1 DEF Reset, DelayType
<1>. QED
  BY <1>2 DEF IInv, Reset, FreshIsReady, NoWaitAtOnce, NoWaitAtStart, LeadIsAwaited

\* A step of the run keeps the invariant.
LEMMA StepKeepsInvariant ==
  ASSUME IInv, Step
  PROVE  IInv'
<1>0. Counted \in Nat
  BY CountedType
<1>1. CASE End \/ Operate
  <2>1. /\ NotDelayed /\ KeepsRest /\ Stepped
        /\ speed' = speed /\ moved' = moved /\ mode' \in {mode, "BreakPoint"}
    BY <1>1 DEF End, Operate
  <2>2. /\ wait' \in Int /\ elapsed' \in 0..MaxElapsed /\ back' = 0 /\ lead' \in Int
        /\ LeadIsAwaited'
        /\ wait =< 0 => wait' = wait
    BY <2>1, RestIsAwaited
  <2>3. DelayType' /\ FreshIsReady'
    BY <1>0, <2>1, <2>2 DEF IInv, DelayType, FreshIsReady, Stepped, Mode
  <2>4. NoWaitAtOnce' /\ NoWaitAtStart'
    BY <2>1, <2>2 DEF IInv, DelayType, NoWaitAtOnce, NoWaitAtStart, AtOnce
  <2>. QED  BY <2>2, <2>3, <2>4 DEF IInv
<1>2. CASE Advance
  <2>1. PICK d \in Duration : Await(d)
    BY <1>2 DEF Advance
  <2>2. NotDelayed /\ Stepped /\ speed' = speed /\ mode' = mode
    BY <1>2 DEF Advance
  <2>3. /\ wait' \in Int /\ elapsed' \in 0..MaxElapsed /\ back' = 0 /\ lead' \in Int
        /\ LeadIsAwaited' /\ NoWaitAtStart'
        /\ mode \in AtOnce => wait' = 0
    BY <2>1, <2>2, NewWaitIsAwaited
  <2>4. DelayType' /\ FreshIsReady' /\ NoWaitAtOnce'
    BY <1>0, <2>2, <2>3 DEF IInv, DelayType, FreshIsReady, Stepped, NoWaitAtOnce
  <2>. QED  BY <2>3, <2>4 DEF IInv
<1>. QED  BY <1>1, <1>2 DEF Step

\* A message of the Studio keeps the invariant.
LEMMA ControlKeepsInvariant ==
  ASSUME IInv, Control
  PROVE  IInv'
<1>0. speed \in Speed /\ mode \in Mode
  BY DEF IInv, DelayType
<1>1. ASSUME NEW m \in Mode \ {"BreakPoint"}, SetMode(m)  PROVE IInv'
  <2>1. CASE mode = "Pause" \/ m \in AtOnce
    BY <1>0, <1>1, <2>1, ResetIsReady DEF SetMode
  <2>2. CASE mode # "Pause" /\ m \notin AtOnce
    <3>1. /\ mode' = m /\ speed' = speed /\ moved' = moved /\ current' = current
          /\ wait' = wait /\ elapsed' = elapsed /\ back' = back /\ fresh' = fresh
          /\ lead' = IF mode \in AtOnce THEN 0 ELSE lead
      BY <1>1, <2>2 DEF SetMode
    <3>2. DelayType' /\ FreshIsReady' /\ NoWaitAtOnce' /\ NoWaitAtStart'
      BY <1>0, <2>2, <3>1
         DEF IInv, DelayType, FreshIsReady, NoWaitAtOnce, NoWaitAtStart
    <3>3. LeadIsAwaited'
      BY <3>1 DEF IInv, DelayType, NoWaitAtOnce, LeadIsAwaited
    <3>. QED  BY <3>2, <3>3 DEF IInv
  <2>. QED  BY <2>1, <2>2
<1>2. ASSUME NEW s \in Speed, SetSpeed(s)  PROVE IInv'
  BY <1>0, <1>2, ResetIsReady DEF SetSpeed
<1>3. CASE SetShowRate
  BY <1>0, <1>3, ResetIsReady DEF SetShowRate
<1>4. ASSUME NEW k \in Key, KeyDown(k)  PROVE IInv'
  <2>1. CASE Kept(k)[k] = 0
    BY <1>0, <1>4, <2>1, ResetIsReady DEF KeyDown
  <2>2. CASE Kept(k)[k] # 0
    BY <1>4, <2>2 DEF KeyDown, delays, IInv, DelayType, FreshIsReady, NoWaitAtOnce,
                      NoWaitAtStart, LeadIsAwaited
  <2>. QED  BY <2>1, <2>2
<1>5. ASSUME NEW k \in Key, KeyUp(k)  PROVE IInv'
  BY <1>5 DEF KeyUp, delays, IInv, DelayType, FreshIsReady, NoWaitAtOnce,
              NoWaitAtStart, LeadIsAwaited
<1>6. ASSUME NEW a \in Area, AreaClick(a)  PROVE IInv'
  BY <1>0, <1>6, ResetIsReady DEF AreaClick
<1>. QED  BY <1>1, <1>2, <1>3, <1>4, <1>5, <1>6 DEF Control

\* The passing of time uses up a wait and the lead alike.
LEMMA TickKeepsInvariant ==
  ASSUME IInv, Tick
  PROVE  IInv'
<1>1. MaxElapsed \in Nat /\ MaxLag \in Nat /\ MaxElapsed =< MaxLag
  BY RunControlAssumption
<1>2. DelayType'
  BY <1>1 DEF IInv, DelayType, Tick
<1>3. LeadIsAwaited'
  BY <1>1 DEF IInv, DelayType, LeadIsAwaited, Tick
<1>. QED
  BY <1>2, <1>3 DEF IInv, Tick, FreshIsReady, NoWaitAtOnce, NoWaitAtStart

\* The counter of delayed calls is all that a delay changes.
LEMMA DelayKeepsInvariant ==
  ASSUME IInv, DelayByCount \/ DelayByWait
  PROVE  IInv' /\ ~fresh
<1>0. Counted \in Nat /\ current \in Nat
  BY CountedType DEF IInv, DelayType
<1>1. ~fresh
  <2>1. CASE DelayByCount
    <3>1. current + 1 < Count[speed] /\ Count[speed] \in Nat
      BY <2>1, RunControlAssumption DEF DelayByCount, IInv, DelayType
    <3>. QED  BY <1>0, <3>1 DEF IInv, FreshIsReady
  <2>2. CASE DelayByWait
    BY <2>2 DEF DelayByWait, Waits, IInv, FreshIsReady
  <2>. QED  BY <2>1, <2>2
<1>2. /\ current' \in Nat
      /\ UNCHANGED <<mode, speed, wait, elapsed, back, moved, fresh, lead>>
  BY <1>0 DEF DelayByCount, DelayByWait
<1>. QED
  BY <1>1, <1>2 DEF IInv, DelayType, FreshIsReady, NoWaitAtOnce, NoWaitAtStart,
                    LeadIsAwaited

LEMMA InvariantIsInductive == Spec => []IInv
<1>0. 1 \in Speed /\ Count[1] = 0 /\ MaxElapsed \in Nat
  BY RunControlAssumption
<1>1. ASSUME Init  PROVE IInv
  <2>1. mode \in Mode
    BY <1>1 DEF Init, Mode
  <2>2. DelayType
    BY <1>0, <1>1, <2>1 DEF Init, DelayType
  <2>3. FreshIsReady
    BY <1>0, <1>1 DEF Init, FreshIsReady
  <2>4. NoWaitAtOnce /\ LeadIsAwaited
    BY <1>1 DEF Init, NoWaitAtOnce, LeadIsAwaited
  <2>5. moved \in BOOLEAN /\ wait =< 0
    <3>1. wait = 0 /\ moved = FALSE
      BY <1>1 DEF Init
    <3>2. moved \in BOOLEAN
      BY <3>1, Zenon
    <3>. QED  BY <3>1, <3>2
  <2>. QED  BY <2>2, <2>3, <2>4, <2>5 DEF IInv, NoWaitAtStart
<1>2. ASSUME IInv, [Next]_vars  PROVE IInv'
  <2>1. CASE RdoNext
    BY <1>2, <2>1, DelayKeepsInvariant, StepKeepsInvariant DEF RdoNext
  <2>2. CASE Control
    BY <1>2, <2>2, ControlKeepsInvariant
  <2>3. CASE Tick
    BY <1>2, <2>3, TickKeepsInvariant
  <2>4. CASE UNCHANGED vars
    BY <1>2, <2>4 DEF vars, delays, IInv, DelayType, FreshIsReady, NoWaitAtOnce,
                      NoWaitAtStart, LeadIsAwaited
  <2>. QED  BY <1>2, <2>1, <2>2, <2>3, <2>4 DEF Next
<1>. QED  BY <1>1, <1>2, PTL DEF Spec

\* After a change of the mode, the speed or the show rate, a key or a click, the
\* first call of rdoNext that is not held is a step, for all speeds and counts.
THEOREM ChangesActAtOnce == Spec => AtOnceAfterChange
<1>1. IInv => [(DelayByCount \/ DelayByWait) => ~fresh]_vars
  BY DelayKeepsInvariant
<1>. QED  BY <1>1, InvariantIsInductive, PTL DEF AtOnceAfterChange

\* In the synchronous mode the model never gets ahead of the real time, for all
\* durations and speeds and whatever the user does; the clock is not set back.
THEOREM SyncIsNeverEarly == Spec => NeverEarly
<1>1. ASSUME IInv, Step, ~IsKeyDown  PROVE lead =< 1
  <2>1. NotDelayed /\ lead \in Int
    BY <1>1 DEF Step, End, Operate, Advance, IInv, DelayType
  <2>. QED  BY <1>1, <2>1, LeftAwaited
<1>2. IInv => [Step /\ mode = "Sync" /\ ~IsKeyDown => lead =< 1]_vars
  BY <1>1
<1>. QED  BY <1>2, InvariantIsInductive, PTL DEF NeverEarly

-----------------------------------------------------------------------------
(***************************************************************************)
(* The buffer of the keys.                                                 *)
(***************************************************************************)
Buffer == [down : [Key -> 0..Repeats], found : BOOLEAN, clicked : SUBSET Area]

\* Asking a keyboard operation leaves a buffer.
LEMMA AskIsTyped ==
  ASSUME NEW kb \in Buffer, NEW i \in 1..Len(HotKey)
  PROVE  Ask(kb, HotKey[i]) \in Buffer
<1> DEFINE hot == HotKey[i]
           HK == [key : Key \ Modifier, with : SUBSET Modifier, name : Area]
<1>1. hot.key \in Key
  <2>1. HotKey \in Seq(HK)
    BY RunControlAssumption
  <2> HIDE DEF HK
  <2>2. hot \in HK
    BY <2>1
  <2> QED
    BY <2>2 DEF HK
<1> HIDE DEF hot
<1>2. CASE hot.name \in kb.clicked
  BY <1>2 DEF Ask, Buffer, hot
<1>3. CASE /\ hot.name \notin kb.clicked
           /\ kb.down[hot.key] > 0
           /\ {m \in Modifier : kb.down[m] > 0} = hot.with
  <2>1. Ask(kb, hot) = [kb EXCEPT !.down[hot.key] = @ - 1, !.found = TRUE]
    BY <1>3 DEF Ask
  <2>2. kb.down[hot.key] - 1 \in 0..Repeats
    BY <1>1, <1>3, RunControlAssumption DEF Buffer
  <2> QED
    BY <1>1, <2>1, <2>2 DEF Buffer, hot
<1>4. CASE /\ hot.name \notin kb.clicked
           /\ ~ (kb.down[hot.key] > 0 /\ {m \in Modifier : kb.down[m] > 0} = hot.with)
  <2>1. Ask(kb, hot) = [kb EXCEPT !.found = FALSE]
    BY <1>4 DEF Ask
  <2> QED
    BY <2>1 DEF Buffer, hot
<1> QED
  BY <1>2, <1>3, <1>4

\* So does asking the first n of them.
LEMMA AskedIsTyped ==
  ASSUME NEW kb \in Buffer, NEW n \in 0..Len(HotKey)
  PROVE  Asked(kb, n) \in Buffer
<1> DEFINE Upto(k, g) == g = [i \in 0..k |-> IF i = 0 THEN kb ELSE Ask(g[i - 1], HotKey[i])]
           S == {k \in 0..n : \E g : Upto(k, g)}
<1>0. n \in Nat /\ Len(HotKey) \in Nat
  BY RunControlAssumption
<1>1. 0 \in S
  <2> DEFINE g == [i \in 0..0 |-> kb]
  <2>1. Upto(0, g)
    OBVIOUS
  <2> HIDE DEF Upto, g
  <2> QED
    BY <1>0, <2>1
<1>2. ASSUME NEW k \in 1..n, k - 1 \in S
      PROVE  k \in S
  <2>1. PICK g : Upto(k - 1, g)
    BY <1>2
  <2> DEFINE h == [i \in 0..k |-> IF i < k THEN g[i] ELSE Ask(g[k - 1], HotKey[k])]
  <2>2. ASSUME NEW i \in 0..k
        PROVE  h[i] = IF i = 0 THEN kb ELSE Ask(h[i - 1], HotKey[i])
    <3>1. CASE i = k
      BY <3>1
    <3>2. CASE i \in 0..(k - 1)
      <4>1. g[i] = IF i = 0 THEN kb ELSE Ask(g[i - 1], HotKey[i])
        BY <2>1, <3>2
      <4>2. h[i] = g[i] /\ (i # 0 => h[i - 1] = g[i - 1])
        BY <3>2
      <4> QED
        BY <4>1, <4>2
    <3> QED
      BY <3>1, <3>2
  <2>3. Upto(k, h)
    BY <2>2
  <2> HIDE DEF Upto, h
  <2> QED
    BY <2>3
<1>3. n \in S
  <2> HIDE DEF S
  <2>1. 0..n \subseteq S
    BY <1>0, <1>1, <1>2, UpTo
  <2> QED
    BY <1>0, <2>1
<1> DEFINE after == CHOOSE g : Upto(n, g)
<1>4. Upto(n, after)
  BY <1>3
<1>5. Asked(kb, n) = after[n]
  BY DEF Asked
<1> DEFINE T == {i \in 0..n : after[i] \in Buffer}
<1>6. n \in T
  <2> HIDE DEF after
  <2>1. after[0] = kb /\ \A i \in 1..n : after[i] = Ask(after[i - 1], HotKey[i])
    BY <1>0, <1>4
  <2>2. 0 \in T
    BY <1>0, <2>1
  <2>3. ASSUME NEW i \in 1..n, i - 1 \in T
        PROVE  i \in T
    BY <1>0, <2>1, <2>3, AskIsTyped
  <2> HIDE DEF T
  <2>4. 0..n \subseteq T
    BY <1>0, <2>2, <2>3, UpTo
  <2> QED
    BY <1>0, <2>4
<1> HIDE DEF after
<1> QED
  BY <1>5, <1>6

-----------------------------------------------------------------------------
(***************************************************************************)
(* The types of the rest.                                                  *)
(***************************************************************************)
KeysAreTyped == /\ down \in [Key -> 0..Repeats]
                /\ found \in BOOLEAN
                /\ clicked \subseteq Area

\* The counter of calls never gets above the count of the speed in force.
CountIsBounded == current \in 0..Count[speed]

RInv == IInv /\ KeysAreTyped /\ CountIsBounded /\ over \in BOOLEAN /\ turn \in 0..1

\* The scan of a step leaves a buffer.
LEMMA ScanIsTyped ==
  ASSUME KeysAreTyped, NEW n \in 0..Len(HotKey), Scan(n)
  PROVE  KeysAreTyped'
<1> DEFINE b  == [down |-> down, found |-> found, clicked |-> clicked]
           kb == Asked(b, n)
<1>1. b \in Buffer
  BY DEF Buffer, KeysAreTyped
<1>2. down' = kb.down /\ found' = kb.found /\ clicked' = kb.clicked
  BY DEF Scan
<1> HIDE DEF b
<1>3. kb \in Buffer
  BY <1>1, AskedIsTyped
<1> HIDE DEF kb
<1> QED
  BY <1>2, <1>3 DEF Buffer, KeysAreTyped

LEMMA StepIsTyped ==
  ASSUME RInv, Step
  PROVE  KeysAreTyped' /\ CountIsBounded' /\ over' \in BOOLEAN /\ turn' \in 0..1
<1>1. /\ NotDelayed /\ Stepped /\ (\E n \in 0..Len(HotKey) : Scan(n))
      /\ over' \in {over, TRUE} /\ speed' = speed
  BY DEF Step, End, Operate, Advance
<1>2. KeysAreTyped'
  BY <1>1, ScanIsTyped DEF RInv
<1>3. CountIsBounded'
  BY <1>1, RunControlAssumption DEF Stepped, Counted, RInv, CountIsBounded, IInv, DelayType
<1>4. over' \in BOOLEAN
  BY <1>1, Zenon DEF RInv
<1>5. turn' \in 0..1
  BY <1>1 DEF Stepped, RInv
<1> QED
  BY <1>2, <1>3, <1>4, <1>5

LEMMA ControlIsTyped ==
  ASSUME RInv, Control
  PROVE  KeysAreTyped' /\ CountIsBounded' /\ over' = over /\ turn' = turn
<1>1. /\ speed \in Speed /\ \A s \in Speed : Count[s] \in Nat /\ Count[s] \in 0..Count[s]
      /\ Repeats \in Nat
  <2>1. Count \in [Speed -> Nat] /\ Repeats \in Nat
    BY RunControlAssumption
  <2>2. \A n \in Nat : n \in 0..n
    OBVIOUS
  <2> QED
    BY <2>1, <2>2 DEF RInv, IInv, DelayType
<1>2. CASE \E m \in Mode \ {"BreakPoint"} : SetMode(m)
  BY <1>1, <1>2 DEF SetMode, Reset, keys, RInv, KeysAreTyped, CountIsBounded
<1>3. CASE \E s \in Speed : SetSpeed(s)
  BY <1>1, <1>3 DEF SetSpeed, Reset, keys, RInv, KeysAreTyped, CountIsBounded
<1>4. CASE SetShowRate
  BY <1>1, <1>4 DEF SetShowRate, Reset, keys, RInv, KeysAreTyped, CountIsBounded
<1>5. ASSUME NEW k \in Key, KeyDown(k)
      PROVE  KeysAreTyped' /\ CountIsBounded' /\ over' = over /\ turn' = turn
  <2>1. Kept(k) \in [Key -> 0..Repeats]
    BY <1>1 DEF Kept, RInv, KeysAreTyped
  <2>2. down' \in [Key -> 0..Repeats]
    BY <1>1, <1>5, <2>1 DEF KeyDown, Pushed
  <2>3. found' \in BOOLEAN /\ clicked' = clicked
    BY <1>5, Zenon DEF KeyDown, RInv, KeysAreTyped
  <2>4. CountIsBounded' /\ over' = over /\ turn' = turn
    BY <1>1, <1>5 DEF KeyDown, Reset, delays, RInv, CountIsBounded
  <2> QED
    BY <2>2, <2>3, <2>4 DEF KeysAreTyped, RInv
<1>6. CASE \E k \in Key : KeyUp(k)
  BY <1>1, <1>6 DEF KeyUp, delays, RInv, KeysAreTyped, CountIsBounded
<1>7. CASE \E a \in Area : AreaClick(a)
  BY <1>1, <1>7 DEF AreaClick, Reset, RInv, KeysAreTyped, CountIsBounded
<1> QED
  BY <1>2, <1>3, <1>4, <1>5, <1>6, <1>7 DEF Control

\* The counters, the clocks and the buffer of the keys keep their bounds, for all
\* speeds, counts and keyboard operations.
THEOREM RunControlIsTyped == Spec => []TypeOK
<1>1. Init => KeysAreTyped /\ CountIsBounded /\ over \in BOOLEAN /\ turn \in 0..1
  <2> SUFFICES ASSUME Init PROVE KeysAreTyped /\ CountIsBounded /\ over \in BOOLEAN /\ turn \in 0..1
    OBVIOUS
  <2>1. Repeats \in Nat /\ Count[1] = 0
    BY RunControlAssumption
  <2>2. found \in BOOLEAN /\ over \in BOOLEAN
    BY Zenon DEF Init
  <2>3. down \in [Key -> 0..Repeats] /\ clicked \subseteq Area
    BY <2>1 DEF Init
  <2>4. CountIsBounded /\ turn \in 0..1
    BY <2>1 DEF Init, CountIsBounded
  <2> QED
    BY <2>2, <2>3, <2>4 DEF KeysAreTyped
<1>2. ASSUME RInv, IInv', [Next]_vars
      PROVE  RInv'
  <2>1. CASE DelayByCount
    BY <1>2, <2>1, RunControlAssumption
       DEF DelayByCount, keys, RInv, KeysAreTyped, CountIsBounded, IInv, DelayType
  <2>2. CASE DelayByWait
    BY <1>2, <2>2, RunControlAssumption
       DEF DelayByWait, Counted, keys, RInv, KeysAreTyped, CountIsBounded, IInv, DelayType
  <2>3. CASE Step
    BY <1>2, <2>3, StepIsTyped DEF RInv
  <2>4. CASE Control
    BY <1>2, <2>4, ControlIsTyped DEF RInv
  <2>5. CASE Tick \/ UNCHANGED vars
    BY <1>2, <2>5 DEF Tick, vars, keys, delays, RInv, KeysAreTyped, CountIsBounded
  <2> QED
    BY <1>2, <2>1, <2>2, <2>3, <2>4, <2>5 DEF Next, RdoNext
<1>3. RInv => TypeOK
  BY DEF RInv, IInv, DelayType, NoWaitAtStart, KeysAreTyped, CountIsBounded, TypeOK
<1> QED
  BY <1>1, <1>2, <1>3, InvariantIsInductive, PTL DEF Spec, RInv
=============================================================================
