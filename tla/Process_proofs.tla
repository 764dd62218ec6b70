--------------------------- MODULE Process_proofs ---------------------------
(***************************************************************************)
(* Proofs about the processes, for every program of blocks, any number of  *)
(* transacts and resources, with and without breakdowns.                   *)
(***************************************************************************)
EXTENDS Process, TLAPS, NatSets, FiniteSetTheorems

\* So some transact of a nonempty set comes first.
LEMMA SomeoneIsFirst ==
  ASSUME rank \in [Transact -> Nat], NEW T \in SUBSET Transact, T # {}
  PROVE  \E t \in T : \A u \in T : rank[t] =< rank[u]
<1> DEFINE S == {rank[t] : t \in T}
<1>1. S \in SUBSET Nat /\ S # {}
  OBVIOUS
<1>2. \E n \in S : \A m \in S : n =< m
  <2> HIDE DEF S
  <2> QED BY <1>1, NatMin
<1> QED
  BY <1>2

\* And a SEIZE that lists a free resource has a first free one.
LEMMA SomeFreeIsFirst ==
  ASSUME NEW b, For(b) \in Seq(Resource), NEW r, Lists(b, r), state[r] = "free"
  PROVE  \E s \in Resource : FirstFree(b, s) /\ Lists(b, s) /\ state[s] = "free"
<1> DEFINE I == {i \in DOMAIN For(b) : state[For(b)[i]] = "free"}
<1>1. I \in SUBSET Nat /\ I # {}
  BY DEF Lists
<1>2. PICK i \in I : \A j \in I : i =< j
  <2> HIDE DEF I
  <2> QED BY <1>1, NatMin
<1>3. \A j \in 1..(i - 1) : j \in DOMAIN For(b) /\ j \notin I
  BY <1>1, <1>2
<1>4. For(b)[i] \in Resource
  BY <1>2
<1> QED
  BY <1>2, <1>3, <1>4 DEF FirstFree, Lists

-----------------------------------------------------------------------------
(***************************************************************************)
(* What the assumptions say of the blocks.                                 *)
(***************************************************************************)
LEMMA BlockOfProgram ==
  ASSUME NEW b \in Block
  PROVE  Program[b[1]][b[2]] \in BlockType /\ b[2] \in Nat /\ Succ(b) # b /\ b # None
<1>1. PICK p \in Process : b \in {p} \X DOMAIN Program[p]
  BY DEF Block
<1>2. Program[p] \in Seq(BlockType)
  BY ProcessAssumption
<1>3. b = <<p, b[2]>> /\ b[1] = p /\ b[2] \in 1..Len(Program[p])
  BY <1>1, <1>2
<1>4. Program[p][b[2]] \in BlockType
  BY <1>2, <1>3
<1>5. Succ(b) # b
  BY <1>3 DEF Succ
<1> QED
  BY <1>3, <1>4, <1>5, BlockAssumption

LEMMA SeizeLists ==
  ASSUME NEW b \in Block, Op(b) = "SEIZE"
  PROVE  For(b) \in Seq(Resource)
BY BlockOfProgram DEF Op, For, BlockType

LEMMA NIsNat == N \in Nat
BY ProcessAssumption, FS_CardinalityType DEF N

LEMMA RankingsAreNumbers ==
  ASSUME NEW f \in Rankings
  PROVE  f \in [Transact -> Nat]
BY NIsNat DEF Rankings

-----------------------------------------------------------------------------
(***************************************************************************)
(* The inductive invariant.  A transact is in one list m_transacts only,   *)
(* so going out of its block takes it out of every list of a resource it   *)
(* was in, which is what ListsAgree needs; and a transact that has not     *)
(* been created is nowhere.                                                *)
(***************************************************************************)
ErasedWereCreated == \A t \in erased : block[t] # None

PInv == TypeOK /\ OnePlace /\ ListsAgree /\ ErasedWereCreated

\* The transacts that a scan finds bad wait at the RELEASE where it finds them.
LEMMA LostWait ==
  ASSUME NEW C \in SUBSET Block, NEW t \in LostIn(C)
  PROVE  /\ t \in Transact
         /\ \E c \in C : Op(c) = "RELEASE" /\ t \in waiting[c]
BY DEF LostIn, ReleaseBad, First

\* How the transacts D of block b move: out of the lists of b, into those of the
\* next block or of none; the lost ones go out of theirs.
Moved(b, D, lost) ==
  /\ waiting' \in [Block -> SUBSET Transact]
  /\ listed' \in [Resource -> SUBSET Transact]
  /\ block' \in [Transact -> Block \cup {None}]
  /\ rank' \in Rankings
  /\ ListsAgree'
  /\ \A c \in Block : \A t \in waiting'[c] :
        \/ t \in D /\ c # b /\ block'[t] = c
        \/ t \notin D /\ t \notin lost /\ t \in waiting[c]
  /\ \A t \in Transact \ D : block'[t] = block[t]
  /\ \A t \in D : block'[t] = block[t] \/ block'[t] \in Block

LEMMA GoOutMoves ==
  ASSUME PInv, NEW b, NEW D \in SUBSET Transact, NEW C \in SUBSET Block,
         \A t \in D : \A c \in Block : t \in waiting[c] => c = b,
         D \cap LostIn(C) = {},
         GoOut(b, D, C, LostIn(C))
  PROVE  Moved(b, D, LostIn(C))
<1> USE DEF PInv, TypeOK, GoOut
<1>1. waiting' \in [Block -> SUBSET Transact] /\ listed' \in [Resource -> SUBSET Transact]
  BY DEF Stay, StayListed
<1>2. block' = block /\ rank' = rank
  OBVIOUS
<1>3. ASSUME NEW c \in Block, NEW t \in Transact
      PROVE  t \in waiting'[c] <=> t \notin D /\ t \notin LostIn(C) /\ t \in waiting[c]
  <2>1. t \in LostIn(C) /\ t \in waiting[c] => c \in C
    BY LostWait DEF OnePlace
  <2> QED
    BY <2>1 DEF Stay
<1>4. ASSUME NEW r \in Resource, NEW t \in Transact
      PROVE  t \in listed'[r] <=> \E c \in Block : Seizes(c, r) /\ t \in waiting'[c]
  <2>1. t \in listed'[r] <=> /\ t \in listed[r] /\ ~ (Seizes(b, r) /\ t \in D)
                             /\ ~ (res[t] = r /\ t \in LostIn(C))
    BY DEF StayListed
  <2>2. t \in listed[r] <=> \E c \in Block : Seizes(c, r) /\ t \in waiting[c]
    BY DEF ListsAgree
  <2>3. t \in LostIn(C) => t \notin listed[r]
    BY <2>2, LostWait DEF OnePlace, Seizes
  <2> QED
    BY <1>3, <2>1, <2>2, <2>3 DEF Seizes
<1>5. ListsAgree'
  BY <1>4 DEF ListsAgree, Seizes
<1> QED
  BY <1>1, <1>2, <1>3, <1>5 DEF Moved

LEMMA GoOnMoves ==
  ASSUME PInv, NEW b \in Block, NEW D \in SUBSET Transact, NEW C \in SUBSET Block,
         \A t \in D : \A c \in Block : t \in waiting[c] => c = b,
         D \cap LostIn(C) = {},
         GoOn(b, D, C, LostIn(C))
  PROVE  Moved(b, D, LostIn(C))
<1>1. CASE Succ(b) \notin Block
  BY <1>1, GoOutMoves DEF GoOn
<1>2. CASE Succ(b) \in Block
  <2> USE <1>2 DEF PInv, TypeOK, GoOn
  <2>1. waiting' \in [Block -> SUBSET Transact] /\ listed' \in [Resource -> SUBSET Transact]
    BY DEF Stay, StayListed
  <2>2. /\ block' \in [Transact -> Block \cup {None}]
        /\ \A t \in Transact : block'[t] = IF t \in D THEN Succ(b) ELSE block[t]
        /\ rank' \in Rankings
    BY DEF Requeue
  <2>3. ASSUME NEW c \in Block, NEW t \in Transact
        PROVE  t \in waiting'[c] <=> \/ t \in D /\ c = Succ(b)
                                     \/ t \notin D /\ t \notin LostIn(C) /\ t \in waiting[c]
    <3>1. t \in LostIn(C) /\ t \in waiting[c] => c \in C
      BY LostWait DEF OnePlace
    <3> QED
      BY <3>1 DEF Stay
  <2>4. ASSUME NEW r \in Resource, NEW t \in Transact
        PROVE  t \in listed'[r] <=> \E c \in Block : Seizes(c, r) /\ t \in waiting'[c]
    <3>1. t \in listed'[r] <=> \/ /\ t \in listed[r] /\ ~ (Seizes(b, r) /\ t \in D)
                                  /\ ~ (res[t] = r /\ t \in LostIn(C))
                               \/ t \in D /\ Seizes(Succ(b), r)
      BY DEF StayListed
    <3>2. t \in listed[r] <=> \E c \in Block : Seizes(c, r) /\ t \in waiting[c]
      BY DEF ListsAgree
    <3>3. t \in LostIn(C) => t \notin listed[r]
      BY <3>2, LostWait DEF OnePlace, Seizes
    <3> QED
      BY <2>3, <3>1, <3>2, <3>3 DEF Seizes
  <2>5. ListsAgree'
    BY <2>4 DEF ListsAgree, Seizes
  <2>6. Succ(b) # b
    BY BlockOfProgram
  <2> QED
    BY <2>1, <2>2, <2>3, <2>5, <2>6 DEF Moved
<1> QED
  BY <1>1, <1>2

\* What an action has to show of the transacts it erases and of its leave_lists.
Erases(D, lost, gone) ==
  /\ D \subseteq Transact /\ lost \subseteq Transact /\ gone \subseteq Transact
  /\ erased' = erased \cup lost \cup gone
  /\ \A c \in Block : \A u \in leaving'[c] :
        /\ Op(c) = "ADVANCE" /\ block'[u] = c
        /\ u \notin erased /\ u \notin lost /\ u \notin gone /\ u \notin waiting'[c]
  /\ \A c \in Block : \A u \in waiting'[c] : u \notin gone
  /\ \A u \in D : u \notin erased /\ u \notin lost
  /\ \A u \in lost \cup gone : block'[u] # None

LEMMA MovedKeeps ==
  ASSUME PInv, NEW b, NEW D, NEW lost, NEW gone,
         Moved(b, D, lost), Erases(D, lost, gone)
  PROVE  OnePlace' /\ ErasedWereCreated'
<1> USE DEF PInv, TypeOK, Erases
<1>1. ASSUME NEW c \in Block, NEW u \in Transact
      PROVE  /\ u \in waiting'[c] \cup leaving'[c] => block'[u] = c /\ u \notin erased'
             /\ u \notin waiting'[c] \cap leaving'[c]
             /\ u \in leaving'[c] => Op(c) = "ADVANCE"
  <2>1. CASE u \in leaving'[c]
    BY <2>1
  <2>2. CASE u \in waiting'[c] /\ u \in D
    BY <2>2 DEF Moved
  <2>3. CASE u \in waiting'[c] /\ u \notin D
    BY <2>3 DEF Moved, OnePlace
  <2> QED
    BY <2>1, <2>2, <2>3
<1>2. OnePlace'
  BY <1>1 DEF OnePlace
<1>3. \A u \in erased : block'[u] # None
  BY BlockAssumption DEF ErasedWereCreated, Moved
<1> QED
  BY <1>2, <1>3 DEF ErasedWereCreated

\* The transact a scan moves is only at its block; the lost ones are elsewhere.
LEMMA ScannedApart ==
  ASSUME PInv, NEW b \in Block, NEW t \in waiting[b]
  PROVE  /\ {t} \in SUBSET Transact /\ Passed(b) \in SUBSET Block
         /\ \A u \in {t} : \A c \in Block : u \in waiting[c] => c = b
         /\ {t} \cap LostIn(Passed(b)) = {}
         /\ LostIn(Passed(b)) \in SUBSET Transact
         /\ t \notin erased /\ block[t] = b
         /\ \A u \in LostIn(Passed(b)) : block[u] \in Block /\ Op(block[u]) = "RELEASE"
<1>1. Passed(b) \in SUBSET Block /\ b \notin Passed(b)
  BY BlockOfProgram DEF Passed
<1>2. t \in Transact /\ \A c \in Block : t \in waiting[c] => c = b
  BY DEF PInv, TypeOK, OnePlace
<1>3. \A u \in LostIn(Passed(b)) : u # t /\ block[u] \in Block /\ Op(block[u]) = "RELEASE"
  BY <1>1, <1>2, LostWait DEF PInv, TypeOK, OnePlace
<1> QED
  BY <1>1, <1>2, <1>3, LostWait DEF PInv, OnePlace

\* A block that sends its first transact on.
LEMMA OperateKeeps ==
  ASSUME PInv, NEW b \in Block, NEW t \in waiting[b], Operate(b, t), leaving' = leaving
  PROVE  Moved(b, {t}, LostIn(Passed(b))) /\ OnePlace' /\ ErasedWereCreated'
<1> DEFINE lost == LostIn(Passed(b))
<1>1. Moved(b, {t}, lost)
  <2>1. GoOn(b, {t}, Passed(b), lost)
    BY DEF Operate
  <2> QED
    BY <2>1, ScannedApart, GoOnMoves
<1>2. lost \in SUBSET Transact /\ t \in Transact /\ t \notin lost /\ t \notin erased /\ block[t] = b
  BY ScannedApart
<1>3. \A u \in lost : block[u] \in Block /\ Op(block[u]) = "RELEASE"
  BY ScannedApart
<1>4. \A u \in Transact \ {t} : block'[u] = block[u]
  BY <1>1 DEF Moved
<1> HIDE DEF lost
<1>5. erased' = erased \cup lost
  BY DEF Operate, lost
<1>6. ASSUME NEW c \in Block, NEW u \in leaving'[c]
      PROVE  /\ Op(c) = "ADVANCE" /\ block'[u] = c
             /\ u \notin erased /\ u \notin lost /\ u \notin waiting'[c]
  <2>1. u \in Transact /\ Op(c) = "ADVANCE" /\ block[u] = c /\ u \notin erased /\ u \notin waiting[c]
    BY DEF PInv, TypeOK, OnePlace
  <2>2. u # t
    BY <2>1, <1>2
  <2>3. u \notin lost
    BY <2>1, <1>3
  <2> QED
    BY <1>1, <1>4, <2>1, <2>2, <2>3 DEF Moved
<1>7. \A u \in lost : block'[u] # None
  BY <1>2, <1>3, <1>4, BlockAssumption
<1>8. Erases({t}, lost, {})
  BY <1>2, <1>5, <1>6, <1>7 DEF Erases
<1>9. OnePlace' /\ ErasedWereCreated'
  BY <1>1, <1>8, MovedKeeps
<1> QED
  BY <1>1, <1>9 DEF lost

\* A block whose first transact joins no other list.
LEMMA ScanOutMoves ==
  ASSUME PInv, NEW b \in Block, NEW t \in waiting[b],
         GoOut(b, {t}, Passed(b), LostIn(Passed(b)))
  PROVE  /\ Moved(b, {t}, LostIn(Passed(b)))
         /\ block' = block
         /\ \A c \in Block : t \notin waiting'[c]
<1>1. Moved(b, {t}, LostIn(Passed(b)))
  BY ScannedApart, GoOutMoves
<1>2. block' = block
  BY DEF GoOut
<1>3. ASSUME NEW c \in Block PROVE t \notin waiting'[c]
  <2>1. t \in waiting[c] => c = b
    BY ScannedApart
  <2>2. waiting'[c] = Stay(b, {t}, Passed(b), LostIn(Passed(b)), c)
    BY DEF GoOut
  <2> QED
    BY <2>1, <2>2 DEF Stay
<1> QED
  BY <1>1, <1>2, <1>3

LEMMA AdvanceKeeps ==
  ASSUME PInv, NEW b \in Block, NEW t \in waiting[b], DoAdvance(b, t)
  PROVE  PInv'
<1> DEFINE lost == LostIn(Passed(b))
<1>1. Moved(b, {t}, lost) /\ block' = block /\ \A c \in Block : t \notin waiting'[c]
  BY ScanOutMoves DEF DoAdvance
<1>2. lost \in SUBSET Transact /\ t \in Transact /\ t \notin lost /\ t \notin erased /\ block[t] = b
  BY ScannedApart
<1>3. \A u \in lost : block[u] \in Block /\ Op(block[u]) = "RELEASE"
  BY ScannedApart
<1>4. erased' = erased \cup lost /\ leaving' = [leaving EXCEPT ![b] = @ \cup {t}]
      /\ UNCHANGED <<res, state, length, term, owners>>
  BY DEF DoAdvance
<1>5. Op(b) = "ADVANCE"
  BY DEF DoAdvance
<1> HIDE DEF lost
<1>6. leaving' \in [Block -> SUBSET Transact]
  BY <1>2, <1>4 DEF PInv, TypeOK
<1>7. ASSUME NEW c \in Block, NEW u \in leaving'[c]
      PROVE  /\ Op(c) = "ADVANCE" /\ block'[u] = c
             /\ u \notin erased /\ u \notin lost /\ u \notin waiting'[c]
  <2>1. CASE u = t /\ c = b
    BY <2>1, <1>1, <1>2, <1>5
  <2>2. CASE u \in leaving[c]
    <3>1. u \in Transact /\ Op(c) = "ADVANCE" /\ block[u] = c /\ u \notin erased /\ u \notin waiting[c]
      BY <2>2 DEF PInv, TypeOK, OnePlace
    <3> QED
      BY <1>1, <1>3, <3>1 DEF Moved
  <2> QED
    BY <1>4, <2>1, <2>2 DEF PInv, TypeOK
<1>8. Erases({t}, lost, {})
  BY <1>1, <1>2, <1>3, <1>4, <1>7, BlockAssumption DEF Erases
<1>9. OnePlace' /\ ErasedWereCreated'
  BY <1>1, <1>8, MovedKeeps
<1>10. TypeOK'
  BY <1>1, <1>2, <1>4, <1>6 DEF PInv, TypeOK, Moved
<1> QED
  BY <1>1, <1>9, <1>10 DEF PInv, Moved

LEMMA TerminateKeeps ==
  ASSUME PInv, NEW b \in Block, NEW t \in waiting[b], DoTerminate(b, t)
  PROVE  PInv'
<1> DEFINE lost == LostIn(Passed(b))
<1>1. Moved(b, {t}, lost) /\ block' = block /\ \A c \in Block : t \notin waiting'[c]
  BY ScanOutMoves DEF DoTerminate
<1>2. lost \in SUBSET Transact /\ t \in Transact /\ t \notin lost /\ t \notin erased /\ block[t] = b
  BY ScannedApart
<1>3. \A u \in lost : block[u] \in Block /\ Op(block[u]) = "RELEASE"
  BY ScannedApart
<1>4. erased' = erased \cup lost \cup {t} /\ term' = term + 1
      /\ UNCHANGED <<leaving, res, state, length, owners>>
  BY DEF DoTerminate
<1>5. Op(b) = "TERMINATE"
  BY DEF DoTerminate
<1> HIDE DEF lost
<1>7. ASSUME NEW c \in Block, NEW u \in leaving'[c]
      PROVE  /\ Op(c) = "ADVANCE" /\ block'[u] = c /\ u # t
             /\ u \notin erased /\ u \notin lost /\ u \notin waiting'[c]
  <2>1. u \in Transact /\ Op(c) = "ADVANCE" /\ block[u] = c /\ u \notin erased /\ u \notin waiting[c]
    BY <1>4 DEF PInv, TypeOK, OnePlace
  <2> QED
    BY <1>1, <1>2, <1>3, <1>5, <2>1 DEF Moved
<1>8. Erases({t}, lost, {t})
  BY <1>1, <1>2, <1>3, <1>4, <1>7, BlockAssumption DEF Erases
<1>9. OnePlace' /\ ErasedWereCreated'
  BY <1>1, <1>8, MovedKeeps
<1>10. TypeOK'
  BY <1>1, <1>2, <1>4 DEF PInv, TypeOK, Moved
<1> QED
  BY <1>1, <1>9, <1>10 DEF PInv, Moved

\* A scan with nothing to do has checked some of the blocks.
LEMMA ScansInVain ==
  ASSUME (\E p \in Process : ScanInVain(p)) \/ (\E b \in Block : ScanCutShort(b))
  PROVE  \E C \in SUBSET Block : Vain(C)
<1>1. ASSUME NEW p \in Process, ScanInVain(p)
      PROVE  \E C \in SUBSET Block : Vain(C)
  <2>1. {c \in Block : c[1] = p} \in SUBSET Block
    OBVIOUS
  <2> QED
    BY <1>1, <2>1 DEF ScanInVain
<1>2. ASSUME NEW b \in Block, ScanCutShort(b)
      PROVE  \E C \in SUBSET Block : Vain(C)
  <2>1. Passed(b) \in SUBSET Block
    BY DEF Passed
  <2> QED
    BY <1>2, <2>1 DEF ScanCutShort
<1> QED
  BY <1>1, <1>2

LEMMA VainKeeps ==
  ASSUME PInv, NEW C \in SUBSET Block, Vain(C)
  PROVE  PInv'
<1> DEFINE lost == LostIn(C)
<1>1. GoOut(None, {}, C, lost) /\ erased' = erased \cup lost
      /\ UNCHANGED <<leaving, res, state, length, term, owners>>
  BY DEF Vain
<1>2. Moved(None, {}, lost) /\ block' = block
  BY <1>1, GoOutMoves DEF GoOut
<1>3. \A u \in lost : u \in Transact /\ block[u] \in Block /\ Op(block[u]) = "RELEASE"
  BY LostWait DEF PInv, TypeOK, OnePlace
<1> HIDE DEF lost
<1>4. ASSUME NEW c \in Block, NEW u \in leaving'[c]
      PROVE  /\ Op(c) = "ADVANCE" /\ block'[u] = c
             /\ u \notin erased /\ u \notin lost /\ u \notin waiting'[c]
  <2>1. u \in Transact /\ Op(c) = "ADVANCE" /\ block[u] = c /\ u \notin erased /\ u \notin waiting[c]
    BY <1>1 DEF PInv, TypeOK, OnePlace
  <2> QED
    BY <1>2, <1>3, <2>1 DEF Moved
<1>5. Erases({}, lost, {})
  BY <1>1, <1>2, <1>3, <1>4, BlockAssumption DEF Erases
<1>6. OnePlace' /\ ErasedWereCreated'
  BY <1>2, <1>5, MovedKeeps
<1>7. TypeOK'
  BY <1>1, <1>2, <1>3 DEF PInv, TypeOK, Moved
<1> QED
  BY <1>2, <1>6, <1>7 DEF PInv, Moved

LEMMA NobodyLost == LostIn({}) = {}
BY DEF LostIn

LEMMA GenerateKeeps ==
  ASSUME PInv, NEW b \in Block, NEW t \in Transact, Generate(b, t)
  PROVE  PInv'
<1>1. block[t] = None /\ UNCHANGED <<erased, leaving, res, state, length, term, owners>>
  BY DEF Generate
<1>2. t \notin erased /\ \A c \in Block : t \notin waiting[c] /\ t \notin leaving[c]
  BY <1>1, BlockAssumption DEF PInv, ErasedWereCreated, OnePlace
<1>3. Moved(b, {t}, {})
  <2>1. GoOn(b, {t}, {}, LostIn({}))
    BY NobodyLost DEF Generate
  <2> QED
    BY <1>2, <2>1, GoOnMoves, NobodyLost
<1>4. ASSUME NEW c \in Block, NEW u \in leaving'[c]
      PROVE  /\ Op(c) = "ADVANCE" /\ block'[u] = c
             /\ u \notin erased /\ u \notin waiting'[c]
  <2>1. u \in Transact /\ Op(c) = "ADVANCE" /\ block[u] = c /\ u \notin erased /\ u \notin waiting[c]
    BY <1>1 DEF PInv, TypeOK, OnePlace
  <2>2. u # t
    BY <1>1, <1>2
  <2> QED
    BY <1>3, <2>1, <2>2 DEF Moved
<1>5. Erases({t}, {}, {})
  BY <1>1, <1>2, <1>4 DEF Erases
<1>6. OnePlace' /\ ErasedWereCreated'
  BY <1>3, <1>5, MovedKeeps
<1>7. TypeOK'
  BY <1>1, <1>3 DEF PInv, TypeOK, Moved
<1> QED
  BY <1>3, <1>6, <1>7 DEF PInv, Moved

LEMMA AdvanceEndsKeeps ==
  ASSUME PInv, NEW b \in Block, NEW D \in SUBSET leaving[b], AdvanceEnds(b, D)
  PROVE  PInv'
<1>1. leaving' = [leaving EXCEPT ![b] = @ \ D]
      /\ UNCHANGED <<erased, res, state, length, term, owners>>
  BY DEF AdvanceEnds
<1>2. D \in SUBSET Transact
  BY DEF PInv, TypeOK
<1>3. \A u \in D : block[u] = b /\ u \notin erased /\ \A c \in Block : u \notin waiting[c]
  BY <1>2 DEF PInv, OnePlace
<1>4. Moved(b, D, {})
  <2>1. GoOn(b, D, {}, LostIn({}))
    BY NobodyLost DEF AdvanceEnds
  <2> QED
    BY <1>2, <1>3, <2>1, GoOnMoves, NobodyLost
<1>5. ASSUME NEW c \in Block, NEW u \in leaving'[c]
      PROVE  /\ Op(c) = "ADVANCE" /\ block'[u] = c
             /\ u \notin erased /\ u \notin waiting'[c]
  <2>1. u \in leaving[c] /\ (c = b => u \notin D)
    BY <1>1 DEF PInv, TypeOK
  <2>2. u \in Transact /\ Op(c) = "ADVANCE" /\ block[u] = c /\ u \notin erased /\ u \notin waiting[c]
    BY <2>1 DEF PInv, TypeOK, OnePlace
  <2>3. u \notin D
    BY <1>3, <2>1, <2>2
  <2> QED
    BY <1>4, <2>2, <2>3 DEF Moved
<1>6. Erases(D, {}, {})
  BY <1>1, <1>2, <1>3, <1>5 DEF Erases
<1>7. OnePlace' /\ ErasedWereCreated'
  BY <1>4, <1>6, MovedKeeps
<1>8. TypeOK'
  BY <1>1, <1>4 DEF PInv, TypeOK, Moved
<1> QED
  BY <1>4, <1>7, <1>8 DEF PInv, Moved

LEMMA ProcessStartKeeps ==
  ASSUME PInv, NEW p \in Process, NEW t \in Transact, ProcessStart(p, t)
  PROVE  PInv'
<1> DEFINE b == <<p, 1>>
<1>1. /\ b \in Block /\ block[t] = None
      /\ block' = [block EXCEPT ![t] = b]
      /\ waiting' = [waiting EXCEPT ![b] = @ \cup {t}]
      /\ listed' = [r \in Resource |-> listed[r] \cup {u \in {t} : Seizes(b, r)}]
      /\ rank' \in Rankings
      /\ UNCHANGED <<erased, leaving, res, state, length, term, owners>>
  BY DEF ProcessStart, Requeue
<1> HIDE DEF b
<1>2. t \notin erased /\ \A c \in Block : t \notin waiting[c] /\ t \notin leaving[c]
  BY <1>1, BlockAssumption DEF PInv, ErasedWereCreated, OnePlace
<1>3. Moved(None, {t}, {})
  <2>1. ASSUME NEW c \in Block, NEW u \in Transact
        PROVE  u \in waiting'[c] <=> (u = t /\ c = b) \/ u \in waiting[c]
    BY <1>1 DEF PInv, TypeOK
  <2>2. ListsAgree'
    <3>1. ASSUME NEW r \in Resource, NEW u \in Transact
          PROVE  u \in listed'[r] <=> \E c \in Block : Seizes(c, r) /\ u \in waiting'[c]
      <4>1. u \in listed'[r] <=> u \in listed[r] \/ (u = t /\ Seizes(b, r))
        BY <1>1
      <4>2. u \in listed[r] <=> \E c \in Block : Seizes(c, r) /\ u \in waiting[c]
        BY DEF PInv, ListsAgree
      <4> QED
        BY <1>1, <2>1, <4>1, <4>2
    <3> QED
      BY <3>1 DEF ListsAgree, Seizes
  <2>3. /\ waiting' \in [Block -> SUBSET Transact] /\ listed' \in [Resource -> SUBSET Transact]
        /\ block' \in [Transact -> Block \cup {None}]
    BY <1>1 DEF PInv, TypeOK
  <2>4. \A c \in Block : c # None
    BY BlockAssumption
  <2> QED
    BY <1>1, <1>2, <2>1, <2>2, <2>3, <2>4 DEF Moved, PInv, TypeOK
<1>4. ASSUME NEW c \in Block, NEW u \in leaving'[c]
      PROVE  /\ Op(c) = "ADVANCE" /\ block'[u] = c
             /\ u \notin erased /\ u \notin waiting'[c]
  <2>1. u \in Transact /\ Op(c) = "ADVANCE" /\ block[u] = c /\ u \notin erased /\ u \notin waiting[c]
    BY <1>1 DEF PInv, TypeOK, OnePlace
  <2>2. u # t
    BY <1>1, <1>2
  <2> QED
    BY <1>3, <2>1, <2>2 DEF Moved
<1>5. Erases({t}, {}, {})
  BY <1>1, <1>2, <1>4 DEF Erases
<1>6. OnePlace' /\ ErasedWereCreated'
  BY <1>3, <1>5, MovedKeeps
<1>7. TypeOK'
  BY <1>1, <1>3 DEF PInv, TypeOK, Moved
<1> QED
  BY <1>3, <1>6, <1>7 DEF PInv, Moved

\* Every step keeps the invariant.
LEMMA PInvStep == PInv /\ [Next]_vars => PInv'
<1> SUFFICES ASSUME PInv, [Next]_vars PROVE PInv'
  OBVIOUS
<1>1. ASSUME NEW b \in Block, NEW t \in waiting[b],
             DoQueue(b, t) \/ DoDepart(b, t) \/ DoSeize(b, t) \/ DoRelease(b, t)
                \/ DoAssign(b, t)
      PROVE  PInv'
  <2>1. Operate(b, t) /\ UNCHANGED <<leaving, term>>
    BY <1>1 DEF DoQueue, DoDepart, DoSeize, DoRelease, DoAssign
  <2>2. Moved(b, {t}, LostIn(Passed(b))) /\ OnePlace' /\ ErasedWereCreated'
    BY <2>1, OperateKeeps
  <2>3. t \in Transact
    BY DEF PInv, TypeOK
  <2>4. /\ res' \in [Transact -> Resource \cup {None}]
        /\ state' \in [Resource -> {"free", "busy", "broken"}]
        /\ owners' \in [Resource -> SUBSET Transact]
    <3> USE <2>3 DEF PInv, TypeOK
    <3>1. CASE DoQueue(b, t) \/ DoDepart(b, t) \/ DoAssign(b, t)
      BY <3>1 DEF DoQueue, DoDepart, DoAssign
    <3>2. CASE DoSeize(b, t)
      BY <3>2 DEF DoSeize
    <3>3. CASE DoRelease(b, t)
      BY <3>3 DEF DoRelease
    <3> QED
      BY <1>1, <3>1, <3>2, <3>3
  <2>5. length' \in [Queue -> Int]
    BY <1>1 DEF DoQueue, DoDepart, DoSeize, DoRelease, DoAssign, PInv, TypeOK
  <2>6. erased' \subseteq Transact
    BY <2>1, LostWait DEF Operate, LostIn, PInv, TypeOK
  <2>7. TypeOK'
    BY <2>1, <2>2, <2>4, <2>5, <2>6 DEF PInv, TypeOK, Moved
  <2> QED
    BY <2>2, <2>7 DEF PInv, Moved
<1>2. ASSUME NEW r \in Resource, Break(r) \/ Repair(r)
      PROVE  PInv'
  BY <1>2 DEF Break, Repair, PInv, TypeOK, OnePlace, ListsAgree, ErasedWereCreated, Seizes
<1>3. CASE UNCHANGED vars
  BY <1>3 DEF vars, PInv, TypeOK, OnePlace, ListsAgree, ErasedWereCreated, Seizes
<1> QED
  BY <1>1, <1>2, <1>3, AdvanceKeeps, TerminateKeeps, ScansInVain, VainKeeps, GenerateKeeps,
     AdvanceEndsKeeps, ProcessStartKeeps DEF Next, Scan

LEMMA PInvInit == Init => PInv
<1> SUFFICES ASSUME Init PROVE PInv
  OBVIOUS
<1>1. TypeOK
  BY DEF Init, TypeOK
<1>2. OnePlace /\ ListsAgree /\ ErasedWereCreated
  BY DEF Init, OnePlace, ListsAgree, ErasedWereCreated, Seizes
<1> QED
  BY <1>1, <1>2 DEF PInv

LEMMA AlwaysPInv == Spec => []PInv
BY PInvInit, PInvStep, PTL DEF Spec

\* Every variable keeps its type.
THEOREM TypeCorrect == Spec => []TypeOK
<1>1. PInv => TypeOK
  BY DEF PInv
<1> QED
  BY <1>1, AlwaysPInv, PTL

\* Whatever the program and whatever patterns do to the resources, a transact is
\* in one place.
THEOREM EveryoneInOnePlace == Spec => []OnePlace
<1>1. PInv => OnePlace
  BY DEF PInv
<1> QED
  BY <1>1, AlwaysPInv, PTL

\* And the lists of the blocks and of the resources agree.
THEOREM ListsStayInStep == Spec => []ListsAgree
<1>1. PInv => ListsAgree
  BY DEF PInv
<1> QED
  BY <1>1, AlwaysPInv, PTL

-----------------------------------------------------------------------------
(***************************************************************************)
(* Some SEIZE can go on.  Of all the transacts that wait for a resource    *)
(* that is free, take the one that has waited longest.  It is the first of *)
(* its block, and the first of the first free resource its block lists:    *)
(* all who wait for that resource are among those it was chosen from.      *)
(***************************************************************************)
LEMMA LongestWaitingCanSeize ==
  ASSUME PInv, NEW b \in Block, NEW r \in Resource,
         Seizes(b, r), waiting[b] # {}, state[r] = "free"
  PROVE  \E c \in Block : Op(c) = "SEIZE" /\ Ready(c)
<1> USE DEF PInv
<1> DEFINE Wanted(c) == \E s \in Resource : Seizes(c, s) /\ state[s] = "free"
           T == {t \in Transact : \E c \in Block : Wanted(c) /\ t \in waiting[c]}
<1>1. T # {}
  BY DEF TypeOK
<1>2. PICK t \in T : \A u \in T : rank[t] =< rank[u]
  <2>1. T \in SUBSET Transact /\ rank \in [Transact -> Nat]
    BY RankingsAreNumbers DEF TypeOK
  <2> HIDE DEF T
  <2> QED
    BY <1>1, <2>1, SomeoneIsFirst
<1>3. PICK c \in Block : Wanted(c) /\ t \in waiting[c]
  BY <1>2
<1>4. PICK s \in Resource : FirstFree(c, s) /\ Lists(c, s) /\ state[s] = "free"
  BY <1>3, SeizeLists, SomeFreeIsFirst DEF Seizes
<1>5. Op(c) = "SEIZE" /\ Seizes(c, s)
  BY <1>3, <1>4 DEF Seizes
<1>6. First(waiting[c], t)
  BY <1>2, <1>3 DEF First, TypeOK
<1>7. First(listed[s], t)
  <2>1. t \in listed[s]
    BY <1>2, <1>3, <1>5 DEF ListsAgree
  <2>2. \A u \in listed[s] : u \in T
    BY <1>4 DEF ListsAgree, TypeOK
  <2> QED
    BY <1>2, <2>1, <2>2 DEF First
<1>8. CanSeize(c, t, s)
  BY <1>4, <1>5, <1>6, <1>7 DEF CanSeize
<1> QED
  BY <1>3, <1>5, <1>8 DEF Ready

\* As long as a resource is free and somebody waits for it, some SEIZE is ready,
\* though a SEIZE looks at no resource after the first free one.
THEOREM SeizeIsNeverStuck == Spec => []NoStuckSeize
<1>1. PInv => NoStuckSeize
  BY LongestWaitingCanSeize DEF NoStuckSeize, Seizes
<1> QED
  BY <1>1, AlwaysPInv, PTL

-----------------------------------------------------------------------------
(***************************************************************************)
(* The order of service.  Only SEIZE gives a resource away, to the first   *)
(* of the resource's list; and since the lists agree, everybody who waits  *)
(* for the resource, at whatever block, is in that list.                   *)
(***************************************************************************)
LEMMA SeizeServesFirst ==
  ASSUME PInv, NEW b \in Block, NEW t \in waiting[b], DoSeize(b, t),
         NEW r \in Resource, NEW v \in owners'[r] \ owners[r],
         NEW c \in Block, Seizes(c, r), NEW u \in waiting[c], u # v
  PROVE  rank[v] < rank[u]
<1> USE DEF PInv, TypeOK
<1>1. PICK s \in Resource : CanSeize(b, t, s) /\ owners' = [owners EXCEPT ![s] = @ \cup {t}]
  BY DEF DoSeize
<1>2. s = r /\ v = t
  BY <1>1
<1>3. u \in Transact /\ u \in listed[r]
  BY DEF ListsAgree
<1>4. rank[t] =< rank[u]
  BY <1>1, <1>2, <1>3 DEF CanSeize, First
<1>5. t \in Transact /\ rank[t] # rank[u]
  BY <1>2, <1>3 DEF Rankings
<1>6. rank[t] \in Nat /\ rank[u] \in Nat
  BY <1>3, <1>5, RankingsAreNumbers
<1> QED
  BY <1>2, <1>4, <1>5, <1>6

\* First come, first served: who is given a resource has waited for it longer than
\* all others, whatever process and block they wait at.
THEOREM FirstComeFirstServed == Spec => ServedInOrder
<1> DEFINE Fair == \A r \in Resource, t \in Transact :
                     t \in owners'[r] \ owners[r] =>
                        \A u \in Transact \ {t} :
                           (\E b \in Block : Seizes(b, r) /\ u \in waiting[b]) => rank[t] < rank[u]
<1>1. PInv /\ [Next]_vars => Fair
  <2> SUFFICES ASSUME PInv, [Next]_vars,
                      NEW r \in Resource, NEW t \in Transact, t \in owners'[r] \ owners[r],
                      NEW u \in Transact \ {t}, NEW c \in Block, Seizes(c, r), u \in waiting[c]
               PROVE  rank[t] < rank[u]
    OBVIOUS
  <2>1. \E b \in Block : \E v \in waiting[b] : DoSeize(b, v)
    <3>1. owners' # owners
      OBVIOUS
    <3>2. ASSUME NEW b \in Block, NEW v \in waiting[b], DoRelease(b, v)
          PROVE  FALSE
      <4>1. PICK s \in Resource : owners' = [owners EXCEPT ![s] = @ \ {v}]
        BY <3>2 DEF DoRelease
      <4> QED
        BY <4>1 DEF PInv, TypeOK
    <3> QED
      BY <3>1, <3>2
         DEF Next, Scan, vars, DoQueue, DoDepart, DoAssign, DoAdvance, DoTerminate, Vain,
             ScanInVain, ScanCutShort, Generate, AdvanceEnds, ProcessStart, Break, Repair
  <2> QED
    BY <2>1, SeizeServesFirst
<1> QED
  BY <1>1, AlwaysPInv, PTL DEF Spec, ServedInOrder
-----------------------------------------------------------------------------
(***************************************************************************)
(* Programs that pair their blocks: a resource has one owner if every      *)
(* SEIZE is followed by its RELEASE, and the length of a queue is the      *)
(* number of transacts inside if every QUEUE is followed by its DEPART.    *)
(***************************************************************************)

(***************************************************************************)
(* Where a transact is in its program.                                     *)
(***************************************************************************)
LEMMA BlockIsPair ==
  ASSUME NEW b \in Block
  PROVE  b = <<b[1], b[2]>> /\ b[2] \in Nat /\ b[2] >= 1
<1>1. PICK p \in Process : b \in {p} \X DOMAIN Program[p]
  BY DEF Block
<1>2. Program[p] \in Seq(BlockType)
  BY ProcessAssumption
<1> QED
  BY <1>1, <1>2

LEMMA PassedByNext ==
  ASSUME NEW b \in Block
  PROVE  Passed(Succ(b)) = Passed(b) \cup {b}
<1>1. \A c \in Block : c = <<c[1], c[2]>> /\ c[2] \in Nat
  BY BlockIsPair
<1>2. Succ(b)[1] = b[1] /\ Succ(b)[2] = b[2] + 1
  BY DEF Succ
<1>3. \A c \in Block : c[2] < b[2] + 1 <=> c[2] < b[2] \/ c[2] = b[2]
  BY <1>1
<1>4. \A c \in Block : c[1] = b[1] /\ c[2] = b[2] <=> c = b
  BY <1>1
<1> QED
  BY <1>2, <1>3, <1>4 DEF Passed

\* SEIZE begins a service, RELEASE ends it, and no other block changes it.
LEMMA ServiceAfter ==
  ASSUME NEW b \in Block
  PROVE  /\ Op(b) = "SEIZE" => InService(Succ(b))
         /\ Op(b) = "RELEASE" => ~InService(Succ(b))
         /\ Op(b) \notin {"SEIZE", "RELEASE"} => (InService(Succ(b)) <=> InService(b))
<1>1. \A c \in Passed(b) : c[2] \in Nat /\ c[2] < b[2] /\ b[2] \in Nat
  BY BlockIsPair DEF Passed
<1>2. Passed(Succ(b)) = Passed(b) \cup {b}
  BY PassedByNext
<1>3. CASE Op(b) = "SEIZE"
  <2>1. \A d \in Passed(b) \cup {b} : d[2] =< b[2]
    BY <1>1, BlockIsPair
  <2> QED
    BY <1>2, <1>3, <2>1 DEF InService
<1>4. CASE Op(b) = "RELEASE"
  <2>1. \A c \in Passed(b) : ~ (b[2] =< c[2])
    BY <1>1
  <2> QED
    BY <1>2, <1>4, <2>1 DEF InService
<1>5. CASE Op(b) \notin {"SEIZE", "RELEASE"}
  BY <1>2, <1>5 DEF InService
<1> QED
  BY <1>3, <1>4, <1>5

\* QUEUE lets a transact into its queue, DEPART out, and no other block does.
LEMMA QueueAfter ==
  ASSUME QueuesArePaired, NEW b \in Block, NEW q \in Queue
  PROVE  /\ Op(b) = "QUEUE" /\ For(b)[1] = q => ~InQueue(b, q) /\ InQueue(Succ(b), q)
         /\ Op(b) = "DEPART" /\ For(b)[1] = q => InQueue(b, q) /\ ~InQueue(Succ(b), q)
         /\ ~ (Op(b) \in {"QUEUE", "DEPART"} /\ For(b)[1] = q)
               => (InQueue(Succ(b), q) <=> InQueue(b, q))
BY PassedByNext DEF QueuesArePaired, InQueue

LEMMA AtTheStart ==
  ASSUME NEW p, <<p, 1>> \in Block
  PROVE  ~InService(<<p, 1>>) /\ \A q : ~InQueue(<<p, 1>>, q)
<1>1. Passed(<<p, 1>>) = {}
  BY BlockIsPair DEF Passed
<1> QED
  BY <1>1 DEF InService, InQueue

\* The blocks of the transacts D when they go on from b.
LEMMA GoOnBlocks ==
  ASSUME PInv, NEW b \in Block, NEW D, NEW C, NEW lost, GoOn(b, D, C, lost)
  PROVE  /\ block' \in [Transact -> Block \cup {None}]
         /\ \A t \in Transact :
              block'[t] = IF t \in D /\ Succ(b) \in Block THEN Succ(b) ELSE block[t]
BY DEF GoOn, GoOut, PInv, TypeOK

-----------------------------------------------------------------------------
(***************************************************************************)
(* One owner.  Whoever is between a SEIZE and its RELEASE owns the         *)
(* resource it has seized last, and nobody else owns anything.             *)
(***************************************************************************)
Serving(t) == block[t] # None /\ InService(block[t])

OwnersServe == \A r \in Resource, t \in Transact : t \in owners[r] <=> Serving(t) /\ res[t] = r

BusyIsOwned == \A r \in Resource : /\ state[r] # "broken"
                                   /\ state[r] = "busy" <=> owners[r] # {}

OwnersAreFew == \A r \in Resource : \A t, u \in owners[r] : t = u

OwnInv == PInv /\ OwnersServe /\ BusyIsOwned /\ OwnersAreFew

\* A step that gives no resource away keeps the owners if everybody stays in
\* service who was.
LEMMA SameService ==
  ASSUME OwnInv, UNCHANGED <<owners, res, state>>,
         \A t \in Transact : Serving(t)' <=> Serving(t)
  PROVE  OwnersServe' /\ BusyIsOwned' /\ OwnersAreFew'
<1>1. BusyIsOwned' /\ OwnersAreFew'
  BY DEF OwnInv, BusyIsOwned, OwnersAreFew
<1>2. OwnersServe'
  BY DEF OwnInv, OwnersServe
<1> QED
  BY <1>1, <1>2

\* The transacts D of a block that neither seizes nor releases go on.
LEMMA GoOnServing ==
  ASSUME PInv, NEW b \in Block, NEW D, NEW C, NEW lost, GoOn(b, D, C, lost),
         Op(b) \notin {"SEIZE", "RELEASE"},
         \A t \in D : block[t] = b \/ (block[t] = None /\ ~InService(b))
  PROVE  \A t \in Transact : Serving(t)' <=> Serving(t)
<1> SUFFICES ASSUME NEW t \in Transact PROVE Serving(t)' <=> Serving(t)
  OBVIOUS
<1>1. block'[t] = IF t \in D /\ Succ(b) \in Block THEN Succ(b) ELSE block[t]
  BY GoOnBlocks
<1>2. InService(Succ(b)) <=> InService(b)
  BY ServiceAfter
<1>3. b # None /\ (Succ(b) \in Block => Succ(b) # None)
  BY BlockAssumption
<1>4. Serving(t)' <=> block'[t] # None /\ InService(block'[t])
  BY DEF Serving, InService, Passed
<1> QED
  BY <1>1, <1>2, <1>3, <1>4 DEF Serving

\* Nobody changes the block.
LEMMA NobodyMoves ==
  ASSUME block' = block
  PROVE  \A t \in Transact : Serving(t)' <=> Serving(t)
<1>1. \A t \in Transact : Serving(t)' <=> block'[t] # None /\ InService(block'[t])
  BY DEF Serving, InService, Passed
<1> QED
  BY <1>1 DEF Serving

LEMMA SeizeKeepsOwners ==
  ASSUME SeizesArePaired, OwnInv, NEW b \in Block, NEW t \in waiting[b], DoSeize(b, t)
  PROVE  OwnersServe' /\ BusyIsOwned' /\ OwnersAreFew'
<1> USE DEF OwnInv, PInv, TypeOK
<1>1. PICK r \in Resource : /\ CanSeize(b, t, r)
                            /\ state' = [state EXCEPT ![r] = "busy"]
                            /\ res' = [res EXCEPT ![t] = r]
                            /\ owners' = [owners EXCEPT ![r] = @ \cup {t}]
  BY DEF DoSeize
<1>2. Op(b) = "SEIZE" /\ t \in Transact /\ block[t] = b /\ state[r] = "free"
  BY <1>1, ScannedApart DEF CanSeize, FirstFree
<1>3. /\ block'[t] = Succ(b) /\ Succ(b) # None
      /\ \A u \in Transact \ {t} : block'[u] = block[u]
  BY <1>2, GoOnBlocks, BlockAssumption DEF DoSeize, Operate, SeizesArePaired
<1>4. owners[r] = {}
  BY <1>2 DEF BusyIsOwned
<1>5. ~Serving(t) /\ \A s \in Resource : t \notin owners[s]
  BY <1>2 DEF SeizesArePaired, Serving, OwnersServe
<1>6. \A u \in Transact : Serving(u)' <=> block'[u] # None /\ InService(block'[u])
  BY DEF Serving, InService, Passed
<1>7. Serving(t)' /\ \A u \in Transact \ {t} : Serving(u)' <=> Serving(u)
  BY <1>2, <1>3, <1>6, ServiceAfter DEF Serving
<1>8. OwnersServe'
  <2>1. ASSUME NEW s \in Resource, NEW u \in Transact
        PROVE  u \in owners'[s] <=> Serving(u)' /\ res'[u] = s
    <3>1. CASE u = t
      BY <1>1, <1>2, <1>4, <1>5, <1>7, <3>1
    <3>2. CASE u # t
      BY <1>1, <1>7, <3>2 DEF OwnersServe
    <3> QED
      BY <3>1, <3>2
  <2> QED
    BY <2>1 DEF OwnersServe
<1>9. BusyIsOwned'
  BY <1>1 DEF BusyIsOwned
<1>10. OwnersAreFew'
  BY <1>1, <1>4 DEF OwnersAreFew
<1> QED
  BY <1>8, <1>9, <1>10

LEMMA ReleaseKeepsOwners ==
  ASSUME SeizesArePaired, OwnInv, NEW b \in Block, NEW t \in waiting[b], DoRelease(b, t)
  PROVE  OwnersServe' /\ BusyIsOwned' /\ OwnersAreFew'
<1> USE DEF OwnInv, PInv, TypeOK
<1>1. PICK r \in Resource : /\ CanRelease(b, t, r)
                            /\ state' = [state EXCEPT ![r] = "free"]
                            /\ owners' = [owners EXCEPT ![r] = @ \ {t}]
                            /\ res' = res
  BY DEF DoRelease
<1>2. Op(b) = "RELEASE" /\ t \in Transact /\ block[t] = b /\ res[t] = r
  BY <1>1, ScannedApart DEF CanRelease
<1>3. /\ block'[t] = Succ(b) /\ Succ(b) # None
      /\ \A u \in Transact \ {t} : block'[u] = block[u]
  BY <1>2, GoOnBlocks, BlockAssumption DEF DoRelease, Operate, SeizesArePaired
<1>4. t \in owners[r] /\ \A s \in Resource : t \in owners[s] => s = r
  BY <1>2, BlockAssumption DEF SeizesArePaired, Serving, OwnersServe
<1>5. owners'[r] = {} /\ \A s \in Resource : s # r => owners'[s] = owners[s]
  BY <1>1, <1>4 DEF OwnersAreFew
<1>6. \A u \in Transact : Serving(u)' <=> block'[u] # None /\ InService(block'[u])
  BY DEF Serving, InService, Passed
<1>7. ~Serving(t)' /\ \A u \in Transact \ {t} : Serving(u)' <=> Serving(u)
  BY <1>2, <1>3, <1>6, ServiceAfter DEF Serving
<1>8. OwnersServe'
  <2>1. ASSUME NEW s \in Resource, NEW u \in Transact
        PROVE  u \in owners'[s] <=> Serving(u)' /\ res'[u] = s
    <3>1. CASE u = t
      BY <1>1, <1>4, <1>7, <3>1
    <3>2. CASE u # t
      BY <1>1, <1>7, <3>2 DEF OwnersServe
    <3> QED
      BY <3>1, <3>2
  <2> QED
    BY <2>1 DEF OwnersServe
<1>9. BusyIsOwned'
  BY <1>1, <1>5 DEF BusyIsOwned
<1>10. OwnersAreFew'
  BY <1>5 DEF OwnersAreFew
<1> QED
  BY <1>8, <1>9, <1>10

LEMMA OwnInvStep ==
  ASSUME SeizesArePaired, ~Breakdowns, OwnInv, [Next]_vars
  PROVE  OwnInv'
<1> USE DEF OwnInv
<1>1. PInv'
  BY PInvStep
<1>2. ASSUME NEW b \in Block, NEW t \in waiting[b], DoQueue(b, t) \/ DoDepart(b, t) \/ DoAssign(b, t)
      PROVE  OwnersServe' /\ BusyIsOwned' /\ OwnersAreFew'
  <2>1. /\ Op(b) \notin {"SEIZE", "RELEASE"} /\ UNCHANGED <<owners, res, state>>
        /\ GoOn(b, {t}, Passed(b), LostIn(Passed(b)))
    BY <1>2 DEF DoQueue, DoDepart, DoAssign, Operate
  <2>2. \A u \in {t} : block[u] = b
    BY ScannedApart
  <2>3. \A u \in Transact : Serving(u)' <=> Serving(u)
    BY <2>1, <2>2, GoOnServing
  <2> QED
    BY <2>1, <2>3, SameService
<1>3. ASSUME NEW b \in Block, NEW t \in waiting[b], DoAdvance(b, t) \/ DoTerminate(b, t)
      PROVE  OwnersServe' /\ BusyIsOwned' /\ OwnersAreFew'
  BY <1>3, NobodyMoves, SameService DEF DoAdvance, DoTerminate, GoOut
<1>4. ASSUME NEW C \in SUBSET Block, Vain(C)
      PROVE  OwnersServe' /\ BusyIsOwned' /\ OwnersAreFew'
  BY <1>4, NobodyMoves, SameService DEF Vain, GoOut
<1>5. ASSUME NEW b \in Block, NEW t \in Transact, Generate(b, t)
      PROVE  OwnersServe' /\ BusyIsOwned' /\ OwnersAreFew'
  <2>1. /\ Op(b) = "GENERATE" /\ block[t] = None /\ UNCHANGED <<owners, res, state>>
        /\ GoOn(b, {t}, {}, {})
    BY <1>5 DEF Generate
  <2>2. ~InService(b)
    BY <2>1 DEF SeizesArePaired
  <2>3. \A u \in Transact : Serving(u)' <=> Serving(u)
    BY <2>1, <2>2, GoOnServing
  <2> QED
    BY <2>1, <2>3, SameService
<1>6. ASSUME NEW b \in Block, NEW D \in SUBSET leaving[b], AdvanceEnds(b, D)
      PROVE  OwnersServe' /\ BusyIsOwned' /\ OwnersAreFew'
  <2>1. Op(b) = "ADVANCE" /\ UNCHANGED <<owners, res, state>> /\ GoOn(b, D, {}, {})
    BY <1>6 DEF AdvanceEnds
  <2>2. \A u \in D : block[u] = b
    BY DEF PInv, TypeOK, OnePlace
  <2>3. \A u \in Transact : Serving(u)' <=> Serving(u)
    BY <2>1, <2>2, GoOnServing
  <2> QED
    BY <2>1, <2>3, SameService
<1>7. ASSUME NEW p \in Process, NEW t \in Transact, ProcessStart(p, t)
      PROVE  OwnersServe' /\ BusyIsOwned' /\ OwnersAreFew'
  <2>1. /\ <<p, 1>> \in Block /\ block[t] = None
        /\ block' = [block EXCEPT ![t] = <<p, 1>>] /\ UNCHANGED <<owners, res, state>>
    BY <1>7 DEF ProcessStart
  <2>2. \A u \in Transact : Serving(u)' <=> block'[u] # None /\ InService(block'[u])
    BY DEF Serving, InService, Passed
  <2>3. \A u \in Transact : Serving(u)' <=> Serving(u)
    BY <2>1, <2>2, AtTheStart DEF Serving, PInv, TypeOK
  <2> QED
    BY <2>1, <2>3, SameService
<1>8. ASSUME NEW r \in Resource, Break(r) \/ Repair(r)
      PROVE  FALSE
  BY <1>8 DEF Break, Repair, BusyIsOwned
<1>9. ASSUME UNCHANGED vars
      PROVE  OwnersServe' /\ BusyIsOwned' /\ OwnersAreFew'
  BY <1>9, NobodyMoves, SameService DEF vars
<1> QED
  BY <1>1, <1>2, <1>3, <1>4, <1>5, <1>6, <1>7, <1>8, <1>9, ScansInVain,
     SeizeKeepsOwners, ReleaseKeepsOwners DEF Next, Scan

\* In a program that releases what it has seized before it seizes again, a resource
\* is busy exactly while one transact has it, which is the one that seized it last.
THEOREM SeizedByOne ==
  ASSUME SeizesArePaired, ~Breakdowns
  PROVE  Spec => []OneOwner
<1>1. Init => OwnInv
  <2> SUFFICES ASSUME Init PROVE OwnInv
    OBVIOUS
  <2>1. OwnersServe /\ BusyIsOwned /\ OwnersAreFew
    BY DEF Init, OwnersServe, BusyIsOwned, OwnersAreFew, Serving
  <2> QED
    BY <2>1, PInvInit DEF OwnInv
<1>2. OwnInv /\ [Next]_vars => OwnInv'
  BY OwnInvStep
<1>3. OwnInv => OneOwner
  <2> SUFFICES ASSUME OwnInv, NEW r \in Resource
               PROVE  /\ Cardinality(owners[r]) =< 1
                      /\ state[r] = "busy" <=> owners[r] # {}
                      /\ \A t \in owners[r] : res[t] = r
    BY DEF OneOwner
  <2>1. owners[r] = {} \/ \E t : owners[r] = {t}
    BY DEF OwnInv, OwnersAreFew
  <2>2. Cardinality(owners[r]) =< 1
    BY <2>1, FS_EmptySet, FS_Singleton
  <2> QED
    BY <2>2 DEF OwnInv, PInv, TypeOK, BusyIsOwned, OwnersServe
<1> QED
  BY <1>1, <1>2, <1>3, PTL DEF Spec

-----------------------------------------------------------------------------
(***************************************************************************)
(* Lengths of queues.  QUEUE and DEPART count one transact each, which is  *)
(* outside before the one and inside before the other; all others stay     *)
(* where they are, and who leaves the model is in no queue.                *)
(***************************************************************************)
Within(t, q) == t \notin erased /\ block[t] # None /\ InQueue(block[t], q)

\* Only patterns break resources.
NobodyBreaks == ~Breakdowns => \A r \in Resource : state[r] # "broken"

QueueInv == PInv /\ QueueLength /\ NobodyBreaks

LEMMA InsideIsWithin ==
  ASSUME NEW q
  PROVE  /\ Inside(q) = {t \in Transact : Within(t, q)}
         /\ Inside(q)' = {t \in Transact : Within(t, q)'}
         /\ \A t : Within(t, q)' <=>
               t \notin erased' /\ block'[t] # None /\ InQueue(block'[t], q)
<1>1. Inside(q) = {t \in Transact : Within(t, q)}
  BY DEF Inside, Within
<1>2. \A t : Within(t, q)' <=> t \notin erased' /\ block'[t] # None /\ InQueue(block'[t], q)
  BY DEF Within, InQueue, Passed
<1>3. Inside(q)' = {t \in Transact \ erased' : block'[t] # None /\ InQueue(block'[t], q)}
  BY DEF Inside, InQueue, Passed
<1> QED
  BY <1>1, <1>2, <1>3

LEMMA InsideIsFinite == \A q : IsFiniteSet(Inside(q)) /\ Cardinality(Inside(q)) \in Nat
<1>1. \A q : Inside(q) \subseteq Transact
  BY DEF Inside
<1> QED
  BY <1>1, ProcessAssumption, FS_Subset, FS_CardinalityType

\* A queue nobody enters or leaves.
LEMMA SameInside ==
  ASSUME QueueInv, NEW q \in Queue, length'[q] = length[q],
         \A t \in Transact : Within(t, q)' <=> Within(t, q)
  PROVE  length'[q] = Cardinality(Inside(q)')
<1>1. Inside(q)' = Inside(q)
  BY InsideIsWithin
<1> QED
  BY <1>1 DEF QueueInv, QueueLength

\* Who is found bad is in no queue.
LEMMA LostAreOutside ==
  ASSUME QueuesArePaired, QueueInv, NEW C \in SUBSET Block, NEW t \in LostIn(C),
         NEW q \in Queue
  PROVE  ~Within(t, q)
<1>1. PICK c \in C : ReleaseBad(c, t)
  BY DEF LostIn
<1>2. c \in Block /\ t \in waiting[c] /\ Op(c) = "RELEASE"
  BY <1>1 DEF ReleaseBad, First
<1>3. t \in Transact /\ block[t] = c
  BY <1>2 DEF QueueInv, PInv, TypeOK, OnePlace
<1>4. Breakdowns
  BY <1>1 DEF ReleaseBad, QueueInv, NobodyBreaks, PInv, TypeOK
<1> QED
  BY <1>2, <1>3, <1>4 DEF QueuesArePaired, Within

\* A step in which nobody goes on, and who is erased was in no queue.
LEMMA NobodyGoesOn ==
  ASSUME QueueInv, block' = block, NEW gone, erased' = erased \cup gone, length' = length,
         \A t \in gone : \A q \in Queue : ~Within(t, q)
  PROVE  QueueLength'
<1> SUFFICES ASSUME NEW q \in Queue PROVE length'[q] = Cardinality(Inside(q)')
  BY DEF QueueLength
<1>1. \A t \in Transact : Within(t, q)' <=> Within(t, q)
  BY InsideIsWithin DEF Within
<1> QED
  BY <1>1, SameInside

\* The transacts D go on from b, and who is erased was in no queue.
LEMMA GoOnWithin ==
  ASSUME QueuesArePaired, QueueInv, NEW b \in Block, NEW D, NEW C, NEW lost,
         GoOn(b, D, C, lost), Succ(b) \in Block, erased' = erased \cup lost,
         NEW q \in Queue,
         \A t \in D : t \notin erased /\ t \notin lost,
         \A t \in D : block[t] = b \/ (block[t] = None /\ ~InQueue(b, q)),
         \A t \in lost : ~Within(t, q)
  PROVE  /\ \A t \in Transact \ D : Within(t, q)' <=> Within(t, q)
         /\ \A t \in Transact \cap D : Within(t, q)' <=> InQueue(Succ(b), q)
         /\ \A t \in Transact \cap D : Within(t, q) <=> InQueue(b, q)
<1>1. \A t \in Transact : block'[t] = IF t \in D THEN Succ(b) ELSE block[t]
  BY GoOnBlocks DEF QueueInv
<1>2. b # None /\ Succ(b) # None
  BY BlockAssumption
<1>3. \A t : Within(t, q)' <=> t \notin erased' /\ block'[t] # None /\ InQueue(block'[t], q)
  BY InsideIsWithin
<1> QED
  BY <1>1, <1>2, <1>3 DEF Within

\* A block that is neither a QUEUE nor a DEPART.
LEMMA OtherBlocksKeepLength ==
  ASSUME QueuesArePaired, QueueInv, NEW b \in Block, NEW D, NEW C, NEW lost,
         GoOn(b, D, C, lost), erased' = erased \cup lost, length' = length,
         Op(b) \notin {"QUEUE", "DEPART"},
         \A t \in D : t \notin erased /\ t \notin lost,
         \A t \in D : block[t] = b \/ (block[t] = None /\ \A q \in Queue : ~InQueue(b, q)),
         \A t \in lost : \A q \in Queue : ~Within(t, q)
  PROVE  QueueLength'
<1>1. CASE Succ(b) \notin Block
  BY <1>1, NobodyGoesOn DEF GoOn, GoOut
<1>2. CASE Succ(b) \in Block
  <2> SUFFICES ASSUME NEW q \in Queue PROVE length'[q] = Cardinality(Inside(q)')
    BY DEF QueueLength
  <2>1. InQueue(Succ(b), q) <=> InQueue(b, q)
    BY QueueAfter
  <2>2. \A t \in Transact : Within(t, q)' <=> Within(t, q)
    BY <1>2, <2>1, GoOnWithin
  <2> QED
    BY <2>2, SameInside
<1> QED
  BY <1>1, <1>2

LEMMA QueueKeepsLength ==
  ASSUME QueuesArePaired, QueueInv, NEW b \in Block, NEW t \in waiting[b], DoQueue(b, t)
  PROVE  QueueLength'
<1> DEFINE lost == LostIn(Passed(b))
           q == For(b)[1]
<1>1. /\ Op(b) = "QUEUE" /\ GoOn(b, {t}, Passed(b), lost) /\ erased' = erased \cup lost
      /\ length' = [length EXCEPT ![q] = @ + 1]
  BY DEF DoQueue, Operate
<1>2. t \in Transact /\ t \notin erased /\ t \notin lost /\ block[t] = b
  BY ScannedApart DEF QueueInv
<1>3. q \in Queue /\ Succ(b) \in Block
  <2>1. For(b) \in {<<s>> : s \in Queue}
    BY <1>1, BlockOfProgram DEF Op, For, BlockType
  <2> QED
    BY <1>1, <2>1 DEF QueuesArePaired
<1>4. \A u \in lost : \A s \in Queue : ~Within(u, s)
  BY ScannedApart, LostAreOutside DEF QueueInv
<1> HIDE DEF lost, q
<1>5. ASSUME NEW s \in Queue, s # q
      PROVE  length'[s] = Cardinality(Inside(s)')
  <2>1. InQueue(Succ(b), s) <=> InQueue(b, s)
    BY <1>5, QueueAfter DEF q
  <2>2. \A u \in Transact : Within(u, s)' <=> Within(u, s)
    BY <1>1, <1>2, <1>3, <1>4, <2>1, GoOnWithin
  <2>3. length'[s] = length[s]
    BY <1>1, <1>5 DEF QueueInv, PInv, TypeOK
  <2> QED
    BY <2>2, <2>3, SameInside
<1>6. length'[q] = Cardinality(Inside(q)')
  <2>1. ~InQueue(b, q) /\ InQueue(Succ(b), q)
    BY <1>1, <1>3, QueueAfter DEF q
  <2>2. /\ \A u \in Transact \ {t} : Within(u, q)' <=> Within(u, q)
        /\ Within(t, q)' /\ ~Within(t, q)
    BY <1>1, <1>2, <1>3, <1>4, <2>1, GoOnWithin
  <2>3. Inside(q)' = Inside(q) \cup {t} /\ t \notin Inside(q)
    BY <1>2, <2>2, InsideIsWithin
  <2>4. length[q] = Cardinality(Inside(q)) /\ length[q] \in Int
    BY <1>3 DEF QueueInv, QueueLength, PInv, TypeOK
  <2>5. Cardinality(Inside(q) \cup {t}) = Cardinality(Inside(q)) + 1
    BY <2>3, InsideIsFinite, FS_AddElement
  <2> QED
    BY <1>1, <1>3, <2>3, <2>4, <2>5 DEF QueueInv, PInv, TypeOK
<1> QED
  BY <1>5, <1>6 DEF QueueLength

LEMMA DepartKeepsLength ==
  ASSUME QueuesArePaired, QueueInv, NEW b \in Block, NEW t \in waiting[b], DoDepart(b, t)
  PROVE  QueueLength'
<1> DEFINE lost == LostIn(Passed(b))
           q == For(b)[1]
<1>1. /\ Op(b) = "DEPART" /\ GoOn(b, {t}, Passed(b), lost) /\ erased' = erased \cup lost
      /\ length' = [length EXCEPT ![q] = @ - 1]
  BY DEF DoDepart, Operate
<1>2. t \in Transact /\ t \notin erased /\ t \notin lost /\ block[t] = b
  BY ScannedApart DEF QueueInv
<1>3. q \in Queue /\ Succ(b) \in Block
  <2>1. For(b) \in {<<s>> : s \in Queue}
    BY <1>1, BlockOfProgram DEF Op, For, BlockType
  <2> QED
    BY <1>1, <2>1 DEF QueuesArePaired
<1>4. \A u \in lost : \A s \in Queue : ~Within(u, s)
  BY ScannedApart, LostAreOutside DEF QueueInv
<1> HIDE DEF lost, q
<1>5. ASSUME NEW s \in Queue, s # q
      PROVE  length'[s] = Cardinality(Inside(s)')
  <2>1. InQueue(Succ(b), s) <=> InQueue(b, s)
    BY <1>5, QueueAfter DEF q
  <2>2. \A u \in Transact : Within(u, s)' <=> Within(u, s)
    BY <1>1, <1>2, <1>3, <1>4, <2>1, GoOnWithin
  <2>3. length'[s] = length[s]
    BY <1>1, <1>5 DEF QueueInv, PInv, TypeOK
  <2> QED
    BY <2>2, <2>3, SameInside
<1>6. length'[q] = Cardinality(Inside(q)')
  <2>1. InQueue(b, q) /\ ~InQueue(Succ(b), q)
    BY <1>1, <1>3, QueueAfter DEF q
  <2>2. /\ \A u \in Transact \ {t} : Within(u, q)' <=> Within(u, q)
        /\ ~Within(t, q)' /\ Within(t, q)
    BY <1>1, <1>2, <1>3, <1>4, <2>1, GoOnWithin
  <2>3. Inside(q)' = Inside(q) \ {t} /\ t \in Inside(q)
    BY <1>2, <2>2, InsideIsWithin
  <2>4. length[q] = Cardinality(Inside(q)) /\ length[q] \in Int
    BY <1>3 DEF QueueInv, QueueLength, PInv, TypeOK
  <2>5. Cardinality(Inside(q) \ {t}) = Cardinality(Inside(q)) - 1
    BY <2>3, InsideIsFinite, FS_RemoveElement
  <2> QED
    BY <1>1, <1>3, <2>3, <2>4, <2>5 DEF QueueInv, PInv, TypeOK
<1> QED
  BY <1>5, <1>6 DEF QueueLength

LEMMA QueueInvStep ==
  ASSUME QueuesArePaired, QueueInv, [Next]_vars
  PROVE  QueueInv'
<1> USE DEF QueueInv
<1>1. PInv'
  BY PInvStep
<1>2. NobodyBreaks'
  BY DEF PInv, TypeOK, NobodyBreaks, Next, Scan, vars, DoQueue, DoDepart, DoSeize, DoRelease,
         DoAssign, DoAdvance, DoTerminate, Vain, ScanInVain, ScanCutShort, Generate, AdvanceEnds, ProcessStart,
         Break, Repair
<1>3. ASSUME NEW b \in Block, NEW t \in waiting[b],
             DoSeize(b, t) \/ DoRelease(b, t) \/ DoAssign(b, t)
      PROVE  QueueLength'
  <2>1. /\ Op(b) \notin {"QUEUE", "DEPART"} /\ length' = length
        /\ GoOn(b, {t}, Passed(b), LostIn(Passed(b)))
        /\ erased' = erased \cup LostIn(Passed(b))
    BY <1>3 DEF DoSeize, DoRelease, DoAssign, Operate, CanSeize, CanRelease
  <2>2. t \notin erased /\ t \notin LostIn(Passed(b)) /\ block[t] = b
    BY ScannedApart
  <2>3. \A u \in LostIn(Passed(b)) : \A q \in Queue : ~Within(u, q)
    BY ScannedApart, LostAreOutside
  <2> QED
    BY <2>1, <2>2, <2>3, OtherBlocksKeepLength
<1>4. ASSUME NEW b \in Block, NEW t \in waiting[b], DoAdvance(b, t) \/ DoTerminate(b, t)
      PROVE  QueueLength'
  <2>1. \A u \in LostIn(Passed(b)) : \A q \in Queue : ~Within(u, q)
    BY ScannedApart, LostAreOutside
  <2>2. CASE DoAdvance(b, t)
    BY <2>1, <2>2, NobodyGoesOn DEF DoAdvance, GoOut
  <2>3. CASE DoTerminate(b, t)
    <3>1. \A q \in Queue : ~Within(t, q)
      BY <2>3, ScannedApart DEF DoTerminate, QueuesArePaired, Within
    <3>2. \A u \in LostIn(Passed(b)) \cup {t} : \A q \in Queue : ~Within(u, q)
      BY <2>1, <3>1
    <3>3. /\ erased' = erased \cup (LostIn(Passed(b)) \cup {t})
          /\ block' = block /\ length' = length
      BY <2>3 DEF DoTerminate, GoOut
    <3> QED
      BY <3>2, <3>3, NobodyGoesOn
  <2> QED
    BY <1>4, <2>2, <2>3
<1>5. ASSUME NEW C \in SUBSET Block, Vain(C)
      PROVE  QueueLength'
  <2>1. block' = block /\ length' = length /\ erased' = erased \cup LostIn(C)
    BY <1>5 DEF Vain, GoOut
  <2> QED
    BY <2>1, LostAreOutside, NobodyGoesOn
<1>6. ASSUME NEW b \in Block, NEW t \in Transact, Generate(b, t)
      PROVE  QueueLength'
  <2>1. /\ Op(b) = "GENERATE" /\ block[t] = None /\ length' = length /\ erased' = erased \cup {}
        /\ GoOn(b, {t}, {}, {})
    BY <1>6 DEF Generate
  <2>2. t \notin erased /\ \A q \in Queue : ~InQueue(b, q)
    BY <2>1 DEF QueuesArePaired, PInv, ErasedWereCreated
  <2> QED
    BY <2>1, <2>2, OtherBlocksKeepLength
<1>7. ASSUME NEW b \in Block, NEW D \in SUBSET leaving[b], AdvanceEnds(b, D)
      PROVE  QueueLength'
  <2>1. /\ Op(b) = "ADVANCE" /\ length' = length /\ erased' = erased \cup {}
        /\ GoOn(b, D, {}, {})
    BY <1>7 DEF AdvanceEnds
  <2>2. \A u \in D : u \notin erased /\ block[u] = b
    BY DEF PInv, TypeOK, OnePlace
  <2> QED
    BY <2>1, <2>2, OtherBlocksKeepLength
<1>8. ASSUME NEW p \in Process, NEW t \in Transact, ProcessStart(p, t)
      PROVE  QueueLength'
  <2>1. /\ <<p, 1>> \in Block /\ block[t] = None /\ block' = [block EXCEPT ![t] = <<p, 1>>]
        /\ length' = length /\ erased' = erased
    BY <1>8 DEF ProcessStart
  <2> SUFFICES ASSUME NEW q \in Queue PROVE length'[q] = Cardinality(Inside(q)')
    BY DEF QueueLength
  <2>2. \A u \in Transact : Within(u, q)' <=> Within(u, q)
    BY <2>1, AtTheStart, InsideIsWithin DEF Within, PInv, TypeOK
  <2> QED
    BY <2>1, <2>2, SameInside
<1>9. ASSUME UNCHANGED <<block, erased, length>>
      PROVE  QueueLength'
  <2> DEFINE gone == {}
  <2>1. /\ erased' = erased \cup gone /\ block' = block /\ length' = length
        /\ \A t \in gone : \A q \in Queue : ~Within(t, q)
    BY <1>9
  <2> HIDE DEF gone
  <2> QED
    BY <2>1, NobodyGoesOn
<1>10. QueueLength'
  BY <1>3, <1>4, <1>5, <1>6, <1>7, <1>8, <1>9, ScansInVain,
     QueueKeepsLength, DepartKeepsLength DEF Next, Scan, Break, Repair, vars
<1> QED
  BY <1>1, <1>2, <1>10

\* In a program that departs from a queue once after it has queued, the length of the
\* queue is the number of transacts in between.
THEOREM QueuesAreCounted ==
  ASSUME QueuesArePaired
  PROVE  Spec => []QueueLength
<1>1. Init => QueueInv
  <2> SUFFICES ASSUME Init PROVE QueueInv
    OBVIOUS
  <2>1. \A q : Inside(q) = {}
    BY DEF Init, Inside
  <2>2. QueueLength
    BY <2>1, FS_EmptySet DEF Init, QueueLength
  <2>3. NobodyBreaks
    BY DEF Init, NobodyBreaks
  <2> QED
    BY <2>2, <2>3, PInvInit DEF QueueInv
<1>2. QueueInv /\ [Next]_vars => QueueInv'
  BY QueueInvStep
<1>3. QueueInv => QueueLength
  BY DEF QueueInv
<1> QED
  BY <1>1, <1>2, <1>3, PTL DEF Spec
=============================================================================
