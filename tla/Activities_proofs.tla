------------------------- MODULE Activities_proofs -------------------------
(***************************************************************************)
(* Proofs about the activities, for all patterns, decision points and      *)
(* bounds.                                                                 *)
(***************************************************************************)
EXTENDS Activities, NatSets, FiniteSetTheorems, SequenceTheorems

(***************************************************************************)
(* A pass over the relevant resources of an activity goes through one      *)
(* state after each of them.                                               *)
(***************************************************************************)
LEMMA PassSteps ==
  ASSUME NEW pass, NEW s, NEW a, NEW p, Len(Pattern[a].rel) \in Nat
  PROVE  \E f : /\ f[0] = s
                /\ \A i \in 1..Len(Pattern[a].rel) :
                     f[i] = IF f[i - 1].ok THEN Do(pass, f[i - 1], a, i, p) ELSE f[i - 1]
                /\ Pass(pass, s, a, p) = f[Len(Pattern[a].rel)]
<1> DEFINE n == Len(Pattern[a].rel)
           Upto(k, g) == g = [i \in 0..k |-> IF i = 0 THEN s
                                ELSE IF g[i - 1].ok THEN Do(pass, g[i - 1], a, i, p) ELSE g[i - 1]]
           S == {k \in 0..n : \E g : Upto(k, g)}
<1>1. 0 \in S
  <2> DEFINE g == [i \in 0..0 |-> s]
  <2>1. Upto(0, g)
    OBVIOUS
  <2> HIDE DEF Upto, g
  <2> QED
    BY <2>1
<1>2. ASSUME NEW k \in 1..n, k - 1 \in S
      PROVE  k \in S
  <2>1. PICK g : Upto(k - 1, g)
    BY <1>2
  <2> DEFINE h == [i \in 0..k |-> IF i < k THEN g[i]
                     ELSE IF g[k - 1].ok THEN Do(pass, g[k - 1], a, k, p) ELSE g[k - 1]]
  <2>2. ASSUME NEW i \in 0..k
        PROVE  h[i] = IF i = 0 THEN s
                      ELSE IF h[i - 1].ok THEN Do(pass, h[i - 1], a, i, p) ELSE h[i - 1]
    <3>1. CASE i = k
      BY <3>1
    <3>2. CASE i \in 0..(k - 1)
      <4>1. g[i] = IF i = 0 THEN s
                   ELSE IF g[i - 1].ok THEN Do(pass, g[i - 1], a, i, p) ELSE g[i - 1]
        BY <2>1, <3>2
      <4>2. h[i] = g[i] /\ (i # 0 => h[i - 1] = g[i - 1])
        BY <3>2
      <4> QED
        BY <4>1, <4>2
    <3> QED
      BY <3>1, <3>2
  <2>3. Upto(k, h)
    BY <2>2
  <2> HIDE DEF Upto, h
  <2> QED
    BY <2>3
<1>3. n \in S
  <2>1. n \in Nat
    OBVIOUS
  <2> HIDE DEF S, n
  <2>2. 0..n \subseteq S
    BY <1>1, <1>2, <2>1, UpTo
  <2> QED
    BY <2>1, <2>2
<1> DEFINE after == CHOOSE g : Upto(n, g)
<1>4. Upto(n, after)
  BY <1>3
<1>5. Pass(pass, s, a, p) = after[n]
  BY DEF Pass
<1>6. /\ after[0] = s
      /\ \A i \in 1..n :
           after[i] = IF after[i - 1].ok THEN Do(pass, after[i - 1], a, i, p) ELSE after[i - 1]
  <2> HIDE DEF after
  <2> QED
    BY <1>4
<1> HIDE DEF after
<1> QED
  BY <1>5, <1>6

-----------------------------------------------------------------------------
(***************************************************************************)
(* Sequences.                                                              *)
(***************************************************************************)
LEMMA AppendIs ==
  ASSUME NEW S, NEW s \in Seq(S), NEW x \in S
  PROVE  /\ Append(s, x) \in Seq(S) /\ Len(Append(s, x)) = Len(s) + 1
         /\ \A j \in 1..Len(s) : Append(s, x)[j] = s[j]
         /\ Append(s, x)[Len(s) + 1] = x
         /\ Range(Append(s, x)) = Range(s) \cup {x}
         /\ IsInjective(s) /\ x \notin Range(s) => IsInjective(Append(s, x))
<1>1. /\ Append(s, x) \in Seq(S) /\ Len(Append(s, x)) = Len(s) + 1
      /\ \A j \in 1..Len(s) : Append(s, x)[j] = s[j]
      /\ Append(s, x)[Len(s) + 1] = x
  OBVIOUS
<1> DEFINE t == Append(s, x)
<1>2. DOMAIN t = 1..(Len(s) + 1) /\ DOMAIN s = 1..Len(s) /\ Len(s) \in Nat
  BY <1>1
<1> HIDE DEF t
<1>3. \A j \in DOMAIN t : t[j] = IF j \in DOMAIN s THEN s[j] ELSE x
  BY <1>1, <1>2 DEF t
<1>4. Range(t) = Range(s) \cup {x}
  BY <1>2, <1>3 DEF Range
<1>5. IsInjective(s) /\ x \notin Range(s) => IsInjective(t)
  BY <1>2, <1>3 DEF Range, IsInjective
<1> QED
  BY <1>1, <1>4, <1>5 DEF t

LEMMA FrontIs ==
  ASSUME NEW S, NEW s \in Seq(S), s # <<>>
  PROVE  /\ Front(s) \in Seq(S) /\ Last(s) \in S
         /\ IsInjective(s) => /\ IsInjective(Front(s)) /\ Last(s) \notin Range(Front(s))
                              /\ Range(Front(s)) = Range(s) \ {Last(s)}
<1>0. Len(s) \in Nat \ {0} /\ DOMAIN s = 1..Len(s)
  OBVIOUS
<1>1. /\ Front(s) \in Seq(S) /\ Len(Front(s)) = Len(s) - 1
      /\ \A j \in 1..(Len(s) - 1) : Front(s)[j] = s[j]
      /\ Len(s) \in Nat \ {0} /\ DOMAIN s = 1..Len(s)
  BY <1>0, SubSeqProperties DEF Front
<1>2. Last(s) = s[Len(s)] /\ Last(s) \in S
  BY <1>1 DEF Last
<1>3. DOMAIN Front(s) = 1..(Len(s) - 1)
  BY <1>1
<1>4. ASSUME IsInjective(s)
      PROVE  /\ IsInjective(Front(s)) /\ Last(s) \notin Range(Front(s))
             /\ Range(Front(s)) = Range(s) \ {Last(s)}
  BY <1>1, <1>2, <1>3, <1>4 DEF IsInjective, Range
<1> QED
  BY <1>1, <1>2, <1>4

LEMMA RemoveAtIs ==
  ASSUME NEW S, NEW s \in Seq(S), NEW i \in DOMAIN s, IsInjective(s)
  PROVE  /\ RemoveAt(s, i) \in Seq(S)
         /\ Range(RemoveAt(s, i)) = Range(s) \ {s[i]}
         /\ IsInjective(RemoveAt(s, i))
<1> DEFINE t == RemoveAt(s, i)
<1>1. i \in 1..Len(s) /\ Len(s) \in Nat /\ DOMAIN s = 1..Len(s)
  OBVIOUS
<1> DEFINE u == SubSeq(s, 1, i - 1)
           v == SubSeq(s, i + 1, Len(s))
<1>2. u \in Seq(S) /\ Len(u) = i - 1 /\ \A j \in 1..(i - 1) : u[j] = s[j]
  BY <1>1, SubSeqProperties
<1>3. v \in Seq(S) /\ Len(v) = Len(s) - i /\ \A j \in 1..(Len(s) - i) : v[j] = s[i + j]
  BY <1>1, SubSeqProperties
<1>4. /\ t \in Seq(S) /\ Len(t) = Len(s) - 1
      /\ \A j \in 1..(Len(s) - 1) : t[j] = IF j < i THEN s[j] ELSE s[j + 1]
  <2>1. t = u \o v
    BY DEF RemoveAt
  <2> HIDE DEF t, u, v
  <2>2. /\ u \o v \in Seq(S) /\ Len(u \o v) = Len(u) + Len(v)
        /\ \A j \in 1..(Len(u) + Len(v)) :
             (u \o v)[j] = IF j <= Len(u) THEN u[j] ELSE v[j - Len(u)]
    BY <1>2, <1>3, ConcatProperties
  <2>3. t \in Seq(S) /\ Len(t) = Len(s) - 1
    BY <1>1, <1>2, <1>3, <2>1, <2>2
  <2>4. ASSUME NEW j \in 1..(Len(s) - 1)
        PROVE  t[j] = IF j < i THEN s[j] ELSE s[j + 1]
    <3>1. t[j] = IF j <= Len(u) THEN u[j] ELSE v[j - Len(u)]
      BY <1>1, <1>2, <1>3, <2>1, <2>2
    <3>2. CASE j < i
      BY <1>1, <1>2, <3>1, <3>2
    <3>3. CASE ~ (j < i)
      <4>1. j - Len(u) \in 1..(Len(s) - i) /\ i + (j - Len(u)) = j + 1 /\ ~ (j <= Len(u))
        BY <1>1, <1>2, <3>3
      <4> QED
        BY <1>3, <3>1, <3>3, <4>1
    <3> QED
      BY <3>2, <3>3
  <2> QED
    BY <2>3, <2>4
<1>5. DOMAIN t = 1..(Len(s) - 1)
  BY <1>4
<1> HIDE DEF t
<1>6. \A j \in DOMAIN t : t[j] \in Range(s) \ {s[i]}
  BY <1>1, <1>4, <1>5 DEF Range, IsInjective
<1>7. ASSUME NEW k \in DOMAIN s, k # i
      PROVE  \E j \in DOMAIN t : t[j] = s[k]
  <2>1. CASE k < i
    BY <1>1, <1>4, <1>5, <2>1
  <2>2. CASE k > i
    <3>1. k - 1 \in DOMAIN t /\ t[k - 1] = s[k]
      BY <1>1, <1>4, <1>5, <2>2
    <3> QED
      BY <3>1
  <2> QED
    BY <1>1, <1>7, <2>1, <2>2
<1>8. Range(t) = Range(s) \ {s[i]}
  BY <1>6, <1>7 DEF Range
<1>9. IsInjective(t)
  <2> SUFFICES ASSUME NEW j \in DOMAIN t, NEW k \in DOMAIN t, t[j] = t[k]
               PROVE  j = k
    BY DEF IsInjective
  <2> DEFINE from(x) == IF x < i THEN x ELSE x + 1
  <2>1. /\ j \in Int /\ k \in Int /\ from(j) \in DOMAIN s /\ from(k) \in DOMAIN s
        /\ t[j] = s[from(j)] /\ t[k] = s[from(k)]
    BY <1>1, <1>4, <1>5
  <2>2. from(j) = from(k)
    BY <2>1 DEF IsInjective
  <2> QED
    BY <1>1, <2>1, <2>2
<1> QED
  BY <1>4, <1>8, <1>9 DEF t

-----------------------------------------------------------------------------
(***************************************************************************)
(* The resources.  Whatever a pass does, the numbers agree, no count       *)
(* changes, and a resource that somebody counts stays.                     *)
(***************************************************************************)
GoodModel(m) ==
  /\ m.next \in Nat /\ m \in Model(m.next)
  /\ IsInjective(m.list) /\ IsInjective(m.free)
  /\ \A r \in 0..(m.next - 1) :
        /\ r \in Range(m.list) <=> m.val[r] # None
        /\ r \in Range(m.free) <=> m.val[r] = None
        /\ m.val[r] = None => m.refs[r] = 0
  /\ Range(m.list) \subseteq 0..(m.next - 1)
  /\ Range(m.free) \subseteq 0..(m.next - 1)

Counts(m, r) == IF r \in DOMAIN m.refs THEN m.refs[r] ELSE 0

Keeps(m, n) ==
  /\ m.next =< n.next
  /\ \A r \in DOMAIN n.refs : n.refs[r] = Counts(m, r)
  /\ \A r \in DOMAIN m.val : Exists(m, r) /\ m.refs[r] > 0 => Exists(n, r)

LEMMA KeepsItself ==
  ASSUME NEW m, GoodModel(m)
  PROVE  Keeps(m, m)
BY DEF GoodModel, Keeps, Counts, Model

LEMMA KeepsOn ==
  ASSUME NEW m, NEW n, NEW o, GoodModel(m), GoodModel(n), GoodModel(o),
         Keeps(m, n), Keeps(n, o)
  PROVE  Keeps(m, o)
<1>1. m.next =< o.next
  BY DEF Keeps, GoodModel
<1>2. /\ DOMAIN m.val = 0..(m.next - 1) /\ DOMAIN m.refs = 0..(m.next - 1)
      /\ DOMAIN n.val = 0..(n.next - 1) /\ DOMAIN n.refs = 0..(n.next - 1)
      /\ m.next \in Nat /\ n.next \in Nat
  BY DEF GoodModel, Model
<1>3. \A r \in DOMAIN o.refs : o.refs[r] = Counts(m, r)
  <2> SUFFICES ASSUME NEW r \in DOMAIN o.refs PROVE o.refs[r] = Counts(m, r)
    OBVIOUS
  <2>1. o.refs[r] = Counts(n, r)
    BY DEF Keeps
  <2>2. CASE r \in DOMAIN n.refs
    BY <2>1, <2>2 DEF Keeps, Counts
  <2>3. CASE r \notin DOMAIN n.refs
    BY <1>2, <2>1, <2>3 DEF Keeps, Counts
  <2> QED
    BY <2>2, <2>3
<1>4. \A r \in DOMAIN m.val : Exists(m, r) /\ m.refs[r] > 0 => Exists(o, r)
  <2> SUFFICES ASSUME NEW r \in DOMAIN m.val, Exists(m, r), m.refs[r] > 0 PROVE Exists(o, r)
    OBVIOUS
  <2>1. Exists(n, r) /\ r \in DOMAIN n.val
    BY DEF Keeps, Exists
  <2>2. n.refs[r] = m.refs[r]
    BY <1>2, <2>1 DEF Keeps, Counts
  <2> QED
    BY <2>1, <2>2 DEF Keeps
<1> QED
  BY <1>1, <1>3, <1>4 DEF Keeps

LEMMA SetKeeps ==
  ASSUME NEW m, GoodModel(m), NEW r, Exists(m, r), NEW v \in Value
  PROVE  LET n == [m EXCEPT !.val[r] = v] IN GoodModel(n) /\ Keeps(m, n)
<1> DEFINE n == [m EXCEPT !.val[r] = v]
<1>1. r \in 0..(m.next - 1) /\ v # None /\ m.val[r] # None
  BY ActivitiesAssumption DEF GoodModel, Model, Exists
<1>2. /\ n \in Model(m.next) /\ n.next = m.next /\ n.list = m.list /\ n.free = m.free
      /\ n.refs = m.refs /\ n.val = [m.val EXCEPT ![r] = v]
  BY DEF GoodModel, Model
<1>3. DOMAIN m.val = 0..(m.next - 1) /\ DOMAIN m.refs = 0..(m.next - 1) /\ DOMAIN n.val = DOMAIN m.val
  BY <1>2 DEF GoodModel, Model
<1>4. \A s \in 0..(m.next - 1) : n.val[s] = None <=> m.val[s] = None
  BY <1>1, <1>2, <1>3
<1> HIDE DEF n
<1>5. GoodModel(n)
  BY <1>2, <1>4 DEF GoodModel
<1>6. Keeps(m, n)
  BY <1>2, <1>3, <1>4 DEF Keeps, Counts, Exists, GoodModel
<1> QED
  BY <1>5, <1>6 DEF n

LEMMA CreateKeeps ==
  ASSUME NEW m, GoodModel(m), NEW v \in Value
  PROVE  LET n == CreateRes(m, v) IN GoodModel(n) /\ Keeps(m, n) /\ NewId(m) \in Nat
<1> DEFINE n == CreateRes(m, v)
           r == NewId(m)
           grown == DOMAIN m.val \cup 0..r
<1>1. /\ m.next \in Nat /\ m.list \in Seq(Nat) /\ m.free \in Seq(Nat)
      /\ m.val \in [0..(m.next - 1) -> Value \cup {None}]
      /\ m.refs \in [0..(m.next - 1) -> Nat]
      /\ v # None
  BY ActivitiesAssumption DEF GoodModel, Model
<1>2. /\ n.list = Append(m.list, r)
      /\ n.val = [s \in grown |-> IF s = r THEN v ELSE IF s \in DOMAIN m.val THEN m.val[s] ELSE None]
      /\ n.refs = [s \in grown |-> IF s # r /\ s \in DOMAIN m.refs THEN m.refs[s] ELSE 0]
      /\ n.free = IF m.free = <<>> THEN <<>> ELSE Front(m.free)
      /\ n.next = IF m.free = <<>> THEN m.next + 1 ELSE m.next
      /\ n = [list |-> n.list, val |-> n.val, refs |-> n.refs, free |-> n.free, next |-> n.next]
  BY DEF CreateRes
\* The number is new or free.
<1>3. /\ r \in Nat /\ r \notin Range(m.list) /\ grown = 0..(n.next - 1) /\ n.next \in Nat
      /\ m.next =< n.next /\ r < n.next
      /\ r \in 0..(m.next - 1) => m.val[r] = None /\ m.refs[r] = 0
      /\ n.free \in Seq(Nat) /\ IsInjective(n.free) /\ Range(n.free) = Range(m.free) \ {r}
      /\ n.next = m.next \/ (n.next = m.next + 1 /\ r = m.next)
  <2>1. CASE m.free = <<>>
    <3>1. r = m.next /\ n.next = m.next + 1 /\ n.free = <<>> /\ m.free = <<>>
      BY <1>2, <2>1 DEF NewId
    <3>2. Range(<<>>) = {} /\ IsInjective(<<>>) /\ <<>> \in Seq(Nat)
      BY DEF Range, IsInjective
    <3>3. r \notin Range(m.list)
      BY <1>1, <3>1 DEF GoodModel
    <3> HIDE DEF n, r
    <3>4. grown = 0..(n.next - 1)
      BY <1>1, <3>1
    <3> QED
      BY <1>1, <3>1, <3>2, <3>3, <3>4
  <2>2. CASE m.free # <<>>
    <3>1. r = Last(m.free) /\ n.next = m.next /\ n.free = Front(m.free)
      BY <1>2, <2>2 DEF NewId
    <3>2. r \in Range(m.free)
      BY <1>1, <2>2, <3>1 DEF Last, Range
    <3> HIDE DEF n, r
    <3>3. n.free \in Seq(Nat) /\ IsInjective(n.free) /\ Range(n.free) = Range(m.free) \ {r}
      <4>1. IsInjective(m.free)
        BY DEF GoodModel
      <4>2. /\ Front(m.free) \in Seq(Nat) /\ IsInjective(Front(m.free))
            /\ Range(Front(m.free)) = Range(m.free) \ {Last(m.free)}
        BY <1>1, <2>2, <4>1, FrontIs
      <4> QED
        BY <3>1, <4>2
    <3>4. r \in 0..(m.next - 1) /\ m.val[r] = None /\ m.refs[r] = 0 /\ r \notin Range(m.list)
      BY <3>2 DEF GoodModel
    <3>5. grown = 0..(n.next - 1)
      BY <1>1, <3>1, <3>4
    <3> QED
      BY <1>1, <3>1, <3>3, <3>4, <3>5
  <2> QED
    BY <2>1, <2>2
<1> HIDE DEF n, r
<1>4. n.list \in Seq(Nat) /\ IsInjective(n.list) /\ Range(n.list) = Range(m.list) \cup {r}
  <2>1. m.list \in Seq(Nat) /\ r \in Nat /\ r \notin Range(m.list) /\ IsInjective(m.list)
    BY <1>1, <1>3 DEF GoodModel
  <2>2. /\ Append(m.list, r) \in Seq(Nat) /\ IsInjective(Append(m.list, r))
        /\ Range(Append(m.list, r)) = Range(m.list) \cup {r}
    BY <2>1, AppendIs
  <2> QED
    BY <1>2, <2>2
<1>5. n \in Model(n.next)
  <2>1. n.val \in [0..(n.next - 1) -> Value \cup {None}]
    BY <1>1, <1>2, <1>3
  <2>2. n.refs \in [0..(n.next - 1) -> Nat]
    BY <1>1, <1>2, <1>3
  <2> QED
    BY <1>2, <1>3, <1>4, <2>1, <2>2 DEF Model
<1>6. ASSUME NEW s \in 0..(n.next - 1)
      PROVE  /\ s \in Range(n.list) <=> n.val[s] # None
             /\ s \in Range(n.free) <=> n.val[s] = None
             /\ n.val[s] = None => n.refs[s] = 0
             /\ n.refs[s] = Counts(m, s)
  <2>1. CASE s = r
    BY <1>1, <1>2, <1>3, <1>4, <2>1 DEF Counts
  <2>2. CASE s # r
    <3>1. s \in 0..(m.next - 1)
      BY <1>1, <1>3, <2>2
    <3>2. n.val[s] = m.val[s] /\ n.refs[s] = m.refs[s]
      BY <1>1, <1>2, <1>3, <2>2, <3>1
    <3> QED
      BY <1>1, <1>3, <1>4, <2>2, <3>1, <3>2 DEF GoodModel, Counts
  <2> QED
    BY <2>1, <2>2
<1>7. Range(n.list) \subseteq 0..(n.next - 1) /\ Range(n.free) \subseteq 0..(n.next - 1)
  BY <1>1, <1>3, <1>4 DEF GoodModel
<1>8. GoodModel(n)
  BY <1>3, <1>4, <1>5, <1>6, <1>7 DEF GoodModel
<1>9. Keeps(m, n)
  <2>1. DOMAIN n.refs = 0..(n.next - 1) /\ DOMAIN n.val = 0..(n.next - 1)
    BY <1>2, <1>3
  <2>2. \A s \in DOMAIN m.val : m.val[s] # None => s \in DOMAIN n.val /\ n.val[s] # None
    BY <1>1, <1>2, <1>3
  <2> QED
    BY <1>3, <1>6, <2>1, <2>2 DEF Keeps, Exists
<1> QED
  BY <1>3, <1>8, <1>9 DEF n, r

LEMMA EraseKeeps ==
  ASSUME NEW m, GoodModel(m), NEW r, Erasable(m, r)
  PROVE  LET n == EraseRes(m, r) IN GoodModel(n) /\ Keeps(m, n)
<1> DEFINE n == EraseRes(m, r)
           i == CHOOSE j \in DOMAIN m.list : m.list[j] = r
<1>1. /\ m.next \in Nat /\ m.list \in Seq(Nat) /\ m.free \in Seq(Nat)
      /\ m.val \in [0..(m.next - 1) -> Value \cup {None}]
      /\ m.refs \in [0..(m.next - 1) -> Nat]
  BY DEF GoodModel, Model
<1>2. r \in 0..(m.next - 1) /\ m.val[r] # None /\ m.refs[r] = 0
  BY <1>1 DEF Erasable, Exists
<1>3. i \in DOMAIN m.list /\ m.list[i] = r
  BY <1>2 DEF GoodModel, Range
<1>4. /\ n.list = RemoveAt(m.list, i) /\ n.val = [m.val EXCEPT ![r] = None]
      /\ n.free = Append(m.free, r) /\ n.refs = m.refs /\ n.next = m.next
      /\ n = [list |-> n.list, val |-> n.val, refs |-> n.refs, free |-> n.free, next |-> n.next]
  <2>1. m = [list |-> m.list, val |-> m.val, refs |-> m.refs, free |-> m.free, next |-> m.next]
    BY DEF GoodModel, Model
  <2> HIDE DEF i
  <2>2. n = [m EXCEPT !.list = RemoveAt(m.list, i), !.val = [m.val EXCEPT ![r] = None],
                      !.free = Append(m.free, r)]
    BY <2>1 DEF EraseRes, i
  <2> HIDE DEF n
  <2> QED
    BY <2>1, <2>2
<1> HIDE DEF n, i
<1>5. n.list \in Seq(Nat) /\ IsInjective(n.list) /\ Range(n.list) = Range(m.list) \ {r}
  BY <1>1, <1>3, <1>4, RemoveAtIs DEF GoodModel
<1>6. n.free \in Seq(Nat) /\ IsInjective(n.free) /\ Range(n.free) = Range(m.free) \cup {r}
  <2>1. m.free \in Seq(Nat) /\ r \in Nat /\ r \notin Range(m.free) /\ IsInjective(m.free)
    BY <1>1, <1>2 DEF GoodModel
  <2>2. /\ Append(m.free, r) \in Seq(Nat) /\ IsInjective(Append(m.free, r))
        /\ Range(Append(m.free, r)) = Range(m.free) \cup {r}
    BY <2>1, AppendIs
  <2> QED
    BY <1>4, <2>2
<1>7. n \in Model(n.next)
  BY <1>1, <1>4, <1>5, <1>6 DEF Model
<1>8. ASSUME NEW s \in 0..(m.next - 1)
      PROVE  /\ s \in Range(n.list) <=> n.val[s] # None
             /\ s \in Range(n.free) <=> n.val[s] = None
             /\ n.val[s] = None => n.refs[s] = 0
             /\ n.val[s] = None <=> m.val[s] = None \/ s = r
  BY <1>1, <1>2, <1>4, <1>5, <1>6 DEF GoodModel
<1>9. GoodModel(n)
  BY <1>1, <1>2, <1>4, <1>5, <1>6, <1>7, <1>8 DEF GoodModel
<1>10. Keeps(m, n)
  BY <1>1, <1>2, <1>4, <1>8 DEF Keeps, Exists, Counts
<1> QED
  BY <1>9, <1>10 DEF n

-----------------------------------------------------------------------------
(***************************************************************************)
(* The passes.                                                             *)
(***************************************************************************)
Rels(a) == DOMAIN Pattern[a].rel

LEMMA PatternIs ==
  ASSUME NEW a \in Act
  PROVE  /\ Rels(a) = 1..Len(Pattern[a].rel) /\ Len(Pattern[a].rel) \in Nat
         /\ \A i \in Rels(a) :
              /\ Pattern[a].rel[i] \in Relevant
              /\ Pattern[a].rel[i].begin = "Erase" => Pattern[a].rel[i].end = "NonExist"
              /\ Pattern[a].rel[i].begin = "NonExist" <=> Pattern[a].rel[i].end = "Create"
              /\ Pattern[a].kind = "event" => Pattern[a].rel[i].begin = "Create"
<1>1. Pattern[a].rel \in Seq(Relevant)
  BY ActivitiesAssumption
<1>2. \A i \in Rels(a) : Pattern[a].rel[i] \in Range(Pattern[a].rel)
  BY DEF Range, Rels
<1> QED
  BY <1>1, <1>2, ActivitiesAssumption DEF Rels

Passes == {"begin", "begin erase", "end", "end erase"}

\* A state of pattern a that began with the resources m and the numbers rel.
Reached(s, pass, a, m, rel) ==
  /\ s = [m |-> s.m, rel |-> s.rel, ok |-> s.ok]
  /\ s.ok \in BOOLEAN
  /\ s.rel \in [Rels(a) -> Nat \cup {None}]
  /\ GoodModel(s.m) /\ Keeps(m, s.m)
  /\ pass # "begin" => \A i \in Needs(a) : s.rel[i] = rel[i]

LEMMA ConvertReaches ==
  ASSUME NEW a \in Act, NEW pass \in Passes, NEW m, GoodModel(m), NEW rel, NEW s,
         Reached(s, pass, a, m, rel), NEW i \in Rels(a), NEW status, NEW v \in Value,
         pass # "begin" /\ status = "Create" => i \notin Needs(a)
  PROVE  Reached(Convert(s, i, status, v), pass, a, m, rel)
<1> USE DEF Reached
<1>1. CASE status = "Keep" /\ Exists(s.m, s.rel[i])
  <2> DEFINE n == [s.m EXCEPT !.val[s.rel[i]] = v]
  <2>1. GoodModel(n) /\ Keeps(s.m, n)
    BY <1>1, SetKeeps
  <2>2. Convert(s, i, status, v) = [s EXCEPT !.m.val[s.rel[i]] = v]
    BY <1>1 DEF Convert
  <2>3. [s EXCEPT !.m.val[s.rel[i]] = v] = [m |-> n, rel |-> s.rel, ok |-> s.ok]
    OBVIOUS
  <2> HIDE DEF n
  <2>4. Keeps(m, n)
    BY <2>1, KeepsOn
  <2> QED
    BY <2>1, <2>2, <2>3, <2>4
<1>2. CASE status = "Keep" /\ ~Exists(s.m, s.rel[i])
  <2>1. Convert(s, i, status, v) = [m |-> s.m, rel |-> s.rel, ok |-> FALSE]
    BY <1>2 DEF Convert
  <2> QED
    BY <2>1
<1>3. CASE status = "Create"
  <2> DEFINE n == CreateRes(s.m, v)
             newRel == [s.rel EXCEPT ![i] = NewId(s.m)]
  <2>1. GoodModel(n) /\ Keeps(s.m, n) /\ NewId(s.m) \in Nat
    BY CreateKeeps
  <2>2. Convert(s, i, status, v) = [m |-> n, rel |-> newRel, ok |-> s.ok]
    BY <1>3 DEF Convert
  <2>3. newRel \in [Rels(a) -> Nat \cup {None}] /\ \A j \in Rels(a) \ {i} : newRel[j] = s.rel[j]
    BY <2>1
  <2>4. pass # "begin" => \A j \in Needs(a) : newRel[j] = rel[j]
    BY <1>3, <2>3 DEF Needs, Rels
  <2> HIDE DEF n, newRel
  <2>5. Keeps(m, n)
    BY <2>1, KeepsOn
  <2> QED
    BY <2>1, <2>2, <2>3, <2>4, <2>5
<1>4. CASE status \notin {"Keep", "Create"}
  BY <1>4 DEF Convert
<1> QED
  BY <1>1, <1>2, <1>3, <1>4

LEMMA EraseReaches ==
  ASSUME NEW a \in Act, NEW pass \in Passes, NEW m, GoodModel(m), NEW rel, NEW s,
         Reached(s, pass, a, m, rel), NEW i \in Rels(a), NEW status
  PROVE  Reached(Erase(s, i, status), pass, a, m, rel)
<1> USE DEF Reached
<1>1. CASE status = "Erase" /\ Erasable(s.m, s.rel[i])
  <2> DEFINE n == EraseRes(s.m, s.rel[i])
  <2>1. GoodModel(n) /\ Keeps(s.m, n)
    BY <1>1, EraseKeeps
  <2>2. Erase(s, i, status) = [m |-> n, rel |-> s.rel, ok |-> s.ok]
    BY <1>1 DEF Erase
  <2> HIDE DEF n
  <2>3. Keeps(m, n)
    BY <2>1, KeepsOn
  <2> QED
    BY <2>1, <2>2, <2>3
<1>2. CASE status = "Erase" /\ ~Erasable(s.m, s.rel[i])
  <2>1. Erase(s, i, status) = [m |-> s.m, rel |-> s.rel, ok |-> FALSE]
    BY <1>2 DEF Erase
  <2> QED
    BY <2>1
<1>3. CASE status # "Erase"
  BY <1>3 DEF Erase
<1> QED
  BY <1>1, <1>2, <1>3

LEMMA DoReaches ==
  ASSUME NEW a \in Act, NEW pass \in Passes, NEW m, GoodModel(m), NEW rel, NEW s,
         Reached(s, pass, a, m, rel), NEW i \in Rels(a), NEW p, pass = "begin" => p \in Value
  PROVE  Reached(Do(pass, s, a, i, p), pass, a, m, rel)
<1> DEFINE r == Pattern[a].rel[i]
           v == IF r.to = ByParameter THEN p ELSE r.to
<1>1. /\ r \in Relevant
      /\ r.begin = "NonExist" <=> r.end = "Create"
  BY PatternIs
<1>2. r.last \in Value /\ (p \in Value => v \in Value)
  BY <1>1 DEF Relevant
<1>3. r.end = "Create" => i \notin Needs(a)
  BY <1>1 DEF Needs
<1>4. CASE pass = "begin"
  <2>1. Do(pass, s, a, i, p) = Convert(s, i, r.begin, v)
    BY <1>4 DEF Do
  <2> HIDE DEF r, v
  <2> QED
    BY <1>2, <1>4, <2>1, ConvertReaches
<1>5. CASE pass = "end"
  <2>1. Do(pass, s, a, i, p) = Convert(s, i, r.end, r.last)
    BY <1>5 DEF Do
  <2> HIDE DEF r, v
  <2> QED
    BY <1>2, <1>3, <1>5, <2>1, ConvertReaches
<1>6. CASE pass = "begin erase"
  <2>1. Do(pass, s, a, i, p) = Erase(s, i, r.begin)
    BY <1>6 DEF Do
  <2> QED
    BY <2>1, EraseReaches
<1>7. CASE pass = "end erase"
  <2>1. Do(pass, s, a, i, p) = Erase(s, i, r.end)
    BY <1>7 DEF Do
  <2> QED
    BY <2>1, EraseReaches
<1> QED
  BY <1>4, <1>5, <1>6, <1>7 DEF Passes

LEMMA PassReaches ==
  ASSUME NEW a \in Act, NEW pass \in Passes, NEW m, GoodModel(m), NEW rel, NEW s,
         Reached(s, pass, a, m, rel), NEW p, pass = "begin" => p \in Value
  PROVE  Reached(Pass(pass, s, a, p), pass, a, m, rel)
<1> DEFINE n == Len(Pattern[a].rel)
<1>1. n \in Nat /\ Rels(a) = 1..n
  BY PatternIs
<1>2. PICK f : /\ f[0] = s
               /\ \A i \in 1..n : f[i] = IF f[i - 1].ok THEN Do(pass, f[i - 1], a, i, p) ELSE f[i - 1]
               /\ Pass(pass, s, a, p) = f[n]
  BY <1>1, PassSteps
<1> DEFINE S == {i \in 0..n : Reached(f[i], pass, a, m, rel)}
<1> HIDE DEF n
<1>3. 0 \in S
  BY <1>1, <1>2
<1>4. ASSUME NEW i \in 1..n, i - 1 \in S
      PROVE  i \in S
  <2>1. Reached(f[i - 1], pass, a, m, rel)
    BY <1>4
  <2>2. Reached(Do(pass, f[i - 1], a, i, p), pass, a, m, rel)
    BY <1>1, <2>1, DoReaches
  <2>3. Reached(f[i], pass, a, m, rel)
    BY <1>2, <2>1, <2>2
  <2> QED
    BY <1>1, <2>3
<1> HIDE DEF S
<1>5. 0..n \subseteq S
  BY <1>1, <1>3, <1>4, UpTo
<1>6. n \in S
  BY <1>1, <1>5
<1> QED
  BY <1>2, <1>6 DEF S

-----------------------------------------------------------------------------
(***************************************************************************)
(* What the scan takes.                                                    *)
(***************************************************************************)
LEMMA MinIs ==
  ASSUME NEW S \in SUBSET Nat, S # {}
  PROVE  Min(S) \in S /\ \A n \in S : Min(S) =< n
BY NatMin DEF Min

LEMMA SelectIs ==
  ASSUME NEW m, GoodModel(m), NEW a \in Act,
         \A i \in Rels(a) : Chosen(Pattern[a].rel[i]) => Fits(m, Pattern[a].rel[i]) # {}
  PROVE  Select(m, a) \in [Rels(a) -> Nat \cup {None}]
<1> SUFFICES ASSUME NEW i \in Rels(a), Chosen(Pattern[a].rel[i])
             PROVE  m.list[Min(Fits(m, Pattern[a].rel[i]))] \in Nat
  BY DEF Select, Rels
<1> DEFINE F == Fits(m, Pattern[a].rel[i])
<1>1. m.list \in Seq(Nat)
  BY DEF GoodModel, Model
<1>2. F \in SUBSET Nat /\ F \subseteq DOMAIN m.list /\ F # {}
  BY <1>1 DEF Fits
<1> HIDE DEF F
<1>3. Min(F) \in DOMAIN m.list
  BY <1>2, MinIs
<1> QED
  BY <1>1, <1>3 DEF F

LEMMA TakenIs ==
  ASSUME NEW t \in Taken
  PROVE  /\ t \in [act : Act, with : Value] /\ Choice(t.act) /\ Ready(t.act)
         /\ OneParameterEach => t.with = Parameter[t.act]
<1> DEFINE R == {n \in DOMAIN Logic : IsReady(Logic[n])}
           L == Logic[Min(R)]
           Q == {i \in DOMAIN L.acts : Ready(L.acts[i])}
<1>1. R # {} /\ t \in Takes(L)
  BY DEF Taken
<1>2. R \in SUBSET Nat
  BY ActivitiesAssumption
<1>3. Min(R) \in R
  <2> HIDE DEF R
  <2> QED BY <1>1, <1>2, MinIs
<1>4. /\ IsReady(L) /\ L.acts \in Seq(Act) /\ L.order \in {"simple", "prior"}
      /\ OneParameterEach /\ L.order = "prior" =>
           \A i, j \in DOMAIN L.acts : Parameter[L.acts[i]] = Parameter[L.acts[j]]
  <2> DEFINE k  == Min(R)
             LS == [order : {"simple", "prior"}, acts : Seq(Act)]
  <2>1. Logic \in Seq(LS)
    BY ActivitiesAssumption
  <2>2. k \in DOMAIN Logic /\ IsReady(Logic[k])
    BY <1>3
  <2> HIDE DEF k, LS
  <2>3. Logic[k] \in LS
    BY <2>1, <2>2
  <2>4. Logic[k].acts \in Seq(Act) /\ Logic[k].order \in {"simple", "prior"}
    BY <2>3 DEF LS
  <2>5. OneParameterEach /\ Logic[k].order = "prior" =>
          \A i, j \in DOMAIN Logic[k].acts : Parameter[Logic[k].acts[i]] = Parameter[Logic[k].acts[j]]
    BY <2>2 DEF OneParameterEach
  <2> QED
    BY <2>2, <2>4, <2>5 DEF k
<1> HIDE DEF L
<1>5. Q \in SUBSET Nat /\ Q # {}
  BY <1>4 DEF IsReady, Range
<1>6. \A i \in Q : /\ L.acts[i] \in Act /\ Choice(L.acts[i]) /\ Ready(L.acts[i])
                   /\ Parameter[L.acts[i]] \in Value
  BY <1>4, ActivitiesAssumption DEF Ready
<1>7. CASE L.order = "simple"
  <2>1. t = [act |-> L.acts[Min(Q)], with |-> Parameter[L.acts[Min(Q)]]]
    BY <1>1, <1>7 DEF Takes
  <2>2. Min(Q) \in Q
    <3> HIDE DEF Q
    <3> QED BY <1>5, MinIs
  <2> QED
    BY <1>6, <2>1, <2>2
<1>8. CASE L.order # "simple"
  <2>1. \E i \in Q : t = [act |-> L.acts[i], with |-> Parameter[Last(L.acts)]]
    BY <1>1, <1>8 DEF Takes
  <2>2. Last(L.acts) \in Act /\ \E j \in DOMAIN L.acts : Last(L.acts) = L.acts[j]
    <3>1. Len(L.acts) \in DOMAIN L.acts
      BY <1>4, <1>5
    <3> QED
      BY <1>4, <3>1 DEF Last
  <2>3. Parameter[Last(L.acts)] \in Value
    BY <2>2, ActivitiesAssumption
  <2>4. OneParameterEach => \A i \in Q : Parameter[Last(L.acts)] = Parameter[L.acts[i]]
    BY <1>4, <1>8, <2>2
  <2> QED
    BY <1>6, <2>1, <2>3, <2>4
<1> QED
  BY <1>7, <1>8

\* The begin of an activity, from the resources m.
LEMMA BeginReaches ==
  ASSUME NEW m, GoodModel(m), NEW a \in Act, NEW p \in Value,
         \A i \in Rels(a) : Chosen(Pattern[a].rel[i]) => Fits(m, Pattern[a].rel[i]) # {}
  PROVE  LET s == BeginConvert(Start(m, a), a, p)
         IN  /\ Reached(s, "begin", a, m, Select(m, a))
             /\ Reached(BeginErase(s, a), "begin erase", a, m, s.rel)
<1> DEFINE s == BeginConvert(Start(m, a), a, p)
<1>1. Reached(Start(m, a), "begin", a, m, Select(m, a))
  BY SelectIs, KeepsItself DEF Reached, Start
<1>2. Reached(s, "begin", a, m, Select(m, a))
  BY <1>1, PassReaches DEF BeginConvert, Passes
<1> HIDE DEF s
<1>3. Reached(s, "begin erase", a, m, s.rel)
  BY <1>2 DEF Reached
<1>4. Reached(BeginErase(s, a), "begin erase", a, m, s.rel)
  BY <1>3, PassReaches DEF BeginErase, Passes
<1> QED
  BY <1>2, <1>4 DEF s

-----------------------------------------------------------------------------
(***************************************************************************)
(* The operations run and the counts of the resources m.                   *)
(***************************************************************************)
UsesOf(run, r) == UNION {{o} \X Uses(run[o].act, run[o].rel, r) : o \in DOMAIN run}

Agree(run, m) ==
  /\ \A o \in DOMAIN run : \A i \in Needs(run[o].act) : Exists(m, run[o].rel[i])
  /\ \A r : IsFiniteSet(UsesOf(run, r))
  /\ \A r \in DOMAIN m.refs : m.refs[r] = Cardinality(UsesOf(run, r))

LEMMA UsesAreFew ==
  ASSUME NEW a \in Act, NEW rel, NEW r
  PROVE  IsFiniteSet(Uses(a, rel, r)) /\ Times(a, rel, r) \in Nat
<1>1. Uses(a, rel, r) \subseteq 1..Len(Pattern[a].rel) /\ Len(Pattern[a].rel) \in Nat
  BY PatternIs DEF Uses, Needs, Rels
<1>2. IsFiniteSet(1..Len(Pattern[a].rel))
  BY <1>1, FS_Interval
<1>3. IsFiniteSet(Uses(a, rel, r))
  BY <1>1, <1>2, FS_Subset
<1> QED
  BY <1>3, FS_CardinalityType DEF Times

\* One operation more.
LEMMA UsesSplit ==
  ASSUME NEW few, NEW many, NEW o, o \notin DOMAIN few, DOMAIN many = DOMAIN few \cup {o},
         \A p \in DOMAIN few : many[p] = few[p], many[o].act \in Act, NEW r,
         IsFiniteSet(UsesOf(few, r)) \/ IsFiniteSet(UsesOf(many, r))
  PROVE  /\ IsFiniteSet(UsesOf(few, r)) /\ IsFiniteSet(UsesOf(many, r))
         /\ Cardinality(UsesOf(many, r)) =
              Cardinality(UsesOf(few, r)) + Times(many[o].act, many[o].rel, r)
<1> DEFINE U == Uses(many[o].act, many[o].rel, r)
<1>1. UsesOf(many, r) = UsesOf(few, r) \cup ({o} \X U)
  BY DEF UsesOf
<1>2. UsesOf(few, r) \cap ({o} \X U) = {}
  BY DEF UsesOf
<1>3. IsFiniteSet(U) /\ Times(many[o].act, many[o].rel, r) = Cardinality(U) /\ Cardinality(U) \in Nat
  BY UsesAreFew, FS_CardinalityType DEF Times
<1> HIDE DEF U
<1>4. IsFiniteSet({o} \X U) /\ Cardinality({o} \X U) = Cardinality(U)
  <2>1. IsFiniteSet({o}) /\ Cardinality({o}) = 1
    BY FS_Singleton
  <2> QED
    BY <1>3, <2>1, FS_Product
<1>5. IsFiniteSet(UsesOf(few, r))
  BY <1>1, FS_Subset
<1>6. /\ IsFiniteSet(UsesOf(many, r))
      /\ Cardinality(UsesOf(many, r)) = Cardinality(UsesOf(few, r)) + Cardinality({o} \X U) - 0
  BY <1>1, <1>2, <1>4, <1>5, FS_Union, FS_EmptySet
<1> QED
  BY <1>3, <1>4, <1>5, <1>6, FS_CardinalityType

\* The passes keep the counts right, and no resource that is counted goes.
LEMMA AgreeOn ==
  ASSUME NEW run, NEW m, NEW n, Agree(run, m), GoodModel(m), GoodModel(n), Keeps(m, n)
  PROVE  Agree(run, n)
<1>1. DOMAIN m.refs = DOMAIN m.val
  BY DEF GoodModel, Model
<1>2. ASSUME NEW o \in DOMAIN run, NEW i \in Needs(run[o].act)
      PROVE  Exists(n, run[o].rel[i])
  <2> DEFINE r == run[o].rel[i]
  <2>1. Exists(m, r) /\ r \in DOMAIN m.refs
    BY <1>1 DEF Agree, Exists
  <2>2. i \in Uses(run[o].act, run[o].rel, r)
    BY DEF Uses
  <2> HIDE DEF r
  <2>3. <<o, i>> \in UsesOf(run, r)
    BY <2>2 DEF UsesOf
  <2>4. Cardinality(UsesOf(run, r)) \in Nat /\ Cardinality(UsesOf(run, r)) # 0
    BY <2>3, FS_CardinalityType, FS_EmptySet DEF Agree
  <2>5. m.refs[r] > 0
    BY <2>1, <2>4 DEF Agree
  <2>6. Exists(n, r)
    BY <1>1, <2>1, <2>5 DEF Keeps
  <2> QED
    BY <2>6 DEF r
<1>3. ASSUME NEW r \in DOMAIN n.refs
      PROVE  n.refs[r] = Cardinality(UsesOf(run, r))
  <2>1. n.refs[r] = Counts(m, r)
    BY DEF Keeps
  <2>2. CASE r \in DOMAIN m.refs
    BY <2>1, <2>2 DEF Counts, Agree
  <2>3. CASE r \notin DOMAIN m.refs
    <3>1. UsesOf(run, r) = {}
      BY <1>1, <2>3 DEF UsesOf, Uses, Agree, Exists
    <3> QED
      BY <2>1, <2>3, <3>1, FS_EmptySet DEF Counts
  <2> QED
    BY <2>2, <2>3
<1> QED
  BY <1>2, <1>3 DEF Agree

\* Counting the uses of an operation that begins.
LEMMA IncAgrees ==
  ASSUME NEW run, NEW many, NEW o, o \notin DOMAIN run, DOMAIN many = DOMAIN run \cup {o},
         \A p \in DOMAIN run : many[p] = run[p], many[o].act \in Act,
         NEW m, GoodModel(m), Agree(run, m),
         \A i \in Needs(many[o].act) : Exists(m, many[o].rel[i])
  PROVE  LET n == IncRefs(m, many[o].act, many[o].rel) IN GoodModel(n) /\ Agree(many, n)
<1> DEFINE T(r) == Times(many[o].act, many[o].rel, r)
           n == IncRefs(m, many[o].act, many[o].rel)
<1>1. \A r : T(r) \in Nat
  BY UsesAreFew
<1>2. \A r : ~Exists(m, r) => T(r) = 0
  BY FS_EmptySet DEF Times, Uses
<1> HIDE DEF T
<1>3. /\ m.refs \in [0..(m.next - 1) -> Nat] /\ DOMAIN m.val = 0..(m.next - 1)
      /\ m = [list |-> m.list, val |-> m.val, refs |-> m.refs, free |-> m.free, next |-> m.next]
  BY DEF GoodModel, Model
<1>4. n = [m EXCEPT !.refs = [r \in DOMAIN m.refs |-> m.refs[r] + T(r)]]
  BY <1>3 DEF IncRefs, T
<1> HIDE DEF n
<1>5. /\ n.list = m.list /\ n.val = m.val /\ n.free = m.free /\ n.next = m.next
      /\ n.refs = [r \in 0..(m.next - 1) |-> m.refs[r] + T(r)]
      /\ n = [list |-> n.list, val |-> n.val, refs |-> n.refs, free |-> n.free, next |-> n.next]
  BY <1>3, <1>4
<1>6. GoodModel(n)
  <2>1. \A r \in 0..(m.next - 1) : n.refs[r] \in Nat
    <3> SUFFICES ASSUME NEW r \in 0..(m.next - 1) PROVE n.refs[r] \in Nat
      OBVIOUS
    <3>1. T(r) \in Nat /\ m.refs[r] \in Nat /\ n.refs[r] = m.refs[r] + T(r)
      BY <1>1, <1>3, <1>5
    <3> QED
      BY <3>1
  <2>2. n.refs \in [0..(n.next - 1) -> Nat] /\ n \in Model(n.next)
    <3>1. n.refs \in [0..(n.next - 1) -> Nat]
      BY <1>5, <2>1
    <3> QED
      BY <1>5, <3>1 DEF GoodModel, Model
  <2>3. \A r \in 0..(m.next - 1) : m.val[r] = None => n.refs[r] = 0
    BY <1>2, <1>3, <1>5 DEF GoodModel, Exists
  <2> QED
    BY <1>5, <2>2, <2>3 DEF GoodModel
<1>7. \A r : /\ IsFiniteSet(UsesOf(many, r))
             /\ Cardinality(UsesOf(many, r)) = Cardinality(UsesOf(run, r)) + T(r)
  BY UsesSplit DEF Agree, T
<1>8. \A q \in DOMAIN many : \A i \in Needs(many[q].act) : Exists(m, many[q].rel[i])
  BY DEF Agree
<1>9. \A r : Exists(n, r) <=> Exists(m, r)
  BY <1>5 DEF Exists
<1>10. ASSUME NEW r \in DOMAIN n.refs
       PROVE  n.refs[r] = Cardinality(UsesOf(many, r))
  <2>1. r \in 0..(m.next - 1) /\ m.refs[r] = Cardinality(UsesOf(run, r))
    BY <1>3, <1>5 DEF Agree
  <2>2. n.refs[r] = m.refs[r] + T(r)
    BY <1>5, <2>1
  <2> QED
    BY <1>7, <2>1, <2>2
<1>11. Agree(many, n)
  BY <1>7, <1>8, <1>9, <1>10 DEF Agree
<1> QED
  BY <1>6, <1>11 DEF n

\* Uncounting those of one that ends.
LEMMA DecAgrees ==
  ASSUME NEW run, NEW few, NEW o \in DOMAIN run, DOMAIN few = DOMAIN run \ {o},
         \A p \in DOMAIN few : few[p] = run[p], run[o].act \in Act,
         NEW m, GoodModel(m), Agree(run, m),
         NEW rel, \A i \in Needs(run[o].act) : rel[i] = run[o].rel[i]
  PROVE  LET n == DecRefs(m, run[o].act, rel) IN GoodModel(n) /\ Agree(few, n)
<1> DEFINE T(r) == Times(run[o].act, rel, r)
           n == DecRefs(m, run[o].act, rel)
<1>1. \A r : T(r) \in Nat /\ T(r) = Times(run[o].act, run[o].rel, r)
  <2>1. \A r : Uses(run[o].act, rel, r) = Uses(run[o].act, run[o].rel, r)
    BY DEF Uses
  <2> QED
    BY <2>1, UsesAreFew DEF Times
<1>2. ASSUME NEW r, ~Exists(m, r) PROVE T(r) = 0
  <2>1. Uses(run[o].act, run[o].rel, r) = {}
    BY <1>2 DEF Uses, Agree
  <2> QED
    BY <1>1, <2>1, FS_EmptySet DEF Times
<1>3. \A r : /\ IsFiniteSet(UsesOf(few, r))
             /\ Cardinality(UsesOf(few, r)) \in Nat
             /\ Cardinality(UsesOf(run, r)) = Cardinality(UsesOf(few, r)) + T(r)
  BY <1>1, UsesSplit, FS_CardinalityType DEF Agree
<1> HIDE DEF T
<1>4. /\ m.refs \in [0..(m.next - 1) -> Nat] /\ DOMAIN m.val = 0..(m.next - 1)
      /\ m = [list |-> m.list, val |-> m.val, refs |-> m.refs, free |-> m.free, next |-> m.next]
  BY DEF GoodModel, Model
<1>5. n = [m EXCEPT !.refs = [r \in DOMAIN m.refs |-> m.refs[r] - T(r)]]
  BY <1>4 DEF DecRefs, T
<1> HIDE DEF n
<1>6. /\ n.list = m.list /\ n.val = m.val /\ n.free = m.free /\ n.next = m.next
      /\ n.refs = [r \in 0..(m.next - 1) |-> m.refs[r] - T(r)]
      /\ n = [list |-> n.list, val |-> n.val, refs |-> n.refs, free |-> n.free, next |-> n.next]
  BY <1>4, <1>5
<1>7. ASSUME NEW r \in 0..(m.next - 1)
      PROVE  n.refs[r] = Cardinality(UsesOf(few, r))
  <2>1. m.refs[r] = Cardinality(UsesOf(run, r))
    BY <1>4 DEF Agree
  <2>2. n.refs[r] = m.refs[r] - T(r)
    BY <1>6
  <2>3. /\ T(r) \in Nat /\ Cardinality(UsesOf(few, r)) \in Nat
        /\ Cardinality(UsesOf(run, r)) = Cardinality(UsesOf(few, r)) + T(r)
    BY <1>1, <1>3
  <2> HIDE DEF T
  <2> QED
    BY <2>1, <2>2, <2>3
<1>8. GoodModel(n)
  <2>1. \A r \in 0..(m.next - 1) : n.refs[r] \in Nat
    BY <1>3, <1>7
  <2>2. n.refs \in [0..(n.next - 1) -> Nat]
    BY <1>6, <2>1
  <2>3. n \in Model(n.next)
    BY <1>6, <2>2 DEF GoodModel, Model
  <2>4. \A r \in 0..(m.next - 1) : m.val[r] = None => n.refs[r] = 0
    BY <1>2, <1>4, <1>6 DEF GoodModel, Exists
  <2> QED
    BY <1>6, <2>3, <2>4 DEF GoodModel
<1>9. \A q \in DOMAIN few : \A i \in Needs(few[q].act) : Exists(m, few[q].rel[i])
  BY DEF Agree
<1>10. \A r : Exists(n, r) <=> Exists(m, r)
  BY <1>6 DEF Exists
<1>11. Agree(few, n)
  BY <1>3, <1>4, <1>6, <1>7, <1>9, <1>10 DEF Agree
<1> QED
  BY <1>8, <1>11 DEF n

-----------------------------------------------------------------------------
(***************************************************************************)
(* The numbers of the operations.                                          *)
(***************************************************************************)
OpNumbers ==
  /\ IsInjective(freeOps)
  /\ DOMAIN running \cap Range(freeOps) = {}
  /\ DOMAIN running \cup Range(freeOps) = 1..(nextOp - 1)

OpsAreTyped ==
  /\ DOMAIN running \subseteq 1..MaxOps
  /\ freeOps \in Seq(1..MaxOps)
  /\ nextOp \in 1..(MaxOps + 1)
  /\ \A o \in DOMAIN running :
       running[o] \in Operation /\ running[o].rel \in [Rels(running[o].act) -> Nat \cup {None}]

LEMMA TailIs ==
  ASSUME NEW S, NEW s \in Seq(S), s # <<>>, IsInjective(s)
  PROVE  /\ Head(s) \in S /\ Tail(s) \in Seq(S) /\ IsInjective(Tail(s))
         /\ Head(s) \in Range(s) /\ Range(Tail(s)) = Range(s) \ {Head(s)}
<1>1. Len(s) \in Nat \ {0} /\ DOMAIN s = 1..Len(s) /\ Head(s) = s[1]
  OBVIOUS
<1>2. /\ Tail(s) \in Seq(S) /\ Len(Tail(s)) = Len(s) - 1
      /\ \A i \in 1..(Len(s) - 1) : Tail(s)[i] = s[i + 1]
  BY HeadTailProperties
<1> DEFINE t == Tail(s)
<1>3. DOMAIN t = 1..(Len(s) - 1)
  BY <1>1, <1>2
<1> HIDE DEF t
<1>4. \A i \in DOMAIN t : i + 1 \in DOMAIN s /\ t[i] = s[i + 1]
  BY <1>1, <1>2, <1>3 DEF t
<1>5. \A j \in DOMAIN s : j # 1 => j - 1 \in DOMAIN t /\ t[j - 1] = s[j]
  <2> SUFFICES ASSUME NEW j \in DOMAIN s, j # 1
               PROVE  j - 1 \in DOMAIN t /\ t[j - 1] = s[j]
    OBVIOUS
  <2>1. j - 1 \in DOMAIN t /\ (j - 1) + 1 = j
    BY <1>1, <1>3
  <2> QED
    BY <1>4, <2>1
<1>6. IsInjective(t)
  <2> SUFFICES ASSUME NEW i \in DOMAIN t, NEW j \in DOMAIN t, t[i] = t[j]
               PROVE  i = j
    BY DEF IsInjective
  <2>1. i + 1 = j + 1
    BY <1>4 DEF IsInjective
  <2> QED
    BY <1>1, <1>3, <2>1
<1>7. 1 \in DOMAIN s
  BY <1>1
<1>8. Range(t) = Range(s) \ {s[1]}
  <2>1. \A i \in DOMAIN t : t[i] \in Range(s) /\ t[i] # s[1]
    <3> SUFFICES ASSUME NEW i \in DOMAIN t PROVE t[i] \in Range(s) /\ t[i] # s[1]
      OBVIOUS
    <3>1. i + 1 # 1
      BY <1>1, <1>3
    <3> QED
      BY <1>4, <1>7, <3>1 DEF Range, IsInjective
  <2>2. \A j \in DOMAIN s : s[j] # s[1] => \E i \in DOMAIN t : t[i] = s[j]
    BY <1>5
  <2> QED
    BY <2>1, <2>2 DEF Range
<1> QED
  BY <1>1, <1>2, <1>6, <1>7, <1>8 DEF t, Range

\* An operation gets a number nobody has.
LEMMA PlansNumbers ==
  ASSUME OpsAreTyped, OpNumbers, NEW op, Plans(op), op \in Operation,
         op.rel \in [Rels(op.act) -> Nat \cup {None}]
  PROVE  /\ OpsAreTyped' /\ OpNumbers'
         /\ FreeOp \notin DOMAIN running /\ DOMAIN running' = DOMAIN running \cup {FreeOp}
         /\ running'[FreeOp] = op /\ \A o \in DOMAIN running : running'[o] = running[o]
<1>1. MaxOps \in Nat
  BY ActivitiesAssumption
<1>2. CASE freeOps = <<>>
  <2>1. /\ FreeOp = nextOp /\ nextOp =< MaxOps /\ nextOp' = nextOp + 1 /\ freeOps' = freeOps
        /\ running' = [o \in DOMAIN running \cup {nextOp} |->
                         IF o = nextOp THEN op ELSE running[o]]
    BY <1>2 DEF Plans, FreeOp
  <2>2. Range(freeOps) = {}
    BY <1>2 DEF Range
  <2>3. DOMAIN running = 1..(nextOp - 1) /\ nextOp \in Nat
    BY <1>1, <2>2 DEF OpNumbers, OpsAreTyped
  <2>4. nextOp \notin DOMAIN running
    BY <2>3
  <2>5. DOMAIN running' = 1..(nextOp' - 1) /\ nextOp' \in 1..(MaxOps + 1)
    <3>1. nextOp' - 1 = nextOp /\ nextOp' \in 1..(MaxOps + 1) /\ nextOp \in Nat \ {0}
      BY <1>1, <2>1, <2>3 DEF OpsAreTyped
    <3>2. DOMAIN running' = 1..(nextOp - 1) \cup {nextOp}
      BY <2>1, <2>3
    <3>3. 1..nextOp = 1..(nextOp - 1) \cup {nextOp}
      BY <3>1
    <3> QED
      BY <3>1, <3>2, <3>3
  <2>6. OpNumbers'
    BY <2>1, <2>2, <2>5 DEF OpNumbers
  <2>7. OpsAreTyped'
    BY <1>1, <2>1, <2>3, <2>5 DEF OpsAreTyped
  <2> QED
    BY <2>1, <2>4, <2>6, <2>7
<1>3. CASE freeOps # <<>>
  <2>1. /\ FreeOp = Head(freeOps) /\ nextOp' = nextOp /\ freeOps' = Tail(freeOps)
        /\ running' = [o \in DOMAIN running \cup {Head(freeOps)} |->
                         IF o = Head(freeOps) THEN op ELSE running[o]]
    BY <1>3 DEF Plans, FreeOp
  <2>2. /\ Head(freeOps) \in 1..MaxOps /\ Tail(freeOps) \in Seq(1..MaxOps)
        /\ IsInjective(Tail(freeOps)) /\ Head(freeOps) \in Range(freeOps)
        /\ Range(Tail(freeOps)) = Range(freeOps) \ {Head(freeOps)}
    BY <1>3, TailIs DEF OpsAreTyped, OpNumbers
  <2>3. OpNumbers' /\ Head(freeOps) \notin DOMAIN running
    BY <2>1, <2>2 DEF OpNumbers
  <2>4. OpsAreTyped'
    BY <2>1, <2>2 DEF OpsAreTyped
  <2> QED
    BY <2>1, <2>3, <2>4
<1> QED
  BY <1>2, <1>3

\* One that ends gives its number back.
LEMMA FreesNumbers ==
  ASSUME OpsAreTyped, OpNumbers, NEW o \in DOMAIN running,
         running' = [p \in DOMAIN running \ {o} |-> running[p]],
         freeOps' = Frees(o), nextOp' = nextOp
  PROVE  OpsAreTyped' /\ OpNumbers'
<1>1. <<o>> \in Seq(1..MaxOps) /\ freeOps \in Seq(1..MaxOps) /\ Len(<<o>>) = 1 /\ <<o>>[1] = o
  BY DEF OpsAreTyped
<1> DEFINE t == <<o>> \o freeOps
           n == Len(freeOps)
<1>2. n \in Nat /\ DOMAIN freeOps = 1..n
  BY <1>1
<1>3. /\ t \in Seq(1..MaxOps) /\ Len(t) = 1 + n
      /\ \A i \in 1..(1 + n) : t[i] = IF i <= 1 THEN o ELSE freeOps[i - 1]
  <2>1. /\ t \in Seq(1..MaxOps) /\ Len(t) = Len(<<o>>) + n
        /\ \A i \in 1..(Len(<<o>>) + n) :
             t[i] = IF i <= Len(<<o>>) THEN <<o>>[i] ELSE freeOps[i - Len(<<o>>)]
    BY <1>1, ConcatProperties
  <2> HIDE DEF t, n
  <2> QED
    BY <1>1, <2>1
<1> HIDE DEF t, n
<1>4. DOMAIN t = 1..(1 + n)
  BY <1>2, <1>3
<1>5. 1 \in DOMAIN t /\ t[1] = o
  BY <1>2, <1>3, <1>4
<1>6. \A i \in DOMAIN t : i # 1 => i - 1 \in DOMAIN freeOps /\ t[i] = freeOps[i - 1]
  BY <1>2, <1>3, <1>4
<1>7. \A i \in DOMAIN freeOps : i + 1 \in DOMAIN t /\ t[i + 1] = freeOps[i]
  BY <1>2, <1>3, <1>4
<1>8. Range(t) = Range(freeOps) \cup {o}
  BY <1>5, <1>6, <1>7 DEF Range
<1>9. IsInjective(t)
  <2> SUFFICES ASSUME NEW i \in DOMAIN t, NEW j \in DOMAIN t, t[i] = t[j]
               PROVE  i = j
    BY DEF IsInjective
  <2>1. o \notin Range(freeOps)
    BY DEF OpNumbers
  <2>2. i = 1 <=> j = 1
    BY <1>5, <1>6, <2>1 DEF Range
  <2>3. CASE i # 1 /\ j # 1
    <3>1. i - 1 = j - 1
      BY <1>6, <2>3 DEF OpNumbers, IsInjective
    <3> QED
      BY <1>2, <1>4, <3>1
  <2> QED
    BY <2>2, <2>3
<1>10. freeOps' = t
  BY DEF Frees, t
<1>11. OpNumbers'
  BY <1>8, <1>9, <1>10 DEF OpNumbers
<1>12. OpsAreTyped'
  BY <1>3, <1>10 DEF OpsAreTyped
<1> QED
  BY <1>11, <1>12

-----------------------------------------------------------------------------
(***************************************************************************)
(* The invariant.  The references agree as long as no error has ended the  *)
(* run: an operation that fails in its begin is planned but not counted.   *)
(***************************************************************************)
AInv ==
  /\ GoodModel(model) /\ model.next =< MaxRes
  /\ OpsAreTyped /\ OpNumbers
  /\ check \in BOOLEAN /\ failed \in BOOLEAN
  /\ latest \in [act : Act, with : Value] \cup {None}
  /\ ~failed => Agree(running, model)

LEMMA AInvInit ==
  Init => AInv
<1> SUFFICES ASSUME Init PROVE AInv
  OBVIOUS
<1> DEFINE n == Len(InitList)
<1>1. n \in Nat /\ n =< MaxRes /\ DOMAIN InitList = 1..n /\ \A i \in 1..n : InitList[i] \in Value
  BY ActivitiesAssumption
<1>2. /\ model.list = [i \in 1..n |-> i - 1]
      /\ model.val = [r \in 0..(n - 1) |-> InitList[r + 1]]
      /\ model.refs = [r \in 0..(n - 1) |-> 0]
      /\ model.free = <<>> /\ model.next = n
      /\ model = [list |-> model.list, val |-> model.val, refs |-> model.refs,
                  free |-> model.free, next |-> model.next]
  BY <1>1 DEF Init
<1> HIDE DEF n
<1>3. \A r \in 0..(n - 1) : r + 1 \in 1..n /\ model.val[r] \in Value /\ model.val[r] # None
  BY <1>1, <1>2, ActivitiesAssumption
<1>4. model \in Model(n)
  <2>1. model.list \in Seq(Nat)
    BY <1>1, <1>2
  <2>2. model.val \in [0..(n - 1) -> Value \cup {None}] /\ model.refs \in [0..(n - 1) -> Nat]
    BY <1>2, <1>3
  <2>3. model.free \in Seq(Nat)
    BY <1>2
  <2> QED
    BY <1>2, <2>1, <2>2, <2>3 DEF Model
<1>5. Range(model.list) = 0..(n - 1) /\ IsInjective(model.list)
  <2>1. DOMAIN model.list = 1..n /\ \A i \in 1..n : model.list[i] = i - 1
    BY <1>2
  <2>2. \A r \in 0..(n - 1) : model.list[r + 1] = r
    BY <1>1, <1>3, <2>1
  <2>3. Range(model.list) = 0..(n - 1)
    <3>1. \A i \in 1..n : i - 1 \in 0..(n - 1)
      BY <1>1
    <3> QED
      BY <1>3, <2>1, <2>2, <3>1 DEF Range
  <2> QED
    BY <1>1, <2>1, <2>3 DEF IsInjective
<1>6. Range(model.free) = {} /\ IsInjective(model.free)
  BY <1>2 DEF Range, IsInjective
<1>7. GoodModel(model) /\ model.next =< MaxRes
  BY <1>1, <1>2, <1>3, <1>4, <1>5, <1>6 DEF GoodModel
<1>8. DOMAIN running = {}
  BY DEF Init
<1>9. OpsAreTyped
  BY <1>8, ActivitiesAssumption DEF Init, OpsAreTyped
<1>10. OpNumbers
  BY <1>8 DEF Init, OpNumbers, Range, IsInjective
<1>11. Agree(running, model)
  <2>1. \A r : UsesOf(running, r) = {}
    BY <1>8 DEF UsesOf
  <2>2. IsFiniteSet({}) /\ Cardinality({}) = 0
    BY FS_EmptySet
  <2>3. \A r \in DOMAIN model.refs : model.refs[r] = 0
    BY <1>2
  <2> QED
    BY <1>8, <2>1, <2>2, <2>3 DEF Agree
<1> QED
  BY <1>7, <1>9, <1>10, <1>11 DEF Init, AInv

\* The chosen resources are there.
LEMMA ChoiceIs ==
  ASSUME NEW a \in Act, Choice(a)
  PROVE  \A i \in Rels(a) : Chosen(Pattern[a].rel[i]) => Fits(model, Pattern[a].rel[i]) # {}
BY DEF Choice, Rels, Range

LEMMA RuleKeeps ==
  ASSUME AInv, ~failed, NEW t \in Taken, RunRule(t)
  PROVE  AInv'
<1> DEFINE c == BeginConvert(Start(model, t.act), t.act, t.with)
           s == BeginErase(c, t.act)
<1>1. t \in [act : Act, with : Value] /\ t.act \in Act /\ t.with \in Value /\ Choice(t.act)
  BY TakenIs
<1>2. s = Apply(model, t.act, t.with)
  BY DEF Apply
<1>3. Reached(s, "begin erase", t.act, model, c.rel)
  BY <1>1, ChoiceIs, BeginReaches DEF AInv
<1> HIDE DEF c, s
<1>4. /\ model' = s.m /\ s.m.next =< MaxRes /\ failed' = ~s.ok /\ latest' = t
      /\ UNCHANGED <<running, freeOps, nextOp, check>>
  BY <1>2 DEF RunRule
<1>5. GoodModel(model') /\ Keeps(model, model') /\ failed' \in BOOLEAN /\ model'.next =< MaxRes
  BY <1>3, <1>4 DEF Reached
<1>6. Agree(running, model')
  BY <1>5, AgreeOn DEF AInv
<1>7. OpsAreTyped' /\ OpNumbers'
  BY <1>4 DEF AInv, OpsAreTyped, OpNumbers
<1> QED
  BY <1>1, <1>4, <1>5, <1>6, <1>7 DEF AInv

LEMMA OperationKeeps ==
  ASSUME AInv, ~failed, NEW t \in Taken, BeginOperation(t)
  PROVE  AInv'
<1> DEFINE c  == BeginConvert(Start(model, t.act), t.act, t.with)
           s  == BeginErase(c, t.act)
           ok == s.ok /\ \A i \in Needs(t.act) : Exists(s.m, s.rel[i])
           op == [act |-> t.act, rel |-> s.rel]
<1>1. t \in [act : Act, with : Value] /\ t.act \in Act /\ t.with \in Value /\ Choice(t.act)
  BY TakenIs
<1>2. Reached(s, "begin erase", t.act, model, c.rel)
  BY <1>1, ChoiceIs, BeginReaches DEF AInv
<1>3. /\ s.m.next =< MaxRes
      /\ model' = IF ok THEN IncRefs(s.m, t.act, s.rel) ELSE s.m
      /\ Plans(op) /\ failed' = ~ok /\ latest' = t /\ check' = check
  BY DEF BeginOperation
<1> HIDE DEF c, s
<1>4. /\ GoodModel(s.m) /\ Keeps(model, s.m) /\ ok \in BOOLEAN
      /\ s.rel \in [Rels(t.act) -> Nat \cup {None}]
  BY <1>2 DEF Reached
<1> HIDE DEF ok
<1>5. op \in Operation /\ op.act = t.act /\ op.rel = s.rel
  <2>1. s.rel \in Seq(Nat \cup {None})
    BY <1>1, <1>4, PatternIs
  <2> QED
    BY <1>1, <2>1 DEF Operation
<1> HIDE DEF op
<1>6. /\ OpsAreTyped' /\ OpNumbers'
      /\ FreeOp \notin DOMAIN running /\ DOMAIN running' = DOMAIN running \cup {FreeOp}
      /\ running'[FreeOp] = op /\ \A o \in DOMAIN running : running'[o] = running[o]
  BY <1>3, <1>4, <1>5, PlansNumbers DEF AInv
<1>7. Agree(running, s.m)
  BY <1>4, AgreeOn DEF AInv
<1>8. CASE ok
  <2> DEFINE n == IncRefs(s.m, t.act, s.rel)
  <2>1. \A i \in Needs(t.act) : Exists(s.m, s.rel[i])
    BY <1>8 DEF ok
  <2>2. GoodModel(n) /\ Agree(running', n)
    <3> DEFINE k == FreeOp
               many == running'
               m == s.m
    <3>1. many[k].act = t.act /\ many[k].rel = s.rel
      BY <1>5, <1>6
    <3>2. /\ k \notin DOMAIN running /\ DOMAIN many = DOMAIN running \cup {k}
          /\ \A o \in DOMAIN running : many[o] = running[o]
          /\ GoodModel(m) /\ Agree(running, m)
          /\ \A i \in Needs(many[k].act) : Exists(m, many[k].rel[i])
          /\ n = IncRefs(m, many[k].act, many[k].rel)
      BY <1>4, <1>6, <1>7, <2>1, <3>1
    <3> HIDE DEF k, many, m, n
    <3>3. GoodModel(n) /\ Agree(many, n)
      BY <1>1, <3>1, <3>2, IncAgrees
    <3> QED
      BY <3>3 DEF many
  <2>3. n.next = s.m.next
    BY <1>4 DEF IncRefs, GoodModel, Model
  <2>4. model' = n /\ failed' = FALSE
    BY <1>3, <1>8
  <2> HIDE DEF n
  <2> QED
    BY <1>1, <1>3, <1>6, <2>2, <2>3, <2>4 DEF AInv
<1>9. CASE ~ok
  <2>1. model' = s.m /\ failed' = TRUE
    BY <1>3, <1>9
  <2> QED
    BY <1>1, <1>3, <1>4, <1>6, <2>1 DEF AInv
<1> QED
  BY <1>8, <1>9

LEMMA EndKeeps ==
  ASSUME AInv, NEW o \in DOMAIN running, EndOperation(o)
  PROVE  AInv'
<1> DEFINE a == running[o].act
           b == [m |-> model, rel |-> running[o].rel, ok |-> TRUE]
           s == EndConvert(b, a)
           n == DecRefs(s.m, a, s.rel)
           c == [s EXCEPT !.m = n]
           e == EndErase(c, a)
<1>1. /\ ~failed /\ model' = e.m /\ e.m.next =< MaxRes /\ failed' = ~e.ok
      /\ running' = [p \in DOMAIN running \ {o} |-> running[p]]
      /\ freeOps' = Frees(o) /\ check' \in BOOLEAN /\ nextOp' = nextOp /\ latest' = latest
  BY DEF EndOperation
<1>2. a \in Act /\ running[o].rel \in [Rels(a) -> Nat \cup {None}]
  BY DEF AInv, OpsAreTyped, Operation
<1>3. Reached(s, "end", a, model, running[o].rel)
  <2>1. GoodModel(model) /\ Keeps(model, model)
    BY KeepsItself DEF AInv
  <2>2. Reached(b, "end", a, model, running[o].rel)
    BY <1>2, <2>1 DEF Reached
  <2> HIDE DEF a, b
  <2> QED
    BY <1>2, <2>1, <2>2, PassReaches DEF EndConvert, Passes
<1> HIDE DEF s
<1>4. /\ GoodModel(s.m) /\ Keeps(model, s.m) /\ s.rel \in [Rels(a) -> Nat \cup {None}]
      /\ \A i \in Needs(a) : s.rel[i] = running[o].rel[i]
      /\ s.ok \in BOOLEAN /\ s = [m |-> s.m, rel |-> s.rel, ok |-> s.ok]
  BY <1>3 DEF Reached
<1>5. Agree(running, s.m)
  BY <1>1, <1>4, AgreeOn DEF AInv
<1>6. GoodModel(n) /\ Agree(running', n)
  <2> DEFINE few == running'
             m == s.m
             rel == s.rel
  <2>1. /\ DOMAIN few = DOMAIN running \ {o} /\ \A p \in DOMAIN few : few[p] = running[p]
        /\ GoodModel(m) /\ Agree(running, m)
        /\ \A i \in Needs(running[o].act) : rel[i] = running[o].rel[i]
        /\ running[o].act \in Act /\ n = DecRefs(m, running[o].act, rel)
    BY <1>1, <1>2, <1>4, <1>5
  <2> HIDE DEF few, m, rel, n, a
  <2>2. GoodModel(n) /\ Agree(few, n)
    BY <2>1, DecAgrees
  <2> QED
    BY <2>2 DEF few
<1>7. c = [m |-> n, rel |-> s.rel, ok |-> s.ok]
  BY <1>4
<1> HIDE DEF c, n
<1>8. Reached(e, "end erase", a, n, s.rel)
  <2>1. Keeps(n, n)
    BY <1>6, KeepsItself
  <2>2. Reached(c, "end erase", a, n, s.rel)
    BY <1>4, <1>6, <1>7, <2>1 DEF Reached
  <2> HIDE DEF a
  <2> QED
    BY <1>2, <1>6, <2>2, PassReaches DEF EndErase, Passes
<1> HIDE DEF e
<1>9. GoodModel(e.m) /\ Keeps(n, e.m) /\ e.ok \in BOOLEAN
  BY <1>8 DEF Reached
<1>10. Agree(running', e.m)
  BY <1>6, <1>9, AgreeOn
<1>11. OpsAreTyped' /\ OpNumbers'
  BY <1>1, FreesNumbers DEF AInv
<1> QED
  BY <1>1, <1>9, <1>10, <1>11 DEF AInv

LEMMA EventKeeps ==
  ASSUME AInv, NEW a \in Act, Event(a)
  PROVE  AInv'
<1> DEFINE s == BeginConvert(Start(model, a), a, Parameter[a])
<1>1. \A i \in Rels(a) : ~Chosen(Pattern[a].rel[i])
  BY PatternIs DEF Event, Chosen
<1>2. Parameter[a] \in Value /\ GoodModel(model)
  BY ActivitiesAssumption DEF AInv
<1>3. Reached(s, "begin", a, model, Select(model, a))
  BY <1>1, <1>2, BeginReaches
<1> HIDE DEF s
<1>4. GoodModel(s.m) /\ Keeps(model, s.m)
  BY <1>3 DEF Reached
<1>5. /\ model' = s.m /\ s.m.next =< MaxRes /\ check' \in BOOLEAN
      /\ UNCHANGED <<running, freeOps, nextOp, failed, latest>>
  BY DEF Event, s
<1>6. ~failed => Agree(running, s.m)
  BY <1>4, AgreeOn DEF AInv
<1>7. OpsAreTyped' /\ OpNumbers'
  BY <1>5 DEF AInv, OpsAreTyped, OpNumbers
<1> QED
  BY <1>4, <1>5, <1>6, <1>7 DEF AInv

LEMMA AInvNext ==
  AInv /\ [Next]_vars => AInv'
<1> SUFFICES ASSUME AInv, [Next]_vars PROVE AInv'
  OBVIOUS
<1>1. CASE Scan
  BY <1>1, RuleKeeps, OperationKeeps DEF Scan
<1>2. CASE NothingToDo
  BY <1>2 DEF NothingToDo, AInv, OpsAreTyped, OpNumbers
<1>6. CASE ScanFails
  BY <1>6 DEF ScanFails, AInv, OpsAreTyped, OpNumbers
<1>3. CASE \E o \in DOMAIN running : EndOperation(o)
  BY <1>3, EndKeeps
<1>4. CASE \E a \in Act : Event(a)
  BY <1>4, EventKeeps
<1>5. CASE UNCHANGED vars
  BY <1>5 DEF vars, AInv, OpsAreTyped, OpNumbers
<1> QED
  BY <1>1, <1>2, <1>3, <1>4, <1>5, <1>6 DEF Next

LEMMA AInvAlways ==
  Spec => []AInv
BY AInvInit, AInvNext, PTL DEF Spec

LEMMA AInvImplies ==
  AInv => TypeOK /\ OperationsKeepResources /\ RefsAgree /\ NumbersAgree
<1> SUFFICES ASSUME AInv PROVE TypeOK /\ OperationsKeepResources /\ RefsAgree /\ NumbersAgree
  OBVIOUS
<1>1. /\ model.next \in 0..MaxRes /\ model \in Model(model.next)
      /\ DOMAIN model.val = 0..(model.next - 1)
  BY ActivitiesAssumption DEF AInv, GoodModel, Model
<1>2. TypeOK
  BY <1>1 DEF AInv, OpsAreTyped, TypeOK
<1>3. OperationsKeepResources
  BY DEF OperationsKeepResources, AInv, Agree
<1>4. RefsAgree
  BY DEF RefsAgree, AInv, Agree, UsesInProgress, UsesOf
<1>5. NumbersAgree
  <2> DEFINE L == Range(model.list)
             F == Range(model.free)
             N == 0..(model.next - 1)
  <2>1. /\ \A r \in N : /\ r \in L <=> model.val[r] # None
                        /\ r \in F <=> model.val[r] = None
        /\ L \subseteq N /\ F \subseteq N
        /\ IsInjective(model.list) /\ IsInjective(model.free)
    BY DEF AInv, GoodModel
  <2> HIDE DEF L, F, N
  <2>2. L = {r \in N : model.val[r] # None} /\ L \cap F = {} /\ L \cup F = N
    BY <2>1
  <2> QED
    BY <1>1, <2>1, <2>2 DEF NumbersAgree, AInv, OpNumbers, L, F, N
<1> QED
  BY <1>2, <1>3, <1>4, <1>5

-----------------------------------------------------------------------------
(***************************************************************************)
(* The theorems.                                                           *)
(***************************************************************************)
\* The resources, the operations in progress and their numbers stay what they are,
\* whatever the patterns create, keep and erase.
THEOREM ActivitiesAreTyped == Spec => []TypeOK
BY AInvAlways, AInvImplies, PTL

\* An operation in progress finds in its end the resources it has chosen or created
\* in its begin and keeps.
THEOREM ResourcesAreKept == Spec => []OperationsKeepResources
BY AInvAlways, AInvImplies, PTL

\* m_referenceCount of a resource is the number of times operations in progress
\* refer to it.
THEOREM ReferencesAreCounted == Spec => []RefsAgree
BY AInvAlways, AInvImplies, PTL

\* No two resources, and no two operations in progress, have the same number, and
\* no number is lost.
THEOREM NumbersAreUnique == Spec => []NumbersAgree
BY AInvAlways, AInvImplies, PTL

-----------------------------------------------------------------------------
(***************************************************************************)
(* The trial of a rule.  A pattern does to the clone what it does to the   *)
(* resources, unless a reference makes it fail: the clone has none.        *)
(***************************************************************************)
Record(list, val, refs, free, next) ==
  [list |-> list, val |-> val, refs |-> refs, free |-> free, next |-> next]

Zero(f)   == [r \in DOMAIN f |-> 0]
Unused(m) == [m EXCEPT !.refs = Zero(m.refs)]
Blind(s)  == [s EXCEPT !.m = Unused(s.m)]

LEMMA UnusedRecord ==
  ASSUME NEW list, NEW val, NEW refs, NEW free, NEW next
  PROVE  Unused(Record(list, val, refs, free, next)) = Record(list, val, Zero(refs), free, next)
BY DEF Unused, Record

LEMMA UnusedIs ==
  ASSUME NEW m, GoodModel(m)
  PROVE  /\ m = Record(m.list, m.val, m.refs, m.free, m.next)
         /\ Unused(m) = Record(m.list, m.val, Zero(m.refs), m.free, m.next)
         /\ DOMAIN m.val = 0..(m.next - 1) /\ DOMAIN m.refs = 0..(m.next - 1)
<1>1. /\ m = Record(m.list, m.val, m.refs, m.free, m.next)
      /\ DOMAIN m.val = 0..(m.next - 1) /\ DOMAIN m.refs = 0..(m.next - 1)
  BY DEF GoodModel, Model, Record
<1>2. Unused(Record(m.list, m.val, m.refs, m.free, m.next)) =
        Record(m.list, m.val, Zero(m.refs), m.free, m.next)
  BY UnusedRecord
<1> QED
  BY <1>1, <1>2

LEMMA CreateIsBlind ==
  ASSUME NEW m, GoodModel(m), NEW v
  PROVE  CreateRes(Unused(m), v) = Unused(CreateRes(m, v)) /\ NewId(Unused(m)) = NewId(m)
<1> DEFINE u == Unused(m)
           r == NewId(m)
           grown == DOMAIN m.val \cup 0..r
           val == [s \in grown |-> IF s = r THEN v ELSE IF s \in DOMAIN m.val THEN m.val[s] ELSE None]
           refs(f) == [s \in grown |-> IF s # r /\ s \in DOMAIN f THEN f[s] ELSE 0]
           free == IF m.free = <<>> THEN <<>> ELSE Front(m.free)
           next == IF m.free = <<>> THEN m.next + 1 ELSE m.next
<1>1. /\ u.list = m.list /\ u.val = m.val /\ u.free = m.free /\ u.next = m.next
      /\ u.refs = Zero(m.refs)
  BY UnusedIs DEF Record
<1> HIDE DEF u
<1>2. NewId(u) = r
  BY <1>1 DEF NewId
<1>3. CreateRes(u, v) = Record(Append(m.list, r), val, refs(u.refs), free, next)
  BY <1>1, <1>2 DEF CreateRes, Record
<1>4. CreateRes(m, v) = Record(Append(m.list, r), val, refs(m.refs), free, next)
  BY DEF CreateRes, Record
<1>5. refs(u.refs) = Zero(refs(m.refs))
  BY <1>1 DEF Zero
<1> HIDE DEF r, val, refs, free, next
<1>6. Unused(CreateRes(m, v)) = Record(Append(m.list, r), val, Zero(refs(m.refs)), free, next)
  BY <1>4, UnusedRecord
<1> QED
  BY <1>2, <1>3, <1>5, <1>6 DEF u, r

LEMMA EraseIsBlind ==
  ASSUME NEW m, GoodModel(m), NEW r, Exists(m, r)
  PROVE  EraseRes(Unused(m), r) = Unused(EraseRes(m, r))
<1> DEFINE i == CHOOSE j \in DOMAIN m.list : m.list[j] = r
           n == EraseRes(m, r)
           u == Unused(m)
           val == [m.val EXCEPT ![r] = None]
<1>1. /\ m = Record(m.list, m.val, m.refs, m.free, m.next)
      /\ u = Record(m.list, m.val, Zero(m.refs), m.free, m.next)
  BY UnusedIs
<1> HIDE DEF u
<1>2. n = [m EXCEPT !.list = RemoveAt(@, i), !.val[r] = None, !.free = Append(@, r)]
  BY DEF EraseRes
<1>3. EraseRes(u, r) = [u EXCEPT !.list = RemoveAt(@, i), !.val[r] = None, !.free = Append(@, r)]
  BY <1>1 DEF EraseRes, Record
<1> HIDE DEF i, n
<1>4. n = Record(RemoveAt(m.list, i), val, m.refs, Append(m.free, r), m.next)
  BY <1>1, <1>2 DEF Record
<1>5. EraseRes(u, r) = Record(RemoveAt(m.list, i), val, Zero(m.refs), Append(m.free, r), m.next)
  BY <1>1, <1>3 DEF Record
<1> HIDE DEF val
<1>6. Unused(n) = Record(RemoveAt(m.list, i), val, Zero(m.refs), Append(m.free, r), m.next)
  BY <1>4, UnusedRecord
<1> QED
  BY <1>5, <1>6 DEF n, u

LEMMA BlindIs ==
  ASSUME NEW s, NEW m, NEW rel, NEW ok, s = [m |-> m, rel |-> rel, ok |-> ok]
  PROVE  Blind(s) = [m |-> Unused(m), rel |-> rel, ok |-> ok]
BY DEF Blind

LEMMA ConvertIsBlind ==
  ASSUME NEW s, s = [m |-> s.m, rel |-> s.rel, ok |-> s.ok], GoodModel(s.m),
         NEW i, NEW status, NEW v, Convert(s, i, status, v).ok
  PROVE  Convert(Blind(s), i, status, v) = Blind(Convert(s, i, status, v))
<1> DEFINE b == Blind(s)
           m == s.m
           u == Unused(m)
<1>1. b = [m |-> u, rel |-> s.rel, ok |-> s.ok]
  BY BlindIs
<1>2. /\ m = Record(m.list, m.val, m.refs, m.free, m.next)
      /\ u = Record(m.list, m.val, Zero(m.refs), m.free, m.next)
  BY UnusedIs
<1> HIDE DEF b, u
<1>3. CASE status = "Keep" /\ Exists(m, s.rel[i])
  <2> DEFINE w == [m.val EXCEPT ![s.rel[i]] = v]
             n == Record(m.list, w, m.refs, m.free, m.next)
  <2>1. Convert(s, i, status, v) = [s EXCEPT !.m.val[s.rel[i]] = v]
    BY <1>3 DEF Convert
  <2>2. [s EXCEPT !.m.val[s.rel[i]] = v] = [m |-> n, rel |-> s.rel, ok |-> s.ok]
    BY <1>2 DEF Record
  <2>3. Exists(u, b.rel[i])
    BY <1>1, <1>2, <1>3 DEF Exists, Record
  <2>4. Convert(b, i, status, v) = [b EXCEPT !.m.val[b.rel[i]] = v]
    BY <1>1, <1>3, <2>3 DEF Convert
  <2>5. [b EXCEPT !.m.val[b.rel[i]] = v] =
          [m |-> Record(m.list, w, Zero(m.refs), m.free, m.next), rel |-> s.rel, ok |-> s.ok]
    BY <1>1, <1>2 DEF Record
  <2> HIDE DEF w
  <2>6. Unused(n) = Record(m.list, w, Zero(m.refs), m.free, m.next)
    BY UnusedRecord
  <2> HIDE DEF n
  <2> QED
    BY <2>1, <2>2, <2>4, <2>5, <2>6, BlindIs DEF b
<1>4. CASE status = "Keep" /\ ~Exists(m, s.rel[i])
  <2>1. Convert(s, i, status, v) = [m |-> s.m, rel |-> s.rel, ok |-> FALSE]
    BY <1>4 DEF Convert
  <2> QED
    BY <2>1
<1>5. CASE status = "Create"
  <2>1. Convert(s, i, status, v) =
          [m |-> CreateRes(m, v), rel |-> [s.rel EXCEPT ![i] = NewId(m)], ok |-> s.ok]
    BY <1>5 DEF Convert
  <2>2. Convert(b, i, status, v) =
          [m |-> CreateRes(u, v), rel |-> [s.rel EXCEPT ![i] = NewId(u)], ok |-> s.ok]
    BY <1>1, <1>5 DEF Convert
  <2>3. CreateRes(u, v) = Unused(CreateRes(m, v)) /\ NewId(u) = NewId(m)
    BY CreateIsBlind DEF u
  <2> QED
    BY <2>1, <2>2, <2>3, BlindIs DEF b
<1>6. CASE status \notin {"Keep", "Create"}
  BY <1>6 DEF Convert, b
<1> QED
  BY <1>3, <1>4, <1>5, <1>6 DEF b

LEMMA EraseOnBlind ==
  ASSUME NEW s, s = [m |-> s.m, rel |-> s.rel, ok |-> s.ok], GoodModel(s.m),
         NEW i, NEW status, Erase(s, i, status).ok
  PROVE  Erase(Blind(s), i, status) = Blind(Erase(s, i, status))
<1> DEFINE b == Blind(s)
           m == s.m
           u == Unused(m)
<1>1. b = [m |-> u, rel |-> s.rel, ok |-> s.ok]
  BY BlindIs
<1>2. /\ u.val = m.val /\ u.refs = Zero(m.refs) /\ DOMAIN m.refs = DOMAIN m.val
  BY UnusedIs DEF Record
<1> HIDE DEF b, u
<1>3. CASE status = "Erase" /\ Erasable(m, s.rel[i])
  <2>1. Erasable(u, b.rel[i])
    BY <1>1, <1>2, <1>3 DEF Erasable, Exists, Zero
  <2>2. Erase(s, i, status) = [m |-> EraseRes(m, s.rel[i]), rel |-> s.rel, ok |-> s.ok]
    BY <1>3 DEF Erase
  <2>3. Erase(b, i, status) = [m |-> EraseRes(u, s.rel[i]), rel |-> s.rel, ok |-> s.ok]
    BY <1>1, <1>3, <2>1 DEF Erase
  <2>4. EraseRes(u, s.rel[i]) = Unused(EraseRes(m, s.rel[i]))
    BY <1>3, EraseIsBlind DEF u, Erasable
  <2> QED
    BY <2>2, <2>3, <2>4, BlindIs DEF b
<1>4. CASE status = "Erase" /\ ~Erasable(m, s.rel[i])
  <2>1. Erase(s, i, status) = [m |-> s.m, rel |-> s.rel, ok |-> FALSE]
    BY <1>4 DEF Erase
  <2> QED
    BY <2>1
<1>5. CASE status # "Erase"
  BY <1>5 DEF Erase, b
<1> QED
  BY <1>3, <1>4, <1>5 DEF b

LEMMA DoIsBlind ==
  ASSUME NEW s, s = [m |-> s.m, rel |-> s.rel, ok |-> s.ok], GoodModel(s.m),
         NEW pass \in Passes, NEW a, NEW i, NEW p, Do(pass, s, a, i, p).ok
  PROVE  Do(pass, Blind(s), a, i, p) = Blind(Do(pass, s, a, i, p))
<1> DEFINE r == Pattern[a].rel[i]
           v == IF r.to = ByParameter THEN p ELSE r.to
<1>1. CASE pass = "begin"
  <2>1. \A x : Do(pass, x, a, i, p) = Convert(x, i, r.begin, v)
    BY <1>1 DEF Do
  <2> HIDE DEF r, v
  <2> QED
    BY <2>1, ConvertIsBlind
<1>2. CASE pass = "end"
  <2>1. \A x : Do(pass, x, a, i, p) = Convert(x, i, r.end, r.last)
    BY <1>2 DEF Do
  <2> HIDE DEF r
  <2> QED
    BY <2>1, ConvertIsBlind
<1>3. CASE pass = "begin erase"
  <2>1. \A x : Do(pass, x, a, i, p) = Erase(x, i, r.begin)
    BY <1>3 DEF Do
  <2> HIDE DEF r
  <2> QED
    BY <2>1, EraseOnBlind
<1>4. CASE pass = "end erase"
  <2>1. \A x : Do(pass, x, a, i, p) = Erase(x, i, r.end)
    BY <1>4 DEF Do
  <2> HIDE DEF r
  <2> QED
    BY <2>1, EraseOnBlind
<1> QED
  BY <1>1, <1>2, <1>3, <1>4 DEF Passes

LEMMA PassIsBlind ==
  ASSUME NEW a \in Act, NEW pass \in Passes, NEW m, GoodModel(m), NEW rel, NEW s,
         Reached(s, pass, a, m, rel), NEW p, pass = "begin" => p \in Value,
         Pass(pass, s, a, p).ok
  PROVE  Pass(pass, Blind(s), a, p) = Blind(Pass(pass, s, a, p)) /\ s.ok
<1> DEFINE n == Len(Pattern[a].rel)
           b == Blind(s)
<1>1. n \in Nat /\ Rels(a) = 1..n
  BY PatternIs
<1>2. PICK f : /\ f[0] = s
               /\ \A i \in 1..n : f[i] = IF f[i - 1].ok THEN Do(pass, f[i - 1], a, i, p) ELSE f[i - 1]
               /\ Pass(pass, s, a, p) = f[n]
  BY <1>1, PassSteps
<1>3. PICK g : /\ g[0] = b
               /\ \A i \in 1..n : g[i] = IF g[i - 1].ok THEN Do(pass, g[i - 1], a, i, p) ELSE g[i - 1]
               /\ Pass(pass, b, a, p) = g[n]
  BY <1>1, PassSteps
<1> DEFINE S == {i \in 0..n : /\ Reached(f[i], pass, a, m, rel)
                              /\ f[i].ok => g[i] = Blind(f[i]) /\ s.ok}
<1> HIDE DEF n, b
<1>4. 0 \in S
  BY <1>1, <1>2, <1>3 DEF b
<1>5. ASSUME NEW i \in 1..n, i - 1 \in S
      PROVE  i \in S
  <2>1. Reached(f[i - 1], pass, a, m, rel) /\ (f[i - 1].ok => g[i - 1] = Blind(f[i - 1]) /\ s.ok)
    BY <1>5
  <2>2. CASE ~f[i - 1].ok
    <3>1. f[i] = f[i - 1]
      BY <1>2, <2>2
    <3> QED
      BY <1>1, <2>1, <2>2, <3>1
  <2>3. CASE f[i - 1].ok
    <3> DEFINE x == f[i - 1]
    <3>1. f[i] = Do(pass, x, a, i, p)
      BY <1>2, <2>3
    <3>2. Reached(f[i], pass, a, m, rel)
      BY <1>1, <2>1, <3>1, DoReaches
    <3>3. x = [m |-> x.m, rel |-> x.rel, ok |-> x.ok] /\ GoodModel(x.m) /\ g[i - 1] = Blind(x)
      BY <2>1, <2>3 DEF Reached
    <3> HIDE DEF x
    <3>4. g[i - 1].ok
      BY <2>3, <3>3, BlindIs DEF x
    <3>5. g[i] = Do(pass, g[i - 1], a, i, p)
      BY <1>3, <3>4
    <3>6. f[i].ok => g[i] = Blind(f[i])
      BY <3>1, <3>3, <3>5, DoIsBlind
    <3> QED
      BY <1>1, <2>1, <2>3, <3>2, <3>6
  <2> QED
    BY <2>2, <2>3
<1> HIDE DEF S
<1>6. 0..n \subseteq S
  BY <1>1, <1>4, <1>5, UpTo
<1>7. n \in S
  BY <1>1, <1>6
<1> QED
  BY <1>2, <1>3, <1>7 DEF S, b

\* The rule does to the resources what it did to the clone.
LEMMA TrialIsTrue ==
  ASSUME NEW a \in Act, NEW p \in Value, GoodModel(model), Choice(a), Apply(model, a, p).ok
  PROVE  Apply(Unused(model), a, p) = Blind(Apply(model, a, p))
<1> DEFINE u == Unused(model)
           s == Start(model, a)
           c == BeginConvert(s, a, p)
<1>1. /\ Reached(s, "begin", a, model, Select(model, a))
      /\ Reached(c, "begin", a, model, Select(model, a))
      /\ Reached(c, "begin erase", a, model, c.rel)
  <2>1. \A i \in Rels(a) : Chosen(Pattern[a].rel[i]) => Fits(model, Pattern[a].rel[i]) # {}
    BY ChoiceIs
  <2>2. Reached(s, "begin", a, model, Select(model, a))
    BY <2>1, SelectIs, KeepsItself DEF Reached, Start
  <2>3. Reached(c, "begin", a, model, Select(model, a))
    BY <2>1, BeginReaches
  <2> QED
    BY <2>2, <2>3 DEF Reached
<1>2. Start(u, a) = Blind(s)
  <2>1. u.list = model.list /\ u.val = model.val
    BY UnusedIs DEF Record
  <2>2. Select(u, a) = Select(model, a)
    BY <2>1 DEF Select, Fits
  <2>3. s.m = model /\ s.rel = Select(model, a) /\ s.ok = TRUE
    BY DEF Start
  <2>4. Start(u, a).m = u /\ Start(u, a).rel = Select(model, a) /\ Start(u, a).ok = TRUE
    BY <2>2 DEF Start
  <2>5. Start(u, a) = [m |-> u, rel |-> Start(u, a).rel, ok |-> Start(u, a).ok]
    BY DEF Start
  <2> HIDE DEF s, u
  <2>6. s = [m |-> s.m, rel |-> s.rel, ok |-> s.ok]
    BY <1>1 DEF Reached
  <2>7. Blind(s) = [m |-> Unused(s.m), rel |-> s.rel, ok |-> s.ok]
    BY <2>6, BlindIs
  <2> QED
    BY <2>3, <2>4, <2>5, <2>7 DEF u
<1> HIDE DEF u, s, c
<1>3. Apply(model, a, p) = BeginErase(c, a)
  BY DEF Apply, c, s
<1>4. BeginErase(Blind(c), a) = Blind(BeginErase(c, a)) /\ c.ok
  <2> DEFINE rel == c.rel
  <2>1. Pass("begin erase", c, a, None).ok
    BY <1>3 DEF BeginErase
  <2>2. Reached(c, "begin erase", a, model, rel)
    BY <1>1
  <2> HIDE DEF rel
  <2>3. /\ Pass("begin erase", Blind(c), a, None) = Blind(Pass("begin erase", c, a, None))
        /\ c.ok
    BY <2>1, <2>2, PassIsBlind DEF Passes
  <2> QED
    BY <2>3 DEF BeginErase
<1>5. BeginConvert(Blind(s), a, p) = Blind(c)
  <2>1. c = Pass("begin", s, a, p)
    BY DEF BeginConvert, c
  <2> DEFINE rel == Select(model, a)
  <2>2. Reached(s, "begin", a, model, rel) /\ Pass("begin", s, a, p).ok
    BY <1>1, <1>4, <2>1
  <2> HIDE DEF rel
  <2>3. Pass("begin", Blind(s), a, p) = Blind(Pass("begin", s, a, p))
    <3>1. "begin" \in Passes /\ a \in Act /\ p \in Value /\ GoodModel(model)
      BY DEF Passes
    <3> QED
      BY ONLY <3>1, <2>2, PassIsBlind
  <2> QED
    BY <2>1, <2>3 DEF BeginConvert
<1> QED
  BY <1>2, <1>3, <1>4, <1>5 DEF Apply, u

\* The clone has all numbers if the highest one is in use.
LEMMA CloneIs ==
  ASSUME NEW m, GoodModel(m), NEW r \in Range(m.list), r + 1 \notin DOMAIN m.val
  PROVE  Clone(m) = Unused(m)
<1>1. /\ m = Record(m.list, m.val, m.refs, m.free, m.next)
      /\ Unused(m) = Record(m.list, m.val, Zero(m.refs), m.free, m.next)
      /\ DOMAIN m.val = 0..(m.next - 1) /\ DOMAIN m.refs = 0..(m.next - 1)
  BY UnusedIs
<1>2. r \in 0..(m.next - 1) /\ m.next \in Nat
  BY DEF GoodModel
<1>3. r = m.next - 1
  BY <1>1, <1>2
<1>4. {x \in DOMAIN m.val : \E s \in Range(m.list) : x =< s} = DOMAIN m.val
  BY <1>1, <1>2, <1>3
<1>5. m.val = [x \in DOMAIN m.val |-> m.val[x]]
  BY DEF GoodModel, Model
<1>6. Clone(m) = [m EXCEPT !.val = m.val, !.refs = [x \in DOMAIN m.val |-> 0]]
  BY <1>4, <1>5 DEF Clone
<1>7. [x \in DOMAIN m.val |-> 0] = Zero(m.refs)
  BY <1>1 DEF Zero
<1>8. Clone(m) = [m EXCEPT !.val = m.val, !.refs = Zero(m.refs)]
  BY <1>6, <1>7
<1> QED
  BY <1>1, <1>8 DEF Record

LEMMA RulesChange ==
  ASSUME AInv, OneParameterEach, Scan, ~failed', Pattern[latest'.act].kind = "rule",
         model'.val = model.val, NEW r \in Range(model.list)
  PROVE  r + 1 \in DOMAIN model.val
<1>1. PICK t \in Taken : RunRule(t)
  <2>1. PICK t \in Taken : RunRule(t) \/ BeginOperation(t)
    BY DEF Scan
  <2>2. latest' = t
    BY <2>1 DEF RunRule, BeginOperation
  <2> QED
    BY <2>1, <2>2 DEF BeginOperation
<1>2. /\ t.act \in Act /\ t.with \in Value /\ Choice(t.act) /\ Ready(t.act)
      /\ t.with = Parameter[t.act]
  BY TakenIs
<1> DEFINE s == Apply(model, t.act, t.with)
<1>3. GoodModel(model) /\ s.ok \in BOOLEAN /\ s = [m |-> s.m, rel |-> s.rel, ok |-> s.ok]
      /\ GoodModel(s.m)
  <2> DEFINE c == BeginConvert(Start(model, t.act), t.act, t.with)
  <2>1. Reached(BeginErase(c, t.act), "begin erase", t.act, model, c.rel)
    BY <1>2, ChoiceIs, BeginReaches DEF AInv
  <2> QED
    BY <2>1 DEF Reached, Apply, AInv
<1>4. s.ok /\ model' = s.m
  BY <1>1, <1>3 DEF RunRule
<1>5. ~Equal(Apply(Clone(model), t.act, Parameter[t.act]).m, model)
  BY <1>1, <1>2 DEF Ready, Trial, RunRule
<1>6. Apply(Unused(model), t.act, t.with) = Blind(s)
  BY <1>2, <1>3, <1>4, TrialIsTrue
<1> HIDE DEF s
<1>7. Blind(s).m.val = model.val
  BY <1>3, <1>4, BlindIs, UnusedIs DEF Record
<1> SUFFICES ASSUME r + 1 \notin DOMAIN model.val PROVE FALSE
  OBVIOUS
<1>8. Clone(model) = Unused(model)
  BY <1>3, CloneIs
<1> QED
  BY <1>2, <1>5, <1>6, <1>7, <1>8 DEF Equal

-----------------------------------------------------------------------------
\* A rule that is run has changed the resources, unless the number of the last one
\* erased is the highest: what is tried is what is done, when the decision points do
\* not change the parameters between.
THEOREM RulesAreNotIdle ==
  ASSUME OneParameterEach
  PROVE  Spec => NoIdleRule
<1>1. AInv /\ [Next]_vars =>
        [Scan /\ ~failed' /\ Pattern[latest'.act].kind = "rule" /\ model'.val = model.val
           => \A r \in Range(model.list) : r + 1 \in DOMAIN model.val]_vars
  BY RulesChange
<1> QED
  BY <1>1, AInvAlways, PTL DEF Spec, NoIdleRule

-----------------------------------------------------------------------------
(***************************************************************************)
(* The other way round: what could be done to the clone can be done to the *)
(* resources, whatever values are set, unless a resource to be erased is   *)
(* in use.  The clone has the same resources and free numbers.             *)
(***************************************************************************)
Shape(m) == /\ m = Record(m.list, m.val, m.refs, m.free, m.next)
            /\ m.val = [r \in DOMAIN m.val |-> m.val[r]]

Alike(k, m) == /\ k.free = m.free /\ k.next = m.next
               /\ \A r : Exists(k, r) <=> Exists(m, r)

LEMMA GoodShape ==
  ASSUME NEW m, GoodModel(m)
  PROVE  Shape(m)
<1>1. m = Record(m.list, m.val, m.refs, m.free, m.next)
  BY UnusedIs
<1>2. m.val = [r \in DOMAIN m.val |-> m.val[r]]
  BY DEF GoodModel, Model
<1> QED
  BY <1>1, <1>2 DEF Shape

LEMMA SetExists ==
  ASSUME NEW m, Shape(m), NEW r, Exists(m, r), NEW v \in Value
  PROVE  LET n == [m EXCEPT !.val[r] = v]
         IN  Shape(n) /\ Alike(n, m)
<1> DEFINE val == [m.val EXCEPT ![r] = v]
           n == [m EXCEPT !.val[r] = v]
<1>1. n = Record(m.list, val, m.refs, m.free, m.next)
  BY DEF Shape, Record
<1>2. val = [s \in DOMAIN m.val |-> IF s = r THEN v ELSE m.val[s]] /\ v # None
  BY ActivitiesAssumption DEF Shape
<1> HIDE DEF val, n
<1>3. n.list = m.list /\ n.val = val /\ n.refs = m.refs /\ n.free = m.free /\ n.next = m.next
  BY <1>1 DEF Record
<1>4. \A s : Exists(n, s) <=> Exists(m, s)
  BY <1>2, <1>3 DEF Exists
<1>5. val = [s \in DOMAIN val |-> val[s]]
  BY <1>2
<1> QED
  BY <1>1, <1>3, <1>4, <1>5 DEF Shape, Alike, n

LEMMA CreateExists ==
  ASSUME NEW m, Shape(m), NewId(m) \in Nat, NEW v \in Value
  PROVE  LET n == CreateRes(m, v)
         IN  /\ Shape(n)
             /\ n.free = IF m.free = <<>> THEN <<>> ELSE Front(m.free)
             /\ n.next = IF m.free = <<>> THEN m.next + 1 ELSE m.next
             /\ \A s : Exists(n, s) <=> s = NewId(m) \/ Exists(m, s)
<1> DEFINE n == CreateRes(m, v)
           r == NewId(m)
           grown == DOMAIN m.val \cup 0..r
           val == [s \in grown |-> IF s = r THEN v ELSE IF s \in DOMAIN m.val THEN m.val[s] ELSE None]
           refs == [s \in grown |-> IF s # r /\ s \in DOMAIN m.refs THEN m.refs[s] ELSE 0]
           free == IF m.free = <<>> THEN <<>> ELSE Front(m.free)
           next == IF m.free = <<>> THEN m.next + 1 ELSE m.next
<1>1. n = Record(Append(m.list, r), val, refs, free, next)
  BY DEF CreateRes, Record
<1>2. r \in grown /\ DOMAIN m.val \subseteq grown /\ v # None
  BY ActivitiesAssumption
<1>3. /\ DOMAIN val = grown
      /\ \A s \in grown : val[s] = IF s = r THEN v ELSE IF s \in DOMAIN m.val THEN m.val[s] ELSE None
      /\ val = [s \in DOMAIN val |-> val[s]]
  OBVIOUS
<1> HIDE DEF n, r, grown, val, refs, free, next
<1>4. /\ n.list = Append(m.list, r) /\ n.val = val /\ n.refs = refs /\ n.free = free
      /\ n.next = next
  BY <1>1 DEF Record
<1>5. \A s : Exists(n, s) <=> s = r \/ Exists(m, s)
  BY <1>2, <1>3, <1>4 DEF Exists
<1> QED
  BY <1>1, <1>3, <1>4, <1>5 DEF Shape, n, r, free, next

LEMMA EraseExists ==
  ASSUME NEW m, Shape(m), NEW r, Exists(m, r)
  PROVE  LET n == EraseRes(m, r)
         IN  /\ Shape(n) /\ n.free = Append(m.free, r) /\ n.next = m.next
             /\ \A s : Exists(n, s) <=> s # r /\ Exists(m, s)
<1> DEFINE i == CHOOSE j \in DOMAIN m.list : m.list[j] = r
           n == EraseRes(m, r)
           val == [m.val EXCEPT ![r] = None]
<1>1. n = [m EXCEPT !.list = RemoveAt(@, i), !.val[r] = None, !.free = Append(@, r)]
  BY DEF EraseRes
<1> HIDE DEF i, n
<1>2. n = Record(RemoveAt(m.list, i), val, m.refs, Append(m.free, r), m.next)
  BY <1>1 DEF Shape, Record
<1>3. val = [s \in DOMAIN m.val |-> IF s = r THEN None ELSE m.val[s]]
  BY DEF Shape
<1> HIDE DEF val
<1>4. n.val = val /\ n.list = RemoveAt(m.list, i) /\ n.refs = m.refs /\ n.free = Append(m.free, r)
      /\ n.next = m.next
  BY <1>2 DEF Record
<1>5. \A s : Exists(n, s) <=> s # r /\ Exists(m, s)
  BY <1>3, <1>4 DEF Exists
<1>6. val = [s \in DOMAIN val |-> val[s]]
  BY <1>3
<1> QED
  BY <1>2, <1>4, <1>5, <1>6 DEF Shape, n

\* The trial x has come as far as the rule s.
Follows(x, s) == /\ x = [m |-> x.m, rel |-> x.rel, ok |-> x.ok] /\ x.ok /\ x.rel = s.rel
                 /\ Shape(x.m) /\ Alike(x.m, s.m)

LEMMA FollowsIs ==
  ASSUME NEW k, NEW m, NEW rel, NEW o, NEW ok, Shape(k), Alike(k, m), o
  PROVE  Follows([m |-> k, rel |-> rel, ok |-> o], [m |-> m, rel |-> rel, ok |-> ok])
BY DEF Follows

LEMMA ConvertFollows ==
  ASSUME NEW s, s = [m |-> s.m, rel |-> s.rel, ok |-> s.ok], s.ok, GoodModel(s.m),
         NEW x, Follows(x, s), NEW i, NEW status, NEW v \in Value, NEW w \in Value,
         Convert(x, i, status, w).ok
  PROVE  LET c == Convert(s, i, status, v)
         IN  c.ok /\ Follows(Convert(x, i, status, w), c)
<1> DEFINE m == s.m
           k == x.m
<1>1. /\ x = [m |-> k, rel |-> x.rel, ok |-> x.ok] /\ x.ok /\ x.rel = s.rel
      /\ Shape(k) /\ Alike(k, m) /\ Shape(m)
  BY GoodShape DEF Follows
<1>2. CASE status = "Keep"
  <2> DEFINE r == s.rel[i]
             n == [m EXCEPT !.val[r] = v]
             l == [k EXCEPT !.val[r] = w]
  <2>1. Exists(k, r)
    BY <1>1, <1>2 DEF Convert
  <2>2. Exists(m, r)
    BY <1>1, <2>1 DEF Alike
  <2>3. Convert(s, i, status, v) = [s EXCEPT !.m.val[s.rel[i]] = v]
    BY <1>2, <2>2 DEF Convert
  <2>4. [s EXCEPT !.m.val[s.rel[i]] = v] = [m |-> n, rel |-> s.rel, ok |-> s.ok]
    BY ONLY s = [m |-> s.m, rel |-> s.rel, ok |-> s.ok]
  <2>5. Convert(x, i, status, w) = [x EXCEPT !.m.val[x.rel[i]] = w]
    BY <1>1, <1>2, <2>1 DEF Convert
  <2>6. [x EXCEPT !.m.val[x.rel[i]] = w] = [m |-> l, rel |-> s.rel, ok |-> x.ok]
    <3>1. x = [m |-> x.m, rel |-> x.rel, ok |-> x.ok] /\ x.rel = s.rel
      BY <1>1
    <3> QED
      BY ONLY <3>1
  <2>7. Alike(n, m) /\ Alike(l, k) /\ Shape(l)
    BY <1>1, <2>1, <2>2, SetExists
  <2> HIDE DEF n, l, r, m, k
  <2>8. Alike(l, n)
    BY <1>1, <2>7 DEF Alike
  <2> QED
    BY <2>3, <2>4, <2>5, <2>6, <2>7, <2>8, FollowsIs
<1>3. CASE status = "Create"
  <2> DEFINE n == CreateRes(m, v)
             l == CreateRes(k, w)
             r == NewId(m)
  <2>1. r \in Nat /\ NewId(k) = r /\ k.free = m.free /\ k.next = m.next
    BY <1>1, CreateKeeps DEF NewId, Alike
  <2>2. Convert(s, i, status, v) = [m |-> n, rel |-> [s.rel EXCEPT ![i] = r], ok |-> s.ok]
    BY <1>3 DEF Convert
  <2>3. Convert(x, i, status, w) = [m |-> l, rel |-> [s.rel EXCEPT ![i] = r], ok |-> x.ok]
    BY <1>1, <1>3, <2>1 DEF Convert
  <2>4. /\ n.free = (IF m.free = <<>> THEN <<>> ELSE Front(m.free))
        /\ n.next = (IF m.free = <<>> THEN m.next + 1 ELSE m.next)
        /\ \A q : Exists(n, q) <=> q = r \/ Exists(m, q)
    BY <1>1, <2>1, CreateExists
  <2>5. /\ l.free = (IF k.free = <<>> THEN <<>> ELSE Front(k.free))
        /\ l.next = (IF k.free = <<>> THEN k.next + 1 ELSE k.next)
        /\ \A q : Exists(l, q) <=> q = r \/ Exists(k, q)
        /\ Shape(l)
    BY <1>1, <2>1, CreateExists
  <2> HIDE DEF n, l, r, m, k
  <2>6. Alike(l, n)
    BY <1>1, <2>1, <2>4, <2>5 DEF Alike
  <2> QED
    BY <2>2, <2>3, <2>5, <2>6, FollowsIs
<1>4. CASE status \notin {"Keep", "Create"}
  BY <1>4 DEF Convert
<1> QED
  BY <1>2, <1>3, <1>4

LEMMA EraseFollows ==
  ASSUME NEW s, s = [m |-> s.m, rel |-> s.rel, ok |-> s.ok], s.ok, GoodModel(s.m),
         NEW x, Follows(x, s), NEW i, NEW status, Erase(x, i, status).ok,
         status = "Erase" /\ Exists(s.m, s.rel[i]) => s.m.refs[s.rel[i]] = 0
  PROVE  LET e == Erase(s, i, status)
         IN  e.ok /\ e.rel = s.rel /\ Follows(Erase(x, i, status), e)
<1> DEFINE m == s.m
           k == x.m
           r == s.rel[i]
           n == EraseRes(m, r)
           l == EraseRes(k, r)
<1>1. /\ x = [m |-> k, rel |-> x.rel, ok |-> x.ok] /\ x.ok /\ x.rel = s.rel
      /\ Shape(k) /\ Alike(k, m) /\ Shape(m)
  BY GoodShape DEF Follows
<1>2. CASE status = "Erase"
  <2>1. Erasable(k, r)
    BY <1>1, <1>2 DEF Erase
  <2>2. Exists(k, r) /\ Exists(m, r) /\ Erasable(m, r)
    BY <1>1, <1>2, <2>1 DEF Erasable, Alike
  <2>3. Erase(s, i, status) = [m |-> n, rel |-> s.rel, ok |-> s.ok]
    BY <1>2, <2>2 DEF Erase
  <2>4. Erase(x, i, status) = [m |-> l, rel |-> s.rel, ok |-> x.ok]
    BY <1>1, <1>2, <2>1 DEF Erase
  <2>5. n.free = Append(m.free, r) /\ n.next = m.next /\ \A q : Exists(n, q) <=> q # r /\ Exists(m, q)
    BY <1>1, <2>2, EraseExists
  <2>6. /\ Shape(l) /\ l.free = Append(k.free, r) /\ l.next = k.next
        /\ \A q : Exists(l, q) <=> q # r /\ Exists(k, q)
    BY <1>1, <2>2, EraseExists
  <2> HIDE DEF n, l, r, m, k
  <2>7. Alike(l, n)
    BY <1>1, <2>5, <2>6 DEF Alike
  <2> QED
    BY <2>3, <2>4, <2>6, <2>7, FollowsIs
<1>3. CASE status # "Erase"
  BY <1>3 DEF Erase
<1> QED
  BY <1>2, <1>3

\* After an error a pass does nothing.
LEMMA PassWasOk ==
  ASSUME NEW pass, NEW s, NEW a \in Act, NEW p, Pass(pass, s, a, p).ok
  PROVE  s.ok
<1> DEFINE n == Len(Pattern[a].rel)
<1>1. n \in Nat
  BY PatternIs
<1>2. PICK f : /\ f[0] = s
               /\ \A i \in 1..n : f[i] = IF f[i - 1].ok THEN Do(pass, f[i - 1], a, i, p) ELSE f[i - 1]
               /\ Pass(pass, s, a, p) = f[n]
  BY <1>1, PassSteps
<1> DEFINE S == {i \in 0..n : f[i].ok => s.ok}
<1> HIDE DEF n
<1>3. 0 \in S
  BY <1>1, <1>2
<1>4. ASSUME NEW i \in 1..n, i - 1 \in S
      PROVE  i \in S
  <2>1. f[i].ok => f[i - 1].ok
    BY <1>2
  <2> QED
    BY <1>1, <1>4, <2>1
<1> HIDE DEF S
<1>5. 0..n \subseteq S
  BY <1>1, <1>3, <1>4, UpTo
<1>6. n \in S
  BY <1>1, <1>5
<1> QED
  BY <1>2, <1>6 DEF S

\* So far, in a pass over a, the trial x has foretold the rule s, and the resources
\* to be erased are those chosen.
Foretold(x, s, pass, a, m, rel, sel) ==
  /\ Reached(s, pass, a, m, rel) /\ s.ok /\ Follows(x, s)
  /\ \A j \in Rels(a) : Pattern[a].rel[j].begin = "Erase" => s.rel[j] = sel[j]

Begins == {"begin", "begin erase"}

LEMMA DoForetold ==
  ASSUME NEW a \in Act, NEW pass \in Begins, NEW m, GoodModel(m),
         NEW rel, NEW sel, NEW s, NEW x, Foretold(x, s, pass, a, m, rel, sel),
         NEW i \in Rels(a), NEW p, NEW q, pass = "begin" => p \in Value /\ q \in Value,
         \A j \in Rels(a) : Pattern[a].rel[j].begin = "Erase" => Counts(m, sel[j]) = 0,
         Do(pass, x, a, i, q).ok
  PROVE  Foretold(Do(pass, x, a, i, q), Do(pass, s, a, i, p), pass, a, m, rel, sel)
<1> DEFINE r == Pattern[a].rel[i]
           v == IF r.to = ByParameter THEN p ELSE r.to
           w == IF r.to = ByParameter THEN q ELSE r.to
           d == Do(pass, s, a, i, p)
<1>1. /\ s = [m |-> s.m, rel |-> s.rel, ok |-> s.ok] /\ s.ok /\ GoodModel(s.m)
      /\ Keeps(m, s.m) /\ s.rel \in [Rels(a) -> Nat \cup {None}] /\ Follows(x, s)
      /\ Reached(s, pass, a, m, rel)
      /\ \A j \in Rels(a) : Pattern[a].rel[j].begin = "Erase" => s.rel[j] = sel[j]
  BY DEF Foretold, Reached
<1>2. Reached(d, pass, a, m, rel)
  BY <1>1, DoReaches DEF Passes, Begins
<1>3. CASE pass = "begin"
  <2>1. d = Convert(s, i, r.begin, v) /\ Do(pass, x, a, i, q) = Convert(x, i, r.begin, w)
    BY <1>3 DEF Do
  <2>2. v \in Value /\ w \in Value
    BY <1>3, PatternIs DEF Relevant
  <2> DEFINE b == r.begin
  <2>3. b = "Create" => Pattern[a].rel[i].begin # "Erase"
    OBVIOUS
  <2> HIDE DEF r, v, w, d
  <2>4. d.ok /\ Follows(Do(pass, x, a, i, q), d)
    <3>1. Convert(x, i, r.begin, w).ok
      BY <2>1
    <3>2. d.ok /\ Follows(Convert(x, i, r.begin, w), d)
      BY ONLY <1>1, <2>1, <2>2, <3>1, ConvertFollows
    <3> QED
      BY <2>1, <3>2
  <2>5. \A j \in Rels(a) : Pattern[a].rel[j].begin = "Erase" => d.rel[j] = s.rel[j]
    <3>1. CASE b = "Keep"
      <4>1. d = [s EXCEPT !.m.val[s.rel[i]] = v] \/ d = [s EXCEPT !.ok = FALSE]
        BY <2>1, <3>1 DEF Convert
      <4>2. d.rel = s.rel
        <5>1. s = [m |-> s.m, rel |-> s.rel, ok |-> s.ok]
          BY <1>1
        <5> QED
          BY ONLY <4>1, <5>1
      <4> QED
        BY <4>2
    <3>2. CASE b = "Create"
      <4>1. d.rel = [s.rel EXCEPT ![i] = NewId(s.m)]
        <5>1. d = [m |-> CreateRes(s.m, v), rel |-> [s.rel EXCEPT ![i] = NewId(s.m)], ok |-> s.ok]
          BY <1>1, <2>1, <3>2 DEF Convert
        <5> QED
          BY <5>1
      <4> QED
        BY <1>1, <2>3, <3>2, <4>1
    <3>3. CASE b \notin {"Keep", "Create"}
      BY <2>1, <3>3 DEF Convert
    <3> QED
      BY <3>1, <3>2, <3>3
  <2> QED
    BY <1>1, <1>2, <2>4, <2>5 DEF Foretold, d
<1>4. CASE pass = "begin erase"
  <2>1. d = Erase(s, i, r.begin) /\ Do(pass, x, a, i, q) = Erase(x, i, r.begin)
    BY <1>4 DEF Do
  <2>2. r.begin = "Erase" /\ Exists(s.m, s.rel[i]) => s.m.refs[s.rel[i]] = 0
    <3> SUFFICES ASSUME r.begin = "Erase", Exists(s.m, s.rel[i]) PROVE s.m.refs[s.rel[i]] = 0
      OBVIOUS
    <3>1. s.rel[i] = sel[i] /\ Counts(m, sel[i]) = 0
      BY <1>1
    <3>2. s.rel[i] \in DOMAIN s.m.refs
      BY <1>1, UnusedIs DEF Exists
    <3> QED
      BY <1>1, <3>1, <3>2 DEF Keeps
  <2> HIDE DEF r, d
  <2>3. d.ok /\ d.rel = s.rel /\ Follows(Do(pass, x, a, i, q), d)
    <3>1. Erase(x, i, r.begin).ok
      BY <2>1
    <3>2. d.ok /\ d.rel = s.rel /\ Follows(Erase(x, i, r.begin), d)
      BY ONLY <1>1, <2>1, <2>2, <3>1, EraseFollows
    <3> QED
      BY <2>1, <3>2
  <2> QED
    BY <1>1, <1>2, <2>3 DEF Foretold, d
<1> QED
  BY <1>3, <1>4 DEF Begins

LEMMA PassForetold ==
  ASSUME NEW a \in Act, NEW pass \in Begins, NEW m, GoodModel(m),
         NEW rel, NEW sel, NEW s, NEW x, Foretold(x, s, pass, a, m, rel, sel),
         NEW p, NEW q, pass = "begin" => p \in Value /\ q \in Value,
         \A j \in Rels(a) : Pattern[a].rel[j].begin = "Erase" => Counts(m, sel[j]) = 0,
         Pass(pass, x, a, q).ok
  PROVE  Foretold(Pass(pass, x, a, q), Pass(pass, s, a, p), pass, a, m, rel, sel)
<1> DEFINE n == Len(Pattern[a].rel)
<1>1. n \in Nat /\ Rels(a) = 1..n
  BY PatternIs
<1>2. PICK f : /\ f[0] = s
               /\ \A i \in 1..n : f[i] = IF f[i - 1].ok THEN Do(pass, f[i - 1], a, i, p) ELSE f[i - 1]
               /\ Pass(pass, s, a, p) = f[n]
  BY <1>1, PassSteps
<1>3. PICK g : /\ g[0] = x
               /\ \A i \in 1..n : g[i] = IF g[i - 1].ok THEN Do(pass, g[i - 1], a, i, q) ELSE g[i - 1]
               /\ Pass(pass, x, a, q) = g[n]
  BY <1>1, PassSteps
<1> DEFINE S == {i \in 0..n : g[i].ok => Foretold(g[i], f[i], pass, a, m, rel, sel)}
<1> HIDE DEF n
<1>4. 0 \in S
  BY <1>1, <1>2, <1>3
<1>5. ASSUME NEW i \in 1..n, i - 1 \in S
      PROVE  i \in S
  <2> SUFFICES ASSUME g[i].ok PROVE Foretold(g[i], f[i], pass, a, m, rel, sel)
    BY <1>1
  <2>1. g[i - 1].ok /\ g[i] = Do(pass, g[i - 1], a, i, q)
    BY <1>3
  <2>2. Foretold(g[i - 1], f[i - 1], pass, a, m, rel, sel)
    BY <1>5, <2>1
  <2>3. f[i] = Do(pass, f[i - 1], a, i, p)
    BY <1>2, <2>2 DEF Foretold
  <2> DEFINE y == f[i - 1]
             z == g[i - 1]
  <2>4. Foretold(z, y, pass, a, m, rel, sel) /\ Do(pass, z, a, i, q).ok /\ i \in Rels(a)
    BY <1>1, <2>1, <2>2
  <2> HIDE DEF y, z
  <2>5. Foretold(Do(pass, z, a, i, q), Do(pass, y, a, i, p), pass, a, m, rel, sel)
    BY <2>4, DoForetold
  <2> QED
    BY <2>1, <2>3, <2>5 DEF y, z
<1> HIDE DEF S
<1>6. 0..n \subseteq S
  BY <1>1, <1>4, <1>5, UpTo
<1>7. n \in S
  BY <1>1, <1>6
<1> QED
  BY <1>2, <1>3, <1>7 DEF S

-----------------------------------------------------------------------------
\* The clone has the same resources with the same values.
LEMMA CloneFollows ==
  ASSUME NEW m, GoodModel(m), NEW a \in Act
  PROVE  Follows(Start(Clone(m), a), Start(m, a))
<1> DEFINE used == {r \in DOMAIN m.val : \E s \in Range(m.list) : r =< s}
           val  == [r \in used |-> m.val[r]]
           refs == [r \in used |-> 0]
           k    == Clone(m)
<1>1. /\ m = Record(m.list, m.val, m.refs, m.free, m.next)
      /\ DOMAIN m.val = 0..(m.next - 1)
  BY UnusedIs
<1>2. k = [m EXCEPT !.val = val, !.refs = refs]
  BY DEF Clone
<1>3. /\ \A r \in used : val[r] = m.val[r]
      /\ val = [r \in DOMAIN val |-> val[r]]
      /\ DOMAIN val = used /\ used \subseteq DOMAIN m.val
  OBVIOUS
<1>4. \A r \in Range(m.list) : r \in used
  BY <1>1 DEF GoodModel
<1>5. \A r \in DOMAIN m.val : m.val[r] # None => r \in Range(m.list)
  BY <1>1 DEF GoodModel
<1>6. val = [r \in DOMAIN val |-> val[r]]
  OBVIOUS
<1> HIDE DEF used, val, refs, k
<1>7. k = Record(m.list, val, refs, m.free, m.next)
  BY <1>1, <1>2 DEF Record
<1>8. k.list = m.list /\ k.val = val /\ k.refs = refs /\ k.free = m.free /\ k.next = m.next
  BY <1>7 DEF Record
<1>9. Shape(k)
  BY <1>6, <1>8, <1>7 DEF Shape
<1>10. Alike(k, m)
  BY <1>3, <1>4, <1>5, <1>8 DEF Alike, Exists
<1>11. \A r : Fits(k, r) = Fits(m, r)
  BY <1>3, <1>4, <1>8 DEF Fits, Range
<1>12. Select(k, a) = Select(m, a)
  BY <1>8, <1>11 DEF Select
<1> QED
  BY <1>9, <1>10, <1>12, FollowsIs DEF Start, k

\* A rule whose trial goes well and that erases nothing in use goes well.
LEMMA TrialForetells ==
  ASSUME NEW a \in Act, NEW p \in Value, GoodModel(model), Choice(a), Trial(a).ok,
         ~ErasesInUse(a)
  PROVE  Apply(model, a, p).ok
<1> DEFINE sel == Select(model, a)
           s   == Start(model, a)
           x   == Start(Clone(model), a)
           q   == Parameter[a]
           c   == BeginConvert(s, a, p)
           y   == BeginConvert(x, a, q)
<1>1. q \in Value
  BY ActivitiesAssumption
<1>2. \A i \in Rels(a) : Chosen(Pattern[a].rel[i]) => Fits(model, Pattern[a].rel[i]) # {}
  BY ChoiceIs
<1>3. /\ Reached(s, "begin", a, model, sel) /\ s.rel = sel /\ s.ok
      /\ Reached(c, "begin erase", a, model, c.rel)
  <2>1. Reached(s, "begin", a, model, sel)
    BY <1>2, SelectIs, KeepsItself DEF Reached, Start
  <2>2. Reached(c, "begin", a, model, sel)
    BY <1>2, BeginReaches
  <2> QED
    BY <2>1, <2>2 DEF Reached, Start
<1>4. Follows(x, s)
  BY CloneFollows
<1>5. \A j \in Rels(a) : Pattern[a].rel[j].begin = "Erase" => Counts(model, sel[j]) = 0
  <2> SUFFICES ASSUME NEW j \in Rels(a), Pattern[a].rel[j].begin = "Erase"
               PROVE  Counts(model, sel[j]) = 0
    OBVIOUS
  <2>1. ~(model.refs[sel[j]] > 0)
    BY DEF ErasesInUse, Rels
  <2>2. \A r \in DOMAIN model.refs : model.refs[r] \in Nat
    BY DEF GoodModel, Model
  <2> HIDE DEF sel
  <2> QED
    BY <2>1, <2>2 DEF Counts
<1>6. Trial(a) = BeginErase(y, a)
  BY DEF Trial, Apply
<1>7. Apply(model, a, p) = BeginErase(c, a)
  BY DEF Apply
<1> HIDE DEF sel, s, x, q, c, y
<1>8. Pass("begin erase", y, a, None).ok
  BY <1>6 DEF BeginErase
<1>9. y.ok
  <2>1. a \in Act
    OBVIOUS
  <2> QED
    BY ONLY <1>8, <2>1, PassWasOk
<1>10. Foretold(y, c, "begin", a, model, sel, sel)
  <2>1. Foretold(x, s, "begin", a, model, sel, sel)
    BY <1>3, <1>4 DEF Foretold
  <2>2. y = Pass("begin", x, a, q) /\ c = Pass("begin", s, a, p)
    BY DEF y, c, BeginConvert
  <2>3. Pass("begin", x, a, q).ok
    BY <1>9, <2>2
  <2>4. a \in Act /\ "begin" \in Begins /\ GoodModel(model) /\ p \in Value /\ q \in Value
    BY <1>1 DEF Begins
  <2> QED
    BY ONLY <1>5, <2>1, <2>2, <2>3, <2>4, PassForetold
<1>11. Foretold(Pass("begin erase", y, a, None), Pass("begin erase", c, a, None),
                "begin erase", a, model, c.rel, sel)
  <2> DEFINE rel == c.rel
  <2>1. Foretold(y, c, "begin erase", a, model, rel, sel)
    BY <1>3, <1>10 DEF Foretold
  <2> HIDE DEF rel
  <2>2. a \in Act /\ "begin erase" \in Begins /\ GoodModel(model) /\ "begin erase" # "begin"
    BY DEF Begins
  <2>3. Foretold(Pass("begin erase", y, a, None), Pass("begin erase", c, a, None),
                 "begin erase", a, model, rel, sel)
    BY ONLY <1>5, <1>8, <2>1, <2>2, PassForetold
  <2> QED
    BY <2>3 DEF rel
<1> QED
  BY <1>7, <1>11 DEF Foretold, BeginErase

\* What is taken has been tried, and its trial has gone well.
LEMMA TakenIsTried ==
  ASSUME ~CheckFails, NEW t \in Taken, Pattern[t.act].kind = "rule"
  PROVE  Trial(t.act).ok
<1> DEFINE R == {n \in DOMAIN Logic : IsReady(Logic[n])}
           k == Min(R)
           L == Logic[k]
           Q == {i \in DOMAIN L.acts : Ready(L.acts[i])}
<1>1. R # {} /\ t \in Takes(L)
  BY DEF Taken
<1>2. R \in SUBSET Nat
  BY ActivitiesAssumption
<1>3. k \in R /\ \A j \in R : k =< j
  <2> HIDE DEF R
  <2> QED BY <1>1, <1>2, MinIs
<1>4. ~IsBroken(L)
  <2>1. \A j \in 1..(k - 1) : ~IsReady(Logic[j])
    <3>1. DOMAIN Logic = 1..Len(Logic) /\ k \in DOMAIN Logic /\ Len(Logic) \in Nat
      BY <1>3, ActivitiesAssumption
    <3> SUFFICES ASSUME NEW j \in 1..(k - 1), IsReady(Logic[j]) PROVE FALSE
      OBVIOUS
    <3>2. j \in R
      BY <3>1
    <3> HIDE DEF k, R
    <3> QED
      BY <1>3, <3>1, <3>2
  <2> HIDE DEF k
  <2> QED
    BY <1>3, <2>1 DEF CheckFails
<1>5. /\ DOMAIN L.acts = 1..Len(L.acts) /\ Len(L.acts) \in Nat
      /\ DOMAIN L.acts \subseteq Nat
  <2>1. Logic \in Seq([order : {"simple", "prior"}, acts : Seq(Act)]) /\ k \in DOMAIN Logic
    BY <1>3, ActivitiesAssumption
  <2> DEFINE LS == [order : {"simple", "prior"}, acts : Seq(Act)]
  <2>2. Logic \in Seq(LS)
    BY <2>1
  <2> HIDE DEF k, LS
  <2>3. Logic[k] \in LS
    BY <2>1, <2>2
  <2>4. Logic[k].acts \in Seq(Act)
    BY <2>3 DEF LS
  <2>5. /\ DOMAIN Logic[k].acts = 1..Len(Logic[k].acts) /\ Len(Logic[k].acts) \in Nat
        /\ DOMAIN Logic[k].acts \subseteq Nat
    BY <2>4
  <2> QED
    BY <2>5
<1>6. Q # {}
  BY <1>3 DEF IsReady, Range
<1> HIDE DEF L
<1>7. \E i \in Q : /\ t.act = L.acts[i]
                   /\ L.order = "simple" => \A j \in Q : i =< j
  <2>1. CASE L.order = "simple"
    <3>1. Q \in SUBSET Nat
      BY <1>5
    <3>2. t.act = L.acts[Min(Q)]
      BY <1>1, <2>1 DEF Takes
    <3> HIDE DEF Q
    <3>3. Min(Q) \in Q /\ \A j \in Q : Min(Q) =< j
      BY <1>6, <3>1, MinIs
    <3> QED
      BY <3>2, <3>3
  <2>2. CASE L.order # "simple"
    BY <1>1, <2>2 DEF Takes
  <2> QED
    BY <2>1, <2>2
<1>8. PICK i \in Q : t.act = L.acts[i] /\ (L.order = "simple" => \A j \in Q : i =< j)
  BY <1>7
<1>9. L.order = "simple" => \A j \in 1..(i - 1) : ~Ready(L.acts[j])
  <2> SUFFICES ASSUME L.order = "simple", NEW j \in 1..(i - 1), Ready(L.acts[j]) PROVE FALSE
    OBVIOUS
  <2>1. i \in Nat /\ i \in 1..Len(L.acts) /\ j \in Q
    BY <1>5
  <2> QED
    BY <1>8, <2>1
<1>10. ~TrialFails(t.act)
  BY <1>4, <1>8, <1>9 DEF IsBroken
<1> QED
  BY <1>10, TakenIs DEF TrialFails

LEMMA RulesFail ==
  ASSUME AInv, Scan, failed', Pattern[latest'.act].kind = "rule"
  PROVE  ErasesInUse(latest'.act)
<1>1. PICK t \in Taken : RunRule(t)
  <2>1. PICK t \in Taken : RunRule(t) \/ BeginOperation(t)
    BY DEF Scan
  <2>2. latest' = t
    BY <2>1 DEF RunRule, BeginOperation
  <2> QED
    BY <2>1, <2>2 DEF BeginOperation
<1>2. t.act \in Act /\ t.with \in Value /\ Choice(t.act) /\ latest' = t
  BY <1>1, TakenIs DEF RunRule
<1>3. Trial(t.act).ok
  BY <1>1, <1>2, TakenIsTried DEF Scan
<1>4. ~Apply(model, t.act, t.with).ok
  BY <1>1 DEF RunRule
<1> QED
  BY <1>2, <1>3, <1>4, TrialForetells DEF AInv

-----------------------------------------------------------------------------
\* A rule that is carried out fails only if it erases a resource that an operation in
\* progress uses: its trial, on a clone that knows of no references, has foretold
\* every other error, with whatever parameters the rule is run.
THEOREM RulesFailOnlyOnUse == Spec => RulesFailOnUse
<1>1. AInv /\ [Next]_vars =>
        [Scan /\ failed' /\ Pattern[latest'.act].kind = "rule" => ErasesInUse(latest'.act)]_vars
  BY RulesFail
<1> QED
  BY <1>1, AInvAlways, PTL DEF Spec, RulesFailOnUse
=============================================================================
