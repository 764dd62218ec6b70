------------------------ MODULE SearchOptimal_proofs ------------------------
(***************************************************************************)
(* What a search finds and what it cannot miss: a search that fails had no *)
(* solution to find, and with consistent estimates the solution that is    *)
(* found is a cheapest one.  The ways a solution is compared with are those*)
(* of the problem itself, not those in the tree.                           *)
(***************************************************************************)
EXTENDS SearchTree_proofs

Closed == Nodes \ OPEN
Expanding == pc \in {"expand", "recost"}

-----------------------------------------------------------------------------
(***************************************************************************)
(* The ways of a problem.                                                  *)
(***************************************************************************)
\* What holds of no rules at all, and of one rule more than a way it holds of, holds
\* of every way.
LEMMA WaysInduction ==
  ASSUME NEW p, NEW n \in Nat, NEW S,
         [to |-> p.start, cost |-> 0] \in S, OneMore(p, S) \subseteq S
  PROVE  Ways(p, n) \subseteq S
<1> DEFINE Upto(k, g) == g = [i \in 0..k |-> IF i = 0 THEN {[to |-> p.start, cost |-> 0]}
                                             ELSE g[i - 1] \cup OneMore(p, g[i - 1])]
           D == {k \in 0..n : \E g : Upto(k, g)}
<1>1. 0 \in D
  <2> DEFINE g == [i \in 0..0 |-> {[to |-> p.start, cost |-> 0]}]
  <2>1. Upto(0, g)
    OBVIOUS
  <2> HIDE DEF Upto, g
  <2> QED
    BY <2>1
<1>2. ASSUME NEW k \in 1..n, k - 1 \in D
      PROVE  k \in D
  <2>1. PICK g : Upto(k - 1, g)
    BY <1>2
  <2> DEFINE h == [i \in 0..k |-> IF i < k THEN g[i] ELSE g[k - 1] \cup OneMore(p, g[k - 1])]
  <2>2. ASSUME NEW i \in 0..k
        PROVE  h[i] = IF i = 0 THEN {[to |-> p.start, cost |-> 0]}
                               ELSE h[i - 1] \cup OneMore(p, h[i - 1])
    <3>1. CASE i = k
      <4>1. h[k] = g[k - 1] \cup OneMore(p, g[k - 1]) /\ h[k - 1] = g[k - 1]
        OBVIOUS
      <4>2. k # 0
        OBVIOUS
      <4> HIDE DEF h
      <4> QED
        BY <3>1, <4>1, <4>2
    <3>2. CASE i \in 0..(k - 1)
      <4>1. g[i] = IF i = 0 THEN {[to |-> p.start, cost |-> 0]}
                            ELSE g[i - 1] \cup OneMore(p, g[i - 1])
        BY <2>1, <3>2
      <4>2. h[i] = g[i] /\ (i # 0 => h[i - 1] = g[i - 1])
        BY <3>2
      <4> QED
        BY <4>1, <4>2
    <3> QED
      BY <3>1, <3>2
  <2>3. Upto(k, h)
    BY <2>2
  <2> HIDE DEF Upto, h
  <2> QED
    BY <2>3
<1>3. n \in D
  <2> HIDE DEF D
  <2>1. 0..n \subseteq D
    BY <1>1, <1>2, UpTo
  <2> QED
    BY <2>1
<1> DEFINE ways == CHOOSE g : Upto(n, g)
<1>4. Upto(n, ways)
  BY <1>3
<1>5. Ways(p, n) = ways[n]
  BY DEF Ways
<1> DEFINE T == {i \in 0..n : ways[i] \subseteq S}
<1>6. n \in T
  <2> HIDE DEF ways
  <2>1. /\ ways[0] = {[to |-> p.start, cost |-> 0]}
        /\ \A i \in 1..n : ways[i] = ways[i - 1] \cup OneMore(p, ways[i - 1])
    <3>1. \A i \in 0..n : ways[i] = IF i = 0 THEN {[to |-> p.start, cost |-> 0]}
                                             ELSE ways[i - 1] \cup OneMore(p, ways[i - 1])
      BY <1>4
    <3>2. 0 \in 0..n /\ \A i \in 1..n : i \in 0..n /\ i # 0
      OBVIOUS
    <3> QED
      BY <3>1, <3>2
  <2>2. 0 \in T
    BY <2>1
  <2>3. ASSUME NEW i \in 1..n, i - 1 \in T
        PROVE  i \in T
    <3>1. OneMore(p, ways[i - 1]) \subseteq OneMore(p, S)
      BY <2>3 DEF OneMore
    <3> QED
      BY <2>1, <2>3, <3>1
  <2> HIDE DEF T
  <2>4. 0..n \subseteq T
    BY <2>2, <2>3, UpTo
  <2> QED
    BY <2>4
<1> HIDE DEF ways
<1> QED
  BY <1>5, <1>6

\* One rule more: that of an activity that applies where the way ends.
LEMMA OneMoreRule ==
  ASSUME NEW p, p.rules \in Seq([State -> Rule \cup {None}]), NEW S, NEW w \in OneMore(p, S)
  PROVE  \E i \in DOMAIN p.rules, v \in S :
            /\ p.rules[i][v.to] # None
            /\ w = [to |-> p.rules[i][v.to].to, cost |-> v.cost + p.rules[i][v.to].cost]
BY DEF OneMore, Range

\* What a rule of a problem leads to.
LEMMA RuleType ==
  ASSUME NEW p \in Problem, NEW i \in DOMAIN p.rules, NEW s \in State, p.rules[i][s] # None
  PROVE  p.rules[i][s].to \in State /\ p.rules[i][s].cost \in Nat \ {0}
<1>1. p.rules \in Seq([State -> Rule \cup {None}])
  BY ProblemType
<1>2. p.rules[i][s] \in Rule
  BY <1>1
<1> QED
  BY <1>2 DEF Rule

-----------------------------------------------------------------------------
(***************************************************************************)
(* A search that fails.                                                    *)
(***************************************************************************)
\* The i-th activity does not apply at n, or what it leads to is in the tree.
Leads(n, i) == LET rule == problem.rules[i][db[n]] IN
               rule # None => \E m \in Nodes : db[m] = rule.to

\* A node is closed when all activities were tried at it; it is no goal.
Explored == \A n \in Closed : db[n] \notin problem.goal /\ \A i \in DOMAIN problem.rules : Leads(n, i)

\* The node that is expanded, as far as it is.
Tried == Expanding => /\ db[curr] \notin problem.goal
                      /\ \A i \in DOMAIN problem.rules : i < next => Leads(curr, i)

EInv == IInv /\ Explored /\ Tried /\ (pc = "failed" => OPEN = {})

\* The tree grows, and its nodes keep their states.
Grows == /\ problem' = problem /\ size \in Nat /\ Nodes \subseteq Nodes'
         /\ \A m \in Nodes : db'[m] = db[m]

LEMMA NewNodeGrows ==
  ASSUME IInv, NewNode
  PROVE  /\ Grows /\ size' \in Node /\ size' \notin Nodes /\ Nodes' = Nodes \cup {size'}
         /\ Nodes \subseteq Node /\ curr \in Nodes /\ db'[size'] = Step.to
<1>1. /\ size \in Nat \ {0} /\ 1..size \subseteq Node /\ curr \in Nodes
      /\ size' = size + 1 /\ size < MaxNodes /\ MaxNodes \in Nat
  BY NodeType DEF IInv, TypeOK, NewNode
<1>2. size' \in Node /\ size' \notin Nodes /\ Nodes' = Nodes \cup {size'} /\ Nodes \subseteq Node
  BY <1>1 DEF Nodes, Node
<1>3. db' = [db EXCEPT ![size'] = Step.to] /\ db \in [Node -> State] /\ problem' = problem
  BY DEF IInv, TypeOK, NewNode
<1> QED
  BY <1>1, <1>2, <1>3 DEF Grows

LEMMA StepGrows ==
  ASSUME IInv, [Next]_vars
  PROVE  Grows
<1>1. size \in Nat
  BY NodeType DEF IInv
<1>2. CASE NewNode
  BY <1>2, NewNodeGrows
<1>3. CASE ~NewNode
  <2>1. UNCHANGED <<problem, size, db>>
    BY <1>3 DEF Next, vars, nodeVars, OpenNode, FoundBetter, FoundLoser, ReCostSubTree, NotApplicable,
                ChangeParent, CloseNode, CollectPath, ApplyRule, ReportSuccess
  <2> QED
    BY <1>1, <2>1 DEF Grows, Nodes
<1> QED
  BY <1>2, <1>3

LEMMA LeadsStill ==
  ASSUME Grows, NEW n \in Nodes, NEW i, Leads(n, i)
  PROVE  Leads(n, i)'
<1>1. db'[n] = db[n] /\ problem' = problem
  BY DEF Grows
<1> SUFFICES ASSUME problem.rules[i][db[n]] # None
             PROVE  \E m \in Nodes' : db'[m] = problem.rules[i][db[n]].to
  BY <1>1 DEF Leads
<1>2. PICK m \in Nodes : db[m] = problem.rules[i][db[n]].to
  BY DEF Leads
<1> QED
  BY <1>2 DEF Grows

\* The activity that is tried, once it has been.
LEMMA NextLeads ==
  ASSUME EInv, [Next]_vars, Expanding, curr' = curr, next' = next + 1, NEW i, i = next
  PROVE  Leads(curr, i)'
<1>1. Grows /\ curr \in Nodes /\ next \in Nat \ {0} /\ db'[curr] = db[curr] /\ problem' = problem
  BY StepGrows DEF EInv, IInv, TypeOK, Grows
<1>2. CASE ~Applies
  <2>1. CASE next =< Len(problem.rules)
    BY <1>1, <1>2, <2>1 DEF Applies, Leads
  <2>2. CASE ~(next =< Len(problem.rules))
    BY <1>1, <1>2, <2>2 DEF Next, vars, OpenNode, FoundBetter, FoundLoser, ReCostSubTree, NotApplicable,
         ChangeParent, NewNode, CloseNode, CollectPath, ApplyRule, ReportSuccess, Expanding, EInv, IInv, Moving
  <2> QED
    BY <2>1, <2>2
<1>3. CASE Applies
  <2>1. SUFFICES \E m \in Nodes' : db'[m] = Step.to
    BY <1>1 DEF Leads, Step
  <2>2. CASE NewNode
    BY <2>2, NewNodeGrows DEF EInv
  <2>3. CASE ChangeParent
    <3>1. loser \in Nodes /\ db[loser] = Step.to
      BY <2>3 DEF EInv, IInv, TypeOK, Moving, ChangeParent
    <3> QED
      BY <1>1, <3>1 DEF Grows
  <2>4. CASE \E n \in Nodes : FoundBetter(n)
    BY <1>1, <2>4 DEF Grows, FoundBetter, Twins
  <2>5. CASE NotApplicable
    BY <1>3, <2>5 DEF NotApplicable
  <2>6. CASE ~NewNode /\ ~ChangeParent /\ ~NotApplicable /\ ~\E n \in Nodes : FoundBetter(n)
    <3>1. next' = next
      BY <2>6 DEF Next, vars, OpenNode, FoundLoser, ReCostSubTree, CloseNode, CollectPath, ApplyRule,
                  ReportSuccess, Expanding
    <3> QED
      BY <1>1, <3>1
  <2> QED
    BY <2>2, <2>3, <2>4, <2>5, <2>6
<1> QED
  BY <1>2, <1>3

LEMMA InitEInv == Init => EInv
<1> SUFFICES ASSUME Init PROVE EInv
  OBVIOUS
<1>1. Closed = {} /\ pc = "open"
  BY DEF Init, Closed, Nodes
<1> QED
  BY <1>1, InitIInv DEF EInv, Explored, Tried, Expanding

LEMMA NextEInv == EInv /\ [Next]_vars => EInv'
<1> SUFFICES ASSUME EInv, [Next]_vars PROVE EInv'
  OBVIOUS
<1>1. IInv /\ IInv' /\ Grows
  BY NextIInv, StepGrows DEF EInv
<1>2. /\ problem' = problem /\ curr \in Nodes /\ next \in Nat \ {0} /\ OPEN \subseteq Nodes
      /\ \A n \in Nodes : db'[n] = db[n]
  BY <1>1 DEF Grows, IInv, TypeOK
<1>3. ASSUME NEW n \in Closed'
      PROVE  db'[n] \notin problem.goal /\ \A i \in DOMAIN problem.rules : Leads(n, i)'
  <2>1. CASE n \in Closed
    <3>1. n \in Nodes
      BY <2>1 DEF Closed
    <3>2. db[n] \notin problem.goal /\ \A i \in DOMAIN problem.rules : Leads(n, i)
      BY <2>1 DEF EInv, Explored
    <3> QED
      BY <1>1, <1>2, <3>1, <3>2, LeadsStill
  <2>2. CASE n \notin Closed
    <3>1. ~NewNode
      <4>1. NewNode => Closed' \subseteq Closed
        BY <1>1, NewNodeGrows DEF Closed, NewNode
      <4> QED
        BY <2>2, <4>1
    <3>2. CloseNode /\ n = curr
      BY <1>3, <2>2, <3>1 DEF Closed, Nodes, Next, vars, nodeVars, OpenNode, FoundBetter, FoundLoser,
           ReCostSubTree, NotApplicable, ChangeParent, CloseNode, CollectPath, ApplyRule, ReportSuccess
    <3>3. \A i \in DOMAIN problem.rules : i < next
      <4>1. problem.rules \in Seq([State -> Rule \cup {None}])
        BY ProblemType DEF EInv, IInv, TypeOK
      <4> QED
        BY <1>2, <3>2, <4>1 DEF CloseNode
    <3>4. db[curr] \notin problem.goal /\ \A i \in DOMAIN problem.rules : Leads(curr, i)
      BY <3>2, <3>3 DEF EInv, Tried, Expanding, CloseNode
    <3>5. n \in Nodes /\ \A i \in DOMAIN problem.rules : Leads(n, i)
      BY <1>2, <3>2, <3>4
    <3>6. \A i \in DOMAIN problem.rules : Leads(n, i)'
      BY <1>1, <3>5, LeadsStill
    <3> QED
      BY <1>2, <3>2, <3>4, <3>6
  <2> QED
    BY <2>1, <2>2
<1>4. Explored'
  BY <1>2, <1>3 DEF Explored
<1>5. ASSUME Expanding'
      PROVE  db'[curr'] \notin problem.goal
             /\ \A i \in DOMAIN problem.rules : i < next' => Leads(curr, i)'
  <2>1. CASE ~Expanding
    <3>1. PICK n \in Nodes : OpenNode(n)
      BY <1>5, <2>1 DEF Expanding, Next, vars, FoundBetter, FoundLoser,
         ReCostSubTree, NotApplicable, ChangeParent, NewNode, CloseNode, CollectPath, ApplyRule, ReportSuccess
    <3>2. curr' = n /\ next' = 1 /\ db' = db /\ db[n] \notin problem.goal
      BY <1>5, <3>1 DEF OpenNode, Expanding, nodeVars
    <3>3. \A i \in DOMAIN problem.rules : ~(i < 1)
      <4>1. problem.rules \in Seq([State -> Rule \cup {None}])
        BY ProblemType DEF EInv, IInv, TypeOK
      <4> QED
        BY <4>1
    <3> QED
      BY <3>2, <3>3
  <2>2. CASE Expanding
    <3>1. /\ db[curr] \notin problem.goal
          /\ \A i \in DOMAIN problem.rules : i < next => Leads(curr, i)
      BY <2>2 DEF EInv, Tried
    <3>2. curr' = curr /\ (next' = next \/ next' = next + 1)
      BY <1>5, <2>2 DEF Expanding, Next, vars, OpenNode, FoundBetter, FoundLoser,
         ReCostSubTree, NotApplicable, ChangeParent, NewNode, CloseNode, CollectPath, ApplyRule, ReportSuccess
    <3>3. ASSUME NEW i \in DOMAIN problem.rules, i < next'
          PROVE  Leads(curr, i)'
      <4>1. CASE i < next
        <5>1. Leads(curr, i)
          BY <3>1, <4>1
        <5>2. PICK n : n = curr
          OBVIOUS
        <5>3. n \in Nodes /\ Leads(n, i)
          BY <1>2, <5>1, <5>2
        <5>4. Leads(n, i)'
          BY <1>1, <5>3, LeadsStill
        <5> QED
          BY <3>2, <5>2, <5>4
      <4>2. CASE ~(i < next)
        <5>1. i \in Nat
          <6>1. problem.rules \in Seq([State -> Rule \cup {None}])
            BY ProblemType DEF EInv, IInv, TypeOK
          <6> QED
            BY <6>1
        <5>2. next' = next + 1 /\ i = next
          BY <1>2, <3>2, <3>3, <4>2, <5>1
        <5> QED
          BY <2>2, <3>2, <5>2, NextLeads
      <4> QED
        BY <4>1, <4>2
    <3> QED
      BY <1>2, <3>1, <3>2, <3>3
  <2> QED
    BY <2>1, <2>2
<1>6. Tried'
  BY <1>2, <1>5 DEF Tried
<1>7. (pc = "failed" => OPEN = {})'
  BY DEF EInv, Next, vars, OpenNode, FoundBetter, FoundLoser, ReCostSubTree, NotApplicable,
         ChangeParent, NewNode, CloseNode, CollectPath, ApplyRule, ReportSuccess
<1> QED
  BY <1>1, <1>4, <1>6, <1>7 DEF EInv

\* Wherever a way leads there is a node when nothing is left in OPEN.
LEMMA AllIsKnown ==
  ASSUME EInv, OPEN = {}, NEW w \in Ways(problem, MaxRules)
  PROVE  w.to \notin problem.goal
<1> DEFINE S == {v \in [to : State, cost : Nat] : \E n \in Nodes : db[n] = v.to}
<1>1. /\ problem \in Problem /\ problem.start \in State /\ db[1] = problem.start /\ 1 \in Nodes
      /\ problem.rules \in Seq([State -> Rule \cup {None}]) /\ MaxRules \in Nat
  <2>1. problem \in Problem /\ 1 \in Nodes
    BY NodeType DEF EInv, IInv, TypeOK, Nodes
  <2> QED
    BY <2>1, ProblemType, SearchAssumption DEF EInv, IInv, Root
<1>2. [to |-> problem.start, cost |-> 0] \in S
  BY <1>1
<1>3. ASSUME NEW v \in OneMore(problem, S)
      PROVE  v \in S
  <2>1. PICK i \in DOMAIN problem.rules, u \in S :
             /\ problem.rules[i][u.to] # None
             /\ v = [to |-> problem.rules[i][u.to].to, cost |-> u.cost + problem.rules[i][u.to].cost]
    <3> HIDE DEF S
    <3> QED
      BY <1>1, OneMoreRule
  <2>2. PICK n \in Nodes : db[n] = u.to
    OBVIOUS
  <2>3. Leads(n, i)
    BY <1>1 DEF EInv, Explored, Closed
  <2>4. \E m \in Nodes : db[m] = v.to
    BY <2>1, <2>2, <2>3 DEF Leads
  <2>5. /\ problem.rules[i][u.to].to \in State /\ problem.rules[i][u.to].cost \in Nat
        /\ u.to \in State /\ u.cost \in Nat
    <3>1. u.to \in State /\ u.cost \in Nat
      OBVIOUS
    <3> QED
      BY <1>1, <2>1, <3>1, RuleType
  <2> QED
    BY <2>1, <2>4, <2>5
<1>4. Ways(problem, MaxRules) \subseteq S
  <2>1. OneMore(problem, S) \subseteq S
    BY <1>3
  <2> HIDE DEF S
  <2> QED
    BY <1>1, <1>2, <2>1, WaysInduction
<1>5. PICK n \in Nodes : db[n] = w.to
  BY <1>4
<1> QED
  BY <1>5 DEF EInv, Explored, Closed

\* FailsOnlyWithoutSolution: onContinue reports that there is no solution only if no
\* way of up to MaxRules rules, for any number, leads to a goal; whatever the
\* estimates are, and whether or not states are compared.
THEOREM FailureMeansNone == Spec => []FailsOnlyWithoutSolution
<1>1. EInv => FailsOnlyWithoutSolution
  BY AllIsKnown DEF EInv, FailsOnlyWithoutSolution
<1>2. Init => EInv
  BY InitEInv
<1>3. EInv /\ [Next]_vars => EInv'
  BY NextEInv
<1> QED
  BY <1>1, <1>2, <1>3, PTL DEF Spec

-----------------------------------------------------------------------------
(***************************************************************************)
(* A search with consistent estimates.                                     *)
(***************************************************************************)
\* What the way to n costs once the change of parents that goes on is over, and that
\* with the estimate of the rest.
Pending(n) == pc = "recost" /\ n = loser
Way(n) == IF Pending(n) THEN newCostPath ELSE costPath[n]
Whole(n) == Way(n) + problem.estimate[db[n]]

\* The key of every node but the root is the cost of the whole way.
Keys == \A n \in 2..size : Pending(n) \/ costRest[n] = costPath[n] + problem.estimate[db[n]]

\* Nodes leave OPEN in the order of the cost of the whole way.
Ordered == /\ Expanding => curr \in OPEN /\ \A n \in OPEN : Whole(curr) =< Whole(n)
           /\ \A m \in Closed, n \in OPEN : Whole(m) =< Whole(n)
           /\ 1 \in OPEN => IF Expanding THEN curr = 1 ELSE size = 1

\* Only a node that was expanded, or is, has children.
Leaves == \A n \in 2..size : parent[n] \in Closed \/ (Expanding /\ parent[n] = curr)

\* So the node that moves has none, and it has not been expanded.
LeafMoves == pc = "recost" => /\ problem.compare /\ base = costPath[curr]
                              /\ loser \in OPEN \ {curr} /\ todo \subseteq {loser}

WaysAdd == \A n \in 2..size : Pending(n) \/ costPath[n] = costPath[parent[n]] + costRule[n]

\* The i-th activity does not apply at n, or the tree has a way to where it leads
\* that is no dearer than the one through n.
Beaten(n, i) == LET rule == problem.rules[i][db[n]] IN
  rule # None => \E m \in Nodes : db[m] = rule.to /\ Way(m) =< costPath[n] + rule.cost

AllBeaten == /\ \A n \in Closed, i \in DOMAIN problem.rules : Beaten(n, i)
             /\ Expanding => \A i \in DOMAIN problem.rules : i < next => Beaten(curr, i)

\* The target is one of the goals that are cheapest to reach.
TargetIsCheapest ==
  pc \in {"walk", "apply", "found"} =>
    \A w \in Ways(problem, MaxRules) : w.to \in problem.goal => costPath[target] =< w.cost

OInv == /\ Keys /\ Ordered /\ Leaves /\ LeafMoves /\ WaysAdd /\ AllBeaten /\ TargetIsCheapest
        /\ UniqueStates /\ Reckoned /\ SolutionCostIsSum

OIInv == EInv /\ (Consistent(problem) => OInv)

LEMMA WayType ==
  ASSUME IInv, NEW n \in Nodes
  PROVE  /\ n \in Node /\ db[n] \in State /\ costPath[n] \in Nat /\ Way(n) \in Nat
         /\ problem.estimate[db[n]] \in Nat
<1>1. TypeOK /\ n \in Node
  BY NodeType DEF IInv, Nodes
<1>2. pc = "recost" => newCostPath \in Nat
  BY <1>1, StepType DEF IInv, Moving
<1>3. problem.estimate \in [State -> Nat]
  BY <1>1, ProblemType DEF TypeOK
<1> QED
  BY <1>1, <1>2, <1>3 DEF TypeOK, Way, Pending

\* A step is not cheaper than the estimates say.
LEMMA RuleEstimate ==
  ASSUME IInv, Consistent(problem), NEW i \in DOMAIN problem.rules, NEW s \in State,
         problem.rules[i][s] # None
  PROVE  /\ problem.rules[i][s].to \in State /\ problem.rules[i][s].cost \in Nat \ {0}
         /\ problem.estimate[s] \in Nat /\ problem.estimate[problem.rules[i][s].to] \in Nat
         /\ problem.estimate[s] =< problem.rules[i][s].cost + problem.estimate[problem.rules[i][s].to]
<1>1. problem \in Problem
  BY DEF IInv, TypeOK
<1>2. problem.rules \in Seq([State -> Rule \cup {None}]) /\ problem.estimate \in [State -> Nat]
  BY <1>1, ProblemType
<1>3. problem.rules[i][s].to \in State /\ problem.rules[i][s].cost \in Nat \ {0}
  BY <1>1, RuleType
<1>4. problem.rules[i] \in Range(problem.rules)
  BY DEF Range
<1> QED
  BY <1>2, <1>3, <1>4 DEF Consistent

LEMMA StepEstimate ==
  ASSUME IInv, Consistent(problem), Applies
  PROVE  /\ problem.estimate[db[curr]] =< Step.cost + problem.estimate[Step.to]
         /\ problem.estimate[db[curr]] \in Nat /\ problem.estimate[Step.to] \in Nat
         /\ Step.cost \in Nat \ {0} /\ curr \in Nodes /\ costPath[curr] \in Nat
         /\ newCostPath = costPath[curr] + Step.cost /\ next \in DOMAIN problem.rules
         /\ Step.to \in State
<1>1. next \in DOMAIN problem.rules /\ curr \in Nodes
  BY StepType DEF IInv, TypeOK
<1>2. db[curr] \in State /\ costPath[curr] \in Nat
  BY <1>1, WayType
<1>3. Step # None
  BY DEF Applies, Step
<1> QED
  BY <1>1, <1>2, <1>3, RuleEstimate DEF Step, newCostPath

\* Between two changes of parents the invariant has that of SearchTree_proofs.
LEMMA CostsAdd ==
  ASSUME OInv, pc # "recost"
  PROVE  CInv
BY DEF OInv, CInv, WaysAdd, Pending, PathCostsAdd, ReCosting

\* What the steps keep that leave the tree alone.
LEMMA QuietStep ==
  ASSUME OInv, pc # "recost", pc' # "recost", UNCHANGED <<problem, nodeVars, OPEN>>
  PROVE  /\ Keys' /\ LeafMoves' /\ WaysAdd'
         /\ \A m \in Closed', n \in OPEN' : Whole(m)' =< Whole(n)'
         /\ \A n \in Closed', i \in DOMAIN problem'.rules : Beaten(n, i)'
         /\ \A n \in Nodes, i \in DOMAIN problem.rules : Beaten(n, i) => Beaten(n, i)'
         /\ \A n \in Nodes : Whole(n)' = Whole(n)
<1>1. Closed' = Closed /\ Nodes' = Nodes
  BY DEF Closed, Nodes, nodeVars
<1>2. Keys' /\ LeafMoves' /\ WaysAdd'
  BY DEF OInv, Keys, LeafMoves, WaysAdd, Pending, nodeVars
<1>3. \A n : Whole(n)' = Whole(n)
  BY DEF Whole, Way, Pending, nodeVars
<1>4. \A n, i : Beaten(n, i) => Beaten(n, i)'
  BY <1>1 DEF Beaten, Way, Pending, nodeVars
<1> QED
  BY <1>1, <1>2, <1>3, <1>4 DEF OInv, Ordered, AllBeaten

\* The steps that only go on to the next activity.
LEMMA NextActivityOpt ==
  ASSUME IInv, IInv', OInv, NotApplicable \/ \E n \in Nodes : FoundBetter(n)
  PROVE  OInv'
<1>1. /\ pc = "expand" /\ next' = next + 1 /\ next =< Len(problem.rules)
      /\ UNCHANGED <<problem, nodeVars, OPEN, pc, curr, moveVars, target, resultVars>>
  BY DEF NotApplicable, FoundBetter, Applies
<1>2. CInv'
  BY <1>1, CostsAdd, OtherCosts
<1>3. /\ Keys' /\ LeafMoves' /\ WaysAdd'
      /\ \A m \in Closed', n \in OPEN' : Whole(m)' =< Whole(n)'
      /\ \A n \in Closed', i \in DOMAIN problem'.rules : Beaten(n, i)'
      /\ \A n \in Nodes, i \in DOMAIN problem.rules : Beaten(n, i) => Beaten(n, i)'
      /\ \A n \in Nodes : Whole(n)' = Whole(n)
  BY <1>1, QuietStep
<1>4. curr \in Nodes /\ next \in Nat /\ OPEN \subseteq Nodes
  BY DEF IInv, TypeOK
<1>5. Ordered'
  <2>1. PICK c : c = curr
    OBVIOUS
  <2>2. c \in OPEN /\ \A n \in OPEN : Whole(c) =< Whole(n)
    BY <1>1, <2>1 DEF OInv, Ordered, Expanding
  <2>3. \A n \in OPEN' : Whole(c)' =< Whole(n)'
    BY <1>1, <1>3, <1>4, <2>2
  <2> QED
    BY <1>1, <1>3, <2>1, <2>2, <2>3 DEF OInv, Ordered, Expanding, nodeVars
<1>6. Leaves'
  BY <1>1 DEF OInv, Leaves, Closed, Expanding, nodeVars, Nodes
<1>7. ASSUME NEW i \in DOMAIN problem.rules, i < next + 1
      PROVE  Beaten(curr, i)
  <2>1. CASE i < next
    BY <1>1, <2>1 DEF OInv, AllBeaten, Expanding
  <2>2. CASE ~(i < next)
    <3>1. i = next
      <4>1. problem.rules \in Seq([State -> Rule \cup {None}])
        BY ProblemType DEF IInv, TypeOK
      <4> QED
        BY <1>4, <1>7, <2>2, <4>1
    <3>2. CASE NotApplicable
      BY <1>1, <3>1, <3>2 DEF NotApplicable, Applies, Beaten
    <3>3. CASE \E n \in Nodes : FoundBetter(n)
      <4>1. PICK n \in Nodes : db[n] = Step.to /\ costPath[n] =< newCostPath
        BY <3>3 DEF FoundBetter, Twins
      <4> QED
        BY <1>1, <3>1, <4>1 DEF Beaten, Step, newCostPath, Way, Pending
    <3> QED
      BY <3>2, <3>3
  <2> QED
    BY <2>1, <2>2
<1>8. AllBeaten'
  <2>1. PICK c : c = curr
    OBVIOUS
  <2>2. \A i \in DOMAIN problem.rules : i < next' => Beaten(c, i)'
    BY <1>1, <1>3, <1>4, <1>7, <2>1
  <2> QED
    BY <1>1, <1>3, <2>1, <2>2 DEF AllBeaten, Expanding
<1>9. TargetIsCheapest'
  BY <1>1 DEF TargetIsCheapest
<1> QED
  BY <1>2, <1>3, <1>5, <1>6, <1>8, <1>9 DEF OInv, CInv

\* The first node of OPEN is the one that is expected to cost least in the end.
LEMMA FirstIsLeast ==
  ASSUME IInv, OInv, pc = "open", NEW n \in Nodes, First(n), NEW m \in OPEN
  PROVE  Whole(n) =< Whole(m)
<1>1. n \in OPEN /\ m \in Nodes
  BY DEF First, IInv, TypeOK
<1>2. /\ costPath[n] \in Nat /\ problem.estimate[db[n]] \in Nat
      /\ costPath[m] \in Nat /\ problem.estimate[db[m]] \in Nat
  BY <1>1, WayType
<1>3. Whole(n) = costPath[n] + problem.estimate[db[n]] /\ Whole(m) = costPath[m] + problem.estimate[db[m]]
  BY DEF Whole, Way, Pending
<1>4. CASE 1 \in OPEN
  <2>1. size = 1
    BY <1>4 DEF OInv, Ordered, Expanding
  <2>2. n = 1 /\ m = 1
    BY <1>1, <2>1 DEF Nodes
  <2> QED
    BY <1>2, <1>3, <2>2
<1>5. CASE 1 \notin OPEN
  <2>1. n \in 2..size /\ m \in 2..size
    BY <1>1, <1>5, NodeType DEF Nodes, IInv
  <2>2. costRest[n] = Whole(n) /\ costRest[m] = Whole(m)
    BY <1>3, <2>1 DEF OInv, Keys, Pending
  <2> QED
    BY <1>1, <1>2, <1>3, <2>2 DEF First
<1> QED
  BY <1>4, <1>5

\* Every way leads to a closed node that is no dearer, or will cost no less than the
\* first node of OPEN.
LEMMA FirstGoalIsCheapest ==
  ASSUME IInv, OInv, Consistent(problem), pc = "open", NEW n \in Nodes, First(n),
         db[n] \in problem.goal, NEW w \in Ways(problem, MaxRules), w.to \in problem.goal,
         \A m \in Closed : db[m] \notin problem.goal
  PROVE  costPath[n] =< w.cost
<1> DEFINE Behind(v) == \E m \in Closed : db[m] = v.to /\ costPath[m] =< v.cost
           Ahead(v) == Whole(n) =< v.cost + problem.estimate[v.to]
           S == {v \in [to : State, cost : Nat] : Behind(v) \/ Ahead(v)}
<1>1. /\ problem \in Problem /\ problem.start \in State /\ problem.estimate \in [State -> Nat]
      /\ db[1] = problem.start /\ costPath[1] = 0 /\ 1 \in Nodes
      /\ problem.rules \in Seq([State -> Rule \cup {None}]) /\ MaxRules \in Nat
      /\ OPEN \subseteq Nodes
  <2>1. problem \in Problem /\ OPEN \subseteq Nodes /\ size \in Nat \ {0}
    BY NodeType DEF IInv, TypeOK
  <2>2. 1 \in Nodes
    BY <2>1 DEF Nodes
  <2> QED
    BY <2>1, <2>2, ProblemType, SearchAssumption DEF IInv, Root
<1>2. \A m \in Nodes : /\ Whole(m) = costPath[m] + problem.estimate[db[m]] /\ Way(m) = costPath[m]
                       /\ costPath[m] \in Nat /\ problem.estimate[db[m]] \in Nat /\ Whole(m) \in Nat
  <2>1. \A m \in Nodes : costPath[m] \in Nat /\ problem.estimate[db[m]] \in Nat
    BY WayType
  <2> QED
    BY <2>1 DEF Whole, Way, Pending
<1>3. [to |-> problem.start, cost |-> 0] \in S
  <2>1. CASE 1 \in OPEN
    <3>1. Whole(n) =< Whole(1)
      BY <2>1, FirstIsLeast
    <3>2. Whole(1) = 0 + problem.estimate[problem.start]
      BY <1>1, <1>2
    <3> QED
      BY <1>1, <3>1, <3>2
  <2>2. CASE 1 \notin OPEN
    <3>1. 1 \in Closed /\ costPath[1] =< 0
      BY <1>1, <2>2 DEF Closed
    <3> QED
      BY <1>1, <3>1
  <2> QED
    BY <2>1, <2>2
<1>4. ASSUME NEW v \in OneMore(problem, S)
      PROVE  v \in S
  <2>1. PICK i \in DOMAIN problem.rules, u \in S :
             /\ problem.rules[i][u.to] # None
             /\ v = [to |-> problem.rules[i][u.to].to, cost |-> u.cost + problem.rules[i][u.to].cost]
    <3> HIDE DEF S
    <3> QED
      BY <1>1, OneMoreRule
  <2> DEFINE t == problem.rules[i][u.to].to
             c == problem.rules[i][u.to].cost
  <2>2. u.to \in State /\ u.cost \in Nat /\ (Behind(u) \/ Ahead(u))
    OBVIOUS
  <2>3. /\ t \in State /\ c \in Nat \ {0} /\ problem.estimate[u.to] \in Nat /\ problem.estimate[t] \in Nat
        /\ problem.estimate[u.to] =< c + problem.estimate[t]
    BY <2>1, <2>2, RuleEstimate
  <2>4. v.to = t /\ v.cost = u.cost + c /\ v \in [to : State, cost : Nat]
    BY <2>1, <2>2, <2>3
  <2>5. CASE Ahead(u)
    <3>1. Whole(n) =< (u.cost + c) + problem.estimate[t]
      <4>1. Whole(n) =< u.cost + problem.estimate[u.to]
        BY <2>5
      <4> HIDE DEF t, c
      <4> QED
        BY <1>2, <2>2, <2>3, <4>1
    <3> QED
      BY <2>4, <3>1
  <2>6. CASE Behind(u)
    <3>1. PICK m \in Closed : db[m] = u.to /\ costPath[m] =< u.cost
      BY <2>6
    <3>2. Beaten(m, i)
      BY DEF OInv, AllBeaten
    <3>3. PICK k \in Nodes : db[k] = t /\ Way(k) =< costPath[m] + c
      BY <2>1, <3>1, <3>2 DEF Beaten
    <3>4. costPath[k] =< u.cost + c /\ costPath[k] \in Nat
      <4>1. costPath[m] \in Nat /\ costPath[k] = Way(k) /\ costPath[k] \in Nat
        BY <1>2 DEF Closed
      <4> HIDE DEF c
      <4> QED
        BY <2>2, <2>3, <3>1, <3>3, <4>1
    <3>5. CASE k \in Closed
      BY <2>4, <3>3, <3>4, <3>5
    <3>6. CASE k \notin Closed
      <4>1. Whole(n) =< Whole(k) /\ Whole(k) = costPath[k] + problem.estimate[t]
        BY <1>2, <3>3, <3>6, FirstIsLeast DEF Closed
      <4>2. Whole(n) =< (u.cost + c) + problem.estimate[t]
        <5> HIDE DEF t, c
        <5> QED
          BY <1>2, <2>2, <2>3, <3>4, <4>1
      <4> QED
        BY <2>4, <4>2
    <3> QED
      BY <3>5, <3>6
  <2> QED
    BY <2>2, <2>5, <2>6
<1>5. w \in S
  <2>1. OneMore(problem, S) \subseteq S
    BY <1>4
  <2> HIDE DEF S
  <2> QED
    BY <1>1, <1>3, <2>1, WaysInduction
<1>6. Ahead(w) /\ w.cost \in Nat
  BY <1>5
<1>7. problem.estimate[w.to] = 0 /\ problem.estimate[db[n]] = 0
  BY DEF Consistent
<1> QED
  BY <1>2, <1>6, <1>7

LEMMA OpenNodeOpt ==
  ASSUME IInv, IInv', OInv, Consistent(problem), NEW n \in Nodes, OpenNode(n),
         \A m \in Closed : db[m] \notin problem.goal
  PROVE  OInv'
<1>1. /\ pc = "open" /\ pc' \in {"walk", "expand"} /\ First(n) /\ curr' = n /\ next' = 1
      /\ UNCHANGED <<problem, nodeVars, OPEN>>
      /\ pc' = "walk" => db[n] \in problem.goal /\ target' = n
  BY DEF OpenNode
<1>2. CInv'
  BY <1>1, CostsAdd, OtherCosts
<1>3. /\ Keys' /\ LeafMoves' /\ WaysAdd'
      /\ \A m \in Closed', k \in OPEN' : Whole(m)' =< Whole(k)'
      /\ \A m \in Closed', i \in DOMAIN problem'.rules : Beaten(m, i)'
      /\ \A m \in Nodes : Whole(m)' = Whole(m)
  BY <1>1, QuietStep
<1>4. Ordered'
  <2>1. n \in OPEN /\ OPEN \subseteq Nodes
    BY <1>1 DEF First, IInv, TypeOK
  <2>2. \A m \in OPEN' : Whole(n)' =< Whole(m)'
    BY <1>1, <1>3, <2>1, FirstIsLeast
  <2>3. 1 \in OPEN' => size' = 1 /\ curr' = 1
    BY <1>1, <2>1 DEF OInv, Ordered, Expanding, nodeVars, Nodes
  <2> QED
    BY <1>1, <1>3, <2>1, <2>2, <2>3 DEF Ordered
<1>5. Leaves'
  BY <1>1 DEF OInv, Leaves, Closed, Expanding, nodeVars, Nodes
<1>6. AllBeaten'
  <2>1. \A i \in DOMAIN problem.rules : ~(i < 1)
    <3>1. problem.rules \in Seq([State -> Rule \cup {None}])
      BY ProblemType DEF IInv, TypeOK
    <3> QED
      BY <3>1
  <2> QED
    BY <1>1, <1>3, <2>1 DEF AllBeaten
<1>7. TargetIsCheapest'
  <2> SUFFICES ASSUME pc' = "walk", NEW w \in Ways(problem, MaxRules), w.to \in problem.goal
               PROVE  costPath'[target'] =< w.cost
    BY <1>1 DEF TargetIsCheapest
  <2>1. costPath[n] =< w.cost
    BY <1>1, FirstGoalIsCheapest
  <2> QED
    BY <1>1, <2>1 DEF nodeVars
<1> QED
  BY <1>2, <1>3, <1>4, <1>5, <1>6, <1>7 DEF OInv, CInv

LEMMA CloseNodeOpt ==
  ASSUME IInv, IInv', OInv, CloseNode
  PROVE  OInv'
<1>1. /\ pc = "expand" /\ pc' \in {"failed", "open"} /\ next > Len(problem.rules)
      /\ OPEN' = OPEN \ {curr}
      /\ UNCHANGED <<problem, nodeVars, curr, next, moveVars, target, resultVars>>
  BY DEF CloseNode
<1>2. CInv'
  BY <1>1, CostsAdd, OtherCosts
<1>3. /\ curr \in OPEN /\ Closed' = Closed \cup {curr} /\ Nodes' = Nodes /\ next \in Nat
      /\ \A n \in OPEN : Whole(curr) =< Whole(n)
      /\ \A m \in Closed, n \in OPEN : Whole(m) =< Whole(n)
      /\ 1 \in OPEN => curr = 1
  <2>1. curr \in OPEN /\ OPEN \subseteq Nodes
    BY <1>1 DEF OInv, Ordered, Expanding, IInv, TypeOK
  <2>2. Nodes' = Nodes
    BY <1>1 DEF Nodes, nodeVars
  <2>3. next \in Nat
    BY DEF IInv, TypeOK
  <2> QED
    BY <1>1, <2>1, <2>2, <2>3 DEF OInv, Ordered, Expanding, Closed
<1>4. Keys' /\ LeafMoves' /\ WaysAdd'
  BY <1>1 DEF OInv, Keys, LeafMoves, WaysAdd, Pending, nodeVars
<1>5. \A n : Whole(n)' = Whole(n)
  BY <1>1 DEF Whole, Way, Pending, nodeVars
<1>6. \A n, i : Beaten(n, i) => Beaten(n, i)'
  BY <1>1, <1>3 DEF Beaten, Way, Pending, nodeVars
<1>7. Ordered'
  <2> SUFFICES ASSUME NEW m \in Closed', NEW n \in OPEN'
               PROVE  Whole(m)' =< Whole(n)'
    BY <1>1, <1>3 DEF Ordered, Expanding
  <2>1. n \in OPEN /\ (m = curr \/ m \in Closed)
    BY <1>1, <1>3
  <2>2. Whole(m) =< Whole(n)
    BY <1>3, <2>1
  <2> QED
    BY <1>5, <2>2
<1>8. Leaves'
  BY <1>1, <1>3 DEF OInv, Leaves, Expanding, nodeVars
<1>9. AllBeaten'
  <2>1. \A i \in DOMAIN problem.rules : i < next
    <3>1. problem.rules \in Seq([State -> Rule \cup {None}])
      BY ProblemType DEF IInv, TypeOK
    <3> QED
      BY <1>1, <1>3, <3>1
  <2>2. \A i \in DOMAIN problem.rules : Beaten(curr, i)
    BY <1>1, <2>1 DEF OInv, AllBeaten, Expanding
  <2>3. \A n \in Closed', i \in DOMAIN problem.rules : Beaten(n, i)
    BY <1>3, <2>2 DEF OInv, AllBeaten
  <2> QED
    BY <1>1, <1>6, <2>3 DEF AllBeaten, Expanding
<1>10. TargetIsCheapest'
  BY <1>1 DEF TargetIsCheapest
<1> QED
  BY <1>2, <1>4, <1>7, <1>8, <1>9, <1>10 DEF OInv, CInv

\* The steps after the search: the tree stays as it is.
LEMMA SolutionOpt ==
  ASSUME IInv, IInv', OInv, CollectPath \/ ApplyRule \/ ReportSuccess
  PROVE  OInv'
<1>1. /\ pc \in {"walk", "apply"} /\ pc' \in {"walk", "apply", "found"}
      /\ UNCHANGED <<problem, nodeVars, OPEN, next, moveVars, target>>
  BY DEF CollectPath, ApplyRule, ReportSuccess, resultVars
<1>2. CInv /\ CInv'
  BY <1>1, CostsAdd, CollectPathCosts, ApplyRuleCosts, ReportSuccessCosts
<1>3. /\ Keys' /\ LeafMoves' /\ WaysAdd'
      /\ \A m \in Closed', n \in OPEN' : Whole(m)' =< Whole(n)'
      /\ \A n \in Closed', i \in DOMAIN problem'.rules : Beaten(n, i)'
  BY <1>1, QuietStep
<1>4. Ordered' /\ Leaves' /\ AllBeaten' /\ TargetIsCheapest'
  BY <1>1, <1>3 DEF OInv, Ordered, Leaves, AllBeaten, TargetIsCheapest, Expanding, Closed, Nodes, nodeVars
<1> QED
  BY <1>2, <1>3, <1>4 DEF OInv, CInv

-----------------------------------------------------------------------------
(***************************************************************************)
(* The steps that change the tree.  No way becomes dearer in them.         *)
(***************************************************************************)
NoDearer == \A m \in Nodes : Way(m)' \in Nat /\ Way(m)' =< Way(m)

LEMMA BeatenStill ==
  ASSUME IInv, Grows, NoDearer, NEW n \in Nodes, costPath'[n] = costPath[n],
         NEW i \in DOMAIN problem.rules, Beaten(n, i)
  PROVE  Beaten(n, i)'
<1>1. problem' = problem /\ db'[n] = db[n]
  BY DEF Grows
<1> SUFFICES ASSUME problem.rules[i][db[n]] # None
             PROVE  \E m \in Nodes' : /\ db'[m] = problem.rules[i][db[n]].to
                                      /\ Way(m)' =< costPath[n] + problem.rules[i][db[n]].cost
  BY <1>1 DEF Beaten
<1>2. PICK m \in Nodes : /\ db[m] = problem.rules[i][db[n]].to
                         /\ Way(m) =< costPath[n] + problem.rules[i][db[n]].cost
  BY DEF Beaten
<1>3. m \in Nodes' /\ db'[m] = db[m] /\ Way(m)' \in Nat /\ Way(m)' =< Way(m)
  BY DEF Grows, NoDearer
<1>4. costPath[n] \in Nat /\ Way(m) \in Nat /\ db[n] \in State
  BY WayType
<1>5. problem.rules[i][db[n]].cost \in Nat
  BY <1>4, RuleType DEF IInv, TypeOK
<1> QED
  BY <1>2, <1>3, <1>4, <1>5

\* While a node is expanded its activities are tried one after another.
LEMMA AllBeatenStill ==
  ASSUME IInv, OInv, Grows, NoDearer, Expanding, Expanding', curr' = curr, Closed' \subseteq Closed,
         \A n \in Closed \cup {curr} : costPath'[n] = costPath[n],
         \/ next' = next
         \/ next' = next + 1 /\ \E m \in Nodes' : db'[m] = Step.to /\ Way(m)' =< newCostPath
  PROVE  AllBeaten'
<1>1. PICK c : c = curr
  OBVIOUS
<1>2. /\ c \in Nodes /\ next \in Nat /\ problem' = problem /\ costPath'[c] = costPath[c] /\ db'[c] = db[c]
      /\ \A i \in DOMAIN problem.rules : i < next => Beaten(c, i)
  BY <1>1 DEF IInv, TypeOK, Grows, OInv, AllBeaten
<1>3. ASSUME NEW i \in DOMAIN problem.rules, i < next'
      PROVE  Beaten(c, i)'
  <2>1. CASE i < next
    BY <1>2, <2>1, BeatenStill
  <2>2. CASE ~(i < next)
    <3>1. i \in Nat
      <4>1. problem.rules \in Seq([State -> Rule \cup {None}])
        BY ProblemType DEF IInv, TypeOK
      <4> QED
        BY <4>1
    <3>2. i = next /\ next' = next + 1
      BY <1>2, <1>3, <2>2, <3>1
    <3>3. PICK m \in Nodes' : db'[m] = Step.to /\ Way(m)' =< newCostPath
      BY <1>2, <3>2
    <3>4. Step = problem.rules[i][db[c]] /\ newCostPath = costPath[c] + problem.rules[i][db[c]].cost
      BY <1>1, <3>2 DEF Step, newCostPath
    <3> QED
      BY <1>2, <3>3, <3>4 DEF Beaten
  <2> QED
    BY <2>1, <2>2
<1>4. ASSUME NEW n \in Closed', NEW i \in DOMAIN problem.rules
      PROVE  Beaten(n, i)'
  <2>1. n \in Closed /\ n \in Nodes /\ costPath'[n] = costPath[n] /\ Beaten(n, i)
    BY <1>4 DEF Closed, OInv, AllBeaten
  <2> QED
    BY <2>1, BeatenStill
<1> QED
  BY <1>1, <1>2, <1>3, <1>4 DEF AllBeaten

\* A cheaper way leads only to a node that waits in OPEN: a node that has left it was
\* expected to cost no more in all than the one that is expanded.
LEMMA LoserIsOpen ==
  ASSUME IInv, OInv, Consistent(problem), NEW n \in Nodes, FoundLoser(n)
  PROVE  n \in OPEN \ {curr}
<1>1. /\ Applies /\ pc = "expand" /\ db[n] = Step.to /\ newCostPath < costPath[n]
  BY DEF FoundLoser, Twins
<1>2. /\ problem.estimate[db[curr]] =< Step.cost + problem.estimate[Step.to]
      /\ problem.estimate[db[curr]] \in Nat /\ problem.estimate[Step.to] \in Nat
      /\ Step.cost \in Nat \ {0} /\ curr \in Nodes /\ costPath[curr] \in Nat
      /\ newCostPath = costPath[curr] + Step.cost
  BY <1>1, StepEstimate
<1>3. costPath[n] \in Nat
  BY WayType
<1>4. n # curr
  BY <1>1, <1>2, <1>3
<1>5. CASE n \notin OPEN
  <2>1. n \in Closed /\ curr \in OPEN
    BY <1>1, <1>5 DEF Closed, OInv, Ordered, Expanding
  <2>2. Whole(n) =< Whole(curr)
    BY <2>1 DEF OInv, Ordered
  <2>3. /\ Whole(n) = costPath[n] + problem.estimate[Step.to]
        /\ Whole(curr) = costPath[curr] + problem.estimate[db[curr]]
    BY <1>1 DEF Whole, Way, Pending
  <2> QED
    BY <1>1, <1>2, <1>3, <2>2, <2>3
<1> QED
  BY <1>4, <1>5

LEMMA FoundLoserOpt ==
  ASSUME IInv, IInv', OInv, Consistent(problem), NEW n \in Nodes, FoundLoser(n)
  PROVE  OInv'
<1>1. /\ Applies /\ problem.compare /\ db[n] = Step.to /\ newCostPath < costPath[n]
      /\ loser' = n /\ base' = costPath[curr] /\ todo' = {n} /\ pc = "expand" /\ pc' = "recost"
      /\ UNCHANGED <<problem, nodeVars, OPEN, curr, next, target, resultVars>>
  BY DEF FoundLoser, Twins
<1>2. n \in OPEN /\ n # curr /\ curr \in OPEN /\ OPEN \subseteq Nodes
  BY <1>1, LoserIsOpen DEF OInv, Ordered, Expanding, IInv, TypeOK
<1>3. /\ problem.estimate[db[curr]] =< Step.cost + problem.estimate[Step.to]
      /\ problem.estimate[db[curr]] \in Nat /\ problem.estimate[Step.to] \in Nat
      /\ Step.cost \in Nat \ {0} /\ costPath[curr] \in Nat
      /\ newCostPath = costPath[curr] + Step.cost
  BY <1>1, StepEstimate
<1>4. /\ \A m : Way(m)' = IF m = n THEN newCostPath ELSE costPath[m]
      /\ \A m : Way(m) = costPath[m]
      /\ \A m \in Nodes : costPath[m] \in Nat /\ problem.estimate[db[m]] \in Nat
  <2>1. newCostPath' = newCostPath
    BY <1>1 DEF newCostPath, Step, nodeVars
  <2>2. \A m \in Nodes : costPath[m] \in Nat /\ problem.estimate[db[m]] \in Nat
    BY WayType
  <2> QED
    BY <1>1, <2>1, <2>2 DEF Way, Pending, nodeVars
<1>5. NoDearer /\ Grows
  <2>1. NoDearer
    BY <1>1, <1>3, <1>4 DEF NoDearer
  <2>2. size \in Nat
    BY NodeType DEF IInv
  <2> QED
    BY <1>1, <2>1, <2>2 DEF Grows, nodeVars, Nodes
<1>6. Closed' = Closed /\ Nodes' = Nodes /\ Expanding /\ Expanding'
  BY <1>1 DEF Closed, Nodes, Expanding, nodeVars
<1>7. AllBeaten'
  BY <1>1, <1>5, <1>6, AllBeatenStill DEF nodeVars
<1>8. Keys' /\ WaysAdd' /\ Leaves' /\ LeafMoves'
  BY <1>1, <1>2, <1>6 DEF OInv, Keys, WaysAdd, Leaves, LeafMoves, Pending, nodeVars
<1>9. /\ \A m : m # n => Whole(m)' = Whole(m)
      /\ Whole(curr) =< Whole(n)'
  <2>1. \A m : m # n => Whole(m)' = Whole(m)
    BY <1>1, <1>4 DEF Whole, nodeVars
  <2>2. Whole(n)' = newCostPath + problem.estimate[Step.to]
    BY <1>1, <1>4 DEF Whole, nodeVars
  <2>3. Whole(curr) = costPath[curr] + problem.estimate[db[curr]]
    BY <1>4 DEF Whole
  <2> QED
    BY <1>3, <2>1, <2>2, <2>3
<1>10. /\ \A k \in OPEN : Whole(curr) =< Whole(k)
       /\ \A m \in Closed, k \in OPEN : Whole(m) =< Whole(k)
       /\ 1 \in OPEN => curr = 1
  BY <1>6 DEF OInv, Ordered
<1>11. \A m \in Closed : Whole(m) =< Whole(n)'
  <2> SUFFICES ASSUME NEW m \in Closed PROVE Whole(m) =< Whole(n)'
    OBVIOUS
  <2>1. Whole(m) =< Whole(curr) /\ Whole(curr) =< Whole(n)'
    BY <1>2, <1>9, <1>10
  <2>2. Whole(m) \in Nat /\ Whole(curr) \in Nat /\ Whole(n)' \in Nat
    <3>1. m \in Nodes
      BY DEF Closed
    <3>2. /\ Whole(m) = costPath[m] + problem.estimate[db[m]]
          /\ Whole(curr) = costPath[curr] + problem.estimate[db[curr]]
          /\ Whole(n)' = newCostPath + problem.estimate[Step.to]
      BY <1>1, <1>4 DEF Whole, nodeVars
    <3> QED
      BY <1>3, <1>4, <3>1, <3>2
  <2> QED
    BY <2>1, <2>2
<1>12. Ordered'
  <2>1. PICK c : c = curr
    OBVIOUS
  <2>2. \A k \in OPEN : Whole(c)' =< Whole(k)'
    BY <1>2, <1>9, <1>10, <2>1
  <2>3. \A m \in Closed, k \in OPEN : Whole(m)' =< Whole(k)'
    BY <1>2, <1>9, <1>10, <1>11 DEF Closed
  <2> QED
    BY <1>1, <1>2, <1>6, <1>10, <2>1, <2>2, <2>3 DEF Ordered
<1>13. UniqueStates' /\ Reckoned' /\ SolutionCostIsSum' /\ TargetIsCheapest'
  BY <1>1, <1>6 DEF OInv, UniqueStates, Reckoned, SolutionCostIsSum, TargetIsCheapest, nodeVars
<1> QED
  BY <1>7, <1>8, <1>12, <1>13 DEF OInv

\* The node that moves has no children, and is none of those that were expanded.
LEMMA LoserIsLeaf ==
  ASSUME IInv, OInv, pc = "recost"
  PROVE  /\ Applies /\ db[loser] = Step.to /\ loser \in 2..size /\ loser \in Node /\ curr \in Node
         /\ loser # curr /\ loser \in OPEN /\ curr \in OPEN /\ OPEN \subseteq Nodes /\ base = costPath[curr]
         /\ \A m \in Nodes : parent[m] # loser
         /\ size \in Nat /\ Nodes \subseteq Node /\ todo \subseteq {loser}
<1>1. Applies /\ db[loser] = Step.to /\ loser # 1 /\ OPEN \subseteq Nodes /\ curr \in Nodes /\ loser \in Nodes
  BY DEF IInv, Moving, TypeOK
<1>2. loser \in OPEN \ {curr} /\ base = costPath[curr] /\ todo \subseteq {loser} /\ curr \in OPEN
  BY DEF OInv, LeafMoves, Ordered, Expanding
<1>3. size \in Nat \ {0} /\ Nodes \subseteq Node /\ loser \in 2..size
  BY <1>1, NodeType DEF IInv, Nodes
<1>4. ASSUME NEW m \in Nodes, parent[m] = loser
      PROVE  FALSE
  <2>1. m # 1 /\ m \in 2..size
    <3>1. m # 1
      BY <1>3, <1>4 DEF IInv, Root
    <3> QED
      BY <1>3, <3>1 DEF Nodes
  <2>2. loser \in Closed \/ loser = curr
    BY <1>4, <2>1 DEF OInv, Leaves
  <2> QED
    BY <1>2, <2>2 DEF Closed
<1> QED
  BY <1>1, <1>2, <1>3, <1>4

LEMMA ReCostOpt ==
  ASSUME IInv, IInv', OInv, NEW n \in Nodes, ReCostSubTree(n)
  PROVE  OInv'
<1>1. /\ pc = "recost" /\ n \in todo
      /\ costPath' = [costPath EXCEPT ![n] = costRule[n] + IF n = loser THEN base ELSE costPath[parent[n]]]
      /\ todo' = (todo \ {n}) \cup (Children(n) \ {loser})
      /\ UNCHANGED <<problem, size, db, parent, activity, costRule, costRest, number, numbers,
                      OPEN, pc, curr, next, loser, base, target, resultVars>>
  BY DEF ReCostSubTree
<1>2. /\ Applies /\ loser \in Node /\ curr \in Node /\ loser # curr /\ loser \in OPEN /\ curr \in OPEN
      /\ \A m \in Nodes : parent[m] # loser
      /\ size \in Nat /\ Nodes \subseteq Node /\ todo \subseteq {loser} /\ base = costPath[curr]
  BY <1>1, LoserIsLeaf
<1>3. n = loser /\ todo' = {}
  BY <1>1, <1>2 DEF Children
<1>4. \A m \in Node \ {loser} : costPath'[m] = costPath[m]
  BY <1>1, <1>2, <1>3 DEF IInv, TypeOK
<1>5. /\ Closed' = Closed /\ Nodes' = Nodes /\ Expanding /\ Expanding'
      /\ \A m \in Closed \cup {curr} : m # loser /\ m \in Node
  BY <1>1, <1>2 DEF Closed, Nodes, Expanding
<1>6. \A m \in Nodes : Way(m)' = Way(m) /\ Whole(m)' = Whole(m)
  <2>1. newCostPath' = newCostPath
    BY <1>1, <1>2, <1>4 DEF newCostPath, Step
  <2> QED
    BY <1>1, <1>2, <1>4, <2>1 DEF Way, Whole, Pending
<1>7. NoDearer /\ Grows
  <2>1. \A m \in Nodes : Way(m) \in Nat
    BY WayType
  <2> QED
    BY <1>1, <1>2, <1>5, <1>6, <2>1 DEF NoDearer, Grows
<1>8. AllBeaten'
  BY <1>1, <1>4, <1>5, <1>7, AllBeatenStill
<1>9. Ordered'
  <2>1. PICK c : c = curr
    OBVIOUS
  <2>2. /\ c \in OPEN /\ c \in Nodes /\ OPEN \subseteq Nodes /\ Closed \subseteq Nodes
        /\ \A k \in OPEN : Whole(c) =< Whole(k)
        /\ \A m \in Closed, k \in OPEN : Whole(m) =< Whole(k)
        /\ 1 \in OPEN => c = 1
    BY <1>2, <1>5, <2>1 DEF OInv, Ordered, IInv, TypeOK, Closed
  <2> QED
    BY <1>1, <1>5, <1>6, <2>1, <2>2 DEF Ordered
<1>10. WaysAdd'
  <2> SUFFICES ASSUME NEW m \in 2..size, m # loser
               PROVE  costPath'[m] = costPath'[parent[m]] + costRule[m]
    BY <1>1 DEF WaysAdd, Pending
  <2>1. m \in Nodes /\ parent[m] # loser
    BY <1>2 DEF Nodes
  <2>2. parent[m] \in Nodes
    BY DEF IInv, ArcsAreRules
  <2> QED
    BY <1>2, <1>4, <2>1, <2>2 DEF OInv, WaysAdd, Pending
<1>11. Keys'
  <2> SUFFICES ASSUME NEW m \in 2..size, m # loser
               PROVE  costRest[m] = costPath'[m] + problem.estimate[db[m]]
    BY <1>1 DEF Keys, Pending
  <2>1. m \in Node
    BY <1>2 DEF Nodes
  <2> QED
    BY <1>4, <2>1 DEF OInv, Keys, Pending
<1>12. Leaves' /\ LeafMoves'
  BY <1>1, <1>2, <1>3, <1>4, <1>5 DEF OInv, Leaves, LeafMoves
<1>13. UniqueStates' /\ Reckoned' /\ SolutionCostIsSum' /\ TargetIsCheapest'
  BY <1>1, <1>5 DEF OInv, UniqueStates, Reckoned, SolutionCostIsSum, TargetIsCheapest
<1> QED
  BY <1>8, <1>9, <1>10, <1>11, <1>12, <1>13 DEF OInv

LEMMA ChangeParentOpt ==
  ASSUME IInv, IInv', OInv, ChangeParent
  PROVE  OInv'
<1>1. /\ pc = "recost" /\ pc' = "expand" /\ next' = next + 1
      /\ parent' = [parent EXCEPT ![loser] = curr]
      /\ costRule' = [costRule EXCEPT ![loser] = Step.cost]
      /\ costPath' = [costPath EXCEPT ![loser] = base + Step.cost]
      /\ costRest' = [costRest EXCEPT ![loser] = base + Step.cost + problem.estimate[Step.to]]
      /\ UNCHANGED <<problem, size, db, OPEN, curr, moveVars, target, resultVars>>
  BY DEF ChangeParent
<1>2. /\ Applies /\ db[loser] = Step.to /\ loser \in Node /\ curr \in Node /\ loser # curr /\ loser \in OPEN
      /\ curr \in OPEN /\ OPEN \subseteq Nodes
      /\ \A m \in Nodes : parent[m] # loser
      /\ size \in Nat /\ Nodes \subseteq Node /\ base = costPath[curr]
  BY <1>1, LoserIsLeaf
<1>3. /\ parent'[loser] = curr /\ costRule'[loser] = Step.cost /\ costPath'[loser] = newCostPath
      /\ costRest'[loser] = newCostPath + problem.estimate[db[loser]]
  BY <1>1, <1>2 DEF IInv, TypeOK, newCostPath
<1>4. \A m \in Node \ {loser} : /\ parent'[m] = parent[m] /\ costRule'[m] = costRule[m]
                               /\ costPath'[m] = costPath[m] /\ costRest'[m] = costRest[m]
  BY <1>1, <1>2 DEF IInv, TypeOK
<1>5. /\ Closed' = Closed /\ Nodes' = Nodes /\ Expanding /\ Expanding'
      /\ \A m \in Closed \cup {curr} : m # loser /\ m \in Node
  BY <1>1, <1>2 DEF Closed, Nodes, Expanding
<1>6. \A m \in Nodes : Way(m)' = Way(m) /\ Whole(m)' = Whole(m)
  BY <1>1, <1>2, <1>3, <1>4 DEF Way, Whole, Pending
<1>7. NoDearer /\ Grows
  <2>1. \A m \in Nodes : Way(m) \in Nat
    BY WayType
  <2> QED
    BY <1>1, <1>2, <1>5, <1>6, <2>1 DEF NoDearer, Grows
<1>8. AllBeaten'
  <2>1. loser \in Nodes' /\ db'[loser] = Step.to /\ Way(loser) = newCostPath
    BY <1>1, <1>2, <1>5 DEF Way, Pending
  <2>2. newCostPath \in Nat
    BY <1>2, StepType DEF IInv
  <2>3. PICK m \in Nodes : m = loser
    BY <1>2
  <2>4. m \in Nodes' /\ db'[m] = Step.to /\ Way(m)' =< newCostPath
    BY <1>5, <1>6, <2>1, <2>2, <2>3
  <2> QED
    BY <1>1, <1>4, <1>5, <1>7, <2>4, AllBeatenStill
<1>9. Ordered'
  <2>1. PICK c : c = curr
    OBVIOUS
  <2>2. /\ c \in OPEN /\ c \in Nodes /\ OPEN \subseteq Nodes /\ Closed \subseteq Nodes
        /\ \A k \in OPEN : Whole(c) =< Whole(k)
        /\ \A m \in Closed, k \in OPEN : Whole(m) =< Whole(k)
        /\ 1 \in OPEN => c = 1
    BY <1>2, <1>5, <2>1 DEF OInv, Ordered, Closed
  <2> QED
    BY <1>1, <1>5, <1>6, <2>1, <2>2 DEF Ordered
<1>10. ASSUME NEW m \in 2..size
       PROVE  /\ m \in Nodes /\ m \in Node /\ parent[m] \in Node /\ parent[m] # loser
              /\ costRest'[m] = costPath'[m] + problem.estimate[db[m]]
              /\ costPath'[m] = costPath'[parent'[m]] + costRule'[m]
              /\ parent'[m] \in Closed \/ parent'[m] = curr
  <2>1. m \in Nodes /\ m \in Node /\ parent[m] \in Node /\ parent[m] # loser
    <3>1. m \in Nodes /\ parent[m] # loser
      BY <1>2 DEF Nodes
    <3>2. parent[m] \in Nodes
      BY DEF IInv, ArcsAreRules
    <3> QED
      BY <1>2, <3>1, <3>2
  <2>2. CASE m = loser
    <3>1. costPath'[curr] = costPath[curr]
      BY <1>2, <1>4
    <3> QED
      BY <1>3, <2>1, <2>2, <3>1 DEF newCostPath
  <2>3. CASE m # loser
    <3>1. /\ costRest[m] = costPath[m] + problem.estimate[db[m]]
          /\ costPath[m] = costPath[parent[m]] + costRule[m]
          /\ parent[m] \in Closed \/ parent[m] = curr
      BY <2>3 DEF OInv, Keys, WaysAdd, Leaves, Pending
    <3> QED
      BY <1>4, <2>1, <2>3, <3>1
  <2> QED
    BY <2>2, <2>3
<1>11. Keys' /\ WaysAdd' /\ Leaves'
  BY <1>1, <1>5, <1>10 DEF Keys, WaysAdd, Leaves
<1>12. LeafMoves'
  BY <1>1 DEF LeafMoves
<1>13. UniqueStates' /\ Reckoned' /\ SolutionCostIsSum' /\ TargetIsCheapest'
  BY <1>1, <1>5 DEF OInv, UniqueStates, Reckoned, SolutionCostIsSum, TargetIsCheapest
<1> QED
  BY <1>8, <1>9, <1>11, <1>12, <1>13 DEF OInv

LEMMA NewNodeOpt ==
  ASSUME IInv, IInv', OInv, Consistent(problem), NewNode
  PROVE  OInv'
<1>0. PICK N : N = size'
  OBVIOUS
<1>1. /\ pc = "expand" /\ pc' = "expand" /\ Applies /\ next' = next + 1
      /\ parent' = [parent EXCEPT ![N] = curr]
      /\ costRule' = [costRule EXCEPT ![N] = Step.cost]
      /\ costPath' = [costPath EXCEPT ![N] = newCostPath]
      /\ costRest' = [costRest EXCEPT ![N] = newCostPath + problem.estimate[Step.to]]
      /\ OPEN' = OPEN \cup {N}
      /\ UNCHANGED <<problem, pc, curr, moveVars, target, resultVars>>
  BY <1>0 DEF NewNode
<1>2. CInv'
  BY <1>1, CostsAdd, NewNodeCosts
<1>3. /\ Grows /\ N \in Node /\ N \notin Nodes /\ Nodes' = Nodes \cup {N} /\ Nodes \subseteq Node
      /\ curr \in Nodes /\ db'[N] = Step.to /\ OPEN \subseteq Nodes /\ curr \in OPEN
  BY <1>0, <1>1, NewNodeGrows DEF IInv, TypeOK, OInv, Ordered, Expanding
<1>4. /\ parent'[N] = curr /\ costPath'[N] = newCostPath
      /\ costRest'[N] = newCostPath + problem.estimate[Step.to]
  BY <1>1, <1>3 DEF IInv, TypeOK
<1>5. \A m \in Nodes : /\ parent'[m] = parent[m] /\ costPath'[m] = costPath[m] /\ costRest'[m] = costRest[m]
                       /\ db'[m] = db[m]
  BY <1>1, <1>3 DEF IInv, TypeOK, Grows
<1>6. Closed' = Closed /\ Expanding /\ Expanding'
  BY <1>1, <1>3 DEF Closed, Expanding
<1>7. /\ \A m : Way(m)' = costPath'[m] /\ Way(m) = costPath[m]
      /\ \A m \in Nodes : Whole(m)' = Whole(m)
      /\ Whole(N)' = newCostPath + problem.estimate[Step.to]
  <2>1. \A m : Way(m)' = costPath'[m] /\ Way(m) = costPath[m]
    BY <1>1 DEF Way, Pending
  <2> QED
    BY <1>1, <1>3, <1>4, <1>5, <2>1 DEF Whole
<1>8. NoDearer
  <2>1. \A m \in Nodes : costPath[m] \in Nat
    BY WayType
  <2> QED
    BY <1>5, <1>7, <2>1 DEF NoDearer
<1>9. /\ problem.estimate[db[curr]] =< Step.cost + problem.estimate[Step.to]
      /\ problem.estimate[db[curr]] \in Nat /\ problem.estimate[Step.to] \in Nat
      /\ Step.cost \in Nat \ {0} /\ costPath[curr] \in Nat
      /\ newCostPath = costPath[curr] + Step.cost
  BY <1>1, StepEstimate
<1>10. AllBeaten'
  <2>1. \A m \in Closed \cup {curr} : costPath'[m] = costPath[m]
    BY <1>3, <1>5 DEF Closed
  <2>2. \E m \in Nodes' : db'[m] = Step.to /\ Way(m)' =< newCostPath
    <3>1. Way(N)' = newCostPath /\ newCostPath \in Nat
      BY <1>4, <1>7, <1>9
    <3> QED
      BY <1>3, <3>1
  <2> QED
    BY <1>1, <1>3, <1>6, <1>8, <2>1, <2>2, AllBeatenStill
<1>11. Keys' /\ Leaves' /\ LeafMoves' /\ WaysAdd'
  <2> SUFFICES ASSUME NEW m \in 2..N
               PROVE  /\ costRest'[m] = costPath'[m] + problem.estimate[db'[m]]
                      /\ parent'[m] \in Closed \/ parent'[m] = curr
    BY <1>0, <1>1, <1>2, <1>6 DEF Keys, Leaves, LeafMoves, WaysAdd, CInv, PathCostsAdd, Expanding
  <2>1. CASE m = N
    BY <1>3, <1>4, <2>1
  <2>2. CASE m # N
    <3>1. m \in 2..size /\ m \in Nodes
      <4>1. size \in Nat \ {0} /\ N = size + 1
        BY <1>0, NodeType DEF IInv, NewNode
      <4> QED
        BY <2>2, <4>1 DEF Nodes
    <3>2. /\ costRest[m] = costPath[m] + problem.estimate[db[m]]
          /\ parent[m] \in Closed \/ parent[m] = curr
      BY <1>1, <3>1 DEF OInv, Keys, Leaves, Pending
    <3> QED
      BY <1>5, <3>1, <3>2
  <2> QED
    BY <2>1, <2>2
<1>12. Ordered'
  <2>1. PICK c : c = curr
    OBVIOUS
  <2>2. /\ c \in OPEN /\ c \in Nodes /\ OPEN \subseteq Nodes /\ Closed \subseteq Nodes
        /\ \A k \in OPEN : Whole(c) =< Whole(k)
        /\ \A m \in Closed, k \in OPEN : Whole(m) =< Whole(k)
        /\ 1 \in OPEN => c = 1
    BY <1>3, <1>6, <2>1 DEF OInv, Ordered, Closed
  <2>4. Whole(c)' =< Whole(N)' /\ Whole(N)' \in Nat
    <3>1. Whole(c)' = costPath[c] + problem.estimate[db[c]]
      BY <1>7, <2>2 DEF Whole
    <3>2. Whole(N)' = newCostPath + problem.estimate[Step.to]
      BY <1>7
    <3> QED
      BY <1>9, <2>1, <3>1, <3>2
  <2>5. ASSUME NEW m \in Closed
        PROVE  Whole(m)' =< Whole(N)'
    <3>1. m \in Nodes /\ Whole(m) =< Whole(c)
      BY <2>2
    <3>2. costPath[m] \in Nat /\ problem.estimate[db[m]] \in Nat
      BY <3>1, WayType
    <3>3. Whole(m) = costPath[m] + problem.estimate[db[m]] /\ Whole(c) = costPath[c] + problem.estimate[db[c]]
      BY <1>7 DEF Whole
    <3>4. Whole(m)' = Whole(m) /\ Whole(c)' = Whole(c)
      BY <1>7, <2>2, <3>1
    <3> QED
      BY <1>9, <2>1, <2>4, <3>1, <3>2, <3>3, <3>4
  <2>6. 1 \in OPEN' => c = 1
    <3>1. 1 \in Nodes
      BY NodeType DEF IInv, Nodes
    <3> QED
      BY <1>1, <1>3, <2>2, <3>1
  <2>7. \A j \in OPEN' : j \in OPEN \/ j = N
    BY <1>1
  <2>8. /\ \A j \in OPEN : Whole(c)' =< Whole(j)'
        /\ \A m \in Closed, j \in OPEN : Whole(m)' =< Whole(j)'
    BY <1>7, <2>2
  <2>9. /\ \A j \in OPEN' : Whole(c)' =< Whole(j)'
        /\ \A m \in Closed, j \in OPEN' : Whole(m)' =< Whole(j)'
    BY <2>4, <2>5, <2>7, <2>8
  <2> QED
    BY <1>1, <1>6, <2>1, <2>2, <2>6, <2>9 DEF Ordered
<1>13. TargetIsCheapest'
  BY <1>1 DEF TargetIsCheapest
<1> QED
  BY <1>2, <1>10, <1>11, <1>12, <1>13 DEF OInv, CInv

-----------------------------------------------------------------------------
(***************************************************************************)
(* The invariant and what follows from it.                                 *)
(***************************************************************************)
LEMMA InitOIInv == Init => OIInv
<1> SUFFICES ASSUME Init PROVE OIInv
  OBVIOUS
<1>1. size = 1 /\ pc = "open" /\ OPEN = {1} /\ Closed = {}
  BY DEF Init, Closed, Nodes
<1>2. Keys /\ Ordered /\ Leaves /\ LeafMoves /\ WaysAdd /\ AllBeaten /\ TargetIsCheapest
  BY <1>1 DEF Keys, Ordered, Leaves, LeafMoves, WaysAdd, AllBeaten, TargetIsCheapest, Expanding
<1>3. UniqueStates /\ Reckoned /\ SolutionCostIsSum
  BY <1>1 DEF UniqueStates, Reckoned, SolutionCostIsSum, Nodes
<1> QED
  BY <1>2, <1>3, InitEInv DEF OIInv, OInv

LEMMA StutterOpt ==
  ASSUME OInv, UNCHANGED vars
  PROVE  OInv'
<1>1. Closed' = Closed /\ Nodes' = Nodes /\ (Expanding' <=> Expanding)
  BY DEF Closed, Nodes, Expanding, vars, nodeVars
<1>2. /\ \A n : (Pending(n)' <=> Pending(n)) /\ Way(n)' = Way(n) /\ Whole(n)' = Whole(n)
      /\ UNCHANGED <<problem, size, db, parent, costRule, costPath, costRest, OPEN, pc, curr, next,
                     loser, base, todo, target, path, total>>
  BY DEF Pending, Way, Whole, newCostPath, Step, vars, nodeVars, moveVars, resultVars
<1>3. \A n, i : Beaten(n, i) => Beaten(n, i)'
  BY <1>1, <1>2 DEF Beaten
<1>4. Keys' /\ WaysAdd' /\ Leaves' /\ LeafMoves'
  BY <1>1, <1>2 DEF OInv, Keys, WaysAdd, Leaves, LeafMoves
<1>5. Ordered'
  <2>1. PICK c : c = curr
    OBVIOUS
  <2>2. /\ Expanding => c \in OPEN /\ \A n \in OPEN : Whole(c) =< Whole(n)
        /\ \A m \in Closed, n \in OPEN : Whole(m) =< Whole(n)
        /\ 1 \in OPEN => IF Expanding THEN c = 1 ELSE size = 1
    BY <2>1 DEF OInv, Ordered
  <2> QED
    BY <1>1, <1>2, <2>1, <2>2 DEF Ordered
<1>6. AllBeaten'
  <2>1. PICK c : c = curr
    OBVIOUS
  <2>2. /\ \A n \in Closed, i \in DOMAIN problem.rules : Beaten(n, i)
        /\ Expanding => \A i \in DOMAIN problem.rules : i < next => Beaten(c, i)
    BY <2>1 DEF OInv, AllBeaten
  <2> QED
    BY <1>1, <1>2, <1>3, <2>1, <2>2 DEF AllBeaten
<1>7. TargetIsCheapest' /\ UniqueStates' /\ Reckoned' /\ SolutionCostIsSum'
  BY <1>1, <1>2 DEF OInv, TargetIsCheapest, UniqueStates, Reckoned, SolutionCostIsSum
<1> QED
  BY <1>4, <1>5, <1>6, <1>7 DEF OInv

LEMMA NextOIInv == OIInv /\ [Next]_vars => OIInv'
<1> SUFFICES ASSUME OIInv, [Next]_vars PROVE OIInv'
  OBVIOUS
<1>1. EInv' /\ IInv /\ IInv' /\ problem' = problem
  BY NextEInv, NextIInv, StepGrows DEF OIInv, EInv, Grows
<1> SUFFICES ASSUME OInv, Consistent(problem) PROVE OInv'
  BY <1>1 DEF OIInv, Consistent
<1>2. ASSUME NEW n \in Nodes, OpenNode(n)
      PROVE  OInv'
  BY <1>1, <1>2, OpenNodeOpt DEF OIInv, EInv, Explored
<1>3. ASSUME NEW n \in Nodes, FoundLoser(n) \/ ReCostSubTree(n)
      PROVE  OInv'
  BY <1>1, <1>3, FoundLoserOpt, ReCostOpt
<1>4. CASE NotApplicable \/ \E n \in Nodes : FoundBetter(n)
  BY <1>1, <1>4, NextActivityOpt
<1>5. CASE ChangeParent \/ NewNode \/ CloseNode
  BY <1>1, <1>5, ChangeParentOpt, NewNodeOpt, CloseNodeOpt
<1>6. CASE CollectPath \/ ApplyRule \/ ReportSuccess
  BY <1>1, <1>6, SolutionOpt
<1>7. CASE UNCHANGED vars
  BY <1>7, StutterOpt
<1> QED
  BY <1>2, <1>3, <1>4, <1>5, <1>6, <1>7 DEF Next

LEMMA AlwaysOIInv == Spec => []OIInv
BY InitOIInv, NextOIInv, PTL DEF Spec

\* FoundIsCheapest: the order of OPEN, the comparison of states and the changes of
\* parents together leave no cheaper way out: no way of up to MaxRules rules, for any
\* number, gets to a goal for less than what the rules applied to the model cost.
THEOREM CheapestIsFound == Spec => []FoundIsCheapest
<1>1. OIInv => FoundIsCheapest
  BY DEF OIInv, OInv, FoundIsCheapest, TargetIsCheapest, SolutionCostIsSum
<1> QED
  BY <1>1, AlwaysOIInv, PTL

\* OpenIsInOrder: with consistent estimates only leaves move, and they get a new key.
THEOREM OpenStaysInOrder == Spec => []OpenIsInOrder
<1>1. OIInv => OpenIsInOrder
  <2> SUFFICES ASSUME OIInv, Consistent(problem), pc = "open", NEW n \in OPEN \ {1}
               PROVE  costRest[n] = costPath[n] + problem.estimate[db[n]]
    BY DEF OpenIsInOrder, KeyIsPathPlusEstimate
  <2>1. OPEN \subseteq 1..size /\ size \in Nat
    BY NodeType DEF OIInv, EInv, IInv, TypeOK, Nodes
  <2>2. n \in 2..size
    BY <2>1
  <2> QED
    BY <2>2 DEF OIInv, OInv, Keys, Pending
<1> QED
  BY <1>1, AlwaysOIInv, PTL

\* PathCostsAdd, UniqueStates and SolutionCostIsSum hold of consistent estimates as
\* well, whatever the rules that lead to one state cost.
THEOREM CostsAreRight ==
  Spec => [](SameCost(problem) \/ Consistent(problem) =>
               PathCostsAdd /\ UniqueStates /\ SolutionCostIsSum)
<1>1. IIInv /\ OIInv => (SameCost(problem) \/ Consistent(problem) =>
                          PathCostsAdd /\ UniqueStates /\ SolutionCostIsSum)
  BY DEF IIInv, CInv, OIInv, OInv, WaysAdd, Pending, PathCostsAdd
<1> QED
  BY <1>1, AlwaysIIInv, AlwaysOIInv, PTL
=============================================================================
