-------------------------- MODULE SearchTree_proofs --------------------------
(***************************************************************************)
(* Proofs about the search, for every set of problems: any states, rules,  *)
(* costs and estimates, and for any number of nodes.                       *)
(***************************************************************************)
EXTENDS SearchTree, TLAPS, NatSets, SequenceTheorems

-----------------------------------------------------------------------------
(***************************************************************************)
(* What is true of every problem.                                          *)
(***************************************************************************)
\* The root is the start.  It never moves: no way to it is cheaper than none.
Root == parent[1] = 0 /\ costPath[1] = 0 /\ db[1] = problem.start

\* While a node moves, the activity that leads to it is the one that is tried.
Moving == pc = "recost" => Applies /\ db[loser] = Step.to /\ loser # 1 /\ 1 \notin todo

Untouched == real = problem.start /\ total = 0

Searching == pc \in {"open", "expand", "recost"} => path = <<>> /\ Untouched

\* The nodes of the path lead from one to the next and to the target.
IsChain == /\ target \in Nodes /\ db[target] \in problem.goal
           /\ \A i \in 1..Len(path) : path[i] \in 2..size
           /\ \A i \in 1..(Len(path) - 1) : parent[path[i + 1]] = path[i]
           /\ path # <<>> => path[Len(path)] = target

\* The path has come back to one of its nodes, and does not leave them again.
Circle == curr \in Range(path) /\ \A n \in Range(path) : parent[n] \in Range(path)

Upwards == pc = "walk" => /\ Untouched /\ IsChain
                          /\ \/ path = <<>> /\ curr = target
                             \/ path # <<>> /\ parent[path[1]] = curr
                             \/ Circle

\* The model is in the state of the node before the next one of the path.
Downwards == pc = "apply" => /\ IsChain
                             /\ path = <<>> => real = db[target]
                             /\ path # <<>> => real = db[parent[path[1]]]

IInv == /\ TypeOK /\ ArcsAreRules /\ Root /\ Moving
        /\ Searching /\ Upwards /\ Downwards /\ SolutionReachesGoal

LEMMA ProblemType ==
  ASSUME NEW p \in Problem
  PROVE  /\ p.start \in State /\ p.goal \subseteq State
         /\ p.estimate \in [State -> Nat]
         /\ p.rules \in Seq([State -> Rule \cup {None}])
BY SearchAssumption

LEMMA NodeType ==
  ASSUME TypeOK
  PROVE  /\ size \in Nat \ {0} /\ MaxNodes \in Nat \ {0} /\ size =< MaxNodes
         /\ 1 \in Node /\ 1..size \subseteq Node /\ 2..size \subseteq Node
<1>1. MaxNodes \in Nat \ {0} /\ size \in 1..MaxNodes
  BY SearchAssumption DEF TypeOK, Node
<1> QED
  BY <1>1 DEF Node

\* The step that is tried is a rule of the problem.
LEMMA StepType ==
  ASSUME TypeOK, Applies
  PROVE  /\ next \in DOMAIN problem.rules
         /\ Step.to \in State /\ Step.cost \in Nat \ {0}
         /\ Step = [to |-> Step.to, cost |-> Step.cost]
         /\ problem.estimate[Step.to] \in Nat
         /\ newCostPath \in Nat
         /\ curr \in Node
<1>1. problem.rules \in Seq([State -> Rule \cup {None}]) /\ problem.estimate \in [State -> Nat]
  BY ProblemType DEF TypeOK
<1>2. curr \in Node
  BY SearchAssumption DEF TypeOK, Node, Nodes
<1>5. next \in 1..Len(problem.rules) /\ db[curr] \in State /\ costPath[curr] \in Nat
  BY <1>1, <1>2 DEF TypeOK, Applies
<1>3. Step \in Rule
  BY <1>1, <1>2, <1>5 DEF Applies, Step
<1>4. Step.to \in State /\ Step.cost \in Nat \ {0} /\ Step = [to |-> Step.to, cost |-> Step.cost]
  BY <1>3 DEF Rule
<1> QED
  BY <1>1, <1>2, <1>4, <1>5 DEF newCostPath

LEMMA InitIInv == Init => IInv
<1> SUFFICES ASSUME Init PROVE IInv
  OBVIOUS
<1>1. problem.start \in State /\ MaxNodes \in Nat \ {0}
  BY ProblemType, SearchAssumption DEF Init
<1>2. TypeOK
  BY <1>1 DEF Init, TypeOK, Node, Nodes
<1>3. ArcsAreRules /\ Root /\ Moving /\ Searching /\ Upwards /\ Downwards /\ SolutionReachesGoal
  BY <1>1 DEF Init, ArcsAreRules, Root, Moving, Searching, Untouched, Upwards, Downwards,
              SolutionReachesGoal, Node
<1> QED
  BY <1>2, <1>3 DEF IInv

\* The arcs, the root and the states of the nodes stay as they are if the node
\* variables do.
LEMMA SameNodes ==
  ASSUME UNCHANGED <<problem, nodeVars>>
  PROVE  ArcsAreRules /\ Root => ArcsAreRules' /\ Root'
BY DEF nodeVars, ArcsAreRules, Root, Nodes

LEMMA OpenNodeStep ==
  ASSUME IInv, NEW n \in Nodes, OpenNode(n)
  PROVE  IInv'
<1>1. n \in OPEN /\ n \in 1..size /\ path = <<>> /\ Untouched
  BY DEF IInv, OpenNode, First, Searching, Nodes
<1>2. TypeOK'
  BY <1>1 DEF IInv, TypeOK, OpenNode, nodeVars, moveVars, resultVars, Node, Nodes
<1>3. ArcsAreRules' /\ Root'
  BY SameNodes DEF IInv, OpenNode
<1>4. Moving' /\ Searching' /\ Downwards' /\ SolutionReachesGoal'
  BY <1>1 DEF IInv, OpenNode, Moving, Searching, Downwards, SolutionReachesGoal, Untouched, resultVars
<1>5. Upwards'
  BY <1>1 DEF IInv, OpenNode, Upwards, Untouched, IsChain, resultVars, nodeVars, Nodes
<1> QED
  BY <1>2, <1>3, <1>4, <1>5 DEF IInv

\* The steps that only go on to the next activity.
LEMMA NextActivityStep ==
  ASSUME IInv, NotApplicable \/ \E n \in Nodes : FoundBetter(n)
  PROVE  IInv'
<1>1. /\ pc = "expand" /\ next' = next + 1
      /\ UNCHANGED <<problem, nodeVars, OPEN, pc, curr, moveVars, target, resultVars>>
  BY DEF NotApplicable, FoundBetter
<1>2. TypeOK'
  BY <1>1 DEF IInv, TypeOK, nodeVars, moveVars, resultVars, Node, Nodes
<1>3. ArcsAreRules' /\ Root'
  BY <1>1, SameNodes DEF IInv
<1>4. Moving' /\ Searching' /\ Upwards' /\ Downwards' /\ SolutionReachesGoal'
  BY <1>1 DEF IInv, Moving, Searching, Upwards, Downwards, SolutionReachesGoal, Untouched, resultVars
<1> QED
  BY <1>2, <1>3, <1>4 DEF IInv

LEMMA FoundLoserStep ==
  ASSUME IInv, NEW n \in Nodes, FoundLoser(n)
  PROVE  IInv'
<1>0. TypeOK /\ Applies
  BY DEF IInv, FoundLoser
<1>1. /\ Step.to = db[n] /\ newCostPath < costPath[n] /\ newCostPath \in Nat
      /\ costPath[curr] \in Nat /\ n # 1
  <2>1. n \in Twins /\ newCostPath < costPath[n] /\ costPath[1] = 0
    BY DEF IInv, FoundLoser, Root
  <2>2. curr \in Node /\ costPath[curr] \in Nat /\ newCostPath \in Nat
    BY <1>0, StepType DEF TypeOK
  <2> QED
    BY <2>1, <2>2 DEF Twins
<1>2. TypeOK'
  BY <1>1 DEF IInv, TypeOK, FoundLoser, nodeVars, resultVars, Node, Nodes
<1>3. ArcsAreRules' /\ Root'
  BY SameNodes DEF IInv, FoundLoser
<1>4. Moving'
  BY <1>1 DEF IInv, Moving, FoundLoser, Applies, Step, nodeVars
<1>5. Searching' /\ Upwards' /\ Downwards' /\ SolutionReachesGoal'
  BY DEF IInv, FoundLoser, Searching, Upwards, Downwards, SolutionReachesGoal, Untouched, resultVars
<1> QED
  BY <1>2, <1>3, <1>4, <1>5 DEF IInv

LEMMA ReCostStep ==
  ASSUME IInv, NEW n \in Nodes, ReCostSubTree(n)
  PROVE  IInv'
<1>0. TypeOK /\ n # 1
  BY DEF IInv, Moving, ReCostSubTree
<1>1. n \in 2..size /\ n \in Node
  BY <1>0, NodeType DEF Nodes
<1>2. parent[n] \in 1..size /\ costRule[n] \in Nat
  BY <1>1 DEF IInv, ArcsAreRules, TypeOK, Nodes
<1>3. costRule[n] + (IF n = loser THEN base ELSE costPath[parent[n]]) \in Nat
  <2>1. costPath[parent[n]] \in Nat /\ base \in Nat
    BY <1>0, <1>2, NodeType DEF TypeOK
  <2> QED
    BY <1>2, <2>1
<1>4. costPath' \in [Node -> Nat] /\ costPath'[1] = costPath[1]
  BY <1>0, <1>1, <1>3 DEF TypeOK, ReCostSubTree
<1>5. TypeOK'
  BY <1>4 DEF IInv, TypeOK, ReCostSubTree, Children, resultVars, Node, Nodes
<1>6. ArcsAreRules' /\ Root'
  BY <1>4 DEF IInv, ArcsAreRules, Root, ReCostSubTree, Nodes
<1>7. Moving'
  BY <1>1 DEF IInv, Moving, ReCostSubTree, Applies, Step, Children, Root
<1>8. Searching' /\ Upwards' /\ Downwards' /\ SolutionReachesGoal'
  BY DEF IInv, ReCostSubTree, Searching, Upwards, Downwards, SolutionReachesGoal, Untouched, resultVars
<1> QED
  BY <1>5, <1>6, <1>7, <1>8 DEF IInv

LEMMA ChangeParentStep ==
  ASSUME IInv, ChangeParent
  PROVE  IInv'
<1>1. /\ Applies /\ db[loser] = Step.to /\ loser \in 2..size /\ loser \in Node
      /\ curr \in 1..size
  <2>1. TypeOK /\ Applies /\ db[loser] = Step.to /\ loser # 1
    BY DEF IInv, ChangeParent, Moving
  <2>2. loser \in 1..size /\ curr \in 1..size
    BY <2>1 DEF TypeOK, Nodes
  <2> QED
    BY <2>1, <2>2, NodeType
<1>0. TypeOK /\ size \in Nat /\ 1 \in Node
  BY NodeType DEF IInv
<1>2. TypeOK'
  <2>1. Step.cost \in Nat /\ problem.estimate[Step.to] \in Nat
    BY <1>0, <1>1, StepType
  <2>2. base + Step.cost \in Nat /\ base + Step.cost + problem.estimate[Step.to] \in Nat
        /\ numbers + 1 \in Nat /\ next \in Nat /\ next + 1 \in Nat \ {0} /\ curr \in 0..size
    <3>1. base \in Nat /\ numbers \in Nat /\ next \in Nat \ {0}
      BY <1>0 DEF TypeOK
    <3> QED
      BY <1>0, <1>1, <2>1, <3>1
  <2> QED
    BY <1>0, <1>1, <2>1, <2>2 DEF TypeOK, ChangeParent, moveVars, resultVars, Nodes
<1>3. Root'
  BY <1>0, <1>1 DEF IInv, Root, TypeOK, ChangeParent
<1>4. ASSUME NEW n \in 2..size'
      PROVE  /\ parent'[n] \in Nodes' /\ activity'[n] \in DOMAIN problem'.rules
             /\ problem'.rules[activity'[n]][db'[parent'[n]]] # None
             /\ problem'.rules[activity'[n]][db'[parent'[n]]] = [to |-> db'[n], cost |-> costRule'[n]]
  <2>1. n \in 2..size /\ n \in Node
    BY <1>0, NodeType DEF ChangeParent
  <2>2. CASE n = loser
    <3>1. parent'[n] = curr /\ activity'[n] = next /\ costRule'[n] = Step.cost
      BY <2>1, <2>2 DEF ChangeParent, IInv, TypeOK
    <3> QED
      BY <1>0, <1>1, <2>1, <2>2, <3>1, StepType DEF ChangeParent, Applies, Step, Nodes
  <2>3. CASE n # loser
    BY <2>1, <2>3 DEF ChangeParent, IInv, TypeOK, ArcsAreRules, Nodes
  <2> QED
    BY <2>2, <2>3
<1>5. ArcsAreRules'
  BY <1>4 DEF ArcsAreRules
<1>6. Moving' /\ Searching' /\ Upwards' /\ Downwards' /\ SolutionReachesGoal'
  BY DEF IInv, ChangeParent, Moving, Searching, Upwards, Downwards, SolutionReachesGoal, Untouched, resultVars
<1> QED
  BY <1>2, <1>3, <1>5, <1>6 DEF IInv

LEMMA NewNodeStep ==
  ASSUME IInv, NewNode
  PROVE  IInv'
<1>1. /\ Applies /\ curr \in 1..size /\ size \in Nat /\ MaxNodes \in Nat
      /\ size' = size + 1 /\ size' \in Node /\ size' # 1
  BY SearchAssumption DEF IInv, NewNode, TypeOK, Node, Nodes
<1>0. TypeOK /\ 1 \in Node /\ 1..size \subseteq Node
  BY NodeType DEF IInv
<1>2. TypeOK'
  <2>1. /\ Step.to \in State /\ Step.cost \in Nat /\ newCostPath \in Nat
        /\ problem.estimate[Step.to] \in Nat
    BY <1>0, <1>1, StepType
  <2>2. newCostPath + problem.estimate[Step.to] \in Nat
        /\ numbers + 1 \in Nat /\ next \in Nat /\ next + 1 \in Nat \ {0} /\ curr \in 0..size'
        /\ 1..size \subseteq 1..size' /\ 0..size \subseteq 0..size' /\ size' \in 1..size'
    <3>1. numbers \in Nat /\ next \in Nat \ {0}
      BY <1>0 DEF TypeOK
    <3> QED
      BY <1>1, <2>1, <3>1
  <2>3. /\ db' \in [Node -> State] /\ parent' \in [Node -> 0..size'] /\ activity' \in [Node -> Nat]
        /\ costRule' \in [Node -> Nat] /\ costPath' \in [Node -> Nat] /\ costRest' \in [Node -> Nat]
        /\ number' \in [Node -> Nat]
    BY <1>0, <1>1, <2>1, <2>2 DEF TypeOK, NewNode
  <2>4. path' \in Seq(Nodes')
    <3>1. path' = <<>>
      BY DEF IInv, Searching, NewNode, resultVars
    <3> QED
      BY <3>1
  <2> QED
    BY <1>0, <1>1, <2>2, <2>3, <2>4 DEF TypeOK, NewNode, moveVars, resultVars, Nodes
<1>3. Root'
  BY <1>0, <1>1 DEF IInv, Root, TypeOK, NewNode
<1>4. ASSUME NEW n \in 2..size'
      PROVE  /\ parent'[n] \in Nodes' /\ activity'[n] \in DOMAIN problem'.rules
             /\ problem'.rules[activity'[n]][db'[parent'[n]]] # None
             /\ problem'.rules[activity'[n]][db'[parent'[n]]] = [to |-> db'[n], cost |-> costRule'[n]]
  <2>2. CASE n = size'
    <3>1. parent'[n] = curr /\ activity'[n] = next /\ costRule'[n] = Step.cost /\ db'[n] = Step.to
      BY <1>1, <2>2 DEF NewNode, IInv, TypeOK
    <3>2. db'[curr] = db[curr]
      BY <1>0, <1>1 DEF NewNode, TypeOK
    <3> QED
      <4>1. problem' = problem /\ curr \in Nodes'
        BY <1>1 DEF NewNode, Nodes
      <4>2. Step # None /\ Step = [to |-> Step.to, cost |-> Step.cost] /\ next \in DOMAIN problem.rules
        BY <1>0, <1>1, StepType DEF Applies, Step
      <4> QED
        BY <3>1, <3>2, <4>1, <4>2 DEF Step
  <2>3. CASE n # size'
    <3>1. n \in 2..size /\ n \in Node
      BY <1>1, <2>3 DEF Node
    <3>2. /\ parent'[n] = parent[n] /\ activity'[n] = activity[n] /\ costRule'[n] = costRule[n]
          /\ db'[n] = db[n] /\ parent[n] \in 1..size
      BY <2>3, <3>1 DEF NewNode, IInv, TypeOK, ArcsAreRules, Nodes
    <3>3. db'[parent[n]] = db[parent[n]]
      <4>1. parent[n] \in Node /\ parent[n] # size'
        BY <1>0, <1>1, <3>2
      <4> QED
        BY <4>1 DEF NewNode, TypeOK
    <3> QED
      BY <1>1, <3>1, <3>2, <3>3 DEF NewNode, IInv, ArcsAreRules, Nodes
  <2> QED
    BY <2>2, <2>3
<1>5. ArcsAreRules'
  BY <1>4 DEF ArcsAreRules
<1>6. Moving' /\ Searching' /\ Upwards' /\ Downwards' /\ SolutionReachesGoal'
  BY DEF IInv, NewNode, Moving, Searching, Upwards, Downwards, SolutionReachesGoal, Untouched, resultVars
<1> QED
  BY <1>2, <1>3, <1>5, <1>6 DEF IInv

LEMMA CloseNodeStep ==
  ASSUME IInv, CloseNode
  PROVE  IInv'
<1>1. TypeOK'
  BY DEF IInv, TypeOK, CloseNode, nodeVars, moveVars, resultVars, Node, Nodes
<1>2. ArcsAreRules' /\ Root'
  BY SameNodes DEF IInv, CloseNode
<1>3. Moving' /\ Searching' /\ Upwards' /\ Downwards' /\ SolutionReachesGoal'
  BY DEF IInv, CloseNode, Moving, Searching, Upwards, Downwards, SolutionReachesGoal, Untouched, resultVars
<1> QED
  BY <1>1, <1>2, <1>3 DEF IInv

-----------------------------------------------------------------------------
(***************************************************************************)
(* The way up and the way down.                                            *)
(***************************************************************************)
LEMMA Cons ==
  ASSUME NEW S, NEW s \in Seq(S), NEW e \in S
  PROVE  /\ <<e>> \o s \in Seq(S) /\ <<e>> \o s # <<>>
         /\ Len(<<e>> \o s) = Len(s) + 1 /\ (<<e>> \o s)[1] = e
         /\ \A i \in 1..Len(s) : (<<e>> \o s)[i + 1] = s[i]
OBVIOUS

LEMMA HeadTail ==
  ASSUME NEW S, NEW s \in Seq(S), s # <<>>
  PROVE  /\ Head(s) = s[1] /\ Len(s) \in Nat \ {0}
         /\ Tail(s) \in Seq(S) /\ Len(Tail(s)) = Len(s) - 1
         /\ \A i \in 1..(Len(s) - 1) : Tail(s)[i] = s[i + 1]
         /\ Tail(s) = <<>> <=> Len(s) = 1
<1>1. Head(s) = s[1] /\ Len(s) \in Nat \ {0}
  OBVIOUS
<1>2. Tail(s) \in Seq(S) /\ Len(Tail(s)) = Len(s) - 1
  BY HeadTailProperties
<1>3. \A i \in 1..(Len(s) - 1) : Tail(s)[i] = s[i + 1]
  BY <1>2, HeadTailProperties
<1>4. Tail(s) # <<>> => Len(Tail(s)) # 0
  BY <1>2, EmptySeq
<1>5. Tail(s) = <<>> => Len(Tail(s)) = 0
  BY EmptySeq
<1> QED
  BY <1>1, <1>2, <1>3, <1>4, <1>5

\* Only the root has no parent, and it is not on the path.
LEMMA PathBelowRoot ==
  ASSUME IInv, IsChain
  PROVE  /\ path \in Seq(1..size) /\ curr \in 1..size /\ Range(path) \subseteq 2..size
         /\ \A n \in 2..size : parent[n] \in 1..size
<1>1. path \in Seq(1..size) /\ curr \in 1..size
  BY DEF IInv, TypeOK, Nodes
<1>2. Range(path) \subseteq 2..size
  BY <1>1 DEF IsChain, Range
<1> QED
  BY <1>1, <1>2 DEF IInv, ArcsAreRules, Nodes

LEMMA CollectPathStep ==
  ASSUME IInv, CollectPath
  PROVE  IInv'
<1>1. Untouched /\ IsChain /\ size \in Nat \ {0} /\ pc = "walk"
  BY NodeType DEF IInv, CollectPath, Upwards
<1>2. /\ path \in Seq(1..size) /\ curr \in 1..size /\ Range(path) \subseteq 2..size
      /\ \A n \in 2..size : parent[n] \in 1..size
  BY <1>1, PathBelowRoot
<1>3. UNCHANGED <<problem, nodeVars, OPEN, next, moveVars, target, real, total>>
  BY DEF CollectPath
<1>4. ArcsAreRules' /\ Root'
  BY <1>3, SameNodes DEF IInv
<1>5. CASE parent[curr] = 0
  <2>1. curr = 1 /\ pc' = "apply" /\ UNCHANGED <<curr, path>>
    BY <1>2, <1>5 DEF CollectPath
  <2>2. ~Circle
    BY <1>2, <2>1 DEF Circle
  <2>3. TypeOK'
    BY <1>3, <2>1 DEF IInv, TypeOK, nodeVars, moveVars, Node, Nodes
  <2>4. IsChain'
    BY <1>1, <1>3, <2>1 DEF IsChain, nodeVars, Nodes
  <2>5. Downwards'
    BY <1>1, <1>3, <2>1, <2>2, <2>4 DEF IInv, Root, Upwards, Downwards, Untouched, nodeVars
  <2>6. Moving' /\ Searching' /\ Upwards' /\ SolutionReachesGoal'
    BY <2>1 DEF Moving, Searching, Upwards, SolutionReachesGoal
  <2> QED
    BY <1>4, <2>3, <2>5, <2>6 DEF IInv
<1>6. CASE parent[curr] # 0
  <2>1. /\ curr' = parent[curr] /\ pc' = "walk"
        /\ path' = IF curr \in Range(path) THEN path ELSE <<curr>> \o path
    BY <1>1, <1>6 DEF CollectPath
  <2>2. curr \in 2..size /\ parent[curr] \in 1..size
    BY <1>1, <1>2, <1>6 DEF IInv, Root
  <2>3. path' \in Seq(1..size)
    BY <1>2, <2>1, Cons
  <2>4. TypeOK'
    BY <1>3, <2>1, <2>2, <2>3 DEF IInv, TypeOK, nodeVars, moveVars, Nodes
  <2>5. Moving' /\ Searching' /\ Downwards' /\ SolutionReachesGoal'
    BY <2>1 DEF Moving, Searching, Downwards, SolutionReachesGoal
  <2>6. CASE curr \in Range(path)
    <3>1. path' = path /\ IsChain'
      BY <1>1, <1>3, <2>1, <2>6 DEF IsChain, nodeVars, Nodes
    <3>2. \A n \in Range(path) : parent[n] \in Range(path)
      <4>1. CASE Circle
        BY <4>1 DEF Circle
      <4>2. CASE path # <<>> /\ parent[path[1]] = curr
        <5> SUFFICES ASSUME NEW i \in 1..Len(path) PROVE parent[path[i]] \in Range(path)
          BY <1>2 DEF Range
        <5>1. CASE i = 1
          BY <2>6, <4>2, <5>1
        <5>2. CASE i # 1
          <6>1. i - 1 \in 1..(Len(path) - 1) /\ i - 1 \in 1..Len(path) /\ (i - 1) + 1 = i
            BY <1>2, <5>2
          <6>2. parent[path[i]] = path[i - 1]
            BY <1>1, <6>1 DEF IsChain
          <6> QED
            BY <1>2, <6>1, <6>2 DEF Range
        <5> QED
          BY <5>1, <5>2
      <4>3. path # <<>>
        BY <2>6 DEF Range
      <4> QED
        BY <1>1, <4>1, <4>2, <4>3 DEF IInv, Upwards
    <3>3. Circle'
      BY <1>3, <2>1, <2>6, <3>1, <3>2 DEF Circle, nodeVars
    <3>4. Upwards'
      BY <1>1, <1>3, <3>1, <3>3 DEF Upwards, Untouched
    <3> QED
      BY <1>4, <2>4, <2>5, <3>4 DEF IInv
  <2>7. CASE curr \notin Range(path)
    <3>1. path' = <<curr>> \o path /\ ~Circle
      BY <2>1, <2>7 DEF Circle
    <3>2. /\ path' # <<>> /\ Len(path') = Len(path) + 1 /\ path'[1] = curr
          /\ \A i \in 1..Len(path) : path'[i + 1] = path[i]
          /\ Len(path) \in Nat
      BY <1>2, <3>1, Cons
    <3>3. \A i \in 1..Len(path') : path'[i] \in 2..size
      <4> SUFFICES ASSUME NEW i \in 1..Len(path') PROVE path'[i] \in 2..size
        OBVIOUS
      <4>1. CASE i = 1
        BY <2>2, <3>2, <4>1
      <4>2. CASE i # 1
        <5>1. i - 1 \in 1..Len(path) /\ (i - 1) + 1 = i
          BY <3>2, <4>2
        <5> QED
          BY <1>1, <3>2, <5>1 DEF IsChain
      <4> QED
        BY <4>1, <4>2
    <3>4. \A i \in 1..(Len(path') - 1) : parent[path'[i + 1]] = path'[i]
      <4> SUFFICES ASSUME NEW i \in 1..(Len(path') - 1) PROVE parent[path'[i + 1]] = path'[i]
        OBVIOUS
      <4>1. i \in 1..Len(path) /\ path'[i + 1] = path[i]
        BY <3>2
      <4>2. CASE i = 1
        <5>1. path # <<>> /\ parent[path[1]] = curr
          BY <1>1, <1>2, <3>1, <4>1 DEF IInv, Upwards
        <5> QED
          BY <3>2, <4>1, <4>2, <5>1
      <4>3. CASE i # 1
        <5>1. i - 1 \in 1..(Len(path) - 1) /\ i - 1 \in 1..Len(path) /\ (i - 1) + 1 = i
          BY <3>2, <4>1, <4>3
        <5>2. parent[path[i]] = path[i - 1] /\ path'[i] = path[i - 1]
          BY <1>1, <3>2, <5>1 DEF IsChain
        <5> QED
          BY <4>1, <5>2
      <4> QED
        BY <4>2, <4>3
    <3>5. path'[Len(path')] = target
      <4>1. CASE path = <<>>
        BY <1>1, <3>1, <3>2, <4>1 DEF IInv, Upwards
      <4>2. CASE path # <<>>
        <5>1. Len(path) \in 1..Len(path)
          BY <1>2, <4>2
        <5> QED
          BY <1>1, <3>2, <4>2, <5>1 DEF IsChain
      <4> QED
        BY <4>1, <4>2
    <3>6. IsChain'
      BY <1>1, <1>3, <3>3, <3>4, <3>5 DEF IsChain, nodeVars, Nodes
    <3>7. Upwards'
      BY <1>1, <1>3, <2>1, <3>2, <3>6 DEF Upwards, Untouched, nodeVars
    <3> QED
      BY <1>4, <2>4, <2>5, <3>7 DEF IInv
  <2> QED
    BY <2>6, <2>7
<1> QED
  BY <1>5, <1>6

\* The rule fits, and leads to the next node of the path.
LEMMA RuleFits ==
  ASSUME IInv, ApplyRule
  PROVE  /\ path[1] \in 2..size /\ path[1] \in Node /\ path # <<>>
         /\ Len(path) \in Nat \ {0} /\ path' \in Seq(1..size) /\ Len(path') = Len(path) - 1
         /\ \A i \in 1..(Len(path) - 1) : path'[i] = path[i + 1]
         /\ real' = db[path[1]] /\ total' = total + costRule[path[1]]
         /\ path' = <<>> => path[1] = target
         /\ path' # <<>> => parent[path'[1]] = path[1]
<1> DEFINE h == path[1]
<1>1. IsChain /\ pc = "apply" /\ path # <<>> /\ real = db[parent[h]] /\ size \in Nat \ {0}
  BY NodeType DEF IInv, ApplyRule, Downwards
<1>2. path \in Seq(1..size)
  BY <1>1, PathBelowRoot
<1>3. Head(path) = h /\ Len(path) \in Nat \ {0}
  BY <1>1, <1>2, HeadTail
<1>4. /\ path' \in Seq(1..size) /\ Len(path') = Len(path) - 1
      /\ \A i \in 1..(Len(path) - 1) : path'[i] = path[i + 1]
      /\ path' = <<>> <=> Len(path) = 1
  BY <1>1, <1>2, HeadTail DEF ApplyRule
<1>5. h \in 2..size /\ h \in Node
  BY <1>1, <1>3, NodeType DEF IsChain, IInv
<1>6. UNCHANGED <<problem, nodeVars, OPEN, pc, curr, next, moveVars, target>>
  BY DEF ApplyRule
<1>7. /\ problem.rules[activity[h]][real] # None
      /\ problem.rules[activity[h]][real] = [to |-> db[h], cost |-> costRule[h]]
  BY <1>1, <1>5 DEF IInv, ArcsAreRules
<1>8. real' = db[h] /\ total' = total + costRule[h]
  <2>1. /\ real' = problem.rules[activity[h]][real].to
        /\ total' = total + problem.rules[activity[h]][real].cost
    BY <1>3, <1>7 DEF ApplyRule
  <2> QED
    BY <1>7, <2>1
<1>9. path' = <<>> => h = target
  BY <1>1, <1>4 DEF IsChain
<1>10. path' # <<>> => parent[path'[1]] = h
  <2> SUFFICES ASSUME path' # <<>> PROVE parent[path'[1]] = h
    OBVIOUS
  <2>1. 1 \in 1..(Len(path) - 1)
    BY <1>3, <1>4
  <2> QED
    BY <1>1, <1>4, <2>1 DEF IsChain
<1> QED
  BY <1>1, <1>3, <1>4, <1>5, <1>8, <1>9, <1>10

LEMMA ApplyRuleStep ==
  ASSUME IInv, ApplyRule
  PROVE  IInv'
<1> DEFINE h == path[1]
<1>1. IsChain /\ pc = "apply" /\ size \in Nat \ {0}
  BY NodeType DEF IInv, ApplyRule, Downwards
<1>3. /\ h \in 2..size /\ h \in Node /\ path # <<>> /\ Len(path) \in Nat \ {0}
      /\ real' = db[h] /\ total' = total + costRule[h]
      /\ path' = <<>> => h = target
      /\ path' # <<>> => parent[path'[1]] = h
  BY RuleFits
<1>4. /\ path' \in Seq(1..size) /\ Len(path') = Len(path) - 1
      /\ \A i \in 1..(Len(path) - 1) : path'[i] = path[i + 1]
      /\ Len(path') \in Nat /\ (path' # <<>> => Len(path') # 0)
  <2>1. /\ path' \in Seq(1..size) /\ Len(path') = Len(path) - 1
        /\ \A i \in 1..(Len(path) - 1) : path'[i] = path[i + 1]
    BY RuleFits
  <2> QED
    BY <1>3, <2>1, EmptySeq
<1>6. UNCHANGED <<problem, nodeVars, OPEN, pc, curr, next, moveVars, target>>
  BY DEF ApplyRule
<1>9. TypeOK'
  <2>1. real' \in State /\ total' \in Nat
    <3>1. db[h] \in State /\ costRule[h] \in Nat /\ total \in Nat
      BY <1>3 DEF IInv, TypeOK
    <3> QED
      BY <1>3, <3>1
  <2> QED
    BY <1>4, <1>6, <2>1 DEF IInv, TypeOK, nodeVars, moveVars, Nodes
<1>10. ArcsAreRules' /\ Root'
  BY <1>6, SameNodes DEF IInv
<1>11. IsChain'
  <2>1. \A i \in 1..Len(path') : path'[i] \in 2..size
    <3> SUFFICES ASSUME NEW i \in 1..Len(path') PROVE path'[i] \in 2..size
      OBVIOUS
    <3>1. i \in 1..(Len(path) - 1) /\ i + 1 \in 1..Len(path)
      BY <1>3, <1>4
    <3> QED
      BY <1>1, <1>4, <3>1 DEF IsChain
  <2>2. \A i \in 1..(Len(path') - 1) : parent[path'[i + 1]] = path'[i]
    <3> SUFFICES ASSUME NEW i \in 1..(Len(path') - 1) PROVE parent[path'[i + 1]] = path'[i]
      OBVIOUS
    <3>1. i \in 1..(Len(path) - 1) /\ i + 1 \in 1..(Len(path) - 1)
      BY <1>3, <1>4
    <3> QED
      BY <1>1, <1>4, <3>1 DEF IsChain
  <2>3. path' # <<>> => path'[Len(path')] = target
    <3> SUFFICES ASSUME path' # <<>> PROVE path'[Len(path')] = target
      OBVIOUS
    <3>1. Len(path) - 1 \in 1..(Len(path) - 1)
      BY <1>3, <1>4
    <3>2. path'[Len(path')] = path[(Len(path) - 1) + 1] /\ (Len(path) - 1) + 1 = Len(path)
      BY <1>3, <1>4, <3>1
    <3> QED
      BY <1>1, <1>3, <3>2 DEF IsChain
  <2> QED
    BY <1>1, <1>6, <2>1, <2>2, <2>3 DEF IsChain, nodeVars, Nodes
<1>12. Downwards'
  BY <1>3, <1>6, <1>11 DEF Downwards, nodeVars
<1>13. Moving' /\ Searching' /\ Upwards' /\ SolutionReachesGoal'
  BY <1>1, <1>6 DEF Moving, Searching, Upwards, SolutionReachesGoal
<1> QED
  BY <1>9, <1>10, <1>12, <1>13 DEF IInv

LEMMA ReportSuccessStep ==
  ASSUME IInv, ReportSuccess
  PROVE  IInv'
<1>1. TypeOK'
  BY DEF IInv, TypeOK, ReportSuccess, nodeVars, moveVars, resultVars, Node, Nodes
<1>2. ArcsAreRules' /\ Root'
  BY SameNodes DEF IInv, ReportSuccess
<1>3. Moving' /\ Searching' /\ Upwards' /\ Downwards'
  BY DEF ReportSuccess, Moving, Searching, Upwards, Downwards
<1>4. SolutionReachesGoal'
  BY DEF IInv, ReportSuccess, Downwards, IsChain, SolutionReachesGoal, nodeVars, resultVars
<1> QED
  BY <1>1, <1>2, <1>3, <1>4 DEF IInv

LEMMA NextIInv == IInv /\ [Next]_vars => IInv'
<1> SUFFICES ASSUME IInv, [Next]_vars PROVE IInv'
  OBVIOUS
<1>1. ASSUME NEW n \in Nodes, OpenNode(n) \/ FoundBetter(n) \/ FoundLoser(n) \/ ReCostSubTree(n)
      PROVE  IInv'
  BY <1>1, OpenNodeStep, NextActivityStep, FoundLoserStep, ReCostStep
<1>2. CASE NotApplicable \/ ChangeParent \/ NewNode \/ CloseNode
  BY <1>2, NextActivityStep, ChangeParentStep, NewNodeStep, CloseNodeStep
<1>3. CASE CollectPath \/ ApplyRule \/ ReportSuccess
  BY <1>3, CollectPathStep, ApplyRuleStep, ReportSuccessStep
<1>4. CASE UNCHANGED vars
  <2>1. TypeOK'
    BY <1>4 DEF IInv, TypeOK, vars, nodeVars, moveVars, resultVars, Node, Nodes
  <2>2. ArcsAreRules' /\ Root'
    BY <1>4, SameNodes DEF IInv, vars
  <2>3. Moving' /\ Searching'
    BY <1>4 DEF IInv, Moving, Applies, Step, Searching, Untouched, vars, nodeVars, moveVars, resultVars
  <2>4. IsChain => IsChain'
    BY <1>4 DEF IsChain, vars, nodeVars, resultVars, Nodes
  <2>5. Upwards' /\ Downwards' /\ SolutionReachesGoal'
    BY <1>4, <2>4 DEF IInv, Upwards, Downwards, Circle, SolutionReachesGoal, Untouched,
                      vars, nodeVars, resultVars
  <2> QED
    BY <2>1, <2>2, <2>3, <2>5 DEF IInv
<1> QED
  BY <1>1, <1>2, <1>3, <1>4 DEF Next

LEMMA AlwaysIInv == Spec => []IInv
BY InitIInv, NextIInv, PTL DEF Spec

\* The variables keep their types: no array of nodes is read outside the tree, no
\* rule is applied that the point does not have.
THEOREM TypeCorrect == Spec => []TypeOK
<1>1. IInv => TypeOK
  BY DEF IInv
<1> QED
  BY <1>1, AlwaysIInv, PTL

\* ArcsAreRules, for every problem: new nodes, changes of parents and new costs
\* leave every node what its activity makes of its parent (ExpandChildren).
THEOREM EveryArcIsARule == Spec => []ArcsAreRules
<1>1. IInv => ArcsAreRules
  BY DEF IInv
<1> QED
  BY <1>1, AlwaysIInv, PTL

\* SolutionReachesGoal, for every problem, also for those in which the tree breaks:
\* if onContinue reports success, the rules it has applied to the model, found by
\* way of the parents, have led from the state of the model to a goal.
THEOREM SuccessMeansGoal == Spec => []SolutionReachesGoal
<1>1. IInv => SolutionReachesGoal
  BY DEF IInv
<1> QED
  BY <1>1, AlwaysIInv, PTL

-----------------------------------------------------------------------------
(***************************************************************************)
(* Problems in which all rules that lead to a state cost the same there,   *)
(* as they do if the cost is a function of the state that is reached.      *)
(***************************************************************************)
Positive == \A n \in 2..size : costRule[n] > 0

\* While costs are recomputed, only the nodes of todo are out of step, and these are
\* all dearer than the new parent: the subtree does not contain it.
ReCosting ==
  pc = "recost" =>
    /\ problem.compare /\ base = costPath[curr]
    /\ costRule[loser] = Step.cost
    /\ \A n \in 2..size : parent[n] # n
    /\ \A n \in (2..size) \ {loser} : n \notin todo => costPath[n] = costPath[parent[n]] + costRule[n]
    /\ loser \notin todo => costPath[loser] = base + costRule[loser]
    /\ \A n \in todo : costPath[n] > base

\* What has been applied to the model costs what the way to the next node does.
Reckoned == pc = "apply" => total = IF path = <<>> THEN costPath[target]
                                                    ELSE costPath[parent[path[1]]]

CInv == PathCostsAdd /\ ReCosting /\ Reckoned /\ SolutionCostIsSum /\ UniqueStates

IIInv == IInv /\ (SameCost(problem) => CInv)

LEMMA CostsArePositive ==
  ASSUME IInv
  PROVE  Positive
<1> SUFFICES ASSUME NEW n \in 2..size PROVE costRule[n] > 0
  BY DEF Positive
<1> DEFINE rule == problem.rules[activity[n]][db[parent[n]]]
<1>1. rule # None /\ rule = [to |-> db[n], cost |-> costRule[n]]
  BY DEF IInv, ArcsAreRules
<1>2. /\ problem.rules \in Seq([State -> Rule \cup {None}])
      /\ activity[n] \in DOMAIN problem.rules /\ db[parent[n]] \in State
  BY ProblemType, NodeType DEF IInv, TypeOK, ArcsAreRules, Nodes
<1>3. rule \in Rule
  BY <1>1, <1>2
<1>4. rule.cost \in Nat \ {0}
  BY <1>3 DEF Rule
<1> QED
  BY <1>1, <1>4

\* The node that moves costs its new parent what it has cost the old one.
LEMMA LoserCost ==
  ASSUME IInv, SameCost(problem), Applies, NEW n \in 2..size, db[n] = Step.to
  PROVE  costRule[n] = Step.cost
<1> DEFINE s == db[parent[n]]
<1>1. /\ problem.rules[activity[n]][s] # None
      /\ problem.rules[activity[n]][s] = [to |-> db[n], cost |-> costRule[n]]
      /\ activity[n] \in DOMAIN problem.rules
  BY DEF IInv, ArcsAreRules
<1>2. s \in State /\ db[curr] \in State
  BY NodeType DEF IInv, TypeOK, ArcsAreRules, Nodes
<1>3. next \in DOMAIN problem.rules /\ Step # None
  BY StepType DEF IInv, Applies, Step
<1>4. problem.rules[activity[n]][s].to = Step.to
  BY <1>1
<1>5. problem.rules[activity[n]][s].cost = Step.cost
  <2> HIDE DEF s
  <2> QED BY <1>1, <1>2, <1>3, <1>4 DEF SameCost, Step
<1> QED
  BY <1>1, <1>5

\* Every node hangs on the root: a child is dearer than its parent, so that a set of
\* nodes that has the parent of each of them would have no cheapest one.
LEMMA AllInTree ==
  ASSUME IInv, PathCostsAdd, pc # "recost", NEW n \in Nodes
  PROVE  InTree(n)
<1> SUFFICES ASSUME NEW S \in SUBSET (2..size), S # {}, \A m \in S : parent[m] \in S PROVE FALSE
  BY DEF InTree
<1> DEFINE C == {costPath[m] : m \in S}
<1>1. S \subseteq Node
  BY NodeType DEF IInv
<1>2. C \in SUBSET Nat /\ C # {}
  BY <1>1 DEF IInv, TypeOK
<1>3. PICK c \in C : \A d \in C : c =< d
  <2> HIDE DEF C
  <2> QED BY <1>2, NatMin
<1>4. PICK m \in S : c = costPath[m]
  BY DEF C
<1>5. costPath[m] = costPath[parent[m]] + costRule[m] /\ costRule[m] > 0
  BY CostsArePositive DEF PathCostsAdd, Positive
<1>6. costPath[m] =< costPath[parent[m]] /\ costPath[parent[m]] \in Nat /\ costRule[m] \in Nat
  BY <1>1, <1>3, <1>4 DEF IInv, TypeOK
<1> QED
  BY <1>5, <1>6

LEMMA FoundLoserCosts ==
  ASSUME IInv, IInv', CInv, SameCost(problem), NEW n \in Nodes, FoundLoser(n)
  PROVE  CInv'
<1>1. /\ Applies /\ problem.compare /\ db[n] = Step.to /\ newCostPath < costPath[n]
      /\ loser' = n /\ base' = costPath[curr] /\ todo' = {n} /\ pc = "expand" /\ pc' = "recost"
      /\ UNCHANGED <<problem, nodeVars, OPEN, curr, next, target, resultVars>>
  BY DEF FoundLoser, Twins
<1>2. n \in 2..size /\ size \in Nat
  BY <1>1, NodeType DEF IInv, Moving, Nodes
<1>3. /\ costPath[curr] \in Nat /\ Step.cost \in Nat \ {0} /\ costRule[n] = Step.cost
      /\ newCostPath = costPath[curr] + Step.cost /\ costPath[n] \in Nat
  BY <1>1, <1>2, StepType, LoserCost, NodeType DEF IInv, TypeOK, newCostPath
<1>4. \A m \in 2..size : costPath[m] = costPath[parent[m]] + costRule[m]
  BY <1>1 DEF CInv, PathCostsAdd
<1>5. \A m \in 2..size : parent[m] # m
  <2> SUFFICES ASSUME NEW m \in 2..size, parent[m] = m PROVE FALSE
    OBVIOUS
  <2>1. costPath[m] = costPath[m] + costRule[m]
    BY <1>4
  <2>2. costPath[m] \in Nat /\ costRule[m] \in Nat /\ costRule[m] > 0
    BY CostsArePositive, NodeType DEF IInv, TypeOK, Positive
  <2> QED
    BY <2>1, <2>2
<1>6. costPath[n] > costPath[curr]
  BY <1>1, <1>3
<1>7. Step' = Step /\ size' = size
  BY <1>1 DEF Step, nodeVars
<1>8. ReCosting'
  BY <1>1, <1>3, <1>4, <1>5, <1>6, <1>7 DEF ReCosting, nodeVars
<1>9. PathCostsAdd' /\ Reckoned' /\ SolutionCostIsSum'
  BY <1>1 DEF PathCostsAdd, Reckoned, SolutionCostIsSum
<1>10. UniqueStates'
  BY <1>1 DEF CInv, UniqueStates, nodeVars, Nodes
<1> QED
  BY <1>8, <1>9, <1>10 DEF CInv

LEMMA ReCostCosts ==
  ASSUME IInv, IInv', CInv, NEW n \in Nodes, ReCostSubTree(n)
  PROVE  CInv'
<1>1. /\ pc = "recost" /\ n \in todo /\ n \in 2..size /\ loser # 1
      /\ costPath' = [costPath EXCEPT ![n] = costRule[n] + IF n = loser THEN base ELSE costPath[parent[n]]]
      /\ todo' = (todo \ {n}) \cup (Children(n) \ {loser})
      /\ UNCHANGED <<problem, size, db, parent, activity, costRule, costRest, number, numbers,
                      OPEN, pc, curr, next, loser, base, target, resultVars>>
  BY NodeType DEF IInv, Moving, ReCostSubTree, Nodes
<1>2. /\ problem.compare /\ base = costPath[curr] /\ costRule[loser] = Step.cost
      /\ \A m \in 2..size : parent[m] # m
      /\ \A m \in (2..size) \ {loser} : m \notin todo => costPath[m] = costPath[parent[m]] + costRule[m]
      /\ loser \notin todo => costPath[loser] = base + costRule[loser]
      /\ \A m \in todo : costPath[m] > base
  BY <1>1 DEF CInv, ReCosting
<1>3. /\ n \in Node /\ base \in Nat /\ todo \subseteq 2..size /\ loser \in 2..size
      /\ \A m \in 2..size : /\ m \in Node /\ parent[m] \in Node /\ costPath[m] \in Nat
                             /\ costRule[m] \in Nat /\ costRule[m] > 0 /\ costPath[parent[m]] \in Nat
  <2>1. TypeOK /\ 1 \notin todo /\ \A m \in 2..size : parent[m] \in 1..size
    BY <1>1 DEF IInv, Moving, ArcsAreRules, Nodes
  <2>2. todo \subseteq 1..size /\ loser \in 1..size /\ base \in Nat /\ size \in Nat
    BY <2>1, NodeType DEF TypeOK, Nodes
  <2>3. \A m \in 2..size : m \in Node /\ parent[m] \in Node
    BY <2>1, NodeType
  <2>4. \A m \in Node : costPath[m] \in Nat /\ costRule[m] \in Nat
    BY <2>1 DEF TypeOK
  <2>5. \A m \in 2..size : costRule[m] > 0
    BY CostsArePositive DEF Positive
  <2>6. todo \subseteq 2..size /\ loser \in 2..size
    BY <1>1, <2>1, <2>2
  <2> QED
    BY <1>1, <2>2, <2>3, <2>4, <2>5, <2>6
<1>4. \A m \in Node \ {n} : costPath'[m] = costPath[m]
  BY <1>1, <1>3 DEF IInv, TypeOK
<1>5. costPath'[n] = costRule[n] + IF n = loser THEN base ELSE costPath[parent[n]]
  BY <1>1, <1>3 DEF IInv, TypeOK
<1>6. curr # n /\ curr \in Node
  <2>1. costPath[n] > base /\ costPath[n] \in Nat
    BY <1>1, <1>2, <1>3
  <2>2. curr \in Node
    BY NodeType DEF IInv, TypeOK, Nodes
  <2> QED
    BY <1>2, <1>3, <2>1, <2>2
<1>7. ASSUME NEW m \in (2..size) \ {loser}, m \notin todo'
      PROVE  costPath'[m] = costPath'[parent[m]] + costRule[m]
  <2>1. parent[m] # n
    BY <1>1, <1>7 DEF Children, Nodes
  <2>2. CASE m = n
    <3>1. costPath'[n] = costRule[n] + costPath[parent[n]]
      BY <1>5, <1>7, <2>2
    <3>2. costPath'[parent[n]] = costPath[parent[n]] /\ costPath[parent[n]] \in Nat /\ costRule[n] \in Nat
      BY <1>1, <1>3, <1>4, <2>1, <2>2
    <3> QED
      BY <2>2, <3>1, <3>2
  <2>3. CASE m # n
    <3>1. m \notin todo
      BY <1>1, <1>7, <2>3
    <3> QED
      BY <1>2, <1>3, <1>4, <2>1, <2>3, <3>1
  <2> QED
    BY <2>2, <2>3
<1>8. loser \notin todo' => costPath'[loser] = base + costRule[loser]
  BY <1>1, <1>2, <1>3, <1>4, <1>5
<1>9. ASSUME NEW m \in todo'
      PROVE  costPath'[m] > base
  <2>1. m # n /\ (m \in todo \/ m \in Children(n) \ {loser})
    BY <1>1, <1>2 DEF Children
  <2>2. CASE m \in todo
    BY <1>2, <1>3, <1>4, <2>1, <2>2
  <2>3. CASE m \notin todo
    <3>1. parent[m] = n /\ m \in (2..size) \ {loser}
      <4>1. parent[m] = n /\ m \in 1..size /\ m # loser
        BY <2>1, <2>3 DEF Children, Nodes
      <4>2. m # 1
        BY <1>1, <4>1 DEF IInv, Root
      <4> QED
        BY <1>1, <4>1, <4>2, NodeType DEF IInv
    <3>2. costPath[m] = costPath[n] + costRule[m] /\ costPath[n] > base
      BY <1>1, <1>2, <2>3, <3>1
    <3> QED
      BY <1>1, <1>3, <1>4, <2>1, <3>1, <3>2
  <2> QED
    BY <2>2, <2>3
<1>10. Step' = Step
  BY <1>1 DEF Step
<1>11. costPath'[curr] = costPath[curr]
  BY <1>4, <1>6
<1>12. ReCosting'
  BY <1>1, <1>2, <1>7, <1>8, <1>9, <1>10, <1>11 DEF ReCosting
<1>13. PathCostsAdd' /\ Reckoned' /\ SolutionCostIsSum' /\ UniqueStates'
  BY <1>1 DEF CInv, PathCostsAdd, Reckoned, SolutionCostIsSum, UniqueStates, Nodes
<1> QED
  BY <1>12, <1>13 DEF CInv

LEMMA ChangeParentCosts ==
  ASSUME IInv, IInv', CInv, ChangeParent
  PROVE  CInv'
<1>1. /\ pc = "recost" /\ todo = {} /\ pc' = "expand"
      /\ parent' = [parent EXCEPT ![loser] = curr]
      /\ costRule' = [costRule EXCEPT ![loser] = Step.cost]
      /\ costPath' = [costPath EXCEPT ![loser] = base + Step.cost]
      /\ UNCHANGED <<problem, size, db, curr, loser>>
  BY DEF ChangeParent, moveVars
<1>2. /\ base = costPath[curr] /\ costRule[loser] = Step.cost
      /\ \A m \in (2..size) \ {loser} : costPath[m] = costPath[parent[m]] + costRule[m]
      /\ costPath[loser] = base + costRule[loser]
  BY <1>1 DEF CInv, ReCosting
<1>3. /\ loser \in Node /\ curr \in Node /\ 2..size \subseteq Node
      /\ base \in Nat /\ Step.cost \in Nat /\ Step.cost > 0
      /\ \A m \in 2..size : parent[m] \in Node
  <2>1. TypeOK /\ Applies /\ \A m \in 2..size : parent[m] \in 1..size
    BY <1>1 DEF IInv, Moving, ArcsAreRules, Nodes
  <2>2. Step.cost \in Nat \ {0}
    BY <2>1, StepType
  <2>3. loser \in 1..size /\ curr \in 1..size /\ base \in Nat
    BY <2>1 DEF TypeOK, Nodes
  <2>4. 1..size \subseteq Node /\ 2..size \subseteq Node
    BY <2>1, NodeType
  <2> QED
    BY <2>1, <2>2, <2>3, <2>4
<1>4. costPath' = costPath
  BY <1>1, <1>2, <1>3 DEF IInv, TypeOK
<1>5. ASSUME NEW m \in 2..size
      PROVE  costPath'[m] = costPath'[parent'[m]] + costRule'[m]
  <2>1. CASE m = loser
    <3>1. parent'[m] = curr /\ costRule'[m] = Step.cost
      BY <1>1, <1>3, <2>1 DEF IInv, TypeOK
    <3> QED
      BY <1>2, <1>4, <2>1, <3>1
  <2>2. CASE m # loser
    <3>1. parent'[m] = parent[m] /\ costRule'[m] = costRule[m]
      BY <1>1, <1>3, <2>2 DEF IInv, TypeOK
    <3> QED
      BY <1>2, <1>4, <2>2, <3>1
  <2> QED
    BY <2>1, <2>2
<1>6. PathCostsAdd'
  BY <1>1, <1>5 DEF PathCostsAdd
<1>7. ReCosting' /\ Reckoned' /\ SolutionCostIsSum' /\ UniqueStates'
  BY <1>1 DEF CInv, ReCosting, Reckoned, SolutionCostIsSum, UniqueStates, Nodes
<1> QED
  BY <1>6, <1>7 DEF CInv

LEMMA NewNodeCosts ==
  ASSUME IInv, IInv', CInv, NewNode
  PROVE  CInv'
<1>1. /\ pc = "expand" /\ pc' = "expand" /\ Applies /\ Twins = {} /\ size' = size + 1
      /\ parent' = [parent EXCEPT ![size'] = curr] /\ db' = [db EXCEPT ![size'] = Step.to]
      /\ costRule' = [costRule EXCEPT ![size'] = Step.cost]
      /\ costPath' = [costPath EXCEPT ![size'] = newCostPath]
      /\ problem' = problem
  BY DEF NewNode
<1>2. /\ size \in Nat \ {0} /\ size' \in Node /\ 1..size \subseteq Node /\ curr \in 1..size
      /\ \A m \in 2..size : parent[m] \in 1..size
  <2>1. TypeOK /\ TypeOK' /\ \A m \in 2..size : parent[m] \in 1..size
    BY DEF IInv, ArcsAreRules, Nodes
  <2> QED
    BY <2>1, NodeType DEF TypeOK, Nodes
<1>3. ASSUME NEW m \in 2..size'
      PROVE  costPath'[m] = costPath'[parent'[m]] + costRule'[m]
  <2>1. CASE m = size'
    <3>1. parent'[m] = curr /\ costRule'[m] = Step.cost /\ costPath'[m] = newCostPath
      BY <1>1, <1>2, <2>1 DEF IInv, TypeOK
    <3>2. curr \in Node /\ curr # size'
      BY <1>1, <1>2
    <3>3. costPath'[curr] = costPath[curr]
      BY <1>1, <3>2 DEF IInv, TypeOK
    <3> QED
      BY <3>1, <3>3 DEF newCostPath
  <2>2. CASE m # size'
    <3>1. m \in 2..size /\ m \in Node
      BY <1>1, <1>2, <2>2
    <3>2. parent[m] \in Node /\ parent[m] # size'
      BY <1>1, <1>2, <3>1
    <3>3. /\ parent'[m] = parent[m] /\ costRule'[m] = costRule[m] /\ costPath'[m] = costPath[m]
          /\ costPath'[parent[m]] = costPath[parent[m]]
      BY <1>1, <2>2, <3>1, <3>2 DEF IInv, TypeOK
    <3> QED
      BY <1>1, <3>1, <3>3 DEF CInv, PathCostsAdd
  <2> QED
    BY <2>1, <2>2
<1>4. PathCostsAdd'
  BY <1>3 DEF PathCostsAdd
<1>5. UniqueStates'
  <2> SUFFICES ASSUME problem.compare, NEW m \in 1..size', NEW n \in 1..size', db'[m] = db'[n]
               PROVE  m = n
    BY <1>1 DEF UniqueStates, Nodes
  <2>1. \A k \in 1..size : db[k] # Step.to
    BY <1>1, AllInTree DEF CInv, Twins, Nodes
  <2>2. \A k \in 1..size : k # size' /\ db'[k] = db[k] /\ k \in Nodes
    BY <1>1, <1>2 DEF IInv, TypeOK, Nodes
  <2>3. db'[size'] = Step.to
    BY <1>1, <1>2 DEF IInv, TypeOK
  <2>4. \A k \in 1..size' : k = size' \/ k \in 1..size
    BY <1>1, <1>2
  <2> QED
    BY <2>1, <2>2, <2>3, <2>4 DEF CInv, UniqueStates
<1>6. ReCosting' /\ Reckoned' /\ SolutionCostIsSum'
  BY <1>1 DEF ReCosting, Reckoned, SolutionCostIsSum
<1> QED
  BY <1>4, <1>5, <1>6 DEF CInv

\* The steps that leave the tree alone and do not touch the model.
LEMMA OtherCosts ==
  ASSUME CInv, pc \notin {"recost", "walk", "apply"}, pc' \notin {"recost", "apply", "found"},
         UNCHANGED <<problem, nodeVars>>
  PROVE  CInv'
BY DEF CInv, PathCostsAdd, ReCosting, Reckoned, SolutionCostIsSum, UniqueStates, nodeVars, Nodes

LEMMA CollectPathCosts ==
  ASSUME IInv, CInv, CollectPath
  PROVE  CInv'
<1>1. pc = "walk" /\ IsChain /\ total = 0 /\ UNCHANGED <<problem, nodeVars, target, total>>
  BY DEF IInv, CollectPath, Upwards, Untouched
<1>2. PathCostsAdd' /\ UniqueStates'
  BY <1>1 DEF CInv, CollectPath, PathCostsAdd, UniqueStates, nodeVars, Nodes
<1>3. ReCosting' /\ SolutionCostIsSum'
  BY <1>1 DEF CollectPath, ReCosting, SolutionCostIsSum
<1>4. Reckoned'
  <2> SUFFICES ASSUME parent[curr] = 0 PROVE Reckoned'
    BY <1>1 DEF CollectPath, Reckoned
  <2>1. curr = 1 /\ Range(path) \subseteq 2..size /\ UNCHANGED path
    <3>1. /\ curr \in 1..size /\ Range(path) \subseteq 2..size
          /\ \A n \in 2..size : parent[n] \in 1..size
      BY <1>1, PathBelowRoot
    <3> QED
      BY <1>1, <3>1 DEF CollectPath
  <2>2. ~Circle
    BY <2>1 DEF Circle
  <2> QED
    BY <1>1, <2>1, <2>2 DEF IInv, Root, Upwards, Reckoned, nodeVars
<1> QED
  BY <1>2, <1>3, <1>4 DEF CInv

LEMMA ApplyRuleCosts ==
  ASSUME IInv, CInv, ApplyRule
  PROVE  CInv'
<1>1. pc = "apply" /\ UNCHANGED <<problem, nodeVars, pc, target>>
  BY DEF ApplyRule
<1>2. /\ path[1] \in 2..size /\ path # <<>> /\ total' = total + costRule[path[1]]
      /\ path' = <<>> => path[1] = target
      /\ path' # <<>> => parent[path'[1]] = path[1]
  BY RuleFits
<1>3. total' = costPath[path[1]]
  BY <1>1, <1>2 DEF CInv, Reckoned, PathCostsAdd
<1>4. Reckoned'
  BY <1>1, <1>2, <1>3 DEF Reckoned, nodeVars
<1>5. PathCostsAdd' /\ UniqueStates' /\ ReCosting' /\ SolutionCostIsSum'
  BY <1>1 DEF CInv, PathCostsAdd, UniqueStates, ReCosting, SolutionCostIsSum, nodeVars, Nodes
<1> QED
  BY <1>4, <1>5 DEF CInv

LEMMA ReportSuccessCosts ==
  ASSUME CInv, ReportSuccess
  PROVE  CInv'
BY DEF CInv, ReportSuccess, PathCostsAdd, UniqueStates, ReCosting, Reckoned, SolutionCostIsSum,
       nodeVars, resultVars, Nodes

LEMMA InitIIInv == Init => IIInv
<1> SUFFICES ASSUME Init PROVE IIInv
  OBVIOUS
<1>1. size = 1 /\ pc = "open"
  BY DEF Init
<1>2. PathCostsAdd /\ UniqueStates
  BY <1>1 DEF PathCostsAdd, UniqueStates, Nodes
<1>3. ReCosting /\ Reckoned /\ SolutionCostIsSum
  BY <1>1 DEF ReCosting, Reckoned, SolutionCostIsSum
<1> QED
  BY <1>2, <1>3, InitIInv DEF IIInv, CInv

LEMMA NextIIInv == IIInv /\ [Next]_vars => IIInv'
<1> SUFFICES ASSUME IIInv, [Next]_vars PROVE IIInv'
  OBVIOUS
<1>1. IInv /\ IInv'
  BY NextIInv DEF IIInv
<1>2. problem' = problem
  BY DEF Next, vars, OpenNode, FoundBetter, FoundLoser, ReCostSubTree, NotApplicable, ChangeParent,
         NewNode, CloseNode, CollectPath, ApplyRule, ReportSuccess
<1> SUFFICES ASSUME CInv, SameCost(problem) PROVE CInv'
  BY <1>1, <1>2 DEF IIInv, SameCost
<1>3. ASSUME NEW n \in Nodes, OpenNode(n) \/ FoundBetter(n)
      PROVE  CInv'
  BY <1>3, OtherCosts DEF OpenNode, FoundBetter
<1>4. ASSUME NEW n \in Nodes, FoundLoser(n) \/ ReCostSubTree(n)
      PROVE  CInv'
  BY <1>1, <1>4, FoundLoserCosts, ReCostCosts
<1>5. CASE NotApplicable \/ CloseNode
  BY <1>5, OtherCosts DEF NotApplicable, CloseNode
<1>6. CASE ChangeParent \/ NewNode
  BY <1>1, <1>6, ChangeParentCosts, NewNodeCosts
<1>7. CASE CollectPath \/ ApplyRule \/ ReportSuccess
  BY <1>1, <1>7, CollectPathCosts, ApplyRuleCosts, ReportSuccessCosts
<1>8. CASE UNCHANGED vars
  BY <1>8 DEF CInv, PathCostsAdd, ReCosting, Reckoned, SolutionCostIsSum, UniqueStates, Step,
              vars, nodeVars, moveVars, resultVars, Nodes
<1> QED
  BY <1>3, <1>4, <1>5, <1>6, <1>7, <1>8 DEF Next

LEMMA AlwaysIIInv == Spec => []IIInv
BY InitIIInv, NextIIInv, PTL DEF Spec

\* PathCostsAdd: after every change of parents the costs below the moved node add up
\* again, though ReCostSubTree starts from its old cost.
THEOREM PathsAddUp == Spec => [](SameCost(problem) => PathCostsAdd)
<1>1. IIInv => (SameCost(problem) => PathCostsAdd)
  BY DEF IIInv, CInv
<1> QED
  BY <1>1, AlwaysIIInv, PTL

\* UniqueStates: no state is in the tree twice, as every node stays below the root,
\* where CheckIfExistBetter finds it.
THEOREM StatesAreUnique == Spec => [](SameCost(problem) => UniqueStates)
<1>1. IIInv => (SameCost(problem) => UniqueStates)
  BY DEF IIInv, CInv
<1> QED
  BY <1>1, AlwaysIIInv, PTL

\* SolutionCostIsSum: the cost that is reported is the cost of the rules applied.
THEOREM ReportedCostIsSum == Spec => [](SameCost(problem) => SolutionCostIsSum)
<1>1. IIInv => (SameCost(problem) => SolutionCostIsSum)
  BY DEF IIInv, CInv
<1> QED
  BY <1>1, AlwaysIIInv, PTL
=============================================================================
