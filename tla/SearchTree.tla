----------------------------- MODULE SearchTree -----------------------------
(***************************************************************************)
(* The graph search of a decision point (simulator/runtime/searchtree.cpp, *)
(* rdo_logic_dptsearch.cpp): from a copy of the resources of the model the *)
(* rules of the point are applied until a state satisfies $Term_condition. *)
(* A node of the tree is a state of the resources; the next node to expand *)
(* is the one with the least estimate of the whole path, and, if the point *)
(* has $Compare_tops = YES, a state that is reached again by a cheaper     *)
(* path moves to its new parent with everything below it.                  *)
(*                                                                         *)
(* One step is one turn of a loop of the code: a node taken from OPEN, an  *)
(* activity applied to it, a node of a subtree whose cost is recomputed, a *)
(* node of the solution.  onContinue stops between two nodes when its 25   *)
(* ms are over and goes on in the next step of the simulator, in which     *)
(* nothing else touches the tree, so that is no step here.                 *)
(***************************************************************************)
EXTENDS Integers, Sequences, Functions

CONSTANTS State,     \* the states of the resources
          None,      \* what a rule does in a state it does not apply to
          Problem,   \* what the search may be given, see below
          MaxNodes,  \* bound: nodes of a tree (it binds only without Compare_tops)
          MaxRules   \* bound: rules of the ways a solution is compared with

\* A problem: the state the search starts in, those that satisfy the terminal
\* condition, the estimate of the cost that is left, whether states are compared,
\* and for each activity what its rule does in a state and what that costs.
Rule == [to : State, cost : Nat \ {0}]

ASSUME SearchAssumption ==
  /\ MaxNodes \in Nat \ {0} /\ MaxRules \in Nat
  /\ None \notin Rule
  /\ \A p \in Problem : /\ p.start \in State /\ p.goal \subseteq State
                        /\ p.estimate \in [State -> Nat]
                        /\ p.compare \in BOOLEAN
                        /\ p.rules \in Seq([State -> Rule \cup {None}])

VARIABLES problem,
          size,       \* the nodes are 1..size, 1 is m_rootNode
          db,         \* the state of the resources in m_pRuntime
          parent,     \* m_parent, 0 for the root
          activity,   \* m_activity, by its place among the activities of the point
          costRule, costPath, costRest,
          number,     \* m_number
          numbers,    \* TreeRoot::m_nodesCount
          OPEN,       \* TreeRoot::m_OPEN
          pc,         \* the loop that runs
          curr,       \* the node that is expanded, later one on the way up from the target
          next,       \* the activity to be tried next
          loser,      \* the node that moves to a new parent
          base,       \* costPath of its new parent
          todo,       \* nodes at which ReCostSubTree is still to be called
          target,     \* m_targetNode, 0 if there is none
          path,       \* bestPath
          real,       \* the state of the resources of the model, m_theRealSimulator
          total       \* history: what the rules applied to the model cost

nodeVars == <<size, db, parent, activity, costRule, costPath, costRest, number, numbers>>
moveVars == <<loser, base, todo>>
resultVars == <<path, real, total>>
vars == <<problem, nodeVars, OPEN, pc, curr, next, moveVars, target, resultVars>>

Node == 1..MaxNodes
Nodes == 1..size

TypeOK == /\ problem \in Problem
          /\ size \in Node
          /\ db \in [Node -> State]
          /\ parent \in [Node -> 0..size]
          /\ activity \in [Node -> Nat]
          /\ costRule \in [Node -> Nat]
          /\ costPath \in [Node -> Nat]
          /\ costRest \in [Node -> Nat]
          /\ number \in [Node -> Nat] /\ numbers \in Nat
          /\ OPEN \subseteq Nodes
          /\ pc \in {"open", "expand", "recost", "walk", "apply", "found", "failed"}
          /\ curr \in Nodes
          /\ next \in Nat \ {0}
          /\ loser \in Nodes /\ base \in Nat /\ todo \subseteq Nodes
          /\ target \in 0..size
          /\ path \in Seq(Nodes)
          /\ real \in State
          /\ total \in Nat

Init == /\ problem \in Problem
        /\ size = 1
        /\ db = [n \in Node |-> problem.start]
        /\ parent = [n \in Node |-> 0]
        /\ activity = [n \in Node |-> 0]
        /\ costRule = [n \in Node |-> 0]
        /\ costPath = [n \in Node |-> 0]
        /\ costRest = [n \in Node |-> 0]
        /\ number = [n \in Node |-> 1] /\ numbers = 1
        /\ OPEN = {1}
        /\ pc = "open" /\ curr = 1 /\ next = 1
        /\ loser = 1 /\ base = 0 /\ todo = {}
        /\ target = 0
        /\ path = <<>> /\ real = problem.start /\ total = 0

-----------------------------------------------------------------------------
(***************************************************************************)
(* The tree.                                                               *)
(***************************************************************************)
\* m_children of n.  (The moving node has left the children of its parent.)
Children(n) == {m \in Nodes : parent[m] = n}

\* Does n hang on the root?  Not if it is among nodes that lead to one another only.
InTree(n) == ~ \E S \in SUBSET (2..size) : n \in S /\ \A m \in S : parent[m] \in S

\* Mutant: nodes in the order of their numbers.
FirstByNumber(n) == n \in OPEN /\ \A m \in OPEN : number[n] =< number[m]

\* The first node of OPEN as compareNodes sorts it.
First(n) == /\ n \in OPEN
            /\ \A m \in OPEN : \/ costRest[n] < costRest[m]
                               \/ costRest[n] = costRest[m] /\ number[n] =< number[m]

\* choiceFrom holds for the activity that is tried, and what its rule then does.
Applies == next =< Len(problem.rules) /\ problem.rules[next][db[curr]] # None
Step == problem.rules[next][db[curr]]

newCostPath == costPath[curr] + Step.cost

\* Mutant: only the nodes that are not expanded yet are compared.
TwinsInOpen == {n \in OPEN : problem.compare /\ InTree(n) /\ db[n] = Step.to}

\* CheckIfExistBetter walks the tree from the root to a node of the same state.
Twins == {n \in Nodes : problem.compare /\ InTree(n) /\ db[n] = Step.to}

-----------------------------------------------------------------------------
(***************************************************************************)
(* ExpandChildren.                                                         *)
(***************************************************************************)
OpenNode(n) ==
  /\ pc = "open" /\ First(n)
  /\ curr' = n /\ next' = 1
  /\ IF db[n] \in problem.goal THEN target' = n /\ pc' = "walk"
                               ELSE UNCHANGED target /\ pc' = "expand"
  /\ UNCHANGED <<problem, nodeVars, OPEN, moveVars, resultVars>>

\* Mutant: the first activity that does not apply is the last one tried.
BreakNotApplicable ==
  /\ pc = "expand" /\ next =< Len(problem.rules) /\ ~Applies
  /\ next' = Len(problem.rules) + 1
  /\ UNCHANGED <<problem, nodeVars, OPEN, pc, curr, moveVars, target, resultVars>>

NotApplicable ==
  /\ pc = "expand" /\ next =< Len(problem.rules) /\ ~Applies
  /\ next' = next + 1
  /\ UNCHANGED <<problem, nodeVars, OPEN, pc, curr, moveVars, target, resultVars>>

\* nfi_found_better: the way there that is known is no dearer.
FoundBetter(n) ==
  /\ pc = "expand" /\ Applies
  /\ n \in Twins /\ costPath[n] =< newCostPath
  /\ next' = next + 1
  /\ UNCHANGED <<problem, nodeVars, OPEN, pc, curr, moveVars, target, resultVars>>

\* nfi_found_loser: the node leaves its parent and its subtree is recomputed.
FoundLoser(n) ==
  /\ pc = "expand" /\ Applies
  /\ n \in Twins /\ newCostPath < costPath[n]
  /\ pc' = "recost"
  /\ loser' = n /\ base' = costPath[curr] /\ todo' = {n}
  /\ UNCHANGED <<problem, nodeVars, OPEN, curr, next, target, resultVars>>

\* Mutant: the cost of the node alone is recomputed.
ReCostNode(n) ==
  /\ pc = "recost" /\ n \in todo
  /\ costPath' = [costPath EXCEPT ![n] = costRule[n] +
                    IF n = loser THEN base ELSE costPath[parent[n]]]
  /\ todo' = todo \ {n}
  /\ UNCHANGED <<problem, size, db, parent, activity, costRule, costRest, number, numbers,
                 OPEN, pc, curr, next, loser, base, target, resultVars>>

\* ReCostSubTree of a node, which calls it of each child.
ReCostSubTree(n) ==
  /\ pc = "recost" /\ n \in todo
  /\ costPath' = [costPath EXCEPT ![n] = costRule[n] +
                    IF n = loser THEN base ELSE costPath[parent[n]]]
  /\ todo' = (todo \ {n}) \cup (Children(n) \ {loser})
  /\ UNCHANGED <<problem, size, db, parent, activity, costRule, costRest, number, numbers,
                 OPEN, pc, curr, next, loser, base, target, resultVars>>

\* Mutant: the moved node keeps the activity it was made by.
KeepActivity ==
  /\ pc = "recost" /\ todo = {}
  /\ parent' = [parent EXCEPT ![loser] = curr]
  /\ costRule' = [costRule EXCEPT ![loser] = Step.cost]
  /\ costPath' = [costPath EXCEPT ![loser] = base + Step.cost]
  /\ costRest' = [costRest EXCEPT ![loser] = base + Step.cost + problem.estimate[Step.to]]
  /\ number' = [number EXCEPT ![loser] = numbers + 1] /\ numbers' = numbers + 1
  /\ pc' = "expand" /\ next' = next + 1
  /\ UNCHANGED <<problem, size, db, activity, OPEN, curr, moveVars, target, resultVars>>

\* Mutant: the moved node keeps the key it is sorted by.
KeepKey ==
  /\ pc = "recost" /\ todo = {}
  /\ parent' = [parent EXCEPT ![loser] = curr]
  /\ activity' = [activity EXCEPT ![loser] = next]
  /\ costRule' = [costRule EXCEPT ![loser] = Step.cost]
  /\ costPath' = [costPath EXCEPT ![loser] = base + Step.cost]
  /\ number' = [number EXCEPT ![loser] = numbers + 1] /\ numbers' = numbers + 1
  /\ pc' = "expand" /\ next' = next + 1
  /\ UNCHANGED <<problem, size, db, costRest, OPEN, curr, moveVars, target, resultVars>>

\* The rest of the change of parents.
ChangeParent ==
  /\ pc = "recost" /\ todo = {}
  /\ parent' = [parent EXCEPT ![loser] = curr]
  /\ activity' = [activity EXCEPT ![loser] = next]
  /\ costRule' = [costRule EXCEPT ![loser] = Step.cost]
  /\ costPath' = [costPath EXCEPT ![loser] = base + Step.cost]
  /\ costRest' = [costRest EXCEPT ![loser] = base + Step.cost + problem.estimate[Step.to]]
  /\ number' = [number EXCEPT ![loser] = numbers + 1] /\ numbers' = numbers + 1
  /\ pc' = "expand" /\ next' = next + 1
  /\ UNCHANGED <<problem, size, db, OPEN, curr, moveVars, target, resultVars>>

NewNode ==
  /\ pc = "expand" /\ Applies /\ Twins = {}
  /\ size < MaxNodes
  /\ size' = size + 1
  /\ db' = [db EXCEPT ![size'] = Step.to]
  /\ parent' = [parent EXCEPT ![size'] = curr]
  /\ activity' = [activity EXCEPT ![size'] = next]
  /\ costRule' = [costRule EXCEPT ![size'] = Step.cost]
  /\ costPath' = [costPath EXCEPT ![size'] = newCostPath]
  /\ costRest' = [costRest EXCEPT ![size'] = newCostPath + problem.estimate[Step.to]]
  /\ number' = [number EXCEPT ![size'] = numbers + 1] /\ numbers' = numbers + 1
  /\ OPEN' = OPEN \cup {size'}
  /\ next' = next + 1
  /\ UNCHANGED <<problem, pc, curr, moveVars, target, resultVars>>

\* Mutant: the expanded node stays in OPEN.
StayOpen ==
  /\ pc = "expand" /\ next > Len(problem.rules)
  /\ pc' = "open"
  /\ UNCHANGED <<problem, nodeVars, OPEN, curr, next, moveVars, target, resultVars>>

\* All activities were tried.  OPEN is sorted anew, and read only if it is not empty.
CloseNode ==
  /\ pc = "expand" /\ next > Len(problem.rules)
  /\ OPEN' = OPEN \ {curr}
  /\ pc' = IF OPEN' = {} THEN "failed" ELSE "open"
  /\ UNCHANGED <<problem, nodeVars, curr, next, moveVars, target, resultVars>>

\* Mutant: the rules are collected in the order they are met.
CollectBackwards ==
  /\ pc = "walk"
  /\ IF parent[curr] = 0
     THEN pc' = "apply" /\ UNCHANGED <<curr, path>>
     ELSE /\ path' = IF curr \in Range(path) THEN path ELSE Append(path, curr)
          /\ curr' = parent[curr] /\ UNCHANGED pc
  /\ UNCHANGED <<problem, nodeVars, OPEN, next, moveVars, target, real, total>>

\* onContinue collects the solution from the target up to the root.  (Should the
\* way lead in a circle, the list of the code grows for ever; here it has each
\* node once.)
CollectPath ==
  /\ pc = "walk"
  /\ IF parent[curr] = 0
     THEN pc' = "apply" /\ UNCHANGED <<curr, path>>
     ELSE /\ path' = IF curr \in Range(path) THEN path ELSE <<curr>> \o path
          /\ curr' = parent[curr] /\ UNCHANGED pc
  /\ UNCHANGED <<problem, nodeVars, OPEN, next, moveVars, target, real, total>>

\* It applies the rule of the next node of the solution to the model.  What
\* choiceFrom returns is not looked at: a rule that does not fit would change
\* whatever resources it has chosen before.
ApplyRule ==
  LET rule == problem.rules[activity[Head(path)]] IN
  /\ pc = "apply" /\ path # <<>>
  /\ IF rule[real] # None THEN real' = rule[real].to /\ total' = total + rule[real].cost
                          ELSE real' \in State /\ UNCHANGED total
  /\ path' = Tail(path)
  /\ UNCHANGED <<problem, nodeVars, OPEN, pc, curr, next, moveVars, target>>

\* Success is reported, the tree is deleted, onContinue returns BOR_done.
ReportSuccess ==
  /\ pc = "apply" /\ path = <<>>
  /\ pc' = "found"
  /\ UNCHANGED <<problem, nodeVars, OPEN, curr, next, moveVars, target, resultVars>>

Next == \/ \E n \in Nodes : OpenNode(n) \/ FoundBetter(n) \/ FoundLoser(n) \/ ReCostSubTree(n)
        \/ NotApplicable \/ ChangeParent \/ NewNode \/ CloseNode
        \/ CollectPath \/ ApplyRule \/ ReportSuccess

Spec == Init /\ [][Next]_vars

\* The loops are ordinary code, called again as long as the search is not over
\* (BOR_must_continue; WF of RdoNext in EventCalendar).
FairSpec == Spec /\ WF_vars(Next)

-----------------------------------------------------------------------------
(***************************************************************************)
(* The problem itself.                                                     *)
(***************************************************************************)
\* The estimates are consistent: none is more than the cost of a step and the
\* estimate after it, and none is more than nothing at a goal.
Consistent(p) == /\ \A s \in p.goal : p.estimate[s] = 0
                 /\ \A r \in Range(p.rules), s \in State :
                      r[s] # None => p.estimate[s] =< r[s].cost + p.estimate[r[s].to]

\* All rules that lead to a state cost the same there, as they do if the cost is a
\* function of the state that is reached ("value after").
SameCost(p) ==
  \A i, j \in DOMAIN p.rules, s, t \in State :
     (p.rules[i][s] # None /\ p.rules[j][t] # None /\ p.rules[i][s].to = p.rules[j][t].to)
        => p.rules[i][s].cost = p.rules[j][t].cost

\* Where at most n rules lead from the start, and what they cost together.
OneMore(p, ways) ==
  UNION {{[to |-> r[w.to].to, cost |-> w.cost + r[w.to].cost] :
            r \in {q \in Range(p.rules) : q[w.to] # None}} : w \in ways}

Ways(p, n) ==
  LET ways[k \in 0..n] == IF k = 0 THEN {[to |-> p.start, cost |-> 0]}
                          ELSE ways[k - 1] \cup OneMore(p, ways[k - 1])
  IN  ways[n]

-----------------------------------------------------------------------------
(***************************************************************************)
(* Properties.                                                             *)
(***************************************************************************)
\* Every node is what the activity it names makes of its parent, at that
\* activity's cost: the rules of the solution, applied to the model one after
\* another, go through the states of the nodes.
ArcsAreRules ==
  \A n \in 2..size :
     /\ parent[n] \in Nodes
     /\ activity[n] \in DOMAIN problem.rules
     /\ problem.rules[activity[n]][db[parent[n]]] # None
     /\ problem.rules[activity[n]][db[parent[n]]] = [to |-> db[n], cost |-> costRule[n]]

\* If states are compared, the tree has each state once.
UniqueStates == problem.compare => \A m, n \in Nodes : db[m] = db[n] => m = n

\* Between two changes of parents the cost of a path is the sum of the costs of
\* its rules: a change recomputes everything below.  (This, UniqueStates and
\* SolutionCostIsSum are for problems that have SameCost or are Consistent: in
\* others a node can get below itself, see SearchEnds.)
PathCostsAdd ==
  pc # "recost" => \A n \in 2..size : costPath[n] = costPath[parent[n]] + costRule[n]

\* A search that reports success has brought the model to a state that satisfies
\* the terminal condition, the one of the target node.
SolutionReachesGoal == pc = "found" => real = db[target] /\ real \in problem.goal

\* rdo_res_trc_decisionpt.htm: "the cost of a solution", which is reported as the
\* costPath of the target, "is the sum of the costs of all the rules that make it up".
SolutionCostIsSum == pc = "found" => costPath[target] = total

\* searchtree.cpp: OPEN must be sorted by the cost of the path to the goal with
\* the estimate, computed from the cost of the path.
KeyIsPathPlusEstimate ==
  pc = "open" => \A n \in OPEN \ {1} : costRest[n] = costPath[n] + problem.estimate[db[n]]

\* With consistent estimates the solution is a cheapest one: no way to a goal costs
\* less than the rules that were applied to the model.
FoundIsCheapest ==
  pc = "found" /\ Consistent(problem) =>
    \A w \in Ways(problem, MaxRules) : w.to \in problem.goal => total =< w.cost

\* With such estimates only leaves get new parents, so the order of OPEN is never
\* that of a path given up.
OpenIsInOrder == Consistent(problem) => KeyIsPathPlusEstimate

\* A search that fails had nothing to find: no activity is left out, and no state
\* is dropped because it is taken for one that is known.
FailsOnlyWithoutSolution ==
  pc = "failed" => \A w \in Ways(problem, MaxRules) : w.to \notin problem.goal

\* If states are compared the search ends, with a solution or without: the tree
\* stays a tree, so that the walk up from the target gets to the root.
\* rdo_dpt_search.htm: "if [the terminal condition] is satisfied ... a solution is
\* found and the search stops".
SearchEnds == problem.compare => <>(pc \in {"found", "failed"})
=============================================================================
