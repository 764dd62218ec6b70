---------------------------- MODULE MCSearchTree ----------------------------
(***************************************************************************)
(* Families of small problems for SearchTree.                              *)
(***************************************************************************)
EXTENDS SearchTree

CONSTANT N   \* the states are 1..N; 1 is the start
MCState == 1..N

Arc(t, c) == [to |-> t, cost |-> c]

\* A rule, from the target it has in each state (0 where it does not apply).
RuleOf(aim, cost(_, _)) ==
  [s \in MCState |-> IF aim[s] = 0 THEN None ELSE Arc(aim[s], cost(s, aim[s]))]

-----------------------------------------------------------------------------
(***************************************************************************)
(* The costs depend on the state that is reached ("value after").  From 1  *)
(* two ways lead through 2 and 3 to 4, which has 5 and 6 below it.         *)
(* Estimates of all sorts make the search prefer the dear way at first, so *)
(* that a node with a subtree of its own moves to another parent.          *)
(***************************************************************************)
AfterRules ==
  {<<RuleOf(<<2, 4, a, 5, b, 0>>, LAMBDA s, t : c[t]),
     RuleOf(<<3, d, e, 6, 0, f>>, LAMBDA s, t : c[t])>> :
     a \in {0, 4}, b \in {0, 4}, d \in {0, 3, 5}, e \in {4, 5}, f \in {0, 5},
     c \in {g \in [MCState -> {1, 3}] : \A s \in {1, 4, 6} : g[s] = 1}}

AfterProblems(compare) == [start : {1}, goal : {{}, {6}}, compare : compare, rules : AfterRules,
                           estimate : {g \in [MCState -> {0, 5}] : g[1] = 0 /\ g[2] = 0}]

-----------------------------------------------------------------------------
(***************************************************************************)
(* The costs depend on the arc ("value before", or parameters of the rule).*)
(* The estimates are consistent.                                           *)
(***************************************************************************)
ArcRules ==
  {<<RuleOf(<<2, a, b, 5, 0, 0>>, LAMBDA s, t : c[s]),
     RuleOf(<<3, d, e, f, 0, 0>>, LAMBDA s, t : g[s])>> :
     a \in {0, 3, 4}, b \in {2, 4}, d \in {0, 4}, e \in {0, 5}, f \in {0, 2},
     c \in {h \in [MCState -> {1, 4}] : h[5] = 1 /\ h[6] = 1},
     g \in {h \in [MCState -> {1, 4}] : \A s \in {2, 4, 5, 6} : h[s] = 1}}

ConsistentProblems ==
  {p \in [start : {1}, goal : {{5}}, compare : {TRUE}, rules : ArcRules,
          estimate : {h \in [MCState -> {0, 3}] : h[1] = 0 /\ h[6] = 0}] : Consistent(p)}

MCProblem == AfterProblems(BOOLEAN) \cup ConsistentProblems

\* They are of the kinds that the properties about costs are stated for.
ASSUME CostsAreTame == \A p \in MCProblem : SameCost(p) \/ Consistent(p)

-----------------------------------------------------------------------------
(***************************************************************************)
(* The same with estimates that are not: 4 is reached through 2 and, by a  *)
(* cheaper way found later, through 3; 5 leads back to 4 and to the goal.  *)
(***************************************************************************)
LateRules == {<<RuleOf(<<2, 4, 4, 5, 4, 0>>, LAMBDA s, t : c[s]),
                RuleOf(<<3, 0, 0, 0, 6, 0>>, LAMBDA s, t : 1)>> :
                c \in {h \in [MCState -> {1, 4, 5}] : h[4] = 1 /\ h[6] = 1}}
LateProblems == [start : {1}, goal : {{6}}, compare : {TRUE}, rules : LateRules,
                 estimate : {<<0, 0, a, 0, b, 0>> : a \in {0, 9}, b \in {0, 9}}]
=============================================================================
