----------------------------- MODULE Activities -----------------------------
(***************************************************************************)
(* The rules and operations of a model and the resources they use: the     *)
(* scan of the decision points (RDOLogic, RDOOrderSimple,                  *)
(* RDOOrderDPTPrior), the trial of a rule on a clone of the runtime        *)
(* (RDORule::onCheckCondition), the beginning and the end of an operation, *)
(* the creation and erasure of temporary resources, the reference counts   *)
(* that protect the resources an operation in progress still needs, and    *)
(* the reuse of the numbers of resources and operations.                   *)
(*                                                                         *)
(* A resource has one parameter.  A relevant resource is chosen by type,   *)
(* the first of the list that fits.  Time is left out: the ends of         *)
(* operations and the events come in any order once a scan has found       *)
(* nothing to do.                                                          *)
(***************************************************************************)
EXTENDS Integers, Sequences, FiniteSets, SequencesExt

CONSTANTS Value,        \* values of the parameter of a resource
          ByParameter,  \* a converter that sets the parameter of the pattern
          Pattern,      \* Pattern[a]: what activity a (or event) does
          Parameter,    \* Parameter[a]: the value a gives the pattern's parameter
          Priority,     \* Priority[a]: CF of a in a prior decision point
          Logic,        \* the decision points in the order of the meta logic
          InitList,     \* the values of the resources of the RSS
          None,         \* NULL, no resource
          MaxRes,       \* bound: the numbers ever given to resources
          MaxOps        \* bound: the operations in progress

\* A relevant resource: the values it is chosen from, what the begin and the end
\* of the pattern do to it and the value they set.  Rules and events have no end.
Status   == {"Keep", "Create", "Erase", "NonExist", "NoChange"}
Relevant == [from : SUBSET Value, begin : Status, end : Status,
             to : Value \cup {ByParameter}, last : Value]
Kind     == {"rule", "operation", "event"}
Act      == DOMAIN Pattern

\* The combinations mustBeExist knows; an event, as modelled, only creates.
ASSUME ActivitiesAssumption ==
  /\ \A a \in Act :
       LET p == Pattern[a] IN
       /\ p.kind \in Kind /\ p.rel \in Seq(Relevant)
       /\ \A r \in Range(p.rel) :
            /\ r.begin = "Erase" => r.end = "NonExist"
            /\ r.begin = "NonExist" <=> r.end = "Create"
            /\ p.kind = "event" => r.begin = "Create"
  /\ Parameter \in [Act -> Value]
  /\ Logic \in Seq([order : {"simple", "prior"}, acts : Seq(Act)])
  /\ InitList \in Seq(Value)
  /\ {MaxRes, MaxOps} \subseteq Nat /\ Len(InitList) =< MaxRes
  /\ None \notin Value \cup Nat

VARIABLES model,    \* the resources of the runtime, a record (see below)
          running,  \* the operations in progress, by m_operId
          freeOps,  \* freeOperationsIds
          nextOp,   \* maxOperationId
          check,    \* m_checkOperation
          failed,   \* an RDORuntimeException ended the run
          latest    \* history: the last activity begun and the parameter it had

vars == <<model, running, freeOps, nextOp, check, failed, latest>>

\* When n numbers have been given: val is m_resourceListByID, NULL where the number
\* is free, and refs the m_referenceCount of the resources that are or were there.
Model(n) == [list : Seq(Nat),                        \* m_resourceList of the type
             val  : [0..(n - 1) -> Value \cup {None}],
             refs : [0..(n - 1) -> Nat],
             free : Seq(Nat),                        \* freeResourcesIds
             next : {n}]                             \* maxResourcesId

Operation == [act : Act, rel : Seq(Nat \cup {None})]

TypeOK == /\ \E n \in 0..MaxRes : model \in Model(n)
          /\ DOMAIN running \subseteq 1..MaxOps
          /\ \A o \in DOMAIN running : running[o] \in Operation
          /\ freeOps \in Seq(1..MaxOps)
          /\ nextOp \in 1..(MaxOps + 1)
          /\ check \in BOOLEAN
          /\ failed \in BOOLEAN
          /\ latest \in [act : Act, with : Value] \cup {None}

Init == /\ model = [list |-> [i \in DOMAIN InitList |-> i - 1],
                    val  |-> [r \in 0..(Len(InitList) - 1) |-> InitList[r + 1]],
                    refs |-> [r \in 0..(Len(InitList) - 1) |-> 0],
                    free |-> <<>>,
                    next |-> Len(InitList)]
        /\ running = <<>>
        /\ freeOps = <<>>
        /\ nextOp = 1
        /\ check = TRUE
        /\ failed = FALSE
        /\ latest = None

-----------------------------------------------------------------------------
(***************************************************************************)
(* Resources.                                                              *)
(***************************************************************************)
Exists(m, r) == r \in DOMAIN m.val /\ m.val[r] # None

NewId(m) == IF m.free = <<>> THEN m.next ELSE Last(m.free)

\* createRes, insertNewResource; the numbers are reused last in, first out, and the
\* list by number grows when the new one is not in it.
CreateRes(m, v) ==
  LET r     == NewId(m)
      grown == DOMAIN m.val \cup 0..r
  IN  [list |-> Append(m.list, r),
       val  |-> [s \in grown |-> IF s = r THEN v ELSE IF s \in DOMAIN m.val THEN m.val[s] ELSE None],
       refs |-> [s \in grown |-> IF s # r /\ s \in DOMAIN m.refs THEN m.refs[s] ELSE 0],
       free |-> IF m.free = <<>> THEN <<>> ELSE Front(m.free),
       next |-> IF m.free = <<>> THEN m.next + 1 ELSE m.next]

\* Mutant: a resource is erased whoever uses it.
ErasableAlways(m, r) == Exists(m, r)

\* onEraseRes fails for a resource that is gone or still used.
Erasable(m, r) == Exists(m, r) /\ m.refs[r] = 0

\* The list by number keeps its length.
EraseRes(m, r) ==
  LET i == CHOOSE j \in DOMAIN m.list : m.list[j] = r
  IN  [m EXCEPT !.list = RemoveAt(@, i), !.val[r] = None, !.free = Append(@, r)]

\* The clone has the resources and the numbers, but no references, and its list is
\* as long as its highest resource needs.
Clone(m) ==
  LET used == {r \in DOMAIN m.val : \E s \in Range(m.list) : r =< s}
  IN  [m EXCEPT !.val = [r \in used |-> m.val[r]], !.refs = [r \in used |-> 0]]

\* RDORuntime::equal
Equal(m, n) == m.val = n.val

-----------------------------------------------------------------------------
(***************************************************************************)
(* Converters.  A state of a pattern is [m, rel, ok]: the resources, the   *)
(* numbers of its relevant resources, and whether no error has come.       *)
(***************************************************************************)
Convert(s, i, status, v) ==
  CASE status = "Keep"   -> IF Exists(s.m, s.rel[i]) THEN [s EXCEPT !.m.val[s.rel[i]] = v]
                            ELSE [s EXCEPT !.ok = FALSE]
    [] status = "Create" -> [s EXCEPT !.m = CreateRes(s.m, v), !.rel[i] = NewId(s.m)]
    [] OTHER             -> s

Erase(s, i, status) ==
  IF status # "Erase" THEN s
  ELSE IF Erasable(s.m, s.rel[i]) THEN [s EXCEPT !.m = EraseRes(s.m, s.rel[i])]
  ELSE [s EXCEPT !.ok = FALSE]

\* What a pass over the relevant resources of a does to the i-th of them.
Do(pass, s, a, i, p) ==
  LET r == Pattern[a].rel[i] IN
  CASE pass = "begin"       -> Convert(s, i, r.begin, IF r.to = ByParameter THEN p ELSE r.to)
    [] pass = "begin erase" -> Erase(s, i, r.begin)
    [] pass = "end"         -> Convert(s, i, r.end, r.last)
    [] pass = "end erase"   -> Erase(s, i, r.end)

\* runCalcs: a pass does them in order, up to the first error.
Pass(pass, s, a, p) ==
  LET after[i \in 0..Len(Pattern[a].rel)] ==
        LET before == after[i - 1]
        IN  IF i = 0 THEN s ELSE IF before.ok THEN Do(pass, before, a, i, p) ELSE before
  IN  after[Len(Pattern[a].rel)]

\* convertBegin / convertRule / convertEvent with the parameter p in force.
BeginConvert(s, a, p) == Pass("begin", s, a, p)
BeginErase(s, a)      == Pass("begin erase", s, a, None)
EndConvert(s, a)      == Pass("end", s, a, None)
EndErase(s, a)        == Pass("end erase", s, a, None)

\* mustBeExist: the relevant resources that are there from the begin to the end.
Needs(a) == {i \in DOMAIN Pattern[a].rel :
               Pattern[a].rel[i].begin \in {"Keep", "Create", "NoChange"}}

\* How often an operation a refers to resource r.
Uses(a, rel, r)  == {i \in Needs(a) : rel[i] = r}
Times(a, rel, r) == Cardinality(Uses(a, rel, r))

\* Mutant: a resource chosen twice is counted once.
IncRefsOnce(m, a, rel) ==
  [m EXCEPT !.refs = [r \in DOMAIN @ |-> @[r] + IF Times(a, rel, r) > 0 THEN 1 ELSE 0]]

IncRefs(m, a, rel) == [m EXCEPT !.refs = [r \in DOMAIN @ |-> @[r] + Times(a, rel, r)]]
DecRefs(m, a, rel) == [m EXCEPT !.refs = [r \in DOMAIN @ |-> @[r] - Times(a, rel, r)]]

-----------------------------------------------------------------------------
(***************************************************************************)
(* The scan.                                                               *)
(***************************************************************************)
Chosen(r) == r.begin \in {"Keep", "Erase", "NoChange"}

Fits(m, r) == {j \in DOMAIN m.list : m.val[m.list[j]] \in r.from}

\* choiceFrom: is there a resource for every relevant one that is chosen?
Choice(a) == \A r \in Range(Pattern[a].rel) : Chosen(r) => Fits(model, r) # {}

\* m_relResID after a successful choice.
Select(m, a) == [i \in DOMAIN Pattern[a].rel |->
                   LET r == Pattern[a].rel[i] IN
                   IF Chosen(r) THEN m.list[Min(Fits(m, r))] ELSE None]

Start(m, a) == [m |-> m, rel |-> Select(m, a), ok |-> TRUE]

\* The whole of a rule.
Apply(m, a, p) == BeginErase(BeginConvert(Start(m, a), a, p), a)

\* Mutant: a rule needs only its condition.
ReadyByChoice(a) == Choice(a)

\* A rule is tried on a clone.
Trial(a) == Apply(Clone(model), a, Parameter[a])

\* onCheckCondition; a rule is refused if it changes nothing.
Ready(a) == Choice(a) /\ (Pattern[a].kind = "rule" => ~Equal(Trial(a).m, model))

IsReady(L) == \E a \in Range(L.acts) : Ready(a)

\* An error in the trial ends the run like one in the rule itself.
TrialFails(a) == Pattern[a].kind = "rule" /\ Choice(a) /\ ~Trial(a).ok

\* A prior decision point tries all its rules, a simple one those before the first
\* activity that is ready, and that one.
IsBroken(L) ==
  \E i \in DOMAIN L.acts : /\ TrialFails(L.acts[i])
                           /\ L.order = "simple" => \A j \in 1..(i - 1) : ~Ready(L.acts[j])

\* Mutant: a trial that fails is a trial that changes something.
CheckFailsNever == FALSE

CheckFails ==
  \E n \in DOMAIN Logic : IsBroken(Logic[n]) /\ \A k \in 1..(n - 1) : ~IsReady(Logic[k])

\* What a ready decision point takes, and the parameter then in force: a simple one
\* takes the first that is ready and stops there, a prior one checks them all and
\* takes one of the highest priority.
Takes(L) ==
  LET ready == {i \in DOMAIN L.acts : Ready(L.acts[i])} IN
  IF L.order = "simple"
  THEN {[act |-> L.acts[Min(ready)], with |-> Parameter[L.acts[Min(ready)]]]}
  ELSE {[act |-> L.acts[i], with |-> Parameter[Last(L.acts)]] :
          i \in {j \in ready : \A k \in ready : Priority[L.acts[k]] =< Priority[L.acts[j]]}}

\* The meta logic asks its decision points in order.
Taken == LET ready == {n \in DOMAIN Logic : IsReady(Logic[n])} IN
         IF ready = {} THEN {} ELSE Takes(Logic[Min(ready)])

\* RDORule::onDoOperation
RunRule(t) ==
  /\ Pattern[t.act].kind = "rule"
  /\ LET s == Apply(model, t.act, t.with)
     IN  s.m.next =< MaxRes /\ model' = s.m /\ failed' = ~s.ok
  /\ latest' = t
  /\ UNCHANGED <<running, freeOps, nextOp, check>>

FreeOp == IF freeOps = <<>> THEN nextOp ELSE Head(freeOps)

\* The operation op is planned under a number.
Plans(op) ==
  /\ FreeOp =< MaxOps
  /\ running' = [o \in DOMAIN running \cup {FreeOp} |-> IF o = FreeOp THEN op ELSE running[o]]
  /\ freeOps' = IF freeOps = <<>> THEN freeOps ELSE Tail(freeOps)
  /\ nextOp' = IF freeOps = <<>> THEN nextOp + 1 ELSE nextOp

\* Mutant: the references are counted before the resources are created.
BeginOperationEarly(t) ==
  /\ Pattern[t.act].kind = "operation"
  /\ LET s == BeginErase(BeginConvert(Start(model, t.act), t.act, t.with), t.act)
     IN  /\ s.m.next =< MaxRes
         /\ model' = IncRefs(s.m, t.act, Select(model, t.act))
         /\ Plans([act |-> t.act, rel |-> s.rel])
         /\ failed' = ~s.ok
  /\ latest' = t
  /\ UNCHANGED check

\* RDOOperation::onDoOperation: a copy of the operation is planned, converts, erases
\* and refers to what it needs.  (If the pattern has itself erased one of these, the
\* code dereferences NULL: the run ends here too.)
BeginOperation(t) ==
  /\ Pattern[t.act].kind = "operation"
  /\ LET s  == BeginErase(BeginConvert(Start(model, t.act), t.act, t.with), t.act)
         ok == s.ok /\ \A i \in Needs(t.act) : Exists(s.m, s.rel[i])
     IN  /\ s.m.next =< MaxRes
         /\ model' = IF ok THEN IncRefs(s.m, t.act, s.rel) ELSE s.m
         /\ Plans([act |-> t.act, rel |-> s.rel])
         /\ failed' = ~ok
  /\ latest' = t
  /\ UNCHANGED check

Scan ==
  /\ check /\ ~failed /\ ~CheckFails
  /\ \E t \in Taken : RunRule(t) \/ BeginOperation(t)

NothingToDo ==
  /\ check /\ ~failed /\ Taken = {} /\ ~CheckFails
  /\ check' = FALSE
  /\ UNCHANGED <<model, running, freeOps, nextOp, failed, latest>>

\* The trial of a rule has thrown: the model is as it was, the run has ended.
ScanFails ==
  /\ check /\ ~failed /\ CheckFails
  /\ failed' = TRUE
  /\ UNCHANGED <<model, running, freeOps, nextOp, check, latest>>

-----------------------------------------------------------------------------
(***************************************************************************)
(* The calendar: after an event the activities are scanned, unless there   *)
(* is another one at this time.                                            *)
(***************************************************************************)
\* Mutant: the number of the operation is freed with every resource it used.
FreesTwice(o) == <<o, o>> \o freeOps

Frees(o) == <<o>> \o freeOps

\* RDOOperation::onMakePlaned
EndOperation(o) ==
  /\ ~check /\ ~failed
  /\ LET a == running[o].act
         s == EndConvert([m |-> model, rel |-> running[o].rel, ok |-> TRUE], a)
         e == EndErase([s EXCEPT !.m = DecRefs(s.m, a, s.rel)], a)
     IN  e.m.next =< MaxRes /\ model' = e.m /\ failed' = ~e.ok
  /\ running' = [p \in DOMAIN running \ {o} |-> running[p]]
  /\ freeOps' = Frees(o)
  /\ check' \in BOOLEAN
  /\ UNCHANGED <<nextOp, latest>>

\* An event of the model creates its resources.
Event(a) ==
  /\ ~check /\ ~failed
  /\ Pattern[a].kind = "event"
  /\ LET s == BeginConvert(Start(model, a), a, Parameter[a])
     IN  s.m.next =< MaxRes /\ model' = s.m
  /\ check' \in BOOLEAN
  /\ UNCHANGED <<running, freeOps, nextOp, failed, latest>>

Next == \/ Scan
        \/ NothingToDo
        \/ ScanFails
        \/ \E o \in DOMAIN running : EndOperation(o)
        \/ \E a \in Act : Event(a)

Spec == Init /\ [][Next]_vars

-----------------------------------------------------------------------------
(***************************************************************************)
(* Properties.                                                             *)
(***************************************************************************)
\* While an operation is in progress the resources it will need in the end are
\* there, whatever rules, events and other operations erase meanwhile: their
\* numbers have not been freed, let alone given to other resources.
OperationsKeepResources ==
  ~failed => \A o \in DOMAIN running : \A i \in Needs(running[o].act) :
               Exists(model, running[o].rel[i])

\* A reference count is the number of uses by the operations in progress: an erase
\* is refused exactly while somebody needs the resource.
UsesInProgress(r) ==
  UNION {{o} \X Uses(running[o].act, running[o].rel, r) : o \in DOMAIN running}

RefsAgree ==
  ~failed => \A r \in DOMAIN model.refs : model.refs[r] = Cardinality(UsesInProgress(r))

\* Every number below the maximum is in use or free, and free once; so two
\* resources, or two operations in progress, never share one.
NumbersAgree ==
  /\ IsInjective(model.list) /\ IsInjective(model.free) /\ IsInjective(freeOps)
  /\ Range(model.list) = {r \in DOMAIN model.val : model.val[r] # None}
  /\ Range(model.list) \cap Range(model.free) = {}
  /\ Range(model.list) \cup Range(model.free) = 0..(model.next - 1)
  /\ DOMAIN running \cap Range(freeOps) = {}
  /\ DOMAIN running \cup Range(freeOps) = 1..(nextOp - 1)

\* A rule that would change nothing is refused, or the scan would find it again for
\* ever and the time stand still; what it is compared with is a clone, so this fails
\* when the resource with the highest number has been erased.
NoIdleRule ==
  [][model'.val = model.val /\ ~failed' /\ Scan /\ Pattern[latest'.act].kind = "rule"
       => \A r \in Range(model.list) : r + 1 \in DOMAIN model.val]_vars

\* A rule is carried out only after its trial has gone well, so it does not fail by
\* itself; but the clone knows of no references, and the resource it erases may be one
\* that an operation in progress uses.
ErasesInUse(a) ==
  \E i \in DOMAIN Pattern[a].rel : /\ Pattern[a].rel[i].begin = "Erase"
                                   /\ model.refs[Select(model, a)[i]] > 0

RulesFailOnUse ==
  [][failed' /\ Scan /\ Pattern[latest'.act].kind = "rule" => ErasesInUse(latest'.act)]_vars

\* An activity begins with the values its decision point gives the parameters of
\* its pattern, not with those of another one that was checked after it.
RunsWithOwnParameter == latest # None => latest.with = Parameter[latest.act]

\* What it needs of the model: the activities of a prior decision point give the
\* parameters of their patterns the same values.
OneParameterEach ==
  \A n \in DOMAIN Logic :
     Logic[n].order = "prior" =>
       \A i, j \in DOMAIN Logic[n].acts : Parameter[Logic[n].acts[i]] = Parameter[Logic[n].acts[j]]
=============================================================================
