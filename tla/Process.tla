------------------------------ MODULE Process ------------------------------
(***************************************************************************)
(* Processes: chains of GPSS blocks that transacts go through              *)
(* (simulator/runtime/process).  A transact waits in the list m_transacts  *)
(* of its block until the scan of the activities finds the block ready;    *)
(* one that waits at a SEIZE is also in the list of every resource the     *)
(* SEIZE may take, and is given one only when it is the first there.       *)
(*                                                                         *)
(* All these lists are appended to by transactGoIn and otherwise only lose *)
(* members, so a list is modelled as a set and its order by rank: the      *)
(* transacts in the order of their last transactGoIn.                      *)
(*                                                                         *)
(* Time is left out: the events of GENERATE and ADVANCE come whenever the  *)
(* calendar lets them, in any order.                                       *)
(***************************************************************************)
EXTENDS Integers, Sequences, FiniteSets

CONSTANTS Transact,     \* the transacts a run may create
          Resource,     \* the resources of SEIZE and RELEASE
          Queue,        \* the queue resources of QUEUE and DEPART
          Program,      \* Program[p]: the blocks of process p
          Entry,        \* the processes that events send their transacts to
          Breakdowns,   \* may a pattern change the state of a resource?
          None          \* no block, no resource

\* The blocks as the parser makes them: SEIZE and RELEASE name resources, QUEUE
\* and DEPART one queue each.
BlockType ==
  [op : {"GENERATE", "ADVANCE", "ASSIGN", "TERMINATE"}, for : {<<>>}]
     \cup [op : {"SEIZE", "RELEASE"}, for : Seq(Resource) \ {<<>>}]
     \cup [op : {"QUEUE", "DEPART"}, for : {<<q>> : q \in Queue}]

Process == DOMAIN Program

ASSUME ProcessAssumption ==
  /\ IsFiniteSet(Transact)
  /\ \A p \in Process : Program[p] \in Seq(BlockType)
  /\ Entry \subseteq Process
  /\ Breakdowns \in BOOLEAN
  /\ None \notin Resource

Block == UNION {{p} \X DOMAIN Program[p] : p \in Process}

Op(b)   == Program[b[1]][b[2]].op
For(b)  == Program[b[1]][b[2]].for
Succ(b) == <<b[1], b[2] + 1>>
Lists(b, r) == \E i \in DOMAIN For(b) : For(b)[i] = r
Seizes(b, r) == b \in Block /\ Op(b) = "SEIZE" /\ Lists(b, r)

ASSUME BlockAssumption ==
  /\ None \notin Block
  /\ \A b \in Block : Op(b) = "GENERATE" => Succ(b) \in Block

VARIABLES block,      \* RDOPROCTransact::m_block, None before the creation
          erased,     \* the transacts erased from the model
          waiting,    \* RDOPROCBlock::m_transacts
          leaving,    \* RDOPROCAdvance::leave_list
          listed,     \* RDOPROCResource::transacts
          rank,       \* the order of these lists
          res,        \* RDOPROCTransact::m_res
          state,      \* the parameter "Sostoyanie" of a resource
          length,     \* the parameter "dlina_ocheredi" of a queue
          term,       \* Terminate_counter
          owners      \* history: who has seized a resource and not released it

vars == <<block, erased, waiting, leaving, listed, rank, res, state, length, term, owners>>

N == Cardinality(Transact)

Rankings == {f \in [Transact -> 1..N] : \A t, u \in Transact : f[t] = f[u] => t = u}

TypeOK == /\ block \in [Transact -> Block \cup {None}]
          /\ erased \subseteq Transact
          /\ waiting \in [Block -> SUBSET Transact]
          /\ leaving \in [Block -> SUBSET Transact]
          /\ listed \in [Resource -> SUBSET Transact]
          /\ rank \in Rankings
          /\ res \in [Transact -> Resource \cup {None}]
          /\ state \in [Resource -> {"free", "busy", "broken"}]
          /\ length \in [Queue -> Int]
          /\ term \in Nat
          /\ owners \in [Resource -> SUBSET Transact]

Init == /\ block = [t \in Transact |-> None]
        /\ erased = {}
        /\ waiting = [b \in Block |-> {}]
        /\ leaving = [b \in Block |-> {}]
        /\ listed = [r \in Resource |-> {}]
        /\ rank \in Rankings
        /\ res = [t \in Transact |-> None]
        /\ state = [r \in Resource |-> "free"]
        /\ length = [q \in Queue |-> 0]
        /\ term = 0
        /\ owners = [r \in Resource |-> {}]

-----------------------------------------------------------------------------
(***************************************************************************)
(* The lists.                                                              *)
(***************************************************************************)
\* The first of a list.
First(list, t) == t \in list /\ \A u \in list : rank[t] =< rank[u]

\* The transacts of D go to the end of every order and keep their own.
Requeue(D) ==
  /\ rank' \in Rankings
  /\ \A t, u \in Transact :
        rank'[t] < rank'[u] <=> \/ t \notin D /\ u \in D
                                \/ (t \in D <=> u \in D) /\ rank[t] < rank[u]

-----------------------------------------------------------------------------
(***************************************************************************)
(* onCheckCondition of the blocks.                                         *)
(***************************************************************************)
\* Mutant: only the first resource of the list is looked at.
FirstIsFree(b, r) == For(b)[1] = r /\ state[r] = "free"

\* The first free resource of a SEIZE, in the order in which it lists them.
FirstFree(b, r) ==
  \E i \in DOMAIN For(b) : /\ For(b)[i] = r /\ state[r] = "free"
                           /\ \A j \in 1..(i - 1) : state[For(b)[j]] # "free"

\* Mutant: the list of the resource is not consulted.
CanSeizeAtOnce(b, t, r) == /\ Op(b) = "SEIZE" /\ First(waiting[b], t)
                           /\ FirstFree(b, r)

\* It goes to the first transact of the block, if that is the first of the
\* resource too; if it is not, no other resource is looked at.
CanSeize(b, t, r) == /\ Op(b) = "SEIZE" /\ First(waiting[b], t)
                     /\ FirstFree(b, r) /\ First(listed[r], t)

\* Mutant: any busy resource of the list is freed.
CanReleaseAny(b, t, r) == /\ Op(b) = "RELEASE" /\ First(waiting[b], t)
                          /\ Lists(b, r) /\ state[r] = "busy"

\* RELEASE frees the resource the transact seized last, if the block lists it.
CanRelease(b, t, r) == /\ Op(b) = "RELEASE" /\ First(waiting[b], t)
                       /\ res[t] = r /\ r \in Resource /\ Lists(b, r)
                       /\ state[r] = "busy"

\* If it is neither busy nor free, the transact is erased and the check fails.
ReleaseBad(b, t) == /\ Op(b) = "RELEASE" /\ First(waiting[b], t)
                    /\ res[t] \in Resource /\ Lists(b, res[t])
                    /\ state[res[t]] \notin {"free", "busy"}

\* What a scan stops at and has something to do for.
Ready(b) == \/ /\ Op(b) \in {"QUEUE", "DEPART", "ADVANCE", "ASSIGN", "TERMINATE"}
               /\ waiting[b] # {}
            \/ \E t \in waiting[b], r \in Resource : CanSeize(b, t, r) \/ CanRelease(b, t, r)

\* RDOOrderSimple::sort: the blocks are checked in order up to the first that is
\* ready, and Passed are those whose check failed.
Passed(b) == {c \in Block : c[1] = b[1] /\ c[2] < b[2]}

LostIn(C) == {t \in Transact : \E c \in C : ReleaseBad(c, t)}

Scanned(b, t) == /\ Ready(b) /\ \A c \in Passed(b) : ~Ready(c)
                 /\ First(waiting[b], t)

\* Mutants: a bad transact stays in its RELEASE; SEIZE does not override
\* transactGoOut.
StayIfBad(b, D, C, lost, c) == {t \in waiting[c] : ~ (c = b /\ t \in D)}

StayListedKept(b, D, lost, r) == {t \in listed[r] : ~ (res[t] = r /\ t \in lost)}

\* What is left of the lists when the transacts of D go out of block b and those
\* of lost were found bad in blocks of C; nothing else takes a transact off a list.
Stay(b, D, C, lost, c) ==
  {t \in waiting[c] : ~ (c = b /\ t \in D) /\ ~ (c \in C /\ t \in lost)}

StayListed(b, D, lost, r) ==
  {t \in listed[r] : ~ (Seizes(b, r) /\ t \in D) /\ ~ (res[t] = r /\ t \in lost)}

\* The transacts of D leave the lists of block b and join no other.
GoOut(b, D, C, lost) ==
  /\ waiting' = [c \in Block |-> Stay(b, D, C, lost, c)]
  /\ listed' = [r \in Resource |-> StayListed(b, D, lost, r)]
  /\ UNCHANGED <<block, rank>>

\* RDOPROCProcess::next for the transacts of D, which are at block b: they go out
\* of b (ADVANCE has taken them off its list, GENERATE never had them there) and
\* into the next block, if there is one.
GoOn(b, D, C, lost) ==
  IF Succ(b) \in Block
  THEN /\ waiting' = [c \in Block |-> Stay(b, D, C, lost, c) \cup {t \in D : c = Succ(b)}]
       /\ listed' = [r \in Resource |-> StayListed(b, D, lost, r)
                                         \cup {t \in D : Seizes(Succ(b), r)}]
       /\ block' = [t \in Transact |-> IF t \in D THEN Succ(b) ELSE block[t]]
       /\ Requeue(D)
  ELSE GoOut(b, D, C, lost)

\* The first transact of b goes on, those lost by the way are erased.
Operate(b, t) == /\ Scanned(b, t)
                 /\ GoOn(b, {t}, Passed(b), LostIn(Passed(b)))
                 /\ erased' = erased \cup LostIn(Passed(b))

-----------------------------------------------------------------------------
(***************************************************************************)
(* The steps of the blocks: onCheckCondition with onDoOperation.           *)
(***************************************************************************)
DoQueue(b, t) ==
  /\ Op(b) = "QUEUE"
  /\ Operate(b, t)
  /\ length' = [length EXCEPT ![For(b)[1]] = @ + 1]
  /\ UNCHANGED <<leaving, res, state, term, owners>>

\* Mutant: the length is not changed.
DoDepartOnly(b, t) ==
  /\ Op(b) = "DEPART"
  /\ Operate(b, t)
  /\ UNCHANGED <<leaving, res, state, length, term, owners>>

DoDepart(b, t) ==
  /\ Op(b) = "DEPART"
  /\ Operate(b, t)
  /\ length' = [length EXCEPT ![For(b)[1]] = @ - 1]
  /\ UNCHANGED <<leaving, res, state, term, owners>>

DoSeize(b, t) ==
  \E r \in Resource :
    /\ CanSeize(b, t, r)
    /\ Operate(b, t)
    /\ state' = [state EXCEPT ![r] = "busy"]
    /\ res' = [res EXCEPT ![t] = r]
    /\ owners' = [owners EXCEPT ![r] = @ \cup {t}]
    /\ UNCHANGED <<leaving, length, term>>

\* Mutant: the resource stays busy.
DoReleaseKeepBusy(b, t) ==
  \E r \in Resource :
    /\ CanRelease(b, t, r)
    /\ Operate(b, t)
    /\ owners' = [owners EXCEPT ![r] = @ \ {t}]
    /\ UNCHANGED <<leaving, res, state, length, term>>

DoRelease(b, t) ==
  \E r \in Resource :
    /\ CanRelease(b, t, r)
    /\ Operate(b, t)
    /\ state' = [state EXCEPT ![r] = "free"]
    /\ owners' = [owners EXCEPT ![r] = @ \ {t}]
    /\ UNCHANGED <<leaving, res, length, term>>

\* ASSIGN sets a parameter of some resource that this model does not keep.
DoAssign(b, t) ==
  /\ Op(b) = "ASSIGN"
  /\ Operate(b, t)
  /\ UNCHANGED <<leaving, res, state, length, term, owners>>

\* Mutant: the transact is not taken off m_transacts.
DoAdvanceKept(b, t) ==
  /\ Op(b) = "ADVANCE"
  /\ Scanned(b, t)
  /\ GoOut(b, {}, Passed(b), LostIn(Passed(b)))
  /\ erased' = erased \cup LostIn(Passed(b))
  /\ leaving' = [leaving EXCEPT ![b] = @ \cup {t}]
  /\ UNCHANGED <<res, state, length, term, owners>>

\* The transact moves to the list of those that wait for their event.
DoAdvance(b, t) ==
  /\ Op(b) = "ADVANCE"
  /\ Scanned(b, t)
  /\ GoOut(b, {t}, Passed(b), LostIn(Passed(b)))
  /\ erased' = erased \cup LostIn(Passed(b))
  /\ leaving' = [leaving EXCEPT ![b] = @ \cup {t}]
  /\ UNCHANGED <<res, state, length, term, owners>>

DoTerminate(b, t) ==
  /\ Op(b) = "TERMINATE"
  /\ Scanned(b, t)
  /\ GoOut(b, {t}, Passed(b), LostIn(Passed(b)))
  /\ erased' = erased \cup LostIn(Passed(b)) \cup {t}
  /\ term' = term + 1
  /\ UNCHANGED <<leaving, res, state, length, owners>>

\* A scan that checks the blocks of C, and finds nothing to do, has erased the bad
\* transacts all the same.
Vain(C) ==
  /\ \A c \in C : ~Ready(c)
  /\ LostIn(C) # {}
  /\ GoOut(None, {}, C, LostIn(C))
  /\ erased' = erased \cup LostIn(C)
  /\ UNCHANGED <<leaving, res, state, length, term, owners>>

ScanInVain(p) == Vain({c \in Block : c[1] = p})

\* A GENERATE whose time has come, and an ADVANCE nobody has come to and which
\* somebody is due to leave, are ready as well and end the scan, but their operation
\* does nothing: the event, still to come, does it.
MayBeDue(b) == \/ Op(b) = "GENERATE"
               \/ Op(b) = "ADVANCE" /\ waiting[b] = {} /\ leaving[b] # {}

ScanCutShort(b) == MayBeDue(b) /\ Vain(Passed(b))

-----------------------------------------------------------------------------
(***************************************************************************)
(* The events, and what the rest of the model does.                        *)
(***************************************************************************)
\* RDOPROCGenerate::onMakePlaned: a new transact goes on from the GENERATE.
Generate(b, t) ==
  /\ Op(b) = "GENERATE" /\ block[t] = None
  /\ GoOn(b, {t}, {}, {})
  /\ UNCHANGED <<erased, leaving, res, state, length, term, owners>>

\* RDOPROCAdvance::onMakePlaned: all the transacts whose time has come go on, in
\* the order of the list.
AdvanceEnds(b, D) ==
  /\ Op(b) = "ADVANCE" /\ D # {}
  /\ GoOn(b, D, {}, {})
  /\ leaving' = [leaving EXCEPT ![b] = @ \ D]
  /\ UNCHANGED <<erased, res, state, length, term, owners>>

\* RDOCalcProcessControl: an event sends a transact it has made to the first block
\* of a process, whatever that is: at a GENERATE it waits for ever.
ProcessStart(p, t) ==
  LET b == <<p, 1>> IN
  /\ p \in Entry /\ b \in Block /\ block[t] = None
  /\ block' = [block EXCEPT ![t] = b]
  /\ waiting' = [waiting EXCEPT ![b] = @ \cup {t}]
  /\ listed' = [r \in Resource |-> listed[r] \cup {u \in {t} : Seizes(b, r)}]
  /\ Requeue({t})
  /\ UNCHANGED <<erased, leaving, res, state, length, term, owners>>

\* Patterns that model the breakdown and the repair of a resource.
Break(r) == /\ Breakdowns /\ state[r] # "broken"
            /\ state' = [state EXCEPT ![r] = "broken"]
            /\ UNCHANGED <<block, erased, waiting, leaving, listed, rank, res, length,
                           term, owners>>

Repair(r) == /\ state[r] = "broken"
             /\ state' = [state EXCEPT ![r] = "free"]
             /\ UNCHANGED <<block, erased, waiting, leaving, listed, rank, res, length,
                            term, owners>>

Scan == \/ \E b \in Block : \E t \in waiting[b] :
              \/ DoQueue(b, t) \/ DoDepart(b, t) \/ DoSeize(b, t) \/ DoRelease(b, t)
              \/ DoAssign(b, t) \/ DoAdvance(b, t) \/ DoTerminate(b, t)
        \/ \E p \in Process : ScanInVain(p)
        \/ \E b \in Block : ScanCutShort(b)

Next == \/ Scan
        \/ \E b \in Block, t \in Transact : Generate(b, t)
        \/ \E b \in Block : \E D \in SUBSET leaving[b] : AdvanceEnds(b, D)
        \/ \E p \in Process, t \in Transact : ProcessStart(p, t)
        \/ \E r \in Resource : Break(r) \/ Repair(r)

Spec == Init /\ [][Next]_vars

\* rdoNext asks the activities again and again (EventCalendar), and an event that
\* is planned happens (EveryEventHappens).
Fairness ==
  /\ WF_vars(Scan)
  /\ \A b \in Block : WF_vars(\E D \in SUBSET leaving[b] : AdvanceEnds(b, D))

FairSpec == Spec /\ Fairness

-----------------------------------------------------------------------------
(***************************************************************************)
(* Properties.                                                             *)
(***************************************************************************)
\* The list of a resource is exactly the transacts that wait at the SEIZE blocks
\* which list it.  (SEIZE takes front() of it without asking whether it is empty.)
ListsAgree ==
  \A r \in Resource, t \in Transact :
     t \in listed[r] <=> \E b \in Block : Seizes(b, r) /\ t \in waiting[b]

\* A transact is in one place: in the list of its own block or, at an ADVANCE, in
\* its leave_list, and not in both; an erased one is nowhere.
OnePlace ==
  \A b \in Block, t \in Transact :
     /\ t \in waiting[b] \cup leaving[b] => block[t] = b /\ t \notin erased
     /\ t \notin waiting[b] \cap leaving[b]
     /\ t \in leaving[b] => Op(b) = "ADVANCE"

\* A SEIZE whose first free resource belongs to another transact looks at no other
\* resource.  Still, as long as a resource is free and somebody waits for it, some
\* SEIZE can go on.
NoStuckSeize ==
  \A b \in Block, r \in Resource :
     Seizes(b, r) /\ waiting[b] # {} /\ state[r] = "free" =>
        \E c \in Block : Op(c) = "SEIZE" /\ Ready(c)

\* The last of the SEIZE and RELEASE blocks before b is a SEIZE.
InService(b) ==
  \E c \in Passed(b) :
     /\ Op(c) = "SEIZE"
     /\ \A d \in Passed(b) : Op(d) \in {"SEIZE", "RELEASE"} => d[2] =< c[2]

\* A program that releases what it has seized before it seizes again.
SeizesArePaired ==
  \A b \in Block :
     /\ Op(b) \in {"SEIZE", "GENERATE"} => ~InService(b)
     /\ Op(b) = "RELEASE" => InService(b)
     /\ Op(b) \in {"SEIZE", "RELEASE"} => Succ(b) \in Block

\* A resource is busy exactly while one transact has it.  (Of programs as above, and
\* if no pattern frees a resource by hand.)
OneOwner ==
  \A r \in Resource : /\ Cardinality(owners[r]) =< 1
                      /\ state[r] = "busy" <=> owners[r] # {}
                      /\ \A t \in owners[r] : res[t] = r

\* First come, first served: a resource is given to the transact that has waited
\* for it longest, whatever the process and the block it waits at.
ServedInOrder ==
  [][\A r \in Resource, t \in Transact :
        t \in owners'[r] \ owners[r] =>
           \A u \in Transact \ {t} :
              (\E b \in Block : Seizes(b, r) /\ u \in waiting[b]) => rank[t] < rank[u]]_vars

\* Between QUEUE and DEPART of queue q.
InQueue(b, q) ==
  /\ \E c \in Passed(b) : Op(c) = "QUEUE" /\ For(c)[1] = q
  /\ ~ \E c \in Passed(b) : Op(c) = "DEPART" /\ For(c)[1] = q

\* A program that queues once, departs once after it, and does not end, or may be
\* erased, in between.
QueuesArePaired ==
  \A b \in Block, q \in Queue :
     LET passed == \E c \in Passed(b) : Op(c) \in {"QUEUE", "DEPART"} /\ For(c)[1] = q
     IN  /\ Op(b) = "QUEUE" /\ For(b)[1] = q => ~passed /\ Succ(b) \in Block
         /\ Op(b) = "DEPART" /\ For(b)[1] = q => InQueue(b, q) /\ Succ(b) \in Block
         /\ Op(b) \in {"GENERATE", "TERMINATE"} => ~InQueue(b, q)
         /\ Op(b) = "RELEASE" /\ Breakdowns => ~InQueue(b, q)

\* The length of a queue is the number of transacts that have passed its QUEUE and
\* not its DEPART.  (Of programs as above.)
Inside(q) == {t \in Transact \ erased : block[t] # None /\ InQueue(block[t], q)}

QueueLength == \A q \in Queue : length[q] = Cardinality(Inside(q))

\* Every transact gets to its TERMINATE.
EveryTransactLeaves == \A t \in Transact : block[t] # None ~> t \in erased

-----------------------------------------------------------------------------
\* rdo_obj_proc.htm: RELEASE, with a list, frees "the resource that was seized by
\* this transact above".  A transact has room for one resource only, the last.
ReleaseFreesWhatWasSeized ==
  \A b \in Block, t \in Transact, r \in Resource :
     Op(b) = "RELEASE" /\ First(waiting[b], t) /\ t \in owners[r] /\ Lists(b, r)
        => CanRelease(b, t, r)
=============================================================================
