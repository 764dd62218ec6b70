------------------------------- MODULE Agenda -------------------------------
(***************************************************************************)
(* What the calendar of RDO Studio promises to a model, without saying how *)
(* it is kept: a set of pending events and a clock.  An event happens no   *)
(* earlier than it was planned for, the pending events happen in the order *)
(* of their times and, at one time, in the order in which they were        *)
(* planned; the clock only moves to the time of a pending event and never  *)
(* past one; and an event leaves the agenda only by happening, by being    *)
(* stopped together with every other event of its operation, or when the   *)
(* run is over.                                                            *)
(***************************************************************************)
EXTENDS Integers

CONSTANTS Op,           \* the operations events are planned for
          Time,         \* the model times an event may be planned for
          StartTime

VARIABLES clock,        \* the model time
          pending,      \* the events planned and not yet run
          stamp         \* how many events have been planned so far

avars == <<clock, pending, stamp>>

AInit == /\ clock = StartTime
         /\ pending = {}
         /\ stamp = 0

Later(s, t) == IF s < t THEN t ELSE s

\* e is planned for the earliest time; among the events of that time it was
\* planned first.
Earliest(e) == e \in pending /\ \A f \in pending : e.at =< f.at

Foremost(e) == Earliest(e) /\ \A f \in pending : f.at = e.at => e.id =< f.id

Plan(op, t) == /\ stamp' = stamp + 1
               /\ pending' = pending \cup {[op |-> op, at |-> t, id |-> stamp + 1]}
               /\ UNCHANGED clock

Stop(op) == /\ pending' = {e \in pending : e.op # op}
            /\ UNCHANGED <<clock, stamp>>

Happen(e) == /\ Foremost(e)
             /\ pending' = pending \ {e}
             /\ clock' = Later(clock, e.at)
             /\ UNCHANGED stamp

\* The clock reaches the time of the next events, which have not happened yet.
Elapse(e) == /\ Earliest(e)
             /\ clock' = Later(clock, e.at)
             /\ UNCHANGED <<pending, stamp>>

Finish == /\ pending' = {}
          /\ UNCHANGED <<clock, stamp>>

ANext == \/ \E op \in Op : Stop(op) \/ \E t \in Time : Plan(op, t)
         \/ \E e \in pending : Happen(e) \/ Elapse(e)
         \/ Finish

ASpec == AInit /\ [][ANext]_avars
=============================================================================
