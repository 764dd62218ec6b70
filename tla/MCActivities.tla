--------------------------- MODULE MCActivities ---------------------------
(***************************************************************************)
(* Small instances of Activities: parts arrive, are worked on, looked at   *)
(* and packed; rules paint them and take them away.  The rule that takes   *)
(* two at once finds the same one twice, which ends the run.               *)
(***************************************************************************)
EXTENDS Activities

Rel(from, begin, end, to, last) ==
  [from |-> from, begin |-> begin, end |-> end, to |-> to, last |-> last]

MCValue == {"raw", "busy", "done", "seen", "packed", "waste", "held"}

MCPattern ==
  [arrive |-> [kind |-> "event", rel |-> <<
     Rel({}, "Create", "NoChange", ByParameter, "raw")>>],
   work |-> [kind |-> "operation", rel |-> <<
     Rel({"raw"}, "Keep", "Keep", "busy", "done"),
     Rel({}, "NonExist", "Create", "raw", "raw")>>],
   look |-> [kind |-> "operation", rel |-> <<
     Rel({"done"}, "Keep", "NoChange", "seen", "raw")>>],
   pack |-> [kind |-> "operation", rel |-> <<
     Rel({"seen"}, "Keep", "Erase", "packed", "raw"),
     Rel({"done", "seen"}, "NoChange", "NoChange", "raw", "raw")>>],
   copy |-> [kind |-> "operation", rel |-> <<
     Rel({"seen"}, "Keep", "NoChange", "packed", "raw"),
     Rel({}, "Create", "Keep", ByParameter, "waste")>>],
   hold |-> [kind |-> "operation", rel |-> <<
     Rel({"waste"}, "Keep", "Keep", "held", "waste")>>],
   away |-> [kind |-> "rule", rel |-> <<
     Rel({"waste", "held"}, "Erase", "NonExist", "raw", "raw")>>],
   scrap |-> [kind |-> "rule", rel |-> <<
     Rel({"busy"}, "NoChange", "NoChange", "raw", "raw"),
     Rel({"seen"}, "NoChange", "NoChange", "raw", "raw"),
     Rel({"waste"}, "Erase", "NonExist", "raw", "raw"),
     Rel({"waste"}, "Erase", "NonExist", "raw", "raw")>>],
   paint |-> [kind |-> "rule", rel |-> <<
     Rel({"busy", "seen"}, "Keep", "NoChange", ByParameter, "raw")>>]]

MCParameter == [a \in DOMAIN MCPattern |->
  IF a \in {"arrive", "work"} THEN "raw" ELSE "busy"]
MCPriority  == [a \in DOMAIN MCPattern |-> IF a \in {"away", "hold"} THEN 0 ELSE 1]

MCLogic == <<[order |-> "simple", acts |-> <<"work", "look">>],
             [order |-> "prior", acts |-> <<"pack", "copy", "hold", "away", "scrap">>],
             [order |-> "simple", acts |-> <<"paint">>]>>

\* It is one of the logics NoIdleRule is proved for.
ASSUME LogicGivesOneParameter == Logic = MCLogic => OneParameterEach

\* Two activities of a prior decision point that give different values to the
\* parameters of their patterns, both ready.
MCPrior == <<[order |-> "prior", acts |-> <<"copy", "work">>]>>

MCInitList      == <<"raw">>
MCPriorInitList == <<"seen", "raw">>
=============================================================================
