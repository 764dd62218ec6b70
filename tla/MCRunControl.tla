---------------------------- MODULE MCRunControl ----------------------------
(***************************************************************************)
(* A small instance of RunControl: full speed, half speed and none, one    *)
(* key with and without one modifier, one area.                            *)
(***************************************************************************)
EXTENDS RunControl

CONSTANTS ctrl, key, area

MCSpeed    == {0, 1, 2}
MCCount    == [s \in MCSpeed |-> CASE s = 1 -> 0 [] s = 2 -> 2 [] s = 0 -> 4]
MCDuration == {0, 1, 3}
MCKey      == {ctrl, key}
MCModifier == {ctrl}
MCArea     == {area}
MCHotKey   == <<[key |-> key, with |-> {}, name |-> area]>>
=============================================================================
