-------------------------- MODULE MCEventCalendar --------------------------
(***************************************************************************)
(* Small instances of EventCalendar: two operations, three times, so that  *)
(* events share a time, precede and follow one another and are planned for *)
(* a time already passed.                                                  *)
(***************************************************************************)
EXTENDS EventCalendar

CONSTANTS o1, o2

MCOp == {o1, o2}
MCTime == 0..3
=============================================================================
