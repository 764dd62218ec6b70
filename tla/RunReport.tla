----------------------------- MODULE RunReport -----------------------------
(***************************************************************************)
(* What the simulator promises to those who follow a run of a model: a run *)
(* is reported exactly once, after it has ended and before another one     *)
(* starts, and the report says what became of it: stopped because somebody *)
(* asked for it, failed, or ended by itself.                               *)
(***************************************************************************)
VARIABLES stage,    \* of the run: "none", "active" or "ending"
          failed,   \* something went wrong in it
          asked,    \* it was asked to stop
          verdict   \* the last report, "none" since a run has started

rvars == <<stage, failed, asked, verdict>>

RInit == stage = "none" /\ failed = FALSE /\ asked = FALSE /\ verdict = "none"

Start == /\ stage = "none" /\ stage' = "active"
         /\ failed' = FALSE /\ asked' = FALSE /\ verdict' = "none"

Fail == /\ stage # "none" /\ failed' = TRUE
        /\ UNCHANGED <<stage, asked, verdict>>

Ask == /\ stage = "active" /\ asked' = TRUE
       /\ UNCHANGED <<stage, failed, verdict>>

End == /\ stage = "active" /\ stage' = "ending"
       /\ UNCHANGED <<failed, asked, verdict>>

Verdict == IF asked THEN "STOP_BY_USER" ELSE IF failed THEN "STOP_RUNTIME_ERROR" ELSE "STOP_OK"

Report == /\ stage = "ending" /\ stage' = "none"
          /\ verdict' = Verdict
          /\ failed' = FALSE /\ asked' = FALSE

RNext == Start \/ Fail \/ Ask \/ End \/ Report

RSpec == RInit /\ [][RNext]_rvars
=============================================================================
