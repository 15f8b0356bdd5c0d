---------------------------- MODULE DetailReading ----------------------------
(***************************************************************************)
(* What process_job relies on when it reads details with a                 *)
(* DetailWorkerPool: a group of tasks is read in any order, no result      *)
(* comes twice, nothing but the consumer stops it before the last result,  *)
(* and it does not go on for ever.  Observation is written against this    *)
(* promise (ApplyDetail takes any task that is left); DetailPool keeps it  *)
(* with threads, queues and events.                                        *)
(***************************************************************************)
EXTENDS Naturals, Sequences

CONSTANT Wanted  \* the tasks of the group

VARIABLES
  got,   \* the tasks whose results were consumed, in order
  phase  \* "waiting" for a reader, "reading", "over"

vars == <<got, phase>>

Got == {got[i] : i \in DOMAIN got}

Init == got = <<>> /\ phase = "waiting"

\* A reader is there.
Open ==
  /\ phase = "waiting"
  /\ phase' = "reading"
  /\ UNCHANGED got

\* No reader could be opened.
GiveUp ==
  /\ phase = "waiting"
  /\ phase' = "over"
  /\ UNCHANGED got

\* A result is consumed, and the consumer goes on or leaves.
Deliver ==
  /\ phase = "reading"
  /\ \E t \in Wanted \ Got : got' = Append(got, t)
  /\ phase' \in {"reading", "over"}

Complete ==
  /\ phase = "reading" /\ Got = Wanted
  /\ phase' = "over"
  /\ UNCHANGED got

Next == Open \/ GiveUp \/ Deliver \/ Complete

Spec == Init /\ [][Next]_vars

\* The safety part, and that the reading ends.
Promise == Spec /\ <>(phase = "over")

=============================================================================
