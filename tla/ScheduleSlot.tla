--------------------------- MODULE ScheduleSlot ---------------------------
(***************************************************************************)
(* What the schedule slot of the service promises its callers, without     *)
(* timers, goroutines or locks.  A schedule is "waiting" until it is       *)
(* either withdrawn (cancelled, replaced or taken to be run by hand) or    *)
(* its deadline comes.  At most one schedule waits; a withdrawn one is     *)
(* never run by its timer; one that is due is run by it, exactly once.     *)
(*                                                                         *)
(* Scheduler.tla is shown to implement this module.                        *)
(***************************************************************************)
EXTENDS Naturals

CONSTANT Seqs            \* the identities a schedule can have

VARIABLE life            \* life[s]: how far schedule s has come

Stages == {"unused", "waiting", "withdrawn", "due", "ran"}

Init == life = [s \in Seqs |-> "unused"]

(* A new schedule withdraws whatever was waiting. *)
Open(s) ==
  /\ life[s] = "unused"
  /\ life' = [r \in Seqs |-> IF r = s THEN "waiting"
                             ELSE IF life[r] = "waiting" THEN "withdrawn"
                             ELSE life[r]]

Withdraw(s) == life[s] = "waiting" /\ life' = [life EXCEPT ![s] = "withdrawn"]
Due(s)      == life[s] = "waiting" /\ life' = [life EXCEPT ![s] = "due"]
Run(s)      == life[s] = "due"     /\ life' = [life EXCEPT ![s] = "ran"]

Next == \E s \in Seqs : Open(s) \/ Withdraw(s) \/ Due(s) \/ Run(s)

Safety == Init /\ [][Next]_life

(* Every schedule that is not withdrawn comes due, and what is due runs. *)
Fairness == \A s \in Seqs : WF_life(Due(s)) /\ WF_life(Run(s))

Spec == Safety /\ Fairness
===========================================================================
