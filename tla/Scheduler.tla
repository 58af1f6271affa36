----------------------------- MODULE Scheduler -----------------------------
(***************************************************************************)
(* The single schedule slot of the service: service/power/schedule.go.     *)
(*                                                                         *)
(* A Go timer and the goroutine it starts are two things.  timer[s] is the *)
(* time.AfterFunc timer of schedule s, which Stop() only stops while it is *)
(* "armed"; fire[s] is the program counter of the goroutine running        *)
(* Scheduler.fire for s.  Everything the code does under s.mu is one step; *)
(* fire takes the lock only for its last step, so the others interleave    *)
(* with every Schedule and End.                                            *)
(*                                                                         *)
(* Schedules are identified by Task.Seq.  The actions leave out what no    *)
(* property tells apart: the delay (one that is refused changes nothing),  *)
(* ExecuteAt, the log, and on whose behalf End is called.                  *)
(***************************************************************************)
EXTENDS Naturals

CONSTANTS
  Commands,    \* the commands of the catalogue (Lookup finds exactly these)
  Origins,     \* who creates schedules (Origin: ui, remote, telegram, ...)
  MaxSeq       \* bound: how many schedules a behaviour creates

ASSUME MaxSeqAssumption == MaxSeq \in Nat

VARIABLES
  slot,        \* Seq of the task in Scheduler.task, NoTask when it is nil
  seq,         \* Scheduler.seq, the last Seq handed out
  task,        \* task[s]: what schedule s runs, and who created it
  timer,       \* timer[s]: its time.AfterFunc timer
  fire,        \* fire[s]: the goroutine the timer started
  ended,       \* ended[s]: what Hooks.Replaced / Hooks.Ended said of it
  hand         \* hand[s]: the caller that took it with runNow

schedVars == <<slot, seq, task, timer, fire, ended, hand>>

Seqs   == 1..MaxSeq
NoTask == 0
Unset  == [command |-> "none", origin |-> "none"]

Init ==
  /\ slot = NoTask
  /\ seq = 0
  /\ task  = [s \in Seqs |-> Unset]
  /\ timer = [s \in Seqs |-> "unset"]
  /\ fire  = [s \in Seqs |-> "none"]
  /\ ended = [s \in Seqs |-> "no"]
  /\ hand  = [s \in Seqs |-> "no"]

----------------------------------------------------------------------------
(* time.Timer.Stop: it prevents the timer from firing only when it has not *)
(* fired yet.  Its result is ignored by both callers.                      *)
(* (Mutant: Stop is forgotten.)                                            *)
StopForgotten(s) == timer
Stopped(s) == IF timer[s] = "armed" THEN [timer EXCEPT ![s] = "stopped"] ELSE timer

(* Mutant: the new schedule does not become the current one when it        *)
(* replaces another.                                                       *)
ScheduleKeepsOld(c, o) ==
  /\ seq < MaxSeq
  /\ seq' = seq + 1
  /\ slot' = IF slot = NoTask THEN seq' ELSE slot
  /\ task' = [task EXCEPT ![seq'] = [command |-> c, origin |-> o]]
  /\ timer' = [timer EXCEPT ![seq'] = "armed"]
  /\ UNCHANGED <<fire, ended, hand>>

(* Scheduler.Schedule: what occupies the slot is stopped and reported as   *)
(* replaced, and the new schedule is armed in its place.                   *)
Schedule(c, o) ==
  /\ seq < MaxSeq
  /\ seq' = seq + 1
  /\ slot' = seq'
  /\ task' = [task EXCEPT ![seq'] = [command |-> c, origin |-> o]]
  /\ IF slot = NoTask
     THEN /\ timer' = [timer EXCEPT ![seq'] = "armed"]
          /\ UNCHANGED ended
     ELSE /\ timer' = [Stopped(slot) EXCEPT ![seq'] = "armed"]
          /\ ended' = [ended EXCEPT ![slot] = "replaced"]
  /\ UNCHANGED <<fire, hand>>

(* Scheduler.End: the timer is stopped, the end reported and the slot      *)
(* cleared; with runNow the caller now owes the command its execution.     *)
End(runNow) ==
  /\ slot # NoTask
  /\ timer' = Stopped(slot)
  /\ ended' = [ended EXCEPT ![slot] = IF runNow THEN "runnow" ELSE "cancelled"]
  /\ hand' = IF runNow THEN [hand EXCEPT ![slot] = "owed"] ELSE hand
  /\ slot' = NoTask
  /\ UNCHANGED <<seq, task, fire>>

(* The caller of End(by, true) runs the command it was handed. *)
HandRun(s) ==
  /\ hand[s] = "owed"
  /\ hand' = [hand EXCEPT ![s] = "ran"]
  /\ UNCHANGED <<slot, seq, task, timer, fire, ended>>

(* The runtime starts fire in a goroutine of its own. *)
Expire(s) ==
  /\ timer[s] = "armed"
  /\ timer' = [timer EXCEPT ![s] = "expired"]
  /\ fire' = [fire EXCEPT ![s] = "started"]
  /\ UNCHANGED <<slot, seq, task, ended, hand>>

(* fire, first step: Hooks.Fired, without the lock. *)
Announce(s) ==
  /\ fire[s] = "started"
  /\ fire' = [fire EXCEPT ![s] = "announced"]
  /\ UNCHANGED <<slot, seq, task, timer, ended, hand>>

(* fire, second step: run(), without the lock.  It returns only when the   *)
(* command did, for a suspend after the PC resumed.                        *)
Run(s) ==
  /\ fire[s] = "announced"
  /\ fire' = [fire EXCEPT ![s] = "ran"]
  /\ UNCHANGED <<slot, seq, task, timer, ended, hand>>

(* Mutants: the Seq comparison is dropped; the slot is not cleared. *)
ClearAny(s) ==
  /\ fire[s] = "ran"
  /\ fire' = [fire EXCEPT ![s] = "done"]
  /\ slot' = NoTask
  /\ UNCHANGED <<seq, task, timer, ended, hand>>

ClearNot(s) ==
  /\ fire[s] = "ran"
  /\ fire' = [fire EXCEPT ![s] = "done"]
  /\ UNCHANGED <<slot, seq, task, timer, ended, hand>>

(* fire, last step: the slot is cleared unless a newer schedule has it. *)
Clear(s) ==
  /\ fire[s] = "ran"
  /\ fire' = [fire EXCEPT ![s] = "done"]
  /\ slot' = IF slot = s THEN NoTask ELSE slot
  /\ UNCHANGED <<seq, task, timer, ended, hand>>

(* Scheduler.ActiveSeq: the Seq of the current schedule when it runs c on  *)
(* behalf of o, NoTask otherwise.                                          *)
ActiveSeq(c, o) ==
  IF slot # NoTask /\ task[slot].command = c /\ task[slot].origin = o
  THEN slot ELSE NoTask

FireStep(s) == Announce(s) \/ Run(s) \/ Clear(s)

Next ==
  \/ \E c \in Commands, o \in Origins : Schedule(c, o)
  \/ \E runNow \in BOOLEAN : End(runNow)
  \/ \E s \in Seqs : Expire(s) \/ FireStep(s) \/ HandRun(s)

(* A timer that is not stopped expires, a goroutine that runs goes on, and *)
(* a caller that took a schedule to run it does.  Nobody has to schedule   *)
(* or cancel anything.                                                     *)
Fairness == \A s \in Seqs : /\ WF_schedVars(Expire(s))
                            /\ WF_schedVars(FireStep(s))
                            /\ WF_schedVars(HandRun(s))

Spec == Init /\ [][Next]_schedVars /\ Fairness

----------------------------------------------------------------------------
(* Type invariant of the slot; the task in it is always the newest one     *)
(* (Scheduler.task and Scheduler.seq move together under the lock).        *)
TypeOK ==
  /\ seq \in 0..MaxSeq
  /\ slot \in {NoTask, seq}
  /\ task  \in [Seqs -> [command : Commands, origin : Origins] \cup {Unset}]
  /\ timer \in [Seqs -> {"unset", "armed", "stopped", "expired"}]
  /\ fire  \in [Seqs -> {"none", "started", "announced", "ran", "done"}]
  /\ ended \in [Seqs -> {"no", "replaced", "cancelled", "runnow"}]
  /\ hand  \in [Seqs -> {"no", "owed", "ran"}]

(* No timer is armed that the slot does not show: whatever the order of    *)
(* replacements, ends and late fire goroutines, a schedule that can still  *)
(* go off is the one a user sees and can cancel.                           *)
OnlySlotTimerArmed == \A s \in Seqs : timer[s] = "armed" => slot = s

(* The slot never shows a dead schedule: what it shows either waits for    *)
(* its timer or is being run by its fire goroutine, and nobody was told    *)
(* that it had been cancelled, replaced or taken.                          *)
SlotAlive ==
  slot # NoTask =>
    /\ timer[slot] \in {"armed", "expired"}
    /\ fire[slot] # "done"
    /\ ended[slot] = "no"

(* Every schedule leaves the slot again, so a stuck goroutine never blocks *)
(* the countdown views for good.                                           *)
SlotDrains == \A s \in Seqs : slot = s ~> slot # s

(* The promise of ScheduleSlot. *)
Life == [s \in Seqs |->
           CASE s > seq -> "unused"
             [] s <= seq /\ timer[s] = "armed" -> "waiting"
             [] s <= seq /\ timer[s] = "stopped" -> "withdrawn"
             [] s <= seq /\ timer[s] = "expired" /\ fire[s] \in {"started", "announced"} -> "due"
             [] OTHER -> "ran"]

Slot == INSTANCE ScheduleSlot WITH life <- Life

(* The timers, goroutines and critical sections together keep the promise: *)
(* one waiting schedule, withdrawn ones never run by a timer, due ones run *)
(* once.                                                                   *)
ImplementsSlot == Slot!Spec

(* What Hooks.Replaced ("old is cancelled because command takes the slot") *)
(* and Hooks.Ended ("t was cancelled on behalf of by") tell the user: a    *)
(* schedule reported cancelled or replaced is not executed afterwards.     *)
CancelledNeverRuns ==
  [][\A s \in Seqs : ended[s] \in {"cancelled", "replaced"} =>
       ~(fire[s] = "announced" /\ fire'[s] = "ran")]_schedVars
============================================================================
