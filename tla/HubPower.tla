------------------------------ MODULE HubPower ------------------------------
(***************************************************************************)
(* What the edge driver believes about one PC, and the events that change  *)
(* it: edge/src/model/power.lua.  "sleeping" stands for sleeping and       *)
(* hibernated, reason "shutdown" for shutdown, restart and unknown: the    *)
(* code treats each group alike.  The pending schedule and the features of *)
(* the PC, which a power event only copies, are left out.                  *)
(***************************************************************************)
EXTENDS Naturals

CONSTANT UnreachableLimit   \* UNREACHABLE_LIMIT

ASSUME HubPowerAssumption == UnreachableLimit \in Nat \ {0}

Powers == {"on", "sleeping", "off", "waking", "shuttingDown", "unknown"}
Reasons == {"suspend", "shutdown"}

(* stoppedAt names the app_stop push whose window may still run, 0 none;   *)
(* misses is counted to the limit, beyond which it makes no difference.    *)
DeviceState ==
  [power : Powers, misses : 0..UnreachableLimit, appDown : BOOLEAN,
   appStopped : BOOLEAN, stoppedAt : Nat, reason : Reasons \cup {"none"},
   wakeFrom : (Powers \ {"on", "waking"}) \cup {"none"}]

New == [power |-> "unknown", misses |-> 0, appDown |-> FALSE, appStopped |-> FALSE,
        stoppedAt |-> 0, reason |-> "none", wakeFrom |-> "none"]

(* Mutant: the answer of a PC that is being woken leaves it waking. *)
StatusOkStillWaking(s) == [New EXCEPT !.power = IF s.power = "waking" THEN "waking" ELSE "on"]

(* status_ok: the service answered. *)
StatusOk(s) == [New EXCEPT !.power = "on"]

(* app_down: refused by the PC itself, or silent within the window. *)
AppDown(s) ==
  LET down == [s EXCEPT !.misses = 0, !.appDown = TRUE]
  IN IF s.power = "shuttingDown" THEN down
     ELSE [down EXCEPT !.power = "on", !.reason = "none", !.wakeFrom = "none"]

(* app_answered: an error, but from the PC's app. *)
AppAnswered(s) == [s EXCEPT !.appDown = FALSE, !.appStopped = FALSE, !.stoppedAt = 0]

(* Mutant: silence leads back to off, but not from shuttingDown. *)
UnreachableStaysShutting(s) ==
  LET missed == [s EXCEPT !.misses = IF @ < UnreachableLimit THEN @ + 1 ELSE @,
                          !.appDown = FALSE]
  IN IF s.power \in {"waking", "sleeping", "shuttingDown"} \/ missed.misses < UnreachableLimit
     THEN missed
     ELSE [missed EXCEPT !.appStopped = FALSE, !.stoppedAt = 0,
                         !.power = IF s.reason = "suspend" THEN "sleeping" ELSE "off"]

(* unreachable: no answer at all, the second time in a row the PC is off. *)
Unreachable(s) ==
  LET missed == [s EXCEPT !.misses = IF @ < UnreachableLimit THEN @ + 1 ELSE @,
                          !.appDown = FALSE]
  IN IF s.power \in {"waking", "sleeping"} \/ missed.misses < UnreachableLimit
     THEN missed
     ELSE [missed EXCEPT !.appStopped = FALSE, !.stoppedAt = 0,
                         !.power = IF s.reason = "suspend" THEN "sleeping" ELSE "off"]

(* stopping, reason app_stop: the service goes, the PC stays. *)
AppStop(s, at) ==
  LET stopped == [s EXCEPT !.misses = 0, !.appDown = TRUE, !.appStopped = TRUE,
                           !.stoppedAt = 0, !.wakeFrom = "none"]
  IN IF s.power = "shuttingDown" THEN stopped
     ELSE [stopped EXCEPT !.power = "on", !.reason = "none", !.stoppedAt = at]

(* stopping for any other reason. *)
Stopping(s, reason) ==
  [New EXCEPT !.reason = reason,
              !.power = IF reason = "suspend" THEN "sleeping" ELSE "shuttingDown"]

(* Mutant: a second press remembers that the PC was waking. *)
SwitchOnForgets(s) ==
  IF s.power = "on" THEN [s EXCEPT !.misses = 0]
  ELSE [s EXCEPT !.misses = 0, !.wakeFrom = s.power, !.power = "waking"]

(* switch_on: remembers what a wake in vain falls back to. *)
SwitchOn(s) ==
  IF s.power = "on" THEN [s EXCEPT !.misses = 0]
  ELSE [s EXCEPT !.misses = 0, !.wakeFrom = IF s.power = "waking" THEN @ ELSE s.power,
                 !.power = "waking"]

(* wake_timeout. *)
WakeTimeout(s) ==
  IF s.power # "waking" THEN s
  ELSE [s EXCEPT !.power = IF s.wakeFrom = "none" THEN "off" ELSE s.wakeFrom,
                 !.wakeFrom = "none"]

(* schedule_cancelled: a shutdown that was under way is not any more. *)
ScheduleCancelled(s) ==
  IF s.power = "shuttingDown"
  THEN [s EXCEPT !.power = "on", !.reason = "none", !.misses = 0] ELSE s

(* app_stop_holding: windows up to number "over" have run out. *)
Holding(s, over) == s.appStopped /\ s.stoppedAt > over
=============================================================================
