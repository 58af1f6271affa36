------------------------------- MODULE Awake -------------------------------
(***************************************************************************)
(* The keep-awake controller: service/power/awake.go.                      *)
(*                                                                         *)
(* One mutex orders every change, so each call is a step; what makes it    *)
(* hard are the things it cannot rely on.  Windows may refuse a change of  *)
(* the execution state.  The expiry timer runs on a clock that stops while *)
(* the PC sleeps and that does not follow clock changes, so it may fire at *)
(* any moment, early or never in time; and once it fired, its callback may *)
(* wait for the mutex while the period it was armed for is replaced.       *)
(***************************************************************************)
EXTENDS Naturals

CONSTANTS
  Periods,    \* the minutes TurnOn is called with; 0 is "until turned off"
  MaxSeq,     \* bound: how often the state is turned on or off
  MaxTime,    \* bound: the wall clock's last instant
  MaxBacks    \* bound: how often the wall clock is set back

ASSUME AwakeAssumption ==
  Periods \subseteq Nat /\ MaxSeq \in Nat /\ MaxTime \in Nat /\ MaxBacks \in Nat

VARIABLES
  clock, backs, \* the wall clock, and how often it was set back
  on, until,    \* the state; until is 0 when it lasts until turned off
  seq,          \* identifies the current period
  armed,        \* the period whose timer is armed, 0 when stopTimer is nil
  firing,       \* periods whose timer fired and whose callback awaits the mutex
  held,         \* the flags Windows holds for the service
  keepDisplay,  \* awake.keep_display, changed by the user at any time
  refused       \* history: Windows refused the last attempt to clear the flags

time == <<clock, backs>>
awakeVars == <<time, on, until, seq, armed, firing, held, keepDisplay, refused>>

Flags == {"none", "system", "display"}

AwakeInit ==
  /\ clock = 1 /\ backs = 0 /\ on = FALSE /\ until = 0 /\ seq = 0
  /\ armed = 0 /\ firing = {} /\ held = "none" /\ refused = FALSE
  /\ keepDisplay \in BOOLEAN

WantFlags == IF keepDisplay THEN "display" ELSE "system"

(* dueLocked: the current period is past its end. *)
Due == on /\ until # 0 /\ clock >= until

(* holdLocked and releaseLocked: no call when nothing changes; ok is what  *)
(* Windows answers otherwise.                                              *)
Holds(flags, ok) == flags = held \/ ok
Released(ok) ==
  /\ held' = IF ok THEN "none" ELSE held
  /\ refused' = (held # "none" /\ ~ok)

(* Mutant: the request outlives the period. *)
OffWithoutRelease(ok) ==
  /\ on' = FALSE /\ until' = 0 /\ seq' = seq + 1 /\ armed' = 0
  /\ UNCHANGED <<held, refused>>

(* offLocked: the state goes off even if Windows refuses. *)
Off(ok) ==
  /\ on' = FALSE /\ until' = 0 /\ seq' = seq + 1 /\ armed' = 0
  /\ Released(ok)

----------------------------------------------------------------------------
(* Mutant: a period without an end leaves the old timer armed. *)
StartKeepsTimer(m) ==
  /\ on' = TRUE /\ seq' = seq + 1
  /\ until' = IF m = 0 THEN 0 ELSE clock + m
  /\ armed' = IF m = 0 THEN armed ELSE seq'
  /\ refused' = FALSE

(* TurnOn's new period: the old timer is stopped, one is armed for an end. *)
Start(m) ==
  /\ on' = TRUE /\ seq' = seq + 1
  /\ until' = IF m = 0 THEN 0 ELSE clock + m
  /\ armed' = IF m = 0 THEN 0 ELSE seq'
  /\ refused' = FALSE

(* Mutant: the period starts although Windows refused the request. *)
TurnOnUnchecked(m, ok) ==
  /\ seq + 1 < MaxSeq
  /\ held' = IF Holds(WantFlags, ok) THEN WantFlags ELSE held
  /\ Start(m)
  /\ UNCHANGED <<time, firing, keepDisplay>>

(* TurnOn: nothing changes when Windows refuses; otherwise a new period    *)
(* starts, whose timer replaces the old one's.                             *)
TurnOn(m, ok) ==
  /\ seq + 1 < MaxSeq
  /\ Holds(WantFlags, ok)
  /\ held' = WantFlags
  /\ Start(m)
  /\ UNCHANGED <<time, firing, keepDisplay>>

TurnOff(ok) == seq + 1 < MaxSeq /\ Off(ok) /\ UNCHANGED <<time, firing, keepDisplay>>

(* Shutdown is TurnOff as the service stops; the state is not persisted. *)
Shutdown(ok) == TurnOff(ok)

(* The runtime runs the timer's callback. *)
TimerFires ==
  /\ armed # 0
  /\ firing' = firing \cup {armed}
  /\ UNCHANGED <<time, on, until, seq, armed, held, keepDisplay, refused>>

(* Mutant: a timer of an earlier period is not told from the current one. *)
ExpireAnySeq(s, ok) ==
  /\ s \in firing
  /\ firing' = firing \ {s}
  /\ IF ~on
     THEN UNCHANGED <<on, until, seq, armed, held, refused>>
     ELSE IF until > clock
     THEN armed' = seq /\ UNCHANGED <<on, until, seq, held, refused>>
     ELSE Off(ok)
  /\ UNCHANGED <<time, keepDisplay>>

(* expire: a stale callback does nothing, an early one re-arms the timer   *)
(* for the rest, one in time ends the period.                              *)
Expire(s, ok) ==
  /\ s \in firing
  /\ firing' = firing \ {s}
  /\ IF ~on \/ seq # s
     THEN UNCHANGED <<on, until, seq, armed, held, refused>>
     ELSE IF until > clock
     THEN armed' = s /\ UNCHANGED <<on, until, seq, held, refused>>
     ELSE Off(ok)
  /\ UNCHANGED <<time, keepDisplay>>

(* Mutant: the periodic check only follows keep_display. *)
TickDisplayOnly(ok) ==
  /\ on
  /\ held' = IF Holds(WantFlags, ok) THEN WantFlags ELSE held
  /\ UNCHANGED <<time, on, until, seq, armed, firing, keepDisplay, refused>>

(* Tick, every AwakeCheckEvery: a period that is over ends, a running one  *)
(* follows keep_display.                                                   *)
Tick(ok) ==
  \/ /\ Due /\ Off(ok)
     /\ UNCHANGED <<time, firing, keepDisplay>>
  \/ /\ on /\ ~Due
     /\ held' = IF Holds(WantFlags, ok) THEN WantFlags ELSE held
     /\ UNCHANGED <<time, on, until, seq, armed, firing, keepDisplay, refused>>

(* View, read by every status request, ends a period that is over. *)
View(ok) == Due /\ Off(ok) /\ UNCHANGED <<time, firing, keepDisplay>>

SetKeepDisplay ==
  /\ keepDisplay' = ~keepDisplay
  /\ UNCHANGED <<time, on, until, seq, armed, firing, held, refused>>

(* The wall clock moves on, or is set back. *)
ClockStep ==
  /\ clock < MaxTime /\ clock' = clock + 1
  /\ UNCHANGED <<backs, on, until, seq, armed, firing, held, keepDisplay, refused>>
ClockBack ==
  /\ clock > 1 /\ clock' = clock - 1
  /\ backs < MaxBacks /\ backs' = backs + 1
  /\ UNCHANGED <<on, until, seq, armed, firing, held, keepDisplay, refused>>

AwakeNext ==
  \/ \E m \in Periods, ok \in BOOLEAN : clock + m <= MaxTime /\ TurnOn(m, ok)
  \/ \E ok \in BOOLEAN :
       TurnOff(ok) \/ Shutdown(ok) \/ Tick(ok) \/ View(ok) \/ \E s \in 1..MaxSeq : Expire(s, ok)
  \/ TimerFires \/ SetKeepDisplay \/ ClockStep \/ ClockBack

(* The service's ticker is the only thing that surely runs: no timer, no   *)
(* status request and no user is needed.  Time goes on.                    *)
AwakeFairness == WF_awakeVars(ClockStep) /\ WF_awakeVars(\E ok \in BOOLEAN : Tick(ok))

AwakeSpec == AwakeInit /\ [][AwakeNext]_awakeVars /\ AwakeFairness

----------------------------------------------------------------------------
(* Type invariant; an armed timer belongs to the current period. *)
AwakeTypeOK ==
  /\ clock \in Nat /\ backs \in Nat /\ until \in Nat /\ on \in BOOLEAN /\ seq \in 0..MaxSeq
  /\ armed \in {0, seq} /\ firing \subseteq 1..seq
  /\ held \in Flags /\ keepDisplay \in BOOLEAN /\ refused \in BOOLEAN

(* While the service says "on", Windows holds a request for it: a refused  *)
(* call never leaves the user with a PC that sleeps.                       *)
OnHoldsRequest == on => held # "none"

(* "The failure mode is may sleep": when the service says "off", a request *)
(* is left behind only by a clear that Windows refused.                    *)
OffReleases == ~on /\ held # "none" => refused

(* A period ends early only when someone turns it off or starts another:   *)
(* a callback left over from a replaced period, or one that the timer's    *)
(* clock brought early, never ends the current one.                        *)
EndsOnTime ==
  [][\A s \in 1..MaxSeq, ok \in BOOLEAN :
       Expire(s, ok) /\ on /\ ~on' => until # 0 /\ clock >= until]_awakeVars

(* A period with an end is over in the end (or replaced), even if its      *)
(* timer never fires: the PC does not stay awake for good.                 *)
PeriodEnds == \A s \in 1..MaxSeq :
  on /\ until # 0 /\ seq = s ~> ~(on /\ seq = s)
============================================================================
