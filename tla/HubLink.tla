------------------------------- MODULE HubLink -------------------------------
(***************************************************************************)
(* One PC and the edge driver on the hub: edge/src/poll.lua, push.lua,     *)
(* wol.lua, client.lua and handlers/power.lua around the state of          *)
(* HubPower.                                                               *)
(*                                                                         *)
(* The driver learns of the PC by polling it and by the pushes of its      *)
(* service.  A poll reads the state, waits for the answer and then writes  *)
(* the state; pushes, commands and other polls run while it waits.  The PC *)
(* sleeps, loses power, stops and starts its service, with a last push or  *)
(* without.  Which callbacks may overlap is up to the hub's scheduler: the *)
(* timers' and the commands' run in a task each, the listener in its own.  *)
(***************************************************************************)
EXTENDS HubPower

CONSTANT Budget   \* bound: events of the PC, the network, the hub and its user

ASSUME HubLinkAssumption == Budget \in Nat

VARIABLES
  st,         \* the device's state (fields.STATE)
  stored,     \* APP_STOP_AT, which survives a restart of the driver
  stops, over,\* app_stop pushes so far; those whose window has run out
  task,       \* what each task of the driver waits for
  wakeTimer,  \* WAKE_TIMER is armed
  sub,        \* PUSH_SUB: "none", "fresh", or "due" for its renewal
  renewTimer, \* PUSH_RENEW_TIMER: "none", "renew", or "soon"
  pc, going,  \* the PC: "up", "gone" (its service is), "asleep", "off"; next
  svcSub,     \* the service's subscription: "none", "current", or "old" port
  wire,       \* the push each goroutine of the service has under way
  left,       \* what remains of the budget
  told, alone \* history: what the PC announced last; no poll was under way

driver == <<st, stored, stops>>
subbed == <<sub, renewTimer>>
service == <<pc, going, svcSub, wire>>
history == <<told, alone>>
vars == <<driver, over, task, wakeTimer, subbed, service, left, history>>

Tasks == {"timer", "command"}
Channels == {"queue", "inline"}
Idle == [at |-> "idle", cur |-> New, res |-> "none", look |-> FALSE]

Init ==
  /\ st = New /\ stored = 0 /\ stops = 0 /\ over = 0
  /\ task = [t \in Tasks |-> Idle] /\ wakeTimer = FALSE
  /\ sub = "none" /\ renewTimer = "none"
  /\ pc = "up" /\ going = "none" /\ svcSub = "none" /\ wire = [c \in Channels |-> "none"]
  /\ left = Budget /\ told = "none" /\ alone = TRUE

Spends == left > 0 /\ left' = left - 1
SetState(s) == st' = s /\ stored' = s.stoppedAt
Silence == UNCHANGED history
Heard == told' = "none" /\ alone' = TRUE

----------------------------------------------------------------------------
(* A poll begins, by timer or for a command: poll.once up to its request. *)
Asks(t, look) ==
  /\ task[t].at = "idle"
  /\ task' = [task EXCEPT ![t] =
       [at |-> "get", cur |-> st, res |-> "none", look |-> look]]

PollStart(t) ==
  /\ Asks(t, FALSE)
  /\ IF t = "command" THEN Spends ELSE UNCHANGED left
  /\ UNCHANGED <<driver, over, wakeTimer, subbed, service, history>>

(* The timer armed by a wake: one last poll. *)
WakeTimerFires ==
  /\ wakeTimer /\ wakeTimer' = FALSE
  /\ Asks("timer", TRUE)
  /\ UNCHANGED <<driver, over, subbed, service, left, history>>

(* The service answers: the status, an error, or that it was asked too     *)
(* often.                                                                  *)
PcAnswers(t) ==
  /\ task[t].at = "get" /\ task[t].res = "none" /\ pc = "up"
  /\ \/ task' = [task EXCEPT ![t].res = "ok"] /\ UNCHANGED left
     \/ \E r \in {"error", "limited"} : task' = [task EXCEPT ![t].res = r] /\ Spends
  /\ UNCHANGED <<driver, over, wakeTimer, subbed, service, history>>

(* The callback is over; that of the wake timer gives up a wake still      *)
(* under way.                                                              *)
Ends(t, s) ==
  /\ task' = [task EXCEPT ![t] = Idle]
  /\ SetState(IF task[t].look THEN WakeTimeout(s) ELSE s)

(* Mutant: a subscription counts as live for ever. *)
LiveForEver(s) == s # "none"

(* subscription_live. *)
Live(s) == s = "fresh"

(* The PC's status came: on whatever was believed when it was asked for;   *)
(* push.ensure subscribes when there is no live subscription.              *)
PollOk(t) ==
  /\ task[t].at = "get" /\ task[t].res \in {"ok", "late"}
  /\ IF Live(sub) THEN Ends(t, StatusOk(task[t].cur))
     ELSE task' = [task EXCEPT ![t].at = "subscribe"] /\ SetState(StatusOk(task[t].cur))
  /\ wakeTimer' = FALSE /\ Heard
  /\ UNCHANGED <<stops, over, subbed, service, left>>

(* The window of an app_stop push is over: failures count again. *)
WindowChecked(s) == IF Holding(s, over) THEN s ELSE [s EXCEPT !.stoppedAt = 0]

(* 401, 404: the app answered. *)
PollError(t) ==
  /\ task[t].at = "get" /\ task[t].res = "error"
  /\ LET cur == task[t].cur
     IN Ends(t, WindowChecked(IF cur.appDown THEN AppAnswered(cur) ELSE cur))
  /\ Heard
  /\ UNCHANGED <<stops, over, wakeTimer, subbed, service, left>>

(* 429: nothing is changed. *)
PollLimited(t) ==
  /\ task[t].at = "get" /\ task[t].res = "limited"
  /\ Ends(t, st)
  /\ Silence
  /\ UNCHANGED <<stops, over, wakeTimer, subbed, service, left>>

(* transport_kind, with what the state says now. *)
Kind(text) ==
  IF text = "refused" \/ Holding(st, over) \/ (st.appStopped /\ text = "closed")
  THEN "app_down" ELSE "unreachable"

(* The request fails, and what follows from it is computed; discovery      *)
(* looks for the PC before it is written.  Only a machine that is up       *)
(* refuses or closes the connection.                                       *)
PollFails(t) ==
  /\ task[t].at = "get" /\ task[t].res \in {"none", "lost"}
  /\ IF pc = "up" /\ task[t].res = "none" THEN Spends ELSE UNCHANGED left
  /\ \E text \in CASE pc = "gone" -> {"timeout", "closed", "refused"}
                   [] pc = "up" -> {"timeout", "closed"}
                   [] OTHER -> {"timeout"} :
       /\ task' = [task EXCEPT ![t].at = "search",
            ![t].cur = IF Kind(text) = "app_down" THEN AppDown(@) ELSE Unreachable(@)]
       /\ wakeTimer' = (wakeTimer /\ Kind(text) # "app_down")
       /\ IF text = "refused" /\ told = "sleep" THEN Heard ELSE Silence
  /\ UNCHANGED <<driver, over, subbed, service>>

(* discovery.refresh: the PC has another address and answers there.  The   *)
(* poll inside the poll is one step here.                                  *)
SearchFinds(t) ==
  /\ task[t].at = "search" /\ task[t].res # "ok" /\ pc = "up" /\ Spends
  /\ task' = [task EXCEPT ![t].res = "ok"]
  /\ SetState(StatusOk(st)) /\ wakeTimer' = FALSE /\ Heard
  /\ IF Live(sub) THEN UNCHANGED <<subbed, svcSub>>
     ELSE svcSub' = "current" /\ sub' = "fresh" /\ renewTimer' = "renew"
  /\ UNCHANGED <<stops, over, pc, going, wire>>

(* The failed poll is written, whatever came since. *)
PollWritten(t) ==
  /\ task[t].at = "search"
  /\ Ends(t, WindowChecked(task[t].cur))
  /\ Silence
  /\ UNCHANGED <<stops, over, wakeTimer, subbed, service, left>>

(* push.ensure got its answer, or none. *)
SubscribeEnds(t) ==
  /\ task[t].at = "subscribe"
  /\ \/ /\ pc = "up" /\ svcSub' = "current" /\ sub' = "fresh" /\ renewTimer' = "renew"
        /\ UNCHANGED left
     \/ /\ IF pc = "up" THEN Spends ELSE UNCHANGED left
        /\ svcSub' \in {svcSub} \cup (IF pc = "up" THEN {"current"} ELSE {})
        /\ sub' = "none" /\ renewTimer' = "none"
  /\ Ends(t, st)
  /\ Silence
  /\ UNCHANGED <<stops, over, wakeTimer, pc, going, wire>>

(* 80% of the TTL have passed. *)
RenewalDue ==
  /\ sub = "fresh" /\ sub' = "due"
  /\ UNCHANGED <<driver, over, task, wakeTimer, renewTimer, service, left, history>>

(* arm_ensure's timer. *)
RenewFires ==
  /\ task["timer"].at = "idle"
  /\ renewTimer = "soon" \/ (renewTimer = "renew" /\ sub # "fresh")
  /\ renewTimer' = "none"
  /\ task' = IF Live(sub) THEN task ELSE [task EXCEPT !["timer"] = [Idle EXCEPT !.at = "subscribe"]]
  /\ UNCHANGED <<driver, over, wakeTimer, sub, service, left, history>>

----------------------------------------------------------------------------
(* switch.on: wol.wake arms its timeout anew, unless it has no MAC to wake *)
(* the PC on.                                                              *)
SwitchOnPressed ==
  /\ Spends
  /\ SetState(SwitchOn(st))
  /\ wakeTimer' \in {TRUE, wakeTimer} /\ Heard
  /\ UNCHANGED <<stops, over, task, subbed, service>>

(* push.apply and apply_to_device: the event moves the state of now. *)
Applied(m) ==
  CASE m = "ok" -> SetState(StatusOk(st)) /\ UNCHANGED stops
    [] m = "cancelled" -> SetState(ScheduleCancelled(st)) /\ UNCHANGED stops
    [] m = "app_stop" -> SetState(AppStop(st, stops + 1)) /\ stops' = stops + 1
    [] m \in Reasons -> SetState(Stopping(st, m)) /\ UNCHANGED stops

Announced(m) ==
  /\ told' = CASE m = "suspend" -> "sleep"
               [] m = "app_stop" /\ stored' # 0 -> "app"
               [] OTHER -> "none"
  /\ alone' = (told' = "none" \/ \A t \in Tasks : task[t].at \notin {"get", "search"})

Deliver(c) ==
  /\ wire[c] # "none" /\ wire' = [wire EXCEPT ![c] = "none"]
  /\ Applied(wire[c]) /\ Announced(wire[c])
  /\ wakeTimer' = (wakeTimer /\ wire[c] \notin {"ok", "app_stop"})
  /\ renewTimer' = IF wire[c] = "ok" /\ ~Live(sub) THEN "soon" ELSE renewTimer
  /\ UNCHANGED <<over, task, sub, pc, going, svcSub, left>>

(* The service gives up, or the hub never reads it. *)
Lose(c) ==
  /\ wire[c] # "none" /\ wire' = [wire EXCEPT ![c] = "none"]
  /\ UNCHANGED <<driver, over, task, wakeTimer, subbed, pc, going, svcSub, left, history>>

(* APP_STOP_HOLD has passed since the last app_stop push. *)
HoldOver ==
  /\ over < stops /\ over' = stops
  /\ IF told = "app" THEN Heard ELSE Silence
  /\ UNCHANGED <<driver, task, wakeTimer, subbed, service, left>>

(* Mutant: the restart forgets the outage. *)
RestoredNothing == New

(* restore_app_stop: an outage within its window is taken up again. *)
Restored ==
  IF stored > over THEN AppStop(New, stored) ELSE New

(* The driver or the hub restarts, with time to unsubscribe or without: a  *)
(* new listener, none of the timers.                                       *)
DriverRestart ==
  /\ Spends
  /\ SetState(Restored)
  /\ task' = [t \in Tasks |-> Idle] /\ wakeTimer' = FALSE
  /\ sub' = "none" /\ renewTimer' = "none"
  /\ svcSub' \in IF svcSub = "current" THEN {"old", "none"} ELSE {svcSub}
  /\ wire' = [c \in Channels |-> "none"]
  /\ IF told = "sleep" THEN Heard ELSE Silence
  /\ UNCHANGED <<stops, over, pc, going>>

----------------------------------------------------------------------------
(* An event of the running service, pushed by its worker. *)
PcEvent(m) ==
  /\ pc = "up" /\ Spends
  /\ svcSub = "current" /\ wire["queue"] = "none"
  /\ wire' = [wire EXCEPT !["queue"] = m]
  /\ UNCHANGED <<driver, over, task, wakeTimer, subbed, pc, going, svcSub, history>>

(* announceStop and powerTracker.handle: power.stopping, and then it goes. *)
PcAnnounces(m) ==
  /\ pc = "up" /\ going = "none" /\ Spends
  /\ going' = CASE m = "suspend" -> "asleep" [] m = "shutdown" -> "off" [] OTHER -> "gone"
  /\ wire' = IF svcSub = "current" THEN [wire EXCEPT !["inline"] = m] ELSE wire
  /\ UNCHANGED <<driver, over, task, wakeTimer, subbed, pc, svcSub, history>>

(* The subscriptions are in the memory of the service; an answer already   *)
(* on its way still arrives, a request it has not answered is lost with    *)
(* the process, though not by sleep.                                       *)
Leaves(to) ==
  /\ pc' = to /\ going' = "none"
  /\ svcSub' = IF to = "asleep" THEN svcSub ELSE "none"
  /\ task' = [t \in Tasks |->
       CASE task[t].at = "get" /\ task[t].res = "ok" -> [task[t] EXCEPT !.res = "late"]
         [] task[t].at = "get" /\ task[t].res = "none" /\ to # "asleep" ->
              [task[t] EXCEPT !.res = "lost"]
         [] OTHER -> task[t]]
  /\ UNCHANGED <<driver, over, wakeTimer, subbed, wire, history>>

PcGoes == going # "none" /\ Leaves(going) /\ UNCHANGED left
PowerCut == pc # "off" /\ Spends /\ Leaves("off")

(* The TTL runs out: a renewal would have come in time, but for a driver   *)
(* that restarted or failed to subscribe, or a PC that slept.              *)
SubscriptionLapses ==
  /\ svcSub = "old" \/ (svcSub = "current" /\ (sub = "none" \/ (sub = "due" /\ pc = "asleep")))
  /\ svcSub' = "none"
  /\ UNCHANGED <<driver, over, task, wakeTimer, subbed, pc, going, wire, left, history>>

(* powerTracker.handle on resume, or the service starts. *)
PcReturns ==
  /\ pc # "up" /\ pc' = "up" /\ Spends
  /\ wire' = IF pc = "asleep" /\ svcSub = "current" /\ wire["queue"] = "none"
             THEN [wire EXCEPT !["queue"] = "ok"] ELSE wire
  /\ UNCHANGED <<driver, over, task, wakeTimer, subbed, going, svcSub, history>>

----------------------------------------------------------------------------
PollEnds(t) ==
  \/ PollOk(t) \/ PollError(t) \/ PollLimited(t) \/ PollFails(t) \/ SearchFinds(t)
  \/ PollWritten(t) \/ SubscribeEnds(t)

Next ==
  \/ \E t \in Tasks : PollStart(t) \/ PcAnswers(t) \/ PollEnds(t)
  \/ WakeTimerFires \/ RenewFires
  \/ \E c \in Channels : Deliver(c) \/ Lose(c)
  \/ RenewalDue \/ HoldOver \/ SwitchOnPressed \/ DriverRestart
  \/ \E m \in {"ok", "cancelled"} : PcEvent(m)
  \/ \E m \in Reasons \cup {"app_stop"} : PcAnnounces(m)
  \/ PcGoes \/ PowerCut \/ PcReturns \/ SubscriptionLapses

(* Requests time out, the poll's timer keeps firing, whatever else its     *)
(* task does, and the clock goes on.                                       *)
Fairness ==
  /\ SF_vars(PollStart("timer"))
  /\ \A t \in Tasks : WF_vars(PcAnswers(t)) /\ WF_vars(PollEnds(t))
  /\ \A c \in Channels : WF_vars(Deliver(c) \/ Lose(c))
  /\ WF_vars(HoldOver) /\ WF_vars(RenewalDue) /\ WF_vars(PcGoes)

Spec == Init /\ [][Next]_vars /\ Fairness

----------------------------------------------------------------------------
TaskState ==
  [at : {"idle", "get", "search", "subscribe"}, cur : DeviceState,
   res : {"none", "ok", "late", "error", "limited", "lost"}, look : BOOLEAN]

(* Type invariant; a wake never falls back to waking, and the stored time  *)
(* is that of the state, so that a restart takes up the outage there is.   *)
TypeOK ==
  /\ st \in DeviceState /\ stored = st.stoppedAt
  /\ stops \in Nat /\ over \in 0..stops /\ st.stoppedAt <= stops
  /\ task \in [Tasks -> TaskState] /\ wakeTimer \in BOOLEAN
  /\ sub \in {"none", "fresh", "due"} /\ renewTimer \in {"none", "renew", "soon"}
  /\ pc \in {"up", "gone", "asleep", "off"} /\ going \in {"none", "gone", "asleep", "off"}
  /\ svcSub \in {"none", "current", "old"}
  /\ wire \in [Channels -> {"none", "ok", "cancelled", "app_stop"} \cup Reasons]
  /\ left \in 0..Budget /\ told \in {"none", "sleep", "app"} /\ alone \in BOOLEAN

(* What the PC announced stays on show until something else is heard of    *)
(* it, however many polls fail and, within its window, across a restart of *)
(* the driver: a sleeping PC is sleeping, one without its app is on.  This *)
(* holds when no poll was under way as the announcement came.              *)
Shown(announced) == IF announced = "sleep" THEN st.power = "sleeping" ELSE st.power = "on"
ShownAsAnnounced == told # "none" /\ alone => Shown(told)

(* power.lua: "a PC that said it was suspending is not reported as off     *)
(* once it stops answering", and the same for app_stop within its window.  *)
NotOffAsAnnounced == told # "none" => st.power # "off"

(* A PC that went and stays away is shown so in the end, whatever it said, *)
(* or being woken, though an app_stop window or a shutdown announced for   *)
(* long held it on.                                                        *)
GoneIsSeen == <>[](pc = "off") => <>[](st.power \in {"off", "sleeping", "waking"})

(* A PC that stays up is shown on, its app answering, whatever was lost,   *)
(* overtaken or written late.                                              *)
AliveIsSeen == <>[](pc = "up") => <>[](st.power = "on" /\ ~st.appDown)

(* Pushes return: a service that stays up has the subscription of the      *)
(* driver's present listener in the end, after restarts of either side.    *)
PushesReturn == <>[](pc = "up") => <>[](svcSub = "current")
=============================================================================
