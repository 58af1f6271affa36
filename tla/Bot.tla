-------------------------------- MODULE Bot --------------------------------
(***************************************************************************)
(* The Telegram bot's command channel: the poller (telegram/poller.go),    *)
(* the lifecycle that makes it follow the config (tgcontrol/control.go,    *)
(* "lifecycle"), and what a message or a button does (handleCommand,       *)
(* handleCallback), across saves, sleep, a stop and a crash of the         *)
(* service, and a second PC that polls the same bot.                       *)
(*                                                                         *)
(* Telegram numbers updates in the order it gets them and keeps those      *)
(* after `forgot'; getUpdates(offset) forgets what is before offset.       *)
(* The back-off only delays the next request and is left out.              *)
(***************************************************************************)
EXTENDS Integers

CONSTANTS
  Keys,        \* the settings (token, chat, language) control can run with
  Verbs,       \* what the users of the bot send, see Kinds
  MaxUpdates,  \* bound: updates sent
  MaxSaves,    \* bound: settings saved
  MaxStops,    \* bound: times the service stops or crashes
  Faults       \* bound: requests that fail

Off  == "off"    \* control is not enabled
None == 0

(* The slash commands, and the buttons of the messages. *)
Messages == {"/ask", "/shutdown n", "/cancel", "/now", "/lock"}
Buttons  == {"exec", "cancel", "runnow", "dismiss"}

ASSUME BotAssumption ==
  /\ Keys # {} /\ Off \notin Keys /\ Verbs \subseteq Messages \cup Buttons
  /\ MaxUpdates \in Nat /\ MaxSaves \in Nat /\ MaxStops \in Nat /\ Faults \in Nat

FirstKey == CHOOSE k \in Keys : TRUE   \* no key differs from another
Ids     == 1..MaxUpdates
Pollers == {1, 2}   \* bound: one abandoned poller at a time

VARIABLES
  \* Telegram
  sent, forgot,  \* the last update sent, the last one forgotten
  verb,          \* verb[u]: what update u says
  other,         \* another PC polls this bot
  \* the PC
  up,            \* the service runs
  live,          \* controlKey of the live config: a key, or Off
  owing,         \* saves (and Start) between setConfig and Reconcile
  managed, key, cur,  \* runner: cur is its poller
  lock, want,    \* runner.mu is held by a Reconcile for want, or by Stop
  poller,        \* poller[i]: [st, offset, next, conflict, cancelled]
  warn,          \* conflict.active
  saves, stops, left,
  \* history
  handled,       \* handled[u]: "no", "answered", "acted" when it changed something,
                 \* "again" when it was handled twice
  down, late     \* sent while the service was down, and over MaxAge old

tgVars   == <<sent, forgot, verb, other>>
ctlVars  == <<live, owing, managed, key, cur, lock, want>>
histVars == <<handled, down, late>>
vars == <<tgVars, up, ctlVars, poller, warn, saves, stops, left, histVars>>

NoPoller == [st |-> "none", offset |-> 0, next |-> 0, conflict |-> FALSE, cancelled |-> FALSE]

Init ==
  /\ sent = 0 /\ forgot = 0 /\ other = FALSE
  /\ verb = [u \in Ids |-> "none"]
  /\ up = FALSE
  /\ live \in {Off, FirstKey}
  /\ owing = 0 /\ managed = FALSE /\ key = Off /\ cur = None
  /\ lock = "free" /\ want = Off
  /\ poller = [i \in Pollers |-> NoPoller]
  /\ warn = FALSE
  /\ saves = MaxSaves /\ stops = MaxStops /\ left = Faults
  /\ handled = [u \in Ids |-> "no"]
  /\ down = {} /\ late = {}

----------------------------------------------------------------------------
(* A user writes to the bot or presses a button. *)
Send(v) ==
  /\ sent < MaxUpdates /\ sent' = sent + 1
  /\ verb' = [verb EXCEPT ![sent + 1] = v]
  /\ down' = IF up THEN down ELSE down \cup {sent + 1}
  /\ UNCHANGED <<forgot, other, up, ctlVars, poller, warn, saves, stops, left,
                 handled, late>>

(* The other PC starts or stops polling, and takes what is there. *)
OtherPolls ==
  /\ other' = ~other
  /\ forgot' = IF other THEN forgot ELSE sent
  /\ UNCHANGED <<sent, verb, up, ctlVars, poller, warn, saves, stops, left, histVars>>

(* The PC wakes from a long sleep: what was sent before is older than      *)
(* MaxAge, the rest of a batch too.                                        *)
Wake ==
  /\ up
  /\ late' = late \cup {u \in 1..sent : handled[u] = "no"}
  /\ late' # late
  /\ UNCHANGED <<tgVars, up, ctlVars, poller, warn, saves, stops, left, handled, down>>

----------------------------------------------------------------------------
(* startLocked: a poller that has yet to discard what was queued before.   *)
StartUndrained(i) == [NoPoller EXCEPT !.st = "poll"]
Started(i) == [NoPoller EXCEPT !.st = "drain"]

Free(i) == poller[i].st = "none"

(* stopLocked, or nothing to stop, is behind; k is what shall run now.     *)
Restart(k, old) ==
  /\ key' = k
  /\ lock' = "free" /\ want' = Off
  /\ warn' = FALSE
  /\ IF k = Off
     THEN cur' = None /\ poller' = old
     ELSE /\ \E i \in Pollers : Free(i)
          /\ cur' = CHOOSE i \in Pollers : Free(i)
          /\ poller' = [old EXCEPT ![cur'] = Started(cur')]

(* saveConfig makes the settings live; its Reconcile follows (one that     *)
(* leaves the key as it is changes nothing).                               *)
Save(k) ==
  /\ up /\ k # live
  /\ saves > 0 /\ saves' = saves - 1
  /\ live' = k
  /\ owing' = owing + 1
  /\ UNCHANGED <<tgVars, up, managed, key, cur, lock, want, poller, warn, stops, left, histVars>>

(* Reconcile: nothing to do, start at once, or cancel the poller and wait  *)
(* for it with the lock held.                                              *)
ReconcileTryLock ==
  /\ up /\ owing > 0
  /\ owing' = owing - 1
  /\ IF lock # "free" \/ ~managed \/ live = key
     THEN UNCHANGED <<key, cur, lock, want, poller, warn>>
     ELSE IF cur = None
     THEN Restart(live, poller)
     ELSE /\ poller' = [poller EXCEPT ![cur].cancelled = TRUE]
          /\ lock' = "reconcile" /\ want' = live
          /\ UNCHANGED <<key, cur, warn>>
  /\ UNCHANGED <<tgVars, up, live, managed, saves, stops, left, histVars>>

Reconcile ==
  /\ up /\ lock = "free" /\ owing > 0
  /\ owing' = owing - 1
  /\ IF ~managed \/ live = key
     THEN UNCHANGED <<key, cur, lock, want, poller, warn>>
     ELSE IF cur = None
     THEN Restart(live, poller)
     ELSE /\ poller' = [poller EXCEPT ![cur].cancelled = TRUE]
          /\ lock' = "reconcile" /\ want' = live
          /\ UNCHANGED <<key, cur, warn>>
  /\ UNCHANGED <<tgVars, up, live, managed, saves, stops, left, histVars>>

Busy(i) == poller[i].next < poller[i].offset

(* The poller is done, or 5 s are over and a handler still runs.           *)
Waited == IF cur = None THEN TRUE ELSE Free(cur) \/ Busy(cur)

Reconciled ==
  /\ up /\ lock = "reconcile"
  /\ Waited
  /\ Restart(want, poller)
  /\ UNCHANGED <<tgVars, up, live, owing, managed, saves, stops, left, histVars>>

(* Execute: Start enables the lifecycle, then reconciles.                  *)
ServiceStart ==
  /\ ~up
  /\ up' = TRUE
  /\ managed' = TRUE
  /\ owing' = 1
  /\ UNCHANGED <<tgVars, live, key, cur, lock, want, poller, warn, saves, stops, left, histVars>>

(* Execute's way out: Stop.                                                *)
ServiceStop ==
  /\ up /\ lock = "free"
  /\ stops > 0 /\ stops' = stops - 1
  /\ managed' = FALSE
  /\ lock' = "stop"
  /\ poller' = IF cur = None THEN poller ELSE [poller EXCEPT ![cur].cancelled = TRUE]
  /\ UNCHANGED <<tgVars, up, live, owing, key, cur, want, warn, saves, left, histVars>>

(* The process ends, and with it everything but config.json.               *)
Gone ==
  /\ up' = FALSE
  /\ managed' = FALSE /\ key' = Off /\ cur' = None
  /\ lock' = "free" /\ want' = Off /\ owing' = 0
  /\ poller' = [i \in Pollers |-> NoPoller]
  /\ warn' = FALSE

ServiceStopped ==
  /\ up /\ lock = "stop"
  /\ Waited
  /\ Gone
  /\ UNCHANGED <<tgVars, live, saves, stops, left, histVars>>

ServiceCrash ==
  /\ up
  /\ stops > 0 /\ stops' = stops - 1
  /\ Gone
  /\ UNCHANGED <<tgVars, live, saves, left, histVars>>

----------------------------------------------------------------------------
(* The poller's goroutine. *)
Asks(i, st) == up /\ poller[i].st = st /\ ~poller[i].cancelled /\ ~Busy(i)

pollSame == <<sent, verb, other, up, ctlVars, saves, stops, histVars>>

Later(a, b) == IF a > b THEN a ELSE b

(* An answer ends a conflict. *)
Cleared(i) == warn' = (warn /\ ~poller[i].conflict)

(* The first getUpdates(-1) makes Telegram forget all but the newest       *)
(* update, which is discarded.                                             *)
Drain(i) ==
  /\ Asks(i, "drain")
  /\ forgot' = Later(forgot, sent - 1)
  /\ LET offset == IF sent > forgot THEN sent + 1 ELSE 0
     IN  poller' = [poller EXCEPT ![i] = [NoPoller EXCEPT !.st = "poll", !.offset = offset, !.next = offset]]
  /\ Cleared(i)
  /\ UNCHANGED <<left, pollSame>>

(* The long poll: what is before the offset is forgotten, the rest is the  *)
(* batch, and the offset is beyond it before any of it is handled.         *)
Fetch(i) ==
  /\ Asks(i, "poll")
  /\ forgot' = Later(forgot, poller[i].offset - 1)
  /\ poller' = [poller EXCEPT ![i] =
       IF sent > forgot' THEN [NoPoller EXCEPT !.st = "poll", !.offset = sent + 1, !.next = forgot' + 1]
                         ELSE [@ EXCEPT !.conflict = FALSE]]
  /\ Cleared(i)
  /\ UNCHANGED <<left, pollSame>>

(* The request or its answer is lost, or Telegram asks to wait.            *)
Fails(i) ==
  /\ Asks(i, "drain") \/ Asks(i, "poll")
  /\ left > 0 /\ left' = left - 1
  /\ \/ UNCHANGED forgot
     \/ forgot' = Later(forgot, IF poller[i].st = "drain" THEN sent - 1 ELSE poller[i].offset - 1)
  /\ UNCHANGED <<poller, warn, pollSame>>

(* A 409: the other PC has the channel. *)
ConflictReturns(i) ==
  /\ Asks(i, "drain") \/ Asks(i, "poll")
  /\ other
  /\ poller' = [poller EXCEPT ![i] = NoPoller]
  /\ UNCHANGED <<forgot, left, warn, pollSame>>

Conflict(i) ==
  /\ Asks(i, "drain") \/ Asks(i, "poll")
  /\ other
  /\ poller' = [poller EXCEPT ![i].conflict = TRUE]
  /\ warn' = TRUE
  /\ UNCHANGED <<forgot, left, pollSame>>

(* Run returns once its context is done, and takes its conflict along.     *)
Exit(i) ==
  /\ up
  /\ poller[i].cancelled /\ ~Free(i) /\ ~Busy(i)
  /\ poller' = [poller EXCEPT ![i] = NoPoller]
  /\ Cleared(i)
  /\ UNCHANGED <<forgot, left, pollSame>>

(* handle: the next update of the batch, also when the context is done by  *)
(* now.  A message over MaxAge becomes StaleCommand, which only answers; a *)
(* button has no date.  Nothing but an answer: a chat that is not in the   *)
(* live allow-list, a query, a verb that finds no schedule to end.         *)
Stale(u) == verb[u] \in Messages /\ u \in late

Queries == {"/ask", "dismiss"}

Handled(u, how) ==
  handled' = [handled EXCEPT ![u] = IF @ = "no" THEN how ELSE "again"]

Acts(u) == verb[u] \notin Queries /\ ~Stale(u) /\ Handled(u, "acted")

Handle(i) ==
  /\ up /\ Busy(i)
  /\ Handled(poller[i].next, "answered") \/ Acts(poller[i].next)
  /\ poller' = [poller EXCEPT ![i].next = @ + 1]
  /\ UNCHANGED <<tgVars, up, ctlVars, warn, saves, stops, left, down, late>>

----------------------------------------------------------------------------
PollerStep(i) == Drain(i) \/ Fetch(i) \/ Handle(i) \/ Exit(i)

ControlStep == Reconcile \/ Reconciled \/ ServiceStopped

Next ==
  \/ \E v \in Verbs : Send(v)
  \/ OtherPolls \/ Wake
  \/ \E k \in Keys \cup {Off} : Save(k)
  \/ ControlStep \/ ServiceStart \/ ServiceStop \/ ServiceCrash
  \/ \E i \in Pollers : PollerStep(i) \/ Fails(i) \/ Conflict(i)

(* The goroutines run: a poll is answered or fails, and Run asks again;    *)
(* a handler ends; a Reconcile takes its lock.                             *)
Fairness ==
  /\ \A i \in Pollers : WF_vars(PollerStep(i))
  /\ WF_vars(ControlStep)

Spec == Init /\ [][Next]_vars /\ Fairness

----------------------------------------------------------------------------
TypeOK ==
  /\ sent \in 0..MaxUpdates /\ forgot \in 0..MaxUpdates
  /\ live \in Keys \cup {Off} /\ key \in Keys \cup {Off} /\ want \in Keys \cup {Off}
  /\ cur \in Pollers \cup {None}
  /\ lock \in {"free", "reconcile", "stop"}
  /\ poller \in [Pollers -> [st : {"none", "drain", "poll"}, offset : 0..MaxUpdates + 1,
                             next : 0..MaxUpdates + 1, conflict : BOOLEAN, cancelled : BOOLEAN]]
  /\ handled \in [Ids -> {"no", "answered", "acted", "again"}]
  /\ down \subseteq Ids /\ late \subseteq Ids

(* No update is handled twice, whichever poller was cancelled, abandoned   *)
(* or killed in the middle of a batch (Run, startLocked, stopLocked).      *)
HandledOnce == \A u \in Ids : handled[u] # "again"

(* "Commands typed while the service was down are never executed"          *)
(* (telegram/poller.go:98), and no message that grew old while the PC was  *)
(* asleep.                                                                 *)
InTime == \A u \in Ids : handled[u] = "acted" => u \notin down /\ ~Stale(u)

ActsOnceInTime == HandledOnce /\ InTime

(* Reconcile "(re)starts or stops the poller so it matches the live        *)
(* config": once every save has had its Reconcile, whatever their order.   *)
FollowsConfig ==
  managed /\ lock = "free" /\ owing = 0 => key = live /\ (key = Off <=> cur = None)

(* Only the runner's poller asks Telegram. *)
OnePolls == \A i \in Pollers : ~Free(i) /\ ~poller[i].cancelled => i = cur

(* The warning does not outlive the poller that raised it. *)
WarningIsCurrent == warn => cur # None /\ poller[cur].conflict

ControlMatches == FollowsConfig /\ OnePolls /\ WarningIsCurrent

(* While control is on and the channel is this PC's, everything sent is    *)
(* taken in the end (Run's loop: back-off, 409, restarts of the poller).   *)
Serves == up /\ lock # "stop" /\ live # Off /\ ~other

Taken == \A u \in Ids : []<>(sent < u \/ u <= forgot \/ handled[u] # "no" \/ ~Serves)
=============================================================================
