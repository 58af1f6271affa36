---------------------------- MODULE RemoteGrace ----------------------------
(***************************************************************************)
(* Remote power commands that wait out the grace period: the dispatcher    *)
(* (service/dispatch.go), the schedule slot with its hooks                 *)
(* (service/schedule.go), the Telegram message that announces the deferral *)
(* and the one message remembered for it (service/tgcontrol/grace.go), and *)
(* the bot's cancel: / runnow: buttons (service/tgcontrol/control.go).     *)
(*                                                                         *)
(* Four kinds of goroutine interleave here: any caller that schedules or   *)
(* ends (HTTP handlers), the timer's fire, the notification worker that    *)
(* sends and then remembers, and the poller that handles a press.  The     *)
(* message that announces schedule s is identified by s.                   *)
(***************************************************************************)
EXTENDS Scheduler, Sequences, FiniteSets

CONSTANT MaxPresses   \* bound: presses made while another is on its way

ASSUME RemoteAssumption == "remote" \in Origins

VARIABLES
  owed,        \* remote schedules whose dispatcher has yet to announce them
  queue,       \* events on their way to the worker, in order
  worker,      \* the worker inside Sink.Send: [pc, msg, seq]
  store,       \* graceStore.cur: [msg, seq], Nothing when msgID is 0
  claims,      \* claims[m]: how often the store handed out message m
  edits,       \* messages with a background edit under way
  keyboard,    \* keyboard[m]: the buttons under message m as the user sees them
  presses,     \* button presses Telegram has not delivered yet
  poller       \* the poller inside handleCallback: [pc, msg, verb, got]

graceVars == <<owed, queue, worker, store, claims, edits, keyboard, presses, poller>>
gvars == <<schedVars, graceVars>>

NoMsg    == 0
Nothing  == [msg |-> NoMsg, seq |-> NoTask]
Idle     == [pc |-> "idle", msg |-> NoMsg, seq |-> NoTask]
NoPress  == [pc |-> "idle", msg |-> NoMsg, verb |-> "none", got |-> NoTask]
Verbs    == {"cancel", "runnow"}

GInit ==
  /\ Init
  /\ owed = {}
  /\ queue = <<>>
  /\ worker = Idle
  /\ store = Nothing
  /\ claims = [m \in Seqs |-> 0]
  /\ edits = {}
  /\ keyboard = [m \in Seqs |-> "none"]
  /\ presses = {}
  /\ poller = NoPress

----------------------------------------------------------------------------
(* FinishGraceMessage, called by the hooks when schedule q ends: a message *)
(* stored for q is taken out and edited in the background.                 *)
Finish(q) ==
  IF store.msg # NoMsg /\ store.seq = q
  THEN /\ store' = Nothing
       /\ claims' = [claims EXCEPT ![store.msg] = @ + 1]
       /\ edits' = edits \cup {store.msg}
  ELSE UNCHANGED <<store, claims, edits>>

(* setSchedule: Hooks.Replaced finishes the message of what it displaces. *)
Set(c, o) ==
  /\ Schedule(c, o)
  /\ Finish(slot)
  /\ UNCHANGED <<queue, worker, keyboard, presses, poller>>

(* dispatchCommand defers c; it announces the deferral only after          *)
(* setSchedule returned, outside every lock.                               *)
DispatchGrace(c) ==
  /\ Set(c, "remote")
  /\ owed' = owed \cup {seq'}

(* A schedule the app, the WebUI, SmartThings or the bot sets. *)
SetOther(c, o) == o # "remote" /\ Set(c, o) /\ UNCHANGED owed

(* dispatchCommand emits remote.grace_scheduled.  An event the bus drops   *)
(* is one SendNote loses.                                                  *)
EmitNote(s) ==
  /\ s \in owed
  /\ owed' = owed \ {s}
  /\ queue' = Append(queue, s)
  /\ UNCHANGED <<schedVars, worker, store, claims, edits, keyboard, presses, poller>>

(* End from any front end but a button: Hooks.Ended finishes the message. *)
EndOther(runNow) ==
  /\ End(runNow)
  /\ Finish(slot)
  /\ UNCHANGED <<owed, queue, worker, keyboard, presses, poller>>

(* Hooks.Fired, in the timer's goroutine, without the scheduler's lock. *)
AnnounceFired(s) ==
  /\ Announce(s)
  /\ Finish(s)
  /\ UNCHANGED <<owed, queue, worker, keyboard, presses, poller>>

OtherSchedulerStep(s) ==
  /\ Expire(s) \/ Run(s) \/ Clear(s) \/ HandRun(s)
  /\ UNCHANGED graceVars

----------------------------------------------------------------------------
(* Sink.Send on the bus worker: Telegram accepts the message, which shows  *)
(* its buttons from then on, or the event is given up.                     *)
SendNote ==
  /\ worker.pc = "idle" /\ queue # <<>>
  /\ LET m == Head(queue) IN
       /\ queue' = Tail(queue)
       /\ \/ /\ worker' = [pc |-> "sent", msg |-> m, seq |-> NoTask]
             /\ keyboard' = [keyboard EXCEPT ![m] = "shown"]
          \/ UNCHANGED <<worker, keyboard>>
  /\ UNCHANGED <<schedVars, owed, store, claims, edits, presses, poller>>

(* Mutant: any remote schedule will do, whatever its command. *)
RememberAny ==
  /\ worker.pc = "sent"
  /\ worker' = IF slot # NoTask THEN [worker EXCEPT !.pc = "looked", !.seq = slot] ELSE Idle
  /\ UNCHANGED <<schedVars, owed, queue, store, claims, edits, keyboard, presses, poller>>

(* RememberGraceMessage, first half: the event carries the command, not    *)
(* the schedule, so GraceSeq asks for the active remote schedule of it.    *)
RememberLookup ==
  /\ worker.pc = "sent"
  /\ LET q == ActiveSeq(task[worker.msg].command, "remote") IN
       worker' = IF q = NoTask THEN Idle ELSE [worker EXCEPT !.pc = "looked", !.seq = q]
  /\ UNCHANGED <<schedVars, owed, queue, store, claims, edits, keyboard, presses, poller>>

(* RememberGraceMessage, second half, under grace.mu only. *)
RememberStore ==
  /\ worker.pc = "looked"
  /\ store' = [msg |-> worker.msg, seq |-> worker.seq]
  /\ worker' = Idle
  /\ UNCHANGED <<schedVars, owed, queue, claims, edits, keyboard, presses, poller>>

(* editGraceMessage, best effort: the buttons go, or the edit fails. *)
EditDone(m) ==
  /\ m \in edits
  /\ edits' = edits \ {m}
  /\ \/ keyboard' = [keyboard EXCEPT ![m] = "gone"]
     \/ UNCHANGED keyboard
  /\ UNCHANGED <<schedVars, owed, queue, worker, store, claims, presses, poller>>

----------------------------------------------------------------------------
(* The user presses a button they see; the press waits for getUpdates. *)
Press(m, verb) ==
  /\ keyboard[m] = "shown"
  /\ Cardinality(presses) < MaxPresses
  /\ presses' = presses \cup {<<m, verb>>}
  /\ UNCHANGED <<schedVars, owed, queue, worker, store, claims, edits, keyboard, poller>>

(* Mutant: the claimed message stays in the store. *)
TakeGraceMessageKeeps(m, verb) ==
  /\ poller.pc = "idle" /\ <<m, verb>> \in presses
  /\ presses' = presses \ {<<m, verb>>}
  /\ poller' = [pc |-> "claimed", msg |-> m, verb |-> verb, got |-> NoTask]
  /\ claims' = IF store.msg = m THEN [claims EXCEPT ![m] = @ + 1] ELSE claims
  /\ UNCHANGED <<schedVars, owed, queue, worker, store, edits, keyboard>>

(* handleCallback, first: takeGraceMessage claims the message pressed on   *)
(* when it is the stored one.                                              *)
TakeGraceMessage(m, verb) ==
  /\ poller.pc = "idle" /\ <<m, verb>> \in presses
  /\ presses' = presses \ {<<m, verb>>}
  /\ poller' = [pc |-> "claimed", msg |-> m, verb |-> verb, got |-> NoTask]
  /\ IF store.msg = m
     THEN store' = Nothing /\ claims' = [claims EXCEPT ![m] = @ + 1]
     ELSE UNCHANGED <<store, claims>>
  /\ UNCHANGED <<schedVars, owed, queue, worker, edits, keyboard>>

(* handleCallback, then: Take / TakeForRun end whatever the slot holds.    *)
(* With nothing there the message is marked stale.                         *)
TakeSchedule ==
  /\ poller.pc = "claimed"
  /\ poller' = [poller EXCEPT !.pc = "taken", !.got = slot]
  /\ \/ slot = NoTask /\ UNCHANGED <<schedVars, store, claims, edits>>
     \/ End(poller.verb = "runnow") /\ Finish(slot)
  /\ UNCHANGED <<owed, queue, worker, keyboard, presses>>

(* The poller edits the message it was pressed on: no buttons any more,    *)
(* unless Telegram refuses.                                                *)
CallbackEdit ==
  /\ poller.pc = "taken"
  /\ poller' = NoPress
  /\ \/ keyboard' = [keyboard EXCEPT ![poller.msg] = "gone"]
     \/ UNCHANGED keyboard
  /\ UNCHANGED <<schedVars, owed, queue, worker, store, claims, edits, presses>>

----------------------------------------------------------------------------
GNext ==
  \/ \E c \in Commands : DispatchGrace(c)
  \/ \E c \in Commands, o \in Origins : SetOther(c, o)
  \/ \E runNow \in BOOLEAN : EndOther(runNow)
  \/ \E s \in Seqs : \/ EmitNote(s) \/ AnnounceFired(s) \/ OtherSchedulerStep(s)
                     \/ EditDone(s)
                     \/ \E verb \in Verbs : Press(s, verb) \/ TakeGraceMessage(s, verb)
  \/ SendNote \/ RememberLookup \/ RememberStore
  \/ TakeSchedule \/ CallbackEdit

GSpec == GInit /\ [][GNext]_gvars

----------------------------------------------------------------------------
(* Type invariant of the grace path. *)
GTypeOK ==
  /\ TypeOK
  /\ owed \subseteq Seqs
  /\ queue \in Seq(Seqs)
  /\ worker \in [pc : {"idle", "sent", "looked"}, msg : Seqs \cup {NoMsg}, seq : Seqs \cup {NoTask}]
  /\ worker.pc # "idle" => worker.msg \in Seqs
  /\ store \in [msg : Seqs, seq : Seqs] \cup {Nothing}
  /\ claims \in [Seqs -> Nat]
  /\ edits \subseteq Seqs
  /\ keyboard \in [Seqs -> {"none", "shown", "gone"}]
  /\ presses \subseteq Seqs \X Verbs
  /\ poller \in [pc : {"idle", "claimed", "taken"}, msg : Seqs \cup {NoMsg},
                 verb : Verbs \cup {"none"}, got : Seqs \cup {NoTask}]

(* A message leaves the store at most once ("forgotten, so the edit        *)
(* happens at most once", "FinishGraceMessage will not edit it a second    *)
(* time"): hooks and button presses never both stamp it for an outcome.    *)
StampedOnce == \A m \in Seqs : claims[m] <= 1

(* The remembered message announces a remote deferral of the command whose *)
(* end will stamp it: a result line never names a command the message does *)
(* not, and a schedule the user set in the app never stamps a message.     *)
StoredForSameCommand ==
  store # Nothing =>
    /\ task[store.seq].origin = "remote" /\ task[store.msg].origin = "remote"
    /\ task[store.seq].command = task[store.msg].command
============================================================================
