----------------------------- MODULE StopReason -----------------------------
(***************************************************************************)
(* What a command does on the PC, and the reason the service gives for a   *)
(* stop, a shutdown or a sleep: service/dispatch.go, commands.go,          *)
(* server.go, power_api.go, power/hint.go, shutdown_reason.go and the      *)
(* power broadcasts of system_events.go.  Pure functions: RemoteGrace has  *)
(* the schedule a deferral makes and Update the stop itself.               *)
(*                                                                         *)
(* An insertion string of an event is the set of the shutdown types it     *)
(* contains, in lower case; the Korean ones are spelled in Latin letters.  *)
(* Times are seconds.                                                      *)
(***************************************************************************)
EXTENDS Integers, Sequences

HintTTL == 120          \* hintTTL
ShutdownWindow == 120   \* localShutdownWindow

CommandNames ==
  {"ping", "shutdown", "forceshutdown", "restart", "hibernate", "suspend", "lock",
   "turnscreenoff", "turnscreenon"}

----------------------------------------------------------------------------
(* The last power command and when it ran, "none" at the start.            *)
PowerCommands == {"shutdown", "forceshutdown", "restart", "suspend", "hibernate"}
Hints == [command : PowerCommands \cup {"none"}, at : Int]

CommandReason(command) == IF command = "forceshutdown" THEN "shutdown" ELSE command

Noted(hint, command, now) ==
  IF command \in PowerCommands THEN [command |-> command, at |-> now] ELSE hint

Explains(hint, now) == hint.command # "none" /\ now - hint.at <= HintTTL

Reason(hint, now, fallback) ==
  IF Explains(hint, now) THEN CommandReason(hint.command) ELSE fallback

----------------------------------------------------------------------------
(* The newest User32/1074 record, in the order shutdownTypeReason has.     *)
ShutdownTypes ==
  << [token |-> "restart",          reason |-> "restart"],
     [token |-> "dasiSijak",       reason |-> "restart"],
     [token |-> "jaesijak",         reason |-> "restart"],
     [token |-> "powerOff",        reason |-> "shutdown"],
     [token |-> "shutdown",         reason |-> "shutdown"],
     [token |-> "jeonwonKkeugi",   reason |-> "shutdown"],
     [token |-> "jongnyo",          reason |-> "shutdown"],
     [token |-> "hibernate",        reason |-> "hibernate"],
     [token |-> "choedaeJeoljeon", reason |-> "hibernate"],
     [token |-> "sleep",            reason |-> "suspend"],
     [token |-> "jeoljeon",         reason |-> "suspend"] >>

Tokens == {ShutdownTypes[i].token : i \in DOMAIN ShutdownTypes}

(* The Korean for hibernation ends in the Korean for sleep.                *)
Texts == {t \in SUBSET Tokens : "choedaeJeoljeon" \in t => "jeoljeon" \in t}

FirstOf(S) == CHOOSE i \in S : \A j \in S : i <= j

(* matchShutdownType *)
RowsIn(text) == {i \in DOMAIN ShutdownTypes : ShutdownTypes[i].token \in text}
Known(text) == RowsIn(text) # {}
TypeIn(text) == ShutdownTypes[FirstOf(RowsIn(text))].reason

(* shutdownTypeOf: param5 first, then every other string; "none" when none *)
(* of them says anything known.                                            *)
Strings == Seq([name : {"param5", "other"}, text : Texts])

KnownAt(data, named) == {i \in DOMAIN data : (data[i].name = "param5") = named /\ Known(data[i].text)}

TypeOf(data) ==
  IF KnownAt(data, TRUE) # {} THEN TypeIn(data[FirstOf(KnownAt(data, TRUE))].text)
  ELSE IF KnownAt(data, FALSE) # {} THEN TypeIn(data[FirstOf(KnownAt(data, FALSE))].text)
  ELSE "none"

(* What wevtutil answers: an error or a timeout, no record, one that is    *)
(* not whole XML, or the one record it was asked for; dated when its time  *)
(* can be read.                                                            *)
Logs == [answer : {"failed", "empty", "broken", "record"}, dated : BOOLEAN, at : Int, data : Strings]

LogReason(log, now) ==
  IF log.answer # "record" \/ (log.dated /\ now - log.at > ShutdownWindow) THEN "none"
  ELSE TypeOf(log.data)

(* stopReason; system is a system shutdown, not a plain stop. *)
StopReason(hint, system, log, now) ==
  IF Explains(hint, now) THEN CommandReason(hint.command)
  ELSE IF ~system THEN "app_stop"
  ELSE IF LogReason(log, now) # "none" THEN LogReason(log, now) ELSE "shutdown"

(* The driver's side: STOPPING_STATE, APP_STOP and APPS_STOP_REASONS.      *)
DriverReasons == {"suspend", "hibernate", "shutdown", "restart", "unknown", "app_stop"}
StoppingState(reason) ==
  IF reason = "suspend" THEN "sleeping"
  ELSE IF reason = "hibernate" THEN "hibernated" ELSE "shuttingDown"
AppsStop(reason) == reason \in {"shutdown", "restart"}

----------------------------------------------------------------------------
(* The power broadcasts: asleep since, or 0.  A resume says how long, or   *)
(* nothing when no suspend was seen.                                       *)
Trackers == [seen : BOOLEAN, at : Int]
Suspending(now) == [seen |-> TRUE, at |-> now]
SuspendReason(hint, now) == Reason(hint, now, "suspend")
AsleepFor(tracker, now) ==
  IF ~tracker.seen THEN -1 ELSE IF now < tracker.at THEN 0 ELSE now - tracker.at
Resumed(tracker) == [tracker EXCEPT !.seen = FALSE]

----------------------------------------------------------------------------
(* What a command does.  caps is what GetPwrCapabilities said, once for    *)
(* the life of the process; run is how the tool, the call or the user      *)
(* action ended.                                                           *)
Displays == {"unknown", "on", "off"}
Caps == {"unreadable", "s3", "noS3", "standby"}
RunEnds == {"ok", "timeout", "failed"}

ModernStandby(caps) == caps = "standby"

(* asked: the calls made to Windows.  pushed: display.changed went to the  *)
(* hub.  raised: system.exec_failed names the command.                     *)
Machine == [hint : Hints, display : Displays]

Did(m, hint, asked, display, raised) ==
  [hint |-> hint, display |-> display, asked |-> asked,
   pushed |-> display # m.display, raised |-> raised]

(* executeCommand *)
ToolRun(m, command, run, now) ==
  Did(m, Noted(m.hint, command, now), command, m.display, run # "ok")

(* setScreen: a screen on that times out in standby did nothing. *)
NotWoken(caps, state, run) == ModernStandby(caps) /\ state = "on" /\ run = "timeout"

ScreenRun(m, caps, state, run) ==
  Did(m, m.hint, "screen",
      IF run = "failed" \/ NotWoken(caps, state, run) THEN m.display ELSE state,
      NotWoken(caps, state, run))

(* suspendPC and suspendToStandby *)
SuspendRun(m, caps, run, now) ==
  IF ModernStandby(caps)
  THEN Did(m, m.hint, "screen", IF run = "failed" THEN m.display ELSE "off", run = "failed")
  ELSE Did(m, Noted(m.hint, "suspend", now), "SetSuspendState", m.display, run # "ok")

(* lockAllSessions says nothing of a failure but in the log. *)
Executed(m, command, caps, run, now) ==
  IF command = "suspend" THEN SuspendRun(m, caps, run, now)
  ELSE IF command \in PowerCommands THEN ToolRun(m, command, run, now)
  ELSE IF command = "turnscreenoff" THEN ScreenRun(m, caps, "off", run)
  ELSE IF command = "turnscreenon" THEN ScreenRun(m, caps, "on", run)
  ELSE Did(m, m.hint, IF command = "lock" THEN "disconnect" ELSE "nothing", m.display, FALSE)

----------------------------------------------------------------------------
(* dispatchCommand: [command, from, origin, mode], setting whether the     *)
(* grace period is on, free whether the schedule slot takes it.            *)
Calls ==
  [command : CommandNames, from : {"webui", "gui", "net"},
   origin : {"remote", "smartthings", "ui", "telegram"}, mode : {"default", "grace", "immediate"}]

GraceCommands == {"shutdown", "restart", "suspend", "hibernate"}

Recorded(call) == call.command # "ping" /\ call.origin # "telegram"

(* last_command: what is remembered, and the block of the status.          *)
LastCommand(last, call, now) ==
  IF Recorded(call) THEN [command |-> call.command, origin |-> call.origin, at |-> now] ELSE last

Notifies(call) ==
  /\ call.command # "ping"
  /\ IF call.origin = "ui" THEN call.from = "webui" ELSE call.origin \in {"remote", "smartthings"}

Deferred(call, setting, free) ==
  /\ call.mode # "immediate" /\ call.command \in GraceCommands
  /\ setting \/ call.mode = "grace"
  /\ free

(* The notification a call leads to. *)
Notice(call, setting, free) ==
  IF Deferred(call, setting, free) THEN "grace_scheduled"
  ELSE IF ~Notifies(call) THEN "none"
  ELSE IF call.command = "forceshutdown" THEN "force" ELSE "received"

RunsNow(call, setting, free) == ~Deferred(call, setting, free) /\ call.command # "ping"
=============================================================================
