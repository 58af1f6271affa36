------------------------------ MODULE FrontEnds ------------------------------
(***************************************************************************)
(* Where a person asks for a command or a schedule - the app's schedule    *)
(* tab and its toast (gui/schedule_tab.go, gui/toast.go), the driver's     *)
(* lists (edge/src/model/commands.lua), the bot (service/tgcontrol/        *)
(* control.go) - and what the service takes from each (webui/routes.go,    *)
(* stapi/command.go, power/schedule.go).  Pure functions; RemoteGrace and  *)
(* Scheduler have the slot over time, Bot the messages.                    *)
(***************************************************************************)
EXTENDS StopReason

MaxScheduleMinutes == 4320

(* Scheduler.Schedule, the last guard: a delay of seconds. *)
SlotTakes(command, seconds) ==
  seconds > 0 /\ seconds <= MaxScheduleMinutes * 60 /\ command \in CommandNames

----------------------------------------------------------------------------
(* The schedule tab: its choices, and the delay behind the label chosen -  *)
(* the last of the choices that has it.                                    *)
SchedulePresets == {5, 10, 15, 30, 45, 60, 90, 120, 180, 240, 360, 480, 720, 1440, 2880, 4320}
DefaultPreset == 30
ScheduleCommands == {"shutdown", "forceshutdown", "restart", "hibernate", "suspend", "lock"}

(* formatMinutes, FormatDelay and the bot's delay: in the largest units,   *)
(* without the odd minutes at a day's distance.                            *)
Label(minutes) ==
  IF minutes < 1440 THEN [days |-> 0, hours |-> minutes \div 60, minutes |-> minutes % 60]
  ELSE [days |-> minutes \div 1440, hours |-> (minutes % 1440) \div 60, minutes |-> 0]

Chosen(label) ==
  LET named == {m \in SchedulePresets : Label(m) = label}
  IN IF named = {} THEN DefaultPreset ELSE CHOOSE m \in named : \A n \in named : n <= m

(* serveSchedule *)
AppSchedules(command, minutes) ==
  minutes >= 1 /\ minutes <= MaxScheduleMinutes /\ SlotTakes(command, minutes * 60)

(* formatCountdown, of the seconds the service reports as remaining. *)
Countdown(seconds) ==
  LET rest == seconds % 86400
  IN [days |-> seconds \div 86400, hours |-> rest \div 3600,
      minutes |-> (rest % 3600) \div 60, seconds |-> rest % 60]

(* loadSchedule: the toast pops up for a schedule of another origin or     *)
(* command than the one last shown, "none" while there is none.            *)
ShownKey(slot) == IF slot.active THEN [origin |-> slot.origin, command |-> slot.command]
                  ELSE [origin |-> "none", command |-> "none"]
ToastDue(last, slot) == slot.active /\ ShownKey(slot) # last

(* runToastAction: the schedule is read, ended and its command run, in     *)
(* three requests; slot is what the service holds at the second.  An end   *)
(* is answered alike when there was nothing to end.                        *)
NoSlot == [active |-> FALSE, command |-> "none", origin |-> "none", seq |-> 0]
Slots(Seqs) ==
  {NoSlot} \cup [active : {TRUE}, command : CommandNames,
                 origin : {"remote", "smartthings", "ui", "telegram"}, seq : Seqs]

ToastPressed(verb, seen, slot) ==
  IF verb = "cancel" THEN [ends |-> slot, runs |-> "none"]
  ELSE IF seen.active THEN [ends |-> slot, runs |-> seen.command]
  ELSE [ends |-> NoSlot, runs |-> "none"]

(* The bot's /now and runnow: take the schedule in one step (TakeForRun).  *)
TakenForRun(slot) == [ends |-> slot, runs |-> slot.command]

----------------------------------------------------------------------------
(* The driver: the entries of the delay list, Cancel and the value it      *)
(* rests on; the command is the first that may be planned, else shutdown.  *)
MinutesNone == -1
DelayKeys == SchedulePresets \cup {0, MinutesNone}
PlanCommands == {"shutdown", "restart", "suspend", "hibernate"}

PlanCommandFor(candidates) ==
  LET fit == {i \in DOMAIN candidates : candidates[i] \in PlanCommands}
  IN IF fit = {} THEN "shutdown" ELSE candidates[FirstOf(fit)]

(* schedule.schedule: what a picked delay asks of the service. *)
Asks(minutes, busy) ==
  IF minutes < 0 THEN "refresh"
  ELSE IF minutes = 0 THEN "cancel" ELSE IF busy THEN "refused" ELSE "schedule"

(* handleCommand: 0 is a command for now. *)
DriverSchedules(command, minutes) ==
  /\ command \in CommandNames /\ minutes >= 0 /\ minutes <= MaxScheduleMinutes
  /\ minutes > 0 => SlotTakes(command, minutes * 60)

----------------------------------------------------------------------------
(* The bot: its commands' names, a button as [verb, arg].                  *)
Aliases == [lock |-> "lock", screenoff |-> "turnscreenoff", screenon |-> "turnscreenon",
            sleep |-> "suspend", hibernate |-> "hibernate", restart |-> "restart",
            shutdown |-> "shutdown"]

SafeCommands == {"lock", "turnscreenoff", "turnscreenon"}

(* commandName: an alias or a name, if the bot may run it, else "none".    *)
Alias(arg) == IF arg \in DOMAIN Aliases THEN Aliases[arg] ELSE arg
CommandOf(arg) ==
  IF Alias(arg) \in SafeCommands \cup GraceCommands THEN Alias(arg) ELSE "none"

(* The words of a message: what runs at once, and what is asked first.     *)
SafeWords == {"lock", "screenoff", "screenon"}
PowerWords == {"sleep", "hibernate", "restart", "shutdown"}

BotSchedules(command, minutes) ==
  minutes >= 1 /\ minutes <= MaxScheduleMinutes /\ SlotTakes(command, minutes * 60)

Button(verb, arg) == [verb |-> verb, arg |-> arg]
ConfirmKeyboard(command) == {Button("exec", command), Button("dismiss", "")}
MenuKeyboard ==
  {Button("cmd", "lock"), Button("cmd", "turnscreenoff"), Button("confirm", "suspend"),
   Button("confirm", "restart"), Button("confirm", "shutdown"), Button("cancel", "menu")}

(* handleCommand and powerCommand, minutes 0 when none are given: the      *)
(* command run at once, and the keyboard of the reply.                     *)
WordRuns(word) == IF word \in SafeWords THEN Aliases[word] ELSE "none"
WordKeyboard(word, minutes) ==
  IF word = "menu" THEN MenuKeyboard
  ELSE IF word \in PowerWords /\ minutes = 0 THEN ConfirmKeyboard(Aliases[word]) ELSE {}

(* handleCallback, cancel: and runnow: apart. *)
ButtonRuns(b) ==
  IF b.verb = "exec" \/ (b.verb = "cmd" /\ CommandOf(b.arg) \in SafeCommands)
  THEN CommandOf(b.arg) ELSE "none"

(* EditKeyboard: the keyboard a press leaves under its message. *)
KeyboardAfter(b) ==
  IF b.verb = "confirm" /\ CommandOf(b.arg) \in GraceCommands THEN ConfirmKeyboard(CommandOf(b.arg))
  ELSE IF b.verb = "cancel" /\ b.arg = "menu" THEN MenuKeyboard ELSE {}

(* Keyboards that come to stand under a message, but the grace message's.  *)
Replies == {WordKeyboard(word, n) : word \in SafeWords \cup PowerWords \cup {"menu"}, n \in {0, 1}}
Edits == {KeyboardAfter(b) : b \in UNION Replies}
=============================================================================
