---------------------------- MODULE ServiceLife ----------------------------
(***************************************************************************)
(* The Windows service as the service control manager runs it              *)
(* (service/windows.go) and what it keeps in state.json across its runs    *)
(* (service/system_events.go), on a PC that shuts down and loses power.    *)
(*                                                                         *)
(* A version stands for the executable of that version; the file at the    *)
(* install path is one, none or a broken one.  Update.tla adds the tray    *)
(* apps and the updater that replaces the file.                            *)
(***************************************************************************)
EXTENDS Integers

CONSTANTS
  MaxVersion,   \* bound: the newest release
  Faults        \* bound: saves, calls and files that fail, crashes, power cuts

ASSUME LifeAssumption == MaxVersion \in Nat \ {0} /\ Faults \in Nat

VARIABLES
  exe,        \* what the install path holds
  pc,         \* "on", "off"
  svc,        \* [at, ver]: the service process and its image's version
  doc,        \* state.json: [last, tag, clean]
  reported,   \* lastShutdownClean of this run
  published,  \* the newest release on GitHub
  left,       \* faults the environment has left
  \* history
  unsaved,    \* saves of state.json that failed
  ended,      \* how the run that last read state.json ended, and the one before it
  told,       \* the newest release an update notice went out for
  retold,     \* a notice went out for a release already told
  ran,        \* version of the last run that reached Running
  mistold     \* system.updated was told of no change, or not told of one

lifeVars == <<exe, pc, svc, doc, reported, published, left,
              unsaved, ended, told, retold, ran, mistold>>

Versions == 1..MaxVersion
NoExe    == 0
Broken   == -1
Down     == [at |-> "stopped", ver |-> NoExe]

LifeInit ==
  /\ exe = 1
  /\ pc = "on"
  /\ svc = Down
  /\ doc = [last |-> 0, tag |-> 0, clean |-> FALSE]
  /\ reported = FALSE
  /\ published = 1
  /\ left = Faults
  /\ unsaved = 0
  /\ ended = [this |-> FALSE, before |-> FALSE]
  /\ told = 0
  /\ retold = FALSE
  /\ ran = 0
  /\ mistold = FALSE

Fault == left > 0 /\ left' = left - 1
NoFault == UNCHANGED left

(* saveState(d): the document becomes d, or the write fails, which the     *)
(* callers only log.  The write replaces the file as a whole.              *)
Saved(d) ==
  \/ doc' = d /\ UNCHANGED <<left, unsaved>>
  \/ d # doc /\ Fault /\ unsaved' = unsaved + 1 /\ UNCHANGED doc

----------------------------------------------------------------------------
(* The process ends: what only it knew is gone. *)
Gone ==
  /\ svc' = Down
  /\ reported' = FALSE
  /\ ended' = [ended EXCEPT !.before = FALSE]

(* Execute up to its startup hooks.  Who starts it (the boot, the user,    *)
(* the updater, the SCM after a crash) makes no difference to it.          *)
Started ==
  /\ svc.at = "stopped"
  /\ exe \in Versions
  /\ svc' = [at |-> "starting", ver |-> exe]

ScmStart ==
  /\ pc = "on"
  /\ Started
  /\ UNCHANGED <<exe, pc, doc, reported, published, left, unsaved, ended, told, retold, ran, mistold>>

TakeCleanKeeps ==
  /\ pc = "on" /\ svc.at = "starting"
  /\ reported' = doc.clean
  /\ ended' = [this |-> FALSE, before |-> ended.this]
  /\ svc' = [svc EXCEPT !.at = "hooks"]
  /\ UNCHANGED <<exe, pc, doc, left, unsaved, published, told, retold, ran, mistold>>

(* startupHooks: takeCleanShutdown reads the flag and clears it. *)
TakeCleanShutdown ==
  /\ pc = "on" /\ svc.at = "starting"
  /\ reported' = doc.clean
  /\ Saved([doc EXCEPT !.clean = FALSE])
  /\ ended' = [this |-> FALSE, before |-> ended.this]
  /\ svc' = [svc EXCEPT !.at = "hooks"]
  /\ UNCHANGED <<exe, pc, published, told, retold, ran, mistold>>

(* startupHooks: recordVersion tells of a version that is not the last     *)
(* run's, then stores it; the service reports Running after the hooks.     *)
RecordVersion ==
  /\ pc = "on" /\ svc.at = "hooks"
  /\ LET updated == doc.last # 0 /\ doc.last # svc.ver
     IN  mistold' = (mistold \/ (updated # (ran # 0 /\ ran # svc.ver)))
  /\ ran' = svc.ver
  /\ Saved([doc EXCEPT !.last = svc.ver])
  /\ svc' = [svc EXCEPT !.at = "running"]
  /\ UNCHANGED <<exe, pc, reported, published, ended, told, retold>>

CheckUnstored ==
  /\ pc = "on" /\ svc.at = "running"
  /\ published > svc.ver
  /\ doc.tag # published
  /\ told' = published
  /\ retold' = (retold \/ published <= told)
  /\ UNCHANGED <<exe, pc, svc, doc, left, unsaved, reported, published, ended, ran, mistold>>

(* updateChecker.check, when GitHub answers: a newer tag that state.json   *)
(* does not name is told, and only then stored.                            *)
CheckRelease ==
  /\ pc = "on" /\ svc.at = "running"
  /\ published > svc.ver
  /\ doc.tag # published
  /\ told' = published
  /\ retold' = (retold \/ published <= told)
  /\ Saved([doc EXCEPT !.tag = published])
  /\ UNCHANGED <<exe, pc, svc, reported, published, ended, ran, mistold>>

----------------------------------------------------------------------------
(* announceStop: StopPending, the clean mark, power.stopping, and the      *)
(* stop channel closes.                                                    *)
AnnounceStop(control) ==
  /\ svc.at = "running"
  /\ svc' = [svc EXCEPT !.at = IF control = "stop" THEN "stopping" ELSE "closing"]
  /\ Saved([doc EXCEPT !.clean = TRUE])
  /\ ended' = [ended EXCEPT !.this = TRUE]

ScmStop ==
  /\ pc = "on"
  /\ AnnounceStop("stop")
  /\ UNCHANGED <<exe, pc, reported, published, told, retold, ran, mistold>>

(* The rest of Execute's stop: keep-awake, the bot, SSDP, the bus. *)
TornDown ==
  /\ svc.at = "stopping"
  /\ Gone
  /\ UNCHANGED <<exe, pc, doc, published, left, unsaved, told, retold, ran, mistold>>

(* The process dies without a stop; its recovery actions start it again. *)
Crash ==
  /\ svc.at # "stopped"
  /\ Fault
  /\ Gone
  /\ UNCHANGED <<exe, pc, doc, published, unsaved, told, retold, ran, mistold>>

(* Windows shuts down or restarts: the SCM sends the shutdown control,     *)
(* waits for the service, and every process ends.  What the end of Windows *)
(* or of the power makes of the file at the install path is Update's.      *)
ShutdownBegins ==
  /\ pc = "on"
  /\ AnnounceStop("shutdown")
  /\ UNCHANGED <<exe, pc, reported, published, told, retold, ran, mistold>>

PcOff ==
  /\ pc' = "off"
  /\ Gone
  /\ UNCHANGED <<doc, published, unsaved, told, retold, ran, mistold>>

ShutdownEnds ==
  /\ pc = "on" /\ svc.at \in {"closing", "stopped"}
  /\ PcOff
  /\ UNCHANGED left

PowerCut ==
  /\ pc # "off"
  /\ Fault
  /\ PcOff

Boot ==
  /\ pc = "off"
  /\ pc' = "on"
  /\ UNCHANGED <<exe, svc, doc, reported, published, left, unsaved, ended, told, retold, ran, mistold>>

(* A release appears on GitHub. *)
Publish ==
  /\ published < MaxVersion
  /\ published' = published + 1
  /\ UNCHANGED <<exe, pc, svc, doc, reported, left, unsaved, ended, told, retold, ran, mistold>>

(* What goes on whoever replaces the executable. *)
LifeStep ==
  \/ ScmStart \/ TakeCleanShutdown \/ RecordVersion \/ CheckRelease
  \/ ScmStop \/ TornDown \/ Crash \/ ShutdownBegins
  \/ Boot \/ Publish

============================================================================
