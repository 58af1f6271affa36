------------------------------- MODULE Update -------------------------------
(***************************************************************************)
(* The self-update: a tray app per desktop session that finds, downloads   *)
(* and stages a release (gui/update_ui.go, gui/update.go), the elevated    *)
(* updater it starts before it quits (gui/selfupdate.go), and the service  *)
(* whose executable is replaced under it (ServiceLife).                    *)
(*                                                                         *)
(* The staged files lie in the user's own folder, where anything may       *)
(* change them; <install>\update is the updaters' and is one folder for    *)
(* all of them.  A manifest stands for the version it was signed for.      *)
(***************************************************************************)
EXTENDS ServiceLife, FiniteSets

CONSTANTS
  Sessions,     \* the desktop sessions, each with at most one app
  MinVersion,   \* MinVersion[v]: the oldest version that may update to v
  MaxUpdaters   \* bound: updaters at work at once

ASSUME UpdateAssumption ==
  /\ IsFiniteSet(Sessions)
  /\ MinVersion \in [Versions -> Versions]
  /\ MaxUpdaters \in Nat

VARIABLES
  app,      \* app[a]: [ver, at, tag], ver = NoExe when it is not running
  staged,   \* staged[a]: [exe, man], the user's copies
  updDir,   \* <install>\update: [exe, man]
  upd,      \* upd[a]: the updater app a started: [at, ver, was]
  backup,   \* what <exe>.old holds
  \* history
  installed,  \* the version last installed in full
  cut,        \* the power went, or the rollback failed, with no exe in place
  stranded,   \* a service found running could not be stopped or started in time
  hung        \* an app outlived its updater's wait, or its message box

updVars == <<app, staged, updDir, upd, backup, installed, cut, stranded, hung>>
vars == <<lifeVars, updVars>>

NoFiles == [exe |-> NoExe, man |-> NoExe]
NoApp   == [ver |-> NoExe, at |-> "off", tag |-> 0]
Ready(v) == [ver |-> v, at |-> "idle", tag |-> 0]
NoUpd   == [at |-> "off", ver |-> NoExe, was |-> FALSE]

Init ==
  /\ LifeInit
  /\ app = [a \in Sessions |-> NoApp]
  /\ staged = [a \in Sessions |-> NoFiles]
  /\ updDir = NoFiles
  /\ upd = [a \in Sessions |-> NoUpd]
  /\ backup = NoExe
  /\ installed = 1
  /\ cut = FALSE /\ stranded = FALSE /\ hung = FALSE

----------------------------------------------------------------------------
(* The tray app.  The skip list and the once-per-tag notification only     *)
(* decide whether the dialog is shown unasked.                             *)
LaunchApp(a) ==
  /\ pc = "on" /\ app[a].ver = NoExe /\ exe \in Versions
  /\ app' = [app EXCEPT ![a] = Ready(exe)]
  /\ UNCHANGED <<lifeVars, staged, updDir, upd, backup, installed, cut, stranded, hung>>

(* showUpdateDialog: the release is newer, its manifest verifies and       *)
(* allows this version; anything else offers the release page only.        *)
Offer(a) ==
  /\ pc = "on" /\ app[a].at = "idle"
  /\ published > app[a].ver
  /\ MinVersion[published] <= app[a].ver
  /\ app' = [app EXCEPT ![a].at = "offered", ![a].tag = published]
  /\ UNCHANGED <<lifeVars, staged, updDir, upd, backup, installed, cut, stranded, hung>>

Drop(a) == app' = [app EXCEPT ![a].at = "idle", ![a].tag = 0]

(* Later, skip, a cancelled or failed download, a hash or a version that   *)
(* does not match, an elevation that is declined: the app stays.           *)
GiveUp(a) ==
  /\ pc = "on" /\ app[a].at \in {"offered", "downloaded"}
  /\ Drop(a)
  /\ UNCHANGED <<lifeVars, staged, updDir, upd, backup, installed, cut, stranded, hung>>

(* downloadUpdate and verifyDownloadedHash: only a whole body is renamed   *)
(* to its final name, and it is the release's or it is removed.            *)
Download(a) ==
  /\ pc = "on" /\ app[a].at = "offered"
  /\ app' = [app EXCEPT ![a].at = "downloaded"]
  /\ staged' = [staged EXCEPT ![a].exe = app[a].tag]
  /\ UNCHANGED <<lifeVars, updDir, upd, backup, installed, cut, stranded, hung>>

(* verifyDownloadedExe, stageManifest, the elevation: the installed exe is *)
(* started as update-apply, and the app quits.                             *)
Elevate(a) ==
  /\ pc = "on" /\ app[a].at = "downloaded"
  /\ staged[a].exe = app[a].tag
  /\ exe \in Versions
  /\ upd[a].at = "off"
  /\ Cardinality({b \in Sessions : upd[b].at # "off"}) < MaxUpdaters
  /\ staged' = [staged EXCEPT ![a].man = app[a].tag]
  /\ upd' = [upd EXCEPT ![a] = [at |-> "prepare", ver |-> exe, was |-> FALSE]]
  /\ app' = [app EXCEPT ![a].at = "quitting"]
  /\ UNCHANGED <<lifeVars, updDir, backup, installed, cut, stranded, hung>>

QuitHalf(a) ==
  /\ pc = "on" /\ app[a].at = "quitting"
  /\ app' = [app EXCEPT ![a].ver = NoExe]
  /\ UNCHANGED <<lifeVars, staged, updDir, upd, backup, installed, cut, stranded, hung>>

Quit(a) ==
  /\ pc = "on" /\ app[a].at = "quitting"
  /\ app' = [app EXCEPT ![a] = NoApp]
  /\ UNCHANGED <<lifeVars, staged, updDir, upd, backup, installed, cut, stranded, hung>>

(* Something else writes to the user's folder: a file is damaged, or both  *)
(* are those of another genuine release.                                   *)
Changed(a) ==
  /\ pc = "on" /\ staged[a].exe # NoExe
  /\ Fault
  /\ \/ staged' = [staged EXCEPT ![a].exe = Broken]
     \/ \E v \in 1..published : staged' = [staged EXCEPT ![a] = [exe |-> v, man |-> v]]
  /\ UNCHANGED <<exe, pc, svc, doc, reported, published, unsaved, ended,
                 told, retold, ran, mistold,
                 app, updDir, upd, backup, installed, cut, stranded, hung>>

----------------------------------------------------------------------------
(* The updater.  Whatever happens, it ends in finishUpdateApply.           *)
At(a, s) == pc = "on" /\ upd[a].at = s
Go(a, s) == upd' = [upd EXCEPT ![a].at = s]

sameLife == <<exe, pc, svc, doc, reported, published, unsaved, ended,
              told, retold, ran, mistold>>

(* stageVerifiedUpdate: <install>\update is emptied and filled with copies *)
(* of what the app staged, whatever that is by now ...                     *)
Prepare(a) ==
  /\ At(a, "prepare")
  /\ updDir' = [exe |-> Broken, man |-> staged[a].man]
  /\ Go(a, "copy")
  /\ UNCHANGED <<lifeVars, app, staged, backup, installed, cut, stranded, hung>>

CopyStaged(a) ==
  /\ At(a, "copy")
  /\ updDir' = [updDir EXCEPT !.exe = staged[a].exe]
  /\ Go(a, "verify")
  /\ UNCHANGED <<lifeVars, app, staged, backup, installed, cut, stranded, hung>>

(* ... and only the copies are judged: signed, newer than this exe, open   *)
(* to its version, and the exe the manifest names.                         *)
AcceptableOlder(f, current) ==
  f.man \in Versions /\ MinVersion[f.man] <= current /\ f.exe = f.man

Acceptable(f, current) ==
  /\ f.man \in Versions
  /\ f.man > current
  /\ MinVersion[f.man] <= current
  /\ f.exe = f.man

Verify(a) ==
  /\ At(a, "verify")
  /\ IF Acceptable(updDir, upd[a].ver)
     THEN Go(a, "wait") /\ UNCHANGED updDir
     ELSE Go(a, "finish") /\ updDir' = NoFiles
  /\ UNCHANGED <<lifeVars, app, staged, backup, installed, cut, stranded, hung>>

(* An error while staging: the folder is removed, nothing else is touched. *)
StagingFails(a) ==
  /\ pc = "on" /\ upd[a].at \in {"prepare", "copy"}
  /\ Fault
  /\ updDir' = NoFiles
  /\ Go(a, "finish")
  /\ UNCHANGED <<sameLife, app, staged, backup, installed, cut, stranded, hung>>

(* waitForProcessExit: the app is gone, or 30 seconds are over. *)
AppExited(a) ==
  /\ At(a, "wait")
  /\ app[a].at # "quitting"
  /\ Go(a, "stop")
  /\ UNCHANGED <<lifeVars, app, staged, updDir, backup, installed, cut, stranded, hung>>

AppHangs(a) ==
  /\ At(a, "wait")
  /\ app[a].at = "quitting"
  /\ Fault
  /\ hung' = TRUE
  /\ Go(a, "stop")
  /\ UNCHANGED <<sameLife, app, staged, updDir, backup, installed, cut, stranded>>

(* queryServiceState says RUNNING: sc stop.  A service that is starting or *)
(* stopping counts as not running and is left alone.                       *)
StopService(a) ==
  /\ At(a, "stop")
  /\ AnnounceStop("stop")
  /\ upd' = [upd EXCEPT ![a].at = "stopping", ![a].was = TRUE]
  /\ UNCHANGED <<exe, pc, reported, published, told, retold, ran, mistold,
                 app, staged, updDir, backup, installed, cut, stranded, hung>>

NotRunning(a) ==
  /\ At(a, "stop")
  /\ svc.at # "running"
  /\ Go(a, "swap")
  /\ UNCHANGED <<lifeVars, app, staged, updDir, backup, installed, cut, stranded, hung>>

ServiceStopped(a) ==
  /\ At(a, "stopping")
  /\ svc.at = "stopped"
  /\ Go(a, "swap")
  /\ UNCHANGED <<lifeVars, app, staged, updDir, backup, installed, cut, stranded, hung>>

(* sc stop fails, or the service is not STOPPED within 30 seconds, be it   *)
(* slow to stop or started again by someone: an error, and the service is  *)
(* left as it is.                                                          *)
StopTimesOut(a) ==
  /\ At(a, "stopping")
  /\ svc.at # "stopped"
  /\ stranded' = TRUE
  /\ updDir' = NoFiles
  /\ Go(a, "finish")
  /\ UNCHANGED <<lifeVars, app, staged, backup, installed, cut, hung>>

(* Windows deletes or replaces no file that a process runs from. *)
Runs(v) == svc.ver = v \/ \E a \in Sessions : app[a].ver = v \/ upd[a].ver = v
Mapped == backup # NoExe /\ Runs(backup)

(* swapExe: the stale .old goes if it can, and exe becomes .old. *)
RenameDeletes(a) ==
  /\ At(a, "swap")
  /\ exe # NoExe
  /\ exe' = NoExe
  /\ Go(a, "place")
  /\ UNCHANGED <<pc, svc, doc, reported, published, left, unsaved, ended,
                 told, retold, ran, mistold,
                 app, staged, updDir, backup, installed, cut, stranded, hung>>

Rename(a) ==
  /\ At(a, "swap")
  /\ exe # NoExe /\ ~Mapped
  /\ exe' = NoExe
  /\ backup' = exe
  /\ Go(a, "place")
  /\ UNCHANGED <<pc, svc, doc, reported, published, left, unsaved, ended,
                 told, retold, ran, mistold,
                 app, staged, updDir, installed, cut, stranded, hung>>

(* The rename is refused: the error path starts the service again. *)
RenameFailsForGood(a) ==
  /\ At(a, "swap")
  /\ IF exe = NoExe \/ Mapped THEN NoFault ELSE Fault
  /\ updDir' = NoFiles
  /\ Go(a, "finish")
  /\ UNCHANGED <<sameLife, app, staged, backup, installed, cut, stranded, hung>>

RenameFails(a) ==
  /\ At(a, "swap")
  /\ IF exe = NoExe \/ Mapped THEN NoFault ELSE Fault
  /\ updDir' = NoFiles
  /\ Go(a, "restart")
  /\ UNCHANGED <<sameLife, app, staged, backup, installed, cut, stranded, hung>>

PlaceVerified(a) ==
  /\ At(a, "place")
  /\ updDir.exe # NoExe
  /\ exe' = updDir.exe
  /\ installed' = IF updDir.exe \in Versions THEN updDir.exe ELSE installed
  /\ updDir' = NoFiles
  /\ staged' = [staged EXCEPT ![a] = NoFiles]
  /\ Go(a, "restart")
  /\ UNCHANGED <<pc, svc, doc, reported, published, left, unsaved, ended,
                 told, retold, ran, mistold, app, backup, cut, stranded, hung>>

(* The copy fails: what is there of it is removed and .old renamed back,   *)
(* which may fail too.                                                     *)
PlaceFails(a) ==
  /\ At(a, "place")
  /\ updDir' = NoFiles
  /\ IF updDir.exe = NoExe THEN NoFault ELSE Fault
  /\ \/ exe' = backup /\ backup' = NoExe /\ UNCHANGED cut
     \/ exe' = NoExe /\ cut' = TRUE /\ UNCHANGED backup
  /\ Go(a, "restart")
  /\ UNCHANGED <<pc, svc, doc, reported, published, unsaved, ended,
                 told, retold, ran, mistold, app, staged, installed, stranded, hung>>

(* sc start, for a service that was found running. *)
StartService(a) ==
  /\ At(a, "restart")
  /\ IF upd[a].was /\ exe \in Versions /\ svc.at = "stopped"
     THEN \/ Started /\ UNCHANGED <<left, stranded>>
          \/ Fault /\ stranded' = TRUE /\ UNCHANGED svc
     ELSE UNCHANGED <<svc, left, stranded>>
  /\ Go(a, "finish")
  /\ UNCHANGED <<exe, pc, doc, reported, published, unsaved, ended, told, retold, ran, mistold,
                 app, staged, updDir, backup, installed, cut, hung>>

(* finishUpdateApply: the app is started again, as the desktop's user, by  *)
(* explorer or directly; a second instance only activates the first, even  *)
(* if that one is about to quit (an error comes before the wait for it).   *)
Finish(a) ==
  /\ At(a, "finish")
  /\ app' = IF app[a].ver = NoExe /\ exe \in Versions
            THEN [app EXCEPT ![a] = Ready(exe)] ELSE app
  /\ hung' = (hung \/ app[a].at = "quitting")
  /\ upd' = [upd EXCEPT ![a] = NoUpd]
  /\ UNCHANGED <<lifeVars, staged, updDir, backup, installed, cut, stranded>>

(* The service removes the .old of the last update, for ten seconds after  *)
(* its start; the apps cannot, the folder is locked.                       *)
CleanupStale ==
  /\ pc = "on" /\ svc.at \in {"starting", "hooks", "running"}
  /\ backup # NoExe /\ ~Mapped
  /\ backup' = NoExe
  /\ UNCHANGED <<lifeVars, app, staged, updDir, upd, installed, cut, stranded, hung>>

----------------------------------------------------------------------------
(* The end of Windows, orderly or not, ends every process; in the middle   *)
(* of a copy it leaves whatever part of the file was written.              *)
AllGone ==
  /\ app' = [a \in Sessions |-> NoApp]
  /\ upd' = [a \in Sessions |-> NoUpd]
  /\ IF \E a \in Sessions : upd[a].at = "place"
     THEN exe' \in {NoExe, Broken} /\ cut' = TRUE
     ELSE UNCHANGED <<exe, cut>>
  /\ UNCHANGED <<staged, updDir, backup, installed, stranded, hung>>

OffDuringUpdate == ShutdownEnds /\ AllGone
CutDuringUpdate == PowerCut /\ AllGone

AppStep(a) ==
  \/ LaunchApp(a) \/ Offer(a) \/ GiveUp(a) \/ Download(a) \/ Elevate(a) \/ Quit(a) \/ Changed(a)

UpdaterStep(a) ==
  \/ Prepare(a) \/ CopyStaged(a) \/ Verify(a) \/ StagingFails(a)
  \/ AppExited(a) \/ AppHangs(a) \/ StopService(a) \/ NotRunning(a)
  \/ ServiceStopped(a) \/ StopTimesOut(a)
  \/ Rename(a) \/ RenameFails(a) \/ PlaceVerified(a) \/ PlaceFails(a)
  \/ StartService(a) \/ Finish(a)

Next ==
  \/ LifeStep /\ UNCHANGED updVars
  \/ \E a \in Sessions : AppStep(a) \/ UpdaterStep(a)
  \/ CleanupStale \/ OffDuringUpdate \/ CutDuringUpdate

(* The scheduler runs the updater; a stop, a start and a shutdown come to  *)
(* an end, and an app that quits is gone in the end.                       *)
Fairness ==
  /\ \A a \in Sessions : WF_vars(UpdaterStep(a)) /\ WF_vars(Quit(a))
  /\ WF_vars((TornDown \/ TakeCleanShutdown \/ RecordVersion) /\ UNCHANGED updVars)
  /\ WF_vars(svc.at = "closing" /\ OffDuringUpdate)

Spec == Init /\ [][Next]_vars /\ Fairness

----------------------------------------------------------------------------
Files == Versions \cup {NoExe, Broken}
SvcStates == {"stopped", "starting", "hooks", "running", "stopping", "closing"}
AppStates == {"off", "idle", "offered", "downloaded", "quitting"}
UpdStates == {"off", "prepare", "copy", "verify", "wait", "stop", "stopping",
              "swap", "place", "restart", "finish"}

(* Every variable keeps to its range, and a process has a version just     *)
(* while it runs (gui/selfupdate.go, service/windows.go).                  *)
TypeOK ==
  /\ exe \in Files /\ backup \in Files
  /\ pc \in {"on", "off"}
  /\ svc \in [at : SvcStates, ver : Versions \cup {NoExe}]
  /\ svc.at = "stopped" <=> svc.ver = NoExe
  /\ doc \in [last : 0..MaxVersion, tag : 0..MaxVersion, clean : BOOLEAN]
  /\ reported \in BOOLEAN
  /\ published \in Versions
  /\ left \in 0..Faults /\ unsaved \in 0..Faults
  /\ ended \in [this : BOOLEAN, before : BOOLEAN]
  /\ told \in 0..MaxVersion
  /\ ran \in 0..MaxVersion
  /\ retold \in BOOLEAN /\ mistold \in BOOLEAN
  /\ app \in [Sessions -> [ver : Versions \cup {NoExe}, at : AppStates, tag : 0..MaxVersion]]
  /\ \A a \in Sessions : app[a].at = "off" <=> app[a].ver = NoExe
  /\ staged \in [Sessions -> [exe : Files, man : Files]]
  /\ updDir \in [exe : Files, man : Files]
  /\ upd \in [Sessions -> [at : UpdStates, ver : Versions \cup {NoExe}, was : BOOLEAN]]
  /\ installed \in Versions
  /\ cut \in BOOLEAN /\ stranded \in BOOLEAN /\ hung \in BOOLEAN

(* However the swap ends, there is a whole executable to run or to restore:*)
(* the install path misses one only inside the swap, or after a rollback   *)
(* that failed or a power cut inside it, and then .old is still there      *)
(* (swapExe, the service's cleanupStaleUpdateFiles).                       *)
ExeWholeOrKept ==
  /\ exe \in Versions \/ backup \in Versions
  /\ exe \notin Versions => cut \/ \E a \in Sessions : upd[a].at = "place"

(* The install path only ever gets a genuine release newer than the one    *)
(* last installed, and open to an update from it, or that one back,        *)
(* whatever becomes of the staged files (stageVerifiedUpdate, swapExe).    *)
NeverOlder ==
  [][exe' # exe /\ exe' \notin {NoExe} =>
       \/ cut'
       \/ exe' = installed
       \/ exe' \in Versions /\ exe' > installed /\ MinVersion[exe'] <= installed]_vars

(* While every save succeeded, what the service reports of the previous    *)
(* run is how that run ended, across stops, crashes, updates and power     *)
(* cuts (markCleanShutdown, takeCleanShutdown).                            *)
CleanIsTrue ==
  svc.at \in {"hooks", "running", "stopping", "closing"} /\ unsaved = 0
    => reported = ended.before

(* While every save succeeded, a release is announced at most once over    *)
(* all runs of the service, and system.updated is told exactly when the    *)
(* version that comes up is not the one that ran before                    *)
(* (updateChecker.check, recordVersion).                                   *)
NoticesMatch == unsaved = 0 => ~retold /\ ~mistold

(* A service the updater stopped is started again and the user gets the    *)
(* app back, on every path, unless the PC goes down, the rollback failed,  *)
(* the service could not be stopped or started, or the app outlived the    *)
(* updater's wait (applyUpdate, finishUpdateApply).                        *)
UpdaterRestores ==
  \A a \in Sessions :
    /\ (upd[a].at = "stopping") ~>
         (svc.at \in {"starting", "hooks", "running"} \/ stranded \/ cut \/ pc # "on")
    /\ (upd[a].at # "off") ~> (app[a].at \in {"idle", "offered", "downloaded"} \/ hung \/ cut \/ pc # "on")

(* Everything below installs only this re-verified copy, never the         *)
(* user-writable file the GUI staged (gui/selfupdate.go:171).              *)
InstallsVerified == [][exe' # exe => exe' # Broken \/ cut']_vars
=============================================================================
