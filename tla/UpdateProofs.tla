--------------------------- MODULE UpdateProofs ----------------------------
(***************************************************************************)
(* What holds of updates for any number of sessions, releases and faults:  *)
(* the service's reports of its past (CleanIsTrue, NoticesMatch), and, of  *)
(* one updater at a time, the executable (ExeWholeOrKept, NeverOlder); and *)
(* what the dialog and the elevated updater agree on (Release).  And of    *)
(* the reason the service gives for a stop (StopReason), for every last    *)
(* command, every record of the System log and every time.                 *)
(*                                                                         *)
(* The invariant has a part for each.  Told: while every save succeeded    *)
(* state.json says what happened.  Held: the install path holds what was   *)
(* last installed or <exe>.old does, what the updater judged is what it    *)
(* will place, and a running service keeps its file from being deleted.    *)
(***************************************************************************)
EXTENDS Update, Release, StopReason, FiniteSetTheorems, WellFoundedInduction, TLAPS

Service == [at : SvcStates, ver : Versions \cup {NoExe}]
State == [last : 0..MaxVersion, tag : 0..MaxVersion, clean : BOOLEAN]
Ended == [this : BOOLEAN, before : BOOLEAN]

LifeTypes ==
  /\ pc \in {"on", "off"}
  /\ svc \in Service /\ (svc.at = "stopped" <=> svc.ver = NoExe)
  /\ doc \in State /\ reported \in BOOLEAN /\ published \in Versions
  /\ left \in Nat /\ unsaved \in Nat /\ unsaved + left <= Faults
  /\ ended \in Ended
  /\ told \in 0..MaxVersion /\ ran \in 0..MaxVersion
  /\ retold \in BOOLEAN /\ mistold \in BOOLEAN

AtEnd == svc.at \in {"hooks", "running", "stopping", "closing"} => reported = ended.before
Stored ==
  /\ doc.clean = ended.this /\ doc.tag = told /\ doc.last = ran
  /\ ~retold /\ ~mistold /\ AtEnd
Told == told <= published /\ (unsaved = 0 => Stored)

App == [ver : Versions \cup {NoExe}, at : AppStates, tag : 0..MaxVersion]
Upd == [at : UpdStates, ver : Versions \cup {NoExe}, was : BOOLEAN]
Copies == [exe : Files, man : Files]

UpTypes ==
  /\ exe \in Files /\ backup \in Files
  /\ app \in [Sessions -> App] /\ \A a \in Sessions : app[a].at = "off" <=> app[a].ver = NoExe
  /\ staged \in [Sessions -> Copies] /\ updDir \in Copies
  /\ upd \in [Sessions -> Upd]
  /\ installed \in Versions
  /\ cut \in BOOLEAN /\ stranded \in BOOLEAN /\ hung \in BOOLEAN

IInv == LifeTypes /\ Told /\ UpTypes

----------------------------------------------------------------------------
LEMMA InitIInv == Init => IInv
<1>. SUFFICES ASSUME Init PROVE IInv
  OBVIOUS
<1>. USE LifeAssumption DEF Versions, NoExe, Broken
<1>1. LifeTypes
  <2>1. svc \in Service /\ svc.at = "stopped" /\ svc.ver = NoExe
    BY DEF Init, LifeInit, Service, Down, SvcStates
  <2>2. doc \in State /\ ended \in Ended
    BY DEF Init, LifeInit, State, Ended
  <2>3. /\ pc = "on" /\ reported = FALSE /\ published = 1 /\ left = Faults /\ unsaved = 0
        /\ told = 0 /\ ran = 0 /\ retold = FALSE /\ mistold = FALSE
    BY DEF Init, LifeInit
  <2>4. published \in Versions /\ unsaved + left <= Faults /\ told \in 0..MaxVersion
    BY <2>3
  <2>. QED BY <2>1, <2>2, <2>3, <2>4 DEF LifeTypes
<1>0. Told
  BY DEF Init, LifeInit, Told, Stored, AtEnd, Down
<1>2. UpTypes
  <2>1. NoApp \in App /\ NoUpd \in Upd /\ NoFiles \in Copies
    BY DEF NoApp, NoUpd, NoFiles, App, Upd, Copies, Files, AppStates, UpdStates
  <2>2. app \in [Sessions -> App] /\ \A a \in Sessions : app[a].at = "off" <=> app[a].ver = NoExe
    BY <2>1 DEF Init, NoApp
  <2>3. staged \in [Sessions -> Copies] /\ upd \in [Sessions -> Upd] /\ updDir \in Copies
    BY <2>1 DEF Init
  <2>4. exe \in Files /\ backup \in Files /\ installed \in Versions
    BY DEF Init, LifeInit, Files
  <2>5. cut = FALSE /\ stranded = FALSE /\ hung = FALSE
    BY DEF Init
  <2>. QED BY <2>2, <2>3, <2>4, <2>5 DEF UpTypes
<1>. QED BY <1>0, <1>1, <1>2 DEF IInv

(* A save that fails is counted. *)
LEMMA SaveIs ==
  ASSUME LifeTypes, NEW d \in State, Saved(d)
  PROVE  /\ doc' \in State /\ left' \in Nat /\ unsaved' \in Nat /\ unsaved' + left' <= Faults
         /\ unsaved' = 0 => unsaved = 0 /\ doc' = d
BY LifeAssumption DEF LifeTypes, Saved, Fault

LEMMA DocSet ==
  ASSUME LifeTypes
  PROVE  /\ \A x \in BOOLEAN : LET d == [doc EXCEPT !.clean = x] IN
              d \in State /\ d.clean = x /\ d.tag = doc.tag /\ d.last = doc.last
         /\ \A x \in 0..MaxVersion : LET d == [doc EXCEPT !.tag = x] IN
              d \in State /\ d.clean = doc.clean /\ d.tag = x /\ d.last = doc.last
         /\ \A x \in 0..MaxVersion : LET d == [doc EXCEPT !.last = x] IN
              d \in State /\ d.clean = doc.clean /\ d.tag = doc.tag /\ d.last = x
BY DEF LifeTypes, State

LEMMA EndedSet ==
  ASSUME LifeTypes
  PROVE  /\ [ended EXCEPT !.this = TRUE] \in Ended /\ [ended EXCEPT !.this = TRUE].this = TRUE
         /\ [ended EXCEPT !.this = TRUE].before = ended.before
         /\ [ended EXCEPT !.before = FALSE] \in Ended
         /\ [ended EXCEPT !.before = FALSE].this = ended.this
BY DEF LifeTypes, Ended

(* Nothing but a fault happens to the service.                             *)
LifeStill == UNCHANGED <<pc, svc, doc, reported, published, unsaved, ended, told, retold, ran, mistold>>

LEMMA StillKept ==
  ASSUME LifeTypes, Told, LifeStill, left' = left \/ Fault
  PROVE  (LifeTypes /\ Told)'
<1>1. left' \in Nat /\ unsaved' + left' <= Faults
  BY LifeAssumption DEF LifeTypes, LifeStill, Fault
<1>2. LifeTypes'
  BY <1>1 DEF LifeTypes, LifeStill
<1>3. Told'
  BY DEF Told, Stored, AtEnd, LifeStill
<1>. QED BY <1>2, <1>3

(* The process ends. *)
LEMMA GoneKept ==
  ASSUME LifeTypes, Told, Gone, left' = left \/ Fault, pc' \in {"on", "off"},
         UNCHANGED <<doc, published, unsaved, told, retold, ran, mistold>>
  PROVE  (LifeTypes /\ Told)'
<1>1. svc' \in Service /\ svc'.at = "stopped" /\ svc'.ver = NoExe
  BY DEF Gone, Down, Service, SvcStates, NoExe
<1>2. left' \in Nat /\ unsaved' + left' <= Faults
  BY LifeAssumption DEF LifeTypes, Fault
<1>3. ended' \in Ended /\ ended'.this = ended.this
  BY EndedSet DEF Gone
<1>4. LifeTypes'
  BY <1>1, <1>2, <1>3 DEF LifeTypes, Gone
<1>5. Told'
  BY <1>1, <1>3 DEF Told, Stored, AtEnd
<1>. QED BY <1>4, <1>5

(* The service starts, or it fails to. *)
LEMMA StartKept ==
  ASSUME LifeTypes, Told, Started, exe \in Files, UNCHANGED left,
         UNCHANGED <<pc, doc, reported, published, unsaved, ended, told, retold, ran, mistold>>
  PROVE  (LifeTypes /\ Told)'
<1>1. svc' \in Service /\ svc'.at = "starting" /\ svc'.ver # NoExe
  BY DEF Started, Service, SvcStates, NoExe, Versions
<1>2. LifeTypes'
  BY <1>1 DEF LifeTypes
<1>3. Told'
  BY <1>1 DEF Told, Stored, AtEnd
<1>. QED BY <1>2, <1>3

(* It stops, and says so in state.json first. *)
LEMMA StopKept ==
  ASSUME LifeTypes, Told, NEW control, AnnounceStop(control),
         UNCHANGED <<pc, reported, published, told, retold, ran, mistold>>
  PROVE  (LifeTypes /\ Told)'
<1>. DEFINE d == [doc EXCEPT !.clean = TRUE]
<1>1. /\ svc' \in Service /\ svc'.at \in {"stopping", "closing"} /\ svc'.ver = svc.ver
  BY DEF AnnounceStop, LifeTypes, Service, SvcStates
<1>2. /\ ended' \in Ended /\ ended'.this = TRUE /\ ended'.before = ended.before
  BY EndedSet DEF AnnounceStop
<1>3. d \in State /\ d.clean = TRUE /\ d.tag = doc.tag /\ d.last = doc.last
  BY DocSet
<1>4. svc.at = "running" /\ Saved(d)
  BY DEF AnnounceStop
<1>. HIDE DEF d
<1>5. /\ doc' \in State /\ left' \in Nat /\ unsaved' \in Nat /\ unsaved' + left' <= Faults
      /\ unsaved' = 0 => unsaved = 0 /\ doc' = d
  BY <1>3, <1>4, SaveIs
<1>6. LifeTypes'
  BY <1>1, <1>2, <1>4, <1>5 DEF LifeTypes
<1>7. Told'
  BY <1>1, <1>2, <1>3, <1>4, <1>5 DEF Told, Stored, AtEnd
<1>. QED BY <1>6, <1>7

LEMMA LifeStepKept ==
  ASSUME LifeTypes, Told, exe \in Files, LifeStep
  PROVE  (LifeTypes /\ Told)'
<1>1. CASE ScmStart
  BY <1>1, StartKept DEF ScmStart
<1>2. CASE TakeCleanShutdown
  <2>. DEFINE d == [doc EXCEPT !.clean = FALSE]
              e == [this |-> FALSE, before |-> ended.this]
  <2>1. d \in State /\ d.clean = FALSE /\ d.tag = doc.tag /\ d.last = doc.last
    BY DocSet
  <2>2. e \in Ended /\ e.this = FALSE /\ e.before = ended.this
    BY DEF LifeTypes, Ended
  <2>3. Saved(d) /\ ended' = e /\ reported' = doc.clean /\ svc.at = "starting"
        /\ UNCHANGED <<pc, published, told, retold, ran, mistold>>
    BY <1>2 DEF TakeCleanShutdown
  <2>4. svc' \in Service /\ svc'.at = "hooks" /\ svc'.ver = svc.ver
    BY <1>2 DEF TakeCleanShutdown, LifeTypes, Service, SvcStates
  <2>. HIDE DEF d, e
  <2>5. /\ doc' \in State /\ left' \in Nat /\ unsaved' \in Nat /\ unsaved' + left' <= Faults
        /\ unsaved' = 0 => unsaved = 0 /\ doc' = d
    BY <2>1, <2>3, SaveIs
  <2>6. doc.clean \in BOOLEAN
    BY DEF LifeTypes, State
  <2>7. LifeTypes'
    BY <2>2, <2>3, <2>4, <2>5, <2>6 DEF LifeTypes
  <2>8. Told'
    BY <2>1, <2>2, <2>3, <2>5 DEF Told, Stored, AtEnd
  <2>. QED BY <2>7, <2>8
<1>3. CASE RecordVersion
  <2>. DEFINE d == [doc EXCEPT !.last = svc.ver]
              updated == doc.last # 0 /\ doc.last # svc.ver
              after == ran # 0 /\ ran # svc.ver
  <2>0. svc.ver \in 0..MaxVersion
    BY LifeAssumption DEF LifeTypes, Service, Versions, NoExe
  <2>1. d \in State /\ d.clean = doc.clean /\ d.tag = doc.tag /\ d.last = svc.ver
    BY <2>0, DocSet
  <2>2. Saved(d) /\ ran' = svc.ver /\ mistold' = (mistold \/ (updated # after))
        /\ svc.at = "hooks" /\ UNCHANGED <<pc, reported, published, ended, told, retold>>
    BY <1>3 DEF RecordVersion
  <2>3. svc' \in Service /\ svc'.at = "running" /\ svc'.ver = svc.ver
    BY <1>3 DEF RecordVersion, LifeTypes, Service, SvcStates
  <2>4. doc.last = ran => updated = after
    OBVIOUS
  <2>. HIDE DEF d, updated, after
  <2>5. /\ doc' \in State /\ left' \in Nat /\ unsaved' \in Nat /\ unsaved' + left' <= Faults
        /\ unsaved' = 0 => unsaved = 0 /\ doc' = d
    BY <2>1, <2>2, SaveIs
  <2>6. mistold' \in BOOLEAN
    BY <2>2, Zenon
  <2>7. LifeTypes'
    BY <2>0, <2>2, <2>3, <2>5, <2>6 DEF LifeTypes
  <2>8. unsaved = 0 => ~mistold'
    BY <2>2, <2>4 DEF Told, Stored
  <2>9. Told'
    BY <2>1, <2>2, <2>5, <2>8 DEF Told, Stored, AtEnd
  <2>. QED BY <2>7, <2>9
<1>4. CASE CheckRelease
  <2>. DEFINE d == [doc EXCEPT !.tag = published]
  <2>0. published \in 0..MaxVersion /\ told \in 0..MaxVersion
    BY DEF LifeTypes, Versions
  <2>1. d \in State /\ d.clean = doc.clean /\ d.tag = published /\ d.last = doc.last
    BY <2>0, DocSet
  <2>2. /\ Saved(d) /\ told' = published /\ doc.tag # published
        /\ retold' = (retold \/ published <= told)
        /\ UNCHANGED <<pc, svc, reported, published, ended, ran, mistold>>
    BY <1>4 DEF CheckRelease
  <2>. HIDE DEF d
  <2>3. /\ doc' \in State /\ left' \in Nat /\ unsaved' \in Nat /\ unsaved' + left' <= Faults
        /\ unsaved' = 0 => unsaved = 0 /\ doc' = d
    BY <2>1, <2>2, SaveIs
  <2>4. LifeTypes'
    BY <2>0, <2>2, <2>3 DEF LifeTypes
  <2>5. unsaved = 0 => ~retold'
    <3>1. unsaved = 0 => told # published /\ told <= published /\ ~retold
      BY <2>2 DEF Told, Stored
    <3>2. unsaved = 0 => ~(published <= told)
      BY <2>0, <3>1, LifeAssumption
    <3>. QED BY <2>2, <3>1, <3>2
  <2>6. Told'
    BY <2>0, <2>1, <2>2, <2>3, <2>5 DEF Told, Stored, AtEnd
  <2>. QED BY <2>4, <2>6
<1>5. CASE ScmStop
  BY <1>5, StopKept DEF ScmStop
<1>6. CASE TornDown
  <2>1. pc' \in {"on", "off"}
    BY <1>6 DEF TornDown, LifeTypes
  <2>. QED BY <1>6, <2>1, GoneKept DEF TornDown
<1>7. CASE Crash
  <2>1. pc' \in {"on", "off"}
    BY <1>7 DEF Crash, LifeTypes
  <2>. QED BY <1>7, <2>1, GoneKept DEF Crash
<1>8. CASE ShutdownBegins
  BY <1>8, StopKept DEF ShutdownBegins
<1>9. CASE Boot
  BY <1>9 DEF Boot, LifeTypes, Told, Stored, AtEnd
<1>10. CASE Publish
  BY <1>10, LifeAssumption DEF Publish, LifeTypes, Told, Stored, AtEnd, Versions
<1>. QED BY <1>1, <1>2, <1>3, <1>4, <1>5, <1>6, <1>7, <1>8, <1>9, <1>10 DEF LifeStep

----------------------------------------------------------------------------
(* One updater goes on, the others stay where they are.                    *)
LEMMA GoIs ==
  ASSUME UpTypes, NEW a \in Sessions, NEW s \in UpdStates, Go(a, s)
  PROVE  /\ upd' \in [Sessions -> Upd] /\ upd'[a].at = s /\ upd'[a].ver = upd[a].ver
         /\ \A b \in Sessions \ {a} : upd'[b] = upd[b]
<1>. DEFINE u == [upd[a] EXCEPT !.at = s]
<1>1. upd[a] \in Upd
  BY DEF UpTypes
<1>2. u \in Upd /\ u.at = s /\ u.ver = upd[a].ver
  BY <1>1 DEF Upd
<1>3. upd' = [upd EXCEPT ![a] = u]
  BY DEF Go
<1>. HIDE DEF u
<1>. QED BY <1>2, <1>3 DEF UpTypes

(* What an app does. *)
LEMMA AppTyped ==
  ASSUME IInv, NEW a \in Sessions, AppStep(a)
  PROVE  IInv'
<1>. DEFINE AppsOK == app \in [Sessions -> App] /\ \A b \in Sessions : app[b].at = "off" <=> app[b].ver = NoExe
<1>0. /\ app[a] \in App /\ staged[a] \in Copies /\ published \in Versions
      /\ Versions \subseteq 0..MaxVersion /\ Versions \subseteq Files /\ 0..MaxVersion \subseteq Files
      /\ NoExe \notin Versions /\ AppsOK
  BY LifeAssumption DEF IInv, UpTypes, LifeTypes, Versions, Files, NoExe
<1>r. ASSUME NEW r \in App, r.at = "off" <=> r.ver = NoExe, app' = [app EXCEPT ![a] = r]
      PROVE  AppsOK'
  BY <1>0, <1>r
<1>1. CASE LaunchApp(a)
  <2>1. Ready(exe) \in App /\ (Ready(exe).at = "off" <=> Ready(exe).ver = NoExe)
    BY <1>0, <1>1, LifeAssumption DEF LaunchApp, Ready, App, AppStates, NoExe
  <2>2. AppsOK'
    BY <1>1, <1>r, <2>1 DEF LaunchApp
  <2>. QED BY <1>1, <2>2, StillKept DEF LaunchApp, IInv, UpTypes, lifeVars, LifeStill
<1>2. CASE Offer(a)
  <2>. DEFINE p == [app[a] EXCEPT !.at = "offered"]
              r == [p EXCEPT !.tag = published]
  <2>0. app' = [app EXCEPT ![a] = r] /\ app[a].at = "idle"
    BY <1>0, <1>2, Zenon DEF Offer
  <2>1. p \in App /\ p.at = "offered" /\ p.ver = app[a].ver
    BY <1>0 DEF App, AppStates
  <2>. HIDE DEF p
  <2>2. r \in App /\ r.at = "offered" /\ r.ver = app[a].ver
    BY <1>0, <2>1 DEF App, AppStates
  <2>. HIDE DEF r
  <2>3. AppsOK'
    BY <1>0, <1>r, <2>0, <2>2
  <2>. QED BY <1>2, <2>3, StillKept DEF Offer, IInv, UpTypes, lifeVars, LifeStill
<1>3. CASE GiveUp(a)
  <2>. DEFINE p == [app[a] EXCEPT !.at = "idle"]
              r == [p EXCEPT !.tag = 0]
  <2>a. app' = [app EXCEPT ![a] = r]
    BY <1>3, Zenon DEF GiveUp, Drop
  <2>0. app' = [app EXCEPT ![a] = r] /\ app[a].at # "off"
    BY <2>a, <1>3 DEF GiveUp
  <2>1. p \in App /\ p.at = "idle" /\ p.ver = app[a].ver
    BY <1>0 DEF App, AppStates
  <2>. HIDE DEF p
  <2>2. r \in App /\ r.at = "idle" /\ r.ver = app[a].ver
    BY <1>0, <2>1, LifeAssumption DEF App, AppStates
  <2>. HIDE DEF r
  <2>3. AppsOK'
    BY <1>0, <1>r, <2>0, <2>2
  <2>. QED BY <1>3, <2>3, StillKept DEF GiveUp, IInv, UpTypes, lifeVars, LifeStill
<1>4. CASE Download(a)
  <2>. DEFINE r == [app[a] EXCEPT !.at = "downloaded"]
              c == [staged[a] EXCEPT !.exe = app[a].tag]
  <2>0. app' = [app EXCEPT ![a] = r] /\ app[a].at = "offered" /\ staged' = [staged EXCEPT ![a] = c]
    BY <1>4 DEF Download
  <2>1. r \in App /\ r.at = "downloaded" /\ r.ver = app[a].ver
    BY <1>0 DEF App, AppStates
  <2>2. c \in Copies
    BY <1>0 DEF Copies, App
  <2>. HIDE DEF r, c
  <2>3. AppsOK'
    BY <1>0, <1>r, <2>0, <2>1
  <2>4. staged' \in [Sessions -> Copies]
    BY <2>0, <2>2 DEF IInv, UpTypes
  <2>. QED BY <1>4, <2>3, <2>4, StillKept DEF Download, IInv, UpTypes, lifeVars, LifeStill
<1>5. CASE Elevate(a)
  <2>. DEFINE r == [app[a] EXCEPT !.at = "quitting"]
              c == [staged[a] EXCEPT !.man = app[a].tag]
              u == [at |-> "prepare", ver |-> exe, was |-> FALSE]
  <2>0. app' = [app EXCEPT ![a] = r] /\ app[a].at = "downloaded" /\ staged' = [staged EXCEPT ![a] = c]
        /\ upd' = [upd EXCEPT ![a] = u] /\ exe \in Versions
    BY <1>5 DEF Elevate
  <2>1. r \in App /\ r.at = "quitting" /\ r.ver = app[a].ver
    BY <1>0 DEF App, AppStates
  <2>2. c \in Copies
    BY <1>0 DEF Copies, App
  <2>3. u \in Upd
    BY <2>0 DEF Upd, UpdStates
  <2>. HIDE DEF r, c, u
  <2>4. AppsOK'
    BY <1>0, <1>r, <2>0, <2>1
  <2>5. staged' \in [Sessions -> Copies] /\ upd' \in [Sessions -> Upd]
    BY <2>0, <2>2, <2>3 DEF IInv, UpTypes
  <2>. QED BY <1>5, <2>4, <2>5, StillKept DEF Elevate, IInv, UpTypes, lifeVars, LifeStill
<1>6. CASE Quit(a)
  <2>1. NoApp \in App /\ NoApp.at = "off" /\ NoApp.ver = NoExe
    BY LifeAssumption DEF NoApp, App, AppStates
  <2>2. AppsOK'
    BY <1>6, <1>r, <2>1 DEF Quit
  <2>. QED BY <1>6, <2>2, StillKept DEF Quit, IInv, UpTypes, lifeVars, LifeStill
<1>7. CASE Changed(a)
  <2>1. [staged[a] EXCEPT !.exe = Broken] \in Copies
    BY <1>0 DEF Copies, Files
  <2>2. \A v \in 1..published : [exe |-> v, man |-> v] \in Copies
    BY <1>0, LifeAssumption DEF Copies, Files, Versions
  <2>3. staged' \in [Sessions -> Copies]
    BY <1>7, <2>1, <2>2 DEF Changed, IInv, UpTypes
  <2>. QED BY <1>7, <2>3, StillKept DEF Changed, IInv, UpTypes, LifeStill
<1>. QED BY <1>1, <1>2, <1>3, <1>4, <1>5, <1>6, <1>7 DEF AppStep

(* What an updater does. *)
LEMMA UpdaterTyped ==
  ASSUME IInv, NEW a \in Sessions, UpdaterStep(a)
  PROVE  IInv'
<1>0. /\ upd[a] \in Upd /\ staged[a] \in Copies /\ updDir \in Copies
      /\ Versions \subseteq Files /\ NoExe \in Files /\ Broken \in Files /\ NoFiles \in Copies
  BY DEF IInv, UpTypes, Files, Copies, NoFiles
<1>g. \A s \in UpdStates : Go(a, s) => upd' \in [Sessions -> Upd]
  BY GoIs DEF IInv
<1>u. {"finish", "copy", "verify", "wait", "stop", "swap", "place", "restart"} \subseteq UpdStates
  BY DEF UpdStates
<1>. USE DEF IInv, UpTypes
<1>1. CASE Prepare(a)
  <2>1. updDir' \in Copies
    BY <1>0, <1>1 DEF Prepare, Copies
  <2>. QED BY <1>1, <1>g, <1>u, <2>1, StillKept DEF Prepare, lifeVars, LifeStill
<1>2. CASE CopyStaged(a)
  <2>1. updDir' \in Copies
    BY <1>0, <1>2 DEF CopyStaged, Copies
  <2>. QED BY <1>2, <1>g, <1>u, <2>1, StillKept DEF CopyStaged, lifeVars, LifeStill
<1>3. CASE Verify(a)
  <2>1. updDir' \in Copies /\ upd' \in [Sessions -> Upd]
    BY <1>0, <1>3, <1>g, <1>u DEF Verify
  <2>. QED BY <1>3, <2>1, StillKept DEF Verify, lifeVars, LifeStill
<1>4. CASE StagingFails(a)
  BY <1>0, <1>4, <1>g, <1>u, StillKept DEF StagingFails, sameLife, LifeStill
<1>5. CASE AppExited(a) \/ NotRunning(a) \/ ServiceStopped(a)
  BY <1>5, <1>g, <1>u, StillKept DEF AppExited, NotRunning, ServiceStopped, lifeVars, LifeStill
<1>6. CASE AppHangs(a)
  BY <1>6, <1>g, <1>u, StillKept DEF AppHangs, sameLife, LifeStill
<1>7. CASE StopService(a)
  <2>. DEFINE p == [upd[a] EXCEPT !.at = "stopping"]
              r == [p EXCEPT !.was = TRUE]
  <2>1. upd' = [upd EXCEPT ![a] = r]
    BY <1>7, Zenon DEF StopService
  <2>2. p \in Upd
    BY <1>0 DEF Upd, UpdStates
  <2>. HIDE DEF p
  <2>3. r \in Upd
    BY <2>2 DEF Upd
  <2>. HIDE DEF r
  <2>4. upd' \in [Sessions -> Upd]
    BY <2>1, <2>3
  <2>. QED BY <1>7, <2>4, StopKept DEF StopService
<1>8. CASE StopTimesOut(a)
  BY <1>0, <1>8, <1>g, <1>u, StillKept DEF StopTimesOut, lifeVars, LifeStill
<1>9. CASE Rename(a)
  BY <1>0, <1>9, <1>g, <1>u, StillKept DEF Rename, LifeStill
<1>10. CASE RenameFails(a)
  BY <1>0, <1>10, <1>g, <1>u, StillKept DEF RenameFails, sameLife, LifeStill, NoFault
<1>11. CASE PlaceVerified(a)
  <2>1. exe' \in Files /\ installed' \in Versions
    BY <1>0, <1>11 DEF PlaceVerified, Copies
  <2>2. staged' \in [Sessions -> Copies]
    BY <1>0, <1>11 DEF PlaceVerified
  <2>. QED BY <1>0, <1>11, <1>g, <1>u, <2>1, <2>2, StillKept DEF PlaceVerified, LifeStill
<1>12. CASE PlaceFails(a)
  <2>1. exe' \in Files /\ backup' \in Files /\ cut' \in BOOLEAN
    BY <1>0, <1>12 DEF PlaceFails
  <2>. QED BY <1>0, <1>12, <1>g, <1>u, <2>1, StillKept DEF PlaceFails, LifeStill, NoFault
<1>13. CASE StartService(a)
  <2>1. (LifeTypes /\ Told)'
    <3>1. CASE Started /\ UNCHANGED left
      BY <1>13, <3>1, StartKept DEF StartService
    <3>2. CASE UNCHANGED svc /\ (UNCHANGED left \/ Fault)
      BY <1>13, <3>2, StillKept DEF StartService, LifeStill
    <3>. QED BY <1>13, <3>1, <3>2 DEF StartService
  <2>2. stranded' \in BOOLEAN
    BY <1>13 DEF StartService
  <2>. QED BY <1>13, <1>g, <1>u, <2>1, <2>2 DEF StartService
<1>14. CASE Finish(a)
  <2>1. NoUpd \in Upd
    BY DEF NoUpd, Upd, UpdStates
  <2>2. upd' \in [Sessions -> Upd]
    BY <1>14, <2>1 DEF Finish
  <2>3. exe \in Versions => Ready(exe) \in App /\ Ready(exe).at # "off" /\ Ready(exe).ver # NoExe
    BY LifeAssumption DEF Ready, App, AppStates, Versions, NoExe
  <2>4. /\ app' \in [Sessions -> App]
        /\ \A b \in Sessions : app'[b].at = "off" <=> app'[b].ver = NoExe
    BY <1>14, <2>3 DEF Finish
  <2>5. hung' \in BOOLEAN
    <3>. DEFINE q == app[a].at = "quitting"
    <3>1. hung' = (hung \/ q)
      BY <1>14 DEF Finish
    <3>. HIDE DEF q
    <3>. QED BY <3>1, Zenon
  <2>. QED BY <1>14, <2>2, <2>4, <2>5, StillKept DEF Finish, lifeVars, LifeStill
<1>. QED
  BY <1>1, <1>2, <1>3, <1>4, <1>5, <1>6, <1>7, <1>8, <1>9, <1>10, <1>11, <1>12, <1>13, <1>14
     DEF UpdaterStep

LEMMA EndTyped ==
  ASSUME IInv, OffDuringUpdate \/ CutDuringUpdate
  PROVE  IInv'
<1>1. AllGone /\ Gone /\ pc' = "off" /\ (left' = left \/ Fault)
      /\ UNCHANGED <<doc, published, unsaved, told, retold, ran, mistold>>
  BY DEF OffDuringUpdate, CutDuringUpdate, ShutdownEnds, PowerCut, PcOff
<1>2. (LifeTypes /\ Told)'
  BY <1>1, GoneKept DEF IInv
<1>3. NoApp \in App /\ NoApp.at = "off" /\ NoApp.ver = NoExe /\ NoUpd \in Upd
  BY LifeAssumption DEF NoApp, App, AppStates, NoUpd, Upd, UpdStates
<1>4. exe' \in Files /\ cut' \in BOOLEAN
  BY <1>1 DEF AllGone, IInv, UpTypes, Files
<1>5. /\ app' \in [Sessions -> App] /\ upd' \in [Sessions -> Upd]
      /\ \A a \in Sessions : app'[a].at = "off" <=> app'[a].ver = NoExe
  BY <1>1, <1>3 DEF AllGone
<1>. QED BY <1>1, <1>2, <1>4, <1>5 DEF AllGone, IInv, UpTypes

LEMMA StepTyped == IInv /\ [Next]_vars => IInv'
<1>. SUFFICES ASSUME IInv, [Next]_vars PROVE IInv'
  OBVIOUS
<1>1. CASE LifeStep /\ UNCHANGED updVars
  <2>1. UNCHANGED exe
    BY <1>1 DEF LifeStep, ScmStart, TakeCleanShutdown, RecordVersion, CheckRelease, ScmStop,
       TornDown, Crash, ShutdownBegins, Boot, Publish
  <2>2. (LifeTypes /\ Told)'
    BY <1>1, LifeStepKept DEF IInv, UpTypes
  <2>. QED BY <1>1, <2>1, <2>2 DEF updVars, IInv, UpTypes
<1>2. ASSUME NEW a \in Sessions, AppStep(a) PROVE IInv'
  BY <1>2, AppTyped
<1>3. ASSUME NEW a \in Sessions, UpdaterStep(a) PROVE IInv'
  BY <1>3, UpdaterTyped
<1>4. CASE CleanupStale
  <2>1. (LifeTypes /\ Told)'
    BY <1>4, StillKept DEF CleanupStale, lifeVars, LifeStill, IInv
  <2>2. backup' = NoExe /\ UNCHANGED <<exe, app, staged, updDir, upd, installed, cut, stranded, hung>>
    BY <1>4 DEF CleanupStale, lifeVars
  <2>. QED BY <2>1, <2>2 DEF IInv, UpTypes, Files
<1>5. CASE OffDuringUpdate \/ CutDuringUpdate
  BY <1>5, EndTyped
<1>6. CASE UNCHANGED vars
  <2>1. UNCHANGED lifeVars /\ UNCHANGED updVars
    BY <1>6 DEF vars
  <2>2. (LifeTypes /\ Told)'
    BY <2>1, StillKept DEF lifeVars, LifeStill, IInv
  <2>. QED BY <2>1, <2>2 DEF updVars, lifeVars, IInv, UpTypes
<1>. QED BY <1>1, <1>2, <1>3, <1>4, <1>5, <1>6 DEF Next

LEMMA Invariance == Spec => []IInv
BY InitIInv, StepTyped, PTL DEF Spec

(* For any sessions, releases, faults and updaters at work, every variable *)
(* keeps to its range.                                                     *)
THEOREM TypeCorrect == Spec => []TypeOK
<1>1. IInv => TypeOK
  <2>. SUFFICES ASSUME IInv PROVE TypeOK
    OBVIOUS
  <2>1. left \in 0..Faults /\ unsaved \in 0..Faults
    BY LifeAssumption DEF IInv, LifeTypes
  <2>. QED
    BY <2>1 DEF IInv, LifeTypes, UpTypes, TypeOK, Service, State, Ended, App, Upd, Copies
<1>. QED BY <1>1, Invariance, PTL

(* As long as every save of state.json succeeded, a running service says   *)
(* of the run before it what became of it, whoever stops, kills, replaces  *)
(* or starts it.                                                           *)
THEOREM ReportsTruly == Spec => []CleanIsTrue
<1>1. IInv => CleanIsTrue
  BY DEF IInv, Told, Stored, AtEnd, CleanIsTrue
<1>. QED BY <1>1, Invariance, PTL

(* And no release is announced twice over all its runs, and an update      *)
(* exactly when there was one.                                             *)
THEOREM NoticesTruly == Spec => []NoticesMatch
<1>1. IInv => NoticesMatch
  BY DEF IInv, Told, Stored, NoticesMatch
<1>. QED BY <1>1, Invariance, PTL

----------------------------------------------------------------------------
(* The executable, with one updater at a time.                             *)
AtWork == {"prepare", "copy", "verify", "wait", "stop", "stopping", "swap"}

OneAtWork == \A a, b \in Sessions : upd[a].at # "off" /\ upd[b].at # "off" => a = b
Held(a) ==
  /\ upd[a].at \in {"wait", "stop", "stopping", "swap", "place"} => Acceptable(updDir, upd[a].ver)
  /\ upd[a].at \in AtWork => exe \in Versions
  /\ upd[a].at = "place" => exe = NoExe
  /\ upd[a].at \in AtWork \cup {"place"} => upd[a].ver = installed
PathHeld ==
  /\ exe \in Versions => exe = installed
  /\ exe \notin Versions =>
       backup = installed /\ (cut \/ \E a \in Sessions : upd[a].at = "place")
ServiceHeld == svc.ver # NoExe => svc.ver \in {exe, backup}

PathInv == OneAtWork /\ (\A a \in Sessions : Held(a)) /\ PathHeld /\ ServiceHeld

LEMMA InitPath == Init => PathInv
BY LifeAssumption DEF Init, LifeInit, PathInv, OneAtWork, Held, PathHeld, ServiceHeld, NoUpd,
   Down, AtWork, Versions, NoExe

(* Only what concerns the files matters. *)
LEMMA PathSame ==
  ASSUME PathInv, UNCHANGED <<exe, backup, installed, updDir, upd, svc>>, cut => cut'
  PROVE  PathInv'
BY DEF PathInv, OneAtWork, Held, PathHeld, ServiceHeld

(* A step of the one updater at work need only be seen where it is.        *)
LEMMA AloneKept ==
  ASSUME PathInv, NEW a \in Sessions, upd[a].at # "off",
         \A b \in Sessions \ {a} : upd'[b] = upd[b],
         Held(a)', PathHeld', ServiceHeld'
  PROVE  PathInv'
<1>1. \A b \in Sessions \ {a} : upd'[b].at = "off"
  BY DEF PathInv, OneAtWork
<1>2. OneAtWork'
  BY <1>1 DEF OneAtWork
<1>3. ASSUME NEW b \in Sessions PROVE Held(b)'
  <2>1. CASE b = a
    BY <2>1
  <2>2. CASE b # a
    BY <1>1, <2>2 DEF Held, AtWork
  <2>. QED BY <2>1, <2>2
<1>. QED BY <1>2, <1>3 DEF PathInv

LEMMA LifePath ==
  ASSUME IInv, PathInv, LifeStep, UNCHANGED updVars
  PROVE  PathInv'
<1>1. UNCHANGED <<exe, backup, installed, updDir, upd, cut>>
  BY DEF updVars, LifeStep, ScmStart, TakeCleanShutdown, RecordVersion, CheckRelease, ScmStop,
     TornDown, Crash, ShutdownBegins, Boot, Publish
<1>2. svc'.ver \in {svc.ver, NoExe, exe}
  BY DEF LifeStep, ScmStart, Started, TakeCleanShutdown, RecordVersion, CheckRelease, ScmStop,
     AnnounceStop, TornDown, Crash, Gone, Down, ShutdownBegins, Boot, Publish, IInv, LifeTypes, Service
<1>. QED BY <1>1, <1>2 DEF PathInv, OneAtWork, Held, PathHeld, ServiceHeld

LEMMA AppPath ==
  ASSUME MaxUpdaters <= 1, IInv, PathInv, NEW a \in Sessions, AppStep(a)
  PROVE  PathInv'
<1>1. CASE Elevate(a)
  <2>. DEFINE U == {b \in Sessions : upd[b].at # "off"}
              u == [at |-> "prepare", ver |-> exe, was |-> FALSE]
  <2>1. U = {}
    <3>1. Cardinality(U) < MaxUpdaters
      BY <1>1 DEF Elevate
    <3>2. IsFiniteSet(U)
      BY UpdateAssumption, FS_Subset
    <3>3. Cardinality(U) \in Nat
      BY <3>2, FS_CardinalityType
    <3>. HIDE DEF U
    <3>4. Cardinality(U) = 0
      BY <3>1, <3>3, UpdateAssumption
    <3>. QED BY <3>2, <3>4, FS_EmptySet
  <2>2. upd' = [upd EXCEPT ![a] = u] /\ exe \in Versions
        /\ UNCHANGED <<exe, backup, installed, updDir, svc, cut>>
    BY <1>1 DEF Elevate, lifeVars
  <2>3. u.at = "prepare" /\ u.ver = installed
    BY <2>2 DEF PathInv, PathHeld
  <2>. HIDE DEF u
  <2>4. \A b \in Sessions : (b # a => upd'[b].at = "off") /\ upd'[a] = u
    BY <2>1, <2>2 DEF IInv, UpTypes
  <2>. HIDE DEF U
  <2>5. OneAtWork'
    BY <2>4 DEF OneAtWork
  <2>6. \A b \in Sessions : Held(b)'
    BY <2>2, <2>3, <2>4 DEF Held, AtWork
  <2>. QED BY <2>2, <2>5, <2>6 DEF PathInv, PathHeld, ServiceHeld
<1>2. CASE ~Elevate(a)
  <2>1. UNCHANGED <<exe, backup, installed, updDir, upd, svc, cut>>
    BY <1>2 DEF AppStep, LaunchApp, Offer, GiveUp, Download, Quit, Changed, lifeVars
  <2>. QED BY <2>1, PathSame
<1>. QED BY <1>1, <1>2

LEMMA UpdaterPath ==
  ASSUME IInv, PathInv, NEW a \in Sessions, UpdaterStep(a)
  PROVE  PathInv'
<1>0. /\ Held(a) /\ PathHeld /\ ServiceHeld /\ upd \in [Sessions -> Upd] /\ upd[a] \in Upd
      /\ installed \in Versions /\ NoExe \notin Versions
  BY LifeAssumption DEF IInv, UpTypes, PathInv, Versions, NoExe
<1>g. ASSUME NEW s \in UpdStates, Go(a, s)
      PROVE  /\ upd'[a].at = s /\ upd'[a].ver = upd[a].ver
             /\ \A b \in Sessions \ {a} : upd'[b] = upd[b]
  BY <1>g, GoIs DEF IInv
<1>u. {"finish", "copy", "verify", "wait", "stop", "swap", "place", "restart"} \subseteq UpdStates
  BY DEF UpdStates
(* The files are left alone. *)
<1>s. ASSUME NEW s \in UpdStates, Go(a, s), upd[a].at # "off",
             UNCHANGED <<exe, backup, installed, cut>>, svc'.ver \in {svc.ver, exe, NoExe},
             exe \in Versions \/ cut,
             s \in AtWork => upd[a].at \in AtWork, s # "place",
             s \in {"wait", "stop", "stopping", "swap"} => Acceptable(updDir', upd[a].ver)
      PROVE  PathInv'
  <2>1. upd'[a].at = s /\ upd'[a].ver = upd[a].ver /\ \A b \in Sessions \ {a} : upd'[b] = upd[b]
    BY <1>g, <1>s
  <2>2. Held(a)'
    BY <1>0, <1>s, <2>1 DEF Held
  <2>3. PathHeld' /\ ServiceHeld'
    BY <1>0, <1>s DEF PathHeld, ServiceHeld
  <2>. QED BY <1>s, <2>1, <2>2, <2>3, AloneKept
<1>w. upd[a].at \in AtWork => exe \in Versions
  BY <1>0 DEF Held
<1>. USE DEF AtWork
<1>1. CASE Prepare(a)
  BY <1>1, <1>s, <1>u, <1>w DEF Prepare, At, lifeVars
<1>2. CASE CopyStaged(a)
  BY <1>2, <1>s, <1>u, <1>w DEF CopyStaged, At, lifeVars
<1>3. CASE Verify(a)
  <2>1. CASE Acceptable(updDir, upd[a].ver)
    BY <1>3, <1>s, <1>u, <1>w, <2>1 DEF Verify, At, lifeVars
  <2>2. CASE ~Acceptable(updDir, upd[a].ver)
    BY <1>3, <1>s, <1>u, <1>w, <2>2 DEF Verify, At, lifeVars
  <2>. QED BY <2>1, <2>2
<1>4. CASE StagingFails(a)
  BY <1>4, <1>s, <1>u, <1>w DEF StagingFails, sameLife
<1>5. CASE AppExited(a) \/ NotRunning(a) \/ ServiceStopped(a)
  BY <1>0, <1>5, <1>s, <1>u, <1>w DEF AppExited, NotRunning, ServiceStopped, At, lifeVars, Held
<1>6. CASE AppHangs(a)
  BY <1>0, <1>6, <1>s, <1>u, <1>w DEF AppHangs, At, sameLife, Held
<1>7. CASE StopService(a)
  <2>. DEFINE p == [upd[a] EXCEPT !.at = "stopping"]
              r == [p EXCEPT !.was = TRUE]
  <2>1. upd' = [upd EXCEPT ![a] = r]
    BY <1>0, <1>7, Zenon DEF StopService
  <2>2. p \in Upd /\ p.at = "stopping" /\ p.ver = upd[a].ver
    BY <1>0 DEF Upd, UpdStates
  <2>. HIDE DEF p
  <2>3. r.at = "stopping" /\ r.ver = upd[a].ver
    BY <2>2 DEF Upd
  <2>. HIDE DEF r
  <2>4. svc'.ver = svc.ver /\ UNCHANGED <<exe, backup, installed, cut, updDir>> /\ upd[a].at = "stop"
    BY <1>7 DEF StopService, AnnounceStop, At, IInv, LifeTypes, Service
  <2>5. upd'[a] = r /\ \A b \in Sessions \ {a} : upd'[b] = upd[b]
    BY <1>0, <2>1
  <2>6. Held(a)'
    BY <1>0, <2>3, <2>4, <2>5 DEF Held
  <2>7. PathHeld' /\ ServiceHeld'
    BY <1>0, <1>w, <2>4 DEF PathHeld, ServiceHeld
  <2>. QED BY <2>4, <2>5, <2>6, <2>7, AloneKept
<1>8. CASE StopTimesOut(a)
  BY <1>8, <1>s, <1>u, <1>w DEF StopTimesOut, At, lifeVars
<1>9. CASE Rename(a)
  <2>1. /\ upd[a].at = "swap" /\ exe \in Versions /\ ~Mapped /\ exe' = NoExe /\ backup' = exe
        /\ Go(a, "place") /\ UNCHANGED <<updDir, installed, cut, svc>>
    BY <1>9, <1>w DEF Rename, At
  <2>2. upd'[a].at = "place" /\ upd'[a].ver = upd[a].ver /\ \A b \in Sessions \ {a} : upd'[b] = upd[b]
    BY <1>g, <1>u, <2>1
  <2>3. Held(a)'
    BY <1>0, <2>1, <2>2 DEF Held
  <2>4. PathHeld'
    BY <1>0, <2>1, <2>2 DEF PathHeld
  <2>5. svc.ver # NoExe => svc.ver = exe
    BY <1>0, <2>1 DEF ServiceHeld, Mapped, Runs
  <2>. QED BY <2>1, <2>2, <2>3, <2>4, <2>5, AloneKept DEF ServiceHeld
<1>10. CASE RenameFails(a)
  BY <1>10, <1>s, <1>u, <1>w DEF RenameFails, At, sameLife
<1>11. CASE PlaceVerified(a)
  <2>1. /\ upd[a].at = "place" /\ Acceptable(updDir, upd[a].ver) /\ exe = NoExe /\ exe' = updDir.exe
        /\ Go(a, "restart") /\ UNCHANGED <<backup, cut, svc>>
        /\ installed' = IF updDir.exe \in Versions THEN updDir.exe ELSE installed
    BY <1>0, <1>11 DEF PlaceVerified, At, Held
  <2>2. upd'[a].at = "restart" /\ \A b \in Sessions \ {a} : upd'[b] = upd[b]
    BY <1>g, <1>u, <2>1
  <2>3. exe' \in Versions /\ installed' = exe'
    BY <2>1 DEF Acceptable
  <2>4. Held(a)' /\ PathHeld'
    BY <2>2, <2>3 DEF Held, PathHeld
  <2>5. ServiceHeld'
    BY <1>0, <2>1 DEF ServiceHeld
  <2>. QED BY <2>1, <2>2, <2>4, <2>5, AloneKept
<1>12. CASE PlaceFails(a)
  <2>1. /\ upd[a].at = "place" /\ exe = NoExe /\ backup = installed /\ Go(a, "restart")
        /\ UNCHANGED <<installed, svc>>
        /\ \/ exe' = backup /\ backup' = NoExe
           \/ exe' = NoExe /\ cut' = TRUE /\ UNCHANGED backup
    BY <1>0, <1>12 DEF PlaceFails, At, Held, PathHeld
  <2>2. upd'[a].at = "restart" /\ \A b \in Sessions \ {a} : upd'[b] = upd[b]
    BY <1>g, <1>u, <2>1
  <2>3. Held(a)' /\ PathHeld'
    BY <1>0, <2>1, <2>2 DEF Held, PathHeld
  <2>4. ServiceHeld'
    BY <1>0, <2>1 DEF ServiceHeld
  <2>. QED BY <2>1, <2>2, <2>3, <2>4, AloneKept
<1>13. CASE StartService(a)
  <2>1. upd[a].at = "restart" /\ Go(a, "finish") /\ UNCHANGED <<exe, backup, installed, cut, updDir>>
        /\ svc'.ver \in {svc.ver, exe}
    BY <1>13 DEF StartService, At, Started
  <2>2. exe \notin Versions => cut
    BY <1>0, <2>1 DEF PathHeld, PathInv, OneAtWork
  <2>. QED BY <1>s, <1>u, <2>1, <2>2
<1>14. CASE Finish(a)
  <2>1. upd' = [upd EXCEPT ![a] = NoUpd] /\ UNCHANGED <<exe, backup, installed, cut, updDir, svc>>
        /\ upd[a].at = "finish"
    BY <1>14 DEF Finish, At, lifeVars
  <2>2. upd'[a].at = "off" /\ \A b \in Sessions \ {a} : upd'[b] = upd[b]
    BY <1>0, <2>1 DEF NoUpd
  <2>3. exe \notin Versions => cut
    BY <1>0, <2>1 DEF PathHeld, PathInv, OneAtWork
  <2>4. Held(a)' /\ PathHeld' /\ ServiceHeld'
    BY <1>0, <2>1, <2>2, <2>3 DEF Held, PathHeld, ServiceHeld
  <2>. QED BY <2>1, <2>2, <2>4, AloneKept
<1>. QED
  BY <1>1, <1>2, <1>3, <1>4, <1>5, <1>6, <1>7, <1>8, <1>9, <1>10, <1>11, <1>12, <1>13, <1>14
     DEF UpdaterStep

(* The one step that stays outside the updater: .old goes, unless the      *)
(* service runs from it.                                                   *)
LEMMA CleanupPath ==
  ASSUME IInv, PathInv, CleanupStale
  PROVE  PathInv'
<1>1. /\ svc.ver # NoExe /\ svc.ver # backup /\ backup' = NoExe
      /\ UNCHANGED <<exe, installed, updDir, upd, svc, cut>>
  BY DEF CleanupStale, Mapped, Runs, lifeVars, IInv, LifeTypes
<1>2. svc.ver = exe /\ exe \in Versions
  BY <1>1 DEF PathInv, ServiceHeld, IInv, LifeTypes, Service
<1>. QED BY <1>1, <1>2 DEF PathInv, OneAtWork, Held, PathHeld, ServiceHeld

LEMMA EndPath ==
  ASSUME IInv, PathInv, OffDuringUpdate \/ CutDuringUpdate
  PROVE  PathInv'
<1>1. /\ AllGone /\ svc'.ver = NoExe
  BY DEF OffDuringUpdate, CutDuringUpdate, ShutdownEnds, PowerCut, PcOff, Gone, Down
<1>2. \A a \in Sessions : upd'[a].at = "off"
  BY <1>1 DEF AllGone, NoUpd
<1>3. OneAtWork' /\ ServiceHeld' /\ \A a \in Sessions : Held(a)'
  BY <1>1, <1>2 DEF OneAtWork, ServiceHeld, Held, AtWork
<1>4. PathHeld'
  <2>1. CASE \E a \in Sessions : upd[a].at = "place"
    <3>1. exe \notin Versions /\ backup = installed
      BY <2>1, LifeAssumption DEF PathInv, Held, PathHeld, Versions, NoExe
    <3>2. exe' \notin Versions /\ cut' /\ UNCHANGED <<backup, installed>>
      BY <1>1, <2>1, LifeAssumption DEF AllGone, Versions, NoExe, Broken
    <3>. QED BY <3>1, <3>2 DEF PathHeld
  <2>2. CASE ~\E a \in Sessions : upd[a].at = "place"
    BY <1>1, <2>2 DEF AllGone, PathInv, PathHeld
  <2>. QED BY <2>1, <2>2
<1>. QED BY <1>3, <1>4 DEF PathInv

LEMMA StepPath ==
  ASSUME MaxUpdaters <= 1, IInv, PathInv, [Next]_vars
  PROVE  PathInv'
<1>1. CASE LifeStep /\ UNCHANGED updVars
  BY <1>1, LifePath
<1>2. ASSUME NEW a \in Sessions, AppStep(a) PROVE PathInv'
  BY <1>2, AppPath
<1>3. ASSUME NEW a \in Sessions, UpdaterStep(a) PROVE PathInv'
  BY <1>3, UpdaterPath
<1>4. CASE CleanupStale
  BY <1>4, CleanupPath
<1>5. CASE OffDuringUpdate \/ CutDuringUpdate
  BY <1>5, EndPath
<1>6. CASE UNCHANGED vars
  BY <1>6, PathSame DEF vars, lifeVars, updVars
<1>. QED BY <1>1, <1>2, <1>3, <1>4, <1>5, <1>6 DEF Next

(* With one updater at work at a time, there is always a whole executable  *)
(* to run or to restore, however swaps, crashes, shutdowns and power cuts  *)
(* follow each other, and whoever changes the staged files.                *)
THEOREM AlwaysAnExe ==
  ASSUME MaxUpdaters <= 1
  PROVE  Spec => []ExeWholeOrKept
<1>1. Init => IInv /\ PathInv
  BY InitIInv, InitPath
<1>2. (IInv /\ PathInv) /\ [Next]_vars => (IInv /\ PathInv)'
  BY StepTyped, StepPath
<1>3. IInv /\ PathInv => ExeWholeOrKept
  BY DEF IInv, UpTypes, PathInv, PathHeld, ExeWholeOrKept
<1>. QED BY <1>1, <1>2, <1>3, PTL DEF Spec

(* What a step puts at the install path.                                   *)
LEMMA PathStep ==
  ASSUME IInv, PathInv, [Next]_vars, exe' # exe, exe' # NoExe
  PROVE  \/ cut'
         \/ exe' = installed
         \/ exe' \in Versions /\ exe' > installed /\ MinVersion[exe'] <= installed
<1>1. PICK a \in Sessions : PlaceVerified(a) \/ PlaceFails(a) \/ cut'
  <2>1. CASE OffDuringUpdate \/ CutDuringUpdate
    <3>1. AllGone
      BY <2>1 DEF OffDuringUpdate, CutDuringUpdate
    <3>2. PICK b \in Sessions : upd[b].at = "place"
      BY <3>1 DEF AllGone
    <3>. QED BY <3>1, <3>2 DEF AllGone
  <2>2. CASE ~(OffDuringUpdate \/ CutDuringUpdate)
    BY <2>2 DEF Next, vars, lifeVars, updVars, sameLife, LifeStep, ScmStart, TakeCleanShutdown,
       RecordVersion, CheckRelease, ScmStop, TornDown, Crash, ShutdownBegins, Boot, Publish,
       AppStep, LaunchApp, Offer, GiveUp, Download, Elevate, Quit, Changed, CleanupStale,
       UpdaterStep, Prepare, CopyStaged, Verify, StagingFails, AppExited, AppHangs, StopService,
       NotRunning, ServiceStopped, StopTimesOut, Rename, RenameFails, StartService, Finish
  <2>. QED BY <2>1, <2>2
<1>2. CASE PlaceVerified(a)
  <2>1. exe' = updDir.exe /\ Acceptable(updDir, upd[a].ver) /\ upd[a].ver = installed
    BY <1>2 DEF PlaceVerified, At, PathInv, Held
  <2>. QED BY <2>1 DEF Acceptable
<1>3. CASE PlaceFails(a)
  <2>1. exe \notin Versions /\ backup = installed
    BY <1>3, LifeAssumption DEF PlaceFails, At, PathInv, Held, PathHeld, Versions, NoExe
  <2>. QED BY <1>3, <2>1 DEF PlaceFails
<1>. QED BY <1>1, <1>2, <1>3

(* With one updater at work at a time the install path only ever gets a    *)
(* newer release that is open to an update from the installed one, or that *)
(* one back; what a power cut tore is set apart.                           *)
THEOREM NeverGoesBack ==
  ASSUME MaxUpdaters <= 1
  PROVE  Spec => NeverOlder
<1>1. Init => IInv /\ PathInv
  BY InitIInv, InitPath
<1>2. (IInv /\ PathInv) /\ [Next]_vars => (IInv /\ PathInv)'
  BY StepTyped, StepPath
<1>3. IInv /\ PathInv /\ [Next]_vars =>
        [exe' # exe /\ exe' \notin {NoExe} =>
           \/ cut'
           \/ exe' = installed
           \/ exe' \in Versions /\ exe' > installed /\ MinVersion[exe'] <= installed]_vars
  BY PathStep
<1>. QED BY <1>1, <1>2, <1>3, PTL DEF Spec, NeverOlder

----------------------------------------------------------------------------
(* The order of versions, for every version and suffix. *)
LEMMA TokenIrreflexive == \A s \in Token : ~OlderToken(s, s)
  BY DEF Token, OlderToken

LEMMA TokenTransitive ==
  \A s, t, u \in Token : OlderToken(s, t) /\ OlderToken(t, u) => OlderToken(s, u)
  BY DEF Token, OlderToken

LEMMA PreIrreflexive == \A p \in Seq(Token) : ~OlderPre(p, p)
  <1> SUFFICES ASSUME NEW p \in Seq(Token), OlderPre(p, p) PROVE FALSE
    OBVIOUS
  <1>1. PICK k \in 1..Len(p) : OlderToken(p[k], p[k])
    BY DEF OlderPre
  <1>2. p[k] \in Token
    OBVIOUS
  <1> QED BY <1>1, <1>2, TokenIrreflexive

(* Of two differences in a row, the earlier one decides. *)
LEMMA PreTransitive ==
  \A p, q, r \in Seq(Token) : OlderPre(p, q) /\ OlderPre(q, r) => OlderPre(p, r)
  <1> SUFFICES ASSUME NEW p \in Seq(Token), NEW q \in Seq(Token), NEW r \in Seq(Token),
                      OlderPre(p, q), OlderPre(q, r)
               PROVE  OlderPre(p, r)
    OBVIOUS
  <1>1. PICK k \in 1..Len(q) : /\ \A j \in 1..k-1 : j <= Len(p) /\ p[j] = q[j]
                               /\ (Len(p) < k \/ OlderToken(p[k], q[k]))
    BY DEF OlderPre
  <1>2. PICK l \in 1..Len(r) : /\ \A j \in 1..l-1 : j <= Len(q) /\ q[j] = r[j]
                               /\ (Len(q) < l \/ OlderToken(q[l], r[l]))
    BY DEF OlderPre
  <1>3. k \in Nat /\ l \in Nat /\ Len(p) \in Nat /\ Len(q) \in Nat /\ Len(r) \in Nat
    OBVIOUS
  <1>4. CASE k < l
    <2>1. k \in 1..Len(r) /\ q[k] = r[k]
      BY <1>2, <1>3, <1>4
    <2>2. \A j \in 1..k-1 : j <= Len(p) /\ p[j] = r[j]
      BY <1>1, <1>2, <1>3, <1>4
    <2> QED BY <1>1, <2>1, <2>2 DEF OlderPre
  <1>5. CASE k = l
    <2>1. \A j \in 1..k-1 : j <= Len(p) /\ p[j] = r[j]
      BY <1>1, <1>2, <1>5
    <2>2. OlderToken(q[k], r[k]) /\ q[k] \in Token /\ r[k] \in Token
      BY <1>1, <1>2, <1>3, <1>5
    <2>3. ASSUME ~(Len(p) < k) PROVE OlderToken(p[k], r[k])
      <3>1. p[k] \in Token /\ OlderToken(p[k], q[k])
        BY <1>1, <1>3, <2>3
      <3> QED BY <2>2, <3>1, TokenTransitive
    <2> QED BY <1>5, <2>1, <2>3 DEF OlderPre
  <1>6. CASE l < k
    <2>1. \A j \in 1..l-1 : j <= Len(p) /\ p[j] = r[j]
      BY <1>1, <1>2, <1>3, <1>6
    <2>2. l <= Len(p) /\ p[l] = q[l] /\ OlderToken(q[l], r[l])
      BY <1>1, <1>2, <1>3, <1>6
    <2> QED BY <2>1, <2>2 DEF OlderPre
  <1> QED BY <1>3, <1>4, <1>5, <1>6

(* No version is newer than itself: an installed release is never offered  *)
(* again, nor is the same one under another spelling (Version.Compare).    *)
THEOREM OlderIrreflexive == \A v \in Version : ~Older(v, v)
  BY PreIrreflexive DEF Version, Older, OlderNumbers

(* Older is transitive over numbers and suffixes of any length, so a chain *)
(* of updates never comes back to a version it left (Version.Compare,      *)
(* comparePre).                                                            *)
THEOREM OlderTransitive ==
  \A u, v, w \in Version : Older(u, v) /\ Older(v, w) => Older(u, w)
  <1> SUFFICES ASSUME NEW u \in Version, NEW v \in Version, NEW w \in Version,
                      Older(u, v), Older(v, w)
               PROVE  Older(u, w)
    OBVIOUS
  <1>1. CASE OlderNumbers(u, v) \/ OlderNumbers(v, w)
    <2>1. OlderNumbers(u, w)
      BY <1>1 DEF Version, Older, OlderNumbers, SameNumbers
    <2> QED BY <2>1 DEF Older
  <1>2. CASE ~OlderNumbers(u, v) /\ ~OlderNumbers(v, w)
    <2>1. SameNumbers(u, v) /\ SameNumbers(v, w) /\ ~u.final /\ ~v.final
      BY <1>2 DEF Older
    <2>2. SameNumbers(u, w)
      BY <2>1 DEF SameNumbers
    <2>3. CASE w.final
      BY <2>1, <2>2, <2>3 DEF Older
    <2>4. CASE ~w.final
      <3>1. OlderPre(u.pre, v.pre) /\ OlderPre(v.pre, w.pre)
        BY <1>2, <2>1, <2>4 DEF Older
      <3>2. u.pre \in Seq(Token) /\ v.pre \in Seq(Token) /\ w.pre \in Seq(Token)
        BY DEF Version
      <3>3. OlderPre(u.pre, w.pre)
        BY <3>1, <3>2, PreTransitive
      <3> QED BY <2>1, <2>2, <2>4, <3>3 DEF Older
    <2> QED BY <2>3, <2>4
  <1> QED BY <1>1, <1>2

(* What the dialog offers for installing, the elevated updater accepts if  *)
(* the staged files are still those the manifest named: the two judge the  *)
(* same release by different checks, and no user is asked for elevation    *)
(* in vain (showUpdateChoice, stageVerifiedUpdate).                        *)
THEOREM OfferedIsInstallable ==
  ASSUME NEW list, NEW current, NEW arch, Offered(list, current, arch),
         NEW hash, HashMatches(list[Newest(list)].man, arch, hash)
  PROVE  Installable(list[Newest(list)].man, hash, current, arch)
  <1> DEFINE r == list[Newest(list)]
  <1>1. IsNewer(current, r.tag) /\ CanInstall(r, current, arch) /\ HashMatches(r.man, arch, hash)
    BY DEF Offered
  <1>2. FetchManifest(r) = "ok" /\ Allows(r.man, current)
    BY <1>1 DEF CanInstall
  <1>3. VerifyManifest(r.man) /\ r.man.version = r.tag
    BY <1>2 DEF FetchManifest
  <1> QED BY <1>1, <1>2, <1>3 DEF Installable

----------------------------------------------------------------------------
(* The reasons the service gives (StopReason).  FirstOf picks the least of *)
(* any set of places.                                                      *)
LEMMA FirstIsLeast ==
  ASSUME NEW S, S \subseteq Nat, S # {}
  PROVE  FirstOf(S) \in S /\ \A j \in S : FirstOf(S) <= j
  <1>1. PICK m \in S : \A n \in S : ~(<<n, m>> \in OpToRel(<, Nat))
    BY WFMin, NatLessThanWellFounded
  <1>2. ASSUME NEW n \in S, n < m PROVE FALSE
    <2>1. <<n, m>> \in Nat \X Nat /\ <<n, m>>[1] < <<n, m>>[2]
      BY <1>2
    <2>2. <<n, m>> \in OpToRel(<, Nat)
      BY <2>1 DEF OpToRel
    <2> QED BY <1>1, <2>2
  <1>3. \A j \in S : m <= j
    BY <1>2
  <1> QED BY <1>3 DEF FirstOf

Rows == 1..11

LEMMA RowsOfTable ==
  /\ DOMAIN ShutdownTypes = Rows
  /\ \A i \in 1..3 : ShutdownTypes[i].reason = "restart"
  /\ \A i \in 4..7 : ShutdownTypes[i].reason = "shutdown"
  /\ \A i \in 8..9 : ShutdownTypes[i].reason = "hibernate"
  /\ \A i \in 10..11 : ShutdownTypes[i].reason = "suspend"
  BY DEF ShutdownTypes, Rows

(* The type read is that of the first row the text has. *)
LEMMA TypeIsFirst ==
  ASSUME NEW text, Known(text)
  PROVE  \E i \in RowsIn(text) :
           i \in Rows /\ (\A j \in RowsIn(text) : i <= j) /\ TypeIn(text) = ShutdownTypes[i].reason
  <1> DEFINE i == FirstOf(RowsIn(text))
  <1>1. RowsIn(text) \subseteq Rows
    BY RowsOfTable DEF RowsIn
  <1>2. RowsIn(text) \subseteq Nat
    BY <1>1 DEF Rows
  <1>3. i \in RowsIn(text) /\ \A j \in RowsIn(text) : i <= j
    BY <1>2, FirstIsLeast DEF Known
  <1> QED BY <1>1, <1>3 DEF TypeIn

LEMMA TypesGiven ==
  ASSUME NEW text, Known(text) PROVE TypeIn(text) \in {"restart", "shutdown", "hibernate", "suspend"}
  <1>1. PICK i \in Rows : TypeIn(text) = ShutdownTypes[i].reason
    BY TypeIsFirst
  <1>2. i \in 1..3 \/ i \in 4..7 \/ i \in 8..9 \/ i \in 10..11
    BY DEF Rows
  <1> QED BY <1>1, <1>2, RowsOfTable

LEMMA KnownIsThere ==
  ASSUME NEW data \in Strings, NEW named \in BOOLEAN, KnownAt(data, named) # {}
  PROVE  FirstOf(KnownAt(data, named)) \in KnownAt(data, named)
  <1>1. KnownAt(data, named) \subseteq Nat
    BY DEF KnownAt, Strings
  <1> QED BY <1>1, FirstIsLeast

LEMMA LogSays ==
  ASSUME NEW log \in Logs, NEW now \in Int
  PROVE  LogReason(log, now) \in {"none", "restart", "shutdown", "hibernate", "suspend"}
  <1>1. log.data \in Strings
    BY DEF Logs
  <1>2. CASE KnownAt(log.data, TRUE) # {}
    <2>1. Known(log.data[FirstOf(KnownAt(log.data, TRUE))].text)
      BY <1>1, <1>2, KnownIsThere DEF KnownAt
    <2> QED BY <1>2, <2>1, TypesGiven DEF LogReason, TypeOf
  <1>3. CASE KnownAt(log.data, TRUE) = {} /\ KnownAt(log.data, FALSE) # {}
    <2>1. Known(log.data[FirstOf(KnownAt(log.data, FALSE))].text)
      BY <1>1, <1>3, KnownIsThere DEF KnownAt
    <2> QED BY <1>3, <2>1, TypesGiven DEF LogReason, TypeOf
  <1>4. CASE KnownAt(log.data, TRUE) = {} /\ KnownAt(log.data, FALSE) = {}
    BY <1>4 DEF LogReason, TypeOf
  <1> QED BY <1>2, <1>3, <1>4

(* Every stop and every sleep is told with a reason the driver knows, and  *)
(* never as "unknown"; the PC is said to stay on (app_stop) for exactly    *)
(* the plain stops that no recent power command explains, so neither a     *)
(* shutdown nor a sleep is ever shown as the app being down (stopReason,   *)
(* powerTracker.handle).                                                   *)
THEOREM ReasonIsKnown ==
  ASSUME NEW hint \in Hints, NEW system \in BOOLEAN, NEW log \in Logs, NEW now \in Int
  PROVE  /\ StopReason(hint, system, log, now) \in DriverReasons \ {"unknown"}
         /\ StopReason(hint, system, log, now) = "app_stop" <=> ~system /\ ~Explains(hint, now)
         /\ SuspendReason(hint, now) \in DriverReasons \ {"unknown", "app_stop"}
  <1>1. Explains(hint, now) =>
          CommandReason(hint.command) \in {"shutdown", "restart", "suspend", "hibernate"}
    BY DEF Explains, Hints, PowerCommands, CommandReason
  <1>2. LogReason(log, now) \in {"none", "restart", "shutdown", "hibernate", "suspend"}
    BY LogSays
  <1> QED BY <1>1, <1>2 DEF StopReason, SuspendReason, Reason, DriverReasons

(* A restart that Windows began itself is never shown as a power off: when *)
(* the record of the shutdown under way says restart, so does the service, *)
(* whatever else its text contains (localShutdownReason, matchShutdown-    *)
(* Type, shutdownTypeOf).                                                  *)
THEOREM RestartIsTold ==
  ASSUME NEW hint \in Hints, NEW log \in Logs, NEW now \in Int,
         ~Explains(hint, now),
         log.answer = "record", log.dated => now - log.at <= ShutdownWindow,
         NEW i \in DOMAIN log.data, log.data[i].name = "param5",
         \A j \in DOMAIN log.data : log.data[j].name = "param5" => j = i,
         log.data[i].text \cap {"restart", "dasiSijak", "jaesijak"} # {}
  PROVE  StopReason(hint, TRUE, log, now) = "restart"
  <1> DEFINE text == log.data[i].text
  <1>1. PICK r \in 1..3 : r \in RowsIn(text)
    BY DEF RowsIn, ShutdownTypes
  <1>2. Known(text)
    BY <1>1 DEF Known
  <1>3. TypeIn(text) = "restart"
    <2>1. PICK k \in Rows : k <= r /\ TypeIn(text) = ShutdownTypes[k].reason
      BY <1>1, <1>2, TypeIsFirst
    <2>2. k \in 1..3
      BY <2>1 DEF Rows
    <2> QED BY <2>1, <2>2, RowsOfTable
  <1>4. KnownAt(log.data, TRUE) = {i}
    BY <1>2 DEF KnownAt
  <1>5. FirstOf({i}) = i
    BY <1>4, KnownIsThere DEF Logs
  <1>6. TypeOf(log.data) = "restart"
    BY <1>3, <1>4, <1>5 DEF TypeOf
  <1>7. log.dated => ~(now - log.at > ShutdownWindow)
    BY DEF Logs, ShutdownWindow
  <1>8. LogReason(log, now) = "restart"
    BY <1>6, <1>7 DEF LogReason
  <1> QED BY <1>8 DEF StopReason

(* A hibernation is never taken for a sleep, though in Korean its name     *)
(* ends in the other's: the table asks for the longer name first.          *)
THEOREM HibernationIsNotSleep ==
  \A text \in Texts : "choedaeJeoljeon" \in text => Known(text) /\ TypeIn(text) # "suspend"
  <1> SUFFICES ASSUME NEW text \in Texts, "choedaeJeoljeon" \in text
               PROVE  Known(text) /\ TypeIn(text) # "suspend"
    OBVIOUS
  <1>1. 9 \in RowsIn(text)
    BY DEF RowsIn, ShutdownTypes
  <1>2. Known(text)
    BY <1>1 DEF Known
  <1>3. PICK k \in Rows : k <= 9 /\ TypeIn(text) = ShutdownTypes[k].reason
    BY <1>1, <1>2, TypeIsFirst
  <1>4. k \in 1..3 \/ k \in 4..7 \/ k \in 8..9
    BY <1>3 DEF Rows
  <1> QED BY <1>2, <1>3, <1>4, RowsOfTable

(* The command the service ran explains the stop that follows: for two     *)
(* minutes, whatever else but a power command runs in between and whatever *)
(* the System log says, the reason is that command's - unless it was a     *)
(* sleep on a modern standby PC, which must not make a later restart of    *)
(* the service look like one (Hint.Note, suspendToStandby).                *)
THEOREM CommandExplains ==
  ASSUME NEW m \in Machine, NEW command \in PowerCommands, NEW caps \in Caps, NEW run \in RunEnds,
         NEW other \in CommandNames \ PowerCommands, NEW later \in RunEnds,
         NEW system \in BOOLEAN, NEW log \in Logs, NEW now \in Int, NEW mid \in Int,
         NEW stop \in Int, stop - now <= HintTTL
  PROVE  LET first == Executed(m, command, caps, run, now)
             second == Executed(first, other, caps, later, mid)
         IN IF command = "suspend" /\ ModernStandby(caps) THEN second.hint = m.hint
            ELSE StopReason(second.hint, system, log, stop) = CommandReason(command)
  <1> DEFINE first == Executed(m, command, caps, run, now)
             second == Executed(first, other, caps, later, mid)
  <1>1. second.hint = first.hint
    BY DEF Executed, ScreenRun, Did, PowerCommands, CommandNames
  <1>2. CASE command = "suspend" /\ ModernStandby(caps)
    BY <1>1, <1>2 DEF Executed, SuspendRun, Did
  <1>3. CASE ~(command = "suspend" /\ ModernStandby(caps))
    <2>1. first.hint = [command |-> command, at |-> now]
      BY <1>3 DEF Executed, SuspendRun, ToolRun, Did, Noted, PowerCommands
    <2>2. Explains(first.hint, stop)
      BY <2>1 DEF Explains, PowerCommands
    <2> QED BY <1>1, <1>3, <2>1, <2>2 DEF StopReason
  <1> QED BY <1>2, <1>3

(* A PC that sleeps in modern standby is never asked for the call that     *)
(* hibernates it, not even after the display could not be turned off; and  *)
(* only a PC known to have no modern standby is (suspendToStandby).        *)
THEOREM StandbyNeverHibernates ==
  ASSUME NEW m \in Machine, NEW command \in CommandNames, NEW caps \in Caps, NEW run \in RunEnds,
         NEW now \in Int
  PROVE  LET did == Executed(m, command, caps, run, now)
         IN /\ did.asked = "SetSuspendState" => ~ModernStandby(caps)
            /\ command = "suspend" /\ ModernStandby(caps) => (did.raised \/ did.display = "off")
  BY DEF Executed, SuspendRun, ToolRun, ScreenRun, Did, PowerCommands, RunEnds

(* The display state the hub reads changes only with a screen broadcast    *)
(* that was sent, is pushed exactly when it changes, and is left alone by  *)
(* every run that raised an error - so a screen that stayed dark in        *)
(* standby is never shown as on (setScreen, setDisplayState).              *)
THEOREM DisplayIsWhatWasDone ==
  ASSUME NEW m \in Machine, NEW command \in CommandNames, NEW caps \in Caps, NEW run \in RunEnds,
         NEW now \in Int
  PROVE  LET did == Executed(m, command, caps, run, now)
         IN /\ did.pushed <=> did.display # m.display
            /\ did.pushed => did.asked = "screen" /\ ~did.raised /\ run # "failed"
            /\ did.display \in Displays
  BY DEF Executed, SuspendRun, ToolRun, ScreenRun, NotWoken, Did, PowerCommands, RunEnds,
         Machine, Displays

(* No command of the network takes effect unseen: each but ping is the     *)
(* last_command and is announced, once, as deferred or as received; the    *)
(* bot's own are neither, and force never waits (dispatchCommand).         *)
THEOREM NothingRunsUnseen ==
  \A call \in Calls, setting \in BOOLEAN, free \in BOOLEAN :
    /\ call.origin \in {"remote", "smartthings"} /\ call.command # "ping" =>
         Recorded(call) /\ Notice(call, setting, free) # "none"
    /\ call.origin = "telegram" =>
         ~Recorded(call) /\ (RunsNow(call, setting, free) => Notice(call, setting, free) = "none")
    /\ call.command = "forceshutdown" => RunsNow(call, setting, free)
  BY DEF Calls, Recorded, Notice, Notifies, Deferred, RunsNow, GraceCommands
============================================================================
