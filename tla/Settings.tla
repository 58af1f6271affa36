------------------------------ MODULE Settings ------------------------------
(***************************************************************************)
(* The tray app's settings: its forms and the one save path of all tabs    *)
(* (gui/forms.go, gui/savebar.go and the tabs' models), the load that      *)
(* (re)connects, follows a changed port and logs in (gui/gui.go,           *)
(* gui/port.go, gui/locallogin.go, gui/login.go), against ConfigApi.       *)
(***************************************************************************)
EXTENDS ConfigApi

CONSTANT Admins   \* the apps whose user is an administrator

ASSUME AdminsAssumption == Admins \subseteq Apps

VARIABLES
  conn,    \* connected
  trust,   \* "unknown", "local", "refused"
  login,   \* the login dialog: "idle", "prompting", "deferred"
  port,    \* the port the client calls
  base,    \* the baseline: the config as last fetched or saved
  form,    \* what the tabs' entries hold
  load,    \* initialLoad: [at, got, moved, tried]
  nulled,  \* history: a save of the presets was posted without them
  save     \* the save in flight: [at, tabs, sent, locked, relog, token, got, again, err]

appVars == <<conn, trust, login, port, base, form, load, save, nulled>>
vars == <<apiVars, appVars>>

Tabs == {"settings", "presets", "telegram"}
FieldsOf == [t \in Tabs |-> CASE t = "settings" -> {"port", "secret"}
                              [] t = "presets"  -> {"presets"}
                              [] t = "telegram" -> {"token"}]

NoLoad == [at |-> "idle", got |-> NoConfig, moved |-> FALSE, tried |-> FALSE]
NoSave == [at |-> "idle", tabs |-> {}, sent |-> NoConfig, locked |-> FALSE,
           relog |-> FALSE, token |-> 0, got |-> NoConfig, again |-> FALSE, err |-> FALSE]

Init ==
  /\ ApiInit
  /\ conn = [a \in Apps |-> FALSE]
  /\ trust = [a \in Apps |-> "unknown"]
  /\ login = [a \in Apps |-> "idle"]
  /\ port = [a \in Apps |-> 0]
  /\ base = [a \in Apps |-> NoConfig]
  /\ form = [a \in Apps |-> [f \in Fields |-> 0]]
  /\ load = [a \in Apps |-> NoLoad]
  /\ save = [a \in Apps |-> NoSave]
  /\ nulled = [a \in Apps |-> FALSE]

Loaded(a) == base[a] # NoConfig
Reaches(a) == listen # Down /\ port[a] = listen

----------------------------------------------------------------------------
(* The form model.  A token that is empty or masked is no change.          *)
DirtyIn(f, t, b) ==
  IF t = "telegram" THEN f.token \notin {0, Masked}
  ELSE \E k \in FieldsOf[t] : f[k] # b[k]

Dirty(a, t, b) == DirtyIn(form[a], t, b)
DirtyTabs(a) == {t \in Tabs : Loaded(a) /\ Dirty(a, t, base[a])}

(* merge: the baseline with the saving tabs' fields over it. *)
Merge(a, tabs) ==
  [k \in Fields |->
     IF \A t \in tabs : k \notin FieldsOf[t] THEN base[a][k]
     ELSE IF k = "token" /\ form[a].token = 0 THEN base[a].token
     ELSE form[a][k]]

(* wireConfig: locked out of the presets, the app sends none. *)
Wire(sent, locked) == IF locked THEN [sent EXCEPT !.presets = Keep] ELSE sent

(* adopt: a tab that differs from ref keeps its edits, any other is        *)
(* refilled from the new baseline.                                         *)
AdoptAll(a, fresh, ref) ==
  /\ base' = [base EXCEPT ![a] = fresh]
  /\ form' = [form EXCEPT ![a] = fresh]

Adopt(a, fresh, ref) ==
  /\ base' = [base EXCEPT ![a] = fresh]
  /\ form' = [form EXCEPT ![a] = [k \in Fields |->
       IF \E t \in Tabs : k \in FieldsOf[t] /\ ref # NoConfig /\ Dirty(a, t, ref)
       THEN form[a][k] ELSE fresh[k]]]

(* The user types into a tab; the presets are locked while the local       *)
(* session is refused.                                                     *)
Type(a, k) ==
  /\ k \in Typable /\ Loaded(a)
  /\ k = "presets" => trust[a] # "refused"
  /\ edits < MaxEdits /\ edits' = edits + 1
  /\ form' = [form EXCEPT ![a][k] = edits + 1]
  /\ UNCHANGED <<file, live, tray, listen, cookie, req, restarts, left, stored,
                 conn, trust, login, port, base, load, save, nulled>>

(* promptUnsaved: the dirty tabs are refilled from the baseline.  Bound:   *)
(* not while a save is in flight.                                          *)
Discard(a, t) ==
  /\ t \in DirtyTabs(a) /\ save[a].at = "idle"
  /\ form' = [form EXCEPT ![a] = [k \in Fields |-> IF k \in FieldsOf[t] THEN base[a][k] ELSE @[k]]]
  /\ UNCHANGED <<apiVars, conn, trust, login, port, base, load, save, nulled>>

----------------------------------------------------------------------------
(* tryLocalLogin: gone through, refused (no administrator, a lookup that   *)
(* failed, too many attempts), held back for the two minutes after a       *)
(* refusal (localLoginGate), or nobody answered.                           *)
Vouched(a) == Reaches(a) /\ a \in Admins

LocalLoginGoes(a) ==
  /\ Vouched(a)
  /\ cookie' = [cookie EXCEPT ![a] = "local"]
  /\ trust' = [trust EXCEPT ![a] = "local"]
  /\ UNCHANGED left

LocalLoginFails(a) ==
  /\ IF trust[a] = "refused" THEN UNCHANGED <<trust, left>>
     ELSE IF ~Reaches(a) THEN UNCHANGED <<trust, left>>
     ELSE /\ trust' = [trust EXCEPT ![a] = "refused"]
          /\ IF Vouched(a) THEN Fault ELSE UNCHANGED left
  /\ UNCHANGED cookie

NoLocalLogin == UNCHANGED <<cookie, trust, left>>

sameApi == <<file, live, tray, listen, edits, restarts, stored>>

Forget(a) == trust' = [trust EXCEPT ![a] = IF @ = "local" THEN "unknown" ELSE @]

(* The polls of a connected app, GET /api/schedule the first: an answer    *)
(* that is not 200 is a lost connection (markDisconnectedOnNetError).      *)
Poll(a) ==
  /\ conn[a]
  /\ ~(Reaches(a) /\ Allowed(a))
  /\ conn' = [conn EXCEPT ![a] = FALSE]
  /\ Forget(a)
  /\ UNCHANGED <<apiVars, login, port, base, form, load, save, nulled>>

(* initialLoad: by connTick while disconnected, and when a login went      *)
(* through; ensureLocalSession first.                                      *)
Starts(a) == ~conn[a] /\ load[a].at = "idle" /\ login[a] # "prompting"

EnsureLocal(a) ==
  /\ load[a].at = "session" \/ Starts(a)
  /\ IF trust[a] = "local" THEN NoLocalLogin
     ELSE LocalLoginGoes(a) \/ LocalLoginFails(a)
  /\ load' = [load EXCEPT ![a].at = "get"]
  /\ UNCHANGED <<sameApi, req, conn, login, port, base, form, save, nulled>>

LoadConfig(a) ==
  /\ load[a].at = "get"
  /\ Reaches(a) /\ Allowed(a)
  /\ load' = [load EXCEPT ![a].at = "adopt", ![a].got = View(a)]
  /\ UNCHANGED <<apiVars, conn, trust, login, port, base, form, save, nulled>>

(* followPortChange: over to the port in tray.json, once something answers *)
(* there.                                                                  *)
FollowPortStays(a) ==
  /\ load[a].at = "get" /\ ~load[a].moved
  /\ ~Reaches(a)
  /\ listen # Down /\ tray = listen
  /\ load' = [load EXCEPT ![a].at = "session", ![a].moved = TRUE]
  /\ UNCHANGED <<apiVars, conn, trust, login, port, base, form, save, nulled>>

FollowPort(a) ==
  /\ load[a].at = "get" /\ ~load[a].moved
  /\ ~Reaches(a)
  /\ listen # Down /\ tray = listen
  /\ port' = [port EXCEPT ![a] = tray]
  /\ load' = [load EXCEPT ![a].at = "session", ![a].moved = TRUE]
  /\ UNCHANGED <<apiVars, conn, trust, login, base, form, save, nulled>>

LoadLost(a) ==
  /\ load[a].at = "get"
  /\ ~Reaches(a)
  /\ load[a].moved \/ listen = Down \/ tray # listen
  /\ conn' = [conn EXCEPT ![a] = FALSE]
  /\ Forget(a)
  /\ load' = [load EXCEPT ![a] = NoLoad]
  /\ UNCHANGED <<apiVars, login, port, base, form, save, nulled>>

(* A 401: the local login once more, then the dialog unless one is open or *)
(* the user has put it off.                                                *)
LoadRetry(a) ==
  /\ load[a].at = "get" /\ ~load[a].tried
  /\ Reaches(a) /\ ~Allowed(a)
  /\ LocalLoginGoes(a)
  /\ load' = [load EXCEPT ![a].tried = TRUE]
  /\ UNCHANGED <<sameApi, req, conn, login, port, base, form, save, nulled>>

Prompt(a) == login' = [login EXCEPT ![a] = "prompting"]

LoadRefused(a) ==
  /\ load[a].at = "get"
  /\ Reaches(a) /\ ~Allowed(a)
  /\ IF load[a].tried THEN NoLocalLogin ELSE LocalLoginFails(a)
  /\ conn' = [conn EXCEPT ![a] = FALSE]
  /\ IF login[a] = "idle" THEN Prompt(a) ELSE UNCHANGED login
  /\ load' = [load EXCEPT ![a] = NoLoad]
  /\ UNCHANGED <<sameApi, req, port, base, form, save, nulled>>

AdoptLoaded(a) ==
  /\ load[a].at = "adopt"
  /\ conn' = [conn EXCEPT ![a] = TRUE]
  /\ Adopt(a, load[a].got, base[a])
  /\ load' = [load EXCEPT ![a] = NoLoad]
  /\ UNCHANGED <<apiVars, trust, login, port, save, nulled>>

(* The dialog: the right secret, a wrong one (asked again), or cancelled,  *)
(* locked out, unreachable; the Login button opens it again.               *)
LoginGoes(a) ==
  /\ login[a] = "prompting"
  /\ Reaches(a) /\ live.secret # 0
  /\ SecretLogin(a)
  /\ login' = [login EXCEPT ![a] = "idle"]
  /\ load' = [load EXCEPT ![a].at = IF @ = "idle" THEN "session" ELSE @]
  /\ UNCHANGED <<sameApi, req, left, conn, trust, port, base, form, save, nulled>>

LoginPutOff(a) ==
  /\ login[a] = "prompting"
  /\ login' = [login EXCEPT ![a] = "deferred"]
  /\ UNCHANGED <<apiVars, conn, trust, port, base, form, load, save, nulled>>

LoginButton(a) ==
  /\ login[a] = "deferred"
  /\ Prompt(a)
  /\ UNCHANGED <<apiVars, conn, trust, port, base, form, load, save, nulled>>

----------------------------------------------------------------------------
(* saveForms: a tab's own Save, or all dirty tabs from the unsaved-changes *)
(* prompt; a change of a preset's slot is confirmed first.                 *)
SaveIdle(a) == save[a].at = "idle" /\ At(a, "idle")

Savable(a) ==
  {{t} : t \in DirtyTabs(a) \ (IF trust[a] = "refused" THEN {"presets"} ELSE {})}
    \cup ({DirtyTabs(a)} \ {{}})

EndSave(a) == save' = [save EXCEPT ![a] = NoSave]
Taken(a) == req' = [req EXCEPT ![a] = NoReq]

(* postForms and SaveConfig; Relog: the secret is a new one. *)
BeginSave(a, tabs) ==
  /\ Loaded(a) /\ SaveIdle(a) /\ Reaches(a)
  /\ tabs \in Savable(a)
  /\ "presets" \in tabs => form[a].presets # Masked
  /\ LET sent   == Merge(a, tabs)
         locked == trust[a] = "refused"
     IN  /\ Judged(a, cookie[a], Wire(sent, locked))
         /\ save' = [save EXCEPT ![a] =
              [NoSave EXCEPT !.at = "posted", !.tabs = tabs, !.sent = sent, !.locked = locked,
                             !.relog = sent.secret \notin {0, base[a].secret}, !.token = base[a].token]]
         /\ nulled' = [nulled EXCEPT ![a] = @ \/ (locked /\ "presets" \in tabs)]
  /\ UNCHANGED <<sameApi, cookie, left, conn, trust, login, port, base, form, load>>

Replied(a, r) == save[a].at = "posted" /\ At(a, "done") /\ req[a].reply \in r
AsksAgain(a) == Replied(a, {"unauthorized", "local_only"}) /\ ~save[a].again

(* withLocalSession: once more with a new local session. *)
Repost(a) ==
  /\ AsksAgain(a)
  /\ LocalLoginGoes(a)
  /\ Judged(a, "local", Wire(save[a].sent, save[a].locked))
  /\ save' = [save EXCEPT ![a].again = TRUE]
  /\ UNCHANGED <<sameApi, conn, login, port, base, form, load, nulled>>

SaveFails(a) ==
  /\ Replied(a, {"unauthorized", "local_only", "invalid", "failed", "lost"})
  /\ IF AsksAgain(a) THEN LocalLoginFails(a) ELSE NoLocalLogin
  /\ EndSave(a)
  /\ Taken(a)
  /\ UNCHANGED <<sameApi, conn, login, port, base, form, load, nulled>>

(* The 5 s of the client are over; the service finishes what it began.     *)
GiveUp(a) ==
  /\ save[a].at = "posted" /\ ~At(a, "done")
  /\ Fault
  /\ EndSave(a)
  /\ UNCHANGED <<sameApi, cookie, req, conn, trust, login, port, base, form, load, nulled>>

Unheard(a) ==
  /\ save[a].at = "idle" /\ At(a, "done")
  /\ Taken(a)
  /\ UNCHANGED <<sameApi, cookie, left, appVars>>

(* A new secret: a session for it, the local one first. *)
Relogin(a) ==
  /\ Replied(a, {"ok"}) /\ save[a].relog
  /\ Taken(a)
  /\ LET local == trust[a] = "local" /\ Vouched(a)
         ok    == Reaches(a) /\ live.secret = save[a].sent.secret
     IN  \/ /\ local
            /\ cookie' = [cookie EXCEPT ![a] = "local"]
            /\ save' = [save EXCEPT ![a].at = "read"]
            /\ UNCHANGED left
         \/ /\ IF local THEN Fault ELSE UNCHANGED left
            /\ IF ok THEN SecretLogin(a) ELSE UNCHANGED cookie
            /\ save' = [save EXCEPT ![a].at = "read", ![a].err = ~ok]
  /\ UNCHANGED <<sameApi, conn, trust, login, port, base, form, load, nulled>>

(* The config is read again; when that fails, what was sent stands in for  *)
(* it, with the token as the service would show it.                        *)
Fallback(s) ==
  [s.sent EXCEPT !.token = IF @ \in {0, Masked} THEN s.token ELSE Masked]

Reread(a) ==
  /\ save[a].at = "read" \/ (Replied(a, {"ok"}) /\ ~save[a].relog)
  /\ Taken(a)
  /\ LET heard == Reaches(a) /\ Allowed(a)
     IN  \/ /\ heard
            /\ save' = [save EXCEPT ![a].at = "adopt", ![a].got = View(a)]
            /\ UNCHANGED left
         \/ /\ IF heard THEN Fault ELSE UNCHANGED left
            /\ save' = [save EXCEPT ![a].at = "adopt", ![a].got = Fallback(save[a])]
  /\ UNCHANGED <<sameApi, cookie, conn, trust, login, port, base, form, load, nulled>>

AdoptSaved(a) ==
  /\ save[a].at = "adopt"
  /\ Adopt(a, save[a].got, save[a].sent)
  /\ IF save[a].err /\ login[a] # "prompting" THEN Prompt(a) ELSE UNCHANGED login
  /\ EndSave(a)
  /\ UNCHANGED <<apiVars, conn, trust, port, load, nulled>>

----------------------------------------------------------------------------
LoadStep(a) ==
  \/ EnsureLocal(a) \/ LoadConfig(a) \/ FollowPort(a) \/ LoadLost(a)
  \/ LoadRetry(a) \/ LoadRefused(a) \/ AdoptLoaded(a)

SaveStep(a) ==
  \/ Repost(a) \/ SaveFails(a) \/ GiveUp(a) \/ Unheard(a)
  \/ Relogin(a) \/ Reread(a) \/ AdoptSaved(a)

UserStep(a) ==
  \/ \E k \in Fields : Type(a, k)
  \/ \E t \in Tabs : Discard(a, t)
  \/ \E tabs \in SUBSET Tabs : BeginSave(a, tabs)
  \/ LoginGoes(a) \/ LoginPutOff(a) \/ LoginButton(a)

Next ==
  \/ ApiStep /\ UNCHANGED appVars
  \/ \E a \in Apps : UserStep(a) \/ LoadStep(a) \/ SaveStep(a) \/ Poll(a)

(* The app's timers and goroutines run, and connTick calls initialLoad     *)
(* every 5 s while disconnected.                                           *)
Fairness ==
  \A a \in Apps :
    /\ WF_vars(LoadStep(a)) /\ WF_vars(Poll(a))

Spec == Init /\ [][Next]_vars /\ Fairness

----------------------------------------------------------------------------
Held == Values \cup {Masked}
Sent == Values \cup {Masked, Keep}

TypeOK ==
  /\ file \in [Fields -> Held] /\ live \in [Fields -> Held]
  /\ tray \in Values /\ listen \in Values \cup {Down}
  /\ cookie \in [Clients -> {"none", "secret", "local"}]
  /\ \A c \in Clients : req[c].at \in {"idle", "write", "live", "tray", "done"}
  /\ conn \in [Apps -> BOOLEAN]
  /\ trust \in [Apps -> {"unknown", "local", "refused"}]
  /\ login \in [Apps -> {"idle", "prompting", "deferred"}]
  /\ port \in [Apps -> Values]
  /\ form \in [Apps -> [Fields -> Sent]]

(* No mask ever reaches config.json or the live copy, whichever sessions a *)
(* save and the reads before it had (Normalize, ValidatePresets,           *)
(* wireConfig).                                                            *)
MasksNeverStored == \A f \in Fields : file[f] >= 0 /\ live[f] >= 0

(* What the user typed stays in its tab until it is saved, discarded or    *)
(* typed over, whatever is loaded and saved meanwhile, but for presets     *)
(* posted after the local session was refused (forms.adopt).               *)
Unsaved(a, k) == form[a][k] \notin stored \cup {Masked}

EditsKept ==
  [][\A a \in Apps, k \in Fields :
       Unsaved(a, k) /\ (k = "presets" => ~nulled[a])
         /\ (load'[a] # load[a] \/ save'[a] # save[a])
         => form'[a][k] = form[a][k]]_vars

(* Again and again: while the service is up, the app ends up connected and *)
(* let in, or the user is asked to log in, unless neither its own port nor *)
(* tray.json's is the service's (initialLoad, followPortChange, pollLoop). *)
Follows(a) ==
  \/ listen = Down
  \/ conn[a] /\ Reaches(a) /\ Allowed(a)
  \/ login[a] # "idle"
  \/ port[a] # listen /\ tray # listen

AppFollows == \A a \in Apps : []<>Follows(a)
=============================================================================
