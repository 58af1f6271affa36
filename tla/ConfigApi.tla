----------------------------- MODULE ConfigApi -----------------------------
(***************************************************************************)
(* The service's configuration and the API the tray apps and the browser   *)
(* page reach it through: config.json, the live copy, tray.json            *)
(* (service/config.go, internal/config), GET and POST /api/config and the  *)
(* two logins (service/webui).  Settings.tla adds the tray apps.           *)
(*                                                                         *)
(* A value is the number of the edit that typed it, 0 what was there at    *)
(* first; a secret or a token that is 0 is not set.                        *)
(***************************************************************************)
EXTENDS Integers, FiniteSets

CONSTANTS
  Apps,        \* the tray apps
  Page,        \* the browser page
  Typable,     \* bound: the fields the user of an app types into
  MaxEdits,    \* bound: values typed
  MaxRestarts, \* bound: times the service goes down
  Faults       \* bound: writes that fail, replies that are lost, refused local logins

Fields  == {"port", "secret", "presets", "token"}

ASSUME ConfigAssumption ==
  /\ Page \notin Apps
  /\ Typable \subseteq Fields
  /\ MaxEdits \in Nat /\ MaxRestarts \in Nat /\ Faults \in Nat

Clients == Apps \cup {Page}

Masked == -1   \* what a GET shows of a token, and of presets without the local session
Keep   == -2   \* null, or a key the body leaves out
PagePort == MaxEdits + 1   \* the port the page's user asks for
OldToken == MaxEdits + 2   \* the bot token set long ago
Values   == 0..OldToken

Defaults == [f \in Fields |-> IF f = "token" THEN OldToken ELSE 0]
NoConfig == [f \in Fields |-> Keep]
Down     == -1

VARIABLES
  file,     \* config.json
  live,     \* currentConfig
  tray,     \* the port in tray.json
  listen,   \* the port the service listens on, Down when it does not run
  cookie,   \* what a client's session cookie is worth: "none", "secret", "local"
  req,      \* req[c]: the POST the service works on for c
  edits,    \* values typed so far
  restarts, left,
  \* history
  stored    \* every value some save has written to config.json

apiVars == <<file, live, tray, listen, cookie, req, edits, restarts, left, stored>>

NoReq == [at |-> "idle", new |-> NoConfig, reply |-> "none"]

ApiInit ==
  /\ file = Defaults /\ live = Defaults
  /\ tray = 0 /\ listen = 0
  /\ cookie = [c \in Clients |-> "none"]
  /\ req = [c \in Clients |-> NoReq]
  /\ edits = 0 /\ restarts = MaxRestarts /\ left = Faults
  /\ stored = {0, OldToken}

Fault == left > 0 /\ left' = left - 1

----------------------------------------------------------------------------
(* checkAuth, localTrusted: a restart or another login leaves a cookie     *)
(* worth nothing.                                                          *)
Accepts(session) == live.secret = 0 \/ session # "none"
Allowed(c) == Accepts(cookie[c])

(* handleLogin for the right secret: there is one browser session, so any  *)
(* other secret login is over; the local session is the tray's own.        *)
SecretLogin(c) ==
  cookie' = [d \in Clients |-> IF d = c THEN "secret"
                               ELSE IF cookie[d] = "secret" THEN "none" ELSE cookie[d]]

(* GET /api/config: maskedConfig, maskPresets. *)
View(c) ==
  [live EXCEPT !.token = IF @ = 0 THEN 0 ELSE Masked,
               !.presets = IF cookie[c] = "local" THEN @ ELSE Masked]

(* Normalize of a body decoded over ForUpdate; the token "-", which clears *)
(* the stored one, is left out.                                            *)
Normalize(body, cur) ==
  [f \in Fields |->
     IF body[f] = Keep \/ (f = "token" /\ body[f] \in {0, Masked}) THEN cur[f] ELSE body[f]]

(* apiAuth and serveConfig up to the save: what is wrong with the body.    *)
(* A preset whose path was masked has none, and ValidatePresets says no.   *)
ProblemUnchecked(session, new) ==
  IF ~Accepts(session) THEN "unauthorized"
  ELSE IF new.presets # live.presets /\ session # "local" THEN "local_only"
  ELSE "none"

Problem(session, new) ==
  IF ~Accepts(session) THEN "unauthorized"
  ELSE IF new.presets # live.presets /\ session # "local" THEN "local_only"
  ELSE IF new.presets = Masked THEN "invalid"
  ELSE "none"

At(c, s) == req[c].at = s

(* The page only shows the answer; an app waits for it. *)
Answer(c, r) == IF c = Page THEN NoReq ELSE [NoReq EXCEPT !.at = "done", !.reply = r]

Judged(c, session, body) ==
  LET new == Normalize(body, live)
      bad == Problem(session, new)
  IN  req' = [req EXCEPT ![c] = IF bad = "none" THEN [NoReq EXCEPT !.at = "write", !.new = new]
                                                ELSE Answer(c, bad)]

(* saveConfig takes no lock: the requests of two clients interleave.       *)
(* config.Save writes the file ...                                         *)
WriteFile(c) ==
  /\ At(c, "write")
  /\ \/ /\ file' = req[c].new
        /\ stored' = stored \cup {req[c].new[f] : f \in Fields}
        /\ req' = [req EXCEPT ![c].at = "live"]
        /\ UNCHANGED left
     \/ /\ Fault
        /\ req' = [req EXCEPT ![c] = Answer(c, "failed")]
        /\ UNCHANGED <<file, stored>>
  /\ UNCHANGED <<live, tray, listen, cookie, edits, restarts>>

(* ... setConfig makes the stored copy live ...                            *)
MakeLive(c) ==
  /\ At(c, "live")
  /\ live' = req[c].new
  /\ req' = [req EXCEPT ![c].at = "tray"]
  /\ UNCHANGED <<file, tray, listen, cookie, edits, restarts, left, stored>>

(* ... and tray.json follows as far as it can be written.                  *)
WriteTray(c) ==
  /\ At(c, "tray")
  /\ \/ tray' = req[c].new.port /\ UNCHANGED left
     \/ Fault /\ UNCHANGED tray
  /\ req' = [req EXCEPT ![c] = Answer(c, "ok")]
  /\ UNCHANGED <<file, live, listen, cookie, edits, restarts, stored>>

----------------------------------------------------------------------------
(* The service stops or crashes: its sessions are gone, and a request it   *)
(* was working on gets no answer.                                          *)
StopService ==
  /\ listen # Down
  /\ restarts > 0 /\ restarts' = restarts - 1
  /\ listen' = Down
  /\ live' = file
  /\ cookie' = [c \in Clients |-> "none"]
  /\ req' = [c \in Clients |-> IF At(c, "idle") \/ At(c, "done") THEN req[c] ELSE Answer(c, "lost")]
  /\ UNCHANGED <<file, tray, edits, left, stored>>

(* Execute: loadConfigAtStart, setConfig, WriteTrayFile, StartWebUI: only  *)
(* here does the port take effect.                                         *)
StartService ==
  /\ listen = Down
  /\ live' = file
  /\ listen' = file.port
  /\ \/ tray' = file.port /\ UNCHANGED left
     \/ Fault /\ UNCHANGED tray
  /\ UNCHANGED <<file, cookie, req, edits, restarts, stored>>

----------------------------------------------------------------------------
(* The settings page in a browser: it logs in with the secret when it has  *)
(* to, and posts its own fields only; no key, no change.  Bound: one port, *)
(* until it is stored.                                                     *)
PageSave ==
  /\ listen # Down /\ At(Page, "idle")
  /\ PagePort \notin stored
  /\ IF Allowed(Page) THEN UNCHANGED cookie ELSE SecretLogin(Page)
  /\ Judged(Page, cookie'[Page], [NoConfig EXCEPT !.port = PagePort])
  /\ UNCHANGED <<file, live, tray, listen, edits, restarts, left, stored>>

ApiStep ==
  \/ \E c \in Clients : WriteFile(c) \/ MakeLive(c) \/ WriteTray(c)
  \/ StopService \/ StartService
  \/ PageSave
============================================================================
