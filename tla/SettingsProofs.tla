--------------------------- MODULE SettingsProofs ---------------------------
(***************************************************************************)
(* What holds of the settings for any set of apps, administrators, fields  *)
(* typed into, edits, restarts and faults: their types, MasksNeverStored   *)
(* and EditsKept.                                                          *)
(*                                                                         *)
(* A mask may stand in a form, a baseline or a body, but not for the port  *)
(* or the secret (Body), and Normalize and Problem keep it out of what is  *)
(* written (ApiTypes).  A tab is only refilled where its entries are what  *)
(* they are compared with; so what they are compared with, the baseline or *)
(* the config sent, must be stored already, or a mask (Origin).            *)
(*                                                                         *)
(* And of the two lists the settings carry, for every list: what a save    *)
(* accepts, a load makes of a file and the editor lets through agree, of   *)
(* the watched programs (WatchList) and of the presets (Presets).          *)
(***************************************************************************)
EXTENDS Settings, WatchList, Presets, FiniteSetTheorems, TLAPS

(* What stands in forms and baselines, and what is stored.                 *)
Body == {c \in [Fields -> Held] : c["port"] # Masked /\ c["secret"] # Masked}
Stored == [Fields -> Values]
Replies == {"none", "ok", "unauthorized", "local_only", "invalid", "failed", "lost"}
Post == [at : {"idle", "write", "live", "tray", "done"}, new : [Fields -> Sent], reply : Replies]
Loading == [at : {"idle", "session", "get", "adopt"}, got : Body \cup {NoConfig},
            moved : BOOLEAN, tried : BOOLEAN]
Saving == [at : {"idle", "posted", "read", "adopt"}, tabs : SUBSET Tabs,
           sent : Body \cup {NoConfig}, locked : BOOLEAN, relog : BOOLEAN, token : Held,
           got : Body \cup {NoConfig}, again : BOOLEAN, err : BOOLEAN]

Working(c) == req[c].at \in {"write", "live", "tray"}

ApiTypes ==
  /\ file \in Stored /\ live \in Stored /\ tray \in Values /\ listen \in Values \cup {Down}
  /\ cookie \in [Clients -> {"none", "secret", "local"}]
  /\ req \in [Clients -> Post]
  /\ \A c \in Clients : Working(c) => req[c].new \in Stored
  /\ edits \in 0..MaxEdits

AppTypes ==
  /\ conn \in [Apps -> BOOLEAN]
  /\ trust \in [Apps -> {"unknown", "local", "refused"}]
  /\ login \in [Apps -> {"idle", "prompting", "deferred"}]
  /\ port \in [Apps -> Values] /\ nulled \in [Apps -> BOOLEAN]
  /\ base \in [Apps -> Body \cup {NoConfig}] /\ form \in [Apps -> Body]
  /\ load \in [Apps -> Loading] /\ save \in [Apps -> Saving]
  /\ \A a \in Apps : /\ load[a].at = "adopt" => load[a].got \in Body
                     /\ save[a].at # "idle" => save[a].sent \in Body
                     /\ save[a].at = "adopt" => save[a].got \in Body

(* Where a value that a tab may be compared with comes from.  Presets      *)
(* that were posted while locked were not stored.                          *)
Shown == stored \cup {Masked}
Known(a, k, v) == v \in Shown \/ (k = "presets" /\ nulled[a])

Wrote(a) ==
  /\ save[a].at = "posted"
  /\ req[a].at \in {"live", "tray"} \/ (req[a].at = "done" /\ req[a].reply = "ok")

ApiOrigin ==
  /\ 0 \in stored
  /\ \A k \in Fields : file[k] \in stored /\ live[k] \in stored
  /\ \A c \in Clients, k \in Fields : req[c].at \in {"live", "tray"} => req[c].new[k] \in stored

BaseOrigin ==
  \A a \in Apps, k \in Fields :
    IF base[a] = NoConfig THEN form[a][k] = 0 ELSE Known(a, k, base[a][k])

LoadOrigin ==
  \A a \in Apps, k \in Fields : load[a].at = "adopt" => load[a].got[k] \in Shown

SaveFrom(a) ==
  \A k \in Fields :
    /\ Wrote(a) \/ save[a].at \in {"read", "adopt"} => Known(a, k, save[a].sent[k])
    /\ save[a].at = "adopt" => Known(a, k, save[a].got[k])
    /\ save[a].at \in {"posted", "read"} => save[a].token \in Shown
    /\ save[a].at = "posted" /\ Working(a) =>
         req[a].new[k] = save[a].sent[k] \/ Known(a, k, save[a].sent[k])
    /\ save[a].at # "idle" /\ save[a].locked => Known(a, "presets", save[a].sent["presets"])

SaveOrigin == \A a \in Apps : SaveFrom(a)

ApiInv == ApiTypes /\ ApiOrigin
IInv == ApiInv /\ AppTypes /\ BaseOrigin /\ LoadOrigin /\ SaveOrigin

----------------------------------------------------------------------------
LEMMA ValuesAre ==
  /\ OldToken \in Nat /\ PagePort \in Values /\ OldToken \in Values /\ 0 \in Values
  /\ Values \subseteq Nat /\ Masked \notin Values /\ Keep \notin Held
  /\ Values \subseteq Held /\ Masked \in Held /\ Held \subseteq Sent /\ Keep \in Sent
  /\ \A n \in 0..MaxEdits : n < MaxEdits => n + 1 \in 0..MaxEdits
  /\ 0..MaxEdits \subseteq Values
  BY ConfigAssumption DEF OldToken, PagePort, Values, Masked, Keep, Held, Sent

LEMMA FieldsAre ==
  /\ \A k \in Fields : k \in {"port", "secret", "presets", "token"}
  /\ "port" \in Fields /\ "secret" \in Fields /\ "presets" \in Fields /\ "token" \in Fields
  BY DEF Fields

LEMMA TabsOf ==
  /\ \A k \in Fields : \E t \in Tabs : k \in FieldsOf[t]
  /\ \A t \in Tabs : "token" \in FieldsOf[t] <=> t = "telegram"
  /\ \A t \in Tabs : "presets" \in FieldsOf[t] <=> t = "presets"
  /\ \A t \in Tabs : t = "telegram" => FieldsOf[t] = {"token"}
  BY DEF Tabs, FieldsOf, Fields

LEMMA ConfigsAre ==
  /\ Stored \subseteq Body /\ Body \subseteq [Fields -> Held] /\ NoConfig \notin Body
  /\ Stored \subseteq [Fields -> Sent] /\ Body \subseteq [Fields -> Sent]
  /\ NoConfig \in [Fields -> Sent] /\ Defaults \in Stored
  BY ValuesAre, FieldsAre DEF Stored, Body, NoConfig, Defaults

(* GET shows what is stored, or a mask. *)
LEMMA ViewShows ==
  ASSUME live \in Stored, NEW c \in Clients
  PROVE  View(c) \in Body /\ \A k \in Fields : View(c)[k] \in {live[k], Masked}
<1> DEFINE t == IF live.token = 0 THEN 0 ELSE Masked
           p == IF cookie[c] = "local" THEN live.presets ELSE Masked
           v == [live EXCEPT !.token = t]
           w == [v EXCEPT !.presets = p]
<1>1. t \in {live["token"], Masked} /\ p \in {live["presets"], Masked} /\ t \in Held /\ p \in Held
  BY ValuesAre, FieldsAre DEF Stored
<1>2. View(c) = w
  BY DEF View
<1> HIDE DEF t, p
<1>3. v \in [Fields -> Held] /\ v["token"] = t /\ \A k \in Fields \ {"token"} : v[k] = live[k]
  BY <1>1, ValuesAre, FieldsAre DEF Stored
<1> HIDE DEF v
<1>4. w \in [Fields -> Held] /\ w["presets"] = p /\ \A k \in Fields \ {"presets"} : w[k] = v[k]
  BY <1>1, <1>3, FieldsAre
<1>5. \A k \in Fields : w[k] \in {live[k], Masked}
  BY <1>1, <1>3, <1>4
<1>6. w["port"] # Masked /\ w["secret"] # Masked
  BY <1>3, <1>4, ValuesAre, FieldsAre DEF Stored
<1>. QED BY <1>2, <1>4, <1>5, <1>6 DEF Body

(* What a body comes to where nothing is wrong with it holds no mask.      *)
LEMMA NormalizeClean ==
  ASSUME live \in Stored, NEW session, NEW body \in [Fields -> Sent],
         body["port"] # Masked, body["secret"] # Masked,
         Problem(session, Normalize(body, live)) = "none"
  PROVE  Normalize(body, live) \in Stored
<1> DEFINE new == Normalize(body, live)
<1>1. new["presets"] # Masked
  BY DEF Problem
<1>2. \A k \in Fields : new[k] = (IF body[k] = Keep \/ (k = "token" /\ body[k] \in {0, Masked})
                                   THEN live[k] ELSE body[k])
  BY DEF Normalize
<1>3. \A k \in Fields : new[k] \in Values
  BY <1>1, <1>2, FieldsAre DEF Stored, Sent
<1>. QED BY <1>3 DEF Normalize, Stored

(* The start of a POST: refused, or what it came to is to be written.      *)
LEMMA JudgedPost ==
  ASSUME ApiTypes, NEW c \in Clients, NEW session, NEW body \in [Fields -> Sent],
         body["port"] # Masked, body["secret"] # Masked, Judged(c, session, body)
  PROVE  /\ req' \in [Clients -> Post]
         /\ \A d \in Clients \ {c} : req'[d] = req[d]
         /\ \/ req'[c].at = "write" /\ req'[c].new = Normalize(body, live) /\ req'[c].new \in Stored
            \/ req'[c].at \in {"idle", "done"} /\ req'[c].reply # "ok"
<1> DEFINE new == Normalize(body, live)
           bad == Problem(session, new)
           post == IF bad = "none" THEN [NoReq EXCEPT !.at = "write", !.new = new] ELSE Answer(c, bad)
<1>0. NoReq \in Post /\ NoReq.at = "idle" /\ NoReq.reply = "none"
  BY ConfigsAre DEF NoReq, Post, Replies
<1>1. req' = [req EXCEPT ![c] = post]
  BY DEF Judged
<1>2. CASE bad = "none"
  <2>1. new \in Stored
    BY <1>2, NormalizeClean DEF ApiTypes
  <2>2. post = [[NoReq EXCEPT !.at = "write"] EXCEPT !.new = new]
    BY <1>2
  <2> HIDE DEF new, post
  <2>3. post \in Post /\ post.at = "write" /\ post.new = new
    <3> DEFINE r == [NoReq EXCEPT !.at = "write"]
    <3>1. r \in Post /\ r.at = "write"
      BY <1>0 DEF Post
    <3> HIDE DEF r
    <3>2. post = [r EXCEPT !.new = new]
      BY <2>2 DEF r
    <3>. QED BY <2>1, <3>1, <3>2, ConfigsAre DEF Post
  <2>. QED BY <1>1, <2>1, <2>3 DEF ApiTypes, new
<1>3. CASE bad # "none"
  <2>1. bad \in {"unauthorized", "local_only", "invalid"}
    BY <1>3 DEF Problem
  <2> HIDE DEF bad
  <2>2. post \in Post /\ post.at \in {"idle", "done"} /\ post.reply # "ok"
    <3>1. CASE c = Page
      BY <1>0, <1>3, <3>1 DEF Answer
    <3>2. CASE c # Page
      <4> DEFINE r == [NoReq EXCEPT !.at = "done"]
      <4>1. r \in Post /\ r.at = "done"
        BY <1>0 DEF Post
      <4> HIDE DEF r
      <4>2. post = [r EXCEPT !.reply = bad]
        BY <1>3, <3>2 DEF Answer, r
      <4>. QED BY <2>1, <4>1, <4>2 DEF Post, Replies
    <3>. QED BY <3>1, <3>2
  <2> HIDE DEF post
  <2>. QED BY <1>1, <2>2 DEF ApiTypes
<1>. QED BY <1>2, <1>3

(* The post of c becomes p.                                                *)
PostIs(c, p) == req' = [req EXCEPT ![c] = p]

LEMMA PostSet ==
  ASSUME ApiTypes, NEW c \in Clients, NEW p \in Post, PostIs(c, p)
  PROVE  req' \in [Clients -> Post] /\ req'[c] = p /\ \A d \in Clients \ {c} : req'[d] = req[d]
  BY DEF ApiTypes, PostIs

LEMMA StageSet ==
  ASSUME ApiTypes, NEW c \in Clients, NEW at \in {"live", "tray"}, req' = [req EXCEPT ![c].at = at]
  PROVE  \E p \in Post : PostIs(c, p) /\ p.at = at /\ p.new = req[c].new /\ p.reply = req[c].reply
<1> DEFINE p == [req[c] EXCEPT !.at = at]
<1>1. req[c] \in Post
  BY DEF ApiTypes
<1>2. PostIs(c, p)
  BY Zenon DEF PostIs
<1>3. p \in Post /\ p.at = at /\ p.new = req[c].new /\ p.reply = req[c].reply
  BY <1>1 DEF Post
<1>. QED BY <1>2, <1>3

LEMMA AnswerIs ==
  ASSUME NEW c, NEW r \in Replies
  PROVE  /\ Answer(c, r) \in Post /\ Answer(c, r).at \in {"idle", "done"}
         /\ Answer(c, r).reply \in {"none", r}
<1>0. NoReq \in Post /\ NoReq.at = "idle" /\ NoReq.reply = "none"
  BY ConfigsAre DEF NoReq, Post, Replies
<1>1. CASE c = Page
  BY <1>0, <1>1 DEF Answer
<1>2. CASE c # Page
  <2> DEFINE q == [NoReq EXCEPT !.at = "done"]
  <2>1. q \in Post /\ q.at = "done"
    BY <1>0 DEF Post
  <2> HIDE DEF q
  <2>2. Answer(c, r) = [q EXCEPT !.reply = r]
    BY <1>2 DEF Answer, q
  <2>. QED BY <2>1, <2>2 DEF Post
<1>. QED BY <1>1, <1>2

(* What the app knows of its values outlives any save of another client.   *)
LEMMA AppsStay ==
  ASSUME AppTypes, BaseOrigin, LoadOrigin, UNCHANGED appVars, stored \subseteq stored'
  PROVE  AppTypes' /\ BaseOrigin' /\ LoadOrigin'
<1>1. UNCHANGED <<conn, trust, login, port, base, form, load, nulled, save>>
  BY DEF appVars
<1>2. AppTypes'
  BY <1>1 DEF AppTypes
<1>3. BaseOrigin' /\ LoadOrigin'
  BY <1>1 DEF BaseOrigin, LoadOrigin, Known, Shown
<1>. QED BY <1>2, <1>3

LEMMA WriteFileKeeps ==
  ASSUME IInv, NEW c \in Clients, WriteFile(c), UNCHANGED appVars
  PROVE  IInv'
<1> USE DEF IInv, ApiInv
<1>1. /\ req[c].at = "write" /\ req[c].new \in Stored
      /\ UNCHANGED <<live, tray, listen, cookie, edits, base, form, load, nulled, save>>
  BY DEF WriteFile, At, ApiTypes, Working, appVars
<1>2. CASE /\ file' = req[c].new /\ req' = [req EXCEPT ![c].at = "live"]
           /\ stored' = stored \cup {req[c].new[f] : f \in Fields}
  <2>1. PICK p \in Post : PostIs(c, p) /\ p.at = "live" /\ p.new = req[c].new
    BY <1>2, StageSet
  <2>2. req' \in [Clients -> Post] /\ req'[c] = p /\ \A d \in Clients \ {c} : req'[d] = req[d]
    BY <2>1, PostSet
  <2>3. ApiTypes'
    BY <1>1, <1>2, <2>1, <2>2 DEF ApiTypes, Working
  <2>4. ApiOrigin'
    BY <1>1, <1>2, <2>1, <2>2 DEF ApiOrigin
  <2>5. SaveOrigin'
    <3> SUFFICES ASSUME NEW a \in Apps PROVE SaveFrom(a)'
      BY DEF SaveOrigin
    <3>1. \A k \in Fields, v \in Sent : Known(a, k, v) => v \in Shown' \/ (k = "presets" /\ nulled[a])
      BY <1>2 DEF Known, Shown
    <3>2. CASE a = c
      BY <1>1, <1>2, <2>1, <2>2, <3>2 DEF SaveOrigin, SaveFrom, Known, Shown, Wrote, Working
    <3>3. CASE a # c
      <4>1. req'[a] = req[a]
        BY <2>2, <3>3 DEF Clients
      <4>. QED BY <1>1, <1>2, <4>1 DEF SaveOrigin, SaveFrom, Known, Shown, Wrote, Working
    <3>. QED BY <3>2, <3>3
  <2>. QED BY <1>2, <2>3, <2>4, <2>5, AppsStay
<1>3. CASE PostIs(c, Answer(c, "failed")) /\ UNCHANGED <<file, stored>>
  <2>1. /\ Answer(c, "failed") \in Post /\ Answer(c, "failed").at \in {"idle", "done"}
        /\ Answer(c, "failed").reply # "ok"
    BY AnswerIs DEF Replies
  <2>2. req' \in [Clients -> Post] /\ req'[c] = Answer(c, "failed")
        /\ \A d \in Clients \ {c} : req'[d] = req[d]
    BY <1>3, <2>1, PostSet
  <2>3. ApiTypes'
    BY <1>1, <1>3, <2>1, <2>2 DEF ApiTypes, Working
  <2>4. ApiOrigin'
    BY <1>1, <1>3, <2>1, <2>2 DEF ApiOrigin
  <2>5. SaveOrigin'
    BY <1>1, <1>3, <2>1, <2>2 DEF SaveOrigin, SaveFrom, Known, Shown, Wrote, Working, Clients
  <2>. QED BY <1>3, <2>3, <2>4, <2>5, AppsStay
<1>. QED BY <1>2, <1>3 DEF WriteFile, PostIs

LEMMA SaveStays ==
  ASSUME SaveOrigin, UNCHANGED <<save, nulled>>, stored \subseteq stored',
         \A a \in Apps : /\ Wrote(a)' => Wrote(a)
                         /\ Working(a)' => Working(a) /\ req'[a].new = req[a].new
  PROVE  SaveOrigin'
  BY DEF SaveOrigin, SaveFrom, Known, Shown

LEMMA MakeLiveKeeps ==
  ASSUME IInv, NEW c \in Clients, MakeLive(c), UNCHANGED appVars
  PROVE  IInv'
<1> USE DEF IInv, ApiInv
<1>1. /\ req[c].at = "live" /\ req[c].new \in Stored /\ live' = req[c].new
      /\ req' = [req EXCEPT ![c].at = "tray"]
      /\ UNCHANGED <<file, tray, listen, cookie, edits, stored, nulled, save>>
  BY DEF MakeLive, At, ApiTypes, Working, appVars
<1>2. PICK p \in Post : PostIs(c, p) /\ p.at = "tray" /\ p.new = req[c].new
  BY <1>1, StageSet
<1>3. req' \in [Clients -> Post] /\ req'[c] = p /\ \A d \in Clients \ {c} : req'[d] = req[d]
  BY <1>2, PostSet
<1>4. ApiTypes'
  BY <1>1, <1>2, <1>3 DEF ApiTypes, Working
<1>5. ApiOrigin'
  BY <1>1, <1>2, <1>3 DEF ApiOrigin
<1>6. SaveOrigin'
  <2>1. \A a \in Apps : /\ Wrote(a)' => Wrote(a)
                        /\ Working(a)' => Working(a) /\ req'[a].new = req[a].new
    BY <1>1, <1>2, <1>3 DEF Wrote, Working, Clients
  <2>. QED BY <1>1, <2>1, SaveStays
<1>. QED BY <1>1, <1>4, <1>5, <1>6, AppsStay

LEMMA WriteTrayKeeps ==
  ASSUME IInv, NEW c \in Clients, WriteTray(c), UNCHANGED appVars
  PROVE  IInv'
<1> USE DEF IInv, ApiInv
<1>1. /\ req[c].at = "tray" /\ req[c].new \in Stored /\ tray' \in {tray, req[c].new.port}
      /\ PostIs(c, Answer(c, "ok"))
      /\ UNCHANGED <<file, live, listen, cookie, edits, stored, nulled, save>>
  BY DEF WriteTray, At, ApiTypes, Working, appVars, PostIs
<1>2. Answer(c, "ok") \in Post /\ Answer(c, "ok").at \in {"idle", "done"}
  BY AnswerIs DEF Replies
<1>3. req' \in [Clients -> Post] /\ req'[c] = Answer(c, "ok")
      /\ \A d \in Clients \ {c} : req'[d] = req[d]
  BY <1>1, <1>2, PostSet
<1>4. ApiTypes'
  <2>1. tray' \in Values
    BY <1>1, FieldsAre DEF ApiTypes, Stored
  <2>. QED BY <1>1, <1>2, <1>3, <2>1 DEF ApiTypes, Working
<1>5. ApiOrigin'
  BY <1>1, <1>2, <1>3 DEF ApiOrigin
<1>6. SaveOrigin'
  <2>1. \A a \in Apps : /\ Wrote(a)' => Wrote(a)
                        /\ Working(a)' => Working(a) /\ req'[a].new = req[a].new
    BY <1>1, <1>2, <1>3 DEF Wrote, Working, Clients
  <2>. QED BY <1>1, <2>1, SaveStays
<1>. QED BY <1>1, <1>4, <1>5, <1>6, AppsStay

LEMMA StopKeeps ==
  ASSUME IInv, StopService, UNCHANGED appVars
  PROVE  IInv'
<1> USE DEF IInv, ApiInv
<1>1. /\ listen' = Down /\ live' = file /\ cookie' = [c \in Clients |-> "none"]
      /\ req' = [c \in Clients |-> IF At(c, "idle") \/ At(c, "done") THEN req[c]
                                                                  ELSE Answer(c, "lost")]
      /\ UNCHANGED <<file, tray, edits, stored, nulled, save>>
  BY DEF StopService, appVars
<1>2. \A c \in Clients : /\ Answer(c, "lost") \in Post /\ Answer(c, "lost").at \in {"idle", "done"}
                         /\ Answer(c, "lost").reply # "ok"
  BY AnswerIs DEF Replies
<1>3. \A c \in Clients : /\ req'[c] \in Post /\ req'[c].at \in {"idle", "done"}
                         /\ req'[c] = req[c] \/ req'[c].reply # "ok"
  BY <1>1, <1>2 DEF ApiTypes, At
<1>4. ApiTypes'
  <2>1. req' \in [Clients -> Post]
    BY <1>1, <1>3
  <2>. QED BY <1>1, <1>3, <2>1 DEF ApiTypes, Working
<1>5. ApiOrigin'
  BY <1>1, <1>3 DEF ApiOrigin
<1>6. SaveOrigin'
  <2>1. \A a \in Apps : /\ Wrote(a)' => Wrote(a)
                        /\ Working(a)' => Working(a) /\ req'[a].new = req[a].new
    BY <1>1, <1>3 DEF Wrote, Working, Clients
  <2>. QED BY <1>1, <2>1, SaveStays
<1>. QED BY <1>1, <1>4, <1>5, <1>6, AppsStay

LEMMA StartKeeps ==
  ASSUME IInv, StartService, UNCHANGED appVars
  PROVE  IInv'
<1> USE DEF IInv, ApiInv
<1>1. /\ listen' = file.port /\ live' = file /\ tray' \in {tray, file.port}
      /\ UNCHANGED <<file, cookie, req, edits, stored, nulled, save>>
  BY DEF StartService, appVars
<1>2. file.port \in Values
  BY FieldsAre DEF ApiTypes, Stored
<1>3. ApiTypes' /\ ApiOrigin'
  BY <1>1, <1>2 DEF ApiTypes, ApiOrigin, Working
<1>4. SaveOrigin'
  BY <1>1, SaveStays DEF Wrote, Working
<1>. QED BY <1>1, <1>3, <1>4, AppsStay

LEMMA CookieSet ==
  ASSUME ApiTypes, NEW c \in Clients, SecretLogin(c)
  PROVE  cookie' \in [Clients -> {"none", "secret", "local"}]
  BY DEF ApiTypes, SecretLogin

LEMMA PageKeeps ==
  ASSUME IInv, PageSave, UNCHANGED appVars
  PROVE  IInv'
<1> USE DEF IInv, ApiInv
<1> DEFINE body == [NoConfig EXCEPT !.port = PagePort]
<1>1. /\ Judged(Page, cookie'[Page], body)
      /\ UNCHANGED <<file, live, tray, listen, edits, stored, nulled, save>>
  BY DEF PageSave, appVars
<1>2. body \in [Fields -> Sent] /\ body["port"] # Masked /\ body["secret"] # Masked
  BY ValuesAre, FieldsAre, ConfigsAre DEF NoConfig, Masked, Keep
<1>3. Page \in Clients /\ Page \notin Apps
  BY ConfigAssumption DEF Clients
<1>4. cookie' \in [Clients -> {"none", "secret", "local"}]
  BY <1>3, CookieSet DEF PageSave, ApiTypes
<1> HIDE DEF body
<1>5. /\ req' \in [Clients -> Post]
      /\ \A d \in Clients \ {Page} : req'[d] = req[d]
      /\ \/ req'[Page].at = "write" /\ req'[Page].new \in Stored
         \/ req'[Page].at \in {"idle", "done"}
  BY <1>1, <1>2, <1>3, JudgedPost
<1>6. ApiTypes'
  BY <1>1, <1>4, <1>5 DEF ApiTypes, Working
<1>7. ApiOrigin'
  BY <1>1, <1>5 DEF ApiOrigin
<1>8. SaveOrigin'
  BY <1>1, <1>3, <1>5, SaveStays DEF Wrote, Working, Clients
<1>. QED BY <1>1, <1>6, <1>7, <1>8, AppsStay

LEMMA ApiKeeps ==
  ASSUME IInv, ApiStep, UNCHANGED appVars
  PROVE  IInv'
  BY WriteFileKeeps, MakeLiveKeeps, WriteTrayKeeps, StopKeeps, StartKeeps, PageKeeps DEF ApiStep

----------------------------------------------------------------------------
(* The app's load of a becomes p.                                          *)
LoadIs(a, p) == load' = [load EXCEPT ![a] = p]

LEMMA LoadSet ==
  ASSUME AppTypes, NEW a \in Apps, NEW p \in Loading, LoadIs(a, p)
  PROVE  load' \in [Apps -> Loading] /\ load'[a] = p /\ \A b \in Apps \ {a} : load'[b] = load[b]
  BY DEF AppTypes, LoadIs

LEMMA NoLoadIs == NoLoad \in Loading /\ NoLoad.at = "idle"
  BY DEF NoLoad, Loading

(* A step that leaves the entries, the saves and the service's own state   *)
(* alone, and reads no config.                                             *)
LEMMA QuietKeeps ==
  ASSUME IInv, UNCHANGED <<file, live, tray, listen, req, edits, stored, base, form, save, nulled>>,
         cookie' \in [Clients -> {"none", "secret", "local"}],
         conn' \in [Apps -> BOOLEAN], trust' \in [Apps -> {"unknown", "local", "refused"}],
         login' \in [Apps -> {"idle", "prompting", "deferred"}], port' \in [Apps -> Values],
         load' \in [Apps -> Loading],
         \A b \in Apps : load'[b].at = "adopt" => load[b].at = "adopt" /\ load'[b].got = load[b].got
  PROVE  IInv'
<1> USE DEF IInv, ApiInv
<1>1. ApiTypes' /\ ApiOrigin'
  BY DEF ApiTypes, ApiOrigin, Working
<1>2. AppTypes'
  BY DEF AppTypes
<1>3. BaseOrigin' /\ LoadOrigin'
  BY DEF BaseOrigin, LoadOrigin, Known, Shown
<1>4. SaveOrigin'
  BY SaveStays DEF Wrote, Working
<1>. QED BY <1>1, <1>2, <1>3, <1>4

LEMMA LocalLoginTypes ==
  ASSUME ApiTypes, AppTypes, NEW a \in Apps,
         LocalLoginGoes(a) \/ LocalLoginFails(a) \/ NoLocalLogin
  PROVE  /\ cookie' \in [Clients -> {"none", "secret", "local"}]
         /\ trust' \in [Apps -> {"unknown", "local", "refused"}]
<1>1. cookie' \in [Clients -> {"none", "secret", "local"}]
  BY DEF ApiTypes, LocalLoginGoes, LocalLoginFails, NoLocalLogin
<1>2. trust' \in [Apps -> {"unknown", "local", "refused"}]
  BY DEF AppTypes, LocalLoginGoes, LocalLoginFails, NoLocalLogin
<1>. QED BY <1>1, <1>2

(* Logging in, following the port, losing the service: no config moves.    *)
Quiet(a) ==
  \/ LoginGoes(a) \/ LoginPutOff(a) \/ LoginButton(a) \/ EnsureLocal(a) \/ FollowPort(a)
  \/ LoadLost(a) \/ LoadRetry(a) \/ LoadRefused(a) \/ Poll(a)

LEMMA QuietLoads ==
  ASSUME IInv, NEW a \in Apps, Quiet(a)
  PROVE  /\ load' \in [Apps -> Loading]
         /\ \A b \in Apps : load'[b].at = "adopt" => load[b].at = "adopt" /\ load'[b].got = load[b].got
<1> USE DEF IInv
<1>0. load[a] \in Loading /\ load \in [Apps -> Loading]
  BY DEF AppTypes
<1>1. CASE UNCHANGED load
  BY <1>0, <1>1
<1>2. CASE LoadIs(a, NoLoad)
  BY <1>2, LoadSet, NoLoadIs
<1>3. CASE \E at \in {"session", "get"} : load' = [load EXCEPT ![a].at = at]
  <2>1. PICK at \in {"session", "get"} : load' = [load EXCEPT ![a].at = at]
    BY <1>3
  <2> DEFINE p == [load[a] EXCEPT !.at = at]
  <2>2. LoadIs(a, p)
    BY <2>1, Zenon DEF LoadIs
  <2>3. p \in Loading /\ p.at = at
    BY <1>0 DEF Loading
  <2> HIDE DEF p
  <2>. QED BY <2>2, <2>3, LoadSet
<1>4. CASE FollowPort(a)
  <2> DEFINE q == [load[a] EXCEPT !.at = "session"]
             p == [q EXCEPT !.moved = TRUE]
  <2>1. LoadIs(a, p)
    BY <1>4, Zenon DEF FollowPort, LoadIs
  <2>2. q \in Loading /\ q.at = "session"
    BY <1>0 DEF Loading
  <2> HIDE DEF q
  <2>3. p \in Loading /\ p.at = "session"
    BY <2>2 DEF Loading
  <2> HIDE DEF p
  <2>. QED BY <2>1, <2>3, LoadSet
<1>5. CASE LoadRetry(a)
  <2> DEFINE p == [load[a] EXCEPT !.tried = TRUE]
  <2>1. LoadIs(a, p)
    BY <1>5, Zenon DEF LoadRetry, LoadIs
  <2>2. p \in Loading /\ p.at = "get"
    BY <1>0, <1>5 DEF Loading, LoadRetry
  <2> HIDE DEF p
  <2>. QED BY <2>1, <2>2, LoadSet
<1>6. CASE LoginGoes(a)
  <2> DEFINE at == IF load[a].at = "idle" THEN "session" ELSE load[a].at
             p == [load[a] EXCEPT !.at = at]
  <2>1. LoadIs(a, p)
    BY <1>6, Zenon DEF LoginGoes, LoadIs
  <2>2. p \in Loading /\ (p.at = "adopt" => load[a].at = "adopt") /\ p.got = load[a].got
    BY <1>0 DEF Loading
  <2> HIDE DEF p
  <2>. QED BY <2>1, <2>2, LoadSet
<1>7. LoginPutOff(a) \/ LoginButton(a) \/ Poll(a) => UNCHANGED load
  BY DEF LoginPutOff, LoginButton, Poll
<1>8. LoadLost(a) \/ LoadRefused(a) => LoadIs(a, NoLoad)
  BY DEF LoadLost, LoadRefused, LoadIs
<1>9. EnsureLocal(a) => \E at \in {"session", "get"} : load' = [load EXCEPT ![a].at = at]
  BY DEF EnsureLocal
<1>. QED BY <1>1, <1>2, <1>3, <1>4, <1>5, <1>6, <1>7, <1>8, <1>9 DEF Quiet

LEMMA QuietSteps ==
  ASSUME IInv, NEW a \in Apps, Quiet(a)
  PROVE  IInv'
<1> USE DEF IInv, ApiInv
<1>1. UNCHANGED <<file, live, tray, listen, req, edits, stored, base, form, save, nulled>>
  BY DEF Quiet, LoginGoes, LoginPutOff, LoginButton, EnsureLocal, FollowPort, LoadLost, LoadRetry,
         LoadRefused, Poll, sameApi, apiVars
<1>2. /\ cookie' \in [Clients -> {"none", "secret", "local"}]
      /\ trust' \in [Apps -> {"unknown", "local", "refused"}]
  <2>0. a \in Clients /\ cookie \in [Clients -> {"none", "secret", "local"}]
        /\ trust \in [Apps -> {"unknown", "local", "refused"}]
    BY DEF Clients, ApiTypes, AppTypes
  <2>1. CASE LoginGoes(a)
    BY <2>0, <2>1, CookieSet DEF LoginGoes
  <2>2. CASE EnsureLocal(a) \/ LoadRetry(a) \/ LoadRefused(a)
    BY <2>2, LocalLoginTypes DEF EnsureLocal, LoadRetry, LoadRefused
  <2>3. CASE LoadLost(a) \/ Poll(a)
    BY <2>0, <2>3 DEF LoadLost, Poll, Forget, apiVars
  <2>4. CASE LoginPutOff(a) \/ LoginButton(a) \/ FollowPort(a)
    BY <2>0, <2>4 DEF LoginPutOff, LoginButton, FollowPort, apiVars
  <2>. QED BY <2>1, <2>2, <2>3, <2>4 DEF Quiet
<1>3. conn' \in [Apps -> BOOLEAN] /\ port' \in [Apps -> Values]
  BY DEF Quiet, LoginGoes, LoginPutOff, LoginButton, EnsureLocal, FollowPort, LoadLost, LoadRetry,
         LoadRefused, Poll, AppTypes, ApiTypes
<1>4. login' \in [Apps -> {"idle", "prompting", "deferred"}]
  BY DEF Quiet, LoginGoes, LoginPutOff, LoginButton, EnsureLocal, FollowPort, LoadLost, LoadRetry,
         LoadRefused, Poll, AppTypes, Prompt
<1>. QED BY <1>1, <1>2, <1>3, <1>4, QuietLoads, QuietKeeps

LEMMA LoadConfigKeeps ==
  ASSUME IInv, NEW a \in Apps, LoadConfig(a)
  PROVE  IInv'
<1> USE DEF IInv, ApiInv
<1> DEFINE got == View(a)
           q == [load[a] EXCEPT !.at = "adopt"]
           p == [q EXCEPT !.got = got]
<1>1. a \in Clients /\ load[a] \in Loading
  BY DEF Clients, AppTypes
<1>2. got \in Body /\ \A k \in Fields : got[k] \in Shown
  BY <1>1, ViewShows DEF ApiTypes, ApiOrigin, Shown
<1>3. LoadIs(a, p)
  BY Zenon DEF LoadConfig, LoadIs
<1> HIDE DEF got
<1>4. q \in Loading /\ q.at = "adopt"
  BY <1>1 DEF Loading
<1> HIDE DEF q
<1>5. p \in Loading /\ p.at = "adopt" /\ p.got = got
  BY <1>2, <1>4 DEF Loading
<1> HIDE DEF p
<1>6. load' \in [Apps -> Loading] /\ load'[a] = p /\ \A b \in Apps \ {a} : load'[b] = load[b]
  BY <1>3, <1>5, LoadSet
<1>7. UNCHANGED <<file, live, tray, listen, cookie, req, edits, stored,
                  conn, trust, login, port, base, form, save, nulled>>
  BY DEF LoadConfig, apiVars
<1>8. ApiTypes' /\ ApiOrigin'
  BY <1>7 DEF ApiTypes, ApiOrigin, Working
<1>9. AppTypes'
  BY <1>2, <1>5, <1>6, <1>7 DEF AppTypes
<1>10. BaseOrigin' /\ LoadOrigin'
  BY <1>2, <1>5, <1>6, <1>7 DEF BaseOrigin, LoadOrigin, Known, Shown
<1>11. SaveOrigin'
  BY <1>7, SaveStays DEF Wrote, Working
<1>. QED BY <1>8, <1>9, <1>10, <1>11

----------------------------------------------------------------------------
(* The save of a becomes p.                                                *)
SaveIs(a, p) == save' = [save EXCEPT ![a] = p]

LEMMA SaveSet ==
  ASSUME AppTypes, NEW a \in Apps, NEW p \in Saving, SaveIs(a, p)
  PROVE  save' \in [Apps -> Saving] /\ save'[a] = p /\ \A b \in Apps \ {a} : save'[b] = save[b]
  BY DEF AppTypes, SaveIs

LEMMA NoSaveIs == NoSave \in Saving /\ NoSave.at = "idle"
  BY ValuesAre DEF NoSave, Saving

(* The saves of the other apps are as they were.                           *)
LEMMA OneSave ==
  ASSUME SaveOrigin, NEW a \in Apps, SaveFrom(a)', stored' = stored,
         \A b \in Apps \ {a} : save'[b] = save[b] /\ nulled'[b] = nulled[b] /\ req'[b] = req[b]
  PROVE  SaveOrigin'
<1> SUFFICES ASSUME NEW b \in Apps \ {a} PROVE SaveFrom(b)'
  BY DEF SaveOrigin
<1>. QED BY DEF SaveOrigin, SaveFrom, Known, Shown, Wrote, Working

(* Each entry is the one that stood there, or the fresh config's.          *)
LEMMA AdoptSets ==
  ASSUME AppTypes, NEW a \in Apps, NEW fresh \in Body, NEW ref, Adopt(a, fresh, ref)
  PROVE  /\ base' \in [Apps -> Body \cup {NoConfig}] /\ base'[a] = fresh
         /\ form' \in [Apps -> Body]
         /\ \A b \in Apps \ {a} : base'[b] = base[b] /\ form'[b] = form[b]
         /\ \A k \in Fields : form'[a][k] =
               IF \E t \in Tabs : k \in FieldsOf[t] /\ ref # NoConfig /\ Dirty(a, t, ref)
               THEN form[a][k] ELSE fresh[k]
<1> DEFINE new == [k \in Fields |->
              IF \E t \in Tabs : k \in FieldsOf[t] /\ ref # NoConfig /\ Dirty(a, t, ref)
              THEN form[a][k] ELSE fresh[k]]
<1>1. base' = [base EXCEPT ![a] = fresh] /\ form' = [form EXCEPT ![a] = new]
  BY Zenon DEF Adopt
<1>2. \A k \in Fields : new[k] \in {form[a][k], fresh[k]}
  OBVIOUS
<1>3. new \in Body
  <2>1. form[a] \in Body
    BY DEF AppTypes
  <2>2. new \in [Fields -> Held]
    BY <1>2, <2>1 DEF Body
  <2>. QED BY <1>2, <2>1, <2>2, FieldsAre DEF Body
<1>4. \A k \in Fields : new[k] =
        IF \E t \in Tabs : k \in FieldsOf[t] /\ ref # NoConfig /\ Dirty(a, t, ref)
        THEN form[a][k] ELSE fresh[k]
  OBVIOUS
<1> HIDE DEF new
<1>. QED BY <1>1, <1>3, <1>4 DEF AppTypes

LEMMA AdoptLoadedKeeps ==
  ASSUME IInv, NEW a \in Apps, AdoptLoaded(a)
  PROVE  IInv'
<1> USE DEF IInv, ApiInv
<1> DEFINE fresh == load[a].got
<1>1. /\ load[a].at = "adopt" /\ fresh \in Body /\ \A k \in Fields : fresh[k] \in Shown
      /\ conn' \in [Apps -> BOOLEAN] /\ LoadIs(a, NoLoad) /\ Adopt(a, fresh, base[a])
      /\ UNCHANGED <<file, live, tray, listen, cookie, req, edits, stored,
                     trust, login, port, save, nulled>>
  BY DEF AdoptLoaded, AppTypes, LoadOrigin, LoadIs, apiVars
<1>2. load' \in [Apps -> Loading] /\ load'[a] = NoLoad /\ \A b \in Apps \ {a} : load'[b] = load[b]
  BY <1>1, LoadSet, NoLoadIs
<1> HIDE DEF fresh
<1>3. /\ base' \in [Apps -> Body \cup {NoConfig}] /\ base'[a] = fresh /\ form' \in [Apps -> Body]
      /\ \A b \in Apps \ {a} : base'[b] = base[b] /\ form'[b] = form[b]
  BY <1>1, AdoptSets
<1>4. ApiTypes' /\ ApiOrigin'
  BY <1>1 DEF ApiTypes, ApiOrigin, Working
<1>5. AppTypes'
  BY <1>1, <1>2, <1>3, NoLoadIs DEF AppTypes
<1>6. BaseOrigin'
  BY <1>1, <1>3, ConfigsAre DEF BaseOrigin, Known, Shown
<1>7. LoadOrigin'
  BY <1>1, <1>2, NoLoadIs DEF LoadOrigin, Shown
<1>8. SaveOrigin'
  BY <1>1, SaveStays DEF Wrote, Working
<1>. QED BY <1>4, <1>5, <1>6, <1>7, <1>8

LEMMA AdoptSavedKeeps ==
  ASSUME IInv, NEW a \in Apps, AdoptSaved(a)
  PROVE  IInv'
<1> USE DEF IInv, ApiInv
<1> DEFINE fresh == save[a].got
<1>1. /\ save[a].at = "adopt" /\ fresh \in Body /\ \A k \in Fields : Known(a, k, fresh[k])
      /\ SaveIs(a, NoSave) /\ Adopt(a, fresh, save[a].sent)
      /\ UNCHANGED <<file, live, tray, listen, cookie, req, edits, stored,
                     conn, trust, port, load, nulled>>
  BY DEF AdoptSaved, EndSave, AppTypes, SaveOrigin, SaveFrom, SaveIs, apiVars
<1>2. save' \in [Apps -> Saving] /\ save'[a] = NoSave /\ \A b \in Apps \ {a} : save'[b] = save[b]
  BY <1>1, SaveSet, NoSaveIs
<1>3. login' \in [Apps -> {"idle", "prompting", "deferred"}]
  BY DEF AdoptSaved, Prompt, AppTypes
<1> HIDE DEF fresh
<1>4. /\ base' \in [Apps -> Body \cup {NoConfig}] /\ base'[a] = fresh /\ form' \in [Apps -> Body]
      /\ \A b \in Apps \ {a} : base'[b] = base[b] /\ form'[b] = form[b]
  BY <1>1, AdoptSets
<1>5. ApiTypes' /\ ApiOrigin'
  BY <1>1 DEF ApiTypes, ApiOrigin, Working
<1>6. AppTypes'
  BY <1>1, <1>2, <1>3, <1>4, NoSaveIs DEF AppTypes
<1>7. BaseOrigin'
  BY <1>1, <1>4, ConfigsAre DEF BaseOrigin, Known, Shown
<1>8. LoadOrigin'
  BY <1>1 DEF LoadOrigin, Shown
<1>9. SaveOrigin'
  <2>1. SaveFrom(a)'
    BY <1>2 DEF NoSave, SaveFrom, Wrote
  <2>. QED BY <1>1, <1>2, <2>1, OneSave
<1>. QED BY <1>5, <1>6, <1>7, <1>8, <1>9

(* A step of the save of a: what it becomes, and the post it waits for.    *)
LEMMA SaveKeeps ==
  ASSUME IInv, NEW a \in Apps, NEW p \in Saving, SaveIs(a, p),
         p.at # "idle" => p.sent \in Body, p.at = "adopt" => p.got \in Body,
         UNCHANGED <<file, live, tray, listen, edits, stored, conn, login, port, base, form, load>>,
         cookie' \in [Clients -> {"none", "secret", "local"}],
         trust' \in [Apps -> {"unknown", "local", "refused"}],
         nulled' \in [Apps -> BOOLEAN], nulled[a] => nulled'[a],
         \A b \in Apps \ {a} : nulled'[b] = nulled[b],
         req' \in [Clients -> Post], \A d \in Clients \ {a} : req'[d] = req[d],
         \/ req'[a] = req[a] \/ req'[a].at \in {"idle", "done"}
         \/ req'[a].at = "write" /\ req'[a].new \in Stored,
         SaveFrom(a)'
  PROVE  IInv'
<1> USE DEF IInv, ApiInv
<1>0. a \in Clients
  BY DEF Clients
<1>1. save' \in [Apps -> Saving] /\ save'[a] = p /\ \A b \in Apps \ {a} : save'[b] = save[b]
  BY SaveSet
<1>2. ApiTypes'
  BY <1>0 DEF ApiTypes, Working
<1>3. ApiOrigin'
  BY <1>0 DEF ApiOrigin
<1>4. AppTypes'
  BY <1>1 DEF AppTypes
<1>5. BaseOrigin' /\ LoadOrigin'
  BY DEF BaseOrigin, LoadOrigin, Known, Shown
<1>6. SaveOrigin'
  <2>1. \A b \in Apps \ {a} : req'[b] = req[b]
    BY DEF Clients
  <2>. QED BY <1>1, <2>1, OneSave
<1>. QED BY <1>2, <1>3, <1>4, <1>5, <1>6

LEMMA TakenIs ==
  ASSUME ApiTypes, NEW a \in Apps, Taken(a)
  PROVE  /\ req' \in [Clients -> Post] /\ req'[a].at = "idle"
         /\ \A d \in Clients \ {a} : req'[d] = req[d]
<1>1. NoReq \in Post /\ NoReq.at = "idle"
  BY ConfigsAre DEF NoReq, Post, Replies
<1>2. a \in Clients
  BY DEF Clients
<1>. QED BY <1>1, <1>2, PostSet DEF Taken, PostIs

LEMMA SaveFailsKeeps ==
  ASSUME IInv, NEW a \in Apps, SaveFails(a)
  PROVE  IInv'
<1> USE DEF IInv, ApiInv
<1>1. /\ SaveIs(a, NoSave) /\ Taken(a)
      /\ UNCHANGED <<file, live, tray, listen, edits, stored,
                     conn, login, port, base, form, load, nulled>>
  BY DEF SaveFails, EndSave, SaveIs, sameApi
<1>2. /\ cookie' \in [Clients -> {"none", "secret", "local"}]
      /\ trust' \in [Apps -> {"unknown", "local", "refused"}]
  BY LocalLoginTypes DEF SaveFails
<1>3. SaveFrom(a)'
  <2>1. save'[a] = NoSave
    BY <1>1, SaveSet, NoSaveIs
  <2>. QED BY <2>1 DEF NoSave, SaveFrom, Wrote
<1>4. nulled \in [Apps -> BOOLEAN]
  BY DEF AppTypes
<1>. QED BY <1>1, <1>2, <1>3, <1>4, NoSaveIs, TakenIs, SaveKeeps

LEMMA GiveUpKeeps ==
  ASSUME IInv, NEW a \in Apps, GiveUp(a)
  PROVE  IInv'
<1> USE DEF IInv, ApiInv
<1>1. /\ SaveIs(a, NoSave)
      /\ UNCHANGED <<file, live, tray, listen, cookie, req, edits, stored,
                     conn, trust, login, port, base, form, load, nulled>>
  BY DEF GiveUp, EndSave, SaveIs, sameApi
<1>2. SaveFrom(a)'
  <2>1. save'[a] = NoSave
    BY <1>1, SaveSet, NoSaveIs
  <2>. QED BY <2>1 DEF NoSave, SaveFrom, Wrote
<1>3. /\ nulled \in [Apps -> BOOLEAN] /\ trust \in [Apps -> {"unknown", "local", "refused"}]
      /\ cookie \in [Clients -> {"none", "secret", "local"}] /\ req \in [Clients -> Post]
  BY DEF AppTypes, ApiTypes
<1>. QED BY <1>1, <1>2, <1>3, NoSaveIs, SaveKeeps

LEMMA UnheardKeeps ==
  ASSUME IInv, NEW a \in Apps, Unheard(a)
  PROVE  IInv'
<1> USE DEF IInv, ApiInv
<1>1. /\ save[a].at = "idle" /\ Taken(a) /\ UNCHANGED appVars
      /\ UNCHANGED <<file, live, tray, listen, cookie, edits, stored>>
  BY DEF Unheard, sameApi
<1>2. /\ req' \in [Clients -> Post] /\ req'[a].at = "idle"
      /\ \A d \in Clients \ {a} : req'[d] = req[d]
  BY <1>1, TakenIs
<1>3. a \in Clients
  BY DEF Clients
<1>4. ApiTypes' /\ ApiOrigin'
  BY <1>1, <1>2, <1>3 DEF ApiTypes, ApiOrigin, Working
<1>5. SaveOrigin'
  <2>1. \A b \in Apps : /\ Wrote(b)' => Wrote(b)
                        /\ Working(b)' => Working(b) /\ req'[b].new = req[b].new
    BY <1>1, <1>2 DEF Wrote, Working, Clients, appVars
  <2>. QED BY <1>1, <2>1, SaveStays DEF appVars
<1>. QED BY <1>1, <1>4, <1>5, AppsStay

LEMMA TypeKeeps ==
  ASSUME IInv, NEW a \in Apps, NEW k \in Fields, Type(a, k)
  PROVE  IInv'
<1> USE DEF IInv, ApiInv
<1>0. PICK n \in 0..MaxEdits : n = edits + 1
  BY ValuesAre DEF Type, ApiTypes
<1> DEFINE f == [form[a] EXCEPT ![k] = n]
<1>1. /\ Loaded(a) /\ edits' = n
      /\ UNCHANGED <<file, live, tray, listen, cookie, req, stored,
                     conn, trust, login, port, base, load, save, nulled>>
  BY <1>0 DEF Type
<1>2. form' = [form EXCEPT ![a] = f]
  BY <1>0, Zenon DEF Type
<1>3. f \in Body
  <2>1. n \in Values /\ n \in Held /\ n # Masked
    BY ValuesAre
  <2>2. form[a] \in Body
    BY DEF AppTypes
  <2>3. f \in [Fields -> Held] /\ \A j \in Fields : f[j] \in {form[a][j], n}
    BY <2>1, <2>2 DEF Body
  <2> HIDE DEF f
  <2>. QED BY <2>1, <2>2, <2>3, FieldsAre DEF Body
<1> HIDE DEF f
<1>4. form' \in [Apps -> Body] /\ \A b \in Apps \ {a} : form'[b] = form[b]
  BY <1>2, <1>3 DEF AppTypes
<1>5. ApiTypes' /\ ApiOrigin'
  BY <1>1 DEF ApiTypes, ApiOrigin, Working
<1>6. AppTypes'
  BY <1>1, <1>4 DEF AppTypes
<1>7. BaseOrigin' /\ LoadOrigin'
  BY <1>1, <1>4 DEF BaseOrigin, LoadOrigin, Known, Shown, Loaded
<1>8. SaveOrigin'
  BY <1>1, SaveStays DEF Wrote, Working
<1>. QED BY <1>5, <1>6, <1>7, <1>8

LEMMA DiscardKeeps ==
  ASSUME IInv, NEW a \in Apps, NEW t \in Tabs, Discard(a, t)
  PROVE  IInv'
<1> USE DEF IInv, ApiInv
<1> DEFINE f == [k \in Fields |-> IF k \in FieldsOf[t] THEN base[a][k] ELSE form[a][k]]
<1>1. /\ Loaded(a)
      /\ UNCHANGED <<file, live, tray, listen, cookie, req, edits, stored,
                     conn, trust, login, port, base, load, save, nulled>>
  BY DEF Discard, DirtyTabs, apiVars
<1>2. form' = [form EXCEPT ![a] = f]
  BY Zenon DEF Discard
<1>3. f \in Body
  <2>1. form[a] \in Body /\ base[a] \in Body
    BY <1>1 DEF AppTypes, Loaded
  <2>. QED BY <2>1, FieldsAre DEF Body
<1> HIDE DEF f
<1>4. form' \in [Apps -> Body] /\ \A b \in Apps \ {a} : form'[b] = form[b]
  BY <1>2, <1>3 DEF AppTypes
<1>5. ApiTypes' /\ ApiOrigin'
  BY <1>1 DEF ApiTypes, ApiOrigin, Working
<1>6. AppTypes'
  BY <1>1, <1>4 DEF AppTypes
<1>7. BaseOrigin' /\ LoadOrigin'
  BY <1>1, <1>4 DEF BaseOrigin, LoadOrigin, Known, Shown, Loaded
<1>8. SaveOrigin'
  BY <1>1, SaveStays DEF Wrote, Working
<1>. QED BY <1>5, <1>6, <1>7, <1>8

(* A post of what was merged: as sent, or what was there already.          *)
LEMMA PostedFrom ==
  ASSUME ApiTypes, ApiOrigin, NEW a \in Apps, NEW sent \in Body, NEW locked \in BOOLEAN,
         NEW session, Judged(a, session, Wire(sent, locked))
  PROVE  /\ req' \in [Clients -> Post] /\ \A d \in Clients \ {a} : req'[d] = req[d]
         /\ \/ /\ req'[a].at = "write" /\ req'[a].new \in Stored
               /\ \A k \in Fields : \/ req'[a].new[k] = sent[k] \/ sent[k] \in Shown
                                    \/ k = "presets" /\ locked
            \/ req'[a].at \in {"idle", "done"} /\ req'[a].reply # "ok"
<1> DEFINE body == Wire(sent, locked)
<1>1. /\ body \in [Fields -> Sent]
      /\ \A k \in Fields : body[k] = sent[k] \/ (k = "presets" /\ locked)
  <2>1. sent \in [Fields -> Sent] /\ Keep \in Sent
    BY ConfigsAre, ValuesAre
  <2>. QED BY <2>1 DEF Wire
<1>2. body["port"] # Masked /\ body["secret"] # Masked
  BY <1>1, FieldsAre DEF Body
<1>3. a \in Clients /\ 0 \in Shown /\ Masked \in Shown
  BY DEF Clients, Shown, ApiOrigin
<1>4. \A k \in Fields : sent[k] # Keep
  BY ValuesAre DEF Body
<1>5. Judged(a, session, body)
  OBVIOUS
<1> HIDE DEF body
<1>6. /\ req' \in [Clients -> Post] /\ \A d \in Clients \ {a} : req'[d] = req[d]
      /\ \/ req'[a].at = "write" /\ req'[a].new = Normalize(body, live) /\ req'[a].new \in Stored
         \/ req'[a].at \in {"idle", "done"} /\ req'[a].reply # "ok"
  BY <1>1, <1>2, <1>3, <1>5, JudgedPost
<1>7. \A k \in Fields : \/ Normalize(body, live)[k] = sent[k] \/ sent[k] \in Shown
                        \/ k = "presets" /\ locked
  BY <1>1, <1>3, <1>4 DEF Normalize
<1>. QED BY <1>6, <1>7

(* A save as it is posted.                                                 *)
PostOf(p, tabs, sent, locked, relog, token) ==
  p = [NoSave EXCEPT !.at = "posted", !.tabs = tabs, !.sent = sent, !.locked = locked,
                     !.relog = relog, !.token = token]

LEMMA BeginSaveKeeps ==
  ASSUME IInv, NEW a \in Apps, NEW tabs \in SUBSET Tabs, BeginSave(a, tabs)
  PROVE  IInv'
<1> USE DEF IInv, ApiInv
<1>0. PICK sent, locked, relog, token, null, p :
        /\ sent = Merge(a, tabs) /\ locked = (trust[a] = "refused")
        /\ relog = (sent.secret \notin {0, base[a].secret}) /\ token = base[a].token
        /\ null = (nulled[a] \/ (locked /\ "presets" \in tabs))
        /\ PostOf(p, tabs, sent, locked, relog, token)
  BY DEF PostOf
<1>1. /\ Judged(a, cookie[a], Wire(sent, locked)) /\ SaveIs(a, p)
      /\ nulled' = [nulled EXCEPT ![a] = null] /\ Loaded(a)
      /\ UNCHANGED <<file, live, tray, listen, cookie, edits, stored,
                     conn, trust, login, port, base, form, load>>
  BY <1>0, Zenon DEF BeginSave, SaveIs, sameApi, PostOf
<1>2. base[a] \in Body /\ form[a] \in Body /\ \A k \in Fields : Known(a, k, base[a][k])
  BY <1>1 DEF AppTypes, BaseOrigin, Loaded
<1>3. /\ sent \in Body
      /\ "presets" \notin tabs => sent["presets"] = base[a]["presets"]
  <2>1. sent \in [Fields -> Held] /\ \A k \in Fields : sent[k] = base[a][k] \/ sent[k] = form[a][k]
    BY <1>0, <1>2, FieldsAre DEF Merge, Body
  <2>2. "presets" \notin tabs => sent["presets"] = base[a]["presets"]
    BY <1>0, TabsOf, FieldsAre DEF Merge
  <2>. QED BY <1>2, <2>1, <2>2, FieldsAre DEF Body
<1>4. token \in Held /\ token \in Shown
  BY <1>0, <1>2, FieldsAre DEF Body, Known
<1>5. locked \in BOOLEAN /\ relog \in BOOLEAN /\ null \in BOOLEAN /\ (nulled[a] => null)
      /\ (locked /\ "presets" \in tabs => null)
  BY <1>0 DEF AppTypes
<1>6. /\ p \in Saving /\ p.at = "posted" /\ p.sent = sent /\ p.locked = locked
      /\ p.token = token
  <2> DEFINE p1 == [NoSave EXCEPT !.at = "posted"]
             p2 == [p1 EXCEPT !.tabs = tabs]
             p3 == [p2 EXCEPT !.sent = sent]
             p4 == [p3 EXCEPT !.locked = locked]
             p5 == [p4 EXCEPT !.relog = relog]
             p6 == [p5 EXCEPT !.token = token]
  <2>1. p = p6
    BY <1>0, Zenon DEF PostOf
  <2>2. p1 \in Saving /\ p1.at = "posted"
    BY NoSaveIs DEF Saving
  <2> HIDE DEF p1
  <2>3. p2 \in Saving /\ p2.at = "posted"
    BY <2>2 DEF Saving
  <2> HIDE DEF p2
  <2>4. p3 \in Saving /\ p3.at = "posted" /\ p3.sent = sent
    BY <1>3, <2>3 DEF Saving
  <2> HIDE DEF p3
  <2>5. p4 \in Saving /\ p4.at = "posted" /\ p4.sent = sent /\ p4.locked = locked
    BY <1>5, <2>4 DEF Saving
  <2> HIDE DEF p4
  <2>6. p5 \in Saving /\ p5.at = "posted" /\ p5.sent = sent /\ p5.locked = locked
    BY <1>5, <2>5 DEF Saving
  <2> HIDE DEF p5
  <2>7. /\ p6 \in Saving /\ p6.at = "posted" /\ p6.sent = sent /\ p6.locked = locked
        /\ p6.token = token
    BY <1>4, <2>6 DEF Saving
  <2>. QED BY <2>1, <2>7
<1>7. /\ req' \in [Clients -> Post] /\ \A d \in Clients \ {a} : req'[d] = req[d]
      /\ \/ /\ req'[a].at = "write" /\ req'[a].new \in Stored
            /\ \A k \in Fields : \/ req'[a].new[k] = sent[k] \/ sent[k] \in Shown
                                 \/ k = "presets" /\ locked
         \/ req'[a].at \in {"idle", "done"} /\ req'[a].reply # "ok"
  BY <1>1, <1>3, <1>5, PostedFrom
<1>8. /\ nulled' \in [Apps -> BOOLEAN] /\ nulled'[a] = null
      /\ \A b \in Apps \ {a} : nulled'[b] = nulled[b]
  BY <1>1, <1>5 DEF AppTypes
<1>9. SaveFrom(a)'
  <2>1. save'[a] = p
    BY <1>1, <1>6, SaveSet
  <2>2. ~Wrote(a)'
    BY <1>7 DEF Wrote
  <2>3. locked => Known(a, "presets", sent["presets"])'
    BY <1>1, <1>2, <1>3, <1>5, <1>8, FieldsAre DEF Known, Shown
  <2>4. Working(a)' => \A k \in Fields : req'[a].new[k] = sent[k] \/ Known(a, k, sent[k])'
    BY <1>1, <1>7, <2>3 DEF Working, Known, Shown
  <2>5. token \in Shown'
    BY <1>1, <1>4 DEF Shown
  <2>. QED BY <1>6, <2>1, <2>2, <2>3, <2>4, <2>5 DEF SaveFrom, Known, Shown
<1>10. /\ trust \in [Apps -> {"unknown", "local", "refused"}]
       /\ cookie \in [Clients -> {"none", "secret", "local"}]
  BY DEF AppTypes, ApiTypes
<1>. QED BY <1>1, <1>3, <1>5, <1>6, <1>7, <1>8, <1>9, <1>10, SaveKeeps

LEMMA RepostKeeps ==
  ASSUME IInv, NEW a \in Apps, Repost(a)
  PROVE  IInv'
<1> USE DEF IInv, ApiInv
<1>0. PICK sent, locked, p :
        sent = save[a].sent /\ locked = save[a].locked /\ p = [save[a] EXCEPT !.again = TRUE]
  OBVIOUS
<1>1. /\ save[a].at = "posted" /\ Judged(a, "local", Wire(sent, locked)) /\ LocalLoginGoes(a)
      /\ UNCHANGED <<file, live, tray, listen, edits, stored,
                     conn, login, port, base, form, load, nulled>>
  BY <1>0 DEF Repost, AsksAgain, Replied, sameApi
<1>2. SaveIs(a, p)
  BY <1>0, Zenon DEF Repost, SaveIs
<1>3. save[a] \in Saving /\ sent \in Body /\ locked \in BOOLEAN
  BY <1>0, <1>1 DEF AppTypes, Saving
<1>4. /\ p \in Saving /\ p.at = "posted" /\ p.sent = sent /\ p.locked = locked
      /\ p.token = save[a].token
  BY <1>0, <1>1, <1>3 DEF Saving
<1>5. /\ cookie' \in [Clients -> {"none", "secret", "local"}]
      /\ trust' \in [Apps -> {"unknown", "local", "refused"}]
  BY <1>1, LocalLoginTypes
<1>6. /\ req' \in [Clients -> Post] /\ \A d \in Clients \ {a} : req'[d] = req[d]
      /\ \/ /\ req'[a].at = "write" /\ req'[a].new \in Stored
            /\ \A k \in Fields : \/ req'[a].new[k] = sent[k] \/ sent[k] \in Shown
                                 \/ k = "presets" /\ locked
         \/ req'[a].at \in {"idle", "done"} /\ req'[a].reply # "ok"
  BY <1>1, <1>3, PostedFrom
<1>7. /\ save[a].token \in Shown
      /\ locked => Known(a, "presets", sent["presets"])
  BY <1>0, <1>1, FieldsAre DEF SaveOrigin, SaveFrom
<1>8. SaveFrom(a)'
  <2>1. save'[a] = p
    BY <1>2, <1>4, SaveSet
  <2>2. ~Wrote(a)'
    BY <1>6 DEF Wrote
  <2>3. locked => Known(a, "presets", sent["presets"])'
    BY <1>1, <1>7 DEF Known, Shown
  <2>4. Working(a)' => \A k \in Fields : req'[a].new[k] = sent[k] \/ Known(a, k, sent[k])'
    BY <1>1, <1>6, <2>3 DEF Working, Known, Shown
  <2>5. p.token \in Shown'
    BY <1>1, <1>4, <1>7 DEF Shown
  <2>. QED BY <1>4, <2>1, <2>2, <2>3, <2>4, <2>5 DEF SaveFrom, Known, Shown
<1>9. nulled \in [Apps -> BOOLEAN]
  BY DEF AppTypes
<1>. QED BY <1>1, <1>2, <1>3, <1>4, <1>5, <1>6, <1>8, <1>9, SaveKeeps

(* What a save that went through leaves to be read: all it sent is known.  *)
LEMMA ReloginKeeps ==
  ASSUME IInv, NEW a \in Apps, Relogin(a)
  PROVE  IInv'
<1> USE DEF IInv, ApiInv
<1>1. /\ save[a].at = "posted" /\ req[a].at = "done" /\ req[a].reply = "ok" /\ Taken(a)
      /\ UNCHANGED <<file, live, tray, listen, edits, stored,
                     conn, trust, login, port, base, form, load, nulled>>
  BY DEF Relogin, Replied, At, sameApi
<1>2. PICK p \in Saving : /\ SaveIs(a, p) /\ p.at = "read" /\ p.sent = save[a].sent
                          /\ p.locked = save[a].locked /\ p.token = save[a].token
  <2>1. PICK q : q = [save[a] EXCEPT !.at = "read"]
    OBVIOUS
  <2>2. save[a] \in Saving
    BY DEF AppTypes
  <2>3. /\ q \in Saving /\ q.at = "read" /\ q.sent = save[a].sent
        /\ q.locked = save[a].locked /\ q.token = save[a].token
    BY <2>1, <2>2 DEF Saving
  <2>4. CASE save' = [save EXCEPT ![a].at = "read"]
    <3>1. SaveIs(a, q)
      BY <2>1, <2>4, Zenon DEF SaveIs
    <3>. QED BY <2>3, <3>1
  <2>5. CASE \E e \in BOOLEAN : save' = [save EXCEPT ![a].at = "read", ![a].err = e]
    <3>1. PICK e \in BOOLEAN : save' = [save EXCEPT ![a].at = "read", ![a].err = e]
      BY <2>5
    <3>2. PICK p : p = [q EXCEPT !.err = e]
      OBVIOUS
    <3>3. SaveIs(a, p)
      BY <2>1, <3>1, <3>2, Zenon DEF SaveIs
    <3>4. /\ p \in Saving /\ p.at = "read" /\ p.sent = save[a].sent
          /\ p.locked = save[a].locked /\ p.token = save[a].token
      BY <2>3, <3>1, <3>2 DEF Saving
    <3>. QED BY <3>3, <3>4
  <2>6. \/ save' = [save EXCEPT ![a].at = "read"]
        \/ \E e \in BOOLEAN : save' = [save EXCEPT ![a].at = "read", ![a].err = e]
    BY DEF Relogin
  <2>. QED BY <2>4, <2>5, <2>6
<1>3. /\ cookie' \in [Clients -> {"none", "secret", "local"}]
      /\ trust \in [Apps -> {"unknown", "local", "refused"}] /\ nulled \in [Apps -> BOOLEAN]
  <2>1. cookie \in [Clients -> {"none", "secret", "local"}] /\ a \in Clients
    BY DEF ApiTypes, Clients
  <2>2. cookie' \in [Clients -> {"none", "secret", "local"}]
    BY <2>1, CookieSet DEF Relogin
  <2>. QED BY <2>2 DEF AppTypes
<1>4. /\ req' \in [Clients -> Post] /\ req'[a].at = "idle"
      /\ \A d \in Clients \ {a} : req'[d] = req[d]
  BY <1>1, TakenIs
<1>5. p.sent \in Body
  BY <1>1, <1>2 DEF AppTypes
<1>6. SaveFrom(a)'
  <2>1. save'[a] = p
    BY <1>2, SaveSet
  <2>2. Wrote(a) /\ \A k \in Fields : Known(a, k, p.sent[k])
    BY <1>1, <1>2 DEF Wrote, SaveOrigin, SaveFrom
  <2>3. p.token \in Shown
    BY <1>1, <1>2, FieldsAre DEF SaveOrigin, SaveFrom
  <2>. QED BY <1>1, <1>2, <2>1, <2>2, <2>3, FieldsAre DEF SaveFrom, Known, Shown
<1>. QED BY <1>1, <1>2, <1>3, <1>4, <1>5, <1>6, SaveKeeps

LEMMA RereadKeeps ==
  ASSUME IInv, NEW a \in Apps, Reread(a)
  PROVE  IInv'
<1> USE DEF IInv, ApiInv
<1>1. /\ save[a].at = "read" \/ Wrote(a)
      /\ Taken(a)
      /\ UNCHANGED <<file, live, tray, listen, cookie, edits, stored,
                     conn, trust, login, port, base, form, load, nulled>>
  BY DEF Reread, Replied, Wrote, At, sameApi
<1>2. /\ save[a] \in Saving /\ save[a].sent \in Body /\ save[a].token \in Shown
      /\ save[a].at # "idle" /\ \A k \in Fields : Known(a, k, save[a].sent[k])
  BY <1>1, FieldsAre DEF AppTypes, SaveOrigin, SaveFrom, Wrote
<1>3. PICK got \in Body : /\ \A k \in Fields : Known(a, k, got[k])
                          /\ save' = [save EXCEPT ![a].at = "adopt", ![a].got = got]
  <2>1. View(a) \in Body /\ \A k \in Fields : View(a)[k] \in Shown
    <3>1. a \in Clients
      BY DEF Clients
    <3>. QED BY <3>1, ViewShows DEF ApiTypes, ApiOrigin, Shown
  <2>2. Fallback(save[a]) \in Body /\ \A k \in Fields : Known(a, k, Fallback(save[a])[k])
    <3> DEFINE s == save[a].sent
               t == IF s.token \in {0, Masked} THEN save[a].token ELSE Masked
               b == [s EXCEPT !.token = t]
    <3>1. t \in Held /\ t \in Shown
      BY <1>2, ValuesAre DEF Saving, Shown
    <3>2. Fallback(save[a]) = b
      BY DEF Fallback
    <3>3. s \in Body /\ \A k \in Fields : Known(a, k, s[k])
      BY <1>2
    <3> HIDE DEF s, t
    <3>4. b \in [Fields -> Held] /\ b["token"] = t /\ \A k \in Fields \ {"token"} : b[k] = s[k]
      BY <3>1, <3>3, FieldsAre DEF Body
    <3> HIDE DEF b
    <3>. QED BY <3>1, <3>2, <3>3, <3>4, FieldsAre DEF Body, Known
  <2>3. \A k \in Fields : Known(a, k, View(a)[k])
    BY <2>1 DEF Known
  <2>. QED BY <2>1, <2>2, <2>3 DEF Reread
<1>4. PICK p \in Saving : /\ SaveIs(a, p) /\ p.at = "adopt" /\ p.sent = save[a].sent
                          /\ p.locked = save[a].locked /\ p.got = got
  <2>1. PICK q, p : q = [save[a] EXCEPT !.at = "adopt"] /\ p = [q EXCEPT !.got = got]
    OBVIOUS
  <2>2. SaveIs(a, p)
    BY <1>3, <2>1, Zenon DEF SaveIs
  <2>3. /\ q \in Saving /\ q.at = "adopt" /\ q.sent = save[a].sent
        /\ q.locked = save[a].locked
    BY <1>2, <2>1 DEF Saving
  <2>4. /\ p \in Saving /\ p.at = "adopt" /\ p.sent = save[a].sent
        /\ p.locked = save[a].locked /\ p.got = got
    BY <2>1, <2>3 DEF Saving
  <2>. QED BY <2>2, <2>4
<1>5. /\ req' \in [Clients -> Post] /\ req'[a].at = "idle"
      /\ \A d \in Clients \ {a} : req'[d] = req[d]
  BY <1>1, TakenIs
<1>6. /\ cookie \in [Clients -> {"none", "secret", "local"}] /\ nulled \in [Apps -> BOOLEAN]
      /\ trust \in [Apps -> {"unknown", "local", "refused"}]
  BY DEF ApiTypes, AppTypes
<1>7. SaveFrom(a)'
  <2>1. save'[a] = p
    BY <1>4, SaveSet
  <2>. QED BY <1>1, <1>2, <1>3, <1>4, <2>1, FieldsAre DEF SaveFrom, Known, Shown
<1>. QED BY <1>1, <1>2, <1>3, <1>4, <1>5, <1>6, <1>7, SaveKeeps

----------------------------------------------------------------------------
LEMMA InitIInv == Init => IInv
<1> SUFFICES ASSUME Init PROVE IInv
  OBVIOUS
<1> USE DEF Init, ApiInit
<1>1. NoReq \in Post /\ NoReq.at = "idle"
  BY ConfigsAre DEF NoReq, Post, Replies
<1>2. ApiTypes
  BY <1>1, ValuesAre, ConfigsAre, ConfigAssumption DEF ApiTypes, Working
<1>3. ApiOrigin
  BY <1>1 DEF ApiOrigin, Defaults
<1>4. AppTypes
  <2>1. [k \in Fields |-> 0] \in Body
    BY ValuesAre, FieldsAre, ConfigsAre DEF Body, Masked
  <2>. QED BY <2>1, ValuesAre, NoLoadIs, NoSaveIs DEF AppTypes
<1>5. BaseOrigin /\ LoadOrigin
  BY NoLoadIs DEF BaseOrigin, LoadOrigin
<1>6. SaveOrigin
  BY NoSaveIs DEF SaveOrigin, SaveFrom, Wrote, NoSave
<1>. QED BY <1>2, <1>3, <1>4, <1>5, <1>6 DEF IInv, ApiInv

LEMMA StutterKeeps ==
  ASSUME IInv, UNCHANGED vars
  PROVE  IInv'
  BY DEF IInv, ApiInv, ApiTypes, AppTypes, ApiOrigin, BaseOrigin, LoadOrigin, SaveOrigin, SaveFrom,
         Known, Shown, Wrote, Working, vars, apiVars, appVars

LEMMA StepIInv == IInv /\ [Next]_vars => IInv'
<1> SUFFICES ASSUME IInv, [Next]_vars PROVE IInv'
  OBVIOUS
<1>1. CASE ApiStep /\ UNCHANGED appVars
  BY <1>1, ApiKeeps
<1>2. ASSUME NEW a \in Apps, UserStep(a) PROVE IInv'
  BY <1>2, TypeKeeps, DiscardKeeps, BeginSaveKeeps, QuietSteps DEF UserStep, Quiet
<1>3. ASSUME NEW a \in Apps, LoadStep(a) PROVE IInv'
  BY <1>3, LoadConfigKeeps, AdoptLoadedKeeps, QuietSteps DEF LoadStep, Quiet
<1>4. ASSUME NEW a \in Apps, SaveStep(a) PROVE IInv'
  BY <1>4, RepostKeeps, SaveFailsKeeps, GiveUpKeeps, UnheardKeeps, ReloginKeeps, RereadKeeps,
     AdoptSavedKeeps DEF SaveStep
<1>5. ASSUME NEW a \in Apps, Poll(a) PROVE IInv'
  BY <1>5, QuietSteps DEF Quiet
<1>6. CASE UNCHANGED vars
  BY <1>6, StutterKeeps
<1>. QED BY <1>1, <1>2, <1>3, <1>4, <1>5, <1>6 DEF Next

(* The invariant holds in every reachable state.                           *)
THEOREM Invariance == Spec => []IInv
  BY InitIInv, StepIInv, PTL DEF Spec

(* What the service's and the apps' variables hold, whatever interleaves.  *)
THEOREM TypeCorrect == Spec => []TypeOK
<1>1. IInv => TypeOK
  BY ValuesAre, ConfigsAre DEF IInv, ApiInv, ApiTypes, AppTypes, TypeOK, Stored, Body, Post
<1>. QED BY <1>1, Invariance, PTL

(* MasksNeverStored for every number of apps and whatever fails: Normalize *)
(* turns a masked token into the stored one, masked presets are refused or *)
(* were never sent, and no form ever holds another masked value.           *)
THEOREM NeverStoresMask == Spec => []MasksNeverStored
<1>1. IInv => MasksNeverStored
  <2>1. IInv => \A f \in Fields : file[f] \in Nat /\ live[f] \in Nat
    BY ValuesAre DEF IInv, ApiInv, ApiTypes, Stored
  <2>. QED BY <2>1 DEF MasksNeverStored
<1>. QED BY <1>1, Invariance, PTL

----------------------------------------------------------------------------
(* A tab with a value of its own is not refilled, when what it is compared *)
(* with was stored or shown.                                               *)
LEMMA AdoptKeepsEdits ==
  ASSUME IInv, NEW a \in Apps, NEW fresh \in Body, NEW ref, Adopt(a, fresh, ref),
         NEW k \in Fields, Unsaved(a, k), k = "presets" => ~nulled[a],
         ref = NoConfig => form[a][k] = 0, ref # NoConfig => Known(a, k, ref[k])
  PROVE  form'[a][k] = form[a][k]
<1> USE DEF IInv, ApiInv
<1>1. PICK t \in Tabs : k \in FieldsOf[t]
  BY TabsOf
<1>2. 0 \in Shown /\ Masked \in Shown /\ form[a][k] \notin Shown
  BY DEF ApiOrigin, Shown, Unsaved
<1>3. ref # NoConfig /\ form[a][k] # ref[k]
  BY <1>2 DEF Known
<1>4. Dirty(a, t, ref)
  <2>1. CASE t = "telegram"
    BY <1>1, <1>2, <2>1, TabsOf DEF Dirty, DirtyIn
  <2>2. CASE t # "telegram"
    BY <1>1, <1>3, <2>2 DEF Dirty, DirtyIn
  <2>. QED BY <2>1, <2>2
<1>. QED BY <1>1, <1>3, <1>4, AdoptSets

(* EditsKept for any number of apps whose loads and saves interleave: a    *)
(* tab is refilled only where its entries are the baseline's or the config *)
(* sent, and both are stored or masked by then.                            *)
THEOREM KeepsEdits == Spec => EditsKept
<1> DEFINE Unedited(a, k) == Unsaved(a, k) /\ (k = "presets" => ~nulled[a])
                           /\ (load'[a] # load[a] \/ save'[a] # save[a])
                           => form'[a][k] = form[a][k]
<1>1. ASSUME IInv, NEW b \in Apps, AdoptLoaded(b), NEW a \in Apps, NEW k \in Fields
      PROVE  Unedited(a, k)
  <2>1. /\ load[b].at = "adopt" /\ load[b].got \in Body /\ Adopt(b, load[b].got, base[b])
    BY <1>1 DEF AdoptLoaded, IInv, AppTypes
  <2>2. CASE a = b
    BY <1>1, <2>1, <2>2, AdoptKeepsEdits DEF IInv, BaseOrigin
  <2>3. CASE a # b
    BY <1>1, <2>1, <2>3, AdoptSets DEF IInv
  <2>. QED BY <2>2, <2>3
<1>2. ASSUME IInv, NEW b \in Apps, AdoptSaved(b), NEW a \in Apps, NEW k \in Fields
      PROVE  Unedited(a, k)
  <2>1. /\ save[b].at = "adopt" /\ save[b].got \in Body /\ Adopt(b, save[b].got, save[b].sent)
        /\ save[b].sent # NoConfig /\ Known(b, k, save[b].sent[k])
    BY <1>2, ConfigsAre DEF AdoptSaved, IInv, AppTypes, SaveOrigin, SaveFrom
  <2>2. CASE a = b
    BY <1>2, <2>1, <2>2, AdoptKeepsEdits
  <2>3. CASE a # b
    BY <1>2, <2>1, <2>3, AdoptSets DEF IInv
  <2>. QED BY <2>2, <2>3
<1>3. ASSUME UNCHANGED <<load, save>> \/ UNCHANGED form, NEW a \in Apps, NEW k \in Fields
      PROVE  Unedited(a, k)
  BY <1>3
<1>4. ASSUME IInv, [Next]_vars, NEW a \in Apps, NEW k \in Fields
      PROVE  Unedited(a, k)
  <2>1. CASE ApiStep /\ UNCHANGED appVars
    BY <1>3, <2>1 DEF appVars
  <2>2. ASSUME NEW b \in Apps, UserStep(b) PROVE Unedited(a, k)
    <3>1. UNCHANGED <<load, save>> \/ UNCHANGED form
      BY <2>2 DEF UserStep, Type, Discard, BeginSave, LoginGoes, LoginPutOff, LoginButton
    <3>. QED BY <1>3, <3>1
  <2>3. ASSUME NEW b \in Apps, LoadStep(b) PROVE Unedited(a, k)
    <3>1. AdoptLoaded(b) \/ UNCHANGED form
      BY <2>3 DEF LoadStep, EnsureLocal, LoadConfig, FollowPort, LoadLost, LoadRetry, LoadRefused
    <3>. QED BY <1>1, <1>3, <1>4, <3>1
  <2>4. ASSUME NEW b \in Apps, SaveStep(b) PROVE Unedited(a, k)
    <3>1. AdoptSaved(b) \/ UNCHANGED form
      BY <2>4 DEF SaveStep, Repost, SaveFails, GiveUp, Unheard, Relogin, Reread, appVars
    <3>. QED BY <1>2, <1>3, <1>4, <3>1
  <2>5. ASSUME NEW b \in Apps, Poll(b) PROVE Unedited(a, k)
    BY <1>3, <2>5 DEF Poll
  <2>6. CASE UNCHANGED vars
    BY <1>3, <2>6 DEF vars, appVars
  <2>. QED BY <1>4, <2>1, <2>2, <2>3, <2>4, <2>5, <2>6 DEF Next
<1>5. IInv /\ [Next]_vars =>
        [\A a \in Apps, k \in Fields : Unedited(a, k)]_vars
  BY <1>4
<1>. QED BY <1>5, Invariance, PTL DEF EditsKept, Spec

(***************************************************************************)
(* The watch list (WatchList): what a save accepts, what a load makes of a *)
(* file, and what the tray's editor may do to it.                          *)
(***************************************************************************)
(* A list of entries, read in ascending order of its indices.              *)
IsProcess(p) == {"key", "as", "gap", "flaws"} \subseteq DOMAIN p /\ p.flaws \subseteq ProcessFlaws
IsLabel(l) == {"text", "flaws"} \subseteq DOMAIN l /\ l.flaws \subseteq LabelFlaws
IsEntry(w) ==
  /\ w = [slot |-> w.slot, process |-> w.process, label |-> w.label]
  /\ w.slot \in Nat /\ IsProcess(w.process) /\ IsLabel(w.label)
IsWatch(watch) ==
  /\ watch = [i \in DOMAIN watch |-> watch[i]]
  /\ DOMAIN watch \subseteq Nat /\ IsFiniteSet(DOMAIN watch)
  /\ \A i \in DOMAIN watch : IsEntry(watch[i])

LEMMA ExceptKeeps ==
  ASSUME NEW f, NEW v, NEW a
  PROVE  /\ DOMAIN [f EXCEPT ![a] = v] = DOMAIN f
         /\ \A x \in DOMAIN f : x # a => [f EXCEPT ![a] = v][x] = f[x]
  OBVIOUS

LEMMA TrimKeeps ==
  /\ \A p : IsProcess(p) => /\ IsProcess(Trim(p)) /\ Trim(p).key = p.key
                            /\ Trim(p).as = p.as /\ Trim(p).flaws = p.flaws
  /\ \A l : IsLabel(l) => IsLabel(Trim(l)) /\ Trim(l).text = l.text /\ Trim(l).flaws = l.flaws
<1>1. ASSUME NEW p, IsProcess(p)
      PROVE  Trim(p).key = p.key /\ Trim(p).as = p.as /\ Trim(p).flaws = p.flaws /\ DOMAIN Trim(p) = DOMAIN p
  BY <1>1, ExceptKeeps DEF Trim, IsProcess
<1>2. ASSUME NEW l, IsLabel(l)
      PROVE  Trim(l).text = l.text /\ Trim(l).flaws = l.flaws /\ DOMAIN Trim(l) = DOMAIN l
  BY <1>2, ExceptKeeps DEF Trim, IsLabel
<1> QED BY <1>1, <1>2 DEF IsProcess, IsLabel

LEMMA NormalizedEntry ==
  ASSUME NEW w, IsEntry(w)
  PROVE  /\ IsEntry(Normalized(w))
         /\ Normalized(w).slot = w.slot
         /\ Normalized(w).process.key = w.process.key
         /\ Normalized(w).process.flaws = w.process.flaws
         /\ w.process.key # Blank => Normalized(w).label.text # NoLabel
         /\ w.process.key # Blank => Normalized(w).label.flaws \subseteq w.label.flaws
         /\ w.label.text # NoLabel => Normalized(w).label.flaws = w.label.flaws
<1> DEFINE n == Normalized(w)
<1>1. n.slot = w.slot /\ n.process = Trim(w.process)
      /\ n = [slot |-> n.slot, process |-> n.process, label |-> n.label]
  BY DEF Normalized
<1>2. n.label = IF w.label.text = NoLabel /\ w.process.key # Blank
                THEN [text |-> <<w.process.key, w.process.as>>, spaced |-> w.process.gap, flaws |-> {}]
                ELSE Trim(w.label)
  BY DEF Normalized, DefaultLabel
<1>3. <<w.process.key, w.process.as>> # NoLabel
  BY DEF NoLabel
<1>4. IsProcess(n.process) /\ n.process.key = w.process.key /\ n.process.flaws = w.process.flaws
  BY <1>1, TrimKeeps DEF IsEntry
<1>5. CASE w.label.text = NoLabel /\ w.process.key # Blank
  <2>1. n.label = [text |-> <<w.process.key, w.process.as>>, spaced |-> w.process.gap, flaws |-> {}]
    BY <1>2, <1>5
  <2>2. IsLabel(n.label) /\ n.label.text # NoLabel /\ n.label.flaws = {}
    BY <2>1, <1>3 DEF IsLabel
  <2>3. IsEntry(n)
    BY <2>2, <1>1, <1>4 DEF IsEntry
  <2> QED BY <2>2, <2>3, <1>1, <1>4, <1>5
<1>6. CASE ~(w.label.text = NoLabel /\ w.process.key # Blank)
  <2>1. IsLabel(n.label) /\ n.label.text = w.label.text /\ n.label.flaws = w.label.flaws
    BY <1>2, <1>6, TrimKeeps DEF IsEntry
  <2>2. IsEntry(n)
    BY <2>1, <1>1, <1>4 DEF IsEntry
  <2> QED BY <2>1, <2>2, <1>1, <1>4, <1>6
<1> QED BY <1>5, <1>6

LEMMA RankGrows ==
  ASSUME NEW S, S \subseteq Nat, IsFiniteSet(S), NEW m \in S, NEW n \in Nat, m < n
  PROVE  Before(S, m) < Before(S, n)
<1> DEFINE A == {k \in S : k < m}
<1> DEFINE B == {k \in S : k < n}
<1>1. IsFiniteSet(B) /\ B \in SUBSET S
  BY FS_Subset
<1>2. A \in SUBSET B /\ m \in B /\ m \notin A
  <2>1. \A k \in S : k < m => k < n
    OBVIOUS
  <2>2. ~(m < m)
    OBVIOUS
  <2> QED BY <2>1, <2>2, Zenon
<1>3. Cardinality(A) <= Cardinality(B) /\ (Cardinality(B) = Cardinality(A) => B = A) /\ IsFiniteSet(A)
  <2> HIDE DEF A, B
  <2> QED BY <1>1, <1>2, FS_Subset
<1>4. Cardinality(A) \in Nat /\ Cardinality(B) \in Nat
  <2> HIDE DEF A, B
  <2> QED BY <1>1, <1>3, FS_CardinalityType
<1>5. B # A
  <2> HIDE DEF A, B
  <2> QED BY <1>2
<1>6. Cardinality(A) < Cardinality(B)
  <2> HIDE DEF A, B
  <2> QED BY <1>3, <1>4, <1>5
<1> QED BY <1>6 DEF Before

(* The slots handed out are slots, and no two entries get the same.        *)
LEMMA SlotsApart ==
  ASSUME NEW watch, IsWatch(watch)
  PROVE  /\ Placed(watch) \subseteq Kept(watch)
         /\ \A i \in Placed(watch) : SlotOf(watch, i) \in WatchSlots
         /\ \A i, j \in Placed(watch) : SlotOf(watch, i) = SlotOf(watch, j) => i = j
<1> DEFINE K == Kept(watch)
<1> DEFINE Ke == Keeps(watch)
<1> DEFINE N == Needs(watch)
<1> DEFINE F == Free(watch)
<1> DEFINE slot(i) == SlotOf(watch, i)
<1>1. K \subseteq DOMAIN watch /\ Ke \subseteq K /\ N = K \ Ke /\ K \subseteq Nat
  BY DEF Kept, Keeps, Needs, IsWatch
<1>2. F \subseteq WatchSlots /\ \A i \in Ke : watch[i].slot \in WatchSlots /\ watch[i].slot \notin F
  BY DEF Free, Keeps
<1>3. IsFiniteSet(N)
  BY <1>1, FS_Subset DEF IsWatch
<1>4. Placed(watch) \subseteq K
  BY <1>1 DEF Placed
<1>5. \A i \in Ke : slot(i) = watch[i].slot
  BY DEF SlotOf
<1>6. ASSUME NEW i \in Placed(watch), i \notin Ke
      PROVE  i \in N /\ slot(i) \in F /\ Before(F, slot(i)) = Before(N, i)
  <2>1. i \in N /\ \E s \in F : Before(F, s) = Before(N, i)
    BY <1>6 DEF Placed
  <2>2. slot(i) = CHOOSE s \in F : Before(F, s) = Before(N, i)
    BY <1>6 DEF SlotOf
  <2> HIDE DEF F, N, slot
  <2> QED BY <2>1, <2>2
<1>7. \A i \in Placed(watch) : slot(i) \in WatchSlots
  <2> TAKE i \in Placed(watch)
  <2>1. CASE i \in Ke
    BY <2>1, <1>2, <1>5
  <2>2. CASE i \notin Ke
    <3>1. slot(i) \in F
      BY <1>6, <2>2
    <3> QED BY <3>1, <1>2
  <2> QED BY <2>1, <2>2
<1>8. \A i, j \in Placed(watch) : slot(i) = slot(j) => i = j
  <2> SUFFICES ASSUME NEW i \in Placed(watch), NEW j \in Placed(watch), slot(i) = slot(j), i # j
               PROVE  FALSE
    OBVIOUS
  <2>1. i \in Nat /\ j \in Nat /\ (i < j \/ j < i)
    BY <1>1, <1>4
  <2>2. CASE i \in Ke /\ j \in Ke
    <3>1. i \in K /\ j \in K /\ watch[i].slot = watch[j].slot
      BY <2>2, <1>1, <1>5
    <3> QED BY <3>1, <2>2, <2>1 DEF Keeps
  <2>3. CASE i \in Ke /\ j \notin Ke
    BY <2>3, <1>2, <1>5, <1>6
  <2>4. CASE i \notin Ke /\ j \in Ke
    BY <2>4, <1>2, <1>5, <1>6
  <2>5. CASE i \notin Ke /\ j \notin Ke
    <3>1. i \in N /\ j \in N /\ Before(N, i) = Before(N, j)
      BY <2>5, <1>6
    <3>2. N \subseteq Nat
      BY <1>1
    <3>3. \A m \in N, n \in N : m < n => Before(N, m) < Before(N, n)
      <4> HIDE DEF N
      <4> QED BY <3>2, <1>3, RankGrows
    <3>4. Before(N, i) \in Nat
      <4> DEFINE C == {m \in N : m < i}
      <4>1. IsFiniteSet(C)
        <5>1. C \in SUBSET N
          OBVIOUS
        <5> HIDE DEF N, C
        <5> QED BY <5>1, <1>3, FS_Subset
      <4>2. Cardinality(C) \in Nat
        <5> HIDE DEF C
        <5> QED BY <4>1, FS_CardinalityType
      <4> QED BY <4>2 DEF Before
    <3> HIDE DEF N, slot
    <3> QED BY <3>1, <3>3, <3>4, <2>1
  <2> QED BY <2>2, <2>3, <2>4, <2>5
<1> QED BY <1>4, <1>7, <1>8

LEMMA FiveSlots ==
  IsFiniteSet(WatchSlots) /\ Cardinality(WatchSlots) = 5
<1>1. WatchSlots = 1..5
  BY DEF WatchSlots, MaxWatch
<1>2. IsFiniteSet(1..5) /\ Cardinality(1..5) = IF 1 > 5 THEN 0 ELSE 5 - 1 + 1
  <2>1. 1 \in Int /\ 5 \in Int
    OBVIOUS
  <2> QED BY <2>1, FS_Interval, Zenon
<1> QED BY <1>1, <1>2

(* What a load makes of any file is a list that a save would accept.       *)
THEOREM SanitizedIsAccepted ==
  ASSUME NEW watch, IsWatch(watch)
  PROVE  Accepted(Sanitized(watch))
<1> DEFINE L == [i \in Placed(watch) |-> [Normalized(watch[i]) EXCEPT !.slot = SlotOf(watch, i)]]
<1> DEFINE S == Sanitized(watch)
<1>1. \A i \in Placed(watch) :
        /\ L[i].slot = SlotOf(watch, i) /\ Sound(L[i])
        /\ L[i].process.key = watch[i].process.key
  <2> TAKE i \in Placed(watch)
  <2> DEFINE n == Normalized(watch[i])
  <2>1. i \in DOMAIN watch /\ Sound(n)
    BY SlotsApart DEF Kept
  <2>2. IsEntry(n) /\ n.process.key = watch[i].process.key
    BY <2>1, NormalizedEntry DEF IsWatch
  <2>3. [n EXCEPT !.slot = SlotOf(watch, i)] =
          [slot |-> SlotOf(watch, i), process |-> n.process, label |-> n.label]
    <3> HIDE DEF n
    <3> QED BY <2>2 DEF IsEntry
  <2>4. L[i] = [slot |-> SlotOf(watch, i), process |-> n.process, label |-> n.label]
    BY <2>3
  <2> HIDE DEF L, n
  <2> QED BY <2>1, <2>2, <2>4 DEF Sound
<1>2. DOMAIN L = Placed(watch)
  OBVIOUS
<1>3. S = [s \in {L[i].slot : i \in DOMAIN L} |-> L[CHOOSE i \in DOMAIN L : L[i].slot = s]]
  BY DEF Sanitized, InSlotOrder
<1>4. ASSUME NEW s \in DOMAIN S
      PROVE  \E i \in Placed(watch) : S[s] = L[i] /\ L[i].slot = s
  <2> DEFINE i == CHOOSE k \in DOMAIN L : L[k].slot = s
  <2>1. \E k \in DOMAIN L : L[k].slot = s
    <3> HIDE DEF L, S
    <3> QED BY <1>3, <1>4
  <2>2. i \in DOMAIN L /\ L[i].slot = s
    <3> HIDE DEF L
    <3> QED BY <2>1
  <2>3. S[s] = L[i]
    <3> HIDE DEF L, S
    <3> QED BY <1>3, <1>4
  <2> HIDE DEF L, S, i
  <2> QED BY <2>2, <2>3, <1>2
<1>5. DOMAIN S \subseteq WatchSlots
  <2> HIDE DEF L, S
  <2> QED BY <1>4, <1>1, SlotsApart
<1>6. Cardinality(DOMAIN S) <= MaxWatch
  <2> HIDE DEF S
  <2> QED BY <1>5, FiveSlots, FS_Subset DEF MaxWatch
<1>7. \A s \in DOMAIN S : S[s].slot \in WatchSlots /\ Sound(S[s])
  <2> HIDE DEF L, S
  <2> QED BY <1>4, <1>1, SlotsApart
<1>8. \A s, t \in DOMAIN S : s # t => S[s].slot # S[t].slot /\ S[s].process.key # S[t].process.key
  <2> SUFFICES ASSUME NEW s \in DOMAIN S, NEW t \in DOMAIN S, s # t
               PROVE  S[s].slot # S[t].slot /\ S[s].process.key # S[t].process.key
    <3> HIDE DEF S
    <3> QED OBVIOUS
  <2>1. PICK i \in Placed(watch) : S[s] = L[i] /\ L[i].slot = s
    <3> HIDE DEF L, S
    <3> QED BY <1>4
  <2>2. PICK j \in Placed(watch) : S[t] = L[j] /\ L[j].slot = t
    <3> HIDE DEF L, S
    <3> QED BY <1>4
  <2>3. i # j /\ i \in Kept(watch) /\ j \in Kept(watch) /\ i \in Nat /\ j \in Nat
    <3> HIDE DEF L, S
    <3> QED BY <2>1, <2>2, SlotsApart DEF Kept, IsWatch
  <2>4. watch[i].process.key # watch[j].process.key
    BY <2>3 DEF Kept
  <2> HIDE DEF L, S
  <2> QED BY <2>1, <2>2, <2>4, <1>1
<1> HIDE DEF L
<1> QED BY <1>6, <1>7, <1>8 DEF Accepted

(* A list that a save accepts is the list a load makes of it: no entry is  *)
(* lost or moved, and nothing has to be written down.                      *)
THEOREM SavedIsLoaded ==
  ASSUME NEW watch, IsWatch(watch), Accepted(watch), watch = WithDefaults(watch)
  PROVE  Sanitized(watch) = InSlotOrder(watch) /\ ~Migrated(watch)
<1> DEFINE D == DOMAIN watch
<1>1. \A i \in D : Normalized(watch[i]) = watch[i]
  BY DEF WithDefaults
<1>2. Kept(watch) = D
  BY <1>1 DEF Kept, Accepted, IsWatch
<1>3. Keeps(watch) = D
  <2>1. \A i \in D : watch[i].slot \in WatchSlots
    BY DEF Accepted
  <2>2. \A i, j \in D : j < i => watch[j].slot # watch[i].slot
    <3>1. \A i, j \in D : j < i => j # i
      BY DEF IsWatch
    <3> QED BY <3>1 DEF Accepted
  <2> QED BY <1>2, <2>1, <2>2, Zenon DEF Keeps
<1>4. Needs(watch) = {} /\ Placed(watch) = D
  BY <1>2, <1>3 DEF Needs, Placed
<1>5. \A i \in D : SlotOf(watch, i) = watch[i].slot
  BY <1>3 DEF SlotOf
<1>6. \A i \in D : [Normalized(watch[i]) EXCEPT !.slot = SlotOf(watch, i)] = watch[i]
  <2> TAKE i \in D
  <2> DEFINE w == watch[i]
  <2>1. w = [slot |-> w.slot, process |-> w.process, label |-> w.label]
    BY DEF IsWatch, IsEntry
  <2>2. [w EXCEPT !.slot = w.slot] = w
    <3> HIDE DEF w
    <3> QED BY <2>1
  <2> QED BY <2>2, <1>1, <1>5
<1>7. [i \in Placed(watch) |-> [Normalized(watch[i]) EXCEPT !.slot = SlotOf(watch, i)]] = [i \in D |-> watch[i]]
  BY <1>4, <1>6
<1>8. [i \in D |-> watch[i]] = watch
  BY DEF IsWatch
<1> QED BY <1>4, <1>7, <1>8 DEF Sanitized, Migrated

(* The app refuses a list exactly where the service would, but for a file  *)
(* name beyond MAX_PATH, which the app lets through.                       *)
THEOREM EditorAgrees ==
  ASSUME NEW rows, IsWatch(rows), \A i \in DOMAIN rows : "long" \notin rows[i].process.flaws
  PROVE  ~ListProblem(rows) <=> Accepted(ToSend(rows))
<1> DEFINE S == ToSend(rows)
<1>1. DOMAIN S \subseteq DOMAIN rows
      /\ \A i \in DOMAIN S : S[i] = Normalized(rows[i])
                             /\ (rows[i].process.key # Blank \/ rows[i].label.text # NoLabel)
  BY DEF ToSend
<1>2. ASSUME NEW i \in DOMAIN S
      PROVE  /\ S[i].process.flaws \subseteq ProcessFlaws \ {"long"}
             /\ S[i].process.key # Blank => S[i].label.text # NoLabel
  <2>1. i \in DOMAIN rows /\ IsEntry(rows[i]) /\ "long" \notin rows[i].process.flaws /\ S[i] = Normalized(rows[i])
    BY <1>1 DEF IsWatch
  <2>2. /\ S[i].process.flaws = rows[i].process.flaws
        /\ S[i].process.key = rows[i].process.key
        /\ rows[i].process.key # Blank => S[i].label.text # NoLabel
    <3> HIDE DEF S
    <3> QED BY <2>1, NormalizedEntry
  <2> HIDE DEF S
  <2> QED BY <2>1, <2>2 DEF IsEntry, IsProcess
<1>3. \A i \in DOMAIN S :
        S[i].process.flaws = {} <=> S[i].process.flaws \cap {"path", "control", "noexe"} = {}
  <2> HIDE DEF S
  <2> QED BY <1>2 DEF ProcessFlaws
<1>4. \A i \in DOMAIN S :
        Sound(S[i]) <=> ~ (\/ S[i].process.key = Blank
                           \/ S[i].process.flaws \cap {"path", "control", "noexe"} # {}
                           \/ S[i].label.flaws # {})
  <2> HIDE DEF S
  <2> QED BY <1>2, <1>3 DEF Sound
<1>5. IsFiniteSet(DOMAIN S)
  <2>1. DOMAIN S \in SUBSET DOMAIN rows
    BY <1>1
  <2> HIDE DEF S
  <2> QED BY <2>1, FS_Subset DEF IsWatch
<1>6. Cardinality(DOMAIN S) \in Nat
  <2> HIDE DEF S
  <2> QED BY <1>5, FS_CardinalityType
<1>7. ~(Cardinality(DOMAIN S) > MaxWatch) <=> Cardinality(DOMAIN S) <= MaxWatch
  <2> HIDE DEF S
  <2> QED BY <1>6 DEF MaxWatch
<1> DEFINE Bad1 == \E i \in DOMAIN S : S[i].slot \notin WatchSlots \/ ~Sound(S[i])
<1> DEFINE Bad2 == \E i, j \in DOMAIN S : i # j /\ (S[i].slot = S[j].slot \/ S[i].process.key = S[j].process.key)
<1>8. ListProblem(rows) <=> (Cardinality(DOMAIN S) > MaxWatch \/ Bad1 \/ Bad2)
  <2>1. (\E i \in DOMAIN S : \/ S[i].slot \notin WatchSlots
                             \/ S[i].process.key = Blank
                             \/ S[i].process.flaws \cap {"path", "control", "noexe"} # {}
                             \/ S[i].label.flaws # {}) <=> Bad1
    <3> HIDE DEF S
    <3> QED BY <1>4
  <2> HIDE DEF Bad1
  <2> QED BY <2>1, Zenon DEF ListProblem
<1>9. Accepted(S) <=> (Cardinality(DOMAIN S) <= MaxWatch /\ ~Bad1 /\ ~Bad2)
  <2> HIDE DEF S
  <2> QED BY Zenon DEF Accepted
<1> HIDE DEF Bad1, Bad2
<1> QED BY <1>7, <1>8, <1>9

----------------------------------------------------------------------------
(* The editor's list: indexed by slot. *)
Indexed(rows) ==
  /\ rows = [s \in DOMAIN rows |-> rows[s]]
  /\ DOMAIN rows \subseteq WatchSlots
  /\ \A s \in DOMAIN rows : IsEntry(rows[s]) /\ rows[s].slot = s

LEMMA LowestFree ==
  ASSUME NEW rows, FreeSlots(rows) # {}
  PROVE  /\ FreeSlot(rows) \in FreeSlots(rows)
         /\ \A t \in FreeSlots(rows) : FreeSlot(rows) <= t
<1> DEFINE F == FreeSlots(rows)
<1>1. F \subseteq 1..5
  BY DEF FreeSlots, WatchSlots, MaxWatch
<1>2. \E s \in F : \A t \in F : s <= t
  <2>0. F # {}
    OBVIOUS
  <2> HIDE DEF F
  <2>1. CASE 1 \in F
    BY <2>1, <1>1
  <2>2. CASE 1 \notin F /\ 2 \in F
    BY <2>2, <1>1
  <2>3. CASE 1 \notin F /\ 2 \notin F /\ 3 \in F
    BY <2>3, <1>1
  <2>4. CASE 1 \notin F /\ 2 \notin F /\ 3 \notin F /\ 4 \in F
    BY <2>4, <1>1
  <2>5. CASE F \subseteq {5}
    <3>1. 5 \in F /\ \A t \in F : t = 5
      BY <2>0, <2>5
    <3> QED BY <3>1
  <2>6. F \subseteq {1, 2, 3, 4, 5}
    BY <1>1
  <2> QED BY <2>1, <2>2, <2>3, <2>4, <2>5, <2>6
<1>3. FreeSlot(rows) = CHOOSE s \in F : \A t \in F : s <= t
  BY DEF FreeSlot
<1> HIDE DEF F
<1>4. FreeSlot(rows) \in F /\ \A t \in F : FreeSlot(rows) <= t
  BY <1>2, <1>3
<1> QED BY <1>4 DEF F

LEMMA PutIndexed ==
  ASSUME NEW rows, Indexed(rows), NEW row, IsEntry(row), row.slot \in WatchSlots
  PROVE  Indexed(Put(rows, row))
BY DEF Indexed, Put

LEMMA DeleteIndexed ==
  ASSUME NEW rows, Indexed(rows), NEW s PROVE Indexed(Delete(rows, s))
BY DEF Indexed, Delete

LEMMA RowEntries ==
  /\ \A s \in WatchSlots : IsEntry(BlankRow(s)) /\ BlankRow(s).slot = s
  /\ \A s \in WatchSlots : \A p :
       IsProcess(p) => IsEntry([slot |-> s, process |-> Trim(p), label |-> DefaultLabel(p)])
<1>1. \A s \in WatchSlots : s \in Nat
  BY DEF WatchSlots, MaxWatch
<1>2. \A s \in WatchSlots : IsEntry(BlankRow(s)) /\ BlankRow(s).slot = s
  BY <1>1 DEF BlankRow, IsEntry, IsProcess, IsLabel
<1>3. ASSUME NEW s \in WatchSlots, NEW p, IsProcess(p)
      PROVE  IsEntry([slot |-> s, process |-> Trim(p), label |-> DefaultLabel(p)])
  <2>1. IsLabel(DefaultLabel(p))
    BY DEF DefaultLabel, IsLabel
  <2>2. IsProcess(Trim(p))
    BY <1>3, TrimKeeps
  <2> QED BY <2>1, <2>2, <1>1 DEF IsEntry
<1> QED BY <1>2, <1>3

(* Adding, picking, moving, deleting and typing leave every row a slot of  *)
(* its own from 1 to 5: a list the editor makes never fails for its slots. *)
THEOREM EditorKeepsSlots ==
  ASSUME NEW rows, Indexed(rows)
  PROVE  /\ Indexed(AddRow(rows))
         /\ \A p : IsProcess(p) => Indexed(AddProcess(rows, p))
         /\ \A s, t : Indexed(SetSlot(rows, s, t)) /\ Indexed(Delete(rows, s))
         /\ \A s, p, l : IsProcess(p) /\ IsLabel(l) => Indexed(TypeRow(rows, s, p, l))
<1>0. \A s \in WatchSlots : s \in Nat
  BY DEF WatchSlots, MaxWatch
<1>1. Room(rows) => FreeSlot(rows) \in WatchSlots
  BY LowestFree DEF Room, FreeSlots
<1>2. Indexed(AddRow(rows))
  BY <1>1, RowEntries, PutIndexed DEF AddRow
<1>3. ASSUME NEW p, IsProcess(p) PROVE Indexed(AddProcess(rows, p))
  <2> DEFINE row == [slot |-> FreeSlot(rows), process |-> Trim(p), label |-> DefaultLabel(p)]
  <2>1. Room(rows) => IsEntry(row) /\ row.slot \in WatchSlots
    BY <1>1, <1>3, RowEntries
  <2>2. Room(rows) => Indexed(Put(rows, row))
    <3> HIDE DEF row
    <3> QED BY <2>1, PutIndexed
  <2> QED BY <2>2 DEF AddProcess
<1>4. ASSUME NEW s, NEW t PROVE Indexed(SetSlot(rows, s, t))
  <2>1. CASE s \notin DOMAIN rows \/ t = s \/ t \notin SlotChoices(rows, s)
    BY <2>1 DEF SetSlot
  <2>2. CASE s \in DOMAIN rows /\ t # s /\ t \in SlotChoices(rows, s)
    <3> DEFINE row == [rows[s] EXCEPT !.slot = t]
    <3>1. t \in WatchSlots
      BY <2>2 DEF SlotChoices
    <3>2. rows[s] = [slot |-> rows[s].slot, process |-> rows[s].process, label |-> rows[s].label]
          /\ IsProcess(rows[s].process) /\ IsLabel(rows[s].label)
      BY <2>2 DEF Indexed, IsEntry
    <3>3. row = [slot |-> t, process |-> rows[s].process, label |-> rows[s].label]
      BY <3>2
    <3>4. IsEntry(row) /\ row.slot \in WatchSlots
      BY <3>1, <3>2, <3>3, <1>0 DEF IsEntry
    <3>5. Indexed(Put(Delete(rows, s), row))
      <4> HIDE DEF row
      <4> QED BY <3>4, DeleteIndexed, PutIndexed
    <3> QED BY <2>2, <3>5 DEF SetSlot
  <2> QED BY <2>1, <2>2
<1>5. ASSUME NEW s, NEW p, NEW l, IsProcess(p), IsLabel(l) PROVE Indexed(TypeRow(rows, s, p, l))
  <2>1. CASE s \in DOMAIN rows
    <3> DEFINE new == [slot |-> s, process |-> p, label |-> l]
    <3>3. TypeRow(rows, s, p, l) = [rows EXCEPT ![s] = new]
      BY <2>1 DEF TypeRow
    <3>4. IsEntry(new) /\ new.slot = s
      BY <1>0, <1>5, <2>1 DEF IsEntry, Indexed
    <3>5. Indexed([rows EXCEPT ![s] = new])
      <4> HIDE DEF new
      <4> QED BY <2>1, <3>4 DEF Indexed
    <3> QED BY <3>3, <3>5
  <2>2. CASE s \notin DOMAIN rows
    BY <2>2 DEF TypeRow
  <2> QED BY <2>1, <2>2
<1> QED BY <1>2, <1>3, <1>4, <1>5, DeleteIndexed

(* While the list has fewer than five rows the picker's choice is added,   *)
(* and nothing else on it changes: the button is only locked when it must. *)
THEOREM PickIsAdded ==
  ASSUME NEW rows, Indexed(rows), Cardinality(DOMAIN rows) < MaxWatch,
         NEW running, NEW matching, NEW p \in Candidates(running, rows, matching),
         IsProcess(p), p.key # Blank
  PROVE  /\ Listed(AddProcess(rows, p), p)
         /\ \A s \in DOMAIN rows : s \in DOMAIN AddProcess(rows, p) /\ AddProcess(rows, p)[s] = rows[s]
<1>1. FreeSlots(rows) # {}
  <2> SUFFICES ASSUME FreeSlots(rows) = {} PROVE FALSE
    OBVIOUS
  <2>1. DOMAIN rows = WatchSlots
    BY DEF FreeSlots, Indexed
  <2> QED BY <2>1, FiveSlots DEF MaxWatch
<1> DEFINE f == FreeSlot(rows)
<1> DEFINE row == [slot |-> f, process |-> Trim(p), label |-> DefaultLabel(p)]
<1>2. Room(rows) /\ ~Listed(rows, p) /\ f \notin DOMAIN rows
  BY <1>1, LowestFree DEF Room, Candidates, FreeSlots
<1>3. AddProcess(rows, p) = Put(rows, row)
  BY <1>2 DEF AddProcess
<1>4. row.slot = f /\ row.process.key = p.key
  BY TrimKeeps
<1>5. Put(rows, row) = [s \in DOMAIN rows \cup {f} |-> IF s = f THEN row ELSE rows[s]]
  BY <1>4 DEF Put
<1> HIDE DEF f, row
<1> QED BY <1>2, <1>3, <1>4, <1>5 DEF Listed

(***************************************************************************)
(* The presets (Presets): what is stored can start, what the editor shows  *)
(* and what it overlooks, and what a list without its paths means.         *)
(***************************************************************************)
(* A preset as the code's types give it. *)
IsPreset(p) ==
  /\ p = [slot |-> p.slot, name |-> p.name, type |-> p.type, path |-> p.path, args |-> p.args]
  /\ p.name \in [DOMAIN p.name -> {p.name[f] : f \in DOMAIN p.name}]
  /\ p.path \in [DOMAIN p.path -> {p.path[f] : f \in DOMAIN p.path}]
  /\ "spaced" \in DOMAIN p.name /\ "spaced" \in DOMAIN p.path
  /\ p.name.spaced \in BOOLEAN /\ p.path.spaced \in BOOLEAN
  /\ p.args \in Seq(Seq(STRING))

(* presets.go's promise: a preset that saves is one that can run - the     *)
(* helper accepts its arguments and has an image to start for it.          *)
THEOREM SavedCanStart ==
  ASSUME NEW p, ValidPreset(p) PROVE CanStart(p)
<1>1. Parses(p) /\ Launchable(p)
  BY DEF ValidPreset
<1>2. CASE p.type = "url"
  BY <1>1, <1>2 DEF CanStart
<1>3. CASE p.type = "program"
  BY <1>1, <1>3 DEF CanStart, Launch, NoLaunch
<1>4. CASE p.type = "script"
  <2>1. p.path.ext \in ScriptExts
    BY <1>1, <1>4 DEF Parses
  <2>2. CASE p.path.ext = "ps1"
    BY <1>1, <1>4, <2>2 DEF CanStart, Launch, NoLaunch
  <2>3. CASE p.path.ext \in BatchExts
    BY <1>1, <1>4, <2>3 DEF CanStart, Launch, NoLaunch, BatchExts
  <2> QED BY <2>1, <2>2, <2>3 DEF ScriptExts
<1> QED BY <1>1, <1>2, <1>3, <1>4 DEF Parses

LEMMA TrimTrimmed ==
  ASSUME NEW t, t \in [DOMAIN t -> {t[f] : f \in DOMAIN t}], "spaced" \in DOMAIN t,
         t.spaced \in BOOLEAN, ~t.spaced
  PROVE  TrimText(t) = t
<1>1. t.spaced = FALSE
  OBVIOUS
<1>2. [t EXCEPT !["spaced"] = t["spaced"]] = t
  OBVIOUS
<1> QED BY <1>1, <1>2, Zenon DEF TrimText

(* What is stored shows in the editor without a complaint and converts     *)
(* back to itself, where its arguments can be written in one line at all.  *)
THEOREM StoredShowsClean ==
  ASSUME MaxArgs \in Nat, NEW p, IsPreset(p), ValidPreset(p), ReadsBack(p.args)
  PROVE  /\ RowProblem(RowFromPreset(p)) = ""
         /\ Converts(RowFromPreset(p)) /\ PresetOf(RowFromPreset(p)) = p
<1> DEFINE r == RowFromPreset(p)
<1>1. r = [slot |-> p.slot, name |-> p.name, type |-> p.type, path |-> p.path, line |-> JoinArgs(p.args)]
  BY DEF RowFromPreset
<1>2. r.slot = p.slot /\ r.name = p.name /\ r.type = p.type /\ r.path = p.path /\ r.line = JoinArgs(p.args)
  BY <1>1
<1>3. Balanced(r.line) /\ SplitArgs(r.line) = p.args
  BY <1>2 DEF ReadsBack
<1>4. Converts(r)
  BY <1>3 DEF Converts
<1>5. TrimText(p.name) = p.name /\ TrimText(p.path) = p.path
  BY TrimTrimmed DEF IsPreset, ValidPreset, ValidName
<1>6. (p.type = "url" => p.args = << >>)
  BY DEF ValidPreset, Parses
<1>7. PresetOf(r) = p
  <2>1. PresetOf(r) = [slot |-> p.slot, name |-> p.name, type |-> p.type, path |-> p.path,
                       args |-> IF p.type = "url" THEN << >> ELSE p.args]
    <3> HIDE DEF r
    <3> QED BY <1>2, <1>3, <1>5 DEF PresetOf
  <2> QED BY <2>1, <1>6 DEF IsPreset
<1>8. RowProblem(r) = ""
  <2> HIDE DEF r
  <2>1. p.slot \in PresetSlots /\ p.name.key # NoKey /\ ~p.name.long /\ p.type \in Types /\ p.path.kind # "blank"
    BY DEF ValidPreset, ValidName, Parses
  <2>2. CASE p.type = "url"
    <3>1. LinkVerdict(p.path) = "ok"
      BY <2>2 DEF ValidPreset, Parses
    <3> QED BY <2>1, <2>2, <3>1, <1>2 DEF RowProblem
  <2>3. CASE p.type # "url"
    <3>1. p.type \in {"program", "script"}
      BY <2>1, <2>3 DEF Types
    <3>2. p.path.kind \in {"drive", "share", "device"}
      BY <3>1 DEF ValidPreset, Launchable
    <3>3. ~(Len(p.args) > MaxArgs)
      <4>1. Len(p.args) \in Nat /\ Len(p.args) <= MaxArgs
        BY DEF IsPreset, ValidPreset
      <4> QED BY <4>1
    <3>4. (p.type = "program" => p.path.ext \in ProgramExts) /\ (p.type = "script" => p.path.ext \in ScriptExts)
      BY DEF ValidPreset, Launchable, Parses
    <3> QED BY <2>1, <2>3, <3>2, <3>3, <3>4, <1>2, <1>3 DEF RowProblem
  <2> QED BY <2>2, <2>3
<1> QED BY <1>4, <1>7, <1>8

(* What the editor lets through and the service refuses is known: control  *)
(* characters, a path or an argument that is too long, a device path, and  *)
(* what cmd.exe would act on.  Anything else it accepts, saves.            *)
Overlooked(p) ==
  \/ p.name.control \/ p.path.long \/ p.path.control \/ p.path.kind = "device"
  \/ \E i \in DOMAIN p.args : Len(p.args[i]) > MaxArgRunes \/ Holds(p.args[i], {"tab", "ctl"})
  \/ /\ p.type = "script" /\ p.path.ext \in BatchExts
     /\ p.path.unsafe \/ \E i \in DOMAIN p.args : Unsafe(p.args[i])

IsRow(r) ==
  /\ {"key", "spaced", "long", "control"} \subseteq DOMAIN r.name
  /\ {"kind", "ext", "spaced", "long", "control", "unsafe"} \subseteq DOMAIN r.path
  /\ SplitArgs(r.line) \in Seq(Seq(STRING))

LEMMA ArgLengths ==
  ASSUME NEW a \in Seq(Seq(STRING))
  PROVE  Len(a) \in Nat /\ \A i \in DOMAIN a : Len(a[i]) \in Nat
<1>1. Len(a) \in Nat /\ DOMAIN a = 1..Len(a)
  OBVIOUS
<1>2. \A i \in DOMAIN a : a[i] \in Seq(STRING)
  BY <1>1
<1> QED BY <1>1, <1>2

LEMMA NotMore ==
  ASSUME NEW n \in Nat, NEW m \in Nat, ~(n > m) PROVE n <= m
OBVIOUS

LEMMA NoArgs ==
  ASSUME NEW m \in Nat PROVE Len(<< >>) <= m /\ DOMAIN << >> = {}
OBVIOUS

(* A row without a complaint saves, unless it is one of the known few: the  *)
(* editor's checks leave nothing else to the service.                      *)
THEOREM EditorOverlooks ==
  ASSUME MaxArgs \in Nat, MaxArgRunes \in Nat, NEW r, IsRow(r), RowProblem(r) = "", ~Overlooked(PresetOf(r))
  PROVE  ValidPreset(PresetOf(r))
<1> DEFINE p == PresetOf(r)
<1>0. ~Overlooked(p) /\ p = PresetOf(r)
  OBVIOUS
<1>1. /\ p.slot = r.slot /\ p.type = r.type /\ p.name = TrimText(r.name) /\ p.path = TrimText(r.path)
      /\ p.args = IF r.type = "url" THEN << >> ELSE SplitArgs(r.line)
  BY DEF PresetOf
<1>2. p.name.key = r.name.key /\ p.name.long = r.name.long /\ p.name.control = r.name.control /\ p.name.spaced = FALSE
  <2>1. TrimText(r.name).key = r.name.key /\ TrimText(r.name).long = r.name.long
        /\ TrimText(r.name).control = r.name.control
    BY ExceptKeeps DEF TrimText, IsRow
  <2>2. TrimText(r.name).spaced = FALSE
    BY DEF TrimText, IsRow
  <2> QED BY <1>1, <2>1, <2>2
<1>3. /\ p.path.kind = r.path.kind /\ p.path.ext = r.path.ext /\ p.path.long = r.path.long
      /\ p.path.control = r.path.control /\ p.path.unsafe = r.path.unsafe /\ p.path.spaced = FALSE
  <2>1. TrimText(r.path).kind = r.path.kind /\ TrimText(r.path).ext = r.path.ext
    BY ExceptKeeps DEF TrimText, IsRow
  <2>2. /\ TrimText(r.path).long = r.path.long
        /\ TrimText(r.path).control = r.path.control /\ TrimText(r.path).unsafe = r.path.unsafe
    BY ExceptKeeps DEF TrimText, IsRow
  <2>3. TrimText(r.path).spaced = FALSE
    BY DEF TrimText, IsRow
  <2> QED BY <1>1, <2>1, <2>2, <2>3
<1>4. r.slot \in PresetSlots /\ r.name.key # NoKey /\ ~r.name.long /\ r.type \in Types /\ r.path.kind # "blank"
  BY DEF RowProblem
<1>5. ValidName(p.name)
  <2> HIDE DEF p
  <2> QED BY <1>0, <1>2, <1>4 DEF ValidName, Overlooked
<1>6. CASE r.type = "url"
  <2>1. LinkVerdict(r.path) = "ok"
    BY <1>4, <1>6 DEF RowProblem, LinkVerdict
  <2>2. LinkVerdict(p.path) = "ok" /\ p.args = << >>
    <3> HIDE DEF p
    <3> QED BY <2>1, <1>1, <1>3, <1>6 DEF LinkVerdict
  <2>3. Len(p.args) <= MaxArgs /\ DOMAIN p.args = {}
    <3> HIDE DEF p
    <3> QED BY <2>2, NoArgs
  <2>4. Parses(p)
    <3> HIDE DEF p
    <3> QED BY <1>0, <2>2, <2>3, <1>1, <1>3, <1>4, <1>6 DEF Parses, Overlooked
  <2>5. Launchable(p)
    <3> HIDE DEF p
    <3> QED BY <1>1, <1>6 DEF Launchable
  <2> HIDE DEF p
  <2> QED BY <1>0, <2>3, <2>4, <2>5, <1>1, <1>3, <1>4, <1>5 DEF ValidPreset
<1>7. CASE r.type # "url"
  <2>1. r.type \in {"program", "script"}
    BY <1>4, <1>7 DEF Types
  <2>2. /\ ~(Len(SplitArgs(r.line)) > MaxArgs) /\ r.path.kind \in {"drive", "share", "device"}
        /\ (r.type = "program" => r.path.ext \in ProgramExts) /\ (r.type = "script" => r.path.ext \in ScriptExts)
    BY <1>4, <1>7 DEF RowProblem
  <2>3. Len(p.args) <= MaxArgs
    <3>1. Len(SplitArgs(r.line)) \in Nat
      BY ArgLengths DEF IsRow
    <3>2. p.args = SplitArgs(r.line)
      BY <1>1, <1>7
    <3>3. ~(Len(SplitArgs(r.line)) > MaxArgs)
      BY <2>2
    <3> HIDE DEF p
    <3> QED BY <3>1, <3>2, <3>3, NotMore, Zenon
  <2>4. \A i \in DOMAIN p.args : Len(p.args[i]) <= MaxArgRunes /\ ~Holds(p.args[i], {"tab", "ctl"})
    <3>1. p.args = SplitArgs(r.line)
      BY <1>1, <1>7
    <3>2. \A i \in DOMAIN p.args : Len(p.args[i]) \in Nat
      <4> HIDE DEF p
      <4> QED BY <3>1, ArgLengths DEF IsRow
    <3>3. \A i \in DOMAIN p.args : ~(Len(p.args[i]) > MaxArgRunes) /\ ~Holds(p.args[i], {"tab", "ctl"})
      <4> HIDE DEF p
      <4> QED BY <1>0, Zenon DEF Overlooked
    <3> HIDE DEF p
    <3> QED BY <3>2, <3>3, NotMore, Zenon
  <2>5. Parses(p)
    <3> HIDE DEF p
    <3> QED BY <1>0, <2>1, <2>2, <2>3, <2>4, <1>1, <1>3, <1>4 DEF Parses, Overlooked
  <2>6. Launchable(p)
    <3> HIDE DEF p
    <3> QED BY <1>0, <2>1, <2>2, <1>1, <1>3 DEF Launchable, Overlooked
  <2> HIDE DEF p
  <2> QED BY <1>0, <2>3, <2>5, <2>6, <1>1, <1>3, <1>4, <1>5 DEF ValidPreset
<1> QED BY <1>6, <1>7

(* DropInvalidPresets: what a load keeps would save, and every entry it    *)
(* drops is invalid or repeats the slot or name of one that stays.         *)
THEOREM KeptIsValid ==
  ASSUME NEW ps, DOMAIN ps \subseteq Nat, NEW K, KeptBy(ps, K)
  PROVE  /\ ValidPresets(Restricted(ps, K))
         /\ \A i \in DOMAIN ps \ K : ~ValidPreset(ps[i]) \/ \E j \in K : j < i /\ ~Apart(ps[j], ps[i])
<1>1. K \subseteq DOMAIN ps /\ K \subseteq Nat
  BY DEF KeptBy
<1>2. \A i \in K : Restricted(ps, K)[i] = ps[i]
  BY DEF Restricted
<1>3. \A i \in K : ValidPreset(ps[i])
  BY DEF KeptBy
<1>4. \A i, j \in K : j < i => Apart(ps[i], ps[j])
  BY DEF KeptBy
<1>5. \A i, j \in K : i # j => Apart(ps[i], ps[j])
  <2> SUFFICES ASSUME NEW i \in K, NEW j \in K, i # j PROVE Apart(ps[i], ps[j])
    OBVIOUS
  <2>1. i < j \/ j < i
    BY <1>1
  <2> QED BY <2>1, <1>4 DEF Apart
<1>6. DOMAIN Restricted(ps, K) = K
  BY DEF Restricted
<1>7. ValidPresets(Restricted(ps, K))
  BY <1>2, <1>3, <1>5, <1>6 DEF ValidPresets
<1>8. \A i \in DOMAIN ps \ K : ~ValidPreset(ps[i]) \/ \E j \in K : j < i /\ ~Apart(ps[j], ps[i])
  BY DEF KeptBy, Apart
<1> QED BY <1>7, <1>8

LEMMA OneInSlot ==
  ASSUME NEW ps, ValidPresets(ps), NEW i \in DOMAIN ps
  PROVE  ps[i].slot \in SlotsOf(ps) /\ BySlot(ps)[ps[i].slot] = ps[i]
<1> DEFINE s == ps[i].slot
<1>1. s \in SlotsOf(ps)
  BY DEF SlotsOf
<1>2. \A j \in DOMAIN ps : ps[j].slot = s => j = i
  BY DEF ValidPresets, Apart
<1>3. (CHOOSE j \in DOMAIN ps : ps[j].slot = s) = i
  <2>1. \E j \in DOMAIN ps : ps[j].slot = s
    OBVIOUS
  <2> DEFINE c == CHOOSE j \in DOMAIN ps : ps[j].slot = s
  <2>2. c \in DOMAIN ps /\ ps[c].slot = s
    BY <2>1
  <2> QED BY <1>2, <2>2
<1> QED BY <1>1, <1>3 DEF BySlot

(* /run means one preset: whatever is typed, at most one answers to it.    *)
THEOREM RunMeansOne ==
  ASSUME NEW ps, ValidPresets(ps), NEW arg
  PROVE  \A i, j \in ByName(ps, arg) : i = j
BY DEF ByName, InSlot, ValidPresets, Apart

(* A list read without the local session comes back with every filled slot *)
(* changed: it is refused, and never empties a path.                       *)
THEOREM MaskedIsRefused ==
  ASSUME NEW ps, ValidPresets(ps), \A i \in DOMAIN ps : IsPreset(ps[i]), DOMAIN ps # {}, NEW watchChanged
  PROVE  /\ ChangedSlots(ps, MaskPresets(ps)) = SlotsOf(ps)
         /\ LocalOnlyChange(ps, MaskPresets(ps), watchChanged)
<1> DEFINE m == MaskPresets(ps)
<1>1. DOMAIN m = DOMAIN ps
  BY DEF MaskPresets
<1>2. ASSUME NEW i \in DOMAIN ps
      PROVE  m[i].slot = ps[i].slot /\ m[i].name = ps[i].name /\ m[i].path = NoPath
  <2> DEFINE p == ps[i]
  <2>1. p = [slot |-> p.slot, name |-> p.name, type |-> p.type, path |-> p.path, args |-> p.args]
    BY DEF IsPreset
  <2>2. m[i] = [p EXCEPT !.path = NoPath, !.args = << >>]
    BY DEF MaskPresets
  <2>3. m[i] = [slot |-> p.slot, name |-> p.name, type |-> p.type, path |-> NoPath, args |-> << >>]
    <3> HIDE DEF p, m
    <3> QED BY <2>1, <2>2
  <2> QED BY <2>3
<1>3. SlotsOf(m) = SlotsOf(ps)
  <2> HIDE DEF m
  <2> QED BY <1>1, <1>2 DEF SlotsOf
<1>4. ASSUME NEW s \in SlotsOf(ps) PROVE BySlot(m)[s] # BySlot(ps)[s]
  <2>1. PICK i \in DOMAIN ps : ps[i].slot = s
    BY DEF SlotsOf
  <2>2. BySlot(ps)[s] = ps[i]
    BY <2>1, OneInSlot
  <2>3. ps[i].path.kind # "blank"
    BY DEF ValidPresets, ValidPreset, Parses
  <2> DEFINE c == CHOOSE j \in DOMAIN m : m[j].slot = s
  <2>4. c \in DOMAIN m /\ m[c].slot = s
    <3> HIDE DEF m
    <3> QED BY <2>1, <1>1, <1>2
  <2>5. BySlot(m)[s] = m[c]
    <3> HIDE DEF m
    <3> QED BY <1>3 DEF BySlot
  <2>6. m[c].path.kind = "blank"
    <3>1. m[c].path = NoPath
      <4> HIDE DEF m, c
      <4> QED BY <2>4, <1>1, <1>2
    <3>2. NoPath.kind = "blank"
      BY DEF NoPath
    <3> HIDE DEF m, c
    <3> QED BY <3>1, <3>2
  <2> HIDE DEF m, c
  <2> QED BY <2>2, <2>3, <2>5, <2>6
<1>5. ChangedSlots(ps, m) = SlotsOf(ps)
  <2> HIDE DEF m
  <2> QED BY <1>3, <1>4 DEF ChangedSlots
<1>6. SlotsOf(ps) # {}
  BY DEF SlotsOf
<1> QED BY <1>5, <1>6 DEF LocalOnlyChange
=============================================================================
