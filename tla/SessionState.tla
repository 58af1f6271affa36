---------------------------- MODULE SessionState ----------------------------
(***************************************************************************)
(* What the service knows of the user's device (service/devstate and its   *)
(* users in service/): the newest sample of one store, audio or media, and *)
(* the four that write and clear it without waiting for each other:        *)
(*   - the tray apps' heartbeats, one app per session;                     *)
(*   - the replies of commands run in the user's session;                  *)
(*   - the service's own background reading (session_fill.go);             *)
(*   - every look-up of the target session, which forgets the samples of   *)
(*     a session the commands no longer act on (st_idle.go).               *)
(*                                                                         *)
(* The store is the audio or the media one: they share only the tray report*)
(* and the target, and differ in whether a command's reply is followed by  *)
(* another reading.  A state of the device is counted by changes: level[s] *)
(* is the one session s has now.  Of times the model keeps what the code   *)
(* asks of them: a sample older than fillStaleAfter is `stale`, `tray`     *)
(* lasts trayQuietAfter and gate.recent fillEvery.  Each may run out at any*)
(* moment, in any order.  What a status shows of a sample (the TTL of the  *)
(* media store, the opt-in) and the events a change sets off leave the     *)
(* store alone.                                                            *)
(***************************************************************************)
EXTENDS Integers, SequencesExt

CONSTANTS
    Rdp,        \* the remote sessions
    Budget,     \* bound: what users, Windows and the network do
    Posts       \* bound: posts under way at once

Console  == "console"
Sessions == {Console} \cup Rdp
Nobody   == "nobody"
Unknown  == "unknown"           \* SessionTracker: no look-up yet
Failed   == "failed"            \* the look-up failed for another reason
Nothing  == [of |-> Nobody, level |-> 0]

Runs    == {"fill", "command"}              \* goroutines that run user-action
Threads == Runs \cup {"status"} \cup Sessions   \* a session stands for its post

ASSUME SessionStateAssumption ==
    /\ Budget \in Nat /\ Posts \in Nat
    /\ Rdp \subseteq STRING
    /\ Rdp \cap (Runs \cup {"status", Console, Nobody, Failed, Unknown}) = {}

VARIABLES
    enabled,    \* media.enabled
    user,       \* who is logged in where, and locked: Windows
    level,      \* the state of each session's device: Windows
    budget,
    pc, seen, got,              \* per thread: place, look-up, what it read
    observed,   \* SessionTracker.last
    store,      \* Sample.v, Nothing before the first
    stale,      \* the sample is older than fillStaleAfter
    tray,       \* dev.tray: a post from the target within trayQuietAfter
    wire,       \* the posts under way in the order their samples were taken
    late,       \* the sessions with a post there whose sample the store's overtook
    gate        \* Refresh: [running, again, recent]

vars == <<enabled, user, level, budget, pc, seen, got, observed, store,
          stale, tray, wire, late, gate>>
windows == <<enabled, user, level, budget>>
sample  == <<store, stale, late>>

-----------------------------------------------------------------------------
(* FindUser: the console, then the remote sessions in a fixed order; of    *)
(* those with a user the first that is unlocked, else the first.           *)
Candidates == {s \in Sessions : user[s] # "none"}
First(S)   == IF Console \in S THEN Console ELSE CHOOSE s \in S : TRUE
FindUser ==
    LET unlocked == {s \in Candidates : user[s] = "unlocked"}
    IN  IF unlocked # {} THEN First(unlocked)
        ELSE IF Candidates # {} THEN First(Candidates) ELSE Nobody

(* fillWanted and fillNeeded; requestFill asks the gate only when needed.  *)
FillWanted == enabled /\ ~tray
FillNeeded == FillWanted /\ (store = Nothing \/ stale)

(* Refresh.Begin: refused while a reading runs, which a forced request has *)
(* repeated, and within the interval unless forced.                        *)
BeginsBeside(force) == force \/ ~gate.recent                     \* Mutant
Begins(force) == ~gate.running /\ (force \/ ~gate.recent)
Begun(force) ==
    IF Begins(force) THEN [gate EXCEPT !.running = TRUE, !.recent = TRUE]
    ELSE [gate EXCEPT !.again = @ \/ (gate.running /\ force)]

Place(t, p) == pc' = [pc EXCEPT ![t] = p]
Leave(t) ==                     \* thread t ends, its locals with it
    /\ Place(t, "idle")
    /\ seen' = [seen EXCEPT ![t] = Nobody]
    /\ got' = [got EXCEPT ![t] = Nothing]

(* requestFill in thread t, which goes on at p: a reading that may begin   *)
(* gets a goroutine.                                                       *)
RequestFill(t, p, force) ==
    IF FillNeeded
    THEN /\ gate' = Begun(force)
         /\ pc' = [pc EXCEPT ![t] = p,
                             !["fill"] = IF t = "fill" THEN p
                                         ELSE IF Begins(force) THEN "start" ELSE @]
    ELSE Place(t, p) /\ UNCHANGED gate

(* Sample.Note: a clock-time sample is newer than every post under way; a  *)
(* post's sample is stored unless the stored one is newer, and is newer    *)
(* than those of the posts sampled before it.                              *)
NoteNow(v) ==
    /\ store' = v
    /\ stale' = FALSE
    /\ late' = Range(wire)

Earlier(s) == {wire[j] : j \in {j \in DOMAIN wire :
                                  \E i \in DOMAIN wire : wire[i] = s /\ j < i}}
NotePostAnyway(s, v) ==                                         \* Mutant
    /\ late' = late \ {s}
    /\ store' = v
    /\ stale' = FALSE
NotePost(s, v) ==
    /\ IF s \in late
       THEN late' = late \ {s} /\ UNCHANGED <<store, stale>>
       ELSE late' = (late \cup Earlier(s)) \ {s} /\ store' = v /\ stale' = FALSE

-----------------------------------------------------------------------------
(* targetUserSession, which every thread goes through: Observe, and for a  *)
(* target that moved the stores and the tray report forgotten one by one,  *)
(* then a reading forced.  It returns at "go".                             *)
Looks(t) == pc[t] = "look" \/ (t = "status" /\ pc[t] = "idle" /\ enabled)
LookUp(t) ==
    /\ Looks(t)
    /\ LET moved == observed \notin {Unknown, FindUser}
       IN  /\ Place(t, IF moved THEN "forget" ELSE "go")
           /\ seen' = [seen EXCEPT ![t] = IF moved \/ t \notin Runs THEN FindUser ELSE @]
    /\ observed' = FindUser
    /\ UNCHANGED <<windows, got, sample, tray, wire, gate>>

LookUpFails(t) ==
    /\ Looks(t) /\ budget > 0
    /\ budget' = budget - 1
    /\ seen' = [seen EXCEPT ![t] = IF t \in Runs THEN @ ELSE Failed]
    /\ Place(t, "go")
    /\ UNCHANGED <<enabled, user, level, got, observed, sample, tray, wire, gate>>

ForgetSample(t) ==
    /\ pc[t] = "forget"
    /\ store' = Nothing
    /\ stale' = FALSE
    /\ late' = {}
    /\ Place(t, "forget tray")
    /\ UNCHANGED <<windows, seen, got, observed, tray, wire, gate>>

ForgetTray(t) ==
    /\ pc[t] = "forget tray"
    /\ tray' = FALSE
    /\ Place(t, IF seen[t] = Nobody THEN "go" ELSE "force")
    /\ seen' = [seen EXCEPT ![t] = IF t \in Runs THEN Nobody ELSE @]
    /\ UNCHANGED <<windows, got, observed, sample, wire, gate>>

ForceFill(t) ==
    /\ pc[t] = "force"
    /\ RequestFill(t, "go", TRUE)
    /\ UNCHANGED <<windows, seen, got, observed, sample, tray, wire>>

-----------------------------------------------------------------------------
(* A status read (stAudioStatus, stMediaStatus), which begins with the     *)
(* look-up, and the start of the service once fillStartDelay is over, which*)
(* does the same.                                                          *)
StatusAnswers ==
    /\ pc["status"] = "go"
    /\ IF seen["status"] \in Sessions
       THEN RequestFill("status", "idle", FALSE)
       ELSE Place("status", "idle") /\ UNCHANGED gate
    /\ seen' = [seen EXCEPT !["status"] = Nobody]
    /\ UNCHANGED <<windows, got, observed, sample, tray, wire>>

(* sessionFill.run: whether to read is asked again in the goroutine.       *)
FillStarts ==
    /\ pc["fill"] = "start"
    /\ Place("fill", IF FillNeeded THEN "look" ELSE "end")
    /\ UNCHANGED <<windows, seen, got, observed, sample, tray, wire, gate>>

(* Refresh.End: with a forced request meanwhile, once more, unless media   *)
(* control was turned off or a tray app has reported.                      *)
FillStays ==                                                    \* Mutant
    /\ pc["fill"] = "end"
    /\ IF gate.again
       THEN /\ gate' = [gate EXCEPT !.again = FALSE, !.recent = TRUE]
            /\ Place("fill", IF FillWanted THEN "look" ELSE "end")
       ELSE /\ UNCHANGED gate
            /\ Place("fill", "idle")
    /\ UNCHANGED <<windows, seen, got, observed, sample, tray, wire>>
FillEnds ==
    /\ pc["fill"] = "end"
    /\ IF gate.again
       THEN /\ gate' = [gate EXCEPT !.again = FALSE, !.recent = TRUE]
            /\ Place("fill", IF FillWanted THEN "look" ELSE "end")
       ELSE /\ gate' = [gate EXCEPT !.running = FALSE]
            /\ Place("fill", "idle")
    /\ UNCHANGED <<windows, seen, got, observed, sample, tray, wire>>

(* A volume or media-key command of the hub or the bot: runMediaCommand.   *)
CommandBegins ==
    /\ pc["command"] = "idle" /\ enabled /\ budget > 0
    /\ budget' = budget - 1
    /\ Place("command", "look")
    /\ UNCHANGED <<enabled, user, level, seen, got, observed, sample, tray, wire, gate>>

(* What the child does there: applyAudio or sendMediaKey, and the reading  *)
(* of the session it prints.                                               *)
Applied(s)    == [level EXCEPT ![s] = @ + 1]
Reading(s, l) == [of |-> s, level |-> l[s]]

(* Runner.Run after BeforeRun: the child runs in the session FindUser picks*)
(* then, and applies a command the first time.                             *)
Executes(t) ==
    /\ t \in Runs /\ pc[t] = "go" /\ FindUser # Nobody
    /\ level' = IF t = "command" /\ got[t] = Nothing THEN Applied(FindUser) ELSE level
    /\ got' = [got EXCEPT ![t] = Reading(FindUser, level')]
    /\ Place(t, IF t = "command" /\ got[t] # Nothing THEN "refreshed" ELSE "reply")
    /\ UNCHANGED <<enabled, user, budget, seen, observed, sample, tray, wire, gate>>

(* The child fails, is killed at the timeout, or finds nobody logged in.   *)
ExecuteFails(t) ==
    /\ t \in Runs /\ pc[t] = "go" /\ (FindUser = Nobody \/ budget > 0)
    /\ budget' = IF FindUser = Nobody THEN budget ELSE budget - 1
    /\ IF t = "fill"
       THEN Place(t, "end") /\ UNCHANGED <<seen, got>>
       ELSE Leave(t)
    /\ UNCHANGED <<enabled, user, level, observed, sample, tray, wire, gate>>

(* storeUserActionReply, and noteMediaCommand for a media key, which reads *)
(* the session again soon after.                                           *)
ReplyStored(t) ==
    /\ t \in Runs /\ pc[t] \in {"reply", "refreshed"}
    /\ NoteNow(got[t])
    /\ \/ t = "fill" /\ Place(t, "record") /\ UNCHANGED <<seen, got>>
       \/ t = "command" /\ pc[t] = "reply"        \* a media key
            /\ Place(t, "refresh") /\ UNCHANGED <<seen, got>>
       \/ t = "command" /\ Leave(t)
    /\ UNCHANGED <<windows, observed, tray, wire, gate>>

(* refreshMediaSoon, mediaRefreshDelay later: readNowPlayingNow.           *)
Refreshes ==
    /\ pc["command"] = "refresh"
    /\ IF enabled THEN Place("command", "look") /\ UNCHANGED <<seen, got>>
                  ELSE Leave("command")
    /\ UNCHANGED <<windows, observed, sample, tray, wire, gate>>

(* fillAudioSample and fillMediaSample store the reply once more.          *)
FillRecords ==
    /\ pc["fill"] = "record"
    /\ NoteNow(got["fill"])
    /\ Place("fill", "end")
    /\ got' = [got EXCEPT !["fill"] = Nothing]
    /\ UNCHANGED <<windows, seen, observed, tray, wire, gate>>

-----------------------------------------------------------------------------
(* The tray app of session s samples and posts (gui/idle.go).  A post      *)
(* without the block still carries the idle time or the other block.       *)
Samples(s) ==
    /\ pc[s] = "idle" /\ enabled /\ user[s] # "none" /\ Len(wire) < Posts
    /\ Place(s, "look")
    /\ got' = [got EXCEPT ![s] = Reading(s, level)]
    /\ wire' = Append(wire, s)
    /\ late' = late \ {s}
    /\ UNCHANGED <<windows, seen, observed, store, stale, tray, gate>>

SamplesNothing(s) ==
    /\ pc[s] = "idle" /\ enabled /\ user[s] # "none" /\ Len(wire) < Posts
    /\ budget > 0
    /\ budget' = budget - 1
    /\ Place(s, "look")
    /\ got' = [got EXCEPT ![s] = Nothing]
    /\ wire' = Append(wire, s)
    /\ late' = late \ {s}
    /\ UNCHANGED <<enabled, user, level, seen, observed, store, stale, tray, gate>>

Unsent(s) == \E i \in DOMAIN wire : wire[i] = s /\ wire' = RemoveAt(wire, i)

(* serveHeartbeat: a post of another session is answered and ignored; one  *)
(* whose look-up failed, or found nobody, is believed.                     *)
PostIgnored(s) ==
    /\ pc[s] = "go" /\ seen[s] \in Sessions \ {s}
    /\ Leave(s)
    /\ Unsent(s)
    /\ late' = late \ {s}
    /\ UNCHANGED <<windows, observed, store, stale, tray, gate>>

PostBelieved(s) ==
    /\ pc[s] = "go" /\ seen[s] \notin Sessions \ {s}
    /\ tray' = TRUE
    /\ Place(s, "store")
    /\ UNCHANGED <<windows, seen, got, observed, sample, wire, gate>>

PostStored(s) ==
    /\ pc[s] = "store"
    /\ IF got[s] # Nothing THEN NotePost(s, got[s])
       ELSE late' = late \ {s} /\ UNCHANGED <<store, stale>>
    /\ Leave(s)
    /\ Unsent(s)
    /\ UNCHANGED <<windows, observed, tray, gate>>

-----------------------------------------------------------------------------
(* Someone logs on, locks, unlocks or logs off; turns the volume with the  *)
(* keyboard; or switches media control.                                    *)
UserChanges(s) ==
    /\ budget > 0
    /\ budget' = budget - 1
    /\ \E u \in {"none", "locked", "unlocked"} \ {user[s]} :
         user' = [user EXCEPT ![s] = u]
    /\ UNCHANGED <<enabled, level, pc, seen, got, observed, sample, tray, wire, gate>>

DeviceChanges(s) ==
    /\ budget > 0 /\ user[s] # "none"
    /\ budget' = budget - 1
    /\ level' = [level EXCEPT ![s] = @ + 1]
    /\ UNCHANGED <<enabled, user, pc, seen, got, observed, sample, tray, wire, gate>>

Switched ==
    /\ budget > 0
    /\ budget' = budget - 1
    /\ enabled' = ~enabled
    /\ UNCHANGED <<user, level, pc, seen, got, observed, sample, tray, wire, gate>>

(* Time passes: fillStaleAfter and the TTL, trayQuietAfter, fillEvery.     *)
SampleAges ==
    /\ store # Nothing /\ ~stale
    /\ stale' = TRUE
    /\ UNCHANGED <<windows, pc, seen, got, observed, store, late, tray, wire, gate>>

TrayQuiet ==
    /\ tray
    /\ tray' = FALSE
    /\ UNCHANGED <<windows, pc, seen, got, observed, sample, wire, gate>>

IntervalOver ==
    /\ gate.recent
    /\ gate' = [gate EXCEPT !.recent = FALSE]
    /\ UNCHANGED <<windows, pc, seen, got, observed, sample, tray, wire>>

Init ==
    /\ enabled = TRUE
    /\ user = [s \in Sessions |-> IF s = Console THEN "unlocked" ELSE "locked"]
    /\ level = [s \in Sessions |-> 1]
    /\ budget = Budget
    /\ pc = [t \in Threads |-> "idle"]
    /\ seen = [t \in Threads |-> Nobody]
    /\ got = [t \in Threads |-> Nothing]
    /\ observed = Unknown
    /\ store = Nothing
    /\ stale = FALSE
    /\ tray = FALSE
    /\ wire = <<>>
    /\ late = {}
    /\ gate = [running |-> FALSE, again |-> FALSE, recent |-> FALSE]

Step(t) ==
    \/ LookUp(t) \/ ForgetSample(t) \/ ForgetTray(t) \/ ForceFill(t)
    \/ t \in Runs /\ (Executes(t) \/ ExecuteFails(t) \/ ReplyStored(t))
    \/ t = "fill" /\ (FillStarts \/ FillRecords \/ FillEnds)
    \/ t = "command" /\ Refreshes
    \/ t = "status" /\ StatusAnswers
    \/ t \in Sessions /\ (PostIgnored(t) \/ PostBelieved(t) \/ PostStored(t))

Next ==
    \/ \E t \in Threads : Step(t) \/ LookUpFails(t)
    \/ CommandBegins
    \/ \E s \in Sessions : Samples(s) \/ SamplesNothing(s)
                           \/ UserChanges(s) \/ DeviceChanges(s)
    \/ Switched \/ SampleAges \/ TrayQuiet \/ IntervalOver

(* The hub polls, the reading's goroutine runs, and time passes; no tray   *)
(* app has to post, and a request or a command may hang.                   *)
Fairness ==
    /\ WF_vars(Step("status")) /\ WF_vars(Step("fill"))
    /\ WF_vars(SampleAges) /\ WF_vars(TrayQuiet) /\ WF_vars(IntervalOver)

Spec == Init /\ [][Next]_vars /\ Fairness
-----------------------------------------------------------------------------
(* Every variable has its type.                                            *)
TypeOK ==
    /\ enabled \in BOOLEAN
    /\ user \in [Sessions -> {"none", "locked", "unlocked"}]
    /\ level \in [Sessions -> 1..Budget + 1] /\ budget \in 0..Budget
    /\ pc \in [Threads -> {"idle", "look", "forget", "forget tray", "force", "go",
                           "start", "reply", "record", "refresh", "refreshed",
                           "end", "store"}]
    /\ seen \in [Threads -> Sessions \cup {Nobody, Failed}]
    /\ \A v \in {got[t] : t \in Threads} \cup {store} :
         v \in [of : Sessions \cup {Nobody}, level : 0..Budget + 1]
    /\ observed \in Sessions \cup {Nobody, Unknown}
    /\ stale \in BOOLEAN /\ tray \in BOOLEAN /\ late \subseteq Sessions
    /\ Len(wire) <= Posts
    /\ gate \in [running : BOOLEAN, again : BOOLEAN, recent : BOOLEAN]

(* However logons, locks, posts, commands and readings overlap: once they  *)
(* stop and someone is logged in, the stored sample comes to be the state  *)
(* of the session the commands act on, and stays it, tray app or not.      *)
Settles ==
    <>[](enabled /\ FindUser # Nobody =>
           store = [of |-> FindUser, level |-> level[FindUser]])

(* A post that was overtaken by a command's reply, or by another post,     *)
(* never takes the store back to an older state of the session.            *)
PostKeepsNewer ==
    [][\A s \in Sessions :
         pc[s] = "store" /\ pc'[s] = "idle" /\ store'.of = store.of
           => store'.level >= store.level]_vars

(* No reading begins while one runs, whoever asks and however it is forced.*)
OneReading ==
    [][pc'["fill"] = "start" /\ pc["fill"] # "start" => pc["fill"] = "idle"]_vars
=============================================================================
