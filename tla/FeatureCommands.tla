-------------------------- MODULE FeatureCommands --------------------------
(***************************************************************************)
(* The commands of v1.2.0 - volume, media keys, presets, keep-awake and PC *)
(* notifications - from the driver's row to the service's answer and back  *)
(* (edge/src/features.lua, handlers/, client.lua; service/stapi/command.go,*)
(* status.go, service/action, service/session).                            *)
(*                                                                         *)
(* Both sides judge a command: the driver by the last status it read, the  *)
(* service by its settings and the session there is.  These are pure       *)
(* functions of the two, which HubCard's rows abstract from.  An argument  *)
(* of a command is [given, n]; notes and codes keep their names.           *)
(***************************************************************************)
EXTENDS Release, SequencesExt

CONSTANTS
  PresetSlots,  \* the slots a preset may be saved in, PresetMinSlot..PresetMaxSlot
  MaxText       \* the characters of a notification: NotifyMaxText, NOTIFY_MAX_CHARS

Levels == {"volume", "volumeup", "volumedown"}
Audio == Levels \cup {"mute", "unmute"}
Keys == {"playpause", "play", "pause", "stop", "next", "prev"}
MediaCommands == Audio \cup Keys
Commands == MediaCommands \cup {"preset", "awake", "awakeoff", "notify"}

Argument == [given : BOOLEAN, n : Int]
None == [given |-> FALSE, n |-> 0]
Given(n) == [given |-> TRUE, n |-> n]

----------------------------------------------------------------------------
(* The PC: its settings, the presets saved, whether someone is logged in,  *)
(* whether the session's playback device has been read, its version.       *)
PC == [media : BOOLEAN, nowplaying : BOOLEAN, activity : BOOLEAN, notify : BOOLEAN,
       battery : BOOLEAN, presets : SUBSET PresetSlots, user : BOOLEAN, reading : BOOLEAN,
       version : Version \cup {NoVersion}]

MediaFeatures(pc) ==
  IF ~pc.media THEN {} ELSE {"audio", "media"} \cup (IF pc.nowplaying THEN {"nowplaying"} ELSE {})

Features(pc) ==
  {"awake", "notify", "presets"} \cup MediaFeatures(pc)
    \cup (IF pc.battery THEN {"battery"} ELSE {})
    \cup (IF pc.activity THEN {"activity"} ELSE {})

(* stAudioStatus *)
AudioAvailable(pc) == pc.media /\ pc.user /\ pc.reading

(* A status body of this service, and one of a service before v1.2.0.      *)
Status(pc) ==
  [listed |-> TRUE, features |-> Features(pc), available |-> AudioAvailable(pc),
   presets |-> pc.presets, version |-> pc.version]

OldStatus(v) ==
  [listed |-> FALSE, features |-> {}, available |-> TRUE, presets |-> {}, version |-> v]

----------------------------------------------------------------------------
(* What the service passes to the user's session, and what is accepted     *)
(* there: [action, verb, value].                                           *)
GoodValue(c, arg) ==
  /\ c = "volume" => arg.given /\ arg.n >= 0 /\ arg.n <= 100
  /\ c \in {"volumeup", "volumedown"} => ~arg.given \/ (arg.n >= 1 /\ arg.n <= 100)

Step(arg) == IF arg.given THEN arg.n ELSE 5

MediaArgs(c, arg) ==
  IF c = "volume" THEN [action |-> "audio", verb |-> "set", value |-> arg.n]
  ELSE IF c = "volumeup" THEN [action |-> "audio", verb |-> "step", value |-> Step(arg)]
  ELSE IF c = "volumedown" THEN [action |-> "audio", verb |-> "step", value |-> -Step(arg)]
  ELSE IF c \in Audio THEN [action |-> "audio", verb |-> "mute", value |-> 0]
  ELSE [action |-> "media", verb |-> c, value |-> 0]

Parsed(a) ==
  \/ a.action = "audio" /\ a.verb = "set" /\ a.value >= 0 /\ a.value <= 100
  \/ a.action = "audio" /\ a.verb = "step" /\ a.value >= -100 /\ a.value <= 100
  \/ a.action = "audio" /\ a.verb = "mute"
  \/ a.action = "media" /\ a.verb \in Keys

(* How a run in the session may end: its reply, or one of Run's errors; a  *)
(* preset that did not report its start has failed.                        *)
RunErrors == {"timeout", "unsupported", "failed", "unreadable"}
Runs == {"done"} \cup RunErrors

(* Classify, and the answers the handlers give themselves. *)
Answer(status, code) == [status |-> status, code |-> code]
Done == Answer(200, "")
Classify(error) ==
  IF error \in {"media_disabled", "notify_disabled"} THEN Answer(403, error)
  ELSE IF error = "no_user_session" THEN Answer(409, error)
  ELSE IF error \in {"value", "bad_text", "bad_args"} THEN Answer(400, error)
  ELSE IF error = "rate_limited" THEN Answer(429, error)
  ELSE IF error = "timeout" THEN Answer(504, error)
  ELSE IF error = "unsupported" THEN Answer(501, error)
  ELSE Answer(502, "failed")

(* Runner.Run; "refused" is what a bad argument vector would bring.        *)
Ran(pc, accepted, run) ==
  IF ~accepted THEN Classify("bad_args")
  ELSE IF ~pc.user THEN Classify("no_user_session")
  ELSE IF run = "done" THEN Done
  ELSE Classify(run)

HandleMedia(pc, c, arg, run) ==
  IF ~pc.media THEN Classify("media_disabled")
  ELSE IF ~GoodValue(c, arg) THEN Classify("value")
  ELSE Ran(pc, Parsed(MediaArgs(c, arg)), run)

(* A preset that was saved is one the session accepts (ValidatePreset).    *)
HandlePreset(pc, arg, run) ==
  IF ~arg.given \/ arg.n \notin PresetSlots THEN Answer(400, "value")
  ELSE IF arg.n \notin pc.presets THEN Answer(404, "no_such_preset")
  ELSE Ran(pc, TRUE, run)

(* Windows may refuse the request: see Awake. *)
ValidAwakeMinutes(n) == n >= 0 /\ n <= 1440
HandleAwake(c, arg, run) ==
  IF c = "awake" /\ arg.given /\ ~ValidAwakeMinutes(arg.n) THEN Answer(400, "value")
  ELSE IF run = "done" THEN Done
  ELSE Answer(500, "keep-awake failed")

(* pcNotifyLimits may be used up; text is what the request carries.        *)
HandleNotify(pc, goodText, limited, run) ==
  IF ~pc.notify THEN Classify("notify_disabled")
  ELSE IF ~goodText THEN Classify("bad_text")
  ELSE IF limited THEN Classify("rate_limited")
  ELSE Ran(pc, TRUE, run)

----------------------------------------------------------------------------
(* The driver: what it remembers of a status, extras; Unread before the    *)
(* first one of a run.                                                     *)
Recommended == [major |-> 1, minor |-> 2, patch |-> 0, final |-> TRUE, pre |-> << >>]

(* version_below: the numbers only, and never of a version that does not   *)
(* parse.                                                                  *)
Below(v) == Parses(v) /\ OlderNumbers(v, Recommended)

Unread == [read |-> FALSE, listed |-> FALSE, features |-> {}, available |-> FALSE,
           preset_slots |-> {}, old |-> FALSE]

Remember(status) ==
  [read |-> TRUE, listed |-> status.listed, features |-> status.features,
   available |-> status.available, preset_slots |-> status.presets,
   old |-> Below(status.version)]

CommandFeature(c) ==
  IF c \in Audio THEN "audio"
  ELSE IF c \in Keys THEN "media"
  ELSE IF c = "preset" THEN "presets"
  ELSE IF c = "notify" THEN "notify"
  ELSE "awake"

Has(extras, feature) == extras.listed /\ feature \in extras.features

(* The note for a command that is not sent, "none" for one that is. *)
Refusal(extras, c) ==
  IF ~extras.read THEN "unreachable"
  ELSE IF ~extras.listed THEN "needs_service"
  ELSE IF ~Has(extras, CommandFeature(c)) THEN
    IF extras.old THEN "needs_service"
    ELSE IF CommandFeature(c) \in {"audio", "media"} THEN "media_disabled"
    ELSE "feature_missing"
  ELSE IF CommandFeature(c) \in {"audio", "media"} /\ ~extras.available THEN "no_user"
  ELSE "none"

(* preset.run: the list rests on "none", which is no slot. *)
PresetRefusal(extras, slot) ==
  IF Refusal(extras, "preset") # "none" THEN Refusal(extras, "preset")
  ELSE IF slot \notin extras.preset_slots THEN "preset_empty"
  ELSE "none"

(* The slots the list offers; none at all is the entry "none".             *)
SupportedSlots(extras) == extras.preset_slots

(* A slider's value comes in halves; a preference is a number or unset.    *)
Clamp(n, high) == IF n < 0 THEN 0 ELSE IF n > high THEN high ELSE n
VolumeOf(halves) == Clamp((halves + 1) \div 2, 100)
AwakeMinutes(pref) == IF pref.given THEN Clamp(pref.n, 1440) ELSE 60

(* What the handlers send with a command: c's row is moved to n.           *)
ValueSent(c, n) ==
  IF c = "volume" THEN Given(VolumeOf(n))
  ELSE IF c = "awake" THEN Given(AwakeMinutes(Given(n)))
  ELSE IF c = "preset" THEN Given(n)
  ELSE None

(* client.classify, of an answer that is no success. *)
Kind(status) ==
  IF status = 401 THEN "unauthorized"
  ELSE IF status = 403 THEN "forbidden"
  ELSE IF status = 400 THEN "badrequest"
  ELSE IF status = 404 THEN "incompatible"
  ELSE IF status = 409 THEN "conflict"
  ELSE IF status = 429 THEN "ratelimited"
  ELSE "unreachable"

ErrorNote(kind, code) ==
  IF code = "no_user_session" \/ kind = "conflict" THEN "no_user"
  ELSE IF code \in {"media_disabled", "notify_disabled"} THEN code
  ELSE IF code = "unsupported" THEN "feature_missing"
  ELSE IF code \in {"failed", "timeout"} THEN "action_failed"
  ELSE "none"

NotifyErrorNote(kind, code) == IF kind = "ratelimited" THEN "try_later" ELSE ErrorNote(kind, code)

(* What a failed request says of the connection; "kept": nothing. *)
Connection(kind) ==
  IF kind \in {"unauthorized", "unreachable", "incompatible"} THEN kind
  ELSE IF kind = "forbidden" THEN "unauthorized"
  ELSE IF kind = "badrequest" THEN "incompatible"
  ELSE IF kind = "ratelimited" THEN "kept"
  ELSE "ok"

(* The end of run_feature, preset.run and toast.send: the note shown, and  *)
(* what becomes of the device's connection.                                *)
NoteOf(c, answer) ==
  IF c = "notify" THEN NotifyErrorNote(Kind(answer.status), answer.code)
  ELSE ErrorNote(Kind(answer.status), answer.code)

Shown(c, answer) ==
  IF answer = Done THEN [note |-> "none", connection |-> "kept"]
  ELSE IF NoteOf(c, answer) # "none" THEN [note |-> NoteOf(c, answer), connection |-> "kept"]
  ELSE [note |-> "none", connection |-> Connection(Kind(answer.status))]

(* POST /st/v1/command with what the driver sends. *)
HandleCommand(pc, c, n, run) ==
  IF c \in {"awake", "awakeoff"} THEN HandleAwake(c, ValueSent(c, n), run)
  ELSE IF c = "preset" THEN HandlePreset(pc, ValueSent(c, n), run)
  ELSE HandleMedia(pc, c, ValueSent(c, n), run)

----------------------------------------------------------------------------
(* A notification's text, a sequence of kinds of characters: letters;      *)
(* spaces (line breaks among them); other ASCII control characters; spaces *)
(* beyond ASCII, such as an ideographic one; direction marks and the       *)
(* control characters beyond ASCII.                                        *)
Chars == {"letter", "space", "control", "wide", "mark"}

(* Runs of blanks become one space, none at the ends; dropped ones go.     *)
Tidy(text, blank, dropped) ==
  FoldLeft(LAMBDA done, ch :
             IF ch \in blank THEN [done EXCEPT !.gap = TRUE]
             ELSE IF ch \in dropped THEN done
             ELSE [out |-> done.out \o (IF done.gap /\ done.out # << >> THEN <<"space", ch>> ELSE <<ch>>),
                   gap |-> FALSE],
           [out |-> << >>, gap |-> FALSE], text).out

Truncate(text) == IF Len(text) <= MaxText THEN text ELSE Append(SubSeq(text, 1, MaxText - 1), "letter")

(* The driver's text, which is not sent when nothing is left of it.        *)
NotifyText(text) == Truncate(Tidy(text, {"space", "control"}, {}))

CleanNotifyText(text) == Tidy(text, {"space", "wide"}, {"control", "mark"})

PrepareNotify(text) == Len(CleanNotifyText(text)) \in 1..MaxText

----------------------------------------------------------------------------
(* What the two sides owe each other.                                      *)

(* Whatever the row sends, a slider between two steps, a preference beyond *)
(* the limits, the service never calls it a bad value, nor does the child  *)
(* call the service's arguments bad (volume_of, awake_minutes, MediaArgs   *)
(* against handleAwake and useraction.Parse).                              *)
ValueAccepted(pc, c, n, run) ==
  c # "preset" => HandleCommand(pc, c, n, run).status # 400

(* A volume or media command that the driver keeps back on a fresh status  *)
(* would have been refused with the note it shows (features.refusal,       *)
(* error_note), save where the session is there but its audio could not be *)
(* read.                                                                   *)
RefusedRightly(pc, c, n, run) ==
  /\ c \in MediaCommands
  /\ Refusal(Remember(Status(pc)), c) # "none"
  /\ pc.user => pc.reading
  => Shown(c, HandleCommand(pc, c, n, run)).note = Refusal(Remember(Status(pc)), c)

(* One that it lets through is not refused for the setting or the user.    *)
PassedRightly(pc, c, n, run) ==
  c \in MediaCommands /\ Refusal(Remember(Status(pc)), c) = "none"
    => HandleCommand(pc, c, n, run).code \notin {"media_disabled", "no_user_session"}

(* One sent on a status that is no longer true is answered in words: a PC  *)
(* that answers is never shown as one that cannot be reached or that is    *)
(* too old (error_note).                                                   *)
ToldInWords(pc, c, n, run) ==
  c \in MediaCommands => Shown(c, HandleCommand(pc, c, n, run)).connection = "kept"

(* The list offers just the slots that run; on a fresh status no preset is *)
(* asked for in vain, and none that could run is refused as empty.         *)
OfferedRightly(pc, slot, run) ==
  /\ slot \in SupportedSlots(Remember(Status(pc))) <=> PresetRefusal(Remember(Status(pc)), slot) = "none"
  /\ HandleCommand(pc, "preset", slot, run).code = "no_such_preset"
       => PresetRefusal(Remember(Status(pc)), slot) = "preset_empty"

(* A service of before v1.2.0 is never asked for what it has not.          *)
OldIsSpared(v, c) == Refusal(Remember(OldStatus(v)), c) = "needs_service"

(* The driver's text is good enough for the service unless all that is     *)
(* left of it are characters beyond ASCII that show nothing.               *)
TextAccepted(text) ==
  LET sent == NotifyText(text)
  IN  sent # << >> => (PrepareNotify(sent) <=> \E i \in DOMAIN sent : sent[i] = "letter")
============================================================================
