------------------------------- MODULE Presets -------------------------------
(***************************************************************************)
(* A preset from the editor to the process it starts: the rules of a save  *)
(* and of a load (internal/config/presets.go), the helper's own            *)
(* (useraction), the editor (gui/presets_model.go, gui/presets_tab.go, the *)
(* preset half of gui/slotchange.go), who may see and change the list      *)
(* (service/webui/presetsafety.go), and the run with its answers.          *)
(*                                                                         *)
(* A name is [key, as, spaced, long, control], key its lower-cased form; a *)
(* path is [kind, scheme, ext, key, as, spaced, long, control, unsafe],    *)
(* kind what it begins as and unsafe whether it holds a " or a %.  A       *)
(* preset is [slot, name, type, path, args], its arguments sequences of    *)
(* characters.  A list is a function over numbers, as in WatchList.        *)
(***************************************************************************)
EXTENDS ArgLine, FiniteSets

CONSTANTS
  MaxArgs,     \* useraction.MaxPresetArgs, 32
  MaxArgRunes  \* useraction.MaxArgRunes, 1024

PresetSlots == 1..10
Types == {"program", "url", "script"}
NoKey == ""

(* What a path or a link may begin as: nothing, a drive, a share, a device *)
(* (\\? or \\. or three separators), a web address with a host, an app     *)
(* link, a link of a refused scheme, or something else.                    *)
Kinds == {"blank", "drive", "share", "device", "web", "link", "blocked", "other"}

ProgramExts == {"exe", "com"}
BatchExts == {"bat", "cmd"}
ScriptExts == {"ps1"} \cup BatchExts

TrimText(text) == [text EXCEPT !.spaced = FALSE]

----------------------------------------------------------------------------
(* PresetURLScheme: a web address or an app link. *)
LinkVerdict(path) ==
  IF path.kind \in {"web", "link"} THEN "ok"
  ELSE IF path.kind = "blocked" THEN "blocked" ELSE "invalid"

(* parsePreset: what the helper accepts of the arguments it is run with.   *)
Parses(p) ==
  /\ p.path.kind # "blank" /\ ~p.path.long /\ ~p.path.control
  /\ Len(p.args) <= MaxArgs
  /\ \A i \in DOMAIN p.args : Len(p.args[i]) <= MaxArgRunes /\ ~Holds(p.args[i], {"tab", "ctl"})
  /\ \/ p.type = "program"
     \/ p.type = "script" /\ p.path.ext \in ScriptExts
     \/ p.type = "url" /\ p.args = << >> /\ LinkVerdict(p.path) = "ok"

(* ValidatePresetLaunch: cmd.exe acts on " and % even inside quotes. *)
Unsafe(arg) == Holds(arg, {"dq", "%"})
Launchable(p) ==
  /\ p.type \in {"program", "script"} => p.path.kind \in {"drive", "share"}
  /\ p.type = "program" => p.path.ext \in ProgramExts
  /\ p.type = "script" /\ p.path.ext \in BatchExts =>
       ~p.path.unsafe /\ \A i \in DOMAIN p.args : ~Unsafe(p.args[i])

(* buildPresetLaunch: which image runs, and how its arguments are quoted.  *)
NoLaunch == [image |-> "none", quoting |-> "none"]
Launch(p) ==
  IF ~Launchable(p) THEN NoLaunch
  ELSE IF p.type = "program" THEN [image |-> "itself", quoting |-> "argv"]
  ELSE IF p.type = "script" /\ p.path.ext = "ps1" THEN [image |-> "powershell", quoting |-> "argv"]
  ELSE IF p.type = "script" /\ p.path.ext \in BatchExts THEN [image |-> "cmd", quoting |-> "batch"]
  ELSE NoLaunch

(* handlePreset: whether the helper starts anything for it. *)
CanStart(p) == Parses(p) /\ (p.type = "url" \/ Launch(p) # NoLaunch)

----------------------------------------------------------------------------
(* ValidatePreset, ValidatePresets. *)
ValidName(n) == n.key # NoKey /\ ~n.spaced /\ ~n.long /\ ~n.control
ValidPreset(p) ==
  /\ p.slot \in PresetSlots /\ ValidName(p.name)
  /\ p.type \in Types /\ Len(p.args) <= MaxArgs
  /\ ~p.path.spaced
  /\ Parses(p) /\ Launchable(p)

Apart(p, q) == p.slot # q.slot /\ p.name.key # q.name.key
ValidPresets(ps) ==
  /\ \A i \in DOMAIN ps : ValidPreset(ps[i])
  /\ \A i, j \in DOMAIN ps : i # j => Apart(ps[i], ps[j])

(* DropInvalidPresets keeps the entries K of a file: those that are valid  *)
(* and repeat neither slot nor name of one kept before.                    *)
KeptBy(ps, K) ==
  K = {i \in DOMAIN ps : ValidPreset(ps[i]) /\ \A j \in K : j < i => Apart(ps[i], ps[j])}
Restricted(ps, K) == [i \in K |-> ps[i]]

(* FindPreset, FindPresetByName: a number that is a filled slot, and else  *)
(* a name; arg is [key, number], number 0 when it is none.                 *)
InSlot(ps, s) == {i \in DOMAIN ps : ps[i].slot = s}
ByName(ps, arg) ==
  IF arg.number # 0 /\ InSlot(ps, arg.number) # {} THEN InSlot(ps, arg.number)
  ELSE {i \in DOMAIN ps : ps[i].name.key = arg.key}

(* NormalizePresets, for slots that differ. *)
SlotsOf(ps) == {ps[i].slot : i \in DOMAIN ps}
BySlot(ps) == [s \in SlotsOf(ps) |-> ps[CHOOSE i \in DOMAIN ps : ps[i].slot = s]]

(* ChangedPresetSlots *)
ChangedSlots(old, new) ==
  {s \in SlotsOf(old) \cup SlotsOf(new) :
     s \notin SlotsOf(old) \cap SlotsOf(new) \/ BySlot(old)[s] # BySlot(new)[s]}

(* A session that is not the local one sees no paths and no arguments, and *)
(* may change neither presets nor the watch list.                          *)
NoPath == [kind |-> "blank", scheme |-> "", ext |-> "", key |-> "", as |-> 0, spaced |-> FALSE,
           long |-> FALSE, control |-> FALSE, unsafe |-> FALSE]
MaskPresets(ps) == [i \in DOMAIN ps |-> [ps[i] EXCEPT !.path = NoPath, !.args = << >>]]
LocalOnlyChange(old, new, watchChanged) == ChangedSlots(old, new) # {} \/ watchChanged

(* presetWarnings: programs and scripts on a drive whose file or folder    *)
(* someone else may rewrite.                                               *)
Warned(ps, writable) ==
  {ps[i].slot : i \in {j \in DOMAIN ps : ps[j].type \in {"program", "script"}
                         /\ ps[j].path.kind \notin {"share", "device"} /\ ps[j].path \in writable}}

----------------------------------------------------------------------------
(* The editor: a row is a preset with its arguments as one line.           *)
RowFromPreset(p) ==
  [slot |-> p.slot, name |-> p.name, type |-> p.type, path |-> p.path, line |-> JoinArgs(p.args)]

(* presetRow.preset: nothing of a URL's arguments is sent. *)
Converts(r) == r.type = "url" \/ Balanced(r.line)
PresetOf(r) ==
  [slot |-> r.slot, name |-> TrimText(r.name), type |-> r.type, path |-> TrimText(r.path),
   args |-> IF r.type = "url" THEN << >> ELSE SplitArgs(r.line)]

(* rowProblem, in the order of its checks. *)
RowProblem(r) ==
  IF r.slot \notin PresetSlots THEN "slot"
  ELSE IF r.name.key = NoKey THEN "name"
  ELSE IF r.name.long THEN "namelong"
  ELSE IF r.type \notin Types THEN "type"
  ELSE IF r.path.kind = "blank" THEN "path"
  ELSE IF r.type = "url"
       THEN IF LinkVerdict(r.path) = "ok" THEN ""
            ELSE IF LinkVerdict(r.path) = "blocked" THEN "urlblocked" ELSE "url"
  ELSE IF ~Balanced(r.line) THEN "quote"
  ELSE IF Len(SplitArgs(r.line)) > MaxArgs THEN "args"
  ELSE IF r.path.kind \notin {"drive", "share", "device"} THEN "abs"
  ELSE IF r.type = "program" /\ r.path.ext \notin ProgramExts THEN "exe"
  ELSE IF r.type = "script" /\ r.path.ext \notin ScriptExts THEN "script"
  ELSE ""

(* rowsProblem, duplicateNames *)
RowsFine(rows) ==
  /\ \A i \in DOMAIN rows : RowProblem(rows[i]) = ""
  /\ \A i, j \in DOMAIN rows : i # j => Apart(rows[i], rows[j])
DuplicateNames(rows) ==
  {i \in DOMAIN rows : rows[i].name.key # NoKey
     /\ \E j \in DOMAIN rows : j # i /\ rows[j].name.key = rows[i].name.key}

(* presetsStateFromConfig, presets, dirty: rows that do not convert are a  *)
(* change.                                                                 *)
RowsOf(ps) == [i \in DOMAIN ps |-> RowFromPreset(ps[i])]
SendOf(rows) == [i \in DOMAIN rows |-> PresetOf(rows[i])]
PresetsDirty(rows, base) ==
  \/ \E i \in DOMAIN rows : ~Converts(rows[i])
  \/ Cardinality(DOMAIN rows) # Cardinality(DOMAIN base)
  \/ ChangedSlots(SendOf(rows), base) # {}

(* The buttons: freeSlot with [Add], the type selector, [Test]. *)
FreePresetSlots(rows) == PresetSlots \ {rows[i].slot : i \in DOMAIN rows}
NewRow(rows) ==
  [slot |-> CHOOSE s \in FreePresetSlots(rows) : \A t \in FreePresetSlots(rows) : s <= t,
   name |-> [key |-> NoKey, as |-> 0, spaced |-> FALSE, long |-> FALSE, control |-> FALSE],
   type |-> "program", path |-> NoPath, line |-> << >>]
CanAdd(rows) == Cardinality(DOMAIN rows) < 10 /\ FreePresetSlots(rows) # {}
ChangeType(r, type) == [r EXCEPT !.type = type, !.line = IF type = "url" THEN << >> ELSE @]
TestRow(r) == IF r.name.key = NoKey /\ ~r.name.spaced THEN [r EXCEPT !.name.key = "test"] ELSE r
MayTest(r, locked) == ~locked /\ RowProblem(TestRow(r)) = ""

(* linkNote: which app opens a link, or that none on this PC does. *)
LinkNote(r, registered) ==
  IF r.type # "url" \/ r.path.kind # "link" THEN "" ELSE
  IF r.path.scheme \in registered THEN "app" ELSE "unknown"

(* samePresetOwner, presetSlotChanges: what a save gives to another owner  *)
(* or takes away, about which it asks first.                               *)
SameOwner(p, q) == p.name.key = q.name.key /\ p.path.kind = q.path.kind /\ p.path.key = q.path.key
PresetSlotChanges(old, next) ==
  {s \in SlotsOf(old) : s \notin SlotsOf(next) \/ ~SameOwner(BySlot(old)[s], BySlot(next)[s])}

----------------------------------------------------------------------------
(* The run: runPreset, the helper's presetStartError, PresetFailure and    *)
(* the bot's presetError.  outcome is what Windows did, or why there was   *)
(* no helper; an answer says at most the base name of the file.            *)
Unanswered == {"timeout", "nobody", "unreadable"}
Outcomes == {"started", "unconfirmed", "missing", "denied", "broken", "unsupported"} \cup Unanswered

Failure(p, outcome) ==
  IF outcome \in Unanswered THEN [reason |-> "", says |-> outcome]
  ELSE IF p.type = "url" THEN [reason |-> "url_failed", says |-> "nothing"]
  ELSE IF outcome = "missing" THEN [reason |-> "not_found", says |-> "file"]
  ELSE IF outcome = "denied" THEN [reason |-> "access_denied", says |-> "file"]
  ELSE IF outcome = "unsupported" THEN [reason |-> "", says |-> "unavailable"]
  ELSE [reason |-> "start_failed", says |-> "file"]

RunPreset(p, outcome) ==
  IF ~CanStart(p) /\ p.type # "url" THEN [reason |-> "", says |-> "not as saved"]
  ELSE IF CanStart(p) /\ outcome = "started" THEN [reason |-> "", says |-> "started"]
  ELSE Failure(p, outcome)

(* /run: the number or the name, and what the chat is told. *)
RunCommand(ps, arg, outcome) ==
  IF arg.key = NoKey THEN [reason |-> "", says |-> "usage"]
  ELSE IF ByName(ps, arg) = {} THEN [reason |-> "", says |-> "no such preset"]
  ELSE LET found == CHOOSE i \in ByName(ps, arg) : \A j \in ByName(ps, arg) : i <= j
       IN RunPreset(ps[found], outcome)
=============================================================================
