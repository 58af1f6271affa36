------------------------------ MODULE WatchList ------------------------------
(***************************************************************************)
(* The list of watched programs as it is kept and edited:                  *)
(* internal/config/activity.go (what a save accepts, what a load makes of  *)
(* a file edited by hand) and gui/activity_section.go with the watch half  *)
(* of gui/slotchange.go (the editor in the app).                           *)
(*                                                                         *)
(* A list is a function whose domain is a finite set of numbers, read in   *)
(* ascending order; a sequence is one.  A list whose slots differ is in    *)
(* slot order when it is indexed by them, which is what SortWatch comes    *)
(* to.  A process is [key, as, spaced, gap, flaws]: its lower-cased name,  *)
(* the spelling, whether blanks surround it, whether its default label     *)
(* ends in one, and what is wrong with it.  A label is [text, spaced,      *)
(* flaws].                                                                 *)
(***************************************************************************)
EXTENDS Naturals, FiniteSets

MaxWatch == 5
WatchSlots == 1..MaxWatch

Blank == ""
NoLabel == <<>>
ProcessFlaws == {"long", "path", "control", "noexe"}
LabelFlaws == {"long", "control"}

Trim(text) == [text EXCEPT !.spaced = FALSE]

(* "steam" for "steam.exe", cut to the length a label may have.  It is not *)
(* trimmed again, so a name with a blank there gives a label that ends in  *)
(* one.                                                                    *)
DefaultLabel(p) == [text |-> <<p.key, p.as>>, spaced |-> p.gap, flaws |-> {}]

Normalized(w) ==
  [slot |-> w.slot, process |-> Trim(w.process),
   label |-> IF w.label.text = NoLabel /\ w.process.key # Blank
             THEN DefaultLabel(w.process) ELSE Trim(w.label)]

(* ValidateActivityWatch: nothing is wrong with the entry, its slot aside. *)
Sound(w) ==
  /\ w.process.key # Blank /\ w.process.flaws = {}
  /\ w.label.text # NoLabel /\ w.label.flaws = {}

(* ValidateActivity *)
Accepted(watch) ==
  /\ Cardinality(DOMAIN watch) <= MaxWatch
  /\ \A i \in DOMAIN watch : watch[i].slot \in WatchSlots /\ Sound(watch[i])
  /\ \A i, j \in DOMAIN watch : i # j =>
       watch[i].slot # watch[j].slot /\ watch[i].process.key # watch[j].process.key

(* WithDefaults, the sorting aside. *)
WithDefaults(watch) == [i \in DOMAIN watch |-> Normalized(watch[i])]

(* SortWatch, for entries that each have a slot of their own. *)
InSlotOrder(watch) ==
  [s \in {watch[i].slot : i \in DOMAIN watch} |->
     watch[CHOOSE i \in DOMAIN watch : watch[i].slot = s]]

----------------------------------------------------------------------------
(* sanitizeActivity: unsound entries and repeated programs are dropped...  *)
Kept(watch) ==
  {i \in DOMAIN watch :
     /\ Sound(Normalized(watch[i]))
     /\ \A j \in DOMAIN watch :
          j < i /\ Sound(Normalized(watch[j])) => watch[j].process.key # watch[i].process.key}

(* ...the first to claim a slot that exists keeps it... *)
Keeps(watch) ==
  {i \in Kept(watch) :
     /\ watch[i].slot \in WatchSlots
     /\ \A j \in Kept(watch) : j < i => watch[j].slot # watch[i].slot}

(* ...and the others take the free ones in list order, while there are any. *)
Needs(watch) == Kept(watch) \ Keeps(watch)
Free(watch) == WatchSlots \ {watch[i].slot : i \in Keeps(watch)}
Before(S, n) == Cardinality({m \in S : m < n})

Placed(watch) ==
  Keeps(watch) \cup
  {i \in Needs(watch) : \E s \in Free(watch) : Before(Free(watch), s) = Before(Needs(watch), i)}

SlotOf(watch, i) ==
  IF i \in Keeps(watch) THEN watch[i].slot
  ELSE CHOOSE s \in Free(watch) : Before(Free(watch), s) = Before(Needs(watch), i)

Sanitized(watch) ==
  InSlotOrder([i \in Placed(watch) |-> [Normalized(watch[i]) EXCEPT !.slot = SlotOf(watch, i)]])

(* What LoadMigrated reports, so that the slots are written down at once. *)
Migrated(watch) == Needs(watch) # {}

----------------------------------------------------------------------------
(* The editor's list is indexed by slot. *)
BlankRow(s) == [slot |-> s, process |-> [key |-> Blank, as |-> 0, spaced |-> FALSE, gap |-> FALSE, flaws |-> {}],
                label |-> [text |-> NoLabel, spaced |-> FALSE, flaws |-> {}]]

(* normalizeActivity: rows left blank are not sent. *)
ToSend(rows) ==
  [i \in {j \in DOMAIN rows : rows[j].process.key # Blank \/ rows[j].label.text # NoLabel} |->
     Normalized(rows[i])]

(* activityProblem *)
ListProblem(rows) ==
  LET sent == ToSend(rows)
  IN \/ Cardinality(DOMAIN sent) > MaxWatch
     \/ \E i \in DOMAIN sent :
          \/ sent[i].slot \notin WatchSlots
          \/ sent[i].process.key = Blank
          \/ sent[i].process.flaws \cap {"path", "control", "noexe"} # {}
          \/ sent[i].label.flaws # {}
     \/ \E i, j \in DOMAIN sent : i # j /\
          (sent[i].slot = sent[j].slot \/ sent[i].process.key = sent[j].process.key)

(* activityEqual *)
SameList(a, b) == InSlotOrder(ToSend(a)) = InSlotOrder(ToSend(b))

Listed(rows, p) == \E s \in DOMAIN rows : rows[s].process.key = p.key
FreeSlots(rows) == WatchSlots \ DOMAIN rows
FreeSlot(rows) == CHOOSE s \in FreeSlots(rows) : \A t \in FreeSlots(rows) : s <= t
SlotChoices(rows, s) == {t \in WatchSlots : t = s \/ t \notin DOMAIN rows}
Room(rows) == Cardinality(DOMAIN rows) < MaxWatch /\ FreeSlots(rows) # {}

Put(rows, row) ==
  [s \in DOMAIN rows \cup {row.slot} |-> IF s = row.slot THEN row ELSE rows[s]]
Delete(rows, s) == [t \in DOMAIN rows \ {s} |-> rows[t]]

AddRow(rows) == IF Room(rows) THEN Put(rows, BlankRow(FreeSlot(rows))) ELSE rows

AddProcess(rows, p) ==
  IF p.key = Blank \/ ~Room(rows) \/ Listed(rows, p) THEN rows
  ELSE Put(rows, [slot |-> FreeSlot(rows), process |-> Trim(p), label |-> DefaultLabel(p)])

SetSlot(rows, s, t) ==
  IF s \notin DOMAIN rows \/ t = s \/ t \notin SlotChoices(rows, s) THEN rows
  ELSE Put(Delete(rows, s), [rows[s] EXCEPT !.slot = t])

(* renderActivityRows: typing edits the row in place. *)
TypeRow(rows, s, p, l) ==
  IF s \in DOMAIN rows THEN [rows EXCEPT ![s] = [slot |-> s, process |-> p, label |-> l]] ELSE rows

(* pickerCandidates: what runs, is not listed and answers the search. *)
Candidates(running, rows, matching) == {p \in running \cap matching : ~Listed(rows, p)}

(* watchSlotChanges: the slots a save gives to another program or empties, *)
(* about which it asks first.                                              *)
WatchSlotChanges(old, next) ==
  LET o == InSlotOrder(ToSend(old))
      n == InSlotOrder(ToSend(next))
  IN {s \in DOMAIN o : s \notin DOMAIN n \/ n[s].process.key # o[s].process.key}
=============================================================================
