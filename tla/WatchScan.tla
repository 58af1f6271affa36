------------------------------ MODULE WatchScan ------------------------------
(***************************************************************************)
(* The opt-in detection of running programs: internal/config/activity.go,  *)
(* service/activity, service/activity.go, and what edge/src/features.lua   *)
(* makes of the reported block.                                            *)
(*                                                                         *)
(* The user lists programs in slots.  The service's scanner reads the      *)
(* configuration and the process list, compares them, and stores the       *)
(* result; saves of the list, programs and readers of the result do not    *)
(* wait for it.  A tick comes every ten seconds and early after a save, so *)
(* here at any moment.  Labels and the order of programs are left out.     *)
(***************************************************************************)
EXTENDS Naturals, FiniteSets

CONSTANTS Slots, Apps   \* the slots used; the programs the user may list

NoApp == "none"

VARIABLES
  list,   \* the live configuration: [on, app] with a program or none per slot
  alive,  \* the listed programs that run
  scan,   \* Scanner: whether there is a result, for which list, and which
  look    \* watchActivity between reading and storing

watching == <<list, alive, scan, look>>

SlotLists == [Slots -> Apps \cup {NoApp}]
Lists == [on : BOOLEAN, app : SlotLists]

(* ValidateActivity: no program twice. *)
ValidateActivity(l) ==
  \A s1, s2 \in Slots : s1 # s2 /\ l.app[s1] = l.app[s2] => l.app[s1] = NoApp

(* The blocks of the status document: Off, Match, Listed.                       *)
OffBlock == [on |-> FALSE, app |-> [s \in Slots |-> NoApp], running |-> {}, scanned |-> FALSE]

Match(l, names) ==
  [on |-> TRUE, app |-> l.app, scanned |-> TRUE,
   running |-> {a \in names : \E s \in Slots : l.app[s] = a}]

Listed(l) == [Match(l, {}) EXCEPT !.scanned = FALSE]

(* Current: trusts only a scan made for this very list. *)
Current(l, found) ==
  IF ~l.on THEN OffBlock
  ELSE IF found.known /\ found.for = l THEN found.block
  ELSE Listed(l)

----------------------------------------------------------------------------
NoScan == [known |-> FALSE, for |-> [on |-> FALSE, app |-> OffBlock.app], block |-> OffBlock]
NoLook == [at |-> "idle", for |-> NoScan.for, block |-> OffBlock]

(* What a scan finds: a list that cannot be read for leaves the last       *)
(* result of an unchanged configuration.                                   *)
Found(cfg, ok, names) ==
  IF ~cfg.on THEN OffBlock
  ELSE IF ok THEN Match(cfg, names)
  ELSE IF scan.known /\ scan.for = cfg THEN scan.block
  ELSE Listed(cfg)

(* activityTick: the configuration is read, then the process list.  A tick *)
(* that finds what is stored already changes nothing and is left out.      *)
ScanReads(ok) ==
  /\ look.at = "idle"
  /\ ~(scan.known /\ scan.for = list /\ scan.block = Found(list, ok, alive))
  /\ look' = [at |-> "read", for |-> list, block |-> Found(list, ok, alive)]
  /\ UNCHANGED <<list, alive, scan>>

(* Scan stores; the first result is only the baseline. *)
ScanChanged == scan.known /\ scan.block # look.block
ScanStores ==
  /\ look.at = "read" /\ look' = NoLook
  /\ scan' = [known |-> TRUE, for |-> look.for, block |-> look.block]
  /\ UNCHANGED <<list, alive>>

(* The user saves another list, or starts or ends a program. *)
ListSaved(l) ==
  /\ l # list /\ ValidateActivity(l)
  /\ list' = l
  /\ UNCHANGED <<alive, scan, look>>

ProgramChanges(a) ==
  /\ alive' = IF a \in alive THEN alive \ {a} ELSE alive \cup {a}
  /\ UNCHANGED <<list, scan, look>>

(* The service ends, with the machine or without. *)
ScannerGone(machine) ==
  /\ scan' = NoScan /\ look' = NoLook
  /\ alive' = IF machine THEN {} ELSE alive
  /\ UNCHANGED list

WatchType ==
  /\ list \in Lists /\ ValidateActivity(list) /\ alive \subseteq Apps
  /\ scan.known \in BOOLEAN /\ scan.for \in Lists
  /\ look.at \in {"idle", "read"} /\ look.for \in Lists

----------------------------------------------------------------------------
(* The driver's side: the value of a slot (watch_slots, over apps_of).     *)
SlotValue(b, s) ==
  IF b.app[s] = NoApp THEN "empty"
  ELSE IF b.app[s] \in b.running THEN "running" ELSE "stopped"

(* Nothing is known of the slots. *)
NoWatch == [s \in {} |-> s]

(* Mutant: the placeholders are taken as they are. *)
TakenAtOnce(b, shown) == IF ~b.on THEN shown ELSE [s \in Slots |-> SlotValue(b, s)]

(* watch_state: an "off" list keeps what was shown; until the list was     *)
(* scanned no slot goes from running to stopped.                           *)
Stopped(watch) == {s \in DOMAIN watch : watch[s] = "running"}
WatchState(b, shown) ==
  IF ~b.on THEN shown
  ELSE [s \in Slots |->
         IF ~b.scanned /\ s \in Stopped(shown) /\ SlotValue(b, s) = "stopped"
         THEN "running" ELSE SlotValue(b, s)]

(* stop_watch: the apps of a PC that shuts down stop. *)
StopWatch(watch) == [s \in DOMAIN watch |-> IF s \in Stopped(watch) THEN "stopped" ELSE watch[s]]
=============================================================================
