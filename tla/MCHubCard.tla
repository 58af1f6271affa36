------------------------------ MODULE MCHubCard ------------------------------
(***************************************************************************)
(* HubCard with one slot; the row keys sort as the driver sorts them.  The *)
(* assumptions check what driver and service owe each other over a command *)
(* (FeatureCommands), on every PC with two preset slots.                   *)
(***************************************************************************)
EXTENDS HubCard, Integers

RowPlace == [r \in Rows |-> CASE r = "slotOne" -> 1 [] r = "action" -> 2 [] r = "switch" -> 3]

----------------------------------------------------------------------------
F == INSTANCE FeatureCommands WITH PresetSlots <- 1..2, MaxText <- 3

V(minor, final) == [major |-> 1, minor |-> minor, patch |-> 0, final |-> final, pre |-> << >>]
Tags == {F!NoVersion, V(1, TRUE), V(2, FALSE), V(2, TRUE), V(3, TRUE)}

PCs == [media : BOOLEAN, nowplaying : BOOLEAN, activity : {TRUE}, notify : {TRUE},
        battery : BOOLEAN, presets : SUBSET {1, 2}, user : BOOLEAN, reading : BOOLEAN,
        version : {F!NoVersion, V(2, TRUE)}]

(* What a row may be moved to: halves of a level, minutes, slots. *)
RowValues == {-1, 0, 1, 2, 3, 199, 200, 201, 1440, 1441}

ASSUME CommandsAgree ==
  \A p \in PCs, c \in F!Commands \ {"notify"}, n \in RowValues, run \in F!Runs :
    /\ F!ValueAccepted(p, c, n, run)
    /\ F!RefusedRightly(p, c, n, run)
    /\ F!PassedRightly(p, c, n, run)
    /\ F!ToldInWords(p, c, n, run)

ASSUME PresetsAgree ==
  \A p \in PCs, slot \in 1..2, run \in F!Runs : F!OfferedRightly(p, slot, run)

ASSUME OldServicesSpared == \A v \in Tags, c \in F!Commands : F!OldIsSpared(v, c)

ASSUME TextsAgree ==
  \A text \in UNION {[1..k -> F!Chars] : k \in 0..5} : F!TextAccepted(text)
=============================================================================
