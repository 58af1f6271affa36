----------------------------- MODULE MCUpdate -----------------------------
(***************************************************************************)
(* Update for TLC: release 3 can only be reached from release 2 on.        *)
(* Update numbers the releases; the assumptions check that the judgements  *)
(* it makes on the numbers are those of Release on the tags and manifests  *)
(* of such a catalogue, and Release's order and list against a reference,  *)
(* and what StopReason reads from a record of the System log.              *)
(***************************************************************************)
EXTENDS Update, Release, StopReason

MinVersions == [v \in Versions |-> IF v = 3 THEN 2 ELSE 1]

----------------------------------------------------------------------------
V(major, minor, patch) ==
  [major |-> major, minor |-> minor, patch |-> patch, final |-> TRUE, pre |-> << >>]
Suffixed(v, runs) == [v EXCEPT !.final = FALSE, !.pre = runs]
N(n) == [num |-> TRUE, val |-> n]
W(n) == [num |-> FALSE, val |-> n]
beta == W(1)
rc == W(2)

(* v1.2.0--, -1, -beta, -beta3, -rc, -rc2, -rc10, v1.2.0, v1.2.1-rc, ...    *)
InOrder ==
  << V(0, 9, 9), V(0, 10, 0), V(1, 1, 9),
     Suffixed(V(1, 2, 0), << >>), Suffixed(V(1, 2, 0), <<N(1)>>),
     Suffixed(V(1, 2, 0), <<beta>>), Suffixed(V(1, 2, 0), <<beta, N(3)>>),
     Suffixed(V(1, 2, 0), <<rc>>), Suffixed(V(1, 2, 0), <<rc, N(2)>>),
     Suffixed(V(1, 2, 0), <<rc, N(10)>>), Suffixed(V(1, 2, 0), <<rc, rc>>),
     V(1, 2, 0), Suffixed(V(1, 2, 1), <<rc>>), V(1, 2, 1), V(1, 10, 0), V(2, 0, 0) >>

ASSUME OrderIsReference ==
  \A i, j \in DOMAIN InOrder : IsNewer(InOrder[i], InOrder[j]) <=> i < j

----------------------------------------------------------------------------
Manifest(n) ==
  [signed |-> TRUE, version |-> V(1, n, 0),
   min |-> IF n = 3 THEN V(1, 2, 0) ELSE NoVersion,
   assets |-> <<[name |-> "exe", arch |-> "", hash |-> n]>>]

Listed(tag, draft, prerelease, n) ==
  [tag |-> tag, draft |-> draft, prerelease |-> prerelease,
   assets |-> ManifestFiles \cup {"exe"}, man |-> Manifest(n)]

(* What GitHub lists besides the app's releases: the driver's, drafts and  *)
(* pre-releases of a higher version.                                       *)
Others == {Listed(NoVersion, FALSE, FALSE, 1), Listed(V(1, 4, 0), TRUE, FALSE, 3),
           Listed(V(1, 4, 0), FALSE, TRUE, 3),
           Listed(Suffixed(V(1, 4, 0), <<rc>>), FALSE, FALSE, 3)}

Lists == UNION {[1..n -> Others \cup {Listed(V(1, v, 0), FALSE, FALSE, v) : v \in Versions}] : n \in 0..3}

Highest(list) ==
  LET apps == {v \in Versions : \E i \in DOMAIN list : list[i] = Listed(V(1, v, 0), FALSE, FALSE, v)}
  IN  IF apps = {} THEN 0 ELSE CHOOSE v \in apps : \A w \in apps : w <= v

(* The dialog offers release n to version v just when Offer does, and what *)
(* the updater accepts is what Acceptable does.                            *)
ASSUME NumbersStandForTags ==
  /\ \A list \in Lists, v \in Versions :
       Offered(list, V(1, v, 0), "amd64")
         <=> Highest(list) > v /\ MinVersions[Highest(list)] <= v
  /\ \A n, v, h \in Versions :
       Installable(Manifest(n), h, V(1, v, 0), "amd64")
         <=> n > v /\ MinVersions[n] <= v /\ h = n

(* The notes of the dialog begin with the release it offers, have each     *)
(* newer release once, and go down from there (NotesSince, Newest).        *)
ASSUME NotesLeadWithOffer ==
  \A list \in Lists, v \in Versions :
    LET notes == NotesSince(list, V(1, v, 0))
    IN  /\ (Len(notes) > 0 <=> Highest(list) > v)
        /\ Len(notes) > 0 => notes[1] = Newest(list)
        /\ \A i, j \in DOMAIN notes :
             i < j => notes[i] # notes[j]
                      /\ ~Older(list[notes[i]].tag, list[notes[j]].tag)

----------------------------------------------------------------------------
(* The reasons of a stop (StopReason).  A type of shutdown is read the way *)
(* of the one that does most: restart before power off before hibernation  *)
(* before sleep, whatever order a text names them in.                      *)
Named(reason) == {ShutdownTypes[i].token : i \in {k \in DOMAIN ShutdownTypes : ShutdownTypes[k].reason = reason}}

ASSUME MostIsRead ==
  \A text \in Texts \ {{}} :
    TypeIn(text) = IF text \cap Named("restart") # {} THEN "restart"
                   ELSE IF text \cap Named("shutdown") # {} THEN "shutdown"
                   ELSE IF text \cap Named("hibernate") # {} THEN "hibernate" ELSE "suspend"

(* param5 decides where it says anything known; a record that is too old,  *)
(* or says nothing, leaves the shutdown a shutdown.                        *)
Texts3 == {{}, {"restart"}, {"sleep"}}
Data == UNION {[1..n -> [name : {"param5", "other"}, text : Texts3]] : n \in 0..3}
Log(data, at) == [answer |-> "record", dated |-> TRUE, at |-> at, data |-> data]
NoHint == [command |-> "none", at |-> 0]

ASSUME RecordIsRead ==
  \A data \in Data :
    LET said == StopReason(NoHint, TRUE, Log(data, 0), ShutdownWindow)
        names == {data[i].name : i \in {k \in DOMAIN data : data[k].text # {}}}
    IN  /\ StopReason(NoHint, TRUE, Log(data, 0), ShutdownWindow + 1) = "shutdown"
        /\ names = {} <=> said = "shutdown"
        /\ said = "restart" =>
             \E i \in DOMAIN data : /\ data[i].text = {"restart"}
                                    /\ data[i].name = "other" => "param5" \notin names
============================================================================
