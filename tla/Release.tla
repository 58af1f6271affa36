------------------------------ MODULE Release ------------------------------
(***************************************************************************)
(* Which release the app takes for the newest, and which one it may be     *)
(* updated to (internal/release, gui/update.go, gui/update_ui.go): pure    *)
(* functions of the release list and of a release's signed manifest.       *)
(*                                                                         *)
(* A suffix is the sequence of its runs of digits and of letters, a word   *)
(* stands for its place in the dictionary, and a tag that does not parse   *)
(* ("dev", edge-v1.0.0, a suffix with other characters) is NoVersion.      *)
(***************************************************************************)
EXTENDS Integers, Sequences, FiniteSets

Token == [num : BOOLEAN, val : Nat]

(* final: the tag has no suffix.  A suffix of dots and dashes has no runs. *)
Version == [major : Nat, minor : Nat, patch : Nat, final : BOOLEAN, pre : Seq(Token)]

NoVersion == [major |-> -1, minor |-> 0, patch |-> 0, final |-> TRUE, pre |-> << >>]

Parses(tag) == tag # NoVersion

OlderNumbers(v, w) ==
  \/ v.major < w.major
  \/ v.major = w.major /\ v.minor < w.minor
  \/ v.major = w.major /\ v.minor = w.minor /\ v.patch < w.patch

SameNumbers(v, w) == v.major = w.major /\ v.minor = w.minor /\ v.patch = w.patch

(* A number comes before a word; otherwise by value. *)
OlderToken(s, t) == (s.num /\ ~t.num) \/ (s.num = t.num /\ s.val < t.val)

(* comparePre: the first run that differs decides, or the shorter suffix.  *)
OlderPre(p, q) ==
  \E k \in 1..Len(q) :
    /\ \A j \in 1..k-1 : j <= Len(p) /\ p[j] = q[j]
    /\ (Len(p) < k \/ OlderToken(p[k], q[k]))

(* A pre-release is older than its release. *)
Older(v, w) ==
  \/ OlderNumbers(v, w)
  \/ /\ SameNumbers(v, w)
     /\ \/ ~v.final /\ w.final
        \/ ~v.final /\ ~w.final /\ OlderPre(v.pre, w.pre)

IsNewer(current, latest) == Parses(current) /\ Parses(latest) /\ Older(current, latest)

----------------------------------------------------------------------------
(* The release list: [tag, draft, prerelease, assets, man], where assets   *)
(* are the names of the files attached and man is what update.json and its *)
(* signature hold.                                                         *)
AppRelease(r) == ~r.draft /\ ~r.prerelease /\ Parses(r.tag) /\ r.tag.final

AppReleases(list) == {i \in DOMAIN list : AppRelease(list[i])}

(* Where Newest is in the list, 0 when there is no app release: the first  *)
(* of the highest.                                                         *)
Newest(list) ==
  IF AppReleases(list) = {} THEN 0
  ELSE CHOOSE i \in AppReleases(list) :
         \A j \in AppReleases(list) :
           /\ ~Older(list[i].tag, list[j].tag)
           /\ j < i => Older(list[j].tag, list[i].tag)

(* A stable sort, the highest version first. *)
NotesSince(list, current) ==
  LET found == {i \in AppReleases(list) : IsNewer(current, list[i].tag)}
      Before(j, i) == \/ Older(list[i].tag, list[j].tag)
                      \/ ~Older(list[j].tag, list[i].tag) /\ j < i
      Place(i) == 1 + Cardinality({j \in found : Before(j, i)})
  IN  [n \in 1..Cardinality(found) |-> CHOOSE i \in found : Place(i) = n]

----------------------------------------------------------------------------
(* The manifest: [signed, version, min, assets], assets a sequence of      *)
(* [name, arch, hash]; min = NoVersion when it sets none, arch = "" for    *)
(* every architecture.                                                     *)
ManifestFiles == {"update.json", "update.json.sig"}

VerifyManifest(m) == m.signed /\ Len(m.assets) > 0

(* What the dialog learns of release r's manifest. *)
FetchManifest(r) ==
  IF ~(ManifestFiles \subseteq r.assets) THEN "none"
  ELSE IF VerifyManifest(r.man) /\ r.man.version = r.tag THEN "ok"
  ELSE "bad"

(* The first asset for this architecture, or else the first for any: its   *)
(* place, 0 when there is neither.                                         *)
AssetFor(m, arch) ==
  LET For(a) == {i \in DOMAIN m.assets : m.assets[i].arch = a}
      First(s) == CHOOSE i \in s : \A j \in s : i <= j
  IN  CASE For(arch) # {} -> First(For(arch))
        [] For(arch) = {} /\ For("") # {} -> First(For(""))
        [] OTHER -> 0

Allows(m, current) ==
  ~(Parses(m.min) /\ Parses(current) /\ Older(current, m.min))

(* showUpdateChoice: a release build may install what a valid manifest     *)
(* allows it and names for this architecture, when the release carries it; *)
(* in every other case only the release page is opened.                    *)
CanInstall(r, current, arch) ==
  /\ Parses(current)
  /\ FetchManifest(r) = "ok"
  /\ Allows(r.man, current)
  /\ AssetFor(r.man, arch) # 0
  /\ r.man.assets[AssetFor(r.man, arch)].name \in r.assets

(* checkForUpdates, checkForUpdatesManual *)
Offered(list, current, arch) ==
  /\ Newest(list) # 0
  /\ IsNewer(current, list[Newest(list)].tag)
  /\ CanInstall(list[Newest(list)], current, arch)

(* verifyDownloadedHash: the file is the one the manifest promised.        *)
HashMatches(m, arch, hash) == AssetFor(m, arch) # 0 /\ m.assets[AssetFor(m, arch)].hash = hash

(* stageVerifiedUpdate: what the elevated updater asks of the copies.      *)
Installable(m, hash, current, arch) ==
  /\ VerifyManifest(m)
  /\ IsNewer(current, m.version)
  /\ Allows(m, current)
  /\ HashMatches(m, arch, hash)
============================================================================
