------------------------ MODULE SessionStateProofs ------------------------
(***************************************************************************)
(* What holds of the stored sample for every set of remote sessions and    *)
(* every number of posts under way: OneReading and PostKeepsNewer.         *)
(*                                                                         *)
(* A goroutine reads exactly while the gate says so (GateTrue), hence no   *)
(* second one begins.  That a post never goes back in time needs more:     *)
(* every post is on the wire while it is handled (OnWire), so that a       *)
(* sample stored with the present time marks it late, and one that is not  *)
(* late is no older than the stored one (NotOlder), as levels only grow    *)
(* (Reached).                                                              *)
(***************************************************************************)
EXTENDS SessionState, SequenceTheorems, TLAPS

PcPlaces == {"idle", "look", "forget", "forget tray", "force", "go", "start", "reply",
             "record", "refresh", "refreshed", "end", "store"}
Samples0 == [of : Sessions \cup {Nobody}, level : Nat]

Types ==
    /\ user \in [Sessions -> {"none", "locked", "unlocked"}]
    /\ level \in [Sessions -> Nat]
    /\ pc \in [Threads -> PcPlaces]
    /\ got \in [Threads -> Samples0] /\ store \in Samples0
    /\ wire \in Seq(Sessions) /\ late \subseteq Sessions
    /\ gate \in [running : BOOLEAN, again : BOOLEAN, recent : BOOLEAN]

Sent(s) == \E i \in DOMAIN wire : wire[i] = s
True(v) == v.of \in Sessions => v.level <= level[v.of]

GateTrue == gate.running <=> pc["fill"] # "idle"
OnWire   == \A s \in Sessions : pc[s] # "idle" => Sent(s)
StoreBy  == \A t \in Threads : pc[t] = "store" => t \in Sessions
Own      == \A s \in Sessions : got[s] # Nothing => got[s].of = s
Reached  == True(store) /\ \A t \in Threads : True(got[t])
NotOlder == \A s \in Sessions :
              pc[s] # "idle" /\ s \notin late /\ got[s] # Nothing /\ store.of = s
                => store.level <= got[s].level

IInv == Types /\ GateTrue /\ OnWire /\ StoreBy /\ Own /\ Reached /\ NotOlder

LEMMA Names == /\ Nobody \notin Sessions /\ Failed \notin Sessions
               /\ Sessions \subseteq Threads /\ Runs \subseteq Threads /\ "status" \in Threads
               /\ Runs \cap Sessions = {} /\ "status" \notin Sessions /\ "status" \notin Runs
               /\ "fill" \in Runs /\ "command" \in Runs
  BY SessionStateAssumption DEF Sessions, Threads, Runs, Console, Nobody, Failed, Unknown

LEMMA NothingIs == Nothing \in Samples0 /\ Nothing.of = Nobody
  BY DEF Nothing, Samples0

LEMMA FindUserIs == FindUser \in Sessions \cup {Nobody}
  <1>1. ASSUME NEW S, S \subseteq Sessions, S # {} PROVE First(S) \in Sessions
    BY <1>1 DEF First
  <1> DEFINE unlocked == {s \in Candidates : user[s] = "unlocked"}
  <1>2. Candidates \subseteq Sessions /\ unlocked \subseteq Sessions
    BY DEF Candidates
  <1>3. FindUser = IF unlocked # {} THEN First(unlocked)
                   ELSE IF Candidates # {} THEN First(Candidates) ELSE Nobody
    BY DEF FindUser
  <1> QED BY <1>1, <1>2, <1>3

LEMMA InitIInv == Init => IInv
  <1> SUFFICES ASSUME Init PROVE IInv
    OBVIOUS
  <1> USE Names, NothingIs DEF Init
  <1>1. Types
    BY DEF Types, PcPlaces
  <1>2. GateTrue /\ OnWire /\ StoreBy
    BY DEF GateTrue, OnWire, StoreBy
  <1>3. Own /\ Reached /\ NotOlder
    BY DEF Own, Reached, True, NotOlder
  <1> QED BY <1>1, <1>2, <1>3 DEF IInv

-----------------------------------------------------------------------------
(* What the parts of a step do. *)

LEMMA PlaceIs ==
  ASSUME Types, NEW t \in Threads, NEW p \in PcPlaces, Place(t, p)
  PROVE  /\ pc' \in [Threads -> PcPlaces] /\ pc'[t] = p
         /\ \A r \in Threads : r # t => pc'[r] = pc[r]
  BY DEF Place, Types

LEMMA LeaveIs ==
  ASSUME Types, NEW t \in Threads, Leave(t)
  PROVE  /\ pc' \in [Threads -> PcPlaces] /\ got' \in [Threads -> Samples0]
         /\ pc'[t] = "idle" /\ got'[t] = Nothing
         /\ \A r \in Threads : r # t => pc'[r] = pc[r] /\ got'[r] = got[r]
  BY NothingIs, PlaceIs DEF Leave, Types, PcPlaces

(* Nothing but the place of a thread changes, and it does not end or begin. *)
LEMMA Moves ==
  ASSUME IInv, NEW t \in Threads, NEW p \in PcPlaces, Place(t, p),
         t = "status" \/ (pc[t] # "idle" /\ p # "idle"), p = "store" => t \in Sessions,
         UNCHANGED <<user, level, got, store, wire, late, gate>>
  PROVE  IInv'
  <1>1. Types'
    BY PlaceIs DEF IInv, Types
  <1>2. \A r \in Threads \ {"status"} : pc'[r] = "idle" <=> pc[r] = "idle"
    BY PlaceIs DEF IInv
  <1>3. GateTrue' /\ OnWire'
    BY <1>2, Names DEF IInv, GateTrue, OnWire, Sent
  <1>4. StoreBy'
    BY PlaceIs DEF IInv, StoreBy
  <1>5. Own' /\ Reached' /\ NotOlder'
    BY <1>2, Names DEF IInv, Own, Reached, True, NotOlder
  <1> QED BY <1>1, <1>3, <1>4, <1>5 DEF IInv

(* Windows' state alone changes, and levels grow. *)
LEMMA WindowsMoves ==
  ASSUME IInv, user' \in [Sessions -> {"none", "locked", "unlocked"}],
         level' \in [Sessions -> Nat], \A s \in Sessions : level[s] <= level'[s],
         UNCHANGED <<pc, got, store, wire, late>>,
         gate' \in [running : BOOLEAN, again : BOOLEAN, recent : BOOLEAN],
         gate'.running = gate.running
  PROVE  IInv'
  <1>1. Types'
    BY DEF IInv, Types
  <1>2. Reached'
    BY DEF IInv, Types, Samples0, Reached, True
  <1>3. GateTrue' /\ OnWire' /\ StoreBy' /\ Own' /\ NotOlder'
    BY DEF IInv, GateTrue, OnWire, Sent, StoreBy, Own, NotOlder
  <1> QED BY <1>1, <1>2, <1>3 DEF IInv

(* A request for a reading, which may begin one. *)
LEMMA RequestIs ==
  ASSUME Types, GateTrue, NEW t \in Threads, t # "fill", NEW p \in PcPlaces,
         NEW force \in BOOLEAN, RequestFill(t, p, force)
  PROVE  /\ pc' \in [Threads -> PcPlaces] /\ pc'[t] = p
         /\ \A r \in Threads \ {t, "fill"} : pc'[r] = pc[r]
         /\ gate' \in [running : BOOLEAN, again : BOOLEAN, recent : BOOLEAN]
         /\ \/ pc'["fill"] = pc["fill"] /\ gate'.running = gate.running
            \/ pc["fill"] = "idle" /\ pc'["fill"] = "start" /\ gate'.running
  <1> USE Names
  <1>1. CASE FillNeeded /\ Begins(force)
    <2>1. gate' = [gate EXCEPT !.running = TRUE, !.recent = TRUE]
      BY <1>1 DEF RequestFill, Begun
    <2>2. gate'.running /\ gate' \in [running : BOOLEAN, again : BOOLEAN, recent : BOOLEAN]
      BY <2>1 DEF Types
    <2>3. pc' = [pc EXCEPT ![t] = p, !["fill"] = "start"]
      BY <1>1 DEF RequestFill
    <2>4. pc["fill"] = "idle"
      BY <1>1 DEF Begins, GateTrue
    <2> QED BY <2>2, <2>3, <2>4 DEF Types, PcPlaces
  <1>2. CASE FillNeeded /\ ~Begins(force)
    <2>1. gate' = [gate EXCEPT !.again = @ \/ (gate.running /\ force)]
      BY <1>2 DEF RequestFill, Begun
    <2>2. gate'.running = gate.running /\ gate' \in [running : BOOLEAN, again : BOOLEAN, recent : BOOLEAN]
      BY <2>1 DEF Types
    <2>3. pc' = [pc EXCEPT ![t] = p, !["fill"] = pc["fill"]]
      BY <1>2 DEF RequestFill, Types
    <2> QED BY <2>2, <2>3 DEF Types, PcPlaces
  <1>3. CASE ~FillNeeded
    BY <1>3, PlaceIs DEF RequestFill, Types
  <1> QED BY <1>1, <1>2, <1>3

LEMMA Requests ==
  ASSUME IInv, NEW t \in Threads, t # "fill", NEW p \in PcPlaces \ {"store"},
         t \in Sessions => pc[t] # "idle",
         NEW force \in BOOLEAN, RequestFill(t, p, force),
         UNCHANGED <<user, level, got, store, wire, late>>
  PROVE  IInv'
  <1> USE Names
  <1>1. Types'
    BY RequestIs DEF IInv, Types
  <1>2. GateTrue' /\ StoreBy'
    BY RequestIs DEF IInv, GateTrue, StoreBy
  <1>3. \A s \in Sessions : pc'[s] # "idle" => pc[s] # "idle"
    BY RequestIs DEF IInv
  <1>4. OnWire' /\ Own' /\ Reached' /\ NotOlder'
    BY <1>3 DEF IInv, OnWire, Sent, Own, Reached, True, NotOlder
  <1> QED BY <1>1, <1>2, <1>4 DEF IInv

(* A forced request of the reading's own goroutine begins nothing. *)
LEMMA FillForces ==
  ASSUME IInv, pc["fill"] = "force", RequestFill("fill", "go", TRUE),
         UNCHANGED <<user, level, got, store, wire, late>>
  PROVE  IInv'
  <1> USE Names
  <1>1. /\ pc' = [pc EXCEPT !["fill"] = "go"] /\ gate'.running = gate.running
        /\ gate' \in [running : BOOLEAN, again : BOOLEAN, recent : BOOLEAN]
    <2>1. ~Begins(TRUE)
      BY DEF IInv, GateTrue, Begins
    <2>2. CASE FillNeeded
      <3>1. gate' = [gate EXCEPT !.again = @ \/ (gate.running /\ TRUE)]
        BY <2>1, <2>2 DEF RequestFill, Begun
      <3>2. pc' = [pc EXCEPT !["fill"] = "go", !["fill"] = "go"]
        BY <2>2 DEF RequestFill
      <3> QED BY <3>1, <3>2 DEF IInv, Types
    <2>3. CASE ~FillNeeded
      BY <2>3 DEF RequestFill, Place, IInv, Types
    <2> QED BY <2>2, <2>3
  <1>2. Types'
    BY <1>1 DEF IInv, Types, PcPlaces
  <1>3. GateTrue' /\ StoreBy'
    BY <1>1 DEF IInv, Types, GateTrue, StoreBy
  <1>4. \A s \in Sessions : pc'[s] = pc[s]
    BY <1>1 DEF IInv, Types
  <1>5. OnWire' /\ Own' /\ Reached' /\ NotOlder'
    BY <1>4 DEF IInv, OnWire, Sent, Own, Reached, True, NotOlder
  <1> QED BY <1>2, <1>3, <1>5 DEF IInv

(* What is stored with the present time is newer than every post. *)
LEMMA NoteNowIs ==
  ASSUME IInv, NEW v, NoteNow(v)
  PROVE  /\ store' = v /\ late' \subseteq Sessions
         /\ \A s \in Sessions : pc[s] # "idle" => s \in late'
  BY DEF NoteNow, Range, IInv, Types, OnWire, Sent

(* A goroutine that is not a post stores its reading and goes on. *)
LEMMA Stores ==
  ASSUME IInv, NEW t \in Runs, NoteNow(got[t]), UNCHANGED <<user, level, wire>>,
         pc' \in [Threads -> PcPlaces], pc'[t] # "store",
         \A r \in Threads : r # t => pc'[r] = pc[r] /\ got'[r] = got[r],
         got' \in [Threads -> Samples0], got'[t] \in {got[t], Nothing},
         gate' = gate, t = "fill" => pc[t] # "idle" /\ pc'[t] # "idle"
  PROVE  IInv'
  <1> USE Names, NothingIs
  <1>1. Types'
    BY NoteNowIs DEF IInv, Types
  <1>2. GateTrue' /\ StoreBy'
    BY DEF IInv, GateTrue, StoreBy
  <1>3. \A s \in Sessions : pc'[s] = pc[s] /\ got'[s] = got[s]
    OBVIOUS
  <1>4. OnWire' /\ Own'
    BY <1>3 DEF IInv, OnWire, Sent, Own
  <1>5. Reached'
    BY NoteNowIs DEF IInv, Reached, True
  <1>6. NotOlder'
    BY <1>3, NoteNowIs DEF NotOlder
  <1> QED BY <1>1, <1>2, <1>4, <1>5, <1>6 DEF IInv

(* A post leaves the wire; those of the other sessions stay. *)
LEMMA UnsentIs ==
  ASSUME Types, NEW s \in Sessions, Unsent(s)
  PROVE  /\ wire' \in Seq(Sessions)
         /\ \A r \in Sessions : r # s /\ Sent(r) => Sent(r)'
  <1>1. PICK i \in DOMAIN wire : wire[i] = s /\ wire' = RemoveAt(wire, i)
    BY DEF Unsent
  <1> DEFINE n     == Len(wire)
             front == SubSeq(wire, 1, i - 1)
             back  == SubSeq(wire, i + 1, n)
  <1>2. wire \in Seq(Sessions) /\ n \in Nat /\ i \in 1..n /\ DOMAIN wire = 1..n
    BY <1>1 DEF Types
  <1>3. /\ front \in Seq(Sessions) /\ Len(front) = i - 1
        /\ \A j \in 1..i - 1 : front[j] = wire[j]
    BY <1>2
  <1>4. /\ back \in Seq(Sessions) /\ Len(back) = n - i
        /\ \A j \in 1..n - i : back[j] = wire[j + i]
    BY <1>2
  <1>5. wire' = front \o back
    BY <1>1, <1>2 DEF RemoveAt
  <1> HIDE DEF front, back
  <1>6. /\ front \o back \in Seq(Sessions)
        /\ Len(front \o back) = Len(front) + Len(back)
        /\ \A j \in 1..Len(front) + Len(back) :
             (front \o back)[j] = IF j <= Len(front) THEN front[j] ELSE back[j - Len(front)]
    BY <1>3, <1>4, ConcatProperties
  <1>7. wire' \in Seq(Sessions) /\ Len(wire') = Len(front) + Len(back) /\ DOMAIN wire' = 1..Len(wire')
    BY <1>5, <1>6
  <1> HIDE DEF n
  <1>8. \A j \in 1..n : j < i => j \in DOMAIN wire' /\ wire'[j] = wire[j]
    BY <1>2, <1>3, <1>4, <1>5, <1>6, <1>7
  <1>9. \A j \in 1..n : j > i => j - 1 \in DOMAIN wire' /\ wire'[j - 1] = wire[j]
    <2> SUFFICES ASSUME NEW j \in 1..n, j > i
                 PROVE  j - 1 \in DOMAIN wire' /\ wire'[j - 1] = wire[j]
      OBVIOUS
    <2>1. j - 1 \in 1..Len(front) + Len(back) /\ ~(j - 1 <= Len(front))
      BY <1>2, <1>3, <1>4
    <2>2. wire'[j - 1] = back[(j - 1) - Len(front)]
      BY <1>5, <1>6, <2>1
    <2>3. (j - 1) - Len(front) = j - i /\ j - i \in 1..n - i /\ (j - i) + i = j
      BY <1>2, <1>3
    <2>4. back[j - i] = wire[j]
      BY <1>4, <2>3
    <2> QED BY <1>7, <2>1, <2>2, <2>3, <2>4
  <1>10. ASSUME NEW r \in Sessions, r # s, Sent(r) PROVE Sent(r)'
    <2>1. PICK j \in 1..n : wire[j] = r
      BY <1>2, <1>10 DEF Sent
    <2>2. j # i
      BY <1>1, <1>10, <2>1
    <2>3. j < i \/ j > i
      BY <1>2, <2>2
    <2> QED BY <1>8, <1>9, <2>1, <2>3 DEF Sent
  <1> QED BY <1>7, <1>10

(* A post that is over: the sample it leaves stored is not older than that *)
(* of a post still under way.                                              *)
LEMMA PostEnds ==
  ASSUME IInv, NEW s \in Sessions, Leave(s), Unsent(s),
         late' \subseteq Sessions, late \ {s} \subseteq late',
         store' \in {store, got[s]},
         UNCHANGED <<user, level, gate>>
  PROVE  IInv'
  <1> USE Names, NothingIs
  <1>1. /\ pc' \in [Threads -> PcPlaces] /\ got' \in [Threads -> Samples0]
        /\ pc'[s] = "idle" /\ got'[s] = Nothing /\ s \in Threads
        /\ \A r \in Threads : r # s => pc'[r] = pc[r] /\ got'[r] = got[r]
    BY LeaveIs DEF IInv
  <1>2. Types'
    BY <1>1, UnsentIs DEF IInv, Types
  <1>3. GateTrue' /\ StoreBy'
    BY <1>1 DEF IInv, GateTrue, StoreBy
  <1>4. OnWire'
    BY <1>1, UnsentIs DEF IInv, OnWire
  <1>5. Own'
    BY <1>1 DEF IInv, Own
  <1>6. Reached'
    BY <1>1 DEF IInv, Reached, True
  <1>7. NotOlder'
    BY <1>1 DEF IInv, Own, NotOlder
  <1> QED BY <1>2, <1>3, <1>4, <1>5, <1>6, <1>7 DEF IInv

(* A post sets out with a sample of this moment, or without one.           *)
LEMMA PostBegins ==
  ASSUME IInv, NEW s \in Sessions, pc[s] = "idle", Place(s, "look"),
         NEW v \in {Nothing, Reading(s, level)}, got' = [got EXCEPT ![s] = v],
         wire' = Append(wire, s), late' = late \ {s},
         UNCHANGED <<user, level, store, gate>>
  PROVE  IInv'
  <1> USE Names, NothingIs
  <1>1. /\ pc' \in [Threads -> PcPlaces] /\ pc'[s] = "look" /\ s \in Threads
        /\ \A r \in Threads : r # s => pc'[r] = pc[r]
    BY PlaceIs DEF IInv, PcPlaces
  <1>2. v \in Samples0 /\ True(v) /\ (v # Nothing => v.of = s /\ v.level = level[s])
    BY DEF Reading, Samples0, True, IInv, Types
  <1>3. /\ got' \in [Threads -> Samples0] /\ got'[s] = v
        /\ \A r \in Threads : r # s => got'[r] = got[r]
    BY <1>1, <1>2 DEF IInv, Types
  <1>4. /\ wire' \in Seq(Sessions) /\ Sent(s)' /\ \A r \in Sessions : Sent(r) => Sent(r)'
    <2>1. /\ wire \in Seq(Sessions) /\ Len(wire) \in Nat /\ DOMAIN wire = 1..Len(wire)
      BY DEF IInv, Types
    <2>2. /\ wire' \in Seq(Sessions) /\ DOMAIN wire' = 1..Len(wire) + 1
          /\ wire'[Len(wire) + 1] = s /\ \A i \in 1..Len(wire) : wire'[i] = wire[i]
      BY <2>1
    <2> QED BY <2>1, <2>2 DEF Sent
  <1>5. Types'
    BY <1>1, <1>3, <1>4 DEF IInv, Types
  <1>6. GateTrue' /\ StoreBy' /\ OnWire'
    BY <1>1, <1>4 DEF IInv, GateTrue, StoreBy, OnWire
  <1>7. Own' /\ Reached'
    BY <1>2, <1>3 DEF IInv, Own, Reached, True
  <1>8. NotOlder'
    BY <1>1, <1>2, <1>3 DEF IInv, Types, Reached, True, NotOlder
  <1> QED BY <1>5, <1>6, <1>7, <1>8 DEF IInv

-----------------------------------------------------------------------------
(* The steps of the goroutines. *)

LEMMA LookUpKeeps ==
  ASSUME IInv, NEW t \in Threads,
         LookUp(t) \/ LookUpFails(t) \/ ForgetSample(t) \/ ForgetTray(t) \/ ForceFill(t)
  PROVE  IInv'
  <1> USE Names
  <1>1. CASE LookUp(t) \/ LookUpFails(t) \/ ForgetTray(t)
    <2>1. PICK p \in {"forget", "go", "force"} : Place(t, p)
      BY <1>1 DEF LookUp, LookUpFails, ForgetTray
    <2>2. t = "status" \/ pc[t] # "idle"
      BY <1>1 DEF LookUp, LookUpFails, ForgetTray, Looks
    <2>3. UNCHANGED <<user, level, got, store, wire, late, gate>>
      BY <1>1 DEF LookUp, LookUpFails, ForgetTray, windows, sample
    <2> QED BY <2>1, <2>2, <2>3, Moves DEF PcPlaces
  <1>2. CASE ForgetSample(t)
    <2> USE NothingIs
    <2>1. /\ Place(t, "forget tray") /\ store' = Nothing /\ late' = {} /\ pc[t] = "forget"
          /\ UNCHANGED <<user, level, got, wire, gate>>
      BY <1>2 DEF ForgetSample, windows
    <2>2. /\ pc' \in [Threads -> PcPlaces] /\ pc'[t] = "forget tray"
          /\ \A r \in Threads : r # t => pc'[r] = pc[r]
      BY <2>1, PlaceIs DEF IInv, PcPlaces
    <2>3. Types'
      BY <2>1, <2>2 DEF IInv, Types
    <2>4. GateTrue' /\ StoreBy' /\ OnWire'
      BY <2>1, <2>2 DEF IInv, GateTrue, StoreBy, OnWire, Sent
    <2>5. Own' /\ Reached' /\ NotOlder'
      BY <2>1 DEF IInv, Own, Reached, True, NotOlder
    <2> QED BY <2>3, <2>4, <2>5 DEF IInv
  <1>3. CASE ForceFill(t)
    <2>1. /\ pc[t] = "force" /\ RequestFill(t, "go", TRUE)
          /\ UNCHANGED <<user, level, got, store, wire, late>>
      BY <1>3 DEF ForceFill, windows, sample
    <2>2. CASE t = "fill"
      BY <2>1, <2>2, FillForces
    <2>3. CASE t # "fill"
      BY <2>1, <2>3, Requests DEF PcPlaces
    <2> QED BY <2>2, <2>3
  <1> QED BY <1>1, <1>2, <1>3

LEMMA RunKeeps ==
  ASSUME IInv, NEW t \in Runs, Executes(t) \/ ExecuteFails(t) \/ ReplyStored(t)
  PROVE  IInv'
  <1> USE Names, NothingIs
  <1>1. CASE Executes(t)
    <2>1. /\ FindUser \in Sessions /\ pc[t] = "go"
          /\ level' = IF t = "command" /\ got[t] = Nothing THEN Applied(FindUser) ELSE level
          /\ got' = [got EXCEPT ![t] = Reading(FindUser, level')]
          /\ UNCHANGED <<user, store, wire, late, gate>>
      BY <1>1, FindUserIs DEF Executes, sample
    <2>2. level' \in [Sessions -> Nat] /\ \A s \in Sessions : level[s] <= level'[s]
      BY <2>1 DEF Applied, IInv, Types
    <2>3. PICK p \in PcPlaces : Place(t, p) /\ p \in {"refreshed", "reply"}
      BY <1>1 DEF Executes, PcPlaces
    <2>4. /\ pc' \in [Threads -> PcPlaces] /\ pc'[t] = p
          /\ \A r \in Threads : r # t => pc'[r] = pc[r]
      BY <2>3, PlaceIs DEF IInv
    <2>5. /\ got' \in [Threads -> Samples0] /\ got'[t].of = FindUser
          /\ got'[t].level = level'[FindUser] /\ \A r \in Threads : r # t => got'[r] = got[r]
      BY <2>1, <2>2 DEF Reading, Samples0, IInv, Types
    <2>6. Types'
      BY <2>1, <2>2, <2>4, <2>5 DEF IInv, Types
    <2>7. GateTrue' /\ StoreBy' /\ OnWire'
      BY <2>1, <2>3, <2>4 DEF IInv, GateTrue, StoreBy, OnWire, Sent
    <2>8. Own'
      BY <2>5 DEF IInv, Own
    <2>9. Reached'
      <3>1. ASSUME NEW v \in Samples0, True(v) PROVE v.of \in Sessions => v.level <= level'[v.of]
        BY <2>2, <3>1 DEF True, Samples0, IInv, Types
      <3>2. \A r \in Threads : got[r] \in Samples0
        BY DEF IInv, Types
      <3>3. ASSUME NEW r \in Threads, got'[r].of \in Sessions
            PROVE  got'[r].level <= level'[got'[r].of]
        <4>1. CASE r = t
          BY <2>1, <2>2, <2>5, <4>1
        <4>2. CASE r # t
          BY <2>5, <3>1, <3>2, <3>3, <4>2 DEF IInv, Reached
        <4> QED BY <4>1, <4>2
      <3>4. store'.of \in Sessions => store'.level <= level'[store'.of]
        BY <2>1, <3>1 DEF IInv, Types, Reached
      <3> QED BY <3>3, <3>4 DEF Reached, True
    <2>10. NotOlder'
      BY <2>1, <2>4, <2>5 DEF IInv, NotOlder
    <2> QED BY <2>6, <2>7, <2>8, <2>9, <2>10 DEF IInv
  <1>2. CASE ExecuteFails(t)
    <2>1. pc[t] = "go" /\ UNCHANGED <<user, level, store, wire, late, gate>>
      BY <1>2 DEF ExecuteFails, sample
    <2>2. CASE t = "fill"
      <3>1. Place(t, "end") /\ got' = got
        BY <1>2, <2>2 DEF ExecuteFails
      <3> QED BY <2>1, <3>1, Moves DEF PcPlaces
    <2>3. CASE t # "fill"
      <3>1. Leave(t)
        BY <1>2, <2>3 DEF ExecuteFails
      <3>2. /\ pc' \in [Threads -> PcPlaces] /\ got' \in [Threads -> Samples0]
            /\ pc'[t] = "idle" /\ got'[t] = Nothing
            /\ \A r \in Threads : r # t => pc'[r] = pc[r] /\ got'[r] = got[r]
        BY <3>1, LeaveIs DEF IInv
      <3>3. Types' /\ GateTrue' /\ StoreBy' /\ OnWire'
        BY <2>1, <2>3, <3>2 DEF IInv, Types, GateTrue, StoreBy, OnWire, Sent
      <3>4. Own' /\ Reached' /\ NotOlder'
        BY <2>1, <2>3, <3>2 DEF IInv, Own, Reached, True, NotOlder
      <3> QED BY <3>3, <3>4 DEF IInv
    <2> QED BY <2>2, <2>3
  <1>3. CASE ReplyStored(t)
    <2>1. /\ NoteNow(got[t]) /\ pc[t] # "idle"
          /\ UNCHANGED <<user, level, wire, gate>>
      BY <1>3 DEF ReplyStored, windows
    <2>2. CASE got' = got /\ \E p \in {"record", "refresh"} : Place(t, p)
      <3>0. PICK p \in PcPlaces : Place(t, p) /\ p \in {"record", "refresh"}
        BY <2>2 DEF PcPlaces
      <3>1. /\ pc' \in [Threads -> PcPlaces] /\ pc'[t] \in {"record", "refresh"}
            /\ \A r \in Threads : r # t => pc'[r] = pc[r]
        BY <3>0, PlaceIs DEF IInv
      <3>2. got \in [Threads -> Samples0]
        BY DEF IInv, Types
      <3> QED BY <2>1, <2>2, <3>1, <3>2, Stores
    <2>3. CASE t = "command" /\ Leave(t)
      BY <2>1, <2>3, LeaveIs, Stores DEF IInv
    <2> QED BY <1>3, <2>2, <2>3 DEF ReplyStored
  <1> QED BY <1>1, <1>2, <1>3

LEMMA FillKeeps ==
  ASSUME IInv, FillStarts \/ FillRecords \/ FillEnds \/ Refreshes \/ StatusAnswers \/ CommandBegins
  PROVE  IInv'
  <1> USE Names, NothingIs
  <1>1. CASE FillStarts
    <2>1. PICK p \in {"look", "end"} : Place("fill", p)
      BY <1>1 DEF FillStarts
    <2> QED BY <1>1, <2>1, Moves DEF FillStarts, PcPlaces, windows, sample
  <1>2. CASE FillRecords
    <2>1. /\ NoteNow(got["fill"]) /\ pc["fill"] = "record" /\ Place("fill", "end")
          /\ got' = [got EXCEPT !["fill"] = Nothing] /\ UNCHANGED <<user, level, wire, gate>>
      BY <1>2 DEF FillRecords, windows
    <2>2. /\ pc' \in [Threads -> PcPlaces] /\ pc'["fill"] = "end"
          /\ \A r \in Threads : r # "fill" => pc'[r] = pc[r]
      BY <2>1, PlaceIs DEF IInv, PcPlaces
    <2>3. /\ got' \in [Threads -> Samples0] /\ got'["fill"] = Nothing
          /\ \A r \in Threads : r # "fill" => got'[r] = got[r]
      BY <2>1 DEF IInv, Types
    <2> QED BY <2>1, <2>2, <2>3, Stores
  <1>3. CASE FillEnds
    <2>1. /\ pc["fill"] = "end" /\ UNCHANGED <<user, level, got, store, wire, late>>
      BY <1>3 DEF FillEnds, windows, sample
    <2>2. /\ gate' \in [running : BOOLEAN, again : BOOLEAN, recent : BOOLEAN]
          /\ \E p \in {"look", "end", "idle"} : Place("fill", p) /\ (gate'.running <=> p # "idle")
      <3>1. CASE gate.again
        <4>1. gate' = [gate EXCEPT !.again = FALSE, !.recent = TRUE]
          BY <1>3, <3>1 DEF FillEnds
        <4>2. gate' \in [running : BOOLEAN, again : BOOLEAN, recent : BOOLEAN] /\ gate'.running
          BY <2>1, <4>1 DEF IInv, Types, GateTrue
        <4>3. \E p \in {"look", "end"} : Place("fill", p)
          BY <1>3, <3>1 DEF FillEnds
        <4> QED BY <4>2, <4>3
      <3>2. CASE ~gate.again
        <4>1. gate' = [gate EXCEPT !.running = FALSE] /\ Place("fill", "idle")
          BY <1>3, <3>2 DEF FillEnds
        <4>2. gate' \in [running : BOOLEAN, again : BOOLEAN, recent : BOOLEAN] /\ ~gate'.running
          BY <4>1 DEF IInv, Types
        <4> QED BY <4>1, <4>2
      <3> QED BY <3>1, <3>2
    <2>3. PICK p \in PcPlaces : /\ Place("fill", p) /\ (gate'.running <=> p # "idle")
                                /\ p # "store"
      BY <2>2 DEF PcPlaces
    <2>4. /\ pc' \in [Threads -> PcPlaces] /\ pc'["fill"] = p
          /\ \A r \in Threads : r # "fill" => pc'[r] = pc[r]
      BY <2>3, PlaceIs DEF IInv
    <2>5. Types' /\ GateTrue' /\ StoreBy'
      BY <2>1, <2>2, <2>3, <2>4 DEF IInv, Types, GateTrue, StoreBy
    <2>6. OnWire' /\ Own' /\ Reached' /\ NotOlder'
      BY <2>1, <2>4 DEF IInv, OnWire, Sent, Own, Reached, True, NotOlder
    <2> QED BY <2>5, <2>6 DEF IInv
  <1>4. CASE Refreshes /\ enabled
    BY <1>4, Moves DEF Refreshes, PcPlaces, windows, sample
  <1>5. CASE (Refreshes /\ ~enabled) \/ CommandBegins
    <2>1. /\ UNCHANGED <<user, level, store, wire, late, gate>>
          /\ pc' \in [Threads -> PcPlaces] /\ pc'["command"] \in {"idle", "look"}
          /\ got' \in [Threads -> Samples0] /\ got'["command"] \in {got["command"], Nothing}
          /\ \A r \in Threads : r # "command" => pc'[r] = pc[r] /\ got'[r] = got[r]
      <3>1. CASE Refreshes /\ ~enabled
        BY <3>1, LeaveIs DEF Refreshes, IInv, windows, sample
      <3>2. CASE CommandBegins
        <4>1. Place("command", "look") /\ UNCHANGED <<user, level, store, wire, late, gate, got>>
          BY <3>2 DEF CommandBegins, sample
        <4>2. "look" \in PcPlaces
          BY DEF PcPlaces
        <4> QED BY <4>1, <4>2, PlaceIs DEF IInv, Types
      <3> QED BY <1>5, <3>1, <3>2
    <2>2. Types' /\ GateTrue' /\ StoreBy' /\ OnWire'
      BY <2>1 DEF IInv, Types, GateTrue, StoreBy, OnWire, Sent
    <2>3. Own' /\ Reached' /\ NotOlder'
      BY <2>1 DEF IInv, Own, Reached, True, NotOlder
    <2> QED BY <2>2, <2>3 DEF IInv
  <1>6. CASE StatusAnswers
    <2>1. UNCHANGED <<user, level, got, store, wire, late>>
      BY <1>6 DEF StatusAnswers, windows, sample
    <2>2. CASE RequestFill("status", "idle", FALSE)
      BY <2>1, <2>2, Requests DEF PcPlaces
    <2>3. CASE Place("status", "idle") /\ UNCHANGED gate
      BY <2>1, <2>3, Moves DEF PcPlaces
    <2> QED BY <1>6, <2>2, <2>3 DEF StatusAnswers
  <1> QED BY <1>1, <1>2, <1>3, <1>4, <1>5, <1>6

-----------------------------------------------------------------------------
(* The steps of posts, users and time. *)

LEMMA PostKeeps ==
  ASSUME IInv, NEW s \in Sessions,
         PostIgnored(s) \/ PostBelieved(s) \/ PostStored(s) \/ Samples(s) \/ SamplesNothing(s)
  PROVE  IInv'
  <1> USE Names
  <1>1. CASE PostIgnored(s)
    <2>1. /\ Leave(s) /\ Unsent(s) /\ late' = late \ {s} /\ store' = store
          /\ UNCHANGED <<user, level, gate>>
      BY <1>1 DEF PostIgnored, windows
    <2>2. late' \subseteq Sessions /\ late \ {s} \subseteq late'
      BY <2>1 DEF IInv, Types
    <2> QED BY <2>1, <2>2, PostEnds
  <1>2. CASE PostBelieved(s)
    <2>1. "store" \in PcPlaces
      BY DEF PcPlaces
    <2> QED BY <1>2, <2>1, Moves DEF PostBelieved, windows, sample
  <1>3. CASE PostStored(s)
    <2>1. Leave(s) /\ Unsent(s) /\ UNCHANGED <<user, level, gate>>
      BY <1>3 DEF PostStored, windows
    <2>2. CASE got[s] # Nothing
      <3>1. NotePost(s, got[s])
        BY <1>3, <2>2 DEF PostStored
      <3>2. Earlier(s) \subseteq Sessions
        BY DEF Earlier, IInv, Types
      <3>3. late' \subseteq Sessions /\ late \ {s} \subseteq late' /\ store' \in {store, got[s]}
        BY <3>1, <3>2 DEF NotePost, IInv, Types
      <3> QED BY <2>1, <2>2, <3>3, PostEnds
    <2>3. CASE got[s] = Nothing
      <3>1. late' = late \ {s} /\ store' = store
        BY <1>3, <2>3 DEF PostStored
      <3>2. late' \subseteq Sessions /\ late \ {s} \subseteq late'
        BY <3>1 DEF IInv, Types
      <3> QED BY <2>1, <3>1, <3>2, PostEnds
    <2> QED BY <2>2, <2>3
  <1>4. CASE Samples(s)
    BY <1>4, PostBegins DEF Samples, windows
  <1>5. CASE SamplesNothing(s)
    BY <1>5, PostBegins DEF SamplesNothing
  <1> QED BY <1>1, <1>2, <1>3, <1>4, <1>5

LEMMA OthersKeep ==
  ASSUME IInv,
         \/ \E s \in Sessions : UserChanges(s) \/ DeviceChanges(s)
         \/ Switched \/ SampleAges \/ TrayQuiet \/ IntervalOver \/ UNCHANGED vars
  PROVE  IInv'
  <1>0. /\ \A s \in Sessions : level[s] <= level[s]
        /\ user \in [Sessions -> {"none", "locked", "unlocked"}] /\ level \in [Sessions -> Nat]
        /\ gate \in [running : BOOLEAN, again : BOOLEAN, recent : BOOLEAN]
    BY DEF IInv, Types
  <1>1. ASSUME NEW s \in Sessions, UserChanges(s) PROVE IInv'
    <2>1. user' \in [Sessions -> {"none", "locked", "unlocked"}]
      BY <1>0, <1>1 DEF UserChanges
    <2> QED BY <1>0, <1>1, <2>1, WindowsMoves DEF UserChanges, sample
  <1>2. ASSUME NEW s \in Sessions, DeviceChanges(s) PROVE IInv'
    <2>1. level' \in [Sessions -> Nat] /\ \A r \in Sessions : level[r] <= level'[r]
      BY <1>0, <1>2 DEF DeviceChanges
    <2> QED BY <1>0, <1>2, <2>1, WindowsMoves DEF DeviceChanges, sample
  <1>3. CASE IntervalOver
    <2>1. /\ gate' = [gate EXCEPT !.recent = FALSE]
          /\ UNCHANGED <<user, level, pc, got, store, wire, late>>
      BY <1>3 DEF IntervalOver, windows, sample
    <2>2. /\ gate' \in [running : BOOLEAN, again : BOOLEAN, recent : BOOLEAN]
          /\ gate'.running = gate.running
      BY <1>0, <2>1
    <2> QED BY <1>0, <2>1, <2>2, WindowsMoves
  <1>4. CASE Switched \/ SampleAges \/ TrayQuiet \/ UNCHANGED vars
    <2>1. UNCHANGED <<user, level, pc, got, store, wire, late, gate>>
      BY <1>4 DEF Switched, SampleAges, TrayQuiet, vars, windows, sample
    <2> QED BY <1>0, <2>1, WindowsMoves
  <1> QED BY <1>1, <1>2, <1>3, <1>4

LEMMA StepIInv == IInv /\ [Next]_vars => IInv'
  <1> SUFFICES ASSUME IInv, [Next]_vars PROVE IInv'
    OBVIOUS
  <1>1. ASSUME NEW t \in Threads, Step(t) \/ LookUpFails(t) PROVE IInv'
    <2>1. CASE LookUp(t) \/ LookUpFails(t) \/ ForgetSample(t) \/ ForgetTray(t) \/ ForceFill(t)
      BY <2>1, LookUpKeeps
    <2>2. CASE t \in Runs /\ (Executes(t) \/ ExecuteFails(t) \/ ReplyStored(t))
      BY <2>2, RunKeeps
    <2>3. CASE FillStarts \/ FillRecords \/ FillEnds \/ Refreshes \/ StatusAnswers
      BY <2>3, FillKeeps
    <2>4. CASE t \in Sessions /\ (PostIgnored(t) \/ PostBelieved(t) \/ PostStored(t))
      BY <2>4, PostKeeps
    <2> QED BY <1>1, <2>1, <2>2, <2>3, <2>4 DEF Step
  <1>2. ASSUME NEW s \in Sessions, Samples(s) \/ SamplesNothing(s) PROVE IInv'
    BY <1>2, PostKeeps
  <1>3. CASE CommandBegins
    BY <1>3, FillKeeps
  <1>4. CASE \/ \E s \in Sessions : UserChanges(s) \/ DeviceChanges(s)
             \/ Switched \/ SampleAges \/ TrayQuiet \/ IntervalOver \/ UNCHANGED vars
    BY <1>4, OthersKeep
  <1> QED BY <1>1, <1>2, <1>3, <1>4 DEF Next

(* What is stored is a state its session really had, and is never newer    *)
(* than a post that may still replace it.                                  *)
THEOREM Invariance == Spec => []IInv
  BY InitIInv, StepIInv, PTL DEF Spec

-----------------------------------------------------------------------------
(* The place of the reading's goroutine changes to "start" only by a       *)
(* request, and the gate lets that through only while none runs.           *)
LEMMA StartsIdle ==
  ASSUME IInv, [Next]_vars, pc'["fill"] = "start", pc["fill"] # "start"
  PROVE  pc["fill"] = "idle"
  <1> USE Names
  <1>1. ASSUME NEW t \in Threads, NEW p \in PcPlaces \ {"start"}, Place(t, p) PROVE FALSE
    BY <1>1, PlaceIs DEF IInv
  <1>2. ASSUME NEW t \in Threads, Leave(t) PROVE FALSE
    <2>1. "idle" \in PcPlaces \ {"start"}
      BY DEF PcPlaces
    <2> QED BY <1>1, <1>2, <2>1 DEF Leave
  <1>3. pc' # pc
    OBVIOUS
  <1>4. ASSUME NEW t \in Threads, NEW p \in PcPlaces \ {"start"}, NEW force \in BOOLEAN,
               RequestFill(t, p, force)
        PROVE  pc["fill"] = "idle"
    <2>1. CASE t = "fill"
      <3>1. pc' = [pc EXCEPT !["fill"] = p, !["fill"] = p] \/ Place(t, p)
        BY <1>4, <2>1 DEF RequestFill
      <3>2. pc'["fill"] = p
        BY <2>1, <3>1, PlaceIs DEF IInv, Types
      <3> QED BY <3>2
    <2>2. CASE t # "fill"
      BY <1>4, <2>2, RequestIs DEF IInv
    <2> QED BY <2>1, <2>2
  <1>5. {"idle", "look", "forget", "forget tray", "force", "go", "reply", "record", "refresh",
         "refreshed", "end", "store"} \subseteq PcPlaces \ {"start"}
    BY DEF PcPlaces
  <1>6. ASSUME NEW t \in Threads, Step(t) \/ LookUpFails(t) PROVE pc["fill"] = "idle"
    <2>1. CASE LookUp(t) \/ LookUpFails(t) \/ ForgetSample(t) \/ ForgetTray(t)
      BY <1>1, <1>5, <2>1 DEF LookUp, LookUpFails, ForgetSample, ForgetTray
    <2>2. CASE ForceFill(t)
      BY <1>4, <1>5, <2>2 DEF ForceFill
    <2>3. CASE t \in Runs /\ (Executes(t) \/ ExecuteFails(t) \/ ReplyStored(t))
      BY <1>1, <1>2, <1>5, <2>3 DEF Executes, ExecuteFails, ReplyStored
    <2>4. CASE FillStarts \/ FillRecords \/ FillEnds
      BY <1>1, <1>5, <2>4 DEF FillStarts, FillRecords, FillEnds
    <2>5. CASE Refreshes
      BY <1>1, <1>2, <1>5, <2>5 DEF Refreshes
    <2>6. CASE StatusAnswers
      BY <1>1, <1>4, <1>5, <2>6 DEF StatusAnswers
    <2>7. CASE t \in Sessions /\ (PostIgnored(t) \/ PostBelieved(t) \/ PostStored(t))
      BY <1>1, <1>2, <1>5, <2>7 DEF PostIgnored, PostBelieved, PostStored
    <2> QED BY <1>6, <2>1, <2>2, <2>3, <2>4, <2>5, <2>6, <2>7 DEF Step
  <1>7. ASSUME NEW s \in Sessions, Samples(s) \/ SamplesNothing(s) PROVE FALSE
    BY <1>1, <1>5, <1>7 DEF Samples, SamplesNothing
  <1>8. CASE CommandBegins
    BY <1>1, <1>5, <1>8 DEF CommandBegins
  <1>9. CASE \/ \E s \in Sessions : UserChanges(s) \/ DeviceChanges(s)
             \/ Switched \/ SampleAges \/ TrayQuiet \/ IntervalOver \/ UNCHANGED vars
    BY <1>3, <1>9 DEF UserChanges, DeviceChanges, Switched, SampleAges, TrayQuiet, IntervalOver, vars
  <1> QED BY <1>6, <1>7, <1>8, <1>9 DEF Next

(* Whoever asks for a reading in the user's session, by force or not: none *)
(* begins while another one runs.                                          *)
THEOREM OneReadingAtOnce == Spec => OneReading
  <1>1. IInv /\ [Next]_vars =>
          [pc'["fill"] = "start" /\ pc["fill"] # "start" => pc["fill"] = "idle"]_vars
    BY StartsIdle
  <1> QED BY <1>1, Invariance, PTL DEF Spec, OneReading

(* A post that ends leaves the store as it is, or with its own sample,     *)
(* which is then the newer one.                                            *)
LEMMA PostIsNewer ==
  ASSUME IInv, [Next]_vars, NEW s \in Sessions, pc[s] = "store", pc'[s] = "idle",
         store'.of = store.of
  PROVE  store'.level >= store.level
  <1> USE Names
  <1>1. ASSUME store' = store PROVE store'.level >= store.level
    BY <1>1 DEF IInv, Types, Samples0
  <1>2. CASE PostStored(s) /\ got[s] # Nothing /\ s \notin late
    <2>1. store' = got[s]
      BY <1>2 DEF PostStored, NotePost
    <2>2. store.of = s /\ store.level <= got[s].level
      BY <1>2, <2>1 DEF IInv, Own, NotOlder
    <2> QED BY <2>1, <2>2 DEF IInv, Types, Samples0
  <1>3. CASE PostStored(s) /\ (got[s] = Nothing \/ s \in late)
    BY <1>1, <1>3 DEF PostStored, NotePost
  <1>4. ASSUME NEW t \in Threads, NEW p \in PcPlaces, Place(t, p) \/ Leave(t), t # s PROVE FALSE
    BY <1>4, PlaceIs, LeaveIs DEF IInv
  <1>5. ASSUME NEW t \in Threads, NEW p \in PcPlaces \ {"idle"}, Place(t, p) PROVE FALSE
    BY <1>5, PlaceIs DEF IInv
  <1>6. ASSUME NEW t \in Threads, t # "fill", t # s, NEW p \in PcPlaces, NEW force \in BOOLEAN,
               RequestFill(t, p, force)
        PROVE  FALSE
    BY <1>6, RequestIs DEF IInv
  <1>7. "idle" \in PcPlaces /\
        {"look", "forget", "forget tray", "force", "go", "reply", "record", "refresh",
         "refreshed", "end", "store"} \subseteq PcPlaces \ {"idle"}
    BY DEF PcPlaces
  <1>8. ASSUME NEW t \in Threads, Step(t) \/ LookUpFails(t), t # s PROVE FALSE
    <2>1. CASE LookUp(t) \/ LookUpFails(t) \/ ForgetSample(t) \/ ForgetTray(t)
      BY <1>5, <1>7, <2>1 DEF LookUp, LookUpFails, ForgetSample, ForgetTray
    <2>2. CASE ForceFill(t)
      <3>1. CASE t = "fill"
        <4>1. pc' = [pc EXCEPT !["fill"] = "go", !["fill"] = "go"] \/ Place(t, "go")
          BY <2>2, <3>1 DEF ForceFill, RequestFill
        <4>2. pc'[s] = pc[s]
          BY <1>5, <1>7, <4>1 DEF IInv, Types
        <4> QED BY <4>2
      <3>2. CASE t # "fill"
        BY <1>6, <1>7, <1>8, <2>2, <3>2 DEF ForceFill
      <3> QED BY <3>1, <3>2
    <2>3. CASE t \in Runs /\ (Executes(t) \/ ExecuteFails(t) \/ ReplyStored(t))
      BY <1>4, <1>5, <1>7, <1>8, <2>3 DEF Executes, ExecuteFails, ReplyStored
    <2>4. CASE t = "fill" /\ (FillStarts \/ FillRecords \/ FillEnds)
      BY <1>4, <1>7, <1>8, <2>4 DEF FillStarts, FillRecords, FillEnds
    <2>5. CASE t = "command" /\ Refreshes
      BY <1>4, <1>7, <1>8, <2>5 DEF Refreshes
    <2>6. CASE t = "status" /\ StatusAnswers
      BY <1>4, <1>6, <1>7, <1>8, <2>6 DEF StatusAnswers
    <2>7. CASE t \in Sessions /\ (PostIgnored(t) \/ PostBelieved(t) \/ PostStored(t))
      BY <1>4, <1>5, <1>7, <1>8, <2>7 DEF PostIgnored, PostBelieved, PostStored
    <2> QED BY <1>8, <2>1, <2>2, <2>3, <2>4, <2>5, <2>6, <2>7 DEF Step
  <1>9. ASSUME Step(s) \/ LookUpFails(s) PROVE PostStored(s)
    <2>1. s \in Threads /\ s \notin Runs
      OBVIOUS
    <2> QED BY <1>9, <2>1 DEF Step, LookUp, LookUpFails, Looks, ForgetSample, ForgetTray, ForceFill,
                              PostIgnored, PostBelieved
  <1>10. ASSUME NEW r \in Sessions, Samples(r) \/ SamplesNothing(r) PROVE FALSE
    BY <1>5, <1>7, <1>10 DEF Samples, SamplesNothing
  <1>11. CASE CommandBegins
    BY <1>5, <1>7, <1>11 DEF CommandBegins
  <1>12. CASE \/ \E r \in Sessions : UserChanges(r) \/ DeviceChanges(r)
              \/ Switched \/ SampleAges \/ TrayQuiet \/ IntervalOver \/ UNCHANGED vars
    BY <1>12 DEF UserChanges, DeviceChanges, Switched, SampleAges, TrayQuiet, IntervalOver, vars
  <1> QED BY <1>2, <1>3, <1>8, <1>9, <1>10, <1>11, <1>12 DEF Next

(* No heartbeat, however long it took, takes the store back to an older    *)
(* state of its session than a command, a reading or another one stored.   *)
THEOREM NoPostGoesBack == Spec => PostKeepsNewer
  <1>1. IInv /\ [Next]_vars =>
          [\A s \in Sessions : pc[s] = "store" /\ pc'[s] = "idle" /\ store'.of = store.of
             => store'.level >= store.level]_vars
    BY PostIsNewer
  <1> QED BY <1>1, Invariance, PTL DEF Spec, PostKeepsNewer
=============================================================================
