------------------------------ MODULE BotProofs ------------------------------
(***************************************************************************)
(* What holds of the bot's control for any keys, verbs, number of updates, *)
(* saves, stops and faults: its types, ActsOnceInTime and ControlMatches.  *)
(*                                                                         *)
(* That one poller asks is not enough for either half of ActsOnceInTime:   *)
(* an abandoned poller still works on its batch.  So batches are untouched *)
(* (Pending) and apart (Disjoint), and the poller that may ask is beyond   *)
(* all that was handled, typed while the service was down, or is in the    *)
(* batch of another (Beyond).                                              *)
(***************************************************************************)
EXTENDS Bot, TLAPS

PollerState == [st : {"none", "drain", "poll"}, offset : 0..MaxUpdates + 1,
                next : 0..MaxUpdates + 1, conflict : BOOLEAN, cancelled : BOOLEAN]

(* The process that does not run holds nothing. *)
Idle ==
  /\ managed = FALSE /\ key = Off /\ cur = None /\ lock = "free" /\ owing = 0
  /\ \A i \in Pollers : poller[i] = NoPoller

TgTypes ==
  /\ sent \in 0..MaxUpdates /\ forgot \in 0..MaxUpdates
  /\ verb \in [Ids -> Messages \cup Buttons \cup {"none"}]
  /\ handled \in [Ids -> {"no", "answered", "acted", "again"}]
  /\ down \subseteq Ids /\ late \subseteq Ids

CtlTypes ==
  /\ up \in BOOLEAN /\ managed \in BOOLEAN /\ warn \in BOOLEAN /\ owing \in Nat
  /\ live \in Keys \cup {Off} /\ key \in Keys \cup {Off} /\ want \in Keys \cup {Off}
  /\ cur \in Pollers \cup {None} /\ lock \in {"free", "reconcile", "stop"}
  /\ poller \in [Pollers -> PollerState]

Types == TgTypes /\ CtlTypes

(* The lifecycle: what Reconcile waits to start is what the config says,   *)
(* or a later Reconcile is owed; the poller it waits for was cancelled.    *)
Control ==
  /\ ~up => Idle
  /\ managed /\ lock = "reconcile" /\ owing = 0 => want = live
  /\ lock = "reconcile" => managed
  /\ lock = "stop" => ~managed
  /\ lock # "free" /\ cur # None => Free(cur) \/ poller[cur].cancelled
  /\ key = Off <=> cur = None
  /\ managed /\ lock = "free" /\ owing = 0 => key = live
  /\ OnePolls
  /\ WarningIsCurrent

ControlInv == Types /\ Control

(* What is behind a poller: it will not fetch u any more. *)
Before(u, i) == IF Busy(i) THEN u < poller[i].next ELSE u <= forgot \/ u < poller[i].offset

Past(u) == handled[u] # "no" \/ u \in down

Sent == forgot <= sent /\ \A u \in Ids : Past(u) => u <= sent

Pending ==
  \A i \in Pollers :
    /\ poller[i].next <= poller[i].offset /\ poller[i].offset <= sent + 1
    /\ poller[i].st # "poll" => poller[i].offset = 0
    /\ poller[i].next = 0 => poller[i].offset = 0
    /\ \A u \in Ids : poller[i].next <= u /\ u < poller[i].offset => ~Past(u)

Disjoint ==
  \A i, j \in Pollers :
    i # j /\ Busy(i) /\ Busy(j) =>
      poller[j].offset <= poller[i].next \/ poller[i].offset <= poller[j].next

Beyond ==
  \A i \in Pollers :
    poller[i].st = "poll" /\ ~poller[i].cancelled =>
      /\ \A u \in Ids : Past(u) => Before(u, i)
      /\ \A j \in Pollers \ {i}, u \in Ids : u < poller[j].offset => Before(u, i)

ActsInv == Sent /\ Pending /\ Disjoint /\ Beyond /\ ActsOnceInTime

----------------------------------------------------------------------------
LEMMA PollersAre == Pollers = {1, 2} /\ None \notin Pollers
  BY DEF Pollers, None

LEMMA FreshPoller ==
  /\ NoPoller \in PollerState /\ NoPoller.st = "none" /\ NoPoller.offset = 0 /\ NoPoller.next = 0
  /\ NoPoller.cancelled = FALSE /\ NoPoller.conflict = FALSE
  BY BotAssumption DEF NoPoller, PollerState

LEMMA StatusSet ==
  ASSUME NEW p \in PollerState, NEW s \in {"none", "drain", "poll"}
  PROVE  LET q == [p EXCEPT !.st = s]
         IN q \in PollerState /\ q.st = s /\ q.offset = p.offset /\ q.next = p.next
            /\ q.cancelled = p.cancelled /\ q.conflict = p.conflict
  BY DEF PollerState

LEMMA StartedPoller ==
  ASSUME NEW i
  PROVE  /\ Started(i) \in PollerState /\ Started(i).st = "drain"
         /\ Started(i).offset = 0 /\ Started(i).next = 0
         /\ Started(i).cancelled = FALSE /\ Started(i).conflict = FALSE
  BY FreshPoller, StatusSet DEF Started

Polling(o, n) == [NoPoller EXCEPT !.st = "poll", !.offset = o, !.next = n]

LEMMA PollingAt ==
  ASSUME NEW o \in 0..MaxUpdates + 1, NEW n \in 0..MaxUpdates + 1
  PROVE  /\ Polling(o, n) \in PollerState /\ Polling(o, n).st = "poll"
         /\ Polling(o, n).offset = o /\ Polling(o, n).next = n
         /\ Polling(o, n).cancelled = FALSE /\ Polling(o, n).conflict = FALSE
<1> DEFINE p == Polling(o, n)
<1>1. p = [[[NoPoller EXCEPT !.st = "poll"] EXCEPT !.offset = o] EXCEPT !.next = n]
  BY DEF Polling
<1> DEFINE a == [NoPoller EXCEPT !.st = "poll"]
           b == [a EXCEPT !.offset = o]
<1>2. a \in PollerState /\ a.st = "poll" /\ a.cancelled = FALSE /\ a.conflict = FALSE
  BY FreshPoller, StatusSet
<1>3. p = [b EXCEPT !.next = n]
  BY <1>1
<1> HIDE DEF a, p
<1>4. /\ b \in PollerState /\ b.st = "poll" /\ b.offset = o
      /\ b.cancelled = FALSE /\ b.conflict = FALSE
  BY <1>2 DEF PollerState
<1> HIDE DEF b
<1>5. /\ p \in PollerState /\ p.st = "poll" /\ p.offset = o /\ p.next = n
      /\ p.cancelled = FALSE /\ p.conflict = FALSE
  BY <1>3, <1>4 DEF PollerState
<1>. QED BY <1>5 DEF p

LEMMA FieldSet ==
  ASSUME NEW p \in PollerState
  PROVE  /\ LET q == [p EXCEPT !.cancelled = TRUE]
            IN q \in PollerState /\ q.st = p.st /\ q.offset = p.offset /\ q.next = p.next
               /\ q.cancelled = TRUE /\ q.conflict = p.conflict
         /\ \A c \in BOOLEAN :
              LET q == [p EXCEPT !.conflict = c]
              IN q \in PollerState /\ q.st = p.st /\ q.offset = p.offset /\ q.next = p.next
                 /\ q.cancelled = p.cancelled /\ q.conflict = c
         /\ p.next < p.offset =>
              LET q == [p EXCEPT !.next = @ + 1]
              IN q \in PollerState /\ q.st = p.st /\ q.offset = p.offset /\ q.next = p.next + 1
                 /\ q.cancelled = p.cancelled /\ q.conflict = p.conflict
<1>1. LET q == [p EXCEPT !.cancelled = TRUE]
      IN q \in PollerState /\ q.st = p.st /\ q.offset = p.offset /\ q.next = p.next
         /\ q.cancelled = TRUE /\ q.conflict = p.conflict
  BY DEF PollerState
<1>2. ASSUME NEW c \in BOOLEAN
      PROVE LET q == [p EXCEPT !.conflict = c]
            IN q \in PollerState /\ q.st = p.st /\ q.offset = p.offset /\ q.next = p.next
               /\ q.cancelled = p.cancelled /\ q.conflict = c
  BY DEF PollerState
<1>3. ASSUME p.next < p.offset
      PROVE LET q == [p EXCEPT !.next = @ + 1]
            IN q \in PollerState /\ q.st = p.st /\ q.offset = p.offset /\ q.next = p.next + 1
               /\ q.cancelled = p.cancelled /\ q.conflict = p.conflict
  BY <1>3, BotAssumption DEF PollerState
<1>. QED BY <1>1, <1>2, <1>3

(* What a step does to the pollers, as seen from outside: p is what it     *)
(* leaves of poller i.                                                     *)
Put(i, p) == poller' = [poller EXCEPT ![i] = p]

(* No poller comes to hold, or to ask for, more than before. *)
Quieter ==
  \A i \in Pollers :
    \/ poller'[i].st # "poll" /\ poller'[i].offset = 0 /\ poller'[i].next = 0
    \/ /\ poller'[i].st = poller[i].st /\ poller'[i].offset = poller[i].offset
       /\ poller'[i].next = poller[i].next
       /\ poller[i].cancelled => poller'[i].cancelled

LEMMA PutIs ==
  ASSUME Types, NEW i \in Pollers, NEW p \in PollerState, Put(i, p)
  PROVE  /\ poller' \in [Pollers -> PollerState] /\ poller'[i] = p
         /\ \A j \in Pollers : j # i => poller'[j] = poller[j]
  BY DEF Types, CtlTypes, Put

LEMMA CancelPuts ==
  ASSUME Types, NEW i \in Pollers, poller' = [poller EXCEPT ![i].cancelled = TRUE]
  PROVE  \E p \in PollerState :
           /\ Put(i, p) /\ p.st = poller[i].st /\ p.offset = poller[i].offset
           /\ p.next = poller[i].next /\ p.cancelled = TRUE /\ p.conflict = poller[i].conflict
<1> DEFINE p == [poller[i] EXCEPT !.cancelled = TRUE]
<1>1. poller[i] \in PollerState
  BY DEF Types, CtlTypes
<1>2. Put(i, p)
  BY Zenon DEF Put
<1>. QED BY <1>1, <1>2, FieldSet

LEMMA ConflictPuts ==
  ASSUME Types, NEW i \in Pollers, poller' = [poller EXCEPT ![i].conflict = TRUE]
  PROVE  \E p \in PollerState :
           /\ Put(i, p) /\ p.st = poller[i].st /\ p.offset = poller[i].offset
           /\ p.next = poller[i].next /\ p.cancelled = poller[i].cancelled /\ p.conflict = TRUE
<1> DEFINE p == [poller[i] EXCEPT !.conflict = TRUE]
<1>1. poller[i] \in PollerState
  BY DEF Types, CtlTypes
<1>2. Put(i, p)
  BY Zenon DEF Put
<1>. QED BY <1>1, <1>2, FieldSet

LEMMA HandlePuts ==
  ASSUME Types, NEW i \in Pollers, Busy(i), poller' = [poller EXCEPT ![i].next = @ + 1]
  PROVE  \E p \in PollerState :
           /\ Put(i, p) /\ p.st = poller[i].st /\ p.offset = poller[i].offset
           /\ p.next = poller[i].next + 1
           /\ p.cancelled = poller[i].cancelled /\ p.conflict = poller[i].conflict
<1> DEFINE p == [poller[i] EXCEPT !.next = @ + 1]
<1>1. poller[i] \in PollerState
  BY DEF Types, CtlTypes
<1>2. Put(i, p)
  BY Zenon DEF Put
<1>3. /\ p \in PollerState /\ p.st = poller[i].st /\ p.offset = poller[i].offset
      /\ p.next = poller[i].next + 1
      /\ p.cancelled = poller[i].cancelled /\ p.conflict = poller[i].conflict
  BY <1>1, FieldSet DEF Busy
<1> HIDE DEF p
<1>. QED BY <1>2, <1>3

(* Drain and Fetch. *)
LEMMA DrainPuts ==
  ASSUME Types, NEW i \in Pollers, Drain(i)
  PROVE  \E p \in PollerState :
           /\ Put(i, p) /\ p.st = "poll" /\ p.cancelled = FALSE /\ p.conflict = FALSE
           /\ p.offset = (IF sent > forgot THEN sent + 1 ELSE 0) /\ p.next = p.offset
<1> DEFINE o == IF sent > forgot THEN sent + 1 ELSE 0
           p == Polling(o, o)
<1>1. o \in 0..MaxUpdates + 1
  BY BotAssumption DEF Types, TgTypes
<1>2. Put(i, p)
  BY DEF Drain, Put, Polling
<1> HIDE DEF o
<1>3. /\ p \in PollerState /\ p.st = "poll" /\ p.cancelled = FALSE /\ p.conflict = FALSE
      /\ p.offset = o /\ p.next = o
  BY <1>1, PollingAt
<1> HIDE DEF p
<1>4. \E q \in PollerState :
        /\ Put(i, q) /\ q.st = "poll" /\ q.cancelled = FALSE /\ q.conflict = FALSE
        /\ q.offset = o /\ q.next = q.offset
  BY <1>2, <1>3
<1>. QED BY <1>4 DEF o

LEMMA FetchPuts ==
  ASSUME Types, NEW i \in Pollers, Fetch(i)
  PROVE  \E p \in PollerState :
           /\ Put(i, p) /\ p.st = "poll" /\ p.cancelled = FALSE /\ p.conflict = FALSE
           /\ forgot' = Later(forgot, poller[i].offset - 1)
           /\ IF sent > forgot' THEN p.offset = sent + 1 /\ p.next = forgot' + 1
                                ELSE p.offset = poller[i].offset /\ p.next = poller[i].next
<1>1. /\ poller[i] \in PollerState /\ poller[i].offset \in 0..MaxUpdates + 1
      /\ sent \in 0..MaxUpdates /\ forgot \in 0..MaxUpdates
  BY DEF Types, CtlTypes, TgTypes, PollerState
<1>2. /\ forgot' = Later(forgot, poller[i].offset - 1) /\ poller[i].st = "poll"
      /\ poller[i].cancelled = FALSE
  BY <1>1 DEF Fetch, Asks, PollerState
<1>3. forgot' \in 0..MaxUpdates
  BY <1>1, <1>2, BotAssumption DEF Later
<1>4. CASE sent > forgot'
  <2>0. PICK f \in 0..MaxUpdates : f = forgot'
    BY <1>3
  <2> DEFINE o == sent + 1
             n == f + 1
             p == Polling(o, n)
  <2>1. o \in 0..MaxUpdates + 1 /\ n \in 0..MaxUpdates + 1
    BY <1>1, BotAssumption
  <2>2. Put(i, p)
    BY <1>4, <2>0 DEF Fetch, Put, Polling
  <2> HIDE DEF o, n
  <2>3. /\ p \in PollerState /\ p.st = "poll" /\ p.cancelled = FALSE /\ p.conflict = FALSE
        /\ p.offset = o /\ p.next = n
    BY <2>1, PollingAt
  <2> USE DEF o, n
  <2> HIDE DEF p
  <2>. QED BY <1>2, <1>4, <2>0, <2>2, <2>3
<1>5. CASE ~(sent > forgot')
  <2> DEFINE p == [poller[i] EXCEPT !.conflict = FALSE]
  <2>1. Put(i, p)
    BY <1>5 DEF Fetch, Put
  <2>2. /\ p \in PollerState /\ p.st = "poll" /\ p.cancelled = FALSE /\ p.conflict = FALSE
        /\ p.offset = poller[i].offset /\ p.next = poller[i].next
    BY <1>1, <1>2, FieldSet
  <2> HIDE DEF p
  <2>. QED BY <1>2, <1>5, <2>1, <2>2
<1>. QED BY <1>4, <1>5

----------------------------------------------------------------------------
(* The lifecycle.                                                          *)
LEMMA InitControl == Init => ControlInv
<1> SUFFICES ASSUME Init PROVE ControlInv
  OBVIOUS
<1>1. FirstKey \in Keys
  BY BotAssumption DEF FirstKey
<1>2. live \in Keys \cup {Off} /\ Off \notin Keys
  BY <1>1, BotAssumption DEF Init
<1>3. poller \in [Pollers -> PollerState] /\ \A i \in Pollers : poller[i] = NoPoller
  BY FreshPoller DEF Init
<1>4. Types
  <2>1. TgTypes
    BY BotAssumption DEF Init, TgTypes
  <2>. QED BY <1>2, <1>3, <2>1, BotAssumption DEF Init, Types, CtlTypes
<1>5. Control
  BY <1>3, FreshPoller DEF Init, Control, Idle, OnePolls, Free, WarningIsCurrent
<1>. QED BY <1>4, <1>5 DEF ControlInv

(* A poller is only started where every other one was told to stop. *)
LEMMA Restarts ==
  ASSUME ControlInv, NEW k \in Keys \cup {Off}, Restart(k, poller),
         \A i \in Pollers : Free(i) \/ poller[i].cancelled
  PROVE  /\ poller' \in [Pollers -> PollerState] /\ cur' \in Pollers \cup {None}
         /\ key' = k /\ (k = Off <=> cur' = None)
         /\ lock' = "free" /\ want' = Off /\ warn' = FALSE
         /\ OnePolls' /\ Quieter
<1>1. CASE k = Off
  BY <1>1, FreshPoller DEF Restart, ControlInv, Types, CtlTypes, OnePolls, Free, Quieter
<1>2. CASE k # Off
  <2> DEFINE c == CHOOSE i \in Pollers : Free(i)
  <2>1. c \in Pollers /\ cur' = c /\ poller' = [poller EXCEPT ![cur'] = Started(cur')]
    BY <1>2 DEF Restart
  <2> HIDE DEF c
  <2>2. Put(c, Started(c))
    BY <2>1 DEF Put
  <2>3. /\ poller' \in [Pollers -> PollerState] /\ poller'[c] = Started(c)
        /\ \A j \in Pollers : j # c => poller'[j] = poller[j]
    BY <2>1, <2>2, StartedPoller, PutIs DEF ControlInv
  <2>4. OnePolls'
    BY <2>1, <2>3 DEF OnePolls, Free
  <2>5. Quieter
    BY <2>3, StartedPoller DEF Quieter
  <2>. QED BY <1>2, <2>1, <2>3, <2>4, <2>5, PollersAre DEF Restart
<1>. QED BY <1>1, <1>2

LEMMA Cancels ==
  ASSUME ControlInv, cur \in Pollers, poller' = [poller EXCEPT ![cur].cancelled = TRUE],
         UNCHANGED <<cur, warn>>
  PROVE  /\ poller' \in [Pollers -> PollerState] /\ poller'[cur].cancelled = TRUE
         /\ OnePolls' /\ WarningIsCurrent' /\ Quieter
<1>1. PICK p \in PollerState :
        /\ Put(cur, p) /\ p.st = poller[cur].st /\ p.offset = poller[cur].offset
        /\ p.next = poller[cur].next /\ p.cancelled = TRUE /\ p.conflict = poller[cur].conflict
  BY CancelPuts DEF ControlInv
<1>2. /\ poller' \in [Pollers -> PollerState] /\ poller'[cur] = p
      /\ \A j \in Pollers : j # cur => poller'[j] = poller[j]
  BY <1>1, PutIs DEF ControlInv
<1>. QED BY <1>1, <1>2 DEF ControlInv, Control, OnePolls, Free, WarningIsCurrent, Quieter

(* Whoever holds the lock cancelled the poller, and no other one was left. *)
LEMMA AllCancelled ==
  ASSUME ControlInv, lock # "free" \/ cur = None
  PROVE  \A i \in Pollers : Free(i) \/ poller[i].cancelled
  BY PollersAre DEF ControlInv, Types, CtlTypes, Control, OnePolls, Free

LEMMA QuietSame == UNCHANGED poller => Quieter
  BY DEF Quieter

LEMMA ReconcileControl ==
  ASSUME ControlInv, Reconcile
  PROVE  ControlInv' /\ Quieter
<1> USE DEF ControlInv, Types, CtlTypes
<1>1. CASE ~managed \/ live = key
  <2>1. UNCHANGED <<key, cur, lock, want, poller, warn, sent, forgot, verb, up, live, managed,
                    handled, down, late>>
        /\ owing' = owing - 1 /\ owing > 0 /\ up /\ lock = "free"
    BY <1>1 DEF Reconcile, tgVars, histVars
  <2>2. Types'
    BY <2>1 DEF TgTypes
  <2>3. Control'
    BY <1>1, <2>1 DEF Control, Idle, OnePolls, Free, WarningIsCurrent
  <2>. QED BY <2>1, <2>2, <2>3, QuietSame
<1>2. CASE ~(~managed \/ live = key) /\ cur = None
  <2>1. UNCHANGED <<sent, forgot, verb, up, live, managed, handled, down, late>>
        /\ owing' = owing - 1 /\ owing > 0 /\ up /\ Restart(live, poller)
    BY <1>2 DEF Reconcile, tgVars, histVars
  <2>2. /\ poller' \in [Pollers -> PollerState] /\ cur' \in Pollers \cup {None}
        /\ key' = live /\ (live = Off <=> cur' = None)
        /\ lock' = "free" /\ want' = Off /\ warn' = FALSE
        /\ OnePolls' /\ Quieter
    BY <1>2, <2>1, Restarts, AllCancelled
  <2>3. CtlTypes'
    <3>0. owing' \in Nat
      BY <2>1
    <3>1. up' \in BOOLEAN /\ managed' \in BOOLEAN /\ warn' \in BOOLEAN
      BY <2>1, <2>2
    <3>2. /\ live' \in Keys \cup {Off} /\ key' \in Keys \cup {Off} /\ want' \in Keys \cup {Off}
          /\ lock' \in {"free", "reconcile", "stop"}
      BY <2>1, <2>2
    <3>. QED BY <2>2, <3>0, <3>1, <3>2
  <2>4. TgTypes'
    BY <2>1 DEF TgTypes
  <2>5. Control'
    BY <2>1, <2>2 DEF Control, WarningIsCurrent
  <2>. QED BY <2>2, <2>3, <2>4, <2>5
<1>3. CASE ~(~managed \/ live = key) /\ cur # None
  <2>1. UNCHANGED <<sent, forgot, verb, up, live, managed, key, cur, warn, handled, down, late>>
        /\ owing' = owing - 1 /\ owing > 0 /\ up /\ lock = "free"
        /\ poller' = [poller EXCEPT ![cur].cancelled = TRUE]
        /\ lock' = "reconcile" /\ want' = live
    BY <1>3 DEF Reconcile, tgVars, histVars
  <2>2. /\ poller' \in [Pollers -> PollerState] /\ poller'[cur].cancelled = TRUE
        /\ OnePolls' /\ WarningIsCurrent' /\ Quieter
    BY <1>3, <2>1, Cancels
  <2>3. Types'
    BY <2>1, <2>2 DEF TgTypes
  <2>4. Control'
    BY <1>3, <2>1, <2>2 DEF Control
  <2>. QED BY <2>2, <2>3, <2>4
<1>. QED BY <1>1, <1>2, <1>3

LEMMA ReconciledControl ==
  ASSUME ControlInv, Reconciled
  PROVE  ControlInv' /\ Quieter
<1> USE DEF ControlInv, Types, CtlTypes
<1>1. UNCHANGED <<sent, forgot, verb, up, live, owing, managed, handled, down, late>>
      /\ up /\ lock = "reconcile" /\ Restart(want, poller)
  BY DEF Reconciled, tgVars, histVars
<1>2. /\ poller' \in [Pollers -> PollerState] /\ cur' \in Pollers \cup {None}
      /\ key' = want /\ (want = Off <=> cur' = None)
      /\ lock' = "free" /\ want' = Off /\ warn' = FALSE
      /\ OnePolls' /\ Quieter
  BY <1>1, Restarts, AllCancelled
<1>3. Types'
  BY <1>1, <1>2 DEF TgTypes
<1>4. Control'
  BY <1>1, <1>2 DEF Control, WarningIsCurrent
<1>. QED BY <1>2, <1>3, <1>4

LEMMA TgSame ==
  ASSUME TgTypes, UNCHANGED <<sent, forgot, verb, handled, down, late>>
  PROVE  TgTypes'
  BY DEF TgTypes

LEMMA SaveControl ==
  ASSUME ControlInv, NEW k \in Keys \cup {Off}, Save(k)
  PROVE  ControlInv' /\ Quieter
<1>1. UNCHANGED <<sent, forgot, verb, up, managed, key, cur, lock, want, poller, warn,
                  handled, down, late>>
      /\ owing' = owing + 1 /\ live' = k /\ up
  BY DEF Save, tgVars, histVars
<1>2. CtlTypes'
  BY <1>1 DEF ControlInv, Types, CtlTypes
<1>3. Control'
  BY <1>1 DEF ControlInv, Types, CtlTypes, Control, OnePolls, Free, WarningIsCurrent
<1>. QED BY <1>1, <1>2, <1>3, TgSame, QuietSame DEF ControlInv, Types

LEMMA StartControl ==
  ASSUME ControlInv, ServiceStart
  PROVE  ControlInv' /\ Quieter
<1>1. UNCHANGED <<sent, forgot, verb, live, key, cur, lock, want, poller, warn, handled, down, late>>
      /\ up' = TRUE /\ managed' = TRUE /\ owing' = 1 /\ up = FALSE
  BY DEF ServiceStart, tgVars, histVars, ControlInv, Types, CtlTypes
<1>2. CtlTypes'
  BY <1>1 DEF ControlInv, Types, CtlTypes
<1>3. Control'
  BY <1>1 DEF ControlInv, Types, CtlTypes, Control, Idle, OnePolls, Free, WarningIsCurrent
<1>. QED BY <1>1, <1>2, <1>3, TgSame, QuietSame DEF ControlInv, Types

LEMMA StopControl ==
  ASSUME ControlInv, ServiceStop
  PROVE  ControlInv' /\ Quieter
<1>1. UNCHANGED <<sent, forgot, verb, up, live, owing, key, cur, want, warn, handled, down, late>>
      /\ up /\ managed' = FALSE /\ lock' = "stop"
  BY DEF ServiceStop, tgVars, histVars
<1>2. CASE cur = None
  <2>1. UNCHANGED poller
    BY <1>2 DEF ServiceStop
  <2>2. CtlTypes'
    BY <1>1, <2>1 DEF ControlInv, Types, CtlTypes
  <2>3. Control'
    BY <1>1, <1>2, <2>1 DEF ControlInv, Types, CtlTypes, Control, OnePolls, Free, WarningIsCurrent
  <2>. QED BY <1>1, <2>1, <2>2, <2>3, TgSame, QuietSame DEF ControlInv, Types
<1>3. CASE cur # None
  <2>1. cur \in Pollers /\ poller' = [poller EXCEPT ![cur].cancelled = TRUE]
    BY <1>3 DEF ServiceStop, ControlInv, Types, CtlTypes
  <2>2. /\ poller' \in [Pollers -> PollerState] /\ poller'[cur].cancelled = TRUE
        /\ OnePolls' /\ WarningIsCurrent' /\ Quieter
    BY <1>1, <2>1, Cancels
  <2>3. CtlTypes'
    BY <1>1, <2>2 DEF ControlInv, Types, CtlTypes
  <2>4. Control'
    BY <1>1, <2>2 DEF ControlInv, Types, CtlTypes, Control
  <2>. QED BY <1>1, <2>2, <2>3, <2>4, TgSame DEF ControlInv, Types
<1>. QED BY <1>2, <1>3

LEMMA GoneControl ==
  ASSUME ControlInv, ServiceStopped \/ ServiceCrash
  PROVE  ControlInv' /\ Quieter
<1>1. UNCHANGED <<sent, forgot, verb, live, handled, down, late>> /\ Gone
  BY DEF ServiceStopped, ServiceCrash, tgVars, histVars
<1>2. /\ up' = FALSE /\ managed' = FALSE /\ key' = Off /\ cur' = None /\ lock' = "free"
      /\ want' = Off /\ owing' = 0 /\ warn' = FALSE
      /\ poller' \in [Pollers -> PollerState] /\ \A i \in Pollers : poller'[i] = NoPoller
  BY <1>1, FreshPoller DEF Gone
<1>3. CtlTypes'
  BY <1>1, <1>2 DEF ControlInv, Types, CtlTypes
<1>4. Control'
  BY <1>2, FreshPoller DEF Control, Idle, OnePolls, Free, WarningIsCurrent
<1>5. Quieter
  BY <1>2, FreshPoller DEF Quieter
<1>. QED BY <1>1, <1>3, <1>4, <1>5, TgSame DEF ControlInv, Types

----------------------------------------------------------------------------
(* The poller's steps leave the lifecycle as it is; who asks is its poller. *)
LEMMA AskerIsCurrent ==
  ASSUME ControlInv, NEW i \in Pollers, NEW st, st # "none", Asks(i, st)
  PROVE  i = cur /\ lock = "free" /\ up /\ poller[i].st = st /\ ~poller[i].cancelled /\ ~Busy(i)
  BY PollersAre DEF ControlInv, Types, CtlTypes, Control, OnePolls, Free, Asks

(* Setting the state of one poller: what the lifecycle needs of it. *)
LEMMA PutControl ==
  ASSUME ControlInv, up, NEW i \in Pollers, NEW p \in PollerState, Put(i, p),
         UNCHANGED <<up, live, owing, managed, key, cur, lock, want>>,
         warn' \in BOOLEAN,
         p.st # "none" /\ ~p.cancelled => ~Free(i) /\ ~poller[i].cancelled,
         i # cur => ~warn' \/ warn,
         i = cur => ~warn' \/ p.conflict
  PROVE  CtlTypes' /\ Control'
<1>1. /\ poller' \in [Pollers -> PollerState] /\ poller'[i] = p
      /\ \A j \in Pollers : j # i => poller'[j] = poller[j]
  BY PutIs DEF ControlInv
<1>2. CtlTypes'
  BY <1>1 DEF ControlInv, Types, CtlTypes
<1>3. OnePolls'
  BY <1>1 DEF ControlInv, Types, CtlTypes, Control, OnePolls, Free
<1>4. lock # "free" /\ cur # None => (Free(cur) \/ poller[cur].cancelled)'
  <2> SUFFICES ASSUME lock # "free", cur # None PROVE (Free(cur) \/ poller[cur].cancelled)'
    OBVIOUS
  <2>1. cur \in Pollers /\ (Free(cur) \/ poller[cur].cancelled)
    BY DEF ControlInv, Types, CtlTypes, Control
  <2>. QED BY <1>1, <2>1 DEF Free
<1>5. WarningIsCurrent'
  BY <1>1, PollersAre DEF ControlInv, Types, CtlTypes, Control, WarningIsCurrent
<1>. QED BY <1>2, <1>3, <1>4, <1>5 DEF ControlInv, Control

LEMMA DrainControl ==
  ASSUME ControlInv, NEW i \in Pollers, Drain(i)
  PROVE  CtlTypes' /\ Control'
<1>1. i = cur /\ up /\ ~Free(i) /\ ~poller[i].cancelled
  BY AskerIsCurrent DEF Drain, Free
<1>2. PICK p \in PollerState :
        /\ Put(i, p) /\ p.st = "poll" /\ p.cancelled = FALSE /\ p.conflict = FALSE
        /\ p.offset = (IF sent > forgot THEN sent + 1 ELSE 0) /\ p.next = p.offset
  BY DrainPuts DEF ControlInv
<1>3. UNCHANGED <<up, live, owing, managed, key, cur, lock, want>>
      /\ warn' = (warn /\ ~poller[i].conflict)
  BY DEF Drain, Cleared, pollSame, ctlVars
<1>4. ~warn'
  BY <1>1, <1>3 DEF ControlInv, Control, WarningIsCurrent
<1>5. warn' \in BOOLEAN
  BY <1>3
<1>. QED BY <1>1, <1>2, <1>3, <1>4, <1>5, PutControl

LEMMA FetchControl ==
  ASSUME ControlInv, NEW i \in Pollers, Fetch(i)
  PROVE  CtlTypes' /\ Control'
<1>1. i = cur /\ up /\ ~Free(i) /\ ~poller[i].cancelled
  BY AskerIsCurrent DEF Fetch, Free
<1>2. PICK p \in PollerState :
        /\ Put(i, p) /\ p.st = "poll" /\ p.cancelled = FALSE /\ p.conflict = FALSE
  BY FetchPuts DEF ControlInv
<1>3. UNCHANGED <<up, live, owing, managed, key, cur, lock, want>>
      /\ warn' = (warn /\ ~poller[i].conflict)
  BY DEF Fetch, Cleared, pollSame, ctlVars
<1>4. ~warn'
  BY <1>1, <1>3 DEF ControlInv, Control, WarningIsCurrent
<1>5. warn' \in BOOLEAN
  BY <1>3
<1>. QED BY <1>1, <1>2, <1>3, <1>4, <1>5, PutControl

LEMMA ConflictControl ==
  ASSUME ControlInv, NEW i \in Pollers, Conflict(i)
  PROVE  CtlTypes' /\ Control' /\ Quieter
<1>1. i = cur /\ up /\ ~Free(i) /\ ~poller[i].cancelled
  BY AskerIsCurrent DEF Conflict, Free
<1>2. PICK p \in PollerState :
        /\ Put(i, p) /\ p.st = poller[i].st /\ p.offset = poller[i].offset
        /\ p.next = poller[i].next /\ p.cancelled = poller[i].cancelled /\ p.conflict = TRUE
  BY ConflictPuts DEF ControlInv, Conflict
<1>3. UNCHANGED <<up, live, owing, managed, key, cur, lock, want>> /\ warn' = TRUE
  BY DEF Conflict, pollSame, ctlVars
<1>4. CtlTypes' /\ Control'
  BY <1>1, <1>2, <1>3, PutControl
<1>5. Quieter
  BY <1>2, PutIs DEF ControlInv, Quieter
<1>. QED BY <1>4, <1>5

LEMMA ExitControl ==
  ASSUME ControlInv, NEW i \in Pollers, Exit(i)
  PROVE  CtlTypes' /\ Control' /\ Quieter
<1>1. up /\ Put(i, NoPoller)
      /\ UNCHANGED <<up, live, owing, managed, key, cur, lock, want>>
      /\ warn' = (warn /\ ~poller[i].conflict)
  BY DEF Exit, Put, Cleared, pollSame, ctlVars
<1>2. warn' \in BOOLEAN /\ (~warn' \/ warn) /\ (i = cur => ~warn')
  BY <1>1 DEF ControlInv, Control, WarningIsCurrent
<1>3. CtlTypes' /\ Control'
  BY <1>1, <1>2, FreshPoller, PutControl
<1>4. Quieter
  BY <1>1, FreshPoller, PutIs DEF ControlInv, Quieter
<1>. QED BY <1>3, <1>4

LEMMA HandleControl ==
  ASSUME ControlInv, NEW i \in Pollers, Handle(i)
  PROVE  CtlTypes' /\ Control'
<1>1. up /\ Busy(i) /\ UNCHANGED <<up, live, owing, managed, key, cur, lock, want, warn>>
  BY DEF Handle, ctlVars
<1>2. PICK p \in PollerState :
        /\ Put(i, p) /\ p.st = poller[i].st
        /\ p.cancelled = poller[i].cancelled /\ p.conflict = poller[i].conflict
  BY <1>1, HandlePuts DEF ControlInv, Handle
<1>3. warn \in BOOLEAN /\ (i = cur => ~warn \/ p.conflict)
  BY <1>2 DEF ControlInv, Types, CtlTypes, Control, WarningIsCurrent
<1>. QED BY <1>1, <1>2, <1>3, PutControl DEF Free

LEMMA SameControl ==
  ASSUME ControlInv, UNCHANGED <<up, ctlVars, poller, warn>>
  PROVE  CtlTypes' /\ Control' /\ Quieter
<1>1. UNCHANGED <<up, live, owing, managed, key, cur, lock, want, poller, warn>>
  BY DEF ctlVars
<1>2. CtlTypes'
  BY <1>1 DEF ControlInv, Types, CtlTypes
<1>3. Control'
  BY <1>1 DEF ControlInv, Control, Idle, OnePolls, Free, WarningIsCurrent
<1>. QED BY <1>1, <1>2, <1>3, QuietSame

----------------------------------------------------------------------------
(* What is handled, and when.                                              *)
LEMMA InitActs == Init => ActsInv
<1> SUFFICES ASSUME Init PROVE ActsInv
  OBVIOUS
<1>1. \A i \in Pollers : poller[i] = NoPoller
  BY DEF Init
<1>2. Pending /\ Disjoint /\ Beyond
  BY <1>1, FreshPoller DEF Init, Pending, Disjoint, Beyond, Busy, Past, Ids
<1>3. Sent /\ ActsOnceInTime
  BY DEF Init, Sent, Past, ActsOnceInTime, HandledOnce, InTime
<1>. QED BY <1>2, <1>3 DEF ActsInv

LEMMA PollerNumbers ==
  ASSUME Types, NEW i \in Pollers
  PROVE  /\ poller[i].offset \in 0..MaxUpdates + 1 /\ poller[i].next \in 0..MaxUpdates + 1
         /\ MaxUpdates \in Nat /\ sent \in 0..MaxUpdates /\ forgot \in 0..MaxUpdates
  BY BotAssumption DEF Types, CtlTypes, TgTypes, PollerState

LEMMA QuietActs ==
  ASSUME ControlInv, ActsInv, CtlTypes', Quieter, UNCHANGED <<sent, verb, handled, down, late>>,
         forgot' \in Nat, forgot <= forgot', forgot' <= sent
  PROVE  TgTypes' /\ ActsInv'
<1> USE DEF ControlInv, ActsInv
<1>0. PICK f \in Nat : f = forgot'
  OBVIOUS
<1>1. TgTypes'
  BY <1>0, PollersAre, PollerNumbers DEF TgTypes, Types
<1>2. Types /\ Types'
  BY <1>1 DEF Types
<1>3. ActsOnceInTime'
  BY DEF ActsOnceInTime, HandledOnce, InTime, Stale
<1>4. Sent'
  BY <1>0 DEF Sent, Past
<1>5. Pending'
  BY <1>2, PollerNumbers DEF Pending, Quieter, Past, Ids
<1>6. Disjoint'
  BY <1>2, PollerNumbers DEF Disjoint, Quieter, Busy
<1>7. Beyond'
  <2> SUFFICES ASSUME NEW i \in Pollers, poller'[i].st = "poll", ~poller'[i].cancelled
               PROVE  /\ \A u \in Ids : Past(u)' => Before(u, i)'
                      /\ \A j \in Pollers \ {i}, u \in Ids : u < poller'[j].offset => Before(u, i)'
    BY DEF Beyond
  <2>1. /\ poller[i].st = "poll" /\ ~poller[i].cancelled
        /\ poller'[i].offset = poller[i].offset /\ poller'[i].next = poller[i].next
    BY DEF Quieter
  <2>2. ASSUME NEW u \in Ids, Before(u, i) PROVE Before(u, i)'
    BY <1>0, <2>1, <2>2, <1>2, PollerNumbers DEF Before, Busy, Ids
  <2>3. ASSUME NEW u \in Ids, Past(u)' PROVE Before(u, i)'
    BY <2>1, <2>2, <2>3 DEF Beyond, Past
  <2>4. ASSUME NEW j \in Pollers \ {i}, NEW u \in Ids, u < poller'[j].offset PROVE Before(u, i)'
    <3>1. u < poller[j].offset
      BY <2>4, <1>2, PollerNumbers DEF Quieter, Ids
    <3>. QED BY <2>1, <2>2, <3>1 DEF Beyond
  <2>. QED BY <2>3, <2>4
<1>. QED BY <1>1, <1>3, <1>4, <1>5, <1>6, <1>7

LEMMA FailsActs ==
  ASSUME ControlInv, ActsInv, NEW i \in Pollers, Fails(i)
  PROVE  ControlInv' /\ ActsInv'
<1>1. CtlTypes' /\ Control' /\ Quieter /\ UNCHANGED <<sent, verb, handled, down, late>>
  BY SameControl DEF Fails, pollSame, histVars
<1>2. poller[i].offset <= sent + 1 /\ forgot <= sent
  BY DEF ActsInv, Pending, Sent
<1>3. forgot' \in Nat /\ forgot <= forgot' /\ forgot' <= sent
  <2>1. PICK n \in {forgot, Later(forgot, sent - 1), Later(forgot, poller[i].offset - 1)} : forgot' = n
    BY DEF Fails
  <2>2. n \in Nat /\ forgot <= n /\ n <= sent
    BY <1>2, PollerNumbers DEF ControlInv, Later
  <2>. QED BY <2>1, <2>2
<1>. QED BY <1>1, <1>3, QuietActs DEF ControlInv, Types

(* Only the current poller may ask, so Beyond speaks of that one alone.    *)
LEMMA OthersSilent ==
  ASSUME ControlInv, NEW i \in Pollers, i = cur, NEW j \in Pollers, j # i
  PROVE  Free(j) \/ poller[j].cancelled
  BY DEF ControlInv, Control, OnePolls

(* The drain: whatever there is, sent while the service was down or in the *)
(* batch of an abandoned poller, is behind the new one.                    *)
LEMMA DrainActs ==
  ASSUME ControlInv, ActsInv, NEW i \in Pollers, Drain(i)
  PROVE  TgTypes' /\ ActsInv'
<1> USE DEF ControlInv, ActsInv
<1>1. i = cur /\ poller[i].st = "drain"
  BY AskerIsCurrent DEF Drain
<1>2. PICK p \in PollerState :
        /\ Put(i, p) /\ p.st = "poll" /\ p.cancelled = FALSE /\ p.conflict = FALSE
        /\ p.offset = (IF sent > forgot THEN sent + 1 ELSE 0) /\ p.next = p.offset
  BY DrainPuts
<1>3. poller'[i] = p /\ \A j \in Pollers : j # i => poller'[j] = poller[j]
  BY <1>2, PutIs
<1>4. UNCHANGED <<sent, verb, handled, down, late>> /\ forgot' = Later(forgot, sent - 1)
  BY DEF Drain, pollSame, histVars
<1>5. PICK f \in 0..MaxUpdates : f = forgot' /\ forgot <= f /\ f <= sent
  BY <1>4, PollerNumbers DEF Later, Sent
<1>6. TgTypes'
  BY <1>4, <1>5 DEF TgTypes, Types
<1>7. ActsOnceInTime'
  BY <1>4 DEF ActsOnceInTime, HandledOnce, InTime, Stale
<1>8. Sent'
  BY <1>4, <1>5 DEF Sent, Past
<1>9. Pending'
  BY <1>2, <1>3, <1>4, PollerNumbers DEF Pending, Past, Ids
<1>10. Disjoint'
  BY <1>2, <1>3, PollerNumbers DEF Disjoint, Busy
<1>11. \A u \in Ids : u <= sent => Before(u, i)'
  BY <1>2, <1>3, <1>5, PollerNumbers DEF Before, Busy, Ids
<1>12. Beyond'
  <2>1. \A j \in Pollers : j # i => ~(poller'[j].st = "poll" /\ ~poller'[j].cancelled)
    BY <1>1, <1>3, OthersSilent DEF Free
  <2>2. \A u \in Ids : Past(u)' => Before(u, i)'
    BY <1>4, <1>11 DEF Sent, Past
  <2>3. \A j \in Pollers \ {i}, u \in Ids : u < poller'[j].offset => Before(u, i)'
    BY <1>3, <1>11, PollerNumbers DEF Pending, Ids
  <2>. QED BY <2>1, <2>2, <2>3 DEF Beyond
<1>. QED BY <1>6, <1>7, <1>8, <1>9, <1>10, <1>12

(* The batch of a poll begins after all that is behind the poller.         *)
LEMMA FetchActs ==
  ASSUME ControlInv, ActsInv, NEW i \in Pollers, Fetch(i)
  PROVE  TgTypes' /\ ActsInv'
<1> USE DEF ControlInv, ActsInv
<1>1. i = cur /\ poller[i].st = "poll" /\ ~poller[i].cancelled /\ ~Busy(i)
  BY AskerIsCurrent DEF Fetch
<1>2. PICK p \in PollerState :
        /\ Put(i, p) /\ p.st = "poll" /\ p.cancelled = FALSE /\ p.conflict = FALSE
        /\ forgot' = Later(forgot, poller[i].offset - 1)
        /\ IF sent > forgot' THEN p.offset = sent + 1 /\ p.next = forgot' + 1
                             ELSE p.offset = poller[i].offset /\ p.next = poller[i].next
  BY FetchPuts
<1>3. poller'[i] = p /\ \A j \in Pollers : j # i => poller'[j] = poller[j]
  BY <1>2, PutIs
<1>4. UNCHANGED <<sent, verb, handled, down, late>>
  BY DEF Fetch, pollSame, histVars
<1>5. PICK f \in 0..MaxUpdates : f = forgot' /\ forgot <= f /\ f <= sent /\ poller[i].offset - 1 <= f
  BY <1>2, PollerNumbers DEF Later, Sent, Pending
<1>6. TgTypes'
  BY <1>4, <1>5 DEF TgTypes, Types
<1>7. ActsOnceInTime'
  BY <1>4 DEF ActsOnceInTime, HandledOnce, InTime, Stale
<1>8. Sent'
  BY <1>4, <1>5 DEF Sent, Past
<1>9. \A u \in Ids : Before(u, i) => u <= f
  BY <1>1, <1>5, PollerNumbers DEF Before, Ids
<1>10. \A u \in Ids : Past(u) => u <= f
  BY <1>1, <1>9 DEF Beyond
<1>11. \A j \in Pollers \ {i}, u \in Ids : u < poller[j].offset => u <= f
  BY <1>1, <1>9 DEF Beyond
<1>12. /\ p.offset \in 0..MaxUpdates + 1 /\ p.next \in 0..MaxUpdates + 1
       /\ (p.offset = sent + 1 /\ p.next = f + 1 /\ sent > f)
            \/ (p.offset = poller[i].offset /\ p.next = p.offset)
  <2>1. poller[i].next = poller[i].offset
    BY <1>1, PollerNumbers DEF Busy, Pending
  <2>. QED BY <1>2, <1>5, <2>1 DEF PollerState
<1>13. Pending'
  <2>1. p.next <= p.offset /\ p.offset <= sent + 1 /\ (p.next = 0 => p.offset = 0)
    BY <1>5, <1>12, PollerNumbers DEF Pending
  <2>2. \A u \in Ids : p.next <= u /\ u < p.offset => ~Past(u)
    BY <1>5, <1>10, <1>12 DEF Ids
  <2>. QED BY <1>2, <1>3, <1>4, <2>1, <2>2 DEF Pending, Past
<1>14. Disjoint'
  <2> SUFFICES ASSUME NEW j \in Pollers, j # i, p.next < p.offset,
                      poller[j].next < poller[j].offset
               PROVE  poller[j].offset <= p.next
    BY <1>3, PollerNumbers DEF Disjoint, Busy
  <2>1. poller[j].offset \in 0..MaxUpdates + 1 /\ poller[j].next \in 0..MaxUpdates + 1
    BY PollerNumbers
  <2>2. p.next = f + 1
    BY <1>12
  <2>3. poller[j].offset <= sent + 1
    BY DEF Pending
  <2>4. CASE poller[j].offset - 1 \in Ids
    BY <1>5, <1>11, <2>1, <2>2, <2>4
  <2>5. CASE poller[j].offset - 1 \notin Ids
    BY <1>5, <2>1, <2>2, <2>3, <2>5, PollerNumbers DEF Ids
  <2>. QED BY <2>4, <2>5
<1>15. \A u \in Ids : u <= f => Before(u, i)'
  BY <1>3, <1>5, <1>12 DEF Before, Busy, Ids
<1>16. Beyond'
  <2>1. \A j \in Pollers : j # i => ~(poller'[j].st = "poll" /\ ~poller'[j].cancelled)
    BY <1>1, <1>3, OthersSilent DEF Free
  <2>2. \A u \in Ids : Past(u)' => Before(u, i)'
    BY <1>4, <1>10, <1>15 DEF Past
  <2>3. \A j \in Pollers \ {i}, u \in Ids : u < poller'[j].offset => Before(u, i)'
    BY <1>3, <1>11, <1>15
  <2>. QED BY <2>1, <2>2, <2>3 DEF Beyond
<1>. QED BY <1>6, <1>7, <1>8, <1>13, <1>14, <1>16

(* The next of a batch: nobody handled it, and nobody else will.           *)
LEMMA HandleActs ==
  ASSUME ControlInv, ActsInv, NEW i \in Pollers, Handle(i)
  PROVE  TgTypes' /\ ActsInv'
<1> USE DEF ControlInv, ActsInv
<1>0. poller[i].next < poller[i].offset
  BY DEF Handle, Busy
<1>4. PICK u \in Ids : u = poller[i].next /\ u <= sent
  BY <1>0, PollerNumbers DEF Pending, Ids
<1>1. u < poller[i].offset /\ UNCHANGED <<sent, forgot, verb, down, late>>
  BY <1>0, <1>4 DEF Handle, tgVars
<1>2. PICK p \in PollerState :
        /\ Put(i, p) /\ p.st = poller[i].st /\ p.offset = poller[i].offset
        /\ p.next = u + 1
        /\ p.cancelled = poller[i].cancelled /\ p.conflict = poller[i].conflict
  BY <1>4, HandlePuts DEF Handle
<1>3. poller'[i] = p /\ \A j \in Pollers : j # i => poller'[j] = poller[j]
  BY <1>2, PutIs
<1>5. ~Past(u)
  BY <1>1, <1>4 DEF Pending, Ids
<1>6. PICK how \in {"answered", "acted"} :
        /\ handled' = [handled EXCEPT ![u] = how]
        /\ how = "acted" => ~Stale(u)
  <2>1. handled[u] = "no"
    BY <1>5 DEF Past
  <2>2. PICK how \in {"answered", "acted"} : Handled(u, how) /\ (how = "acted" => ~Stale(u))
    BY <1>4 DEF Handle, Acts
  <2>3. handled' = [handled EXCEPT ![u] = how]
    BY <2>1, <2>2 DEF Handled
  <2>. QED BY <2>2, <2>3
<1>7. /\ handled' \in [Ids -> {"no", "answered", "acted", "again"}]
      /\ handled'[u] = how /\ \A w \in Ids : w # u => handled'[w] = handled[w]
  BY <1>4, <1>6 DEF Types, TgTypes
<1>8. \A w \in Ids : Past(w)' => Past(w) \/ w = u
  BY <1>1, <1>7 DEF Past
<1>9. TgTypes'
  BY <1>1, <1>7 DEF TgTypes, Types
<1>10. ActsOnceInTime'
  <2>1. \A w \in Ids : Stale(w)' = Stale(w)
    BY <1>1 DEF Stale
  <2>2. HandledOnce'
    BY <1>6, <1>7 DEF ActsOnceInTime, HandledOnce
  <2>3. u \notin down
    BY <1>5 DEF Past
  <2>4. InTime'
    BY <1>1, <1>6, <1>7, <2>1, <2>3 DEF ActsOnceInTime, InTime
  <2>. QED BY <2>2, <2>4 DEF ActsOnceInTime
<1>11. Sent'
  BY <1>1, <1>4, <1>8 DEF Sent
<1>12. \A k \in Pollers, w \in Ids : Before(w, k) => Before(w, k)'
  <2>1. \A k \in Pollers \ {i}, w \in Ids : Before(w, k) => Before(w, k)'
    BY <1>1, <1>3 DEF Before, Busy
  <2>2. \A w \in Ids : Before(w, i) => Before(w, i)'
    BY <1>1, <1>2, <1>3, <1>4, PollerNumbers DEF Before, Busy, Ids
  <2>. QED BY <2>1, <2>2
<1>13. Before(u, i)'
  BY <1>1, <1>2, <1>3, <1>4, PollerNumbers DEF Before, Busy, Ids
<1>14. Pending'
  <2> SUFFICES ASSUME NEW k \in Pollers
               PROVE  /\ poller'[k].next <= poller'[k].offset /\ poller'[k].offset <= sent + 1
                      /\ poller'[k].st # "poll" => poller'[k].offset = 0
                      /\ poller'[k].next = 0 => poller'[k].offset = 0
                      /\ \A w \in Ids : poller'[k].next <= w /\ w < poller'[k].offset => ~Past(w)'
    BY <1>1 DEF Pending
  <2>1. CASE k = i
    <3>1. \A w \in Ids : u + 1 <= w /\ w < poller[i].offset => ~Past(w) /\ w # u
      BY <1>4 DEF Pending, Ids
    <3>2. u + 1 <= poller[i].offset /\ u + 1 # 0
      BY <1>1, <1>4, PollerNumbers DEF Ids
    <3>. QED BY <1>2, <1>3, <1>8, <2>1, <3>1, <3>2 DEF Pending
  <2>2. CASE k # i
    <3>1. poller'[k] = poller[k]
      BY <1>3, <2>2
    <3>2. \A w \in Ids : poller[k].next <= w /\ w < poller[k].offset => ~Past(w) /\ w # u
      BY <1>1, <1>4, <2>2, PollerNumbers DEF Pending, Disjoint, Busy, Ids
    <3>. QED BY <1>8, <3>1, <3>2 DEF Pending
  <2>. QED BY <2>1, <2>2
<1>15. Disjoint'
  <2> SUFFICES ASSUME NEW j \in Pollers, j # i, u + 1 < poller[i].offset,
                      poller[j].next < poller[j].offset
               PROVE  poller[j].offset <= u + 1 \/ poller[i].offset <= poller[j].next
    <3>1. \A j \in Pollers : poller[j].offset \in Nat /\ poller[j].next \in Nat
      BY PollerNumbers
    <3>. QED BY <1>2, <1>3, <3>1, PollersAre DEF Disjoint, Busy
  <2>. QED BY <1>1, <1>4, PollerNumbers DEF Disjoint, Busy, Ids
<1>16. Beyond'
  <2> SUFFICES ASSUME NEW k \in Pollers, poller'[k].st = "poll", ~poller'[k].cancelled
               PROVE  /\ \A w \in Ids : Past(w)' => Before(w, k)'
                      /\ \A j \in Pollers \ {k}, w \in Ids : w < poller'[j].offset => Before(w, k)'
    BY DEF Beyond
  <2>1. poller[k].st = "poll" /\ ~poller[k].cancelled
    BY <1>2, <1>3
  <2>2. Before(u, k)'
    <3>1. CASE k = i
      BY <1>13, <3>1
    <3>2. CASE k # i
      BY <1>1, <1>4, <1>12, <2>1, <3>2 DEF Beyond
    <3>. QED BY <3>1, <3>2
  <2>3. \A j \in Pollers : poller'[j].offset = poller[j].offset
    BY <1>2, <1>3
  <2>4. \A w \in Ids : Past(w)' => Before(w, k)'
    BY <1>8, <1>12, <2>1, <2>2 DEF Beyond
  <2>5. \A j \in Pollers \ {k}, w \in Ids : w < poller'[j].offset => Before(w, k)'
    BY <1>12, <2>1, <2>3 DEF Beyond
  <2>. QED BY <2>4, <2>5
<1>. QED BY <1>9, <1>10, <1>11, <1>14, <1>15, <1>16

(* A user's update; one sent while the service is down finds no poller.    *)
LEMMA SendActs ==
  ASSUME ControlInv, ActsInv, NEW v \in Verbs, Send(v)
  PROVE  ControlInv' /\ ActsInv'
<1> USE DEF ControlInv, ActsInv
<1>1. /\ sent < MaxUpdates /\ sent' = sent + 1 /\ verb' = [verb EXCEPT ![sent + 1] = v]
      /\ down' = (IF up THEN down ELSE down \cup {sent + 1})
      /\ UNCHANGED <<forgot, handled, late, poller>>
  BY DEF Send
<1>2. CtlTypes' /\ Control'
  BY SameControl DEF Send
<1>3. PICK n \in Ids : n = sent + 1 /\ sent' = n
  BY <1>1, BotAssumption DEF Types, TgTypes, Ids
<1>4. v \in Messages \cup Buttons
  BY BotAssumption
<1>5. TgTypes'
  BY <1>1, <1>3, <1>4, BotAssumption DEF Types, TgTypes, Ids
<1>6. ~Past(n) /\ \A u \in Ids : Past(u)' => Past(u) \/ (u = n /\ ~up)
  BY <1>1, <1>3, BotAssumption DEF Sent, Past, Types, TgTypes
<1>7. Sent'
  BY <1>1, <1>3, <1>6, BotAssumption DEF Sent, Types, TgTypes
<1>8. ActsOnceInTime'
  <2>1. handled[n] = "no" /\ \A u \in Ids : u # n => verb'[u] = verb[u]
    BY <1>1, <1>3, <1>6 DEF Past, Types, TgTypes
  <2>2. \A u \in Ids : u # n => (u \in down' <=> u \in down)
    BY <1>1, <1>3
  <2>. QED BY <1>1, <2>1, <2>2 DEF ActsOnceInTime, HandledOnce, InTime, Stale
<1>9. CASE up
  <2>1. Pending'
    BY <1>1, <1>3, <1>6, <1>9, PollerNumbers DEF Pending
  <2>2. Disjoint'
    BY <1>1 DEF Disjoint, Busy
  <2>3. Beyond'
    BY <1>1, <1>6, <1>9 DEF Beyond, Before, Busy
  <2>. QED BY <1>2, <1>5, <1>7, <1>8, <2>1, <2>2, <2>3 DEF Types
<1>10. CASE ~up
  <2>1. \A i \in Pollers : poller'[i] = NoPoller
    BY <1>1, <1>10 DEF Control, Idle
  <2>2. Pending' /\ Disjoint' /\ Beyond'
    BY <1>3, <2>1, FreshPoller DEF Pending, Disjoint, Beyond, Busy, Ids
  <2>. QED BY <1>2, <1>5, <1>7, <1>8, <2>2 DEF Types
<1>. QED BY <1>9, <1>10

LEMMA WakeActs ==
  ASSUME ControlInv, ActsInv, Wake
  PROVE  ControlInv' /\ ActsInv'
<1> USE DEF ControlInv, ActsInv
<1>1. /\ late' = late \cup {u \in 1..sent : handled[u] = "no"}
      /\ UNCHANGED <<sent, forgot, verb, handled, down, poller>>
  BY DEF Wake, tgVars
<1>2. CtlTypes' /\ Control'
  BY SameControl DEF Wake
<1>3. TgTypes'
  <2>1. 1..sent \subseteq Ids
    BY BotAssumption DEF Types, TgTypes, Ids
  <2>. QED BY <1>1, <2>1 DEF Types, TgTypes
<1>4. ActsOnceInTime'
  BY <1>1 DEF ActsOnceInTime, HandledOnce, InTime, Stale
<1>5. Sent' /\ Pending' /\ Disjoint' /\ Beyond'
  BY <1>1 DEF Sent, Pending, Disjoint, Beyond, Before, Busy, Past
<1>. QED BY <1>2, <1>3, <1>4, <1>5 DEF Types

LEMMA OtherPollsActs ==
  ASSUME ControlInv, ActsInv, OtherPolls
  PROVE  ControlInv' /\ ActsInv'
<1>1. CtlTypes' /\ Control' /\ Quieter /\ UNCHANGED <<sent, verb, handled, down, late>>
  BY SameControl DEF OtherPolls, histVars
<1>2. forgot' \in Nat /\ forgot <= forgot' /\ forgot' <= sent
  BY DEF OtherPolls, ControlInv, Types, TgTypes, ActsInv, Sent
<1>. QED BY <1>1, <1>2, QuietActs DEF ControlInv, Types

----------------------------------------------------------------------------
LEMMA StepBot ==
  ControlInv /\ ActsInv /\ [Next]_vars => (ControlInv /\ ActsInv)'
<1> SUFFICES ASSUME ControlInv, ActsInv, [Next]_vars
             PROVE  (ControlInv /\ ActsInv)'
  OBVIOUS
<1>0. forgot \in Nat /\ forgot <= forgot /\ forgot <= sent
  BY BotAssumption DEF ControlInv, Types, TgTypes, ActsInv, Sent
<1>1. ASSUME NEW v \in Verbs, Send(v) PROVE (ControlInv /\ ActsInv)'
  BY <1>1, SendActs
<1>2. CASE OtherPolls \/ Wake
  BY <1>2, OtherPollsActs, WakeActs
<1>3. CASE \/ \E k \in Keys \cup {Off} : Save(k)
           \/ ControlStep \/ ServiceStart \/ ServiceStop \/ ServiceCrash
  <2>1. UNCHANGED <<sent, verb, handled, down, late, forgot>>
    BY <1>3 DEF Save, ControlStep, Reconcile, Reconciled, ServiceStopped, ServiceStart,
       ServiceStop, ServiceCrash, tgVars, histVars
  <2>2. ControlInv' /\ Quieter
    BY <1>3, SaveControl, ReconcileControl, ReconciledControl, StartControl, StopControl,
       GoneControl DEF ControlStep
  <2>3. ActsInv'
    BY <1>0, <2>1, <2>2, QuietActs DEF ControlInv, Types
  <2>. QED BY <2>2, <2>3
<1>4. ASSUME NEW i \in Pollers, PollerStep(i) \/ Fails(i) \/ Conflict(i)
      PROVE  (ControlInv /\ ActsInv)'
  <2>1. CASE Drain(i)
    BY <2>1, DrainControl, DrainActs DEF ControlInv, Types
  <2>2. CASE Fetch(i)
    BY <2>2, FetchControl, FetchActs DEF ControlInv, Types
  <2>3. CASE Handle(i)
    BY <2>3, HandleControl, HandleActs DEF ControlInv, Types
  <2>4. CASE Exit(i) \/ Conflict(i)
    <3>1. CtlTypes' /\ Control' /\ Quieter
      BY <2>4, ExitControl, ConflictControl
    <3>2. UNCHANGED <<sent, verb, handled, down, late, forgot>>
      BY <2>4 DEF Exit, Conflict, pollSame, histVars
    <3>. QED BY <1>0, <3>1, <3>2, QuietActs DEF ControlInv, Types
  <2>5. CASE Fails(i)
    BY <2>5, FailsActs
  <2>. QED BY <1>4, <2>1, <2>2, <2>3, <2>4, <2>5 DEF PollerStep
<1>5. CASE UNCHANGED vars
  <2>1. UNCHANGED <<sent, verb, handled, down, late, forgot, up, ctlVars, poller, warn>>
    BY <1>5 DEF vars, tgVars, histVars
  <2>2. CtlTypes' /\ Control' /\ Quieter
    BY <2>1, SameControl
  <2>. QED BY <1>0, <2>1, <2>2, QuietActs DEF ControlInv, Types
<1>. QED BY <1>1, <1>2, <1>3, <1>4, <1>5 DEF Next

(* The state of Telegram, the lifecycle and the pollers, for all parameters. *)
THEOREM TypeCorrect == Spec => []TypeOK
<1>1. Init => ControlInv /\ ActsInv
  BY InitControl, InitActs
<1>2. ControlInv => TypeOK
  BY DEF ControlInv, Types, TgTypes, CtlTypes, PollerState, TypeOK
<1>. QED BY <1>1, <1>2, StepBot, PTL DEF Spec

(* Once every save has had its Reconcile, whatever their order and however *)
(* long each waited for the poller it replaced, the poller is that of the  *)
(* live config (or there is none), it alone asks Telegram, and a conflict  *)
(* warning is its own.                                                     *)
THEOREM ControlFollows == Spec => []ControlMatches
<1>1. Init => ControlInv /\ ActsInv
  BY InitControl, InitActs
<1>2. ControlInv => ControlMatches
  BY DEF ControlInv, Control, ControlMatches, FollowsConfig
<1>. QED BY <1>1, <1>2, StepBot, PTL DEF Spec

(* However pollers are cancelled, abandoned with a batch in hand or killed, *)
(* no update is handled twice, and nothing typed while the service was     *)
(* down, nor a message that grew old, is executed.                         *)
THEOREM ActedOnceInTime == Spec => []ActsOnceInTime
<1>1. Init => ControlInv /\ ActsInv
  BY InitControl, InitActs
<1>2. ActsInv => ActsOnceInTime
  BY DEF ActsInv
<1>. QED BY <1>1, <1>2, StepBot, PTL DEF Spec
============================================================================
