---------------------------- MODULE StApiProofs -----------------------------
(***************************************************************************)
(* What holds of the SmartThings API of the service, and of the rows its   *)
(* driver shows, in four parts.                                            *)
(*                                                                         *)
(* Pushes: the deliveries to any number of hubs, with any queue and any    *)
(* number of events: InEmitOrder, LastChangeTold and RenewalCounts.  The   *)
(* inductive invariant has a part for each of them.  Order: the events of  *)
(* the worker and of the queue stand in the order they were emitted in,    *)
(* and no hub received one that is still to come.  Pending: whoever is     *)
(* owed the last change has a queued event or a post of it ahead.  Count:  *)
(* a subscription that failed no post of its own has at most as many       *)
(* failures as posts were under way when it was renewed.                   *)
(*                                                                         *)
(* Keep-awake, which a hub's command turns on and off: what holds of the   *)
(* controller for every set of periods, every number of them, and however  *)
(* late, early or often Windows and the timer's clock misbehave.           *)
(*                                                                         *)
(* Commands: driver and service agree on them, for every PC, any number of *)
(* preset slots, every version and every value of a row (FeatureCommands). *)
(*                                                                         *)
(* Rows: for any slots, programs and batch, whatever the network and the   *)
(* cloud lose, and after restarts, repaints and profile moves: NewestGoes- *)
(* Out and StopsAreReal.  The invariant CardInv says that the funnel holds *)
(* what was decided, that the driver remembers it where it remembers       *)
(* anything, and that no report claims a scan of a list that is off.       *)
(*                                                                         *)
(* The machines share no variable; each theorem is about one of them.      *)
(***************************************************************************)
EXTENDS StPush, FeatureCommands, Awake, HubCard, SequenceTheorems, TLAPS

SomePosts == UNION {[S -> Posts] : S \in SUBSET Ids}
Jobs == [job : Nat, body : Nat, over : BOOLEAN, posts : SomePosts]
Live == DOMAIN subs \ lapsed
Owe(d, i) == IF <<d, i>> \in stale THEN 1 ELSE 0

StoreTypes ==
  /\ nextID \in 0..MaxIds
  /\ subs \in [DOMAIN subs -> Subscription] /\ DOMAIN subs \subseteq 1..nextID
  /\ behind \subseteq 1..nextID

SendTypes ==
  /\ port \in [Hosts -> Ports] /\ last \in [Hosts -> Nat]
  /\ ver \in Nat /\ queue \in Seq(Nat)
  /\ sending \in [Senders -> Jobs]

Count ==
  \A i \in DOMAIN subs :
    i \in ownFail \/ subs[i].failures + Owe("worker", i) + Owe("stop", i) <= 2

Order ==
  /\ \A k, l \in DOMAIN queue : k <= l => queue[k] <= queue[l]
  /\ \A k \in DOMAIN queue : sending["worker"].job <= queue[k] /\ queue[k] <= ver
  /\ sending["worker"].job <= ver
  /\ \A h \in Hosts : last[h] <= ver /\ \A k \in DOMAIN queue : last[h] <= queue[k]
  /\ DOMAIN sending["worker"].posts # {} => \A h \in Hosts : last[h] <= sending["worker"].job

Ahead(i) == \/ queue # <<>>
            \/ \E d \in Senders : sending[d].body = ver /\ i \in DOMAIN sending[d].posts
Pending == \A i \in behind \cap Live : Ahead(i)

IInv == StoreTypes /\ SendTypes /\ Count /\ Order /\ Pending

LEMMA IdleIs == Idle \in Jobs /\ DOMAIN Idle.posts = {} /\ Idle.job = 0 /\ Idle.body = 0
  <1>1. <<>> \in [{} -> Posts] /\ {} \in SUBSET Ids
    BY DEF Posts
  <1> QED BY <1>1 DEF Idle, Jobs, SomePosts

LEMMA InitIInv == Init => IInv
  <1> SUFFICES ASSUME Init PROVE IInv
    OBVIOUS
  <1>1. DOMAIN subs = {} /\ subs \in [{} -> Subscription]
    BY DEF Init
  <1>2. port \in [Hosts -> Ports]
    BY PushAssumption DEF Init
  <1>3. StoreTypes /\ SendTypes
    BY <1>1, <1>2, IdleIs, PushAssumption DEF Init, StoreTypes, SendTypes
  <1>4. DOMAIN queue = {} /\ sending["worker"] = Idle
    BY DEF Init, Senders
  <1>5. Count /\ Order /\ Pending
    BY <1>1, <1>4, IdleIs DEF Init, Count, Order, Pending
  <1> QED BY <1>3, <1>5 DEF IInv

-----------------------------------------------------------------------------
(* The store.  Removing subscriptions touches no other one.                *)
LEMMA FewerSubs ==
  ASSUME StoreTypes, Count, NEW ids, subs' = Without(subs, ids),
         UNCHANGED <<nextID, marks>>, behind' \subseteq 1..nextID
  PROVE  StoreTypes' /\ Count' /\ DOMAIN subs' = DOMAIN subs \ ids
  <1>1. subs' = [i \in DOMAIN subs \ ids |-> subs[i]]
    BY DEF Without, Restrict
  <1>2. Count'
    BY <1>1 DEF Count, Owe, marks
  <1> QED BY <1>1, <1>2 DEF StoreTypes

LEMMA SweptIs ==
  ASSUME StoreTypes, Count, Swept, UNCHANGED marks, behind' \subseteq 1..nextID
  PROVE  StoreTypes' /\ Count' /\ DOMAIN subs' = Live /\ Live' = Live
  <1>1. subs' = Without(subs, lapsed)
    BY DEF Swept, Unexpired, Without
  <1>2. StoreTypes' /\ Count' /\ DOMAIN subs' = DOMAIN subs \ lapsed
    BY <1>1, FewerSubs DEF Swept
  <1> QED BY <1>2 DEF Swept, Live

LEMMA CreateIs ==
  ASSUME StoreTypes, Count, NEW c \in Callbacks, NEW replaced, Create(c, replaced),
         UNCHANGED behind
  PROVE  StoreTypes' /\ Count' /\ Live' \cap behind \subseteq Live
  <1> DEFINE gone == lapsed \cup replaced
             new  == [callback |-> c, failures |-> 0]
  <1>1. /\ nextID < MaxIds /\ nextID' = nextID + 1 /\ UNCHANGED marks
        /\ subs' = With(Without(subs, gone), nextID', new) /\ lapsed' = {}
    BY DEF Create
  <1>2. new \in Subscription /\ new.failures = 0
    BY PushAssumption DEF Subscription
  <1> HIDE DEF new, gone
  <1>3. DOMAIN Without(subs, gone) = DOMAIN subs \ gone
    BY DEF Without, Restrict
  <1>4. /\ DOMAIN subs' = {nextID + 1} \cup (DOMAIN subs \ gone)
        /\ subs' = [i \in {nextID + 1} \cup (DOMAIN subs \ gone) |->
                      IF i = nextID + 1 THEN new ELSE subs[i]]
    BY <1>1, <1>3 DEF With, Without, Restrict
  <1>5. StoreTypes'
    <2>1. subs' \in [DOMAIN subs' -> Subscription]
      BY <1>2, <1>4 DEF StoreTypes
    <2> QED BY <2>1, <1>1, <1>4, PushAssumption DEF StoreTypes
  <1>6. Count'
    <2>1. ASSUME NEW d \in Senders, NEW i PROVE Owe(d, i)' = Owe(d, i) /\ Owe(d, i) \in 0..1
      BY <1>1 DEF Owe, marks
    <2>2. SUFFICES ASSUME NEW i \in DOMAIN subs', i \notin ownFail'
                   PROVE  subs'[i].failures + Owe("worker", i)' + Owe("stop", i)' <= 2
      BY DEF Count
    <2>3. CASE i = nextID + 1
      <3>1. subs'[i].failures = 0
        BY <1>2, <1>4, <2>3
      <3> QED BY <2>1, <3>1 DEF Senders
    <2>4. CASE i # nextID + 1
      <3>1. i \in DOMAIN subs /\ subs'[i] = subs[i] /\ i \notin ownFail
        BY <1>1, <1>4, <2>2, <2>4 DEF marks
      <3> QED BY <2>1, <3>1 DEF Count, Senders
    <2> QED BY <2>3, <2>4
  <1>7. Live' \cap behind \subseteq Live
    BY <1>1, <1>4 DEF Live, StoreTypes, gone
  <1> QED BY <1>5, <1>6, <1>7

LEMMA RenewIs ==
  ASSUME StoreTypes, Count, NEW c, Renew(c, 0), UNCHANGED behind
  PROVE  StoreTypes' /\ Count' /\ Live' = Live
  <1> DEFINE id == byCall[c]
  <1>1. /\ subs' = [Unexpired EXCEPT ![id].failures = 0]
        /\ lapsed' = {} /\ nextID' = nextID /\ ownFail' = ownFail \ {id}
        /\ stale' = stale \cup {<<d, id>> : d \in {e \in Senders : id \in DOMAIN sending[e].posts}}
    BY DEF Renew
  <1> HIDE DEF id
  <1>2. /\ DOMAIN Unexpired = Live
        /\ \A i \in Live : Unexpired[i] = subs[i] /\ subs[i] \in Subscription
    BY DEF Unexpired, Restrict, Live, StoreTypes
  <1>3. /\ DOMAIN subs' = Live
        /\ \A i \in Live : subs'[i] \in Subscription
        /\ \A i \in Live \ {id} : subs'[i] = subs[i]
        /\ id \in Live => subs'[id].failures = 0
    BY <1>1, <1>2, PushAssumption DEF Subscription
  <1>4. subs' = [i \in DOMAIN subs' |-> subs'[i]]
    BY <1>1
  <1>5. StoreTypes'
    <2>1. subs' \in [DOMAIN subs' -> Subscription]
      BY <1>3, <1>4
    <2> QED BY <2>1, <1>1, <1>3 DEF StoreTypes, Live
  <1>6. Count'
    <2> SUFFICES ASSUME NEW i \in Live, i \notin ownFail'
                 PROVE  subs'[i].failures + Owe("worker", i)' + Owe("stop", i)' <= 2
      BY <1>3 DEF Count
    <2>1. CASE i = id
      BY <2>1, <1>3 DEF Owe
    <2>2. CASE i # id
      <3>1. Owe("worker", i)' = Owe("worker", i) /\ Owe("stop", i)' = Owe("stop", i)
        BY <2>2, <1>1 DEF Owe
      <3> QED BY <2>2, <3>1, <1>1, <1>3 DEF Count, Live
    <2> QED BY <2>1, <2>2
  <1> QED BY <1>1, <1>3, <1>5, <1>6 DEF Live

-----------------------------------------------------------------------------
(* The deliveries.  What only touches the store leaves them as they are.   *)
LEMMA NothingSent ==
  ASSUME SendTypes, Order, Pending, UNCHANGED <<ver, queue, sending, hubs>>,
         Live' \cap behind \subseteq Live, port' \in [Hosts -> Ports]
  PROVE  SendTypes' /\ Order' /\ Pending'
  <1>1. SendTypes' /\ Order'
    BY DEF SendTypes, Order, hubs
  <1>2. Pending'
    BY DEF Pending, Ahead, hubs
  <1> QED BY <1>1, <1>2

LEMMA StoreKeeps ==
  ASSUME IInv, \/ \E h \in Hosts : Subscribe(h) \/ DriverRestart(h)
               \/ \E id \in Ids : Unsubscribe(id) \/ Lapse(id)
               \/ Sweep
  PROVE  IInv'
  <1> USE DEF IInv
  <1>1. ASSUME NEW h \in Hosts, Subscribe(h) PROVE IInv'
    <2>1. Requested(h) \in Callbacks
      BY DEF Requested, Callbacks, SendTypes
    <2>2. Renew(Requested(h), 0) \/ Create(Requested(h), SameHost(Requested(h)))
      BY <1>1 DEF Subscribe
    <2>3. UNCHANGED <<port, ver, queue, sending, hubs>> /\ UNCHANGED behind
      BY <1>1 DEF Subscribe, NotStored, hubs
    <2>4. StoreTypes' /\ Count' /\ Live' \cap behind \subseteq Live
      BY <2>1, <2>2, <2>3, RenewIs, CreateIs
    <2> QED BY <2>3, <2>4, NothingSent DEF SendTypes
  <1>2. ASSUME NEW h \in Hosts, DriverRestart(h) PROVE IInv'
    <2>1. UNCHANGED <<store, ver, queue, sending, hubs, marks>> /\ port' \in [Hosts -> Ports]
      BY <1>2 DEF DriverRestart, SendTypes
    <2>2. StoreTypes' /\ Count' /\ Live' = Live
      BY <2>1 DEF StoreTypes, Count, Owe, Live, store, marks, hubs
    <2> QED BY <2>1, <2>2, NothingSent
  <1>3. ASSUME NEW id \in Ids, Unsubscribe(id) PROVE IInv'
    <2>1. /\ subs' = Without(subs, lapsed \cup {id}) /\ lapsed' = {}
          /\ UNCHANGED <<nextID, marks>> /\ UNCHANGED <<port, ver, queue, sending, hubs>>
          /\ UNCHANGED behind
      BY <1>3 DEF Unsubscribe, NotStored, hubs
    <2>2. StoreTypes' /\ Count' /\ DOMAIN subs' = DOMAIN subs \ (lapsed \cup {id})
      BY <2>1, FewerSubs DEF StoreTypes
    <2>3. Live' \cap behind \subseteq Live
      BY <2>1, <2>2 DEF Live
    <2> QED BY <2>1, <2>2, <2>3, NothingSent DEF SendTypes
  <1>4. ASSUME NEW id \in Ids, Lapse(id) PROVE IInv'
    <2>1. /\ UNCHANGED <<subs, nextID, marks>> /\ UNCHANGED <<port, ver, queue, sending, hubs>>
          /\ lapsed' = lapsed \cup {id} /\ UNCHANGED behind
      BY <1>4 DEF Lapse, NotStored, hubs
    <2>2. StoreTypes' /\ Count' /\ Live' \cap behind \subseteq Live
      BY <2>1 DEF StoreTypes, Count, Owe, Live, marks
    <2> QED BY <2>1, <2>2, NothingSent DEF SendTypes
  <1>5. ASSUME Sweep PROVE IInv'
    <2>1. /\ Swept /\ UNCHANGED marks /\ UNCHANGED <<port, ver, queue, sending, hubs>>
          /\ UNCHANGED behind
      BY <1>5 DEF Sweep, NotStored, hubs
    <2>2. StoreTypes' /\ Count' /\ Live' = Live
      BY <2>1, SweptIs DEF StoreTypes
    <2> QED BY <2>1, <2>2, NothingSent DEF SendTypes
  <1> QED BY <1>1, <1>2, <1>3, <1>4, <1>5

-----------------------------------------------------------------------------
(* A delivery posts to the subscriptions of its moment, or is over at once.*)
LEMMA DeliveryIs ==
  ASSUME StoreTypes, NEW job \in Nat, NEW body \in Nat
  PROVE  /\ Delivery(job, body) \in Jobs /\ Delivery(job, body).job = job
         /\ Delivery(job, body).body = body /\ DOMAIN Delivery(job, body).posts = Live
  <1>1. DOMAIN Unexpired = Live
    BY DEF Unexpired, Restrict, Live
  <1> DEFINE posts == [i \in DOMAIN Unexpired |-> [callback |-> subs[i].callback, tries |-> 0]]
  <1>2. DOMAIN posts = Live /\ Live \in SUBSET Ids
    BY <1>1, PushAssumption DEF StoreTypes, Live, Ids
  <1>3. posts \in [Live -> Posts]
    BY <1>1 DEF StoreTypes, Live, Posts, Subscription
  <1>4. posts \in SomePosts
    BY <1>2, <1>3 DEF SomePosts
  <1>5. Delivery(job, body) = [job |-> job, body |-> body, over |-> FALSE, posts |-> posts]
    BY DEF Delivery
  <1> HIDE DEF posts
  <1> QED BY <1>2, <1>4, <1>5 DEF Jobs

LEMMA StartsIs ==
  ASSUME SendTypes, StoreTypes, NEW d \in Senders, NEW job \in Nat, NEW body \in Nat,
         Starts(d, Delivery(job, body))
  PROVE  /\ sending' \in [Senders -> Jobs]
         /\ \A e \in Senders \ {d} : sending'[e] = sending[e]
         /\ DOMAIN sending'[d].posts = Live
         /\ Live # {} => sending'[d].job = job /\ sending'[d].body = body
         /\ sending'[d].job \in {0, job}
  <1> DEFINE new == IF DOMAIN Delivery(job, body).posts = {} THEN Idle ELSE Delivery(job, body)
  <1>1. sending' = [sending EXCEPT ![d] = new]
    BY DEF Starts
  <1>2. /\ new \in Jobs /\ DOMAIN new.posts = Live /\ new.job \in {0, job}
        /\ Live # {} => new.job = job /\ new.body = body
    BY DeliveryIs, IdleIs
  <1> HIDE DEF new
  <1> QED BY <1>1, <1>2 DEF SendTypes

LEMMA EmitKeeps == ASSUME IInv, Emit PROVE IInv'
  <1> USE DEF IInv
  <1>1. /\ ver' = ver + 1 /\ Swept /\ behind' = DOMAIN subs' /\ UNCHANGED <<last, marks>>
        /\ UNCHANGED <<port, sending>>
        /\ queue' = IF DOMAIN subs' = {} \/ Len(queue) = QueueCapacity THEN queue
                    ELSE Append(queue, ver')
    BY DEF Emit, Changed
  <1>2. behind' \subseteq 1..nextID
    BY <1>1 DEF Swept, Unexpired, Restrict, StoreTypes
  <1>3. StoreTypes' /\ Count' /\ behind' = Live' /\ DOMAIN subs' = Live'
    BY <1>1, <1>2, SweptIs
  <1>4. SendTypes'
    BY <1>1 DEF SendTypes
  <1>5. Order'
    <2>1. CASE queue' = queue
      BY <1>1, <2>1 DEF Order, SendTypes, Senders, Jobs
    <2>2. CASE queue' = Append(queue, ver + 1)
      <3>1. /\ DOMAIN queue' = DOMAIN queue \cup {Len(queue) + 1}
            /\ \A k \in DOMAIN queue : queue'[k] = queue[k] /\ k <= Len(queue) /\ k \in Nat
            /\ queue'[Len(queue) + 1] = ver + 1 /\ Len(queue) \in Nat
        BY <2>2 DEF SendTypes
      <3>2. \A k \in DOMAIN queue' : k = Len(queue) + 1 \/ k \in DOMAIN queue
        BY <3>1
      <3>3. \A k, l \in DOMAIN queue' : k <= l => queue'[k] <= queue'[l]
        <4> SUFFICES ASSUME NEW k \in DOMAIN queue', NEW l \in DOMAIN queue', k <= l
                     PROVE  queue'[k] <= queue'[l]
          OBVIOUS
        <4>1. CASE k \in DOMAIN queue /\ l \in DOMAIN queue
          BY <3>1, <4>1 DEF Order
        <4>2. CASE k \in DOMAIN queue /\ l = Len(queue) + 1
          BY <3>1, <4>2 DEF Order, SendTypes
        <4>3. CASE k = Len(queue) + 1
          <5>1. l = k
            BY <3>1, <3>2, <4>3
          <5> QED BY <5>1, <3>1, <4>3 DEF SendTypes
        <4> QED BY <3>2, <4>1, <4>2, <4>3
      <3>4. \A k \in DOMAIN queue' : sending["worker"].job <= queue'[k] /\ queue'[k] <= ver + 1
        BY <3>1, <3>2 DEF Order, SendTypes, Senders, Jobs
      <3>5. \A h \in Hosts : last[h] <= ver + 1 /\ \A k \in DOMAIN queue' : last[h] <= queue'[k]
        BY <3>1, <3>2 DEF Order, SendTypes
      <3>6. sending' = sending /\ ver' = ver + 1 /\ last' = last /\ sending["worker"].job <= ver + 1
        BY <1>1 DEF Order, SendTypes, Senders, Jobs
      <3>7. DOMAIN sending["worker"].posts # {} => \A h \in Hosts : last[h] <= sending["worker"].job
        BY DEF Order
      <3> HIDE DEF IInv
      <3> QED BY <3>3, <3>4, <3>5, <3>6, <3>7 DEF Order
    <2> QED BY <1>1, <2>1, <2>2
  <1>6. Pending'
    <2>1. ASSUME Live' # {} PROVE queue' # <<>>
      <3>1. queue \in Seq(Nat) /\ QueueCapacity > 0 /\ ver' \in Nat
        BY <1>1, PushAssumption DEF SendTypes
      <3>2. CASE Len(queue) = QueueCapacity
        BY <1>1, <3>1, <3>2
      <3>3. CASE queue' = Append(queue, ver')
        BY <3>1, <3>3, Len(queue') = Len(queue) + 1
      <3> QED BY <1>1, <1>3, <2>1, <3>2, <3>3
    <2>2. ASSUME NEW i \in behind' \cap Live' PROVE Ahead(i)'
      <3>1. queue' # <<>>
        BY <2>1
      <3> QED BY <3>1 DEF Ahead
    <2> HIDE DEF IInv
    <2> QED BY <2>2 DEF Pending
  <1> QED BY <1>3, <1>4, <1>5, <1>6

LEMMA EmitStoppingKeeps == ASSUME IInv, EmitStopping PROVE IInv'
  <1> USE DEF IInv
  <1>1. /\ ver' = ver + 1 /\ Swept /\ behind' = DOMAIN subs' /\ UNCHANGED <<last, marks>>
        /\ UNCHANGED <<port, queue>> /\ Starts("stop", Delivery(0, ver'))
    BY DEF EmitStopping, Changed
  <1>2. behind' \subseteq 1..nextID
    BY <1>1 DEF Swept, Unexpired, Restrict, StoreTypes
  <1>3. StoreTypes' /\ Count' /\ behind' = Live' /\ Live' = Live
    BY <1>1, <1>2, SweptIs
  <1>4. ver' \in Nat
    BY <1>1 DEF SendTypes
  <1>5. /\ sending' \in [Senders -> Jobs] /\ sending'["worker"] = sending["worker"]
        /\ DOMAIN sending'["stop"].posts = Live
        /\ Live # {} => sending'["stop"].body = ver'
    BY <1>1, <1>4, StartsIs DEF Senders
  <1>6. SendTypes'
    BY <1>1, <1>5 DEF SendTypes
  <1>7. Order'
    BY <1>1, <1>5 DEF Order, SendTypes, Senders, Jobs
  <1>8. Pending'
    BY <1>3, <1>5 DEF Pending, Ahead, Senders
  <1> QED BY <1>3, <1>6, <1>7, <1>8

LEMMA TakeKeeps == ASSUME IInv, Take PROVE IInv'
  <1> USE DEF IInv
  <1>1. /\ queue # <<>> /\ queue' = Tail(queue) /\ Swept
        /\ Starts("worker", Delivery(Head(queue), ver))
        /\ UNCHANGED <<port, ver, marks>> /\ UNCHANGED <<last, behind>>
    BY DEF Take, hubs
  <1>2. /\ Head(queue) \in Nat /\ Head(queue) = queue[1] /\ 1 \in DOMAIN queue
        /\ queue' \in Seq(Nat)
        /\ \A k \in DOMAIN queue' : k + 1 \in DOMAIN queue /\ queue'[k] = queue[k + 1] /\ 1 <= k + 1
        /\ DOMAIN queue' \subseteq Nat
    BY <1>1 DEF SendTypes
  <1>3. StoreTypes' /\ Count' /\ Live' = Live
    BY <1>1, SweptIs DEF StoreTypes
  <1>4. /\ sending' \in [Senders -> Jobs] /\ sending'["stop"] = sending["stop"]
        /\ DOMAIN sending'["worker"].posts = Live
        /\ Live # {} => sending'["worker"].body = ver /\ sending'["worker"].job = queue[1]
        /\ sending'["worker"].job \in {0, queue[1]}
    BY <1>1, <1>2, StartsIs DEF SendTypes, Senders
  <1>5. SendTypes'
    BY <1>1, <1>2, <1>4 DEF SendTypes
  <1>6. Order'
    <2>1. \A k, l \in DOMAIN queue' : k <= l => queue'[k] <= queue'[l]
      BY <1>2 DEF Order
    <2>2. \A k \in DOMAIN queue' : queue[1] <= queue'[k] /\ queue'[k] <= ver /\ queue'[k] \in Nat
      BY <1>2 DEF Order
    <2>3. queue[1] <= ver /\ \A h \in Hosts : last[h] <= ver /\ last[h] <= queue[1]
      BY <1>2 DEF Order
    <2>4. \A h \in Hosts, k \in DOMAIN queue' : last[h] <= queue'[k]
      BY <1>2 DEF Order
    <2>5. sending'["worker"].job <= ver /\ \A k \in DOMAIN queue' : sending'["worker"].job <= queue'[k]
      BY <1>4, <2>2, <2>3 DEF SendTypes
    <2>6. DOMAIN sending'["worker"].posts # {} => \A h \in Hosts : last[h] <= sending'["worker"].job
      BY <1>4, <2>3
    <2> QED BY <1>1, <2>1, <2>2, <2>3, <2>4, <2>5, <2>6 DEF Order
  <1>7. Pending'
    BY <1>1, <1>3, <1>4 DEF Pending, Ahead, Senders
  <1> QED BY <1>3, <1>5, <1>6, <1>7

-----------------------------------------------------------------------------
(* A post that ends, or is tried again.                                    *)
LEMMA PostIs ==
  ASSUME SendTypes, NEW d \in Senders, NEW id \in DOMAIN sending[d].posts
  PROVE  /\ sending[d] \in Jobs /\ sending[d].posts \in SomePosts
         /\ DOMAIN sending[d].posts \subseteq Ids
         /\ sending[d].posts \in [DOMAIN sending[d].posts -> Posts]
         /\ sending[d].posts[id] \in Posts
         /\ Host(sending[d].posts[id].callback) \in Hosts
  <1>1. sending[d] \in Jobs /\ sending[d].posts \in SomePosts
    BY DEF SendTypes, Jobs
  <1>2. PICK S \in SUBSET Ids : sending[d].posts \in [S -> Posts]
    BY <1>1 DEF SomePosts
  <1>3. sending[d].posts[id] \in Posts
    BY <1>2
  <1> QED BY <1>1, <1>2, <1>3 DEF Posts, Callbacks, Host

LEMMA WithPosts ==
  ASSUME NEW job \in Jobs, NEW posts \in SomePosts
  PROVE  LET new == [job EXCEPT !.posts = posts]
         IN /\ new \in Jobs /\ new.job = job.job /\ new.body = job.body
            /\ new.posts = posts
  BY DEF Jobs

(* What a post leaves of its delivery: less of it, or as much.             *)
Continues(d, ids) ==
  /\ sending' \in [Senders -> Jobs]
  /\ \A e \in Senders \ {d} : sending'[e] = sending[e]
  /\ DOMAIN sending'[d].posts = ids
  /\ sending'[d].job \in {0, sending[d].job}
  /\ ids # {} => sending'[d].job = sending[d].job /\ sending'[d].body = sending[d].body

LEMMA ClosedIs ==
  ASSUME SendTypes, NEW d \in Senders, NEW id \in DOMAIN sending[d].posts, Closed(d, id)
  PROVE  Continues(d, DOMAIN sending[d].posts \ {id})
  <1> DEFINE rest == Restrict(sending[d].posts, DOMAIN sending[d].posts \ {id})
             new  == IF DOMAIN rest = {} THEN Idle ELSE [sending[d] EXCEPT !.posts = rest]
  <1>1. rest \in [DOMAIN sending[d].posts \ {id} -> Posts]
    BY PostIs DEF Restrict
  <1>2. rest \in SomePosts /\ DOMAIN rest = DOMAIN sending[d].posts \ {id}
    <2>1. DOMAIN sending[d].posts \ {id} \in SUBSET Ids
      BY PostIs
    <2> QED BY <1>1, <2>1 DEF SomePosts
  <1>3. sending' = [sending EXCEPT ![d] = new]
    BY DEF Closed
  <1> HIDE DEF rest
  <1>4. /\ new \in Jobs /\ DOMAIN new.posts = DOMAIN sending[d].posts \ {id}
        /\ new.job \in {0, sending[d].job}
        /\ DOMAIN rest # {} => new.job = sending[d].job /\ new.body = sending[d].body
    BY <1>2, PostIs, WithPosts, IdleIs
  <1> HIDE DEF new
  <1> QED BY <1>2, <1>3, <1>4 DEF SendTypes, Continues

LEMMA RetriesIs ==
  ASSUME SendTypes, NEW d \in Senders, NEW id \in DOMAIN sending[d].posts, Retries(d, id)
  PROVE  Continues(d, DOMAIN sending[d].posts)
  <1> DEFINE posts == [sending[d].posts EXCEPT ![id] = [@ EXCEPT !.tries = 1]]
             new   == [sending[d] EXCEPT !.posts = posts]
  <1>1. posts \in [DOMAIN sending[d].posts -> Posts]
    BY PostIs DEF Posts
  <1>2. posts \in SomePosts /\ DOMAIN posts = DOMAIN sending[d].posts
    BY <1>1, PostIs DEF SomePosts
  <1>3. sending' = [sending EXCEPT ![d] = new]
    BY DEF Retries
  <1> HIDE DEF posts
  <1>4. /\ new \in Jobs /\ DOMAIN new.posts = DOMAIN sending[d].posts
        /\ new.job = sending[d].job /\ new.body = sending[d].body
    BY <1>2, PostIs, WithPosts
  <1> HIDE DEF new
  <1> QED BY <1>3, <1>4 DEF SendTypes, Continues

(* A hub receives an event no older than what it received before, and no   *)
(* newer than what is still queued.                                        *)
LEMMA PostOrder ==
  ASSUME SendTypes, Order, NEW d \in Senders, NEW id \in DOMAIN sending[d].posts,
         NEW ids, ids \subseteq DOMAIN sending[d].posts, Continues(d, ids),
         Received(d, id) \/ UNCHANGED last, UNCHANGED <<port, ver, queue>>
  PROVE  SendTypes' /\ Order' /\ \A h \in Hosts : last'[h] >= last[h]
  <1> DEFINE w == sending["worker"].job
  <1>1. w \in Nat /\ queue \in Seq(Nat) /\ ver \in Nat
    BY DEF SendTypes, Jobs, Senders
  <1>2. sending'["worker"].job \in {0, w}
    BY DEF Continues, Senders
  <1>3. DOMAIN sending'["worker"].posts # {} =>
          /\ sending'["worker"].job = w /\ DOMAIN sending["worker"].posts # {}
    BY DEF Continues, Senders
  <1>4. /\ last' \in [Hosts -> Nat]
        /\ \A h \in Hosts : last'[h] = last[h] \/ (d = "worker" /\ last'[h] = w)
    BY <1>1, PostIs DEF Received, SendTypes
  <1>5. d = "worker" => \A h \in Hosts : last[h] <= w
    BY DEF Order
  <1>6. \A h \in Hosts : last[h] \in Nat
    BY DEF SendTypes
  <1>7. \A h \in Hosts : last'[h] >= last[h]
    BY <1>1, <1>4, <1>5, <1>6
  <1>8. \A h \in Hosts : last'[h] <= ver /\ \A k \in DOMAIN queue : last'[h] <= queue[k]
    BY <1>4 DEF Order
  <1>9. DOMAIN sending'["worker"].posts # {} =>
          \A h \in Hosts : last'[h] <= sending'["worker"].job
    <2> SUFFICES ASSUME DOMAIN sending'["worker"].posts # {}, NEW h \in Hosts
                 PROVE  last'[h] <= w
      BY <1>3
    <2>1. last[h] <= w
      BY <1>3 DEF Order
    <2> QED BY <1>1, <1>4, <2>1
  <1>10. /\ sending'["worker"].job <= ver
         /\ \A k \in DOMAIN queue : sending'["worker"].job <= queue[k]
    BY <1>1, <1>2 DEF Order
  <1>11. SendTypes'
    BY <1>4 DEF SendTypes, Continues
  <1>12. Order'
    BY <1>8, <1>9, <1>10 DEF Order
  <1> QED BY <1>7, <1>11, <1>12

(* Whom a post leaves untold has another one ahead, or a queued event.     *)
LEMMA PostPending ==
  ASSUME Pending, NEW d \in Senders, NEW id \in DOMAIN sending[d].posts,
         Continues(d, DOMAIN sending[d].posts \ {id}), Told(d, id),
         Live' \subseteq Live, UNCHANGED <<ver, queue>>
  PROVE  Pending'
  <1> SUFFICES ASSUME NEW i \in behind' \cap Live', queue = <<>>
               PROVE  \E e \in Senders : sending'[e].body = ver /\ i \in DOMAIN sending'[e].posts
    BY DEF Pending, Ahead
  <1>1. i \in behind \cap Live /\ (sending[d].body = ver => i # id)
    BY DEF Told
  <1>2. PICK e \in Senders : sending[e].body = ver /\ i \in DOMAIN sending[e].posts
    BY <1>1 DEF Pending, Ahead
  <1>3. CASE e = d
    BY <1>1, <1>2, <1>3 DEF Continues
  <1>4. CASE e # d
    BY <1>2, <1>4 DEF Continues
  <1> QED BY <1>3, <1>4

LEMMA SamePending ==
  ASSUME Pending, NEW d \in Senders, Continues(d, DOMAIN sending[d].posts),
         Live' = Live, UNCHANGED <<ver, queue, behind>>
  PROVE  Pending'
  <1> SUFFICES ASSUME NEW i \in behind \cap Live, queue = <<>>
               PROVE  \E e \in Senders : sending'[e].body = ver /\ i \in DOMAIN sending'[e].posts
    BY DEF Pending, Ahead
  <1>1. PICK e \in Senders : sending[e].body = ver /\ i \in DOMAIN sending[e].posts
    BY DEF Pending, Ahead
  <1>2. CASE e = d
    BY <1>1, <1>2 DEF Continues
  <1>3. CASE e # d
    BY <1>1, <1>3 DEF Continues
  <1> QED BY <1>2, <1>3

-----------------------------------------------------------------------------
(* What a post's outcome does to the store.                                *)
LEMMA OweDrops ==
  ASSUME NEW d, NEW id, stale' = stale \ {<<d, id>>}
  PROVE  /\ \A e, i : Owe(e, i) \in 0..1 /\ Owe(e, i)' \in 0..1 /\ Owe(e, i)' <= Owe(e, i)
         /\ Owe(d, id)' = 0 /\ (<<d, id>> \in stale => Owe(d, id) = 1)
  BY DEF Owe

LEMMA SucceededKeeps ==
  ASSUME StoreTypes, Count, NEW d, NEW id, Succeeded(id), stale' = stale \ {<<d, id>>},
         UNCHANGED <<nextID, ownFail>>, behind' \subseteq behind
  PROVE  StoreTypes' /\ Count' /\ Live' = Live
  <1>1. /\ DOMAIN subs' = DOMAIN subs /\ subs' = [i \in DOMAIN subs |-> subs'[i]]
        /\ \A i \in DOMAIN subs : /\ subs'[i] \in Subscription
                                 /\ (subs'[i].failures = 0 \/ subs'[i] = subs[i])
    BY PushAssumption DEF Succeeded, StoreTypes, Subscription
  <1>2. Count'
    <2> SUFFICES ASSUME NEW i \in DOMAIN subs, i \notin ownFail
                 PROVE  subs'[i].failures + Owe("worker", i)' + Owe("stop", i)' <= 2
      BY <1>1 DEF Count
    <2>1. /\ subs[i].failures + Owe("worker", i) + Owe("stop", i) <= 2 /\ subs[i].failures \in Nat
      BY PushAssumption DEF Count, StoreTypes, Subscription
    <2>2. subs'[i].failures \in Nat /\ subs'[i].failures <= subs[i].failures
      BY <1>1, <2>1
    <2>3. /\ Owe("worker", i)' <= Owe("worker", i) /\ Owe("stop", i)' <= Owe("stop", i)
          /\ Owe("worker", i)' \in 0..1 /\ Owe("stop", i)' \in 0..1
          /\ Owe("worker", i) \in 0..1 /\ Owe("stop", i) \in 0..1
      BY OweDrops
    <2> QED BY <2>1, <2>2, <2>3
  <1> QED BY <1>1, <1>2 DEF StoreTypes, Succeeded, Live

LEMMA FailedKeeps ==
  ASSUME StoreTypes, Count, NEW d \in Senders, NEW id, Failed(id), stale' = stale \ {<<d, id>>},
         UNCHANGED nextID, behind' \subseteq behind,
         ownFail' = IF <<d, id>> \in stale THEN ownFail ELSE ownFail \cup {id}
  PROVE  /\ StoreTypes' /\ Count' /\ Live' \subseteq Live
         /\ \A i \in DOMAIN subs \ DOMAIN subs' : i \in ownFail'
  <1>1. CASE id \notin DOMAIN subs
    <2>1. UNCHANGED <<subs, lapsed>>
      BY <1>1 DEF Failed
    <2>2. \A i \in DOMAIN subs : subs[i].failures \in Nat
      BY PushAssumption DEF StoreTypes, Subscription
    <2>3. Count'
      BY <2>1, <2>2, OweDrops DEF Count
    <2> QED BY <2>1, <2>3 DEF StoreTypes, Live
  <1>2. CASE id \in DOMAIN subs /\ subs[id].failures + 1 >= MaxFailures
    <2>1. subs' = Without(subs, {id}) /\ lapsed' = lapsed \ {id}
      BY <1>2 DEF Failed, Dropped
    <2>2. DOMAIN subs' = DOMAIN subs \ {id} /\ \A i \in DOMAIN subs' : subs'[i] = subs[i]
      BY <2>1 DEF Without, Restrict
    <2>3. subs' = [i \in DOMAIN subs' |-> subs'[i]]
      BY <2>1 DEF Without, Restrict
    <2>4. \A i \in DOMAIN subs : subs[i].failures \in Nat /\ subs[i] \in Subscription
      BY PushAssumption DEF StoreTypes, Subscription
    <2>5. Count'
      <3> SUFFICES ASSUME NEW i \in DOMAIN subs', i \notin ownFail'
                   PROVE  subs'[i].failures + Owe("worker", i)' + Owe("stop", i)' <= 2
        BY DEF Count
      <3>1. i \in DOMAIN subs /\ i \notin ownFail /\ subs'[i] = subs[i]
        BY <2>2
      <3>2. subs[i].failures + Owe("worker", i) + Owe("stop", i) <= 2
        BY <3>1 DEF Count
      <3> QED BY <2>4, <3>1, <3>2, OweDrops
    <2>6. id \in ownFail'
      <3> SUFFICES ASSUME <<d, id>> \in stale, id \notin ownFail PROVE FALSE
        OBVIOUS
      <3>1. subs[id].failures + Owe("worker", id) + Owe("stop", id) <= 2
        BY <1>2 DEF Count
      <3>2. Owe("worker", id) = 1 \/ Owe("stop", id) = 1
        BY OweDrops DEF Senders
      <3> QED BY <1>2, <2>4, <3>1, <3>2, OweDrops, PushAssumption
    <2>7. StoreTypes'
      BY <2>2, <2>3, <2>4 DEF StoreTypes
    <2>8. Live' \subseteq Live
      BY <2>1, <2>2 DEF Live
    <2> QED BY <2>2, <2>5, <2>6, <2>7, <2>8
  <1>3. CASE id \in DOMAIN subs /\ ~(subs[id].failures + 1 >= MaxFailures)
    <2> DEFINE new == [subs[id] EXCEPT !.failures = subs[id].failures + 1]
    <2>1. subs' = [subs EXCEPT ![id] = new] /\ UNCHANGED lapsed
      BY <1>3, Zenon DEF Failed
    <2>2. \A i \in DOMAIN subs : subs[i].failures \in Nat /\ subs[i] \in Subscription
      BY PushAssumption DEF StoreTypes, Subscription
    <2>0. new \in Subscription /\ new.failures = subs[id].failures + 1
      BY <1>3, <2>2, PushAssumption DEF Subscription
    <2> HIDE DEF new
    <2>3. /\ DOMAIN subs' = DOMAIN subs /\ \A i \in DOMAIN subs \ {id} : subs'[i] = subs[i]
          /\ subs'[id] \in Subscription /\ subs'[id].failures = subs[id].failures + 1
      BY <1>3, <2>0, <2>1
    <2>4. subs' = [i \in DOMAIN subs' |-> subs'[i]]
      BY <2>1
    <2>5. Count'
      <3> SUFFICES ASSUME NEW i \in DOMAIN subs, i \notin ownFail'
                   PROVE  subs'[i].failures + Owe("worker", i)' + Owe("stop", i)' <= 2
        BY <2>3 DEF Count
      <3>1. subs[i].failures + Owe("worker", i) + Owe("stop", i) <= 2
        BY DEF Count
      <3>2. CASE i # id
        BY <2>2, <2>3, <3>1, <3>2, OweDrops
      <3>3. CASE i = id
        <4>1. Owe(d, id) = 1 /\ Owe(d, id)' = 0
          BY <3>3, OweDrops
        <4>2. d = "worker" \/ d = "stop"
          BY DEF Senders
        <4> QED BY <2>2, <2>3, <3>1, <3>3, <4>1, <4>2, OweDrops
      <3> QED BY <3>2, <3>3
    <2>6. StoreTypes'
      BY <2>2, <2>3, <2>4 DEF StoreTypes
    <2> QED BY <2>1, <2>3, <2>5, <2>6 DEF Live
  <1> QED BY <1>1, <1>2, <1>3

-----------------------------------------------------------------------------
LEMMA PostOkKeeps ==
  ASSUME IInv, NEW d \in Senders, NEW id \in Ids, PostOk(d, id)
  PROVE  IInv' /\ \A h \in Hosts : last'[h] >= last[h]
  <1> USE DEF IInv
  <1>1. /\ id \in DOMAIN sending[d].posts /\ Received(d, id) /\ Told(d, id) /\ Succeeded(id)
        /\ Closed(d, id) /\ stale' = stale \ {<<d, id>>}
        /\ UNCHANGED <<nextID, port, ver, queue, ownFail>>
    BY DEF PostOk
  <1>2. Continues(d, DOMAIN sending[d].posts \ {id})
    BY <1>1, ClosedIs
  <1>3. behind' \subseteq behind
    BY <1>1 DEF Told
  <1>4. StoreTypes' /\ Count' /\ Live' = Live
    BY <1>1, <1>3, SucceededKeeps
  <1>5. SendTypes' /\ Order' /\ \A h \in Hosts : last'[h] >= last[h]
    BY <1>1, <1>2, PostOrder
  <1>6. Pending'
    BY <1>1, <1>2, <1>4, PostPending
  <1> QED BY <1>4, <1>5, <1>6

(* And a subscription dropped by it failed a post of its own.              *)
LEMMA PostFailsKeeps ==
  ASSUME IInv, NEW d \in Senders, NEW id \in Ids, PostFails(d, id)
  PROVE  /\ IInv' /\ \A h \in Hosts : last'[h] >= last[h]
         /\ \A i \in DOMAIN subs \ DOMAIN subs' : i \in ownFail'
  <1> USE DEF IInv
  <1>1. /\ id \in DOMAIN sending[d].posts /\ (Received(d, id) \/ UNCHANGED last)
        /\ UNCHANGED <<nextID, port, ver>>
        /\ GivesUp(d, id) \/ Retries(d, id)
    BY DEF PostFails, Lost
  <1>2. CASE GivesUp(d, id)
    <2>1. /\ Failed(id) /\ Closed(d, id) /\ Told(d, id) /\ stale' = stale \ {<<d, id>>}
          /\ ownFail' = IF <<d, id>> \in stale THEN ownFail ELSE ownFail \cup {id}
          /\ UNCHANGED queue
      BY <1>2 DEF GivesUp
    <2>2. Continues(d, DOMAIN sending[d].posts \ {id})
      BY <1>1, <2>1, ClosedIs
    <2>3. behind' \subseteq behind
      BY <2>1 DEF Told
    <2>4. /\ StoreTypes' /\ Count' /\ Live' \subseteq Live
          /\ \A i \in DOMAIN subs \ DOMAIN subs' : i \in ownFail'
      BY <1>1, <2>1, <2>3, FailedKeeps
    <2>5. SendTypes' /\ Order' /\ \A h \in Hosts : last'[h] >= last[h]
      BY <1>1, <2>1, <2>2, PostOrder
    <2>6. Pending'
      BY <1>1, <2>1, <2>2, <2>4, PostPending
    <2> QED BY <2>4, <2>5, <2>6
  <1>3. CASE Retries(d, id)
    <2>1. UNCHANGED <<subs, lapsed, queue, behind>> /\ UNCHANGED marks
      BY <1>3 DEF Retries
    <2>2. Continues(d, DOMAIN sending[d].posts)
      BY <1>1, <1>3, RetriesIs
    <2>3. StoreTypes' /\ Count' /\ Live' = Live
      BY <1>1, <2>1 DEF StoreTypes, Count, Owe, Live, marks
    <2>4. SendTypes' /\ Order' /\ \A h \in Hosts : last'[h] >= last[h]
      BY <1>1, <2>1, <2>2, PostOrder
    <2>5. Pending'
      BY <1>1, <2>1, <2>2, <2>3, SamePending
    <2> QED BY <2>1, <2>3, <2>4, <2>5
  <1> QED BY <1>1, <1>2, <1>3

LEMMA DeadlineKeeps == ASSUME IInv, Deadline PROVE IInv'
  <1> USE DEF IInv
  <1>1. /\ sending' = [sending EXCEPT !["stop"] = [@ EXCEPT !.over = TRUE]]
        /\ UNCHANGED <<subs, lapsed, nextID, port, ver, queue, last, behind, stale, ownFail>>
    BY DEF Deadline, store, hubs, marks
  <1>2. /\ sending' \in [Senders -> Jobs] /\ sending'["worker"] = sending["worker"]
        /\ DOMAIN sending'["stop"].posts = DOMAIN sending["stop"].posts
        /\ sending'["stop"].body = sending["stop"].body
    <2>1. sending["stop"] \in Jobs
      BY DEF SendTypes, Senders
    <2>2. /\ [sending["stop"] EXCEPT !.over = TRUE] \in Jobs
          /\ [sending["stop"] EXCEPT !.over = TRUE].posts = sending["stop"].posts
          /\ [sending["stop"] EXCEPT !.over = TRUE].body = sending["stop"].body
      BY <2>1 DEF Jobs
    <2> QED BY <1>1, <2>2 DEF SendTypes, Senders
  <1>3. StoreTypes' /\ Count' /\ Live' = Live
    BY <1>1 DEF StoreTypes, Count, Owe, Live
  <1>4. SendTypes' /\ Order'
    BY <1>1, <1>2 DEF SendTypes, Order
  <1>5. Pending'
    BY <1>1, <1>2, <1>3 DEF Pending, Ahead, Senders
  <1> QED BY <1>3, <1>4, <1>5

LEMMA StepIInv == IInv /\ [Next]_vars => IInv'
  <1> SUFFICES ASSUME IInv, [Next]_vars PROVE IInv'
    OBVIOUS
  <1>1. CASE UNCHANGED vars
    BY <1>1 DEF IInv, StoreTypes, SendTypes, Count, Order, Pending, Ahead, Owe, Live,
                vars, store, hubs, marks
  <1>2. CASE \/ \E h \in Hosts : Subscribe(h) \/ DriverRestart(h)
             \/ \E id \in Ids : Unsubscribe(id) \/ Lapse(id)
             \/ Sweep
    BY <1>2, StoreKeeps
  <1>3. CASE Emit \/ EmitStopping \/ Take \/ Deadline
    BY <1>3, EmitKeeps, EmitStoppingKeeps, TakeKeeps, DeadlineKeeps
  <1>4. CASE \E d \in Senders, id \in Ids : PostOk(d, id) \/ PostFails(d, id)
    BY <1>4, PostOkKeeps, PostFailsKeeps
  <1> QED BY <1>1, <1>2, <1>3, <1>4 DEF Next

(* The invariant, over every behaviour of the deliveries.                  *)
THEOREM Invariance == Spec => []IInv
  BY InitIInv, StepIInv, PTL DEF Spec

(* With any number of hubs, queue lengths and events: once all is          *)
(* delivered, whoever is subscribed was told of the last change, or the    *)
(* post that would have told it failed.                                    *)
THEOREM ToldOfLastChange == Spec => []LastChangeTold
  <1>1. IInv => LastChangeTold
    BY IdleIs DEF IInv, Pending, Ahead, Live, LastChangeTold, Quiet
  <1> QED BY <1>1, Invariance, PTL

LEMMA StepsInOrder == IInv /\ [Next]_vars => \A h \in Hosts : last'[h] >= last[h]
  <1> SUFFICES ASSUME IInv, [Next]_vars PROVE \A h \in Hosts : last'[h] >= last[h]
    OBVIOUS
  <1>1. ASSUME UNCHANGED last PROVE \A h \in Hosts : last'[h] >= last[h]
    BY <1>1 DEF IInv, SendTypes
  <1>2. CASE UNCHANGED vars
    BY <1>1, <1>2 DEF vars, hubs
  <1>3. CASE \/ \E h \in Hosts : Subscribe(h) \/ DriverRestart(h)
             \/ \E id \in Ids : Unsubscribe(id) \/ Lapse(id)
             \/ Sweep
    BY <1>1, <1>3 DEF Subscribe, DriverRestart, Unsubscribe, Lapse, Sweep, NotStored, hubs
  <1>4. CASE Emit \/ EmitStopping \/ Take \/ Deadline
    BY <1>1, <1>4 DEF Emit, EmitStopping, Changed, Take, Deadline, hubs
  <1>5. CASE \E d \in Senders, id \in Ids : PostOk(d, id) \/ PostFails(d, id)
    BY <1>5, PostOkKeeps, PostFailsKeeps
  <1> QED BY <1>2, <1>3, <1>4, <1>5 DEF Next

(* However posts are retried, lost or cut off by the deadline, no hub      *)
(* receives a queued event after a later one.                              *)
THEOREM ReceivedInOrder == Spec => InEmitOrder
  <1>1. IInv /\ [Next]_vars => [\A h \in Hosts : last'[h] >= last[h]]_vars
    BY StepsInOrder
  <1> QED BY <1>1, Invariance, PTL DEF Spec, InEmitOrder

(* With any limit above the two goroutines that deliver, posts under way   *)
(* when a hub renewed never drop it by themselves.                         *)
THEOREM RenewalKeepsHub == Spec => RenewalCounts
  <1>1. IInv /\ [Next]_vars =>
          [\A d \in Senders, id \in Ids :
             id \in DOMAIN subs \ DOMAIN subs' /\ PostFails(d, id) => id \in ownFail']_vars
    BY PostFailsKeeps
  <1> QED BY <1>1, Invariance, PTL DEF Spec, RenewalCounts

----------------------------------------------------------------------------
(* THE KEEP-AWAKE CONTROLLER.                                              *)

(* Its inductive invariant.  EndsOnTime needs HasEnd: a callback that      *)
(* finds its own period running must not take "until turned off" for an    *)
(* end that has passed.                                                    *)
HasEnd == on /\ (armed # 0 \/ seq \in firing) => until # 0

(* There is room to turn off what was turned on. *)
Room == on => seq < MaxSeq

OffIsClear == ~on => until = 0 /\ armed = 0

AwakeInv == AwakeTypeOK /\ OnHoldsRequest /\ OffReleases /\ HasEnd /\ Room /\ OffIsClear

LEMMA AwakeInitInv == AwakeInit => AwakeInv
  <1> SUFFICES ASSUME AwakeInit PROVE AwakeInv
    OBVIOUS
  <1> USE AwakeAssumption
  <1>1. on \in BOOLEAN /\ refused \in BOOLEAN /\ keepDisplay \in BOOLEAN
    BY Zenon DEF AwakeInit
  <1>2. AwakeTypeOK
    BY <1>1 DEF AwakeInit, AwakeTypeOK, Flags
  <1>3. OnHoldsRequest /\ OffReleases /\ HasEnd /\ Room /\ OffIsClear
    BY DEF AwakeInit, OnHoldsRequest, OffReleases, HasEnd, Room, OffIsClear
  <1> QED BY <1>2, <1>3 DEF AwakeInv

(* offLocked, called by TurnOff, Shutdown, expire, Tick and View. *)
LEMMA OffInv ==
  ASSUME AwakeInv, NEW ok \in BOOLEAN, Off(ok), seq < MaxSeq,
         UNCHANGED <<clock, backs, keepDisplay>>, firing' \subseteq firing
  PROVE  AwakeInv'
  <1> USE AwakeAssumption
  <1>1. seq' = seq + 1 /\ seq + 1 \in 0..MaxSeq /\ seq \in Nat /\ seq + 1 \notin firing
    BY DEF AwakeInv, AwakeTypeOK, Off
  <1>2. on' \in BOOLEAN /\ refused' \in BOOLEAN /\ keepDisplay' \in BOOLEAN
    BY Zenon DEF AwakeInv, AwakeTypeOK, Off, Released
  <1>3. AwakeTypeOK'
    BY <1>1, <1>2 DEF AwakeInv, AwakeTypeOK, Off, Released, Flags
  <1>4. OnHoldsRequest' /\ HasEnd' /\ Room' /\ OffIsClear'
    BY DEF OnHoldsRequest, HasEnd, Room, OffIsClear, Off
  <1>5. OffReleases'
    BY DEF OffReleases, Off, Released
  <1> QED BY <1>3, <1>4, <1>5 DEF AwakeInv

LEMMA TurnOnInv ==
  ASSUME AwakeInv, NEW m \in Periods, NEW ok \in BOOLEAN, TurnOn(m, ok)
  PROVE  AwakeInv'
  <1> USE AwakeAssumption
  <1>1. /\ seq' = seq + 1 /\ seq + 1 \in 0..MaxSeq /\ seq + 1 < MaxSeq /\ seq + 1 # 0
        /\ seq \in Nat /\ seq + 1 \notin firing /\ m \in Nat /\ clock \in Nat
    BY DEF AwakeInv, AwakeTypeOK, TurnOn, Start
  <1>2. held' \in Flags /\ held' # "none"
    BY DEF TurnOn, WantFlags, Flags
  <1>3. on' \in BOOLEAN /\ refused' \in BOOLEAN /\ keepDisplay' \in BOOLEAN
    BY Zenon DEF AwakeInv, AwakeTypeOK, TurnOn, Start
  <1>4. AwakeTypeOK'
    BY <1>1, <1>2, <1>3 DEF AwakeInv, AwakeTypeOK, TurnOn, Start, time
  <1>5. OnHoldsRequest' /\ OffReleases' /\ Room' /\ OffIsClear'
    BY <1>1, <1>2 DEF OnHoldsRequest, OffReleases, Room, OffIsClear, TurnOn, Start
  <1>6. HasEnd'
    BY <1>1 DEF HasEnd, TurnOn, Start
  <1> QED BY <1>4, <1>5, <1>6 DEF AwakeInv

LEMMA ExpireInv ==
  ASSUME AwakeInv, NEW s \in 1..MaxSeq, NEW ok \in BOOLEAN, Expire(s, ok)
  PROVE  AwakeInv'
  <1> USE AwakeAssumption
  <1>1. s \in firing /\ firing' = firing \ {s} /\ UNCHANGED <<clock, backs, keepDisplay>>
    BY DEF Expire, time
  <1>2. CASE ~on \/ seq # s
    BY <1>1, <1>2 DEF Expire, AwakeInv, AwakeTypeOK, OnHoldsRequest, OffReleases, HasEnd, Room, OffIsClear
  <1>3. CASE on /\ seq = s /\ until > clock
    BY <1>1, <1>3 DEF Expire, AwakeInv, AwakeTypeOK, OnHoldsRequest, OffReleases, HasEnd, Room, OffIsClear
  <1>4. CASE on /\ seq = s /\ ~(until > clock)
    <2>1. Off(ok) /\ seq < MaxSeq
      BY <1>4 DEF Expire, AwakeInv, Room
    <2> QED BY <1>1, <2>1, OffInv
  <1> QED BY <1>2, <1>3, <1>4

LEMMA TickInv ==
  ASSUME AwakeInv, NEW ok \in BOOLEAN, Tick(ok)
  PROVE  AwakeInv'
  <1>1. CASE Due /\ Off(ok) /\ UNCHANGED <<time, firing, keepDisplay>>
    <2>1. seq < MaxSeq
      BY <1>1 DEF Due, AwakeInv, Room
    <2> QED BY <1>1, <2>1, OffInv DEF time
  <1>2. CASE /\ on /\ ~Due
             /\ held' = IF Holds(WantFlags, ok) THEN WantFlags ELSE held
             /\ UNCHANGED <<time, on, until, seq, armed, firing, keepDisplay, refused>>
    <2>1. held' \in Flags /\ (on' => held' # "none")
      BY <1>2 DEF AwakeInv, AwakeTypeOK, OnHoldsRequest, WantFlags, Flags
    <2> QED BY <1>2, <2>1 DEF AwakeInv, AwakeTypeOK, OnHoldsRequest, OffReleases, HasEnd, Room, OffIsClear, time
  <1> QED BY <1>1, <1>2 DEF Tick

LEMMA TimerFiresInv ==
  ASSUME AwakeInv, TimerFires
  PROVE  AwakeInv'
  <1>1. armed = seq /\ armed \in 1..seq
    BY AwakeAssumption DEF AwakeInv, AwakeTypeOK, TimerFires
  <1> QED BY <1>1 DEF AwakeInv, AwakeTypeOK, OnHoldsRequest, OffReleases, HasEnd, Room, OffIsClear, TimerFires, time

(* Changes of the setting and of the clock. *)
LEMMA OutsideInv ==
  ASSUME AwakeInv, SetKeepDisplay \/ ClockStep \/ ClockBack
  PROVE  AwakeInv'
  <1>1. UNCHANGED <<on, until, seq, armed, firing, held, refused>>
    BY DEF SetKeepDisplay, ClockStep, ClockBack
  <1>2. keepDisplay' \in BOOLEAN
    BY Zenon DEF AwakeInv, AwakeTypeOK, SetKeepDisplay, ClockStep, ClockBack
  <1>3. clock' \in Nat /\ backs' \in Nat
    BY AwakeAssumption DEF AwakeInv, AwakeTypeOK, SetKeepDisplay, ClockStep, ClockBack, time
  <1> QED
    BY <1>1, <1>2, <1>3 DEF AwakeInv, AwakeTypeOK, OnHoldsRequest, OffReleases, HasEnd, Room, OffIsClear

LEMMA AwakeNextInv == AwakeInv /\ [AwakeNext]_awakeVars => AwakeInv'
  <1> SUFFICES ASSUME AwakeInv, [AwakeNext]_awakeVars PROVE AwakeInv'
    OBVIOUS
  <1>1. ASSUME NEW m \in Periods, NEW ok \in BOOLEAN, TurnOn(m, ok) PROVE AwakeInv'
    BY <1>1, TurnOnInv
  <1>2. ASSUME NEW ok \in BOOLEAN, TurnOff(ok) \/ Shutdown(ok) PROVE AwakeInv'
    <2>1. seq < MaxSeq /\ Off(ok) /\ UNCHANGED <<time, firing, keepDisplay>>
      BY <1>2, AwakeAssumption DEF TurnOff, Shutdown, AwakeInv, AwakeTypeOK
    <2> QED BY <2>1, OffInv DEF time
  <1>3. ASSUME NEW ok \in BOOLEAN, View(ok) PROVE AwakeInv'
    <2>1. seq < MaxSeq
      BY <1>3 DEF View, Due, AwakeInv, Room
    <2> QED BY <1>3, <2>1, OffInv DEF View, time
  <1>4. ASSUME NEW ok \in BOOLEAN, Tick(ok) PROVE AwakeInv'
    BY <1>4, TickInv
  <1>5. ASSUME NEW s \in 1..MaxSeq, NEW ok \in BOOLEAN, Expire(s, ok) PROVE AwakeInv'
    BY <1>5, ExpireInv
  <1>6. ASSUME TimerFires PROVE AwakeInv'
    BY <1>6, TimerFiresInv
  <1>7. ASSUME SetKeepDisplay \/ ClockStep \/ ClockBack PROVE AwakeInv'
    BY <1>7, OutsideInv
  <1>8. ASSUME UNCHANGED awakeVars PROVE AwakeInv'
    BY <1>8 DEF AwakeInv, AwakeTypeOK, OnHoldsRequest, OffReleases, HasEnd, Room, OffIsClear, awakeVars, time
  <1> QED BY <1>1, <1>2, <1>3, <1>4, <1>5, <1>6, <1>7, <1>8 DEF AwakeNext

THEOREM AwakeInvariance == AwakeSpec => []AwakeInv
  BY AwakeInitInv, AwakeNextInv, PTL DEF AwakeSpec

(* Every reachable state has the types AwakeTypeOK gives; the armed timer is    *)
(* the current period's.                                                   *)
THEOREM AwakeTypes == AwakeSpec => []AwakeTypeOK
  BY AwakeInvariance, PTL DEF AwakeInv

(* No refusal by Windows makes the service say "on" while nothing is held. *)
THEOREM NeverOnInVain == AwakeSpec => []OnHoldsRequest
  BY AwakeInvariance, PTL DEF AwakeInv

(* When the service says "off", what is still held is what Windows refused *)
(* to clear.                                                               *)
THEOREM NeverOffHolding == AwakeSpec => []OffReleases
  BY AwakeInvariance, PTL DEF AwakeInv

(* No timer callback, however late, early or stale, ends a period before   *)
(* its time.                                                               *)
THEOREM NoEarlyEnd == AwakeSpec => EndsOnTime
  <1>1. AwakeInv /\ [AwakeNext]_awakeVars =>
          [\A s \in 1..MaxSeq, ok \in BOOLEAN :
             Expire(s, ok) /\ on /\ ~on' => until # 0 /\ clock >= until]_awakeVars
    <2> SUFFICES ASSUME AwakeInv, NEW s \in 1..MaxSeq, NEW ok \in BOOLEAN,
                        Expire(s, ok), on, ~on'
                 PROVE  until # 0 /\ clock >= until
      OBVIOUS
    <2>1. seq = s /\ s \in firing /\ ~(until > clock)
      BY DEF Expire
    <2>2. until # 0
      BY <2>1 DEF AwakeInv, HasEnd
    <2> QED BY <2>1, <2>2 DEF AwakeInv, AwakeTypeOK
  <1> QED BY <1>1, AwakeInvariance, PTL DEF AwakeSpec, EndsOnTime

----------------------------------------------------------------------------
(* COMMANDS: what the driver sends, what the service answers.              *)

(* The child accepts whatever a media command becomes (MediaArgs, Parse).  *)
LEMMA ArgsParse ==
  ASSUME NEW c \in MediaCommands, NEW arg \in Argument, GoodValue(c, arg)
  PROVE  Parsed(MediaArgs(c, arg))
  BY DEF MediaCommands, Audio, Levels, Keys, Argument, GoodValue, MediaArgs, Step, Parsed

LEMMA SentIsGood ==
  ASSUME NEW c \in MediaCommands, NEW n \in Int
  PROVE  ValueSent(c, n) \in Argument /\ GoodValue(c, ValueSent(c, n))
  BY DEF MediaCommands, Audio, Levels, Keys, Argument, GoodValue, ValueSent, Given, None,
         VolumeOf, Clamp

LEMMA MinutesAreGood ==
  ASSUME NEW n \in Int
  PROVE  ValueSent("awake", n).given => ValidAwakeMinutes(ValueSent("awake", n).n)
  BY DEF ValueSent, Given, AwakeMinutes, Clamp, ValidAwakeMinutes

(* So a media command is answered by the setting, the session or its run.  *)
Ended == {Done, Answer(504, "timeout"), Answer(501, "unsupported"), Answer(502, "failed")}

LEMMA MediaAnswer ==
  ASSUME NEW host \in PC, NEW c \in MediaCommands, NEW n \in Int, NEW run \in Runs
  PROVE  \/ ~host.media /\ HandleCommand(host, c, n, run) = Answer(403, "media_disabled")
         \/ host.media /\ ~host.user /\ HandleCommand(host, c, n, run) = Answer(409, "no_user_session")
         \/ host.media /\ host.user /\ HandleCommand(host, c, n, run) \in Ended
  <1>1. HandleCommand(host, c, n, run) = HandleMedia(host, c, ValueSent(c, n), run)
    BY DEF HandleCommand, MediaCommands, Audio, Levels, Keys
  <1>2. GoodValue(c, ValueSent(c, n)) /\ Parsed(MediaArgs(c, ValueSent(c, n)))
    BY SentIsGood, ArgsParse
  <1>3. CASE ~host.media
    BY <1>1, <1>3 DEF HandleMedia, Classify
  <1>4. CASE host.media /\ ~host.user
    BY <1>1, <1>2, <1>4 DEF HandleMedia, Ran, Classify
  <1>5. CASE host.media /\ host.user
    <2>1. HandleCommand(host, c, n, run) = IF run = "done" THEN Done ELSE Classify(run)
      BY <1>1, <1>2, <1>5 DEF HandleMedia, Ran
    <2>2. run \in RunErrors => Classify(run) \in Ended
      BY DEF RunErrors, Classify, Ended
    <2> QED BY <1>5, <2>1, <2>2 DEF Runs, Ended
  <1> QED BY <1>3, <1>4, <1>5

LEMMA AnswerParts ==
  /\ \A status, code : Answer(status, code).status = status /\ Answer(status, code).code = code
  /\ \A answer \in Ended : /\ answer.status \in {200, 504, 501, 502}
                          /\ answer.code \notin {"media_disabled", "no_user_session"}
  BY DEF Ended, Answer, Done

(* What becomes of each of these answers in the driver.                    *)
LEMMA MediaShown ==
  ASSUME NEW c \in MediaCommands
  PROVE  /\ Shown(c, Answer(403, "media_disabled"))
              = [note |-> "media_disabled", connection |-> "kept"]
         /\ Shown(c, Answer(409, "no_user_session")) = [note |-> "no_user", connection |-> "kept"]
         /\ \A answer \in Ended : Shown(c, answer).connection = "kept"
  <1>1. \A answer : NoteOf(c, answer) = ErrorNote(Kind(answer.status), answer.code)
    BY DEF NoteOf, MediaCommands, Audio, Levels, Keys
  <1>2. NoteOf(c, Answer(403, "media_disabled")) = "media_disabled"
    BY <1>1 DEF ErrorNote, Answer, Kind
  <1>3. NoteOf(c, Answer(409, "no_user_session")) = "no_user"
    BY <1>1 DEF ErrorNote, Answer
  <1>4. NoteOf(c, Answer(504, "timeout")) = "action_failed"
    BY <1>1 DEF ErrorNote, Answer, Kind
  <1>5. NoteOf(c, Answer(501, "unsupported")) = "feature_missing"
    BY <1>1 DEF ErrorNote, Answer, Kind
  <1>6. NoteOf(c, Answer(502, "failed")) = "action_failed"
    BY <1>1 DEF ErrorNote, Answer, Kind
  <1>7. Done # Answer(403, "media_disabled") /\ Done # Answer(409, "no_user_session")
    BY DEF Done, Answer
  <1> QED BY <1>2, <1>3, <1>4, <1>5, <1>6, <1>7 DEF Shown, Ended

(* The values the driver sends are the ones the service takes.             *)
THEOREM ValuesAccepted ==
  \A host \in PC, c \in Commands \ {"notify"}, n \in Int, run \in Runs : ValueAccepted(host, c, n, run)
  <1> SUFFICES ASSUME NEW host \in PC, NEW c \in Commands \ {"notify"}, NEW n \in Int,
                      NEW run \in Runs, c # "preset"
               PROVE  HandleCommand(host, c, n, run).status # 400
    BY DEF ValueAccepted
  <1>1. CASE c \in MediaCommands
    BY <1>1, MediaAnswer, AnswerParts
  <1>2. CASE c \in {"awake", "awakeoff"}
    BY <1>2, MinutesAreGood DEF HandleCommand, HandleAwake, ValueSent, None, Answer, Done
  <1> QED BY <1>1, <1>2 DEF Commands

(* What the driver keeps back or lets through, the service would have      *)
(* refused for the same reason, or does not refuse for that.               *)
LEMMA MediaFeature ==
  ASSUME NEW host \in PC, NEW c \in MediaCommands
  PROVE  Refusal(Remember(Status(host)), c)
           = IF ~host.media THEN IF Below(host.version) THEN "needs_service" ELSE "media_disabled"
             ELSE IF ~(host.user /\ host.reading) THEN "no_user" ELSE "none"
  BY DEF MediaCommands, Audio, Levels, Keys, Refusal, Has, CommandFeature, Remember, Status,
         Features, MediaFeatures, AudioAvailable, PC

THEOREM RefusedAlike ==
  \A host \in PC, c \in MediaCommands, n \in Int, run \in Runs :
    ~Below(host.version) => RefusedRightly(host, c, n, run) /\ PassedRightly(host, c, n, run)
  <1> SUFFICES ASSUME NEW host \in PC, NEW c \in MediaCommands, NEW n \in Int, NEW run \in Runs,
                      ~Below(host.version)
               PROVE  RefusedRightly(host, c, n, run) /\ PassedRightly(host, c, n, run)
    OBVIOUS
  <1>1. RefusedRightly(host, c, n, run)
    BY MediaAnswer, MediaFeature, MediaShown DEF RefusedRightly
  <1>2. PassedRightly(host, c, n, run)
    BY MediaAnswer, MediaFeature, AnswerParts DEF PassedRightly, PC
  <1> QED BY <1>1, <1>2

(* However old the status it was sent on, a media command that is refused  *)
(* is explained, and the device's connection stays as it was.              *)
THEOREM AlwaysToldInWords ==
  \A host \in PC, c \in MediaCommands, n \in Int, run \in Runs : ToldInWords(host, c, n, run)
  <1> SUFFICES ASSUME NEW host \in PC, NEW c \in MediaCommands, NEW n \in Int, NEW run \in Runs
               PROVE  Shown(c, HandleCommand(host, c, n, run)).connection = "kept"
    BY DEF ToldInWords
  <1> QED BY MediaAnswer, MediaShown

(* The list offers exactly the presets there are.                          *)
THEOREM PresetsOffered ==
  \A host \in PC, slot \in PresetSlots, run \in Runs : OfferedRightly(host, slot, run)
  <1> SUFFICES ASSUME NEW host \in PC, NEW slot \in PresetSlots, NEW run \in Runs
               PROVE  OfferedRightly(host, slot, run)
    OBVIOUS
  <1>1. Refusal(Remember(Status(host)), "preset") = "none"
    BY DEF Refusal, Has, CommandFeature, Audio, Levels, Keys, Remember, Status, Features
  <1>2. PresetRefusal(Remember(Status(host)), slot) = IF slot \in host.presets THEN "none" ELSE "preset_empty"
    BY <1>1 DEF PresetRefusal, Remember, Status
  <1>3. HandleCommand(host, "preset", slot, run) = HandlePreset(host, Given(slot), run)
    BY DEF HandleCommand, ValueSent
  <1>4. HandlePreset(host, Given(slot), run).code = "no_such_preset" => slot \notin host.presets
    BY DEF HandlePreset, Given, Ran, Runs, RunErrors, Answer, Done, Classify
  <1> QED BY <1>2, <1>3, <1>4 DEF OfferedRightly, SupportedSlots, Remember, Status

----------------------------------------------------------------------------
(* What the funnel keeps, sent or waiting, is what was decided last.       *)
FunnelFields == {"sent", "first", "seedOff", "waiting", "painting", "started", "cursor", "clock"}
AsDecided(recs, decided) == \A r \in DOMAIN recs : r \in Rows /\ recs[r] = decided[r]
Good(e, decided) ==
  /\ DOMAIN e = FunnelFields
  /\ AsDecided(e.sent, decided) /\ AsDecided(e.waiting, decided)
  /\ DOMAIN e.waiting # {} => e.painting
  /\ e.painting => e.seedOff

LEMMA OverIs ==
  ASSUME NEW f, NEW g
  PROVE  /\ DOMAIN Over(f, g) = DOMAIN f \cup DOMAIN g
         /\ \A r \in DOMAIN f : Over(f, g)[r] = f[r]
         /\ \A r \in DOMAIN g : r \notin DOMAIN f => Over(f, g)[r] = g[r]
  BY DEF Over

LEMMA OnlyIs ==
  ASSUME NEW f, NEW R
  PROVE  DOMAIN Only(f, R) = DOMAIN f \cap R /\ \A r \in DOMAIN f \cap R : Only(f, R)[r] = f[r]
  BY DEF Only

LEMMA RowsKeep ==
  ASSUME NEW e, NEW old, NEW hub, NEW recs, NEW forced, NEW decided, Good(e, old),
         \A r \in DOMAIN recs : r \in Rows /\ decided[r] = recs[r],
         \A r \in Rows : r \notin DOMAIN recs => decided[r] = old[r]
  PROVE  /\ Good(EmitRows(e, hub, recs, forced).em, decided)
         /\ AsDecided(EmitRows(e, hub, recs, forced).out.value, decided)
  <1> DEFINE seeded == Seeded(e, hub, recs, forced)
             prior == Over(e.sent, seeded)
             waits == IF e.painting THEN DOMAIN recs \ (forced \cup DOMAIN prior) ELSE {}
             going == {r \in DOMAIN recs \ waits :
                         r \in forced \/ r \notin DOMAIN prior \/ prior[r] # recs[r]}
             x == EmitRows(e, hub, recs, forced)
             sent == Over(Only(recs, going), prior)
             kept == Only(e.waiting, Rows \ going)
             waiting == Over(Only(recs, waits), kept)
  <1>1. x.em = [e EXCEPT !.sent = sent, !.first = @ \cup (going \ forced), !.waiting = waiting]
        /\ x.out.value = Only(recs, going)
    BY DEF EmitRows
  <1>2. DOMAIN seeded \subseteq DOMAIN recs /\ (\A r \in DOMAIN seeded : seeded[r] = recs[r])
        /\ (e.seedOff => DOMAIN seeded = {})
    BY DEF Seeded, NoRows
  <1>3. DOMAIN prior = DOMAIN e.sent \cup DOMAIN seeded
        /\ (\A r \in DOMAIN e.sent : prior[r] = e.sent[r])
        /\ (\A r \in DOMAIN seeded : r \notin DOMAIN e.sent => prior[r] = seeded[r])
    BY OverIs
  <1>4. /\ waits \subseteq DOMAIN recs /\ going \subseteq DOMAIN recs
        /\ \A r \in DOMAIN prior : r \notin waits
        /\ waits # {} => e.painting
        /\ \A r \in DOMAIN recs : r \notin waits /\ r \notin going => r \in DOMAIN prior /\ prior[r] = recs[r]
    <2> HIDE DEF prior
    <2> QED OBVIOUS
  <1> HIDE DEF seeded, prior, waits, going
  <1>5. DOMAIN Only(recs, going) = going /\ \A r \in going : Only(recs, going)[r] = recs[r]
    BY <1>4 DEF Only
  <1>6. AsDecided(Only(recs, going), decided)
    BY <1>4, <1>5 DEF AsDecided
  <1>7. \A r \in DOMAIN recs : r \notin waits /\ r \notin going => prior[r] = decided[r] /\ r \in Rows
    BY <1>4
  <1>8. \A r \in DOMAIN prior : r \notin DOMAIN recs => prior[r] = decided[r] /\ r \in Rows
    BY <1>2, <1>3 DEF Good, AsDecided
  <1>9. AsDecided(sent, decided)
    <2>1. DOMAIN sent = going \cup DOMAIN prior
          /\ (\A r \in going : sent[r] = recs[r])
          /\ \A r \in DOMAIN prior : r \notin going => sent[r] = prior[r]
      BY <1>5 DEF Over
    <2> HIDE DEF sent
    <2>2. ASSUME NEW r \in DOMAIN sent PROVE r \in Rows /\ sent[r] = decided[r]
      <3>1. CASE r \in going
        BY <1>4, <2>1, <3>1
      <3>2. CASE r \notin going /\ r \in DOMAIN recs
        <4>1. r \in DOMAIN prior
          BY <2>1, <3>2
        <4>2. r \notin waits
          BY <1>4, <4>1
        <4> QED BY <1>7, <2>1, <3>2, <4>1, <4>2
      <3>3. CASE r \notin going /\ r \notin DOMAIN recs
        BY <1>8, <2>1, <3>3
      <3> QED BY <3>1, <3>2, <3>3
    <2> QED BY <2>2 DEF AsDecided
  <1>10. AsDecided(waiting, decided) /\ (DOMAIN waiting # {} => e.painting)
    <2>1. DOMAIN Only(recs, waits) = waits /\ \A r \in waits : Only(recs, waits)[r] = recs[r]
      BY <1>4 DEF Only
    <2>2. DOMAIN kept = DOMAIN e.waiting \cap (Rows \ going) /\ \A r \in DOMAIN kept : kept[r] = e.waiting[r]
      BY DEF Only
    <2> HIDE DEF kept
    <2>3. DOMAIN waiting = waits \cup DOMAIN kept
          /\ (\A r \in waits : waiting[r] = recs[r])
          /\ (\A r \in DOMAIN kept : r \notin waits => waiting[r] = kept[r])
      BY <2>1 DEF Over
    <2> HIDE DEF waiting
    <2>4. ASSUME NEW r \in DOMAIN waiting PROVE r \in Rows /\ waiting[r] = decided[r]
      <3>1. CASE r \in waits
        BY <1>4, <2>3, <3>1
      <3>2. CASE r \notin waits
        <4>1. r \in DOMAIN e.waiting /\ r \in Rows /\ r \notin going /\ waiting[r] = e.waiting[r]
          BY <2>2, <2>3, <3>2
        <4>2. e.waiting[r] = old[r] /\ e.seedOff
          BY <4>1 DEF Good, AsDecided
        <4>3. CASE r \in DOMAIN recs
          <5>1. r \in DOMAIN prior /\ prior[r] = decided[r]
            BY <1>4, <1>7, <3>2, <4>1, <4>3
          <5>2. r \in DOMAIN e.sent /\ e.sent[r] = prior[r] /\ e.sent[r] = old[r]
            BY <1>2, <1>3, <4>2, <5>1 DEF Good, AsDecided
          <5> QED BY <4>1, <4>2, <5>1, <5>2
        <4>4. CASE r \notin DOMAIN recs
          BY <4>1, <4>2, <4>4
        <4> QED BY <4>3, <4>4
      <3> QED BY <3>1, <3>2
    <2>5. DOMAIN waiting # {} => e.painting
      BY <1>4, <2>2, <2>3 DEF Good
    <2> QED BY <2>4, <2>5 DEF AsDecided
  <1> HIDE DEF sent, waiting, x
  <1>11. x.em.sent = sent /\ x.em.waiting = waiting /\ x.em.painting = e.painting /\ x.em.seedOff = e.seedOff
        /\ DOMAIN x.em = FunnelFields
    BY <1>1 DEF Good, FunnelFields
  <1>12. Good(x.em, decided) /\ AsDecided(x.out.value, decided)
    BY <1>1, <1>6, <1>9, <1>10, <1>11 DEF Good
  <1> QED BY <1>12 DEF x

LEMMA PaintNextKeeps ==
  ASSUME NEW e, NEW decided, Good(e, decided), NEW hub, NEW B
  PROVE  Good(PaintNext(e, hub, B).em, decided) /\ AsDecided(PaintNext(e, hub, B).out.value, decided)
  <1> DEFINE rest == Only(e.waiting, Rows \ B)
             recs == Only(e.waiting, B)
             f == [e EXCEPT !.waiting = rest, !.painting = DOMAIN rest # {}, !.started = TRUE]
  <1>1. DOMAIN rest \subseteq DOMAIN e.waiting /\ \A r \in DOMAIN rest : rest[r] = e.waiting[r]
    BY DEF Only
  <1>2. DOMAIN recs \subseteq DOMAIN e.waiting /\ \A r \in DOMAIN recs : recs[r] = e.waiting[r]
    BY DEF Only
  <1> HIDE DEF rest
  <1>3. DOMAIN f = FunnelFields /\ f.sent = e.sent /\ f.waiting = rest /\ f.painting = (DOMAIN rest # {})
        /\ f.seedOff = e.seedOff
    BY DEF Good, FunnelFields
  <1> HIDE DEF f, recs
  <1>4. Good(f, decided)
    BY <1>1, <1>3 DEF Good, AsDecided
  <1>5. \A r \in DOMAIN recs : r \in Rows /\ decided[r] = recs[r]
    BY <1>2 DEF Good, AsDecided
  <1>6. PaintNext(e, hub, B) = EmitRows(f, hub, recs, B)
    BY DEF PaintNext, f, recs, rest
  <1> QED BY <1>4, <1>5, <1>6, RowsKeep

LEMMA AgainKeeps ==
  ASSUME NEW e, NEW decided, Good(e, decided), NEW hub, NEW R, NEW forced
  PROVE  Good(EmitRows(e, hub, Only(e.sent, R), forced).em, decided)
         /\ AsDecided(EmitRows(e, hub, Only(e.sent, R), forced).out.value, decided)
  <1> DEFINE recs == Only(e.sent, R)
  <1>1. DOMAIN recs \subseteq DOMAIN e.sent /\ \A r \in DOMAIN recs : recs[r] = e.sent[r]
    BY DEF Only
  <1> HIDE DEF recs
  <1>2. \A r \in DOMAIN recs : r \in Rows /\ decided[r] = recs[r]
    BY <1>1 DEF Good, AsDecided
  <1>3. Good(EmitRows(e, hub, recs, forced).em, decided)
        /\ AsDecided(EmitRows(e, hub, recs, forced).out.value, decided)
    BY <1>2, RowsKeep
  <1> QED BY <1>3 DEF recs

LEMMA ResyncKeeps ==
  ASSUME NEW e, NEW decided, Good(e, decided), NEW hub
  PROVE  Good(Resync(e, hub).em, decided) /\ AsDecided(Resync(e, hub).out.value, decided)
  BY AgainKeeps DEF Resync

LEMMA NothingOut == ASSUME NEW decided PROVE AsDecided(NoEvents.value, decided)
  BY DEF AsDecided, NoEvents, NoRows

LEMMA RotateKeeps ==
  ASSUME NEW e, NEW decided, Good(e, decided), NEW hub, NEW just, NEW over
  PROVE  Good(RotateDue(e, hub, just, over).em, decided)
         /\ AsDecided(RotateDue(e, hub, just, over).out.value, decided)
  <1> DEFINE R == Rotated(e, just)
             f == [e EXCEPT !.cursor = SortedAs[CHOOSE r \in R : TRUE]]
             g == [e EXCEPT !.clock = TRUE]
  <1>1. Good(f, decided) /\ f.sent = e.sent
    BY DEF Good, FunnelFields, AsDecided
  <1>2. Good(g, decided)
    BY DEF Good, FunnelFields, AsDecided
  <1>3. \/ RotateDue(e, hub, just, over) = [em |-> g, out |-> NoEvents]
        \/ RotateDue(e, hub, just, over) = EmitRows(f, hub, Only(e.sent, R), R)
    BY DEF RotateDue
  <1> HIDE DEF R, f, g
  <1>4. CASE RotateDue(e, hub, just, over) = [em |-> g, out |-> NoEvents]
    BY <1>2, <1>4, NothingOut
  <1>5. CASE RotateDue(e, hub, just, over) = EmitRows(f, hub, Only(e.sent, R), R)
    BY <1>1, <1>5, AgainKeeps
  <1> QED BY <1>3, <1>4, <1>5

LEMMA BothKeep ==
  ASSUME NEW a, NEW b, NEW decided, AsDecided(a.value, decided), AsDecided(b.value, decided)
  PROVE  AsDecided(Both(a, b).value, decided)
  BY DEF Both, Over, AsDecided

LEMMA FunnelKeeps ==
  ASSUME NEW recs, NEW forced, Good(em, newest), DOMAIN newest = Rows, act.shown = newest["action"],
         DOMAIN recs \subseteq Rows, "action" \in DOMAIN recs
  PROVE  /\ Good(Funnel(recs, forced).em, Over(recs, newest))
         /\ AsDecided(Funnel(recs, forced).out.value, Over(recs, newest))
  <1> DEFINE n == Over(recs, newest)
             sends == Settle(recs["action"]).sends
             kept == IF sends THEN recs ELSE Only(recs, Rows \ {"action"})
             f == (forced \cap DOMAIN kept) \cup (IF sends THEN {"action"} ELSE {})
  <1>1. (\A r \in DOMAIN recs : n[r] = recs[r]) /\ \A r \in Rows : r \notin DOMAIN recs => n[r] = newest[r]
    BY DEF Over
  <1>2. ~sends => recs["action"] = newest["action"]
    BY DEF Settle
  <1>3. kept = recs \/ (~sends /\ kept = Only(recs, Rows \ {"action"}))
    OBVIOUS
  <1> HIDE DEF n, sends
  <1>4. /\ \A r \in DOMAIN kept : r \in Rows /\ n[r] = kept[r]
        /\ \A r \in Rows : r \notin DOMAIN kept => n[r] = newest[r]
    <2>1. CASE kept = recs
      <3> HIDE DEF kept
      <3> QED BY <1>1, <2>1
    <2>2. CASE ~sends /\ kept = Only(recs, Rows \ {"action"})
      <3> HIDE DEF kept
      <3>1. DOMAIN kept = DOMAIN recs \ {"action"} /\ \A r \in DOMAIN kept : kept[r] = recs[r]
        BY <2>2 DEF Only
      <3>2. n["action"] = newest["action"]
        BY <1>1, <1>2, <2>2
      <3> QED BY <1>1, <3>1, <3>2
    <2> QED BY <1>3, <2>1, <2>2
  <1>5. Funnel(recs, forced) = EmitRows(em, cache, kept, f)
    BY DEF Funnel, sends
  <1> HIDE DEF kept, f
  <1>6. Good(EmitRows(em, cache, kept, f).em, n) /\ AsDecided(EmitRows(em, cache, kept, f).out.value, n)
    BY <1>4, RowsKeep
  <1> QED BY <1>5, <1>6 DEF n

----------------------------------------------------------------------------
CloudStep == \A r \in DOMAIN cloud' : cloud'[r] = newest'[r] \/ Only(cloud, {r}) = Only(cloud', {r})

LEMMA SendShows ==
  ASSUME NEW out, NEW cost, NEW spin, Send(out, cost, spin), AsDecided(out.value, newest')
  PROVE  CloudStep
  <1>1. PICK lost : cloud' = Over(Only(out.value, Arriving(out) \ lost), cloud)
    BY DEF Send
  <1> DEFINE shows == Only(out.value, Arriving(out) \ lost)
  <1>2. \A r \in DOMAIN shows : shows[r] = newest'[r]
    BY DEF Only, AsDecided
  <1> HIDE DEF shows
  <1>3. cloud' = Over(shows, cloud)
    BY <1>1 DEF shows
  <1>4. ASSUME NEW r \in DOMAIN cloud', r \notin DOMAIN shows PROVE Only(cloud, {r}) = Only(cloud', {r})
    <2>1. r \in DOMAIN cloud /\ cloud'[r] = cloud[r]
      BY <1>3, <1>4 DEF Over
    <2> QED BY <2>1 DEF Only
  <1>5. \A r \in DOMAIN shows : cloud'[r] = newest'[r]
    BY <1>2, <1>3 DEF Over
  <1> QED BY <1>4, <1>5 DEF CloudStep

LEMMA SameCloud == ASSUME UNCHANGED cloud PROVE CloudStep
  BY DEF CloudStep

LEMMA EndsKeep ==
  ASSUME NEW recs, NEW forced, NEW by, NEW cost, NEW spin,
         Good(em, newest), DOMAIN newest = Rows, act.shown = newest["action"],
         DOMAIN recs \subseteq Rows, "action" \in DOMAIN recs,
         Ends(recs, forced, by, cost, spin), Decided(recs)
  PROVE  Good(em', newest') /\ CloudStep
  <1> DEFINE rows == Funnel(recs, forced)
  <1>1. Good(rows.em, newest') /\ AsDecided(rows.out.value, newest')
    BY FunnelKeeps DEF Decided
  <1>2. PICK rest, again :
          /\ \/ \E B : rest = PaintNext(rows.em, cache, B)
             \/ rest = [em |-> rows.em, out |-> NoEvents]
             \/ \E just, over : rest = RotateDue(rows.em, cache, just, over)
          /\ again = Resync(rest.em, cache) \/ again = [em |-> rest.em, out |-> NoEvents]
          /\ em' = again.em /\ Send(Both(Both(rows.out, rest.out), again.out), cost, spin)
    BY DEF Ends
  <1> HIDE DEF rows
  <1>3. Good(rest.em, newest') /\ AsDecided(rest.out.value, newest')
    <2>1. CASE \E B : rest = PaintNext(rows.em, cache, B)
      BY <1>1, <2>1, PaintNextKeeps
    <2>2. CASE rest = [em |-> rows.em, out |-> NoEvents]
      BY <1>1, <2>2, NothingOut
    <2>3. CASE \E just, over : rest = RotateDue(rows.em, cache, just, over)
      BY <1>1, <2>3, RotateKeeps
    <2> QED BY <1>2, <2>1, <2>2, <2>3
  <1>4. Good(again.em, newest') /\ AsDecided(again.out.value, newest')
    <2>1. CASE again = Resync(rest.em, cache)
      BY <1>3, <2>1, ResyncKeeps
    <2>2. CASE again = [em |-> rest.em, out |-> NoEvents]
      BY <1>3, <2>2, NothingOut
    <2> QED BY <1>2, <2>1, <2>2
  <1>5. AsDecided(Both(Both(rows.out, rest.out), again.out).value, newest')
    BY <1>1, <1>3, <1>4, BothKeep
  <1> QED BY <1>2, <1>4, <1>5, SendShows

----------------------------------------------------------------------------
(* What the driver remembers of the slots, and the blocks it hears.        *)
Sane(b) == b.scanned => b.on
Heard ==
  /\ Sane(scan.block) /\ Sane(look.block)
  /\ DOMAIN wire = Channels
  /\ \A c \in Channels :
       Sane(wire[c].body) /\ wire[c].type \in {"none", "changed", "shutdown", "app_stop"}
Remembered ==
  /\ st = [power |-> st.power, watch |-> st.watch] /\ DOMAIN st.watch \subseteq Slots
  /\ sure => \A s \in Slots : s \in DOMAIN st.watch /\ newest[s] = st.watch[s]
Decisions ==
  /\ Good(em, newest) /\ DOMAIN newest = Rows
  /\ DOMAIN act = {"shown", "owed"} /\ act.shown = newest["action"]

CardInv == Decisions /\ Remembered /\ Heard

StopStep ==
  \A s \in Slots :
    newest[s] = "running" /\ newest'[s] = "stopped" /\ sure' =>
      \/ TellsStop(Report, s)
      \/ \E c \in Channels :
           wire[c] # wire'[c] /\ (TellsStop(wire[c].body, s) \/ wire[c].type = "shutdown")

LEMMA RowsApart == Slots \cap {"switch", "action"} = {} /\ Rows = {"switch", "action"} \cup Slots
  BY HubCardAssumption DEF Rows

LEMMA BlocksSane ==
  /\ Sane(OffBlock)
  /\ \A l, names : Sane(Match(l, names)) /\ Sane(Listed(l))
  <1>1. Sane(OffBlock)
    BY DEF Sane, OffBlock
  <1>2. \A l, names : Match(l, names).on = TRUE
    BY DEF Match
  <1>3. \A l : Listed(l).scanned = FALSE
    BY DEF Listed, Match
  <1> QED BY <1>1, <1>2, <1>3 DEF Sane

LEMMA ReportSane == ASSUME Heard PROVE Sane(Report)
  BY BlocksSane DEF Report, Current, Heard

LEMMA WatchIs ==
  ASSUME NEW b, NEW w, DOMAIN w \subseteq Slots
  PROVE  /\ DOMAIN WatchState(b, w) \subseteq Slots
         /\ ~b.on => WatchState(b, w) = w
         /\ b.on => DOMAIN WatchState(b, w) = Slots
         /\ b.on => \A s \in Slots : WatchState(b, w)[s] = "stopped" =>
              TellsStop(b, s) \/ (~b.scanned /\ ~(s \in DOMAIN w /\ w[s] = "running"))
  <1>1. CASE ~b.on
    BY <1>1 DEF WatchState
  <1>2. CASE b.on
    <2>1. WatchState(b, w) =
            [s \in Slots |-> IF ~b.scanned /\ s \in Stopped(w) /\ SlotValue(b, s) = "stopped"
                             THEN "running" ELSE SlotValue(b, s)]
      BY <1>2 DEF WatchState
    <2> QED BY <1>2, <2>1 DEF Stopped, TellsStop
  <1> QED BY <1>1, <1>2

LEMMA StatusIs ==
  ASSUME NEW p, NEW w, DOMAIN w \subseteq Slots
  PROVE  LET recs == StatusRows([power |-> p, watch |-> w])
         IN /\ DOMAIN recs = {"switch", "action"} \cup DOMAIN w
            /\ recs["action"] = Resting(p) /\ recs["switch"] = SwitchFor(p)
            /\ \A s \in DOMAIN w : recs[s] = w[s]
  BY RowsApart DEF StatusRows, Over, Row

LEMMA PowerIs ==
  ASSUME NEW p, NEW w, DOMAIN w \subseteq Slots
  PROVE  LET recs == PowerRows([power |-> p, watch |-> w])
         IN /\ DOMAIN recs = {"switch", "action"}
            /\ recs["action"] = Resting(p) /\ recs["switch"] = SwitchFor(p)
  <1> DEFINE all == StatusRows([power |-> p, watch |-> w])
  <1>1. DOMAIN all = {"switch", "action"} \cup DOMAIN w
        /\ all["action"] = Resting(p) /\ all["switch"] = SwitchFor(p)
    BY StatusIs
  <1> HIDE DEF all
  <1>2. PowerRows([power |-> p, watch |-> w]) = Only(all, {"switch", "action"})
    BY DEF PowerRows, all
  <1> QED BY <1>1, <1>2 DEF Only

LEMMA SettleIs ==
  ASSUME NEW target, DOMAIN act = {"shown", "owed"}
  PROVE  DOMAIN Settle(target).act = {"shown", "owed"} /\ Settle(target).act.shown = target
  BY DEF Settle

LEMMA DecidedIs ==
  ASSUME NEW recs, DOMAIN newest = Rows, DOMAIN recs \subseteq Rows, Decided(recs)
  PROVE  /\ DOMAIN newest' = Rows
         /\ \A r \in DOMAIN recs : newest'[r] = recs[r]
         /\ \A r \in Rows : r \notin DOMAIN recs => newest'[r] = newest[r]
  BY DEF Decided, Over

(* A report that is taken: what it says of the slots, and what was shown.  *)
LEMMA ReportTaken ==
  ASSUME Remembered, DOMAIN newest = Rows, NEW b, Sane(b), NEW p,
         NEW recs, recs = StatusRows([power |-> p, watch |-> WatchState(b, st.watch)]), Decided(recs),
         st' = [power |-> p, watch |-> WatchState(b, st.watch)],
         sure' => b.scanned \/ sure
  PROVE  /\ Remembered'
         /\ \A s \in Slots : newest[s] = "running" /\ newest'[s] = "stopped" /\ sure' => TellsStop(b, s)
  <1> DEFINE w == WatchState(b, st.watch)
  <1>1. DOMAIN w \subseteq Slots /\ (~b.on => w = st.watch) /\ (b.on => DOMAIN w = Slots)
        /\ (b.on => \A s \in Slots : w[s] = "stopped" =>
              TellsStop(b, s) \/ (~b.scanned /\ ~(s \in DOMAIN st.watch /\ st.watch[s] = "running")))
    BY WatchIs DEF Remembered
  <1> HIDE DEF w
  <1>2. DOMAIN recs = {"switch", "action"} \cup DOMAIN w /\ \A s \in DOMAIN w : recs[s] = w[s]
    BY <1>1, StatusIs DEF w
  <1>3. \A s \in Slots : (s \in DOMAIN w => newest'[s] = w[s]) /\ (s \notin DOMAIN w => newest'[s] = newest[s])
    BY <1>1, <1>2, DecidedIs, RowsApart
  <1>4. st' = [power |-> p, watch |-> w]
    BY DEF w
  <1>5. sure' => \A s \in Slots : s \in DOMAIN w
    BY <1>1 DEF Sane, Remembered
  <1>6. Remembered'
    BY <1>1, <1>3, <1>4, <1>5 DEF Remembered
  <1>7. ASSUME NEW s \in Slots, newest[s] = "running", newest'[s] = "stopped", sure' PROVE TellsStop(b, s)
    <2>1. s \in DOMAIN w /\ w[s] = "stopped"
      BY <1>3, <1>5, <1>7
    <2>2. CASE b.scanned
      BY <2>1, <2>2, <1>1 DEF Sane
    <2>3. CASE sure
      <3>1. s \in DOMAIN st.watch /\ st.watch[s] = "running"
        BY <1>7, <2>3 DEF Remembered
      <3> QED BY <1>1, <2>1, <3>1
    <2> QED BY <1>7, <2>2, <2>3
  <1> QED BY <1>6, <1>7

RealStop == \A s \in Slots : newest[s] = "running" /\ newest'[s] = "stopped" /\ sure' => TellsStop(Report, s)
NoStop == \A s \in Slots : newest[s] = "running" /\ sure' => newest'[s] # "stopped"

LEMMA PollOkKeeps ==
  ASSUME CardInv, NEW forced, NEW by, NEW cost, NEW spin, PollOk(forced, by, cost, spin)
  PROVE  Decisions' /\ Remembered' /\ CloudStep /\ RealStop /\ UNCHANGED wire
  <1> DEFINE w == WatchState(Report, st.watch)
             recs == StatusRows([power |-> "on", watch |-> w])
  <1>1. /\ st' = [power |-> "on", watch |-> w] /\ act' = Settle(Resting("on")).act
        /\ Ends(recs, forced, by, cost, spin) /\ Decided(recs)
        /\ wire' = wire /\ sure' = (Report.scanned \/ sure)
    BY DEF PollOk
  <1>2. Remembered' /\ RealStop
    <2>1. Sane(Report)
      BY ReportSane DEF CardInv
    <2> QED BY <1>1, <2>1, ReportTaken DEF CardInv, Decisions, RealStop
  <1>3. DOMAIN w \subseteq Slots
    BY WatchIs DEF CardInv, Remembered
  <1> HIDE DEF w
  <1>4. DOMAIN recs = {"switch", "action"} \cup DOMAIN w /\ recs["action"] = Resting("on")
    BY <1>3, StatusIs
  <1> HIDE DEF recs
  <1>5. DOMAIN recs \subseteq Rows /\ "action" \in DOMAIN recs
    BY <1>3, <1>4, RowsApart
  <1>6. Good(em', newest') /\ CloudStep
    BY <1>1, <1>5, EndsKeep DEF CardInv, Decisions
  <1>7. DOMAIN newest' = Rows /\ newest'["action"] = Resting("on")
    BY <1>1, <1>4, <1>5, DecidedIs DEF CardInv, Decisions
  <1>8. DOMAIN act' = {"shown", "owed"} /\ act'.shown = Resting("on")
    BY <1>1, SettleIs DEF CardInv, Decisions
  <1> QED BY <1>1, <1>2, <1>6, <1>7, <1>8 DEF Decisions

(* Rows that follow the power leave the slots as they are.                 *)
LEMMA SlotsStay ==
  ASSUME Remembered, DOMAIN newest = Rows, NEW recs, DOMAIN recs \subseteq {"switch", "action"},
         Decided(recs), NEW p, st' = [power |-> p, watch |-> st.watch], sure' => sure
  PROVE  Remembered' /\ NoStop
  <1>1. \A s \in Slots : newest'[s] = newest[s]
    BY DecidedIs, RowsApart
  <1> QED BY <1>1 DEF Remembered, NoStop

LEMMA PollFailsKeeps ==
  ASSUME CardInv, NEW by, NEW cost, NEW spin, PollFails(by, cost, spin)
  PROVE  Decisions' /\ Remembered' /\ CloudStep /\ NoStop /\ UNCHANGED wire
  <1>1. PICK p, spent :
          /\ st' = [st EXCEPT !.power = p] /\ act' = Settle(Resting(p)).act
          /\ Ends(PowerRows([st EXCEPT !.power = p]), {}, by, spent, spin)
          /\ Decided(PowerRows([st EXCEPT !.power = p]))
          /\ UNCHANGED <<wire, sure>>
    BY DEF PollFails
  <1> DEFINE recs == PowerRows([power |-> p, watch |-> st.watch])
  <1>2. [st EXCEPT !.power = p] = [power |-> p, watch |-> st.watch]
    BY DEF CardInv, Remembered
  <1>3. DOMAIN recs = {"switch", "action"} /\ recs["action"] = Resting(p)
    BY PowerIs DEF CardInv, Remembered
  <1>4. Ends(recs, {}, by, spent, spin) /\ Decided(recs)
    BY <1>1, <1>2
  <1> HIDE DEF recs
  <1>5. DOMAIN recs \subseteq Rows /\ "action" \in DOMAIN recs
    BY <1>3, RowsApart
  <1>6. Good(em', newest') /\ CloudStep
    BY <1>4, <1>5, EndsKeep DEF CardInv, Decisions
  <1>7. DOMAIN newest' = Rows /\ newest'["action"] = Resting(p)
    BY <1>3, <1>4, <1>5, DecidedIs DEF CardInv, Decisions
  <1>8. DOMAIN act' = {"shown", "owed"} /\ act'.shown = Resting(p)
    BY <1>1, SettleIs DEF CardInv, Decisions
  <1>9. Remembered' /\ NoStop
    BY <1>1, <1>2, <1>3, <1>4, SlotsStay DEF CardInv, Decisions
  <1> QED BY <1>1, <1>6, <1>7, <1>8, <1>9 DEF Decisions

LEMMA AllStays ==
  ASSUME CardInv, UNCHANGED <<em, newest, act, st, cloud>>, sure' => sure
  PROVE  Decisions' /\ Remembered' /\ CloudStep /\ NoStop
  <1>1. Remembered' /\ NoStop
    BY DEF CardInv, Remembered, NoStop
  <1> QED BY <1>1, SameCloud DEF CardInv, Decisions

LEMMA PollKeeps ==
  ASSUME CardInv, NEW forced, NEW by, NEW cost, NEW spin, Poll(forced, by, cost, spin)
  PROVE  Decisions' /\ Remembered' /\ CloudStep /\ RealStop /\ UNCHANGED wire
  <1>1. CASE PollOk(forced, by, cost, spin)
    BY <1>1, PollOkKeeps
  <1>2. CASE PollFails(by, cost, spin)
    BY <1>2, PollFailsKeeps DEF NoStop, RealStop
  <1>3. CASE PollLimited(cost, spin)
    BY <1>3, AllStays DEF PollLimited, NoStop, RealStop, history
  <1> QED BY <1>1, <1>2, <1>3 DEF Poll

LEMMA RepaintKeeps ==
  ASSUME CardInv, Repaint, UNCHANGED <<st, sure, cloud>>
  PROVE  Decisions' /\ Remembered' /\ CloudStep /\ NoStop
  <1> DEFINE recs == RepaintRows
             f == Forget(em)
  <1>1. em' = Paint(f, recs) /\ Decided(recs) /\ act' = [shown |-> Resting(st.power), owed |-> "no"]
    BY DEF Repaint
  <1>2. DOMAIN KeptWatch \subseteq Slots
    BY DEF KeptWatch, Over, Only, CardInv, Remembered
  <1>3. /\ DOMAIN recs = {"action"} \cup Slots
        /\ recs["action"] = Resting(st.power)
        /\ \A s \in Slots : recs[s] = IF s \in DOMAIN KeptWatch THEN KeptWatch[s] ELSE "empty"
    BY <1>2, RowsApart DEF RepaintRows, Over, Row
  <1> HIDE DEF recs
  <1>4. DOMAIN recs \subseteq Rows
    BY <1>3, RowsApart
  <1>5. /\ DOMAIN newest' = Rows
        /\ \A r \in DOMAIN recs : newest'[r] = recs[r]
        /\ \A r \in Rows : r \notin DOMAIN recs => newest'[r] = newest[r]
    BY <1>1, <1>4, DecidedIs DEF CardInv, Decisions
  <1>6. Good(em', newest')
    <2>1. /\ DOMAIN f = FunnelFields /\ f.sent = NoRows /\ f.seedOff = TRUE
          /\ f.waiting = em.waiting /\ f.painting = em.painting
      BY DEF Forget, CardInv, Decisions, Good, FunnelFields
    <2> HIDE DEF f
    <2>2. /\ DOMAIN em' = FunnelFields /\ em'.sent = NoRows /\ em'.seedOff = TRUE
          /\ em'.waiting = Over(recs, em.waiting) /\ em'.painting = TRUE
      BY <1>1, <2>1 DEF Paint, FunnelFields
    <2>3. AsDecided(Over(recs, em.waiting), newest')
      BY <1>4, <1>5 DEF Over, AsDecided, CardInv, Decisions, Good
    <2>4. AsDecided(NoRows, newest')
      BY DEF AsDecided, NoRows
    <2> QED BY <2>2, <2>3, <2>4 DEF Good
  <1>7. Decisions'
    BY <1>1, <1>3, <1>5, <1>6 DEF Decisions
  <1>8. sure => \A s \in Slots : newest'[s] = newest[s]
    <2> SUFFICES ASSUME sure, NEW s \in Slots PROVE newest'[s] = newest[s]
      OBVIOUS
    <2>1. s \in DOMAIN st.watch /\ newest[s] = st.watch[s]
      BY DEF CardInv, Remembered
    <2>2. st.watch # NoWatch
      BY <2>1 DEF NoWatch
    <2>3. KeptWatch = st.watch
      BY <2>2 DEF KeptWatch
    <2> QED BY <1>3, <1>5, <2>1, <2>3
  <1>9. Remembered'
    BY <1>8 DEF CardInv, Remembered
  <1> QED BY <1>7, <1>8, <1>9, SameCloud DEF NoStop

(* A batch goes out.                                                       *)
LEMMA BatchKeeps ==
  ASSUME CardInv, BatchDue
  PROVE  Decisions' /\ Remembered' /\ CloudStep /\ NoStop
  <1>1. PICK B : em' = PaintNext(em, cache, B).em /\ Send(PaintNext(em, cache, B).out, 0, {})
    BY DEF BatchDue
  <1>2. newest' = newest /\ act' = act /\ st' = st /\ sure' = sure
    BY DEF BatchDue, history
  <1>3. Good(em', newest') /\ AsDecided(PaintNext(em, cache, B).out.value, newest')
    BY <1>1, <1>2, PaintNextKeeps DEF CardInv, Decisions
  <1>4. CloudStep
    BY <1>1, <1>3, SendShows
  <1>5. Remembered' /\ NoStop
    BY <1>2 DEF CardInv, Remembered, NoStop
  <1> QED BY <1>2, <1>3, <1>4, <1>5 DEF CardInv, Decisions

(* One of the two rows that follow the power goes out, changed or not.     *)
LEMMA AnswerKeeps ==
  ASSUME CardInv, NEW row \in {"switch", "action"}, UNCHANGED <<st, sure>>,
         em' = EmitRows(em, cache, Only(PowerRows(st), {row}), {row}).em,
         Send(EmitRows(em, cache, Only(PowerRows(st), {row}), {row}).out, 1, {row}),
         Decided(Only(PowerRows(st), {row}))
  PROVE  Good(em', newest') /\ DOMAIN newest' = Rows /\ Remembered' /\ CloudStep /\ NoStop
         /\ newest'["action"] = IF row = "action" THEN Resting(st.power) ELSE newest["action"]
  <1> DEFINE recs == Only(PowerRows(st), {row})
  <1>1. st = [power |-> st.power, watch |-> st.watch] /\ DOMAIN st.watch \subseteq Slots
    BY DEF CardInv, Remembered
  <1>2. DOMAIN PowerRows(st) = {"switch", "action"} /\ PowerRows(st)["action"] = Resting(st.power)
    BY <1>1, PowerIs
  <1>3. DOMAIN recs = {row} /\ (row = "action" => recs[row] = Resting(st.power))
    BY <1>2 DEF Only
  <1> HIDE DEF recs
  <1>4. DOMAIN recs \subseteq Rows
    BY <1>3, RowsApart
  <1>5. /\ DOMAIN newest' = Rows
        /\ \A r \in DOMAIN recs : newest'[r] = recs[r]
        /\ \A r \in Rows : r \notin DOMAIN recs => newest'[r] = newest[r]
    BY <1>4, DecidedIs DEF CardInv, Decisions, recs
  <1>6. \A r \in DOMAIN recs : r \in Rows /\ newest'[r] = recs[r]
    BY <1>4, <1>5
  <1>7. Good(em', newest') /\ AsDecided(EmitRows(em, cache, recs, {row}).out.value, newest')
    <2>1. em' = EmitRows(em, cache, recs, {row}).em
      BY DEF recs
    <2> QED BY <1>5, <1>6, <2>1, RowsKeep DEF CardInv, Decisions
  <1>8. CloudStep
    BY <1>7, SendShows DEF recs
  <1>9. Remembered' /\ NoStop
    <2>1. Decided(recs) /\ DOMAIN recs \subseteq {"switch", "action"}
      BY <1>3 DEF recs
    <2> QED BY <1>1, <2>1, SlotsStay DEF CardInv, Decisions, Remembered
  <1> QED BY <1>3, <1>5, <1>7, <1>8, <1>9, RowsApart

LEMMA RefusedKeeps ==
  ASSUME CardInv, SwitchRefused
  PROVE  Decisions' /\ Remembered' /\ CloudStep /\ NoStop
  <1>1. /\ em' = EmitRows(em, cache, Only(PowerRows(st), {"switch"}), {"switch"}).em
        /\ Send(EmitRows(em, cache, Only(PowerRows(st), {"switch"}), {"switch"}).out, 1, {"switch"})
        /\ Decided(Only(PowerRows(st), {"switch"}))
        /\ UNCHANGED <<st, sure, act>>
    BY DEF SwitchRefused
  <1>2. Good(em', newest') /\ DOMAIN newest' = Rows /\ Remembered' /\ CloudStep /\ NoStop
        /\ newest'["action"] = newest["action"]
    BY <1>1, AnswerKeeps
  <1> QED BY <1>1, <1>2 DEF CardInv, Decisions

LEMMA ExecuteKeeps ==
  ASSUME CardInv, Execute
  PROVE  Decisions' /\ Remembered' /\ CloudStep /\ NoStop
  <1>1. /\ em' = EmitRows(em, cache, Only(PowerRows(st), {"action"}), {"action"}).em
        /\ Send(EmitRows(em, cache, Only(PowerRows(st), {"action"}), {"action"}).out, 1, {"action"})
        /\ Decided(Only(PowerRows(st), {"action"}))
        /\ act' = [shown |-> Resting(st.power), owed |-> "no"]
        /\ UNCHANGED <<st, sure>>
    BY DEF Execute
  <1>2. Good(em', newest') /\ DOMAIN newest' = Rows /\ Remembered' /\ CloudStep /\ NoStop
        /\ newest'["action"] = Resting(st.power)
    BY <1>1, AnswerKeeps
  <1> QED BY <1>1, <1>2 DEF Decisions

(* A push arrives: the status it carries, and its announcement on top.     *)
PushState(type, body) ==
  LET watch == WatchState(body, st.watch)
  IN CASE type = "changed" -> [power |-> "on", watch |-> watch]
       [] type = "shutdown" -> [power |-> "stopping", watch |-> StopWatch(watch)]
       [] type = "app_stop" -> [power |-> IF Transition(st.power) THEN st.power ELSE "on", watch |-> watch]

LEMMA DeliverKeeps ==
  ASSUME CardInv, NEW c \in Channels, Deliver(c)
  PROVE  CardInv' /\ CloudStep /\ StopStep
  <1> DEFINE m == wire[c]
             s == PushState(m.type, m.body)
             recs == IF m.type = "app_stop" THEN PowerRows(s) ELSE StatusRows(s)
             forced == IF m.type = "shutdown" THEN Stopped(WatchState(m.body, st.watch)) ELSE {}
  <1>1. /\ st' = s /\ act' = Settle(recs["action"]).act
        /\ em' = Funnel(recs, forced).em /\ Send(Funnel(recs, forced).out, 0, {}) /\ Decided(recs)
        /\ sure' = (m.type # "app_stop" /\ (m.body.scanned \/ sure))
        /\ m.type # "none" /\ wire' = [wire EXCEPT ![c] = NoPush]
        /\ UNCHANGED <<scan, look>>
    BY DEF Deliver, PushState, computer, watching
  <1>2. Sane(m.body) /\ m.type \in {"changed", "shutdown", "app_stop"}
    BY <1>1 DEF CardInv, Heard
  <1> DEFINE w == WatchState(m.body, st.watch)
  <1>3. /\ DOMAIN w \subseteq Slots /\ DOMAIN StopWatch(w) \subseteq Slots
        /\ m.body.scanned \/ sure => DOMAIN w = Slots
    <2>1. DOMAIN w \subseteq Slots /\ (m.body.on => DOMAIN w = Slots) /\ (~m.body.on => w = st.watch)
      BY WatchIs DEF CardInv, Remembered
    <2> HIDE DEF w
    <2>2. DOMAIN StopWatch(w) = DOMAIN w
      BY DEF StopWatch
    <2>3. CASE m.body.on
      BY <2>1, <2>2, <2>3
    <2>4. CASE ~m.body.on
      <3>1. ~m.body.scanned
        BY <1>2, <2>4 DEF Sane
      <3>2. sure => DOMAIN st.watch = Slots
        BY DEF CardInv, Remembered
      <3> QED BY <2>1, <2>2, <2>4, <3>1, <3>2
    <2> QED BY <2>3, <2>4
  <1>4. PICK p, v :
          /\ s = [power |-> p, watch |-> v] /\ DOMAIN v \subseteq Slots
          /\ m.type = "changed" => v = w
          /\ m.type = "shutdown" => v = StopWatch(w)
          /\ m.type = "app_stop" => v = w
    BY <1>2, <1>3 DEF PushState
  <1> HIDE DEF w, s
  <1>5. \/ m.type # "app_stop" /\ recs = StatusRows([power |-> p, watch |-> v])
        \/ m.type = "app_stop" /\ recs = PowerRows([power |-> p, watch |-> v])
    BY <1>4
  <1>6. /\ DOMAIN recs \subseteq Rows /\ "action" \in DOMAIN recs /\ recs["action"] = Resting(p)
        /\ m.type # "app_stop" => DOMAIN v \subseteq DOMAIN recs /\ \A q \in DOMAIN v : recs[q] = v[q]
    <2>1. CASE m.type # "app_stop" /\ recs = StatusRows([power |-> p, watch |-> v])
      <3> DEFINE all == StatusRows([power |-> p, watch |-> v])
      <3>1. /\ DOMAIN all = {"switch", "action"} \cup DOMAIN v /\ all["action"] = Resting(p)
            /\ \A q \in DOMAIN v : all[q] = v[q]
        BY <1>4, StatusIs
      <3> HIDE DEF all, recs
      <3> QED BY <1>4, <2>1, <3>1, RowsApart DEF all
    <2>2. CASE m.type = "app_stop" /\ recs = PowerRows([power |-> p, watch |-> v])
      <3> DEFINE all == PowerRows([power |-> p, watch |-> v])
      <3>1. DOMAIN all = {"switch", "action"} /\ all["action"] = Resting(p)
        BY <1>4, PowerIs
      <3> HIDE DEF all, recs
      <3> QED BY <2>2, <3>1, RowsApart DEF all
    <2> QED BY <1>5, <2>1, <2>2
  <1> HIDE DEF recs, forced, m
  <1>7. /\ DOMAIN newest' = Rows
        /\ \A r \in DOMAIN recs : newest'[r] = recs[r]
    BY <1>1, <1>6, DecidedIs DEF CardInv, Decisions
  <1>8. Good(em', newest') /\ CloudStep
    <2>1. Good(em', newest') /\ AsDecided(Funnel(recs, forced).out.value, newest')
      BY <1>1, <1>6, FunnelKeeps DEF CardInv, Decisions, Decided
    <2> QED BY <1>1, <2>1, SendShows
  <1>9. Decisions'
    <2>1. DOMAIN act' = {"shown", "owed"} /\ act'.shown = Resting(p)
      BY <1>1, <1>6, SettleIs DEF CardInv, Decisions
    <2> QED BY <1>6, <1>7, <1>8, <2>1 DEF Decisions
  <1>10. sure' => DOMAIN v = Slots /\ \A q \in Slots : newest'[q] = v[q]
    <2>1. sure' => DOMAIN v = Slots
      <3>1. DOMAIN StopWatch(w) = DOMAIN w
        BY DEF StopWatch
      <3> QED BY <1>1, <1>2, <1>3, <1>4, <3>1
    <2> QED BY <1>1, <1>6, <1>7, <2>1
  <1>11. Remembered'
    BY <1>1, <1>4, <1>10 DEF Remembered
  <1>12. Heard' /\ wire'[c] # wire[c]
    <2>1. wire' = [wire EXCEPT ![c] = NoPush] /\ wire[c].type # "none"
      BY <1>1 DEF m
    <2>2. NoPush.type = "none" /\ Sane(NoPush.body)
      BY BlocksSane DEF NoPush
    <2> QED BY <1>1, <2>1, <2>2 DEF Heard, CardInv
  <1>13. StopStep
    <2> SUFFICES ASSUME NEW q \in Slots, newest[q] = "running", newest'[q] = "stopped", sure'
                 PROVE  TellsStop(wire[c].body, q) \/ wire[c].type = "shutdown"
      BY <1>12 DEF StopStep
    <2>1. CASE m.type = "shutdown"
      BY <2>1 DEF m
    <2>2. CASE m.type = "changed"
      <3>1. w[q] = "stopped" /\ (m.body.scanned \/ sure)
        BY <1>1, <1>4, <1>10, <2>2
      <3>2. /\ ~m.body.on => w = st.watch
            /\ m.body.on => (w[q] = "stopped" =>
                 TellsStop(m.body, q) \/ (~m.body.scanned /\ ~(q \in DOMAIN st.watch /\ st.watch[q] = "running")))
        BY WatchIs DEF CardInv, Remembered, w
      <3>3. sure => q \in DOMAIN st.watch /\ st.watch[q] = "running"
        BY DEF CardInv, Remembered
      <3>4. TellsStop(m.body, q)
        BY <1>2, <3>1, <3>2, <3>3 DEF Sane
      <3> QED BY <3>4 DEF m
    <2> QED BY <1>1, <1>2, <2>1, <2>2
  <1> QED BY <1>8, <1>9, <1>11, <1>12, <1>13 DEF CardInv

(* A restart forgets; the funnel begins afresh.                            *)
LEMMA RestartKeeps ==
  ASSUME CardInv, DriverRestarts
  PROVE  CardInv' /\ CloudStep /\ StopStep
  <1>1. /\ st' = New /\ em' = Fresh /\ act' = [act EXCEPT !.owed = "no"] /\ sure' = FALSE
        /\ wire' = [c \in Channels |-> NoPush]
        /\ UNCHANGED <<scan, look, newest, cloud>>
    BY DEF DriverRestarts, computer, watching, shown
  <1>2. Decisions'
    <2>1. Good(Fresh, newest)
      BY DEF Good, Fresh, FunnelFields, AsDecided, NoRows
    <2> QED BY <1>1, <2>1 DEF Decisions, CardInv
  <1>3. Remembered'
    BY <1>1 DEF Remembered, New, NoWatch
  <1>4. Heard'
    BY <1>1, BlocksSane DEF Heard, CardInv, NoPush
  <1> QED BY <1>1, <1>2, <1>3, <1>4, SameCloud DEF CardInv, StopStep

(* What a scan finds is a block that is on, or not scanned.                *)
LEMMA FoundSane == ASSUME Sane(scan.block), NEW l, NEW ok, NEW names PROVE Sane(Found(l, ok, names))
  BY BlocksSane DEF Found

(* The PC's own steps: nothing of the driver or the cloud changes.         *)
LEMMA ComputerKeeps ==
  ASSUME CardInv,
         \/ ScanBegins \/ ScanEnds \/ UserSaves \/ UserRuns \/ WorkerPosts
         \/ (\E m \in {"shutdown", "app_stop"} : PcAnnounces(m)) \/ PcGoes \/ PcReturns
  PROVE  CardInv' /\ CloudStep /\ StopStep
  <1>1. UNCHANGED <<st, act, em, cloud, newest, sure>>
    BY DEF ScanBegins, ScanEnds, UserSaves, UserRuns, WorkerPosts, PcAnnounces, PcGoes, PcReturns,
           driver, shown, history
  <1>2. Heard'
    <2>1. Sane(scan.block) /\ Sane(look.block) /\ Sane(Report)
      BY ReportSane DEF CardInv, Heard
    <2>2. CASE ScanBegins
      <3>1. PICK found : look' = [at |-> "read", for |-> list, block |-> found] /\ Sane(found)
        <4>1. \E ok \in BOOLEAN : ScanReads(ok)
          BY <2>2 DEF ScanBegins
        <4>2. PICK ok \in BOOLEAN : look' = [at |-> "read", for |-> list, block |-> Found(list, ok, alive)]
          BY <4>1 DEF ScanReads
        <4>3. Sane(Found(list, ok, alive))
          BY <2>1, FoundSane
        <4> DEFINE found == Found(list, ok, alive)
        <4> HIDE DEF found
        <4>4. look' = [at |-> "read", for |-> list, block |-> found] /\ Sane(found)
          BY <4>2, <4>3 DEF found
        <4> QED BY <4>4
      <3>2. scan' = scan /\ wire' = wire
        BY <2>2 DEF ScanBegins, ScanReads
      <3>3. Sane(look'.block)
        BY <3>1
      <3> QED BY <2>1, <3>2, <3>3 DEF Heard, CardInv
    <2>3. CASE ScanEnds
      <3>1. look' = NoLook /\ scan' = [known |-> TRUE, for |-> look.for, block |-> look.block] /\ wire' = wire
        BY <2>3 DEF ScanEnds, ScanStores
      <3> QED BY <2>1, <3>1, BlocksSane DEF Heard, CardInv, NoLook
    <2>4. CASE UserSaves \/ UserRuns \/ PcReturns
      BY <2>4 DEF UserSaves, UserRuns, PcReturns, ListSaved, ProgramChanges, watching, Heard, CardInv
    <2>5. CASE WorkerPosts
      <3>1. wire' = [wire EXCEPT !["queue"] = [type |-> "changed", body |-> Report]]
            /\ scan' = scan /\ look' = look
        BY <2>5 DEF WorkerPosts, watching
      <3> QED BY <2>1, <3>1 DEF Heard, CardInv
    <2>6. CASE \E m \in {"shutdown", "app_stop"} : PcAnnounces(m)
      <3>1. PICK m \in {"shutdown", "app_stop"} :
              /\ wire' = [wire EXCEPT !["inline"] = [type |-> m, body |-> Report]]
              /\ scan' = scan /\ look' = look
        BY <2>6 DEF PcAnnounces, watching
      <3> QED BY <2>1, <3>1 DEF Heard, CardInv
    <2>7. CASE PcGoes
      <3>1. scan' = NoScan /\ look' = NoLook /\ wire' = wire
        BY <2>7 DEF PcGoes, ScannerGone
      <3> QED BY <3>1, BlocksSane DEF Heard, CardInv, NoScan, NoLook
    <2> QED BY <2>2, <2>3, <2>4, <2>5, <2>6, <2>7
  <1>3. Decisions' /\ Remembered' /\ CloudStep /\ NoStop
    BY <1>1, AllStays
  <1> QED BY <1>2, <1>3 DEF CardInv, NoStop, StopStep

(* The driver's steps that are no delivery and no restart: what the PC has *)
(* on its way stays.                                                       *)
LEMMA DriverKeeps ==
  ASSUME CardInv, UNCHANGED <<computer, wire>>,
         \/ TimerPolls \/ BatchDue \/ WindowCloses \/ SwitchAnswered \/ SwitchRefused
         \/ SwitchFails \/ Execute \/ BatteryMoves \/ BatteryRepaints \/ ProfileLands
         \/ InfoChanged \/ RepaintPolls \/ DriverUpdate
  PROVE  CardInv' /\ CloudStep /\ StopStep
  <1>1. Decisions' /\ Remembered' /\ CloudStep /\ RealStop
    <2>1. CASE TimerPolls
      BY <2>1, PollKeeps DEF TimerPolls
    <2>2. CASE BatchDue
      BY <2>2, BatchKeeps DEF NoStop, RealStop
    <2>3. CASE WindowCloses
      <3>1. CASE Poll({"switch"}, "answer", 0, {})
        BY <3>1, PollKeeps
      <3>2. CASE UNCHANGED <<st, act, em, shown, history>>
        BY <3>2, AllStays DEF shown, history, NoStop, RealStop
      <3> QED BY <2>3, <3>1, <3>2 DEF WindowCloses
    <2>4. CASE SwitchAnswered
      <3>1. CASE Poll({"switch"}, "answer", 1, {"switch"})
        BY <3>1, PollKeeps
      <3>2. CASE UNCHANGED <<st, act, em, cloud, history>>
        BY <3>2, AllStays DEF history, NoStop, RealStop
      <3> QED BY <2>4, <3>1, <3>2 DEF SwitchAnswered
    <2>5. CASE SwitchRefused
      BY <2>5, RefusedKeeps DEF NoStop, RealStop
    <2>6. CASE Execute
      BY <2>6, ExecuteKeeps DEF NoStop, RealStop
    <2>7. CASE SwitchFails \/ BatteryMoves
      <3>1. UNCHANGED <<em, newest, act, st, cloud, sure>>
        BY <2>7 DEF SwitchFails, BatteryMoves, driver, shown, history
      <3> QED BY <3>1, AllStays DEF NoStop, RealStop
    <2>8. CASE BatteryRepaints \/ InfoChanged \/ DriverUpdate
      <3>1. Repaint /\ UNCHANGED <<st, sure, cloud>>
        BY <2>8 DEF BatteryRepaints, InfoChanged, DriverUpdate, shown
      <3> QED BY <3>1, RepaintKeeps DEF NoStop, RealStop
    <2>9. CASE ProfileLands
      <3>1. cloud' = NoRows /\ UNCHANGED <<em, newest, act, st, sure>>
        BY <2>9 DEF ProfileLands, driver, history
      <3>2. CloudStep
        BY <3>1 DEF CloudStep, NoRows
      <3> QED BY <3>1, <3>2 DEF CardInv, Decisions, Remembered, RealStop
    <2>10. CASE RepaintPolls
      BY <2>10, PollKeeps DEF RepaintPolls
    <2> QED BY <2>1, <2>2, <2>3, <2>4, <2>5, <2>6, <2>7, <2>8, <2>9, <2>10
  <1>2. Heard'
    BY DEF Heard, CardInv, computer, watching
  <1> QED BY <1>1, <1>2 DEF CardInv, RealStop, StopStep

(* A push that is lost.                                                    *)
LEMMA LoseKeeps ==
  ASSUME CardInv, NEW c \in Channels, Lose(c)
  PROVE  CardInv' /\ CloudStep /\ StopStep
  <1>1. /\ wire' = [wire EXCEPT ![c] = NoPush]
        /\ UNCHANGED <<em, newest, act, st, cloud, sure, scan, look>>
    BY DEF Lose, driver, shown, history, computer, watching
  <1>2. Heard'
    BY <1>1, BlocksSane DEF Heard, CardInv, NoPush
  <1>3. Decisions' /\ Remembered' /\ CloudStep /\ NoStop
    BY <1>1, AllStays
  <1> QED BY <1>2, <1>3 DEF CardInv, NoStop, StopStep

LEMMA WireStays ==
  ASSUME CardInv,
         \/ TimerPolls \/ BatchDue \/ WindowCloses \/ SwitchAnswered \/ SwitchRefused
         \/ SwitchFails \/ Execute \/ BatteryMoves \/ BatteryRepaints \/ ProfileLands
         \/ InfoChanged \/ RepaintPolls \/ DriverUpdate
  PROVE  UNCHANGED <<computer, wire>>
  <1>1. ASSUME NEW forced, NEW by, NEW cost, NEW spin, Poll(forced, by, cost, spin) PROVE UNCHANGED wire
    BY <1>1 DEF Poll, PollOk, PollFails, PollLimited
  <1> QED BY <1>1 DEF TimerPolls, BatchDue, WindowCloses, SwitchAnswered, SwitchRefused, SwitchFails,
    Execute, BatteryMoves, BatteryRepaints, ProfileLands, InfoChanged, RepaintPolls, DriverUpdate

LEMMA CardStep ==
  ASSUME CardInv, [CardNext]_<<cardVars, beat>>
  PROVE  CardInv' /\ CloudStep /\ StopStep
  <1>1. CASE TimerPolls
    BY <1>1, DriverKeeps, WireStays
  <1>2. CASE Other
    <2>1. CASE \/ BatchDue \/ WindowCloses \/ SwitchAnswered \/ SwitchRefused
               \/ SwitchFails \/ Execute \/ BatteryMoves \/ BatteryRepaints \/ ProfileLands
               \/ InfoChanged \/ RepaintPolls \/ DriverUpdate
      BY <2>1, DriverKeeps, WireStays
    <2>2. CASE \E c \in Channels : Deliver(c) \/ Lose(c)
      BY <2>2, DeliverKeeps, LoseKeeps
    <2>3. CASE DriverRestarts
      BY <2>3, RestartKeeps
    <2>4. CASE \/ ScanBegins \/ ScanEnds \/ UserSaves \/ UserRuns \/ WorkerPosts
               \/ (\E m \in {"shutdown", "app_stop"} : PcAnnounces(m)) \/ PcGoes \/ PcReturns
      BY <2>4, ComputerKeeps
    <2> QED BY <1>2, <2>1, <2>2, <2>3, <2>4 DEF Other
  <1>3. CASE UNCHANGED <<cardVars, beat>>
    <2>1. UNCHANGED <<em, newest, act, st, cloud, sure, scan, look, wire>>
      BY <1>3 DEF cardVars, computer, watching, driver, shown, history
    <2>2. Heard'
      BY <2>1 DEF Heard, CardInv
    <2>3. Decisions' /\ Remembered' /\ CloudStep /\ NoStop
      BY <2>1, AllStays
    <2> QED BY <2>2, <2>3 DEF CardInv, NoStop, StopStep
  <1> QED BY <1>1, <1>2, <1>3 DEF CardNext

LEMMA CardBegins == ASSUME CardInit PROVE CardInv
  <1>1. Decisions
    <2>1. em = Fresh /\ act = [shown |-> "none", owed |-> "no"] /\ newest = cache
          /\ cache = [r \in Rows |-> CASE r = "switch" -> "on" [] r = "action" -> "none" [] OTHER -> "stopped"]
      BY DEF CardInit
    <2>2. Good(Fresh, newest)
      BY DEF Good, Fresh, FunnelFields, AsDecided, NoRows
    <2>3. "action" \in Rows
      BY RowsApart
    <2>4. newest["action"] = "none" /\ DOMAIN newest = Rows
      BY <2>1, <2>3
    <2> QED BY <2>1, <2>2, <2>4 DEF Decisions
  <1>2. Remembered
    BY DEF CardInit, Remembered, New, NoWatch
  <1>3. Heard
    BY BlocksSane DEF CardInit, Heard, NoScan, NoLook, NoPush
  <1> QED BY <1>1, <1>2, <1>3 DEF CardInv

(* The invariant of the driver: whatever its funnel has sent or keeps      *)
(* waiting is what was decided last.                                       *)
THEOREM FunnelHoldsDecided == CardSpec => []CardInv
  <1>1. CardInit => CardInv
    BY CardBegins
  <1>2. CardInv /\ [CardNext]_<<cardVars, beat>> => CardInv'
    BY CardStep
  <1> QED BY <1>1, <1>2, PTL DEF CardSpec

(* device/emit.lua: whatever a poll, a push, a command, a paint, the        *)
(* rotation or a resync sends, and whatever is lost of it, the app comes to *)
(* show no value of a row but the one decided for it last.                  *)
THEOREM OnlyTheNewest == CardSpec => NewestGoesOut
  <1>1. CardInv /\ [CardNext]_<<cardVars, beat>> =>
          [\A r \in DOMAIN cloud' : cloud'[r] = newest'[r] \/ Only(cloud, {r}) = Only(cloud', {r})]_cardVars
    BY CardStep DEF CloudStep
  <1> QED BY <1>1, FunnelHoldsDecided, PTL DEF CardSpec, NewestGoesOut

(* features.lua: while the driver remembers what it decided, a slot goes    *)
(* from running to stopped only by the report of a list that was scanned    *)
(* and found the program gone, or by the push of a PC that shuts down.      *)
THEOREM NoStopMadeUp == CardSpec => StopsAreReal
  <1>1. CardInv /\ [CardNext]_<<cardVars, beat>> =>
          [\A s \in Slots :
             newest[s] = "running" /\ newest'[s] = "stopped" /\ sure' =>
               \/ TellsStop(Report, s)
               \/ \E c \in Channels :
                    wire[c] # wire'[c] /\ (TellsStop(wire[c].body, s) \/ wire[c].type = "shutdown")]_cardVars
    BY CardStep DEF StopStep
  <1> QED BY <1>1, FunnelHoldsDecided, PTL DEF CardSpec, StopsAreReal
=============================================================================
