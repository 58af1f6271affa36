------------------------------- MODULE StPush -------------------------------
(***************************************************************************)
(* Pushing events to the SmartThings hubs: service/stapi/push.go.          *)
(*                                                                         *)
(* The store of subscriptions is changed by the hubs' requests, by expiry, *)
(* and by the outcome of deliveries that began earlier.  Two goroutines    *)
(* deliver: the worker, one queued event at a time, and the emitter of     *)
(* power.stopping, inline and within a deadline.  A subscription may be    *)
(* renewed, replaced, removed or expire while posts to it are under way.   *)
(***************************************************************************)
EXTENDS Naturals, Sequences, Functions

CONSTANTS
  Hosts,          \* the hubs
  Ports,          \* the ports a hub's driver may listen on, one per driver run
  QueueCapacity,  \* pushQueueCap
  MaxFailures,    \* PushMaxFailures
  MaxIds,         \* bound: how many subscriptions are ever created
  MaxEvents,      \* bound: how many events are emitted
  MaxRenewals     \* bound: how often a subscription is renewed

(* PushMaxFailures exceeds the number of goroutines that deliver. *)
ASSUME PushAssumption ==
  /\ QueueCapacity \in Nat \ {0} /\ MaxFailures \in Nat /\ MaxFailures > 2
  /\ MaxIds \in Nat /\ MaxEvents \in Nat /\ MaxRenewals \in Nat
  /\ Ports # {}

VARIABLES
  subs,     \* byID: id -> [callback, failures]
  byCall,   \* byCall: callback -> id
  lapsed,   \* ids past their ExpiresAt, still in the store until it is swept
  nextID, renewals,
  port,     \* the port each hub's driver listens on now
  ver,      \* the state of the PC: how many changes, each with its event
  queue,    \* events waiting for the worker
  sending,  \* what each delivering goroutine is doing
  last,     \* history: the last queued event each hub received
  behind,   \* history: ids neither told of the last change nor failing to be
  stale,    \* history: posts that began before the subscription was renewed
  ownFail   \* history: ids that failed a post begun after their last renewal

store == <<subs, byCall, lapsed, nextID, renewals>>
hubs  == <<last, behind>>
marks == <<stale, ownFail>>
vars  == <<store, port, ver, queue, sending, hubs, marks>>

Callbacks == Hosts \X Ports
Host(c) == c[1]
Ids == 1..MaxIds
Senders == {"worker", "stop"}
Idle == [job |-> 0, body |-> 0, over |-> FALSE, posts |-> <<>>]
Listening(c) == port[Host(c)] = c[2]

Init ==
  /\ subs = <<>> /\ byCall = <<>> /\ lapsed = {} /\ nextID = 0 /\ renewals = 0
  /\ port = [h \in Hosts |-> CHOOSE p \in Ports : TRUE]
  /\ ver = 0 /\ queue = <<>> /\ sending = [d \in Senders |-> Idle]
  /\ last = [h \in Hosts |-> 0] /\ behind = {} /\ stale = {} /\ ownFail = {}

----------------------------------------------------------------------------
(* sweepLocked, which every access to the store starts with. *)
Unexpired == Restrict(subs, DOMAIN subs \ lapsed)
CallsOf(s) == [c \in {s[i].callback : i \in DOMAIN s} |->
                 CHOOSE i \in DOMAIN s : s[i].callback = c]
With(f, x, v) == [y \in DOMAIN f \cup {x} |-> IF y = x THEN v ELSE f[y]]
(* Deletes the ids from both maps. *)
Without(s, ids) == Restrict(s, DOMAIN s \ ids)
CallsWithout(ids) == Restrict(byCall, DOMAIN byCall \ {subs[i].callback : i \in ids})

(* A new subscription; the ids it replaces go with the expired ones. *)
Create(c, replaced) ==
  LET gone == lapsed \cup replaced
      new  == [callback |-> c, failures |-> 0]
  IN /\ nextID < MaxIds /\ nextID' = nextID + 1
     /\ subs' = With(Without(subs, gone), nextID', new)
     /\ byCall' = With(CallsWithout(gone), c, nextID')
     /\ lapsed' = {} /\ UNCHANGED <<renewals, marks>>

(* The same callback again: a renewal, under the same id. *)
Renew(c, failures) ==
  LET id == byCall[c]
  IN /\ renewals < MaxRenewals /\ renewals' = renewals + 1
     /\ subs' = [Unexpired EXCEPT ![id].failures = failures]
     /\ byCall' = CallsWithout(lapsed) /\ lapsed' = {} /\ UNCHANGED nextID
     /\ stale' = stale \cup {<<d, id>> : d \in {e \in Senders : id \in DOMAIN sending[e].posts}}
     /\ ownFail' = ownFail \ {id}

Known(c) == c \in DOMAIN byCall /\ byCall[c] \notin lapsed
SameHost(c) == {i \in DOMAIN subs : Host(subs[i].callback) = Host(c)}
Requested(h) == <<h, port[h]>>
NotStored == UNCHANGED <<port, ver, queue, sending, hubs>>

(* Mutant: the subscription of the driver's previous run stays. *)
SubscribePilesUp(h) ==
  LET c == Requested(h)
  IN /\ IF Known(c) THEN Renew(c, 0) ELSE Create(c, {})
     /\ NotStored

(* Mutant: a renewal does not start the count of failures anew. *)
SubscribeKeepsCount(h) ==
  LET c == Requested(h)
  IN /\ IF Known(c) THEN Renew(c, subs[byCall[c]].failures) ELSE Create(c, SameHost(c))
     /\ NotStored

(* handleSubscribe: the driver subscribes for the port it listens on.  The *)
(* same callback renews; another one replaces all of that host's.          *)
Subscribe(h) ==
  LET c == Requested(h)
  IN /\ IF Known(c) THEN Renew(c, 0) ELSE Create(c, SameHost(c))
     /\ NotStored

(* handleUnsubscribe. *)
Unsubscribe(id) ==
  /\ id \in DOMAIN subs
  /\ subs' = Without(subs, lapsed \cup {id})
  /\ byCall' = CallsWithout(lapsed \cup {id})
  /\ lapsed' = {}
  /\ UNCHANGED <<nextID, renewals, marks>> /\ NotStored

(* A subscription's time runs out: nothing sees it before the next sweep,  *)
(* be it a periodic one.                                                   *)
Lapse(id) ==
  /\ id \in DOMAIN subs \ lapsed
  /\ lapsed' = lapsed \cup {id}
  /\ UNCHANGED <<subs, byCall, nextID, renewals, marks>> /\ NotStored

Swept ==
  /\ subs' = Unexpired /\ byCall' = CallsWithout(lapsed) /\ lapsed' = {}
  /\ UNCHANGED <<nextID, renewals>>
Sweep == lapsed # {} /\ Swept /\ UNCHANGED marks /\ NotStored

(* The driver restarts and listens on another port; it forgot its          *)
(* subscription, the service did not.                                      *)
DriverRestart(h) ==
  /\ \E p \in Ports \ {port[h]} : port' = [port EXCEPT ![h] = p]
  /\ UNCHANGED <<store, ver, queue, sending, hubs, marks>>

----------------------------------------------------------------------------
(* active and pushBody: the subscriptions of this moment and the status of *)
(* this moment, whenever the event was emitted.                            *)
Delivery(job, body) ==
  [job |-> job, body |-> body, over |-> FALSE,
   posts |-> [i \in DOMAIN Unexpired |-> [callback |-> subs[i].callback, tries |-> 0]]]
Starts(d, delivery) ==
  sending' = [sending EXCEPT ![d] = IF DOMAIN delivery.posts = {} THEN Idle ELSE delivery]

(* Something changed: nobody was told yet. *)
Changed ==
  /\ ver < MaxEvents /\ ver' = ver + 1
  /\ Swept /\ behind' = DOMAIN subs' /\ UNCHANGED <<last, marks>>

(* Mutant: the emitter waits for room by growing the queue. *)
EmitUnbounded ==
  /\ Changed
  /\ queue' = IF DOMAIN subs' = {} THEN queue ELSE Append(queue, ver')
  /\ UNCHANGED <<port, sending>>

(* PushTap: something changed and its event is emitted.  Without           *)
(* subscriptions it is ignored; when the queue is full it is dropped.      *)
Emit ==
  /\ Changed
  /\ queue' = IF DOMAIN subs' = {} \/ Len(queue) = QueueCapacity THEN queue
              ELSE Append(queue, ver')
  /\ UNCHANGED <<port, sending>>

(* PushTap for power.stopping: delivered by the emitter itself. *)
EmitStopping ==
  /\ sending["stop"] = Idle
  /\ Changed
  /\ Starts("stop", Delivery(0, ver'))
  /\ UNCHANGED <<port, queue>>

(* Mutant: the status is that of the event, not of its delivery. *)
TakeOldStatus ==
  /\ sending["worker"] = Idle /\ queue # <<>>
  /\ queue' = Tail(queue)
  /\ Swept
  /\ Starts("worker", Delivery(Head(queue), Head(queue)))
  /\ UNCHANGED <<port, ver, hubs, marks>>

(* pushWorker takes the next event once all posts of the last one ended. *)
Take ==
  /\ sending["worker"] = Idle /\ queue # <<>>
  /\ queue' = Tail(queue)
  /\ Swept
  /\ Starts("worker", Delivery(Head(queue), ver))
  /\ UNCHANGED <<port, ver, hubs, marks>>

----------------------------------------------------------------------------
(* The post to id is over and its goroutine ends. *)
Closed(d, id) ==
  LET left == Restrict(sending[d].posts, DOMAIN sending[d].posts \ {id})
  IN sending' = [sending EXCEPT ![d] =
       IF DOMAIN left = {} THEN Idle ELSE [@ EXCEPT !.posts = left]]

(* The hub's listener read the request. *)
Received(d, id) ==
  LET h == Host(sending[d].posts[id].callback)
  IN last' = IF d = "worker" THEN [last EXCEPT ![h] = sending[d].job] ELSE last

(* Nothing more is owed to id once a post of the present state is over. *)
Told(d, id) == behind' = IF sending[d].body = ver THEN behind \ {id} ELSE behind

(* noteResult of a success and of a failure. *)
Succeeded(id) ==
  /\ subs' = IF id \in DOMAIN subs THEN [subs EXCEPT ![id].failures = 0] ELSE subs
  /\ UNCHANGED <<byCall, lapsed>>
Dropped(id) ==
  /\ subs' = Without(subs, {id})
  /\ byCall' = CallsWithout({id})
  /\ lapsed' = lapsed \ {id}
Failed(id) ==
  IF id \notin DOMAIN subs THEN UNCHANGED <<subs, byCall, lapsed>>
  ELSE IF subs[id].failures + 1 >= MaxFailures THEN Dropped(id)
  ELSE subs' = [subs EXCEPT ![id].failures = @ + 1] /\ UNCHANGED <<byCall, lapsed>>

(* A post succeeds: received and answered in time. *)
PostOk(d, id) ==
  /\ id \in DOMAIN sending[d].posts /\ ~sending[d].over
  /\ Listening(sending[d].posts[id].callback)
  /\ Received(d, id) /\ Told(d, id) /\ Succeeded(id) /\ Closed(d, id)
  /\ stale' = stale \ {<<d, id>>}
  /\ UNCHANGED <<nextID, renewals, port, ver, queue, ownFail>>

(* Its answer is lost, or nobody is there: an attempt fails. *)
Lost(d, id) == \/ /\ Listening(sending[d].posts[id].callback) /\ ~sending[d].over
                  /\ Received(d, id)
               \/ UNCHANGED last

GivesUp(d, id) ==
  /\ Failed(id) /\ Closed(d, id)
  /\ Told(d, id)
  /\ ownFail' = IF <<d, id>> \in stale THEN ownFail ELSE ownFail \cup {id}
  /\ stale' = stale \ {<<d, id>>}
  /\ UNCHANGED queue

Retries(d, id) ==
  /\ sending' = [sending EXCEPT ![d].posts[id].tries = 1]
  /\ UNCHANGED <<subs, byCall, lapsed, queue, behind, marks>>

(* Mutant: a failed delivery waits behind the queue, for room if need be. *)
PostFailsRequeued(d, id) ==
  /\ id \in DOMAIN sending[d].posts /\ Lost(d, id)
  /\ IF d = "worker"
     THEN /\ Closed(d, id) /\ queue' = Append(queue, sending[d].job)
          /\ UNCHANGED <<subs, byCall, lapsed, behind, marks>>
     ELSE GivesUp(d, id)
  /\ UNCHANGED <<nextID, renewals, port, ver>>

(* Mutant: it is retried until it succeeds. *)
PostFailsForever(d, id) ==
  /\ id \in DOMAIN sending[d].posts /\ Lost(d, id) /\ Retries(d, id)
  /\ UNCHANGED <<nextID, renewals, port, ver>>

(* post: one retry, unless the deadline is over. *)
PostFails(d, id) ==
  /\ id \in DOMAIN sending[d].posts /\ Lost(d, id)
  /\ IF sending[d].over \/ sending[d].posts[id].tries = 1 THEN GivesUp(d, id) ELSE Retries(d, id)
  /\ UNCHANGED <<nextID, renewals, port, ver>>

(* StoppingDeadline: the context of the inline delivery is done. *)
Deadline ==
  /\ sending["stop"] # Idle /\ ~sending["stop"].over
  /\ sending' = [sending EXCEPT !["stop"].over = TRUE]
  /\ UNCHANGED <<store, port, ver, queue, hubs, marks>>

Next ==
  \/ \E h \in Hosts : Subscribe(h) \/ DriverRestart(h)
  \/ \E id \in Ids : Unsubscribe(id) \/ Lapse(id)
  \/ Sweep \/ Emit \/ EmitStopping \/ Take \/ Deadline
  \/ \E d \in Senders, id \in Ids : PostOk(d, id) \/ PostFails(d, id)

(* An attempt ends within pushTimeout, in success or not: no hub need      *)
(* answer.                                                                 *)
Fairness == \A d \in Senders : WF_vars(\E id \in Ids : PostOk(d, id) \/ PostFails(d, id))

Spec == Init /\ [][Next]_vars /\ Fairness

----------------------------------------------------------------------------
Subscription == [callback : Callbacks, failures : 0..MaxFailures - 1]
Posts == [callback : Callbacks, tries : 0..1]

(* Type invariant; the queue never exceeds its capacity. *)
TypeOK ==
  /\ nextID \in 0..MaxIds /\ renewals \in 0..MaxRenewals
  /\ DOMAIN subs \subseteq 1..nextID /\ \A i \in DOMAIN subs : subs[i] \in Subscription
  /\ lapsed \subseteq DOMAIN subs
  /\ port \in [Hosts -> Ports] /\ ver \in 0..MaxEvents
  /\ Len(queue) <= QueueCapacity /\ \A k \in DOMAIN queue : queue[k] \in 1..MaxEvents
  /\ \A d \in Senders :
       /\ sending[d].job \in 0..MaxEvents /\ sending[d].body \in 0..MaxEvents
       /\ \A i \in DOMAIN sending[d].posts : i \in Ids /\ sending[d].posts[i] \in Posts

(* The two maps describe the same subscriptions, and a hub has at most     *)
(* one: whatever the order of renewals, removals and failures, no callback *)
(* leads to a subscription that receives nothing, and no hub is posted to  *)
(* on a port nobody listens on while its new one is subscribed.            *)
OnePerHub ==
  /\ byCall = CallsOf(subs)
  /\ \A i, j \in DOMAIN subs : Host(subs[i].callback) = Host(subs[j].callback) => i = j

(* "A queued event still carries fresh state": once all is delivered, each *)
(* hub was told of the last change, or a post that would have told it      *)
(* failed - even when the event of that change was dropped because the     *)
(* queue was full, and whatever failed before.                             *)
Quiet == queue = <<>> /\ \A d \in Senders : sending[d] = Idle
LastChangeTold == Quiet => behind \cap DOMAIN subs \subseteq lapsed

(* "In emit order": no hub receives a queued event after a later one,      *)
(* retries of posts whose answer was lost included.                        *)
InEmitOrder == [][\A h \in Hosts : last'[h] >= last[h]]_vars

(* A hub that renewed has shown that it is there.  It is dropped for       *)
(* failing only after a post that began since then failed too: the posts   *)
(* under way when it renewed are not enough.                               *)
RenewalCounts ==
  [][\A d \in Senders, id \in Ids :
       id \in DOMAIN subs \ DOMAIN subs' /\ PostFails(d, id) => id \in ownFail']_vars

(* Every delivery ends, whatever the hubs do: the worker is never stuck    *)
(* with one event, and the stop that waits for power.stopping proceeds.    *)
DeliveriesEnd == \A d \in Senders : sending[d] # Idle ~> sending[d] = Idle
=============================================================================
