------------------------------ MODULE HubSearch ------------------------------
(***************************************************************************)
(* How the edge driver finds PCs and keeps their addresses:                *)
(* edge/src/discovery.lua, with the parts of poll.lua and of the lifecycle *)
(* handlers that make it search, around the responders of the PCs.         *)
(*                                                                         *)
(* A user's scan searches for every PC, creates a device for one that has  *)
(* none and tells the others their address; a device whose poll fails      *)
(* searches for its own PC, at most once per cooldown.  A device is named  *)
(* by the machine_id in its network id, which the hub keeps unique; it     *)
(* answers to the id it has stored.  Every search is a task of its own:    *)
(* what it found may be old when it is used.  The poll that follows a new  *)
(* address is one of the timer's here.                                     *)
(***************************************************************************)
EXTENDS SsdpResponder, Naturals

CONSTANTS
  Opens,      \* <<d, p>>: the secret given to device d opens PC p
  Following,  \* devices with followDiscovery on and no ipAddress of their own
  Budget      \* bound: changes of the PCs, lost datagrams, restarts, removals

ASSUME HubSearchAssumption ==
  /\ Opens \subseteq Pcs \X Pcs /\ \A p \in Pcs : <<p, p>> \in Opens
  /\ Following \subseteq Pcs /\ "scan" \notin Pcs /\ Budget \in Nat

VARIABLES
  dev,    \* the devices: whether there, the MACHINE_ID and the address stored
  pend,   \* the address a device is created with, until it is added
  cool,   \* the device searched within the last SEARCH_COOLDOWN
  task,   \* the poll of each device, and the user's scan
  left    \* what remains of the budget

hub == <<dev, pend, cool>>
vars == <<pc, hub, task, left>>

Tasks == Pcs \cup {"scan"}
NoDevice == [is |-> "none", mid |-> "none", addr |-> Nowhere]
Idle == [at |-> "idle", to |-> Nowhere, want |-> "none", asked |-> {}, heard |-> {},
         found |-> {}, known |-> {}]

(* Services and sockets as old as they may be, and devices of earlier runs *)
(* of the driver, at any address their PC once had.                        *)
Init ==
  /\ pc \in [Pcs -> PcState]
  /\ \A p, q \in Pcs : IF Runs(p) THEN pc[p].addr = pc[q].addr => p = q ELSE pc[p] = Stopped
  /\ \E had \in SUBSET Pcs, at \in [Pcs -> Addrs] :
       dev = [p \in Pcs |-> IF p \in had
         THEN [is |-> "there", mid |-> p, addr |-> at[p]] ELSE NoDevice]
  /\ pend = [p \in Pcs |-> Nowhere] /\ cool = [p \in Pcs |-> FALSE]
  /\ task = [t \in Tasks |-> Idle] /\ left = Budget

Spends == left > 0 /\ left' = left - 1

(* machine_id_of: the stored one, or that of the network id. *)
MachineId(d) == IF dev[d].mid = "none" THEN d ELSE dev[d].mid

----------------------------------------------------------------------------
(* Searching.                                                              *)

(* The user looks for devices: discovery.handle. *)
UserScans ==
  /\ task["scan"].at = "idle"
  /\ task' = [task EXCEPT !["scan"].at = "search"]
  /\ UNCHANGED <<pc, hub, left>>

(* A responder reads the search and answers within the window, by its      *)
(* LOCATION: collect keeps one response of each.                           *)
SearchHeard(p, t) ==
  /\ task[t].at = "search" /\ Listens(p) /\ p \notin task[t].asked
  /\ \E yes \in Allowed(\E u \in Tasks \ {t} : p \in task[u].asked) : \E l \in Locations(p) :
       /\ task' = [task EXCEPT ![t].asked = @ \cup {p},
                               ![t].heard = IF yes THEN @ \cup l ELSE @]
       /\ IF yes THEN UNCHANGED left ELSE Spends
  /\ UNCHANGED <<pc, hub>>

(* The window closes; an answer that is not there by now is lost. *)
SearchEnds(t) ==
  /\ task[t].at = "search"
  /\ IF \E p \in Pcs : Listens(p) /\ p \notin task[t].asked THEN Spends ELSE UNCHANGED left
  /\ task' = [task EXCEPT ![t].at = "fetch", ![t].asked = {}]
  /\ UNCHANGED <<pc, hub>>

(* merge: the first hit for a machine_id stays. *)
Merge(found, hits) == found \cup {h \in hits : \A f \in found : f.mid # h.mid}

(* fetch_description of one LOCATION: who answers there now. *)
DescriptionFetched(t) ==
  /\ task[t].at = "fetch"
  /\ \E a \in task[t].heard :
       \/ /\ task' = [task EXCEPT ![t].heard = @ \ {a},
               ![t].found = Merge(@, {[mid |-> p, addr |-> a] : p \in Description(a)})]
          /\ UNCHANGED left
       \/ task' = [task EXCEPT ![t].heard = @ \ {a}] /\ Spends
  /\ UNCHANGED <<pc, hub>>

(* ssdp_search returns; a scan takes the list of devices as it is now. *)
SearchReturns(t) ==
  /\ task[t].at = "fetch" /\ task[t].heard = {}
  /\ task' = [task EXCEPT ![t] =
       IF @.found = {} THEN Idle
       ELSE [@ EXCEPT !.at = "apply",
               !.known = IF t = "scan" THEN {d \in Pcs : dev[d].is = "there"} ELSE {}]]
  /\ UNCHANGED <<pc, hub, left>>

----------------------------------------------------------------------------
(* Using what was found.                                                   *)

(* Mutant: only an empty address is filled in. *)
PlanKeepsAddress(d, h) ==
  [dev[d] EXCEPT !.mid = IF @ = "none" THEN h.mid ELSE @,
                 !.addr = IF d \in Following /\ @ = Nowhere THEN h.addr ELSE @]

(* plan, for a device there is. *)
Plan(d, h) ==
  [dev[d] EXCEPT !.mid = IF @ = "none" THEN h.mid ELSE @,
                 !.addr = IF d \in Following THEN h.addr ELSE @]

(* apply; a device removed meanwhile is not brought back. *)
Apply(d, h) ==
  /\ dev' = IF dev[d].is = "there" THEN [dev EXCEPT ![d] = Plan(d, h)] ELSE dev
  /\ UNCHANGED pend

(* create: the hub makes no second device of one network id, but the       *)
(* address is remembered all the same.                                     *)
Create(h) ==
  /\ dev' = IF dev[h.mid].is = "none" THEN [dev EXCEPT ![h.mid].is = "made"] ELSE dev
  /\ pend' = [pend EXCEPT ![h.mid] = h.addr]

(* Mutant: the network id of a device is not looked at. *)
FindStored(known, mid) == {d \in known : dev[d].mid = mid}

(* find: the device that answers to a machine_id. *)
Find(known, mid) == {d \in known : MachineId(d) = mid}

(* handle, for one of the hits. *)
ScanHit ==
  /\ task["scan"].at = "apply"
  /\ \E h \in task["scan"].found :
       /\ LET owners == Find(task["scan"].known, h.mid)
          IN IF owners = {} THEN Create(h) ELSE \E d \in owners : Apply(d, h)
       /\ task' = [task EXCEPT !["scan"].found = @ \ {h}]
  /\ UNCHANGED <<pc, cool, left>>

(* refresh: the hit of the device's own PC, if it is among them. *)
OwnHit(d) ==
  LET own == {h \in task[d].found : h.mid = task[d].want}
  IN /\ task[d].at = "apply" /\ own # {}
     /\ \E h \in own : Apply(d, h)
     /\ task' = [task EXCEPT ![d] = Idle]
     /\ UNCHANGED <<pc, cool, left>>

(* Nothing more to do, or the user left the scan: should_continue. *)
HitsDone(t) ==
  /\ task[t].at = "apply"
  /\ IF t = "scan" /\ task[t].found # {} THEN Spends ELSE UNCHANGED left
  /\ t = "scan" \/ \A h \in task[t].found : h.mid # task[t].want
  /\ task' = [task EXCEPT ![t] = Idle]
  /\ UNCHANGED <<pc, hub>>

(* adopt: the device with the address and the id it was found with, or     *)
(* with neither.                                                           *)
Adopted(d) ==
  [is |-> "there", addr |-> pend[d], mid |-> IF pend[d] = Nowhere THEN "none" ELSE d]

(* added: take empties what adopt read. *)
Added(d) ==
  /\ dev[d].is = "made"
  /\ dev' = [dev EXCEPT ![d] = Adopted(d)] /\ pend' = [pend EXCEPT ![d] = Nowhere]
  /\ UNCHANGED <<pc, cool, task, left>>

----------------------------------------------------------------------------
(* Polling.                                                                *)

(* device_base_url: there is none until an address is known. *)
HasAddress(d) == dev[d].addr # Nowhere

(* The timer's poll, with an address to ask at. *)
PollStart(d) ==
  /\ dev[d].is = "there" /\ HasAddress(d) /\ task[d].at = "idle"
  /\ task' = [task EXCEPT ![d].at = "get", ![d].to = dev[d].addr]
  /\ UNCHANGED <<pc, hub, left>>

(* Mutant: a status is given to anyone. *)
AcceptedAlways(d, p) == TRUE

(* The secret of the device is that of the PC. *)
Accepted(d, p) == <<d, p>> \in Opens

(* remember_identity: the device is whoever answers at its address. *)
RememberIdentity(d, p) == dev' = [dev EXCEPT ![d].mid = p]

(* A status, or 401 from a PC of another secret. *)
PollAnswered(d) ==
  /\ task[d].at = "get"
  /\ \E p \in At(task[d].to) : IF Accepted(d, p) THEN RememberIdentity(d, p) ELSE UNCHANGED dev
  /\ task' = [task EXCEPT ![d] = Idle]
  /\ UNCHANGED <<pc, pend, cool, left>>

(* should_search: not again within the cooldown. *)
ShouldSearch(d) == ~cool[d]

(* Nobody answers: refresh, unless it is too soon. *)
PollFails(d) ==
  /\ task[d].at = "get"
  /\ IF At(task[d].to) # {} THEN Spends ELSE UNCHANGED left
  /\ task' = [task EXCEPT ![d] =
       IF ShouldSearch(d) THEN [Idle EXCEPT !.at = "search", !.want = MachineId(d)] ELSE Idle]
  /\ cool' = [cool EXCEPT ![d] = TRUE]
  /\ UNCHANGED <<pc, dev, pend>>

(* SEARCH_COOLDOWN has passed. *)
CoolOver(d) ==
  /\ cool[d] /\ cool' = [cool EXCEPT ![d] = FALSE]
  /\ UNCHANGED <<pc, dev, pend, task, left>>

----------------------------------------------------------------------------
(* The PCs, the user and the hub.                                          *)

PcChanges ==
  /\ Spends
  /\ \E p \in Pcs : ServiceStarts(p) \/ ServiceStops(p) \/ \E a \in Addrs : AddressMoves(p, a)
  /\ UNCHANGED <<hub, task>>

(* removed: the user deletes a device. *)
Removed(d) ==
  /\ dev[d].is = "there" /\ Spends
  /\ dev' = [dev EXCEPT ![d] = NoDevice] /\ cool' = [cool EXCEPT ![d] = FALSE]
  /\ task' = [task EXCEPT ![d] = Idle]
  /\ UNCHANGED <<pc, pend>>

(* What is not stored in a device is gone: the remembered addresses, the   *)
(* cooldowns and every search.                                             *)
DriverRestart ==
  /\ Spends
  /\ pend' = [p \in Pcs |-> Nowhere] /\ cool' = [p \in Pcs |-> FALSE]
  /\ task' = [t \in Tasks |-> Idle]
  /\ UNCHANGED <<pc, dev>>

----------------------------------------------------------------------------
Searches(t) ==
  \/ \E p \in Pcs : SearchHeard(p, t)
  \/ SearchEnds(t) \/ DescriptionFetched(t) \/ SearchReturns(t) \/ HitsDone(t)

Polls(d) == PollStart(d) \/ PollAnswered(d) \/ PollFails(d) \/ OwnHit(d) \/ Searches(d)
Scans == Searches("scan") \/ ScanHit

Next ==
  \/ UserScans \/ Scans
  \/ \E d \in Pcs : Polls(d) \/ Added(d) \/ CoolOver(d) \/ Removed(d)
  \/ PcChanges \/ DriverRestart

(* Timers go on, and searches take their course.  A search that finds the  *)
(* responder busy with another one's answer is a lost one, of which there  *)
(* are few: poll.offset spreads the polls of the devices.                  *)
Fairness ==
  /\ WF_vars(Scans)
  /\ \A d \in Pcs : WF_vars(Polls(d)) /\ WF_vars(Added(d)) /\ WF_vars(CoolOver(d))

Spec == Init /\ [][Next]_vars /\ Fairness

----------------------------------------------------------------------------
Device == [is : {"none", "made", "there"}, mid : Pcs \cup {"none"}, addr : Addrs \cup {Nowhere}]
Hit == [mid : Pcs, addr : Addrs]
TaskState ==
  [at : {"idle", "get", "search", "fetch", "apply"}, to : Addrs \cup {Nowhere},
   want : Pcs \cup {"none"}, asked : SUBSET Pcs, heard : SUBSET Addrs, found : SUBSET Hit,
   known : SUBSET Pcs]

(* Type invariant; no two PCs have one address. *)
OneHolder == \A p, q \in Pcs : Runs(p) /\ pc[p].addr = pc[q].addr => p = q
TypeOK ==
  /\ pc \in [Pcs -> PcState] /\ OneHolder
  /\ dev \in [Pcs -> Device] /\ pend \in [Pcs -> Addrs \cup {Nowhere}]
  /\ cool \in [Pcs -> BOOLEAN] /\ task \in [Tasks -> TaskState] /\ left \in 0..Budget

(* A device stays the device of the PC it was made for, whatever addresses *)
(* the PCs exchange: no command or push of one PC's reaches another's.     *)
(* This needs a secret of its own for each PC.                             *)
IdentityHolds == \A d \in Pcs : dev[d].is = "there" => MachineId(d) = d

(* The responder of p answers with an address that is right.               *)
Answering(p) == Runs(p) /\ pc[p].bound = pc[p].addr

(* A device that has an address at which nobody else answers follows its   *)
(* PC without the user's help, once the responder of the PC is right.      *)
Alone(d) ==
  /\ dev[d].is = "there" /\ d \in Following
  /\ HasAddress(d) /\ At(dev[d].addr) \subseteq {d}
AddressFollows ==
  \A d \in Pcs : <>[](Answering(d) /\ Alone(d)) => <>[](dev[d].addr = pc[d].addr)

(* A user who goes on scanning gets a device for each PC that answers, and *)
(* with the right address: a device that lost it in a restart, or at whose *)
(* address another PC answers now, included.                               *)
ScanFinds ==
  \A p \in Pcs :
    []<>(task["scan"].at = "search") /\ <>[]Answering(p)
      => <>[](dev[p].is = "there" /\ (p \in Following => dev[p].addr = pc[p].addr))
=============================================================================
