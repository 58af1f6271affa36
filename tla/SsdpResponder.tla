---------------------------- MODULE SsdpResponder ----------------------------
(***************************************************************************)
(* The service's answer to a hub that searches for it:                     *)
(* service/stapi/ssdp.go on each PC of the home network.                   *)
(*                                                                         *)
(* The sockets are opened once, when the service starts, on the addresses  *)
(* the PC has at that moment; the address of a LOCATION is the one the     *)
(* socket was opened on.  A router may give the PC another address while   *)
(* the service runs, and the old one to another PC.  An address stands for *)
(* the interface and the port; the text of the datagrams is left out.      *)
(***************************************************************************)
CONSTANTS Pcs, Addrs   \* the PCs, named by their machine_id; the addresses

VARIABLE pc   \* of each PC whose service runs: its address; its responder's

Nowhere == "nowhere"
Stopped == [addr |-> Nowhere, bound |-> Nowhere]

PcState == [addr : Addrs \cup {Nowhere}, bound : Addrs \cup {Nowhere}]

Runs(p) == pc[p].addr # Nowhere

(* Who answers at an address; the network gives it to one PC at a time.    *)
At(a) == {p \in Pcs : Runs(p) /\ pc[p].addr = a}
Free(a) == At(a) = {}

(* openSSDPSockets: a PC that has no address yet gets no socket at all.    *)
OpenSockets(a) == {a, Nowhere}

(* The service starts, on an address of the router's choice.               *)
ServiceStarts(p) ==
  /\ ~Runs(p)
  /\ \E a \in Addrs : \E b \in OpenSockets(a) :
       Free(a) /\ pc' = [pc EXCEPT ![p] = [addr |-> a, bound |-> b]]

(* StopSSDP, or the process ends; delayed answers are dropped.             *)
ServiceStops(p) == Runs(p) /\ pc' = [pc EXCEPT ![p] = Stopped]

(* The router gives the PC another address; the sockets stay as they are.  *)
AddressMoves(p, a) == Runs(p) /\ Free(a) /\ pc' = [pc EXCEPT ![p].addr = a]

(* serveSSDP reads a search when there is a socket to read it from.        *)
Listens(p) == pc[p].bound # Nowhere

(* ssdpAllow: one answer a second to one source.  A search that comes      *)
(* while another one is being answered may be too early for one.           *)
Allowed(answering) == IF answering THEN BOOLEAN ELSE {TRUE}

(* answerSSDP: the LOCATIONs an answer may carry.  The socket of an        *)
(* address that is gone cannot send, unless it is the receiving one.       *)
Locations(p) ==
  IF pc[p].bound = pc[p].addr THEN {{pc[p].bound}} ELSE {{pc[p].bound}, {}}

(* handleDescription: whoever is asked there says who it is, without a     *)
(* secret.                                                                 *)
Description(a) == At(a)
=============================================================================
