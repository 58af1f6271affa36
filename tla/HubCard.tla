------------------------------- MODULE HubCard -------------------------------
(***************************************************************************)
(* The rows of the device in the SmartThings app: from the PC's reports    *)
(* through the driver (edge/src/poll.lua, push.lua, device/rows.lua,       *)
(* handlers/) and its emit funnel to the hub and the cloud.                *)
(*                                                                         *)
(* Three rows stand for all: "switch", which follows the power; "action",  *)
(* the command list, which rests on a value the driver chooses; and the    *)
(* slots of the watch card, which routines of the user trigger on.  The    *)
(* hub remembers the last value of a row and drops an event that does not  *)
(* change it unless it is forced; the cloud may lose any event, and starts *)
(* empty on another profile.                                               *)
(*                                                                         *)
(* A poll is one step, from its request to what it sends: polls that       *)
(* overlap are HubLink's, as are the subscriptions, here a push may simply *)
(* be lost, and which power an unanswered poll leads to, here any.         *)
(***************************************************************************)
EXTENDS WatchScan

CONSTANTS
  Budget,     \* bound: events of the PC, its user, the network and the cloud
  PaintBatch, \* PAINT_BATCH
  SortedAs    \* the place of each row among the sorted row keys

ASSUME HubCardAssumption ==
  LET rows == {"switch", "action"} \cup Slots
  IN /\ Slots \cap {"switch", "action"} = {}
     /\ Budget \in Nat /\ PaintBatch \in Nat \ {0}
     /\ \A r \in rows : SortedAs[r] \in 1..Cardinality(rows)
     /\ \A q, r \in rows : SortedAs[q] = SortedAs[r] => q = r

VARIABLES
  pc,         \* "up", "leaving", "gone" (its service is), "off"
  queued,     \* activity.changed waits for the push worker
  wire,       \* the push each channel of the service has under way
  st,         \* fields.STATE: the power, and extras.watch
  act,        \* LAST_ACTION and LAST_ACTION_CONFIRM
  em,         \* the emit funnel
  window,     \* ANSWER_WINDOW: "none", "open", or the rows "owed"
  soon,       \* repaint_soon: its poll is to come, or its late one
  move,       \* a profile move: "none", "asked", "moving", "landed"
  cache,      \* the hub's state cache
  cloud,      \* what the app shows and routines see
  asked,      \* the rows the app waits on
  left,       \* what remains of the budget
  newest,     \* history: the value last decided for each row
  beat,       \* turns with every poll of the timer
  sure        \* history: the driver remembers what it last decided

computer == <<watching, pc, queued>>
driver == <<st, act, em, window, soon>>
shown == <<cache, cloud, asked>>
history == <<newest, sure>>
cardVars == <<computer, wire, driver, move, shown, left, history>>

Rows == {"switch", "action"} \cup Slots
INSTANCE HubEmit WITH First <- {"switch"}, Matters <- {"switch"},
  Place <- SortedAs

Channels == {"queue", "inline"}
Values == {"on", "off", "none", "busy", "running", "stopped", "empty"}

New == [power |-> "unknown", watch |-> NoWatch]
NoPush == [type |-> "none", body |-> OffBlock]

(* switch_for. *)
SwitchFor(power) == IF power \in {"on", "stopping"} THEN "on" ELSE "off"
(* resting_action, over transition_of. *)
Transition(power) == power = "stopping"
Resting(power) == IF Transition(power) THEN "busy" ELSE "none"

CardInit ==
  /\ list = [on |-> TRUE, app |-> [s \in Slots |-> CHOOSE a \in Apps : TRUE]]
  /\ alive = {} /\ scan = NoScan /\ look = NoLook
  /\ pc = "up" /\ queued = FALSE /\ wire = [c \in Channels |-> NoPush]
  /\ st = New /\ act = [shown |-> "none", owed |-> "no"] /\ em = Fresh
  /\ window = "none" /\ soon = "none" /\ move = "none"
  /\ cache = [r \in Rows |-> CASE r = "switch" -> "on" [] r = "action" -> "none" [] OTHER -> "stopped"]
  /\ cloud = cache /\ asked = {} /\ left = Budget
  /\ newest = cache /\ sure = FALSE /\ beat = FALSE

Report == Current(list, scan)

----------------------------------------------------------------------------
(* Events go out: the hub drops what is neither new nor forced, and passes *)
(* the rest on; at most one of them is lost.  "cost" is what the action    *)
(* takes from the budget, "spin" the rows the app begins to wait on.       *)
Arriving(out) == {r \in DOMAIN out.value : r \in out.hard \/ cache[r] # out.value[r]}

Send(out, cost, spin) ==
  /\ cache' = Over(out.value, cache)
  /\ \E lost \in {{}} \cup {{r} : r \in Arriving(out)} :
       /\ left' = left - cost - Cardinality(lost) /\ left' >= 0
       /\ cloud' = Over(Only(out.value, Arriving(out) \ lost), cloud)
       /\ asked' = (asked \cup spin) \ (Arriving(out) \ lost)

Spends == left > 0 /\ left' = left - 1
Decided(recs) == newest' = Over(recs, newest)

(* settle: the row moves to its resting value, once more the next time. *)
Settle(target) ==
  IF act.shown # target THEN [act |-> [shown |-> target, owed |-> target], sends |-> TRUE]
  ELSE [act |-> [act EXCEPT !.owed = IF @ = target THEN "no" ELSE @], sends |-> act.owed = target]

(* apply_status, of a status taken or the power alone: watch_events gives  *)
(* the slots as they were settled on.                                      *)
StatusRows(s) ==
  Over(Row("switch", SwitchFor(s.power)), Over(Row("action", Resting(s.power)), s.watch))
PowerRows(s) == Only(StatusRows(s), {"switch", "action"})

(* emit.rows, and ensure_action. *)
Funnel(recs, forced) ==
  LET sends == Settle(recs["action"]).sends
      kept == IF sends THEN recs ELSE Only(recs, Rows \ {"action"})
  IN EmitRows(em, cache, kept, (forced \cap DOMAIN kept) \cup (IF sends THEN {"action"} ELSE {}))

(* kept_watch: what the driver remembers, sent, or the hub's cache holds. *)
KeptWatch ==
  IF st.watch # NoWatch THEN st.watch ELSE Over(Only(em.sent, Slots), Only(cache, Slots))

(* poll.repaint: the slots keep their values, the list its resting one;    *)
(* the switch comes with the next status.                                  *)
RepaintRows ==
  Over(Row("action", Resting(st.power)), Over(KeptWatch, [s \in Slots |-> "empty"]))

Repaint ==
  /\ em' = Paint(Forget(em), RepaintRows)
  /\ act' = [shown |-> Resting(st.power), owed |-> "no"]
  /\ Decided(RepaintRows)

----------------------------------------------------------------------------
(* The end of every poll: the rows, then the first batch of a paint that   *)
(* waits for it, or a turn of the rotation (poll.once, rotate_due), which  *)
(* the timer's polls are far enough apart for and others may be; the       *)
(* late poll of a repaint sends again what matters.                        *)
Ends(recs, forced, by, cost, spin) ==
  \E rows \in {Funnel(recs, forced)} :
    LET begins == rows.em.painting /\ ~rows.em.started
    IN \E B \in IF begins THEN Batches(rows.em) ELSE {{}}, over \in {TRUE, by = "timer"} :
       \E rest \in {IF begins THEN PaintNext(rows.em, cache, B)
                    ELSE IF rows.em.painting THEN [em |-> rows.em, out |-> NoEvents]
                    ELSE RotateDue(rows.em, cache, DOMAIN rows.out.value, over)} :
       \E again \in {IF by = "late" THEN Resync(rest.em, cache)
                     ELSE [em |-> rest.em, out |-> NoEvents]} :
         em' = again.em /\ Send(Both(Both(rows.out, rest.out), again.out), cost, spin)

(* The status comes. *)
PollOk(forced, by, cost, spin) ==
  /\ pc \in {"up", "leaving"}
  /\ \E watch \in {WatchState(Report, st.watch)} :
       /\ st' = [power |-> "on", watch |-> watch] /\ act' = Settle(Resting("on")).act
       /\ \E recs \in {StatusRows([power |-> "on", watch |-> watch])} :
            Ends(recs, forced, by, cost, spin) /\ Decided(recs)
  /\ sure' = (Report.scanned \/ sure) /\ UNCHANGED wire

(* It does not: of the rows those that follow the power. *)
PollFails(by, cost, spin) ==
  /\ \E p \in (IF pc = "gone" THEN {"on"} ELSE {"off"}) \cup {st.power} :
       /\ st' = [st EXCEPT !.power = p] /\ act' = Settle(Resting(p)).act
       /\ \E recs \in {PowerRows([st EXCEPT !.power = p])} :
            /\ Ends(recs, {}, by, cost + (IF pc \in {"up", "leaving"} THEN 1 ELSE 0), spin)
            /\ Decided(recs)
  /\ UNCHANGED <<wire, sure>>

(* Too many requests: nothing is written. *)
PollLimited(cost, spin) ==
  /\ pc = "up" /\ left' = left - cost - 1 /\ left' >= 0
  /\ asked' = asked \cup spin
  /\ UNCHANGED <<wire, st, act, em, cache, cloud, history>>

Poll(forced, by, cost, spin) ==
  PollOk(forced, by, cost, spin) \/ PollFails(by, cost, spin) \/ PollLimited(cost, spin)

TimerPolls ==
  /\ Poll({}, "timer", 0, {})
  /\ UNCHANGED <<computer, window, soon, move>>

(* A batch of a paint, or its first when no poll was in time. *)
BatchDue ==
  /\ em.painting
  /\ \E B \in Batches(em) : \E next \in {PaintNext(em, cache, B)} :
       em' = next.em /\ Send(next.out, 0, {})
  /\ UNCHANGED <<computer, wire, st, act, window, soon, move, history>>

----------------------------------------------------------------------------
(* The window closes: one poll for the commands inside, and the next one. *)
WindowCloses ==
  \/ /\ window = "open" /\ window' = "none"
     /\ UNCHANGED <<computer, wire, st, act, em, soon, move, shown, left, history>>
  \/ /\ window = "owed" /\ window' = "open" /\ Poll({"switch"}, "answer", 0, {})
     /\ UNCHANGED <<computer, soon, move>>

(* The command went out, and is answered by a poll at once or with those   *)
(* of its window (poll.answer).                                            *)
SwitchAnswered ==
  /\ pc = "up" /\ ~Transition(st.power)
  /\ \/ window = "none" /\ window' = "open" /\ Poll({"switch"}, "answer", 1, {"switch"})
     \/ /\ window # "none" /\ window' = "owed" /\ Spends /\ asked' = asked \cup {"switch"}
        /\ UNCHANGED <<wire, st, act, em, cache, cloud, history>>
  /\ UNCHANGED <<computer, soon, move>>

(* switch.off while the PC is on its way out: the row springs back. *)
SwitchRefused ==
  /\ Transition(st.power)
  /\ LET recs == Only(PowerRows(st), {"switch"})
         sent == EmitRows(em, cache, recs, {"switch"})
     IN em' = sent.em /\ Send(sent.out, 1, {"switch"}) /\ Decided(recs)
  /\ UNCHANGED <<computer, wire, st, act, window, soon, move, sure>>

(* Its request fails: only the connection is reported. *)
SwitchFails ==
  /\ ~Transition(st.power) /\ Spends /\ asked' = asked \cup {"switch"}
  /\ UNCHANGED <<computer, wire, driver, move, cache, cloud, history>>

(* pcRemote.execute: the list is answered first, whatever follows; the     *)
(* repeat it may owe is this event.                                        *)
Execute ==
  /\ LET recs == Only(PowerRows(st), {"action"})
         sent == EmitRows(em, cache, recs, {"action"})
     IN em' = sent.em /\ Send(sent.out, 1, {"action"}) /\ Decided(recs)
  /\ act' = [shown |-> Resting(st.power), owed |-> "no"]
  /\ UNCHANGED <<computer, wire, st, window, soon, move, sure>>

----------------------------------------------------------------------------
(* push.apply and apply_to_device. *)
Deliver(c) ==
  /\ wire[c].type # "none" /\ wire' = [wire EXCEPT ![c] = NoPush]
  /\ LET m == wire[c]
         watch == WatchState(m.body, st.watch)
         s == CASE m.type = "changed" -> [power |-> "on", watch |-> watch]
                [] m.type = "shutdown" -> [power |-> "stopping", watch |-> StopWatch(watch)]
                [] m.type = "app_stop" ->
                     [power |-> IF Transition(st.power) THEN st.power ELSE "on", watch |-> watch]
         recs == IF m.type = "app_stop" THEN PowerRows(s) ELSE StatusRows(s)
         rows == Funnel(recs, IF m.type = "shutdown" THEN Stopped(watch) ELSE {})
     IN /\ st' = s /\ act' = Settle(recs["action"]).act
        /\ em' = rows.em /\ Send(rows.out, 0, {}) /\ Decided(recs)
        /\ sure' = (m.type # "app_stop" /\ (m.body.scanned \/ sure))
  /\ UNCHANGED <<computer, window, soon, move>>

Lose(c) ==
  /\ wire[c].type # "none" /\ wire' = [wire EXCEPT ![c] = NoPush]
  /\ UNCHANGED <<computer, driver, move, shown, left, history>>

(* follow_battery: two reports disagree with the profile, and the driver   *)
(* asks for the other; it repaints a second later.                         *)
BatteryMoves ==
  /\ move = "none" /\ st.power = "on" /\ Spends /\ move' = "asked"
  /\ UNCHANGED <<computer, wire, driver, shown, history>>

BatteryRepaints ==
  /\ move = "asked" /\ move' = "moving" /\ Repaint /\ soon' = "poll"
  /\ UNCHANGED <<computer, wire, st, window, shown, left, sure>>

(* The cloud takes up the profile, with no value in any row. *)
ProfileLands ==
  /\ move = "moving" /\ move' = "landed"
  /\ cloud' = NoRows
  /\ UNCHANGED <<computer, wire, driver, cache, asked, left, history>>

(* infoChanged with another profile. *)
InfoChanged ==
  /\ move = "landed" /\ move' = "none" /\ Repaint /\ soon' = "poll"
  /\ UNCHANGED <<computer, wire, st, window, shown, left, sure>>

(* repaint_soon polls, and again later; one late poll stands for both. *)
RepaintPolls ==
  /\ \/ soon = "poll" /\ soon' = "late" /\ Poll({}, "soon", 0, {})
     \/ soon = "late" /\ soon' = "none" /\ Poll({}, "late", 0, {})
  /\ UNCHANGED <<computer, window, move>>

(* The driver or the hub restarts.  LAST_ACTION, ROWS_PAINTED, the hub's   *)
(* cache and the cloud persist; an infoChanged may find no driver.         *)
DriverRestarts ==
  /\ Spends
  /\ st' = New /\ em' = Fresh /\ act' = [act EXCEPT !.owed = "no"]
  /\ window' = "none" /\ soon' = "none"
  /\ move' \in IF move \in {"asked", "landed"} THEN {"none"} ELSE {move}
  /\ wire' = [c \in Channels |-> NoPush] /\ sure' = FALSE
  /\ UNCHANGED <<computer, shown, newest>>

(* After an update that adds rows init paints them once (ensure_rows). *)
DriverUpdate ==
  /\ Spends
  /\ st = New /\ em = Fresh /\ soon = "none" /\ Repaint /\ soon' = "poll"
  /\ UNCHANGED <<computer, wire, st, window, move, shown, sure>>

----------------------------------------------------------------------------
(* The PC.  A list that is on has programs; bound: switching it off keeps  *)
(* them.                                                                   *)
ScanBegins ==
  /\ pc = "up"
  /\ \/ ScanReads(TRUE) /\ UNCHANGED left
     \/ list.on /\ ScanReads(FALSE) /\ Spends
  /\ UNCHANGED <<pc, queued, wire, driver, move, shown, history>>

ScanEnds ==
  /\ pc = "up" /\ ScanStores
  /\ queued' = (queued \/ ScanChanged)
  /\ UNCHANGED <<pc, wire, driver, move, shown, left, history>>

UserSaves ==
  /\ pc = "up" /\ Spends
  /\ \E l \in Lists : (IF l.on THEN l.app # OffBlock.app ELSE l.app = list.app) /\ ListSaved(l)
  /\ UNCHANGED <<pc, queued, wire, driver, move, shown, history>>

UserRuns ==
  /\ pc \in {"up", "gone"} /\ Spends
  /\ \E a \in Apps : ProgramChanges(a)
  /\ UNCHANGED <<pc, queued, wire, driver, move, shown, history>>

(* The push worker posts activity.changed, with the status of now. *)
WorkerPosts ==
  /\ pc = "up" /\ queued /\ queued' = FALSE
  /\ wire["queue"].type = "none"
  /\ wire' = [wire EXCEPT !["queue"] = [type |-> "changed", body |-> Report]]
  /\ UNCHANGED <<watching, pc, driver, move, shown, left, history>>

(* power.stopping, posted before the service ends. *)
PcAnnounces(m) ==
  /\ pc = "up" /\ Spends /\ pc' = "leaving"
  /\ wire' = [wire EXCEPT !["inline"] = [type |-> m, body |-> Report]]
  /\ UNCHANGED <<watching, queued, driver, move, shown, history>>

PcGoes ==
  /\ pc = "leaving"
  /\ \E to \in {"gone", "off"} : pc' = to /\ ScannerGone(to = "off")
  /\ queued' = FALSE
  /\ UNCHANGED <<wire, driver, move, shown, left, history>>

PcReturns ==
  /\ pc \in {"gone", "off"} /\ Spends /\ pc' = "up"
  /\ UNCHANGED <<watching, queued, wire, driver, move, shown, history>>

----------------------------------------------------------------------------
Other ==
  \/ BatchDue \/ WindowCloses
  \/ SwitchAnswered \/ SwitchRefused \/ SwitchFails \/ Execute
  \/ \E c \in Channels : Deliver(c) \/ Lose(c)
  \/ BatteryMoves \/ BatteryRepaints \/ ProfileLands \/ InfoChanged \/ RepaintPolls
  \/ DriverRestarts \/ DriverUpdate
  \/ ScanBegins \/ ScanEnds \/ UserSaves \/ UserRuns
  \/ WorkerPosts \/ \E m \in {"shutdown", "app_stop"} : PcAnnounces(m)
  \/ PcGoes \/ PcReturns

CardNext == (TimerPolls /\ beat' = ~beat) \/ (Other /\ UNCHANGED beat)

(* The timer polls on (a poll may change nothing but "beat"), batches      *)
(* follow each other, scans are made, the hub brings a profile move to its *)
(* end, and what was announced happens.                                    *)
CardFairness ==
  /\ []<><<beat' # beat>>_beat /\ WF_cardVars(BatchDue)
  /\ WF_cardVars(BatteryRepaints) /\ WF_cardVars(ProfileLands) /\ WF_cardVars(InfoChanged)
  /\ WF_cardVars(ScanBegins) /\ WF_cardVars(ScanEnds) /\ WF_cardVars(PcGoes)

CardSpec == CardInit /\ [][CardNext]_<<cardVars, beat>> /\ CardFairness

----------------------------------------------------------------------------
(* Type invariant. *)
CardTypeOK ==
  /\ WatchType /\ EmitType(em, Values)
  /\ pc \in {"up", "leaving", "gone", "off"} /\ queued \in BOOLEAN
  /\ st.power \in {"unknown", "on", "stopping", "off"}
  /\ cache \in [Rows -> Values] /\ cloud \in RecordsOf(Values)
  /\ asked \subseteq {"switch", "action"} /\ left \in 0..Budget
  /\ newest \in [Rows -> Values]

(* Whatever the app comes to show is the value last decided for the row: a *)
(* paint, the rotation or a resync never puts an older one over it.        *)
NewestGoesOut ==
  [][\A r \in DOMAIN cloud' : cloud'[r] = newest'[r] \/ Only(cloud, {r}) = Only(cloud', {r})]_cardVars

(* features.lua, watch_state: a slot that was "running" is not made        *)
(* "stopped", which fires routines, but by a report of a list that was     *)
(* scanned, or by a PC that goes.  So while the driver remembers what it   *)
(* decided last.                                                           *)
TellsStop(b, s) == b.scanned /\ SlotValue(b, s) = "stopped"
StopsAreReal ==
  [][\A s \in Slots :
       newest[s] = "running" /\ newest'[s] = "stopped" /\ sure' =>
         \/ TellsStop(Report, s)
         \/ \E c \in Channels :
              wire[c] # wire'[c] /\ (TellsStop(wire[c].body, s) \/ wire[c].type = "shutdown")]_cardVars

(* In the end the app shows what the PC does, whatever was lost on the way *)
(* or across a profile move.                                               *)
Settled == pc = "up" /\ list.on
CardCatchesUp ==
  <>[]Settled =>
    <>[](/\ Only(cloud, {"switch"}) = Row("switch", "on")
         /\ Only(cloud, Slots) = [s \in Slots |-> SlotValue(Match(list, alive), s)])

(* handlers/common.lua: no row of the app is left waiting, whatever happens *)
(* to the command; at the latest the rotation comes round.                 *)
Answered == []<>(asked = {})
=============================================================================
