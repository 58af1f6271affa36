----------------------------- MODULE NotifyBus -----------------------------
(***************************************************************************)
(* The notification pipeline of the service (service/notify: bus.go,       *)
(* digest.go, aggregate.go, quiet.go): a bounded queue that emitters never *)
(* block on and one worker that merges a backlog, filters, aggregates      *)
(* security events, holds back during quiet hours or a mute, and sends     *)
(* with retries.                                                           *)
(*                                                                         *)
(* The worker is sequential; what interleaves with it are emitters, Mute,  *)
(* Unmute, Close and the clock, which moves while the worker sleeps or     *)
(* sends.  Its control is the label pc plus two return labels: ret is      *)
(* where tick returns to, then where pass (quiet, deliver) returns to.     *)
(*                                                                         *)
(* The clock counts coarse units: a mute, a quiet window and an            *)
(* aggregation window last some of them; MinSendGap and the retry back-off *)
(* are shorter and only let the clock move while the worker waits.         *)
(***************************************************************************)
EXTENDS Integers, Sequences, FiniteSetsExt, Functions

CONSTANTS
  Sources,           \* where unauthorized requests come from
  QueueCapacity, MergeThreshold, MaxRetries, HeldCapacity,
  AggregateWindow,   \* length of an aggregation window
  HoldRecheck,       \* the longest sleep while events are held
  QuietStart, QuietEnd,   \* the quiet hours of the day the clock covers
  SecurityBypass, Digest, \* QuietHours settings
  MuteLengths,       \* how long a /mute may be
  MaxEvents,         \* bound: events that enter the queue
  MaxTime            \* bound: the clock's last instant, which stands for all later time

ASSUME BusAssumption ==
  /\ QueueCapacity \in Nat \ {0} /\ MergeThreshold \in Nat \ {0} /\ HeldCapacity \in Nat \ {0}
  /\ MaxRetries \in Nat /\ AggregateWindow \in Nat \ {0} /\ HoldRecheck \in Nat \ {0}
  /\ QuietStart \in Nat /\ QuietEnd \in Nat /\ MaxEvents \in Nat /\ MaxTime \in Nat
  /\ MuteLengths \subseteq Nat \ {0}
  /\ SecurityBypass \in BOOLEAN /\ Digest \in BOOLEAN
  /\ IsFiniteSet(Sources)

VARIABLES
  clock,
  emitting,    \* emitters between Emit's closing check and its send to the queue
  accepted,    \* how many events entered the queue (each then gets that id)
  queue, pending,
  pc, ret, then,
  now,         \* the worker's captured b.now()
  cur,         \* the event process has in hand
  out,         \* the event or summary pass has in hand
  attempt,     \* deliver's attempt
  windows,     \* windows[src]: the open aggregation window
  held, heldTotal,
  mutedUntil,
  timerAt,     \* the armed deadline timer, Never when there is none
  wake,        \* a poke the worker has not seen
  closing, cancelled,
  settled,     \* history: occurrences that left the pipeline, whatever their fate
  lastDirect,  \* history: id of the newest event sent as itself
  late         \* history: an event was enqueued after Close began

emitVars   == <<emitting, accepted, late>>
workerVars == <<pending, pc, ret, then, now, cur, out, attempt, windows, timerAt>>
heldVars   == <<held, heldTotal>>
closeVars  == <<closing, cancelled>>
history    == <<settled, lastDirect>>
vars == <<clock, emitVars, queue, workerVars, heldVars, mutedUntil, wake, closeVars, history>>

Never == -1
NoWindow == [until |-> Never, count |-> 0, first |-> 0, more |-> FALSE]
Templates == {[key |-> "grace", src |-> "none"], [key |-> "info", src |-> "none"]}
             \cup [key : {"unauthorized"}, src : Sources]
NoEvent == [id |-> 0, key |-> "none", src |-> "none", n |-> 0]

(* The occurrences the events of a sequence stand for. *)
Count(evs) == [i \in DOMAIN evs |-> evs[i].n]
Weight(evs) == SumFunctionOnSet(Count(evs), DOMAIN evs)

Init ==
  /\ clock = 0 /\ emitting = {} /\ accepted = 0 /\ late = FALSE
  /\ queue = <<>> /\ pending = <<>>
  /\ pc = "top" /\ ret = "arm" /\ then = "next" /\ now = 0
  /\ cur = NoEvent /\ out = NoEvent /\ attempt = 0
  /\ windows = [s \in Sources |-> NoWindow]
  /\ held = <<>> /\ heldTotal = 0 /\ mutedUntil = Never /\ timerAt = Never
  /\ wake = FALSE /\ closing = FALSE /\ cancelled = FALSE
  /\ settled = 0 /\ lastDirect = 0

----------------------------------------------------------------------------
(* Emitters, the /mute command, Close and the clock. *)

(* Emit, up to its look at closing: a closed bus drops the event. *)
EmitCheck(t) ==
  /\ ~closing
  /\ emitting = {} /\ accepted < MaxEvents   \* bound: one emitter at a time is in Emit
  /\ emitting' = emitting \cup {t}
  /\ UNCHANGED <<clock, accepted, late, queue, workerVars, heldVars, mutedUntil, wake, closeVars, history>>

(* Emit's non-blocking send: a full queue drops the event. *)
EmitSend(t) ==
  /\ t \in emitting
  /\ emitting' = emitting \ {t}
  /\ IF Len(queue) < QueueCapacity
     THEN /\ accepted' = accepted + 1
          /\ queue' = Append(queue, [id |-> accepted + 1, key |-> t.key, src |-> t.src, n |-> 1])
          /\ late' = (late \/ closing)
     ELSE UNCHANGED <<accepted, queue, late>>
  /\ UNCHANGED <<clock, workerVars, heldVars, mutedUntil, wake, closeVars, history>>

Mute(d) ==
  /\ clock + d <= MaxTime
  /\ mutedUntil' = clock + d /\ wake' = TRUE
  /\ UNCHANGED <<clock, emitVars, queue, workerVars, heldVars, closeVars, history>>

Unmute ==
  /\ mutedUntil # Never
  /\ mutedUntil' = Never /\ wake' = TRUE
  /\ UNCHANGED <<clock, emitVars, queue, workerVars, heldVars, closeVars, history>>

(* Close: announces itself, then waits CloseGrace before it cancels. *)
Close ==
  /\ ~closing
  /\ closing' = TRUE
  /\ UNCHANGED <<clock, emitVars, queue, workerVars, heldVars, mutedUntil, wake, cancelled, history>>

Cancel ==
  /\ closing /\ ~cancelled /\ pc # "done"
  /\ cancelled' = TRUE
  /\ UNCHANGED <<clock, emitVars, queue, workerVars, heldVars, mutedUntil, wake, closing, history>>

Tick ==
  /\ clock < MaxTime
  /\ clock' = clock + 1
  /\ UNCHANGED <<emitVars, queue, workerVars, heldVars, mutedUntil, wake, closeVars, history>>

----------------------------------------------------------------------------
(* Quiet hours and mute. *)
Quiet(t)   == QuietStart <= t /\ t < QuietEnd
Blocked(t) == (mutedUntil # Never /\ t < mutedUntil) \/ Quiet(t)
AlwaysPass(e) == e.key \in {"grace", "digest"}

(* heldDeadline: the end of what holds the backlog, at most HoldRecheck.   *)
(* (Mutant: the mute's or the quiet window's end is not a deadline.)       *)
NoHeldDeadline == {}
HeldDeadline ==
  IF heldTotal = 0 THEN {}
  ELSE {clock + HoldRecheck}
       \cup (IF mutedUntil # Never /\ clock < mutedUntil THEN {mutedUntil} ELSE {})
       \cup (IF Quiet(clock) THEN {QuietEnd} ELSE {})

NextDeadline ==
  LET at == HeldDeadline \cup {windows[s].until : s \in {r \in Sources : windows[r] # NoWindow}}
  IN  IF at = {} THEN Never ELSE Min(at)

(* mergeEvents: same-key events collapse into the newest, counts summed.   *)
(* Mutants: the counts are not summed; the survivors come out newest first *)
(* (out is built backwards and has to be reversed).                        *)
Newest(evs) == {i \in DOMAIN evs : \A j \in DOMAIN evs : evs[j].key = evs[i].key => j <= i}
Alike(evs, i) == {j \in DOMAIN evs : evs[j].key = evs[i].key}
Merged(evs, i) == [evs[i] EXCEPT !.n = SumFunctionOnSet(Count(evs), Alike(evs, i))]
Ranked(S, k) == CHOOSE i \in S : Cardinality({j \in S : j <= i}) = k
MergeUncounted(evs) ==
  [k \in 1..Cardinality(Newest(evs)) |-> evs[Ranked(Newest(evs), k)]]
MergeBackwards(evs) ==
  LET n == Cardinality(Newest(evs)) IN [k \in 1..n |-> Merged(evs, Ranked(Newest(evs), n + 1 - k))]
MergeEvents(evs) ==
  [k \in 1..Cardinality(Newest(evs)) |-> Merged(evs, Ranked(Newest(evs), k))]

----------------------------------------------------------------------------
(* The worker. *)
Env == <<clock, emitVars, mutedUntil, closeVars>>

(* run, top of the loop without pending events: tick, then arm and wait. *)
Top ==
  /\ pc = "top"
  /\ IF pending = <<>>
     THEN pc' = "tick" /\ ret' = "arm" /\ now' = clock
     ELSE pc' = "pick" /\ UNCHANGED <<ret, now>>
  /\ UNCHANGED <<Env, queue, pending, then, cur, out, attempt, windows, timerAt, heldVars, wake, history>>

Arm ==
  /\ pc = "arm"
  /\ timerAt' = NextDeadline
  /\ pc' = "wait"
  /\ UNCHANGED <<Env, queue, pending, ret, then, now, cur, out, attempt, windows, heldVars, wake, history>>

(* run's select: cancelled, an event, the timer, a poke or Close.  With    *)
(* Close the queue is drained first.                                       *)
WaitCancelled ==
  /\ pc = "wait" /\ cancelled
  /\ pc' = "done"
  /\ UNCHANGED <<Env, queue, pending, ret, then, now, cur, out, attempt, windows, timerAt, heldVars, wake, history>>

WaitEvent ==
  /\ pc = "wait" /\ queue # <<>>
  /\ pending' = Append(pending, Head(queue)) /\ queue' = Tail(queue)
  /\ pc' = "pick"
  /\ UNCHANGED <<Env, ret, then, now, cur, out, attempt, windows, timerAt, heldVars, wake, history>>

WaitTimer ==
  /\ pc = "wait" /\ timerAt # Never /\ (clock >= timerAt \/ clock = MaxTime)
  /\ timerAt' = Never /\ pc' = "top"
  /\ UNCHANGED <<Env, queue, pending, ret, then, now, cur, out, attempt, windows, heldVars, wake, history>>

WaitWake ==
  /\ pc = "wait" /\ wake
  /\ wake' = FALSE /\ pc' = "top"
  /\ UNCHANGED <<Env, queue, pending, ret, then, now, cur, out, attempt, windows, timerAt, heldVars, history>>

(* Mutant: Close ends the worker without draining the queue. *)
WaitClosingUndrained ==
  /\ pc = "wait" /\ closing
  /\ pc' = "shutdown"
  /\ UNCHANGED <<Env, queue, pending, ret, then, now, cur, out, attempt, windows, timerAt, heldVars, wake, history>>

WaitClosing ==
  /\ pc = "wait" /\ closing
  /\ pending' = pending \o queue /\ queue' = <<>>
  /\ pc' = IF pending' = <<>> THEN "shutdown" ELSE "pick"
  /\ UNCHANGED <<Env, ret, then, now, cur, out, attempt, windows, timerAt, heldVars, wake, history>>

(* run: drain, merge a backlog, take the oldest and process it. *)
Pick ==
  /\ pc = "pick"
  /\ LET all == pending \o queue
         evs == IF Len(all) > MergeThreshold THEN MergeEvents(all) ELSE all
     IN  /\ pending' = Tail(evs)
         /\ IF cancelled
            THEN pc' = "done" /\ settled' = settled + Head(evs).n /\ UNCHANGED <<ret, now, cur>>
            ELSE /\ pc' = "tick" /\ ret' = "filter" /\ now' = clock
                 /\ cur' = Head(evs) /\ UNCHANGED settled
  /\ queue' = <<>>
  /\ UNCHANGED <<Env, then, out, attempt, windows, timerAt, heldVars, wake, lastDirect>>

(* Where pass goes with e: it is delivered now or set aside. *)
PassTo(e, back) == pc' = "quiet" /\ out' = e /\ then' = back

Summary(s) == [id |-> 0, key |-> "unauthorized", src |-> s,
               n |-> windows[s].count - windows[s].first]

(* closeWindows + summarise for one window: nothing is sent for a window   *)
(* that only saw its first event.                                          *)
CloseWindow(s, back) ==
  /\ windows' = [windows EXCEPT ![s] = NoWindow]
  /\ IF windows[s].more
     THEN PassTo(Summary(s), back)
     ELSE pc' = back /\ UNCHANGED <<out, then>>

Expired(t) == {s \in Sources : windows[s] # NoWindow /\ windows[s].until <= t}

TickWindow ==
  /\ pc = "tick"
  /\ \E s \in Expired(now) :
       /\ \A r \in Expired(now) : windows[s].until <= windows[r].until
       /\ CloseWindow(s, "tick")
  /\ UNCHANGED <<Env, queue, pending, ret, now, cur, attempt, timerAt, heldVars, wake, history>>

(* tick's second half: what was held is released once nothing blocks. *)
TickHeld ==
  /\ pc = "tick" /\ Expired(now) = {}
  /\ IF heldTotal > 0 /\ ~Blocked(now)
     THEN /\ held' = <<>> /\ heldTotal' = 0
          /\ IF Digest
             THEN /\ pc' = "deliver" /\ attempt' = 0 /\ then' = ret
                  /\ out' = [id |-> 0, key |-> "digest", src |-> "none", n |-> 0]
             ELSE pc' = ret /\ UNCHANGED <<out, attempt, then>>
     ELSE pc' = ret /\ UNCHANGED <<heldVars, out, attempt, then>>
  /\ now' = 0
  /\ UNCHANGED <<Env, queue, pending, ret, cur, windows, timerAt, wake, history>>

(* process is through with the event in hand. *)
Consumed == cur' = NoEvent /\ now' = 0

(* process, stage 1: the category filter reads the live configuration, so  *)
(* either answer is possible for any event.                                *)
Filter ==
  /\ pc = "filter"
  /\ \/ pc' = "top" /\ settled' = settled + cur.n /\ Consumed
     \/ pc' = "aggregate" /\ now' = clock /\ UNCHANGED <<settled, cur>>
  /\ UNCHANGED <<Env, queue, pending, ret, then, out, attempt, windows, timerAt, heldVars, wake, lastDirect>>

(* stage 2, aggregate: the first event of a source opens a window and      *)
(* passes, the others are counted; a window that ran out is summarised     *)
(* before a new one is opened.                                             *)
Aggregate ==
  /\ pc = "aggregate"
  /\ LET w == windows[cur.src] IN
     \/ /\ cur.key # "unauthorized"
        /\ PassTo(cur, "top") /\ Consumed /\ UNCHANGED windows
     \/ /\ cur.key = "unauthorized" /\ w # NoWindow /\ now < w.until
        /\ windows' = [windows EXCEPT ![cur.src] =
              [until |-> w.until, count |-> w.count + cur.n, first |-> w.first, more |-> TRUE]]
        /\ pc' = "top" /\ Consumed /\ UNCHANGED <<out, then>>
     \/ /\ cur.key = "unauthorized" /\ w # NoWindow /\ now >= w.until
        /\ CloseWindow(cur.src, "aggregate") /\ UNCHANGED <<cur, now>>
     \/ /\ cur.key = "unauthorized" /\ w = NoWindow
        /\ windows' = [windows EXCEPT ![cur.src] =
              [until |-> now + AggregateWindow, count |-> cur.n, first |-> cur.n, more |-> FALSE]]
        /\ PassTo(cur, "top") /\ Consumed
  /\ UNCHANGED <<Env, queue, pending, ret, attempt, timerAt, heldVars, wake, history>>

(* Mutant: the backlog is not bounded. *)
QuietUnbounded ==
  /\ pc = "quiet"
  /\ IF AlwaysPass(out) \/ ~Blocked(clock) \/ (out.key = "unauthorized" /\ SecurityBypass)
     THEN /\ pc' = "deliver" /\ attempt' = 0
          /\ UNCHANGED <<heldVars, out, settled>>
     ELSE /\ pc' = then
          /\ heldTotal' = heldTotal + 1
          /\ held' = Append(held, out.key)
          /\ settled' = settled + out.n
          /\ out' = NoEvent /\ UNCHANGED attempt
  /\ UNCHANGED <<Env, queue, pending, ret, then, now, cur, windows, timerAt, wake, lastDirect>>

(* stage 3, quiet: pass, or hold; the backlog drops its oldest event. *)
QuietStage ==
  /\ pc = "quiet"
  /\ IF AlwaysPass(out) \/ ~Blocked(clock) \/ (out.key = "unauthorized" /\ SecurityBypass)
     THEN /\ pc' = "deliver" /\ attempt' = 0
          /\ UNCHANGED <<heldVars, out, settled>>
     ELSE /\ pc' = then
          /\ heldTotal' = heldTotal + 1
          /\ held' = Append(IF Len(held) >= HeldCapacity THEN Tail(held) ELSE held, out.key)
          /\ settled' = settled + out.n
          /\ out' = NoEvent /\ UNCHANGED attempt
  /\ UNCHANGED <<Env, queue, pending, ret, then, now, cur, windows, timerAt, wake, lastDirect>>

(* deliver: the send succeeds, fails and is retried, or is given up after  *)
(* the last retry or when Close cancels.                                   *)
Settle == pc' = then /\ settled' = settled + out.n /\ out' = NoEvent

SendOk ==
  /\ pc = "deliver" /\ ~cancelled
  /\ Settle
  /\ lastDirect' = IF out.id # 0 THEN out.id ELSE lastDirect
  /\ UNCHANGED <<Env, queue, pending, ret, then, now, cur, attempt, windows, timerAt, heldVars, wake>>

SendFail ==
  /\ pc = "deliver"
  /\ IF cancelled \/ attempt >= MaxRetries
     THEN Settle /\ UNCHANGED attempt
     ELSE attempt' = attempt + 1 /\ UNCHANGED <<pc, out, settled>>
  /\ UNCHANGED <<Env, queue, pending, ret, then, now, cur, windows, timerAt, heldVars, wake, lastDirect>>

(* shutdown: open windows are summarised now, what is held is dropped. *)
ShutdownWindow ==
  /\ pc = "shutdown"
  /\ \E s \in Sources :
       /\ windows[s] # NoWindow
       /\ \A r \in Sources : windows[r] # NoWindow => windows[s].until <= windows[r].until
       /\ CloseWindow(s, "shutdown")
  /\ UNCHANGED <<Env, queue, pending, ret, now, cur, attempt, timerAt, heldVars, wake, history>>

ShutdownDone ==
  /\ pc = "shutdown"
  /\ \A s \in Sources : windows[s] = NoWindow
  /\ pc' = "done" /\ held' = <<>> /\ heldTotal' = 0
  /\ UNCHANGED <<Env, queue, pending, ret, then, now, cur, out, attempt, windows, timerAt, wake, history>>

Worker ==
  \/ Top \/ Arm \/ WaitCancelled \/ WaitEvent \/ WaitTimer \/ WaitWake \/ WaitClosing
  \/ Pick \/ TickWindow \/ TickHeld \/ Filter \/ Aggregate \/ QuietStage
  \/ ShutdownWindow \/ ShutdownDone

Send == SendOk \/ SendFail

Next ==
  \/ \E t \in Templates : EmitCheck(t) \/ EmitSend(t)
  \/ \E d \in MuteLengths : Mute(d)
  \/ Unmute \/ Close \/ Cancel \/ Tick \/ Worker \/ Send

(* The clock moves, the worker runs when it can, Close cancels after its   *)
(* grace, and a send returns: the client bounds every call by callTimeout. *)
Fairness == WF_vars(Tick) /\ WF_vars(Worker) /\ WF_vars(Cancel) /\ WF_vars(Send)

Spec == Init /\ [][Next]_vars /\ Fairness

----------------------------------------------------------------------------
Events == [id : 0..MaxEvents, key : {"grace", "info", "unauthorized", "digest", "none"},
           src : Sources \cup {"none"}, n : 0..MaxEvents]
Labels == {"top", "arm", "wait", "pick", "tick", "filter", "aggregate", "quiet", "deliver",
           "shutdown", "done"}

(* Type invariant; the queue and the backlog keep within their capacity. *)
TypeOK ==
  /\ clock \in 0..MaxTime /\ now \in 0..MaxTime
  /\ emitting \subseteq Templates /\ accepted \in 0..MaxEvents
  /\ \A i \in DOMAIN queue : queue[i] \in Events
  /\ \A i \in DOMAIN pending : pending[i] \in Events
  /\ Len(queue) <= QueueCapacity /\ Len(held) <= HeldCapacity /\ Len(held) <= heldTotal
  /\ pc \in Labels /\ ret \in {"arm", "filter"}
  /\ then \in {"next", "tick", "arm", "filter", "top", "aggregate", "shutdown"}
  /\ cur \in Events /\ out \in Events /\ attempt \in 0..MaxRetries
  /\ \A s \in Sources : windows[s].first <= windows[s].count
  /\ mutedUntil \in {Never} \cup 0..MaxTime /\ timerAt \in {Never} \cup Nat
  /\ {wake, closing, cancelled, late} \subseteq BOOLEAN

Absorbed == SumFunctionOnSet([s \in Sources |-> windows[s].count - windows[s].first], Sources)

(* No occurrence is lost or counted twice on its way: whatever the order   *)
(* of merges, window closings, retries, mutes and Close, the queue, the    *)
(* backlog being merged, the event in work, the open windows and what left *)
(* the pipeline add up to what was accepted.                               *)
NothingVanishes ==
  accepted = Weight(queue) + Weight(pending) + cur.n + out.n + Absorbed + settled

(* "Events reach the sink in emit order": merging, waiting windows and     *)
(* retries never let an event overtake an older one.                       *)
DirectInOrder == [][lastDirect' # lastDirect => lastDirect' > lastDirect]_vars

(* "Already-queued events are still delivered and open aggregation windows *)
(* are closed early": a worker that ended by itself left nothing behind,   *)
(* unless an emitter slipped an event in after Close.                      *)
NoLossOnClose == pc = "done" /\ ~cancelled /\ ~late => settled = accepted

(* What quiet hours or a mute hold back is released (or dropped) in the    *)
(* end, even when no other event ever wakes the worker, unless the bus is  *)
(* cancelled first.                                                        *)
HeldReleased == heldTotal > 0 ~> heldTotal = 0 \/ pc = "done"
============================================================================
