---------------------------- MODULE HubLinkProofs ----------------------------
(***************************************************************************)
(* Proofs about HubLink, for every limit and budget: its type invariant,   *)
(* and on it that what the PC announced stays on show.                     *)
(***************************************************************************)
EXTENDS HubLink, TLAPS

(* A state the driver may store, whose app_stop window is that of push w.  *)
At(s, w) == s \in DeviceState /\ s.stoppedAt = w

(* Setting one field to a value of its type keeps the type, and, but for   *)
(* stoppedAt, the window.                                                  *)
LEMMA FieldSet ==
  ASSUME NEW s, NEW w, At(s, w)
  PROVE  /\ \A x \in Powers : At([s EXCEPT !.power = x], w)
         /\ \A x \in 0..UnreachableLimit : At([s EXCEPT !.misses = x], w)
         /\ \A x \in BOOLEAN : At([s EXCEPT !.appDown = x], w)
         /\ \A x \in BOOLEAN : At([s EXCEPT !.appStopped = x], w)
         /\ \A x \in Nat : At([s EXCEPT !.stoppedAt = x], x)
         /\ \A x \in Reasons \cup {"none"} : At([s EXCEPT !.reason = x], w)
         /\ \A x \in (Powers \ {"on", "waking"}) \cup {"none"} : At([s EXCEPT !.wakeFrom = x], w)
<1>1. \A x \in Powers : At([s EXCEPT !.power = x], w)
  BY DEF DeviceState, At
<1>2. \A x \in 0..UnreachableLimit : At([s EXCEPT !.misses = x], w)
  BY DEF DeviceState, At
<1>3. \A x \in BOOLEAN : At([s EXCEPT !.appDown = x], w)
  BY DEF DeviceState, At
<1>4. \A x \in BOOLEAN : At([s EXCEPT !.appStopped = x], w)
  BY DEF DeviceState, At
<1>5. \A x \in Nat : At([s EXCEPT !.stoppedAt = x], x)
  BY DEF DeviceState, At
<1>6. \A x \in Reasons \cup {"none"} : At([s EXCEPT !.reason = x], w)
  BY DEF DeviceState, At
<1>7. \A x \in (Powers \ {"on", "waking"}) \cup {"none"} : At([s EXCEPT !.wakeFrom = x], w)
  BY DEF DeviceState, At
<1>. QED BY <1>1, <1>2, <1>3, <1>4, <1>5, <1>6, <1>7

LEMMA ValuesTyped ==
  /\ 0 \in 0..UnreachableLimit /\ TRUE \in BOOLEAN /\ FALSE \in BOOLEAN /\ 0 \in Nat
  /\ {"on", "off", "sleeping", "waking", "shuttingDown"} \subseteq Powers
  /\ "none" \in Reasons \cup {"none"} /\ Reasons \subseteq Reasons \cup {"none"}
  /\ "none" \in (Powers \ {"on", "waking"}) \cup {"none"}
BY HubPowerAssumption DEF Powers, Reasons

(* Every event of the power state machine leads from one state the driver  *)
(* can store to another; only an app_stop push names a window.             *)
LEMMA NewTyped == At(New, 0)
BY HubPowerAssumption DEF New, DeviceState, Powers, Reasons, At

LEMMA StatusOkTyped == \A s : At(StatusOk(s), 0)
BY NewTyped, FieldSet, ValuesTyped DEF StatusOk

LEMMA AppDownTyped ==
  ASSUME NEW s, NEW w, At(s, w)
  PROVE  At(AppDown(s), w)
<1>. DEFINE a == [s EXCEPT !.misses = 0]
            b == [a EXCEPT !.appDown = TRUE]
            c == [b EXCEPT !.power = "on"]
            d == [c EXCEPT !.reason = "none"]
            e == [d EXCEPT !.wakeFrom = "none"]
<1>1. AppDown(s) = IF s.power = "shuttingDown" THEN b ELSE e
  BY DEF AppDown
<1>2. At(a, w)
  BY FieldSet, ValuesTyped
<1>. HIDE DEF a
<1>3. At(b, w)
  BY <1>2, FieldSet, ValuesTyped
<1>. HIDE DEF b
<1>4. At(c, w)
  BY <1>3, FieldSet, ValuesTyped
<1>. HIDE DEF c
<1>5. At(d, w)
  BY <1>4, FieldSet, ValuesTyped
<1>. HIDE DEF d
<1>6. At(e, w)
  BY <1>5, FieldSet, ValuesTyped
<1>. QED BY <1>1, <1>3, <1>6

LEMMA AppAnsweredTyped ==
  ASSUME NEW s, NEW w, At(s, w)
  PROVE  At(AppAnswered(s), 0)
<1>. DEFINE a == [s EXCEPT !.appDown = FALSE]
            b == [a EXCEPT !.appStopped = FALSE]
<1>1. AppAnswered(s) = [b EXCEPT !.stoppedAt = 0]
  BY DEF AppAnswered
<1>2. At(a, w)
  BY FieldSet, ValuesTyped
<1>. HIDE DEF a
<1>3. At(b, w)
  BY <1>2, FieldSet, ValuesTyped
<1>. HIDE DEF b
<1>. QED BY <1>1, <1>3, FieldSet, ValuesTyped

LEMMA UnreachableTyped ==
  ASSUME NEW s, NEW w, At(s, w)
  PROVE  At(Unreachable(s), w) \/ At(Unreachable(s), 0)
<1>. DEFINE count == IF s.misses < UnreachableLimit THEN s.misses + 1 ELSE s.misses
            to == IF s.reason = "suspend" THEN "sleeping" ELSE "off"
            a == [s EXCEPT !.misses = count]
            b == [a EXCEPT !.appDown = FALSE]
            c == [b EXCEPT !.appStopped = FALSE]
            d == [c EXCEPT !.stoppedAt = 0]
            e == [d EXCEPT !.power = to]
<1>1. Unreachable(s) \in {b, e}
  BY DEF Unreachable
<1>2. count \in 0..UnreachableLimit
  BY HubPowerAssumption DEF DeviceState, At
<1>3. to \in Powers
  BY ValuesTyped
<1>. HIDE DEF count, to
<1>4. At(a, w)
  BY <1>2, FieldSet
<1>. HIDE DEF a
<1>5. At(b, w)
  BY <1>4, FieldSet, ValuesTyped
<1>. HIDE DEF b
<1>6. At(c, w)
  BY <1>5, FieldSet, ValuesTyped
<1>. HIDE DEF c
<1>7. At(d, 0)
  BY <1>6, FieldSet, ValuesTyped
<1>. HIDE DEF d
<1>8. At(e, 0)
  BY <1>3, <1>7, FieldSet
<1>. QED BY <1>1, <1>5, <1>8

LEMMA AppStopTyped ==
  ASSUME NEW s, NEW w, At(s, w), NEW at \in Nat
  PROVE  At(AppStop(s, at), 0) \/ At(AppStop(s, at), at)
<1>. DEFINE a == [s EXCEPT !.misses = 0]
            b == [a EXCEPT !.appDown = TRUE]
            c == [b EXCEPT !.appStopped = TRUE]
            d == [c EXCEPT !.stoppedAt = 0]
            e == [d EXCEPT !.wakeFrom = "none"]
            f == [e EXCEPT !.power = "on"]
            g == [f EXCEPT !.reason = "none"]
            h == [g EXCEPT !.stoppedAt = at]
<1>1. AppStop(s, at) \in {e, h}
  BY DEF AppStop
<1>2. At(a, w)
  BY FieldSet, ValuesTyped
<1>. HIDE DEF a
<1>3. At(b, w)
  BY <1>2, FieldSet, ValuesTyped
<1>. HIDE DEF b
<1>4. At(c, w)
  BY <1>3, FieldSet, ValuesTyped
<1>. HIDE DEF c
<1>5. At(d, 0)
  BY <1>4, FieldSet, ValuesTyped
<1>. HIDE DEF d
<1>6. At(e, 0)
  BY <1>5, FieldSet, ValuesTyped
<1>. HIDE DEF e
<1>7. At(f, 0)
  BY <1>6, FieldSet, ValuesTyped
<1>. HIDE DEF f
<1>8. At(g, 0)
  BY <1>7, FieldSet, ValuesTyped
<1>. HIDE DEF g
<1>9. At(h, at)
  BY <1>8, FieldSet
<1>. QED BY <1>1, <1>6, <1>9

LEMMA StoppingTyped ==
  ASSUME NEW s, NEW r \in Reasons
  PROVE  At(Stopping(s, r), 0)
<1>. DEFINE to == IF r = "suspend" THEN "sleeping" ELSE "shuttingDown"
            a == [New EXCEPT !.reason = r]
<1>1. Stopping(s, r) = [a EXCEPT !.power = to]
  BY DEF Stopping
<1>2. to \in Powers /\ r \in Reasons \cup {"none"}
  BY ValuesTyped
<1>3. At(a, 0)
  BY <1>2, NewTyped, FieldSet
<1>. HIDE DEF a, to
<1>. QED BY <1>1, <1>2, <1>3, FieldSet

LEMMA SwitchOnTyped ==
  ASSUME NEW s, NEW w, At(s, w)
  PROVE  At(SwitchOn(s), w)
<1>. DEFINE from == IF s.power = "waking" THEN s.wakeFrom ELSE s.power
            a == [s EXCEPT !.misses = 0]
            b == [a EXCEPT !.wakeFrom = from]
            c == [b EXCEPT !.power = "waking"]
<1>1. SwitchOn(s) = IF s.power = "on" THEN a ELSE c
  BY DEF SwitchOn
<1>2. At(a, w)
  BY FieldSet, ValuesTyped
<1>3. CASE s.power # "on"
  <2>1. from \in (Powers \ {"on", "waking"}) \cup {"none"}
    BY <1>3 DEF DeviceState, At
  <2>. HIDE DEF from, a
  <2>2. At(b, w)
    BY <2>1, <1>2, FieldSet
  <2>. HIDE DEF b
  <2>3. At(c, w)
    BY <2>2, FieldSet, ValuesTyped
  <2>. QED BY <1>1, <1>3, <2>3
<1>. QED BY <1>1, <1>2, <1>3

LEMMA WakeTimeoutTyped ==
  ASSUME NEW s, NEW w, At(s, w)
  PROVE  At(WakeTimeout(s), w)
<1>. DEFINE to == IF s.wakeFrom = "none" THEN "off" ELSE s.wakeFrom
            a == [s EXCEPT !.power = to]
            b == [a EXCEPT !.wakeFrom = "none"]
<1>1. WakeTimeout(s) = IF s.power # "waking" THEN s ELSE b
  BY DEF WakeTimeout
<1>2. to \in Powers
  BY ValuesTyped DEF DeviceState, At
<1>. HIDE DEF to
<1>3. At(a, w)
  BY <1>2, FieldSet
<1>. HIDE DEF a
<1>4. At(b, w)
  BY <1>3, FieldSet, ValuesTyped
<1>. QED BY <1>1, <1>4

LEMMA ScheduleCancelledTyped ==
  ASSUME NEW s, NEW w, At(s, w)
  PROVE  At(ScheduleCancelled(s), w)
<1>. DEFINE a == [s EXCEPT !.power = "on"]
            b == [a EXCEPT !.reason = "none"]
            c == [b EXCEPT !.misses = 0]
<1>1. ScheduleCancelled(s) \in {s, c}
  BY DEF ScheduleCancelled
<1>2. At(a, w)
  BY FieldSet, ValuesTyped
<1>. HIDE DEF a
<1>3. At(b, w)
  BY <1>2, FieldSet, ValuesTyped
<1>. HIDE DEF b
<1>4. At(c, w)
  BY <1>3, FieldSet, ValuesTyped
<1>. QED BY <1>1, <1>4

LEMMA WindowTyped ==
  ASSUME NEW s, NEW w, At(s, w)
  PROVE  At(WindowChecked(s), w) \/ At(WindowChecked(s), 0)
BY FieldSet, ValuesTyped DEF WindowChecked
----------------------------------------------------------------------------
(* A state that names no push that has not come yet: the number of app_stop *)
(* pushes bounds what the driver has stored and what a poll remembers, so  *)
(* that what a failed poll writes back is again such a state.              *)
Known(s, n) == s \in DeviceState /\ s.stoppedAt <= n
TasksOK(tk, n) == tk \in [Tasks -> TaskState] /\ \A t \in Tasks : Known(tk[t].cur, n)
DriverOK == Known(st, stops) /\ stored = st.stoppedAt /\ stops \in Nat /\ over \in 0..stops
OthersOK ==
  /\ wakeTimer \in BOOLEAN
  /\ sub \in {"none", "fresh", "due"} /\ renewTimer \in {"none", "renew", "soon"}
  /\ pc \in {"up", "gone", "asleep", "off"} /\ going \in {"none", "gone", "asleep", "off"}
  /\ svcSub \in {"none", "current", "old"}
  /\ wire \in [Channels -> {"none", "ok", "cancelled", "app_stop"} \cup Reasons]
  /\ left \in 0..Budget /\ told \in {"none", "sleep", "app"} /\ alone \in BOOLEAN

(* The inductive invariant: the type invariant, and the snapshots' windows. *)
IInv == DriverOK /\ TasksOK(task, stops) /\ OthersOK

LEMMA IInvTypeOK == IInv => TypeOK
BY DEF IInv, TypeOK, DriverOK, OthersOK, TasksOK, Known

LEMMA KnownEvents ==
  ASSUME NEW n \in Nat, NEW s, Known(s, n)
  PROVE  /\ Known(New, n) /\ Known(StatusOk(s), n) /\ Known(AppDown(s), n)
         /\ Known(AppAnswered(s), n) /\ Known(Unreachable(s), n) /\ Known(SwitchOn(s), n)
         /\ Known(WakeTimeout(s), n) /\ Known(ScheduleCancelled(s), n)
         /\ Known(WindowChecked(s), n)
         /\ \A r \in Reasons : Known(Stopping(s, r), n)
         /\ \A at \in 0..n : Known(AppStop(s, at), n)
<1>. DEFINE w == s.stoppedAt
<1>1. At(s, w) /\ w \in Nat /\ w <= n
  BY DEF Known, At, DeviceState
<1>. HIDE DEF w
<1>2. \A v : (At(v, 0) \/ At(v, w)) => Known(v, n)
  BY <1>1 DEF Known, At
<1>3. \A r \in Reasons : Known(Stopping(s, r), n)
  BY <1>2, StoppingTyped
<1>4. ASSUME NEW at \in 0..n PROVE Known(AppStop(s, at), n)
  <2>1. At(AppStop(s, at), 0) \/ At(AppStop(s, at), at)
    BY <1>1, AppStopTyped
  <2>. QED BY <2>1 DEF Known, At
<1>5. Known(New, n) /\ Known(StatusOk(s), n)
  BY <1>2, NewTyped, StatusOkTyped
<1>6. Known(AppDown(s), n) /\ Known(SwitchOn(s), n) /\ Known(WakeTimeout(s), n)
  BY <1>1, <1>2, AppDownTyped, SwitchOnTyped, WakeTimeoutTyped
<1>7. Known(AppAnswered(s), n) /\ Known(Unreachable(s), n)
  BY <1>1, <1>2, AppAnsweredTyped, UnreachableTyped
<1>8. Known(ScheduleCancelled(s), n) /\ Known(WindowChecked(s), n)
  BY <1>1, <1>2, ScheduleCancelledTyped, WindowTyped
<1>. QED BY <1>3, <1>4, <1>5, <1>6, <1>7, <1>8

(* One task is given a new state. *)
LEMMA TaskSet ==
  ASSUME NEW n \in Nat, NEW tk, TasksOK(tk, n), NEW t \in Tasks,
         NEW v \in TaskState, Known(v.cur, n)
  PROVE  TasksOK([tk EXCEPT ![t] = v], n)
BY DEF TasksOK

LEMMA IdleTyped ==
  ASSUME NEW n \in Nat
  PROVE  Idle \in TaskState /\ Known(Idle.cur, n)
BY NewTyped DEF Idle, TaskState, Known, At

(* A later count of pushes bounds what an earlier one did. *)
LEMMA Later ==
  ASSUME NEW n \in Nat, NEW m \in Nat, n <= m
  PROVE  /\ \A s : Known(s, n) => Known(s, m)
         /\ \A tk : TasksOK(tk, n) => TasksOK(tk, m)
BY DEF Known, TasksOK, DeviceState

(* The end of a callback stores a known state. *)
LEMMA EndsTyped ==
  ASSUME IInv, NEW t \in Tasks, NEW s, Known(s, stops), Ends(t, s), UNCHANGED <<stops, over>>
  PROVE  DriverOK' /\ TasksOK(task, stops)'
<1>1. stops \in Nat
  BY DEF IInv, DriverOK
<1>2. Known(st', stops) /\ stored' = st'.stoppedAt
  BY <1>1, KnownEvents DEF Ends, SetState
<1>3. TasksOK(task', stops)
  BY <1>1, TaskSet, IdleTyped DEF Ends, IInv
<1>. QED BY <1>2, <1>3 DEF DriverOK, IInv
----------------------------------------------------------------------------
(* A poll's own steps. *)
LEMMA AsksTyped ==
  ASSUME IInv, NEW t \in Tasks, NEW look \in BOOLEAN, Asks(t, look)
  PROVE  TasksOK(task', stops)
<1>. DEFINE v == [at |-> "get", cur |-> st, res |-> "none", look |-> look]
<1>1. v \in TaskState /\ Known(v.cur, stops) /\ stops \in Nat
  BY DEF IInv, DriverOK, Known, TaskState
<1>2. task' = [task EXCEPT ![t] = v]
  BY DEF Asks
<1>. HIDE DEF v
<1>. QED BY <1>1, <1>2, TaskSet DEF IInv

(* Setting a field of a task that says nothing of its snapshot. *)
LEMMA TaskFieldSet ==
  ASSUME IInv, NEW t \in Tasks
  PROVE  /\ \A r \in {"none", "ok", "late", "error", "limited", "lost"} :
              TasksOK([task EXCEPT ![t].res = r], stops)
         /\ \A a \in {"idle", "get", "search", "subscribe"} :
              TasksOK([task EXCEPT ![t].at = a], stops)
<1>1. task[t] \in TaskState /\ Known(task[t].cur, stops) /\ stops \in Nat
  BY DEF IInv, TasksOK, DriverOK
<1>2. ASSUME NEW r \in {"none", "ok", "late", "error", "limited", "lost"}
      PROVE  TasksOK([task EXCEPT ![t].res = r], stops)
  <2>. DEFINE v == [task[t] EXCEPT !.res = r]
  <2>1. v \in TaskState /\ v.cur = task[t].cur
    BY <1>1 DEF TaskState
  <2>. HIDE DEF v
  <2>2. TasksOK([task EXCEPT ![t] = v], stops)
    BY <1>1, <2>1, TaskSet DEF IInv
  <2>. QED BY <2>2 DEF v
<1>3. ASSUME NEW a \in {"idle", "get", "search", "subscribe"}
      PROVE  TasksOK([task EXCEPT ![t].at = a], stops)
  <2>. DEFINE v == [task[t] EXCEPT !.at = a]
  <2>1. v \in TaskState /\ v.cur = task[t].cur
    BY <1>1 DEF TaskState
  <2>. HIDE DEF v
  <2>2. TasksOK([task EXCEPT ![t] = v], stops)
    BY <1>1, <2>1, TaskSet DEF IInv
  <2>. QED BY <2>2 DEF v
<1>. QED BY <1>2, <1>3

LEMMA PollTyped ==
  ASSUME IInv, NEW t \in Tasks, PollStart(t) \/ PcAnswers(t) \/ PollEnds(t)
  PROVE  IInv'
<1>0. /\ stops \in Nat /\ Known(st, stops) /\ Known(task[t].cur, stops)
      /\ task[t] \in TaskState
  BY DEF IInv, DriverOK, TasksOK
<1>a. (DriverOK /\ UNCHANGED <<driver, over>>) => DriverOK'
  BY DEF DriverOK, driver
<1>1. CASE PollStart(t)
  <2>1. DriverOK' /\ UNCHANGED stops
    BY <1>1, <1>a DEF PollStart, IInv, driver
  <2>2. TasksOK(task', stops)
    BY <1>1, AsksTyped DEF PollStart
  <2>3. OthersOK'
    BY <1>1, HubLinkAssumption DEF PollStart, IInv, OthersOK, Spends, subbed, service, history
  <2>. QED BY <2>1, <2>2, <2>3 DEF IInv
<1>2. CASE PcAnswers(t)
  <2>1. DriverOK' /\ UNCHANGED stops
    BY <1>2, <1>a DEF PcAnswers, IInv, driver
  <2>2. TasksOK(task', stops)
    BY <1>2, TaskFieldSet DEF PcAnswers
  <2>3. OthersOK'
    BY <1>2, HubLinkAssumption DEF PcAnswers, IInv, OthersOK, Spends, subbed, service, history
  <2>. QED BY <2>1, <2>2, <2>3 DEF IInv
<1>3. CASE PollOk(t)
  <2>1. Known(StatusOk(task[t].cur), stops)
    BY <1>0, KnownEvents
  <2>2. DriverOK' /\ TasksOK(task, stops)'
    <3>1. CASE Live(sub)
      BY <1>3, <2>1, <3>1, EndsTyped DEF PollOk
    <3>2. CASE ~Live(sub)
      <4>1. DriverOK' /\ UNCHANGED stops
        BY <1>3, <2>1, <3>2 DEF PollOk, SetState, DriverOK, IInv
      <4>2. TasksOK(task', stops)
        BY <1>3, <3>2, TaskFieldSet DEF PollOk
      <4>. QED BY <4>1, <4>2
    <3>. QED BY <3>1, <3>2
  <2>3. OthersOK'
    BY <1>3 DEF PollOk, IInv, OthersOK, Heard, subbed, service
  <2>. QED BY <2>2, <2>3 DEF IInv
<1>4. CASE PollError(t)
  <2>. DEFINE s == WindowChecked(IF task[t].cur.appDown THEN AppAnswered(task[t].cur)
                                 ELSE task[t].cur)
  <2>1. Known(s, stops)
    BY <1>0, KnownEvents
  <2>2. Ends(t, s) /\ UNCHANGED <<stops, over>>
    BY <1>4 DEF PollError
  <2>. HIDE DEF s
  <2>3. DriverOK' /\ TasksOK(task, stops)'
    BY <2>1, <2>2, EndsTyped
  <2>4. OthersOK'
    BY <1>4 DEF PollError, IInv, OthersOK, Heard, subbed, service
  <2>. QED BY <2>3, <2>4 DEF IInv
<1>5. CASE PollLimited(t)
  <2>1. DriverOK' /\ TasksOK(task, stops)'
    BY <1>0, <1>5, EndsTyped DEF PollLimited
  <2>2. OthersOK'
    BY <1>5 DEF PollLimited, IInv, OthersOK, Silence, subbed, service, history
  <2>. QED BY <2>1, <2>2 DEF IInv
<1>6. CASE PollFails(t)
  <2>1. DriverOK' /\ UNCHANGED stops
    BY <1>6, <1>a DEF PollFails, IInv, driver
  <2>2. PICK text : task' = [task EXCEPT ![t].at = "search",
          ![t].cur = IF Kind(text) = "app_down" THEN AppDown(@) ELSE Unreachable(@)]
    BY <1>6 DEF PollFails
  <2>. DEFINE s == IF Kind(text) = "app_down" THEN AppDown(task[t].cur)
                   ELSE Unreachable(task[t].cur)
              v == [task[t] EXCEPT !.at = "search", !.cur = s]
  <2>3. Known(s, stops)
    BY <1>0, KnownEvents
  <2>4. task' = [task EXCEPT ![t] = v]
    BY <2>2 DEF IInv, TasksOK
  <2>. HIDE DEF s
  <2>5. v \in TaskState /\ v.cur = s
    BY <1>0, <2>3 DEF TaskState, Known
  <2>. HIDE DEF v
  <2>6. TasksOK(task', stops)
    BY <1>0, <2>3, <2>4, <2>5, TaskSet DEF IInv
  <2>7. /\ left' \in 0..Budget /\ told' \in {"none", "sleep", "app"} /\ alone' \in BOOLEAN
        /\ UNCHANGED <<subbed, service>>
    <3>1. left' \in 0..Budget /\ UNCHANGED <<subbed, service>>
      BY <1>6, HubLinkAssumption DEF PollFails, IInv, OthersOK, Spends
    <3>2. Heard \/ Silence
      BY <1>6 DEF PollFails
    <3>. QED BY <3>1, <3>2 DEF IInv, OthersOK, Heard, Silence, history
  <2>8. wakeTimer' \in BOOLEAN
    <3>1. PICK b : wakeTimer' = (wakeTimer /\ b # "app_down")
      BY <1>6 DEF PollFails
    <3>. QED BY <3>1
  <2>9. OthersOK'
    BY <2>7, <2>8 DEF IInv, OthersOK, subbed, service
  <2>. QED BY <2>1, <2>6, <2>9 DEF IInv
<1>7. CASE SearchFinds(t)
  <2>1. Known(StatusOk(st), stops)
    BY <1>0, KnownEvents
  <2>2. DriverOK' /\ UNCHANGED stops
    BY <1>7, <2>1 DEF SearchFinds, SetState, DriverOK, IInv
  <2>3. TasksOK(task', stops)
    BY <1>7, TaskFieldSet DEF SearchFinds
  <2>4. OthersOK'
    <3>1. /\ left' \in 0..Budget /\ UNCHANGED <<pc, going, wire>>
          /\ wakeTimer' = FALSE /\ told' = "none" /\ alone' = TRUE
      BY <1>7, HubLinkAssumption DEF SearchFinds, IInv, OthersOK, Spends, Heard
    <3>2. \/ svcSub' = "current" /\ sub' = "fresh" /\ renewTimer' = "renew"
          \/ UNCHANGED <<sub, renewTimer, svcSub>>
      BY <1>7 DEF SearchFinds, subbed
    <3>. QED BY <3>1, <3>2 DEF IInv, OthersOK
  <2>. QED BY <2>2, <2>3, <2>4 DEF IInv
<1>8. CASE PollWritten(t)
  <2>1. Known(WindowChecked(task[t].cur), stops)
    BY <1>0, KnownEvents
  <2>2. DriverOK' /\ TasksOK(task, stops)'
    BY <1>8, <2>1, EndsTyped DEF PollWritten
  <2>3. OthersOK'
    BY <1>8 DEF PollWritten, IInv, OthersOK, Silence, subbed, service, history
  <2>. QED BY <2>2, <2>3 DEF IInv
<1>9. CASE SubscribeEnds(t)
  <2>1. DriverOK' /\ TasksOK(task, stops)'
    BY <1>0, <1>9, EndsTyped DEF SubscribeEnds
  <2>2. OthersOK'
    BY <1>9, HubLinkAssumption DEF SubscribeEnds, IInv, OthersOK, Spends, Silence, history
  <2>. QED BY <2>1, <2>2 DEF IInv
<1>. QED BY <1>1, <1>2, <1>3, <1>4, <1>5, <1>6, <1>7, <1>8, <1>9 DEF PollEnds
(* The driver's other callbacks. *)
LEMMA DriverTyped ==
  ASSUME IInv,
         \/ WakeTimerFires \/ RenewFires \/ RenewalDue \/ HoldOver \/ SwitchOnPressed
         \/ DriverRestart
  PROVE  IInv'
<1>0. stops \in Nat /\ Known(st, stops) /\ "timer" \in Tasks
  BY DEF IInv, DriverOK, Tasks
<1>1. CASE WakeTimerFires
  <2>1. DriverOK' /\ UNCHANGED stops
    BY <1>1 DEF WakeTimerFires, IInv, DriverOK, driver
  <2>2. TasksOK(task', stops)
    BY <1>0, <1>1, AsksTyped DEF WakeTimerFires
  <2>3. OthersOK'
    BY <1>1 DEF WakeTimerFires, IInv, OthersOK, subbed, service, history
  <2>. QED BY <2>1, <2>2, <2>3 DEF IInv
<1>2. CASE RenewFires
  <2>1. DriverOK' /\ UNCHANGED stops
    BY <1>2 DEF RenewFires, IInv, DriverOK, driver
  <2>2. TasksOK(task', stops)
    <3>. DEFINE v == [Idle EXCEPT !.at = "subscribe"]
    <3>1. v \in TaskState /\ v.cur = Idle.cur
      BY <1>0, IdleTyped DEF TaskState
    <3>2. task' = task \/ task' = [task EXCEPT !["timer"] = v]
      BY <1>2 DEF RenewFires
    <3>. HIDE DEF v
    <3>. QED BY <1>0, <3>1, <3>2, IdleTyped, TaskSet DEF IInv
  <2>3. OthersOK'
    BY <1>2 DEF RenewFires, IInv, OthersOK, service, history
  <2>. QED BY <2>1, <2>2, <2>3 DEF IInv
<1>3. CASE RenewalDue
  BY <1>3 DEF RenewalDue, IInv, DriverOK, OthersOK, driver, service, history
<1>4. CASE HoldOver
  <2>1. DriverOK' /\ UNCHANGED <<stops, task>>
    BY <1>4 DEF HoldOver, IInv, DriverOK, driver
  <2>2. OthersOK'
    BY <1>4 DEF HoldOver, IInv, OthersOK, Heard, Silence, subbed, service, history
  <2>. QED BY <2>1, <2>2 DEF IInv
<1>5. CASE SwitchOnPressed
  <2>1. Known(SwitchOn(st), stops)
    BY <1>0, KnownEvents
  <2>2. DriverOK' /\ UNCHANGED <<stops, task>>
    BY <1>5, <2>1 DEF SwitchOnPressed, SetState, IInv, DriverOK
  <2>3. OthersOK'
    <3>1. wakeTimer' \in BOOLEAN
      BY <1>5 DEF SwitchOnPressed, IInv, OthersOK
    <3>2. left' \in 0..Budget /\ Heard /\ UNCHANGED <<subbed, service>>
      BY <1>5, HubLinkAssumption DEF SwitchOnPressed, IInv, OthersOK, Spends
    <3>. QED BY <3>1, <3>2 DEF IInv, OthersOK, Heard, subbed, service
  <2>. QED BY <2>2, <2>3 DEF IInv
<1>6. CASE DriverRestart
  <2>1. stored \in 0..stops
    BY DEF IInv, DriverOK, Known, DeviceState
  <2>2. Known(New, stops)
    BY <1>0, KnownEvents
  <2>3. Known(Restored, stops)
    BY <1>0, <2>1, <2>2, KnownEvents DEF Restored
  <2>4. DriverOK' /\ UNCHANGED stops
    BY <1>6, <2>3 DEF DriverRestart, SetState, IInv, DriverOK
  <2>5. TasksOK(task', stops)
    BY <1>0, <1>6, IdleTyped DEF DriverRestart, TasksOK
  <2>6. OthersOK'
    <3>1. wire' \in [Channels -> {"none", "ok", "cancelled", "app_stop"} \cup Reasons]
      BY <1>6 DEF DriverRestart
    <3>2. svcSub' \in {"none", "current", "old"} /\ UNCHANGED <<pc, going>>
      BY <1>6 DEF DriverRestart, IInv, OthersOK
    <3>3. wakeTimer' = FALSE /\ sub' = "none" /\ renewTimer' = "none"
      BY <1>6 DEF DriverRestart
    <3>4. left' \in 0..Budget
      BY <1>6, HubLinkAssumption DEF DriverRestart, IInv, OthersOK, Spends
    <3>5. Heard \/ Silence
      BY <1>6 DEF DriverRestart
    <3>. QED BY <3>1, <3>2, <3>3, <3>4, <3>5 DEF IInv, OthersOK, Heard, Silence, history
  <2>. QED BY <2>4, <2>5, <2>6 DEF IInv
<1>. QED BY <1>1, <1>2, <1>3, <1>4, <1>5, <1>6

(* push.apply, kind by kind. *)
LEMMA AppliedCases ==
  /\ Applied("ok") => SetState(StatusOk(st)) /\ UNCHANGED stops
  /\ Applied("cancelled") => SetState(ScheduleCancelled(st)) /\ UNCHANGED stops
  /\ Applied("app_stop") => SetState(AppStop(st, stops + 1)) /\ stops' = stops + 1
<1>1. Applied("ok") => SetState(StatusOk(st)) /\ UNCHANGED stops
  BY DEF Applied, Reasons
<1>2. Applied("cancelled") => SetState(ScheduleCancelled(st)) /\ UNCHANGED stops
  BY DEF Applied, Reasons
<1>3. Applied("app_stop") => SetState(AppStop(st, stops + 1)) /\ stops' = stops + 1
  BY DEF Applied, Reasons
<1>. QED BY <1>1, <1>2, <1>3

(* A push arrives, or is lost. *)
LEMMA PushTyped ==
  ASSUME IInv, NEW c \in Channels, Deliver(c) \/ Lose(c)
  PROVE  IInv'
<1>0. /\ stops \in Nat /\ Known(st, stops) /\ over \in 0..stops /\ TasksOK(task, stops)
      /\ wire[c] \in {"none", "ok", "cancelled", "app_stop"} \cup Reasons
  BY DEF IInv, DriverOK, OthersOK
<1>1. CASE Lose(c)
  <2>1. DriverOK' /\ UNCHANGED <<stops, task>>
    BY <1>1 DEF Lose, IInv, DriverOK, driver
  <2>2. OthersOK'
    BY <1>1 DEF Lose, IInv, OthersOK, subbed, history
  <2>. QED BY <2>1, <2>2 DEF IInv
<1>2. CASE Deliver(c)
  <2>1. /\ Known(st', stops') /\ stored' = st'.stoppedAt /\ stops' \in Nat
        /\ stops <= stops' /\ UNCHANGED <<over, task>>
    <3>0. Applied(wire[c]) /\ UNCHANGED <<over, task>>
      BY <1>2 DEF Deliver
    <3>1. CASE wire[c] = "ok"
      <4>1. SetState(StatusOk(st)) /\ UNCHANGED stops
        BY <3>0, <3>1, AppliedCases
      <4>. QED BY <1>0, <3>0, <4>1, KnownEvents DEF SetState
    <3>2. CASE wire[c] = "cancelled"
      <4>1. SetState(ScheduleCancelled(st)) /\ UNCHANGED stops
        BY <3>0, <3>2, AppliedCases
      <4>. QED BY <1>0, <3>0, <4>1, KnownEvents DEF SetState
    <3>3. CASE wire[c] = "app_stop"
      <4>1. Known(st, stops + 1) /\ stops + 1 \in Nat
        BY <1>0, Later
      <4>2. Known(AppStop(st, stops + 1), stops + 1)
        BY <4>1, KnownEvents
      <4>3. SetState(AppStop(st, stops + 1)) /\ stops' = stops + 1
        BY <3>0, <3>3, AppliedCases
      <4>. QED BY <1>0, <3>0, <4>1, <4>2, <4>3 DEF SetState
    <3>4. CASE wire[c] \in Reasons
      <4>1. wire[c] \notin {"ok", "cancelled", "app_stop"}
        BY <3>4 DEF Reasons
      <4>2. SetState(Stopping(st, wire[c])) /\ UNCHANGED <<stops, over, task>>
        BY <3>0, <3>4, <4>1 DEF Applied, SetState
      <4>. QED BY <1>0, <3>4, <4>2, KnownEvents DEF SetState
    <3>. QED BY <1>0, <1>2, <3>1, <3>2, <3>3, <3>4 DEF Deliver
  <2>2. DriverOK' /\ TasksOK(task', stops')
    BY <1>0, <2>1, Later DEF DriverOK
  <2>3. OthersOK'
    <3>1. /\ wire' \in [Channels -> {"none", "ok", "cancelled", "app_stop"} \cup Reasons]
          /\ UNCHANGED <<sub, pc, going, svcSub, left>>
      BY <1>2 DEF Deliver, IInv, OthersOK
    <3>2. wakeTimer' \in BOOLEAN
      <4>1. PICK m : wakeTimer' = (wakeTimer /\ m \notin {"ok", "app_stop"})
        BY <1>2 DEF Deliver
      <4>. QED BY <4>1
    <3>3. renewTimer' \in {"none", "renew", "soon"}
      BY <1>2 DEF Deliver, IInv, OthersOK
    <3>4. told' \in {"none", "sleep", "app"}
      BY <1>2 DEF Deliver, Announced
    <3>5. alone' \in BOOLEAN
      <4>. DEFINE busy == \A t \in Tasks : task[t].at \notin {"get", "search"}
      <4>1. alone' = (told' = "none" \/ busy)
        BY <1>2 DEF Deliver, Announced
      <4>. HIDE DEF busy
      <4>. QED BY <4>1
    <3>. QED BY <3>1, <3>2, <3>3, <3>4, <3>5 DEF IInv, OthersOK
  <2>. QED BY <2>2, <2>3 DEF IInv
<1>. QED BY <1>1, <1>2
(* The PC and its service. *)
LEMMA LeavesTyped ==
  ASSUME IInv, NEW to \in {"gone", "asleep", "off"}, Leaves(to), left' \in 0..Budget
  PROVE  IInv'
<1>1. DriverOK' /\ UNCHANGED stops
  BY DEF Leaves, IInv, DriverOK, driver
<1>2. TasksOK(task', stops)
  <2>1. ASSUME NEW t \in Tasks
        PROVE  task'[t] \in TaskState /\ task'[t].cur = task[t].cur
    <3>1. task[t] \in TaskState
      BY DEF IInv, TasksOK
    <3>2. /\ [task[t] EXCEPT !.res = "late"] \in TaskState
          /\ [task[t] EXCEPT !.res = "late"].cur = task[t].cur
          /\ [task[t] EXCEPT !.res = "lost"] \in TaskState
          /\ [task[t] EXCEPT !.res = "lost"].cur = task[t].cur
      BY <3>1 DEF TaskState
    <3>3. task'[t] \in {task[t], [task[t] EXCEPT !.res = "late"],
                        [task[t] EXCEPT !.res = "lost"]}
      <4>. DEFINE late == [task[t] EXCEPT !.res = "late"]
                  lost == [task[t] EXCEPT !.res = "lost"]
      <4>1. task'[t] = CASE task[t].at = "get" /\ task[t].res = "ok" -> late
              [] task[t].at = "get" /\ task[t].res = "none" /\ to # "asleep" -> lost
              [] OTHER -> task[t]
        BY DEF Leaves
      <4>. HIDE DEF late, lost
      <4>2. task'[t] \in {task[t], late, lost}
        BY <4>1
      <4>. QED BY <4>2 DEF late, lost
    <3>. QED BY <3>1, <3>2, <3>3
  <2>2. task' = [t \in Tasks |-> task'[t]]
    BY DEF Leaves
  <2>3. \A t \in Tasks : Known(task[t].cur, stops)
    BY DEF IInv, TasksOK
  <2>. QED BY <2>1, <2>2, <2>3 DEF TasksOK
<1>3. OthersOK'
  BY DEF Leaves, IInv, OthersOK, subbed, history
<1>. QED BY <1>1, <1>2, <1>3 DEF IInv

LEMMA PcTyped ==
  ASSUME IInv,
         \/ \E m \in {"ok", "cancelled"} : PcEvent(m)
         \/ \E m \in Reasons \cup {"app_stop"} : PcAnnounces(m)
         \/ PcGoes \/ PowerCut \/ PcReturns \/ SubscriptionLapses
  PROVE  IInv'
<1>. DEFINE Pushes == [Channels -> {"none", "ok", "cancelled", "app_stop"} \cup Reasons]
<1>a. (UNCHANGED <<driver, over, task>>) => DriverOK' /\ TasksOK(task, stops)'
  BY DEF IInv, DriverOK, driver
<1>b. \A c, m : (m \in {"ok", "cancelled", "app_stop"} \cup Reasons
                   => [wire EXCEPT ![c] = m] \in Pushes)
  BY DEF IInv, OthersOK
<1>1. ASSUME NEW m \in {"ok", "cancelled"}, PcEvent(m) PROVE IInv'
  <2>1. DriverOK' /\ TasksOK(task, stops)'
    BY <1>1, <1>a DEF PcEvent
  <2>2. wire' \in Pushes
    BY <1>1, <1>b DEF PcEvent
  <2>3. OthersOK'
    BY <1>1, <2>2, HubLinkAssumption DEF PcEvent, IInv, OthersOK, Spends, subbed, history
  <2>. QED BY <2>1, <2>3 DEF IInv
<1>2. ASSUME NEW m \in Reasons \cup {"app_stop"}, PcAnnounces(m) PROVE IInv'
  <2>1. DriverOK' /\ TasksOK(task, stops)'
    BY <1>2, <1>a DEF PcAnnounces
  <2>2. wire' \in Pushes
    BY <1>2, <1>b DEF PcAnnounces, IInv, OthersOK
  <2>3. going' \in {"none", "gone", "asleep", "off"}
    BY <1>2 DEF PcAnnounces
  <2>4. left' \in 0..Budget /\ UNCHANGED <<wakeTimer, subbed, pc, svcSub, history>>
    BY <1>2, HubLinkAssumption DEF PcAnnounces, IInv, OthersOK, Spends
  <2>5. OthersOK'
    BY <2>2, <2>3, <2>4 DEF IInv, OthersOK, subbed, history
  <2>. QED BY <2>1, <2>5 DEF IInv
<1>3. CASE PcGoes
  <2>1. going \in {"gone", "asleep", "off"} /\ Leaves(going) /\ left' \in 0..Budget
    BY <1>3 DEF PcGoes, IInv, OthersOK
  <2>. QED BY <2>1, LeavesTyped
<1>4. CASE PowerCut
  <2>1. Leaves("off") /\ left' \in 0..Budget
    BY <1>4, HubLinkAssumption DEF PowerCut, Spends, IInv, OthersOK
  <2>. QED BY <2>1, LeavesTyped
<1>5. CASE PcReturns
  <2>1. DriverOK' /\ TasksOK(task, stops)'
    BY <1>5, <1>a DEF PcReturns
  <2>2. wire' \in Pushes
    BY <1>5, <1>b DEF PcReturns, IInv, OthersOK
  <2>3. OthersOK'
    BY <1>5, <2>2, HubLinkAssumption DEF PcReturns, IInv, OthersOK, Spends, subbed, history
  <2>. QED BY <2>1, <2>3 DEF IInv
<1>6. CASE SubscriptionLapses
  <2>1. DriverOK' /\ TasksOK(task, stops)'
    BY <1>6, <1>a DEF SubscriptionLapses
  <2>2. OthersOK'
    BY <1>6 DEF SubscriptionLapses, IInv, OthersOK, subbed, history
  <2>. QED BY <2>1, <2>2 DEF IInv
<1>. QED BY <1>1, <1>2, <1>3, <1>4, <1>5, <1>6

LEMMA InitTyped == Init => IInv
<1>. SUFFICES ASSUME Init PROVE IInv
  OBVIOUS
<1>1. TasksOK(task, stops)
  BY IdleTyped DEF Init, TasksOK
<1>2. DriverOK
  BY NewTyped DEF Init, DriverOK, Known, At
<1>3. wire \in [Channels -> {"none", "ok", "cancelled", "app_stop"} \cup Reasons]
  BY DEF Init
<1>4. OthersOK
  <2>1. /\ wakeTimer = FALSE /\ sub = "none" /\ renewTimer = "none" /\ pc = "up"
        /\ going = "none" /\ svcSub = "none" /\ left = Budget /\ told = "none" /\ alone = TRUE
    BY DEF Init
  <2>2. left \in 0..Budget
    BY <2>1, HubLinkAssumption
  <2>3. wakeTimer \in BOOLEAN /\ alone \in BOOLEAN
    BY <2>1
  <2>. QED BY <1>3, <2>1, <2>2, <2>3 DEF OthersOK
<1>. QED BY <1>1, <1>2, <1>4 DEF IInv

LEMMA StepTyped == IInv /\ [Next]_vars => IInv'
<1>. SUFFICES ASSUME IInv, [Next]_vars PROVE IInv'
  OBVIOUS
<1>1. ASSUME NEW t \in Tasks, PollStart(t) \/ PcAnswers(t) \/ PollEnds(t) PROVE IInv'
  BY <1>1, PollTyped
<1>2. ASSUME NEW c \in Channels, Deliver(c) \/ Lose(c) PROVE IInv'
  BY <1>2, PushTyped
<1>3. CASE \/ WakeTimerFires \/ RenewFires \/ RenewalDue \/ HoldOver \/ SwitchOnPressed
           \/ DriverRestart
  BY <1>3, DriverTyped
<1>4. CASE \/ \E m \in {"ok", "cancelled"} : PcEvent(m)
           \/ \E m \in Reasons \cup {"app_stop"} : PcAnnounces(m)
           \/ PcGoes \/ PowerCut \/ PcReturns \/ SubscriptionLapses
  BY <1>4, PcTyped
<1>5. CASE UNCHANGED vars
  <2>1. DriverOK' /\ UNCHANGED <<stops, task>>
    BY <1>5 DEF vars, driver, IInv, DriverOK
  <2>2. OthersOK'
    BY <1>5 DEF vars, subbed, service, history, IInv, OthersOK
  <2>. QED BY <2>1, <2>2 DEF IInv
<1>. QED BY <1>1, <1>2, <1>3, <1>4, <1>5 DEF Next

(* In every reachable state, whatever the limit and the budget, the        *)
(* driver's state is one the state machine of power.lua has: among the     *)
(* rest, a wake never falls back to waking or on, and APP_STOP_AT says     *)
(* what the state says, so that a restart takes up the outage there is.    *)
THEOREM TypeCorrect == Spec => []TypeOK
<1>1. Spec => []IInv
  BY InitTyped, StepTyped, PTL DEF Spec
<1>. QED BY <1>1, IInvTypeOK, PTL

-----------------------------------------------------------------------------
(* What was announced is kept by the state and by every snapshot a poll    *)
(* may still write: asleep, or stopped within the window.  Only a poll     *)
(* that was under way as the announcement came holds another one.          *)
Keeps(s) == IF told = "sleep" THEN s.power = "sleeping" /\ ~s.appStopped
            ELSE s.power = "on" /\ Holding(s, over)
Holds == Keeps(st) /\ \A t \in Tasks : task[t].at \in {"get", "search"} => Keeps(task[t].cur)
Kept == told # "none" /\ alone => Holds

(* The three fields on which it rests.                                     *)
Is(s, power, appStopped, at) ==
  s \in DeviceState /\ s.power = power /\ s.appStopped = appStopped /\ s.stoppedAt = at

LEMMA IsSet ==
  ASSUME NEW s, NEW p, NEW a, NEW w, Is(s, p, a, w)
  PROVE  /\ \A x \in Powers : Is([s EXCEPT !.power = x], x, a, w)
         /\ \A x \in 0..UnreachableLimit : Is([s EXCEPT !.misses = x], p, a, w)
         /\ \A x \in BOOLEAN : Is([s EXCEPT !.appDown = x], p, a, w)
         /\ \A x \in BOOLEAN : Is([s EXCEPT !.appStopped = x], p, x, w)
         /\ \A x \in Nat : Is([s EXCEPT !.stoppedAt = x], p, a, x)
         /\ \A x \in Reasons \cup {"none"} : Is([s EXCEPT !.reason = x], p, a, w)
         /\ \A x \in (Powers \ {"on", "waking"}) \cup {"none"} :
              Is([s EXCEPT !.wakeFrom = x], p, a, w)
<1>1. \A x \in Powers : Is([s EXCEPT !.power = x], x, a, w)
  BY DEF DeviceState, Is
<1>2. \A x \in 0..UnreachableLimit : Is([s EXCEPT !.misses = x], p, a, w)
  BY DEF DeviceState, Is
<1>3. \A x \in BOOLEAN : Is([s EXCEPT !.appDown = x], p, a, w)
  BY DEF DeviceState, Is
<1>4. \A x \in BOOLEAN : Is([s EXCEPT !.appStopped = x], p, x, w)
  BY DEF DeviceState, Is
<1>5. \A x \in Nat : Is([s EXCEPT !.stoppedAt = x], p, a, x)
  BY DEF DeviceState, Is
<1>6. \A x \in Reasons \cup {"none"} : Is([s EXCEPT !.reason = x], p, a, w)
  BY DEF DeviceState, Is
<1>7. \A x \in (Powers \ {"on", "waking"}) \cup {"none"} : Is([s EXCEPT !.wakeFrom = x], p, a, w)
  BY DEF DeviceState, Is
<1>. QED BY <1>1, <1>2, <1>3, <1>4, <1>5, <1>6, <1>7

(* A PC without its app, or silent within the window, is on.               *)
LEMMA AppDownIs ==
  ASSUME NEW s \in DeviceState, s.power # "shuttingDown"
  PROVE  Is(AppDown(s), "on", s.appStopped, s.stoppedAt)
<1>. DEFINE p == s.power
            q == s.appStopped
            w == s.stoppedAt
            a == [s EXCEPT !.misses = 0]
            b == [a EXCEPT !.appDown = TRUE]
            c == [b EXCEPT !.power = "on"]
            d == [c EXCEPT !.reason = "none"]
            e == [d EXCEPT !.wakeFrom = "none"]
<1>1. AppDown(s) = e
  BY DEF AppDown
<1>2. Is(s, p, q, w)
  BY DEF Is
<1>. HIDE DEF p, q, w
<1>3. Is(a, p, q, w)
  BY <1>2, IsSet, ValuesTyped
<1>. HIDE DEF a
<1>4. Is(b, p, q, w)
  BY <1>3, IsSet, ValuesTyped
<1>. HIDE DEF b
<1>5. Is(c, "on", q, w)
  BY <1>4, IsSet, ValuesTyped
<1>. HIDE DEF c
<1>6. Is(d, "on", q, w)
  BY <1>5, IsSet, ValuesTyped
<1>. HIDE DEF d
<1>7. Is(e, "on", q, w)
  BY <1>6, IsSet, ValuesTyped
<1>. QED BY <1>1, <1>7 DEF q, w

(* A sleeping PC that does not answer sleeps on.                           *)
LEMMA UnreachableIs ==
  ASSUME NEW s \in DeviceState, s.power = "sleeping"
  PROVE  Is(Unreachable(s), "sleeping", s.appStopped, s.stoppedAt)
<1>. DEFINE count == IF s.misses < UnreachableLimit THEN s.misses + 1 ELSE s.misses
            q == s.appStopped
            w == s.stoppedAt
            a == [s EXCEPT !.misses = count]
            b == [a EXCEPT !.appDown = FALSE]
<1>1. Unreachable(s) = b
  BY DEF Unreachable
<1>2. count \in 0..UnreachableLimit
  BY HubPowerAssumption DEF DeviceState
<1>3. Is(s, "sleeping", q, w)
  BY DEF Is
<1>. HIDE DEF q, w, count
<1>4. Is(a, "sleeping", q, w)
  BY <1>2, <1>3, IsSet
<1>. HIDE DEF a
<1>5. Is(b, "sleeping", q, w)
  BY <1>4, IsSet, ValuesTyped
<1>. QED BY <1>1, <1>5 DEF q, w

(* An app_stop push that opens a window finds the PC on.                   *)
LEMMA AppStopIs ==
  ASSUME NEW s \in DeviceState, NEW at \in Nat
  PROVE  /\ s.power # "shuttingDown" => Is(AppStop(s, at), "on", TRUE, at)
         /\ s.power = "shuttingDown" => AppStop(s, at).stoppedAt = 0
<1>. DEFINE p == s.power
            q == s.appStopped
            w == s.stoppedAt
            a == [s EXCEPT !.misses = 0]
            b == [a EXCEPT !.appDown = TRUE]
            c == [b EXCEPT !.appStopped = TRUE]
            d == [c EXCEPT !.stoppedAt = 0]
            e == [d EXCEPT !.wakeFrom = "none"]
            f == [e EXCEPT !.power = "on"]
            g == [f EXCEPT !.reason = "none"]
            h == [g EXCEPT !.stoppedAt = at]
<1>1. AppStop(s, at) = IF s.power = "shuttingDown" THEN e ELSE h
  BY DEF AppStop
<1>2. Is(s, p, q, w)
  BY DEF Is
<1>. HIDE DEF p, q, w
<1>3. Is(a, p, q, w)
  BY <1>2, IsSet, ValuesTyped
<1>. HIDE DEF a
<1>4. Is(b, p, q, w)
  BY <1>3, IsSet, ValuesTyped
<1>. HIDE DEF b
<1>5. Is(c, p, TRUE, w)
  BY <1>4, IsSet, ValuesTyped
<1>. HIDE DEF c
<1>6. Is(d, p, TRUE, 0)
  BY <1>5, IsSet, ValuesTyped
<1>. HIDE DEF d
<1>7. Is(e, p, TRUE, 0)
  BY <1>6, IsSet, ValuesTyped
<1>. HIDE DEF e
<1>8. Is(f, "on", TRUE, 0)
  BY <1>7, IsSet, ValuesTyped
<1>. HIDE DEF f
<1>9. Is(g, "on", TRUE, 0)
  BY <1>8, IsSet, ValuesTyped
<1>. HIDE DEF g
<1>10. Is(h, "on", TRUE, at)
  BY <1>9, IsSet
<1>. QED BY <1>1, <1>7, <1>10 DEF Is

LEMMA StoppingIs == Is(Stopping(st, "suspend"), "sleeping", FALSE, 0)
<1>. DEFINE n == New
            a == [n EXCEPT !.reason = "suspend"]
<1>1. Stopping(st, "suspend") = [a EXCEPT !.power = "sleeping"]
  BY DEF Stopping
<1>2. Is(n, "unknown", FALSE, 0)
  BY NewTyped DEF New, Is, At
<1>. HIDE DEF n
<1>3. Is(a, "unknown", FALSE, 0)
  BY <1>2, IsSet, "suspend" \in Reasons \cup {"none"} DEF Reasons
<1>. HIDE DEF a
<1>4. Is([a EXCEPT !.power = "sleeping"], "sleeping", FALSE, 0)
  BY <1>3, IsSet, ValuesTyped
<1>. QED BY <1>1, <1>4
----------------------------------------------------------------------------
(* What a failed poll makes of a snapshot keeps what was announced, unless *)
(* the refusal itself says that the PC woke.                               *)
LEMMA FailureKeeps ==
  ASSUME NEW s \in DeviceState, Keeps(s), Keeps(st), NEW text,
         ~(text = "refused" /\ told = "sleep")
  PROVE  Keeps(IF Kind(text) = "app_down" THEN AppDown(s) ELSE Unreachable(s))
<1>1. CASE told = "sleep"
  <2>1. Kind(text) = "unreachable"
    BY <1>1 DEF Keeps, Kind, Holding
  <2>2. Is(Unreachable(s), "sleeping", s.appStopped, s.stoppedAt) /\ ~s.appStopped
    BY <1>1, UnreachableIs DEF Keeps
  <2>. QED BY <1>1, <2>1, <2>2 DEF Keeps, Is
<1>2. CASE told # "sleep"
  <2>1. Kind(text) = "app_down"
    BY <1>2 DEF Keeps, Kind
  <2>2. Is(AppDown(s), "on", s.appStopped, s.stoppedAt) /\ Holding(s, over)
    BY <1>2, AppDownIs DEF Keeps
  <2>. QED BY <1>2, <2>1, <2>2 DEF Keeps, Is, Holding
<1>. QED BY <1>1, <1>2

(* Writing a state that keeps it, at the end of a callback.                *)
LEMMA EndsKeeps ==
  ASSUME IInv, Holds, NEW t \in Tasks, NEW s, Keeps(s), Ends(t, s), UNCHANGED <<told, over>>
  PROVE  Holds'
<1>1. s.power # "waking"
  BY DEF Keeps
<1>2. st' = s
  BY <1>1 DEF Ends, SetState, WakeTimeout
<1>3. Keeps(st)'
  BY <1>2 DEF Keeps, Holding
<1>4. ASSUME NEW u \in Tasks, task'[u].at \in {"get", "search"} PROVE Keeps(task[u].cur)'
  <2>1. task'[u] = IF u = t THEN Idle ELSE task[u]
    BY DEF Ends, IInv, TasksOK
  <2>2. u # t
    BY <1>4, <2>1 DEF Idle
  <2>3. Keeps(task[u].cur) /\ task'[u] = task[u]
    BY <1>4, <2>1, <2>2 DEF Holds
  <2>. QED BY <2>3 DEF Keeps, Holding
<1>. QED BY <1>3, <1>4 DEF Holds

LEMMA WindowKeeps ==
  ASSUME NEW s \in DeviceState, Keeps(s)
  PROVE  Keeps(WindowChecked(s))
<1>1. CASE Holding(s, over)
  BY <1>1 DEF WindowChecked
<1>2. CASE ~Holding(s, over)
  <2>1. told = "sleep" /\ s.power = "sleeping" /\ ~s.appStopped
    BY <1>2 DEF Keeps
  <2>2. WindowChecked(s) = [s EXCEPT !.stoppedAt = 0]
    BY <1>2 DEF WindowChecked
  <2>3. [s EXCEPT !.stoppedAt = 0].power = s.power /\ [s EXCEPT !.stoppedAt = 0].appStopped = s.appStopped
    BY DEF DeviceState
  <2>. QED BY <2>1, <2>2, <2>3 DEF Keeps
<1>. QED BY <1>1, <1>2

(* A snapshot that is new is that of the state, the others stay.           *)
LEMMA TasksKeep ==
  ASSUME Holds, UNCHANGED <<st, told, over>>,
         \A t \in Tasks : task'[t].at \in {"get", "search"} =>
            \/ task'[t].cur = st
            \/ task[t].at \in {"get", "search"} /\ task'[t].cur = task[t].cur
  PROVE  Holds'
<1>1. Keeps(st)'
  BY DEF Holds, Keeps, Holding
<1>2. ASSUME NEW t \in Tasks, task'[t].at \in {"get", "search"} PROVE Keeps(task[t].cur)'
  <2>1. task'[t].cur = st \/ (Keeps(task[t].cur) /\ task'[t].cur = task[t].cur)
    BY <1>2 DEF Holds
  <2>. QED BY <1>1, <2>1 DEF Holds, Keeps, Holding
<1>. QED BY <1>1, <1>2 DEF Holds

LEMMA PollKeeps ==
  ASSUME IInv, Kept, NEW t \in Tasks, PollStart(t) \/ PcAnswers(t) \/ PollEnds(t)
  PROVE  Kept'
<1>0. /\ st \in DeviceState /\ task[t] \in TaskState /\ task[t].cur \in DeviceState
      /\ \A u \in Tasks : task[u] \in TaskState /\ task \in [Tasks -> TaskState]
  BY DEF IInv, DriverOK, TasksOK, Known
<1>h. Heard => Kept'
  BY DEF Heard, Kept
<1>1. CASE PollStart(t)
  <2>1. UNCHANGED <<st, told, over, alone>>
    BY <1>1 DEF PollStart, driver, history
  <2>2. task' = [task EXCEPT ![t] = [at |-> "get", cur |-> st, res |-> "none", look |-> FALSE]]
    BY <1>1 DEF PollStart, Asks
  <2>3. Holds => Holds'
    BY <1>0, <2>1, <2>2, TasksKeep
  <2>. QED BY <2>1, <2>3 DEF Kept
<1>2. CASE PcAnswers(t)
  <2>1. UNCHANGED <<st, told, over, alone>>
    BY <1>2 DEF PcAnswers, driver, history
  <2>2. PICK r : task' = [task EXCEPT ![t] = [task[t] EXCEPT !.res = r]]
    BY <1>2 DEF PcAnswers
  <2>3. \A u \in Tasks : task'[u].at = task[u].at /\ task'[u].cur = task[u].cur
    BY <1>0, <2>2 DEF TaskState
  <2>4. Holds => Holds'
    BY <2>1, <2>3, TasksKeep
  <2>. QED BY <2>1, <2>4 DEF Kept
<1>3. CASE PollOk(t) \/ PollError(t) \/ SearchFinds(t)
  BY <1>3, <1>h DEF PollOk, PollError, SearchFinds
<1>4. CASE PollLimited(t)
  <2>1. Ends(t, st) /\ UNCHANGED <<told, alone, over>>
    BY <1>4 DEF PollLimited, Silence, history
  <2>2. Holds => Holds'
    BY <2>1, EndsKeeps DEF Holds
  <2>. QED BY <2>1, <2>2 DEF Kept
<1>5. CASE PollFails(t)
  <2>1. /\ UNCHANGED <<st, over>> /\ task[t].at = "get"
        /\ \E text : /\ task' = [task EXCEPT ![t].at = "search",
                        ![t].cur = IF Kind(text) = "app_down" THEN AppDown(@) ELSE Unreachable(@)]
                   /\ IF text = "refused" /\ told = "sleep" THEN Heard ELSE Silence
    BY <1>5 DEF PollFails, driver
  <2>2. PICK text : /\ task' = [task EXCEPT ![t].at = "search",
                        ![t].cur = IF Kind(text) = "app_down" THEN AppDown(@) ELSE Unreachable(@)]
                    /\ IF text = "refused" /\ told = "sleep" THEN Heard ELSE Silence
    BY <2>1
  <2>3. CASE text = "refused" /\ told = "sleep"
    BY <1>h, <2>2, <2>3
  <2>4. CASE ~(text = "refused" /\ told = "sleep")
    <3>. DEFINE s == IF Kind(text) = "app_down" THEN AppDown(task[t].cur)
                     ELSE Unreachable(task[t].cur)
                v == [task[t] EXCEPT !.at = "search", !.cur = s]
    <3>1. UNCHANGED <<told, alone>>
      BY <2>2, <2>4 DEF Silence, history
    <3>2. task' = [task EXCEPT ![t] = v]
      BY <1>0, <2>2
    <3>3. Holds => Keeps(s)
      BY <1>0, <2>1, <2>4, FailureKeeps DEF Holds
    <3>. HIDE DEF s
    <3>4. v.cur = s
      BY <1>0 DEF TaskState
    <3>. HIDE DEF v
    <3>5. \A u \in Tasks : task'[u] = IF u = t THEN v ELSE task[u]
      BY <1>0, <3>2
    <3>6. Holds => Holds'
      <4>. SUFFICES ASSUME Holds PROVE Holds'
        OBVIOUS
      <4>1. Keeps(st)'
        BY <2>1, <3>1 DEF Holds, Keeps, Holding
      <4>2. ASSUME NEW u \in Tasks, task'[u].at \in {"get", "search"} PROVE Keeps(task[u].cur)'
        <5>1. PICK c : c = task'[u].cur
          OBVIOUS
        <5>2. Keeps(c)
          BY <3>3, <3>4, <3>5, <4>2, <5>1 DEF Holds
        <5>. QED BY <2>1, <3>1, <5>1, <5>2 DEF Keeps, Holding
      <4>. QED BY <4>1, <4>2 DEF Holds
    <3>. QED BY <3>1, <3>6 DEF Kept
  <2>. QED BY <2>3, <2>4
<1>6. CASE PollWritten(t)
  <2>1. /\ Ends(t, WindowChecked(task[t].cur)) /\ UNCHANGED <<told, alone, over>>
        /\ task[t].at = "search"
    BY <1>6 DEF PollWritten, Silence, history
  <2>2. Holds => Keeps(WindowChecked(task[t].cur))
    BY <1>0, <2>1, WindowKeeps DEF Holds
  <2>3. Holds => Holds'
    BY <2>1, <2>2, EndsKeeps
  <2>. QED BY <2>1, <2>3 DEF Kept
<1>7. CASE SubscribeEnds(t)
  <2>1. Ends(t, st) /\ UNCHANGED <<told, alone, over>>
    BY <1>7 DEF SubscribeEnds, Silence, history
  <2>2. Holds => Holds'
    BY <2>1, EndsKeeps DEF Holds
  <2>. QED BY <2>1, <2>2 DEF Kept
<1>. QED BY <1>1, <1>2, <1>3, <1>4, <1>5, <1>6, <1>7 DEF PollEnds

(* Callbacks that leave the state alone, and those that end what was heard.*)
LEMMA DriverKeeps ==
  ASSUME IInv, Kept,
         \/ WakeTimerFires \/ RenewFires \/ RenewalDue \/ HoldOver \/ SwitchOnPressed
         \/ DriverRestart
  PROVE  Kept'
<1>0. /\ st \in DeviceState /\ task \in [Tasks -> TaskState] /\ "timer" \in Tasks
      /\ stored = st.stoppedAt
  BY DEF IInv, DriverOK, TasksOK, Known, Tasks
<1>h. Heard => Kept'
  BY DEF Heard, Kept
<1>1. CASE WakeTimerFires
  <2>1. UNCHANGED <<st, told, over, alone>>
    BY <1>1 DEF WakeTimerFires, driver, history
  <2>2. task' = [task EXCEPT !["timer"] = [at |-> "get", cur |-> st, res |-> "none", look |-> TRUE]]
    BY <1>1 DEF WakeTimerFires, Asks
  <2>3. Holds => Holds'
    BY <1>0, <2>1, <2>2, TasksKeep
  <2>. QED BY <2>1, <2>3 DEF Kept
<1>2. CASE RenewFires
  <2>1. UNCHANGED <<st, told, over, alone>>
    BY <1>2 DEF RenewFires, driver, history
  <2>. DEFINE v == [Idle EXCEPT !.at = "subscribe"]
  <2>2. v.at = "subscribe"
    BY DEF Idle
  <2>3. task' = task \/ task' = [task EXCEPT !["timer"] = v]
    BY <1>2 DEF RenewFires
  <2>. HIDE DEF v
  <2>4. Holds => Holds'
    BY <1>0, <2>1, <2>2, <2>3, TasksKeep
  <2>. QED BY <2>1, <2>4 DEF Kept
<1>3. CASE RenewalDue
  <2>1. UNCHANGED <<st, told, over, alone, task>>
    BY <1>3 DEF RenewalDue, driver, history
  <2>2. Holds => Holds'
    BY <2>1, TasksKeep
  <2>. QED BY <2>1, <2>2 DEF Kept
<1>4. CASE HoldOver
  <2>1. CASE told = "app"
    BY <1>4, <1>h, <2>1 DEF HoldOver
  <2>2. CASE told # "app"
    <3>1. UNCHANGED <<st, told, alone, task>>
      BY <1>4, <2>2 DEF HoldOver, Silence, driver, history
    <3>2. told # "none" => told = "sleep"
      BY <2>2 DEF IInv, OthersOK
    <3>. QED BY <3>1, <3>2 DEF Kept, Holds, Keeps
  <2>. QED BY <2>1, <2>2
<1>5. CASE SwitchOnPressed
  BY <1>5, <1>h DEF SwitchOnPressed
<1>6. CASE DriverRestart
  <2>1. CASE told = "sleep"
    BY <1>6, <1>h, <2>1 DEF DriverRestart
  <2>2. CASE told # "sleep"
    <3>1. /\ UNCHANGED <<told, alone, over>> /\ st' = Restored
          /\ task' = [t \in Tasks |-> Idle]
      BY <1>6, <2>2 DEF DriverRestart, SetState, Silence, history
    <3>2. \A t \in Tasks : task'[t].at \notin {"get", "search"}
      BY <3>1 DEF Idle
    <3>3. ASSUME told # "none", Holds PROVE Keeps(st)'
      <4>1. st.power = "on" /\ stored > over /\ stored \in Nat
        BY <1>0, <2>2, <3>3 DEF Holds, Keeps, Holding, DeviceState
      <4>2. New \in DeviceState /\ New.power # "shuttingDown"
        BY NewTyped DEF New, At
      <4>3. Is(AppStop(New, stored), "on", TRUE, stored)
        BY <4>1, <4>2, AppStopIs
      <4>4. st' = AppStop(New, stored)
        BY <3>1, <4>1 DEF Restored
      <4>5. st'.power = "on" /\ Holding(st', over)
        BY <4>1, <4>3, <4>4 DEF Is, Holding
      <4>. QED BY <2>2, <3>1, <4>5 DEF Keeps
    <3>. QED BY <3>1, <3>2, <3>3 DEF Kept, Holds
  <2>. QED BY <2>1, <2>2
<1>. QED BY <1>1, <1>2, <1>3, <1>4, <1>5, <1>6

(* A push is taken, or lost: an announcement is shown at once, and no poll *)
(* is left that could write anything older.                                *)
LEMMA PushKeeps ==
  ASSUME IInv, Kept, NEW c \in Channels, Deliver(c) \/ Lose(c)
  PROVE  Kept'
<1>0. /\ st \in DeviceState /\ stops \in Nat /\ over \in 0..stops
      /\ wire[c] \in {"none", "ok", "cancelled", "app_stop"} \cup Reasons
  BY DEF IInv, DriverOK, OthersOK, Known
<1>1. CASE Lose(c)
  <2>1. UNCHANGED <<st, told, over, alone, task>>
    BY <1>1 DEF Lose, driver, history
  <2>2. Holds => Holds'
    BY <2>1, TasksKeep
  <2>. QED BY <2>1, <2>2 DEF Kept
<1>2. CASE Deliver(c)
  <2>0. Applied(wire[c]) /\ Announced(wire[c]) /\ UNCHANGED <<over, task>> /\ wire[c] # "none"
    BY <1>2 DEF Deliver
  <2>. DEFINE busy == \E t \in Tasks : task[t].at \in {"get", "search"}
  <2>1. alone' => told' = "none" \/ ~busy
    BY <2>0 DEF Announced
  <2>2. ~busy /\ Keeps(st)' => Holds'
    BY <2>0 DEF Holds
  <2>. HIDE DEF busy
  <2>3. SUFFICES ASSUME told' # "none" PROVE Keeps(st)'
    BY <2>1, <2>2 DEF Kept
  <2>4. \/ wire[c] = "suspend" /\ told' = "sleep"
        \/ wire[c] = "app_stop" /\ stored' # 0 /\ told' = "app"
    BY <2>0, <2>3 DEF Announced
  <2>5. CASE wire[c] = "suspend" /\ told' = "sleep"
    <3>1. st' = Stopping(st, "suspend")
      BY <2>0, <2>5 DEF Applied, SetState, Reasons
    <3>2. Is(st', "sleeping", FALSE, 0)
      BY <3>1, StoppingIs
    <3>. QED BY <2>5, <3>2 DEF Keeps, Is
  <2>6. CASE wire[c] = "app_stop" /\ stored' # 0 /\ told' = "app"
    <3>1. st' = AppStop(st, stops + 1) /\ stored' = st'.stoppedAt
      BY <2>0, <2>6 DEF Applied, SetState, Reasons
    <3>2. stops + 1 \in Nat
      BY <1>0
    <3>3. st.power # "shuttingDown"
      BY <1>0, <2>6, <3>1, <3>2, AppStopIs
    <3>4. Is(st', "on", TRUE, stops + 1)
      BY <1>0, <3>1, <3>2, <3>3, AppStopIs
    <3>5. st'.power = "on" /\ Holding(st', over')
      BY <1>0, <2>0, <3>4 DEF Is, Holding
    <3>. QED BY <2>6, <3>5 DEF Keeps
  <2>. QED BY <2>4, <2>5, <2>6
<1>. QED BY <1>1, <1>2

(* What happens on the PC reaches the driver only by what it receives.     *)
LEMMA PcKeeps ==
  ASSUME IInv, Kept,
         \/ \E m \in {"ok", "cancelled"} : PcEvent(m)
         \/ \E m \in Reasons \cup {"app_stop"} : PcAnnounces(m)
         \/ PcGoes \/ PowerCut \/ PcReturns \/ SubscriptionLapses
  PROVE  Kept'
<1>1. UNCHANGED <<st, told, over, alone>>
  BY DEF PcEvent, PcAnnounces, PcGoes, PowerCut, Leaves, PcReturns, SubscriptionLapses,
         driver, history
<1>2. ASSUME NEW t \in Tasks
      PROVE  task'[t].at = task[t].at /\ task'[t].cur = task[t].cur
  <2>0. task[t] \in TaskState
    BY DEF IInv, TasksOK
  <2>1. CASE \E to : Leaves(to)
    <3>. DEFINE late == [task[t] EXCEPT !.res = "late"]
                lost == [task[t] EXCEPT !.res = "lost"]
    <3>1. PICK to : Leaves(to)
      BY <2>1
    <3>2. task'[t] = CASE task[t].at = "get" /\ task[t].res = "ok" -> late
            [] task[t].at = "get" /\ task[t].res = "none" /\ to # "asleep" -> lost
            [] OTHER -> task[t]
      BY <3>1 DEF Leaves
    <3>3. /\ late.at = task[t].at /\ late.cur = task[t].cur
          /\ lost.at = task[t].at /\ lost.cur = task[t].cur
      BY <2>0 DEF TaskState
    <3>. HIDE DEF late, lost
    <3>. QED BY <3>2, <3>3
  <2>2. CASE ~\E to : Leaves(to)
    BY <2>2 DEF PcEvent, PcAnnounces, PcGoes, PowerCut, PcReturns, SubscriptionLapses
  <2>. QED BY <2>1, <2>2
<1>3. Holds => Holds'
  BY <1>1, <1>2, TasksKeep
<1>. QED BY <1>1, <1>3 DEF Kept

LEMMA StepKept == IInv /\ Kept /\ [Next]_vars => Kept'
<1>. SUFFICES ASSUME IInv, Kept, [Next]_vars PROVE Kept'
  OBVIOUS
<1>1. ASSUME NEW t \in Tasks, PollStart(t) \/ PcAnswers(t) \/ PollEnds(t) PROVE Kept'
  BY <1>1, PollKeeps
<1>2. ASSUME NEW c \in Channels, Deliver(c) \/ Lose(c) PROVE Kept'
  BY <1>2, PushKeeps
<1>3. CASE \/ WakeTimerFires \/ RenewFires \/ RenewalDue \/ HoldOver \/ SwitchOnPressed
           \/ DriverRestart
  BY <1>3, DriverKeeps
<1>4. CASE \/ \E m \in {"ok", "cancelled"} : PcEvent(m)
           \/ \E m \in Reasons \cup {"app_stop"} : PcAnnounces(m)
           \/ PcGoes \/ PowerCut \/ PcReturns \/ SubscriptionLapses
  BY <1>4, PcKeeps
<1>5. CASE UNCHANGED vars
  BY <1>5 DEF vars, driver, history, Kept, Holds, Keeps, Holding
<1>. QED BY <1>1, <1>2, <1>3, <1>4, <1>5 DEF Next

(* What the PC announced stays on show, whatever the limit and however     *)
(* many polls fail, are written late or search the network: a sleeping PC  *)
(* is shown sleeping and one without its app on, until something else is   *)
(* heard of it or the window is over, and across a restart of the driver   *)
(* within the window; when no poll was under way as the push came.         *)
THEOREM AnnouncementStays == Spec => []ShownAsAnnounced
<1>1. Init => IInv /\ Kept
  BY InitTyped DEF Init, Kept
<1>2. (IInv /\ Kept) /\ [Next]_vars => (IInv /\ Kept)'
  BY StepTyped, StepKept
<1>3. IInv /\ Kept => ShownAsAnnounced
  BY DEF Kept, Holds, Keeps, ShownAsAnnounced, Shown, IInv, OthersOK
<1>. QED BY <1>1, <1>2, <1>3, PTL DEF Spec
=============================================================================
