------------------------- MODULE RemoteGraceProofs -------------------------
(***************************************************************************)
(* The schedule slot and the remote grace path, for every number of        *)
(* schedules and presses, all commands and origins.                        *)
(*                                                                         *)
(* Of the slot: its types, OnlySlotTimerArmed, SlotAlive, and that every   *)
(* step is a step of ScheduleSlot or a stutter (IInv).                     *)
(*                                                                         *)
(* Of the path: its types, StampedOnce and StoredForSameCommand.  Messages *)
(* go from the dispatcher to the queue, to the worker, into the store and  *)
(* out of it by one claim.  Each is in at most one of these places         *)
(* (Places), since a schedule is announced once; and what stands in any of *)
(* them announces a remote schedule handed out before, whose task no later *)
(* step changes (Remotes).  The look-up reads the slot, hence IInv.        *)
(*                                                                         *)
(* Of the front ends that lead there (FrontEnds): what each offers and     *)
(* accepts is what the slot takes, and when a press runs a command.        *)
(***************************************************************************)
EXTENDS RemoteGrace, FrontEnds, TLAPS

(* The slot's inductive invariant.  OnlySlotTimerArmed is not inductive: a late   *)
(* fire goroutine may only clear its own slot because a schedule whose     *)
(* goroutine runs has an expired timer, and an identity that was not       *)
(* handed out yet has neither a timer nor a goroutine.                     *)
TimerFire ==
  \A s \in Seqs : /\ timer[s] = "unset" <=> s > seq
                  /\ fire[s] = "none" <=> timer[s] # "expired"
                  /\ s > seq => ended[s] = "no"

IInv == TypeOK /\ OnlySlotTimerArmed /\ SlotAlive /\ TimerFire

LEMMA SeqsNat == Seqs \subseteq Nat /\ NoTask \notin Seqs /\ NoTask = 0
  BY MaxSeqAssumption DEF Seqs, NoTask

(* A timer that is stopped is not armed any more, and no other changes. *)
LEMMA StoppedIs ==
  ASSUME TypeOK, NEW s \in Seqs
  PROVE  /\ Stopped(s) \in [Seqs -> {"unset", "armed", "stopped", "expired"}]
         /\ Stopped(s)[s] # "armed"
         /\ timer[s] # "armed" => Stopped(s)[s] = timer[s]
         /\ timer[s] = "armed" => Stopped(s)[s] = "stopped"
         /\ \A r \in Seqs : r # s => Stopped(s)[r] = timer[r]
  BY DEF TypeOK, Stopped

LEMMA InitIInv == Init => IInv
  <1> SUFFICES ASSUME Init PROVE IInv
    OBVIOUS
  <1> USE SeqsNat, MaxSeqAssumption
  <1>1. TypeOK
    BY DEF Init, TypeOK
  <1>2. OnlySlotTimerArmed /\ SlotAlive
    BY DEF Init, OnlySlotTimerArmed, SlotAlive
  <1>3. TimerFire
    BY DEF Init, TimerFire, Seqs
  <1> QED BY <1>1, <1>2, <1>3 DEF IInv

LEMMA ScheduleIInv ==
  ASSUME IInv, NEW c \in Commands, NEW o \in Origins, Schedule(c, o)
  PROVE  IInv'
  <1> USE SeqsNat, MaxSeqAssumption
  <1>1. /\ seq + 1 \in Seqs /\ seq' = seq + 1 /\ slot' = seq' /\ seq \in Nat
        /\ slot \in {NoTask, seq} /\ slot # seq + 1
        /\ slot # NoTask => slot \in Seqs
    BY DEF IInv, TypeOK, Schedule, Seqs, NoTask
  <1>2. /\ timer' \in [Seqs -> {"unset", "armed", "stopped", "expired"}]
        /\ timer'[seq + 1] = "armed"
        /\ \A r \in Seqs : r # seq + 1 =>
             /\ r # slot => timer'[r] = timer[r]
             /\ r = slot => timer'[r] # "armed" /\ timer'[r] # "unset"
             /\ timer'[r] = "expired" <=> timer[r] = "expired"
    <2>1. CASE slot = NoTask
      BY <1>1, <2>1 DEF Schedule, IInv, TypeOK
    <2>2. CASE slot # NoTask
      BY <1>1, <2>2, StoppedIs DEF Schedule, IInv, TypeOK, SlotAlive
    <2> QED BY <2>1, <2>2
  <1>3. TypeOK'
    BY <1>1, <1>2 DEF IInv, TypeOK, Schedule, Seqs
  <1>4. OnlySlotTimerArmed'
    BY <1>1, <1>2 DEF IInv, OnlySlotTimerArmed
  <1>5. timer[seq + 1] = "unset" /\ fire[seq + 1] = "none"
    BY <1>1 DEF IInv, TimerFire
  <1>6. SlotAlive'
    <2>1. fire' = fire
      BY DEF Schedule
    <2>2. ended'[seq + 1] = "no"
      BY <1>1 DEF IInv, TypeOK, TimerFire, Schedule
    <2> QED BY <1>1, <1>2, <1>5, <2>1, <2>2 DEF SlotAlive
  <1>7. TimerFire'
    BY <1>1, <1>2, <1>5 DEF IInv, TimerFire, Schedule, TypeOK, Seqs
  <1> QED BY <1>3, <1>4, <1>6, <1>7 DEF IInv

LEMMA EndIInv ==
  ASSUME IInv, NEW runNow \in BOOLEAN, End(runNow)
  PROVE  IInv'
  <1> USE SeqsNat, MaxSeqAssumption
  <1>1. slot \in Seqs /\ slot' = NoTask /\ seq' = seq /\ fire' = fire /\ timer' = Stopped(slot)
    BY DEF IInv, TypeOK, End, Seqs, NoTask
  <1>2. TypeOK'
    BY <1>1, StoppedIs DEF IInv, TypeOK, End
  <1>3. OnlySlotTimerArmed'
    BY <1>1, StoppedIs DEF IInv, OnlySlotTimerArmed
  <1>4. SlotAlive'
    BY <1>1 DEF SlotAlive
  <1>5. TimerFire'
    BY <1>1, StoppedIs DEF IInv, TypeOK, TimerFire, End, SlotAlive
  <1> QED BY <1>2, <1>3, <1>4, <1>5 DEF IInv

LEMMA HandRunIInv ==
  ASSUME IInv, NEW s \in Seqs, HandRun(s)
  PROVE  IInv'
  BY DEF IInv, TypeOK, OnlySlotTimerArmed, SlotAlive, TimerFire, HandRun

LEMMA ExpireIInv ==
  ASSUME IInv, NEW s \in Seqs, Expire(s)
  PROVE  IInv'
  <1> USE SeqsNat
  <1>1. slot = s /\ slot' = slot /\ seq' = seq /\ ended' = ended
    BY DEF IInv, OnlySlotTimerArmed, Expire
  <1>2. TypeOK'
    BY DEF IInv, TypeOK, Expire
  <1>3. OnlySlotTimerArmed'
    BY <1>1 DEF IInv, TypeOK, OnlySlotTimerArmed, Expire
  <1>4. SlotAlive'
    BY <1>1 DEF IInv, TypeOK, SlotAlive, Expire
  <1>5. TimerFire'
    BY <1>1 DEF IInv, TypeOK, TimerFire, Expire
  <1> QED BY <1>2, <1>3, <1>4, <1>5 DEF IInv

LEMMA FireStepIInv ==
  ASSUME IInv, NEW s \in Seqs, FireStep(s)
  PROVE  IInv'
  <1> USE SeqsNat
  <1>1. CASE Announce(s)
    BY <1>1 DEF IInv, TypeOK, OnlySlotTimerArmed, SlotAlive, TimerFire, Announce
  <1>2. CASE Run(s)
    BY <1>2 DEF IInv, TypeOK, OnlySlotTimerArmed, SlotAlive, TimerFire, Run
  <1>3. CASE Clear(s)
    <2>1. timer[s] = "expired"
      BY <1>3 DEF IInv, TypeOK, TimerFire, Clear
    <2>2. TypeOK'
      BY <1>3 DEF IInv, TypeOK, Clear
    <2>3. OnlySlotTimerArmed'
      BY <1>3, <2>1 DEF IInv, OnlySlotTimerArmed, Clear
    <2>4. SlotAlive'
      BY <1>3 DEF IInv, TypeOK, SlotAlive, Clear
    <2>5. TimerFire'
      BY <1>3, <2>1 DEF IInv, TypeOK, TimerFire, Clear
    <2> QED BY <2>2, <2>3, <2>4, <2>5 DEF IInv
  <1> QED BY <1>1, <1>2, <1>3 DEF FireStep

LEMMA StepIInv == IInv /\ [Next]_schedVars => IInv'
  <1> SUFFICES ASSUME IInv, [Next]_schedVars PROVE IInv'
    OBVIOUS
  <1>1. CASE Next
    <2>1. ASSUME NEW c \in Commands, NEW o \in Origins, Schedule(c, o) PROVE IInv'
      BY <2>1, ScheduleIInv
    <2>2. ASSUME NEW runNow \in BOOLEAN, End(runNow) PROVE IInv'
      BY <2>2, EndIInv
    <2>3. ASSUME NEW s \in Seqs, Expire(s) \/ FireStep(s) \/ HandRun(s) PROVE IInv'
      BY <2>3, ExpireIInv, FireStepIInv, HandRunIInv
    <2> QED BY <1>1, <2>1, <2>2, <2>3 DEF Next
  <1>2. CASE UNCHANGED schedVars
    BY <1>2 DEF schedVars, IInv, TypeOK, OnlySlotTimerArmed, SlotAlive, TimerFire
  <1> QED BY <1>1, <1>2

(* The inductive invariant holds of every behaviour of the scheduler. *)
THEOREM Invariance == Spec => []IInv
  BY InitIInv, StepIInv, PTL DEF Spec

(* The slot holds nothing or the newest schedule, and every record of a    *)
(* timer, a goroutine and an outcome keeps its type.                       *)
THEOREM TypeCorrect == Spec => []TypeOK
  <1>1. IInv => TypeOK
    BY DEF IInv
  <1> QED BY <1>1, Invariance, PTL

(* A schedule that can still go off is the one in the slot. *)
THEOREM NoHiddenTimer == Spec => []OnlySlotTimerArmed
  <1>1. IInv => OnlySlotTimerArmed
    BY DEF IInv
  <1> QED BY <1>1, Invariance, PTL

(* The slot never shows a schedule that is over. *)
THEOREM NoDeadSlot == Spec => []SlotAlive
  <1>1. IInv => SlotAlive
    BY DEF IInv
  <1> QED BY <1>1, Invariance, PTL

----------------------------------------------------------------------------
(* The steps of the scheduler are steps of ScheduleSlot or stutter. *)

(* A step that leaves seq, the timers and the goroutines' progress past    *)
(* "due" alone leaves Life alone.                                          *)
LEMMA LifeSame ==
  ASSUME seq' = seq, timer' = timer,
         \A s \in Seqs : fire'[s] \in {"started", "announced"} <=> fire[s] \in {"started", "announced"}
  PROVE  Life' = Life
  BY DEF Life

(* A step that touches the timer and the goroutine of s only. *)
LEMMA LifeChange ==
  ASSUME NEW s \in Seqs, NEW stage, seq' = seq, Life'[s] = stage,
         \A r \in Seqs : r # s => timer'[r] = timer[r] /\ fire'[r] = fire[r]
  PROVE  Life' = [Life EXCEPT ![s] = stage]
  <1>1. \A r \in Seqs : r # s => Life'[r] = Life[r]
    BY DEF Life
  <1>2. DOMAIN Life = Seqs /\ DOMAIN Life' = Seqs
    BY DEF Life
  <1>3. Life = [r \in Seqs |-> Life[r]] /\ Life' = [r \in Seqs |-> Life'[r]]
    BY DEF Life
  <1>4. Life' = [r \in Seqs |-> IF r = s THEN stage ELSE Life[r]]
    BY <1>1, <1>3
  <1> QED BY <1>3, <1>4, Zenon

LEMMA ScheduleOpens ==
  ASSUME IInv, NEW c \in Commands, NEW o \in Origins, Schedule(c, o)
  PROVE  Slot!Open(seq + 1)
  <1> USE SeqsNat, MaxSeqAssumption
  <1>1. /\ seq + 1 \in Seqs /\ seq' = seq + 1 /\ seq \in Nat /\ fire' = fire
        /\ slot # NoTask => slot \in Seqs /\ slot # seq + 1
    BY DEF IInv, TypeOK, Schedule, Seqs, NoTask
  <1>2. /\ timer'[seq + 1] = "armed"
        /\ \A r \in Seqs : r # seq + 1 =>
             timer'[r] = IF timer[r] = "armed" THEN "stopped" ELSE timer[r]
    <2>1. CASE slot = NoTask
      BY <1>1, <2>1 DEF Schedule, IInv, TypeOK, OnlySlotTimerArmed
    <2>2. CASE slot # NoTask
      BY <1>1, <2>2, StoppedIs DEF Schedule, IInv, TypeOK, OnlySlotTimerArmed
    <2> QED BY <2>1, <2>2
  <1>3. Life[seq + 1] = "unused"
    BY <1>1 DEF Life
  <1>4. \A r \in Seqs : Life'[r] = IF r = seq + 1 THEN "waiting"
                                    ELSE IF Life[r] = "waiting" THEN "withdrawn" ELSE Life[r]
    <2> TAKE r \in Seqs
    <2>1. CASE r = seq + 1
      BY <1>1, <1>2, <2>1 DEF Life
    <2>2. CASE r # seq + 1 /\ r > seq
      BY <1>1, <1>2, <2>2 DEF Life
    <2>3. CASE r <= seq
      BY <1>1, <1>2, <2>3 DEF Life
    <2> QED BY <1>1, <2>1, <2>2, <2>3
  <1>5. Life' = [r \in Seqs |-> IF r = seq + 1 THEN "waiting"
                                ELSE IF Life[r] = "waiting" THEN "withdrawn" ELSE Life[r]]
    BY <1>4 DEF Life
  <1> QED BY <1>3, <1>5 DEF Slot!Open

LEMMA EndWithdraws ==
  ASSUME IInv, NEW runNow \in BOOLEAN, End(runNow)
  PROVE  Slot!Withdraw(slot) \/ Life' = Life
  <1> USE SeqsNat, MaxSeqAssumption
  <1>1. /\ slot \in Seqs /\ slot <= seq /\ seq \in Nat
        /\ seq' = seq /\ fire' = fire /\ timer' = Stopped(slot)
    BY DEF IInv, TypeOK, End, Seqs, NoTask
  <1>2. CASE timer[slot] = "armed"
    <2>1. Life[slot] = "waiting"
      BY <1>1, <1>2 DEF Life
    <2>2. Life'[slot] = "withdrawn"
      BY <1>1, <1>2, StoppedIs DEF Life, IInv
    <2>3. \A r \in Seqs : r # slot => timer'[r] = timer[r] /\ fire'[r] = fire[r]
      BY <1>1, StoppedIs DEF IInv
    <2>4. Life' = [Life EXCEPT ![slot] = "withdrawn"]
      BY <1>1, <2>2, <2>3, LifeChange
    <2> QED BY <2>1, <2>4 DEF Slot!Withdraw
  <1>3. CASE timer[slot] # "armed"
    BY <1>1, <1>3, LifeSame DEF Stopped
  <1> QED BY <1>2, <1>3

LEMMA ExpireIsDue ==
  ASSUME IInv, NEW s \in Seqs, Expire(s)
  PROVE  Slot!Due(s)
  <1> USE SeqsNat, MaxSeqAssumption
  <1>1. s <= seq /\ seq' = seq /\ seq \in Nat
    BY DEF IInv, TypeOK, TimerFire, Expire, Seqs
  <1>2. Life[s] = "waiting"
    BY <1>1 DEF Life, Expire
  <1>3. /\ timer'[s] = "expired" /\ fire'[s] = "started"
        /\ \A r \in Seqs : r # s => timer'[r] = timer[r] /\ fire'[r] = fire[r]
    BY DEF Expire, IInv, TypeOK
  <1>4. Life' = [Life EXCEPT ![s] = "due"]
    BY <1>1, <1>3, LifeChange DEF Life
  <1> QED BY <1>2, <1>4 DEF Slot!Due

LEMMA FireStepRuns ==
  ASSUME IInv, NEW s \in Seqs, FireStep(s)
  PROVE  Slot!Run(s) \/ Life' = Life
  <1> USE SeqsNat, MaxSeqAssumption
  <1>1. /\ timer[s] = "expired" /\ s <= seq /\ seq \in Nat
    BY DEF IInv, TypeOK, TimerFire, FireStep, Announce, Run, Clear, Seqs
  <1>2. CASE Announce(s)
    BY <1>2, LifeSame DEF Announce, IInv, TypeOK
  <1>3. CASE Run(s)
    <2>1. Life[s] = "due"
      BY <1>1, <1>3 DEF Life, Run
    <2>2. /\ seq' = seq /\ timer'[s] = "expired" /\ fire'[s] = "ran"
          /\ \A r \in Seqs : r # s => timer'[r] = timer[r] /\ fire'[r] = fire[r]
      BY <1>1, <1>3 DEF Run, IInv, TypeOK
    <2>3. Life'[s] = "ran"
      BY <1>1, <2>2 DEF Life
    <2>4. Life' = [Life EXCEPT ![s] = "ran"]
      BY <2>2, <2>3, LifeChange
    <2> QED BY <2>1, <2>4 DEF Slot!Run
  <1>4. CASE Clear(s)
    BY <1>4, LifeSame DEF Clear, IInv, TypeOK
  <1> QED BY <1>2, <1>3, <1>4 DEF FireStep

LEMMA StepImplements == IInv /\ [Next]_schedVars => [Slot!Next]_Life
  <1> SUFFICES ASSUME IInv, [Next]_schedVars PROVE [Slot!Next]_Life
    OBVIOUS
  <1>1. CASE Next
    <2>1. ASSUME NEW c \in Commands, NEW o \in Origins, Schedule(c, o) PROVE Slot!Next
      <3>1. seq + 1 \in Seqs
        BY <2>1, MaxSeqAssumption DEF IInv, TypeOK, Schedule, Seqs, NoTask
      <3> QED BY <2>1, <3>1, ScheduleOpens DEF Slot!Next
    <2>2. ASSUME NEW runNow \in BOOLEAN, End(runNow) PROVE [Slot!Next]_Life
      <3>1. slot \in Seqs
        BY <2>2, MaxSeqAssumption DEF IInv, TypeOK, End, Seqs, NoTask
      <3> QED BY <2>2, <3>1, EndWithdraws DEF Slot!Next
    <2>3. ASSUME NEW s \in Seqs, Expire(s) PROVE Slot!Next
      BY <2>3, ExpireIsDue DEF Slot!Next
    <2>4. ASSUME NEW s \in Seqs, FireStep(s) PROVE [Slot!Next]_Life
      BY <2>4, FireStepRuns DEF Slot!Next
    <2>5. ASSUME NEW s \in Seqs, HandRun(s) PROVE Life' = Life
      BY <2>5, LifeSame DEF HandRun
    <2> QED BY <1>1, <2>1, <2>2, <2>3, <2>4, <2>5 DEF Next
  <1>2. CASE UNCHANGED schedVars
    BY <1>2, LifeSame DEF schedVars
  <1> QED BY <1>1, <1>2

(* Every behaviour of the scheduler is, schedule by schedule, one that     *)
(* ScheduleSlot allows: at most one waits, a schedule withdrawn in time is *)
(* never run by its timer, and one that is due is run by it once.          *)
THEOREM ImplementsSafety == Spec => Slot!Safety
  <1>1. Init => Slot!Init
    BY MaxSeqAssumption DEF Init, Slot!Init, Life, Seqs
  <1> QED BY <1>1, Invariance, StepImplements, PTL DEF Spec, Slot!Safety

----------------------------------------------------------------------------
Handed == {s \in Seqs : s <= seq}   \* the schedules handed out so far

GraceTypes ==
  /\ owed \subseteq Seqs
  /\ queue \in Seq(Seqs)
  /\ worker \in [pc : {"idle", "sent", "looked"}, msg : Seqs \cup {NoMsg}, seq : Seqs \cup {NoTask}]
  /\ worker.pc = "idle" <=> worker.msg = NoMsg
  /\ store \in [msg : Seqs, seq : Seqs] \cup {Nothing}
  /\ claims \in [Seqs -> Nat]

UserTypes ==
  /\ edits \subseteq Seqs
  /\ keyboard \in [Seqs -> {"none", "shown", "gone"}]
  /\ presses \subseteq Seqs \X Verbs
  /\ poller \in [pc : {"idle", "claimed", "taken"}, msg : Seqs \cup {NoMsg},
                 verb : Verbs \cup {"none"}, got : Seqs \cup {NoTask}]
  /\ poller.pc # "idle" => poller.msg \in Seqs

Fresh(m) == m \in Handed /\ claims[m] = 0   \* never handed out by the store

Places ==
  /\ \A m \in owed : /\ Fresh(m)
                     /\ m # worker.msg /\ m # store.msg
                     /\ \A i \in 1..Len(queue) : queue[i] # m
  /\ \A i \in 1..Len(queue) : /\ Fresh(queue[i])
                              /\ queue[i] # worker.msg /\ queue[i] # store.msg
                              /\ \A j \in 1..Len(queue) : queue[i] = queue[j] => i = j
  /\ worker.msg # NoMsg => Fresh(worker.msg) /\ worker.msg # store.msg
  /\ store.msg # NoMsg => Fresh(store.msg)
  /\ \A m \in Seqs : claims[m] # 0 => claims[m] = 1 /\ m \in Handed

Remote(m) == task[m].origin = "remote"
Alike(m, s) == s \in Handed /\ Remote(s) /\ task[s].command = task[m].command

Remotes ==
  /\ \A m \in owed : Remote(m)
  /\ \A i \in 1..Len(queue) : Remote(queue[i])
  /\ worker.msg # NoMsg => Remote(worker.msg)
  /\ worker.pc = "looked" => Alike(worker.msg, worker.seq)
  /\ store.msg # NoMsg => Remote(store.msg) /\ Alike(store.msg, store.seq)

GraceInv == GraceTypes /\ Places /\ Remotes
GInv == IInv /\ GraceInv /\ UserTypes

(* What a step of the scheduler does to the schedules handed out. *)
Lasting == /\ seq \in 0..MaxSeq /\ seq' \in 0..MaxSeq /\ seq <= seq'
           /\ \A s \in Handed : task'[s] = task[s]

(* No message is owed but those that were, and that of a new remote one.   *)
NewRemote(m) == m \in Seqs /\ m \notin Handed /\ m \in Handed' /\ Remote(m)'
OwedGrows == \A m \in owed' : m \in owed \/ NewRemote(m)

LEMMA InitGInv == GInit => GInv
  <1> SUFFICES ASSUME GInit PROVE GInv
    OBVIOUS
  <1> USE SeqsNat, MaxSeqAssumption DEF GInit, Nothing, Idle, NoMsg, NoTask, NoPress
  <1>1. IInv
    BY InitIInv
  <1>2. GraceTypes /\ UserTypes
    BY DEF GraceTypes, UserTypes
  <1>3. Places /\ Remotes
    BY DEF Places, Remotes
  <1> QED BY <1>1, <1>2, <1>3 DEF GInv, GraceInv

----------------------------------------------------------------------------
(* Steps of the scheduler, with the hooks they call. *)

LEMMA SchedulerLasts == ASSUME IInv, [Next]_schedVars PROVE Lasting
  <1> USE SeqsNat, MaxSeqAssumption
  <1>1. seq \in 0..MaxSeq
    BY DEF IInv, TypeOK
  <1>2. ASSUME NEW c \in Commands, NEW o \in Origins, Schedule(c, o) PROVE Lasting
    <2>1. \A s \in Handed : s # seq + 1
      BY <1>1 DEF Handed
    <2> QED BY <1>1, <1>2, <2>1 DEF Lasting, Schedule, IInv, TypeOK, Handed
  <1>3. ASSUME seq' = seq, task' = task PROVE Lasting
    BY <1>1, <1>3 DEF Lasting
  <1>4. ASSUME NEW runNow \in BOOLEAN, End(runNow) PROVE Lasting
    BY <1>3, <1>4 DEF End
  <1>5. ASSUME NEW s \in Seqs, Expire(s) \/ FireStep(s) \/ HandRun(s) PROVE Lasting
    BY <1>3, <1>5 DEF Expire, FireStep, Announce, Run, Clear, HandRun
  <1>6. ASSUME UNCHANGED schedVars PROVE Lasting
    BY <1>3, <1>6 DEF schedVars
  <1> QED BY <1>2, <1>4, <1>5, <1>6 DEF Next

LEMMA OwedStays == UNCHANGED owed => OwedGrows
  BY DEF OwedGrows

(* A new schedule's message is nowhere yet. *)
LEMMA NewIsNowhere ==
  ASSUME GraceInv, NEW m, NewRemote(m)
  PROVE  /\ claims[m] = 0 /\ m # worker.msg /\ m # store.msg
         /\ \A i \in 1..Len(queue) : queue[i] # m
  BY SeqsNat DEF GraceInv, GraceTypes, Places, Fresh, NewRemote, NoMsg, NoTask

(* Nothing of the grace path moves, but for what is owed. *)
LEMMA GraceStays ==
  ASSUME GraceInv, Lasting, OwedGrows, UNCHANGED <<queue, worker, store, claims>>
  PROVE  GraceInv'
  <1>0. Handed \subseteq Handed'
    BY SeqsNat DEF Handed, Lasting, Seqs
  <1>1. GraceTypes'
    BY DEF GraceInv, GraceTypes, OwedGrows, NewRemote
  <1>2. Places'
    <2>1. ASSUME NEW m \in owed'
          PROVE  /\ Fresh(m)' /\ m # worker.msg /\ m # store.msg
                 /\ \A i \in 1..Len(queue) : queue[i] # m
      <3>1. CASE m \in owed
        BY <1>0, <3>1 DEF GraceInv, Places, Fresh
      <3>2. CASE NewRemote(m)
        BY <3>2, NewIsNowhere DEF NewRemote, Fresh
      <3> QED BY <3>1, <3>2 DEF OwedGrows
    <2> QED BY <1>0, <2>1 DEF GraceInv, Places, Fresh
  <1>3. Remotes'
    <2>1. ASSUME NEW m \in owed' PROVE Remote(m)'
      BY DEF OwedGrows, NewRemote, GraceInv, Places, Fresh, Remotes, Remote, Lasting
    <2> QED BY <1>0, <2>1 DEF GraceInv, GraceTypes, Places, Fresh, Remotes, Remote, Alike, Lasting
  <1> QED BY <1>1, <1>2, <1>3 DEF GraceInv

(* The stored message is claimed, once and for good. *)
LEMMA StoreClaimed ==
  ASSUME GraceInv, Lasting, OwedGrows, store.msg # NoMsg, store' = Nothing,
         claims' = [claims EXCEPT ![store.msg] = @ + 1],
         UNCHANGED <<queue, worker>>
  PROVE  GraceInv'
  <1> USE DEF Nothing, NoMsg
  <1>0. Handed \subseteq Handed' /\ NoMsg \notin Seqs
    BY SeqsNat DEF Handed, Lasting, Seqs, NoTask
  <1>1. GraceTypes'
    BY DEF GraceInv, GraceTypes, OwedGrows, NewRemote
  <1>2. /\ store.msg \in Seqs /\ claims'[store.msg] = 1 /\ store.msg \in Handed
        /\ \A m \in Seqs : m # store.msg => claims'[m] = claims[m]
    BY DEF GraceInv, GraceTypes, Places, Fresh
  <1>3. Places'
    <2>1. ASSUME NEW m \in owed'
          PROVE  /\ Fresh(m)' /\ m # worker.msg /\ m # store.msg /\ m # NoMsg
                 /\ \A i \in 1..Len(queue) : queue[i] # m
      <3>1. CASE m \in owed
        BY <1>0, <1>2, <3>1 DEF GraceInv, GraceTypes, Places, Fresh
      <3>2. CASE NewRemote(m)
        BY <1>0, <1>2, <3>2, NewIsNowhere DEF NewRemote, Fresh
      <3> QED BY <3>1, <3>2 DEF OwedGrows
    <2>2. ASSUME NEW i \in 1..Len(queue)
          PROVE  Fresh(queue[i])' /\ queue[i] # NoMsg
      <3>1. queue[i] \in Seqs /\ queue[i] # store.msg
        BY DEF GraceInv, GraceTypes, Places
      <3> QED BY <1>0, <1>2, <3>1 DEF GraceInv, Places, Fresh
    <2>3. worker.msg # NoMsg => Fresh(worker.msg)'
      BY <1>0, <1>2 DEF GraceInv, GraceTypes, Places, Fresh
    <2>4. \A m \in Seqs : claims'[m] # 0 => claims'[m] = 1 /\ m \in Handed'
      BY <1>0, <1>2 DEF GraceInv, Places
    <2>5. /\ store'.msg = NoMsg /\ queue' = queue /\ worker' = worker
      OBVIOUS
    <2> QED BY <2>1, <2>2, <2>3, <2>4, <2>5 DEF GraceInv, Places
  <1>4. Remotes'
    <2>1. ASSUME NEW m \in owed' PROVE Remote(m)'
      BY DEF OwedGrows, NewRemote, GraceInv, Places, Fresh, Remotes, Remote, Lasting
    <2> QED BY <1>0, <2>1 DEF GraceInv, GraceTypes, Places, Fresh, Remotes, Remote, Alike, Lasting
  <1> QED BY <1>1, <1>3, <1>4 DEF GraceInv

LEMMA FinishKeeps ==
  ASSUME GraceInv, Lasting, OwedGrows, NEW q, Finish(q), UNCHANGED <<queue, worker>>
  PROVE  GraceInv' /\ (edits \subseteq Seqs => edits' \subseteq Seqs)
  <1>1. CASE store.msg # NoMsg /\ store.seq = q
    <2>1. GraceInv'
      BY <1>1, StoreClaimed DEF Finish
    <2>2. store.msg \in Seqs
      BY <1>1 DEF GraceInv, GraceTypes, Nothing
    <2> QED BY <1>1, <2>1, <2>2 DEF Finish
  <1>2. CASE ~(store.msg # NoMsg /\ store.seq = q)
    BY <1>2, GraceStays DEF Finish
  <1> QED BY <1>1, <1>2

(* The dispatcher owes a message for the schedule it just set. *)
LEMMA DispatchKeeps ==
  ASSUME GInv, NEW c \in Commands, DispatchGrace(c)
  PROVE  GInv'
  <1> USE SeqsNat, MaxSeqAssumption, RemoteAssumption
  <1>1. Schedule(c, "remote")
    BY DEF DispatchGrace, Set
  <1>2. IInv' /\ Lasting
    BY <1>1, ScheduleIInv, SchedulerLasts DEF GInv, Next
  <1>3. PICK n \in Seqs : n = seq'
    BY <1>1 DEF GInv, IInv, TypeOK, Schedule, Seqs
  <1>4. OwedGrows
    <2>1. n = seq + 1 /\ seq \in Nat /\ task'[n].origin = "remote"
      BY <1>1, <1>3 DEF GInv, IInv, TypeOK, Schedule
    <2>2. NewRemote(n)
      BY <1>3, <2>1 DEF NewRemote, Remote, Handed
    <2> QED BY <1>3, <2>2 DEF OwedGrows, DispatchGrace
  <1>5. GraceInv' /\ edits' \subseteq Seqs
    BY <1>2, <1>4, FinishKeeps DEF GInv, UserTypes, DispatchGrace, Set
  <1> QED BY <1>2, <1>5 DEF GInv, UserTypes, DispatchGrace, Set

LEMMA SetOtherKeeps ==
  ASSUME GInv, NEW c \in Commands, NEW o \in Origins, SetOther(c, o)
  PROVE  GInv'
  <1>1. IInv' /\ Lasting
    BY ScheduleIInv, SchedulerLasts DEF GInv, SetOther, Set, Next
  <1>2. GraceInv' /\ edits' \subseteq Seqs
    BY <1>1, FinishKeeps, OwedStays DEF GInv, UserTypes, SetOther, Set
  <1> QED BY <1>1, <1>2 DEF GInv, UserTypes, SetOther, Set

LEMMA EndOtherKeeps ==
  ASSUME GInv, NEW runNow \in BOOLEAN, EndOther(runNow)
  PROVE  GInv'
  <1>1. IInv' /\ Lasting
    BY EndIInv, SchedulerLasts DEF GInv, EndOther, Next
  <1>2. GraceInv' /\ edits' \subseteq Seqs
    BY <1>1, FinishKeeps, OwedStays DEF GInv, UserTypes, EndOther
  <1> QED BY <1>1, <1>2 DEF GInv, UserTypes, EndOther

LEMMA FireKeeps ==
  ASSUME GInv, NEW s \in Seqs, AnnounceFired(s) \/ OtherSchedulerStep(s)
  PROVE  GInv'
  <1>1. CASE AnnounceFired(s)
    <2>1. IInv' /\ Lasting
      BY <1>1, FireStepIInv, SchedulerLasts DEF GInv, AnnounceFired, FireStep, Next
    <2>2. GraceInv' /\ edits' \subseteq Seqs
      BY <1>1, <2>1, FinishKeeps, OwedStays DEF GInv, UserTypes, AnnounceFired
    <2> QED BY <1>1, <2>1, <2>2 DEF GInv, UserTypes, AnnounceFired
  <1>2. CASE OtherSchedulerStep(s)
    <2>1. Expire(s) \/ FireStep(s) \/ HandRun(s)
      BY <1>2 DEF OtherSchedulerStep, FireStep
    <2>2. IInv' /\ Lasting
      BY <2>1, ExpireIInv, FireStepIInv, HandRunIInv, SchedulerLasts DEF GInv, Next
    <2>3. GraceInv'
      BY <1>2, <2>2, GraceStays, OwedStays DEF GInv, OtherSchedulerStep, graceVars
    <2> QED BY <1>2, <2>2, <2>3 DEF GInv, UserTypes, OtherSchedulerStep, graceVars
  <1> QED BY <1>1, <1>2

----------------------------------------------------------------------------
(* Steps of the message from the dispatcher to the store. *)

LEMMA SlotStays == ASSUME IInv, UNCHANGED schedVars PROVE IInv' /\ Lasting
  BY StepIInv, SchedulerLasts

LEMMA EmitKeeps ==
  ASSUME GInv, NEW s \in Seqs, EmitNote(s)
  PROVE  GInv'
  <1>1. IInv' /\ Lasting
    BY SlotStays DEF GInv, EmitNote
  <1>2. /\ s \in owed /\ owed' = owed \ {s} /\ queue' = Append(queue, s) /\ queue \in Seq(Seqs)
        /\ UNCHANGED <<seq, task, worker, store, claims>>
    BY DEF EmitNote, schedVars, GInv, GraceInv, GraceTypes
  <1>3. /\ Len(queue') = Len(queue) + 1 /\ queue'[Len(queue) + 1] = s /\ Len(queue) \in Nat
        /\ \A i \in 1..Len(queue) : queue'[i] = queue[i]
    BY <1>2
  <1>4. GraceTypes'
    BY <1>2 DEF GInv, GraceInv, GraceTypes
  <1>5. Places'
    <2>1. \A i \in 1..Len(queue') : i \in 1..Len(queue) \/ i = Len(queue) + 1
      BY <1>3
    <2> QED BY <1>2, <1>3, <2>1 DEF GInv, GraceInv, Places, Fresh, Handed
  <1>6. Remotes'
    BY <1>2, <1>3 DEF GInv, GraceInv, Remotes, Remote, Alike, Handed
  <1>7. UserTypes'
    BY DEF EmitNote, GInv, UserTypes
  <1> QED BY <1>1, <1>4, <1>5, <1>6, <1>7 DEF GInv, GraceInv

LEMMA SendKeeps == ASSUME GInv, SendNote PROVE GInv'
  <1>1. IInv' /\ Lasting
    BY SlotStays DEF GInv, SendNote
  <1> DEFINE m == Head(queue)
  <1>2. /\ queue \in Seq(Seqs) /\ queue # <<>> /\ queue' = Tail(queue)
        /\ worker.msg = NoMsg
        /\ UNCHANGED <<seq, task, owed, store, claims, edits, presses, poller>>
    BY DEF SendNote, schedVars, GInv, GraceInv, GraceTypes
  <1>3. /\ m = queue[1] /\ 1 \in 1..Len(queue) /\ m \in Seqs
        /\ Len(queue') = Len(queue) - 1 /\ queue' \in Seq(Seqs) /\ Len(queue) \in Nat
        /\ \A i \in 1..Len(queue') : queue'[i] = queue[i + 1] /\ i + 1 \in 1..Len(queue)
    BY <1>2
  <1>4. \/ worker' = [pc |-> "sent", msg |-> m, seq |-> NoTask] /\ keyboard' = [keyboard EXCEPT ![m] = "shown"]
        \/ worker' = worker /\ keyboard' = keyboard
    BY DEF SendNote
  <1> HIDE DEF m
  <1>5. m # NoMsg
    BY <1>3, SeqsNat DEF NoMsg, NoTask
  <1>6. GraceTypes'
    BY <1>2, <1>3, <1>4, <1>5 DEF GInv, GraceInv, GraceTypes
  <1>7. \A i \in 1..Len(queue') : queue'[i] # m
    <2> TAKE i \in 1..Len(queue')
    <2>1. i + 1 # 1
      BY <1>3
    <2>2. queue[i + 1] # queue[1]
      BY <1>3, <2>1 DEF GInv, GraceInv, Places
    <2> QED BY <1>3, <2>2
  <1>8. \A i, j \in 1..Len(queue') : queue'[i] = queue'[j] => i = j
    <2> TAKE i, j \in 1..Len(queue')
    <2>1. queue[i + 1] = queue[j + 1] => i + 1 = j + 1
      BY <1>3 DEF GInv, GraceInv, Places
    <2> QED BY <1>3, <2>1
  <1>9. \A i \in 1..Len(queue') : Fresh(queue'[i]) /\ queue'[i] # store.msg
    BY <1>3 DEF GInv, GraceInv, Places
  <1>10. /\ Fresh(m) /\ m # store.msg /\ \A n \in owed : n # m
         /\ \A n \in owed : \A i \in 1..Len(queue') : queue'[i] # n
    BY <1>3 DEF GInv, GraceInv, Places
  <1>11. Places'
    BY <1>2, <1>4, <1>5, <1>7, <1>8, <1>9, <1>10 DEF GInv, GraceInv, GraceTypes, Places, Fresh, Handed, NoMsg
  <1>12. Remotes'
    BY <1>2, <1>3, <1>4 DEF GInv, GraceInv, GraceTypes, Remotes, Remote, Alike, Handed
  <1>13. UserTypes'
    BY <1>2, <1>3, <1>4 DEF GInv, UserTypes
  <1> QED BY <1>1, <1>6, <1>11, <1>12, <1>13 DEF GInv, GraceInv

(* The look-up finds a schedule that was handed out, remote and of the     *)
(* message's own command, or none.                                         *)
LEMMA LookupKeeps == ASSUME GInv, RememberLookup PROVE GInv'
  <1> USE SeqsNat
  <1>1. IInv' /\ Lasting
    BY SlotStays DEF GInv, RememberLookup
  <1> DEFINE q == ActiveSeq(task[worker.msg].command, "remote")
  <1>2. q # NoTask => Alike(worker.msg, q)
    BY MaxSeqAssumption DEF ActiveSeq, Alike, Remote, GInv, IInv, TypeOK, Handed, Seqs, NoTask
  <1>3. /\ worker' = IF q = NoTask THEN Idle ELSE [worker EXCEPT !.pc = "looked", !.seq = q]
        /\ UNCHANGED <<seq, task, owed, queue, store, claims, edits, keyboard, presses, poller>>
        /\ worker.pc = "sent"
    BY DEF RememberLookup, schedVars
  <1> HIDE DEF q
  <1>4. CASE q = NoTask
    <2>1. GraceTypes'
      BY <1>3, <1>4 DEF GInv, GraceInv, GraceTypes, Idle
    <2>2. Places' /\ Remotes'
      BY <1>3, <1>4 DEF GInv, GraceInv, GraceTypes, Places, Remotes, Fresh, Handed, Remote, Alike, Idle, NoMsg
    <2> QED BY <1>1, <1>3, <2>1, <2>2 DEF GInv, GraceInv, UserTypes
  <1>5. CASE q # NoTask
    <2>0. q \in Seqs
      BY <1>2, <1>5 DEF Alike, Handed
    <2>1. worker'.pc = "looked" /\ worker'.seq = q /\ worker'.msg = worker.msg
      BY <1>3, <1>5 DEF GInv, GraceInv, GraceTypes
    <2>2. GraceTypes'
      BY <1>3, <1>5, <2>0 DEF GInv, GraceInv, GraceTypes
    <2>3. Places'
      BY <1>3, <2>1 DEF GInv, GraceInv, Places, Fresh, Handed
    <2>4. Remotes'
      BY <1>2, <1>3, <1>5, <2>1 DEF GInv, GraceInv, Remotes, Remote, Alike, Handed
    <2> QED BY <1>1, <1>3, <2>2, <2>3, <2>4 DEF GInv, GraceInv, UserTypes
  <1> QED BY <1>4, <1>5

LEMMA StoreKeeps == ASSUME GInv, RememberStore PROVE GInv'
  <1> USE SeqsNat
  <1>1. IInv' /\ Lasting
    BY SlotStays DEF GInv, RememberStore
  <1>2. /\ store' = [msg |-> worker.msg, seq |-> worker.seq] /\ worker' = Idle
        /\ worker.pc = "looked" /\ worker.msg \in Seqs /\ worker.seq \in Seqs
        /\ UNCHANGED <<seq, task, owed, queue, claims, edits, keyboard, presses, poller>>
    BY DEF RememberStore, schedVars, GInv, GraceInv, GraceTypes, Remotes, Alike, Handed
  <1>3. store'.msg = worker.msg /\ store'.seq = worker.seq /\ worker'.msg = NoMsg /\ worker'.pc = "idle"
    BY <1>2 DEF Idle
  <1>4. GraceTypes'
    BY <1>2, <1>3 DEF GInv, GraceInv, GraceTypes, Idle
  <1>5. Places'
    BY <1>2, <1>3 DEF GInv, GraceInv, GraceTypes, Places, Fresh, Handed, NoMsg, NoTask
  <1>6. Remotes'
    BY <1>2, <1>3 DEF GInv, GraceInv, GraceTypes, Remotes, Remote, Alike, Handed, NoMsg, NoTask
  <1> QED BY <1>1, <1>2, <1>4, <1>5, <1>6 DEF GInv, GraceInv, UserTypes

----------------------------------------------------------------------------
(* Steps of the user, the poller and the edits. *)

LEMMA EditKeeps ==
  ASSUME GInv, NEW m \in Seqs, EditDone(m)
  PROVE  GInv'
  <1>1. IInv' /\ Lasting
    BY SlotStays DEF GInv, EditDone
  <1>2. GraceInv'
    BY <1>1, GraceStays, OwedStays DEF GInv, EditDone
  <1>3. UserTypes'
    BY DEF GInv, UserTypes, EditDone
  <1> QED BY <1>1, <1>2, <1>3 DEF GInv

LEMMA PressKeeps ==
  ASSUME GInv, NEW m \in Seqs, NEW verb \in Verbs, Press(m, verb)
  PROVE  GInv'
  <1>1. IInv' /\ Lasting
    BY SlotStays DEF GInv, Press
  <1>2. GraceInv'
    BY <1>1, GraceStays, OwedStays DEF GInv, Press
  <1>3. UserTypes'
    BY DEF GInv, UserTypes, Press
  <1> QED BY <1>1, <1>2, <1>3 DEF GInv

LEMMA ClaimKeeps ==
  ASSUME GInv, NEW m \in Seqs, NEW verb \in Verbs, TakeGraceMessage(m, verb)
  PROVE  GInv'
  <1>1. IInv' /\ Lasting
    BY SlotStays DEF GInv, TakeGraceMessage
  <1>2. GraceInv'
    <2>1. CASE store.msg = m
      <3>1. store.msg # NoMsg
        BY <2>1, SeqsNat DEF NoMsg, NoTask
      <3> QED BY <1>1, <2>1, <3>1, StoreClaimed, OwedStays DEF GInv, TakeGraceMessage
    <2>2. CASE store.msg # m
      BY <1>1, <2>2, GraceStays, OwedStays DEF GInv, TakeGraceMessage
    <2> QED BY <2>1, <2>2
  <1>3. UserTypes'
    BY DEF GInv, UserTypes, TakeGraceMessage
  <1> QED BY <1>1, <1>2, <1>3 DEF GInv

LEMMA TakeKeeps == ASSUME GInv, TakeSchedule PROVE GInv'
  <1>1. slot \in Seqs \cup {NoTask}
    BY MaxSeqAssumption DEF GInv, IInv, TypeOK, Seqs, NoTask
  <1>2. /\ poller' = [poller EXCEPT !.pc = "taken", !.got = slot] /\ poller.pc = "claimed"
        /\ UNCHANGED <<owed, queue, worker, keyboard, presses>>
    BY DEF TakeSchedule
  <1>3. CASE slot = NoTask /\ UNCHANGED <<schedVars, store, claims, edits>>
    <2>1. IInv' /\ Lasting
      BY <1>3, SlotStays DEF GInv
    <2>2. GraceInv'
      BY <1>2, <1>3, <2>1, GraceStays, OwedStays DEF GInv
    <2> QED BY <1>1, <1>2, <1>3, <2>1, <2>2 DEF GInv, UserTypes
  <1>4. CASE End(poller.verb = "runnow") /\ Finish(slot)
    <2>1. IInv' /\ Lasting
      BY <1>4, EndIInv, SchedulerLasts DEF GInv, Next
    <2>2. GraceInv' /\ edits' \subseteq Seqs
      BY <1>2, <1>4, <2>1, FinishKeeps, OwedStays DEF GInv, UserTypes
    <2> QED BY <1>1, <1>2, <2>1, <2>2 DEF GInv, UserTypes
  <1> QED BY <1>3, <1>4 DEF TakeSchedule

LEMMA CallbackKeeps == ASSUME GInv, CallbackEdit PROVE GInv'
  <1>1. IInv' /\ Lasting
    BY SlotStays DEF GInv, CallbackEdit
  <1>2. GraceInv'
    BY <1>1, GraceStays, OwedStays DEF GInv, CallbackEdit
  <1>3. UserTypes'
    BY DEF GInv, UserTypes, CallbackEdit, NoPress
  <1> QED BY <1>1, <1>2, <1>3 DEF GInv

----------------------------------------------------------------------------
LEMMA StepGInv == GInv /\ [GNext]_gvars => GInv'
  <1> SUFFICES ASSUME GInv, [GNext]_gvars PROVE GInv'
    OBVIOUS
  <1>1. CASE GNext
    <2>1. ASSUME NEW c \in Commands, DispatchGrace(c) PROVE GInv'
      BY <2>1, DispatchKeeps
    <2>2. ASSUME NEW c \in Commands, NEW o \in Origins, SetOther(c, o) PROVE GInv'
      BY <2>2, SetOtherKeeps
    <2>3. ASSUME NEW runNow \in BOOLEAN, EndOther(runNow) PROVE GInv'
      BY <2>3, EndOtherKeeps
    <2>4. ASSUME NEW s \in Seqs, EmitNote(s) \/ AnnounceFired(s) \/ OtherSchedulerStep(s) \/ EditDone(s)
          PROVE  GInv'
      BY <2>4, EmitKeeps, FireKeeps, EditKeeps
    <2>5. ASSUME NEW s \in Seqs, NEW verb \in Verbs, Press(s, verb) \/ TakeGraceMessage(s, verb)
          PROVE  GInv'
      BY <2>5, PressKeeps, ClaimKeeps
    <2>6. ASSUME SendNote \/ RememberLookup \/ RememberStore \/ TakeSchedule \/ CallbackEdit
          PROVE  GInv'
      BY <2>6, SendKeeps, LookupKeeps, StoreKeeps, TakeKeeps, CallbackKeeps
    <2> QED BY <1>1, <2>1, <2>2, <2>3, <2>4, <2>5, <2>6 DEF GNext
  <1>2. CASE UNCHANGED gvars
    <2>1. IInv' /\ Lasting
      BY <1>2, SlotStays DEF GInv, gvars
    <2>2. GraceInv'
      BY <1>2, <2>1, GraceStays, OwedStays DEF GInv, gvars, graceVars
    <2> QED BY <1>2, <2>1, <2>2 DEF GInv, UserTypes, gvars, graceVars
  <1> QED BY <1>1, <1>2

(* A message is in one place at a time and stands for a remote schedule,   *)
(* in every behaviour of the grace path.                                   *)
THEOREM GraceInvariance == GSpec => []GInv
  BY InitGInv, StepGInv, PTL DEF GSpec

(* The grace store, the worker, the poller and the keyboards keep their    *)
(* types, and so does the slot under them.                                 *)
THEOREM GraceTypeCorrect == GSpec => []GTypeOK
  <1>1. GInv => GTypeOK
    BY DEF GInv, IInv, GraceInv, GraceTypes, UserTypes, GTypeOK, NoMsg
  <1> QED BY <1>1, GraceInvariance, PTL

(* However hooks, worker and poller interleave, no message is stamped for  *)
(* an outcome a second time: the store hands each out at most once.        *)
THEOREM NeverStampedTwice == GSpec => []StampedOnce
  <1>1. GInv => StampedOnce
    BY DEF GInv, GraceInv, GraceTypes, Places, StampedOnce
  <1> QED BY <1>1, GraceInvariance, PTL

(* What is remembered always announces a remote deferral of the command    *)
(* whose end will stamp it, however late the message was sent.             *)
THEOREM RemembersSameCommand == GSpec => []StoredForSameCommand
  <1>1. GInv => StoredForSameCommand
    <2> SUFFICES ASSUME GInv, store # Nothing PROVE StoredForSameCommand
      BY DEF StoredForSameCommand
    <2>1. store.msg # NoMsg
      BY SeqsNat DEF GInv, GraceInv, GraceTypes, NoMsg, NoTask
    <2> QED BY <2>1 DEF GInv, GraceInv, Remotes, Remote, Alike, StoredForSameCommand
  <1> QED BY <1>1, GraceInvariance, PTL

----------------------------------------------------------------------------
(* The front ends (FrontEnds).                                             *)

(* Every way to ask for a schedule has the slot's own limit: what the API, *)
(* the app or the bot lets through, the slot takes; and every command and  *)
(* delay that a list of the app or of the driver offers goes through       *)
(* (serveSchedule, handleCommand, powerCommand, Scheduler.Schedule).       *)
THEOREM ChoicesAreTaken ==
  /\ \A command \in CommandNames, minutes \in Int :
       /\ AppSchedules(command, minutes) <=> SlotTakes(command, minutes * 60)
       /\ BotSchedules(command, minutes) <=> SlotTakes(command, minutes * 60)
       /\ minutes # 0 => (DriverSchedules(command, minutes) <=> SlotTakes(command, minutes * 60))
  /\ \A command \in ScheduleCommands, minutes \in SchedulePresets : AppSchedules(command, minutes)
  /\ \A command \in PlanCommands, minutes \in DelayKeys :
       Asks(minutes, FALSE) = "schedule" => DriverSchedules(command, minutes)
  <1>1. \A command \in CommandNames, minutes \in Int :
          SlotTakes(command, minutes * 60) <=> minutes >= 1 /\ minutes <= MaxScheduleMinutes
    BY DEF SlotTakes, MaxScheduleMinutes
  <1>2. ScheduleCommands \subseteq CommandNames /\ PlanCommands \subseteq CommandNames
    BY DEF ScheduleCommands, PlanCommands, CommandNames
  <1>3. \A minutes \in SchedulePresets : minutes \in Int /\ minutes >= 1 /\ minutes <= MaxScheduleMinutes
    BY DEF SchedulePresets, MaxScheduleMinutes
  <1>4. \A minutes \in DelayKeys : minutes \in Int /\ (minutes > 0 => minutes \in SchedulePresets)
    BY <1>3 DEF DelayKeys, MinutesNone
  <1>5. \A command \in CommandNames, minutes \in Int :
          /\ AppSchedules(command, minutes) <=> SlotTakes(command, minutes * 60)
          /\ BotSchedules(command, minutes) <=> SlotTakes(command, minutes * 60)
          /\ minutes # 0 => (DriverSchedules(command, minutes) <=> SlotTakes(command, minutes * 60))
    <2> SUFFICES ASSUME NEW command \in CommandNames, NEW minutes \in Int
                 PROVE  /\ AppSchedules(command, minutes) <=> SlotTakes(command, minutes * 60)
                        /\ BotSchedules(command, minutes) <=> SlotTakes(command, minutes * 60)
                        /\ minutes # 0 => (DriverSchedules(command, minutes)
                                             <=> SlotTakes(command, minutes * 60))
      OBVIOUS
    <2>1. MaxScheduleMinutes \in Nat
      BY DEF MaxScheduleMinutes
    <2> DEFINE taken == SlotTakes(command, minutes * 60)
    <2>2. taken <=> minutes >= 1 /\ minutes <= MaxScheduleMinutes
      BY <1>1
    <2> HIDE DEF taken
    <2>3. AppSchedules(command, minutes) <=> minutes >= 1 /\ minutes <= MaxScheduleMinutes /\ taken
      BY DEF AppSchedules, taken
    <2>4. BotSchedules(command, minutes) <=> minutes >= 1 /\ minutes <= MaxScheduleMinutes /\ taken
      BY DEF BotSchedules, taken
    <2>5. DriverSchedules(command, minutes)
            <=> minutes >= 0 /\ minutes <= MaxScheduleMinutes /\ (minutes > 0 => taken)
      BY DEF DriverSchedules, taken
    <2>6. taken <=> AppSchedules(command, minutes)
      BY <2>2, <2>3
    <2>7. taken <=> BotSchedules(command, minutes)
      BY <2>2, <2>4
    <2>8. minutes # 0 => (DriverSchedules(command, minutes) <=> taken)
      BY <2>1, <2>2, <2>5
    <2> QED BY <2>6, <2>7, <2>8 DEF taken
  <1>6. \A command \in ScheduleCommands, minutes \in SchedulePresets : AppSchedules(command, minutes)
    BY <1>1, <1>2, <1>3, <1>5
  <1>7. \A command \in PlanCommands, minutes \in DelayKeys :
          Asks(minutes, FALSE) = "schedule" => DriverSchedules(command, minutes)
    <2> SUFFICES ASSUME NEW command \in PlanCommands, NEW minutes \in DelayKeys,
                        Asks(minutes, FALSE) = "schedule"
                 PROVE  DriverSchedules(command, minutes)
      OBVIOUS
    <2>1. minutes \in Int /\ minutes > 0
      BY <1>4 DEF Asks
    <2>2. minutes \in SchedulePresets
      BY <1>4, <2>1
    <2> QED BY <1>1, <1>2, <1>3, <1>5, <2>1, <2>2
  <1> QED BY <1>5, <1>6, <1>7

(* A label never says more than the delay it stands for, and less only     *)
(* from a day on and by less than an hour; no two of the app's choices     *)
(* read alike, so the one picked is the one scheduled (formatMinutes,      *)
(* buildScheduleTab).                                                      *)
THEOREM LabelIsDelay ==
  /\ \A minutes \in Nat :
       LET said == Label(minutes).days * 1440 + Label(minutes).hours * 60 + Label(minutes).minutes
       IN /\ said <= minutes /\ minutes < said + 60
          /\ minutes < 1440 \/ minutes % 60 = 0 => said = minutes
  /\ \A minutes \in SchedulePresets : Chosen(Label(minutes)) = minutes
  <1>1. ASSUME NEW minutes \in Nat
        PROVE  LET said == Label(minutes).days * 1440 + Label(minutes).hours * 60 + Label(minutes).minutes
               IN /\ said <= minutes /\ minutes < said + 60
                  /\ minutes < 1440 \/ minutes % 60 = 0 => said = minutes
    <2>1. CASE minutes < 1440
      BY <2>1 DEF Label
    <2>2. CASE minutes >= 1440
      BY <2>2 DEF Label
    <2> QED BY <2>1, <2>2
  <1>2. \A m, n \in SchedulePresets : Label(m) = Label(n) => m = n
    <2> SUFFICES ASSUME NEW m \in SchedulePresets, NEW n \in SchedulePresets, Label(m) = Label(n)
                 PROVE  m = n
      OBVIOUS
    <2>1. m \in Nat /\ n \in Nat /\ (m < 1440 \/ m % 60 = 0) /\ (n < 1440 \/ n % 60 = 0)
      BY DEF SchedulePresets
    <2> QED BY <1>1, <2>1
  <1>3. ASSUME NEW minutes \in SchedulePresets PROVE Chosen(Label(minutes)) = minutes
    <2>1. {m \in SchedulePresets : Label(m) = Label(minutes)} = {minutes}
      BY <1>2
    <2>2. minutes \in Nat
      BY DEF SchedulePresets
    <2>3. \A m : m \in {minutes} /\ (\A n \in {minutes} : n <= m) <=> m = minutes
      BY <2>2
    <2> QED BY <2>1, <2>3 DEF Chosen
  <1> QED BY <1>1, <1>3

(* The countdown says the remaining time to the second, each part within   *)
(* its unit (formatCountdown).                                             *)
THEOREM CountdownIsExact ==
  \A left \in Nat :
    LET shown == Countdown(left)
    IN /\ shown.hours \in 0..23 /\ shown.minutes \in 0..59 /\ shown.seconds \in 0..59
       /\ shown.days * 86400 + shown.hours * 3600 + shown.minutes * 60 + shown.seconds = left
  BY DEF Countdown

Keyboards == {MenuKeyboard, {}} \cup {ConfirmKeyboard(command) : command \in GraceCommands}

(* A power command never starts at the bot by one word or one press: on    *)
(* any keyboard that replies and presses can bring up, only the Confirm    *)
(* button of a prompt starts one, and it is the command the prompt asks    *)
(* about.  The bot never forces a shutdown (handleCommand, handleCallback, *)
(* EditKeyboard, commandName).                                             *)
THEOREM PowerIsAskedFirst ==
  /\ Replies \subseteq Keyboards
  /\ \A K \in Keyboards : \A b \in K :
       /\ KeyboardAfter(b) \in Keyboards
       /\ ButtonRuns(b) \in GraceCommands => K = ConfirmKeyboard(ButtonRuns(b))
  /\ \A word \in DOMAIN Aliases : WordRuns(word) \notin GraceCommands
  /\ \A arg \in CommandNames \cup DOMAIN Aliases : CommandOf(arg) \notin {"forceshutdown", "ping"}
  <1>1. \A word \in PowerWords : Aliases[word] \in GraceCommands
    BY DEF PowerWords, Aliases, GraceCommands
  <1>2. Replies \subseteq Keyboards
    <2> SUFFICES ASSUME NEW word \in SafeWords \cup PowerWords \cup {"menu"}, NEW n \in {0, 1}
                 PROVE  WordKeyboard(word, n) \in Keyboards
      BY DEF Replies
    <2> QED BY <1>1 DEF WordKeyboard, Keyboards
  <1>3. \A command \in GraceCommands : CommandOf(command) = command
    BY DEF GraceCommands, CommandOf, Alias, Aliases
  <1>4. ASSUME NEW K \in Keyboards, NEW b \in K PROVE KeyboardAfter(b) \in Keyboards
    BY DEF KeyboardAfter, Keyboards
  <1>5. ASSUME NEW b \in MenuKeyboard PROVE ButtonRuns(b) \notin GraceCommands
    BY DEF MenuKeyboard, Button, ButtonRuns, CommandOf, SafeCommands, GraceCommands
  <1>6. ASSUME NEW command \in GraceCommands, NEW b \in ConfirmKeyboard(command),
               ButtonRuns(b) \in GraceCommands
        PROVE  ButtonRuns(b) = command
    <2>1. b = Button("exec", command) \/ b = Button("dismiss", "")
      BY DEF ConfirmKeyboard
    <2>2. CASE b = Button("exec", command)
      BY <1>3, <2>2 DEF Button, ButtonRuns
    <2>3. CASE b = Button("dismiss", "")
      BY <1>6, <2>3 DEF Button, ButtonRuns, GraceCommands
    <2> QED BY <2>1, <2>2, <2>3
  <1>7. ASSUME NEW K \in Keyboards, NEW b \in K, ButtonRuns(b) \in GraceCommands
        PROVE  K = ConfirmKeyboard(ButtonRuns(b))
    <2>1. K = MenuKeyboard \/ K = {} \/ \E command \in GraceCommands : K = ConfirmKeyboard(command)
      BY DEF Keyboards
    <2>2. PICK command \in GraceCommands : K = ConfirmKeyboard(command)
      BY <1>5, <1>7, <2>1
    <2> QED BY <1>6, <1>7, <2>2
  <1>8. \A word \in DOMAIN Aliases : WordRuns(word) \notin GraceCommands
    BY DEF WordRuns, SafeWords, Aliases, GraceCommands
  <1>9. \A arg \in CommandNames \cup DOMAIN Aliases : CommandOf(arg) \notin {"forceshutdown", "ping"}
    BY DEF CommandOf, SafeCommands, GraceCommands
  <1> QED BY <1>2, <1>4, <1>7, <1>8, <1>9

(* The toast's Run now reads, ends and runs in three requests: while the   *)
(* schedule it read is still there it does what the bot's does in one;     *)
(* when it saw none it ends and runs nothing; and only a schedule that     *)
(* ended or was replaced in between can make it run one command and end    *)
(* another (runToastAction).                                               *)
THEOREM ToastRunsWhatItSaw ==
  \A seen, held \in Slots(Nat) :
    LET did == ToastPressed("runnow", seen, held)
    IN /\ seen.active /\ held = seen => did = TakenForRun(held)
       /\ did.runs = "none" => did.ends = NoSlot
       /\ did.runs # did.ends.command => seen.active /\ held # seen
  <1> SUFFICES ASSUME NEW seen \in Slots(Nat), NEW held \in Slots(Nat)
               PROVE  LET did == ToastPressed("runnow", seen, held)
                      IN /\ seen.active /\ held = seen => did = TakenForRun(held)
                         /\ did.runs = "none" => did.ends = NoSlot
                         /\ did.runs # did.ends.command => seen.active /\ held # seen
    OBVIOUS
  <1>1. ASSUME NEW any \in Slots(Nat)
        PROVE  \/ any.active = TRUE /\ any.command \in CommandNames
               \/ any = NoSlot /\ any.active = FALSE /\ any.command = "none"
    <2>1. CASE any = NoSlot
      BY <2>1 DEF NoSlot
    <2>2. CASE any # NoSlot
      BY <2>2 DEF Slots
    <2> QED BY <2>1, <2>2
  <1>2. "none" \notin CommandNames
    BY DEF CommandNames
  <1>3. CASE seen.active = TRUE /\ seen.command \in CommandNames
    <2>1. ToastPressed("runnow", seen, held) = [ends |-> held, runs |-> seen.command]
      BY <1>3 DEF ToastPressed
    <2> QED BY <1>2, <1>3, <2>1 DEF TakenForRun
  <1>4. CASE seen.active = FALSE
    <2>1. ToastPressed("runnow", seen, held) = [ends |-> NoSlot, runs |-> "none"]
      BY <1>4 DEF ToastPressed
    <2>2. NoSlot.command = "none"
      BY DEF NoSlot
    <2> QED BY <1>4, <2>1, <2>2
  <1> QED BY <1>1, <1>3, <1>4
============================================================================
