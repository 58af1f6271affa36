------------------------------- MODULE HubEmit -------------------------------
(***************************************************************************)
(* The driver's emit funnel, edge/src/device/emit.lua, as operators on     *)
(* what it keeps of one device.  Records are a function from their rows to *)
(* values.  An operator that sends returns what is kept then and what goes *)
(* out: records, and the rows whose event is forced.                       *)
(***************************************************************************)
EXTENDS Naturals, FiniteSets

CONSTANTS
  Rows,          \* the rows of the device
  First,         \* PAINT_FIRST
  Matters,       \* RESYNC_ROWS
  Place,         \* the place of each row among the sorted row keys
  PaintBatch     \* PAINT_BATCH

Only(recs, R) == [r \in DOMAIN recs \cap R |-> recs[r]]
Row(r, value) == [q \in {r} |-> value]
Over(recs, old) ==
  [r \in DOMAIN recs \cup DOMAIN old |-> IF r \in DOMAIN recs THEN recs[r] ELSE old[r]]
NoRows == [r \in {} |-> r]
NoEvents == [value |-> NoRows, hard |-> {}]
Both(a, b) == [value |-> Over(b.value, a.value), hard |-> a.hard \cup b.hard]

(* ROWS_SENT, ROWS_FORCED, ROWS_SEED_OFF; PAINT_QUEUE: the rows waiting,   *)
(* whether there is a queue, and its first batch has gone; ROTATE_CURSOR   *)
(* and whether ROTATE_AT is set.                                           *)
Fresh ==
  [sent |-> NoRows, first |-> {}, seedOff |-> FALSE, waiting |-> NoRows,
   painting |-> FALSE, started |-> FALSE, cursor |-> 0, clock |-> FALSE]

(* seeding: in a run without a repaint the hub's cache counts as sent. *)
Seeded(em, cache, recs, forced) ==
  IF em.seedOff THEN NoRows
  ELSE [r \in {q \in DOMAIN recs \ (forced \cup Matters \cup DOMAIN em.sent) :
                cache[q] = recs[q]} |-> recs[r]]

(* Mutant: a row sent at once stays in the queue. *)
EmitKeepsWaiting(em, cache, recs, forced) ==
  LET last == Over(em.sent, Seeded(em, cache, recs, forced))
      held == IF em.painting THEN DOMAIN recs \ (forced \cup DOMAIN last) ELSE {}
      going == {r \in DOMAIN recs \ held :
                  r \in forced \/ r \notin DOMAIN last \/ last[r] # recs[r]}
  IN [em |-> [em EXCEPT !.sent = Over(Only(recs, going), last), !.first = @ \cup (going \ forced),
                        !.waiting = Over(Only(recs, held), @)],
      out |-> [value |-> Only(recs, going), hard |-> going \ (em.first \ forced)]]

(* emit.rows: a row never sent, while the rows are painted, only changes   *)
(* what its batch will carry; a forced one goes and waits no more; one     *)
(* that did not change stays.                                              *)
EmitRows(em, cache, recs, forced) ==
  LET last == Over(em.sent, Seeded(em, cache, recs, forced))
      held == IF em.painting THEN DOMAIN recs \ (forced \cup DOMAIN last) ELSE {}
      going == {r \in DOMAIN recs \ held :
                  r \in forced \/ r \notin DOMAIN last \/ last[r] # recs[r]}
  IN [em |-> [em EXCEPT !.sent = Over(Only(recs, going), last), !.first = @ \cup (going \ forced),
                        !.waiting = Over(Only(recs, held), Only(@, Rows \ going))],
      out |-> [value |-> Only(recs, going), hard |-> going \ (em.first \ forced)]]

(* forget: before a repaint. *)
Forget(em) == [em EXCEPT !.sent = NoRows, !.first = {}, !.seedOff = TRUE]

(* paint: every row queued; the first batch follows later. *)
Paint(em, recs) ==
  [em EXCEPT !.waiting = Over(recs, @), !.painting = TRUE,
             !.started = em.painting /\ em.started]

(* take: as many as a batch holds, the ones seen first before the others.  *)
(* The order among these is left open.                                     *)
Batches(em) ==
  LET waits == DOMAIN em.waiting
  IN {B \in SUBSET waits :
       /\ Cardinality(B) = IF Cardinality(waits) < PaintBatch THEN Cardinality(waits) ELSE PaintBatch
       /\ B \subseteq First \/ waits \cap First \subseteq B}

(* paint_next sends the batch B. *)
PaintNext(em, cache, B) ==
  LET rest == Only(em.waiting, Rows \ B)
  IN EmitRows([em EXCEPT !.waiting = rest, !.painting = DOMAIN rest # {}, !.started = TRUE],
          cache, Only(em.waiting, B), B)

(* resync. *)
Resync(em, cache) == EmitRows(em, cache, Only(em.sent, Matters), Matters \cap DOMAIN em.sent)

(* Mutant: the rotation starts again from the first row every time. *)
RotatedNoCursor(em, justSent) ==
  LET rows == DOMAIN em.sent \ justSent
  IN {r \in rows : \A q \in rows : Place[r] <= Place[q]}

(* rotate: the next row after the cursor, round and round, passing over    *)
(* those this very poll sent; rotate_size is 1 for so few rows.            *)
Rotated(em, justSent) ==
  LET rows == DOMAIN em.sent \ justSent
      after == {r \in rows : Place[r] > em.cursor}
      among == IF after # {} THEN after ELSE rows
  IN {r \in among : \A q \in among : Place[r] <= Place[q]}

(* Mutant: the rotation only sends what changed. *)
RotateUnforced(em, cache, justSent, over) ==
  IF ~em.clock \/ ~over \/ Rotated(em, justSent) = {}
  THEN [em |-> [em EXCEPT !.clock = TRUE], out |-> NoEvents]
  ELSE LET R == Rotated(em, justSent)
       IN EmitRows([em EXCEPT !.cursor = Place[CHOOSE r \in R : TRUE]],
               cache, Only(em.sent, R), {})

(* rotate_due: the first call of a run only starts the clock; later ones   *)
(* take a step when the interval is over.                                  *)
RotateDue(em, cache, justSent, over) ==
  IF ~em.clock \/ ~over \/ Rotated(em, justSent) = {}
  THEN [em |-> [em EXCEPT !.clock = TRUE], out |-> NoEvents]
  ELSE LET R == Rotated(em, justSent)
       IN EmitRows([em EXCEPT !.cursor = Place[CHOOSE r \in R : TRUE]],
               cache, Only(em.sent, R), R)

RecordsOf(Values) == UNION {[R -> Values] : R \in SUBSET Rows}
EmitType(em, Values) ==
  /\ em.sent \in RecordsOf(Values) /\ em.waiting \in RecordsOf(Values)
  /\ em.first \subseteq Rows /\ em.cursor \in 0..Cardinality(Rows)
  /\ (~em.painting => em.waiting = NoRows)
=============================================================================
