----------------------------- MODULE MCSettings -----------------------------
(* Settings, and the rules of the lists it moves about over small inputs:  *)
(* the declarative definitions of WatchList and Presets against the loops  *)
(* of the code, and the argument line read back.                           *)
EXTENDS Settings, Sequences

W == INSTANCE WatchList
P == INSTANCE Presets WITH MaxArgs <- 2, MaxArgRunes <- 3

SeqsUpTo(S, n) == UNION {[1..m -> S] : m \in 0..n}

(* The line of an argument list is read back as that list, unless an       *)
(* argument holds quotes of both kinds: never then.                        *)
ArgTexts == SeqsUpTo({"a", " ", "dq", "sq"}, 3)
ASSUME ArgLineReadsBack ==
  \A args \in SeqsUpTo(ArgTexts, 2) : P!ReadsBack(args) <=> ~P!Mixed(args)

----------------------------------------------------------------------------
Process(key, flaws) == [key |-> key, as |-> 1, spaced |-> FALSE, gap |-> FALSE, flaws |-> flaws]
Label(text) == [text |-> text, spaced |-> FALSE, flaws |-> {}]
Entries ==
  [slot : {0, 1, 2, 5, 9}, process : {Process("a.exe", {}), Process("b.exe", {}), Process("c.exe", {})},
   label : {Label(<<>>)}]
  \cup {[slot |-> 1, process |-> Process("d", {"noexe"}), label |-> Label(<<"x">>)]}

(* sanitizeActivity as it runs: one pass that keeps, one that marks, one   *)
(* that hands out slots.                                                   *)
RECURSIVE KeepLoop(_, _, _)
KeepLoop(watch, i, kept) ==
  IF i > Len(watch) THEN kept
  ELSE LET w == W!Normalized(watch[i])
       IN KeepLoop(watch, i + 1,
            IF W!Sound(w) /\ \A k \in DOMAIN kept : kept[k].process.key # w.process.key
            THEN Append(kept, w) ELSE kept)

RECURSIVE MarkLoop(_, _, _)
MarkLoop(kept, i, mark) ==
  IF i > Len(kept) THEN mark
  ELSE LET s == kept[i].slot
       IN MarkLoop(kept, i + 1,
            IF s \notin W!WatchSlots \/ s \in mark.used THEN [mark EXCEPT !.needs = @ \cup {i}]
            ELSE [mark EXCEPT !.used = @ \cup {s}])

RECURSIVE GiveLoop(_, _, _, _)
GiveLoop(kept, i, mark, out) ==
  IF i > Len(kept) THEN out
  ELSE IF i \notin mark.needs THEN GiveLoop(kept, i + 1, mark, out \cup {kept[i]})
  ELSE LET free == W!WatchSlots \ mark.used
       IN IF free = {} THEN GiveLoop(kept, i + 1, mark, out)
          ELSE LET s == CHOOSE t \in free : \A u \in free : t <= u
               IN GiveLoop(kept, i + 1, [mark EXCEPT !.used = @ \cup {s}],
                           out \cup {[kept[i] EXCEPT !.slot = s]})

SanitizeLoop(watch) ==
  LET kept == KeepLoop(watch, 1, << >>)
      mark == MarkLoop(kept, 1, [used |-> {}, needs |-> {}])
  IN [out |-> GiveLoop(kept, 1, mark, {}), migrated |-> mark.needs # {}]

RangeOf(f) == {f[i] : i \in DOMAIN f}
ASSUME SanitizedAsLooped ==
  \A watch \in SeqsUpTo(Entries, 3) :
    /\ RangeOf(W!Sanitized(watch)) = SanitizeLoop(watch).out
    /\ W!Migrated(watch) = SanitizeLoop(watch).migrated

(* Six entries without a slot for five slots: the last one is dropped.     *)
SixPrograms == [i \in 1..6 |-> [slot |-> IF i = 2 THEN 4 ELSE 0, process |-> Process(<<i>>, {}), label |-> Label(<<>>)]]
ASSUME MoreThanSlots ==
  /\ RangeOf(W!Sanitized(SixPrograms)) = SanitizeLoop(SixPrograms).out
  /\ Cardinality(RangeOf(W!Sanitized(SixPrograms))) = 5

----------------------------------------------------------------------------
Name(key) == [key |-> key, as |-> 1, spaced |-> FALSE, long |-> FALSE, control |-> FALSE]
Path(kind, ext) ==
  [kind |-> kind, scheme |-> "app", ext |-> ext, key |-> "p", as |-> 1, spaced |-> FALSE,
   long |-> FALSE, control |-> FALSE, unsafe |-> FALSE]
PresetSamples ==
  [slot : {1, 2}, name : {Name("n"), Name("m")}, type : {"program"}, path : {Path("drive", "exe"), Path("web", "")},
   args : {<< >>}]

(* DropInvalidPresets as it runs; no other set of entries answers KeptBy.  *)
RECURSIVE DropLoop(_, _, _)
DropLoop(ps, i, kept) ==
  IF i > Len(ps) THEN kept
  ELSE DropLoop(ps, i + 1,
         IF P!ValidPreset(ps[i]) /\ \A k \in kept : P!Apart(ps[k], ps[i]) THEN kept \cup {i} ELSE kept)
ASSUME DroppedAsLooped ==
  \A ps \in SeqsUpTo(PresetSamples, 3) : \A K \in SUBSET DOMAIN ps :
    P!KeptBy(ps, K) <=> K = DropLoop(ps, 1, {})

(* Every combination of type, path and argument: what saves can start, and *)
(* shows no problem in the editor it is read back into.                    *)
Arguments == {<< >>, << <<"a">> >>, << <<"a", "dq">> >>, << <<" ">>, << >> >>, << <<"ctl">> >>, << <<"a">>, <<"a">>, <<"a">> >>}
Saved ==
  {[slot |-> 1, name |-> Name("n"), type |-> t, path |-> Path(k, e), args |-> a] :
     t \in P!Types \cup {"other"}, k \in P!Kinds, e \in P!ProgramExts \cup P!ScriptExts \cup {""}, a \in Arguments}
ASSUME SavedRuns ==
  \A p \in Saved : P!ValidPreset(p) =>
    /\ P!CanStart(p)
    /\ P!RowProblem(P!RowFromPreset(p)) = "" /\ P!PresetOf(P!RowFromPreset(p)) = p
=============================================================================
