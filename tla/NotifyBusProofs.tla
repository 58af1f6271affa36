-------------------------- MODULE NotifyBusProofs --------------------------
(***************************************************************************)
(* What holds of the notification bus for any set of sources, any queue,   *)
(* threshold, backlog and number of events, however emitters, mutes, Close *)
(* and the clock interleave with the worker: nothing accepted is lost or   *)
(* counted twice (NothingVanishes), an undisturbed Close delivers all of   *)
(* it (NoLossOnClose), and no event overtakes an older one                 *)
(* (DirectInOrder).                                                        *)
(*                                                                         *)
(* The first two are about sums over a queue and over the open windows, so *)
(* the proof begins with finite sums: that a sum may be taken in any order *)
(* and by classes.  Its inductions are over finite sets by inclusion and   *)
(* over the naturals by <, in the form "a set of counterexamples has a     *)
(* minimal one".  mergeEvents is a regrouping of the backlog by key, and   *)
(* keeps its sum for that reason, whatever the backlog.                    *)
(***************************************************************************)
EXTENDS NotifyBus, FiniteSetTheorems, SequenceTheorems, WellFoundedInduction, TLAPS

----------------------------------------------------------------------------
(* Minimal counterexamples, and finite sums as the library defines them.   *)

(* Induction over a finite set: among sets to which something fails there is *)
(* one to whose smaller sets it does not.                                    *)
LEMMA LeastBad ==
  ASSUME NEW S, IsFiniteSet(S), NEW B, B \subseteq SUBSET S, B # {}
  PROVE  \E T \in B : \A x \in T : T \ {x} \notin B
<1>1. B \subseteq FiniteSubsetsOf(S)
  BY FS_Subset DEF FiniteSubsetsOf
<1>2. PICK T \in B : \A U \in B : ~(<<U, T>> \in StrictSubsetOrdering(S))
  BY <1>1, WFMin, FS_StrictSubsetOrderingWellFounded
<1>3. ASSUME NEW x \in T, T \ {x} \in B PROVE FALSE
  <2>1. <<T \ {x}, T>> \in StrictSubsetOrdering(S)
    BY <1>1, <1>2, <1>3 DEF StrictSubsetOrdering, FiniteSubsetsOf
  <2> QED BY <1>2, <1>3, <2>1
<1> QED BY <1>2, <1>3

(* Induction over the naturals, with a set for the predicate. *)
LEMMA NatInd ==
  ASSUME NEW C, 0 \in C, \A n \in Nat : n \in C => n + 1 \in C
  PROVE  \A n \in Nat : n \in C
<1> DEFINE B == {n \in Nat : n \notin C}
<1>1. SUFFICES ASSUME B # {} PROVE FALSE
  OBVIOUS
<1>2. PICK m \in B : \A n \in B : ~(<<n, m>> \in OpToRel(<, Nat))
  <2>1. B \subseteq Nat
    OBVIOUS
  <2> HIDE DEF B
  <2> QED BY <1>1, <2>1, WFMin, NatLessThanWellFounded
<1>3. m \in Nat /\ m # 0
  OBVIOUS
<1>4. m - 1 \in Nat /\ m - 1 < m /\ (m - 1) + 1 = m
  BY <1>3
<1>5. m - 1 \notin B
  <2>1. <<m - 1, m>> \in Nat \X Nat /\ <<m - 1, m>>[1] < <<m - 1, m>>[2]
    BY <1>3, <1>4
  <2>2. <<m - 1, m>> \in OpToRel(<, Nat)
    BY <2>1 DEF OpToRel
  <2> QED BY <1>2, <2>2
<1> QED BY <1>2, <1>3, <1>4, <1>5

(* Every set of naturals has a least element, every bounded one a greatest. *)
LEMMA LeastNat ==
  ASSUME NEW T, T \subseteq Nat, T # {} PROVE \E m \in T : \A n \in T : m <= n
<1>1. PICK m \in T : \A n \in T : ~(<<n, m>> \in OpToRel(<, Nat))
  BY WFMin, NatLessThanWellFounded
<1>2. ASSUME NEW n \in T, n < m PROVE FALSE
  <2>1. <<n, m>> \in Nat \X Nat /\ <<n, m>>[1] < <<n, m>>[2]
    BY <1>2
  <2>2. <<n, m>> \in OpToRel(<, Nat)
    BY <2>1 DEF OpToRel
  <2> QED BY <1>1, <2>2
<1>3. \A n \in T : m <= n
  BY <1>2
<1> QED BY <1>3

LEMMA LargestUpTo ==
  ASSUME NEW l \in Nat, NEW T, T \subseteq 1..l, T # {} PROVE \E m \in T : \A n \in T : n <= m
<1>0. \A n \in T : n \in Nat /\ n <= l /\ l - n \in Nat
  <2>1. \A n \in 1..l : n \in Nat /\ n <= l /\ l - n \in Nat
    OBVIOUS
  <2> QED BY <2>1
<1> DEFINE U == {l - n : n \in T}
<1>1. PICK u \in U : \A v \in U : u <= v
  <2>1. U \subseteq Nat /\ U # {}
    BY <1>0
  <2> HIDE DEF U
  <2> QED BY <2>1, LeastNat
<1>2. PICK m \in T : u = l - m
  OBVIOUS
<1>3. \A n \in T : l - m <= l - n
  BY <1>1, <1>2
<1>4. \A n \in T : n \in Int /\ m \in Int
  BY <1>0
<1>5. \A n \in T : n <= m
  BY <1>3, <1>4
<1> QED BY <1>5

Some(T) == CHOOSE x \in T : TRUE
Fold(w, S) == CHOOSE g : g = [s \in SUBSET S |-> IF s = {} THEN 0 ELSE w[Some(s)] + g[s \ {Some(s)}]]

(* The sum of the community module is a fold, whose recursion equation holds. *)
LEMMA SumIs == ASSUME NEW w, NEW S PROVE SumFunctionOnSet(w, S) = Fold(w, S)[S]
BY DEF SumFunctionOnSet, FoldFunctionOnSet, MapThenFoldSet, Fold, Some

Folded(w, S) ==
  \A T \in SUBSET S :
    Fold(w, S)[T] = IF T = {} THEN 0 ELSE w[Some(T)] + Fold(w, S)[T \ {Some(T)}]

LEMMA FoldStep ==
  ASSUME NEW w, NEW S, IsFiniteSet(S)
  PROVE  Folded(w, S)
<1> DEFINE Small(n) == {T \in SUBSET S : Cardinality(T) <= n}
           Folds(g, D) == g = [T \in D |-> IF T = {} THEN 0 ELSE w[Some(T)] + g[T \ {Some(T)}]]
           C == {n \in Nat : \E g : Folds(g, Small(n))}
<1>0. \A T \in SUBSET S : IsFiniteSet(T) /\ Cardinality(T) \in Nat /\ (Cardinality(T) = 0 <=> T = {})
  BY FS_Subset, FS_CardinalityType, FS_EmptySet
<1>1. \A T \in SUBSET S : T # {} =>
         Some(T) \in T /\ T \ {Some(T)} \in SUBSET S /\ Cardinality(T \ {Some(T)}) = Cardinality(T) - 1
  <2>1. \A T \in SUBSET S : T # {} => Some(T) \in T
    BY DEF Some
  <2> QED BY <2>1, <1>0, FS_RemoveElement
<1>2. 0 \in C
  <2>1. Small(0) = {{}}
    BY <1>0
  <2> DEFINE g == [T \in {{}} |-> 0]
  <2>2. Folds(g, Small(0))
    BY <2>1
  <2> HIDE DEF g, Folds, Small
  <2> QED BY <2>2
<1>3. ASSUME NEW n \in Nat, n \in C PROVE n + 1 \in C
  <2>1. PICK g : Folds(g, Small(n))
    BY <1>3
  <2> DEFINE h == [T \in Small(n + 1) |->
                     IF T \in Small(n) THEN g[T] ELSE w[Some(T)] + g[T \ {Some(T)}]]
  <2>2. \A T \in Small(n + 1) : T # {} => T \ {Some(T)} \in Small(n)
    <3> SUFFICES ASSUME NEW T \in Small(n + 1), T # {} PROVE T \ {Some(T)} \in Small(n)
      OBVIOUS
    <3>1. Cardinality(T \ {Some(T)}) = Cardinality(T) - 1 /\ T \ {Some(T)} \in SUBSET S /\ Cardinality(T) \in Nat
      BY <1>0, <1>1
    <3> QED BY <3>1
  <2>3. {} \in Small(n) /\ Small(n) \subseteq Small(n + 1)
    <3>1. \A T \in Small(n) : Cardinality(T) \in Nat
      BY <1>0
    <3> QED BY <1>0, <3>1
  <2>4. \A T \in Small(n) : g[T] = IF T = {} THEN 0 ELSE w[Some(T)] + g[T \ {Some(T)}]
    BY <2>1
  <2>5. \A T \in Small(n + 1) : h[T] = IF T = {} THEN 0 ELSE w[Some(T)] + h[T \ {Some(T)}]
    <3> SUFFICES ASSUME NEW T \in Small(n + 1)
                 PROVE  h[T] = IF T = {} THEN 0 ELSE w[Some(T)] + h[T \ {Some(T)}]
      OBVIOUS
    <3>1. CASE T = {}
      <4> HIDE DEF Small
      <4> QED BY <3>1, <2>3, <2>4
    <3>2. CASE T # {}
      <4>1. h[T \ {Some(T)}] = g[T \ {Some(T)}]
        <5> HIDE DEF Small
        <5> QED BY <2>2, <2>3, <3>2
      <4>2. h[T] = w[Some(T)] + g[T \ {Some(T)}]
        <5> HIDE DEF Small
        <5> QED BY <2>4, <3>2
      <4> QED BY <3>2, <4>1, <4>2
    <3> QED BY <3>1, <3>2
  <2>6. h = [T \in Small(n + 1) |-> h[T]]
    OBVIOUS
  <2>7. Folds(h, Small(n + 1))
    <3> HIDE DEF h, Small
    <3> QED BY <2>5, <2>6
  <2> HIDE DEF Folds, Small, h
  <2> QED BY <2>7
<1>4. Cardinality(S) \in C
  <2> HIDE DEF C
  <2>1. Cardinality(S) \in Nat
    BY FS_CardinalityType
  <2> QED BY <1>2, <1>3, <2>1, NatInd
<1>5. Small(Cardinality(S)) = SUBSET S
  BY FS_Subset
<1>6. \E g : Folds(g, SUBSET S)
  BY <1>4, <1>5
<1>7. Folds(Fold(w, S), SUBSET S)
  BY <1>6 DEF Fold
<1> HIDE DEF C, Small
<1> QED BY <1>7 DEF Folded

(* A fold over a set looks at that set only. *)
LEMMA FoldLocal ==
  ASSUME NEW w, NEW v, NEW S, IsFiniteSet(S), NEW U \in SUBSET S, \A x \in U : w[x] = v[x]
  PROVE  Fold(w, S)[U] = Fold(v, U)[U]
<1> DEFINE B == {T \in SUBSET U : Fold(w, S)[T] # Fold(v, U)[T]}
<1>1. SUFFICES ASSUME B # {} PROVE FALSE
  OBVIOUS
<1>2. IsFiniteSet(U) /\ B \subseteq SUBSET U
  BY FS_Subset
<1>3. PICK T \in B : \A x \in T : T \ {x} \notin B
  <2> HIDE DEF B
  <2> QED BY <1>1, <1>2, LeastBad
<1>4. T \in SUBSET U /\ T \in SUBSET S
  BY <1>3
<1>5. Fold(w, S)[T] = IF T = {} THEN 0 ELSE w[Some(T)] + Fold(w, S)[T \ {Some(T)}]
  <2>1. Folded(w, S)
    BY FoldStep
  <2> HIDE DEF B
  <2> QED BY <2>1, <1>4 DEF Folded
<1>6. Fold(v, U)[T] = IF T = {} THEN 0 ELSE v[Some(T)] + Fold(v, U)[T \ {Some(T)}]
  <2>1. Folded(v, U)
    BY <1>2, FoldStep
  <2> HIDE DEF B
  <2> QED BY <2>1, <1>4 DEF Folded
<1>7. T # {} => Some(T) \in T
  BY DEF Some
<1>8. T # {} => Fold(w, S)[T \ {Some(T)}] = Fold(v, U)[T \ {Some(T)}]
  <2>1. T # {} => T \ {Some(T)} \in SUBSET U
    BY <1>4
  <2> QED BY <1>3, <1>7, <2>1
<1>9. T # {} => w[Some(T)] = v[Some(T)]
  BY <1>4, <1>7
<1>10. Fold(w, S)[T] # Fold(v, U)[T]
  BY <1>3
<1> QED BY <1>5, <1>6, <1>8, <1>9, <1>10

Total(w, S) == SumFunctionOnSet(w, S)

Counted(w, S) == IsFiniteSet(S) /\ \A x \in S : w[x] \in Nat

(* Sums of naturals: empty, by one element, of equal numbers. *)
LEMMA SumSame ==
  ASSUME NEW w, NEW v, NEW S, IsFiniteSet(S), \A x \in S : w[x] = v[x]
  PROVE  Total(w, S) = Total(v, S)
<1>1. S \in SUBSET S
  OBVIOUS
<1>2. Fold(w, S)[S] = Fold(v, S)[S]
  BY <1>1, FoldLocal
<1> QED BY <1>2, SumIs DEF Total

LEMMA SumEmpty == ASSUME NEW w PROVE Total(w, {}) = 0
<1>1. Fold(w, {})[{}] = 0
  <2>1. {} \in SUBSET {}
    OBVIOUS
  <2>2. Folded(w, {})
    BY FoldStep, FS_EmptySet
  <2> QED BY <2>1, <2>2 DEF Folded
<1> QED BY <1>1, SumIs DEF Total

LEMMA SumSome ==
  ASSUME NEW w, NEW S, IsFiniteSet(S), S # {}
  PROVE  Some(S) \in S /\ Total(w, S) = w[Some(S)] + Total(w, S \ {Some(S)})
<1>1. Some(S) \in S
  BY DEF Some
<1>2. Fold(w, S)[S] = w[Some(S)] + Fold(w, S)[S \ {Some(S)}]
  <2>1. S \in SUBSET S
    OBVIOUS
  <2>2. Folded(w, S)
    BY FoldStep
  <2> QED BY <2>1, <2>2 DEF Folded
<1>3. Fold(w, S)[S \ {Some(S)}] = Fold(w, S \ {Some(S)})[S \ {Some(S)}]
  <2>1. S \ {Some(S)} \in SUBSET S
    OBVIOUS
  <2> QED BY <2>1, FoldLocal
<1> QED BY <1>1, <1>2, <1>3, SumIs DEF Total

LEMMA SumNat ==
  ASSUME NEW w, NEW S, IsFiniteSet(S), \A x \in S : w[x] \in Nat
  PROVE  Total(w, S) \in Nat
<1> DEFINE B == {T \in SUBSET S : Total(w, T) \notin Nat}
<1>1. SUFFICES ASSUME B # {} PROVE FALSE
  OBVIOUS
<1>2. PICK T \in B : \A x \in T : T \ {x} \notin B
  <2>1. B \subseteq SUBSET S
    OBVIOUS
  <2> HIDE DEF B
  <2> QED BY <1>1, <2>1, LeastBad
<1>3. T \in SUBSET S /\ IsFiniteSet(T) /\ Total(w, T) \notin Nat
  BY <1>2, FS_Subset
<1>4. T # {}
  BY <1>3, SumEmpty
<1>5. Some(T) \in T /\ Total(w, T) = w[Some(T)] + Total(w, T \ {Some(T)})
  BY <1>3, <1>4, SumSome
<1>6. Total(w, T \ {Some(T)}) \in Nat
  <2>1. T \ {Some(T)} \in SUBSET S
    BY <1>3
  <2> QED BY <1>2, <1>5, <2>1
<1>7. w[Some(T)] \in Nat
  BY <1>3, <1>5
<1> QED BY <1>3, <1>5, <1>6, <1>7

LEMMA SumPick ==
  ASSUME NEW w, NEW S, IsFiniteSet(S), \A x \in S : w[x] \in Nat
  PROVE  \A x \in S : Total(w, S) = w[x] + Total(w, S \ {x})
<1> DEFINE Good(T) == \A y \in T : Total(w, T) = w[y] + Total(w, T \ {y})
           B == {T \in SUBSET S : ~Good(T)}
<1>1. SUFFICES ASSUME B # {} PROVE FALSE
  OBVIOUS
<1>2. PICK T \in B : \A y \in T : T \ {y} \notin B
  <2>1. B \subseteq SUBSET S
    OBVIOUS
  <2> HIDE DEF B
  <2> QED BY <1>1, <2>1, LeastBad
<1>3. T \in SUBSET S /\ IsFiniteSet(T) /\ \A y \in T : Good(T \ {y}) /\ w[y] \in Nat
  <2>1. T \in SUBSET S /\ IsFiniteSet(T)
    BY <1>2, FS_Subset
  <2>2. \A y \in T : T \ {y} \in SUBSET S
    BY <2>1
  <2> QED BY <1>2, <2>1, <2>2
<1>4. PICK x \in T : Total(w, T) # w[x] + Total(w, T \ {x})
  BY <1>2
<1> DEFINE c == Some(T)
<1>5. c \in T /\ Total(w, T) = w[c] + Total(w, T \ {c})
  BY <1>3, <1>4, SumSome
<1>6. c # x
  BY <1>4, <1>5
<1> HIDE DEF c
<1>7. Total(w, T \ {c}) = w[x] + Total(w, (T \ {c}) \ {x})
  BY <1>3, <1>4, <1>5, <1>6
<1>8. Total(w, T \ {x}) = w[c] + Total(w, (T \ {x}) \ {c})
  BY <1>3, <1>4, <1>5, <1>6
<1>9. (T \ {x}) \ {c} = (T \ {c}) \ {x}
  OBVIOUS
<1>10. Total(w, (T \ {c}) \ {x}) \in Nat
  <2>1. IsFiniteSet((T \ {c}) \ {x})
    BY <1>3, FS_RemoveElement
  <2> QED BY <1>3, <2>1, SumNat
<1>11. w[x] \in Nat /\ w[c] \in Nat
  BY <1>3, <1>4, <1>5
<1> DEFINE r == Total(w, (T \ {c}) \ {x})
<1>12. Total(w, T) = w[c] + (w[x] + r) /\ Total(w, T \ {x}) = w[c] + r
  BY <1>5, <1>7, <1>8, <1>9
<1>13. r \in Nat
  BY <1>10
<1> HIDE DEF r
<1>14. w[c] + (w[x] + r) = w[x] + (w[c] + r)
  BY <1>11, <1>13
<1> QED BY <1>4, <1>12, <1>14

(* Sums over two parts. *)
Picks(w, S) == \A x \in S : Total(w, S) = w[x] + Total(w, S \ {x})

LEMMA SumPicks ==
  ASSUME NEW w, NEW S, Counted(w, S) PROVE Picks(w, S)
BY SumPick DEF Counted, Picks

Splits(w, S) == \A A : Total(w, S) = Total(w, S \cap A) + Total(w, S \ A)

LEMMA SumParts ==
  ASSUME NEW w, NEW S, Counted(w, S)
  PROVE  Splits(w, S)
<1>a. SUFFICES ASSUME NEW A PROVE Total(w, S) = Total(w, S \cap A) + Total(w, S \ A)
  BY DEF Splits
<1>0. IsFiniteSet(S) /\ \A x \in S : w[x] \in Nat
  BY DEF Counted
<1> DEFINE Good(T) == Total(w, T) = Total(w, T \cap A) + Total(w, T \ A)
           B == {T \in SUBSET S : ~Good(T)}
<1>1. SUFFICES ASSUME B # {} PROVE FALSE
  <2> QED OBVIOUS
<1>2. PICK T \in B : \A y \in T : T \ {y} \notin B
  <2>1. B \subseteq SUBSET S
    OBVIOUS
  <2> HIDE DEF B
  <2> QED BY <1>0, <1>1, <2>1, LeastBad
<1>3. T \in SUBSET S /\ IsFiniteSet(T) /\ ~Good(T) /\ IsFiniteSet(T \cap A) /\ IsFiniteSet(T \ A)
  <2>1. T \in SUBSET S /\ IsFiniteSet(T) /\ ~Good(T)
    BY <1>0, <1>2, FS_Subset
  <2> QED BY <2>1, FS_Subset
<1>4. T # {}
  <2>1. Total(w, {}) = 0 /\ {} \cap A = {} /\ {} \ A = {}
    BY SumEmpty
  <2>2. Good({})
    BY <2>1
  <2> QED BY <1>3, <2>2
<1>5. PICK x : x \in T
  BY <1>4
<1> DEFINE p == Total(w, (T \ {x}) \cap A)
           q == Total(w, (T \ {x}) \ A)
<1>6. Total(w, T \ {x}) = p + q
  <2>1. T \ {x} \in SUBSET S
    BY <1>3
  <2> QED BY <1>2, <1>5, <2>1
<1>7. \A y \in T : w[y] \in Nat
  BY <1>0, <1>3
<1>8. Total(w, T) = w[x] + Total(w, T \ {x})
  BY <1>3, <1>5, <1>7, SumPick
<1>9. p \in Nat /\ q \in Nat
  <2>1. IsFiniteSet((T \ {x}) \cap A) /\ IsFiniteSet((T \ {x}) \ A)
    BY <1>3, FS_Subset
  <2>2. \A y \in (T \ {x}) \cap A : w[y] \in Nat
    BY <1>7
  <2>3. \A y \in (T \ {x}) \ A : w[y] \in Nat
    BY <1>7
  <2> QED BY <2>1, <2>2, <2>3, SumNat
<1>10. CASE x \in A
  <2>1. Total(w, T \cap A) = w[x] + Total(w, (T \cap A) \ {x})
    <3>1. x \in T \cap A /\ \A y \in T \cap A : w[y] \in Nat
      BY <1>5, <1>7, <1>10
    <3> QED BY <1>3, <3>1, SumPick
  <2>2. (T \cap A) \ {x} = (T \ {x}) \cap A /\ T \ A = (T \ {x}) \ A
    BY <1>10
  <2>3. Total(w, T \cap A) = w[x] + p /\ Total(w, T \ A) = q
    BY <2>1, <2>2
  <2>4. w[x] \in Nat
    BY <1>5, <1>7
  <2> HIDE DEF p, q
  <2>5. w[x] + (p + q) = (w[x] + p) + q
    BY <1>9, <2>4
  <2> QED BY <1>3, <1>6, <1>8, <2>3, <2>5
<1>11. CASE x \notin A
  <2>1. Total(w, T \ A) = w[x] + Total(w, (T \ A) \ {x})
    <3>1. x \in T \ A /\ \A y \in T \ A : w[y] \in Nat
      BY <1>5, <1>7, <1>11
    <3> QED BY <1>3, <3>1, SumPick
  <2>2. (T \ A) \ {x} = (T \ {x}) \ A /\ T \cap A = (T \ {x}) \cap A
    BY <1>11
  <2>3. Total(w, T \ A) = w[x] + q /\ Total(w, T \cap A) = p
    BY <2>1, <2>2
  <2>4. w[x] \in Nat
    BY <1>5, <1>7
  <2> HIDE DEF p, q
  <2>5. w[x] + (p + q) = p + (w[x] + q)
    BY <1>9, <2>4
  <2> QED BY <1>3, <1>6, <1>8, <2>3, <2>5
<1> QED BY <1>10, <1>11

(* The same numbers under other names. *)
LEMMA SumRenamed ==
  ASSUME NEW v, NEW w, NEW D, NEW S, IsFiniteSet(D), IsFiniteSet(S), NEW h \in [D -> S],
         \A a, b \in D : h[a] = h[b] => a = b, S = {h[a] : a \in D},
         \A x \in S : w[x] \in Nat, \A a \in D : v[a] = w[h[a]]
  PROVE  Total(v, D) = Total(w, S)
<1> DEFINE Image(T) == {h[a] : a \in T}
           Good(T) == Total(v, T) = Total(w, Image(T))
           B == {T \in SUBSET D : ~Good(T)}
<1>1. SUFFICES ASSUME B # {} PROVE FALSE
  OBVIOUS
<1>2. PICK T \in B : \A y \in T : T \ {y} \notin B
  <2>1. B \subseteq SUBSET D
    OBVIOUS
  <2> HIDE DEF B
  <2> QED BY <1>1, <2>1, LeastBad
<1>3. T \in SUBSET D /\ IsFiniteSet(T) /\ ~Good(T)
  BY <1>2, FS_Subset
<1>4. T # {}
  <2>1. Image({}) = {}
    OBVIOUS
  <2>2. Good({})
    BY <2>1, SumEmpty
  <2> QED BY <1>3, <2>2
<1>5. PICK a : a \in T
  BY <1>4
<1>6. Image(T \ {a}) = Image(T) \ {h[a]} /\ h[a] \in Image(T) /\ Image(T) \in SUBSET S
  BY <1>3, <1>5
<1>7. Total(v, T \ {a}) = Total(w, Image(T) \ {h[a]})
  <2>1. T \ {a} \in SUBSET D
    BY <1>3
  <2>2. Good(T \ {a})
    BY <1>2, <1>5, <2>1
  <2> QED BY <1>6, <2>2
<1>8. Total(v, T) = v[a] + Total(v, T \ {a})
  <2>1. \A b \in T : v[b] \in Nat
    BY <1>3
  <2> QED BY <1>3, <1>5, <2>1, SumPick
<1>9. Total(w, Image(T)) = w[h[a]] + Total(w, Image(T) \ {h[a]})
  <2>1. IsFiniteSet(Image(T)) /\ \A x \in Image(T) : w[x] \in Nat
    BY <1>6, FS_Subset
  <2> HIDE DEF Image
  <2> QED BY <1>6, <2>1, SumPick
<1>10. v[a] = w[h[a]]
  BY <1>3, <1>5
<1> QED BY <1>3, <1>7, <1>8, <1>9, <1>10

(* The sum over classes of the sums within them. *)
LEMMA SumClasses ==
  ASSUME NEW w, NEW S, IsFiniteSet(S), \A x \in S : w[x] \in Nat,
         NEW N, IsFiniteSet(N), NEW P \in [N -> SUBSET S],
         \A a, b \in N : a # b => P[a] \cap P[b] = {}, NEW u,
         \A a \in N : u[a] = Total(w, P[a])
  PROVE  Total(u, N) = Total(w, UNION {P[a] : a \in N})
<1> DEFINE All(T) == UNION {P[a] : a \in T}
           Good(T) == Total(u, T) = Total(w, All(T))
           B == {T \in SUBSET N : ~Good(T)}
<1>1. SUFFICES ASSUME B # {} PROVE FALSE
  OBVIOUS
<1>2. PICK T \in B : \A y \in T : T \ {y} \notin B
  <2>1. B \subseteq SUBSET N
    OBVIOUS
  <2> HIDE DEF B
  <2> QED BY <1>1, <2>1, LeastBad
<1>3. T \in SUBSET N /\ IsFiniteSet(T) /\ ~Good(T)
  BY <1>2, FS_Subset
<1>4. T # {}
  <2>1. All({}) = {}
    OBVIOUS
  <2>2. Good({})
    BY <2>1, SumEmpty
  <2> QED BY <1>3, <2>2
<1>5. PICK a : a \in T
  BY <1>4
<1>6. All(T) \cap P[a] = P[a] /\ All(T) \ P[a] = All(T \ {a}) /\ All(T) \in SUBSET S
  BY <1>3, <1>5
<1>7. Total(u, T \ {a}) = Total(w, All(T \ {a}))
  <2>1. T \ {a} \in SUBSET N
    BY <1>3
  <2> QED BY <1>2, <1>5, <2>1
<1>8. \A b \in T : u[b] \in Nat
  <2>1. \A b \in T : IsFiniteSet(P[b]) /\ \A x \in P[b] : w[x] \in Nat
    BY <1>3, FS_Subset
  <2>2. \A b \in T : Total(w, P[b]) \in Nat
    BY <2>1, SumNat
  <2> QED BY <1>3, <2>2
<1>9. Total(u, T) = u[a] + Total(u, T \ {a})
  BY <1>3, <1>5, <1>8, SumPick
<1>10. Total(w, All(T)) = Total(w, All(T) \cap P[a]) + Total(w, All(T) \ P[a])
  <2>1. IsFiniteSet(All(T)) /\ \A x \in All(T) : w[x] \in Nat
    BY <1>6, FS_Subset
  <2>2. Counted(w, All(T))
    BY <2>1 DEF Counted
  <2> HIDE DEF All, B
  <2>3. Splits(w, All(T))
    BY <2>2, SumParts
  <2> QED BY <2>3 DEF Splits
<1>11. u[a] = Total(w, P[a])
  BY <1>3, <1>5
<1> HIDE DEF All
<1> QED BY <1>3, <1>6, <1>7, <1>9, <1>10, <1>11

----------------------------------------------------------------------------
(* The weight of a sequence of events.                                     *)

(* Events and windows as the code's types give them; an unauthorized       *)
(* request has a source, and a window that only saw its first event has    *)
(* nothing to summarise.                                                   *)
Keys == {"grace", "info", "unauthorized", "digest", "none"}
Event == {e \in [id : Nat, key : Keys,
                 src : Sources \cup {"none"}, n : Nat] : e.key = "unauthorized" => e.src \in Sources}
Window == {w \in [until : Int, count : Nat, first : Nat, more : BOOLEAN] :
             w.first <= w.count /\ (~w.more => w.count = w.first)
             /\ (w = NoWindow \/ w.until \in Nat)}

(* Sequences of events as functions, and their weight under Append, Tail, \o. *)
LEMMA SeqFinite ==
  ASSUME NEW evs \in Seq(Event)
  PROVE  /\ Len(evs) \in Nat /\ DOMAIN evs = 1..Len(evs) /\ IsFiniteSet(DOMAIN evs)
         /\ \A i \in DOMAIN evs : evs[i] \in Event /\ Count(evs)[i] = evs[i].n /\ evs[i].n \in Nat
<1>1. Len(evs) \in Nat /\ DOMAIN evs = 1..Len(evs)
  OBVIOUS
<1>2. IsFiniteSet(1..Len(evs))
  <2>1. 1 \in Int /\ Len(evs) \in Int
    BY <1>1
  <2> QED BY <2>1, FS_Interval, Zenon
<1>3. \A i \in DOMAIN evs : evs[i] \in Event
  BY <1>1
<1>4. \A i \in DOMAIN evs : Count(evs)[i] = evs[i].n
  BY DEF Count
<1> QED BY <1>1, <1>2, <1>3, <1>4 DEF Event

LEMMA CountCounted ==
  ASSUME NEW evs \in Seq(Event) PROVE Counted(Count(evs), DOMAIN evs)
BY SeqFinite DEF Counted

LEMMA WeightNat ==
  ASSUME NEW evs \in Seq(Event) PROVE Weight(evs) \in Nat
<1>1. Total(Count(evs), DOMAIN evs) \in Nat
  BY CountCounted, SumNat DEF Counted
<1> QED BY <1>1 DEF Weight, Total

LEMMA WeightEmpty == Weight(<< >>) = 0
<1>1. DOMAIN << >> = {}
  OBVIOUS
<1> QED BY <1>1, SumEmpty DEF Weight, Total

LEMMA WeightAppend ==
  ASSUME NEW evs \in Seq(Event), NEW e \in Event
  PROVE  Weight(Append(evs, e)) = Weight(evs) + e.n
<1> DEFINE w == Append(evs, e)
           m == Len(evs)
<1>1. w \in Seq(Event) /\ DOMAIN w = 1..(m + 1) /\ m \in Nat /\ w[m + 1] = e /\ (\A i \in 1..m : w[i] = evs[i]) /\ DOMAIN evs = 1..m
  BY SeqFinite
<1> HIDE DEF w
<1>2. Total(Count(w), DOMAIN w) = Count(w)[m + 1] + Total(Count(w), DOMAIN w \ {m + 1})
  <2>1. m + 1 \in DOMAIN w
    BY <1>1
  <2>2. Picks(Count(w), DOMAIN w)
    BY <1>1, CountCounted, SumPicks
  <2> QED BY <2>1, <2>2 DEF Picks
<1>3. DOMAIN w \ {m + 1} = DOMAIN evs
  <2> HIDE DEF m
  <2> QED BY <1>1
<1>4. Total(Count(w), DOMAIN evs) = Total(Count(evs), DOMAIN evs)
  <2>1. \A i \in DOMAIN evs : Count(w)[i] = Count(evs)[i]
    BY <1>1, SeqFinite DEF Count
  <2>2. IsFiniteSet(DOMAIN evs)
    BY SeqFinite
  <2> QED BY <2>1, <2>2, SumSame
<1>5. Count(w)[m + 1] = e.n
  BY <1>1 DEF Count
<1>6. Weight(w) = e.n + Weight(evs)
  BY <1>2, <1>3, <1>4, <1>5 DEF Weight, Total
<1>7. e.n \in Nat /\ Weight(evs) \in Nat
  BY WeightNat DEF Event
<1> QED BY <1>6, <1>7 DEF w

LEMMA WeightTail ==
  ASSUME NEW evs \in Seq(Event), evs # << >>
  PROVE  Weight(evs) = Head(evs).n + Weight(Tail(evs))
<1> DEFINE t == Tail(evs)
           m == Len(evs)
           h == [i \in DOMAIN t |-> i + 1]
<1>1. /\ m \in Nat /\ m > 0 /\ DOMAIN evs = 1..m
      /\ t \in Seq(Event) /\ DOMAIN t = 1..(m - 1) /\ \A i \in DOMAIN t : t[i] = evs[i + 1]
      /\ Head(evs) = evs[1]
  BY SeqFinite
<1> HIDE DEF t
<1>2. Total(Count(evs), DOMAIN evs) = Count(evs)[1] + Total(Count(evs), DOMAIN evs \ {1})
  <2>1. 1 \in DOMAIN evs
    BY <1>1
  <2>2. Picks(Count(evs), DOMAIN evs)
    BY CountCounted, SumPicks
  <2> QED BY <2>1, <2>2 DEF Picks
<1>3. Total(Count(t), DOMAIN t) = Total(Count(evs), DOMAIN evs \ {1})
  <2> DEFINE S == DOMAIN evs \ {1}
             v == Count(t)
             u == Count(evs)
  <2>1. h \in [DOMAIN t -> S] /\ (\A a, b \in DOMAIN t : h[a] = h[b] => a = b)
    BY <1>1
  <2>2. S = {h[a] : a \in DOMAIN t}
    <3>1. \A x \in S : x - 1 \in DOMAIN t /\ h[x - 1] = x
      BY <1>1
    <3>2. \A a \in DOMAIN t : h[a] \in S
      BY <1>1
    <3> HIDE DEF h, S
    <3> QED BY <3>1, <3>2
  <2>3. IsFiniteSet(DOMAIN t) /\ IsFiniteSet(S)
    <3>1. IsFiniteSet(DOMAIN t) /\ IsFiniteSet(DOMAIN evs)
      BY <1>1, SeqFinite
    <3> QED BY <3>1, FS_RemoveElement
  <2>4. (\A x \in S : u[x] \in Nat)
    BY SeqFinite
  <2>5. (\A a \in DOMAIN t : v[a] = u[h[a]])
    BY <1>1 DEF Count
  <2> HIDE DEF h, S, u, v
  <2>6. Total(v, DOMAIN t) = Total(u, S)
    BY <2>1, <2>2, <2>3, <2>4, <2>5, SumRenamed
  <2> QED BY <2>6 DEF S, u, v
<1>4. Count(evs)[1] = Head(evs).n
  BY <1>1 DEF Count
<1> QED BY <1>2, <1>3, <1>4 DEF Weight, Total, t

LEMMA WeightConcat ==
  ASSUME NEW p \in Seq(Event), NEW q \in Seq(Event)
  PROVE  Weight(p \o q) = Weight(p) + Weight(q)
<1> DEFINE w == p \o q
           m == Len(p)
           h == [i \in DOMAIN q |-> i + m]
<1>1. /\ m \in Nat /\ DOMAIN p = 1..m /\ Len(q) \in Nat /\ DOMAIN q = 1..Len(q)
      /\ w \in Seq(Event) /\ DOMAIN w = 1..(m + Len(q))
      /\ (\A i \in DOMAIN p : w[i] = p[i]) /\ (\A i \in DOMAIN q : w[i + m] = q[i])
  BY SeqFinite
<1> HIDE DEF w
<1>2. Total(Count(w), DOMAIN w) = Total(Count(w), DOMAIN w \cap DOMAIN p) + Total(Count(w), DOMAIN w \ DOMAIN p)
  <2>1. Splits(Count(w), DOMAIN w)
    BY <1>1, CountCounted, SumParts
  <2> QED BY <2>1 DEF Splits
<1>3. DOMAIN w \cap DOMAIN p = DOMAIN p
  BY <1>1
<1>4. Total(Count(w), DOMAIN p) = Total(Count(p), DOMAIN p)
  <2>1. \A i \in DOMAIN p : Count(w)[i] = Count(p)[i]
    BY <1>1 DEF Count
  <2>2. IsFiniteSet(DOMAIN p)
    BY SeqFinite
  <2> QED BY <2>1, <2>2, SumSame
<1>5. Total(Count(q), DOMAIN q) = Total(Count(w), DOMAIN w \ DOMAIN p)
  <2> DEFINE S == DOMAIN w \ DOMAIN p
             v == Count(q)
             u == Count(w)
  <2>1. h \in [DOMAIN q -> S] /\ (\A a, b \in DOMAIN q : h[a] = h[b] => a = b)
    BY <1>1
  <2>2. S = {h[a] : a \in DOMAIN q}
    <3>1. \A x \in S : x - m \in DOMAIN q /\ h[x - m] = x
      BY <1>1
    <3>2. \A a \in DOMAIN q : h[a] \in S
      BY <1>1
    <3> HIDE DEF h, S
    <3> QED BY <3>1, <3>2
  <2>3. IsFiniteSet(DOMAIN q) /\ IsFiniteSet(S)
    <3>1. IsFiniteSet(DOMAIN q) /\ IsFiniteSet(DOMAIN w)
      BY <1>1, SeqFinite
    <3> QED BY <3>1, FS_Subset
  <2>4. (\A x \in S : u[x] \in Nat)
    BY <1>1, SeqFinite
  <2>5. (\A a \in DOMAIN q : v[a] = u[h[a]])
    BY <1>1 DEF Count
  <2> HIDE DEF h, S, u, v
  <2>6. Total(v, DOMAIN q) = Total(u, S)
    BY <2>1, <2>2, <2>3, <2>4, <2>5, SumRenamed
  <2> QED BY <2>6 DEF S, u, v
<1> QED BY <1>2, <1>3, <1>4, <1>5 DEF Weight, Total, w

----------------------------------------------------------------------------
(* mergeEvents.                                                            *)

Upto(S, i) == {j \in S : j <= i}

(* Ranked enumerates a finite set of naturals in increasing order. *)
LEMMA RankUp ==
  ASSUME NEW S, IsFiniteSet(S), S \subseteq Nat
  PROVE  /\ \A i \in S : Cardinality(Upto(S, i)) \in 1..Cardinality(S)
         /\ \A i, j \in S : i < j => Cardinality(Upto(S, i)) < Cardinality(Upto(S, j))
<1>1. \A i \in S : /\ IsFiniteSet(Upto(S, i)) /\ Upto(S, i) \in SUBSET S
                   /\ Cardinality(Upto(S, i)) \in Nat
                   /\ Cardinality(Upto(S, i)) <= Cardinality(S) /\ Upto(S, i) # {}
  <2>1. \A i \in S : Upto(S, i) \in SUBSET S /\ i \in Upto(S, i)
    BY DEF Upto
  <2> QED BY <2>1, FS_Subset, FS_CardinalityType
<1>2. \A i \in S : Cardinality(Upto(S, i)) # 0
  BY <1>1, FS_EmptySet
<1>3. Cardinality(S) \in Nat
  BY FS_CardinalityType
<1>4. ASSUME NEW i \in S, NEW j \in S, i < j
      PROVE  Cardinality(Upto(S, i)) < Cardinality(Upto(S, j))
  <2>0. i \in Nat /\ j \in Nat /\ \A x \in S : x \in Nat
    OBVIOUS
  <2>1. Upto(S, i) \in SUBSET Upto(S, j) /\ j \in Upto(S, j) /\ j \notin Upto(S, i)
    <3>1. \A x \in S : x <= i => x <= j
      BY <1>4, <2>0
    <3>2. j <= j /\ ~(j <= i)
      BY <1>4, <2>0
    <3> QED BY <3>1, <3>2, Zenon DEF Upto
  <2>2. /\ Cardinality(Upto(S, i)) <= Cardinality(Upto(S, j))
        /\ Cardinality(Upto(S, j)) = Cardinality(Upto(S, i)) => Upto(S, j) = Upto(S, i)
    BY <1>1, <2>1, FS_Subset
  <2> QED BY <1>1, <2>1, <2>2
<1>5. \A i \in S : Cardinality(Upto(S, i)) \in 1..Cardinality(S)
  BY <1>1, <1>2, <1>3
<1> QED BY <1>4, <1>5

LEMMA RankedIs ==
  ASSUME NEW S, IsFiniteSet(S), S \subseteq Nat
  PROVE  /\ \A k \in 1..Cardinality(S) : Ranked(S, k) \in S /\ Cardinality(Upto(S, Ranked(S, k))) = k
         /\ \A i \in S : Ranked(S, Cardinality(Upto(S, i))) = i
         /\ \A k, l \in 1..Cardinality(S) : k < l => Ranked(S, k) < Ranked(S, l)
<1> DEFINE n == Cardinality(S)
           r == [i \in S |-> Cardinality(Upto(S, i))]
<1>0. n \in Nat /\ IsFiniteSet(1..n) /\ Cardinality(1..n) = n
  <2>1. n \in Nat
    BY FS_CardinalityType
  <2>2. 1 \in Int /\ n \in Int
    BY <2>1
  <2>3. IsFiniteSet(1..n) /\ Cardinality(1..n) = IF 1 > n THEN 0 ELSE n - 1 + 1
    BY <2>2, FS_Interval, Zenon
  <2> HIDE DEF n
  <2> QED BY <2>1, <2>3
<1>1. r \in [S -> 1..n] /\ \A i, j \in S : i < j => r[i] < r[j]
  BY RankUp
<1> HIDE DEF r
<1>2. \A i, j \in S : r[i] = r[j] => i = j
  <2>1. \A i, j \in S : i < j \/ j < i \/ i = j
    OBVIOUS
  <2>2. \A i \in S : r[i] \in Nat
    BY <1>0, <1>1
  <2> QED BY <1>1, <2>1, <2>2
<1>3. r \in Injection(S, 1..n)
  BY <1>1, <1>2 DEF Injection, IsInjective
<1>4. r \in Surjection(S, 1..n)
  <2> HIDE DEF n
  <2>1. Cardinality(S) = Cardinality(1..n)
    BY <1>0 DEF n
  <2> QED BY <1>0, <1>3, <2>1, FS_Injection
<1>5. \A k \in 1..n : \E i \in S : r[i] = k
  BY <1>4 DEF Surjection
<1>6. \A i \in S : r[i] = Cardinality(Upto(S, i)) /\ r[i] = Cardinality({j \in S : j <= i})
  BY DEF r, Upto
<1>7. \A k \in 1..n : Ranked(S, k) \in S /\ r[Ranked(S, k)] = k
  <2> SUFFICES ASSUME NEW k \in 1..n PROVE Ranked(S, k) \in S /\ r[Ranked(S, k)] = k
    OBVIOUS
  <2>1. \E i \in S : Cardinality({j \in S : j <= i}) = k
    BY <1>5, <1>6
  <2>2. Ranked(S, k) \in S /\ Cardinality({j \in S : j <= Ranked(S, k)}) = k
    BY <2>1, Zenon DEF Ranked
  <2> QED BY <1>6, <2>2
<1>8. \A i \in S : Ranked(S, r[i]) = i
  <2>1. \A i \in S : r[i] \in 1..n
    BY <1>1
  <2> QED BY <1>2, <1>7, <2>1
<1>9. ASSUME NEW k \in 1..n, NEW l \in 1..n, k < l PROVE Ranked(S, k) < Ranked(S, l)
  <2>1. Ranked(S, k) \in S /\ Ranked(S, l) \in S /\ r[Ranked(S, k)] = k /\ r[Ranked(S, l)] = l
    BY <1>7
  <2>2. k \in Nat /\ l \in Nat /\ Ranked(S, k) \in Nat /\ Ranked(S, l) \in Nat
    <3>1. k \in Nat /\ l \in Nat
      <4> HIDE DEF n
      <4> QED BY <1>0
    <3>2. \A x \in S : x \in Nat
      OBVIOUS
    <3> QED BY <3>1, <3>2, <2>1
  <2>3. ~(Ranked(S, l) < Ranked(S, k)) /\ Ranked(S, l) # Ranked(S, k)
    <3>1. Ranked(S, l) < Ranked(S, k) => l < k
      BY <1>1, <2>1
    <3>2. Ranked(S, l) = Ranked(S, k) => l = k
      BY <2>1
    <3> QED BY <1>9, <2>2, <3>1, <3>2
  <2> QED BY <2>2, <2>3
<1> QED BY <1>6, <1>7, <1>8, <1>9

(* Newest picks the last event of every key, and one of each. *)
LEMMA NewestAre ==
  ASSUME NEW evs \in Seq(Event)
  PROVE  /\ Newest(evs) \subseteq DOMAIN evs /\ IsFiniteSet(Newest(evs)) /\ Newest(evs) \subseteq Nat
         /\ \A i, j \in Newest(evs) : evs[i].key = evs[j].key => i = j
         /\ \A j \in DOMAIN evs : \E i \in Newest(evs) : evs[i].key = evs[j].key
<1>1. DOMAIN evs = 1..Len(evs) /\ Len(evs) \in Nat /\ IsFiniteSet(DOMAIN evs)
  BY SeqFinite
<1>2. Newest(evs) \subseteq DOMAIN evs
  BY DEF Newest
<1>3. IsFiniteSet(Newest(evs))
  BY <1>1, <1>2, FS_Subset
<1>4. \A i, j \in Newest(evs) : evs[i].key = evs[j].key => i = j
  BY <1>1 DEF Newest
<1>5. ASSUME NEW j \in DOMAIN evs PROVE \E i \in Newest(evs) : evs[i].key = evs[j].key
  <2> DEFINE A == {i \in DOMAIN evs : evs[i].key = evs[j].key}
  <2>1. PICK m \in A : \A i \in A : i <= m
    <3>1. A \subseteq 1..Len(evs) /\ A # {}
      BY <1>1
    <3> HIDE DEF A
    <3> QED BY <1>1, <3>1, LargestUpTo
  <2>2. m \in Newest(evs)
    BY <2>1 DEF Newest
  <2> QED BY <2>1, <2>2
<1>6. Newest(evs) \subseteq Nat
  BY <1>1, <1>2
<1> QED BY <1>2, <1>3, <1>4, <1>5, <1>6

(* What mergeEvents returns. *)
LEMMA MergedIs ==
  ASSUME NEW evs \in Seq(Event), NEW i \in DOMAIN evs
  PROVE  /\ Merged(evs, i) \in Event /\ Merged(evs, i).id = evs[i].id
         /\ Merged(evs, i).n = Total(Count(evs), Alike(evs, i))
<1> DEFINE t == Total(Count(evs), Alike(evs, i))
           e == evs[i]
<1>1. t \in Nat
  <2>1. Alike(evs, i) \in SUBSET DOMAIN evs
    BY DEF Alike
  <2>2. IsFiniteSet(Alike(evs, i)) /\ \A x \in Alike(evs, i) : Count(evs)[x] \in Nat
    BY <2>1, SeqFinite, FS_Subset
  <2> QED BY <2>2, SumNat
<1>2. Merged(evs, i) = [e EXCEPT !.n = t]
  BY DEF Merged, Total
<1>3. e \in Event
  BY SeqFinite
<1> HIDE DEF t, e
<1>4. [e EXCEPT !.n = t] \in Event /\ [e EXCEPT !.n = t].id = e.id /\ [e EXCEPT !.n = t].n = t
  BY <1>1, <1>3 DEF Event
<1> QED BY <1>2, <1>4 DEF t, e

LEMMA MergeIsSeq ==
  ASSUME NEW evs \in Seq(Event)
  PROVE  /\ MergeEvents(evs) \in Seq(Event)
         /\ Len(MergeEvents(evs)) = Cardinality(Newest(evs))
         /\ DOMAIN MergeEvents(evs) = 1..Cardinality(Newest(evs))
         /\ evs # << >> => MergeEvents(evs) # << >>
         /\ \A k \in DOMAIN MergeEvents(evs) :
              /\ Ranked(Newest(evs), k) \in DOMAIN evs
              /\ MergeEvents(evs)[k] = Merged(evs, Ranked(Newest(evs), k))
<1> DEFINE N == Newest(evs)
           n == Cardinality(N)
           M == MergeEvents(evs)
<1>1. n \in Nat
  BY NewestAre, FS_CardinalityType
<1>2. M = [k \in 1..n |-> Merged(evs, Ranked(N, k))]
  BY DEF MergeEvents
<1>3. \A k \in 1..n : Ranked(N, k) \in DOMAIN evs
  <2>1. \A k \in 1..n : Ranked(N, k) \in N
    BY NewestAre, RankedIs
  <2> QED BY <2>1, NewestAre
<1>4. \A k \in 1..n : Merged(evs, Ranked(N, k)) \in Event
  BY <1>3, MergedIs
<1>5. evs # << >> => n # 0
  <2> SUFFICES ASSUME evs # << >> PROVE n # 0
    OBVIOUS
  <2>1. 1 \in DOMAIN evs
    BY SeqFinite
  <2>2. N # {}
    BY <2>1, NewestAre
  <2> QED BY <2>2, NewestAre, FS_EmptySet
<1> HIDE DEF n, N, M
<1>6. M \in Seq(Event) /\ Len(M) = n /\ DOMAIN M = 1..n /\ (evs # << >> => M # << >>)
  BY <1>1, <1>2, <1>4, <1>5
<1>7. \A k \in DOMAIN M : M[k] = Merged(evs, Ranked(N, k))
  BY <1>2, <1>6
<1> QED BY <1>3, <1>6, <1>7 DEF n, N, M

(* mergeEvents loses no occurrence. *)
LEMMA MergeWeight ==
  ASSUME NEW evs \in Seq(Event) PROVE Weight(MergeEvents(evs)) = Weight(evs)
<1> DEFINE N == Newest(evs)
           n == Cardinality(N)
           M == MergeEvents(evs)
           u == [i \in N |-> Total(Count(evs), Alike(evs, i))]
           h == [k \in DOMAIN M |-> Ranked(N, k)]
           P == [i \in N |-> Alike(evs, i)]
           D == DOMAIN evs
           w == Count(evs)
<1>1. DOMAIN M = 1..n /\ M \in Seq(Event)
  BY MergeIsSeq
<1>2. N \subseteq D /\ IsFiniteSet(N) /\ IsFiniteSet(D)
  BY NewestAre, SeqFinite
<1>3. h \in [DOMAIN M -> N] /\ (\A a, b \in DOMAIN M : h[a] = h[b] => a = b) /\ N = {h[a] : a \in DOMAIN M}
  <2>1. \A k \in 1..n : Ranked(N, k) \in N /\ Cardinality(Upto(N, Ranked(N, k))) = k
    BY NewestAre, RankedIs
  <2>2. \A i \in N : Cardinality(Upto(N, i)) \in 1..n /\ Ranked(N, Cardinality(Upto(N, i))) = i
    BY NewestAre, RankedIs, RankUp
  <2>3. \A k \in 1..n : h[k] = Ranked(N, k)
    BY <1>1
  <2> HIDE DEF n, N, M
  <2>4. h \in [DOMAIN M -> N] /\ (\A a, b \in DOMAIN M : h[a] = h[b] => a = b)
    BY <1>1, <2>1
  <2>5. \A i \in N : \E a \in DOMAIN M : h[a] = i
    BY <1>1, <2>2, <2>3
  <2> HIDE DEF h
  <2> QED BY <2>4, <2>5
<1>4. \A i \in N : u[i] \in Nat
  BY MergedIs, NewestAre DEF Event
<1>5. \A k \in DOMAIN M : Count(M)[k] = u[h[k]]
  <2> SUFFICES ASSUME NEW k \in DOMAIN M PROVE Count(M)[k] = u[h[k]]
    OBVIOUS
  <2>1. h[k] \in N /\ h[k] \in D /\ h[k] = Ranked(N, k)
    BY <1>2, <1>3
  <2>2. M[k] = Merged(evs, h[k])
    BY <2>1, MergeIsSeq
  <2>3. M[k].n = Total(Count(evs), Alike(evs, h[k]))
    BY <2>1, <2>2, MergedIs
  <2>4. Count(M)[k] = M[k].n
    BY DEF Count
  <2> HIDE DEF M, h, N
  <2> QED BY <2>1, <2>3, <2>4
<1>6. Total(Count(M), DOMAIN M) = Total(u, N)
  <2>1. IsFiniteSet(DOMAIN M)
    BY <1>1, SeqFinite
  <2> DEFINE v == Count(M)
             Q == DOMAIN M
  <2>2. (\A a \in Q : v[a] = u[h[a]]) /\ IsFiniteSet(Q) /\ h \in [Q -> N]
        /\ (\A a, b \in Q : h[a] = h[b] => a = b) /\ N = {h[a] : a \in Q}
    BY <1>3, <1>5, <2>1
  <2> HIDE DEF M, h, N, u, v, Q
  <2>3. Total(v, Q) = Total(u, N)
    BY <1>2, <1>4, <2>2, SumRenamed
  <2> QED BY <2>3 DEF v, Q
<1>7. Total(u, N) = Total(w, D)
  <2>1. P \in [N -> SUBSET D]
    BY DEF Alike
  <2>2. \A a, b \in N : a # b => P[a] \cap P[b] = {}
    BY NewestAre DEF Alike
  <2>3. UNION {P[a] : a \in N} = D
    <3>1. \A j \in D : \E i \in N : j \in P[i]
      BY NewestAre DEF Alike
    <3> HIDE DEF P, N, D
    <3> QED BY <2>1, <3>1
  <2>4. \A a \in N : u[a] = Total(w, P[a])
    OBVIOUS
  <2>5. \A x \in D : w[x] \in Nat
    BY SeqFinite
  <2> HIDE DEF P, N, D, u, w
  <2>6. Total(u, N) = Total(w, UNION {P[a] : a \in N})
    BY <1>2, <2>1, <2>2, <2>4, <2>5, SumClasses
  <2> QED BY <2>3, <2>6
<1> QED BY <1>6, <1>7 DEF Weight, Total

----------------------------------------------------------------------------
(* The inductive invariant.                                                *)

Items == pending \o queue

(* Where the worker is, the stages that hand out aside, or returns to. *)
At == IF pc \in {"quiet", "deliver"} THEN then ELSE pc
Resting == At \in {"top", "arm", "wait", "pick", "shutdown", "done"} \/ (At = "tick" /\ ret = "arm")

BusTypes ==
  /\ accepted \in Nat /\ settled \in Nat /\ lastDirect \in Nat
  /\ queue \in Seq(Event) /\ pending \in Seq(Event)
  /\ cur \in Event /\ out \in Event /\ emitting \subseteq Templates
  /\ pc \in Labels /\ ret \in {"arm", "filter"}
  /\ then \in {"next", "tick", "arm", "filter", "top", "aggregate", "shutdown"}
  /\ (pc \in {"quiet", "deliver"} => then # "next")
  /\ windows \in [Sources -> Window]
  /\ closing \in BOOLEAN /\ cancelled \in BOOLEAN /\ late \in BOOLEAN /\ wake \in BOOLEAN

(* Clocks and capacities. *)
Bounds ==
  /\ clock \in 0..MaxTime /\ now \in 0..MaxTime /\ attempt \in 0..MaxRetries
  /\ mutedUntil \in {Never} \cup 0..MaxTime /\ timerAt \in {Never} \cup Nat
  /\ Len(queue) <= QueueCapacity /\ (emitting # {} => accepted < MaxEvents) /\ accepted <= MaxEvents
  /\ \A s, t \in emitting : s = t
  /\ held \in Seq(Keys) /\ heldTotal \in Nat /\ Len(held) <= HeldCapacity /\ Len(held) <= heldTotal

(* What the worker has in hand at each label. *)
Hands ==
  /\ pc \notin {"quiet", "deliver"} => out = NoEvent
  /\ Resting => cur = NoEvent
  /\ pc = "pick" => pending # <<>>
  /\ At \in {"arm", "wait", "shutdown"} \/ (At = "tick" /\ ret = "arm") => pending = <<>>

(* The way to the end: closed, drained, and nothing accepted since unless  *)
(* late; at the end no window is open.                                     *)
Ended == pc = "done" /\ ~cancelled
Drained ==
  /\ At = "shutdown" \/ Ended => closing /\ pending = <<>> /\ (late \/ queue = <<>>)
  /\ Ended => \A s \in Sources : windows[s] = NoWindow

(* Ids grow along the pipeline. *)
Ids ==
  /\ \A i, j \in DOMAIN Items : i < j => Items[i].id < Items[j].id
  /\ \A i \in DOMAIN Items : /\ lastDirect < Items[i].id /\ Items[i].id <= accepted
                             /\ cur.id < Items[i].id /\ out.id < Items[i].id
  /\ cur.id <= accepted /\ out.id <= accepted /\ lastDirect <= accepted
  /\ cur.id # 0 => lastDirect < cur.id
  /\ out.id # 0 => lastDirect < out.id /\ cur = NoEvent

IInv == BusTypes /\ Bounds /\ Hands /\ Drained /\ Ids /\ NothingVanishes

Stock == <<accepted, queue, pending, cur, out, windows, settled, lastDirect>>

(* What is cited of the assumption on the constants. *)
LEMMA BusIs == BusAssumption
BY BusAssumption

(* A step that leaves the events alone. *)
LEMMA StockStays ==
  ASSUME Ids, NothingVanishes, UNCHANGED Stock
  PROVE  Ids' /\ NothingVanishes'
<1>1. Items' = Items
  BY DEF Items, Stock
<1>2. Ids'
  BY <1>1 DEF Ids, Stock
<1>3. Absorbed' = Absorbed
  BY DEF Absorbed, Stock
<1>4. NothingVanishes'
  BY <1>3 DEF NothingVanishes, Stock
<1> QED BY <1>2, <1>4

(* A step that leaves the stock and the worker's place alone: emitters up to *)
(* the closing check, /mute, Close and the clock.                            *)
LEMMA OutsideKeeps ==
  ASSUME IInv, UNCHANGED Stock,
         UNCHANGED <<pc, ret, then, now, held, heldTotal, timerAt, attempt, late>>,
         emitting' \subseteq Templates, closing' \in BOOLEAN, cancelled' \in BOOLEAN, wake' \in BOOLEAN,
         clock' \in 0..MaxTime, mutedUntil' \in {Never} \cup 0..MaxTime,
         emitting' # {} => accepted < MaxEvents, \A x, y \in emitting' : x = y,
         closing => closing', cancelled => cancelled'
  PROVE  IInv'
<1>2. Ids' /\ NothingVanishes'
  BY StockStays DEF IInv
<1>5. BusTypes'
  BY DEF IInv, BusTypes, Stock
<1>6. Bounds'
  BY DEF IInv, Bounds, Stock
<1>7. Hands'
  BY DEF IInv, Hands, Resting, At, Stock
<1>8. Drained'
  <2>1. (Ended' => Ended) /\ (At' = At)
    BY DEF Ended, At
  <2> QED BY <2>1 DEF IInv, Drained, Stock
<1> QED BY <1>2, <1>5, <1>6, <1>7, <1>8 DEF IInv

LEMMA EmitCheckKeeps == ASSUME IInv, NEW t \in Templates, EmitCheck(t) PROVE IInv'
<1>1. UNCHANGED Stock /\ UNCHANGED <<pc, ret, then, now, held, heldTotal, timerAt, attempt, late>>
      /\ UNCHANGED <<closing, cancelled, wake, clock, mutedUntil>>
  BY DEF EmitCheck, Stock, heldVars, workerVars, history, closeVars
<1>2. emitting' \subseteq Templates /\ (emitting' # {} => accepted < MaxEvents) /\ \A x, y \in emitting' : x = y
  BY DEF EmitCheck
<1>3. closing \in BOOLEAN /\ cancelled \in BOOLEAN /\ wake \in BOOLEAN /\ clock \in 0..MaxTime /\ mutedUntil \in {Never} \cup 0..MaxTime
  BY DEF IInv, BusTypes, Bounds
<1> QED BY <1>1, <1>2, <1>3, OutsideKeeps

LEMMA MuteKeeps == ASSUME IInv, NEW d \in MuteLengths, Mute(d) PROVE IInv'
<1>1. UNCHANGED Stock /\ UNCHANGED <<pc, ret, then, now, held, heldTotal, timerAt, attempt, late>>
      /\ UNCHANGED <<closing, cancelled, clock, emitting>> /\ wake' = TRUE
  BY DEF Mute, Stock, heldVars, workerVars, history, closeVars, emitVars
<1>2. closing \in BOOLEAN /\ cancelled \in BOOLEAN /\ clock \in 0..MaxTime /\ emitting \subseteq Templates
      /\ (emitting # {} => accepted < MaxEvents) /\ \A x, y \in emitting : x = y
  BY DEF IInv, BusTypes, Bounds
<1>3. mutedUntil' \in 0..MaxTime
  BY <1>2, BusIs DEF Mute, BusAssumption
<1> QED BY <1>1, <1>2, <1>3, OutsideKeeps

LEMMA OthersKeep == ASSUME IInv, Unmute \/ Close \/ Cancel \/ Tick PROVE IInv'
<1>1. UNCHANGED Stock /\ UNCHANGED <<pc, ret, then, now, held, heldTotal, timerAt, attempt, late, emitting>>
  BY DEF Unmute, Close, Cancel, Tick, Stock, heldVars, workerVars, history, closeVars, emitVars
<1>2. /\ closing \in BOOLEAN /\ cancelled \in BOOLEAN /\ wake \in BOOLEAN /\ clock \in 0..MaxTime
      /\ emitting \subseteq Templates /\ mutedUntil \in {Never} \cup 0..MaxTime
      /\ (emitting # {} => accepted < MaxEvents) /\ \A x, y \in emitting : x = y
  BY DEF IInv, BusTypes, Bounds
<1>3. /\ closing' \in BOOLEAN /\ cancelled' \in BOOLEAN /\ wake' \in BOOLEAN
      /\ mutedUntil' \in {Never} \cup 0..MaxTime
      /\ (closing => closing') /\ (cancelled => cancelled')
  BY <1>2 DEF Unmute, Close, Cancel, Tick, closeVars, emitVars
<1>4. clock' \in 0..MaxTime
  BY <1>2, BusIs DEF Unmute, Close, Cancel, Tick, BusAssumption
<1> QED BY <1>1, <1>2, <1>3, <1>4, OutsideKeeps

(* The worker's steps that only move it. *)
LEMMA MovesKeep ==
  ASSUME IInv, Top \/ Arm \/ WaitCancelled \/ WaitTimer \/ WaitWake
  PROVE  IInv'
<1> USE DEF Env, emitVars, closeVars, heldVars, workerVars, history
<1>1. UNCHANGED Stock
  BY DEF Stock, Top, Arm, WaitCancelled, WaitTimer, WaitWake
<1>2. Ids' /\ NothingVanishes'
  BY <1>1, StockStays DEF IInv
<1>3. UNCHANGED <<clock, emitting, late, mutedUntil, closing, cancelled, then, held, heldTotal, attempt>>
  BY DEF Top, Arm, WaitCancelled, WaitTimer, WaitWake
<1>4. NextDeadline \in {Never} \cup Nat
  <2> DEFINE open == {windows[s].until : s \in {r \in Sources : windows[r] # NoWindow}}
             at == HeldDeadline \cup open
  <2>1. open \subseteq Nat
    <3>1. \A s \in Sources : windows[s] # NoWindow => windows[s].until \in Nat
      BY DEF IInv, BusTypes, Window
    <3> QED BY <3>1
  <2>2. HeldDeadline \subseteq Nat
    <3>1. clock \in Nat /\ HoldRecheck \in Nat /\ QuietEnd \in Nat
      BY BusIs DEF IInv, Bounds, BusAssumption
    <3>2. mutedUntil # Never => mutedUntil \in Nat
      BY DEF IInv, Bounds
    <3> QED BY <3>1, <3>2 DEF HeldDeadline
  <2>3. CASE at = {}
    BY <2>3 DEF NextDeadline
  <2>4. CASE at # {}
    <3>1. at \subseteq Nat
      BY <2>1, <2>2
    <3>2. NextDeadline = Min(at)
      BY <2>4 DEF NextDeadline
    <3> HIDE DEF at
    <3>3. PICK m \in at : \A n \in at : m <= n
      BY <2>4, <3>1, LeastNat
    <3>4. Min(at) \in at
      BY <3>3 DEF Min
    <3> QED BY <3>1, <3>2, <3>4
  <2> QED BY <2>3, <2>4
<1>5. /\ pc' \in Labels /\ pc' \notin {"quiet", "deliver"} /\ pc \notin {"quiet", "deliver"}
      /\ ret' \in {"arm", "filter"} /\ wake' \in BOOLEAN
      /\ now' \in 0..MaxTime /\ timerAt' \in {Never} \cup Nat
  BY <1>4 DEF IInv, BusTypes, Bounds, Labels, Top, Arm, WaitCancelled, WaitTimer, WaitWake
<1>6. BusTypes'
  BY <1>1, <1>3, <1>5 DEF IInv, BusTypes, Stock
<1>7. Bounds'
  BY <1>1, <1>3, <1>5 DEF IInv, Bounds, Stock
<1>8. Hands'
  BY <1>1, <1>3, <1>5 DEF IInv, Hands, Resting, At, Stock, Top, Arm, WaitCancelled, WaitTimer, WaitWake
<1>9. Drained'
  <2>1. ~Ended' /\ At' # "shutdown"
    BY <1>3, <1>5 DEF IInv, At, Ended, Top, Arm, WaitCancelled, WaitTimer, WaitWake
  <2> QED BY <2>1 DEF Drained
<1> QED BY <1>2, <1>6, <1>7, <1>8, <1>9 DEF IInv

----------------------------------------------------------------------------
(* What the steps of the pipeline do to sequences and to the windows.      *)

(* The events a worker takes up: its backlog, merged when it is long. *)
Ordered(q) == \A i, j \in DOMAIN q : i < j => q[i].id < q[j].id
Taken(all) == IF Len(all) > MergeThreshold THEN MergeEvents(all) ELSE all

(* It is a backlog too: of the same weight, in the same order. *)
LEMMA TakenIs ==
  ASSUME NEW all \in Seq(Event), all # << >>
  PROVE  /\ Taken(all) \in Seq(Event) /\ Taken(all) # << >>
         /\ Weight(Taken(all)) = Weight(all)
         /\ Ordered(all) => Ordered(Taken(all))
         /\ \A k \in DOMAIN Taken(all) : \E i \in DOMAIN all : Taken(all)[k].id = all[i].id
<1>1. CASE ~(Len(all) > MergeThreshold)
  <2>1. Taken(all) = all
    BY <1>1 DEF Taken
  <2> QED BY <2>1
<1>2. CASE Len(all) > MergeThreshold
  <2> DEFINE M == MergeEvents(all)
             N == Newest(all)
  <2>1. Taken(all) = M
    BY <1>2 DEF Taken
  <2>2. /\ M \in Seq(Event) /\ M # << >> /\ DOMAIN M = 1..Cardinality(N)
        /\ \A k \in DOMAIN M : Ranked(N, k) \in DOMAIN all /\ M[k] = Merged(all, Ranked(N, k))
    BY MergeIsSeq
  <2>3. Weight(M) = Weight(all)
    BY MergeWeight
  <2>4. \A k \in DOMAIN M : M[k].id = all[Ranked(N, k)].id
    BY <2>2, MergedIs
  <2>5. \A k, l \in DOMAIN M : k < l => Ranked(N, k) < Ranked(N, l)
    BY <2>2, NewestAre, RankedIs
  <2> HIDE DEF M, N
  <2>6. Ordered(all) => Ordered(M)
    BY <2>2, <2>4, <2>5, Zenon DEF Ordered
  <2> QED BY <2>1, <2>2, <2>3, <2>4, <2>6
<1> QED BY <1>1, <1>2

LEMMA HeadTail ==
  ASSUME NEW q \in Seq(Event), q # << >>
  PROVE  /\ Head(q) \in Event /\ Head(q) = q[1] /\ 1 \in DOMAIN q
         /\ Tail(q) \in Seq(Event) /\ Len(Tail(q)) = Len(q) - 1
         /\ \A i \in DOMAIN Tail(q) : i + 1 \in DOMAIN q /\ Tail(q)[i] = q[i + 1] /\ 1 < i + 1
<1>1. Len(q) \in Nat /\ DOMAIN q = 1..Len(q) /\ \A i \in DOMAIN q : q[i] \in Event
  BY SeqFinite
<1>2. Len(q) # 0
  BY <1>1
<1>3. Head(q) = q[1] /\ 1 \in DOMAIN q
  BY <1>1, <1>2
<1>4. Tail(q) \in Seq(Event) /\ Len(Tail(q)) = Len(q) - 1
  OBVIOUS
<1>5. DOMAIN Tail(q) = 1..(Len(q) - 1) /\ \A i \in 1..(Len(q) - 1) : Tail(q)[i] = q[i + 1]
  OBVIOUS
<1> QED BY <1>1, <1>2, <1>3, <1>4, <1>5

LEMMA OrderedTail ==
  ASSUME NEW q \in Seq(Event), q # << >>, Ordered(q)
  PROVE  /\ Ordered(Tail(q))
         /\ \A i \in DOMAIN Tail(q) : Head(q).id < Tail(q)[i].id
<1>1. \A i \in DOMAIN Tail(q) : i \in Int
  BY HeadTail, SeqFinite
<1>2. \A i, j \in DOMAIN Tail(q) : i < j => i + 1 < j + 1
  BY <1>1
<1> QED BY <1>2, HeadTail DEF Ordered

(* Moving the queue's head to the end of the backlog moves no event. *)
LEMMA ItemsShift ==
  ASSUME NEW p \in Seq(Event), NEW q \in Seq(Event), q # << >>
  PROVE  Append(p, Head(q)) \o Tail(q) = p \o q
<1> DEFINE a == Append(p, Head(q))
           t == Tail(q)
           m == Len(p)
           n == Len(q)
<1>0. m \in Nat /\ n \in Nat /\ n # 0
  BY SeqFinite
<1>1. a \in Seq(Event) /\ Len(a) = m + 1 /\ a[m + 1] = q[1] /\ \A i \in 1..m : a[i] = p[i]
  BY HeadTail
<1>2. t \in Seq(Event) /\ Len(t) = n - 1 /\ \A i \in 1..(n - 1) : t[i] = q[i + 1]
  BY HeadTail, SeqFinite
<1> HIDE DEF a, t
<1>3. a \o t \in Seq(Event) /\ p \o q \in Seq(Event) /\ Len(a \o t) = m + n /\ Len(p \o q) = m + n
  <2>1. a \o t \in Seq(Event) /\ p \o q \in Seq(Event) /\ Len(a \o t) = Len(a) + Len(t) /\ Len(p \o q) = m + n
    BY <1>1, <1>2, ConcatProperties
  <2> HIDE DEF m, n
  <2> QED BY <1>0, <1>1, <1>2, <2>1
<1>4. ASSUME NEW i \in 1..(m + n) PROVE (a \o t)[i] = (p \o q)[i]
  <2>1. (p \o q)[i] = IF i <= m THEN p[i] ELSE q[i - m]
    BY <1>0
  <2>2. (a \o t)[i] = IF i <= m + 1 THEN a[i] ELSE t[i - (m + 1)]
    BY <1>0, <1>1, <1>2
  <2>3. CASE i <= m
    BY <1>0, <1>1, <2>1, <2>2, <2>3
  <2>4. CASE i = m + 1
    BY <1>0, <1>1, <2>1, <2>2, <2>4
  <2>5. CASE i > m + 1
    <3>1. i - (m + 1) \in 1..(n - 1) /\ (i - (m + 1)) + 1 = i - m
      BY <1>0, <2>5
    <3>2. t[i - (m + 1)] = q[i - m]
      BY <1>2, <3>1
    <3> QED BY <1>0, <2>1, <2>2, <2>5, <3>2
  <2>6. i <= m \/ i = m + 1 \/ i > m + 1
    <3> HIDE DEF m, n
    <3> QED BY <1>0
  <2> QED BY <2>3, <2>4, <2>5, <2>6
<1> QED BY <1>3, <1>4 DEF a, t

(* What the windows add to: changing one of them changes the sum by it. *)
Held(w) == w.count - w.first
LEMMA AbsorbedNat ==
  ASSUME windows \in [Sources -> Window] PROVE Absorbed \in Nat
<1>1. \A s \in Sources : [x \in Sources |-> windows[x].count - windows[x].first][s] \in Nat
  BY DEF Window
<1> QED BY <1>1, BusIs, SumNat DEF Absorbed, Total, BusAssumption

LEMMA AbsorbedChange ==
  ASSUME windows \in [Sources -> Window], NEW s \in Sources, NEW w \in Window,
         windows' = [windows EXCEPT ![s] = w]
  PROVE  /\ windows' \in [Sources -> Window]
         /\ Absorbed' + Held(windows[s]) = Absorbed + Held(w)
<1> DEFINE f == [x \in Sources |-> windows[x].count - windows[x].first]
           g == [x \in Sources |-> windows'[x].count - windows'[x].first]
           R == Sources \ {s}
<1>1. windows' \in [Sources -> Window]
  OBVIOUS
<1>2. \A x \in Sources : f[x] \in Nat /\ g[x] \in Nat
  BY <1>1 DEF Window
<1>3. IsFiniteSet(Sources) /\ IsFiniteSet(R)
  BY BusIs, FS_Subset DEF BusAssumption
<1>4. \A x \in R : f[x] = g[x]
  OBVIOUS
<1>5. f[s] = Held(windows[s]) /\ g[s] = Held(w)
  BY DEF Held
<1>6. Absorbed = Total(f, Sources) /\ Absorbed' = Total(g, Sources)
  BY DEF Absorbed, Total
<1> HIDE DEF f, g
<1>7. Total(f, Sources) = f[s] + Total(f, R) /\ Total(g, Sources) = g[s] + Total(g, R)
  BY <1>2, <1>3, SumPick
<1>8. Total(f, R) = Total(g, R)
  BY <1>3, <1>4, SumSame
<1>9. f[s] \in Nat /\ g[s] \in Nat /\ Total(f, R) \in Nat
  BY <1>2, <1>3, SumNat
<1> HIDE DEF R
<1> QED BY <1>1, <1>5, <1>6, <1>7, <1>8, <1>9

----------------------------------------------------------------------------
(* The steps that take an event in, and hand it to the worker.             *)

(* The events that wait, as one sequence. *)
LEMMA ItemsAre ==
  ASSUME BusTypes
  PROVE  /\ Items \in Seq(Event) /\ Weight(Items) = Weight(pending) + Weight(queue)
         /\ Weight(pending) \in Nat /\ Weight(queue) \in Nat
         /\ Len(Items) = Len(pending) + Len(queue)
BY WeightConcat, WeightNat, ConcatProperties DEF Items, BusTypes

LEMMA AppendIn ==
  ASSUME NEW p \in Seq(Event), NEW q \in Seq(Event), NEW e \in Event
  PROVE  /\ p \o Append(q, e) = Append(p \o q, e)
         /\ Append(q, e) \in Seq(Event) /\ Len(Append(q, e)) = Len(q) + 1
         /\ DOMAIN Append(q, e) = 1..(Len(q) + 1)
         /\ Append(q, e)[Len(q) + 1] = e /\ \A i \in DOMAIN q : Append(q, e)[i] = q[i]
<1> DEFINE a == Append(q, e)
           m == Len(p)
           n == Len(q)
           l == p \o a
           r == Append(p \o q, e)
<1>0. m \in Nat /\ n \in Nat /\ DOMAIN q = 1..n
  BY SeqFinite
<1>1. a \in Seq(Event) /\ Len(a) = n + 1 /\ a[n + 1] = e /\ \A i \in 1..n : a[i] = q[i]
  BY <1>0
<1>2. p \o q \in Seq(Event) /\ Len(p \o q) = m + n /\ \A i \in 1..(m + n) : (p \o q)[i] = IF i <= m THEN p[i] ELSE q[i - m]
  BY ConcatProperties
<1>a. l \in Seq(Event) /\ Len(l) = m + Len(a) /\ \A i \in 1..(m + Len(a)) : l[i] = IF i <= m THEN p[i] ELSE a[i - m]
  BY <1>1, ConcatProperties
<1>3. l \in Seq(Event) /\ Len(l) = m + n + 1 /\ \A i \in 1..(m + n + 1) : l[i] = IF i <= m THEN p[i] ELSE a[i - m]
  <2> HIDE DEF l, a, m, n
  <2>1. m + (n + 1) = m + n + 1
    BY <1>0
  <2> QED BY <1>1, <1>a, <2>1
<1>b. DOMAIN a = 1..(n + 1)
  BY <1>1, SeqFinite
<1> HIDE DEF a
<1>4. r \in Seq(Event) /\ Len(r) = m + n + 1 /\ r[m + n + 1] = e /\ \A i \in 1..(m + n) : r[i] = (p \o q)[i]
  <2> DEFINE pq == p \o q
  <2>1. pq \in Seq(Event) /\ Len(pq) = m + n
    BY <1>2
  <2> HIDE DEF pq, m, n
  <2> QED BY <1>0, <2>1 DEF pq
<1> HIDE DEF l, r, m, n
<1>5. ASSUME NEW i \in 1..(m + n + 1) PROVE l[i] = r[i]
  <2>1. CASE i <= m
    BY <1>0, <1>2, <1>3, <1>4, <2>1
  <2>2. CASE i > m /\ i <= m + n
    <3>1. i - m \in 1..n
      BY <1>0, <2>2
    <3>2. a[i - m] = q[i - m]
      BY <1>1, <3>1
    <3>3. i \in 1..(m + n) /\ ~(i <= m)
      BY <1>0, <2>2
    <3>4. r[i] = (p \o q)[i] /\ (p \o q)[i] = q[i - m]
      BY <1>2, <1>4, <3>3
    <3>5. l[i] = a[i - m]
      BY <1>3, <3>3
    <3> QED BY <3>2, <3>4, <3>5
  <2>3. CASE i = m + n + 1
    <3>1. i - m = n + 1 /\ ~(i <= m)
      BY <1>0, <2>3
    <3> QED BY <1>0, <1>1, <1>3, <1>4, <2>3, <3>1
  <2> QED BY <1>0, <2>1, <2>2, <2>3
<1>6. l = r
  BY <1>0, <1>3, <1>4, <1>5, SeqEqual
<1> QED BY <1>0, <1>1, <1>b, <1>6 DEF a, l, r, m, n

(* Emit puts a new event, with the highest id, behind all others. *)
LEMMA EmitSendKeeps ==
  ASSUME IInv, NEW t \in Templates, EmitSend(t)
  PROVE  IInv'
<1> USE DEF Env, emitVars, closeVars, heldVars, workerVars, history
<1> DEFINE e == [id |-> accepted + 1, key |-> t.key, src |-> t.src, n |-> 1]
<1>0. BusTypes /\ Bounds /\ Hands /\ Drained /\ Ids /\ NothingVanishes
  BY DEF IInv
<1>1. UNCHANGED <<clock, mutedUntil, wake, closing, cancelled, held, heldTotal, settled, lastDirect,
                  pending, pc, ret, then, now, cur, out, attempt, windows, timerAt>>
  BY DEF EmitSend
<1>2. emitting' = {}
  BY <1>0 DEF EmitSend, Bounds
<1>3. CASE ~(Len(queue) < QueueCapacity)
  <2>1. UNCHANGED <<accepted, queue, late>>
    BY <1>3 DEF EmitSend
  <2>2. Ids' /\ NothingVanishes'
    BY <1>0, <1>1, <2>1, StockStays DEF Stock
  <2>3. BusTypes'
    BY <1>0, <1>1, <1>2, <2>1 DEF BusTypes
  <2>4. Bounds'
    BY <1>0, <1>1, <1>2, <2>1 DEF Bounds
  <2>5. Hands' /\ Drained'
    BY <1>0, <1>1, <2>1 DEF Hands, Drained, Resting, At, Ended
  <2> QED BY <2>2, <2>3, <2>4, <2>5 DEF IInv
<1>4. CASE Len(queue) < QueueCapacity
  <2>1. accepted' = accepted + 1 /\ queue' = Append(queue, e) /\ late' = (late \/ closing)
    BY <1>4 DEF EmitSend
  <2>2. accepted < MaxEvents /\ accepted \in Nat /\ MaxEvents \in Nat /\ QueueCapacity \in Nat
    BY <1>0, BusIs DEF EmitSend, Bounds, BusTypes, BusAssumption
  <2>3. e \in Event /\ e.id = accepted + 1 /\ e.n = 1
    BY <2>2 DEF Event, Keys, Templates
  <2> HIDE DEF e
  <2>4. queue \in Seq(Event) /\ pending \in Seq(Event) /\ Len(queue) \in Nat
    BY <1>0, SeqFinite DEF BusTypes
  <2>5. Items' = Append(Items, e) /\ queue' \in Seq(Event) /\ Len(queue') = Len(queue) + 1
    BY <1>1, <2>1, <2>3, <2>4, AppendIn DEF Items
  <2>6. BusTypes'
    BY <1>0, <1>1, <1>2, <2>1, <2>2, <2>5 DEF BusTypes
  <2>7. Bounds'
    BY <1>0, <1>1, <1>2, <1>4, <2>1, <2>2, <2>4, <2>5 DEF Bounds
  <2>8. Hands'
    BY <1>0, <1>1 DEF Hands, Resting, At
  <2>9. Drained'
    BY <1>0, <1>1, <2>1 DEF Drained, At, Ended
  <2>10. Ids'
    <3>1. Items \in Seq(Event) /\ Len(Items) \in Nat /\ DOMAIN Items = 1..Len(Items)
      BY <1>0, ItemsAre, SeqFinite
    <3>2. /\ DOMAIN Items' = 1..(Len(Items) + 1) /\ Items'[Len(Items) + 1] = e
          /\ \A i \in 1..Len(Items) : Items'[i] = Items[i]
      BY <2>3, <2>4, <2>5, <3>1, AppendIn
    <3> DEFINE n == Len(Items)
               I == Items'
    <3> HIDE DEF n
    <3>3. n \in Nat /\ DOMAIN I = 1..(n + 1) /\ I[n + 1].id = accepted + 1 /\ DOMAIN Items = 1..n
          /\ \A i \in 1..n : I[i] = Items[i] /\ Items[i].id \in Nat
      BY <2>3, <3>1, <3>2, SeqFinite DEF n, Event
    <3>a. cur.id \in Nat /\ out.id \in Nat /\ lastDirect \in Nat
      BY <1>0 DEF BusTypes, Event
    <3> HIDE DEF I
    <3>4. \A i, j \in DOMAIN I : i < j => I[i].id < I[j].id
      BY <1>0, <2>2, <3>3 DEF Ids
    <3>5. \A i \in DOMAIN I : lastDirect < I[i].id /\ I[i].id <= accepted + 1 /\ cur.id < I[i].id /\ out.id < I[i].id
      BY <1>0, <2>2, <3>3, <3>a DEF Ids
    <3>6. cur.id <= accepted + 1 /\ out.id <= accepted + 1 /\ lastDirect <= accepted + 1
      BY <1>0, <2>2, <3>a DEF Ids
    <3>7. (cur.id # 0 => lastDirect < cur.id) /\ (out.id # 0 => lastDirect < out.id /\ cur = NoEvent)
      BY <1>0 DEF Ids
    <3> QED BY <1>1, <2>1, <3>4, <3>5, <3>6, <3>7, Zenon DEF Ids, I
  <2>11. NothingVanishes'
    <3>1. Weight(queue') = Weight(queue) + 1 /\ Weight(queue) \in Nat /\ Weight(pending) \in Nat
      BY <2>1, <2>3, <2>4, WeightAppend, WeightNat
    <3>2. Absorbed' = Absorbed /\ Absorbed \in Nat
      BY <1>0, <1>1, AbsorbedNat DEF Absorbed, BusTypes
    <3>3. cur.n \in Nat /\ out.n \in Nat /\ settled \in Nat
      BY <1>0 DEF BusTypes, Event
    <3>4. Weight(pending') = Weight(pending) /\ cur'.n = cur.n /\ out'.n = out.n /\ settled' = settled
      BY <1>1
    <3>5. accepted = Weight(queue) + Weight(pending) + cur.n + out.n + Absorbed + settled
      BY <1>0 DEF NothingVanishes
    <3>6. accepted' = Weight(queue') + Weight(pending') + cur'.n + out'.n + Absorbed' + settled'
      <4> DEFINE q == Weight(queue)
                 p == Weight(pending)
      <4>1. q + p + cur.n + out.n + Absorbed + settled + 1 = (q + 1) + p + cur.n + out.n + Absorbed + settled
        <5> HIDE DEF q, p
        <5> QED BY <3>1, <3>2, <3>3 DEF q, p
      <4>2. accepted' = q + p + cur.n + out.n + Absorbed + settled + 1
        BY <2>1, <3>5
      <4>3. Weight(queue') = q + 1 /\ Weight(pending') = p
        BY <3>1, <3>4
      <4> HIDE DEF q, p
      <4> QED BY <3>2, <3>4, <4>1, <4>2, <4>3
    <3> QED BY <3>6 DEF NothingVanishes
  <2> QED BY <2>6, <2>7, <2>8, <2>9, <2>10, <2>11 DEF IInv
<1> QED BY <1>3, <1>4

Rest == <<accepted, cur, out, windows, settled, lastDirect>>

(* Events that only change place, from the queue to the backlog. *)
LEMMA ItemsStay ==
  ASSUME BusTypes, Ids, NothingVanishes, UNCHANGED Rest, Items' = Items,
         queue' \in Seq(Event), pending' \in Seq(Event)
  PROVE  Ids' /\ NothingVanishes'
<1>1. Ids'
  BY DEF Ids, Rest
<1>2. Weight(queue') + Weight(pending') = Weight(queue) + Weight(pending)
  <2>1. Weight(Items') = Weight(pending') + Weight(queue') /\ Weight(pending') \in Nat /\ Weight(queue') \in Nat
    BY WeightConcat, WeightNat DEF Items
  <2> QED BY <2>1, ItemsAre
<1>3. Absorbed' = Absorbed
  BY DEF Absorbed, Rest
<1>4. NothingVanishes'
  BY <1>2, <1>3 DEF NothingVanishes, Rest
<1> QED BY <1>1, <1>4

LEMMA WaitEventKeeps ==
  ASSUME IInv, WaitEvent PROVE IInv'
<1> USE DEF Env, emitVars, closeVars, heldVars, history
<1>0. BusTypes /\ Bounds /\ Hands /\ Drained /\ Ids /\ NothingVanishes
  BY DEF IInv
<1>1. /\ pc = "wait" /\ pc' = "pick" /\ queue # << >>
      /\ pending' = Append(pending, Head(queue)) /\ queue' = Tail(queue)
      /\ UNCHANGED <<clock, emitting, late, mutedUntil, wake, closing, cancelled, held, heldTotal, ret, then, now, attempt, timerAt>>
      /\ UNCHANGED Rest
  BY DEF WaitEvent, Rest
<1>2. /\ queue \in Seq(Event) /\ pending \in Seq(Event) /\ Head(queue) \in Event
      /\ queue' \in Seq(Event) /\ pending' \in Seq(Event) /\ pending' # << >>
      /\ Len(queue') = Len(queue) - 1 /\ Len(queue) \in Nat
  <2>1. queue \in Seq(Event) /\ pending \in Seq(Event)
    BY <1>0 DEF BusTypes
  <2>2. Head(queue) \in Event /\ Tail(queue) \in Seq(Event) /\ Len(Tail(queue)) = Len(queue) - 1 /\ Len(queue) \in Nat
    BY <1>1, <2>1, HeadTail, SeqFinite
  <2>3. Append(pending, Head(queue)) \in Seq(Event) /\ Append(pending, Head(queue)) # << >>
    BY <2>1, <2>2, AppendProperties
  <2> QED BY <1>1, <2>1, <2>2, <2>3
<1>3. Items' = Items
  BY <1>1, <1>2, ItemsShift DEF Items
<1>4. Ids' /\ NothingVanishes'
  BY <1>0, <1>1, <1>2, <1>3, ItemsStay
<1>5. BusTypes'
  BY <1>0, <1>1, <1>2 DEF BusTypes, Labels, Rest
<1>6. Bounds'
  BY <1>0, <1>1, <1>2, BusIs DEF Bounds, Rest, BusAssumption
<1>7. Hands'
  BY <1>0, <1>1, <1>2 DEF Hands, Resting, At, Rest
<1>8. Drained'
  BY <1>1 DEF Drained, Ended, At
<1> QED BY <1>4, <1>5, <1>6, <1>7, <1>8 DEF IInv

LEMMA WaitClosingKeeps ==
  ASSUME IInv, WaitClosing PROVE IInv'
<1> USE DEF Env, emitVars, closeVars, heldVars, history
<1>0. BusTypes /\ Bounds /\ Hands /\ Drained /\ Ids /\ NothingVanishes
  BY DEF IInv
<1>1. /\ pc = "wait" /\ closing /\ pc' = IF pending' = <<>> THEN "shutdown" ELSE "pick"
      /\ pending' = pending \o queue /\ queue' = << >>
      /\ UNCHANGED <<clock, emitting, late, mutedUntil, wake, closing, cancelled, held, heldTotal, ret, then, now, attempt, timerAt>>
      /\ UNCHANGED Rest
  BY DEF WaitClosing, Rest
<1>2. queue' \in Seq(Event) /\ pending' \in Seq(Event) /\ Len(queue') = 0
  <2>1. queue \in Seq(Event) /\ pending \in Seq(Event)
    BY <1>0 DEF BusTypes
  <2> QED BY <1>1, <2>1, ConcatProperties, EmptySeq
<1>3. Items' = Items
  BY <1>1, <1>2, ConcatEmptySeq DEF Items
<1>4. Ids' /\ NothingVanishes'
  BY <1>0, <1>1, <1>2, <1>3, ItemsStay
<1>5. BusTypes'
  BY <1>0, <1>1, <1>2 DEF BusTypes, Labels, Rest
<1>6. Bounds'
  BY <1>0, <1>1, <1>2, BusIs DEF Bounds, Rest, BusAssumption
<1>7. Hands'
  BY <1>0, <1>1, <1>2 DEF Hands, Resting, At, Rest
<1>8. Drained'
  BY <1>1 DEF Drained, Ended, At
<1> QED BY <1>4, <1>5, <1>6, <1>7, <1>8 DEF IInv

(* The worker takes its oldest event, and Close drops it with all behind it. *)
LEMMA PickKeeps ==
  ASSUME IInv, Pick PROVE IInv'
<1> USE DEF Env, emitVars, closeVars, heldVars, history
<1> DEFINE all == pending \o queue
           evs == Taken(all)
<1>0. BusTypes /\ Bounds /\ Hands /\ Drained /\ Ids /\ NothingVanishes
  BY DEF IInv
<1>1. /\ pc = "pick" /\ pending' = Tail(evs) /\ queue' = << >>
      /\ IF cancelled
         THEN pc' = "done" /\ settled' = settled + Head(evs).n /\ UNCHANGED <<ret, now, cur>>
         ELSE /\ pc' = "tick" /\ ret' = "filter" /\ now' = clock
              /\ cur' = Head(evs) /\ UNCHANGED settled
      /\ UNCHANGED <<clock, emitting, accepted, late, mutedUntil, wake, closing, cancelled, held, heldTotal,
                     then, out, attempt, windows, timerAt, lastDirect>>
  BY DEF Pick, Taken
<1>2. pending # << >> /\ cur = NoEvent /\ out = NoEvent /\ queue \in Seq(Event) /\ pending \in Seq(Event)
  BY <1>0, <1>1 DEF Hands, Resting, At, BusTypes
<1>3. all = Items /\ all \in Seq(Event) /\ all # << >> /\ Weight(all) = Weight(queue) + Weight(pending)
      /\ Weight(queue) \in Nat /\ Weight(pending) \in Nat
  <2>1. all = Items /\ all \in Seq(Event) /\ Weight(all) = Weight(pending) + Weight(queue)
        /\ Weight(queue) \in Nat /\ Weight(pending) \in Nat
    BY <1>0, ItemsAre DEF Items
  <2>2. all # << >>
    BY <1>2, ConcatEqualIffEmpty
  <2> QED BY <2>1, <2>2
<1>4. /\ evs \in Seq(Event) /\ evs # << >> /\ Weight(evs) = Weight(all) /\ Ordered(evs)
      /\ \A k \in DOMAIN evs : \E i \in DOMAIN all : evs[k].id = all[i].id
  <2>1. Ordered(all)
    BY <1>0, <1>3 DEF Ordered, Ids
  <2> HIDE DEF all
  <2> QED BY <1>3, <2>1, TakenIs
<1> HIDE DEF all, evs
<1>5. /\ Head(evs) \in Event /\ Tail(evs) \in Seq(Event)
      /\ \A i \in DOMAIN Tail(evs) : Head(evs).id < Tail(evs)[i].id
      /\ Ordered(Tail(evs)) /\ Weight(evs) = Head(evs).n + Weight(Tail(evs))
  BY <1>4, HeadTail, OrderedTail, WeightTail
<1>6. /\ lastDirect < Head(evs).id /\ Head(evs).id <= accepted
      /\ \A i \in DOMAIN Tail(evs) : lastDirect < Tail(evs)[i].id /\ Tail(evs)[i].id <= accepted /\ 0 < Tail(evs)[i].id
  <2>1. \A i \in DOMAIN all : lastDirect < all[i].id /\ all[i].id <= accepted /\ cur.id < all[i].id
    BY <1>0, <1>3 DEF Ids
  <2>2. \A k \in DOMAIN evs : lastDirect < evs[k].id /\ evs[k].id <= accepted /\ cur.id < evs[k].id
    BY <1>4, <2>1
  <2>3. Head(evs) = evs[1] /\ 1 \in DOMAIN evs /\ \A i \in DOMAIN Tail(evs) : i + 1 \in DOMAIN evs /\ Tail(evs)[i] = evs[i + 1]
    BY <1>4, HeadTail
  <2> QED BY <1>2, <2>2, <2>3 DEF NoEvent
<1>7. Items' = Tail(evs) /\ queue' \in Seq(Event) /\ Len(queue') = 0
  BY <1>1, <1>5, ConcatEmptySeq, EmptySeq DEF Items
<1>8. BusTypes'
  <2>1. settled' \in Nat /\ cur' \in Event /\ pc' \in Labels /\ pc' \notin {"quiet", "deliver"} /\ ret' \in {"arm", "filter"}
    BY <1>0, <1>1, <1>5 DEF BusTypes, Event, Labels
  <2> QED BY <1>0, <1>1, <1>5, <1>7, <2>1 DEF BusTypes
<1>9. Bounds'
  <2>1. now' \in 0..MaxTime
    BY <1>0, <1>1 DEF Bounds
  <2> QED BY <1>0, <1>1, <1>7, <2>1, BusIs DEF Bounds, BusAssumption
<1>10. Hands'
  BY <1>1, <1>2 DEF Hands, Resting, At
<1>11. Drained'
  BY <1>1 DEF Drained, Ended, At
<1>12. Ids'
  <2>1. cur'.id <= accepted /\ (\A i \in DOMAIN Tail(evs) : cur'.id < Tail(evs)[i].id) /\ (cur'.id # 0 => lastDirect < cur'.id)
    <3>1. CASE cancelled
      BY <1>0, <1>1, <1>2, <1>6, <3>1 DEF Ids, NoEvent
    <3>2. CASE ~cancelled
      BY <1>1, <1>5, <1>6, <3>2
    <3> QED BY <3>1, <3>2
  <2>2. out'.id <= accepted /\ lastDirect <= accepted /\ out'.id = 0
    BY <1>0, <1>1, <1>2 DEF Ids, NoEvent
  <2> QED BY <1>1, <1>5, <1>6, <1>7, <2>1, <2>2 DEF Ids, Ordered
<1>13. NothingVanishes'
  <2>1. Weight(queue') = 0 /\ Weight(pending') = Weight(Tail(evs)) /\ Weight(Tail(evs)) \in Nat
    BY <1>1, <1>5, WeightEmpty, WeightNat
  <2>2. Absorbed' = Absorbed /\ Absorbed \in Nat
    BY <1>0, <1>1, AbsorbedNat DEF Absorbed, BusTypes
  <2>3. cur'.n + settled' = Head(evs).n + settled /\ cur.n = 0 /\ out'.n = 0 /\ out.n = 0
    <3>1. Head(evs).n \in Nat /\ settled \in Nat
      BY <1>0, <1>5 DEF BusTypes, Event
    <3> QED BY <1>1, <1>2, <3>1 DEF NoEvent
  <2>4. Head(evs).n \in Nat /\ settled \in Nat /\ settled' \in Nat /\ cur'.n \in Nat
    BY <1>0, <1>5, <1>8 DEF BusTypes, Event
  <2>5. accepted = Weight(queue) + Weight(pending) + Absorbed + settled
    BY <1>0, <2>2, <2>3, <2>4, <1>3 DEF NothingVanishes
  <2>6. accepted = Weight(Tail(evs)) + Absorbed + (cur'.n + settled')
    <3>1. accepted = Weight(evs) + Absorbed + settled
      BY <1>3, <1>4, <2>5
    <3>2. Weight(evs) = Head(evs).n + Weight(Tail(evs))
      BY <1>5
    <3> DEFINE h == Head(evs).n
               w == Weight(Tail(evs))
               c == cur'.n + settled'
    <3>3. accepted = (h + w) + Absorbed + settled /\ c = h + settled
      BY <2>3, <3>1, <3>2
    <3>4. h \in Nat /\ w \in Nat
      BY <2>1, <2>4
    <3> HIDE DEF h, w, c
    <3>5. accepted = w + Absorbed + c
      BY <2>2, <2>4, <3>3, <3>4
    <3> QED BY <3>5 DEF w, c
  <2>7. accepted' = Weight(queue') + Weight(pending') + cur'.n + out'.n + Absorbed' + settled'
    BY <1>1, <2>1, <2>2, <2>3, <2>4, <2>6
  <2> QED BY <2>7 DEF NothingVanishes
<1> QED BY <1>8, <1>9, <1>10, <1>11, <1>12, <1>13 DEF IInv

----------------------------------------------------------------------------
(* Windows that close, and the stages of the worker.                       *)

(* A window that ends hands its summary on, or had nothing to sum up. *)
LEMMA CloseWindowKeeps ==
  ASSUME IInv, NEW s \in Sources, pc \in {"tick", "aggregate", "shutdown"}, CloseWindow(s, pc),
         UNCHANGED <<Env, queue, pending, ret, now, cur, attempt, timerAt, heldVars, wake, history>>
  PROVE  IInv'
<1>0. BusTypes /\ Bounds /\ Hands /\ Drained /\ Ids /\ NothingVanishes
  BY DEF IInv
<1>1. UNCHANGED <<clock, emitting, accepted, late, mutedUntil, closing, cancelled, queue, pending, ret, now,
                  cur, attempt, timerAt, held, heldTotal, wake, settled, lastDirect>>
  BY DEF Env, emitVars, closeVars, heldVars, history
<1>2. out = NoEvent /\ windows[s] \in Window /\ windows \in [Sources -> Window]
  BY <1>0 DEF Hands, BusTypes
<1>3. NoWindow \in Window /\ Held(NoWindow) = 0
  BY DEF NoWindow, Window, Held, Never
<1>4. windows' = [windows EXCEPT ![s] = NoWindow]
  BY DEF CloseWindow
<1>5. /\ windows' \in [Sources -> Window] /\ Absorbed' + Held(windows[s]) = Absorbed
      /\ Absorbed \in Nat /\ Absorbed' \in Nat
  <2>1. windows' \in [Sources -> Window] /\ Absorbed' + Held(windows[s]) = Absorbed + Held(NoWindow)
    BY <1>2, <1>3, <1>4, AbsorbedChange
  <2>2. Absorbed \in Nat
    BY <1>2, AbsorbedNat
  <2>3. Absorbed' \in Nat
    <3>1. \A x \in Sources : [y \in Sources |-> windows'[y].count - windows'[y].first][x] \in Nat
      BY <2>1 DEF Window
    <3> QED BY <3>1, BusIs, SumNat DEF Absorbed, Total, BusAssumption
  <2> QED BY <1>3, <2>1, <2>2, <2>3
<1>6. /\ out' \in Event /\ out'.id = 0 /\ out'.n = Held(windows[s]) /\ Held(windows[s]) \in Nat
      /\ pc' \in {"quiet", pc} /\ (pc' # "quiet" => out' = NoEvent /\ then' = then) /\ (pc' = "quiet" => then' = pc)
  <2>1. Held(windows[s]) \in Nat /\ (~windows[s].more => Held(windows[s]) = 0)
    BY <1>2 DEF Held, Window
  <2>2. CASE windows[s].more
    <3>1. out' = Summary(s) /\ pc' = "quiet" /\ then' = pc
      BY <2>2 DEF CloseWindow, PassTo
    <3>2. Summary(s) \in Event /\ Summary(s).id = 0 /\ Summary(s).n = Held(windows[s])
      BY <2>1 DEF Summary, Event, Keys, Held
    <3> QED BY <2>1, <3>1, <3>2
  <2>3. CASE ~windows[s].more
    <3>1. out' = out /\ then' = then /\ pc' = pc
      BY <2>3 DEF CloseWindow
    <3>2. NoEvent \in Event /\ NoEvent.id = 0 /\ NoEvent.n = 0
      BY DEF NoEvent, Event, Keys
    <3> QED BY <1>2, <2>1, <2>3, <3>1, <3>2
  <2> QED BY <2>2, <2>3
<1>7. At = pc /\ At' = pc
  BY <1>6 DEF At
<1>8. BusTypes'
  BY <1>0, <1>1, <1>5, <1>6 DEF BusTypes, Labels
<1>9. Bounds'
  BY <1>0, <1>1 DEF Bounds
<1>10. Hands'
  BY <1>0, <1>1, <1>6, <1>7 DEF Hands, Resting
<1>11. Drained'
  <2>1. ~Ended'
    BY <1>6 DEF Ended
  <2> QED BY <1>0, <1>1, <1>7, <2>1 DEF Drained
<1>12. Ids'
  <2>1. Items' = Items /\ Items \in Seq(Event) /\ DOMAIN Items' = DOMAIN Items
    BY <1>0, <1>1, ItemsAre DEF Items
  <2>2. \A i \in DOMAIN Items : out'.id < Items[i].id
    BY <1>0, <1>2, <1>6 DEF Ids, NoEvent
  <2>3. out'.id <= accepted
    BY <1>0, <1>6 DEF BusTypes
  <2> QED BY <1>0, <1>1, <1>6, <2>1, <2>2, <2>3 DEF Ids
<1>13. NothingVanishes'
  <2>1. out.n = 0 /\ out'.n \in Nat /\ Absorbed' + out'.n = Absorbed
    BY <1>2, <1>5, <1>6 DEF NoEvent
  <2>2. cur.n \in Nat /\ settled \in Nat /\ Weight(queue) \in Nat /\ Weight(pending) \in Nat
    BY <1>0, WeightNat DEF BusTypes, Event
  <2>3. accepted = Weight(queue) + Weight(pending) + cur.n + Absorbed + settled
    <3> DEFINE q == Weight(queue)
               p == Weight(pending)
    <3>1. accepted = q + p + cur.n + out.n + Absorbed + settled
      BY <1>0 DEF NothingVanishes
    <3> HIDE DEF q, p
    <3>2. accepted = q + p + cur.n + Absorbed + settled
      BY <1>5, <2>1, <2>2, <3>1 DEF q, p
    <3> QED BY <3>2 DEF q, p
  <2>4. accepted' = Weight(queue') + Weight(pending') + cur'.n + out'.n + Absorbed' + settled'
    <3> DEFINE q == Weight(queue)
               p == Weight(pending)
    <3>1. Weight(queue') = q /\ Weight(pending') = p /\ cur'.n = cur.n /\ settled' = settled /\ accepted' = accepted
      BY <1>1
    <3>2. q \in Nat /\ p \in Nat /\ accepted = q + p + cur.n + Absorbed + settled
      BY <2>2, <2>3
    <3> HIDE DEF q, p
    <3>3. accepted = q + p + cur.n + out'.n + Absorbed' + settled
      BY <1>5, <2>1, <2>2, <3>2
    <3> QED BY <3>1, <3>3
  <2> QED BY <2>4 DEF NothingVanishes
<1> QED BY <1>8, <1>9, <1>10, <1>11, <1>12, <1>13 DEF IInv

LEMMA TickWindowKeeps ==
  ASSUME IInv, TickWindow PROVE IInv'
<1>1. pc = "tick"
  BY DEF TickWindow
<1>2. PICK s \in Sources : CloseWindow(s, pc)
  BY DEF TickWindow, Expired
<1> QED BY <1>1, <1>2, CloseWindowKeeps DEF TickWindow

LEMMA ShutdownWindowKeeps ==
  ASSUME IInv, ShutdownWindow PROVE IInv'
<1>1. pc = "shutdown"
  BY DEF ShutdownWindow
<1>2. PICK s \in Sources : CloseWindow(s, pc)
  BY DEF ShutdownWindow
<1> QED BY <1>1, <1>2, CloseWindowKeeps DEF ShutdownWindow

(* A step of the worker behind the queue keeps the balance when it keeps *)
(* the sum of what it has in hand, the windows and what is settled.      *)
Hand == cur.n + out.n + Absorbed + settled

LEMMA BalanceKept ==
  ASSUME BusTypes, NothingVanishes, UNCHANGED <<accepted, queue, pending>>,
         cur' \in Event, out' \in Event, settled' \in Nat, Absorbed' \in Nat, Hand' = Hand
  PROVE  NothingVanishes'
<1> DEFINE q == Weight(queue)
           p == Weight(pending)
<1>1. q \in Nat /\ p \in Nat /\ Weight(queue') = q /\ Weight(pending') = p
  BY WeightNat DEF BusTypes
<1>2. cur.n \in Nat /\ out.n \in Nat /\ settled \in Nat /\ Absorbed \in Nat /\ cur'.n \in Nat /\ out'.n \in Nat
  BY AbsorbedNat DEF BusTypes, Event
<1>3. accepted = q + p + cur.n + out.n + Absorbed + settled
  BY DEF NothingVanishes
<1>4. cur'.n + out'.n + Absorbed' + settled' = cur.n + out.n + Absorbed + settled
  BY DEF Hand
<1> HIDE DEF q, p
<1>5. accepted = q + p + cur'.n + out'.n + Absorbed' + settled'
  BY <1>1, <1>2, <1>3, <1>4
<1>6. accepted' = Weight(queue') + Weight(pending') + cur'.n + out'.n + Absorbed' + settled'
  BY <1>1, <1>5
<1> QED BY <1>6 DEF NothingVanishes

LEMMA SameRest ==
  \A a, b, c, d \in Nat : a + c = b + d /\ c = d => a = b
OBVIOUS

LEMMA NoEventIs == NoEvent \in Event /\ NoEvent.id = 0 /\ NoEvent.n = 0
BY DEF NoEvent, Event, Keys

(* How ids stay in order when the worker takes out of its own hand. *)
LEMMA IdsKept ==
  ASSUME BusTypes, Ids, UNCHANGED <<accepted, queue, pending>>,
         cur' \in {cur, NoEvent}, out' \in {cur, out, NoEvent} \/ (out' \in Event /\ out'.id = 0),
         out' = cur /\ cur.id # 0 => cur' = NoEvent,
         out' = out /\ out.id # 0 => cur' = cur \/ cur' = NoEvent,
         lastDirect' = lastDirect \/ (lastDirect' = out.id /\ out.id # 0 /\ out' = NoEvent)
  PROVE  Ids'
<1>1. Items' = Items /\ Items \in Seq(Event) /\ DOMAIN Items' = DOMAIN Items
  BY ItemsAre DEF Items
<1>2. \A i \in DOMAIN Items : Items[i].id \in Nat
  BY <1>1, SeqFinite DEF Event
<1>3. /\ cur.id \in Nat /\ out.id \in Nat /\ lastDirect \in Nat /\ accepted \in Nat
      /\ cur \in Event /\ out \in Event
  BY DEF BusTypes, Event
<1>4. /\ \A i, j \in DOMAIN Items : i < j => Items[i].id < Items[j].id
      /\ \A i \in DOMAIN Items : /\ lastDirect < Items[i].id /\ Items[i].id <= accepted
                                 /\ cur.id < Items[i].id /\ out.id < Items[i].id
      /\ cur.id <= accepted /\ out.id <= accepted /\ lastDirect <= accepted
      /\ cur.id # 0 => lastDirect < cur.id
      /\ out.id # 0 => lastDirect < out.id /\ cur = NoEvent
  BY DEF Ids
<1>5. out'.id \in {0, cur.id, out.id} /\ cur'.id \in {0, cur.id} /\ lastDirect' \in {lastDirect, out.id}
  BY NoEventIs
<1>6. \A i \in DOMAIN Items : lastDirect' < Items[i].id /\ cur'.id < Items[i].id /\ out'.id < Items[i].id
  BY <1>2, <1>3, <1>4, <1>5
<1>7. cur'.id <= accepted /\ out'.id <= accepted /\ lastDirect' <= accepted
  BY <1>3, <1>4, <1>5
<1>8. cur'.id # 0 => lastDirect' < cur'.id
  BY <1>3, <1>4, <1>5, NoEventIs
<1>9. out'.id # 0 => lastDirect' < out'.id /\ cur' = NoEvent
  BY <1>3, <1>4, NoEventIs
<1> QED BY <1>1, <1>4, <1>6, <1>7, <1>8, <1>9 DEF Ids

(* The event opens a window, is counted in one, or passes. *)
LEMMA AggregateKeeps ==
  ASSUME IInv, Aggregate PROVE IInv'
<1> USE DEF Env, emitVars, closeVars, heldVars, history
<1>0. BusTypes /\ Bounds /\ Hands /\ Drained /\ Ids /\ NothingVanishes
  BY DEF IInv
<1>1. /\ pc = "aggregate" /\ out = NoEvent /\ cur \in Event /\ windows \in [Sources -> Window]
      /\ UNCHANGED <<clock, emitting, accepted, late, mutedUntil, closing, cancelled, queue, pending, ret,
                     attempt, timerAt, held, heldTotal, wake, settled, lastDirect>>
  BY <1>0 DEF Aggregate, Hands, BusTypes
<1>2. now \in 0..MaxTime /\ MaxTime \in Nat /\ settled \in Nat /\ AggregateWindow \in Nat \ {0} /\ now \in Nat
  BY <1>0, BusIs DEF Bounds, BusAssumption, BusTypes
(* The three ways to be through with the event in hand. *)
<1>a. ASSUME /\ windows' \in [Sources -> Window] /\ cur' = NoEvent /\ now' = 0
             /\ \/ pc' = "quiet" /\ out' = cur /\ then' = "top"
                \/ pc' = "top" /\ out' = out /\ then' = then
             /\ Absorbed' \in Nat /\ out'.n + Absorbed' = cur.n + Absorbed
      PROVE  IInv'
  <2>1. BusTypes'
    BY <1>0, <1>1, <1>a, NoEventIs DEF BusTypes, Labels
  <2>2. Bounds'
    BY <1>0, <1>1, <1>2, <1>a DEF Bounds
  <2>3. Hands'
    BY <1>0, <1>1, <1>a DEF Hands, Resting, At
  <2>4. Drained'
    BY <1>a DEF Drained, Ended, At
  <2>5. Ids'
    BY <1>0, <1>1, <1>a, IdsKept
  <2>6. Hand' = Hand
    <3>1. cur.n \in Nat /\ out.n = 0 /\ out'.n \in Nat /\ cur'.n = 0 /\ Absorbed \in Nat
      BY <1>1, <1>a, NoEventIs, AbsorbedNat DEF Event
    <3> QED BY <1>1, <1>2, <1>a, <3>1 DEF Hand
  <2>7. NothingVanishes'
    BY <1>0, <1>1, <1>2, <1>a, <2>1, <2>6, BalanceKept, NoEventIs DEF BusTypes
  <2> QED BY <2>1, <2>2, <2>3, <2>4, <2>5, <2>7 DEF IInv
<1>3. CASE cur.key # "unauthorized"
  <2>1. pc' = "quiet" /\ out' = cur /\ then' = "top" /\ cur' = NoEvent /\ now' = 0 /\ windows' = windows
    BY <1>3 DEF Aggregate, PassTo, Consumed
  <2>2. Absorbed' = Absorbed /\ Absorbed \in Nat
    BY <1>1, <2>1, AbsorbedNat DEF Absorbed
  <2> QED BY <1>a, <1>1, <2>1, <2>2
<1>4. CASE cur.key = "unauthorized"
  <2> DEFINE s == cur.src
             w == windows[s]
  <2>1. s \in Sources /\ w \in Window /\ cur.n \in Nat
    BY <1>1, <1>4 DEF Event
  <2>2. CASE w # NoWindow /\ now >= w.until
    <3>1. ~(now < w.until)
      BY <1>2, <2>1, <2>2 DEF Window
    <3>2. CloseWindow(s, "aggregate") /\ cur' = cur /\ now' = now
      BY <1>4, <2>2, <3>1, Zenon DEF Aggregate
    <3> QED BY <1>1, <2>1, <3>2, CloseWindowKeeps
  <2>3. CASE w # NoWindow /\ now < w.until
    <3> DEFINE x == [until |-> w.until, count |-> w.count + cur.n, first |-> w.first, more |-> TRUE]
    <3>0. ~(now >= w.until)
      BY <1>2, <2>1, <2>3 DEF Window
    <3>1. /\ windows' = [windows EXCEPT ![s] = x]
          /\ pc' = "top" /\ cur' = NoEvent /\ now' = 0 /\ out' = out /\ then' = then
      BY <1>4, <2>3, <3>0, Zenon DEF Aggregate, Consumed
    <3>2. w \in [until : Int, count : Nat, first : Nat, more : BOOLEAN] /\ w.first <= w.count /\ w.until \in Nat
      BY <2>1, <2>3 DEF Window
    <3>4. x \in Window /\ Held(x) = Held(w) + cur.n
      BY <2>1, <3>2 DEF Window, Held
    <3> HIDE DEF x
    <3>5. windows' \in [Sources -> Window] /\ Absorbed' + Held(w) = Absorbed + Held(x)
      BY <1>1, <2>1, <3>1, <3>4, AbsorbedChange
    <3>6. Absorbed \in Nat /\ Held(w) \in Int /\ Absorbed' \in Nat
      <4>1. \A y \in Sources : [z \in Sources |-> windows'[z].count - windows'[z].first][y] \in Nat
        BY <3>5 DEF Window
      <4>2. Absorbed' \in Nat
        BY <4>1, BusIs, SumNat DEF Absorbed, Total, BusAssumption
      <4> QED BY <1>1, <3>2, <4>2, AbsorbedNat DEF Held
    <3>7. Absorbed' = cur.n + Absorbed
      BY <2>1, <3>4, <3>5, <3>6
    <3> QED BY <1>a, <1>1, <3>1, <3>5, <3>6, <3>7, NoEventIs
  <2>4. CASE w = NoWindow
    <3> DEFINE x == [until |-> now + AggregateWindow, count |-> cur.n, first |-> cur.n, more |-> FALSE]
    <3>1. /\ windows' = [windows EXCEPT ![s] = x]
          /\ pc' = "quiet" /\ out' = cur /\ then' = "top" /\ cur' = NoEvent /\ now' = 0
      BY <1>4, <2>4 DEF Aggregate, Consumed, PassTo
    <3>2. x \in Window /\ Held(x) = 0 /\ Held(w) = 0
      BY <1>2, <2>1, <2>4 DEF Window, Held, NoWindow
    <3> HIDE DEF x
    <3>3. windows' \in [Sources -> Window] /\ Absorbed' + Held(w) = Absorbed + Held(x)
      BY <1>1, <2>1, <3>1, <3>2, AbsorbedChange
    <3>4. Absorbed \in Nat /\ Absorbed' \in Nat
      <4>1. \A y \in Sources : [z \in Sources |-> windows'[z].count - windows'[z].first][y] \in Nat
        BY <3>3 DEF Window
      <4>2. Absorbed' \in Nat
        BY <4>1, BusIs, SumNat DEF Absorbed, Total, BusAssumption
      <4> QED BY <1>1, <4>2, AbsorbedNat
    <3>5. Absorbed' = Absorbed
      BY <3>2, <3>3, <3>4, SameRest
    <3> QED BY <1>a, <1>1, <3>1, <3>3, <3>4, <3>5
  <2>5. now < w.until \/ now >= w.until
    BY <1>2, <2>1 DEF Window
  <2> QED BY <2>2, <2>3, <2>4, <2>5
<1> QED BY <1>3, <1>4

LEMMA AbsorbedSame ==
  ASSUME BusTypes, windows' = windows
  PROVE  Absorbed' = Absorbed /\ Absorbed \in Nat /\ Absorbed' \in Nat
BY AbsorbedNat DEF Absorbed, BusTypes

LEMMA FilterKeeps ==
  ASSUME IInv, Filter PROVE IInv'
<1> USE DEF Env, emitVars, closeVars, heldVars, history
<1>0. BusTypes /\ Bounds /\ Hands /\ Drained /\ Ids /\ NothingVanishes
  BY DEF IInv
<1>1. /\ pc = "filter" /\ out = NoEvent /\ cur \in Event /\ settled \in Nat /\ cur.n \in Nat
      /\ UNCHANGED <<clock, emitting, accepted, late, mutedUntil, closing, cancelled, queue, pending, ret, then, out,
                     attempt, windows, timerAt, held, heldTotal, wake, lastDirect>>
  BY <1>0 DEF Filter, Hands, BusTypes, Event
<1>2. \/ pc' = "top" /\ settled' = settled + cur.n /\ cur' = NoEvent /\ now' = 0
      \/ pc' = "aggregate" /\ now' = clock /\ settled' = settled /\ cur' = cur
  BY DEF Filter, Consumed
<1>3. BusTypes'
  BY <1>0, <1>1, <1>2, NoEventIs DEF BusTypes, Labels
<1>4. Bounds'
  <2>1. now' \in 0..MaxTime
    BY <1>0, <1>2, BusIs DEF Bounds, BusAssumption
  <2> QED BY <1>0, <1>1, <2>1 DEF Bounds
<1>5. Hands'
  BY <1>0, <1>1, <1>2 DEF Hands, Resting, At
<1>6. Drained'
  BY <1>2 DEF Drained, Ended, At
<1>7. Ids'
  BY <1>0, <1>1, <1>2, IdsKept
<1>8. NothingVanishes'
  <2>1. Hand' = Hand
    BY <1>0, <1>1, <1>2, NoEventIs, AbsorbedSame DEF Hand
  <2> QED BY <1>0, <1>1, <1>3, <2>1, BalanceKept, AbsorbedSame DEF BusTypes
<1> QED BY <1>3, <1>4, <1>5, <1>6, <1>7, <1>8 DEF IInv

LEMMA TickHeldKeeps ==
  ASSUME IInv, TickHeld PROVE IInv'
<1> USE DEF Env, emitVars, closeVars, history
<1>0. BusTypes /\ Bounds /\ Hands /\ Drained /\ Ids /\ NothingVanishes
  BY DEF IInv
<1>1. /\ pc = "tick" /\ out = NoEvent /\ ret \in {"arm", "filter"} /\ now' = 0
      /\ UNCHANGED <<clock, emitting, accepted, late, mutedUntil, closing, cancelled, queue, pending, ret, cur,
                     windows, timerAt, wake, settled, lastDirect>>
  BY <1>0 DEF TickHeld, Hands, BusTypes
<1>2. \/ /\ pc' = "deliver" /\ attempt' = 0 /\ then' = ret
         /\ out' = [id |-> 0, key |-> "digest", src |-> "none", n |-> 0]
      \/ pc' = ret /\ out' = out /\ attempt' = attempt /\ then' = then
  BY DEF TickHeld
<1>3. \/ held' = << >> /\ heldTotal' = 0
      \/ held' = held /\ heldTotal' = heldTotal
  BY DEF TickHeld, heldVars
<1>4. out' \in Event /\ out'.id = 0 /\ out'.n = 0 /\ out.n = 0
  BY <1>1, <1>2, NoEventIs DEF Event, Keys
<1>5. At = "tick" /\ At' = ret
  BY <1>1, <1>2 DEF At
<1>6. BusTypes'
  BY <1>0, <1>1, <1>2, <1>4 DEF BusTypes, Labels
<1>7. Bounds'
  <2>1. held' \in Seq(Keys) /\ heldTotal' \in Nat /\ Len(held') <= HeldCapacity /\ Len(held') <= heldTotal'
    <3>1. << >> \in Seq(Keys) /\ Len(<< >>) = 0 /\ 0 <= HeldCapacity
      BY BusIs, EmptySeq DEF BusAssumption
    <3>2. held \in Seq(Keys) /\ heldTotal \in Nat /\ Len(held) <= HeldCapacity /\ Len(held) <= heldTotal
      BY <1>0 DEF Bounds
    <3>3. CASE held' = << >> /\ heldTotal' = 0
      BY <3>1, <3>3
    <3>4. CASE held' = held /\ heldTotal' = heldTotal
      BY <3>2, <3>4
    <3> QED BY <1>3, <3>3, <3>4
  <2>2. now' \in 0..MaxTime /\ attempt' \in 0..MaxRetries
    BY <1>0, <1>1, <1>2, BusIs DEF Bounds, BusAssumption
  <2> QED BY <1>0, <1>1, <2>1, <2>2 DEF Bounds
<1>8. Hands'
  BY <1>0, <1>1, <1>2, <1>5 DEF Hands, Resting
<1>9. Drained'
  BY <1>1, <1>2, <1>5 DEF Drained, Ended
<1>10. Ids'
  BY <1>0, <1>1, <1>4, IdsKept
<1>11. NothingVanishes'
  <2>1. Hand' = Hand
    BY <1>1, <1>4, AbsorbedSame, <1>0 DEF Hand
  <2> QED BY <1>0, <1>1, <1>6, <2>1, BalanceKept, AbsorbedSame DEF BusTypes
<1> QED BY <1>6, <1>7, <1>8, <1>9, <1>10, <1>11 DEF IInv

(* The event is held back, the oldest held one dropped, or goes out. *)
LEMMA QuietStageKeeps ==
  ASSUME IInv, QuietStage PROVE IInv'
<1> USE DEF Env, emitVars, closeVars
<1>0. BusTypes /\ Bounds /\ Hands /\ Drained /\ Ids /\ NothingVanishes
  BY DEF IInv
<1>1. /\ pc = "quiet" /\ out \in Event /\ settled \in Nat /\ out.n \in Nat
      /\ then \in {"tick", "arm", "filter", "top", "aggregate", "shutdown"}
      /\ UNCHANGED <<clock, emitting, accepted, late, mutedUntil, closing, cancelled, queue, pending, ret, then, now,
                     cur, windows, timerAt, wake, lastDirect>>
  BY <1>0 DEF QuietStage, BusTypes, Event
<1>2. \/ pc' = "deliver" /\ attempt' = 0 /\ held' = held /\ heldTotal' = heldTotal /\ out' = out /\ settled' = settled
      \/ /\ pc' = then /\ heldTotal' = heldTotal + 1 /\ attempt' = attempt
         /\ held' = Append(IF Len(held) >= HeldCapacity THEN Tail(held) ELSE held, out.key)
         /\ settled' = settled + out.n /\ out' = NoEvent
  BY DEF QuietStage, heldVars
<1>3. At = then /\ At' = then
  BY <1>1, <1>2 DEF At
<1>4. BusTypes'
  BY <1>0, <1>1, <1>2, NoEventIs DEF BusTypes, Labels
<1>5. held' \in Seq(Keys) /\ heldTotal' \in Nat /\ Len(held') <= HeldCapacity /\ Len(held') <= heldTotal'
  <2>1. held \in Seq(Keys) /\ heldTotal \in Nat /\ Len(held) <= HeldCapacity /\ Len(held) <= heldTotal
        /\ HeldCapacity \in Nat \ {0} /\ Len(held) \in Nat
    BY <1>0, BusIs DEF Bounds, BusAssumption
  <2>2. CASE held' = held /\ heldTotal' = heldTotal
    BY <2>1, <2>2
  <2>3. CASE /\ heldTotal' = heldTotal + 1
             /\ held' = Append(IF Len(held) >= HeldCapacity THEN Tail(held) ELSE held, out.key)
    <3> DEFINE h == IF Len(held) >= HeldCapacity THEN Tail(held) ELSE held
    <3>1. h \in Seq(Keys) /\ Len(h) \in Nat /\ Len(h) < HeldCapacity /\ Len(h) <= Len(held)
      <4>1. CASE Len(held) >= HeldCapacity
        <5>1. held # << >>
          BY <2>1, <4>1
        <5>2. Tail(held) \in Seq(Keys) /\ Len(Tail(held)) = Len(held) - 1
          BY <2>1, <5>1, HeadTailProperties
        <5> QED BY <2>1, <4>1, <5>2
      <4>2. CASE ~(Len(held) >= HeldCapacity)
        BY <2>1, <4>2
      <4> QED BY <4>1, <4>2
    <3>2. out.key \in Keys
      BY <1>1 DEF Event
    <3> HIDE DEF h
    <3>3. Append(h, out.key) \in Seq(Keys) /\ Len(Append(h, out.key)) = Len(h) + 1
      BY <3>1, <3>2, AppendProperties
    <3>4. held' = Append(h, out.key)
      BY <2>3 DEF h
    <3>5. heldTotal' = heldTotal + 1 /\ Len(held') = Len(h) + 1
      BY <2>3, <3>3, <3>4
    <3>6. Len(held') <= HeldCapacity /\ Len(held') <= heldTotal' /\ heldTotal' \in Nat
      BY <2>1, <3>1, <3>5
    <3> QED BY <3>3, <3>4, <3>6
  <2> QED BY <1>2, <2>2, <2>3
<1>6. Bounds'
  <2>1. attempt' \in 0..MaxRetries
    BY <1>0, <1>2, BusIs DEF Bounds, BusAssumption
  <2> QED BY <1>0, <1>1, <1>5, <2>1 DEF Bounds
<1>7. Hands'
  BY <1>0, <1>1, <1>2, <1>3 DEF Hands, Resting
<1>8. Drained'
  <2>1. ~Ended'
    BY <1>1, <1>2 DEF Ended
  <2> QED BY <1>0, <1>1, <1>3, <2>1 DEF Drained
<1>9. Ids'
  BY <1>0, <1>1, <1>2, IdsKept, NoEventIs DEF Ids
<1>10. NothingVanishes'
  <2>1. Hand' = Hand
    <3>1. cur.n \in Nat /\ cur' = cur
      BY <1>0, <1>1 DEF BusTypes, Event
    <3> QED BY <1>0, <1>1, <1>2, <3>1, NoEventIs, AbsorbedSame DEF Hand
  <2> QED BY <1>0, <1>1, <1>4, <2>1, BalanceKept, AbsorbedSame DEF BusTypes
<1> QED BY <1>4, <1>6, <1>7, <1>8, <1>9, <1>10 DEF IInv

(* A send ends, well or badly, or is tried again. *)
LEMMA SendKeeps ==
  ASSUME IInv, Send PROVE IInv'
<1> USE DEF Env, emitVars, closeVars, heldVars
<1>0. BusTypes /\ Bounds /\ Hands /\ Drained /\ Ids /\ NothingVanishes
  BY DEF IInv
<1>1. /\ pc = "deliver" /\ out \in Event /\ settled \in Nat /\ out.n \in Nat
      /\ then \in {"tick", "arm", "filter", "top", "aggregate", "shutdown"}
      /\ UNCHANGED <<clock, emitting, accepted, late, mutedUntil, closing, cancelled, queue, pending, ret, then, now,
                     cur, windows, timerAt, wake, held, heldTotal>>
  BY <1>0 DEF Send, SendOk, SendFail, BusTypes, Event
<1>2. /\ \/ pc' = then /\ settled' = settled + out.n /\ out' = NoEvent /\ attempt' = attempt
         \/ pc' = pc /\ settled' = settled /\ out' = out /\ attempt' = attempt + 1 /\ ~(attempt >= MaxRetries)
      /\ (lastDirect' = lastDirect \/ (lastDirect' = out.id /\ out.id # 0 /\ out' = NoEvent))
  BY DEF Send, SendOk, SendFail, Settle
<1>3. At = then /\ At' = then
  BY <1>1, <1>2 DEF At
<1>4. BusTypes'
  BY <1>0, <1>1, <1>2, NoEventIs DEF BusTypes, Labels, Event
<1>5. Bounds'
  <2>1. attempt' \in 0..MaxRetries
    BY <1>0, <1>2, BusIs DEF Bounds, BusAssumption
  <2> QED BY <1>0, <1>1, <2>1 DEF Bounds
<1>6. Hands'
  BY <1>0, <1>1, <1>2, <1>3 DEF Hands, Resting
<1>7. Drained'
  <2>1. ~Ended'
    BY <1>1, <1>2 DEF Ended
  <2> QED BY <1>0, <1>1, <1>3, <2>1 DEF Drained
<1>8. Ids'
  BY <1>0, <1>1, <1>2, IdsKept, NoEventIs DEF Ids
<1>9. NothingVanishes'
  <2>1. Hand' = Hand
    <3>1. cur.n \in Nat /\ cur' = cur
      BY <1>0, <1>1 DEF BusTypes, Event
    <3> QED BY <1>0, <1>1, <1>2, <3>1, NoEventIs, AbsorbedSame DEF Hand
  <2> QED BY <1>0, <1>1, <1>4, <2>1, BalanceKept, AbsorbedSame DEF BusTypes
<1> QED BY <1>4, <1>5, <1>6, <1>7, <1>8, <1>9 DEF IInv

LEMMA ShutdownDoneKeeps ==
  ASSUME IInv, ShutdownDone PROVE IInv'
<1> USE DEF Env, emitVars, closeVars, history
<1>0. BusTypes /\ Bounds /\ Hands /\ Drained /\ Ids /\ NothingVanishes
  BY DEF IInv
<1>1. /\ pc = "shutdown" /\ pc' = "done" /\ held' = << >> /\ heldTotal' = 0
      /\ (\A s \in Sources : windows[s] = NoWindow) /\ UNCHANGED Stock
      /\ UNCHANGED <<clock, emitting, late, mutedUntil, closing, cancelled, ret, then, now, attempt, timerAt, wake>>
  BY DEF ShutdownDone, Stock
<1>2. Ids' /\ NothingVanishes'
  BY <1>0, <1>1, StockStays
<1>3. BusTypes'
  BY <1>0, <1>1 DEF BusTypes, Labels, Stock
<1>4. Bounds'
  <2>1. held' \in Seq(Keys) /\ heldTotal' \in Nat /\ Len(held') <= HeldCapacity /\ Len(held') <= heldTotal'
    BY <1>1, BusIs, EmptySeq DEF BusAssumption
  <2> QED BY <1>0, <1>1, <2>1 DEF Bounds, Stock
<1>5. Hands'
  BY <1>0, <1>1 DEF Hands, Resting, At, Stock
<1>6. Drained'
  BY <1>0, <1>1 DEF Drained, Ended, At, Stock
<1> QED BY <1>2, <1>3, <1>4, <1>5, <1>6 DEF IInv

----------------------------------------------------------------------------
(* The theorems.                                                           *)

(* A sum of zeros. *)
LEMMA SumNone ==
  ASSUME NEW w, NEW S, IsFiniteSet(S), \A x \in S : w[x] = 0
  PROVE  Total(w, S) = 0
<1> DEFINE B == {T \in SUBSET S : Total(w, T) # 0}
<1>1. SUFFICES ASSUME B # {} PROVE FALSE
  OBVIOUS
<1>2. PICK T \in B : \A x \in T : T \ {x} \notin B
  <2>1. B \subseteq SUBSET S
    OBVIOUS
  <2> HIDE DEF B
  <2> QED BY <1>1, <2>1, LeastBad
<1>3. T \in SUBSET S /\ IsFiniteSet(T) /\ Total(w, T) # 0
  BY <1>2, FS_Subset
<1>4. T # {}
  BY <1>3, SumEmpty
<1>5. Some(T) \in T /\ Total(w, T) = w[Some(T)] + Total(w, T \ {Some(T)})
  BY <1>3, <1>4, SumSome
<1>6. Total(w, T \ {Some(T)}) = 0
  <2>1. T \ {Some(T)} \in SUBSET S
    BY <1>3
  <2> QED BY <1>2, <1>5, <2>1
<1>7. w[Some(T)] = 0
  BY <1>3, <1>5
<1> QED BY <1>3, <1>5, <1>6, <1>7

LEMMA InitHolds == ASSUME Init PROVE IInv
<1> USE BusIs DEF BusAssumption, Init
<1>1. NoEvent \in Event /\ NoWindow \in Window
  BY NoEventIs DEF NoWindow, Window, Never
<1>2. << >> \in Seq(Event) /\ << >> \in Seq(Keys) /\ Len(<< >>) = 0
  BY EmptySeq
<1>3. BusTypes
  BY <1>1, <1>2 DEF BusTypes, Labels
<1>4. Bounds
  BY <1>2 DEF Bounds, Never
<1>5. Hands
  BY DEF Hands, Resting, At
<1>6. Drained
  BY DEF Drained, Ended, At
<1>7. Items = << >> /\ DOMAIN << >> = {}
  <2>1. Items = << >>
    BY <1>2, ConcatEmptySeq DEF Items
  <2> QED BY <2>1, <1>2
<1>8. Ids
  BY <1>7, NoEventIs DEF Ids
<1>9. Absorbed = 0
  <2>1. \A s \in Sources : [x \in Sources |-> windows[x].count - windows[x].first][s] = 0
    BY DEF NoWindow
  <2> QED BY <2>1, SumNone DEF Absorbed, Total
<1>10. NothingVanishes
  BY <1>9, WeightEmpty, NoEventIs DEF NothingVanishes
<1> QED BY <1>3, <1>4, <1>5, <1>6, <1>8, <1>10 DEF IInv

(* A step that leaves all of it alone. *)
LEMMA StutterKeeps == ASSUME IInv, UNCHANGED vars PROVE IInv'
<1> USE DEF vars, emitVars, workerVars, heldVars, closeVars, history
<1>1. UNCHANGED Stock
  BY DEF Stock
<1>2. Ids' /\ NothingVanishes'
  BY <1>1, StockStays DEF IInv
<1>3. BusTypes' /\ Bounds'
  BY DEF IInv, BusTypes, Bounds
<1>4. Hands' /\ Drained'
  BY DEF IInv, Hands, Drained, Ended, Resting, At
<1> QED BY <1>2, <1>3, <1>4 DEF IInv

(* Every step of the bus keeps the invariant. *)
LEMMA StepKeeps == ASSUME IInv, [Next]_vars PROVE IInv'
<1>1. ASSUME NEW t \in Templates, EmitCheck(t) PROVE IInv'
  BY <1>1, EmitCheckKeeps
<1>2. ASSUME NEW t \in Templates, EmitSend(t) PROVE IInv'
  BY <1>2, EmitSendKeeps
<1>3. ASSUME NEW d \in MuteLengths, Mute(d) PROVE IInv'
  BY <1>3, MuteKeeps
<1>4. CASE Unmute \/ Close \/ Cancel \/ Tick
  BY <1>4, OthersKeep
<1>5. CASE Worker
  BY <1>5, MovesKeep, WaitEventKeeps, WaitClosingKeeps, PickKeeps, TickWindowKeeps, TickHeldKeeps, FilterKeeps,
     AggregateKeeps, QuietStageKeeps, ShutdownWindowKeeps, ShutdownDoneKeeps DEF Worker
<1>6. CASE Send
  BY <1>6, SendKeeps
<1>7. CASE UNCHANGED vars
  BY <1>7, StutterKeeps
<1> QED BY <1>1, <1>2, <1>3, <1>4, <1>5, <1>6, <1>7 DEF Next

(* The inductive invariant holds in every reachable state of the bus. *)
THEOREM Invariance == Spec => []IInv
<1>1. Init => IInv
  BY InitHolds
<1>2. IInv /\ [Next]_vars => IInv'
  BY StepKeeps
<1> QED BY <1>1, <1>2, PTL DEF Spec

(* An event stands for no more occurrences than its sequence does. *)
LEMMA WeightOver ==
  ASSUME NEW evs \in Seq(Event) PROVE \A i \in DOMAIN evs : evs[i].n <= Weight(evs)
<1> SUFFICES ASSUME NEW i \in DOMAIN evs PROVE evs[i].n <= Weight(evs)
  OBVIOUS
<1> DEFINE D == DOMAIN evs
           w == Count(evs)
<1>1. IsFiniteSet(D) /\ (\A x \in D : w[x] \in Nat) /\ w[i] = evs[i].n /\ IsFiniteSet(D \ {i})
  BY SeqFinite, FS_Subset
<1>2. Weight(evs) = Total(w, D)
  BY DEF Weight, Total
<1> HIDE DEF D, w
<1>3. Total(w, D) = w[i] + Total(w, D \ {i}) /\ Total(w, D \ {i}) \in Nat /\ w[i] \in Nat
  <2>1. i \in D
    BY DEF D
  <2>2. Total(w, D) = w[i] + Total(w, D \ {i})
    BY <1>1, <2>1, SumPicks DEF Counted, Picks
  <2>3. \A x \in D \ {i} : w[x] \in Nat
    BY <1>1
  <2> QED BY <1>1, <2>1, <2>2, <2>3, SumNat
<1> QED BY <1>1, <1>2, <1>3

LEMMA InvTypeOK == ASSUME IInv PROVE TypeOK
<1>0. BusTypes /\ Bounds /\ Hands /\ Drained /\ Ids /\ NothingVanishes /\ MaxEvents \in Nat
  BY BusIs DEF IInv, BusAssumption
<1>1. /\ Weight(queue) \in Nat /\ Weight(pending) \in Nat /\ cur.n \in Nat /\ out.n \in Nat
      /\ Absorbed \in Nat /\ settled \in Nat /\ accepted \in Nat /\ accepted <= MaxEvents
  BY <1>0, WeightNat, AbsorbedNat DEF BusTypes, Event, Bounds
<1>2. Weight(queue) <= MaxEvents /\ Weight(pending) <= MaxEvents /\ cur.n <= MaxEvents /\ out.n <= MaxEvents
  <2> DEFINE q == Weight(queue)
             p == Weight(pending)
  <2>1. accepted = q + p + cur.n + out.n + Absorbed + settled
    BY <1>0 DEF NothingVanishes
  <2>2. q \in Nat /\ p \in Nat
    BY <1>1
  <2> HIDE DEF q, p
  <2>3. q <= MaxEvents /\ p <= MaxEvents /\ cur.n <= MaxEvents /\ out.n <= MaxEvents
    BY <1>0, <1>1, <2>1, <2>2
  <2> QED BY <2>3 DEF q, p
<1>3. \A e \in Event : e.id <= MaxEvents /\ e.n <= MaxEvents => e \in Events
  BY <1>0 DEF Event, Events, Keys
<1>4. cur \in Events /\ out \in Events
  <2>1. cur \in Event /\ out \in Event /\ cur.id <= accepted /\ out.id <= accepted
    BY <1>0 DEF BusTypes, Ids
  <2>2. cur.id <= MaxEvents /\ out.id <= MaxEvents
    BY <1>0, <1>1, <2>1 DEF Event
  <2> QED BY <1>2, <1>3, <2>1, <2>2
<1>5. queue \in Seq(Event) /\ pending \in Seq(Event)
  BY <1>0 DEF BusTypes
<1>6. \A i \in DOMAIN Items : Items[i].id <= MaxEvents
  <2>1. \A i \in DOMAIN Items : Items[i].id <= accepted /\ Items[i].id \in Nat
    BY <1>0, ItemsAre, SeqFinite DEF Ids, Event
  <2> QED BY <1>0, <1>1, <2>1
<1>7. \A i \in DOMAIN pending : pending[i] \in Events
  <2> SUFFICES ASSUME NEW i \in DOMAIN pending PROVE pending[i] \in Events
    OBVIOUS
  <2>1. i \in DOMAIN Items /\ Items[i] = pending[i]
    BY <1>5, SeqFinite, ConcatProperties DEF Items
  <2>2. pending[i] \in Event /\ pending[i].n \in Nat /\ pending[i].n <= Weight(pending)
    BY <1>5, SeqFinite, WeightOver
  <2>3. pending[i].n <= MaxEvents
    BY <1>0, <1>1, <1>2, <2>2
  <2> QED BY <1>3, <1>6, <2>1, <2>2, <2>3
<1>8. \A i \in DOMAIN queue : queue[i] \in Events
  <2> SUFFICES ASSUME NEW i \in DOMAIN queue PROVE queue[i] \in Events
    OBVIOUS
  <2> DEFINE m == Len(pending)
  <2>1. m + i \in DOMAIN Items /\ Items[m + i] = queue[i]
    <3>1. m \in Nat /\ Len(queue) \in Nat /\ i \in 1..Len(queue)
      BY <1>5, SeqFinite
    <3>2. Items \in Seq(Event) /\ Len(Items) = m + Len(queue)
          /\ \A k \in 1..(m + Len(queue)) : Items[k] = IF k <= m THEN pending[k] ELSE queue[k - m]
      BY <1>5, ConcatProperties DEF Items
    <3>3. DOMAIN Items = 1..(m + Len(queue))
      BY <3>2, SeqFinite
    <3> HIDE DEF m
    <3>4. m + i \in 1..(m + Len(queue)) /\ ~(m + i <= m) /\ (m + i) - m = i
      BY <3>1
    <3> QED BY <3>2, <3>3, <3>4
  <2>2. queue[i] \in Event /\ queue[i].n \in Nat /\ queue[i].n <= Weight(queue)
    BY <1>5, SeqFinite, WeightOver
  <2>3. queue[i].n <= MaxEvents
    BY <1>0, <1>1, <1>2, <2>2
  <2> QED BY <1>3, <1>6, <2>1, <2>2, <2>3
<1>9. \A s \in Sources : windows[s].first <= windows[s].count
  BY <1>0 DEF BusTypes, Window
<1>10. {wake, closing, cancelled, late} \subseteq BOOLEAN /\ accepted \in 0..MaxEvents
  BY <1>0, <1>1 DEF BusTypes
<1> QED BY <1>0, <1>4, <1>7, <1>8, <1>9, <1>10 DEF TypeOK, BusTypes, Bounds

LEMMA InvNoLoss == ASSUME IInv PROVE NoLossOnClose
<1> SUFFICES ASSUME pc = "done", ~cancelled, ~late PROVE settled = accepted
  BY DEF NoLossOnClose
<1>1. queue = << >> /\ pending = << >> /\ cur = NoEvent /\ out = NoEvent /\ \A s \in Sources : windows[s] = NoWindow
  BY DEF IInv, Hands, Drained, Ended, Resting, At
<1>2. Absorbed = 0
  <2>1. \A s \in Sources : [x \in Sources |-> windows[x].count - windows[x].first][s] = 0
    BY <1>1 DEF NoWindow
  <2> QED BY <2>1, SumNone, BusIs DEF Absorbed, Total, BusAssumption
<1>3. accepted \in Nat /\ settled \in Nat
  BY DEF IInv, BusTypes
<1> QED BY <1>1, <1>2, <1>3, WeightEmpty, NoEventIs DEF IInv, NothingVanishes

(* Queue, backlog and counters of the bus keep their types and capacities;   *)
(* no merged event stands for more occurrences than were accepted.           *)
THEOREM TypeCorrect == Spec => []TypeOK
<1>1. IInv => TypeOK
  BY InvTypeOK
<1> QED BY <1>1, Invariance, PTL

(* Merging, windows, retries, mutes and Close neither lose nor double-count   *)
(* an occurrence on its way through the pipeline.                            *)
THEOREM Conservation == Spec => []NothingVanishes
<1>1. IInv => NothingVanishes
  BY DEF IInv
<1> QED BY <1>1, Invariance, PTL

(* Close delivers what was queued: a worker that ended by itself, with no     *)
(* emitter slipping in after Close, has settled all that was accepted.       *)
THEOREM CloseLosesNothing == Spec => []NoLossOnClose
<1>1. IInv => NoLossOnClose
  BY InvNoLoss
<1> QED BY <1>1, Invariance, PTL

(* Only a successful send moves lastDirect, and it moves it up. *)
LEMMA StepInOrder ==
  ASSUME IInv, [Next]_vars PROVE lastDirect' # lastDirect => lastDirect' > lastDirect
<1>1. CASE SendOk
  <2>1. out.id # 0 => lastDirect < out.id
    BY DEF IInv, Ids
  <2>2. out.id \in Nat /\ lastDirect \in Nat
    BY DEF IInv, BusTypes, Event
  <2> QED BY <1>1, <2>1, <2>2 DEF SendOk
<1>2. CASE ~SendOk
  <2>1. lastDirect' = lastDirect
    BY <1>2 DEF Next, Worker, Send, EmitCheck, EmitSend, Mute, Unmute, Close, Cancel, Tick, Top, Arm, WaitCancelled,
       WaitEvent, WaitTimer, WaitWake, WaitClosing, Pick, TickWindow, TickHeld, Filter, Aggregate, QuietStage,
       ShutdownWindow, ShutdownDone, SendFail, vars, history
  <2> QED BY <2>1
<1> QED BY <1>1, <1>2

(* "Events reach the sink in emit order": no event sent as itself is older    *)
(* than one that was sent before it.                                         *)
THEOREM SentInOrder == Spec => DirectInOrder
<1>1. IInv /\ [Next]_vars => [lastDirect' # lastDirect => lastDirect' > lastDirect]_vars
  BY StepInOrder
<1> QED BY <1>1, Invariance, PTL DEF Spec, DirectInOrder
============================================================================
