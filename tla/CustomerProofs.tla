--------------------------- MODULE CustomerProofs ---------------------------
(***************************************************************************)
(* Theorems about what the operator keeps of one customer: the ledger      *)
(* (Billing), for any plans, amounts and bounds, and the file with its     *)
(* retention (Retention), for any tickets, terms and bounds.               *)
(*                                                                         *)
(* The sums and the allocation of the ledger are folds.  A fold is unfolded *)
(* by its definition, along a function that iterates it over the subsets   *)
(* of a finite set; what holds of every subset follows from a least        *)
(* counterexample.  Money is reasoned about by table (Paid, MemosOn,       *)
(* RefundsFor, Left), so that a step that changes one row changes one sum. *)
(* The inductive invariant is BillingInvariant: the book is Sound (typed,  *)
(* nothing is spent twice, every row refers to a row), derived state       *)
(* agrees with it (Kept), and a customer in service was charged (Served).  *)
(* An operation makes the book Ready, or rewrites it; allocation and       *)
(* refreshment bring what is Ready back to what is Kept.                   *)
(***************************************************************************)
EXTENDS Billing, Retention, FiniteSetTheorems, NaturalsInduction, SequenceTheorems, TLAPS

(***************************************************************************)
(* Induction and folds.  A property of naturals, or of finite sets, is a   *)
(* set Q here, so that the least counterexample is a term.                 *)
(***************************************************************************)

\* Induction over the naturals.
LEMMA Naturals ==
  ASSUME NEW Q, 0 \in Q, \A n \in Nat : n \in Q => n + 1 \in Q
  PROVE  \A n \in Nat : n \in Q
<1> DEFINE R == OpToRel(<, Nat)
           Out == {n \in Nat : n \notin Q}
<1>1. SUFFICES ASSUME Out # {} PROVE FALSE
  OBVIOUS
<1>2. \E x \in Out : \A y \in Out : <<y, x>> \notin R
  BY <1>1, NatLessThanWellFounded, WFMin, Zenon
<1>3. \A x, y \in Nat : <<y, x>> \notin R => ~(y < x)
  BY Zenon DEF OpToRel
<1>4. PICK x \in Out : \A y \in Out : ~(y < x)
  BY <1>2, <1>3, Zenon
<1>5. x # 0 /\ x \in Nat
  OBVIOUS
<1>6. x - 1 \in Nat /\ x - 1 < x /\ x - 1 + 1 = x
  BY <1>5
<1>7. x - 1 \in Q
  BY <1>4, <1>6
<1> QED
  BY <1>5, <1>6, <1>7

\* The empty set has no elements.
LEMMA NothingCounted == Cardinality({}) = 0
  BY FS_EmptySet, Zenon

\* A fold takes the chosen elements of S one at a time.
LEMMA Subsets ==
  ASSUME NEW S, IsFiniteSet(S), NEW Q, {} \in Q,
         \A s \in SUBSET S : s # {} /\ (\A x \in s : s \ {x} \in Q) => s \in Q
  PROVE  \A s \in SUBSET S : s \in Q
<1> DEFINE N == {n \in Nat : \A s \in SUBSET S : Cardinality(s) = n => s \in Q}
<1>1. \A s \in SUBSET S : IsFiniteSet(s) /\ Cardinality(s) \in Nat
  BY FS_Subset, FS_CardinalityType
<1>2. 0 \in N
  BY <1>1, FS_EmptySet
<1>3. ASSUME NEW n \in Nat, n \in N
      PROVE  n + 1 \in N
  <2>1. ASSUME NEW s \in SUBSET S, Cardinality(s) = n + 1
        PROVE  s \in Q
    <3>1. s # {}
      <4>1. Cardinality({}) # n + 1
        BY NothingCounted
      <4> QED
        BY <2>1, <4>1
    <3>2. ASSUME NEW x \in s PROVE s \ {x} \in Q
      <4>1. Cardinality(s \ {x}) = n /\ s \ {x} \in SUBSET S
        BY <1>1, <2>1, FS_RemoveElement
      <4> QED
        BY <4>1, <1>3
    <3> QED
      BY <3>1, <3>2
  <2> QED
    BY <2>1
<1>4. \A n \in Nat : n \in N
  <2> HIDE DEF N
  <2> QED
    BY <1>2, <1>3, Naturals, Zenon
<1> QED
  BY <1>1, <1>4

\* What a fold over S starts from, picks next and does with it, and what it iterates.
Folding(S, W, base, pick, F) ==
  /\ IsFiniteSet(S) /\ base \in W
  /\ \A s \in SUBSET S : s # {} => pick[s] \in s
  /\ \A s \in SUBSET S, w \in W : s # {} => F[s][w] \in W

Iterates(iter, S, W, base, pick, F) ==
  /\ iter \in [SUBSET S -> W]
  /\ \A s \in SUBSET S : iter[s] = IF s = {} THEN base ELSE F[s][iter[s \ {pick[s]}]]

\* A fold over a finite set is iterated by some function of its subsets.
LEMMA IterationExists ==
  ASSUME NEW S, NEW W, NEW base, NEW pick, NEW F, Folding(S, W, base, pick, F)
  PROVE  \E iter : Iterates(iter, S, W, base, pick, F)
<1> DEFINE Up(n) == {s \in SUBSET S : Cardinality(s) <= n}
           Is(iter, n) == \A s \in Up(n) :
             iter[s] = IF s = {} THEN base ELSE F[s][iter[s \ {pick[s]}]]
           N == {n \in Nat : \E iter \in [SUBSET S -> W] : Is(iter, n)}
<1>0. /\ IsFiniteSet(S) /\ base \in W
      /\ \A s \in SUBSET S : s # {} => pick[s] \in s
      /\ \A s \in SUBSET S, w \in W : s # {} => F[s][w] \in W
  BY Zenon DEF Folding
<1>1. \A s \in SUBSET S : IsFiniteSet(s) /\ Cardinality(s) \in Nat /\ Cardinality(s) <= Cardinality(S)
  BY <1>0, FS_Subset, FS_CardinalityType
<1>2. 0 \in N
  <2> DEFINE none == [s \in SUBSET S |-> base]
  <2>1. none \in [SUBSET S -> W]
    BY <1>0
  <2>2. \A s \in Up(0) : s = {}
    BY <1>1, FS_EmptySet
  <2>3. Is(none, 0)
    BY <2>2
  <2> HIDE DEF none, Is
  <2> QED
    BY <2>1, <2>3
<1>3. ASSUME NEW n \in Nat, n \in N
      PROVE  n + 1 \in N
  <2>1. PICK iter \in [SUBSET S -> W] : Is(iter, n)
    BY <1>3
  <2> DEFINE next == [s \in SUBSET S |-> IF Cardinality(s) <= n THEN iter[s]
                                         ELSE F[s][iter[s \ {pick[s]}]]]
  <2>0. Cardinality({}) <= n
    BY NothingCounted
  <2>2. ASSUME NEW s \in SUBSET S
        PROVE  /\ s # {} => s \ {pick[s]} \in SUBSET S
                            /\ Cardinality(s \ {pick[s]}) = Cardinality(s) - 1
               /\ ~(Cardinality(s) <= n) => s # {}
    <3>1. s # {} => pick[s] \in s /\ IsFiniteSet(s)
      BY <1>0, <1>1
    <3>2. s # {} => Cardinality(s \ {pick[s]}) = Cardinality(s) - 1
      BY <3>1, FS_RemoveElement
    <3> QED
      BY <2>0, <3>2
  <2>3. next \in [SUBSET S -> W]
    BY <1>0, <2>2
  <2>4. ASSUME NEW s \in Up(n + 1), s # {}
        PROVE  next[s] = F[s][next[s \ {pick[s]}]]
    <3>1. /\ s \ {pick[s]} \in SUBSET S /\ Cardinality(s \ {pick[s]}) <= n
      BY <1>1, <2>2, <2>4
    <3>2. next[s \ {pick[s]}] = iter[s \ {pick[s]}]
      BY <3>1
    <3>3. next[s] = F[s][iter[s \ {pick[s]}]]
      BY <2>1, <2>4
    <3> QED
      BY <3>2, <3>3
  <2>5. {} \in Up(n + 1) => next[{}] = base
    BY <2>0, <2>1
  <2>6. Is(next, n + 1)
    <3> HIDE DEF next
    <3> QED
      BY <2>4, <2>5
  <2> HIDE DEF next, Is
  <2> QED
    BY <2>3, <2>6
<1>4. \A n \in Nat : n \in N
  <2> HIDE DEF N
  <2> QED
    BY <1>2, <1>3, Naturals, Zenon
<1>5. PICK iter \in [SUBSET S -> W] : Is(iter, Cardinality(S))
  BY <1>1, <1>4
<1>6. Up(Cardinality(S)) = SUBSET S
  BY <1>1
<1> QED
  BY <1>5, <1>6 DEF Iterates

(***************************************************************************)
(* Sums.                                                                   *)
(***************************************************************************)

\* What an iteration over S adds up, whatever element it takes first.
Adds(iter, g, S) ==
  /\ iter \in [SUBSET S -> Int] /\ iter[{}] = 0
  /\ \A s \in SUBSET S : \A x \in s : iter[s] = g[x] + iter[s \ {x}]

\* A sum adds the chosen parts one at a time.
LEMMA SumUnfolds ==
  ASSUME NEW S, IsFiniteSet(S), NEW g, \A x \in S : g[x] \in Int
  PROVE  \E iter : Adds(iter, g, S) /\ SumFunctionOnSet(g, S) = iter[S]
<1> DEFINE pick == [s \in SUBSET S |-> CHOOSE x \in s : TRUE]
           F == [s \in SUBSET S |-> [w \in Int |-> g[CHOOSE x \in s : TRUE] + w]]
           Is(iter) == iter = [s \in SUBSET S |-> IF s = {} THEN 0
                       ELSE g[CHOOSE x \in s : TRUE] + iter[s \ {CHOOSE x \in s : TRUE}]]
           the == CHOOSE iter : Is(iter)
<1>1. \A s \in SUBSET S : s # {} => pick[s] \in s /\ (CHOOSE x \in s : TRUE) \in s
  BY Zenon
<1>2. \A s \in SUBSET S, w \in Int : s # {} => F[s][w] \in Int
  BY <1>1
<1>3. PICK iter : Iterates(iter, S, Int, 0, pick, F)
  <2>1. Folding(S, Int, 0, pick, F)
    <3> HIDE DEF F
    <3> QED
      BY <1>1, <1>2 DEF Folding
  <2> QED
    BY <2>1, IterationExists, Zenon
<1>4. \A s \in SUBSET S : iter[s] = IF s = {} THEN 0
        ELSE g[CHOOSE x \in s : TRUE] + iter[s \ {CHOOSE x \in s : TRUE}]
  <2>1. \A s \in SUBSET S : iter[s \ {pick[s]}] \in Int
    BY <1>3 DEF Iterates
  <2>2. \A s \in SUBSET S : F[s][iter[s \ {pick[s]}]]
                              = g[CHOOSE x \in s : TRUE] + iter[s \ {CHOOSE x \in s : TRUE}]
    BY <2>1
  <2> QED
    BY <1>3, <2>2, Zenon DEF Iterates
<1>5. Is(iter)
  <2>1. iter = [s \in SUBSET S |-> iter[s]]
    BY <1>3 DEF Iterates
  <2> QED
    BY <1>4, <2>1
<1>6. Is(the)
  <2> HIDE DEF Is
  <2> QED
    BY <1>5, Zenon
<1>7. SumFunctionOnSet(g, S) = the[S]
  BY Zenon DEF SumFunctionOnSet, FoldFunctionOnSet, MapThenFoldSet
<1> HIDE DEF the
<1>8. /\ the[{}] = 0
      /\ \A s \in SUBSET S : s # {} =>
           the[s] = g[CHOOSE x \in s : TRUE] + the[s \ {CHOOSE x \in s : TRUE}]
  BY <1>6
<1>9. \A s \in SUBSET S : the[s] \in Int
  <2> DEFINE Q == {s \in SUBSET S : the[s] \in Int}
  <2>1. {} \in Q
    BY <1>8
  <2>2. ASSUME NEW s \in SUBSET S, s # {}, \A x \in s : s \ {x} \in Q
        PROVE  s \in Q
    <3>1. PICK y \in s : the[s] = g[y] + the[s \ {y}]
      BY <1>1, <1>8, <2>2, Zenon
    <3>2. the[s \ {y}] \in Int /\ g[y] \in Int
      BY <2>2
    <3> QED
      BY <3>1, <3>2
  <2>3. \A s \in SUBSET S : s \in Q
    <3> HIDE DEF Q
    <3> QED
      BY <2>1, <2>2, Subsets
  <2> QED
    BY <2>3
<1>10. \A s \in SUBSET S : \A x \in s : the[s] = g[x] + the[s \ {x}]
  <2> DEFINE Q == {s \in SUBSET S : \A x \in s : the[s] = g[x] + the[s \ {x}]}
  <2>1. {} \in Q
    OBVIOUS
  <2>2. ASSUME NEW s \in SUBSET S, s # {}, \A x \in s : s \ {x} \in Q
        PROVE  s \in Q
    <3>1. PICK y \in s : the[s] = g[y] + the[s \ {y}]
      BY <1>1, <1>8, <2>2, Zenon
    <3>2. ASSUME NEW x \in s, x # y
          PROVE  the[s] = g[x] + the[s \ {x}]
      <4>1. the[s \ {y}] = g[x] + the[(s \ {y}) \ {x}]
        BY <2>2, <3>2
      <4>2. the[s \ {x}] = g[y] + the[(s \ {x}) \ {y}]
        BY <2>2, <3>2
      <4>3. (s \ {y}) \ {x} = (s \ {x}) \ {y} /\ (s \ {x}) \ {y} \in SUBSET S
        OBVIOUS
      <4>4. the[(s \ {x}) \ {y}] \in Int /\ g[x] \in Int /\ g[y] \in Int
        BY <1>9, <4>3
      <4>5. the[s \ {y}] = g[x] + the[(s \ {x}) \ {y}]
        BY <4>1, <4>3
      <4> QED
        BY <3>1, <4>2, <4>4, <4>5
    <3> QED
      BY <3>1, <3>2
  <2>3. \A s \in SUBSET S : s \in Q
    <3> HIDE DEF Q
    <3> QED
      BY <2>1, <2>2, Subsets
  <2> QED
    BY <2>3
<1>11. the \in [SUBSET S -> Int]
  <2>1. the = [s \in SUBSET S |-> the[s]]
    BY <1>6
  <2> QED
    BY <1>9, <2>1
<1> QED
  BY <1>7, <1>8, <1>10, <1>11 DEF Adds

\* Any part can be taken out of a sum.
LEMMA SumTakes ==
  ASSUME NEW S, IsFiniteSet(S), NEW g, \A x \in S : g[x] \in Int
  PROVE  /\ SumFunctionOnSet(g, {}) = 0
         /\ SumFunctionOnSet(g, S) \in Int
         /\ \A x \in S : SumFunctionOnSet(g, S) = g[x] + SumFunctionOnSet(g, S \ {x})
<1>1. PICK iter : Adds(iter, g, S) /\ SumFunctionOnSet(g, S) = iter[S]
  BY SumUnfolds
<1>2. SumFunctionOnSet(g, {}) = 0
  <2>1. IsFiniteSet({})
    BY FS_EmptySet
  <2>2. PICK none : Adds(none, g, {}) /\ SumFunctionOnSet(g, {}) = none[{}]
    BY <2>1, SumUnfolds
  <2> QED
    BY <2>2 DEF Adds
<1>3. ASSUME NEW x \in S
      PROVE  SumFunctionOnSet(g, S) = g[x] + SumFunctionOnSet(g, S \ {x})
  <2> DEFINE T == S \ {x}
             Q == {s \in SUBSET T : TRUE}
  <2>1. IsFiniteSet(T) /\ \A y \in T : g[y] \in Int
    BY FS_RemoveElement
  <2>2. PICK less : Adds(less, g, T) /\ SumFunctionOnSet(g, T) = less[T]
    BY <2>1, SumUnfolds
  <2> DEFINE P == {s \in SUBSET T : less[s] = iter[s]}
  <2>3. {} \in P
    BY <1>1, <2>2 DEF Adds
  <2>4. ASSUME NEW s \in SUBSET T, s # {}, \A y \in s : s \ {y} \in P
        PROVE  s \in P
    <3>1. PICK y \in s : TRUE
      BY <2>4
    <3>2. less[s] = g[y] + less[s \ {y}] /\ iter[s] = g[y] + iter[s \ {y}]
      BY <1>1, <2>2 DEF Adds
    <3> QED
      BY <2>4, <3>2
  <2>5. \A s \in SUBSET T : s \in P
    <3> HIDE DEF P, T
    <3> QED
      BY <2>1, <2>3, <2>4, Subsets
  <2>6. less[T] = iter[T]
    BY <2>5
  <2>7. iter[S] = g[x] + iter[S \ {x}]
    BY <1>1 DEF Adds
  <2> QED
    BY <1>1, <2>2, <2>6, <2>7
<1> QED
  BY <1>1, <1>2, <1>3 DEF Adds

\* Two sums over the same set, the second with no less in each place.
LEMMA SumGrows ==
  ASSUME NEW S, IsFiniteSet(S), NEW g, NEW h,
         \A x \in S : g[x] \in Int /\ h[x] \in Int /\ g[x] <= h[x]
  PROVE  /\ SumFunctionOnSet(g, S) \in Int /\ SumFunctionOnSet(h, S) \in Int
         /\ SumFunctionOnSet(g, S) <= SumFunctionOnSet(h, S)
<1> DEFINE Q == {s \in SUBSET S : SumFunctionOnSet(g, s) <= SumFunctionOnSet(h, s)}
<1>1. ASSUME NEW s \in SUBSET S
      PROVE  /\ SumFunctionOnSet(g, {}) = 0 /\ SumFunctionOnSet(h, {}) = 0
             /\ SumFunctionOnSet(g, s) \in Int /\ SumFunctionOnSet(h, s) \in Int
             /\ \A x \in s : /\ SumFunctionOnSet(g, s) = g[x] + SumFunctionOnSet(g, s \ {x})
                             /\ SumFunctionOnSet(h, s) = h[x] + SumFunctionOnSet(h, s \ {x})
  <2>1. IsFiniteSet(s) /\ \A x \in s : g[x] \in Int /\ h[x] \in Int
    BY FS_Subset
  <2> QED
    BY <2>1, SumTakes
<1>2. {} \in Q
  BY <1>1
<1>3. ASSUME NEW s \in SUBSET S, s # {}, \A x \in s : s \ {x} \in Q
      PROVE  s \in Q
  <2>1. PICK x \in s : TRUE
    BY <1>3
  <2>2. SumFunctionOnSet(g, s \ {x}) \in Int /\ SumFunctionOnSet(h, s \ {x}) \in Int
    BY <1>1
  <2> QED
    BY <1>1, <1>3, <2>1, <2>2
<1>4. S \in Q
  <2> HIDE DEF Q
  <2>1. \A s \in SUBSET S : s \in Q
    BY <1>2, <1>3, Subsets
  <2> QED
    BY <2>1
<1> QED
  BY <1>1, <1>4

\* Two sums over the same set that agree, or agree but for one place.
LEMMA SumChanges ==
  ASSUME NEW S, IsFiniteSet(S), NEW g, NEW h,
         \A y \in S : g[y] \in Int /\ h[y] \in Int
  PROVE  \A x \in S : (\A y \in S \ {x} : g[y] = h[y]) =>
           SumFunctionOnSet(h, S) = SumFunctionOnSet(g, S) + h[x] - g[x]
<1> SUFFICES ASSUME NEW x \in S, \A y \in S \ {x} : g[y] = h[y]
             PROVE  SumFunctionOnSet(h, S) = SumFunctionOnSet(g, S) + h[x] - g[x]
  OBVIOUS
<1> DEFINE T == S \ {x}
<1>1. IsFiniteSet(T)
  BY FS_RemoveElement
<1>2. /\ SumFunctionOnSet(g, T) \in Int /\ SumFunctionOnSet(h, T) \in Int
      /\ SumFunctionOnSet(g, T) <= SumFunctionOnSet(h, T)
  <2>1. \A y \in T : g[y] \in Int /\ h[y] \in Int /\ g[y] <= h[y]
    OBVIOUS
  <2> HIDE DEF T
  <2> QED
    BY <1>1, <2>1, SumGrows
<1>3. SumFunctionOnSet(h, T) <= SumFunctionOnSet(g, T)
  <2>1. \A y \in T : h[y] \in Int /\ g[y] \in Int /\ h[y] <= g[y]
    OBVIOUS
  <2> HIDE DEF T
  <2> QED
    BY <1>1, <2>1, SumGrows
<1>4. /\ SumFunctionOnSet(g, S) = g[x] + SumFunctionOnSet(g, T)
      /\ SumFunctionOnSet(h, S) = h[x] + SumFunctionOnSet(h, T)
  BY SumTakes
<1> QED
  BY <1>2, <1>3, <1>4

\* A sum depends on its parts only.
LEMMA SumSame ==
  ASSUME NEW S, IsFiniteSet(S), NEW g, NEW h,
         \A y \in S : g[y] \in Int /\ g[y] = h[y]
  PROVE  SumFunctionOnSet(h, S) = SumFunctionOnSet(g, S)
<1>1. \A y \in S : h[y] \in Int /\ g[y] \in Int /\ g[y] <= h[y] /\ h[y] <= g[y]
  OBVIOUS
<1>2. SumFunctionOnSet(g, S) \in Int /\ SumFunctionOnSet(h, S) \in Int
      /\ SumFunctionOnSet(g, S) <= SumFunctionOnSet(h, S)
  BY <1>1, SumGrows
<1>3. SumFunctionOnSet(h, S) <= SumFunctionOnSet(g, S)
  BY <1>1, SumGrows
<1> QED
  BY <1>2, <1>3

\* A sum of naturals is one; it is zero only when every part is.
LEMMA SumOfNaturals ==
  ASSUME NEW S, IsFiniteSet(S), NEW g, \A x \in S : g[x] \in Nat
  PROVE  /\ SumFunctionOnSet(g, S) \in Nat
         /\ \A x \in S : g[x] <= SumFunctionOnSet(g, S)
         /\ (\A x \in S : g[x] = 0) => SumFunctionOnSet(g, S) = 0
<1> DEFINE Q == {s \in SUBSET S : /\ SumFunctionOnSet(g, s) \in Nat
                                  /\ (\A x \in s : g[x] = 0) => SumFunctionOnSet(g, s) = 0}
<1>1. ASSUME NEW s \in SUBSET S
      PROVE  /\ SumFunctionOnSet(g, {}) = 0
             /\ SumFunctionOnSet(g, s) \in Int
             /\ \A x \in s : SumFunctionOnSet(g, s) = g[x] + SumFunctionOnSet(g, s \ {x})
  <2>1. IsFiniteSet(s) /\ \A x \in s : g[x] \in Int
    BY FS_Subset
  <2> QED
    BY <2>1, SumTakes
<1>2. {} \in Q
  BY <1>1
<1>3. ASSUME NEW s \in SUBSET S, s # {}, \A x \in s : s \ {x} \in Q
      PROVE  s \in Q
  <2>1. PICK x \in s : TRUE
    BY <1>3
  <2>2. SumFunctionOnSet(g, s) = g[x] + SumFunctionOnSet(g, s \ {x}) /\ g[x] \in Nat
    BY <1>1, <2>1
  <2> QED
    BY <1>3, <2>1, <2>2
<1>4. \A s \in SUBSET S : s \in Q
  <2> HIDE DEF Q
  <2> QED
    BY <1>2, <1>3, Subsets
<1>5. ASSUME NEW x \in S PROVE g[x] <= SumFunctionOnSet(g, S)
  <2>1. SumFunctionOnSet(g, S \ {x}) \in Nat
    BY <1>4
  <2> QED
    BY <1>1, <2>1
<1> QED
  BY <1>4, <1>5

(***************************************************************************)
(* Greatest elements.                                                      *)
(***************************************************************************)
LEMMA MaximalExists ==
  ASSUME NEW S, IsFiniteSet(S), S # {}, NEW R,
         \A x \in S : <<x, x>> \notin R,
         \A x, y, z \in S : <<x, y>> \in R /\ <<y, z>> \in R => <<x, z>> \in R
  PROVE  \E x \in S : \A y \in S : <<x, y>> \notin R
<1> DEFINE Q == {s \in SUBSET S : s # {} => \E x \in s : \A y \in s : <<x, y>> \notin R}
<1>1. {} \in Q
  OBVIOUS
<1>2. ASSUME NEW s \in SUBSET S, s # {}, \A x \in s : s \ {x} \in Q
      PROVE  s \in Q
  <2>1. PICK z \in s : TRUE
    BY <1>2
  <2>2. CASE s \ {z} = {}
    <3>1. \A y \in s : y = z
      BY <2>2
    <3> QED
      BY <2>1, <3>1, Zenon
  <2>3. CASE s \ {z} # {}
    <3>1. PICK x \in s \ {z} : \A y \in s \ {z} : <<x, y>> \notin R
      BY <1>2, <2>1, <2>3, Zenon
    <3>2. CASE <<x, z>> \in R
      <4>1. \A y \in s : <<z, y>> \notin R
        BY <2>1, <3>1, <3>2, Zenon
      <4> QED
        BY <2>1, <4>1, Zenon
    <3>3. CASE <<x, z>> \notin R
      BY <2>1, <3>1, <3>3, Zenon
    <3> QED
      BY <3>2, <3>3
  <2> QED
    BY <2>2, <2>3
<1>3. \A s \in SUBSET S : s \in Q
  <2> HIDE DEF Q
  <2> QED
    BY <1>1, <1>2, Subsets
<1> QED
  BY <1>3

\* A finite set of numbers has the greatest of them as its Max.
LEMMA Greatest ==
  ASSUME NEW S, IsFiniteSet(S), S # {}, S \subseteq Int
  PROVE  Max(S) \in S /\ \A y \in S : Max(S) >= y
<1> DEFINE R == {u \in S \X S : u[1] < u[2]}
<1>1. \A x \in S : <<x, x>> \notin R
  OBVIOUS
<1>2. \A x, y, z \in S : <<x, y>> \in R /\ <<y, z>> \in R => <<x, z>> \in R
  OBVIOUS
<1>3. \A x, y \in S : <<x, y>> \notin R => x >= y
  OBVIOUS
<1>4. \E x \in S : \A y \in S : <<x, y>> \notin R
  <2> HIDE DEF R
  <2> QED
    BY <1>1, <1>2, MaximalExists
<1>5. \E x \in S : \A y \in S : x >= y
  BY <1>3, <1>4, Zenon
<1> QED
  BY <1>5, Zenon DEF Max

(***************************************************************************)
(* The tables, and the sums over them.                                     *)
(***************************************************************************)
Paid(pay, i) ==
  SumFunction([p \in DOMAIN pay |-> IF pay[p].reversed THEN 0 ELSE pay[p].applied[i]])
MemosOn(memo, i) ==
  SumFunction([m \in DOMAIN memo |-> IF memo[m].invoice = i THEN memo[m].amount ELSE 0])
RefundsOn(refund, m) ==
  SumFunction([r \in DOMAIN refund |-> IF refund[r].memo = m THEN refund[r].amount ELSE 0])
RefundsFor(memo, refund, i) ==
  SumFunction([m \in DOMAIN memo |-> IF memo[m].invoice = i THEN RefundsOn(refund, m) ELSE 0])
Left(pay, I, p) ==
  IF pay[p].reversed THEN 0 ELSE pay[p].amount - SumFunction([i \in I |-> pay[p].applied[i]])
CreditLeft(pay, I) == SumFunction([p \in DOMAIN pay |-> Left(pay, I, p)])

PayTable == Seq(Payment)
MemoTable == Seq(Memo)
RefundTable == Seq(Refund)
Ids == 1 .. MaxInvoices

\* The sums of a book are sums over one table, or two.
LEMMA Money ==
  /\ \A b, i : /\ PaidAmount(b, i) = Paid(b.pay, i)
               /\ Credited(b, i) = MemosOn(b.memo, i)
               /\ Refunded(b, i) = RefundsFor(b.memo, b.refund, i)
               /\ Balance(b, i) = Price - Paid(b.pay, i) - MemosOn(b.memo, i)
                                        + RefundsFor(b.memo, b.refund, i)
  /\ \A b, m : RefundedOn(b, m) = RefundsOn(b.refund, m)
  /\ \A b, p : Available(b, p) = Left(b.pay, DOMAIN b.inv, p)
  /\ \A b : Credit(b) = CreditLeft(b.pay, DOMAIN b.inv)
  BY Zenon DEF PaidAmount, Credited, Refunded, RefundedOn, Balance, Available, Credit,
               Paid, MemosOn, RefundsOn, RefundsFor, Left, CreditLeft

\* What is assumed of the constants.
LEMMA Constants ==
  /\ Price \in Nat /\ Price > 0
  /\ \A a \in Amounts : a \in Nat /\ a > 0
  /\ MaxInvoices \in Nat /\ MaxMonths \in Nat /\ MaxMemos \in Nat
  BY BillingAssumption

\* The places of a table are finitely many.
LEMMA Places ==
  ASSUME NEW T, NEW s \in Seq(T)
  PROVE  /\ DOMAIN s = 1 .. Len(s) /\ Len(s) \in Nat /\ IsFiniteSet(DOMAIN s)
         /\ \A n \in DOMAIN s : s[n] \in T
<1>1. DOMAIN s = 1 .. Len(s) /\ Len(s) \in Nat /\ \A n \in DOMAIN s : s[n] \in T
  OBVIOUS
<1> QED
  BY <1>1, FS_Interval

\* There are finitely many numbers of invoices.
LEMMA IdsAreFinite == IsFiniteSet(Ids)
  BY Constants, FS_Interval DEF Ids

\* What is paid on an invoice is not negative.
LEMMA PaidIsNatural ==
  ASSUME NEW pay \in PayTable, NEW i \in Ids
  PROVE  Paid(pay, i) \in Nat
<1> DEFINE g == [p \in DOMAIN pay |-> IF pay[p].reversed THEN 0 ELSE pay[p].applied[i]]
<1>1. IsFiniteSet(DOMAIN pay) /\ \A p \in DOMAIN pay : pay[p] \in Payment
  BY Places DEF PayTable
<1>2. \A p \in DOMAIN pay : g[p] \in Nat
  BY <1>1 DEF Payment, Ids
<1>3. Paid(pay, i) = SumFunctionOnSet(g, DOMAIN pay)
  BY DEF Paid, SumFunction
<1> HIDE DEF g
<1> QED
  BY <1>1, <1>2, <1>3, SumOfNaturals

\* When no payment is overspent, credit is no less than what any payment has left.
LEMMA LeftIsInteger ==
  ASSUME NEW pay \in PayTable, NEW I, I \subseteq Ids
  PROVE  /\ \A p \in DOMAIN pay : Left(pay, I, p) \in Int
         /\ CreditLeft(pay, I) \in Int
         /\ (\A p \in DOMAIN pay : Left(pay, I, p) >= 0) =>
              /\ CreditLeft(pay, I) >= 0
              /\ \A p \in DOMAIN pay : Left(pay, I, p) <= CreditLeft(pay, I)
              /\ (\A p \in DOMAIN pay : Left(pay, I, p) = 0) => CreditLeft(pay, I) = 0
<1>1. IsFiniteSet(DOMAIN pay) /\ IsFiniteSet(I)
  BY Places, IdsAreFinite, FS_Subset DEF PayTable
<1>2. ASSUME NEW p \in DOMAIN pay
      PROVE  Left(pay, I, p) \in Int
  <2> DEFINE h == [i \in I |-> pay[p].applied[i]]
  <2>1. pay[p] \in Payment
    BY Places DEF PayTable
  <2>2. \A i \in I : h[i] \in Nat
    BY <2>1 DEF Payment, Ids
  <2>3. SumFunction(h) = SumFunctionOnSet(h, I)
    BY DEF SumFunction
  <2>4. SumFunction(h) \in Nat
    <3> HIDE DEF h
    <3> QED
      BY <1>1, <2>2, <2>3, SumOfNaturals
  <2>5. pay[p].amount \in Nat
    BY <2>1, Constants DEF Payment
  <2>6. Left(pay, I, p) = IF pay[p].reversed THEN 0 ELSE pay[p].amount - SumFunction(h)
    BY Zenon DEF Left
  <2> HIDE DEF h
  <2> QED
    BY <2>4, <2>5, <2>6
<1> DEFINE g == [p \in DOMAIN pay |-> Left(pay, I, p)]
<1>3. CreditLeft(pay, I) = SumFunctionOnSet(g, DOMAIN pay)
  BY DEF CreditLeft, SumFunction
<1>4. \A p \in DOMAIN pay : g[p] \in Int /\ g[p] = Left(pay, I, p)
  BY <1>2
<1> HIDE DEF g
<1>5. CreditLeft(pay, I) \in Int
  BY <1>1, <1>3, <1>4, SumTakes
<1>6. ASSUME \A p \in DOMAIN pay : Left(pay, I, p) >= 0
      PROVE  /\ CreditLeft(pay, I) >= 0
             /\ \A p \in DOMAIN pay : Left(pay, I, p) <= CreditLeft(pay, I)
             /\ (\A p \in DOMAIN pay : Left(pay, I, p) = 0) => CreditLeft(pay, I) = 0
  <2>1. \A p \in DOMAIN pay : g[p] \in Nat
    BY <1>4, <1>6
  <2>2. /\ SumFunctionOnSet(g, DOMAIN pay) \in Nat
        /\ \A p \in DOMAIN pay : g[p] <= SumFunctionOnSet(g, DOMAIN pay)
        /\ (\A p \in DOMAIN pay : g[p] = 0) => SumFunctionOnSet(g, DOMAIN pay) = 0
    BY <1>1, <2>1, SumOfNaturals
  <2> QED
    BY <1>3, <1>4, <2>2
<1> QED
  BY <1>2, <1>5, <1>6

\* A sum over a table and over the same table with one row more.
LEMMA SumAppended ==
  ASSUME NEW n \in Nat, NEW g, NEW h, \A x \in 1 .. n : g[x] \in Int /\ h[x] = g[x],
         h[n + 1] \in Int
  PROVE  SumFunctionOnSet(h, 1 .. (n + 1)) = SumFunctionOnSet(g, 1 .. n) + h[n + 1]
<1>1. /\ IsFiniteSet(1 .. n) /\ IsFiniteSet(1 .. (n + 1)) /\ n + 1 \in 1 .. (n + 1)
      /\ (1 .. (n + 1)) \ {n + 1} = 1 .. n
  <2>1. IsFiniteSet(1 .. n) /\ IsFiniteSet(1 .. (n + 1))
    BY FS_Interval
  <2>2. n + 1 \in 1 .. (n + 1) /\ (1 .. (n + 1)) \ {n + 1} = 1 .. n
    OBVIOUS
  <2> QED
    BY <2>1, <2>2
<1>2. \A x \in 1 .. (n + 1) : h[x] \in Int
  OBVIOUS
<1>3. SumFunctionOnSet(h, 1 .. (n + 1)) = h[n + 1] + SumFunctionOnSet(h, 1 .. n)
  <2> DEFINE S == 1 .. (n + 1)
  <2>1. \A x \in S : SumFunctionOnSet(h, S) = h[x] + SumFunctionOnSet(h, S \ {x})
    <3> HIDE DEF S
    <3> QED
      BY <1>1, <1>2, SumTakes DEF S
  <2> QED
    BY <1>1, <2>1
<1>4. SumFunctionOnSet(h, 1 .. n) = SumFunctionOnSet(g, 1 .. n)
  BY <1>1, SumSame
<1>5. SumFunctionOnSet(g, 1 .. n) \in Int
  BY <1>1, SumTakes
<1> QED
  BY <1>3, <1>4, <1>5

Spent(I, f) == SumFunction([j \in I |-> f[j]])

\* A sum of which one part is a more.
OneMore(I, f, e, i, a) ==
  /\ IsFiniteSet(I) /\ i \in I /\ a \in Int
  /\ \A j \in I : f[j] \in Int /\ e[j] = IF j = i THEN f[j] + a ELSE f[j]

\* One part more by a makes the sum more by a.
LEMMA SpentChanges ==
  ASSUME NEW I, NEW f, NEW e, NEW i, NEW a, OneMore(I, f, e, i, a)
  PROVE  /\ Spent(I, f) \in Int
         /\ Spent(I, e) = Spent(I, f) + a
<1> DEFINE g == [j \in I |-> f[j]]
           h == [j \in I |-> e[j]]
<1>1. SumFunction(g) = SumFunctionOnSet(g, I) /\ SumFunction(h) = SumFunctionOnSet(h, I)
  BY DEF SumFunction
<1>2. /\ \A j \in I : g[j] \in Int /\ h[j] \in Int
      /\ \A j \in I \ {i} : g[j] = h[j]
      /\ h[i] = g[i] + a /\ g[i] \in Int
  BY DEF OneMore
<1> HIDE DEF g, h
<1>. i \in I /\ IsFiniteSet(I) /\ a \in Int
  BY DEF OneMore
<1>3. SumFunctionOnSet(h, I) = SumFunctionOnSet(g, I) + h[i] - g[i]
  BY <1>2, SumChanges
<1>4. SumFunctionOnSet(g, I) \in Int
  BY <1>2, SumTakes
<1>5. SumFunction(g) \in Int /\ SumFunction(h) = SumFunction(g) + a
  BY <1>1, <1>2, <1>3, <1>4
<1> QED
  BY <1>5, Zenon DEF g, h, Spent

\* The payments when a more of p is applied to i.
Applies(new, pay, p, i, a) == new = [pay EXCEPT ![p].applied[i] = @ + a]

Applicable(new, pay, I, p, i, a) ==
  /\ pay \in PayTable /\ I \subseteq Ids /\ i \in I /\ p \in DOMAIN pay /\ a \in Nat
  /\ ~pay[p].reversed /\ Applies(new, pay, p, i, a)

Spends(new, pay, I, p, i, a) ==
  /\ new \in PayTable /\ Len(new) = Len(pay)
  /\ \A q \in DOMAIN pay :
       \A j \in Ids : new[q].applied[j] =
         IF q = p /\ j = i THEN pay[q].applied[j] + a ELSE pay[q].applied[j]
  /\ \A j \in Ids : Paid(new, j) = IF j = i THEN Paid(pay, j) + a ELSE Paid(pay, j)
  /\ \A q \in DOMAIN pay :
       Left(new, I, q) = IF q = p THEN Left(pay, I, q) - a ELSE Left(pay, I, q)
  /\ CreditLeft(new, I) = CreditLeft(pay, I) - a

\* What is applied to an invoice is added to what is paid on it and is no more available.
LEMMA Applying ==
  ASSUME NEW new, NEW pay, NEW I, NEW p, NEW i, NEW a, Applicable(new, pay, I, p, i, a)
  PROVE  Spends(new, pay, I, p, i, a)
<1>. /\ pay \in PayTable /\ I \subseteq Ids /\ i \in I /\ p \in DOMAIN pay /\ a \in Nat
     /\ ~pay[p].reversed /\ Applies(new, pay, p, i, a)
  BY DEF Applicable
<1>1. /\ DOMAIN pay = 1 .. Len(pay) /\ Len(pay) \in Nat /\ IsFiniteSet(DOMAIN pay)
      /\ \A q \in DOMAIN pay : pay[q] \in Payment
  BY Places DEF PayTable
<1>2. PICK row : row = [pay[p] EXCEPT !.applied = [pay[p].applied EXCEPT ![i] = pay[p].applied[i] + a]]
  OBVIOUS
<1>3. /\ row \in Payment
      /\ row.amount = pay[p].amount /\ row.reversed = pay[p].reversed
      /\ \A j \in Ids :
           row.applied[j] = IF j = i THEN pay[p].applied[j] + a ELSE pay[p].applied[j]
  <2>1. i \in Ids /\ pay[p] \in Payment
    BY <1>1
  <2>2. pay[p].applied \in [Ids -> Nat]
    BY <2>1 DEF Payment, Ids
  <2>3. PICK f : f = [pay[p].applied EXCEPT ![i] = pay[p].applied[i] + a]
    OBVIOUS
  <2>4. /\ f \in [Ids -> Nat]
        /\ \A j \in Ids :
             f[j] = IF j = i THEN pay[p].applied[j] + a ELSE pay[p].applied[j]
    <3>1. PICK old : old = pay[p].applied
      OBVIOUS
    <3>2. f = [old EXCEPT ![i] = old[i] + a] /\ old \in [Ids -> Nat]
      BY <2>2, <2>3, <3>1
    <3>3. /\ f \in [Ids -> Nat]
          /\ \A j \in Ids : f[j] = IF j = i THEN old[j] + a ELSE old[j]
      BY <2>1, <3>2
    <3> QED
      BY <3>1, <3>3
  <2>5. row = [pay[p] EXCEPT !.applied = f]
    BY <1>2, <2>3
  <2> QED
    BY <2>1, <2>4, <2>5 DEF Payment, Ids
<1>4. new = [pay EXCEPT ![p] = row]
  BY <1>2 DEF Applies
<1>5. /\ new \in PayTable /\ Len(new) = Len(pay)
      /\ \A q \in DOMAIN pay : new[q] = IF q = p THEN row ELSE pay[q]
  BY <1>1, <1>3, <1>4, ExceptSeq DEF PayTable
<1>6. /\ DOMAIN new = DOMAIN pay
      /\ \A q \in DOMAIN pay :
              /\ new[q].amount = pay[q].amount /\ new[q].reversed = pay[q].reversed
              /\ \A j \in Ids : new[q].applied[j] =
                   IF q = p /\ j = i THEN pay[q].applied[j] + a ELSE pay[q].applied[j]
  <2>1. DOMAIN new = DOMAIN pay
    BY <1>1, <1>5
  <2> QED
    BY <1>3, <1>5, <2>1
<1>7. ASSUME NEW j \in Ids
      PROVE  Paid(new, j) = IF j = i THEN Paid(pay, j) + a ELSE Paid(pay, j)
  <2> DEFINE g == [q \in DOMAIN pay |-> IF pay[q].reversed THEN 0 ELSE pay[q].applied[j]]
             h == [q \in DOMAIN new |-> IF new[q].reversed THEN 0 ELSE new[q].applied[j]]
  <2>1. /\ Paid(pay, j) = SumFunctionOnSet(g, DOMAIN pay)
        /\ Paid(new, j) = SumFunctionOnSet(h, DOMAIN pay)
    BY <1>6 DEF Paid, SumFunction
  <2>2. /\ \A q \in DOMAIN pay : g[q] \in Int /\ h[q] \in Int
        /\ \A q \in DOMAIN pay \ {p} : g[q] = h[q]
        /\ h[p] = IF j = i THEN g[p] + a ELSE g[p]
    <3>1. /\ \A q \in DOMAIN pay : pay[q].applied[j] \in Nat /\ pay[q].reversed \in BOOLEAN
          /\ j \in Ids
      BY <1>1 DEF Payment, Ids
    <3>2. /\ DOMAIN new = DOMAIN pay
          /\ \A q \in DOMAIN pay : /\ new[q].reversed = pay[q].reversed
                                   /\ new[q].applied[j] =
                                        IF q = p /\ j = i THEN pay[q].applied[j] + a
                                        ELSE pay[q].applied[j]
      BY <1>6, <3>1
    <3> QED
      BY <3>1, <3>2
  <2> HIDE DEF g, h
  <2>3. Paid(new, j) = Paid(pay, j) + h[p] - g[p]
    <3>1. PICK D : D = DOMAIN pay
      OBVIOUS
    <3>2. IsFiniteSet(D) /\ p \in D
      BY <1>1, <3>1
    <3>3. \A q \in D : g[q] \in Int /\ h[q] \in Int
      BY <2>2, <3>1
    <3>4. \A q \in D \ {p} : g[q] = h[q]
      BY <2>2, <3>1
    <3>5. SumFunctionOnSet(h, D) = SumFunctionOnSet(g, D) + h[p] - g[p]
      BY <3>2, <3>3, <3>4, SumChanges
    <3> QED
      BY <2>1, <3>1, <3>5, Zenon
  <2>4. Paid(pay, j) \in Nat
    BY PaidIsNatural
  <2>5. g[p] \in Int /\ h[p] = IF j = i THEN g[p] + a ELSE g[p]
    BY <2>2
  <2> QED
    BY <2>3, <2>4, <2>5
<1>8. IsFiniteSet(I)
  BY IdsAreFinite, FS_Subset
<1>9. ASSUME NEW q \in DOMAIN pay
      PROVE  Left(new, I, q) = IF q = p THEN Left(pay, I, q) - a ELSE Left(pay, I, q)
  <2>1. PICK f : f = pay[q].applied
    OBVIOUS
  <2>2. PICK e : e = new[q].applied
    OBVIOUS
  <2>3. /\ Left(pay, I, q) = IF pay[q].reversed THEN 0
                             ELSE pay[q].amount - Spent(I, f)
        /\ Left(new, I, q) = IF new[q].reversed THEN 0
                             ELSE new[q].amount - Spent(I, e)
    BY <2>1, <2>2, Zenon DEF Left, Spent
  <2>4. \A j \in I : /\ f[j] \in Int
                     /\ e[j] = IF q = p /\ j = i THEN f[j] + a ELSE f[j]
    <3>1. pay[q] \in Payment /\ \A j \in I : j \in Ids
      BY <1>1
    <3>2. \A j \in I : pay[q].applied[j] \in Nat
      BY <3>1 DEF Payment, Ids
    <3>3. \A j \in I : new[q].applied[j] =
                   IF q = p /\ j = i THEN pay[q].applied[j] + a ELSE pay[q].applied[j]
      BY <1>6, <3>1
    <3> QED
      BY <2>1, <2>2, <3>2, <3>3
  <2>5. pay[q].amount \in Nat /\ pay[q].reversed = new[q].reversed
                              /\ pay[q].amount = new[q].amount
    <3>1. pay[q] \in Payment
      BY <1>1
    <3>2. pay[q].amount \in Nat
      BY <3>1, Constants DEF Payment, Ids
    <3> QED
      BY <1>6, <3>2
  <2>6. PICK more : more = IF q = p THEN a ELSE 0
    OBVIOUS
  <2>7. more \in Int /\ \A j \in I : f[j] \in Int /\ e[j] = IF j = i THEN f[j] + more ELSE f[j]
    BY <2>4, <2>6
  <2>8. /\ Spent(I, f) \in Int
        /\ Spent(I, e) = Spent(I, f) + more
    <3>1. OneMore(I, f, e, i, more)
      BY <1>8, <2>7 DEF OneMore
    <3> QED
      BY <3>1, SpentChanges
  <2>9. q = p => ~pay[q].reversed
    OBVIOUS
  <2> QED
    BY <2>3, <2>5, <2>6, <2>8, <2>9
<1>10. CreditLeft(new, I) = CreditLeft(pay, I) - a
  <2> DEFINE g == [q \in DOMAIN pay |-> Left(pay, I, q)]
             h == [q \in DOMAIN new |-> Left(new, I, q)]
  <2>1. /\ CreditLeft(pay, I) = SumFunctionOnSet(g, DOMAIN pay)
        /\ CreditLeft(new, I) = SumFunctionOnSet(h, DOMAIN pay)
    BY <1>6 DEF CreditLeft, SumFunction
  <2>2. \A q \in DOMAIN pay : g[q] = Left(pay, I, q) /\ h[q] = Left(new, I, q)
    BY <1>6
  <2>3. \A q \in DOMAIN pay : Left(pay, I, q) \in Int
    BY LeftIsInteger
  <2>4. /\ \A q \in DOMAIN pay : g[q] \in Int /\ h[q] \in Int
        /\ \A q \in DOMAIN pay \ {p} : g[q] = h[q]
        /\ h[p] = g[p] - a
    <3>1. \A q \in DOMAIN pay : Left(new, I, q) = IF q = p THEN Left(pay, I, q) - a
                                                  ELSE Left(pay, I, q)
      BY <1>9
    <3> HIDE DEF g, h
    <3>2. ASSUME NEW q \in DOMAIN pay
          PROVE  /\ g[q] \in Int /\ h[q] \in Int
                 /\ h[q] = IF q = p THEN g[q] - a ELSE g[q]
      <4>1. Left(pay, I, q) \in Int /\ g[q] = Left(pay, I, q) /\ h[q] = Left(new, I, q)
        BY <2>2, <2>3
      <4>2. Left(new, I, q) = IF q = p THEN Left(pay, I, q) - a ELSE Left(pay, I, q)
        BY <3>1
      <4> QED
        BY <4>1, <4>2
    <3> QED
      BY <3>2
  <2> HIDE DEF g, h
  <2>5. PICK D : D = DOMAIN pay
    OBVIOUS
  <2>6. IsFiniteSet(D) /\ p \in D
    BY <1>1, <2>5
  <2>7. \A q \in D : g[q] \in Int /\ h[q] \in Int
    BY <2>4, <2>5
  <2>8. \A q \in D \ {p} : g[q] = h[q]
    BY <2>4, <2>5
  <2>9. SumFunctionOnSet(h, D) = SumFunctionOnSet(g, D) + h[p] - g[p]
    BY <2>6, <2>7, <2>8, SumChanges
  <2>10. SumFunctionOnSet(g, D) \in Int
    BY <2>6, <2>7, SumTakes
  <2>11. /\ CreditLeft(pay, I) = SumFunctionOnSet(g, D)
         /\ CreditLeft(new, I) = SumFunctionOnSet(h, D)
    BY <2>1, <2>5, Zenon
  <2>12. h[p] = g[p] - a /\ g[p] \in Int
    BY <2>4
  <2> QED
    BY <2>9, <2>10, <2>11, <2>12
<1> QED
  BY <1>5, <1>6, <1>7, <1>9, <1>10 DEF Spends

\* The rows of memos and refunds.
LEMMA MemosAreNatural ==
  ASSUME NEW memo \in MemoTable, NEW i
  PROVE  MemosOn(memo, i) \in Nat
<1> DEFINE g == [m \in DOMAIN memo |-> IF memo[m].invoice = i THEN memo[m].amount ELSE 0]
<1>1. IsFiniteSet(DOMAIN memo) /\ \A m \in DOMAIN memo : memo[m] \in Memo
  BY Places DEF MemoTable
<1>2. \A m \in DOMAIN memo : g[m] \in Nat
  BY <1>1, Constants DEF Memo
<1>3. MemosOn(memo, i) = SumFunctionOnSet(g, DOMAIN memo)
  BY DEF MemosOn, SumFunction
<1> HIDE DEF g
<1> QED
  BY <1>1, <1>2, <1>3, SumOfNaturals

\* What is refunded on a memo; nothing, when no refund names it.
LEMMA RefundsAreNatural ==
  ASSUME NEW refund \in RefundTable, NEW m
  PROVE  /\ RefundsOn(refund, m) \in Nat
         /\ (\A r \in DOMAIN refund : refund[r].memo # m) => RefundsOn(refund, m) = 0
<1> DEFINE g == [r \in DOMAIN refund |-> IF refund[r].memo = m THEN refund[r].amount ELSE 0]
<1>1. IsFiniteSet(DOMAIN refund) /\ \A r \in DOMAIN refund : refund[r] \in Refund
  BY Places DEF RefundTable
<1>2. /\ \A r \in DOMAIN refund : g[r] \in Nat
      /\ (\A r \in DOMAIN refund : refund[r].memo # m) => \A r \in DOMAIN refund : g[r] = 0
  BY <1>1, Constants DEF Refund
<1>3. RefundsOn(refund, m) = SumFunctionOnSet(g, DOMAIN refund)
  BY DEF RefundsOn, SumFunction
<1> HIDE DEF g
<1> QED
  BY <1>1, <1>2, <1>3, SumOfNaturals

\* What is refunded on an invoice, never more than its memos.
LEMMA RefundsForAreNatural ==
  ASSUME NEW memo \in MemoTable, NEW refund \in RefundTable, NEW i
  PROVE  /\ RefundsFor(memo, refund, i) \in Nat
         /\ (\A m \in DOMAIN memo : memo[m].invoice = i => RefundsOn(refund, m) = 0) =>
              RefundsFor(memo, refund, i) = 0
         /\ (\A m \in DOMAIN memo : RefundsOn(refund, m) <= memo[m].amount) =>
              RefundsFor(memo, refund, i) <= MemosOn(memo, i)
<1> DEFINE g == [m \in DOMAIN memo |-> IF memo[m].invoice = i THEN RefundsOn(refund, m) ELSE 0]
           h == [m \in DOMAIN memo |-> IF memo[m].invoice = i THEN memo[m].amount ELSE 0]
<1>1. IsFiniteSet(DOMAIN memo) /\ \A m \in DOMAIN memo : memo[m] \in Memo
  BY Places DEF MemoTable
<1>2. /\ \A m \in DOMAIN memo : g[m] \in Nat
      /\ (\A m \in DOMAIN memo : memo[m].invoice = i => RefundsOn(refund, m) = 0) =>
           \A m \in DOMAIN memo : g[m] = 0
  BY RefundsAreNatural
<1>3. \A m \in DOMAIN memo : h[m] \in Nat
  BY <1>1, Constants DEF Memo
<1>4. (\A m \in DOMAIN memo : RefundsOn(refund, m) <= memo[m].amount) =>
        \A m \in DOMAIN memo : g[m] <= h[m]
  OBVIOUS
<1>5. /\ RefundsFor(memo, refund, i) = SumFunctionOnSet(g, DOMAIN memo)
      /\ MemosOn(memo, i) = SumFunctionOnSet(h, DOMAIN memo)
  BY DEF RefundsFor, MemosOn, SumFunction
<1> HIDE DEF g, h
<1>6. /\ SumFunctionOnSet(g, DOMAIN memo) \in Nat
      /\ (\A m \in DOMAIN memo : g[m] = 0) => SumFunctionOnSet(g, DOMAIN memo) = 0
  BY <1>1, <1>2, SumOfNaturals
<1>7. (\A m \in DOMAIN memo : g[m] <= h[m]) =>
        SumFunctionOnSet(g, DOMAIN memo) <= SumFunctionOnSet(h, DOMAIN memo)
  <2>1. \A m \in DOMAIN memo : g[m] \in Int /\ h[m] \in Int
    BY <1>2, <1>3
  <2> QED
    BY <1>1, <2>1, SumGrows
<1> QED
  BY <1>2, <1>4, <1>5, <1>6, <1>7

(***************************************************************************)
(* Books.                                                                  *)
(***************************************************************************)
InvTable == Seq(Invoice)
PropTable == Seq(Proposal)
SubTable == [Subscriptions -> Subscription]

\* The tables of a book, and a book with one table replaced.
LEMMA BookParts ==
  ASSUME NEW b \in Book
  PROVE  /\ b.sub \in SubTable /\ b.inv \in InvTable /\ b.pay \in PayTable
         /\ b.memo \in MemoTable /\ b.refund \in RefundTable /\ b.prop \in PropTable
         /\ \A t \in PayTable : /\ [b EXCEPT !.pay = t] \in Book
                                /\ [b EXCEPT !.pay = t].pay = t
                                /\ [b EXCEPT !.pay = t].sub = b.sub
                                /\ [b EXCEPT !.pay = t].inv = b.inv
                                /\ [b EXCEPT !.pay = t].memo = b.memo
                                /\ [b EXCEPT !.pay = t].refund = b.refund
                                /\ [b EXCEPT !.pay = t].prop = b.prop
         /\ \A t \in InvTable : /\ [b EXCEPT !.inv = t] \in Book
                                /\ [b EXCEPT !.inv = t].pay = b.pay
                                /\ [b EXCEPT !.inv = t].sub = b.sub
                                /\ [b EXCEPT !.inv = t].inv = t
                                /\ [b EXCEPT !.inv = t].memo = b.memo
                                /\ [b EXCEPT !.inv = t].refund = b.refund
                                /\ [b EXCEPT !.inv = t].prop = b.prop
         /\ \A t \in MemoTable : /\ [b EXCEPT !.memo = t] \in Book
                                 /\ [b EXCEPT !.memo = t].pay = b.pay
                                 /\ [b EXCEPT !.memo = t].sub = b.sub
                                 /\ [b EXCEPT !.memo = t].inv = b.inv
                                 /\ [b EXCEPT !.memo = t].memo = t
                                 /\ [b EXCEPT !.memo = t].refund = b.refund
                                 /\ [b EXCEPT !.memo = t].prop = b.prop
         /\ \A t \in RefundTable : /\ [b EXCEPT !.refund = t] \in Book
                                   /\ [b EXCEPT !.refund = t].pay = b.pay
                                   /\ [b EXCEPT !.refund = t].sub = b.sub
                                   /\ [b EXCEPT !.refund = t].inv = b.inv
                                   /\ [b EXCEPT !.refund = t].memo = b.memo
                                   /\ [b EXCEPT !.refund = t].refund = t
                                   /\ [b EXCEPT !.refund = t].prop = b.prop
         /\ \A t \in PropTable : /\ [b EXCEPT !.prop = t] \in Book
                                 /\ [b EXCEPT !.prop = t].pay = b.pay
                                 /\ [b EXCEPT !.prop = t].sub = b.sub
                                 /\ [b EXCEPT !.prop = t].inv = b.inv
                                 /\ [b EXCEPT !.prop = t].memo = b.memo
                                 /\ [b EXCEPT !.prop = t].refund = b.refund
                                 /\ [b EXCEPT !.prop = t].prop = t
         /\ \A t \in SubTable : /\ [b EXCEPT !.sub = t] \in Book
                                /\ [b EXCEPT !.sub = t].pay = b.pay
                                /\ [b EXCEPT !.sub = t].sub = t
                                /\ [b EXCEPT !.sub = t].inv = b.inv
                                /\ [b EXCEPT !.sub = t].memo = b.memo
                                /\ [b EXCEPT !.sub = t].refund = b.refund
                                /\ [b EXCEPT !.sub = t].prop = b.prop
<1> USE DEF Book, SubTable, InvTable, PayTable, MemoTable, RefundTable, PropTable
<1> QED
  BY Zenon

\* A table and what may be written into it.
LEMMA InvRows ==
  ASSUME NEW inv \in InvTable
  PROVE  /\ DOMAIN inv = 1 .. Len(inv) /\ Len(inv) \in Nat /\ IsFiniteSet(DOMAIN inv)
         /\ \A i \in DOMAIN inv : inv[i] \in Invoice
         /\ \A i \in DOMAIN inv, row \in Invoice :
              /\ [inv EXCEPT ![i] = row] \in InvTable /\ Len([inv EXCEPT ![i] = row]) = Len(inv)
              /\ \A j \in DOMAIN inv : [inv EXCEPT ![i] = row][j] = IF j = i THEN row ELSE inv[j]
         /\ \A row \in Invoice :
              /\ Append(inv, row) \in InvTable /\ Len(Append(inv, row)) = Len(inv) + 1
              /\ \A j \in DOMAIN inv : Append(inv, row)[j] = inv[j]
              /\ Append(inv, row)[Len(inv) + 1] = row
  BY Places, ExceptSeq, AppendProperties DEF InvTable

\* The rows of the payments.
LEMMA PayRows ==
  ASSUME NEW pay \in PayTable
  PROVE  /\ DOMAIN pay = 1 .. Len(pay) /\ Len(pay) \in Nat /\ IsFiniteSet(DOMAIN pay)
         /\ \A p \in DOMAIN pay : pay[p] \in Payment
         /\ \A p \in DOMAIN pay, row \in Payment :
              /\ [pay EXCEPT ![p] = row] \in PayTable /\ Len([pay EXCEPT ![p] = row]) = Len(pay)
              /\ \A q \in DOMAIN pay : [pay EXCEPT ![p] = row][q] = IF q = p THEN row ELSE pay[q]
         /\ \A row \in Payment :
              /\ Append(pay, row) \in PayTable /\ Len(Append(pay, row)) = Len(pay) + 1
              /\ \A q \in DOMAIN pay : Append(pay, row)[q] = pay[q]
              /\ Append(pay, row)[Len(pay) + 1] = row
  BY Places, ExceptSeq, AppendProperties DEF PayTable

\* The rows of the memos.
LEMMA MemoRows ==
  ASSUME NEW memo \in MemoTable
  PROVE  /\ DOMAIN memo = 1 .. Len(memo) /\ Len(memo) \in Nat /\ IsFiniteSet(DOMAIN memo)
         /\ \A m \in DOMAIN memo : memo[m] \in Memo
         /\ \A row \in Memo :
              /\ Append(memo, row) \in MemoTable /\ Len(Append(memo, row)) = Len(memo) + 1
              /\ \A m \in DOMAIN memo : Append(memo, row)[m] = memo[m]
              /\ Append(memo, row)[Len(memo) + 1] = row
  BY Places, AppendProperties DEF MemoTable

\* The rows of the refunds.
LEMMA RefundRows ==
  ASSUME NEW refund \in RefundTable
  PROVE  /\ DOMAIN refund = 1 .. Len(refund) /\ Len(refund) \in Nat /\ IsFiniteSet(DOMAIN refund)
         /\ \A r \in DOMAIN refund : refund[r] \in Refund
         /\ \A row \in Refund :
              /\ Append(refund, row) \in RefundTable /\ Len(Append(refund, row)) = Len(refund) + 1
              /\ \A r \in DOMAIN refund : Append(refund, row)[r] = refund[r]
              /\ Append(refund, row)[Len(refund) + 1] = row
  BY Places, AppendProperties DEF RefundTable

\* The rows of the proposals.
LEMMA PropRows ==
  ASSUME NEW prop \in PropTable
  PROVE  /\ DOMAIN prop = 1 .. Len(prop) /\ Len(prop) \in Nat /\ IsFiniteSet(DOMAIN prop)
         /\ \A q \in DOMAIN prop : prop[q] \in Proposal
         /\ \A q \in DOMAIN prop, row \in Proposal :
              /\ [prop EXCEPT ![q] = row] \in PropTable /\ Len([prop EXCEPT ![q] = row]) = Len(prop)
              /\ \A k \in DOMAIN prop : [prop EXCEPT ![q] = row][k] = IF k = q THEN row ELSE prop[k]
         /\ \A row \in Proposal :
              /\ Append(prop, row) \in PropTable /\ Len(Append(prop, row)) = Len(prop) + 1
              /\ \A k \in DOMAIN prop : Append(prop, row)[k] = prop[k]
              /\ Append(prop, row)[Len(prop) + 1] = row
  BY Places, ExceptSeq, AppendProperties DEF PropTable

(***************************************************************************)
(* What the sums of a book keep to, and what a payment applied to an       *)
(* invoice does to them.                                                   *)
(***************************************************************************)
Sound(b) ==
  /\ b \in Book /\ Len(b.inv) <= MaxInvoices
  /\ \A i \in DOMAIN b.inv : b.inv[i].start < MaxMonths + i
  /\ \A p \in DOMAIN b.pay : \A j \in Ids : j \notin DOMAIN b.inv => b.pay[p].applied[j] = 0
  /\ \A m \in DOMAIN b.memo : /\ b.memo[m].invoice \in DOMAIN b.inv
                              /\ RefundedOn(b, m) <= b.memo[m].amount
  /\ \A r \in DOMAIN b.refund : b.refund[r].memo \in DOMAIN b.memo
  /\ \A p \in DOMAIN b.pay : Available(b, p) >= 0
  /\ \A i \in DOMAIN b.inv : PaidAmount(b, i) <= Price

\* The invoices of a book are numbers of invoices, its tables are of their types.
LEMMA SoundParts ==
  ASSUME NEW b, Sound(b)
  PROVE  /\ b \in Book /\ b.sub \in SubTable /\ b.inv \in InvTable /\ b.pay \in PayTable
         /\ b.memo \in MemoTable /\ b.refund \in RefundTable /\ b.prop \in PropTable
         /\ DOMAIN b.inv \subseteq Ids
<1>1. /\ b \in Book /\ b.sub \in SubTable /\ b.inv \in InvTable /\ b.pay \in PayTable
      /\ b.memo \in MemoTable /\ b.refund \in RefundTable /\ b.prop \in PropTable
  BY BookParts DEF Sound
<1>2. DOMAIN b.inv = 1 .. Len(b.inv) /\ Len(b.inv) \in Nat /\ Len(b.inv) <= MaxInvoices
  BY <1>1, InvRows DEF Sound
<1>3. MaxInvoices \in Nat
  BY Constants
<1>4. DOMAIN b.inv \subseteq Ids
  BY <1>2, <1>3 DEF Ids
<1> QED
  BY <1>1, <1>4

\* The sums of a sound book.
LEMMA Amount ==
  ASSUME NEW b, Sound(b)
  PROVE  /\ \A i \in Ids : PaidAmount(b, i) \in Nat
         /\ \A i : /\ Credited(b, i) \in Nat /\ Refunded(b, i) \in Nat
                   /\ Refunded(b, i) <= Credited(b, i)
         /\ \A i \in Ids : /\ Balance(b, i) \in Int
                           /\ Balance(b, i) = Price - PaidAmount(b, i) - Credited(b, i)
                                                    + Refunded(b, i)
         /\ \A p \in DOMAIN b.pay : Available(b, p) \in Nat /\ Available(b, p) <= Credit(b)
         /\ Credit(b) \in Nat
         /\ (\A p \in DOMAIN b.pay : Available(b, p) = 0) => Credit(b) = 0
<1>1. /\ b.pay \in PayTable /\ b.memo \in MemoTable /\ b.refund \in RefundTable
      /\ DOMAIN b.inv \subseteq Ids
  BY SoundParts
<1>2. \A i \in Ids : PaidAmount(b, i) \in Nat
  BY <1>1, PaidIsNatural, Money
<1>3. ASSUME NEW i
      PROVE  Credited(b, i) \in Nat /\ Refunded(b, i) \in Nat /\ Refunded(b, i) <= Credited(b, i)
  <2>1. \A m \in DOMAIN b.memo : RefundsOn(b.refund, m) <= b.memo[m].amount
    BY Money DEF Sound
  <2>2. MemosOn(b.memo, i) \in Nat /\ RefundsFor(b.memo, b.refund, i) \in Nat
    BY <1>1, MemosAreNatural, RefundsForAreNatural
  <2>3. RefundsFor(b.memo, b.refund, i) <= MemosOn(b.memo, i)
    BY <1>1, <2>1, RefundsForAreNatural
  <2> QED
    BY <2>2, <2>3, Money
<1>4. ASSUME NEW i \in Ids
      PROVE  /\ Balance(b, i) \in Int
             /\ Balance(b, i) = Price - PaidAmount(b, i) - Credited(b, i) + Refunded(b, i)
  <2>1. Balance(b, i) = Price - PaidAmount(b, i) - Credited(b, i) + Refunded(b, i)
    BY DEF Balance
  <2> QED
    BY <1>2, <1>3, <2>1, Constants
<1>5. PICK I : I = DOMAIN b.inv
  OBVIOUS
<1>6. /\ \A p \in DOMAIN b.pay : Available(b, p) = Left(b.pay, I, p)
      /\ Credit(b) = CreditLeft(b.pay, I)
      /\ I \subseteq Ids
  BY <1>1, <1>5, Money
<1>7. /\ \A p \in DOMAIN b.pay : Left(b.pay, I, p) \in Int
      /\ CreditLeft(b.pay, I) \in Int
  BY <1>1, <1>6, LeftIsInteger
<1>8. \A p \in DOMAIN b.pay : Left(b.pay, I, p) >= 0
  BY <1>6 DEF Sound
<1>9. /\ CreditLeft(b.pay, I) >= 0
      /\ \A p \in DOMAIN b.pay : Left(b.pay, I, p) <= CreditLeft(b.pay, I)
      /\ (\A p \in DOMAIN b.pay : Left(b.pay, I, p) = 0) => CreditLeft(b.pay, I) = 0
  BY <1>1, <1>6, <1>8, LeftIsInteger
<1>10. /\ \A p \in DOMAIN b.pay : Available(b, p) \in Nat /\ Available(b, p) <= Credit(b)
       /\ Credit(b) \in Nat
       /\ (\A p \in DOMAIN b.pay : Available(b, p) = 0) => Credit(b) = 0
  BY <1>6, <1>7, <1>8, <1>9
<1> QED
  BY <1>2, <1>3, <1>4, <1>10

\* c is b after payments were applied to the invoices of I.
Fills(b, c, I) ==
  /\ Sound(c)
  /\ c.sub = b.sub /\ c.memo = b.memo /\ c.refund = b.refund /\ c.prop = b.prop
  /\ DOMAIN c.inv = DOMAIN b.inv /\ Len(c.inv) = Len(b.inv)
  /\ DOMAIN c.pay = DOMAIN b.pay /\ Len(c.pay) = Len(b.pay)
  /\ \A i \in DOMAIN b.inv :
       /\ c.inv[i].sub = b.inv[i].sub /\ c.inv[i].start = b.inv[i].start
       /\ i \notin I => c.inv[i] = b.inv[i] /\ PaidAmount(c, i) = PaidAmount(b, i)
       /\ PaidAmount(b, i) <= PaidAmount(c, i)
  /\ \A p \in DOMAIN b.pay : Available(c, p) <= Available(b, p)

\* A book is what it was with nothing filled.
LEMMA FillsNothing ==
  ASSUME NEW b, Sound(b), NEW I
  PROVE  Fills(b, b, I)
<1>1. \A i \in DOMAIN b.inv : PaidAmount(b, i) <= PaidAmount(b, i)
  BY Amount, SoundParts
<1>2. \A p \in DOMAIN b.pay : Available(b, p) <= Available(b, p)
  BY Amount
<1> QED
  BY <1>1, <1>2 DEF Fills

\* Filling in turn is filling together.
LEMMA FillsOn ==
  ASSUME NEW b, NEW c, NEW d, NEW I, NEW J, NEW K, Sound(b), Fills(b, c, I), Fills(c, d, J),
         I \cup J \subseteq K
  PROVE  Fills(b, d, K)
<1>0. Sound(c) /\ Sound(d)
  BY DEF Fills
<1>1. ASSUME NEW i \in DOMAIN b.inv
      PROVE  /\ d.inv[i].sub = b.inv[i].sub /\ d.inv[i].start = b.inv[i].start
             /\ i \notin K => d.inv[i] = b.inv[i] /\ PaidAmount(d, i) = PaidAmount(b, i)
             /\ PaidAmount(b, i) <= PaidAmount(d, i)
  <2>1. i \in DOMAIN c.inv /\ i \in Ids
    BY SoundParts DEF Fills
  <2>2. /\ PaidAmount(b, i) \in Nat /\ PaidAmount(c, i) \in Nat /\ PaidAmount(d, i) \in Nat
    BY <1>0, <2>1, Amount
  <2>3. PaidAmount(b, i) <= PaidAmount(c, i) /\ PaidAmount(c, i) <= PaidAmount(d, i)
    BY <2>1 DEF Fills
  <2>4. /\ d.inv[i].sub = b.inv[i].sub /\ d.inv[i].start = b.inv[i].start
        /\ i \notin K => d.inv[i] = b.inv[i] /\ PaidAmount(d, i) = PaidAmount(b, i)
    BY <2>1 DEF Fills
  <2> QED
    BY <2>2, <2>3, <2>4
<1>2. ASSUME NEW p \in DOMAIN b.pay
      PROVE  Available(d, p) <= Available(b, p)
  <2>1. p \in DOMAIN c.pay /\ p \in DOMAIN d.pay
    BY DEF Fills
  <2>2. Available(b, p) \in Nat /\ Available(c, p) \in Nat /\ Available(d, p) \in Nat
    BY <1>0, <2>1, Amount
  <2>3. Available(d, p) <= Available(c, p) /\ Available(c, p) <= Available(b, p)
    BY <2>1 DEF Fills
  <2> QED
    BY <2>2, <2>3
<1>3. /\ d.sub = b.sub /\ d.memo = b.memo /\ d.refund = b.refund /\ d.prop = b.prop
      /\ DOMAIN d.inv = DOMAIN b.inv /\ Len(d.inv) = Len(b.inv)
      /\ DOMAIN d.pay = DOMAIN b.pay /\ Len(d.pay) = Len(b.pay)
  BY DEF Fills
<1> QED
  BY <1>0, <1>1, <1>2, <1>3 DEF Fills

\* What is owed only shrinks, and on the invoices of I only.
LEMMA FilledBalance ==
  ASSUME NEW b, NEW c, NEW I, Sound(b), Fills(b, c, I), NEW i \in DOMAIN b.inv
  PROVE  /\ Balance(c, i) \in Int /\ Balance(b, i) \in Int /\ Balance(c, i) <= Balance(b, i)
         /\ i \notin I => Balance(c, i) = Balance(b, i)
         /\ Refunded(c, i) = Refunded(b, i) /\ Credited(c, i) = Credited(b, i)
<1>1. Sound(c) /\ i \in Ids
  BY SoundParts DEF Fills
<1>2. Refunded(c, i) = Refunded(b, i) /\ Credited(c, i) = Credited(b, i)
  BY Money DEF Fills
<1>3. /\ PaidAmount(b, i) <= PaidAmount(c, i)
      /\ i \notin I => PaidAmount(c, i) = PaidAmount(b, i)
  BY DEF Fills
<1>4. /\ PaidAmount(b, i) \in Nat /\ PaidAmount(c, i) \in Nat
      /\ Refunded(b, i) \in Nat /\ Credited(b, i) \in Nat
      /\ Balance(b, i) = Price - PaidAmount(b, i) - Credited(b, i) + Refunded(b, i)
      /\ Balance(c, i) = Price - PaidAmount(c, i) - Credited(c, i) + Refunded(c, i)
  BY <1>1, Amount
<1> QED
  BY <1>2, <1>3, <1>4, Constants

\* Filling creates no credit.
LEMMA FilledCredit ==
  ASSUME NEW b, NEW c, NEW I, Sound(b), Fills(b, c, I), Credit(c) > 0
  PROVE  Credit(b) > 0
<1>1. Sound(c)
  BY DEF Fills
<1>2. PICK p \in DOMAIN c.pay : Available(c, p) # 0
  BY <1>1, Amount
<1>3. p \in DOMAIN b.pay /\ Available(c, p) <= Available(b, p)
  BY DEF Fills
<1>4. /\ Available(c, p) \in Nat /\ Available(b, p) \in Nat /\ Available(b, p) <= Credit(b)
      /\ Credit(b) \in Nat
  BY <1>1, <1>3, Amount
<1> QED
  BY <1>2, <1>3, <1>4

\* The lesser of two numbers.
LEMMA LeastOfTwo ==
  ASSUME NEW x \in Int, NEW y \in Int
  PROVE  Min({x, y}) \in {x, y} /\ Min({x, y}) <= x /\ Min({x, y}) <= y
<1>1. \E z \in {x, y} : \A w \in {x, y} : z <= w
  OBVIOUS
<1>2. Min({x, y}) \in {x, y} /\ \A w \in {x, y} : Min({x, y}) <= w
  BY <1>1, Zenon DEF Min
<1> QED
  BY <1>2

\* A payment p applied to an invoice i leaves no money of p or no debt of i.
Settles(b, c, i, p) ==
  /\ Fills(b, c, {i}) /\ c.inv = b.inv
  /\ Balance(c, i) <= 0 \/ Available(c, p) = 0
  /\ PaidAmount(c, i) + Credit(c) = PaidAmount(b, i) + Credit(b)

\* A payment applied to an invoice settles it or is used up.
LEMMA AppliedSettles ==
  ASSUME NEW b, Sound(b), NEW i \in DOMAIN b.inv, NEW p \in DOMAIN b.pay
  PROVE  Settles(b, AppliedTo(b, i, p), i, p)
<1>1. /\ b \in Book /\ b.inv \in InvTable /\ b.pay \in PayTable
      /\ DOMAIN b.inv \subseteq Ids /\ i \in Ids
  BY SoundParts
<1>2. /\ Balance(b, i) \in Int /\ Available(b, p) \in Nat /\ Credit(b) \in Nat
      /\ PaidAmount(b, i) \in Nat /\ Credited(b, i) \in Nat /\ Refunded(b, i) \in Nat
      /\ Refunded(b, i) <= Credited(b, i)
      /\ Balance(b, i) = Price - PaidAmount(b, i) - Credited(b, i) + Refunded(b, i)
  BY <1>1, Amount
<1>3. PICK a : a = Min({Balance(b, i), Available(b, p)})
  OBVIOUS
<1>4. /\ a \in Int /\ a <= Balance(b, i) /\ a <= Available(b, p)
      /\ a = Balance(b, i) \/ a = Available(b, p)
  <2>1. Balance(b, i) \in Int /\ Available(b, p) \in Int
    BY <1>2
  <2>2. PICK x, y : x = Balance(b, i) /\ y = Available(b, p)
    OBVIOUS
  <2>3. x \in Int /\ y \in Int
    BY <2>1, <2>2
  <2>4. Min({x, y}) \in {x, y} /\ Min({x, y}) <= x /\ Min({x, y}) <= y
    BY <2>3, LeastOfTwo
  <2>5. a = Min({x, y})
    BY <1>3, <2>2, Zenon
  <2> QED
    BY <2>2, <2>3, <2>4, <2>5
<1>5. AppliedTo(b, i, p) = IF a > 0 THEN [b EXCEPT !.pay[p].applied[i] = @ + a] ELSE b
  BY <1>3 DEF AppliedTo
<1>6. CASE ~(a > 0)
  <2>1. AppliedTo(b, i, p) = b
    BY <1>5, <1>6
  <2>2. Balance(b, i) <= 0 \/ Available(b, p) = 0
    BY <1>2, <1>4, <1>6
  <2>3. Fills(b, b, {i})
    BY FillsNothing
  <2> QED
    BY <2>1, <2>2, <2>3 DEF Settles
<1>7. CASE a > 0
  <2>1. PICK new : new = [b.pay EXCEPT ![p].applied[i] = @ + a]
    OBVIOUS
  <2>2. PICK c : c = AppliedTo(b, i, p)
    OBVIOUS
  <2>3. c = [b EXCEPT !.pay = new]
    BY <1>5, <1>7, <2>1, <2>2
  <2>4. Applies(new, b.pay, p, i, a) /\ a \in Nat
    BY <1>4, <1>7, <2>1 DEF Applies
  <2>5. ~b.pay[p].reversed
    <3>1. b.pay[p].reversed => Available(b, p) = 0
      BY DEF Available
    <3> QED
      BY <1>2, <1>4, <1>7, <3>1
  <2>6. PICK I : I = DOMAIN b.inv
    OBVIOUS
  <2>7. I \subseteq Ids /\ i \in I
    BY <1>1, <2>6
  <2>8. /\ new \in PayTable /\ Len(new) = Len(b.pay)
        /\ \A q \in DOMAIN b.pay :
             \A j \in Ids : new[q].applied[j] =
               IF q = p /\ j = i THEN b.pay[q].applied[j] + a ELSE b.pay[q].applied[j]
        /\ \A j \in Ids : Paid(new, j) = IF j = i THEN Paid(b.pay, j) + a ELSE Paid(b.pay, j)
        /\ \A q \in DOMAIN b.pay :
              Left(new, I, q) = IF q = p THEN Left(b.pay, I, q) - a ELSE Left(b.pay, I, q)
        /\ CreditLeft(new, I) = CreditLeft(b.pay, I) - a
    <3>1. PICK pay : pay = b.pay
      OBVIOUS
    <3>2. /\ pay \in PayTable /\ p \in DOMAIN pay /\ ~pay[p].reversed
          /\ Applies(new, pay, p, i, a)
      BY <1>1, <2>4, <2>5, <3>1, Zenon
    <3>3. /\ new \in PayTable /\ Len(new) = Len(pay)
          /\ \A q \in DOMAIN pay :
               \A j \in Ids : new[q].applied[j] =
                 IF q = p /\ j = i THEN pay[q].applied[j] + a ELSE pay[q].applied[j]
          /\ \A j \in Ids : Paid(new, j) = IF j = i THEN Paid(pay, j) + a ELSE Paid(pay, j)
          /\ \A q \in DOMAIN pay :
                Left(new, I, q) = IF q = p THEN Left(pay, I, q) - a ELSE Left(pay, I, q)
          /\ CreditLeft(new, I) = CreditLeft(pay, I) - a
      <4>1. Applicable(new, pay, I, p, i, a)
        BY <2>4, <2>7, <3>2 DEF Applicable
      <4>2. Spends(new, pay, I, p, i, a)
        BY <4>1, Applying
      <4> QED
        BY <4>2 DEF Spends
    <3> QED
      BY <3>1, <3>3
  <2>9. /\ c \in Book /\ c.pay = new /\ c.sub = b.sub /\ c.inv = b.inv /\ c.memo = b.memo
        /\ c.refund = b.refund /\ c.prop = b.prop
    BY <1>1, <2>3, <2>8, BookParts
  <2>10. DOMAIN c.pay = DOMAIN b.pay /\ Len(c.pay) = Len(b.pay)
    <3>1. DOMAIN new = 1 .. Len(new) /\ DOMAIN b.pay = 1 .. Len(b.pay)
      BY <1>1, <2>8, PayRows
    <3> QED
      BY <2>8, <2>9, <3>1
  <2>11. /\ \A j \in Ids : PaidAmount(c, j) = IF j = i THEN PaidAmount(b, j) + a
                                              ELSE PaidAmount(b, j)
         /\ \A q \in DOMAIN b.pay : Available(c, q) = IF q = p THEN Available(b, q) - a
                                                      ELSE Available(b, q)
         /\ Credit(c) = Credit(b) - a
    BY <2>6, <2>8, <2>9, Money
  <2>12. /\ Credited(c, i) = Credited(b, i) /\ Refunded(c, i) = Refunded(b, i)
         /\ \A m : RefundedOn(c, m) = RefundedOn(b, m)
    BY <2>9, Money
  <2>13. Balance(c, i) = Balance(b, i) - a
    <3>1. Balance(c, i) = Price - PaidAmount(c, i) - Credited(c, i) + Refunded(c, i)
      BY DEF Balance
    <3>2. PaidAmount(c, i) = PaidAmount(b, i) + a
      BY <1>1, <2>11
    <3> QED
      BY <1>2, <1>4, <2>12, <3>1, <3>2, Constants
  <2>14. \A q \in DOMAIN c.pay : Available(c, q) >= 0
    <3>1. \A q \in DOMAIN b.pay : Available(b, q) \in Nat
      BY Amount
    <3> QED
      BY <1>4, <2>10, <2>11, <3>1
  <2>15. \A j \in DOMAIN c.inv : PaidAmount(c, j) <= Price
    <3>1. \A j \in DOMAIN b.inv : PaidAmount(b, j) <= Price /\ j \in Ids
      BY <1>1 DEF Sound
    <3>2. PaidAmount(b, i) + a <= Price
      BY <1>2, <1>4, Constants
    <3> QED
      BY <2>9, <2>11, <3>1, <3>2
  <2>16. \A q \in DOMAIN c.pay : \A j \in Ids : j \notin DOMAIN c.inv => c.pay[q].applied[j] = 0
    <3>1. \A q \in DOMAIN b.pay : \A j \in Ids : j \notin DOMAIN b.inv => b.pay[q].applied[j] = 0
      BY DEF Sound
    <3> QED
      BY <2>8, <2>9, <2>10, <3>1
  <2>17. Sound(c)
    <3>1. /\ c \in Book /\ Len(c.inv) <= MaxInvoices
          /\ \A j \in DOMAIN c.inv : c.inv[j].start < MaxMonths + j
          /\ \A m \in DOMAIN c.memo : /\ c.memo[m].invoice \in DOMAIN c.inv
                                      /\ RefundedOn(c, m) <= c.memo[m].amount
          /\ \A r \in DOMAIN c.refund : c.refund[r].memo \in DOMAIN c.memo
      BY <2>9, <2>12 DEF Sound
    <3> QED
      BY <2>14, <2>15, <2>16, <3>1 DEF Sound
  <2>18. Fills(b, c, {i})
    <3>1. \A j \in DOMAIN b.inv : PaidAmount(b, j) <= PaidAmount(c, j)
      <4>1. \A j \in DOMAIN b.inv : j \in Ids /\ PaidAmount(b, j) \in Nat
        BY <1>1, Amount
      <4> QED
        BY <2>4, <2>11, <4>1
    <3>2. \A q \in DOMAIN b.pay : Available(c, q) <= Available(b, q)
      <4>1. \A q \in DOMAIN b.pay : Available(b, q) \in Nat
        BY Amount
      <4> QED
        BY <2>4, <2>11, <4>1
    <3>3. \A j \in DOMAIN b.inv : j \notin {i} => PaidAmount(c, j) = PaidAmount(b, j)
      BY <1>1, <2>11
    <3> QED
      BY <2>9, <2>10, <2>17, <3>1, <3>2, <3>3 DEF Fills
  <2>19. Balance(c, i) <= 0 \/ Available(c, p) = 0
    BY <1>2, <1>4, <2>11, <2>13
  <2>20. PaidAmount(c, i) + Credit(c) = PaidAmount(b, i) + Credit(b)
    BY <1>1, <1>2, <1>4, <2>11
  <2> QED
    BY <2>2, <2>9, <2>18, <2>19, <2>20 DEF Settles
<1> QED
  BY <1>6, <1>7

(***************************************************************************)
(* All payments applied to one invoice.                                    *)
(***************************************************************************)

\* What has become of b when the payments of s were applied to i.
Covering(b, i, s, c) ==
  /\ Fills(b, c, {i}) /\ c.inv = b.inv
  /\ Balance(c, i) <= 0 \/ \A p \in s : Available(c, p) = 0
  /\ PaidAmount(c, i) + Credit(c) = PaidAmount(b, i) + Credit(b)

\* One payment more is applied.
LEMMA CoveringOn ==
  ASSUME NEW b, Sound(b), NEW i \in DOMAIN b.inv, NEW s \in SUBSET DOMAIN b.pay, NEW p \in s,
         NEW c, Covering(b, i, s \ {p}, c)
  PROVE  Covering(b, i, s, AppliedTo(c, i, p))
<1>1. Sound(c) /\ i \in DOMAIN c.inv /\ p \in DOMAIN c.pay
  BY DEF Covering, Fills
<1>2. PICK d : d = AppliedTo(c, i, p)
  OBVIOUS
<1>3. Settles(c, d, i, p)
  BY <1>1, <1>2, AppliedSettles
<1>4. Fills(c, d, {i}) /\ Fills(b, c, {i})
  BY <1>3 DEF Settles, Covering
<1>5. Fills(b, d, {i})
  BY <1>4, FillsOn
<1>6. d.inv = b.inv /\ PaidAmount(d, i) + Credit(d) = PaidAmount(b, i) + Credit(b)
  BY <1>3 DEF Settles, Covering
<1>7. Balance(d, i) <= 0 \/ \A q \in s : Available(d, q) = 0
  <2>1. /\ Balance(d, i) \in Int /\ Balance(c, i) \in Int /\ Balance(d, i) <= Balance(c, i)
    BY <1>1, <1>4, FilledBalance
  <2>2. \A q \in s : /\ Available(d, q) \in Nat /\ Available(c, q) \in Nat
                     /\ Available(d, q) <= Available(c, q)
    <3>1. Sound(d) /\ DOMAIN d.pay = DOMAIN b.pay /\ DOMAIN c.pay = DOMAIN b.pay
      BY <1>4, <1>5 DEF Fills
    <3>2. \A q \in DOMAIN b.pay : Available(d, q) \in Nat /\ Available(c, q) \in Nat
      BY <1>1, <3>1, Amount
    <3>3. \A q \in DOMAIN b.pay : Available(d, q) <= Available(c, q)
      BY <1>4, <3>1 DEF Fills
    <3> QED
      BY <3>2, <3>3
  <2>3. Balance(c, i) <= 0 \/ \A q \in s \ {p} : Available(c, q) = 0
    BY DEF Covering
  <2>4. Balance(d, i) <= 0 \/ Available(d, p) = 0
    BY <1>3 DEF Settles
  <2>5. CASE Balance(c, i) <= 0
    BY <2>1, <2>5
  <2>6. CASE Available(d, p) = 0 /\ \A q \in s \ {p} : Available(c, q) = 0
    <3>1. \A q \in s : Available(d, q) = 0
      BY <2>2, <2>6
    <3> QED
      BY <3>1
  <2> QED
    BY <2>3, <2>4, <2>5, <2>6
<1> QED
  BY <1>2, <1>5, <1>6, <1>7 DEF Covering

\* The payments applied in turn settle the invoice, or all are used up.
LEMMA PaymentsApplied ==
  ASSUME NEW b, Sound(b), NEW i \in DOMAIN b.inv
  PROVE  Covering(b, i, DOMAIN b.pay,
                  FoldLeft(LAMBDA d, p : AppliedTo(d, i, p), b, [p \in DOMAIN b.pay |-> p]))
<1> DEFINE seq == [p \in DOMAIN b.pay |-> p]
           W == {c \in Book : Covering(b, i, {}, c)}
           pick == [s \in SUBSET DOMAIN seq |-> Max(s)]
           F == [s \in SUBSET DOMAIN seq |-> [w \in W |-> AppliedTo(w, i, seq[Max(s)])]]
           Is(iter) == iter = [s \in SUBSET DOMAIN seq |-> IF s = {} THEN b
                                 ELSE AppliedTo(iter[s \ {Max(s)}], i, seq[Max(s)])]
           the == CHOOSE iter : Is(iter)
<1>1. b.pay \in PayTable
  BY SoundParts
<1>2. /\ DOMAIN seq = DOMAIN b.pay /\ IsFiniteSet(DOMAIN seq)
      /\ \A s \in SUBSET DOMAIN seq : s # {} => Max(s) \in s /\ seq[Max(s)] = Max(s)
  <2>1. IsFiniteSet(DOMAIN b.pay) /\ DOMAIN b.pay \subseteq Int
    BY <1>1, PayRows
  <2>2. ASSUME NEW s \in SUBSET DOMAIN b.pay, s # {}
        PROVE  Max(s) \in s
    <3>1. IsFiniteSet(s) /\ s \subseteq Int
      BY <2>1, FS_Subset
    <3> QED
      BY <2>2, <3>1, Greatest
  <2> QED
    BY <2>1, <2>2
<1>3. Covering(b, i, {}, b)
  BY FillsNothing DEF Covering
<1>4. ASSUME NEW w, NEW s \in SUBSET DOMAIN seq, NEW p \in s, Covering(b, i, s \ {p}, w)
      PROVE  Covering(b, i, s, AppliedTo(w, i, p)) /\ AppliedTo(w, i, p) \in W
  <2>1. Covering(b, i, s, AppliedTo(w, i, p))
    BY <1>2, <1>4, CoveringOn
  <2>2. AppliedTo(w, i, p) \in Book
    BY <2>1 DEF Covering, Fills, Sound
  <2>3. Covering(b, i, {}, AppliedTo(w, i, p))
    BY <2>1 DEF Covering
  <2> QED
    BY <2>1, <2>2, <2>3
<1>5. ASSUME NEW w \in W, NEW p \in DOMAIN seq
      PROVE  AppliedTo(w, i, p) \in W
  <2>1. Covering(b, i, {p} \ {p}, w)
    <3>1. {p} \ {p} = {}
      OBVIOUS
    <3> QED
      BY <3>1
  <2> QED
    BY <1>4, <2>1
<1>6. PICK iter : Iterates(iter, DOMAIN seq, W, b, pick, F)
  <2>1. b \in W
    BY <1>3 DEF Sound
  <2>2. Folding(DOMAIN seq, W, b, pick, F)
    <3>1. \A s \in SUBSET DOMAIN seq : s # {} => pick[s] \in s
      BY <1>2
    <3>2. ASSUME NEW s \in SUBSET DOMAIN seq, NEW w \in W, s # {}
          PROVE  F[s][w] \in W
      <4>1. Max(s) \in DOMAIN seq /\ seq[Max(s)] = Max(s)
        BY <1>2, <3>2
      <4>2. AppliedTo(w, i, seq[Max(s)]) \in W
        <5> HIDE DEF W, seq
        <5> QED
          BY <1>5, <4>1
      <4> QED
        <5> HIDE DEF W, seq
        <5> QED
          BY <4>2
    <3> HIDE DEF W, seq, pick, F
    <3> QED
      BY <1>2, <2>1, <3>1, <3>2 DEF Folding
  <2> HIDE DEF W, seq, pick, F
  <2> QED
    BY <2>2, IterationExists
<1>7. Is(iter)
  <2>1. iter \in [SUBSET DOMAIN seq -> W]
    BY <1>6 DEF Iterates
  <2>2. \A s \in SUBSET DOMAIN seq : s # {} => iter[s \ {pick[s]}] \in W /\ pick[s] = Max(s)
    <3> HIDE DEF W, seq
    <3> QED
      BY <2>1
  <2>3. \A s \in SUBSET DOMAIN seq :
          iter[s] = IF s = {} THEN b ELSE F[s][iter[s \ {pick[s]}]]
    BY <1>6, Zenon DEF Iterates
  <2>4. \A s \in SUBSET DOMAIN seq : s # {} =>
          F[s][iter[s \ {pick[s]}]] = AppliedTo(iter[s \ {Max(s)}], i, seq[Max(s)])
    <3> HIDE DEF W, seq, pick
    <3> QED
      BY <2>2
  <2>5. \A s \in SUBSET DOMAIN seq :
          iter[s] = IF s = {} THEN b ELSE AppliedTo(iter[s \ {Max(s)}], i, seq[Max(s)])
    <3> HIDE DEF W, seq, pick, F
    <3> QED
      BY <2>3, <2>4
  <2>6. iter = [s \in SUBSET DOMAIN seq |-> iter[s]]
    <3> HIDE DEF W, seq
    <3> QED
      BY <2>1
  <2> HIDE DEF W, seq, pick, F
  <2> QED
    BY <2>5, <2>6, Zenon
<1>8. Is(the)
  <2> HIDE DEF Is
  <2> QED
    BY <1>7, Zenon
<1>9. FoldLeft(LAMBDA d, p : AppliedTo(d, i, p), b, seq) = the[DOMAIN seq]
  <2> HIDE DEF seq
  <2> QED
    BY Zenon DEF FoldLeft, MapThenFoldSet
<1>10. \A s \in SUBSET DOMAIN seq :
         the[s] = IF s = {} THEN b ELSE AppliedTo(the[s \ {Max(s)}], i, seq[Max(s)])
  <2> HIDE DEF the, seq
  <2> QED
    BY <1>8, Zenon
<1> DEFINE Q == {s \in SUBSET DOMAIN seq : Covering(b, i, s, the[s])}
<1> HIDE DEF the
<1>11. {} \in Q
  <2>1. the[{}] = b
    <3> HIDE DEF seq
    <3> QED
      BY <1>10
  <2> QED
    BY <1>3, <2>1
<1>12. ASSUME NEW s \in SUBSET DOMAIN seq, s # {}, \A x \in s : s \ {x} \in Q
       PROVE  s \in Q
  <2>1. PICK p \in s : p = Max(s) /\ seq[Max(s)] = p
    BY <1>2, <1>12
  <2>2. the[s] = AppliedTo(the[s \ {p}], i, p)
    <3> HIDE DEF seq
    <3> QED
      BY <1>10, <1>12, <2>1
  <2>3. Covering(b, i, s \ {p}, the[s \ {p}])
    BY <1>12, <2>1
  <2>4. Covering(b, i, s, the[s])
    <3> HIDE DEF seq
    <3> QED
      BY <1>4, <2>2, <2>3
  <2> QED
    BY <2>4
<1>13. \A s \in SUBSET DOMAIN seq : s \in Q
  <2> HIDE DEF Q, seq
  <2> QED
    BY <1>2, <1>11, <1>12, Subsets
<1>14. Covering(b, i, DOMAIN seq, the[DOMAIN seq])
  <2> HIDE DEF seq
  <2> QED
    BY <1>13
<1>15. Covering(b, i, DOMAIN b.pay, the[DOMAIN seq])
  <2> HIDE DEF seq
  <2> QED
    BY <1>2, <1>14
<1> QED
  BY <1>9, <1>15

(***************************************************************************)
(* One invoice covered.                                                    *)
(***************************************************************************)

\* b and c have the same money and the same invoices, perhaps marked otherwise.
SameMoney(b, c) ==
  /\ c.pay = b.pay /\ c.memo = b.memo /\ c.refund = b.refund
  /\ DOMAIN c.inv = DOMAIN b.inv /\ Len(c.inv) = Len(b.inv)
  /\ \A i \in DOMAIN b.inv : c.inv[i].sub = b.inv[i].sub /\ c.inv[i].start = b.inv[i].start

\* The sums depend on the payments, memos and refunds only.
LEMMA SameSums ==
  ASSUME NEW b, NEW c, SameMoney(b, c)
  PROVE  /\ \A i : /\ PaidAmount(c, i) = PaidAmount(b, i) /\ Credited(c, i) = Credited(b, i)
                   /\ Refunded(c, i) = Refunded(b, i) /\ Balance(c, i) = Balance(b, i)
                   /\ StatusFor(c, i) = StatusFor(b, i)
         /\ \A m : RefundedOn(c, m) = RefundedOn(b, m)
         /\ \A p : Available(c, p) = Available(b, p)
         /\ Credit(c) = Credit(b)
<1>1. /\ c.pay = b.pay /\ c.memo = b.memo /\ c.refund = b.refund
      /\ DOMAIN c.inv = DOMAIN b.inv
  BY DEF SameMoney
<1>2. \A i : /\ PaidAmount(c, i) = PaidAmount(b, i) /\ Credited(c, i) = Credited(b, i)
             /\ Refunded(c, i) = Refunded(b, i)
  BY <1>1, Money
<1>3. \A i : Balance(c, i) = Balance(b, i)
  BY <1>1, Money
<1>4. \A i : StatusFor(c, i) = StatusFor(b, i)
  BY <1>3 DEF StatusFor
<1>5. /\ \A m : RefundedOn(c, m) = RefundedOn(b, m)
      /\ \A p : Available(c, p) = Available(b, p)
      /\ Credit(c) = Credit(b)
  BY <1>1, Money
<1> QED
  BY <1>2, <1>3, <1>4, <1>5

\* A book with the money of a sound one is sound.
LEMMA SameSound ==
  ASSUME NEW b, Sound(b), NEW c, c \in Book, SameMoney(b, c)
  PROVE  Sound(c)
<1>1. /\ \A i : PaidAmount(c, i) = PaidAmount(b, i)
      /\ \A m : RefundedOn(c, m) = RefundedOn(b, m)
      /\ \A p : Available(c, p) = Available(b, p)
  BY SameSums
<1> QED
  BY <1>1 DEF Sound, SameMoney

\* An invoice of a sound book gets another status.
LEMMA Marked ==
  ASSUME NEW b, Sound(b), NEW i \in DOMAIN b.inv, NEW status \in {"open", "paid"},
         NEW c, c = [b EXCEPT !.inv[i].status = status]
  PROVE  /\ Sound(c) /\ SameMoney(b, c)
         /\ c.sub = b.sub /\ c.prop = b.prop
         /\ c.inv[i].status = status
         /\ \A j \in DOMAIN b.inv : j # i => c.inv[j] = b.inv[j]
<1>1. b \in Book /\ b.inv \in InvTable
  BY SoundParts
<1>2. PICK row : row = [b.inv[i] EXCEPT !.status = status]
  OBVIOUS
<1>3. /\ b.inv[i] \in Invoice /\ row \in Invoice /\ row.status = status
      /\ row.sub = b.inv[i].sub /\ row.start = b.inv[i].start
  <2>1. b.inv[i] \in Invoice
    BY <1>1, InvRows
  <2> QED
    BY <1>2, <2>1 DEF Invoice
<1>4. PICK inv : inv = [b.inv EXCEPT ![i] = row]
  OBVIOUS
<1>5. /\ inv \in InvTable /\ Len(inv) = Len(b.inv)
      /\ DOMAIN inv = 1 .. Len(inv) /\ DOMAIN b.inv = 1 .. Len(b.inv)
      /\ \A j \in DOMAIN b.inv : inv[j] = IF j = i THEN row ELSE b.inv[j]
  <2>1. /\ [b.inv EXCEPT ![i] = row] \in InvTable /\ Len([b.inv EXCEPT ![i] = row]) = Len(b.inv)
        /\ \A j \in DOMAIN b.inv : [b.inv EXCEPT ![i] = row][j] = IF j = i THEN row ELSE b.inv[j]
        /\ DOMAIN b.inv = 1 .. Len(b.inv)
    BY <1>1, <1>3, InvRows, Zenon
  <2>2. inv \in InvTable
    BY <1>4, <2>1, Zenon
  <2>3. DOMAIN inv = 1 .. Len(inv)
    BY <2>2, InvRows, Zenon
  <2> QED
    BY <1>4, <2>1, <2>2, <2>3, Zenon
<1>6. c = [b EXCEPT !.inv = inv]
  BY <1>2, <1>4, Zenon
<1>8. /\ c \in Book /\ c.inv = inv /\ c.sub = b.sub /\ c.prop = b.prop
      /\ c.pay = b.pay /\ c.memo = b.memo /\ c.refund = b.refund
  <2>1. inv \in InvTable
    BY <1>5
  <2>2. /\ [b EXCEPT !.inv = inv] \in Book
        /\ [b EXCEPT !.inv = inv].pay = b.pay
        /\ [b EXCEPT !.inv = inv].sub = b.sub
        /\ [b EXCEPT !.inv = inv].inv = inv
        /\ [b EXCEPT !.inv = inv].memo = b.memo
        /\ [b EXCEPT !.inv = inv].refund = b.refund
        /\ [b EXCEPT !.inv = inv].prop = b.prop
    BY <1>1, <2>1, BookParts
  <2> QED
    BY <1>6, <2>2, Zenon
<1>9. SameMoney(b, c)
  BY <1>3, <1>5, <1>8 DEF SameMoney
<1>10. Sound(c)
  BY <1>8, <1>9, SameSound
<1> QED
  BY <1>3, <1>5, <1>8, <1>9, <1>10

\* b with one invoice covered: marked as what is left of it asks, and no money idle
\* while something of it is left.
Covers(b, c, i) ==
  /\ Fills(b, c, {i})
  /\ c.inv[i].status = StatusFor(c, i)
  /\ Balance(c, i) <= 0 \/ Credit(c) = 0
  /\ PaidAmount(c, i) + Credit(c) = PaidAmount(b, i) + Credit(b)

\* Covering an invoice leaves it settled, or no credit, and marks it truly.
LEMMA CoveredCovers ==
  ASSUME NEW b, Sound(b), NEW i \in DOMAIN b.inv
  PROVE  Covers(b, Covered(b, i), i)
<1>1. PICK d : d = FoldLeft(LAMBDA e, p : AppliedTo(e, i, p), b, [p \in DOMAIN b.pay |-> p])
  OBVIOUS
<1>2. Covering(b, i, DOMAIN b.pay, d)
  BY <1>1, PaymentsApplied
<1>3. PICK c : c = [d EXCEPT !.inv[i].status = StatusFor(d, i)]
  OBVIOUS
<1>4. Covered(b, i) = c
  BY <1>1, <1>3, Zenon DEF Covered
<1>5. /\ Fills(b, d, {i}) /\ d.inv = b.inv /\ Sound(d)
      /\ DOMAIN d.pay = DOMAIN b.pay
      /\ Balance(d, i) <= 0 \/ \A p \in DOMAIN b.pay : Available(d, p) = 0
      /\ PaidAmount(d, i) + Credit(d) = PaidAmount(b, i) + Credit(b)
  BY <1>2 DEF Covering, Fills
<1>6. StatusFor(d, i) \in {"open", "paid"}
  BY DEF StatusFor
<1>7. /\ Sound(c) /\ SameMoney(d, c) /\ c.sub = d.sub /\ c.prop = d.prop
      /\ c.inv[i].status = StatusFor(d, i)
      /\ \A j \in DOMAIN d.inv : j # i => c.inv[j] = d.inv[j]
  BY <1>3, <1>5, <1>6, Marked
<1>8. /\ \A j : /\ PaidAmount(c, j) = PaidAmount(d, j) /\ Balance(c, j) = Balance(d, j)
                /\ StatusFor(c, j) = StatusFor(d, j)
      /\ \A p : Available(c, p) = Available(d, p)
      /\ Credit(c) = Credit(d)
  BY <1>7, SameSums
<1>9. Balance(c, i) <= 0 \/ Credit(c) = 0
  BY <1>5, <1>8, Amount
<1>10. Fills(b, c, {i})
  <2>1. /\ c.pay = d.pay /\ c.memo = d.memo /\ c.refund = d.refund
        /\ DOMAIN c.inv = DOMAIN d.inv /\ Len(c.inv) = Len(d.inv)
        /\ \A j \in DOMAIN d.inv : c.inv[j].sub = d.inv[j].sub /\ c.inv[j].start = d.inv[j].start
    BY <1>7 DEF SameMoney
  <2> QED
    BY <1>5, <1>7, <1>8, <2>1 DEF Fills
<1> QED
  BY <1>4, <1>5, <1>7, <1>8, <1>9, <1>10 DEF Covers

(***************************************************************************)
(* The open invoices covered one after the other.                          *)
(***************************************************************************)

\* Newest picks an invoice that is not older than any other.
LEMMA NewestIs ==
  ASSUME NEW b, Sound(b), NEW I, I \subseteq DOMAIN b.inv, I # {}
  PROVE  Newest(b, I) \in I /\ \A j \in I : ~Older(b, Newest(b, I), j)
<1> DEFINE R == {u \in I \X I : Older(b, u[1], u[2])}
<1>1. b.inv \in InvTable
  BY SoundParts
<1>2. IsFiniteSet(I) /\ \A i \in I : i \in Nat /\ b.inv[i].start \in Int
  <2>1. IsFiniteSet(DOMAIN b.inv) /\ DOMAIN b.inv = 1 .. Len(b.inv) /\ Len(b.inv) \in Nat
    BY <1>1, InvRows
  <2>2. \A i \in DOMAIN b.inv : b.inv[i] \in Invoice
    BY <1>1, InvRows
  <2>3. \A i \in DOMAIN b.inv : b.inv[i].start \in 0 .. MaxMonths + MaxInvoices
    BY <2>2, Zenon DEF Invoice
  <2>4. \A i \in DOMAIN b.inv : b.inv[i].start \in Int
    BY <2>3, Constants
  <2> QED
    BY <2>1, <2>4, FS_Subset
<1>3. \A x \in I : <<x, x>> \notin R
  BY <1>2 DEF Older
<1>4. \A x, y, z \in I : <<x, y>> \in R /\ <<y, z>> \in R => <<x, z>> \in R
  <2>1. \A x, y, z \in I : Older(b, x, y) /\ Older(b, y, z) => Older(b, x, z)
    BY <1>2 DEF Older
  <2>2. \A x, y \in I : <<x, y>> \in R <=> Older(b, x, y)
    OBVIOUS
  <2> QED
    BY <2>1, <2>2, Zenon
<1>5. \A x, y \in I : <<x, y>> \notin R => ~Older(b, x, y)
  OBVIOUS
<1>6. \E x \in I : \A y \in I : <<x, y>> \notin R
  <2> HIDE DEF R
  <2> QED
    BY <1>2, <1>3, <1>4, MaximalExists
<1>7. \E x \in I : \A y \in I : ~Older(b, x, y)
  BY <1>5, <1>6, Zenon
<1> QED
  BY <1>7, Zenon DEF Newest

\* b with the invoices of s covered.
Settled(b, s, c) ==
  /\ Fills(b, c, s)
  /\ \A i \in s : c.inv[i].status = StatusFor(c, i) /\ (Balance(c, i) <= 0 \/ Credit(c) = 0)
  /\ s = {} => c = b
  /\ \A i \in s : s = {i} => PaidAmount(c, i) + Credit(c) = PaidAmount(b, i) + Credit(b)

\* One invoice more is covered.
LEMMA SettledOn ==
  ASSUME NEW b, Sound(b), NEW s, s \subseteq DOMAIN b.inv, NEW i \in s,
         NEW c, Settled(b, s \ {i}, c)
  PROVE  Settled(b, s, Covered(c, i))
<1>1. PICK d : d = Covered(c, i)
  OBVIOUS
<1>2. Fills(b, c, s \ {i}) /\ Sound(c) /\ DOMAIN c.inv = DOMAIN b.inv
  BY DEF Settled, Fills
<1>3. Covers(c, d, i)
  BY <1>1, <1>2, CoveredCovers
<1>4. Fills(c, d, {i}) /\ Sound(d)
  BY <1>3 DEF Covers, Fills
<1>5. Fills(b, d, s)
  BY <1>2, <1>4, FillsOn
<1>6. ASSUME NEW j \in s
      PROVE  d.inv[j].status = StatusFor(d, j) /\ (Balance(d, j) <= 0 \/ Credit(d) = 0)
  <2>1. CASE j = i
    BY <1>3, <2>1 DEF Covers
  <2>2. CASE j # i
    <3>1. /\ c.inv[j].status = StatusFor(c, j) /\ (Balance(c, j) <= 0 \/ Credit(c) = 0)
      BY <2>2 DEF Settled
    <3>2. d.inv[j] = c.inv[j]
      BY <1>2, <1>4, <2>2 DEF Fills
    <3>3. Balance(d, j) = Balance(c, j)
      BY <1>2, <1>4, <2>2, FilledBalance
    <3>4. StatusFor(d, j) = StatusFor(c, j)
      BY <3>3 DEF StatusFor
    <3>5. Credit(d) \in Nat /\ Credit(c) \in Nat
      BY <1>2, <1>4, Amount
    <3>6. Credit(c) = 0 => Credit(d) = 0
      BY <1>2, <1>4, <3>5, FilledCredit
    <3> QED
      BY <3>1, <3>2, <3>3, <3>4, <3>6
  <2> QED
    BY <2>1, <2>2
<1>7. ASSUME NEW j \in s, s = {j}
      PROVE  PaidAmount(d, j) + Credit(d) = PaidAmount(b, j) + Credit(b)
  <2>1. c = b
    BY <1>7 DEF Settled
  <2>2. i = j
    BY <1>7
  <2> QED
    BY <1>3, <2>1, <2>2 DEF Covers
<1> QED
  BY <1>1, <1>5, <1>6, <1>7 DEF Settled

\* Filling covers every invoice it is given, the newest the last.
LEMMA FilledSettles ==
  ASSUME NEW b, Sound(b), NEW I, I \subseteq DOMAIN b.inv
  PROVE  Settled(b, I, Filled(b, I))
<1> DEFINE W == {c \in Book : Fills(b, c, I)}
           pick == [s \in SUBSET I |-> Newest(b, s)]
           F == [s \in SUBSET I |-> [w \in W |-> Covered(w, Newest(b, s))]]
           Is(iter) == iter = [s \in SUBSET I |-> IF s = {} THEN b
                                 ELSE Covered(iter[s \ {Newest(b, s)}], Newest(b, s))]
           the == CHOOSE iter : Is(iter)
<1>1. IsFiniteSet(I)
  BY SoundParts, InvRows, FS_Subset
<1>2. \A s \in SUBSET I : s # {} => Newest(b, s) \in s
  BY NewestIs
<1>3. ASSUME NEW w \in W, NEW i \in I
      PROVE  Covered(w, i) \in W
  <2>1. Sound(w) /\ i \in DOMAIN w.inv /\ Fills(b, w, I)
    BY <1>3 DEF Fills
  <2>2. Fills(w, Covered(w, i), {i})
    BY <2>1, CoveredCovers DEF Covers
  <2>3. Fills(b, Covered(w, i), I)
    BY <2>1, <2>2, FillsOn
  <2>4. Covered(w, i) \in Book
    BY <2>3 DEF Fills, Sound
  <2> QED
    BY <2>3, <2>4
<1>4. PICK iter : Iterates(iter, I, W, b, pick, F)
  <2>1. b \in W
    BY FillsNothing DEF Sound
  <2>2. Folding(I, W, b, pick, F)
    <3>1. \A s \in SUBSET I : s # {} => pick[s] \in s
      BY <1>2
    <3>2. ASSUME NEW s \in SUBSET I, NEW w \in W, s # {}
          PROVE  F[s][w] \in W
      <4>1. Newest(b, s) \in I
        BY <1>2, <3>2
      <4> HIDE DEF W
      <4> QED
        BY <1>3, <4>1
    <3> HIDE DEF W, pick, F
    <3> QED
      BY <1>1, <2>1, <3>1, <3>2 DEF Folding
  <2> HIDE DEF W, pick, F
  <2> QED
    BY <2>2, IterationExists
<1>5. Is(iter)
  <2>1. iter \in [SUBSET I -> W]
    BY <1>4 DEF Iterates
  <2>2. \A s \in SUBSET I : iter[s \ {pick[s]}] \in W /\ pick[s] = Newest(b, s)
    <3> HIDE DEF W
    <3> QED
      BY <2>1
  <2>3. \A s \in SUBSET I : iter[s] = IF s = {} THEN b ELSE F[s][iter[s \ {pick[s]}]]
    BY <1>4, Zenon DEF Iterates
  <2>4. \A s \in SUBSET I :
          F[s][iter[s \ {pick[s]}]] = Covered(iter[s \ {Newest(b, s)}], Newest(b, s))
    <3> HIDE DEF W, pick
    <3> QED
      BY <2>2
  <2>5. \A s \in SUBSET I :
          iter[s] = IF s = {} THEN b ELSE Covered(iter[s \ {Newest(b, s)}], Newest(b, s))
    <3> HIDE DEF W, pick, F
    <3> QED
      BY <2>3, <2>4
  <2>6. iter = [s \in SUBSET I |-> iter[s]]
    <3> HIDE DEF W
    <3> QED
      BY <2>1
  <2> HIDE DEF W, pick, F
  <2> QED
    BY <2>5, <2>6, Zenon
<1>6. Is(the)
  <2> HIDE DEF Is
  <2> QED
    BY <1>5, Zenon
<1>7. Filled(b, I) = the[I]
  BY Zenon DEF Filled, MapThenFoldSet
<1>8. \A s \in SUBSET I :
        the[s] = IF s = {} THEN b ELSE Covered(the[s \ {Newest(b, s)}], Newest(b, s))
  <2> HIDE DEF the
  <2> QED
    BY <1>6, Zenon
<1> DEFINE Q == {s \in SUBSET I : Settled(b, s, the[s])}
<1> HIDE DEF the
<1>9. {} \in Q
  <2>1. the[{}] = b
    BY <1>8
  <2>2. Settled(b, {}, b)
    BY FillsNothing DEF Settled
  <2> QED
    BY <2>1, <2>2
<1>10. ASSUME NEW s \in SUBSET I, s # {}, \A x \in s : s \ {x} \in Q
       PROVE  s \in Q
  <2>1. PICK i \in s : i = Newest(b, s)
    BY <1>2, <1>10
  <2>2. the[s] = Covered(the[s \ {i}], i)
    BY <1>8, <1>10, <2>1
  <2>3. Settled(b, s \ {i}, the[s \ {i}])
    BY <1>10, <2>1
  <2>4. Settled(b, s, the[s])
    BY <2>2, <2>3, SettledOn
  <2> QED
    BY <2>4
<1>11. \A s \in SUBSET I : s \in Q
  <2> HIDE DEF Q
  <2> QED
    BY <1>1, <1>9, <1>10, Subsets
<1> QED
  BY <1>7, <1>11

(***************************************************************************)
(* The end of the paid months.                                             *)
(***************************************************************************)
PaidMonths(b, s) == {b.inv[i].start : i \in {j \in InvoicesOf(b, s) : Balance(b, j) <= 0}}

Reached(first, M) ==
  {first + n : n \in {k \in 0 .. MaxInvoices : \A j \in 0 .. (k - 1) : first + j \in M}}

\* The cursor depends on the activation and on the months that are paid.
LEMMA CursorIs ==
  ASSUME NEW b, NEW s
  PROVE  Cursor(b, s) = Max(Reached(b.sub[s].activated, PaidMonths(b, s)))
<1>1. \A n : n \in PaidMonths(b, s) <=>
        \E i \in InvoicesOf(b, s) : b.inv[i].start = n /\ Balance(b, i) <= 0
  <2> HIDE DEF InvoicesOf
  <2> QED
    BY DEF PaidMonths
<1>2. PICK first : first = b.sub[s].activated
  OBVIOUS
<1>3. {first + n : n \in {k \in 0 .. MaxInvoices : \A j \in 0 .. (k - 1) :
          \E i \in InvoicesOf(b, s) : b.inv[i].start = first + j /\ Balance(b, i) <= 0}}
        = Reached(first, PaidMonths(b, s))
  BY <1>1 DEF Reached
<1> QED
  BY <1>2, <1>3, Zenon DEF Cursor

\* The same balances make the same cursor.
LEMMA CursorSame ==
  ASSUME NEW b, NEW c, NEW s, c.sub[s].activated = b.sub[s].activated,
         DOMAIN c.inv = DOMAIN b.inv,
         \A i \in DOMAIN b.inv : c.inv[i].sub = b.inv[i].sub /\ c.inv[i].start = b.inv[i].start,
         \A i \in DOMAIN b.inv : b.inv[i].sub = s => (Balance(c, i) <= 0 <=> Balance(b, i) <= 0)
  PROVE  Cursor(c, s) = Cursor(b, s)
<1>1. PaidMonths(c, s) = PaidMonths(b, s)
  <2>1. \A n : n \in PaidMonths(b, s) <=>
          \E i \in DOMAIN b.inv : b.inv[i].sub = s /\ b.inv[i].start = n /\ Balance(b, i) <= 0
    BY DEF PaidMonths, InvoicesOf
  <2>2. \A n : n \in PaidMonths(c, s) <=>
          \E i \in DOMAIN c.inv : c.inv[i].sub = s /\ c.inv[i].start = n /\ Balance(c, i) <= 0
    BY DEF PaidMonths, InvoicesOf
  <2>3. \A n : n \in PaidMonths(c, s) <=> n \in PaidMonths(b, s)
    BY <2>1, <2>2
  <2> QED
    BY <2>3
<1> QED
  BY <1>1, CursorIs

\* The cursor is a month within the bounds.
LEMMA CursorIsMonth ==
  ASSUME NEW b, NEW s, b.sub[s].activated \in 0 .. MaxMonths
  PROVE  Cursor(b, s) \in 0 .. MaxMonths + MaxInvoices
<1>1. PICK first \in 0 .. MaxMonths : first = b.sub[s].activated
  OBVIOUS
<1> DEFINE M == PaidMonths(b, s)
           R == Reached(first, M)
<1>2. R \subseteq first .. first + MaxInvoices
  BY Constants DEF Reached
<1>3. first \in R
  BY Constants DEF Reached
<1>4. IsFiniteSet(R)
  <2>1. IsFiniteSet(first .. first + MaxInvoices)
    BY Constants, FS_Interval
  <2> QED
    BY <1>2, <2>1, FS_Subset
<1>5. R \subseteq Int
  BY <1>2
<1>6. Max(R) \in R
  <2> HIDE DEF R
  <2> QED
    BY <1>3, <1>4, <1>5, Greatest
<1>7. Cursor(b, s) = Max(R)
  BY <1>1, CursorIs
<1> HIDE DEF R
<1>8. PICK m : m = Max(R)
  OBVIOUS
<1>9. m \in first .. first + MaxInvoices
  BY <1>2, <1>6, <1>8, Zenon
<1>10. m \in 0 .. MaxMonths + MaxInvoices
  BY <1>1, <1>9, Constants
<1> QED
  BY <1>7, <1>8, <1>10

(***************************************************************************)
(* Subscriptions refreshed.                                                *)
(***************************************************************************)
LEMMA SubRows ==
  ASSUME NEW sub \in SubTable
  PROVE  /\ \A s \in Subscriptions : sub[s] \in Subscription
         /\ \A s \in Subscriptions, row \in Subscription :
              /\ [sub EXCEPT ![s] = row] \in SubTable
              /\ \A x \in Subscriptions : [sub EXCEPT ![s] = row][x] = IF x = s THEN row ELSE sub[x]
  BY Zenon DEF SubTable

\* Only subscriptions and proposals are written.
Rewritten(b, c, sub, prop) ==
  /\ Sound(c) /\ SameMoney(b, c) /\ c.inv = b.inv /\ c.sub = sub /\ c.prop = prop

\* Subscriptions and proposals can be rewritten without touching the money.
LEMMA Rewriting ==
  ASSUME NEW b, Sound(b), NEW sub \in SubTable, NEW prop \in PropTable,
         NEW c, c = [b EXCEPT !.sub = sub, !.prop = prop]
  PROVE  Rewritten(b, c, sub, prop)
<1>1. b \in Book
  BY SoundParts
<1>2. PICK d : d = [b EXCEPT !.sub = sub]
  OBVIOUS
<1>3. /\ d \in Book /\ d.sub = sub /\ d.inv = b.inv /\ d.pay = b.pay /\ d.memo = b.memo
      /\ d.refund = b.refund /\ d.prop = b.prop
  <2>1. /\ [b EXCEPT !.sub = sub] \in Book
        /\ [b EXCEPT !.sub = sub].pay = b.pay
        /\ [b EXCEPT !.sub = sub].sub = sub
        /\ [b EXCEPT !.sub = sub].inv = b.inv
        /\ [b EXCEPT !.sub = sub].memo = b.memo
        /\ [b EXCEPT !.sub = sub].refund = b.refund
        /\ [b EXCEPT !.sub = sub].prop = b.prop
    BY <1>1, BookParts
  <2> QED
    BY <1>2, <2>1, Zenon
<1>4. c = [d EXCEPT !.prop = prop]
  BY <1>2, Zenon
<1>5. /\ c \in Book /\ c.sub = d.sub /\ c.inv = d.inv /\ c.pay = d.pay /\ c.memo = d.memo
      /\ c.refund = d.refund /\ c.prop = prop
  <2>1. /\ [d EXCEPT !.prop = prop] \in Book
        /\ [d EXCEPT !.prop = prop].pay = d.pay
        /\ [d EXCEPT !.prop = prop].sub = d.sub
        /\ [d EXCEPT !.prop = prop].inv = d.inv
        /\ [d EXCEPT !.prop = prop].memo = d.memo
        /\ [d EXCEPT !.prop = prop].refund = d.refund
        /\ [d EXCEPT !.prop = prop].prop = prop
    BY <1>3, BookParts
  <2> QED
    BY <1>4, <2>1, Zenon
<1>6. SameMoney(b, c)
  BY <1>3, <1>5 DEF SameMoney
<1>7. Sound(c)
  BY <1>5, <1>6, SameSound
<1> QED
  BY <1>3, <1>5, <1>6, <1>7 DEF Rewritten

\* What SuspensionFollows says of a book at a month.
Follows(b, t) ==
  \A s \in Subscriptions :
    /\ b.sub[s].status = "suspended" => b.sub[s].paidUntil <= t
    /\ \A q, r \in InForce(b, s) : q = r
    /\ b.sub[s].status = "suspended" => InForce(b, s) # {}
    /\ InForce(b, s) # {} => b.sub[s].status \in {"suspended", "cancelled"}

\* A subscription in service was activated, and one that was activated is charged.
Served(b) ==
  \A s \in Subscriptions :
    /\ b.sub[s].status \in {"active", "suspended"} => b.sub[s].activated # Never
    /\ b.sub[s].activated # Never => InvoicesOf(b, s) # {}

\* c is b with the subscriptions of S refreshed.
Refreshes(b, c, S) ==
  /\ Sound(c) /\ SameMoney(b, c) /\ c.inv = b.inv /\ Len(c.prop) = Len(b.prop)
  /\ Follows(c, now) /\ Served(c)
  /\ \A s \in Subscriptions : /\ c.sub[s].activated = b.sub[s].activated
                              /\ s \notin S => c.sub[s].paidUntil = b.sub[s].paidUntil
  /\ \A s \in S : b.sub[s].activated # Never => c.sub[s].paidUntil = Cursor(b, s)

\* Refreshing a subscription moves paid_until to the cursor and releases its suspension.
LEMMA RefreshedRefreshes ==
  ASSUME NEW b, Sound(b), Follows(b, now), Served(b), now \in Nat, NEW s \in Subscriptions
  PROVE  Refreshes(b, Refreshed(b, s), {s})
<1>1. b.sub \in SubTable /\ b.prop \in PropTable
  BY SoundParts
<1>2. \A x \in Subscriptions : b.sub[x] \in Subscription
  BY <1>1, SubRows
<1>3. CASE b.sub[s].activated = Never
  <2>1. Refreshed(b, s) = b
    BY <1>3 DEF Refreshed
  <2>2. SameMoney(b, b)
    BY DEF SameMoney
  <2> QED
    BY <1>3, <2>1, <2>2 DEF Refreshes
<1>4. CASE b.sub[s].activated # Never
  <2>1. PICK until : until = Cursor(b, s)
    OBVIOUS
  <2>2. b.sub[s].activated \in 0 .. MaxMonths
    BY <1>2, <1>4 DEF Subscription
  <2>3. until \in 0 .. MaxMonths + MaxInvoices /\ until \in Nat
    BY <2>1, <2>2, CursorIsMonth, Constants
  <2>4. PICK row : row = [b.sub[s] EXCEPT !.paidUntil = until]
    OBVIOUS
  <2>5. /\ row \in Subscription /\ row.paidUntil = until /\ row.status = b.sub[s].status
        /\ row.activated = b.sub[s].activated
    BY <1>2, <2>3, <2>4 DEF Subscription
  <2>6. PICK sub : sub = [b.sub EXCEPT ![s] = row]
    OBVIOUS
  <2>7. /\ sub \in SubTable /\ sub[s] = row
        /\ \A x \in Subscriptions : sub[x] = IF x = s THEN row ELSE b.sub[x]
    BY <1>1, <2>5, <2>6, SubRows
  <2>8. PICK d : d = [b EXCEPT !.sub = sub]
    OBVIOUS
  <2>9. Rewritten(b, d, sub, b.prop)
    <3>1. b \in Book
      BY SoundParts
    <3>2. d = [b EXCEPT !.sub = sub, !.prop = b.prop]
      BY <2>8, <3>1, Zenon DEF Book
    <3> QED
      BY <1>1, <2>7, <3>2, Rewriting
  <2>10. /\ Sound(d) /\ SameMoney(b, d) /\ d.inv = b.inv /\ d.sub = sub /\ d.prop = b.prop
    BY <2>9 DEF Rewritten
  <2>11. Refreshed(b, s) = Resumed(d, s)
    BY <1>4, <2>1, <2>4, <2>6, <2>8, Zenon DEF Refreshed
  <2>12. \A x : InForce(d, x) = InForce(b, x)
    BY <2>10, Zenon DEF InForce
  <2>13. CASE row.status = "suspended" /\ until > now /\ InForce(b, s) # {}
    <3>1. PICK q : q = Max(InForce(d, s))
      OBVIOUS
    <3>2. /\ q \in DOMAIN b.prop /\ b.prop[q].sub = s /\ b.prop[q].state = "applied"
          /\ \A r \in InForce(b, s) : r = q
      <4>1. IsFiniteSet(DOMAIN b.prop) /\ DOMAIN b.prop = 1 .. Len(b.prop) /\ Len(b.prop) \in Nat
        BY <1>1, PropRows
      <4>2. IsFiniteSet(InForce(b, s)) /\ InForce(b, s) \subseteq Int
        BY <4>1, FS_Subset DEF InForce
      <4>3. q \in InForce(b, s)
        BY <2>12, <2>13, <3>1, <4>2, Greatest
      <4>4. \A r \in InForce(b, s) : r = q
        BY <4>3 DEF Follows
      <4> QED
        BY <4>3, <4>4 DEF InForce
    <3>3. PICK done : done = [b.prop[q] EXCEPT !.state = "released"]
      OBVIOUS
    <3>4. /\ done \in Proposal /\ done.state = "released" /\ done.sub = s
      <4>1. b.prop[q] \in Proposal
        BY <1>1, <3>2, PropRows
      <4> QED
        BY <3>2, <3>3, <4>1 DEF Proposal
    <3>5. PICK prop : prop = [b.prop EXCEPT ![q] = done]
      OBVIOUS
    <3>6. /\ prop \in PropTable /\ Len(prop) = Len(b.prop) /\ DOMAIN prop = DOMAIN b.prop
          /\ \A k \in DOMAIN b.prop : prop[k] = IF k = q THEN done ELSE b.prop[k]
      <4>1. /\ prop \in PropTable /\ Len(prop) = Len(b.prop) /\ DOMAIN b.prop = 1 .. Len(b.prop)
            /\ \A k \in DOMAIN b.prop : prop[k] = IF k = q THEN done ELSE b.prop[k]
        BY <1>1, <3>2, <3>4, <3>5, PropRows
      <4>2. DOMAIN prop = 1 .. Len(prop)
        BY <4>1, PropRows
      <4> QED
        BY <4>1, <4>2
    <3>7. PICK back : back = [row EXCEPT !.status = "active"]
      OBVIOUS
    <3>8. /\ back \in Subscription /\ back.status = "active" /\ back.paidUntil = until
          /\ back.activated = b.sub[s].activated
      BY <2>5, <3>7 DEF Subscription
    <3>9. PICK new : new = [sub EXCEPT ![s] = back]
      OBVIOUS
    <3>10. /\ new \in SubTable
           /\ \A x \in Subscriptions : new[x] = IF x = s THEN back ELSE b.sub[x]
      <4>1. /\ new \in SubTable
            /\ \A x \in Subscriptions : new[x] = IF x = s THEN back ELSE sub[x]
        <5>1. sub \in SubTable /\ back \in Subscription
          BY <2>7, <3>8
        <5>2. /\ [sub EXCEPT ![s] = back] \in SubTable
              /\ \A x \in Subscriptions : [sub EXCEPT ![s] = back][x] = IF x = s THEN back ELSE sub[x]
          BY <5>1, SubRows
        <5> QED
          BY <3>9, <5>2, Zenon
      <4> QED
        BY <2>7, <4>1
    <3>11. PICK c : c = [d EXCEPT !.sub = new, !.prop = prop]
      OBVIOUS
    <3>12. Refreshed(b, s) = c
      <4>1. d.sub[s].status = "suspended" /\ d.sub[s].paidUntil > now /\ InForce(d, s) # {}
        BY <2>5, <2>7, <2>10, <2>12, <2>13
      <4>2. Resumed(d, s) = [d EXCEPT !.sub[s].status = "active", !.prop[q].state = "released"]
        BY <3>1, <4>1, Zenon DEF Resumed
      <4>3. /\ new = [d.sub EXCEPT ![s] = [d.sub[s] EXCEPT !.status = "active"]]
            /\ prop = [d.prop EXCEPT ![q] = [d.prop[q] EXCEPT !.state = "released"]]
        BY <2>7, <2>10, <3>3, <3>5, <3>7, <3>9, Zenon
      <4>4. d \in Book
        BY <2>10, SoundParts
      <4>5. Resumed(d, s) = [d EXCEPT !.sub = new, !.prop = prop]
        BY <4>2, <4>3, <4>4, Zenon DEF Book
      <4> QED
        BY <2>11, <3>11, <4>5
    <3>13. /\ Sound(c) /\ SameMoney(d, c) /\ c.inv = d.inv /\ c.sub = new /\ c.prop = prop
      <4>1. Rewritten(d, c, new, prop)
        BY <2>10, <3>6, <3>10, <3>11, Rewriting
      <4> QED
        BY <4>1 DEF Rewritten
    <3>14. /\ InForce(c, s) = {}
           /\ \A x : x # s => InForce(c, x) = InForce(b, x)
      BY <3>2, <3>4, <3>6, <3>13 DEF InForce
    <3>15. Follows(c, now)
      BY <3>8, <3>10, <3>13, <3>14 DEF Follows
    <3>16. Served(c)
      <4>1. \A x : InvoicesOf(c, x) = InvoicesOf(b, x)
        BY <2>10, <3>13 DEF InvoicesOf
      <4> QED
        BY <1>4, <3>8, <3>10, <3>13, <4>1 DEF Served
    <3>17. SameMoney(b, c)
      BY <2>10, <3>13 DEF SameMoney
    <3> QED
      BY <2>1, <2>10, <3>6, <3>8, <3>10, <3>12, <3>13, <3>15, <3>16, <3>17 DEF Refreshes
  <2>14. CASE ~(row.status = "suspended" /\ until > now /\ InForce(b, s) # {})
    <3>1. Refreshed(b, s) = d
      <4>1. ~(d.sub[s].status = "suspended" /\ d.sub[s].paidUntil > now /\ InForce(d, s) # {})
        BY <2>5, <2>7, <2>10, <2>12, <2>14
      <4> QED
        BY <2>11, <4>1 DEF Resumed
    <3>2. Follows(d, now)
      <4>1. row.status = "suspended" => until <= now
        <5>1. row.status = "suspended" => InForce(b, s) # {}
          BY <2>5 DEF Follows
        <5> QED
          BY <2>3, <2>14, <5>1
      <4> QED
        BY <2>5, <2>7, <2>10, <2>12, <4>1 DEF Follows
    <3>3. Served(d)
      <4>1. \A x : InvoicesOf(d, x) = InvoicesOf(b, x)
        BY <2>10 DEF InvoicesOf
      <4> QED
        BY <2>5, <2>7, <2>10, <4>1 DEF Served
    <3> QED
      BY <2>1, <2>5, <2>7, <2>10, <3>1, <3>2, <3>3 DEF Refreshes
  <2> QED
    BY <2>13, <2>14
<1> QED
  BY <1>3, <1>4

\* A book is what it was with nothing refreshed.
LEMMA RefreshesNothing ==
  ASSUME NEW b, Sound(b), Follows(b, now), Served(b)
  PROVE  Refreshes(b, b, {})
  BY DEF Refreshes, SameMoney

\* One subscription more is refreshed.
LEMMA RefreshesOn ==
  ASSUME NEW b, now \in Nat, NEW S \in SUBSET Subscriptions, NEW s \in S,
         NEW c, Refreshes(b, c, S \ {s})
  PROVE  Refreshes(b, Refreshed(c, s), S)
<1>1. PICK d : d = Refreshed(c, s)
  OBVIOUS
<1>2. Sound(c) /\ Follows(c, now) /\ Served(c) /\ SameMoney(b, c) /\ c.inv = b.inv
  BY DEF Refreshes
<1>3. Refreshes(c, d, {s})
  BY <1>1, <1>2, RefreshedRefreshes
<1>4. \A x \in Subscriptions : Cursor(c, x) = Cursor(b, x)
  <2>1. ASSUME NEW x \in Subscriptions
        PROVE  Cursor(c, x) = Cursor(b, x)
    <3>1. /\ c.sub[x].activated = b.sub[x].activated
          /\ \A i : Balance(c, i) = Balance(b, i)
      BY <1>2, SameSums DEF Refreshes
    <3> QED
      BY <1>2, <3>1, CursorSame
  <2> QED
    BY <2>1
<1>5. /\ Sound(d) /\ d.inv = b.inv /\ Len(d.prop) = Len(b.prop)
      /\ Follows(d, now) /\ Served(d)
  BY <1>2, <1>3 DEF Refreshes
<1>6. SameMoney(b, d)
  BY <1>2, <1>3 DEF Refreshes, SameMoney
<1>7. \A x \in Subscriptions :
        /\ d.sub[x].activated = b.sub[x].activated
        /\ x \notin S => d.sub[x].paidUntil = b.sub[x].paidUntil
  BY <1>3 DEF Refreshes
<1>8. ASSUME NEW x \in S, b.sub[x].activated # Never
      PROVE  d.sub[x].paidUntil = Cursor(b, x)
  <2>1. c.sub[x].activated # Never
    BY <1>8 DEF Refreshes
  <2>2. CASE x = s
    BY <1>3, <1>4, <2>1, <2>2 DEF Refreshes
  <2>3. CASE x # s
    <3>1. c.sub[x].paidUntil = Cursor(b, x)
      BY <1>8, <2>3 DEF Refreshes
    <3>2. d.sub[x].paidUntil = c.sub[x].paidUntil
      BY <1>3, <2>3 DEF Refreshes
    <3> QED
      BY <3>1, <3>2
  <2> QED
    BY <2>2, <2>3
<1> QED
  BY <1>1, <1>5, <1>6, <1>7, <1>8 DEF Refreshes

\* The fold over the subscriptions refreshes each of them.
LEMMA AllRefreshed ==
  ASSUME NEW b, Sound(b), Follows(b, now), Served(b), now \in Nat,
         NEW S \in SUBSET Subscriptions, IsFiniteSet(S)
  PROVE  Refreshes(b, RefreshedAll(b, S), S)
<1> DEFINE pick == [s \in SUBSET S |-> CHOOSE x \in s : TRUE]
           Live == {c \in Book : Sound(c) /\ Follows(c, now) /\ Served(c)}
           F == [s \in SUBSET S |-> [w \in Live |-> Refreshed(w, CHOOSE x \in s : TRUE)]]
           Is(iter) == iter = [s \in SUBSET S |-> IF s = {} THEN b
                                 ELSE Refreshed(iter[s \ {CHOOSE x \in s : TRUE}],
                                                CHOOSE x \in s : TRUE)]
           the == CHOOSE iter : Is(iter)
<1>1. \A s \in SUBSET S : s # {} => pick[s] \in s /\ (CHOOSE x \in s : TRUE) \in s
  BY Zenon
<1>2. ASSUME NEW w \in Live, NEW x \in S
      PROVE  Refreshed(w, x) \in Live
  <2>1. Refreshes(w, Refreshed(w, x), {x})
    BY RefreshedRefreshes
  <2> QED
    BY <2>1 DEF Refreshes, Sound
<1>3. PICK iter : Iterates(iter, S, Live, b, pick, F)
  <2>1. b \in Live
    BY DEF Sound
  <2>2. Folding(S, Live, b, pick, F)
    <3>2. ASSUME NEW s \in SUBSET S, NEW w \in Live, s # {}
          PROVE  F[s][w] \in Live
      <4>1. (CHOOSE x \in s : TRUE) \in S
        BY <1>1, <3>2
      <4> HIDE DEF Live
      <4> QED
        BY <1>2, <4>1
    <3> HIDE DEF Live, F
    <3> QED
      BY <1>1, <2>1, <3>2 DEF Folding
  <2> HIDE DEF Live, pick, F
  <2> QED
    BY <2>2, IterationExists
<1>4. Is(iter)
  <2>1. iter \in [SUBSET S -> Live]
    BY <1>3 DEF Iterates
  <2>2. \A s \in SUBSET S : iter[s \ {pick[s]}] \in Live /\ pick[s] = CHOOSE x \in s : TRUE
    <3> HIDE DEF Live
    <3> QED
      BY <2>1
  <2>3. \A s \in SUBSET S : iter[s] = IF s = {} THEN b ELSE F[s][iter[s \ {pick[s]}]]
    BY <1>3, Zenon DEF Iterates
  <2>4. \A s \in SUBSET S :
          F[s][iter[s \ {pick[s]}]] = Refreshed(iter[s \ {CHOOSE x \in s : TRUE}],
                                                CHOOSE x \in s : TRUE)
    <3> HIDE DEF Live, pick
    <3> QED
      BY <2>2
  <2>5. \A s \in SUBSET S :
          iter[s] = IF s = {} THEN b
                    ELSE Refreshed(iter[s \ {CHOOSE x \in s : TRUE}], CHOOSE x \in s : TRUE)
    <3> HIDE DEF Live, pick, F
    <3> QED
      BY <2>3, <2>4
  <2>6. iter = [s \in SUBSET S |-> iter[s]]
    <3> HIDE DEF Live
    <3> QED
      BY <2>1
  <2> HIDE DEF Live, pick, F
  <2> QED
    BY <2>5, <2>6, Zenon
<1>5. Is(the)
  <2> HIDE DEF Is
  <2> QED
    BY <1>4, Zenon
<1>6. RefreshedAll(b, S) = the[S]
  BY Zenon DEF RefreshedAll, FoldSet, MapThenFoldSet
<1>7. \A s \in SUBSET S :
        the[s] = IF s = {} THEN b
                 ELSE Refreshed(the[s \ {CHOOSE x \in s : TRUE}], CHOOSE x \in s : TRUE)
  <2> HIDE DEF the
  <2> QED
    BY <1>5, Zenon
<1> DEFINE Q == {s \in SUBSET S : Refreshes(b, the[s], s)}
<1> HIDE DEF the
<1>8. {} \in Q
  <2>1. the[{}] = b
    BY <1>7
  <2> QED
    BY <2>1, RefreshesNothing
<1>9. ASSUME NEW s \in SUBSET S, s # {}, \A x \in s : s \ {x} \in Q
      PROVE  s \in Q
  <2>1. PICK x \in s : x = CHOOSE y \in s : TRUE
    BY <1>1, <1>9
  <2>2. the[s] = Refreshed(the[s \ {x}], x)
    BY <1>7, <1>9, <2>1
  <2>3. Refreshes(b, the[s \ {x}], s \ {x})
    BY <1>9, <2>1
  <2>4. s \in SUBSET Subscriptions
    OBVIOUS
  <2>5. Refreshes(b, the[s], s)
    BY <2>2, <2>3, <2>4, RefreshesOn
  <2> QED
    BY <2>5
<1>10. \A s \in SUBSET S : s \in Q
  <2> HIDE DEF Q
  <2> QED
    BY <1>8, <1>9, Subsets
<1> QED
  BY <1>6, <1>10

(***************************************************************************)
(* The allocation.                                                         *)
(***************************************************************************)

\* The book between two operations.
Kept(b, t) ==
  /\ Sound(b) /\ Follows(b, t) /\ Served(b)
  /\ \A s \in Subscriptions :
       b.sub[s].activated # Never => b.sub[s].paidUntil = Cursor(b, s)
  /\ \A i \in DOMAIN b.inv : b.inv[i].status = StatusFor(b, i)
  /\ Credit(b) > 0 => OpenInvoices(b) = {}
  /\ \A i \in DOMAIN b.inv : Refunded(b, i) > 0 => Balance(b, i) <= 0

\* The book before an allocation: what is not settled is marked open.
Ready(b) ==
  /\ Sound(b) /\ Follows(b, now) /\ Served(b)
  /\ \A s \in Subscriptions : b.sub[s].activated # Never =>
       \/ b.sub[s].paidUntil = Cursor(b, s)
       \/ \E i \in OpenInvoices(b) : b.inv[i].sub = s
  /\ \A i \in DOMAIN b.inv : i \notin OpenInvoices(b) => Balance(b, i) <= 0
  /\ \A i \in DOMAIN b.inv : Refunded(b, i) > 0 => Balance(b, i) <= 0

\* The tables keep their lengths, and a single open invoice takes what it can.
Distributes(b, c) ==
  /\ Len(c.inv) = Len(b.inv) /\ Len(c.pay) = Len(b.pay) /\ Len(c.memo) = Len(b.memo)
  /\ Len(c.refund) = Len(b.refund) /\ Len(c.prop) = Len(b.prop)
  /\ DOMAIN c.inv = DOMAIN b.inv
  /\ \A i \in DOMAIN b.inv : c.inv[i].sub = b.inv[i].sub
  /\ \A i \in DOMAIN b.inv : OpenInvoices(b) = {i} =>
       PaidAmount(c, i) + Credit(c) = PaidAmount(b, i) + Credit(b)

\* The subscriptions of finitely many invoices are finitely many.
LEMMA SubsAreFinite ==
  ASSUME NEW I, IsFiniteSet(I), NEW b
  PROVE  IsFiniteSet({b.inv[i].sub : i \in I})
<1> DEFINE f == [i \in I |-> b.inv[i].sub]
<1>1. f \in Surjection(I, {b.inv[i].sub : i \in I})
  BY DEF Surjection
<1> HIDE DEF f
<1> QED
  BY <1>1, FS_Surjection

\* Allocation brings a book that is ready back to what is kept.
LEMMA AllocatedKeeps ==
  ASSUME NEW b, Ready(b), now \in Nat
  PROVE  Kept(Allocated(b), now) /\ Distributes(b, Allocated(b))
<1> DEFINE open == OpenInvoices(b)
           S == {b.inv[i].sub : i \in open}
<1>1. PICK f : f = Filled(b, open)
  OBVIOUS
<1>2. PICK c : c = RefreshedAll(f, S)
  OBVIOUS
<1>3. Allocated(b) = c
  BY <1>1, <1>2, Zenon DEF Allocated
<1>4. /\ Sound(b) /\ open \subseteq DOMAIN b.inv /\ b.inv \in InvTable
      /\ \A i \in DOMAIN b.inv : b.inv[i].status \in {"open", "paid"} /\ b.inv[i].sub \in Subscriptions
  <2>1. Sound(b) /\ open \subseteq DOMAIN b.inv /\ b.inv \in InvTable
    BY SoundParts DEF Ready, OpenInvoices
  <2>2. \A i \in DOMAIN b.inv : b.inv[i] \in Invoice
    BY <2>1, InvRows
  <2> QED
    BY <2>1, <2>2, Zenon DEF Invoice
<1>5. Settled(b, open, f)
  <2> HIDE DEF open
  <2> QED
    BY <1>1, <1>4, FilledSettles
<1>6. Fills(b, f, open)
  BY <1>5 DEF Settled
<1>7. /\ Sound(f) /\ f.sub = b.sub /\ f.memo = b.memo /\ f.refund = b.refund /\ f.prop = b.prop
      /\ DOMAIN f.inv = DOMAIN b.inv /\ Len(f.inv) = Len(b.inv) /\ Len(f.pay) = Len(b.pay)
      /\ \A i \in DOMAIN b.inv : f.inv[i].sub = b.inv[i].sub /\ f.inv[i].start = b.inv[i].start
      /\ \A i \in DOMAIN b.inv : i \notin open => f.inv[i] = b.inv[i]
  BY <1>6 DEF Fills
<1>8. Follows(f, now)
  <2>1. \A s : InForce(f, s) = InForce(b, s)
    BY <1>7, Zenon DEF InForce
  <2>2. Follows(b, now)
    BY DEF Ready
  <2> QED
    BY <1>7, <2>1, <2>2 DEF Follows
<1>9. Served(f)
  <2>1. \A s : InvoicesOf(f, s) = InvoicesOf(b, s)
    BY <1>7 DEF InvoicesOf
  <2>2. Served(b)
    BY DEF Ready
  <2> QED
    BY <1>7, <2>1, <2>2 DEF Served
<1>10. S \in SUBSET Subscriptions /\ IsFiniteSet(S)
  <2>1. IsFiniteSet(open)
    BY <1>4, InvRows, FS_Subset
  <2>2. IsFiniteSet(S)
    BY <2>1, SubsAreFinite
  <2> QED
    BY <1>4, <2>2
<1>11. Refreshes(f, c, S)
  <2> HIDE DEF S
  <2> QED
    BY <1>2, <1>7, <1>8, <1>9, <1>10, AllRefreshed
<1>12. /\ Sound(c) /\ SameMoney(f, c) /\ c.inv = f.inv /\ Len(c.prop) = Len(f.prop)
       /\ Follows(c, now) /\ Served(c)
  BY <1>11 DEF Refreshes
<1>13. /\ \A i : /\ PaidAmount(c, i) = PaidAmount(f, i) /\ Refunded(c, i) = Refunded(f, i)
                 /\ Balance(c, i) = Balance(f, i) /\ StatusFor(c, i) = StatusFor(f, i)
       /\ Credit(c) = Credit(f)
  BY <1>12, SameSums
<1>14. \A i \in DOMAIN b.inv :
         /\ Balance(f, i) \in Int /\ Balance(b, i) \in Int /\ Balance(f, i) <= Balance(b, i)
         /\ i \notin open => Balance(f, i) = Balance(b, i)
         /\ Refunded(f, i) = Refunded(b, i)
  BY <1>4, <1>6, FilledBalance
<1>15. \A i \in DOMAIN b.inv : /\ c.inv[i].status = StatusFor(c, i)
                               /\ i \notin open => StatusFor(c, i) = "paid"
  <2>1. ASSUME NEW i \in DOMAIN b.inv, i \in open
        PROVE  c.inv[i].status = StatusFor(c, i)
    BY <1>5, <1>12, <1>13, <2>1 DEF Settled
  <2>2. ASSUME NEW i \in DOMAIN b.inv, i \notin open
        PROVE  c.inv[i].status = StatusFor(c, i) /\ StatusFor(c, i) = "paid"
    <3>1. b.inv[i].status = "paid"
      BY <1>4, <2>2 DEF OpenInvoices
    <3>2. Balance(b, i) <= 0
      BY <2>2 DEF Ready
    <3>3. Balance(c, i) <= 0
      BY <1>13, <1>14, <2>2, <3>2
    <3>4. StatusFor(c, i) = "paid"
      BY <3>3 DEF StatusFor
    <3> QED
      BY <1>7, <1>12, <2>2, <3>1, <3>4
  <2> QED
    BY <2>1, <2>2
<1>16. Credit(c) > 0 => OpenInvoices(c) = {}
  <2>1. SUFFICES ASSUME Credit(c) > 0 PROVE \A i \in DOMAIN b.inv : c.inv[i].status = "paid"
    BY <1>7, <1>12 DEF OpenInvoices
  <2>2. ASSUME NEW i \in open PROVE StatusFor(c, i) = "paid"
    <3>1. Balance(f, i) <= 0 \/ Credit(f) = 0
      BY <1>5 DEF Settled
    <3>2. Balance(c, i) <= 0
      BY <1>13, <2>1, <3>1
    <3> QED
      BY <3>2 DEF StatusFor
  <2> QED
    BY <1>15, <2>2
<1>17. \A i \in DOMAIN c.inv : Refunded(c, i) > 0 => Balance(c, i) <= 0
  <2>1. \A i \in DOMAIN b.inv : Refunded(b, i) > 0 => Balance(b, i) <= 0
    BY DEF Ready
  <2> QED
    BY <1>7, <1>12, <1>13, <1>14, <2>1
<1>18. ASSUME NEW s \in Subscriptions, c.sub[s].activated # Never
       PROVE  c.sub[s].paidUntil = Cursor(c, s)
  <2>1. c.sub[s].activated = f.sub[s].activated /\ f.sub[s] = b.sub[s]
    BY <1>7, <1>11 DEF Refreshes
  <2>2. Cursor(c, s) = Cursor(f, s)
    BY <1>12, <1>13, <2>1, CursorSame
  <2>3. CASE s \in S
    BY <1>11, <1>18, <2>1, <2>2, <2>3 DEF Refreshes
  <2>4. CASE s \notin S
    <3>1. c.sub[s].paidUntil = b.sub[s].paidUntil
      BY <1>11, <2>1, <2>4 DEF Refreshes
    <3>2. b.sub[s].paidUntil = Cursor(b, s)
      BY <1>18, <2>1, <2>4 DEF Ready
    <3>3. \A i \in DOMAIN b.inv : b.inv[i].sub = s => i \notin open
      BY <2>4
    <3>4. Cursor(f, s) = Cursor(b, s)
      BY <1>7, <1>14, <2>1, <3>3, CursorSame
    <3> QED
      BY <2>2, <3>1, <3>2, <3>4
  <2> QED
    BY <2>3, <2>4
<1>19. Kept(c, now)
  BY <1>7, <1>12, <1>15, <1>16, <1>17, <1>18 DEF Kept
<1>20. Distributes(b, c)
  <2>1. /\ c.pay = f.pay /\ c.memo = f.memo /\ c.refund = f.refund
    BY <1>12 DEF SameMoney
  <2>2. ASSUME NEW i \in DOMAIN b.inv, OpenInvoices(b) = {i}
        PROVE  PaidAmount(c, i) + Credit(c) = PaidAmount(b, i) + Credit(b)
    BY <1>5, <1>13, <2>2 DEF Settled
  <2> QED
    BY <1>7, <1>12, <2>1, <2>2 DEF Distributes
<1> QED
  BY <1>3, <1>19, <1>20

(***************************************************************************)
(* A row added to a table.                                                 *)
(***************************************************************************)
Grown(new, old, row) ==
  /\ Len(old) \in Nat /\ DOMAIN old = 1 .. Len(old)
  /\ Len(new) = Len(old) + 1 /\ DOMAIN new = 1 .. (Len(old) + 1)
  /\ \A k \in 1 .. Len(old) : new[k] = old[k]
  /\ new[Len(old) + 1] = row

\* What a row appended to a table does.
LEMMA AppendGrows ==
  ASSUME NEW T, NEW old \in Seq(T), NEW row \in T, NEW new, new = Append(old, row)
  PROVE  Grown(new, old, row) /\ new \in Seq(T)
<1>1. /\ new \in Seq(T) /\ Len(new) = Len(old) + 1 /\ Len(old) \in Nat
      /\ DOMAIN old = 1 .. Len(old)
      /\ \A k \in 1 .. Len(old) : new[k] = old[k]
      /\ new[Len(old) + 1] = row
  BY AppendProperties
<1>2. DOMAIN new = 1 .. (Len(old) + 1)
  BY <1>1
<1> QED
  BY <1>1, <1>2 DEF Grown

\* A memo more adds to the sum of its invoice, and has no refund yet.
LEMMA MemoAdded ==
  ASSUME NEW memo \in MemoTable, NEW refund \in RefundTable, NEW row \in Memo,
         \A r \in DOMAIN refund : refund[r].memo \in DOMAIN memo,
         NEW new \in MemoTable, Grown(new, memo, row)
  PROVE  /\ \A i : MemosOn(new, i) = MemosOn(memo, i) + (IF row.invoice = i THEN row.amount ELSE 0)
         /\ \A i : RefundsFor(new, refund, i) = RefundsFor(memo, refund, i)
         /\ RefundsOn(refund, Len(memo) + 1) = 0
<1>1. PICK n \in Nat : n = Len(memo)
  BY DEF Grown
<1>2. /\ DOMAIN memo = 1 .. n /\ DOMAIN new = 1 .. (n + 1)
      /\ \A k \in 1 .. n : new[k] = memo[k]
      /\ new[n + 1] = row
  BY <1>1 DEF Grown
<1>3. \A m \in 1 .. n : memo[m] \in Memo /\ memo[m].amount \in Nat
  <2>1. \A m \in 1 .. n : memo[m] \in Memo
    BY <1>2, Places DEF MemoTable
  <2> QED
    BY <2>1, Constants DEF Memo
<1>4. row.amount \in Nat
  BY Constants DEF Memo
<1>5. RefundsOn(refund, n + 1) = 0
  <2>1. \A r \in DOMAIN refund : refund[r].memo # n + 1
    BY <1>2
  <2> QED
    BY <2>1, RefundsAreNatural
<1>6. ASSUME NEW i
      PROVE  MemosOn(new, i) = MemosOn(memo, i) + (IF row.invoice = i THEN row.amount ELSE 0)
  <2> DEFINE g == [m \in 1 .. n |-> IF memo[m].invoice = i THEN memo[m].amount ELSE 0]
             h == [m \in 1 .. (n + 1) |-> IF new[m].invoice = i THEN new[m].amount ELSE 0]
  <2>1. MemosOn(memo, i) = SumFunctionOnSet(g, 1 .. n)
    BY <1>2 DEF MemosOn, SumFunction
  <2>2. MemosOn(new, i) = SumFunctionOnSet(h, 1 .. (n + 1))
    BY <1>2 DEF MemosOn, SumFunction
  <2>3. \A m \in 1 .. n : g[m] \in Int /\ h[m] = g[m]
    BY <1>2, <1>3
  <2>4. h[n + 1] = (IF row.invoice = i THEN row.amount ELSE 0) /\ h[n + 1] \in Int
    BY <1>2, <1>4
  <2> HIDE DEF g, h
  <2> QED
    BY <2>1, <2>2, <2>3, <2>4, SumAppended
<1>7. ASSUME NEW i
      PROVE  RefundsFor(new, refund, i) = RefundsFor(memo, refund, i)
  <2> DEFINE g == [m \in 1 .. n |-> IF memo[m].invoice = i THEN RefundsOn(refund, m) ELSE 0]
             h == [m \in 1 .. (n + 1) |-> IF new[m].invoice = i THEN RefundsOn(refund, m) ELSE 0]
  <2>1. RefundsFor(memo, refund, i) = SumFunctionOnSet(g, 1 .. n)
    BY <1>2 DEF RefundsFor, SumFunction
  <2>2. RefundsFor(new, refund, i) = SumFunctionOnSet(h, 1 .. (n + 1))
    BY <1>2 DEF RefundsFor, SumFunction
  <2>3. \A m \in 1 .. n : g[m] \in Int /\ h[m] = g[m]
    BY <1>2, RefundsAreNatural
  <2>4. h[n + 1] = 0
    BY <1>5
  <2>5. SumFunctionOnSet(h, 1 .. (n + 1)) = SumFunctionOnSet(g, 1 .. n) + 0
    <3> HIDE DEF g, h
    <3> QED
      BY <2>3, <2>4, SumAppended
  <2>6. RefundsFor(memo, refund, i) \in Nat
    BY RefundsForAreNatural
  <2> HIDE DEF g, h
  <2> QED
    BY <2>1, <2>2, <2>5, <2>6
<1> QED
  BY <1>1, <1>5, <1>6, <1>7

\* A refund more adds to the sums of its memo and of its invoice.
LEMMA RefundAdded ==
  ASSUME NEW memo \in MemoTable, NEW refund \in RefundTable, NEW row \in Refund,
         row.memo \in DOMAIN memo, NEW new \in RefundTable, Grown(new, refund, row)
  PROVE  /\ \A m : RefundsOn(new, m) = RefundsOn(refund, m) + (IF row.memo = m THEN row.amount ELSE 0)
         /\ \A i : RefundsFor(memo, new, i) = RefundsFor(memo, refund, i)
                     + (IF memo[row.memo].invoice = i THEN row.amount ELSE 0)
<1>1. PICK n \in Nat : n = Len(refund)
  BY DEF Grown
<1>2. /\ DOMAIN refund = 1 .. n /\ DOMAIN new = 1 .. (n + 1)
      /\ \A k \in 1 .. n : new[k] = refund[k]
      /\ new[n + 1] = row
  BY <1>1 DEF Grown
<1>3. \A r \in 1 .. n : refund[r] \in Refund /\ refund[r].amount \in Nat
  <2>1. \A r \in 1 .. n : refund[r] \in Refund
    BY <1>2, Places DEF RefundTable
  <2> QED
    BY <2>1, Constants DEF Refund
<1>4. row.amount \in Nat
  BY Constants DEF Refund
<1>5. ASSUME NEW m
      PROVE  RefundsOn(new, m) = RefundsOn(refund, m) + (IF row.memo = m THEN row.amount ELSE 0)
  <2> DEFINE g == [r \in 1 .. n |-> IF refund[r].memo = m THEN refund[r].amount ELSE 0]
             h == [r \in 1 .. (n + 1) |-> IF new[r].memo = m THEN new[r].amount ELSE 0]
  <2>1. RefundsOn(refund, m) = SumFunctionOnSet(g, 1 .. n)
    BY <1>2 DEF RefundsOn, SumFunction
  <2>2. RefundsOn(new, m) = SumFunctionOnSet(h, 1 .. (n + 1))
    BY <1>2 DEF RefundsOn, SumFunction
  <2>3. \A r \in 1 .. n : g[r] \in Int /\ h[r] = g[r]
    BY <1>2, <1>3
  <2>4. h[n + 1] = (IF row.memo = m THEN row.amount ELSE 0) /\ h[n + 1] \in Int
    BY <1>2, <1>4
  <2> HIDE DEF g, h
  <2> QED
    BY <2>1, <2>2, <2>3, <2>4, SumAppended
<1>6. IsFiniteSet(DOMAIN memo)
  BY Places DEF MemoTable
<1>7. ASSUME NEW i
      PROVE  RefundsFor(memo, new, i) = RefundsFor(memo, refund, i)
               + (IF memo[row.memo].invoice = i THEN row.amount ELSE 0)
  <2> DEFINE g == [m \in DOMAIN memo |-> IF memo[m].invoice = i THEN RefundsOn(refund, m) ELSE 0]
             h == [m \in DOMAIN memo |-> IF memo[m].invoice = i THEN RefundsOn(new, m) ELSE 0]
  <2>1. RefundsFor(memo, refund, i) = SumFunctionOnSet(g, DOMAIN memo)
    BY DEF RefundsFor, SumFunction
  <2>2. RefundsFor(memo, new, i) = SumFunctionOnSet(h, DOMAIN memo)
    BY DEF RefundsFor, SumFunction
  <2>3. \A m : RefundsOn(refund, m) \in Nat /\ RefundsOn(new, m) \in Nat
    BY RefundsAreNatural
  <2>4. \A m \in DOMAIN memo : g[m] \in Int /\ h[m] \in Int
    BY <2>3
  <2>5. \A m \in DOMAIN memo \ {row.memo} : g[m] = h[m]
    BY <1>5, <2>3
  <2>6. h[row.memo] = g[row.memo] + (IF memo[row.memo].invoice = i THEN row.amount ELSE 0)
    BY <1>5, <2>3
  <2>7. RefundsFor(memo, refund, i) \in Nat
    BY RefundsForAreNatural
  <2>8. SumFunctionOnSet(h, DOMAIN memo)
          = SumFunctionOnSet(g, DOMAIN memo) + h[row.memo] - g[row.memo]
    <3> HIDE DEF g, h
    <3> QED
      BY <1>6, <2>4, <2>5, SumChanges
  <2>9. g[row.memo] \in Int
    BY <2>4
  <2> HIDE DEF g, h
  <2> QED
    BY <1>4, <2>1, <2>2, <2>6, <2>7, <2>8, <2>9
<1> QED
  BY <1>5, <1>7

\* A payment more adds its amount to the credit and nothing to an invoice.
LEMMA PaymentAdded ==
  ASSUME NEW pay \in PayTable, NEW I, I \subseteq Ids, NEW row \in Payment,
         ~row.reversed, \A i \in Ids : row.applied[i] = 0,
         NEW new \in PayTable, Grown(new, pay, row)
  PROVE  /\ \A i \in Ids : Paid(new, i) = Paid(pay, i)
         /\ \A p \in DOMAIN pay : Left(new, I, p) = Left(pay, I, p)
         /\ Left(new, I, Len(pay) + 1) = row.amount
<1>1. PICK n \in Nat : n = Len(pay)
  BY DEF Grown
<1>2. /\ DOMAIN pay = 1 .. n /\ DOMAIN new = 1 .. (n + 1)
      /\ \A k \in 1 .. n : new[k] = pay[k]
      /\ new[n + 1] = row
  BY <1>1 DEF Grown
<1>3. \A p \in 1 .. n : pay[p] \in Payment /\ \A i \in Ids : pay[p].applied[i] \in Nat
  <2>1. \A p \in 1 .. n : pay[p] \in Payment
    BY <1>2, Places DEF PayTable
  <2> QED
    BY <2>1 DEF Payment, Ids
<1>4. ASSUME NEW i \in Ids
      PROVE  Paid(new, i) = Paid(pay, i)
  <2> DEFINE g == [p \in 1 .. n |-> IF pay[p].reversed THEN 0 ELSE pay[p].applied[i]]
             h == [p \in 1 .. (n + 1) |-> IF new[p].reversed THEN 0 ELSE new[p].applied[i]]
  <2>1. Paid(pay, i) = SumFunctionOnSet(g, 1 .. n)
    BY <1>2 DEF Paid, SumFunction
  <2>2. Paid(new, i) = SumFunctionOnSet(h, 1 .. (n + 1))
    BY <1>2 DEF Paid, SumFunction
  <2>3. \A p \in 1 .. n : g[p] \in Int /\ h[p] = g[p]
    BY <1>2, <1>3
  <2>4. h[n + 1] = 0 /\ h[n + 1] \in Int
    BY <1>2
  <2>5. SumFunctionOnSet(h, 1 .. (n + 1)) = SumFunctionOnSet(g, 1 .. n) + 0
    <3> HIDE DEF g, h
    <3> QED
      <4>1. SumFunctionOnSet(h, 1 .. (n + 1)) = SumFunctionOnSet(g, 1 .. n) + h[n + 1]
        BY <1>1, <2>3, <2>4, SumAppended, Zenon
      <4> QED
        BY <2>4, <4>1
  <2>6. Paid(pay, i) \in Nat
    BY PaidIsNatural
  <2> HIDE DEF g, h
  <2> QED
    BY <2>1, <2>2, <2>5, <2>6
<1>5. \A p \in DOMAIN pay : Left(new, I, p) = Left(pay, I, p)
  BY <1>2, Zenon DEF Left
<1>6. Left(new, I, n + 1) = row.amount
  <2> DEFINE g == [i \in I |-> row.applied[i]]
  <2>1. Left(new, I, n + 1) = row.amount - SumFunction(g)
    BY <1>2 DEF Left
  <2>2. SumFunction(g) = SumFunctionOnSet(g, I)
    BY DEF SumFunction
  <2>3. \A i \in I : g[i] = 0 /\ g[i] \in Nat
    OBVIOUS
  <2>4. IsFiniteSet(I)
    BY IdsAreFinite, FS_Subset
  <2>5. SumFunctionOnSet(g, I) = 0
    <3> HIDE DEF g
    <3> QED
      BY <2>3, <2>4, SumOfNaturals
  <2>6. row.amount \in Nat
    BY Constants DEF Payment
  <2> HIDE DEF g
  <2> QED
    BY <2>1, <2>2, <2>5, <2>6
<1> QED
  BY <1>1, <1>4, <1>5, <1>6

\* An invoice more is paid nothing and takes no credit.
LEMMA InvoiceAdded ==
  ASSUME NEW pay \in PayTable, NEW n \in Nat, n + 1 <= MaxInvoices,
         \A p \in DOMAIN pay : pay[p].applied[n + 1] = 0
  PROVE  /\ \A p \in DOMAIN pay : Left(pay, 1 .. (n + 1), p) = Left(pay, 1 .. n, p)
         /\ CreditLeft(pay, 1 .. (n + 1)) = CreditLeft(pay, 1 .. n)
         /\ Paid(pay, n + 1) = 0
<1>1. IsFiniteSet(DOMAIN pay) /\ \A p \in DOMAIN pay : pay[p] \in Payment
  BY Places DEF PayTable
<1>2. 1 .. (n + 1) \subseteq Ids /\ n + 1 \in Ids /\ 1 .. n \subseteq Ids
  BY Constants DEF Ids
<1>3. ASSUME NEW p \in DOMAIN pay
      PROVE  Left(pay, 1 .. (n + 1), p) = Left(pay, 1 .. n, p)
  <2> DEFINE g == [i \in 1 .. n |-> pay[p].applied[i]]
             h == [i \in 1 .. (n + 1) |-> pay[p].applied[i]]
  <2>1. SumFunction(g) = SumFunctionOnSet(g, 1 .. n)
        /\ SumFunction(h) = SumFunctionOnSet(h, 1 .. (n + 1))
    BY DEF SumFunction
  <2>2. \A i \in Ids : pay[p].applied[i] \in Nat
    BY <1>1 DEF Payment, Ids
  <2>3. \A i \in 1 .. n : g[i] \in Nat /\ h[i] = g[i]
    BY <1>2, <2>2
  <2>4. h[n + 1] = 0 /\ h[n + 1] \in Int
    OBVIOUS
  <2>5. IsFiniteSet(1 .. n)
    BY FS_Interval
  <2>6. SumFunction(h) = SumFunction(g)
    <3> HIDE DEF g, h
    <3>1. SumFunctionOnSet(h, 1 .. (n + 1)) = SumFunctionOnSet(g, 1 .. n) + h[n + 1]
      <4>1. \A i \in 1 .. n : g[i] \in Int /\ h[i] = g[i]
        BY <2>3
      <4> QED
        BY <2>4, <4>1, SumAppended, Zenon
    <3>2. SumFunctionOnSet(g, 1 .. n) \in Nat
      BY <2>3, <2>5, SumOfNaturals
    <3> QED
      BY <2>1, <2>4, <3>1, <3>2
  <2> QED
    BY <2>6, Zenon DEF Left
<1>4. CreditLeft(pay, 1 .. (n + 1)) = CreditLeft(pay, 1 .. n)
  <2>1. [p \in DOMAIN pay |-> Left(pay, 1 .. (n + 1), p)]
          = [p \in DOMAIN pay |-> Left(pay, 1 .. n, p)]
    BY <1>3, Zenon
  <2> QED
    BY <2>1, Zenon DEF CreditLeft
<1>5. Paid(pay, n + 1) = 0
  <2> DEFINE g == [p \in DOMAIN pay |-> IF pay[p].reversed THEN 0 ELSE pay[p].applied[n + 1]]
  <2>1. Paid(pay, n + 1) = SumFunctionOnSet(g, DOMAIN pay)
    BY DEF Paid, SumFunction
  <2>2. \A p \in DOMAIN pay : g[p] = 0 /\ g[p] \in Nat
    OBVIOUS
  <2> HIDE DEF g
  <2> QED
    BY <1>1, <2>1, <2>2, SumOfNaturals
<1> QED
  BY <1>3, <1>4, <1>5

\* The money of a payment that is reversed is nowhere.
Reverses(new, pay, p) ==
  /\ new \in PayTable /\ pay \in PayTable /\ p \in DOMAIN pay /\ ~pay[p].reversed
  /\ DOMAIN new = DOMAIN pay /\ new[p].reversed
  /\ \A q \in DOMAIN pay : q # p => new[q] = pay[q]

\* A payment reversed leaves its invoices, and the credit, without it.
LEMMA PaymentReversed ==
  ASSUME NEW new, NEW pay, NEW p, Reverses(new, pay, p), NEW I
  PROVE  /\ \A i \in Ids : /\ pay[p].applied[i] \in Nat
                           /\ Paid(new, i) = Paid(pay, i) - pay[p].applied[i]
         /\ \A q \in DOMAIN pay : Left(new, I, q) = IF q = p THEN 0 ELSE Left(pay, I, q)
<1>1. /\ new \in PayTable /\ pay \in PayTable /\ p \in DOMAIN pay /\ ~pay[p].reversed
      /\ DOMAIN new = DOMAIN pay /\ new[p].reversed
      /\ \A q \in DOMAIN pay : q # p => new[q] = pay[q]
  BY DEF Reverses
<1>2. /\ IsFiniteSet(DOMAIN pay) /\ \A q \in DOMAIN pay : pay[q] \in Payment
      /\ \A q \in DOMAIN pay : new[q] \in Payment
  BY <1>1, Places DEF PayTable
<1>3. ASSUME NEW i \in Ids
      PROVE  /\ pay[p].applied[i] \in Nat
             /\ Paid(new, i) = Paid(pay, i) - pay[p].applied[i]
  <2> DEFINE g == [q \in DOMAIN pay |-> IF pay[q].reversed THEN 0 ELSE pay[q].applied[i]]
             h == [q \in DOMAIN pay |-> IF new[q].reversed THEN 0 ELSE new[q].applied[i]]
  <2>1. Paid(pay, i) = SumFunctionOnSet(g, DOMAIN pay)
    BY DEF Paid, SumFunction
  <2>2. Paid(new, i) = SumFunctionOnSet(h, DOMAIN pay)
    BY <1>1 DEF Paid, SumFunction
  <2>3. \A q \in DOMAIN pay : pay[q].applied[i] \in Nat /\ new[q].applied[i] \in Nat
    BY <1>2 DEF Payment, Ids
  <2>4. \A q \in DOMAIN pay : g[q] \in Int /\ h[q] \in Int
    BY <2>3
  <2>5. \A q \in DOMAIN pay \ {p} : g[q] = h[q]
    BY <1>1
  <2>6. g[p] = pay[p].applied[i] /\ h[p] = 0
    BY <1>1
  <2>7. SumFunctionOnSet(h, DOMAIN pay) = SumFunctionOnSet(g, DOMAIN pay) + h[p] - g[p]
    <3> HIDE DEF g, h
    <3> QED
      BY <1>1, <1>2, <2>4, <2>5, SumChanges
  <2>8. Paid(pay, i) \in Nat /\ pay[p].applied[i] \in Nat
    BY <1>1, <2>3, PaidIsNatural
  <2> HIDE DEF g, h
  <2> QED
    BY <2>1, <2>2, <2>6, <2>7, <2>8
<1>4. \A q \in DOMAIN pay : Left(new, I, q) = IF q = p THEN 0 ELSE Left(pay, I, q)
  <2>1. Left(new, I, p) = 0
    BY <1>1, Zenon DEF Left
  <2>2. \A q \in DOMAIN pay : q # p => Left(new, I, q) = Left(pay, I, q)
    BY <1>1, Zenon DEF Left
  <2> QED
    BY <2>1, <2>2
<1> QED
  BY <1>3, <1>4

(***************************************************************************)
(* The operations, one lemma each.                                         *)
(***************************************************************************)
LEMMA NoMemos ==
  ASSUME NEW memo \in MemoTable, NEW refund \in RefundTable, NEW i,
         \A m \in DOMAIN memo : memo[m].invoice # i
  PROVE  MemosOn(memo, i) = 0 /\ RefundsFor(memo, refund, i) = 0
<1> DEFINE g == [m \in DOMAIN memo |-> IF memo[m].invoice = i THEN memo[m].amount ELSE 0]
<1>1. IsFiniteSet(DOMAIN memo)
  BY Places DEF MemoTable
<1>2. \A m \in DOMAIN memo : g[m] = 0 /\ g[m] \in Nat
  OBVIOUS
<1>3. MemosOn(memo, i) = SumFunctionOnSet(g, DOMAIN memo)
  BY DEF MemosOn, SumFunction
<1>4. MemosOn(memo, i) = 0
  <2> HIDE DEF g
  <2> QED
    BY <1>1, <1>2, <1>3, SumOfNaturals
<1>5. RefundsFor(memo, refund, i) = 0
  BY RefundsForAreNatural
<1> QED
  BY <1>4, <1>5

\* The book d before a month of s is charged.
Chargeable(d, s) ==
  /\ Sound(d) /\ Follows(d, now)
  /\ s \in Subscriptions /\ d.sub[s].activated # Never
  /\ Len(d.inv) < MaxInvoices
  /\ \A x \in Subscriptions :
       /\ d.sub[x].status \in {"active", "suspended"} => d.sub[x].activated # Never
       /\ x # s /\ d.sub[x].activated # Never =>
            InvoicesOf(d, x) # {} /\ d.sub[x].paidUntil = Cursor(d, x)
  /\ \A i \in DOMAIN d.inv : d.inv[i].status = StatusFor(d, i)
  /\ \A i \in DOMAIN d.inv : Refunded(d, i) > 0 => Balance(d, i) <= 0

\* c is d with one more invoice, of which nothing is paid.
Charges(d, c) ==
  /\ c.sub = d.sub
  /\ Len(d.inv) \in Nat /\ Len(c.inv) = Len(d.inv) + 1 /\ DOMAIN c.inv = 1 .. (Len(d.inv) + 1)
  /\ DOMAIN d.inv = 1 .. Len(d.inv)
  /\ c.pay = d.pay /\ c.memo = d.memo /\ c.refund = d.refund /\ c.prop = d.prop
  /\ OpenInvoices(c) = OpenInvoices(d) \cup {Len(d.inv) + 1}
  /\ PaidAmount(c, Len(d.inv) + 1) = 0 /\ Balance(c, Len(d.inv) + 1) = Price
  /\ Credited(c, Len(d.inv) + 1) = 0 /\ Refunded(c, Len(d.inv) + 1) = 0
  /\ Credit(c) = Credit(d)

\* A charge leaves the book ready: its invoice is open.
LEMMA ChargedReady ==
  ASSUME NEW d, NEW s, Chargeable(d, s), NEW start \in Nat, start <= MaxMonths + Len(d.inv)
  PROVE  Ready(Charged(d, s, start)) /\ Charges(d, Charged(d, s, start))
<1>1. /\ Sound(d) /\ d \in Book /\ d.inv \in InvTable /\ d.pay \in PayTable /\ d.memo \in MemoTable
      /\ d.refund \in RefundTable /\ s \in Subscriptions
  BY SoundParts DEF Chargeable
<1>2. PICK n \in Nat : n = Len(d.inv)
  BY <1>1, InvRows
<1>3. n < MaxInvoices /\ n + 1 \in Ids /\ start <= MaxMonths + n
  BY <1>2, Constants DEF Chargeable, Ids
<1>4. PICK row : row = [sub |-> s, start |-> start, status |-> "open"]
  OBVIOUS
<1>5. /\ row.sub = s /\ row.start = start /\ row.status = "open"
      /\ row \in Invoice
  <2>1. start \in 0 .. MaxMonths + MaxInvoices
    BY <1>3, Constants
  <2> QED
    BY <1>1, <1>4, <2>1 DEF Invoice
<1>6. PICK inv : inv = Append(d.inv, row)
  OBVIOUS
<1>7. Grown(inv, d.inv, row) /\ inv \in InvTable
  BY <1>1, <1>5, <1>6, AppendGrows DEF InvTable
<1>8. /\ DOMAIN d.inv = 1 .. n /\ Len(inv) = n + 1 /\ DOMAIN inv = 1 .. (n + 1)
      /\ \A k \in 1 .. n : inv[k] = d.inv[k]
      /\ inv[n + 1] = row
  BY <1>2, <1>7 DEF Grown
<1>9. PICK c : c = [d EXCEPT !.inv = inv]
  OBVIOUS
<1>10. Charged(d, s, start) = c
  BY <1>4, <1>6, <1>9, Zenon DEF Charged
<1>11. /\ c \in Book /\ c.inv = inv /\ c.sub = d.sub /\ c.pay = d.pay /\ c.memo = d.memo
       /\ c.refund = d.refund /\ c.prop = d.prop
  <2>1. /\ [d EXCEPT !.inv = inv] \in Book
        /\ [d EXCEPT !.inv = inv].pay = d.pay
        /\ [d EXCEPT !.inv = inv].sub = d.sub
        /\ [d EXCEPT !.inv = inv].inv = inv
        /\ [d EXCEPT !.inv = inv].memo = d.memo
        /\ [d EXCEPT !.inv = inv].refund = d.refund
        /\ [d EXCEPT !.inv = inv].prop = d.prop
    BY <1>1, <1>7, BookParts
  <2> QED
    BY <1>9, <2>1, Zenon
<1>12. /\ \A i : /\ PaidAmount(c, i) = PaidAmount(d, i) /\ Credited(c, i) = Credited(d, i)
                 /\ Refunded(c, i) = Refunded(d, i) /\ Balance(c, i) = Balance(d, i)
       /\ \A m : RefundedOn(c, m) = RefundedOn(d, m)
  BY <1>11, Money
<1>13. \A p \in DOMAIN d.pay : d.pay[p].applied[n + 1] = 0
  <2>1. n + 1 \notin DOMAIN d.inv
    BY <1>8
  <2> QED
    BY <1>1, <1>3, <2>1 DEF Sound
<1>14. /\ \A p \in DOMAIN d.pay : Available(c, p) = Available(d, p)
       /\ Credit(c) = Credit(d)
       /\ PaidAmount(c, n + 1) = 0
  <2>1. n + 1 <= MaxInvoices
    BY <1>3, Constants
  <2>2. /\ \A p \in DOMAIN d.pay : Left(d.pay, 1 .. (n + 1), p) = Left(d.pay, 1 .. n, p)
        /\ CreditLeft(d.pay, 1 .. (n + 1)) = CreditLeft(d.pay, 1 .. n)
        /\ Paid(d.pay, n + 1) = 0
    BY <1>1, <1>13, <2>1, InvoiceAdded
  <2>3. /\ \A b, p : Available(b, p) = Left(b.pay, DOMAIN b.inv, p)
        /\ \A b : Credit(b) = CreditLeft(b.pay, DOMAIN b.inv)
        /\ \A b, i : PaidAmount(b, i) = Paid(b.pay, i)
    BY Money
  <2>4. /\ \A p : Available(c, p) = Left(d.pay, 1 .. (n + 1), p)
        /\ \A p : Available(d, p) = Left(d.pay, 1 .. n, p)
        /\ Credit(c) = CreditLeft(d.pay, 1 .. (n + 1)) /\ Credit(d) = CreditLeft(d.pay, 1 .. n)
        /\ PaidAmount(c, n + 1) = Paid(d.pay, n + 1)
    BY <1>8, <1>11, <2>3, Zenon
  <2> QED
    BY <2>2, <2>4
<1>15. Credited(c, n + 1) = 0 /\ Refunded(c, n + 1) = 0 /\ Balance(c, n + 1) = Price
  <2>1. \A m \in DOMAIN d.memo : d.memo[m].invoice # n + 1
    BY <1>1, <1>8 DEF Sound
  <2>2. Credited(c, n + 1) = 0 /\ Refunded(c, n + 1) = 0
    BY <1>1, <1>11, <2>1, NoMemos, Money
  <2>3. Balance(c, n + 1) = Price - PaidAmount(c, n + 1) - Credited(c, n + 1) + Refunded(c, n + 1)
    BY DEF Balance
  <2> QED
    BY <1>14, <2>2, <2>3, Constants
<1>16. Sound(c)
  <2>1. Len(c.inv) <= MaxInvoices
    BY <1>3, <1>8, <1>11, Constants
  <2>2. \A i \in DOMAIN c.inv : c.inv[i].start < MaxMonths + i
    <3>1. \A i \in 1 .. n : inv[i].start < MaxMonths + i
      BY <1>1, <1>8 DEF Sound
    <3>2. inv[n + 1].start < MaxMonths + (n + 1)
      BY <1>3, <1>5, <1>8, Constants
    <3>3. \A i \in 1 .. (n + 1) : i \in 1 .. n \/ i = n + 1
      OBVIOUS
    <3> QED
      BY <1>8, <1>11, <3>1, <3>2, <3>3, Zenon
  <2>3. \A p \in DOMAIN c.pay : \A j \in Ids : j \notin DOMAIN c.inv => c.pay[p].applied[j] = 0
    <3>1. \A j : j \notin 1 .. (n + 1) => j \notin 1 .. n
      OBVIOUS
    <3>2. \A p \in DOMAIN d.pay : \A j \in Ids : j \notin 1 .. n => d.pay[p].applied[j] = 0
      BY <1>1, <1>8 DEF Sound
    <3> QED
      BY <1>8, <1>11, <3>1, <3>2, Zenon
  <2>4. \A m \in DOMAIN c.memo : /\ c.memo[m].invoice \in DOMAIN c.inv
                                 /\ RefundedOn(c, m) <= c.memo[m].amount
    <3>1. \A m \in DOMAIN d.memo : /\ d.memo[m].invoice \in 1 .. n
                                   /\ RefundedOn(d, m) <= d.memo[m].amount
      BY <1>1, <1>8 DEF Sound
    <3>2. \A j : j \in 1 .. n => j \in 1 .. (n + 1)
      OBVIOUS
    <3> QED
      BY <1>8, <1>11, <1>12, <3>1, <3>2
  <2>5. \A r \in DOMAIN c.refund : c.refund[r].memo \in DOMAIN c.memo
    BY <1>1, <1>11 DEF Sound
  <2>6. \A p \in DOMAIN c.pay : Available(c, p) >= 0
    BY <1>1, <1>11, <1>14 DEF Sound
  <2>7. \A i \in DOMAIN c.inv : PaidAmount(c, i) <= Price
    <3>1. \A i \in 1 .. n : PaidAmount(c, i) <= Price
      BY <1>1, <1>8, <1>12 DEF Sound
    <3>2. PaidAmount(c, n + 1) <= Price
      BY <1>14, Constants
    <3>3. \A i \in 1 .. (n + 1) : i \in 1 .. n \/ i = n + 1
      OBVIOUS
    <3> QED
      BY <1>8, <1>11, <3>1, <3>2, <3>3, Zenon
  <2> QED
    BY <1>11, <2>1, <2>2, <2>3, <2>4, <2>5, <2>6, <2>7 DEF Sound
<1>17. OpenInvoices(c) = OpenInvoices(d) \cup {n + 1}
  <2>1. \A i \in 1 .. (n + 1) : i \in 1 .. n \/ i = n + 1
    OBVIOUS
  <2> QED
    BY <1>5, <1>8, <1>11, <2>1 DEF OpenInvoices
<1>18. Follows(c, now)
  <2>1. \A x : InForce(c, x) = InForce(d, x)
    BY <1>11, Zenon DEF InForce
  <2>2. Follows(d, now)
    BY DEF Chargeable
  <2> QED
    BY <1>11, <2>1, <2>2 DEF Follows
<1>19. /\ \A x : \A i : i \in InvoicesOf(c, x) <=> i \in InvoicesOf(d, x) \/ (x = s /\ i = n + 1)
  <2>1. \A i \in 1 .. (n + 1) : i \in 1 .. n \/ i = n + 1
    OBVIOUS
  <2>2. n + 1 \notin 1 .. n
    OBVIOUS
  <2> QED
    BY <1>5, <1>8, <1>11, <2>1, <2>2 DEF InvoicesOf
<1>20. Served(c)
  <2>1. \A x \in Subscriptions : d.sub[x].activated # Never => InvoicesOf(c, x) # {}
    BY <1>19 DEF Chargeable
  <2> QED
    BY <1>11, <2>1 DEF Served, Chargeable
<1>21. ASSUME NEW x \in Subscriptions, c.sub[x].activated # Never
       PROVE  \/ c.sub[x].paidUntil = Cursor(c, x)
              \/ \E i \in OpenInvoices(c) : c.inv[i].sub = x
  <2>1. CASE x = s
    BY <1>5, <1>8, <1>11, <1>17, <2>1
  <2>2. CASE x # s
    <3>1. InvoicesOf(c, x) = InvoicesOf(d, x)
      <4>1. \A i : i \in InvoicesOf(c, x) <=> i \in InvoicesOf(d, x)
        BY <1>19, <2>2
      <4> QED
        BY <4>1, Zenon
    <3>2. \A i \in InvoicesOf(d, x) : c.inv[i].start = d.inv[i].start
      BY <1>8, <1>11 DEF InvoicesOf
    <3>3. \A m : m \in PaidMonths(c, x) <=> m \in PaidMonths(d, x)
      <4>1. \A b, m : m \in PaidMonths(b, x) <=>
              \E i \in InvoicesOf(b, x) : b.inv[i].start = m /\ Balance(b, i) <= 0
        BY DEF PaidMonths
      <4> QED
        BY <1>12, <3>1, <3>2, <4>1
    <3>4. PaidMonths(c, x) = PaidMonths(d, x)
      BY <3>3
    <3>5. Cursor(c, x) = Cursor(d, x)
      BY <1>11, <3>4, CursorIs
    <3> QED
      BY <1>11, <1>21, <2>2, <3>5 DEF Chargeable
  <2> QED
    BY <2>1, <2>2
<1>22. /\ \A i \in DOMAIN c.inv : i \notin OpenInvoices(c) => Balance(c, i) <= 0
       /\ \A i \in DOMAIN c.inv : Refunded(c, i) > 0 => Balance(c, i) <= 0
  <2>1. \A i \in 1 .. (n + 1) : i \in 1 .. n \/ i = n + 1
    OBVIOUS
  <2>2. \A i \in 1 .. n : i \notin OpenInvoices(d) => Balance(d, i) <= 0
    <3>1. \A i \in 1 .. n : d.inv[i].status = StatusFor(d, i)
      BY <1>8 DEF Chargeable
    <3> QED
      BY <1>8, <3>1 DEF OpenInvoices, StatusFor
  <2>3. \A i \in 1 .. n : Refunded(d, i) > 0 => Balance(d, i) <= 0
    BY <1>8 DEF Chargeable
  <2> QED
    BY <1>8, <1>11, <1>12, <1>15, <1>17, <2>1, <2>2, <2>3
<1>23. Ready(c)
  BY <1>16, <1>18, <1>20, <1>21, <1>22 DEF Ready
<1>24. Charges(d, c)
  <2>1. c.sub = d.sub /\ Len(c.inv) = n + 1 /\ DOMAIN c.inv = 1 .. (n + 1)
        /\ DOMAIN d.inv = 1 .. n
    BY <1>8, <1>11
  <2> QED
    BY <1>2, <1>11, <1>14, <1>15, <1>17, <2>1 DEF Charges
<1> QED
  BY <1>10, <1>23, <1>24

Bounded(b) ==
  /\ Len(b.pay) <= MaxPayments /\ Len(b.memo) <= MaxMemos
  /\ Len(b.refund) <= MaxRefunds /\ Len(b.prop) <= MaxProposals

\* The inductive invariant.
BillingInvariant == Kept(book, now) /\ Bounded(book) /\ now \in 0 .. MaxMonths

\* activate_subscription: a first charge, and what credit there is to it.
LEMMA ActivatedKept ==
  ASSUME BillingInvariant, NEW s \in Subscriptions, Activate(s)
  PROVE  BillingInvariant'
<1>1. PICK b : b = book
  OBVIOUS
<1>2. /\ Kept(b, now) /\ Bounded(b) /\ now \in 0 .. MaxMonths /\ now \in Nat /\ Sound(b)
      /\ Follows(b, now) /\ Served(b)
      /\ b.sub[s].status = "pending" /\ Len(b.inv) < MaxInvoices
      /\ book' = Allocated(Charged([b EXCEPT !.sub[s].status = "active",
                                             !.sub[s].activated = now], s, now))
      /\ now' = now
  BY <1>1, Constants DEF BillingInvariant, Activate, Kept
<1>3. /\ b.sub \in SubTable /\ b.prop \in PropTable /\ b \in Book /\ b.inv \in InvTable
  BY <1>2, SoundParts
<1>4. PICK row : row = [b.sub[s] EXCEPT !.status = "active", !.activated = now]
  OBVIOUS
<1>5. /\ row \in Subscription /\ row.status = "active" /\ row.activated = now /\ now # Never
  <2>1. b.sub[s] \in Subscription
    BY <1>3, SubRows
  <2>2. now # Never
    BY <1>2 DEF Never
  <2>3. /\ row.status = "active" /\ row.activated = now
        /\ row = [status |-> "active", activated |-> now, paidUntil |-> b.sub[s].paidUntil]
    BY <1>4, <2>1, Zenon DEF Subscription
  <2>4. b.sub[s].paidUntil \in 0 .. MaxMonths + MaxInvoices \cup {Never}
    BY <2>1 DEF Subscription
  <2>5. row \in Subscription
    BY <1>2, <2>3, <2>4 DEF Subscription
  <2> QED
    BY <2>2, <2>3, <2>5
<1>6. PICK sub : sub = [b.sub EXCEPT ![s] = row]
  OBVIOUS
<1>7. sub \in SubTable /\ \A x \in Subscriptions : sub[x] = IF x = s THEN row ELSE b.sub[x]
  BY <1>3, <1>5, <1>6, SubRows
<1>8. PICK d : d = [b EXCEPT !.sub = sub, !.prop = b.prop]
  OBVIOUS
<1>9. d = [b EXCEPT !.sub[s].status = "active", !.sub[s].activated = now]
  BY <1>3, <1>4, <1>6, <1>8, Zenon DEF Book
<1>10. Rewritten(b, d, sub, b.prop)
  BY <1>2, <1>3, <1>7, <1>8, Rewriting
<1>11. Sound(d) /\ SameMoney(b, d) /\ d.inv = b.inv /\ d.sub = sub /\ d.prop = b.prop
  BY <1>10 DEF Rewritten
<1>12. \A i : /\ Balance(d, i) = Balance(b, i) /\ Refunded(d, i) = Refunded(b, i)
              /\ StatusFor(d, i) = StatusFor(b, i)
  BY <1>11, SameSums
<1>13. Chargeable(d, s)
  <2>1. Follows(d, now)
    <3>1. \A x : InForce(d, x) = InForce(b, x)
      BY <1>11, Zenon DEF InForce
    <3>2. InForce(b, s) = {}
      BY <1>2 DEF Follows
    <3> QED
      BY <1>2, <1>5, <1>7, <1>11, <3>1, <3>2 DEF Follows
  <2>2. ASSUME NEW x \in Subscriptions
        PROVE  /\ d.sub[x].status \in {"active", "suspended"} => d.sub[x].activated # Never
               /\ x # s /\ d.sub[x].activated # Never =>
                    InvoicesOf(d, x) # {} /\ d.sub[x].paidUntil = Cursor(d, x)
    <3>1. CASE x = s
      BY <1>5, <1>7, <1>11, <3>1
    <3>2. CASE x # s
      <4>1. d.sub[x] = b.sub[x]
        BY <1>7, <1>11, <3>2
      <4>2. InvoicesOf(d, x) = InvoicesOf(b, x)
        BY <1>11, Zenon DEF InvoicesOf
      <4>3. Cursor(d, x) = Cursor(b, x)
        BY <1>11, <1>12, <4>1, CursorSame
      <4> QED
        BY <1>2, <4>1, <4>2, <4>3 DEF Kept, Served
    <3> QED
      BY <3>1, <3>2
  <2>3. /\ \A i \in DOMAIN d.inv : d.inv[i].status = StatusFor(d, i)
        /\ \A i \in DOMAIN d.inv : Refunded(d, i) > 0 => Balance(d, i) <= 0
    BY <1>2, <1>11, <1>12 DEF Kept
  <2>4. d.sub[s].activated # Never /\ Len(d.inv) < MaxInvoices
    BY <1>2, <1>5, <1>7, <1>11
  <2> QED
    BY <1>11, <2>1, <2>2, <2>3, <2>4 DEF Chargeable
<1>14. now <= MaxMonths + Len(d.inv)
  <2>1. Len(b.inv) \in Nat
    BY <1>3, InvRows
  <2> QED
    BY <1>2, <1>11, <2>1, Constants
<1>15. PICK c : c = Charged(d, s, now)
  OBVIOUS
<1>16. Ready(c) /\ Charges(d, c)
  BY <1>2, <1>13, <1>14, <1>15, ChargedReady
<1>17. Kept(Allocated(c), now) /\ Distributes(c, Allocated(c))
  BY <1>2, <1>16, AllocatedKeeps
<1>18. Bounded(Allocated(c))
  <2>1. d.pay = b.pay /\ d.memo = b.memo /\ d.refund = b.refund
    BY <1>11 DEF SameMoney
  <2>2. c.pay = b.pay /\ c.memo = b.memo /\ c.refund = b.refund /\ c.prop = b.prop
    BY <1>11, <1>16, <2>1 DEF Charges
  <2> QED
    BY <1>2, <1>17, <2>2 DEF Bounded, Distributes
<1>19. book' = Allocated(c)
  BY <1>2, <1>9, <1>15
<1> QED
  BY <1>2, <1>17, <1>18, <1>19 DEF BillingInvariant

\* renew_subscription: the credit it asks for pays the month it charges.
LEMMA RenewedKept ==
  ASSUME BillingInvariant, NEW s \in Subscriptions, Renew(s)
  PROVE  BillingInvariant' /\ book'.inv[Len(book'.inv)].status = "paid"
<1>1. PICK b : b = book
  OBVIOUS
<1>2. PICK last : last = Newest(b, InvoicesOf(b, s))
  OBVIOUS
<1>3. /\ Kept(b, now) /\ Bounded(b) /\ now \in 0 .. MaxMonths /\ now \in Nat /\ Sound(b)
      /\ b.sub[s].activated # Never
      /\ Balance(b, last) <= 0 /\ Credit(b) >= Price /\ Len(b.inv) < MaxInvoices
      /\ book' = Allocated(Charged(b, s, b.inv[last].start + 1))
      /\ now' = now
  BY <1>1, <1>2, Constants DEF BillingInvariant, Renew, Kept, LastInvoice
<1>4. b.inv \in InvTable
  BY <1>3, SoundParts
<1>5. PICK n \in Nat : n = Len(b.inv) /\ DOMAIN b.inv = 1 .. n
  BY <1>4, InvRows
<1>6. last \in 1 .. n
  <2>1. InvoicesOf(b, s) # {}
    BY <1>3 DEF Kept, Served
  <2>2. InvoicesOf(b, s) \subseteq DOMAIN b.inv
    BY DEF InvoicesOf
  <2> QED
    BY <1>2, <1>3, <1>5, <2>1, <2>2, NewestIs
<1>7. PICK start : start = b.inv[last].start + 1
  OBVIOUS
<1>8. start \in Nat /\ start <= MaxMonths + n
  <2>1. b.inv[last] \in Invoice
    BY <1>4, <1>5, <1>6, InvRows
  <2>2. b.inv[last].start \in 0 .. MaxMonths + MaxInvoices
    BY <2>1 DEF Invoice
  <2>3. b.inv[last].start < MaxMonths + last
    BY <1>3, <1>5, <1>6 DEF Sound
  <2> QED
    BY <1>6, <1>7, <2>2, <2>3, Constants
<1>9. Chargeable(b, s)
  BY <1>3 DEF Chargeable, Kept, Served
<1>10. PICK c : c = Charged(b, s, start)
  OBVIOUS
<1>11. Ready(c) /\ Charges(b, c)
  BY <1>5, <1>8, <1>9, <1>10, ChargedReady
<1>12. PICK e : e = Allocated(c)
  OBVIOUS
<1>13. Kept(e, now) /\ Distributes(c, e)
  BY <1>3, <1>11, <1>12, AllocatedKeeps
<1>14. book' = e
  BY <1>3, <1>7, <1>10, <1>12
<1>15. Bounded(e)
  <2>1. c.pay = b.pay /\ c.memo = b.memo /\ c.refund = b.refund /\ c.prop = b.prop
    BY <1>11 DEF Charges
  <2> QED
    BY <1>3, <1>13, <2>1 DEF Bounded, Distributes
<1>16. PICK new : new = n + 1
  OBVIOUS
<1>17. /\ new \in DOMAIN c.inv /\ Len(e.inv) = new /\ new \in DOMAIN e.inv
       /\ OpenInvoices(c) = OpenInvoices(b) \cup {new}
       /\ PaidAmount(c, new) = 0 /\ Credit(c) = Credit(b)
  <2>1. /\ DOMAIN c.inv = 1 .. new /\ Len(c.inv) = new /\ PaidAmount(c, new) = 0
        /\ OpenInvoices(c) = OpenInvoices(b) \cup {new} /\ Credit(c) = Credit(b)
    BY <1>5, <1>11, <1>16 DEF Charges
  <2>2. new \in 1 .. new
    BY <1>16
  <2>3. Len(e.inv) = Len(c.inv) /\ DOMAIN e.inv = DOMAIN c.inv
    BY <1>13 DEF Distributes
  <2> QED
    BY <2>1, <2>2, <2>3
<1>18. OpenInvoices(b) = {}
  <2>1. Credit(b) > 0
    BY <1>3, Amount, Constants
  <2> QED
    BY <1>3, <2>1 DEF Kept
<1>19. PaidAmount(e, new) + Credit(e) = Credit(b)
  <2>1. OpenInvoices(c) = {new}
    BY <1>17, <1>18
  <2>2. PaidAmount(e, new) + Credit(e) = PaidAmount(c, new) + Credit(c)
    BY <1>13, <1>17, <2>1 DEF Distributes
  <2>3. Credit(b) \in Nat
    BY <1>3, Amount
  <2> QED
    BY <1>17, <2>2, <2>3
<1>20. e.inv[new].status = "paid"
  <2>1. Sound(e) /\ e.inv[new].status = StatusFor(e, new)
    BY <1>13, <1>17 DEF Kept
  <2>2. new \in Ids /\ e.inv \in InvTable
    BY <1>17, <2>1, SoundParts
  <2>3. CASE Credit(e) > 0
    <3>1. new \notin OpenInvoices(e)
      BY <1>13, <2>3 DEF Kept
    <3>2. e.inv[new].status \in {"open", "paid"}
      BY <1>17, <2>2, InvRows DEF Invoice
    <3> QED
      BY <1>17, <3>1, <3>2 DEF OpenInvoices
  <2>4. CASE ~(Credit(e) > 0)
    <3>1. /\ Credit(e) \in Nat /\ Credit(b) \in Nat /\ PaidAmount(e, new) \in Nat
          /\ Credited(e, new) \in Nat /\ Refunded(e, new) \in Nat
          /\ Refunded(e, new) <= Credited(e, new)
          /\ Balance(e, new) = Price - PaidAmount(e, new) - Credited(e, new) + Refunded(e, new)
      BY <1>3, <2>1, <2>2, Amount
    <3>2. PaidAmount(e, new) >= Price
      BY <1>3, <1>19, <2>4, <3>1, Constants
    <3>3. Balance(e, new) <= 0
      BY <3>1, <3>2, Constants
    <3> QED
      BY <2>1, <3>3 DEF StatusFor
  <2> QED
    BY <2>3, <2>4
<1> QED
  BY <1>3, <1>13, <1>14, <1>15, <1>17, <1>20 DEF BillingInvariant

\* receive_payment.
LEMMA PaidKept ==
  ASSUME BillingInvariant, NEW a \in Amounts, Pay(a)
  PROVE  BillingInvariant'
<1>1. PICK b : b = book
  OBVIOUS
<1>2. PICK row : row = [amount |-> a, reversed |-> FALSE, applied |-> [i \in 1..MaxInvoices |-> 0]]
  OBVIOUS
<1>3. /\ Kept(b, now) /\ Bounded(b) /\ now \in 0 .. MaxMonths /\ now \in Nat /\ Sound(b)
      /\ Follows(b, now) /\ Served(b) /\ Len(b.pay) < MaxPayments
      /\ book' = Allocated([b EXCEPT !.pay = Append(@, row)])
      /\ now' = now
  BY <1>1, <1>2, Constants DEF BillingInvariant, Pay, Kept
<1>4. /\ b \in Book /\ b.pay \in PayTable /\ b.inv \in InvTable /\ DOMAIN b.inv \subseteq Ids
  BY <1>3, SoundParts
<1>5. /\ row \in Payment /\ ~row.reversed /\ \A i \in Ids : row.applied[i] = 0
      /\ row.amount = a
  BY <1>2 DEF Payment, Ids
<1>6. PICK pay : pay = Append(b.pay, row)
  OBVIOUS
<1>7. Grown(pay, b.pay, row) /\ pay \in PayTable
  BY <1>4, <1>5, <1>6, AppendGrows DEF PayTable
<1>8. PICK n \in Nat : n = Len(b.pay)
  BY <1>7 DEF Grown
<1>9. /\ DOMAIN b.pay = 1 .. n /\ DOMAIN pay = 1 .. (n + 1) /\ Len(pay) = n + 1
      /\ \A p \in 1 .. n : pay[p] = b.pay[p]
      /\ pay[n + 1] = row
  BY <1>7, <1>8 DEF Grown
<1>10. PICK c : c = [b EXCEPT !.pay = pay]
  OBVIOUS
<1>11. book' = Allocated(c)
  BY <1>3, <1>6, <1>10
<1>12. /\ c \in Book /\ c.inv = b.inv /\ c.sub = b.sub /\ c.pay = pay /\ c.memo = b.memo
       /\ c.refund = b.refund /\ c.prop = b.prop
  <2>1. /\ [b EXCEPT !.pay = pay] \in Book
        /\ [b EXCEPT !.pay = pay].pay = pay
        /\ [b EXCEPT !.pay = pay].sub = b.sub
        /\ [b EXCEPT !.pay = pay].inv = b.inv
        /\ [b EXCEPT !.pay = pay].memo = b.memo
        /\ [b EXCEPT !.pay = pay].refund = b.refund
        /\ [b EXCEPT !.pay = pay].prop = b.prop
    BY <1>4, <1>7, BookParts
  <2> QED
    BY <1>10, <2>1, Zenon
<1>13. PICK I : I = DOMAIN b.inv
  OBVIOUS
<1>14. /\ \A i \in Ids : Paid(pay, i) = Paid(b.pay, i)
       /\ \A p \in DOMAIN b.pay : Left(pay, I, p) = Left(b.pay, I, p)
       /\ Left(pay, I, n + 1) = a
  <2>1. I \subseteq Ids
    BY <1>4, <1>13
  <2> QED
    BY <1>4, <1>5, <1>7, <1>8, <2>1, PaymentAdded
<1>15. /\ \A i \in DOMAIN b.inv : /\ PaidAmount(c, i) = PaidAmount(b, i)
                                  /\ Balance(c, i) = Balance(b, i)
       /\ \A i : Refunded(c, i) = Refunded(b, i)
       /\ \A m : RefundedOn(c, m) = RefundedOn(b, m)
  <2>1. /\ \A i : Credited(c, i) = Credited(b, i) /\ Refunded(c, i) = Refunded(b, i)
        /\ \A m : RefundedOn(c, m) = RefundedOn(b, m)
    BY <1>12, Money
  <2>2. \A i \in DOMAIN b.inv : PaidAmount(c, i) = PaidAmount(b, i)
    BY <1>4, <1>12, <1>14, Money
  <2>3. \A i \in DOMAIN b.inv : Balance(c, i) = Balance(b, i)
    BY <2>1, <2>2 DEF Balance
  <2> QED
    BY <2>1, <2>2, <2>3
<1>16. \A p \in DOMAIN c.pay : Available(c, p) >= 0
  <2>1. \A p : Available(c, p) = Left(pay, I, p) /\ Available(b, p) = Left(b.pay, I, p)
    BY <1>12, <1>13, Money
  <2>2. \A p \in 1 .. n : Available(c, p) >= 0
    BY <1>3, <1>9, <1>14, <2>1 DEF Sound
  <2>3. Available(c, n + 1) >= 0
    BY <1>14, <2>1, Constants
  <2>4. \A p \in 1 .. (n + 1) : p \in 1 .. n \/ p = n + 1
    OBVIOUS
  <2> QED
    BY <1>9, <1>12, <2>2, <2>3, <2>4, Zenon
<1>17. Sound(c)
  <2>1. \A p \in DOMAIN c.pay : \A j \in Ids : j \notin DOMAIN c.inv => c.pay[p].applied[j] = 0
    <3>1. \A p \in 1 .. n : \A j \in Ids : j \notin DOMAIN b.inv => pay[p].applied[j] = 0
      BY <1>3, <1>9 DEF Sound
    <3>2. \A p \in 1 .. (n + 1) : p \in 1 .. n \/ p = n + 1
      OBVIOUS
    <3> QED
      BY <1>5, <1>9, <1>12, <3>1, <3>2, Zenon
  <2>2. \A i \in DOMAIN c.inv : PaidAmount(c, i) <= Price
    BY <1>3, <1>12, <1>15 DEF Sound
  <2>3. /\ Len(c.inv) <= MaxInvoices
        /\ \A i \in DOMAIN c.inv : c.inv[i].start < MaxMonths + i
        /\ \A m \in DOMAIN c.memo : /\ c.memo[m].invoice \in DOMAIN c.inv
                                    /\ RefundedOn(c, m) <= c.memo[m].amount
        /\ \A r \in DOMAIN c.refund : c.refund[r].memo \in DOMAIN c.memo
    BY <1>3, <1>12, <1>15 DEF Sound
  <2> QED
    BY <1>12, <1>16, <2>1, <2>2, <2>3 DEF Sound
<1>18. Ready(c)
  <2>1. Follows(c, now) /\ Served(c)
    <3>1. \A x : InForce(c, x) = InForce(b, x) /\ InvoicesOf(c, x) = InvoicesOf(b, x)
      BY <1>12, Zenon DEF InForce, InvoicesOf
    <3> QED
      BY <1>3, <1>12, <3>1 DEF Follows, Served
  <2>2. \A s \in Subscriptions : c.sub[s].activated # Never => c.sub[s].paidUntil = Cursor(c, s)
    <3>1. \A s \in Subscriptions : Cursor(c, s) = Cursor(b, s)
      BY <1>12, <1>15, CursorSame
    <3> QED
      BY <1>3, <1>12, <3>1 DEF Kept
  <2>3. \A i \in DOMAIN c.inv : i \notin OpenInvoices(c) => Balance(c, i) <= 0
    <3>1. \A i \in DOMAIN b.inv : b.inv[i].status = StatusFor(b, i)
      BY <1>3 DEF Kept
    <3> QED
      BY <1>12, <1>15, <3>1 DEF OpenInvoices, StatusFor
  <2>4. \A i \in DOMAIN c.inv : Refunded(c, i) > 0 => Balance(c, i) <= 0
    BY <1>3, <1>12, <1>15 DEF Kept
  <2> QED
    BY <1>17, <2>1, <2>2, <2>3, <2>4 DEF Ready
<1>19. Kept(Allocated(c), now) /\ Distributes(c, Allocated(c))
  BY <1>3, <1>18, AllocatedKeeps
<1>20. Bounded(Allocated(c))
  <2>1. Len(pay) <= MaxPayments
    BY <1>3, <1>8, <1>9, BillingAssumption
  <2> QED
    BY <1>3, <1>12, <1>19, <2>1 DEF Bounded, Distributes
<1> QED
  BY <1>3, <1>11, <1>19, <1>20 DEF BillingInvariant

\* A book that is kept but for the cursors of S is kept when S is refreshed.
LEMMA RefreshedKept ==
  ASSUME NEW b, NEW S, NEW c, Refreshes(b, c, S),
         \A s \in Subscriptions : s \notin S /\ b.sub[s].activated # Never =>
           b.sub[s].paidUntil = Cursor(b, s),
         S \in SUBSET Subscriptions,
         \A i \in DOMAIN b.inv : b.inv[i].status = StatusFor(b, i),
         Credit(b) > 0 => OpenInvoices(b) = {},
         \A i \in DOMAIN b.inv : Refunded(b, i) > 0 => Balance(b, i) <= 0
  PROVE  /\ Kept(c, now)
         /\ Bounded(b) => Bounded(c)
<1>1. /\ Sound(c) /\ SameMoney(b, c) /\ c.inv = b.inv /\ Len(c.prop) = Len(b.prop)
      /\ Follows(c, now) /\ Served(c)
  BY DEF Refreshes
<1>2. /\ \A i : /\ Refunded(c, i) = Refunded(b, i) /\ Balance(c, i) = Balance(b, i)
                /\ StatusFor(c, i) = StatusFor(b, i)
      /\ Credit(c) = Credit(b)
  BY <1>1, SameSums
<1>3. ASSUME NEW s \in Subscriptions, c.sub[s].activated # Never
      PROVE  c.sub[s].paidUntil = Cursor(c, s)
  <2>1. c.sub[s].activated = b.sub[s].activated
    BY DEF Refreshes
  <2>2. Cursor(c, s) = Cursor(b, s)
    BY <1>1, <1>2, <2>1, CursorSame
  <2>3. CASE s \in S
    BY <1>3, <2>1, <2>2, <2>3 DEF Refreshes
  <2>4. CASE s \notin S
    BY <1>3, <2>1, <2>2, <2>4 DEF Refreshes
  <2> QED
    BY <2>3, <2>4
<1>4. Credit(c) > 0 => OpenInvoices(c) = {}
  BY <1>1, <1>2 DEF OpenInvoices
<1>5. Kept(c, now)
  BY <1>1, <1>2, <1>3, <1>4 DEF Kept
<1>6. c.pay = b.pay /\ c.memo = b.memo /\ c.refund = b.refund
  BY <1>1 DEF SameMoney
<1> QED
  BY <1>1, <1>5, <1>6 DEF Bounded

\* A table given row by row.
LEMMA Rows ==
  ASSUME NEW T, NEW n \in Nat, NEW f \in [1 .. n -> T]
  PROVE  f \in Seq(T) /\ Len(f) = n
  OBVIOUS

\* c is b with a payment reversed and the invoices of A marked open.
Reopens(b, c, p, A) ==
  /\ c \in Book /\ c.sub = b.sub /\ c.memo = b.memo /\ c.refund = b.refund /\ c.prop = b.prop
  /\ DOMAIN c.inv = DOMAIN b.inv /\ Len(c.inv) = Len(b.inv)
  /\ \A i \in DOMAIN b.inv : /\ c.inv[i].sub = b.inv[i].sub /\ c.inv[i].start = b.inv[i].start
                             /\ i \in A => c.inv[i].status = "open"
                             /\ i \notin A => c.inv[i].status = b.inv[i].status
  /\ Reverses(c.pay, b.pay, p) /\ Len(c.pay) = Len(b.pay)
  /\ c.pay[p].applied = b.pay[p].applied

\* The row of a payment that is reversed.
LEMMA RowReversed ==
  ASSUME NEW old \in PayTable, NEW p \in DOMAIN old, ~old[p].reversed,
         NEW new, new = [old EXCEPT ![p].reversed = TRUE]
  PROVE  /\ Reverses(new, old, p) /\ new \in PayTable /\ Len(new) = Len(old)
         /\ new[p].applied = old[p].applied
<1>1. PICK row : row = [old[p] EXCEPT !.reversed = TRUE]
  OBVIOUS
<1>2. row \in Payment /\ row.reversed /\ row.applied = old[p].applied
  <2>1. old[p] \in Payment
    BY PayRows
  <2> QED
    BY <1>1, <2>1 DEF Payment
<1>3. new = [old EXCEPT ![p] = row]
  BY <1>1, Zenon
<1>4. /\ [old EXCEPT ![p] = row] \in PayTable /\ Len([old EXCEPT ![p] = row]) = Len(old)
      /\ DOMAIN old = 1 .. Len(old)
      /\ \A q \in DOMAIN old : [old EXCEPT ![p] = row][q] = IF q = p THEN row ELSE old[q]
  BY <1>2, PayRows
<1>5. /\ new \in PayTable /\ Len(new) = Len(old) /\ DOMAIN old = 1 .. Len(old)
      /\ \A q \in DOMAIN old : new[q] = IF q = p THEN row ELSE old[q]
  BY <1>3, <1>4, Zenon
<1>6. DOMAIN new = DOMAIN old
  <2>1. DOMAIN new = 1 .. Len(new)
    BY <1>5, PayRows
  <2> QED
    BY <1>5, <2>1
<1>7. new[p] = row /\ \A q \in DOMAIN old : q # p => new[q] = old[q]
  BY <1>5
<1> QED
  BY <1>2, <1>5, <1>6, <1>7 DEF Reverses

\* A reversal marks the payment and reopens its invoices.
LEMMA Reopening ==
  ASSUME NEW b, Sound(b), NEW p \in DOMAIN b.pay, ~b.pay[p].reversed, NEW A,
         NEW c, c = [b EXCEPT !.pay[p].reversed = TRUE,
                       !.inv = [i \in DOMAIN @ |-> IF i \in A THEN [@[i] EXCEPT !.status = "open"]
                                                              ELSE @[i]]]
  PROVE  Reopens(b, c, p, A)
<1>2. /\ b \in Book /\ b.pay \in PayTable /\ b.inv \in InvTable /\ b.memo \in MemoTable
      /\ b.refund \in RefundTable /\ DOMAIN b.inv \subseteq Ids
  BY SoundParts
<1>3. PICK pay : pay = [b.pay EXCEPT ![p].reversed = TRUE]
  OBVIOUS
<1>4. /\ Reverses(pay, b.pay, p) /\ pay \in PayTable /\ Len(pay) = Len(b.pay)
      /\ pay[p].applied = b.pay[p].applied
  BY <1>2, <1>3, RowReversed
<1>7. PICK inv : inv = [i \in DOMAIN b.inv |-> IF i \in A THEN [b.inv[i] EXCEPT !.status = "open"]
                                               ELSE b.inv[i]]
  OBVIOUS
<1>8. /\ DOMAIN inv = DOMAIN b.inv
      /\ \A i \in DOMAIN b.inv : /\ inv[i] \in Invoice
                                 /\ inv[i].sub = b.inv[i].sub /\ inv[i].start = b.inv[i].start
                                 /\ i \in A => inv[i].status = "open"
                                 /\ i \notin A => inv[i].status = b.inv[i].status
  <2>1. \A i \in DOMAIN b.inv : b.inv[i] \in Invoice
    BY <1>2, InvRows
  <2> QED
    BY <1>7, <2>1 DEF Invoice
<1>9. inv \in InvTable /\ Len(inv) = Len(b.inv)
  <2>1. DOMAIN b.inv = 1 .. Len(b.inv) /\ Len(b.inv) \in Nat
    BY <1>2, InvRows
  <2>2. inv \in [1 .. Len(b.inv) -> Invoice]
    BY <1>7, <1>8, <2>1
  <2> QED
    BY <2>1, <2>2, Rows DEF InvTable
<1>10. PICK d : d = [b EXCEPT !.pay = pay]
  OBVIOUS
<1>11. c = [d EXCEPT !.inv = inv]
  BY <1>3, <1>7, <1>10, <1>2, Zenon DEF Book
<1>12. /\ d \in Book /\ d.inv = b.inv /\ d.sub = b.sub /\ d.pay = pay /\ d.memo = b.memo
       /\ d.refund = b.refund /\ d.prop = b.prop
  <2>1. /\ [b EXCEPT !.pay = pay] \in Book
        /\ [b EXCEPT !.pay = pay].pay = pay
        /\ [b EXCEPT !.pay = pay].sub = b.sub
        /\ [b EXCEPT !.pay = pay].inv = b.inv
        /\ [b EXCEPT !.pay = pay].memo = b.memo
        /\ [b EXCEPT !.pay = pay].refund = b.refund
        /\ [b EXCEPT !.pay = pay].prop = b.prop
    BY <1>2, <1>4, BookParts
  <2> QED
    BY <1>10, <2>1, Zenon
<1>13. /\ c \in Book /\ c.inv = inv /\ c.sub = b.sub /\ c.pay = pay /\ c.memo = b.memo
       /\ c.refund = b.refund /\ c.prop = b.prop
  <2>1. /\ [d EXCEPT !.inv = inv] \in Book
        /\ [d EXCEPT !.inv = inv].pay = d.pay
        /\ [d EXCEPT !.inv = inv].sub = d.sub
        /\ [d EXCEPT !.inv = inv].inv = inv
        /\ [d EXCEPT !.inv = inv].memo = d.memo
        /\ [d EXCEPT !.inv = inv].refund = d.refund
        /\ [d EXCEPT !.inv = inv].prop = d.prop
    BY <1>9, <1>12, BookParts
  <2> QED
    BY <1>11, <1>12, <2>1, Zenon
<1> QED
  BY <1>4, <1>8, <1>9, <1>13 DEF Reopens

\* The book is ready then: who loses a month has an open invoice.
LEMMA ReopenedReady ==
  ASSUME NEW b, Kept(b, now), NEW c, NEW p, NEW A, Reopens(b, c, p, A), A \subseteq DOMAIN b.inv,
         \A i \in DOMAIN b.inv : i \notin A => ~(b.pay[p].applied[i] > 0),
         \A r \in DOMAIN b.refund : b.memo[b.refund[r].memo].invoice \notin A
  PROVE  /\ Ready(c) /\ c.sub = b.sub
         /\ Bounded(b) => Bounded(c)
<1>1. /\ Sound(b) /\ Follows(b, now) /\ Served(b)
  BY DEF Kept
<1>2. /\ b \in Book /\ b.pay \in PayTable /\ b.inv \in InvTable /\ b.memo \in MemoTable
      /\ b.refund \in RefundTable /\ DOMAIN b.inv \subseteq Ids
  BY <1>1, SoundParts
<1>3. PICK pay : pay = c.pay
  OBVIOUS
<1>4. PICK inv : inv = c.inv
  OBVIOUS
<1>6. /\ pay \in PayTable /\ Len(pay) = Len(b.pay) /\ DOMAIN pay = DOMAIN b.pay
      /\ \A q \in DOMAIN b.pay : pay[q].applied = b.pay[q].applied
      /\ Reverses(pay, b.pay, p)
  <2>1. Reverses(pay, b.pay, p) /\ Len(pay) = Len(b.pay) /\ pay[p].applied = b.pay[p].applied
    BY <1>3 DEF Reopens
  <2> QED
    BY <2>1 DEF Reverses
<1>8. /\ DOMAIN inv = DOMAIN b.inv /\ Len(inv) = Len(b.inv)
      /\ \A i \in DOMAIN b.inv : /\ inv[i].sub = b.inv[i].sub /\ inv[i].start = b.inv[i].start
                                 /\ i \in A => inv[i].status = "open"
                                 /\ i \notin A => inv[i].status = b.inv[i].status
  BY <1>4 DEF Reopens
<1>13. /\ c \in Book /\ c.inv = inv /\ c.sub = b.sub /\ c.pay = pay /\ c.memo = b.memo
       /\ c.refund = b.refund /\ c.prop = b.prop
  BY <1>3, <1>4 DEF Reopens
<1>14. PICK I : I = DOMAIN b.inv
  OBVIOUS
<1>15. /\ \A i \in Ids : /\ b.pay[p].applied[i] \in Nat
                         /\ Paid(pay, i) = Paid(b.pay, i) - b.pay[p].applied[i]
       /\ \A q \in DOMAIN b.pay : Left(pay, I, q) = IF q = p THEN 0 ELSE Left(b.pay, I, q)
  <2>1. Reverses(pay, b.pay, p)
    BY <1>6
  <2> QED
    BY <2>1, PaymentReversed
<1>16. /\ \A i : Credited(c, i) = Credited(b, i) /\ Refunded(c, i) = Refunded(b, i)
       /\ \A m : RefundedOn(c, m) = RefundedOn(b, m)
  BY <1>13, Money
<1>17. \A i \in I : /\ b.pay[p].applied[i] \in Nat /\ PaidAmount(b, i) \in Nat
                    /\ PaidAmount(c, i) = PaidAmount(b, i) - b.pay[p].applied[i]
  <2>1. \A i : PaidAmount(c, i) = Paid(pay, i) /\ PaidAmount(b, i) = Paid(b.pay, i)
    BY <1>13, Money
  <2>2. \A i \in I : PaidAmount(b, i) \in Nat
    BY <1>1, <1>2, <1>14, Amount
  <2> QED
    BY <1>2, <1>14, <1>15, <2>1, <2>2
<1>18. \A i \in I : i \notin A => Balance(c, i) = Balance(b, i)
  <2>1. \A i \in I : i \notin A => PaidAmount(c, i) = PaidAmount(b, i)
    <3>1. \A i \in I : i \notin A => b.pay[p].applied[i] = 0
      BY <1>14, <1>17
    <3> QED
      BY <1>17, <3>1
  <2> QED
    BY <1>16, <2>1 DEF Balance
<1>19. Sound(c)
  <2>1. \A q \in DOMAIN c.pay : \A j \in Ids : j \notin DOMAIN c.inv => c.pay[q].applied[j] = 0
    <3>1. \A q \in DOMAIN b.pay : \A j \in Ids : j \notin DOMAIN b.inv => b.pay[q].applied[j] = 0
      BY <1>1 DEF Sound
    <3> QED
      BY <1>6, <1>8, <1>13, <3>1
  <2>2. \A q \in DOMAIN c.pay : Available(c, q) >= 0
    <3>1. \A q : Available(c, q) = Left(pay, I, q) /\ Available(b, q) = Left(b.pay, I, q)
      BY <1>8, <1>13, <1>14, Money
    <3>2. \A q \in DOMAIN b.pay : Available(b, q) >= 0
      BY <1>1 DEF Sound
    <3> QED
      BY <1>6, <1>13, <1>15, <3>1, <3>2
  <2>3. \A i \in DOMAIN c.inv : PaidAmount(c, i) <= Price
    <3>1. \A i \in I : PaidAmount(b, i) <= Price
      BY <1>1, <1>14 DEF Sound
    <3> QED
      BY <1>8, <1>13, <1>14, <1>17, <3>1, Constants
  <2>4. /\ Len(c.inv) <= MaxInvoices
        /\ \A i \in DOMAIN c.inv : c.inv[i].start < MaxMonths + i
        /\ \A m \in DOMAIN c.memo : /\ c.memo[m].invoice \in DOMAIN c.inv
                                    /\ RefundedOn(c, m) <= c.memo[m].amount
        /\ \A r \in DOMAIN c.refund : c.refund[r].memo \in DOMAIN c.memo
    BY <1>1, <1>8, <1>13, <1>16 DEF Sound
  <2> QED
    BY <1>13, <2>1, <2>2, <2>3, <2>4 DEF Sound
<1>20. Follows(c, now) /\ Served(c)
  <2>1. \A x : InForce(c, x) = InForce(b, x)
    BY <1>13, Zenon DEF InForce
  <2>2. \A x : InvoicesOf(c, x) = InvoicesOf(b, x)
    BY <1>8, <1>13 DEF InvoicesOf
  <2> QED
    BY <1>1, <1>13, <2>1, <2>2 DEF Follows, Served
<1>21. ASSUME NEW s \in Subscriptions, c.sub[s].activated # Never
       PROVE  \/ c.sub[s].paidUntil = Cursor(c, s)
              \/ \E i \in OpenInvoices(c) : c.inv[i].sub = s
  <2>1. CASE \E i \in A : b.inv[i].sub = s
    <3>1. PICK i \in A : b.inv[i].sub = s
      BY <2>1
    <3>2. i \in DOMAIN b.inv
      OBVIOUS
    <3>3. i \in OpenInvoices(c) /\ c.inv[i].sub = s
      BY <1>8, <1>13, <3>1, <3>2 DEF OpenInvoices
    <3> QED
      BY <3>3
  <2>2. CASE \A i \in A : b.inv[i].sub # s
    <3>1. \A i \in DOMAIN b.inv : b.inv[i].sub = s => Balance(c, i) = Balance(b, i)
      BY <1>14, <1>18, <2>2
    <3>2. Cursor(c, s) = Cursor(b, s)
      BY <1>8, <1>13, <3>1, CursorSame
    <3> QED
      BY <1>13, <1>21, <3>2 DEF Kept
  <2> QED
    BY <2>1, <2>2
<1>22. \A i \in DOMAIN c.inv : i \notin OpenInvoices(c) => Balance(c, i) <= 0
  <2>1. \A i \in DOMAIN b.inv : b.inv[i].status = StatusFor(b, i)
    BY DEF Kept
  <2>2. \A i \in DOMAIN b.inv : b.inv[i].status # "open" => Balance(b, i) <= 0
    BY <2>1 DEF StatusFor
  <2>3. \A i \in DOMAIN c.inv : i \notin OpenInvoices(c) => c.inv[i].status # "open"
    BY DEF OpenInvoices
  <2> QED
    BY <1>8, <1>13, <1>14, <1>18, <2>2, <2>3
<1>23. \A i \in DOMAIN c.inv : Refunded(c, i) > 0 => Balance(c, i) <= 0
  <2>1. ASSUME NEW i \in I, Refunded(c, i) > 0
        PROVE  i \notin A
    <3>1. RefundsFor(b.memo, b.refund, i) # 0
      BY <1>16, <2>1, Money
    <3>2. PICK m \in DOMAIN b.memo : b.memo[m].invoice = i /\ RefundsOn(b.refund, m) # 0
      BY <1>2, <3>1, RefundsForAreNatural
    <3>3. PICK r \in DOMAIN b.refund : b.refund[r].memo = m
      BY <1>2, <3>2, RefundsAreNatural
    <3> QED
      BY <3>2, <3>3
  <2>2. \A i \in I : Refunded(b, i) > 0 => Balance(b, i) <= 0
    BY <1>14 DEF Kept
  <2> QED
    BY <1>8, <1>13, <1>14, <1>16, <1>18, <2>1, <2>2
<1>24. Ready(c)
  BY <1>19, <1>20, <1>21, <1>22, <1>23 DEF Ready
<1>25. Bounded(b) => Bounded(c)
  BY <1>6, <1>13 DEF Bounded
<1> QED
  BY <1>13, <1>24, <1>25

\* reverse_payment.
LEMMA ReversedKept ==
  ASSUME BillingInvariant, NEW p \in DOMAIN book.pay, ReversePayment(p)
  PROVE  BillingInvariant'
<1>1. PICK b : b = book
  OBVIOUS
<1>2. PICK A : A = AppliedBy(p)
  OBVIOUS
<1>3. A = {i \in DOMAIN b.inv : b.pay[p].applied[i] > 0}
  BY <1>1, <1>2 DEF AppliedBy
<1>4. PICK c : c = [b EXCEPT !.pay[p].reversed = TRUE,
                      !.inv = [i \in DOMAIN @ |-> IF i \in A THEN [@[i] EXCEPT !.status = "open"]
                                                             ELSE @[i]]]
  OBVIOUS
<1>5. PICK S : S = {b.inv[i].sub : i \in A}
  OBVIOUS
<1>6. /\ Kept(b, now) /\ Bounded(b) /\ now \in 0 .. MaxMonths /\ now \in Nat /\ Sound(b)
      /\ p \in DOMAIN b.pay /\ ~b.pay[p].reversed /\ now' = now
  BY <1>1, Constants DEF BillingInvariant, ReversePayment, Kept
<1>7. book' = RefreshedAll(Allocated(c), S)
  BY <1>1, <1>2, <1>4, <1>5, Zenon DEF ReversePayment, Reopened
<1>8. \A r \in DOMAIN b.refund : b.memo[b.refund[r].memo].invoice \notin A
  <2>1. ~DrawnOn(p)
    BY DEF ReversePayment
  <2> QED
    BY <1>1, <1>2, <2>1, Zenon DEF DrawnOn
<1>9. Ready(c) /\ c.sub = b.sub /\ Bounded(c)
  <2>1. Reopens(b, c, p, A)
    BY <1>4, <1>6, Reopening
  <2> QED
    BY <1>3, <1>6, <1>8, <2>1, ReopenedReady
<1>10. PICK d : d = Allocated(c)
  OBVIOUS
<1>11. Kept(d, now) /\ Bounded(d)
  <2>1. Kept(d, now) /\ Distributes(c, d)
    BY <1>6, <1>9, <1>10, AllocatedKeeps
  <2> QED
    BY <1>9, <2>1 DEF Bounded, Distributes
<1>12. S \in SUBSET Subscriptions /\ IsFiniteSet(S)
  <2>1. b.inv \in InvTable
    BY <1>6, SoundParts
  <2>2. IsFiniteSet(A) /\ \A i \in A : b.inv[i] \in Invoice
    BY <1>3, <2>1, InvRows, FS_Subset
  <2>3. IsFiniteSet(S)
    BY <1>5, <2>2, SubsAreFinite
  <2> QED
    BY <1>5, <2>2, <2>3 DEF Invoice
<1>13. Refreshes(d, RefreshedAll(d, S), S)
  BY <1>6, <1>11, <1>12, AllRefreshed DEF Kept
<1>14. Kept(RefreshedAll(d, S), now) /\ Bounded(RefreshedAll(d, S))
  BY <1>11, <1>12, <1>13, RefreshedKept DEF Kept
<1> QED
  BY <1>6, <1>7, <1>10, <1>14 DEF BillingInvariant

\* c is b with a credit memo of a on the invoice i.
Credits(b, c, i, a) ==
  /\ Sound(c) /\ c.sub = b.sub /\ c.inv = b.inv /\ c.pay = b.pay /\ c.refund = b.refund
  /\ c.prop = b.prop /\ Len(c.memo) = Len(b.memo) + 1
  /\ Credit(c) = Credit(b)
  /\ \A j \in DOMAIN b.inv : /\ Refunded(c, j) = Refunded(b, j)
                             /\ Balance(b, j) \in Int
                             /\ Balance(c, j) = Balance(b, j) - (IF i = j THEN a ELSE 0)

\* A memo takes its amount off the balance of its invoice only.
LEMMA MemoCredits ==
  ASSUME NEW b, Sound(b), NEW i \in DOMAIN b.inv, NEW a \in Amounts,
         NEW c, c = [b EXCEPT !.memo = Append(@, [invoice |-> i, amount |-> a])]
  PROVE  Credits(b, c, i, a)
<1>1. /\ b \in Book /\ b.inv \in InvTable /\ b.memo \in MemoTable /\ b.refund \in RefundTable
      /\ b.pay \in PayTable /\ DOMAIN b.inv \subseteq Ids
  BY SoundParts
<1>2. PICK row : row = [invoice |-> i, amount |-> a]
  OBVIOUS
<1>3. row \in Memo /\ row.invoice = i /\ row.amount = a /\ a \in Nat
  <2>1. i \in 1 .. MaxInvoices
    BY <1>1 DEF Ids
  <2> QED
    BY <1>2, <2>1, Constants DEF Memo
<1>4. PICK memo : memo = Append(b.memo, row)
  OBVIOUS
<1>5. Grown(memo, b.memo, row) /\ memo \in MemoTable
  BY <1>1, <1>3, <1>4, AppendGrows DEF MemoTable
<1>6. PICK n \in Nat : n = Len(b.memo)
  BY <1>5 DEF Grown
<1>7. /\ DOMAIN b.memo = 1 .. n /\ DOMAIN memo = 1 .. (n + 1) /\ Len(memo) = n + 1
      /\ \A m \in 1 .. n : memo[m] = b.memo[m]
      /\ memo[n + 1] = row
  BY <1>5, <1>6 DEF Grown
<1>8. c = [b EXCEPT !.memo = memo]
  BY <1>2, <1>4, Zenon
<1>9. /\ c \in Book /\ c.inv = b.inv /\ c.sub = b.sub /\ c.pay = b.pay /\ c.memo = memo
      /\ c.refund = b.refund /\ c.prop = b.prop
  <2>1. /\ [b EXCEPT !.memo = memo] \in Book
        /\ [b EXCEPT !.memo = memo].pay = b.pay
        /\ [b EXCEPT !.memo = memo].sub = b.sub
        /\ [b EXCEPT !.memo = memo].inv = b.inv
        /\ [b EXCEPT !.memo = memo].memo = memo
        /\ [b EXCEPT !.memo = memo].refund = b.refund
        /\ [b EXCEPT !.memo = memo].prop = b.prop
    BY <1>1, <1>5, BookParts
  <2> QED
    BY <1>8, <2>1, Zenon
<1>10. /\ \A j : MemosOn(memo, j) = MemosOn(b.memo, j) + (IF i = j THEN a ELSE 0)
       /\ \A j : RefundsFor(memo, b.refund, j) = RefundsFor(b.memo, b.refund, j)
       /\ RefundsOn(b.refund, n + 1) = 0
  <2>1. \A r \in DOMAIN b.refund : b.refund[r].memo \in DOMAIN b.memo
    BY DEF Sound
  <2>2. /\ \A j : MemosOn(memo, j) = MemosOn(b.memo, j) + (IF row.invoice = j THEN row.amount ELSE 0)
        /\ \A j : RefundsFor(memo, b.refund, j) = RefundsFor(b.memo, b.refund, j)
        /\ RefundsOn(b.refund, Len(b.memo) + 1) = 0
    BY <1>1, <1>3, <1>5, <2>1, MemoAdded
  <2> QED
    BY <1>3, <1>6, <2>2
<1>11. /\ \A j : PaidAmount(c, j) = PaidAmount(b, j) /\ Refunded(c, j) = Refunded(b, j)
                 /\ Credited(c, j) = Credited(b, j) + (IF i = j THEN a ELSE 0)
       /\ \A p : Available(c, p) = Available(b, p)
       /\ Credit(c) = Credit(b)
       /\ \A m : RefundedOn(c, m) = RefundedOn(b, m)
       /\ RefundedOn(c, n + 1) = 0
  BY <1>9, <1>10, Money
<1>12. \A j \in DOMAIN b.inv :
         /\ Balance(b, j) \in Int
         /\ Balance(c, j) = Balance(b, j) - (IF i = j THEN a ELSE 0)
  <2>1. ASSUME NEW j \in DOMAIN b.inv
        PROVE  /\ Balance(b, j) \in Int
               /\ Balance(c, j) = Balance(b, j) - (IF i = j THEN a ELSE 0)
    <3>1. /\ PaidAmount(b, j) \in Nat /\ Credited(b, j) \in Nat /\ Refunded(b, j) \in Nat
          /\ Balance(b, j) \in Int
          /\ Balance(b, j) = Price - PaidAmount(b, j) - Credited(b, j) + Refunded(b, j)
      BY <1>1, Amount
    <3>2. Balance(c, j) = Price - PaidAmount(c, j) - Credited(c, j) + Refunded(c, j)
      BY DEF Balance
    <3>3. /\ PaidAmount(c, j) = PaidAmount(b, j) /\ Refunded(c, j) = Refunded(b, j)
          /\ Credited(c, j) = Credited(b, j) + (IF i = j THEN a ELSE 0)
      BY <1>11
    <3> QED
      BY <1>3, <3>1, <3>2, <3>3, Constants
  <2> QED
    BY <2>1
<1>13. Sound(c)
  <2>1. /\ Len(c.inv) <= MaxInvoices
        /\ \A j \in DOMAIN c.inv : c.inv[j].start < MaxMonths + j
        /\ \A p \in DOMAIN c.pay : \A j \in Ids : j \notin DOMAIN c.inv => c.pay[p].applied[j] = 0
        /\ \A p \in DOMAIN c.pay : Available(c, p) >= 0
        /\ \A j \in DOMAIN c.inv : PaidAmount(c, j) <= Price
    BY <1>9, <1>11 DEF Sound
  <2>2. \A m \in DOMAIN c.memo : /\ c.memo[m].invoice \in DOMAIN c.inv
                                 /\ RefundedOn(c, m) <= c.memo[m].amount
    <3>1. \A m \in 1 .. n : /\ memo[m].invoice \in DOMAIN b.inv
                            /\ RefundedOn(c, m) <= memo[m].amount
      BY <1>7, <1>11 DEF Sound
    <3>2. memo[n + 1].invoice \in DOMAIN b.inv /\ RefundedOn(c, n + 1) <= memo[n + 1].amount
      BY <1>3, <1>7, <1>11
    <3>3. \A m \in 1 .. (n + 1) : m \in 1 .. n \/ m = n + 1
      OBVIOUS
    <3> QED
      BY <1>7, <1>9, <3>1, <3>2, <3>3, Zenon
  <2>3. \A r \in DOMAIN c.refund : c.refund[r].memo \in DOMAIN c.memo
    <3>1. \A m : m \in 1 .. n => m \in 1 .. (n + 1)
      OBVIOUS
    <3>2. \A r \in DOMAIN b.refund : b.refund[r].memo \in 1 .. n
      BY <1>7 DEF Sound
    <3> QED
      BY <1>7, <1>9, <3>1, <3>2
  <2> QED
    BY <1>9, <2>1, <2>2, <2>3 DEF Sound
<1> QED
  BY <1>6, <1>7, <1>9, <1>11, <1>12, <1>13 DEF Credits

\* issue_credit_memo.
LEMMA CreditedKept ==
  ASSUME BillingInvariant, NEW i \in DOMAIN book.inv, NEW a \in Amounts, IssueMemo(i, a)
  PROVE  BillingInvariant'
<1>1. PICK b : b = book
  OBVIOUS
<1>2. PICK c : c = [b EXCEPT !.memo = Append(@, [invoice |-> i, amount |-> a])]
  OBVIOUS
<1>3. PICK e : e = [c EXCEPT !.inv[i].status = StatusFor(c, i)]
  OBVIOUS
<1>4. PICK s : s = c.inv[i].sub
  OBVIOUS
<1>5. /\ Kept(b, now) /\ Bounded(b) /\ now \in 0 .. MaxMonths /\ now \in Nat /\ Sound(b)
      /\ i \in DOMAIN b.inv /\ Len(b.memo) < MaxMemos
      /\ now' = now
  BY <1>1, Constants DEF BillingInvariant, IssueMemo, Kept
<1>6. book' = Refreshed(e, s)
  BY <1>1, <1>2, <1>3, <1>4, Zenon DEF IssueMemo
<1>7. Credits(b, c, i, a) /\ a \in Nat
  BY <1>2, <1>5, MemoCredits, Constants
<1>8. /\ Sound(c) /\ c.sub = b.sub /\ c.inv = b.inv /\ c.pay = b.pay /\ c.refund = b.refund
      /\ c.prop = b.prop /\ Len(c.memo) = Len(b.memo) + 1
      /\ Credit(c) = Credit(b)
      /\ \A j \in DOMAIN b.inv : /\ Refunded(c, j) = Refunded(b, j)
                                 /\ Balance(b, j) \in Int
                                 /\ Balance(c, j) = Balance(b, j) - (IF i = j THEN a ELSE 0)
  BY <1>7 DEF Credits
<1>9. StatusFor(c, i) \in {"open", "paid"}
  BY DEF StatusFor
<1>10. /\ Sound(e) /\ SameMoney(c, e) /\ e.sub = c.sub /\ e.prop = c.prop
       /\ e.inv[i].status = StatusFor(c, i)
       /\ \A j \in DOMAIN c.inv : j # i => e.inv[j] = c.inv[j]
  <2>1. i \in DOMAIN c.inv
    BY <1>5, <1>8
  <2> QED
    BY <1>3, <1>8, <1>9, <2>1, Marked
<1>11. /\ \A j : /\ Balance(e, j) = Balance(c, j) /\ Refunded(e, j) = Refunded(c, j)
                 /\ StatusFor(e, j) = StatusFor(c, j)
       /\ Credit(e) = Credit(c)
  BY <1>10, SameSums
<1>12. /\ DOMAIN e.inv = DOMAIN b.inv
       /\ \A j \in DOMAIN b.inv : e.inv[j].sub = b.inv[j].sub /\ e.inv[j].start = b.inv[j].start
  BY <1>8, <1>10 DEF SameMoney
<1>13. Follows(e, now) /\ Served(e)
  <2>1. \A x : InForce(e, x) = InForce(b, x)
    BY <1>8, <1>10, Zenon DEF InForce
  <2>2. \A x : InvoicesOf(e, x) = InvoicesOf(b, x)
    BY <1>12 DEF InvoicesOf
  <2>3. Follows(b, now) /\ Served(b)
    BY <1>5 DEF Kept
  <2> QED
    BY <1>8, <1>10, <2>1, <2>2, <2>3 DEF Follows, Served
<1>14. s \in Subscriptions /\ s = b.inv[i].sub
  <2>1. b.inv \in InvTable
    BY <1>5, SoundParts
  <2>2. b.inv[i] \in Invoice
    BY <1>5, <2>1, InvRows
  <2> QED
    BY <1>4, <1>8, <2>2 DEF Invoice
<1>15. PICK f : f = Refreshed(e, s)
  OBVIOUS
<1>16. Refreshes(e, f, {s})
  BY <1>5, <1>10, <1>13, <1>14, <1>15, RefreshedRefreshes
<1>17. ASSUME NEW x \in Subscriptions, x \notin {s}, e.sub[x].activated # Never
       PROVE  e.sub[x].paidUntil = Cursor(e, x)
  <2>1. \A j \in DOMAIN b.inv : b.inv[j].sub = x => Balance(e, j) = Balance(b, j)
    <3>1. \A j \in DOMAIN b.inv : b.inv[j].sub = x => i # j
      BY <1>14, <1>17
    <3> QED
      BY <1>8, <1>11, <3>1
  <2>2. Cursor(e, x) = Cursor(b, x)
    BY <1>8, <1>10, <1>12, <2>1, CursorSame
  <2> QED
    BY <1>5, <1>8, <1>10, <1>17, <2>2 DEF Kept
<1>18. \A j \in DOMAIN e.inv : e.inv[j].status = StatusFor(e, j)
  <2>1. ASSUME NEW j \in DOMAIN b.inv, j # i
        PROVE  e.inv[j].status = StatusFor(e, j)
    <3>1. Balance(e, j) = Balance(b, j)
      BY <1>8, <1>11, <2>1
    <3>2. StatusFor(e, j) = StatusFor(b, j)
      BY <3>1 DEF StatusFor
    <3> QED
      BY <1>5, <1>8, <1>10, <2>1, <3>2 DEF Kept
  <2> QED
    BY <1>10, <1>11, <1>12, <2>1
<1>19. Credit(e) > 0 => OpenInvoices(e) = {}
  <2>1. SUFFICES ASSUME Credit(e) > 0, NEW j \in DOMAIN b.inv
                 PROVE  e.inv[j].status # "open"
    BY <1>12 DEF OpenInvoices
  <2>2. OpenInvoices(b) = {}
    BY <1>5, <1>8, <1>11, <2>1 DEF Kept
  <2>3. b.inv[j].status # "open" /\ b.inv[j].status = StatusFor(b, j)
    BY <1>5, <2>2 DEF OpenInvoices, Kept
  <2>4. Balance(b, j) <= 0
    BY <2>3 DEF StatusFor
  <2>5. Balance(e, j) <= 0
    BY <1>7, <1>8, <1>11, <2>4
  <2> QED
    BY <1>12, <1>18, <2>5 DEF StatusFor
<1>20. \A j \in DOMAIN e.inv : Refunded(e, j) > 0 => Balance(e, j) <= 0
  <2>1. \A j \in DOMAIN b.inv : Refunded(b, j) > 0 => Balance(b, j) <= 0
    BY <1>5 DEF Kept
  <2> QED
    BY <1>7, <1>8, <1>11, <1>12, <2>1
<1>21. Bounded(e)
  <2>1. e.pay = b.pay /\ e.memo = c.memo /\ e.refund = b.refund /\ e.prop = b.prop
    BY <1>8, <1>10 DEF SameMoney
  <2>2. Len(c.memo) <= MaxMemos
    <3>1. Len(b.memo) \in Nat
      BY <1>5, SoundParts, MemoRows
    <3> QED
      BY <1>5, <1>8, <3>1, Constants
  <2> QED
    BY <1>5, <2>1, <2>2 DEF Bounded
<1>22. Kept(f, now) /\ Bounded(f)
  <2>1. {s} \in SUBSET Subscriptions
    BY <1>14
  <2> QED
    BY <1>16, <1>17, <1>18, <1>19, <1>20, <1>21, <2>1, RefreshedKept
<1> QED
  BY <1>5, <1>6, <1>15, <1>22 DEF BillingInvariant

\* refund_credit: no more than the credit of the invoice, so that it stays paid.
LEMMA RefundedKept ==
  ASSUME BillingInvariant, NEW m \in DOMAIN book.memo, NEW a \in Amounts, RefundMemo(m, a)
  PROVE  BillingInvariant'
<1>1. PICK b : b = book
  OBVIOUS
<1>2. PICK row : row = [memo |-> m, amount |-> a]
  OBVIOUS
<1>3. PICK i : i = b.memo[m].invoice
  OBVIOUS
<1>4. /\ Kept(b, now) /\ Bounded(b) /\ now \in 0 .. MaxMonths /\ now \in Nat /\ Sound(b)
      /\ m \in DOMAIN b.memo /\ Len(b.refund) < MaxRefunds
      /\ a <= b.memo[m].amount - RefundedOn(b, m)
      /\ a <= -Balance(b, i)
      /\ now' = now
  BY <1>1, <1>3, Constants DEF BillingInvariant, RefundMemo, Kept
<1>5. /\ b \in Book /\ b.inv \in InvTable /\ b.memo \in MemoTable /\ b.refund \in RefundTable
      /\ DOMAIN b.inv \subseteq Ids
  BY <1>4, SoundParts
<1>6. row \in Refund /\ row.memo = m /\ row.amount = a /\ a \in Nat /\ a > 0
  <2>1. Len(b.memo) <= MaxMemos /\ DOMAIN b.memo = 1 .. Len(b.memo) /\ Len(b.memo) \in Nat
    BY <1>4, <1>5, MemoRows DEF Bounded
  <2>2. m \in 1 .. MaxMemos
    BY <1>4, <2>1, Constants
  <2> QED
    BY <1>2, <2>2, Constants DEF Refund
<1>7. PICK refund : refund = Append(b.refund, row)
  OBVIOUS
<1>8. Grown(refund, b.refund, row) /\ refund \in RefundTable
  BY <1>5, <1>6, <1>7, AppendGrows DEF RefundTable
<1>9. PICK n \in Nat : n = Len(b.refund)
  BY <1>8 DEF Grown
<1>10. /\ DOMAIN b.refund = 1 .. n /\ DOMAIN refund = 1 .. (n + 1) /\ Len(refund) = n + 1
       /\ \A r \in 1 .. n : refund[r] = b.refund[r]
       /\ refund[n + 1] = row
  BY <1>8, <1>9 DEF Grown
<1>11. PICK c : c = [b EXCEPT !.refund = refund]
  OBVIOUS
<1>12. book' = c
  BY <1>1, <1>2, <1>7, <1>11, Zenon DEF RefundMemo
<1>13. /\ c \in Book /\ c.inv = b.inv /\ c.sub = b.sub /\ c.pay = b.pay /\ c.memo = b.memo
       /\ c.refund = refund /\ c.prop = b.prop
  <2>1. /\ [b EXCEPT !.refund = refund] \in Book
        /\ [b EXCEPT !.refund = refund].pay = b.pay
        /\ [b EXCEPT !.refund = refund].sub = b.sub
        /\ [b EXCEPT !.refund = refund].inv = b.inv
        /\ [b EXCEPT !.refund = refund].memo = b.memo
        /\ [b EXCEPT !.refund = refund].refund = refund
        /\ [b EXCEPT !.refund = refund].prop = b.prop
    BY <1>5, <1>8, BookParts
  <2> QED
    BY <1>11, <2>1, Zenon
<1>14. /\ \A k : RefundsOn(refund, k) = RefundsOn(b.refund, k) + (IF m = k THEN a ELSE 0)
       /\ \A j : RefundsFor(b.memo, refund, j) = RefundsFor(b.memo, b.refund, j)
                                                 + (IF i = j THEN a ELSE 0)
  <2>1. row.memo \in DOMAIN b.memo
    BY <1>4, <1>6
  <2>2. /\ \A k : RefundsOn(refund, k) = RefundsOn(b.refund, k) + (IF row.memo = k THEN row.amount ELSE 0)
        /\ \A j : RefundsFor(b.memo, refund, j) = RefundsFor(b.memo, b.refund, j)
                    + (IF b.memo[row.memo].invoice = j THEN row.amount ELSE 0)
    BY <1>5, <1>6, <1>8, <2>1, RefundAdded
  <2> QED
    BY <1>3, <1>6, <2>2
<1>15. /\ \A j : /\ PaidAmount(c, j) = PaidAmount(b, j) /\ Credited(c, j) = Credited(b, j)
                 /\ Refunded(c, j) = Refunded(b, j) + (IF i = j THEN a ELSE 0)
       /\ \A p : Available(c, p) = Available(b, p)
       /\ Credit(c) = Credit(b)
       /\ \A k : RefundedOn(c, k) = RefundedOn(b, k) + (IF m = k THEN a ELSE 0)
  BY <1>13, <1>14, Money
<1>16. \A j \in DOMAIN b.inv :
         /\ Balance(b, j) \in Int /\ Refunded(b, j) \in Nat
         /\ Balance(c, j) = Balance(b, j) + (IF i = j THEN a ELSE 0)
  <2>1. ASSUME NEW j \in DOMAIN b.inv
        PROVE  /\ Balance(b, j) \in Int /\ Refunded(b, j) \in Nat
               /\ Balance(c, j) = Balance(b, j) + (IF i = j THEN a ELSE 0)
    <3>1. /\ PaidAmount(b, j) \in Nat /\ Credited(b, j) \in Nat /\ Refunded(b, j) \in Nat
          /\ Balance(b, j) \in Int
          /\ Balance(b, j) = Price - PaidAmount(b, j) - Credited(b, j) + Refunded(b, j)
      BY <1>4, <1>5, Amount
    <3>2. Balance(c, j) = Price - PaidAmount(c, j) - Credited(c, j) + Refunded(c, j)
      BY DEF Balance
    <3> QED
      BY <1>6, <1>15, <3>1, <3>2, Constants
  <2> QED
    BY <2>1
<1>17. \A j \in DOMAIN b.inv : Balance(c, j) <= 0 <=> Balance(b, j) <= 0
  <2>1. ASSUME NEW j \in DOMAIN b.inv
        PROVE  Balance(c, j) <= 0 <=> Balance(b, j) <= 0
    <3>1. CASE i = j
      BY <1>4, <1>6, <1>16, <3>1
    <3>2. CASE i # j
      BY <1>16, <3>2
    <3> QED
      BY <3>1, <3>2
  <2> QED
    BY <2>1
<1>18. Sound(c)
  <2>1. /\ Len(c.inv) <= MaxInvoices
        /\ \A j \in DOMAIN c.inv : c.inv[j].start < MaxMonths + j
        /\ \A p \in DOMAIN c.pay : \A j \in Ids : j \notin DOMAIN c.inv => c.pay[p].applied[j] = 0
        /\ \A p \in DOMAIN c.pay : Available(c, p) >= 0
        /\ \A j \in DOMAIN c.inv : PaidAmount(c, j) <= Price
    BY <1>4, <1>13, <1>15 DEF Sound
  <2>2. \A k \in DOMAIN c.memo : /\ c.memo[k].invoice \in DOMAIN c.inv
                                 /\ RefundedOn(c, k) <= c.memo[k].amount
    <3>1. ASSUME NEW k \in DOMAIN b.memo
          PROVE  /\ b.memo[k].invoice \in DOMAIN b.inv
                 /\ RefundedOn(c, k) <= b.memo[k].amount
      <4>1. /\ b.memo[k].invoice \in DOMAIN b.inv /\ RefundedOn(b, k) <= b.memo[k].amount
        BY <1>4 DEF Sound
      <4>2. RefundedOn(b, k) \in Nat
        BY <1>5, Money, RefundsAreNatural
      <4>3. b.memo[k].amount \in Nat
        <5>1. b.memo[k] \in Memo
          BY <1>5, MemoRows
        <5> QED
          BY <5>1, Constants DEF Memo
      <4>4. CASE k = m
        BY <1>4, <1>6, <1>15, <4>1, <4>2, <4>3, <4>4
      <4>5. CASE k # m
        BY <1>15, <4>1, <4>2, <4>5
      <4> QED
        BY <4>4, <4>5
    <3> QED
      BY <1>13, <3>1
  <2>3. \A r \in DOMAIN c.refund : c.refund[r].memo \in DOMAIN c.memo
    <3>1. \A r \in 1 .. n : refund[r].memo \in DOMAIN b.memo
      BY <1>4, <1>10 DEF Sound
    <3>2. refund[n + 1].memo \in DOMAIN b.memo
      BY <1>4, <1>6, <1>10
    <3>3. \A r \in 1 .. (n + 1) : r \in 1 .. n \/ r = n + 1
      OBVIOUS
    <3> QED
      BY <1>10, <1>13, <3>1, <3>2, <3>3, Zenon
  <2> QED
    BY <1>13, <2>1, <2>2, <2>3 DEF Sound
<1>19. Kept(c, now)
  <2>1. Follows(c, now) /\ Served(c)
    <3>1. \A x : InForce(c, x) = InForce(b, x) /\ InvoicesOf(c, x) = InvoicesOf(b, x)
      BY <1>13, Zenon DEF InForce, InvoicesOf
    <3>2. Follows(b, now) /\ Served(b)
      BY <1>4 DEF Kept
    <3> QED
      BY <1>13, <3>1, <3>2 DEF Follows, Served
  <2>2. \A x \in Subscriptions : c.sub[x].activated # Never => c.sub[x].paidUntil = Cursor(c, x)
    <3>1. \A x \in Subscriptions : Cursor(c, x) = Cursor(b, x)
      BY <1>13, <1>17, CursorSame
    <3> QED
      BY <1>4, <1>13, <3>1 DEF Kept
  <2>3. \A j \in DOMAIN c.inv : c.inv[j].status = StatusFor(c, j)
    <3>1. \A j \in DOMAIN b.inv : StatusFor(c, j) = StatusFor(b, j)
      BY <1>17 DEF StatusFor
    <3> QED
      BY <1>4, <1>13, <3>1 DEF Kept
  <2>4. Credit(c) > 0 => OpenInvoices(c) = {}
    BY <1>4, <1>13, <1>15 DEF Kept, OpenInvoices
  <2>5. \A j \in DOMAIN c.inv : Refunded(c, j) > 0 => Balance(c, j) <= 0
    <3>1. ASSUME NEW j \in DOMAIN b.inv, Refunded(c, j) > 0
          PROVE  Balance(c, j) <= 0
      <4>1. CASE i = j
        BY <1>4, <1>6, <1>16, <4>1
      <4>2. CASE i # j
        <5>1. Refunded(b, j) > 0
          BY <1>15, <1>16, <3>1, <4>2
        <5> QED
          BY <1>4, <1>17, <5>1 DEF Kept
      <4> QED
        BY <4>1, <4>2
    <3> QED
      BY <1>13, <3>1
  <2> QED
    BY <1>18, <2>1, <2>2, <2>3, <2>4, <2>5 DEF Kept
<1>20. Bounded(c)
  <2>1. Len(refund) <= MaxRefunds
    BY <1>4, <1>9, <1>10, BillingAssumption
  <2> QED
    BY <1>4, <1>13, <2>1 DEF Bounded
<1> QED
  BY <1>4, <1>12, <1>19, <1>20 DEF BillingInvariant

\* A book is kept when subscriptions are rewritten but for what is derived.
LEMMA RewrittenKept ==
  ASSUME NEW b, Kept(b, now), NEW sub, NEW prop, NEW c, Rewritten(b, c, sub, prop),
         Follows(c, now),
         \A s \in Subscriptions :
           /\ sub[s].activated = b.sub[s].activated /\ sub[s].paidUntil = b.sub[s].paidUntil
           /\ sub[s].status \in {"active", "suspended"} =>
                b.sub[s].status \in {"active", "suspended"}
  PROVE  Kept(c, now)
<1>1. /\ Sound(c) /\ SameMoney(b, c) /\ c.inv = b.inv /\ c.sub = sub /\ c.prop = prop
  BY DEF Rewritten
<1>2. /\ \A i : /\ Refunded(c, i) = Refunded(b, i) /\ Balance(c, i) = Balance(b, i)
                /\ StatusFor(c, i) = StatusFor(b, i)
      /\ Credit(c) = Credit(b)
  BY <1>1, SameSums
<1>3. Served(c)
  <2>1. \A x : InvoicesOf(c, x) = InvoicesOf(b, x)
    BY <1>1, Zenon DEF InvoicesOf
  <2>2. Served(b)
    BY DEF Kept
  <2> QED
    BY <1>1, <2>1, <2>2 DEF Served
<1>4. \A s \in Subscriptions : c.sub[s].activated # Never => c.sub[s].paidUntil = Cursor(c, s)
  <2>1. \A s \in Subscriptions : Cursor(c, s) = Cursor(b, s)
    BY <1>1, <1>2, CursorSame
  <2> QED
    BY <1>1, <2>1 DEF Kept
<1>5. Credit(c) > 0 => OpenInvoices(c) = {}
  BY <1>1, <1>2 DEF OpenInvoices, Kept
<1> QED
  BY <1>1, <1>2, <1>3, <1>4, <1>5 DEF Kept

\* cancel_subscription.
LEMMA CancelledKept ==
  ASSUME BillingInvariant, NEW s \in Subscriptions, Cancel(s)
  PROVE  BillingInvariant'
<1>1. PICK b : b = book
  OBVIOUS
<1>2. /\ Kept(b, now) /\ Bounded(b) /\ now \in 0 .. MaxMonths /\ Sound(b) /\ Follows(b, now)
      /\ now' = now
  BY <1>1 DEF BillingInvariant, Cancel, Kept
<1>3. b.sub \in SubTable /\ b.prop \in PropTable /\ b \in Book
  BY <1>2, SoundParts
<1>4. PICK row : row = [b.sub[s] EXCEPT !.status = "cancelled"]
  OBVIOUS
<1>5. /\ row \in Subscription /\ row.status = "cancelled"
      /\ row.activated = b.sub[s].activated /\ row.paidUntil = b.sub[s].paidUntil
  <2>1. b.sub[s] \in Subscription
    BY <1>3, SubRows
  <2> QED
    BY <1>4, <2>1 DEF Subscription
<1>6. PICK sub : sub = [b.sub EXCEPT ![s] = row]
  OBVIOUS
<1>7. sub \in SubTable /\ \A x \in Subscriptions : sub[x] = IF x = s THEN row ELSE b.sub[x]
  BY <1>3, <1>5, <1>6, SubRows
<1>8. PICK c : c = [b EXCEPT !.sub = sub, !.prop = b.prop]
  OBVIOUS
<1>9. book' = c
  BY <1>1, <1>3, <1>4, <1>6, <1>8, Zenon DEF Book, Cancel
<1>10. Rewritten(b, c, sub, b.prop)
  BY <1>2, <1>3, <1>7, <1>8, Rewriting
<1>11. SameMoney(b, c) /\ c.inv = b.inv /\ c.sub = sub /\ c.prop = b.prop
  BY <1>10 DEF Rewritten
<1>12. Follows(c, now)
  <2>1. \A x : InForce(c, x) = InForce(b, x)
    BY <1>11, Zenon DEF InForce
  <2> QED
    BY <1>2, <1>5, <1>7, <1>11, <2>1 DEF Follows
<1>13. \A x \in Subscriptions :
         /\ sub[x].activated = b.sub[x].activated /\ sub[x].paidUntil = b.sub[x].paidUntil
         /\ sub[x].status \in {"active", "suspended"} => b.sub[x].status \in {"active", "suspended"}
  BY <1>5, <1>7
<1>14. Kept(c, now)
  BY <1>2, <1>10, <1>12, <1>13, RewrittenKept
<1>15. Bounded(c)
  BY <1>2, <1>11 DEF Bounded, SameMoney
<1> QED
  BY <1>2, <1>9, <1>14, <1>15 DEF BillingInvariant

\* Only proposals are written, and none comes into force.
LEMMA ProposalsKept ==
  ASSUME NEW b, Kept(b, now), Bounded(b), NEW prop \in PropTable, Len(prop) <= MaxProposals,
         NEW c, c = [b EXCEPT !.prop = prop], \A x : InForce(c, x) = InForce(b, x)
  PROVE  Kept(c, now) /\ Bounded(c)
<1>1. Sound(b) /\ Follows(b, now)
  BY DEF Kept
<1>2. b.sub \in SubTable /\ b \in Book
  BY <1>1, SoundParts
<1>3. c = [b EXCEPT !.sub = b.sub, !.prop = prop]
  BY <1>2, Zenon DEF Book
<1>4. Rewritten(b, c, b.sub, prop)
  BY <1>1, <1>2, <1>3, Rewriting
<1>5. SameMoney(b, c) /\ c.inv = b.inv /\ c.sub = b.sub /\ c.prop = prop
  BY <1>4 DEF Rewritten
<1>6. Follows(c, now)
  BY <1>1, <1>5 DEF Follows
<1>7. Kept(c, now)
  BY <1>4, <1>6, RewrittenKept
<1> QED
  BY <1>5, <1>7 DEF Bounded, SameMoney

\* propose_suspension.
LEMMA ProposedKept ==
  ASSUME BillingInvariant, NEW s \in Subscriptions, Propose(s)
  PROVE  BillingInvariant'
<1>1. PICK b : b = book
  OBVIOUS
<1>2. PICK row : row = [sub |-> s, snapshot |-> b.sub[s].paidUntil, state |-> "proposed"]
  OBVIOUS
<1>3. /\ Kept(b, now) /\ Bounded(b) /\ now \in 0 .. MaxMonths /\ Sound(b)
      /\ Len(b.prop) < MaxProposals /\ b.sub[s].status = "active"
      /\ now' = now
  BY <1>1 DEF BillingInvariant, Propose, Suspendable, Kept
<1>4. b.sub \in SubTable /\ b.prop \in PropTable /\ b \in Book
  BY <1>3, SoundParts
<1>5. row \in Proposal /\ row.state = "proposed"
  <2>1. b.sub[s].activated # Never /\ b.sub[s].paidUntil = Cursor(b, s)
    BY <1>3 DEF Kept, Served
  <2>2. b.sub[s] \in Subscription
    BY <1>4, SubRows
  <2>3. b.sub[s].activated \in 0 .. MaxMonths
    BY <2>1, <2>2 DEF Subscription
  <2>4. Cursor(b, s) \in Nat
    BY <2>3, CursorIsMonth
  <2> QED
    BY <1>2, <2>1, <2>4 DEF Proposal
<1>6. PICK prop : prop = Append(b.prop, row)
  OBVIOUS
<1>7. Grown(prop, b.prop, row) /\ prop \in PropTable
  BY <1>4, <1>5, <1>6, AppendGrows DEF PropTable
<1>8. PICK n \in Nat : n = Len(b.prop)
  BY <1>7 DEF Grown
<1>9. /\ DOMAIN b.prop = 1 .. n /\ DOMAIN prop = 1 .. (n + 1) /\ Len(prop) = n + 1
      /\ \A q \in 1 .. n : prop[q] = b.prop[q]
      /\ prop[n + 1] = row
  BY <1>7, <1>8 DEF Grown
<1>10. PICK c : c = [b EXCEPT !.prop = prop]
  OBVIOUS
<1>11. book' = c
  BY <1>1, <1>2, <1>6, <1>10, Zenon DEF Propose
<1>12. c.prop = prop
  BY <1>4, <1>7, <1>10, BookParts
<1>13. \A x : InForce(c, x) = InForce(b, x)
  <2>1. \A q \in 1 .. (n + 1) : q \in 1 .. n \/ q = n + 1
    OBVIOUS
  <2>2. \A q : q \in 1 .. n => q \in 1 .. (n + 1)
    OBVIOUS
  <2> QED
    BY <1>5, <1>9, <1>12, <2>1, <2>2 DEF InForce
<1>14. Len(prop) <= MaxProposals
  BY <1>3, <1>8, <1>9, BillingAssumption
<1>15. Kept(c, now) /\ Bounded(c)
  BY <1>3, <1>7, <1>10, <1>13, <1>14, ProposalsKept
<1> QED
  BY <1>3, <1>11, <1>15 DEF BillingInvariant

\* A proposal gets another state.
LEMMA Decided ==
  ASSUME NEW old \in PropTable, NEW q \in DOMAIN old,
         NEW state \in {"proposed", "rejected", "approved", "blocked", "applied", "released"},
         NEW new, new = [old EXCEPT ![q].state = state]
  PROVE  /\ new \in PropTable /\ Len(new) = Len(old) /\ DOMAIN new = DOMAIN old
         /\ new[q].state = state /\ new[q].sub = old[q].sub
         /\ \A k \in DOMAIN old : k # q => new[k] = old[k]
<1>1. PICK row : row = [old[q] EXCEPT !.state = state]
  OBVIOUS
<1>2. row \in Proposal /\ row.state = state /\ row.sub = old[q].sub
  <2>1. old[q] \in Proposal
    BY PropRows
  <2> QED
    BY <1>1, <2>1 DEF Proposal
<1>3. new = [old EXCEPT ![q] = row]
  BY <1>1, Zenon
<1>4. /\ [old EXCEPT ![q] = row] \in PropTable /\ Len([old EXCEPT ![q] = row]) = Len(old)
      /\ DOMAIN old = 1 .. Len(old)
      /\ \A k \in DOMAIN old : [old EXCEPT ![q] = row][k] = IF k = q THEN row ELSE old[k]
  BY <1>2, PropRows
<1>5. /\ new \in PropTable /\ Len(new) = Len(old) /\ DOMAIN old = 1 .. Len(old)
      /\ \A k \in DOMAIN old : new[k] = IF k = q THEN row ELSE old[k]
  BY <1>3, <1>4, Zenon
<1>6. DOMAIN new = DOMAIN old
  <2>1. DOMAIN new = 1 .. Len(new)
    BY <1>5, PropRows
  <2> QED
    BY <1>5, <2>1
<1> QED
  BY <1>2, <1>5, <1>6

\* A proposal is decided, or blocked, without coming into force.
LEMMA StateKept ==
  ASSUME NEW b, Kept(b, now), Bounded(b), NEW q \in DOMAIN b.prop, b.prop[q].state # "applied",
         NEW state \in {"rejected", "approved", "blocked"},
         NEW c, c = [b EXCEPT !.prop[q].state = state]
  PROVE  Kept(c, now) /\ Bounded(c)
<1>1. Sound(b)
  BY DEF Kept
<1>2. b \in Book /\ b.prop \in PropTable
  BY <1>1, SoundParts
<1>3. PICK prop : prop = [b.prop EXCEPT ![q].state = state]
  OBVIOUS
<1>4. /\ prop \in PropTable /\ Len(prop) = Len(b.prop) /\ DOMAIN prop = DOMAIN b.prop
      /\ prop[q].state = state
      /\ \A k \in DOMAIN b.prop : k # q => prop[k] = b.prop[k]
  BY <1>2, <1>3, Decided
<1>5. c = [b EXCEPT !.prop = prop]
  BY <1>3, Zenon
<1>6. c.prop = prop
  <2>1. [b EXCEPT !.prop = prop].prop = prop
    BY <1>2, <1>4, BookParts
  <2> QED
    BY <1>5, <2>1, Zenon
<1>7. \A x : InForce(c, x) = InForce(b, x)
  <2>1. prop[q].state # "applied"
    BY <1>4
  <2> QED
    BY <1>4, <1>6, <2>1 DEF InForce
<1>8. Len(prop) <= MaxProposals
  BY <1>4 DEF Bounded
<1> QED
  BY <1>4, <1>5, <1>7, <1>8, ProposalsKept

\* review_suspension.
LEMMA ReviewedKept ==
  ASSUME BillingInvariant, NEW q \in DOMAIN book.prop, NEW decision \in {"approved", "rejected"},
         Review(q, decision)
  PROVE  BillingInvariant'
<1>1. PICK b : b = book
  OBVIOUS
<1>2. PICK c : c = [b EXCEPT !.prop[q].state = decision]
  OBVIOUS
<1>3. /\ Kept(b, now) /\ Bounded(b) /\ now \in 0 .. MaxMonths /\ q \in DOMAIN b.prop
      /\ b.prop[q].state = "proposed"
      /\ now' = now
  BY <1>1 DEF BillingInvariant, Review
<1>4. book' = c
  BY <1>1, <1>2, Zenon DEF Review
<1>5. Kept(c, now) /\ Bounded(c)
  <2>1. b.prop[q].state # "applied"
    BY <1>3
  <2> QED
    BY <1>2, <1>3, <2>1, StateKept
<1> QED
  BY <1>3, <1>4, <1>5 DEF BillingInvariant

\* b with an approved proposal applied to a subscription that owes.
LEMMA SuspendedKept ==
  ASSUME NEW b, Kept(b, now), Bounded(b), NEW q \in DOMAIN b.prop, NEW s, s = b.prop[q].sub,
         b.sub[s].status = "active", b.sub[s].paidUntil <= now,
         NEW c, c = [b EXCEPT !.prop[q].state = "applied", !.sub[s].status = "suspended"]
  PROVE  Kept(c, now) /\ Bounded(c)
<1>1. Sound(b) /\ Follows(b, now)
  BY DEF Kept
<1>2. b \in Book /\ b.prop \in PropTable /\ b.sub \in SubTable
  BY <1>1, SoundParts
<1>3. s \in Subscriptions
  <2>1. b.prop[q] \in Proposal
    BY <1>2, PropRows
  <2> QED
    BY <2>1 DEF Proposal
<1>4. PICK prop : prop = [b.prop EXCEPT ![q].state = "applied"]
  OBVIOUS
<1>5. /\ prop \in PropTable /\ Len(prop) = Len(b.prop) /\ DOMAIN prop = DOMAIN b.prop
      /\ prop[q].state = "applied" /\ prop[q].sub = s
      /\ \A k \in DOMAIN b.prop : k # q => prop[k] = b.prop[k]
  BY <1>2, <1>4, Decided
<1>6. PICK row : row = [b.sub[s] EXCEPT !.status = "suspended"]
  OBVIOUS
<1>7. /\ row \in Subscription /\ row.status = "suspended"
      /\ row.activated = b.sub[s].activated /\ row.paidUntil = b.sub[s].paidUntil
  <2>1. b.sub[s] \in Subscription
    BY <1>2, <1>3, SubRows
  <2> QED
    BY <1>6, <2>1 DEF Subscription
<1>8. PICK sub : sub = [b.sub EXCEPT ![s] = row]
  OBVIOUS
<1>9. sub \in SubTable /\ \A x \in Subscriptions : sub[x] = IF x = s THEN row ELSE b.sub[x]
  <2>1. b.sub \in SubTable /\ row \in Subscription
    BY <1>2, <1>7
  <2>2. /\ [b.sub EXCEPT ![s] = row] \in SubTable
        /\ \A x \in Subscriptions : [b.sub EXCEPT ![s] = row][x] = IF x = s THEN row ELSE b.sub[x]
    BY <1>3, <2>1, SubRows
  <2> QED
    BY <1>8, <2>2, Zenon
<1>10. c = [b EXCEPT !.sub = sub, !.prop = prop]
  BY <1>2, <1>4, <1>6, <1>8, Zenon DEF Book
<1>11. Rewritten(b, c, sub, prop)
  BY <1>1, <1>5, <1>9, <1>10, Rewriting
<1>12. SameMoney(b, c) /\ c.inv = b.inv /\ c.sub = sub /\ c.prop = prop
  BY <1>11 DEF Rewritten
<1>13. /\ InForce(b, s) = {} /\ InForce(c, s) = {q}
       /\ \A x : x # s => InForce(c, x) = InForce(b, x)
  <2>1. InForce(b, s) = {}
    BY <1>1, <1>3 DEF Follows
  <2>2. InForce(c, s) = {q}
    <3>1. \A k \in DOMAIN b.prop : k # q => ~(b.prop[k].sub = s /\ b.prop[k].state = "applied")
      BY <2>1 DEF InForce
    <3> QED
      BY <1>5, <1>12, <3>1 DEF InForce
  <2>3. \A x : x # s => InForce(c, x) = InForce(b, x)
    BY <1>5, <1>12 DEF InForce
  <2> QED
    BY <2>1, <2>2, <2>3
<1>14. Follows(c, now)
  <2> DEFINE At(d, x) ==
        /\ d.sub[x].status = "suspended" => d.sub[x].paidUntil <= now
        /\ \A k, r \in InForce(d, x) : k = r
        /\ d.sub[x].status = "suspended" => InForce(d, x) # {}
        /\ InForce(d, x) # {} => d.sub[x].status \in {"suspended", "cancelled"}
  <2>1. \A x \in Subscriptions : x # s => c.sub[x] = b.sub[x] /\ InForce(c, x) = InForce(b, x)
    BY <1>9, <1>12, <1>13, Zenon
  <2>2. c.sub[s] = row /\ c.sub[s].paidUntil <= now
    BY <1>3, <1>7, <1>9, <1>12
  <2>3. \A x \in Subscriptions : x # s => At(c, x)
    <3>1. \A x \in Subscriptions : At(b, x)
      BY <1>1 DEF Follows
    <3> QED
      BY <2>1, <3>1, Zenon
  <2>4. At(c, s)
    BY <1>7, <1>13, <2>2, Zenon
  <2>5. \A x \in Subscriptions : At(c, x)
    BY <2>3, <2>4, Zenon
  <2> QED
    BY <2>5 DEF Follows
<1>15. \A x \in Subscriptions :
         /\ sub[x].activated = b.sub[x].activated /\ sub[x].paidUntil = b.sub[x].paidUntil
         /\ sub[x].status \in {"active", "suspended"} => b.sub[x].status \in {"active", "suspended"}
  BY <1>7, <1>9
<1>16. Kept(c, now)
  BY <1>11, <1>14, <1>15, RewrittenKept
<1>17. Bounded(c)
  BY <1>5, <1>12 DEF Bounded, SameMoney
<1> QED
  BY <1>16, <1>17

\* apply_suspension.
LEMMA AppliedKept ==
  ASSUME BillingInvariant, NEW q \in DOMAIN book.prop, NEW clear \in BOOLEAN, Apply(q, clear)
  PROVE  BillingInvariant'
<1>1. PICK b : b = book
  OBVIOUS
<1>2. PICK s : s = b.prop[q].sub
  OBVIOUS
<1>3. /\ Kept(b, now) /\ Bounded(b) /\ now \in 0 .. MaxMonths /\ q \in DOMAIN b.prop
      /\ b.prop[q].state = "approved"
      /\ now' = now
  BY <1>1 DEF BillingInvariant, Apply
<1>4. CASE Suspendable(s) /\ clear /\ b.sub[s].paidUntil = b.prop[q].snapshot
  <2>1. PICK c : c = [b EXCEPT !.prop[q].state = "applied", !.sub[s].status = "suspended"]
    OBVIOUS
  <2>2. book' = c
    BY <1>1, <1>2, <1>4, <2>1, Zenon DEF Apply
  <2>3. b.sub[s].status = "active" /\ b.sub[s].paidUntil <= now
    BY <1>1, <1>4 DEF Suspendable
  <2>4. Kept(c, now) /\ Bounded(c)
    BY <1>2, <1>3, <2>1, <2>3, SuspendedKept
  <2> QED
    BY <1>3, <2>2, <2>4 DEF BillingInvariant
<1>5. CASE ~(Suspendable(s) /\ clear /\ b.sub[s].paidUntil = b.prop[q].snapshot)
  <2>1. PICK c : c = [b EXCEPT !.prop[q].state = "blocked"]
    OBVIOUS
  <2>2. book' = c
    BY <1>1, <1>2, <1>5, <2>1, Zenon DEF Apply
  <2>3. Kept(c, now) /\ Bounded(c)
    <3>1. b.prop[q].state # "applied"
      BY <1>3
    <3> QED
      BY <1>3, <2>1, <3>1, StateKept
  <2> QED
    BY <1>3, <2>2, <2>3 DEF BillingInvariant
<1> QED
  BY <1>4, <1>5

\* A month passes: who is suspended has paid no later than before.
LEMMA TickKept ==
  ASSUME BillingInvariant, Tick
  PROVE  BillingInvariant'
<1>1. PICK b : b = book
  OBVIOUS
<1>2. /\ Kept(b, now) /\ Bounded(b) /\ now \in 0 .. MaxMonths
      /\ now < MaxMonths /\ now' = now + 1 /\ book' = b
  BY <1>1 DEF BillingInvariant, Tick
<1>3. Follows(b, now')
  <2>1. b.sub \in SubTable /\ Follows(b, now)
    BY <1>2, SoundParts DEF Kept
  <2>2. \A s \in Subscriptions : b.sub[s].paidUntil \in Int
    <3>1. \A s \in Subscriptions : b.sub[s] \in Subscription
      BY <2>1, SubRows
    <3> QED
      BY <3>1, Constants DEF Subscription, Never
  <2>3. \A s \in Subscriptions : b.sub[s].paidUntil <= now => b.sub[s].paidUntil <= now'
    BY <1>2, <2>2, Constants
  <2> QED
    BY <2>1, <2>3 DEF Follows
<1>4. Kept(b, now')
  BY <1>2, <1>3 DEF Kept
<1>5. now' \in 0 .. MaxMonths
  BY <1>2, Constants
<1> QED
  BY <1>2, <1>4, <1>5 DEF BillingInvariant

(***************************************************************************)
(* The specification of the ledger.                                        *)
(***************************************************************************)
\* The empty table.
LEMMA NoRows ==
  ASSUME NEW T
  PROVE  <<>> \in Seq(T) /\ Len(<<>>) = 0 /\ DOMAIN <<>> = {}
  OBVIOUS

\* No payments, no credit.
LEMMA NothingSpent ==
  ASSUME NEW b, b.pay = <<>>
  PROVE  Credit(b) = 0
<1> DEFINE g == [p \in DOMAIN b.pay |-> Available(b, p)]
<1>1. DOMAIN b.pay = {} /\ DOMAIN g = {}
  BY NoRows
<1>2. SumFunctionOnSet(g, {}) = 0
  <2>1. IsFiniteSet({})
    BY FS_EmptySet
  <2>2. \A x \in {} : g[x] \in Int
    OBVIOUS
  <2> HIDE DEF g
  <2> QED
    BY <2>1, <2>2, SumTakes
<1> QED
  BY <1>1, <1>2, Zenon DEF Credit, SumFunction

\* A new customer.
LEMMA EmptyBookKept ==
  ASSUME Init
  PROVE  BillingInvariant
<1> DEFINE row == [status |-> "pending", activated |-> Never, paidUntil |-> Never]
<1>1. PICK b : b = book
  OBVIOUS
<1>2. /\ \A s \in Subscriptions : b.sub[s] = row
      /\ b.sub = [s \in Subscriptions |-> row]
      /\ b = [sub |-> b.sub, inv |-> <<>>, pay |-> <<>>, memo |-> <<>>, refund |-> <<>>,
              prop |-> <<>>]
      /\ now = 0
  BY <1>1 DEF Init
<1>3. /\ b.inv = <<>> /\ b.pay = <<>> /\ b.memo = <<>> /\ b.refund = <<>> /\ b.prop = <<>>
  BY <1>2
<1>4. /\ DOMAIN b.inv = {} /\ DOMAIN b.pay = {} /\ DOMAIN b.memo = {} /\ DOMAIN b.refund = {}
      /\ DOMAIN b.prop = {}
      /\ Len(b.inv) = 0 /\ Len(b.pay) = 0 /\ Len(b.memo) = 0 /\ Len(b.refund) = 0
      /\ Len(b.prop) = 0
  BY <1>3
<1>5. b \in Book
  <2>1. row \in Subscription
    BY DEF Subscription
  <2>2. b.sub \in [Subscriptions -> Subscription]
    BY <1>2, <2>1
  <2>3. /\ b.inv \in Seq(Invoice) /\ b.pay \in Seq(Payment) /\ b.memo \in Seq(Memo)
        /\ b.refund \in Seq(Refund) /\ b.prop \in Seq(Proposal)
    BY <1>3, NoRows, Zenon
  <2>4. b = [sub |-> b.sub, inv |-> b.inv, pay |-> b.pay, memo |-> b.memo,
             refund |-> b.refund, prop |-> b.prop]
    BY <1>2, <1>3, Zenon
  <2> QED
    BY <2>2, <2>3, <2>4, Zenon DEF Book
<1>6. Sound(b)
  BY <1>4, <1>5, Constants DEF Sound
<1>7. Credit(b) = 0
  BY <1>3, NothingSpent
<1>8. \A s : InForce(b, s) = {}
  BY <1>4 DEF InForce
<1>9. Follows(b, now) /\ Served(b)
  BY <1>2, <1>8 DEF Follows, Served
<1>10. Kept(b, now)
  BY <1>2, <1>4, <1>6, <1>7, <1>9 DEF Kept
<1>11. Bounded(b)
  BY <1>4, BillingAssumption DEF Bounded
<1> QED
  BY <1>1, <1>2, <1>10, <1>11, Constants DEF BillingInvariant

\* Whatever is charged, paid, reversed, credited, refunded, cancelled, proposed or
\* suspended, in any order and under any bounds, the invariant is kept.
THEOREM LedgerIsKept == Spec => []BillingInvariant
<1>1. Init => BillingInvariant
  BY EmptyBookKept
<1>2. ASSUME BillingInvariant, [Next]_vars
      PROVE  BillingInvariant'
  <2>1. ASSUME NEW s \in Subscriptions, Activate(s) PROVE BillingInvariant'
    BY <1>2, <2>1, ActivatedKept
  <2>2. ASSUME NEW s \in Subscriptions, Renew(s) PROVE BillingInvariant'
    BY <1>2, <2>2, RenewedKept
  <2>3. ASSUME NEW s \in Subscriptions, Cancel(s) PROVE BillingInvariant'
    BY <1>2, <2>3, CancelledKept
  <2>4. ASSUME NEW s \in Subscriptions, Propose(s) PROVE BillingInvariant'
    BY <1>2, <2>4, ProposedKept
  <2>5. ASSUME NEW a \in Amounts, Pay(a) PROVE BillingInvariant'
    BY <1>2, <2>5, PaidKept
  <2>6. ASSUME NEW p \in DOMAIN book.pay, ReversePayment(p) PROVE BillingInvariant'
    BY <1>2, <2>6, ReversedKept
  <2>7. ASSUME NEW i \in DOMAIN book.inv, NEW a \in Amounts, IssueMemo(i, a)
        PROVE  BillingInvariant'
    BY <1>2, <2>7, CreditedKept
  <2>8. ASSUME NEW m \in DOMAIN book.memo, NEW a \in Amounts, RefundMemo(m, a)
        PROVE  BillingInvariant'
    BY <1>2, <2>8, RefundedKept
  <2>9. ASSUME NEW q \in DOMAIN book.prop, NEW decision \in {"approved", "rejected"},
               Review(q, decision)
        PROVE  BillingInvariant'
    BY <1>2, <2>9, ReviewedKept
  <2>10. ASSUME NEW q \in DOMAIN book.prop, NEW clear \in BOOLEAN, Apply(q, clear)
         PROVE  BillingInvariant'
    BY <1>2, <2>10, AppliedKept
  <2>11. ASSUME Tick PROVE BillingInvariant'
    BY <1>2, <2>11, TickKept
  <2>12. ASSUME UNCHANGED vars PROVE BillingInvariant'
    <3>1. book' = book /\ now' = now
      BY <2>12 DEF vars
    <3> QED
      BY <1>2, <3>1 DEF BillingInvariant
  <2> QED
    BY <1>2, <2>1, <2>2, <2>3, <2>4, <2>5, <2>6, <2>7, <2>8, <2>9, <2>10, <2>11, <2>12, Zenon
       DEF Next
<1> QED
  BY <1>1, <1>2, PTL DEF Spec

\* Every row of every table is of its type and every table within its bound
\* (billing/models.py).
THEOREM BillingTypeCorrect == Spec => []TypeOK
<1>1. BillingInvariant => TypeOK
  BY DEF BillingInvariant, Bounded, Kept, Sound, TypeOK
<1> QED
  BY <1>1, LedgerIsKept, PTL

\* paid_until is the end of the months settled without a gap and a status says
\* what is owed, after any sequence of corrections (_refresh_subscription).
THEOREM BooksAlwaysAgree == Spec => []BooksAgree
<1>1. BillingInvariant => BooksAgree
  BY DEF BillingInvariant, Kept, BooksAgree
<1> QED
  BY <1>1, LedgerIsKept, PTL

\* No payment is spent beyond its amount, no invoice is paid beyond its price, and
\* credit never lies idle while something is owed (_allocate_customer).
THEOREM AllocationStaysExact == Spec => []AllocationIsExact
<1>1. BillingInvariant => AllocationIsExact
  BY DEF BillingInvariant, Kept, Sound, AllocationIsExact
<1> QED
  BY <1>1, LedgerIsKept, PTL

\* What went back to the customer is covered by its invoice whatever is reversed
\* afterwards: reverse_payment refuses a payment that a refund has drawn on.
THEOREM RefundsStayCovered == Spec => []RefundStaysCovered
<1>1. BillingInvariant => RefundStaysCovered
  BY DEF BillingInvariant, Kept, RefundStaysCovered
<1> QED
  BY <1>1, LedgerIsKept, PTL

\* Who has paid is not suspended, and one suspension at most is in force for a
\* subscription, which is then suspended or cancelled (_resume_nonpayment).
THEOREM SuspensionAlwaysFollows == Spec => []SuspensionFollows
<1>1. ASSUME BillingInvariant
      PROVE  SuspensionFollows
  <2>1. Follows(book, now)
    BY <1>1 DEF BillingInvariant, Kept
  <2>2. \A s \in Subscriptions : Cardinality(InForce(book, s)) <= 1
    <3> TAKE s \in Subscriptions
    <3>1. CASE InForce(book, s) = {}
      BY <3>1, NothingCounted
    <3>2. ASSUME NEW q \in InForce(book, s)
          PROVE  Cardinality(InForce(book, s)) <= 1
      <4>1. InForce(book, s) = {q}
        BY <2>1 DEF Follows
      <4>2. Cardinality({q}) = 1
        BY FS_Singleton
      <4> QED
        BY <4>1, <4>2
    <3> QED
      BY <3>1, <3>2
  <2> QED
    BY <2>1, <2>2 DEF Follows, SuspensionFollows
<1> QED
  BY <1>1, LedgerIsKept, PTL

\* The month that a renewal charges is paid when it is charged (renew_subscription).
THEOREM RenewalsArePaid == Spec => RenewalIsPaid
<1>1. ASSUME BillingInvariant, [Next]_vars
      PROVE  \A s \in Subscriptions : Renew(s) => book'.inv[Len(book'.inv)].status = "paid"
  BY <1>1, RenewedKept
<1> QED
  BY <1>1, LedgerIsKept, PTL DEF Spec, RenewalIsPaid

-----------------------------------------------------------------------------
(***************************************************************************)
(* Retention: the terms of a request.                                      *)
(***************************************************************************)
RightTerm(stage) ==
  /\ arco.since[stage] \in Nat
  /\ arco.due[stage] = arco.since[stage]
                       + (IF stage \in arco.extended THEN 2 ELSE 1) * Term(stage)

\* The stage that is open has its term, and no stage was extended before it began.
TermsInv ==
  /\ day \in 0 .. MaxDays /\ arco \in Request
  /\ arco.status \in {"pending_identity", "in_review"} => RightTerm("response")
  /\ arco.status = "decision_sent" => RightTerm("implementation")
  /\ \A stage \in Stages : arco.due[stage] # NONE => RightTerm(stage)
  /\ arco.status = "none" => arco.extended = {}
  /\ "implementation" \in arco.extended => arco.status \in {"decision_sent", "completed"}

\* A term lasts a day at least.
LEMMA TermIsPositive == \A stage \in Stages : Term(stage) \in Nat \ {0}
  BY RetentionAssumption DEF Term, Stages

\* No stage is open at first.
LEMMA TermsInit == RetentionInit => TermsInv
  BY RetentionAssumption DEF RetentionInit, TermsInv, Request, Stages, Redacted

\* A step that starts a stage which was not extended before.
LEMMA StageStarts ==
  ASSUME TermsInv, NEW stage \in Stages, stage \notin arco.extended,
         NEW status \in {"pending_identity", "decision_sent"},
         status = "pending_identity" => stage = "response" /\ arco.extended = {},
         status = "decision_sent" => stage = "implementation",
         arco' = Started([arco EXCEPT !.status = status], stage),
         day' = day
  PROVE  TermsInv'
  <1>1. Term(stage) \in Nat
    BY TermIsPositive
  <1>2. /\ arco'.status = status /\ arco'.extended = arco.extended
        /\ arco'.closed = arco.closed /\ arco'.text = arco.text
        /\ arco'.since = [arco.since EXCEPT ![stage] = day]
        /\ arco'.due = [arco.due EXCEPT ![stage] = day + Term(stage)]
        /\ arco' \in Request
    <2>1. PICK a \in Request : a = [arco EXCEPT !.status = status]
      BY DEF TermsInv, Request
    <2>2. /\ a.status = status /\ a.extended = arco.extended /\ a.closed = arco.closed
          /\ a.text = arco.text /\ a.since = arco.since /\ a.due = arco.due
      BY <2>1 DEF TermsInv, Request
    <2>3. arco' = [a EXCEPT !.since[stage] = day, !.due[stage] = day + Term(stage)]
      BY <2>1 DEF Started
    <2>4. /\ arco' = [a EXCEPT !.since = [a.since EXCEPT ![stage] = day],
                              !.due = [a.due EXCEPT ![stage] = day + Term(stage)]]
          /\ [a.since EXCEPT ![stage] = day] \in [Stages -> Nat \cup {NONE}]
          /\ [a.due EXCEPT ![stage] = day + Term(stage)] \in [Stages -> Nat \cup {NONE}]
      BY <1>1, <2>1, <2>3 DEF TermsInv, Request
    <2>. QED
      BY <2>2, <2>4 DEF Request
  <1>3. RightTerm(stage)'
    BY <1>1, <1>2 DEF RightTerm, TermsInv, Request
  <1>4. ASSUME NEW s \in Stages, s # stage, RightTerm(s) PROVE RightTerm(s)'
    BY <1>2, <1>4 DEF RightTerm, TermsInv, Request
  <1>5. \A s \in Stages : arco'.due[s] # NONE => RightTerm(s)'
    BY <1>2, <1>3, <1>4 DEF TermsInv, Request
  <1>. QED
    BY <1>2, <1>3, <1>5 DEF TermsInv, Stages

\* A step that leaves the stages alone.
LEMMA StagesRest ==
  ASSUME TermsInv, arco' \in Request, day' \in 0 .. MaxDays,
         arco'.since = arco.since, arco'.due = arco.due, arco'.extended = arco.extended,
         \/ arco'.status = arco.status
         \/ arco.status = "pending_identity" /\ arco'.status = "in_review"
         \/ arco.status \in {"in_review", "decision_sent"} /\ arco'.status = "completed"
  PROVE  TermsInv'
  <1>1. \A s \in Stages : RightTerm(s)' <=> RightTerm(s)
    BY DEF RightTerm
  <1>. QED
    BY <1>1 DEF TermsInv, Stages

\* Every step keeps the terms.
LEMMA TermsNext == TermsInv /\ [RetentionNext]_retentionVars => TermsInv'
  <1>. SUFFICES ASSUME TermsInv, [RetentionNext]_retentionVars PROVE TermsInv'
    OBVIOUS
  <1>1. CASE CreateArco
    BY <1>1, StageStarts DEF CreateArco, TermsInv, Stages
  <1>2. CASE VerifyIdentity \/ CompleteArco
    <2>1. arco' \in Request
      BY <1>2 DEF VerifyIdentity, CompleteArco, TermsInv, Request
    <2>. QED
      BY <1>2, <2>1, StagesRest DEF VerifyIdentity, CompleteArco, TermsInv, Request
  <1>3. ASSUME NEW granted \in BOOLEAN, Respond(granted) PROVE TermsInv'
    <2>1. CASE granted
      BY <1>3, <2>1, StageStarts DEF Respond, TermsInv, Stages
    <2>2. CASE ~granted
      <3>1. arco' \in Request
        BY <1>3, <2>2 DEF Respond, TermsInv, Request
      <3>. QED
        BY <1>3, <2>2, <3>1, StagesRest DEF Respond, TermsInv, Request
    <2>. QED
      BY <2>1, <2>2
  <1>4. ASSUME NEW stage \in Stages, Extend(stage) PROVE TermsInv'
    <2>1. RightTerm(stage) /\ Term(stage) \in Nat
      BY <1>4, TermIsPositive, NoneIsNothing DEF Extend, OpenStage, TermsInv, Stages
    <2>2. /\ stage \notin arco.extended
          /\ arco'.status = arco.status /\ arco'.since = arco.since
          /\ arco'.closed = arco.closed /\ arco'.text = arco.text
          /\ arco'.extended = arco.extended \cup {stage}
          /\ arco'.due = [arco.due EXCEPT ![stage] = @ + Term(stage)]
          /\ day' = day
      BY <1>4 DEF Extend, TermsInv, Request
    <2>3. arco.due[stage] = arco.since[stage] + Term(stage) /\ arco.since[stage] \in Nat
      BY <2>1, <2>2 DEF RightTerm
    <2>4. arco'.due[stage] = arco.since[stage] + 2 * Term(stage)
      BY <2>1, <2>2, <2>3 DEF TermsInv, Request
    <2>5. RightTerm(stage)'
      BY <2>1, <2>2, <2>3, <2>4 DEF RightTerm
    <2>6. ASSUME NEW s \in Stages, s # stage PROVE RightTerm(s)' <=> RightTerm(s)
      BY <2>2, <2>6 DEF RightTerm, TermsInv, Request
    <2>7. arco' \in Request
      <3>1. /\ arco' = [arco EXCEPT !.due = [arco.due EXCEPT ![stage] = @ + Term(stage)],
                                   !.extended = arco.extended \cup {stage}]
            /\ [arco.due EXCEPT ![stage] = @ + Term(stage)] \in [Stages -> Nat \cup {NONE}]
        BY <1>4, <2>1, <2>3 DEF Extend, TermsInv, Request
      <3>. QED
        BY <3>1 DEF TermsInv, Request
    <2>8. stage = OpenStage
      BY <1>4 DEF Extend
    <2>9. \A s \in Stages : arco'.due[s] # NONE => RightTerm(s)'
      BY <2>2, <2>5, <2>6 DEF TermsInv, Request
    <2>. QED
      BY <2>2, <2>5, <2>6, <2>7, <2>8, <2>9, NoneIsNothing DEF TermsInv, OpenStage, Stages
  <1>5. CASE UNCHANGED arco /\ day' \in 0 .. MaxDays
    BY <1>5, StagesRest DEF TermsInv
  <1>6. ASSUME NEW i \in DOMAIN previews, Execute(i) PROVE TermsInv'
    <2>1. arco' \in Request
      BY <1>6 DEF Execute, TermsInv, Request
    <2>. QED
      BY <1>6, <2>1, StagesRest DEF Execute, TermsInv, Request
  <1>7. CASE NextDay
    <2>1. day' \in 0 .. MaxDays
      BY <1>7, RetentionAssumption DEF NextDay, TermsInv
    <2>. QED
      BY <1>5, <1>7, <2>1 DEF NextDay
  <1>8. CASE UNCHANGED retentionVars
    BY <1>5, <1>8 DEF retentionVars, TermsInv
  <1>9. ASSUME NEW t \in Tickets, NEW kind \in Kinds,
               CreateTicket(t, kind) \/ Resolve(t) \/ OpenForm(t)
        PROVE  TermsInv'
    BY <1>5, <1>9 DEF CreateTicket, Resolve, OpenForm, TermsInv
  <1>10. ASSUME NEW kind \in Kinds, NEW text \in Texts, Load(kind, text) \/ Save \/ Leave
         PROVE  TermsInv'
    BY <1>5, <1>10 DEF Load, Save, Leave, TermsInv
  <1>11. ASSUME NEW c, NEW n,
                \/ PlaceHold(c) \/ ReleaseHold(c) \/ Preview(c)
                \/ WithdrawReview(c, n) \/ ReviewPolicy(c, n)
         PROVE  TermsInv'
    BY <1>5, <1>11 DEF PlaceHold, ReleaseHold, Preview, WithdrawReview, ReviewPolicy, TermsInv
  <1>. QED
    BY <1>1, <1>2, <1>3, <1>4, <1>6, <1>7, <1>8, <1>9, <1>10, <1>11 DEF RetentionNext, Kinds, Texts

\* However the steps of an ARCO request follow one another, no stage ends later than
\* one extension after its beginning (extend_arco, respond_arco, verify_arco_identity).
THEOREM TermsExtendedOnce == RetentionSpec => []TermsAreExtendedOnce
  <1>1. TermsInv => TermsAreExtendedOnce
    BY DEF TermsInv, TermsAreExtendedOnce, RightTerm
  <1>. QED
    BY <1>1, TermsInit, TermsNext, PTL DEF RetentionSpec

(***************************************************************************)
(* Retention: what is suppressed.                                          *)
(***************************************************************************)
Form == [step : {"screen", "request"}, ticket : Tickets, row : Row]
Reviews ==
  UNION {[D -> {Snapshot(row) : row \in Row \cup Request}] :
           D \in (SUBSET (Tickets \cup {"arco"})) \ {{}}}
Disposal == [category : Categories, rows : Reviews, expires : Nat, performed : BOOLEAN]

\* A form that holds a suppressed text is one of a ticket that is suppressed, and
\* whatever was previewed has something to suppress.
ReviewInv ==
  /\ ticket \in [Tickets -> Row \cup {NONE}]
  /\ editing # NONE =>
       /\ editing \in Form
       /\ ticket[editing.ticket] # NONE
       /\ editing.row.text = Redacted => ticket[editing.ticket].text = Redacted
  /\ previews \in Seq(Disposal)

\* Nothing is reviewed at first.
LEMMA ReviewInit == RetentionInit => ReviewInv
  BY DEF RetentionInit, ReviewInv

\* What can be suppressed is on file and has the digest of its row.
LEMMA EligibleRows ==
  ASSUME TermsInv, ReviewInv, NEW c \in Categories, NEW r \in DOMAIN Eligible(c)
  PROVE  LET row == IF r = "arco" THEN arco ELSE ticket[r] IN
         /\ IF r = "arco" THEN c = "arco" ELSE c = "ticket" /\ r \in Tickets /\ row # NONE
         /\ row \in Row \cup Request
         /\ Eligible(c)[r] = Snapshot(row)
         /\ ~Dispute /\ CanDispose(c, row.closed)
  <1>1. CASE c = "ticket"
    <2>1. r \in Tickets /\ r # "arco" /\ ticket[r] # NONE
      BY <1>1, RetentionAssumption DEF Eligible, Content
    <2>. QED
      BY <1>1, <2>1 DEF Eligible, Content, ReviewInv
  <1>2. CASE c # "ticket"
    <2>1. c = "arco"
      BY <1>2 DEF Categories
    <2>2. r = "arco" /\ arco.status = "completed" /\ arco.text # Redacted
      <3>1. CASE arco.status = "completed" /\ arco.text # Redacted
        BY <1>2, <3>1 DEF Eligible, Content
      <3>2. CASE ~(arco.status = "completed" /\ arco.text # Redacted)
        <4>1. Content(c) = <<>>
          BY <1>2, <3>2 DEF Content
        <4>. QED
          BY <4>1 DEF Eligible
      <3>. QED
        BY <3>1, <3>2
    <2>. QED
      BY <1>2, <2>1, <2>2 DEF Eligible, Content, TermsInv
  <1>. QED
    BY <1>1, <1>2

\* Every step keeps the reviews as they were made.
LEMMA ReviewNext == TermsInv /\ ReviewInv /\ [RetentionNext]_retentionVars => ReviewInv'
  <1>. SUFFICES ASSUME TermsInv, ReviewInv, [RetentionNext]_retentionVars PROVE ReviewInv'
    OBVIOUS
  <1>1. ASSUME NEW t \in Tickets, NEW kind \in Kinds, CreateTicket(t, kind) PROVE ReviewInv'
    <2>1. [kind |-> kind, status |-> "open", closed |-> NONE, text |-> "told",
           resolution |-> NONE] \in Row
      BY DEF Row, Texts
    <2>2. /\ ticket' \in [Tickets -> Row \cup {NONE}]
          /\ \A u \in Tickets : ticket[u] # NONE => ticket'[u] = ticket[u]
      BY <1>1, <2>1 DEF CreateTicket, ReviewInv
    <2>. QED
      BY <1>1, <2>2 DEF CreateTicket, ReviewInv, Form
  <1>2. ASSUME NEW t \in Tickets, Resolve(t) PROVE ReviewInv'
    <2>1. day \in 0 .. MaxDays /\ ticket[t] \in Row
      BY <1>2 DEF Resolve, ReviewInv, TermsInv
    <2>2. /\ ticket'[t] = [ticket[t] EXCEPT !.status = "resolved", !.closed = day,
                                           !.resolution = "given"]
          /\ \A u \in Tickets : u # t => ticket'[u] = ticket[u]
          /\ ticket' = [ticket EXCEPT ![t] = ticket'[t]]
      BY <1>2 DEF Resolve, ReviewInv
    <2>3. ticket'[t] \in Row /\ ticket'[t].text = ticket[t].text
      <3>. DEFINE row == ticket[t]
      <3>1. /\ row \in Row
            /\ ticket'[t] = [row EXCEPT !.status = "resolved", !.closed = day,
                                       !.resolution = "given"]
        BY <2>1, <2>2
      <3>. HIDE DEF row
      <3>2. ticket'[t] \in Row /\ ticket'[t].text = row.text
        BY <2>1, <3>1 DEF Row
      <3>. QED
        BY <3>2 DEF row
    <2>4. ticket' \in [Tickets -> Row \cup {NONE}]
      BY <2>2, <2>3 DEF ReviewInv
    <2>. QED
      BY <1>2, <2>2, <2>3, <2>4, NoneIsNothing DEF Resolve, ReviewInv, Form
  <1>3. ASSUME NEW t \in Tickets, OpenForm(t) PROVE ReviewInv'
    <2>1. ticket[t] \in Row
      BY <1>3 DEF OpenForm, ReviewInv
    <2>2. /\ editing' \in Form /\ editing'.ticket = t /\ editing'.row = ticket[t]
      BY <1>3, <2>1 DEF OpenForm, Form
    <2>. QED
      BY <1>3, <2>2 DEF OpenForm, ReviewInv
  <1>4. ASSUME NEW kind \in Kinds, NEW text \in Texts, Load(kind, text) PROVE ReviewInv'
    <2>1. editing \in Form /\ ticket[editing.ticket] \in Row
      BY <1>4 DEF Load, ReviewInv, Form
    <2>2. PICK row \in Row : /\ row = [ticket[editing.ticket] EXCEPT !.kind = kind, !.text = text]
                             /\ row.text = text
      <3>. DEFINE old == ticket[editing.ticket]
      <3>1. old \in Row
        BY <2>1
      <3>. HIDE DEF old
      <3>2. [old EXCEPT !.kind = kind, !.text = text] \in Row
        BY <3>1 DEF Row
      <3>3. [old EXCEPT !.kind = kind, !.text = text].text = text
        BY <3>1 DEF Row
      <3>. QED
        BY <3>2, <3>3 DEF old
    <2>3. editing' = [editing EXCEPT !.step = "request", !.row = row]
      BY <1>4, <2>2 DEF Load
    <2>4. editing' \in Form /\ editing'.ticket = editing.ticket /\ editing'.row = row
      BY <2>1, <2>2, <2>3 DEF Form
    <2>5. text = Redacted => ticket[editing.ticket].text = Redacted
      BY <1>4 DEF Load, ReviewInv, Redacted
    <2>. QED
      BY <1>4, <2>2, <2>4, <2>5 DEF Load, ReviewInv
  <1>5. CASE Save
    BY <1>5 DEF Save, ReviewInv, Form
  <1>6. CASE Leave
    BY <1>6 DEF Leave, ReviewInv
  <1>7. ASSUME NEW c \in Categories, Preview(c) PROVE ReviewInv'
    <2>1. \A r \in DOMAIN Eligible(c) :
            /\ r \in Tickets \cup {"arco"}
            /\ Eligible(c)[r] \in {Snapshot(row) : row \in Row \cup Request}
      BY EligibleRows
    <2>2. Eligible(c) = [r \in DOMAIN Eligible(c) |-> Eligible(c)[r]]
      BY DEF Eligible
    <2>3. Eligible(c) \in Reviews
      <3>. DEFINE D == DOMAIN Eligible(c)
                  S == {Snapshot(row) : row \in Row \cup Request}
      <3>1. D \in (SUBSET (Tickets \cup {"arco"})) \ {{}}
        BY <1>7, <2>1 DEF Preview
      <3>2. Eligible(c) \in [D -> S]
        BY <2>1, <2>2
      <3>. QED
        BY <3>1, <3>2 DEF Reviews
    <2>4. day + 1 \in Nat
      BY RetentionAssumption DEF TermsInv
    <2>5. [category |-> c, rows |-> Eligible(c), expires |-> day + 1, performed |-> FALSE]
            \in Disposal
      BY <2>3, <2>4 DEF Disposal
    <2>. QED
      BY <1>7, <2>5 DEF Preview, ReviewInv
  <1>8. ASSUME NEW i \in DOMAIN previews, Execute(i) PROVE ReviewInv'
    <2>1. previews[i] \in Disposal
      BY DEF ReviewInv
    <2>2. previews' \in Seq(Disposal)
      <3>1. [previews[i] EXCEPT !.performed = TRUE] \in Disposal
        BY <2>1 DEF Disposal
      <3>. QED
        <4>1. previews' = [previews EXCEPT ![i] = [previews[i] EXCEPT !.performed = TRUE]]
          BY <1>8 DEF Execute
        <4>2. previews \in Seq(Disposal) /\ i \in 1 .. Len(previews)
          BY DEF ReviewInv
        <4>. QED
          BY <3>1, <4>1, <4>2, ExceptSeq
    <2>3. CASE previews[i].category = "ticket"
      <3>1. ASSUME NEW t \in Tickets, t \in DOMAIN previews[i].rows
            PROVE  ticket[t] \in Row
        <4>1. t \in DOMAIN Eligible("ticket") /\ t # "arco"
          BY <1>8, <2>3, <3>1, RetentionAssumption DEF Execute, StillValid
        <4>. QED
          BY <4>1, EligibleRows DEF Categories, ReviewInv
      <3>2. \A t \in Tickets :
              IF t \in DOMAIN previews[i].rows
              THEN ticket'[t] = [ticket[t] EXCEPT !.text = Redacted, !.resolution = Redacted]
              ELSE ticket'[t] = ticket[t]
        BY <1>8, <2>3 DEF Execute
      <3>3. ASSUME NEW t \in Tickets, t \in DOMAIN previews[i].rows
            PROVE  ticket'[t] \in Row /\ ticket'[t].text = Redacted
        BY <3>1, <3>2, <3>3 DEF Row, Texts
      <3>4. ticket' \in [Tickets -> Row \cup {NONE}]
        BY <1>8, <2>3, <3>2, <3>3 DEF Execute, ReviewInv
      <3>. QED
        BY <1>8, <2>2, <3>2, <3>3, <3>4, NoneIsNothing DEF Execute, ReviewInv, Form
    <2>4. CASE previews[i].category # "ticket"
      BY <1>8, <2>2, <2>4 DEF Execute, ReviewInv
    <2>. QED
      BY <2>3, <2>4
  <1>9. CASE UNCHANGED <<ticket, editing, previews>>
    BY <1>9 DEF ReviewInv
  <1>. QED
    <2>1. CASE CreateArco \/ VerifyIdentity \/ CompleteArco \/ NextDay \/ UNCHANGED retentionVars
      BY <1>9, <2>1 DEF CreateArco, VerifyIdentity, CompleteArco, NextDay, retentionVars
    <2>2. ASSUME NEW granted \in BOOLEAN, Respond(granted) PROVE ReviewInv'
      BY <1>9, <2>2 DEF Respond
    <2>3. ASSUME NEW stage \in Stages, Extend(stage) PROVE ReviewInv'
      BY <1>9, <2>3 DEF Extend
    <2>4. ASSUME NEW c, NEW n,
                 \/ PlaceHold(c) \/ ReleaseHold(c) \/ WithdrawReview(c, n) \/ ReviewPolicy(c, n)
          PROVE  ReviewInv'
      BY <1>9, <2>4 DEF PlaceHold, ReleaseHold, WithdrawReview, ReviewPolicy
    <2>. QED
      BY <1>1, <1>2, <1>3, <1>4, <1>5, <1>6, <1>7, <1>8, <2>1, <2>2, <2>3, <2>4 DEF RetentionNext

\* A step that suppresses nothing.
LEMMA NothingSuppressed ==
  ASSUME arco'.text = arco.text,
         \A t \in Tickets : ticket[t] # NONE =>
            ticket'[t].text = ticket[t].text \/ ticket'[t].text # Redacted
  PROVE  Suppressed = {}
  BY DEF Suppressed

\* What an execution suppresses was reviewed and is due.
LEMMA ExecuteIsJustified ==
  ASSUME TermsInv, ReviewInv, NEW i \in DOMAIN previews, Execute(i), NEW r \in Suppressed
  PROVE  Justified(r)
  <1>. DEFINE p == previews[i]
              c == p.category
              row == IF r = "arco" THEN arco ELSE ticket[r]
  <1>1. p \in Disposal
    BY DEF ReviewInv
  <1>2. /\ c \in Categories /\ DOMAIN p.rows # {}
    BY <1>1 DEF Disposal, Reviews
  <1>3. /\ ~p.performed /\ day <= p.expires
        /\ \A q \in DOMAIN p.rows : q \in DOMAIN Eligible(c) /\ Eligible(c)[q] = p.rows[q]
    BY DEF Execute, StillValid
  <1>4. r \in DOMAIN p.rows
    <2>1. CASE c = "ticket"
      <3>1. arco' = arco /\ \A t \in Tickets : t \notin DOMAIN p.rows => ticket'[t] = ticket[t]
        BY <2>1 DEF Execute
      <3>. QED
        BY <3>1 DEF Suppressed
    <2>2. CASE c # "ticket"
      <3>1. r = "arco"
        BY <2>2 DEF Execute, Suppressed
      <3>2. PICK q \in DOMAIN p.rows : q \in DOMAIN Eligible(c)
        BY <1>2, <1>3
      <3>3. q = "arco"
        BY <1>2, <2>2, <3>2, EligibleRows
      <3>. QED
        BY <3>1, <3>3
    <2>. QED
      BY <2>1, <2>2
  <1>5. /\ r \in DOMAIN Eligible(c) /\ p.rows[r] = Snapshot(row)
        /\ c = IF r = "arco" THEN "arco" ELSE "ticket"
        /\ ~Dispute /\ CanDispose(c, row.closed)
    BY <1>2, <1>3, <1>4, EligibleRows
  <1>. QED
    BY <1>3, <1>4, <1>5 DEF Justified, CanDispose

\* What a step suppresses is justified: none but an execution suppresses anything.
LEMMA SuppressionStep ==
  TermsInv /\ ReviewInv /\ [RetentionNext]_retentionVars => \A r \in Suppressed : Justified(r)
  <1>. SUFFICES ASSUME TermsInv, ReviewInv, [RetentionNext]_retentionVars
                PROVE  \A r \in Suppressed : Justified(r)
    OBVIOUS
  <1>1. ASSUME NEW i \in DOMAIN previews, Execute(i)
        PROVE  \A r \in Suppressed : Justified(r)
    BY <1>1, ExecuteIsJustified
  <1>2. ASSUME NEW t \in Tickets, NEW kind \in Kinds, CreateTicket(t, kind)
        PROVE  Suppressed = {}
    <2>1. arco' = arco /\ \A u \in Tickets : ticket[u] # NONE => ticket'[u] = ticket[u]
      BY <1>2 DEF CreateTicket, ReviewInv
    <2>. QED
      BY <2>1, NothingSuppressed
  <1>3. ASSUME NEW t \in Tickets, Resolve(t) PROVE Suppressed = {}
    <2>1. arco' = arco /\ \A u \in Tickets : u # t => ticket'[u] = ticket[u]
      BY <1>3 DEF Resolve, ReviewInv
    <2>. DEFINE row == ticket[t]
    <2>2. /\ row \in Row
          /\ ticket'[t] = [row EXCEPT !.status = "resolved", !.closed = day, !.resolution = "given"]
      BY <1>3 DEF Resolve, ReviewInv
    <2>. HIDE DEF row
    <2>3. ticket'[t].text = row.text
      BY <2>2 DEF Row
    <2>. QED
      BY <2>1, <2>3, NothingSuppressed DEF row
  <1>4. CASE Save
    <2>1. /\ arco' = arco /\ editing \in Form /\ ticket'[editing.ticket] = editing.row
          /\ \A u \in Tickets : u # editing.ticket => ticket'[u] = ticket[u]
      BY <1>4 DEF Save, ReviewInv, Form
    <2>2. editing.row.text = Redacted => ticket[editing.ticket].text = Redacted
      BY <1>4 DEF Save, ReviewInv
    <2>. QED
      BY <2>1, <2>2, NothingSuppressed
  <1>5. ASSUME ticket' = ticket, arco'.text = arco.text PROVE Suppressed = {}
    BY <1>5, NothingSuppressed
  <1>6. CASE CreateArco \/ VerifyIdentity \/ CompleteArco \/ Leave \/ NextDay \/ UNCHANGED retentionVars
    BY <1>5, <1>6 DEF CreateArco, VerifyIdentity, CompleteArco, Started, Leave, NextDay, retentionVars,
                      TermsInv, Request
  <1>7. ASSUME NEW granted \in BOOLEAN, Respond(granted) PROVE Suppressed = {}
    BY <1>5, <1>7 DEF Respond, Started, TermsInv, Request
  <1>8. ASSUME NEW stage \in Stages, Extend(stage) PROVE Suppressed = {}
    BY <1>5, <1>8 DEF Extend, TermsInv, Request
  <1>9. ASSUME NEW t, NEW c, NEW n, NEW kind, NEW text,
               \/ OpenForm(t) \/ Load(kind, text)
               \/ PlaceHold(c) \/ ReleaseHold(c) \/ Preview(c)
               \/ WithdrawReview(c, n) \/ ReviewPolicy(c, n)
        PROVE  Suppressed = {}
    BY <1>5, <1>9 DEF OpenForm, Load, PlaceHold, ReleaseHold, Preview, WithdrawReview, ReviewPolicy
  <1>. QED
    BY <1>1, <1>2, <1>3, <1>4, <1>6, <1>7, <1>8, <1>9 DEF RetentionNext

\* Whatever happens between a preview and its execution, what is suppressed was
\* reviewed as it is and nothing protects it (execute_retention_disposal).
THEOREM SuppressionIsReviewed == RetentionSpec => OnlyReviewedIsSuppressed
  <1>1. TermsInv /\ ReviewInv /\ [RetentionNext]_retentionVars =>
          [\A r \in Suppressed : Justified(r)]_retentionVars
    BY SuppressionStep
  <1>. QED
    BY <1>1, TermsInit, TermsNext, ReviewInit, ReviewNext, PTL DEF RetentionSpec, OnlyReviewedIsSuppressed

(***************************************************************************)
(* Retention: types.                                                       *)
(***************************************************************************)
\* What the other invariants do not type.
RetentionRest ==
  /\ edits \in 0 .. MaxEdits /\ changes \in 0 .. MaxChanges
  /\ holds \subseteq Categories \cup {"*"}
  /\ \A c \in Categories : policies[c] \in [PolicyTerms[c] -> {"draft", "approved"}]
  /\ DOMAIN policies = Categories
  /\ Len(previews) <= MaxPreviews

\* The bounds of the model.
LEMMA RetentionBounds == {MaxDays, MaxPreviews, MaxEdits, MaxChanges} \subseteq Nat
  BY RetentionAssumption

\* A new customer.
LEMMA RestInit == RetentionInit => RetentionRest
  BY RetentionBounds DEF RetentionInit, RetentionRest

\* Every step keeps the policies, the holds and the bounds.
LEMMA RestNext == ReviewInv /\ RetentionRest /\ [RetentionNext]_retentionVars => RetentionRest'
  <1>. SUFFICES ASSUME ReviewInv, RetentionRest, [RetentionNext]_retentionVars
                PROVE  RetentionRest'
    OBVIOUS
  <1>. USE RetentionBounds DEF RetentionRest
  <1>1. CASE UNCHANGED <<holds, policies, previews, edits, changes>>
    BY <1>1
  <1>2. ASSUME NEW t \in Tickets, OpenForm(t) PROVE RetentionRest'
    BY <1>2 DEF OpenForm
  <1>3. ASSUME NEW c \in Categories \cup {"*"}, PlaceHold(c) \/ ReleaseHold(c)
        PROVE  RetentionRest'
    BY <1>3 DEF PlaceHold, ReleaseHold
  <1>4. ASSUME NEW c \in Categories, NEW n \in PolicyTerms[c], NEW status \in {"draft", "approved"},
               policies' = [policies EXCEPT ![c][n] = status]
        PROVE  /\ \A d \in Categories : policies'[d] \in [PolicyTerms[d] -> {"draft", "approved"}]
               /\ DOMAIN policies' = Categories
    <2>1. DOMAIN policies = Categories /\ policies[c] \in [PolicyTerms[c] -> {"draft", "approved"}]
      OBVIOUS
    <2>2. PICK row \in [PolicyTerms[c] -> {"draft", "approved"}] : row = [policies[c] EXCEPT ![n] = status]
      BY <2>1
    <2>3. policies' = [policies EXCEPT ![c] = row]
      BY <1>4, <2>2
    <2>. QED
      BY <2>1, <2>2, <2>3
  <1>5. ASSUME NEW c \in Categories, NEW n \in PolicyTerms[c],
               WithdrawReview(c, n) \/ ReviewPolicy(c, n)
        PROVE  RetentionRest'
    BY <1>4, <1>5 DEF WithdrawReview, ReviewPolicy
  <1>6. ASSUME NEW c \in Categories, Preview(c) PROVE RetentionRest'
    <2>1. /\ Len(previews) < MaxPreviews /\ UNCHANGED <<holds, policies, edits, changes>>
          /\ \E row : previews' = Append(previews, row)
      BY <1>6 DEF Preview
    <2>2. previews \in Seq(Disposal)
      BY DEF ReviewInv
    <2>3. Len(previews') = Len(previews) + 1 /\ Len(previews) \in Nat
      BY <2>1, <2>2
    <2>. QED
      BY <2>1, <2>3
  <1>7. ASSUME NEW i \in DOMAIN previews, Execute(i) PROVE RetentionRest'
    <2>1. previews \in Seq(Disposal)
      BY DEF ReviewInv
    <2>2. UNCHANGED <<holds, policies, edits, changes>>
      BY <1>7 DEF Execute
    <2>3. previews' = [previews EXCEPT ![i].performed = TRUE]
      BY <1>7 DEF Execute
    <2>4. Len(previews') = Len(previews)
      BY <2>1, <2>3
    <2>. QED
      BY <2>2, <2>4
  <1>8. UNCHANGED <<holds, policies, previews, edits, changes>> \/
        \/ \E t \in Tickets : OpenForm(t)
        \/ \E c \in Categories \cup {"*"} : PlaceHold(c) \/ ReleaseHold(c)
        \/ \E c \in Categories : Preview(c)
        \/ \E c \in Categories : \E n \in PolicyTerms[c] : WithdrawReview(c, n) \/ ReviewPolicy(c, n)
        \/ \E i \in DOMAIN previews : Execute(i)
    BY DEF RetentionNext, retentionVars, CreateTicket, Resolve, Load, Save, Leave, CreateArco,
           VerifyIdentity, CompleteArco, Respond, Extend, NextDay
  <1>. QED
    BY <1>1, <1>2, <1>3, <1>5, <1>6, <1>7, <1>8

\* Tickets, the request, orders, policies, previews and the form are of their types
\* (operations/models.py, compliance/models.py).
THEOREM RetentionTypeCorrect == RetentionSpec => []RetentionTypeOK
  <1>1. TermsInv /\ ReviewInv /\ RetentionRest => RetentionTypeOK
    BY DEF TermsInv, ReviewInv, RetentionRest, RetentionTypeOK, Form
  <1>. QED
    BY <1>1, TermsInit, TermsNext, ReviewInit, ReviewNext, RestInit, RestNext, PTL DEF RetentionSpec
=============================================================================
