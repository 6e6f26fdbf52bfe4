----------------------------- MODULE FoldProofs -----------------------------
(***************************************************************************)
(* Induction and folds for the proofs about checksums, announcements and   *)
(* the byte stream.                                                        *)
(* The provers do not instantiate an operator, so what would be a          *)
(* predicate is a set here and what would be an operator is a function.    *)
(***************************************************************************)
EXTENDS Integers, SequencesExt, SequenceTheorems, WellFoundedInduction, TLAPS

\* Induction up to n; the set is what has the property.
LEMMA UpTo ==
  ASSUME NEW S, NEW n \in Nat, 0 \in S,
         \A k \in 1 .. n : k - 1 \in S => k \in S
  PROVE  \A k \in 0 .. n : k \in S
<1> DEFINE Missing == {k \in 0 .. n : k \notin S}
<1>1. ASSUME Missing # {}
      PROVE  FALSE
  <2>1. Missing \subseteq Nat
    OBVIOUS
  <2>2. PICK m \in Missing : \A i \in Missing : <<i, m>> \notin OpToRel(<, Nat)
    <3> HIDE DEF Missing
    <3> QED
      BY <1>1, <2>1, NatLessThanWellFounded, WFMin
  <2>3. m \in 1 .. n /\ m \notin S
    OBVIOUS
  <2>4. PICK k : k = m - 1
    OBVIOUS
  <2>5. k \in 0 .. n /\ <<k, m>> \in OpToRel(<, Nat)
    BY <2>3, <2>4 DEF OpToRel
  <2>6. k \notin Missing
    <3> HIDE DEF Missing
    <3> QED
      BY <2>2, <2>5
  <2> QED
    BY <2>3, <2>4, <2>5, <2>6
<1> QED
  BY <1>1

\* The same for all numbers.
LEMMA ForAll ==
  ASSUME NEW S, 0 \in S, \A k \in Nat \ {0} : k - 1 \in S => k \in S
  PROVE  \A k \in Nat : k \in S
<1> SUFFICES ASSUME NEW n \in Nat
             PROVE  n \in S
  OBVIOUS
<1>1. \A k \in 0 .. n : k \in S
  BY UpTo
<1> QED
  BY <1>1

-----------------------------------------------------------------------------
(***************************************************************************)
(* Folding a function over a sequence, from the left.                      *)
(***************************************************************************)
Folds(A, B, F) == F \in [A -> [B -> A]]
Chain(F, base, seq, r, n) ==
  r = [k \in 0 .. n |-> IF k = 0 THEN base ELSE F[r[k - 1]][seq[k]]]
\* What a chain amounts to.
Follows(F, base, seq, r, n) ==
  r[0] = base /\ \A k \in 1 .. n : r[k] = F[r[k - 1]][seq[k]]
Fold(F, base, seq) ==
  LET r == CHOOSE r : Chain(F, base, seq, r, Len(seq)) IN r[Len(seq)]

LEMMA ChainExists ==
  ASSUME NEW A, NEW B, NEW F, Folds(A, B, F), NEW base \in A, NEW seq \in Seq(B)
  PROVE  \E r \in [0 .. Len(seq) -> A] : Chain(F, base, seq, r, Len(seq))
<1> PICK n \in Nat : n = Len(seq)
  OBVIOUS
<1> DEFINE S == {k \in 0 .. n : \E r \in [0 .. k -> A] : Chain(F, base, seq, r, k)}
<1>1. 0 \in S
  <2> PICK r : r = [k \in 0 .. 0 |-> base]
    OBVIOUS
  <2>1. r \in [0 .. 0 -> A] /\ Chain(F, base, seq, r, 0)
    BY DEF Chain
  <2> QED
    BY <2>1
<1>2. ASSUME NEW k \in 1 .. n, k - 1 \in S
      PROVE  k \in S
  <2> PICK r \in [0 .. k - 1 -> A] : Chain(F, base, seq, r, k - 1)
    BY <1>2
  <2> PICK q : q = [i \in 0 .. k |-> IF i = k THEN F[r[k - 1]][seq[k]] ELSE r[i]]
    OBVIOUS
  <2>1. seq[k] \in B /\ r[k - 1] \in A
    OBVIOUS
  <2>2. F[r[k - 1]][seq[k]] \in A
    BY <2>1 DEF Folds
  <2>3. q \in [0 .. k -> A]
    BY <2>2
  <2>4. ASSUME NEW i \in 0 .. k
        PROVE  q[i] = IF i = 0 THEN base ELSE F[q[i - 1]][seq[i]]
    <3>1. CASE i = k
      BY <3>1
    <3>2. CASE i # k
      <4>1. i \in 0 .. k - 1 /\ q[i] = r[i]
        BY <3>2
      <4>2. r[i] = IF i = 0 THEN base ELSE F[r[i - 1]][seq[i]]
        BY <4>1 DEF Chain
      <4>3. i # 0 => q[i - 1] = r[i - 1]
        BY <4>1
      <4> QED
        BY <4>1, <4>2, <4>3
    <3> QED
      BY <3>1, <3>2
  <2>5. Chain(F, base, seq, q, k)
    BY <2>3, <2>4 DEF Chain
  <2>6. k \in 0 .. n
    OBVIOUS
  <2> QED
    BY ONLY <2>3, <2>5, <2>6
<1>3. \A k \in 0 .. n : k \in S
  <2> HIDE DEF S
  <2> QED
    BY <1>1, <1>2, UpTo
<1> QED
  BY <1>3

\* Whatever follows the equations up to n gets the same values.
LEMMA FollowersAgree ==
  ASSUME NEW F, NEW base, NEW seq, NEW n \in Nat, NEW r, NEW q,
         Follows(F, base, seq, r, n), Follows(F, base, seq, q, n)
  PROVE  \A k \in 0 .. n : r[k] = q[k]
<1> DEFINE S == {k \in 0 .. n : r[k] = q[k]}
<1>1. 0 \in S
  BY DEF Follows
<1>2. \A k \in 1 .. n : k - 1 \in S => k \in S
  BY DEF Follows
<1>3. \A k \in 0 .. n : k \in S
  <2> HIDE DEF S
  <2> QED
    BY <1>1, <1>2, UpTo
<1> QED
  BY <1>3

LEMMA ChainFollows ==
  ASSUME NEW F, NEW base, NEW seq, NEW n \in Nat, NEW r, Chain(F, base, seq, r, n)
  PROVE  Follows(F, base, seq, r, n)
BY DEF Chain, Follows

LEMMA FoldIs ==
  ASSUME NEW A, NEW B, NEW F, Folds(A, B, F), NEW base \in A, NEW seq \in Seq(B)
  PROVE  \E r \in [0 .. Len(seq) -> A] :
           Follows(F, base, seq, r, Len(seq)) /\ Fold(F, base, seq) = r[Len(seq)]
<1> PICK n \in Nat : n = Len(seq)
  OBVIOUS
<1>1. PICK q \in [0 .. n -> A] : Chain(F, base, seq, q, n)
  BY ChainExists
<1>2. PICK r : r = CHOOSE x : Chain(F, base, seq, x, n)
  OBVIOUS
<1>3. Chain(F, base, seq, r, n)
  BY <1>1, <1>2
<1>4. Fold(F, base, seq) = r[n]
  BY <1>2 DEF Fold
<1>5. Follows(F, base, seq, q, n) /\ Follows(F, base, seq, r, n)
  BY <1>1, <1>3, ChainFollows
<1>6. r[n] = q[n]
  BY <1>5, FollowersAgree
<1> QED
  BY <1>1, <1>4, <1>5, <1>6

LEMMA FoldEnds ==
  ASSUME NEW A, NEW B, NEW F, Folds(A, B, F), NEW base \in A, NEW seq \in Seq(B)
  PROVE  \E r : Follows(F, base, seq, r, Len(seq)) /\ Fold(F, base, seq) = r[Len(seq)]
<1> PICK n \in Nat : n = Len(seq)
  OBVIOUS
<1>1. PICK r \in [0 .. n -> A] :
        Follows(F, base, seq, r, n) /\ Fold(F, base, seq) = r[n]
  BY FoldIs
<1> QED
  BY <1>1

LEMMA FoldType ==
  ASSUME NEW A, NEW B, NEW F, Folds(A, B, F), NEW base \in A, NEW seq \in Seq(B)
  PROVE  Fold(F, base, seq) \in A
<1> PICK n \in Nat : n = Len(seq)
  OBVIOUS
<1>1. PICK r \in [0 .. n -> A] :
        Follows(F, base, seq, r, n) /\ Fold(F, base, seq) = r[n]
  BY FoldIs
<1>2. n \in 0 .. n
  OBVIOUS
<1> QED
  BY <1>1, <1>2

LEMMA FoldNothing ==
  ASSUME NEW A, NEW B, NEW F, Folds(A, B, F), NEW base \in A
  PROVE  Fold(F, base, <<>>) = base
<1> PICK none : none = <<>>
  OBVIOUS
<1> PICK n : n = Len(none)
  OBVIOUS
<1>1. none \in Seq(B) /\ n = 0
  OBVIOUS
<1>2. PICK r : Follows(F, base, none, r, n) /\ Fold(F, base, none) = r[n]
  <2>1. \A s \in Seq(B) : \E q : /\ Follows(F, base, s, q, Len(s))
                                /\ Fold(F, base, s) = q[Len(s)]
    BY FoldEnds
  <2>2. n = Len(none) /\ none \in Seq(B)
    BY <1>1
  <2> QED
    BY ONLY <2>1, <2>2
<1> QED
  BY <1>1, <1>2 DEF Follows

\* The checksum of one byte more is one update of the register, and the value
\* of one digit more is one step of the parser: whatever function is folded,
\* over an element more is one application more.
LEMMA FoldAppend ==
  ASSUME NEW A, NEW B, NEW F, Folds(A, B, F), NEW base \in A
  PROVE  \A seq \in Seq(B), x \in B :
           Fold(F, base, Append(seq, x)) = F[Fold(F, base, seq)][x]
<1>0. \A s \in Seq(B) : \E r : /\ Follows(F, base, s, r, Len(s))
                              /\ Fold(F, base, s) = r[Len(s)]
  BY FoldEnds
<1> TAKE seq \in Seq(B), x \in B
<1> PICK n \in Nat : n = Len(seq)
  OBVIOUS
<1> PICK longer : longer = Append(seq, x)
  OBVIOUS
<1>1. /\ longer \in Seq(B) /\ Len(longer) = n + 1 /\ longer[n + 1] = x
      /\ \A k \in 1 .. n : longer[k] = seq[k]
  OBVIOUS
<1>2. PICK r : Follows(F, base, seq, r, n) /\ Fold(F, base, seq) = r[n]
  BY <1>0
<1> PICK m \in Nat : m = n + 1
  OBVIOUS
<1>3. PICK q : Follows(F, base, longer, q, m) /\ Fold(F, base, longer) = q[m]
  <2>1. m = Len(longer) /\ longer \in Seq(B)
    BY <1>1
  <2> QED
    BY ONLY <1>0, <2>1
<1>4. Follows(F, base, seq, q, n)
  <2>1. ASSUME NEW k \in 1 .. n
        PROVE  q[k] = F[q[k - 1]][seq[k]]
    <3>1. k \in 1 .. m
      OBVIOUS
    <3>2. q[k] = F[q[k - 1]][longer[k]]
      BY <1>3, <3>1 DEF Follows
    <3>3. longer[k] = seq[k]
      BY <1>1
    <3> QED
      BY <3>2, <3>3
  <2>2. q[0] = base
    BY <1>3 DEF Follows
  <2> QED
    BY <2>1, <2>2 DEF Follows
<1>5. q[n] = r[n]
  <2>1. \A k \in 0 .. n : q[k] = r[k]
    BY <1>2, <1>4, FollowersAgree
  <2>2. n \in 0 .. n
    OBVIOUS
  <2> QED
    BY ONLY <2>1, <2>2
<1>6. q[m] = F[q[n]][x]
  <2>1. m \in 1 .. m /\ m - 1 = n
    OBVIOUS
  <2>2. q[m] = F[q[m - 1]][longer[m]]
    BY <1>3, <2>1 DEF Follows
  <2> QED
    BY <1>1, <2>1, <2>2
<1> QED
  BY <1>2, <1>3, <1>5, <1>6

-----------------------------------------------------------------------------
(***************************************************************************)
(* FoldLeft, which goes through the sets of indices, the largest first.    *)
(***************************************************************************)
\* What FoldLeft computes on its way; as far as its values are in A; and of
\* the first k indices only.
Iteration(A, F, base, seq, f) ==
  /\ f \in [SUBSET (1 .. Len(seq)) -> A]
  /\ f = [s \in SUBSET (1 .. Len(seq)) |->
             IF s = {} THEN base ELSE F[f[s \ {Max(s)}]][seq[Max(s)]]]
Builds(A, F, base, seq, f) ==
  /\ f[{}] = base
  /\ \A k \in 1 .. Len(seq) :
       f[1 .. k - 1] \in A => f[1 .. k] = F[f[1 .. k - 1]][seq[k]]
Iterates(A, F, base, seq, f) ==
  \A s \in SUBSET (1 .. Len(seq)) :
    IF s = {} THEN f[s] = base
    ELSE f[s \ {Max(s)}] \in A => f[s] = F[f[s \ {Max(s)}]][seq[Max(s)]]

LEMMA MaxIs ==
  ASSUME NEW n \in Nat, NEW s \in SUBSET (1 .. n), NEW m \in s, \A i \in s : i <= m
  PROVE  Max(s) = m
<1>1. Max(s) \in s /\ \A i \in s : Max(s) >= i
  BY DEF Max
<1>2. Max(s) \in 1 .. n /\ m \in 1 .. n
  BY <1>1
<1>3. Max(s) >= m /\ Max(s) <= m
  BY <1>1
<1> QED
  BY <1>2, <1>3

LEMMA MaxInSet ==
  ASSUME NEW n \in Nat, NEW s \in SUBSET (1 .. n), s # {}
  PROVE  Max(s) \in s
<1> DEFINE S == {k \in 0 .. n : \A t \in SUBSET (1 .. k) : t # {} => Max(t) \in t}
<1>1. 0 \in S
  <2>1. \A t \in SUBSET (1 .. 0) : t = {}
    OBVIOUS
  <2>2. 0 \in 0 .. n
    OBVIOUS
  <2> QED
    BY ONLY <2>1, <2>2
<1>2. ASSUME NEW k \in 1 .. n, k - 1 \in S
      PROVE  k \in S
  <2> SUFFICES ASSUME NEW t \in SUBSET (1 .. k), t # {}
               PROVE  Max(t) \in t
    BY <1>2
  <2>1. CASE k \in t
    <3>1. Max(t) = k
      BY <2>1, MaxIs
    <3> QED
      BY <2>1, <3>1
  <2>2. CASE k \notin t
    <3>1. t \in SUBSET (1 .. k - 1)
      BY <2>2
    <3> QED
      BY <1>2, <3>1
  <2> QED
    BY <2>1, <2>2
<1>3. \A k \in 0 .. n : k \in S
  <2> HIDE DEF S
  <2> QED
    BY <1>1, <1>2, UpTo
<1> QED
  BY <1>3

LEMMA IteratesExist ==
  ASSUME NEW A, NEW B, NEW F, Folds(A, B, F), NEW base \in A, NEW seq \in Seq(B)
  PROVE  \E f : Iteration(A, F, base, seq, f)
<1> PICK n \in Nat : n = Len(seq)
  OBVIOUS
<1>0. \A x \in A, y \in B : F[x][y] \in A
  BY DEF Folds
<1> DEFINE Step(f, s) == IF s = {} THEN base ELSE F[f[s \ {Max(s)}]][seq[Max(s)]]
           S == {k \in 0 .. n : \E f \in [SUBSET (1 .. k) -> A] :
                                  \A s \in SUBSET (1 .. k) : f[s] = Step(f, s)}
<1>1. 0 \in S
  <2> PICK f : f = [s \in SUBSET (1 .. 0) |-> base]
    OBVIOUS
  <2>1. \A s \in SUBSET (1 .. 0) : s = {}
    OBVIOUS
  <2>2. \A s \in SUBSET (1 .. 0) : f[s] = Step(f, s)
    BY <2>1
  <2>3. f \in [SUBSET (1 .. 0) -> A]
    OBVIOUS
  <2>4. 0 \in 0 .. n
    OBVIOUS
  <2> HIDE DEF Step
  <2> QED
    BY ONLY <2>2, <2>3, <2>4
<1>2. ASSUME NEW k \in 1 .. n, k - 1 \in S
      PROVE  k \in S
  <2>1. PICK f \in [SUBSET (1 .. k - 1) -> A] :
          \A s \in SUBSET (1 .. k - 1) : f[s] = Step(f, s)
    BY <1>2
  <2> PICK g : g = [s \in SUBSET (1 .. k) |-> IF k \in s THEN F[f[s \ {k}]][seq[k]]
                                                          ELSE f[s]]
    OBVIOUS
  <2>2. \A s \in SUBSET (1 .. k) : s \ {k} \in SUBSET (1 .. k - 1)
    OBVIOUS
  <2>3. g \in [SUBSET (1 .. k) -> A]
    <3>1. seq[k] \in B
      OBVIOUS
    <3>2. \A s \in SUBSET (1 .. k) : f[s \ {k}] \in A /\ (k \notin s => f[s] \in A)
      BY <2>2
    <3>3. \A s \in SUBSET (1 .. k) : F[f[s \ {k}]][seq[k]] \in A
      BY ONLY <1>0, <3>1, <3>2
    <3> QED
      BY <3>2, <3>3
  <2>4. ASSUME NEW s \in SUBSET (1 .. k)
        PROVE  g[s] = Step(g, s)
    <3>1. CASE k \in s
      <4>1. Max(s) = k
        <5>1. k \in Nat
          OBVIOUS
        <5>2. \A i \in 1 .. k : i <= k
          OBVIOUS
        <5>3. \A i \in s : i <= k
          BY <5>2
        <5> QED
          BY <3>1, <5>1, <5>3, MaxIs
      <4>2. g[s \ {k}] = f[s \ {k}]
        BY <2>2
      <4> QED
        BY <3>1, <4>1, <4>2
    <3>2. CASE k \notin s
      <4>1. s \in SUBSET (1 .. k - 1) /\ g[s] = f[s]
        <5>1. s = s \ {k}
          BY <3>2
        <5>2. s \in SUBSET (1 .. k - 1)
          BY <2>2, <5>1
        <5> QED
          BY <3>2, <5>2
      <4>2. f[s] = Step(f, s)
        BY <2>1, <4>1
      <4>3. g[s \ {Max(s)}] = f[s \ {Max(s)}]
        BY <3>2, <4>1
      <4> QED
        BY <4>1, <4>2, <4>3
    <3> QED
      BY <3>1, <3>2
  <2>5. k \in 0 .. n
    OBVIOUS
  <2> HIDE DEF Step
  <2> QED
    BY ONLY <2>3, <2>4, <2>5
<1>3. \A k \in 0 .. n : k \in S
  <2> HIDE DEF S
  <2> QED
    BY <1>1, <1>2, UpTo
<1>4. n \in S
  <2>1. n \in 0 .. n
    OBVIOUS
  <2> HIDE DEF S
  <2> QED
    BY <1>3, <2>1
<1>5. PICK f \in [SUBSET (1 .. n) -> A] :
        \A s \in SUBSET (1 .. n) : f[s] = Step(f, s)
  BY <1>4
<1>6. f = [s \in SUBSET (1 .. n) |-> Step(f, s)]
  BY <1>5
<1>7. Iteration(A, F, base, seq, f)
  BY <1>5, <1>6 DEF Iteration
<1> QED
  BY ONLY <1>7

\* What satisfies the equations computes the fold.
LEMMA IterateIsFold ==
  ASSUME NEW A, NEW B, NEW F, Folds(A, B, F), NEW base \in A, NEW seq \in Seq(B)
  PROVE  \A f : Builds(A, F, base, seq, f) => f[1 .. Len(seq)] = Fold(F, base, seq)
<1> PICK n \in Nat : n = Len(seq)
  OBVIOUS
<1>1. PICK r \in [0 .. n -> A] :
        Follows(F, base, seq, r, n) /\ Fold(F, base, seq) = r[n]
  BY FoldIs
<1> SUFFICES ASSUME NEW f, f[{}] = base,
                    \A k \in 1 .. n :
                      f[1 .. k - 1] \in A => f[1 .. k] = F[f[1 .. k - 1]][seq[k]]
             PROVE  f[1 .. n] = Fold(F, base, seq)
  BY DEF Builds
<1> DEFINE S == {k \in 0 .. n : f[1 .. k] = r[k]}
<1>2. 0 \in S
  <2>1. 1 .. 0 = {}
    OBVIOUS
  <2> QED
    BY <1>1, <2>1 DEF Follows
<1>3. ASSUME NEW k \in 1 .. n, k - 1 \in S
      PROVE  k \in S
  <2>1. f[1 .. k - 1] = r[k - 1] /\ r[k - 1] \in A
    BY <1>3
  <2>2. f[1 .. k] = F[r[k - 1]][seq[k]]
    BY <2>1
  <2>3. r[k] = F[r[k - 1]][seq[k]]
    BY <1>1 DEF Follows
  <2> QED
    BY <2>2, <2>3
<1>4. \A k \in 0 .. n : k \in S
  <2> HIDE DEF S
  <2> QED
    BY <1>2, <1>3, UpTo
<1>5. n \in S
  BY <1>4
<1> QED
  BY <1>1, <1>5

LEMMA IterateBuilds ==
  ASSUME NEW A, NEW F, NEW base, NEW seq, Len(seq) \in Nat, NEW f,
         Iterates(A, F, base, seq, f)
  PROVE  Builds(A, F, base, seq, f)
<1> PICK n \in Nat : n = Len(seq)
  OBVIOUS
<1>1. \A s \in SUBSET (1 .. n) :
        IF s = {} THEN f[s] = base
        ELSE f[s \ {Max(s)}] \in A => f[s] = F[f[s \ {Max(s)}]][seq[Max(s)]]
  BY DEF Iterates
<1>2. f[{}] = base
  BY <1>1
<1>3. ASSUME NEW k \in 1 .. n, f[1 .. k - 1] \in A
      PROVE  f[1 .. k] = F[f[1 .. k - 1]][seq[k]]
  <2> PICK s : s = 1 .. k
    OBVIOUS
  <2>1. s \in SUBSET (1 .. n) /\ k \in s /\ s # {} /\ \A i \in s : i <= k
    <3>1. k \in 1 .. k /\ k \in Nat
      OBVIOUS
    <3>2. \A i \in 1 .. k : i <= k /\ i \in 1 .. n
      OBVIOUS
    <3> QED
      BY <3>1, <3>2
  <2>2. Max(s) = k
    BY <2>1, MaxIs
  <2>3. s \ {k} = 1 .. k - 1
    OBVIOUS
  <2> QED
    BY <1>1, <1>3, <2>1, <2>2, <2>3
<1> QED
  BY <1>2, <1>3 DEF Builds

\* The equations of FoldLeft's iteration are those of a fold.
LEMMA IterateFolds ==
  ASSUME NEW A, NEW B, NEW F, Folds(A, B, F), NEW base \in A, NEW seq \in Seq(B),
         NEW f, Iterates(A, F, base, seq, f)
  PROVE  f[1 .. Len(seq)] = Fold(F, base, seq)
<1>1. Len(seq) \in Nat
  OBVIOUS
<1>2. Builds(A, F, base, seq, f)
  BY <1>1, IterateBuilds
<1> QED
  BY <1>2, IterateIsFold

LEMMA ElementAtMax ==
  ASSUME NEW B, NEW seq \in Seq(B), NEW s \in SUBSET (1 .. Len(seq)), s # {}
  PROVE  seq[Max(s)] \in B
<1> PICK n \in Nat : n = Len(seq)
  OBVIOUS
<1>1. Max(s) \in 1 .. n
  <2>1. Max(s) \in s
    BY MaxInSet
  <2> QED
    BY <2>1
<1>2. \A i \in 1 .. n : seq[i] \in B
  OBVIOUS
<1> QED
  BY <1>1, <1>2

\* The last step of an iteration.
LEMMA LastStep ==
  ASSUME NEW A, NEW B, NEW F, NEW base, NEW seq \in Seq(B), NEW f,
         Iteration(A, F, base, seq, f),
         NEW s \in SUBSET (1 .. Len(seq)), s # {}
  PROVE  /\ f[s] = F[f[s \ {Max(s)}]][seq[Max(s)]]
         /\ f[s \ {Max(s)}] \in A
         /\ seq[Max(s)] \in B
<1> PICK n \in Nat : n = Len(seq)
  OBVIOUS
<1>1. f[s] = F[f[s \ {Max(s)}]][seq[Max(s)]]
  BY DEF Iteration
<1>2. seq[Max(s)] \in B
  BY ElementAtMax
<1>3. s \ {Max(s)} \in SUBSET (1 .. n)
  OBVIOUS
<1>4. f[s \ {Max(s)}] \in A
  BY <1>3 DEF Iteration
<1> QED
  BY <1>1, <1>2, <1>4
=============================================================================
