--------------------------- MODULE FileInfoProofs ---------------------------
(***************************************************************************)
(* What the receiver makes of an announcement is what it announces, for    *)
(* payloads of any length.  The parser is a fold over the digits and so is *)
(* the value of a number, ten times the value of the digits before the     *)
(* last one plus the last one: ParseMeans.  A number written in decimal    *)
(* has itself as its value: DecimalMeans.                                  *)
(***************************************************************************)
EXTENDS FileInfo, FoldProofs

Byte == 0 .. 255
Size == 0 .. NoSize

-----------------------------------------------------------------------------
(***************************************************************************)
(* The first field of a text.                                              *)
(***************************************************************************)
\* A member that is at most every member is the least.
LEMMA MinIs ==
  ASSUME NEW n \in Nat, NEW s \in SUBSET (1 .. n), NEW m \in s, \A i \in s : m <= i
  PROVE  Min(s) = m
<1>1. Min(s) \in s /\ \A i \in s : Min(s) <= i
  BY DEF Min
<1>2. Min(s) \in 1 .. n /\ m \in 1 .. n
  BY <1>1
<1>3. Min(s) >= m /\ Min(s) <= m
  BY <1>1, <1>2
<1> QED
  BY <1>2, <1>3

\* A set of places that is not empty has a least member.
LEMMA MinInSet ==
  ASSUME NEW n \in Nat, NEW s \in SUBSET (1 .. n), s # {}
  PROVE  Min(s) \in s /\ \A i \in s : Min(s) <= i
<1>1. s \subseteq Nat
  OBVIOUS
<1>2. PICK m \in s : \A i \in s : <<i, m>> \notin OpToRel(<, Nat)
  BY <1>1, NatLessThanWellFounded, WFMin
<1>3. ASSUME NEW i \in s
      PROVE  m <= i
  <2>1. i < m => <<i, m>> \in OpToRel(<, Nat)
    BY <1>1 DEF OpToRel
  <2>2. ~ i < m
    BY <1>2, <2>1
  <2>3. i \in Nat /\ m \in Nat
    BY <1>1
  <2> QED
    BY ONLY <2>2, <2>3
<1> QED
  BY <1>3, MinIs

\* The first n elements are the ones before the separator.
Precedes(bytes, separator, n) ==
  /\ n \in 0 .. Len(bytes)
  /\ \A i \in 1 .. n : bytes[i] # separator
  /\ n < Len(bytes) => bytes[n + 1] = separator

\* Before stops at the first separator, or at the end.
LEMMA BeforeIs ==
  ASSUME NEW bytes \in Seq(Byte), NEW separator \in Byte
  PROVE  \E n : Precedes(bytes, separator, n) /\ Before(bytes, separator) = SubSeq(bytes, 1, n)
<1> PICK len \in Nat : len = Len(bytes)
  OBVIOUS
<1> PICK s : s = {i \in 1 .. len : bytes[i] = separator}
  OBVIOUS
<1>1. SelectInSeq(bytes, LAMBDA b : b = separator) = IF s # {} THEN Min(s) ELSE 0
  BY DEF SelectInSeq
<1>2. CASE s = {}
  <2>1. Before(bytes, separator) = bytes
    BY <1>1, <1>2 DEF Before
  <2>2. bytes = SubSeq(bytes, 1, len)
    OBVIOUS
  <2>3. Precedes(bytes, separator, len)
    BY <1>2 DEF Precedes
  <2> QED
    BY <2>1, <2>2, <2>3
<1>3. CASE s # {}
  <2>1. Min(s) \in s /\ \A i \in s : Min(s) <= i
    BY <1>3, MinInSet
  <2> PICK m \in 1 .. len : m = Min(s)
    BY <2>1
  <2>2. ASSUME NEW i \in 1 .. m - 1
        PROVE  bytes[i] # separator
    <3>1. i \in 1 .. len /\ ~ m <= i
      OBVIOUS
    <3>2. i \notin s
      BY <2>1, <3>1
    <3> QED
      BY <3>1, <3>2
  <2>3. Before(bytes, separator) = SubSeq(bytes, 1, m - 1)
    <3>1. m # 0 /\ SelectInSeq(bytes, LAMBDA b : b = separator) = m
      BY <1>1, <1>3
    <3> QED
      BY ONLY <3>1 DEF Before
  <2>4. Precedes(bytes, separator, m - 1)
    <3>1. m - 1 \in 0 .. Len(bytes) /\ m - 1 + 1 = m
      OBVIOUS
    <3>2. bytes[m] = separator
      BY <2>1
    <3> QED
      BY <2>2, <3>1, <3>2 DEF Precedes
  <2> QED
    BY <2>3, <2>4
<1> QED
  BY <1>2, <1>3

\* There is one such place only.
LEMMA PrecedesOnce ==
  ASSUME NEW bytes \in Seq(Byte), NEW separator, NEW m, NEW n,
         Precedes(bytes, separator, m), Precedes(bytes, separator, n)
  PROVE  m = n
<1>1. ASSUME NEW i, NEW j, Precedes(bytes, separator, i), Precedes(bytes, separator, j), i < j
      PROVE  FALSE
  <2>1. i \in 0 .. Len(bytes) /\ j \in 0 .. Len(bytes) /\ Len(bytes) \in Nat
    BY <1>1 DEF Precedes
  <2>2. i + 1 \in 1 .. j /\ i < Len(bytes)
    BY <1>1, <2>1
  <2> QED
    BY <1>1, <2>2 DEF Precedes
<1>2. m \in 0 .. Len(bytes) /\ n \in 0 .. Len(bytes) /\ Len(bytes) \in Nat
  BY DEF Precedes
<1>3. ~ m < n /\ ~ n < m
  BY <1>1
<1> QED
  BY <1>2, <1>3

\* So whatever precedes the separator is what Before finds.
LEMMA BeforeFinds ==
  ASSUME NEW bytes \in Seq(Byte), NEW separator \in Byte, NEW n,
         Precedes(bytes, separator, n)
  PROVE  /\ Before(bytes, separator) = SubSeq(bytes, 1, n)
         /\ Before(bytes, separator) \in Seq(Byte)
         /\ Len(Before(bytes, separator)) = n
<1>1. PICK m : Precedes(bytes, separator, m) /\ Before(bytes, separator) = SubSeq(bytes, 1, m)
  BY BeforeIs
<1>2. m = n
  BY <1>1, PrecedesOnce
<1>3. n \in 0 .. Len(bytes)
  BY DEF Precedes
<1>4. SubSeq(bytes, 1, n) \in Seq(Byte) /\ Len(SubSeq(bytes, 1, n)) = n
  BY <1>3
<1> QED
  BY <1>1, <1>2, <1>4

-----------------------------------------------------------------------------
(***************************************************************************)
(* The size parser is a fold.                                              *)
(***************************************************************************)
StepDigit == [size \in Size |-> [byte \in Byte |-> NextDigit(size, byte)]]
DigitIteration(bytes, f) ==
  f = [s \in SUBSET (DOMAIN bytes) |->
         IF s = {} THEN 0 ELSE NextDigit(f[s \ {Max(s)}], bytes[Max(s)])]

\* One more digit leaves a size or none.
LEMMA StepDigitFolds ==
  /\ Folds(Size, Byte, StepDigit)
  /\ \A size \in Size, byte \in Byte : StepDigit[size][byte] = NextDigit(size, byte)
  /\ 0 \in Size
<1>1. ASSUME NEW size \in Size, NEW byte \in Byte
      PROVE  NextDigit(size, byte) \in Size
  BY TextAssumption DEF NextDigit, Size, NoSize, Byte, Digits
<1> QED
  BY <1>1, TextAssumption DEF Folds, StepDigit, Size, NoSize

\* What FoldLeft chooses exists.
LEMMA DigitIterationExists ==
  ASSUME NEW bytes \in Seq(Byte)
  PROVE  \E f : DigitIteration(bytes, f)
<1>1. PICK f : Iteration(Size, StepDigit, 0, bytes, f)
  BY StepDigitFolds, IteratesExist
<1>2. DOMAIN bytes = 1 .. Len(bytes)
  OBVIOUS
<1>3. ASSUME NEW s \in SUBSET (1 .. Len(bytes)), s # {}
      PROVE  f[s] = NextDigit(f[s \ {Max(s)}], bytes[Max(s)])
  <2>1. /\ f[s] = StepDigit[f[s \ {Max(s)}]][bytes[Max(s)]]
        /\ f[s \ {Max(s)}] \in Size /\ bytes[Max(s)] \in Byte
    BY <1>1, <1>3, LastStep
  <2> QED
    BY <2>1, StepDigitFolds
<1>4. f = [s \in SUBSET (1 .. Len(bytes)) |-> f[s]] /\ f[{}] = 0
  BY <1>1 DEF Iteration
<1>5. f = [s \in SUBSET (1 .. Len(bytes)) |->
             IF s = {} THEN 0 ELSE NextDigit(f[s \ {Max(s)}], bytes[Max(s)])]
  BY <1>3, <1>4
<1>6. DigitIteration(bytes, f)
  BY <1>2, <1>5 DEF DigitIteration
<1> QED
  BY ONLY <1>6

\* parse_file_size is the fold of its step.
LEMMA ParseIsFold ==
  ASSUME NEW bytes \in Seq(Byte)
  PROVE  ParseFileSize(bytes) = Fold(StepDigit, 0, bytes)
<1> PICK f : f = CHOOSE g : DigitIteration(bytes, g)
  OBVIOUS
<1>1. DigitIteration(bytes, f)
  BY DigitIterationExists
<1>2. DOMAIN bytes = 1 .. Len(bytes)
  OBVIOUS
<1>3. ParseFileSize(bytes) = f[1 .. Len(bytes)]
  BY <1>2 DEF ParseFileSize, FoldLeft, MapThenFoldSet, DigitIteration
<1>4. Iterates(Size, StepDigit, 0, bytes, f)
  <2> SUFFICES ASSUME NEW s \in SUBSET (1 .. Len(bytes))
               PROVE  IF s = {} THEN f[s] = 0
                      ELSE f[s \ {Max(s)}] \in Size
                             => f[s] = StepDigit[f[s \ {Max(s)}]][bytes[Max(s)]]
    BY DEF Iterates
  <2>1. f[s] = IF s = {} THEN 0 ELSE NextDigit(f[s \ {Max(s)}], bytes[Max(s)])
    BY <1>1, <1>2 DEF DigitIteration
  <2>2. s # {} => bytes[Max(s)] \in Byte
    BY ElementAtMax
  <2> QED
    BY <2>1, <2>2, StepDigitFolds
<1> QED
  BY <1>3, <1>4, StepDigitFolds, IterateFolds

\* So it starts with 0 and goes on digit by digit.
LEMMA ParseSteps ==
  /\ ParseFileSize(<<>>) = 0
  /\ \A bytes \in Seq(Byte) : ParseFileSize(bytes) \in Size
  /\ \A bytes \in Seq(Byte), byte \in Byte :
       ParseFileSize(Append(bytes, byte)) = NextDigit(ParseFileSize(bytes), byte)
<1>1. Folds(Size, Byte, StepDigit) /\ 0 \in Size
  BY StepDigitFolds
<1>2. \A bytes \in Seq(Byte) : ParseFileSize(bytes) = Fold(StepDigit, 0, bytes)
  BY ParseIsFold
<1>3. ParseFileSize(<<>>) = 0
  <2>1. <<>> \in Seq(Byte)
    OBVIOUS
  <2>2. Fold(StepDigit, 0, <<>>) = 0
    BY <1>1, FoldNothing
  <2> QED
    BY <1>2, <2>1, <2>2
<1>4. \A bytes \in Seq(Byte) : Fold(StepDigit, 0, bytes) \in Size
  BY <1>1, FoldType
<1>5. \A bytes \in Seq(Byte), byte \in Byte :
        Fold(StepDigit, 0, Append(bytes, byte)) = StepDigit[Fold(StepDigit, 0, bytes)][byte]
  BY <1>1, FoldAppend
<1>6. \A bytes \in Seq(Byte), byte \in Byte : Append(bytes, byte) \in Seq(Byte)
  OBVIOUS
<1>7. ASSUME NEW bytes \in Seq(Byte), NEW byte \in Byte
      PROVE  ParseFileSize(Append(bytes, byte)) = NextDigit(ParseFileSize(bytes), byte)
  BY <1>2, <1>4, <1>5, <1>6, StepDigitFolds
<1> QED
  BY <1>2, <1>3, <1>4, <1>7

-----------------------------------------------------------------------------
(***************************************************************************)
(* The value of a number.                                                  *)
(***************************************************************************)
TenTimes == [power \in Nat |-> [i \in Nat |-> 10 * power]]
Indices(n) == [i \in 1 .. n |-> i]

\* The places of a number, first to last.
LEMMA IndicesAre ==
  ASSUME NEW n \in Nat
  PROVE  /\ Indices(n) \in Seq(Nat) /\ Len(Indices(n)) = n
         /\ Indices(n + 1) = Append(Indices(n), n + 1)
         /\ Indices(0) = <<>>
BY DEF Indices

\* The powers of ten, which are defined recursively.
LEMMA PowerSteps ==
  /\ PowerOfTen[0] = 1
  /\ \A n \in Nat : /\ PowerOfTen[n] \in Nat
                    /\ PowerOfTen[n + 1] = 10 * PowerOfTen[n]
<1>1. Folds(Nat, Nat, TenTimes)
  <2>1. \A power \in Nat : 10 * power \in Nat
    OBVIOUS
  <2> QED
    BY <2>1 DEF Folds, TenTimes
<1>0. \A s \in Seq(Nat), i \in Nat :
        Fold(TenTimes, 1, Append(s, i)) = TenTimes[Fold(TenTimes, 1, s)][i]
  <2> PICK N : N = Nat
    OBVIOUS
  <2> PICK one \in N : one = 1
    OBVIOUS
  <2>1. Folds(N, N, TenTimes)
    BY <1>1
  <2>2. \A s \in Seq(N), i \in N :
          Fold(TenTimes, one, Append(s, i)) = TenTimes[Fold(TenTimes, one, s)][i]
    BY ONLY <2>1, one \in N, FoldAppend
  <2> QED
    BY <2>2
<1> PICK f : f = [n \in Nat |-> Fold(TenTimes, 1, Indices(n))]
  OBVIOUS
<1>2. \A n \in Nat : f[n] \in Nat
  <2>1. \A s \in Seq(Nat) : Fold(TenTimes, 1, s) \in Nat
    BY <1>1, FoldType
  <2> QED
    BY <2>1, IndicesAre
<1>3. f[0] = 1
  <2>1. Fold(TenTimes, 1, <<>>) = 1
    BY <1>1, FoldNothing
  <2> QED
    BY <2>1, IndicesAre
<1>4. ASSUME NEW n \in Nat
      PROVE  f[n + 1] = 10 * f[n]
  <2>1. n + 1 \in Nat
    OBVIOUS
  <2>2. Indices(n) \in Seq(Nat) /\ Indices(n + 1) = Append(Indices(n), n + 1)
    BY ONLY n \in Nat, IndicesAre
  <2>3. f[n + 1] = TenTimes[f[n]][n + 1]
    BY <1>0, <2>1, <2>2
  <2> QED
    BY <1>2, <2>1, <2>3 DEF TenTimes
<1>5. ASSUME NEW n \in Nat
      PROVE  f[n] = IF n = 0 THEN 1 ELSE 10 * f[n - 1]
  <2>1. CASE n = 0
    BY <1>3, <2>1
  <2>2. CASE n # 0
    <3>1. n - 1 \in Nat /\ (n - 1) + 1 = n
      BY <2>2
    <3> QED
      BY <1>4, <2>2, <3>1
  <2> QED
    BY <2>1, <2>2
<1>6. f = [n \in Nat |-> IF n = 0 THEN 1 ELSE 10 * f[n - 1]]
  BY <1>5
<1>7. PowerOfTen = [n \in Nat |-> IF n = 0 THEN 1 ELSE 10 * PowerOfTen[n - 1]]
  BY <1>6 DEF PowerOfTen
<1>8. \A n \in Nat : PowerOfTen[n] = IF n = 0 THEN 1 ELSE 10 * PowerOfTen[n - 1]
  BY ONLY <1>7
<1>9. PowerOfTen[0] = 1
  BY <1>8
<1>10. ASSUME NEW n \in Nat
       PROVE  PowerOfTen[n + 1] = 10 * PowerOfTen[n]
  <2>1. n + 1 \in Nat /\ n + 1 # 0 /\ (n + 1) - 1 = n
    OBVIOUS
  <2> QED
    BY <1>8, <2>1
<1> DEFINE S == {n \in Nat : PowerOfTen[n] \in Nat}
<1>11. 0 \in S
  BY <1>9
<1>12. ASSUME NEW k \in Nat \ {0}, k - 1 \in S
       PROVE  k \in S
  <2>1. k - 1 \in Nat /\ (k - 1) + 1 = k
    OBVIOUS
  <2>2. PowerOfTen[k] = 10 * PowerOfTen[k - 1]
    BY <1>10, <2>1
  <2> QED
    BY <1>12, <2>2
<1>13. \A n \in Nat : n \in S
  <2> HIDE DEF S
  <2> QED
    BY <1>11, <1>12, ForAll
<1> QED
  BY <1>9, <1>10, <1>13

\* What the digit at place i stands for.
Term(digits, i) == (digits[i] - 48) * PowerOfTen[Len(digits) - i]
ValueStep(digits) ==
  [sum \in Nat |-> [i \in 1 .. Len(digits) |-> sum + Term(digits, i)]]
ValueIteration(digits, places, f) ==
  f = [s \in SUBSET (DOMAIN places) |->
         IF s = {} THEN 0 ELSE f[s \ {Max(s)}] + Term(digits, places[Max(s)])]

\* The value of a number adds a term at each place.
LEMMA ValueStepFolds ==
  ASSUME NEW digits \in Seq(Digits)
  PROVE  /\ \A i \in 1 .. Len(digits) : Term(digits, i) \in Nat
         /\ Folds(Nat, 1 .. Len(digits), ValueStep(digits))
         /\ \A sum \in Nat, i \in 1 .. Len(digits) :
              ValueStep(digits)[sum][i] = sum + Term(digits, i)
         /\ Indices(Len(digits)) \in Seq(1 .. Len(digits))
         /\ Len(Indices(Len(digits))) = Len(digits)
         /\ \A i \in 1 .. Len(digits) : Indices(Len(digits))[i] = i
<1> PICK n \in Nat : n = Len(digits)
  OBVIOUS
<1>1. ASSUME NEW i \in 1 .. n
      PROVE  Term(digits, i) \in Nat
  <2>1. digits[i] \in Digits /\ n - i \in Nat
    OBVIOUS
  <2>2. digits[i] - 48 \in Nat
    BY <2>1 DEF Digits
  <2>3. PowerOfTen[n - i] \in Nat
    BY <2>1, PowerSteps
  <2>4. \A a \in Nat, b \in Nat : a * b \in Nat
    OBVIOUS
  <2> QED
    BY <2>2, <2>3, <2>4 DEF Term
<1>2. \A sum \in Nat, i \in 1 .. n : sum + Term(digits, i) \in Nat
  BY <1>1
<1>3. Folds(Nat, 1 .. n, ValueStep(digits))
  BY <1>2 DEF Folds, ValueStep
<1>4. \A sum \in Nat, i \in 1 .. n : ValueStep(digits)[sum][i] = sum + Term(digits, i)
  BY DEF ValueStep
<1>5. Indices(n) \in Seq(1 .. n) /\ Len(Indices(n)) = n /\ \A i \in 1 .. n : Indices(n)[i] = i
  BY DEF Indices
<1> QED
  BY <1>1, <1>3, <1>4, <1>5

\* What FoldLeft chooses exists.
LEMMA ValueIterationExists ==
  ASSUME NEW digits \in Seq(Digits)
  PROVE  \E f : ValueIteration(digits, Indices(Len(digits)), f)
<1> PICK places : places = Indices(Len(digits))
  OBVIOUS
<1> PICK P : P = 1 .. Len(digits)
  OBVIOUS
<1>0. /\ Folds(Nat, P, ValueStep(digits)) /\ places \in Seq(P)
      /\ \A sum \in Nat, i \in P : ValueStep(digits)[sum][i] = sum + Term(digits, i)
  BY ValueStepFolds
<1> PICK N : N = Nat
  OBVIOUS
<1> PICK nothing \in N : nothing = 0
  OBVIOUS
<1>1. PICK f : Iteration(N, ValueStep(digits), nothing, places, f)
  <2>1. Folds(N, P, ValueStep(digits))
    BY <1>0
  <2> QED
    BY ONLY <1>0, <2>1, nothing \in N, IteratesExist
<1>2. DOMAIN places = 1 .. Len(places)
  BY <1>0
<1>3. ASSUME NEW s \in SUBSET (1 .. Len(places)), s # {}
      PROVE  f[s] = f[s \ {Max(s)}] + Term(digits, places[Max(s)])
  <2>1. /\ f[s] = ValueStep(digits)[f[s \ {Max(s)}]][places[Max(s)]]
        /\ f[s \ {Max(s)}] \in Nat /\ places[Max(s)] \in P
    <3>1. /\ f[s] = ValueStep(digits)[f[s \ {Max(s)}]][places[Max(s)]]
          /\ f[s \ {Max(s)}] \in N /\ places[Max(s)] \in P
      BY ONLY <1>0, <1>1, s \in SUBSET (1 .. Len(places)), <1>3, LastStep
    <3> QED
      BY <3>1
  <2> QED
    BY ONLY <1>0, <2>1
<1>4. f = [s \in SUBSET (1 .. Len(places)) |-> f[s]] /\ f[{}] = 0
  BY <1>1 DEF Iteration
<1>5. f = [s \in SUBSET (1 .. Len(places)) |->
             IF s = {} THEN 0 ELSE f[s \ {Max(s)}] + Term(digits, places[Max(s)])]
  BY <1>3, <1>4
<1>6. ValueIteration(digits, places, f)
  BY ONLY <1>2, <1>5 DEF ValueIteration
<1> QED
  BY <1>6

\* The value of a number is a fold over its places.
LEMMA ValueIsFold ==
  ASSUME NEW digits \in Seq(Digits)
  PROVE  ValueOf(digits) = Fold(ValueStep(digits), 0, Indices(Len(digits)))
<1> PICK places : places = Indices(Len(digits))
  OBVIOUS
<1> PICK P : P = 1 .. Len(digits)
  OBVIOUS
<1>0. /\ Folds(Nat, P, ValueStep(digits)) /\ places \in Seq(P)
      /\ \A sum \in Nat, i \in P : ValueStep(digits)[sum][i] = sum + Term(digits, i)
  BY ValueStepFolds
<1> PICK f : f = CHOOSE g : ValueIteration(digits, places, g)
  OBVIOUS
<1>1. ValueIteration(digits, places, f)
  BY ValueIterationExists
<1>2. DOMAIN places = 1 .. Len(places)
  BY <1>0
<1>3. ValueOf(digits) = f[1 .. Len(places)]
  <2>1. ValueOf(digits) = f[DOMAIN places]
    BY DEF ValueOf, FoldLeft, MapThenFoldSet, ValueIteration, Term, Indices
  <2> QED
    BY ONLY <1>2, <2>1
<1>4. Iterates(Nat, ValueStep(digits), 0, places, f)
  <2> SUFFICES ASSUME NEW s \in SUBSET (1 .. Len(places))
               PROVE  IF s = {} THEN f[s] = 0
                      ELSE f[s \ {Max(s)}] \in Nat
                             => f[s] = ValueStep(digits)[f[s \ {Max(s)}]][places[Max(s)]]
    BY DEF Iterates
  <2>1. f[s] = IF s = {} THEN 0 ELSE f[s \ {Max(s)}] + Term(digits, places[Max(s)])
    BY ONLY <1>1, <1>2, s \in SUBSET (1 .. Len(places)) DEF ValueIteration
  <2>2. s # {} => places[Max(s)] \in P
    BY <1>0, ElementAtMax
  <2> QED
    BY ONLY <1>0, <2>1, <2>2
<1>5. f[1 .. Len(places)] = Fold(ValueStep(digits), 0, places)
  <2> PICK N : N = Nat
    OBVIOUS
  <2> PICK nothing \in N : nothing = 0
    OBVIOUS
  <2>1. Folds(N, P, ValueStep(digits)) /\ Iterates(N, ValueStep(digits), nothing, places, f)
    BY <1>0, <1>4
  <2>2. f[1 .. Len(places)] = Fold(ValueStep(digits), nothing, places)
    BY ONLY <1>0, <2>1, nothing \in N, IterateFolds
  <2> QED
    BY <2>2
<1> QED
  BY <1>3, <1>5

\* The sums on the way to the value.
LEMMA ValueChain ==
  ASSUME NEW digits \in Seq(Digits)
  PROVE  \E r \in [0 .. Len(digits) -> Nat] :
           /\ r[0] = 0 /\ ValueOf(digits) = r[Len(digits)]
           /\ \A k \in 1 .. Len(digits) : r[k] = r[k - 1] + Term(digits, k)
<1> PICK n \in Nat : n = Len(digits)
  OBVIOUS
<1> PICK places : places = Indices(n)
  OBVIOUS
<1> PICK P : P = 1 .. n
  OBVIOUS
<1> PICK N : N = Nat
  OBVIOUS
<1> PICK nothing \in N : nothing = 0
  OBVIOUS
<1>1. /\ Folds(N, P, ValueStep(digits)) /\ places \in Seq(P) /\ Len(places) = n
      /\ \A sum \in N, i \in P : ValueStep(digits)[sum][i] = sum + Term(digits, i)
      /\ \A i \in P : places[i] = i
  BY ValueStepFolds
<1>2. PICK r \in [0 .. n -> N] : /\ Follows(ValueStep(digits), nothing, places, r, n)
                                 /\ Fold(ValueStep(digits), nothing, places) = r[n]
  <2>1. \E r \in [0 .. Len(places) -> N] :
          /\ Follows(ValueStep(digits), nothing, places, r, Len(places))
          /\ Fold(ValueStep(digits), nothing, places) = r[Len(places)]
    BY ONLY <1>1, nothing \in N, FoldIs
  <2> QED
    BY ONLY <1>1, <2>1
<1>3. ValueOf(digits) = r[n]
  BY <1>2, ValueIsFold
<1>4. ASSUME NEW k \in 1 .. n
      PROVE  r[k] = r[k - 1] + Term(digits, k)
  <2>1. r[k] = ValueStep(digits)[r[k - 1]][places[k]]
    BY <1>2 DEF Follows
  <2>2. r[k - 1] \in N /\ k \in P
    OBVIOUS
  <2> QED
    BY <1>1, <2>1, <2>2
<1>5. r[0] = 0
  BY <1>2 DEF Follows
<1> QED
  BY <1>3, <1>4, <1>5

\* One more digit multiplies what each digit stands for by ten.
LEMMA TermLonger ==
  ASSUME NEW digits \in Seq(Digits), NEW d \in Digits
  PROVE  /\ \A k \in 1 .. Len(digits) :
              Term(Append(digits, d), k) = 10 * Term(digits, k)
         /\ Term(Append(digits, d), Len(digits) + 1) = d - 48
<1> PICK n \in Nat : n = Len(digits)
  OBVIOUS
<1> PICK longer : longer = Append(digits, d)
  OBVIOUS
<1>1. /\ Len(longer) = n + 1 /\ longer[n + 1] = d
      /\ \A k \in 1 .. n : longer[k] = digits[k] /\ digits[k] \in Digits
  OBVIOUS
<1>2. \A a \in Int, b \in Int : a * (10 * b) = 10 * (a * b)
  OBVIOUS
<1>3. ASSUME NEW k \in 1 .. n
      PROVE  Term(longer, k) = 10 * Term(digits, k)
  <2>1. n - k \in Nat /\ (n + 1) - k = (n - k) + 1
    OBVIOUS
  <2>2. PowerOfTen[(n + 1) - k] = 10 * PowerOfTen[n - k] /\ PowerOfTen[n - k] \in Nat
    BY <2>1, PowerSteps
  <2>3. digits[k] - 48 \in Int
    BY <1>1 DEF Digits
  <2>4. Term(longer, k) = (digits[k] - 48) * (10 * PowerOfTen[n - k])
    BY <1>1, <2>2 DEF Term
  <2>5. Term(digits, k) = (digits[k] - 48) * PowerOfTen[n - k]
    BY DEF Term
  <2>6. PowerOfTen[n - k] \in Int
    BY <2>2
  <2> QED
    BY ONLY <1>2, <2>3, <2>4, <2>5, <2>6
<1>4. Term(longer, n + 1) = d - 48
  <2>1. (n + 1) - (n + 1) = 0
    OBVIOUS
  <2>2. Term(longer, n + 1) = (d - 48) * PowerOfTen[0]
    BY <1>1, <2>1 DEF Term
  <2> QED
    BY <2>2, PowerSteps DEF Digits
<1> QED
  BY <1>3, <1>4

\* So the value of a number goes on digit by digit, too.
LEMMA ValueSteps ==
  /\ ValueOf(<<>>) = 0
  /\ \A digits \in Seq(Digits) : ValueOf(digits) \in Nat
  /\ \A digits \in Seq(Digits), d \in Digits :
       ValueOf(Append(digits, d)) = 10 * ValueOf(digits) + (d - 48)
<1>0. \A digits \in Seq(Digits) :
        \E r \in [0 .. Len(digits) -> Nat] :
          /\ r[0] = 0 /\ ValueOf(digits) = r[Len(digits)]
          /\ \A k \in 1 .. Len(digits) : r[k] = r[k - 1] + Term(digits, k)
  BY ValueChain
<1>1. ValueOf(<<>>) = 0
  <2>1. <<>> \in Seq(Digits) /\ Len(<<>>) = 0
    OBVIOUS
  <2> PICK none \in Seq(Digits) : none = <<>>
    BY <2>1
  <2>2. Len(none) = 0
    OBVIOUS
  <2> QED
    BY <1>0, <2>2
<1>2. ASSUME NEW digits \in Seq(Digits)
      PROVE  ValueOf(digits) \in Nat
  <2> PICK r \in [0 .. Len(digits) -> Nat] : ValueOf(digits) = r[Len(digits)]
    BY <1>0
  <2>1. Len(digits) \in 0 .. Len(digits)
    OBVIOUS
  <2> QED
    BY <2>1
<1>3. ASSUME NEW digits \in Seq(Digits), NEW d \in Digits
      PROVE  ValueOf(Append(digits, d)) = 10 * ValueOf(digits) + (d - 48)
  <2>0. Append(digits, d) \in Seq(Digits)
    OBVIOUS
  <2> PICK longer \in Seq(Digits) : longer = Append(digits, d)
    BY <2>0
  <2> PICK n \in Nat : n = Len(digits)
    OBVIOUS
  <2>1. Len(longer) = n + 1
    OBVIOUS
  <2>2. PICK r \in [0 .. n -> Nat] :
          /\ r[0] = 0 /\ ValueOf(digits) = r[n]
          /\ \A k \in 1 .. n : r[k] = r[k - 1] + Term(digits, k)
    BY <1>0
  <2>3. PICK q \in [0 .. n + 1 -> Nat] :
          /\ q[0] = 0 /\ ValueOf(longer) = q[n + 1]
          /\ \A k \in 1 .. n + 1 : q[k] = q[k - 1] + Term(longer, k)
    BY ONLY <1>0, <2>1, longer \in Seq(Digits)
  <2>4. /\ \A k \in 1 .. n : Term(longer, k) = 10 * Term(digits, k)
        /\ Term(longer, n + 1) = d - 48
    BY TermLonger
  <2>5. \A k \in 1 .. n : Term(digits, k) \in Nat
    BY ValueStepFolds
  <2> DEFINE S == {k \in 0 .. n : q[k] = 10 * r[k]}
  <2>6. 0 \in S
    BY <2>2, <2>3
  <2>7. ASSUME NEW k \in 1 .. n, k - 1 \in S
        PROVE  k \in S
    <3>1. q[k] = 10 * r[k - 1] + 10 * Term(digits, k)
      BY <2>3, <2>4, <2>7
    <3>2. r[k] = r[k - 1] + Term(digits, k)
      BY <2>2
    <3>3. r[k - 1] \in Nat /\ Term(digits, k) \in Nat
      <4>1. k - 1 \in 0 .. n
        OBVIOUS
      <4>2. r[k - 1] \in Nat
        BY ONLY <4>1, r \in [0 .. n -> Nat]
      <4> QED
        BY <2>5, <4>2
    <3>4. q[k] = 10 * r[k]
      BY ONLY <3>1, <3>2, <3>3
    <3> QED
      BY <3>4
  <2>8. \A k \in 0 .. n : k \in S
    <3> HIDE DEF S
    <3> QED
      BY <2>6, <2>7, UpTo
  <2>9. q[n] = 10 * r[n]
    BY <2>8
  <2>10. q[n + 1] = q[n] + (d - 48)
    BY <2>3, <2>4
  <2> QED
    BY <2>2, <2>3, <2>9, <2>10
<1> QED
  BY <1>1, <1>2, <1>3

-----------------------------------------------------------------------------
(***************************************************************************)
(* What the parser reads is the value of the digits, as long as it is one. *)
(***************************************************************************)
Meaning(bytes) ==
  IF Range(bytes) \subseteq Digits /\ ValueOf(bytes) <= MaxPosition
  THEN ValueOf(bytes) ELSE NoSize

\* Bytes that are all digits are a number.
LEMMA DigitsAre ==
  ASSUME NEW bytes \in Seq(Byte)
  PROVE  /\ Range(bytes) \subseteq Digits <=> \A i \in 1 .. Len(bytes) : bytes[i] \in Digits
         /\ Range(bytes) \subseteq Digits <=> bytes \in Seq(Digits)
<1>1. DOMAIN bytes = 1 .. Len(bytes)
  OBVIOUS
<1>2. Range(bytes) \subseteq Digits <=> \A i \in 1 .. Len(bytes) : bytes[i] \in Digits
  BY <1>1 DEF Range
<1>3. bytes \in Seq(Digits) <=> \A i \in 1 .. Len(bytes) : bytes[i] \in Digits
  OBVIOUS
<1> QED
  BY <1>2, <1>3

\* A text that is not empty has a last byte.
LEMMA LastByte ==
  ASSUME NEW bytes \in Seq(Byte), Len(bytes) # 0
  PROVE  \E front \in Seq(Byte), d \in Byte : bytes = Append(front, d)
<1> PICK n \in Nat : n = Len(bytes)
  OBVIOUS
<1>1. n - 1 \in 0 .. n /\ n \in 1 .. n
  OBVIOUS
<1>2. SubSeq(bytes, 1, n - 1) \in Seq(Byte) /\ bytes[n] \in Byte
  BY <1>1
<1>3. bytes = Append(SubSeq(bytes, 1, n - 1), bytes[n])
  BY <1>1
<1> QED
  BY <1>2, <1>3

\* The parser returns the value of any text of digits that a u32 holds, and
\* an error for any other text: by induction over the length.
LEMMA ParseMeans ==
  ASSUME NEW bytes \in Seq(Byte)
  PROVE  ParseFileSize(bytes) = Meaning(bytes)
<1> DEFINE S == {n \in Nat : \A b \in Seq(Byte) : Len(b) = n => ParseFileSize(b) = Meaning(b)}
<1>1. 0 \in S
  <2> SUFFICES ASSUME NEW b \in Seq(Byte), Len(b) = 0
               PROVE  ParseFileSize(b) = Meaning(b)
    OBVIOUS
  <2>1. b = <<>>
    OBVIOUS
  <2>2. ParseFileSize(b) = 0 /\ ValueOf(b) = 0
    BY <2>1, ParseSteps, ValueSteps
  <2>3. Range(b) \subseteq Digits
    <3>1. \A i \in 1 .. Len(b) : b[i] \in Digits
      OBVIOUS
    <3> QED
      BY <3>1, DigitsAre
  <2> QED
    BY <2>2, <2>3, TextAssumption DEF Meaning
<1>2. ASSUME NEW n \in Nat \ {0}, n - 1 \in S
      PROVE  n \in S
  <2> SUFFICES ASSUME NEW b \in Seq(Byte), Len(b) = n
               PROVE  ParseFileSize(b) = Meaning(b)
    OBVIOUS
  <2> PICK front \in Seq(Byte), d \in Byte : b = Append(front, d)
    BY LastByte
  <2>1. b = Append(front, d) /\ Len(front) = n - 1 /\ b[n] = d
    OBVIOUS
  <2>2. ParseFileSize(front) = Meaning(front)
    BY <1>2, <2>1
  <2>3. ParseFileSize(b) = NextDigit(Meaning(front), d)
    BY <2>1, <2>2, ParseSteps
  <2>4. Range(b) \subseteq Digits <=> Range(front) \subseteq Digits /\ d \in Digits
    <3>1. /\ \A i \in 1 .. n - 1 : b[i] = front[i]
          /\ \A i \in 1 .. n : i \in 1 .. n - 1 \/ i = n
          /\ n \in 1 .. n /\ \A i \in 1 .. n - 1 : i \in 1 .. n
      BY <2>1
    <3>2. /\ Range(front) \subseteq Digits <=> \A i \in 1 .. n - 1 : front[i] \in Digits
          /\ Range(b) \subseteq Digits <=> \A i \in 1 .. n : b[i] \in Digits
      BY <2>1, DigitsAre
    <3> QED
      BY <3>1, <3>2
  <2>5. CASE Range(b) \subseteq Digits
    <3>1. front \in Seq(Digits) /\ d \in Digits
      BY <2>4, <2>5, DigitsAre
    <3>2. ValueOf(b) = 10 * ValueOf(front) + (d - 48) /\ ValueOf(front) \in Nat
      BY <2>1, <3>1, ValueSteps
    <3>3. d - 48 \in 0 .. 9
      BY <3>1 DEF Digits
    <3> PICK v \in Nat : v = ValueOf(front)
      BY <3>2
    <3>4. Meaning(front) = IF v <= MaxPosition THEN v ELSE NoSize
      BY <2>4, <2>5 DEF Meaning
    <3>5. Meaning(b) = IF 10 * v + (d - 48) <= MaxPosition THEN 10 * v + (d - 48) ELSE NoSize
      BY <2>5, <3>2 DEF Meaning
    <3>6. NextDigit(Meaning(front), d) = Meaning(b)
      <4>1. MaxPosition \in Nat /\ NoSize = MaxPosition + 1
        BY TextAssumption DEF NoSize
      <4>2. \A s \in Nat : NextDigit(s, d)
              = IF s = NoSize \/ 10 * s + d - 48 > MaxPosition THEN NoSize ELSE 10 * s + d - 48
        BY <3>1 DEF NextDigit
      <4>3. d \in Nat
        BY <3>1 DEF Digits
      <4>4. CASE v <= MaxPosition
        <5>1. Meaning(front) = v /\ v # NoSize
          BY <3>4, <4>1, <4>4
        <5> QED
          BY ONLY <3>5, <4>1, <4>2, <4>3, <5>1, v \in Nat
      <4>5. CASE ~ v <= MaxPosition
        <5>1. Meaning(front) = NoSize /\ NextDigit(NoSize, d) = NoSize
          BY <3>4, <4>1, <4>2, <4>5
        <5>2. ~ 10 * v + (d - 48) <= MaxPosition
          BY ONLY <3>3, <4>1, <4>5, v \in Nat
        <5> QED
          BY <3>5, <5>1, <5>2
      <4> QED
        BY <4>4, <4>5
    <3> QED
      BY <2>3, <3>6
  <2>6. CASE ~ Range(b) \subseteq Digits
    <3>1. Meaning(b) = NoSize
      BY <2>6 DEF Meaning
    <3>2. d \notin Digits \/ Meaning(front) = NoSize
      BY <2>4, <2>6 DEF Meaning
    <3> QED
      BY <2>3, <3>1, <3>2 DEF NextDigit
  <2> QED
    BY <2>5, <2>6
<1>3. \A n \in Nat : n \in S
  <2> HIDE DEF S
  <2> QED
    BY <1>1, <1>2, ForAll
<1> PICK n \in Nat : n = Len(bytes)
  OBVIOUS
<1>4. n \in S
  <2> HIDE DEF S
  <2> QED
    BY <1>3
<1> QED
  BY <1>4

-----------------------------------------------------------------------------
(***************************************************************************)
(* Decimal numbers are read back.                                          *)
(***************************************************************************)
Shows(f, n) ==
  (IF n < 10 THEN <<>> ELSE f[n \div 10]) \o <<48 + (n % 10)>>
ShowsUpTo(f, n) == \A k \in 0 .. n : f[k] = Shows(f, k)

\* A number has its last digit and the digits before it.
LEMMA LessDigits ==
  ASSUME NEW n \in Nat
  PROVE  /\ n \div 10 \in Nat /\ (n % 10) \in 0 .. 9 /\ n = 10 * (n \div 10) + (n % 10)
         /\ n >= 10 => n \div 10 < n
         /\ n < 10 => n \div 10 = 0 /\ (n % 10) = n
OBVIOUS

\* Decimal shows a number with its last digit appended.
LEMMA ShowType ==
  ASSUME NEW f, NEW n \in Nat, n >= 10 => f[n \div 10] \in Seq(Digits)
  PROVE  /\ Shows(f, n) \in Seq(Digits)
         /\ n < 10 => Shows(f, n) = Append(<<>>, 48 + (n % 10))
         /\ n >= 10 => Shows(f, n) = Append(f[n \div 10], 48 + (n % 10))
<1>1. 48 + (n % 10) \in Digits
  BY LessDigits DEF Digits
<1> PICK d \in Digits : d = 48 + (n % 10)
  BY <1>1
<1>2. CASE n < 10
  <2>1. Shows(f, n) = <<>> \o <<d>>
    BY <1>2 DEF Shows
  <2>2. <<>> \o <<d>> = Append(<<>>, d) /\ Append(<<>>, d) \in Seq(Digits)
    OBVIOUS
  <2> QED
    BY <1>2, <2>1, <2>2
<1>3. CASE ~ n < 10
  <2>1. Shows(f, n) = f[n \div 10] \o <<d>>
    BY <1>3 DEF Shows
  <2>2. n >= 10
    BY <1>3
  <2> PICK s \in Seq(Digits) : s = f[n \div 10]
    BY <2>2
  <2>3. s \o <<d>> = Append(s, d) /\ Append(s, d) \in Seq(Digits)
    OBVIOUS
  <2> QED
    BY <1>3, <2>1, <2>3
<1> QED
  BY <1>2, <1>3

\* The recursion has a solution up to every number ...
LEMMA ShowsExist ==
  ASSUME NEW n \in Nat
  PROVE  \E f \in [0 .. n -> Seq(Digits)] : ShowsUpTo(f, n)
<1> DEFINE S == {k \in Nat : \E f \in [0 .. k -> Seq(Digits)] : ShowsUpTo(f, k)}
<1>1. 0 \in S
  <2> PICK f : f = [k \in 0 .. 0 |-> Shows(<<>>, 0)]
    OBVIOUS
  <2>1. Shows(<<>>, 0) \in Seq(Digits)
    BY ShowType
  <2>2. Shows(f, 0) = Shows(<<>>, 0)
    BY DEF Shows
  <2>3. f \in [0 .. 0 -> Seq(Digits)] /\ ShowsUpTo(f, 0)
    BY <2>1, <2>2 DEF ShowsUpTo
  <2> QED
    BY <2>3
<1>2. ASSUME NEW k \in Nat \ {0}, k - 1 \in S
      PROVE  k \in S
  <2>1. PICK f \in [0 .. k - 1 -> Seq(Digits)] : ShowsUpTo(f, k - 1)
    BY <1>2
  <2> PICK g : g = [i \in 0 .. k |-> IF i = k THEN Shows(f, k) ELSE f[i]]
    OBVIOUS
  <2>2. \A i \in 0 .. k : i >= 10 => i \div 10 \in 0 .. k - 1
    <3> SUFFICES ASSUME NEW i \in 0 .. k, i >= 10
                 PROVE  i \div 10 \in 0 .. k - 1
      OBVIOUS
    <3>1. i \in Nat
      OBVIOUS
    <3>2. i \div 10 \in Nat /\ i \div 10 < i
      BY <3>1, LessDigits
    <3> QED
      BY <3>2
  <2>3. Shows(f, k) \in Seq(Digits)
    <3>1. k >= 10 => f[k \div 10] \in Seq(Digits)
      BY <2>2
    <3> QED
      BY <3>1, ShowType
  <2>4. g \in [0 .. k -> Seq(Digits)]
    BY <2>3
  <2>5. ASSUME NEW i \in 0 .. k
        PROVE  g[i] = Shows(g, i)
    <3>1. Shows(g, i) = Shows(f, i)
      <4>1. i >= 10 => g[i \div 10] = f[i \div 10]
        BY <2>2
      <4>2. i < 10 \/ i >= 10
        OBVIOUS
      <4> QED
        BY <4>1, <4>2 DEF Shows
    <3>2. CASE i = k
      BY <3>1, <3>2
    <3>3. CASE i # k
      <4>1. i \in 0 .. k - 1
        BY <3>3
      <4> QED
        BY <2>1, <3>1, <3>3, <4>1 DEF ShowsUpTo
    <3> QED
      BY <3>2, <3>3
  <2>6. ShowsUpTo(g, k)
    BY <2>5 DEF ShowsUpTo
  <2> QED
    BY <2>4, <2>6
<1>3. \A k \in Nat : k \in S
  <2> HIDE DEF S
  <2> QED
    BY <1>1, <1>2, ForAll
<1> QED
  BY <1>3

\* ... and only one ...
LEMMA ShowsAgree ==
  ASSUME NEW f, NEW g, NEW m \in Nat, NEW n \in Nat, ShowsUpTo(f, m), ShowsUpTo(g, n)
  PROVE  \A k \in 0 .. m : k <= n => f[k] = g[k]
<1> DEFINE S == {k \in 0 .. m : \A i \in 0 .. k : i <= n => f[i] = g[i]}
<1>0. ASSUME NEW k \in 0 .. m, k <= n, k >= 10 => f[k \div 10] = g[k \div 10]
      PROVE  f[k] = g[k]
  <2>1. k \in 0 .. n /\ (k < 10 \/ k >= 10)
    BY <1>0
  <2>2. f[k] = Shows(f, k) /\ g[k] = Shows(g, k)
    BY <2>1 DEF ShowsUpTo
  <2> QED
    BY <1>0, <2>1, <2>2 DEF Shows
<1>1. 0 \in S
  <2>1. f[0] = g[0]
    BY <1>0
  <2> QED
    BY <2>1
<1>2. ASSUME NEW k \in 1 .. m, k - 1 \in S
      PROVE  k \in S
  <2>1. \A i \in 0 .. k - 1 : i <= n => f[i] = g[i]
    BY <1>2
  <2>2. ASSUME k <= n
        PROVE  f[k] = g[k]
    <3>1. ASSUME k >= 10
          PROVE  f[k \div 10] = g[k \div 10]
      <4>1. k \div 10 \in Nat /\ k \div 10 < k
        BY <3>1, LessDigits
      <4>2. k \div 10 \in 0 .. k - 1 /\ k \div 10 <= n
        BY <2>2, <4>1
      <4> QED
        BY <2>1, <4>2
    <3> QED
      BY <1>0, <2>2, <3>1
  <2>3. \A i \in 0 .. k : i \in 0 .. k - 1 \/ i = k
    OBVIOUS
  <2> QED
    BY <2>1, <2>2, <2>3
<1>3. \A k \in 0 .. m : k \in S
  <2> HIDE DEF S
  <2> QED
    BY <1>1, <1>2, UpTo
<1>4. \A k \in 0 .. m : k \in 0 .. k
  OBVIOUS
<1> QED
  BY <1>3, <1>4

\* ... so Decimal satisfies the equation that defines it.
LEMMA DecimalIs ==
  \A n \in Nat : Decimal[n] = Shows(Decimal, n)
<1> DEFINE table(n) == CHOOSE f \in [0 .. n -> Seq(Digits)] : ShowsUpTo(f, n)
<1>1. \A n \in Nat : table(n) \in [0 .. n -> Seq(Digits)] /\ ShowsUpTo(table(n), n)
  BY ShowsExist
<1> HIDE DEF table
<1> PICK d : d = [n \in Nat |-> table(n)[n]]
  OBVIOUS
<1>2. ASSUME NEW n \in Nat
      PROVE  d[n] = Shows(d, n)
  <2>1. d[n] = Shows(table(n), n)
    <3>1. n \in 0 .. n
      OBVIOUS
    <3> QED
      BY <1>1, <3>1 DEF ShowsUpTo
  <2>2. ASSUME n >= 10
        PROVE  table(n)[n \div 10] = d[n \div 10]
    <3> PICK k \in Nat : k = n \div 10
      BY LessDigits
    <3>1. k < n
      BY <2>2, LessDigits
    <3>2. k \in 0 .. k /\ k <= n
      BY <3>1
    <3> PICK f : f = table(k)
      OBVIOUS
    <3> PICK g : g = table(n)
      OBVIOUS
    <3>3. ShowsUpTo(f, k) /\ ShowsUpTo(g, n)
      BY <1>1
    <3>4. f[k] = g[k]
      BY ONLY k \in Nat, n \in Nat, <3>2, <3>3, ShowsAgree
    <3> QED
      BY <3>4
  <2>3. n < 10 \/ n >= 10
    OBVIOUS
  <2> QED
    BY <2>1, <2>2, <2>3 DEF Shows
<1>3. d = [n \in Nat |-> (IF n < 10 THEN <<>> ELSE d[n \div 10]) \o <<48 + (n % 10)>>]
  BY <1>2 DEF Shows
<1>4. Decimal = [n \in Nat |-> (IF n < 10 THEN <<>> ELSE Decimal[n \div 10])
                               \o <<48 + (n % 10)>>]
  BY <1>3 DEF Decimal
<1> QED
  BY ONLY <1>4 DEF Shows

\* A number written in decimal has itself as its value.
LEMMA DecimalMeans ==
  \A n \in Nat : Decimal[n] \in Seq(Digits) /\ ValueOf(Decimal[n]) = n
<1> DEFINE Right(k) == Decimal[k] \in Seq(Digits) /\ ValueOf(Decimal[k]) = k
           S == {n \in Nat : \A k \in 0 .. n : Right(k)}
<1>0. ASSUME NEW n \in Nat, n >= 10 => Right(n \div 10)
      PROVE  Right(n)
  <2>1. Decimal[n] = Shows(Decimal, n)
    BY DecimalIs
  <2>2. /\ Decimal[n] \in Seq(Digits)
        /\ n < 10 => Decimal[n] = Append(<<>>, 48 + (n % 10))
        /\ n >= 10 => Decimal[n] = Append(Decimal[n \div 10], 48 + (n % 10))
    BY <1>0, <2>1, ShowType
  <2>3. /\ n \div 10 \in Nat /\ (n % 10) \in 0 .. 9 /\ n = 10 * (n \div 10) + (n % 10)
        /\ n < 10 => n \div 10 = 0 /\ (n % 10) = n
    BY LessDigits
  <2> PICK r \in 0 .. 9 : r = (n % 10)
    BY <2>3
  <2> PICK q \in Nat : q = n \div 10
    BY <2>3
  <2>4. 48 + r \in Digits /\ (48 + r) - 48 = r
    BY DEF Digits
  <2>5. CASE n < 10
    <3>1. <<>> \in Seq(Digits) /\ ValueOf(<<>>) = 0
      BY ValueSteps
    <3>2. ValueOf(Append(<<>>, 48 + r)) = 10 * 0 + r
      BY <2>4, <3>1, ValueSteps
    <3> QED
      BY <2>2, <2>3, <2>5, <3>2
  <2>6. CASE n >= 10
    <3>1. Decimal[q] \in Seq(Digits) /\ ValueOf(Decimal[q]) = q
      BY <1>0, <2>6
    <3>2. ValueOf(Append(Decimal[q], 48 + r)) = 10 * q + r
      BY <2>4, <3>1, ValueSteps
    <3> QED
      BY <2>2, <2>3, <2>6, <3>2
  <2>7. n < 10 \/ n >= 10
    OBVIOUS
  <2> QED
    BY <2>5, <2>6, <2>7
<1> HIDE DEF Right
<1>1. 0 \in S
  <2>1. Right(0)
    BY <1>0
  <2> QED
    BY <2>1
<1>2. ASSUME NEW n \in Nat \ {0}, n - 1 \in S
      PROVE  n \in S
  <2>1. \A k \in 0 .. n - 1 : Right(k)
    BY <1>2
  <2>2. ASSUME n >= 10
        PROVE  Right(n \div 10)
    <3>1. n \div 10 \in Nat /\ n \div 10 < n
      BY <2>2, LessDigits
    <3> QED
      BY <2>1, <3>1
  <2>3. Right(n)
    BY <1>0, <2>2
  <2>4. \A k \in 0 .. n : k \in 0 .. n - 1 \/ k = n
    OBVIOUS
  <2> QED
    BY <2>1, <2>3, <2>4
<1>3. \A n \in Nat : n \in S
  <2> HIDE DEF S
  <2> QED
    BY <1>1, <1>2, ForAll
<1>4. \A n \in Nat : n \in 0 .. n
  OBVIOUS
<1> QED
  BY <1>3, <1>4 DEF Right

-----------------------------------------------------------------------------
(***************************************************************************)
(* Where the fields of a payload end.                                      *)
(***************************************************************************)
\* The bytes of a part of a text.
LEMMA PartIs ==
  ASSUME NEW bytes \in Seq(Byte), NEW i \in Nat, NEW j \in 0 .. Len(bytes), 1 <= i, i <= j + 1
  PROVE  /\ SubSeq(bytes, i, j) \in Seq(Byte) /\ Len(SubSeq(bytes, i, j)) = j - i + 1
         /\ \A k \in 1 .. j - i + 1 : SubSeq(bytes, i, j)[k] = bytes[i - 1 + k]
OBVIOUS

\* The bytes of the front of a text.
LEMMA FrontIs ==
  ASSUME NEW bytes \in Seq(Byte), NEW n \in 0 .. Len(bytes)
  PROVE  /\ SubSeq(bytes, 1, n) \in Seq(Byte) /\ Len(SubSeq(bytes, 1, n)) = n
         /\ \A k \in 1 .. n : SubSeq(bytes, 1, n)[k] = bytes[k]
<1>1. /\ 1 \in Nat /\ 1 <= n + 1 /\ n - 1 + 1 = n
      /\ \A k \in 1 .. n : 1 - 1 + k = k
  OBVIOUS
<1> QED
  BY <1>1, PartIs

\* Texts with the same bytes are the same.
LEMMA SameBytes ==
  ASSUME NEW s \in Seq(Byte), NEW t \in Seq(Byte), Len(s) = Len(t),
         \A k \in 1 .. Len(s) : s[k] = t[k]
  PROVE  s = t
OBVIOUS

TextOfSize(bytes) == Before(Before(After(bytes, NUL), NUL), SP)

\* The name ends before index n + 1, the size at index m.
FieldsAt(bytes, n, m) ==
  /\ Precedes(bytes, NUL, n) /\ n < Len(bytes)
  /\ m \in n + 1 .. Len(bytes)
  /\ \A i \in n + 2 .. m : bytes[i] \notin {NUL, SP}
  /\ m < Len(bytes) => bytes[m + 1] \in {NUL, SP}

\* The fields of a payload end in one place only.
LEMMA FieldsOnce ==
  ASSUME NEW bytes \in Seq(Byte), NEW n1, NEW m1, NEW n2, NEW m2,
         FieldsAt(bytes, n1, m1), FieldsAt(bytes, n2, m2)
  PROVE  n1 = n2 /\ m1 = m2
<1>1. n1 = n2
  BY PrecedesOnce DEF FieldsAt
<1>2. ASSUME NEW k, NEW l, FieldsAt(bytes, n1, k), FieldsAt(bytes, n1, l), k < l
      PROVE  FALSE
  <2> PICK len \in Nat : len = Len(bytes)
    OBVIOUS
  <2>1. n1 \in 0 .. len /\ k \in n1 + 1 .. len /\ l \in n1 + 1 .. len
    BY <1>2 DEF FieldsAt, Precedes
  <2>2. k + 1 \in n1 + 2 .. l /\ k < len
    BY <1>2, <2>1
  <2> QED
    BY <1>2, <2>2 DEF FieldsAt
<1>3. m1 \in Nat /\ m2 \in Nat
  BY DEF FieldsAt, Precedes
<1>4. ~ m1 < m2 /\ ~ m2 < m1
  BY <1>1, <1>2
<1> QED
  BY <1>1, <1>3, <1>4

\* Splitting at NUL, at NUL and at SP finds that place.
LEMMA FieldsFound ==
  ASSUME NEW bytes \in Seq(Byte), NEW n, Precedes(bytes, NUL, n), n < Len(bytes)
  PROVE  \E m : FieldsAt(bytes, n, m) /\ TextOfSize(bytes) = SubSeq(bytes, n + 2, m)
<1> PICK len \in Nat : len = Len(bytes)
  OBVIOUS
<1>0. n \in 0 .. len - 1 /\ NUL \in Byte /\ SP \in Byte
  BY DEF Precedes, NUL, SP, Byte
<1>1. Len(Before(bytes, NUL)) = n
  BY <1>0, BeforeFinds
<1> PICK rest : rest = SubSeq(bytes, n + 2, len)
  OBVIOUS
<1>2. /\ rest \in Seq(Byte) /\ Len(rest) = len - n - 1
      /\ \A i \in 1 .. len - n - 1 : rest[i] = bytes[n + 1 + i]
  BY <1>0
<1>3. After(bytes, NUL) = rest
  BY <1>1 DEF After
<1>4. PICK a : Precedes(rest, NUL, a) /\ Before(rest, NUL) = SubSeq(rest, 1, a)
  BY <1>0, <1>2, BeforeIs
<1>5. a \in 0 .. len - n - 1
  BY <1>2, <1>4 DEF Precedes
<1> PICK field : field = SubSeq(rest, 1, a)
  OBVIOUS
<1>6. /\ field \in Seq(Byte) /\ Len(field) = a
      /\ \A i \in 1 .. a : field[i] = rest[i]
  <2>1. a \in 0 .. Len(rest)
    BY <1>2, <1>5
  <2> QED
    BY <1>2, <2>1, FrontIs
<1>7. PICK b : Precedes(field, SP, b) /\ Before(field, SP) = SubSeq(field, 1, b)
  BY <1>0, <1>6, BeforeIs
<1>8. b \in 0 .. a
  BY <1>6, <1>7 DEF Precedes
<1> PICK m : m = n + 1 + b
  OBVIOUS
<1>9. m \in n + 1 .. len
  BY <1>0, <1>5, <1>8
<1>10. ASSUME NEW i \in n + 2 .. m
       PROVE  bytes[i] \notin {NUL, SP}
  <2> PICK k \in 1 .. b : i = n + 1 + k
    <3>1. i - (n + 1) \in 1 .. b /\ i = n + 1 + (i - (n + 1))
      BY <1>0, <1>8
    <3> QED
      BY <3>1
  <2>1. k \in 1 .. a /\ k \in 1 .. len - n - 1
    BY <1>0, <1>5, <1>8
  <2>2. field[k] # SP
    BY <1>7 DEF Precedes
  <2>3. rest[k] # NUL
    BY <1>4, <2>1 DEF Precedes
  <2> QED
    BY <1>2, <1>6, <2>1, <2>2, <2>3
<1>11. ASSUME m < len
       PROVE  bytes[m + 1] \in {NUL, SP}
  <2>1. b + 1 \in 1 .. len - n - 1 /\ n + 1 + (b + 1) = m + 1
    BY <1>0, <1>5, <1>8, <1>11
  <2>2. rest[b + 1] = bytes[m + 1]
    BY <1>2, <2>1
  <2>3. CASE b < a
    <3>1. field[b + 1] = SP /\ b + 1 \in 1 .. a
      BY <1>5, <1>6, <1>7, <1>8, <2>3 DEF Precedes
    <3> QED
      BY <1>6, <2>2, <3>1
  <2>4. CASE b = a
    <3>1. a < Len(rest)
      BY <1>0, <1>2, <1>5, <2>1, <2>4
    <3>2. rest[a + 1] = NUL
      BY <1>4, <3>1 DEF Precedes
    <3> QED
      BY <2>2, <2>4, <3>2
  <2> QED
    BY <1>5, <1>8, <2>3, <2>4
<1>12. FieldsAt(bytes, n, m)
  BY <1>9, <1>10, <1>11 DEF FieldsAt
<1>13. TextOfSize(bytes) = SubSeq(field, 1, b)
  BY <1>3, <1>4, <1>7 DEF TextOfSize
<1>14. SubSeq(field, 1, b) = SubSeq(bytes, n + 2, m)
  <2> PICK s : s = SubSeq(field, 1, b)
    OBVIOUS
  <2> PICK t : t = SubSeq(bytes, n + 2, m)
    OBVIOUS
  <2>1. /\ s \in Seq(Byte) /\ Len(s) = b
        /\ \A k \in 1 .. b : s[k] = field[k]
    <3>1. b \in 0 .. Len(field)
      BY <1>6, <1>8
    <3> QED
      BY <1>6, <3>1, FrontIs
  <2>2. /\ t \in Seq(Byte) /\ Len(t) = b
        /\ \A k \in 1 .. b : t[k] = bytes[n + 1 + k]
    <3>1. n + 2 \in Nat /\ m \in 0 .. Len(bytes) /\ 1 <= n + 2 /\ n + 2 <= m + 1
      BY <1>0, <1>8, <1>9
    <3>2. /\ t \in Seq(Byte) /\ Len(t) = m - (n + 2) + 1
          /\ \A k \in 1 .. m - (n + 2) + 1 : t[k] = bytes[(n + 2) - 1 + k]
      BY <3>1, PartIs
    <3>3. m - (n + 2) + 1 = b /\ \A k \in 1 .. b : (n + 2) - 1 + k = n + 1 + k
      BY <1>0, <1>8
    <3> QED
      BY ONLY <3>2, <3>3
  <2>3. ASSUME NEW k \in 1 .. b
        PROVE  s[k] = t[k]
    <3>1. k \in 1 .. a /\ k \in 1 .. len - n - 1
      BY <1>0, <1>5, <1>8
    <3> QED
      BY <1>2, <1>6, <2>1, <2>2, <3>1
  <2> QED
    BY <2>1, <2>2, <2>3, SameBytes
<1> QED
  BY <1>12, <1>13, <1>14

\* What precedes the first NUL is a name if its length fits.
LEMMA NameIs ==
  ASSUME NEW bytes \in Seq(Byte), NEW n, Precedes(bytes, NUL, n)
  PROVE  /\ IsName(SubSeq(bytes, 1, n)) <=> n \in 1 .. StringCap
         /\ SubSeq(bytes, 1, n) \in Seq(Byte) /\ Len(SubSeq(bytes, 1, n)) = n
<1>1. n \in 0 .. Len(bytes) /\ \A i \in 1 .. n : bytes[i] # NUL
  BY DEF Precedes
<1> PICK s : s = SubSeq(bytes, 1, n)
  OBVIOUS
<1>2. s \in Seq(Byte) /\ Len(s) = n /\ \A i \in 1 .. n : s[i] = bytes[i]
  BY <1>1, FrontIs
<1>3. DOMAIN s = 1 .. n
  BY <1>2
<1>4. NUL \notin Range(s)
  BY <1>1, <1>2, <1>3 DEF Range
<1> QED
  BY <1>2, <1>4 DEF IsName

\* A name that holds no NUL stands before the NUL.
LEMMA NameEnds ==
  ASSUME NEW bytes \in Seq(Byte), NEW n \in 0 .. Len(bytes), IsName(SubSeq(bytes, 1, n)),
         n < Len(bytes) => bytes[n + 1] = NUL
  PROVE  Precedes(bytes, NUL, n)
<1> PICK s : s = SubSeq(bytes, 1, n)
  OBVIOUS
<1>1. s \in Seq(Byte) /\ Len(s) = n /\ \A i \in 1 .. n : s[i] = bytes[i]
  BY FrontIs
<1>2. DOMAIN s = 1 .. n
  BY <1>1
<1>3. \A i \in 1 .. n : bytes[i] # NUL
  BY <1>1, <1>2 DEF Range, IsName
<1> QED
  BY <1>3 DEF Precedes

\* Where a size stands, the fields end, and only there.
LEMMA SizesEnd ==
  ASSUME NEW bytes \in Seq(Byte), bytes = zfileBuf, NEW i, NEW j
  PROVE  <<i, j>> \in SizesIn <=>
           /\ FieldsAt(bytes, i - 1, j) /\ i \in 1 .. Len(bytes)
           /\ IsName(SubSeq(bytes, 1, i - 1))
           /\ Meaning(SubSeq(bytes, i + 1, j)) # NoSize
<1> PICK len \in Nat : len = Len(bytes)
  OBVIOUS
<1> DEFINE Stands ==
      /\ i \in 1 .. len /\ j \in 1 .. len /\ i <= j /\ bytes[i] = NUL
      /\ IsName(SubSeq(bytes, 1, i - 1))
      /\ Range(SubSeq(bytes, i + 1, j)) \subseteq Digits
      /\ j < len => bytes[j + 1] \in {NUL, SP}
      /\ ValueOf(SubSeq(bytes, i + 1, j)) <= MaxPosition
<1>1. <<i, j>> \in SizesIn <=> Stands
  BY DEF SizesIn
<1>2. NoSize = MaxPosition + 1 /\ MaxPosition \in Nat
  BY TextAssumption DEF NoSize
<1>3. ASSUME i \in 1 .. len, j \in 1 .. len, i <= j
      PROVE  LET text == SubSeq(bytes, i + 1, j)
             IN  /\ Meaning(text) # NoSize <=>
                      Range(text) \subseteq Digits /\ ValueOf(text) <= MaxPosition
                 /\ Range(text) \subseteq Digits =>
                      \A k \in i + 1 .. j : bytes[k] \in Digits
  <2> PICK text : text = SubSeq(bytes, i + 1, j)
    OBVIOUS
  <2>1. /\ text \in Seq(Byte) /\ Len(text) = j - (i + 1) + 1
        /\ \A k \in 1 .. j - (i + 1) + 1 : text[k] = bytes[(i + 1) - 1 + k]
    <3>1. i + 1 \in Nat /\ j \in 0 .. Len(bytes) /\ 1 <= i + 1 /\ i + 1 <= j + 1
      BY <1>3
    <3> QED
      BY <3>1, PartIs
  <2>2. j - (i + 1) + 1 = j - i /\ \A k \in 1 .. j - i : (i + 1) - 1 + k = i + k
    BY <1>3
  <2>3. Len(text) = j - i /\ \A k \in 1 .. j - i : text[k] = bytes[i + k]
    BY ONLY <2>1, <2>2
  <2>4. Range(text) \subseteq Digits => text \in Seq(Digits)
    BY <2>1, DigitsAre
  <2>5. Range(text) \subseteq Digits => ValueOf(text) \in Nat
    BY <2>4, ValueSteps
  <2>6. Meaning(text) # NoSize <=>
          Range(text) \subseteq Digits /\ ValueOf(text) <= MaxPosition
    BY <1>2, <2>5 DEF Meaning
  <2>7. ASSUME Range(text) \subseteq Digits, NEW k \in i + 1 .. j
        PROVE  bytes[k] \in Digits
    <3>1. k - i \in 1 .. j - i /\ i + (k - i) = k
      BY <1>3
    <3>2. text[k - i] \in Digits
      BY <2>1, <2>3, <2>7, <3>1, DigitsAre
    <3> QED
      BY <2>3, <3>1, <3>2
  <2> QED
    BY <2>6, <2>7
<1>4. ASSUME Stands
      PROVE  /\ FieldsAt(bytes, i - 1, j) /\ i \in 1 .. len
             /\ IsName(SubSeq(bytes, 1, i - 1))
             /\ Meaning(SubSeq(bytes, i + 1, j)) # NoSize
  <2>1. i - 1 \in 0 .. len /\ i - 1 < len /\ (i - 1) + 1 = i /\ (i - 1) + 2 = i + 1
    BY <1>4
  <2>2. Precedes(bytes, NUL, i - 1)
    BY <1>4, <2>1, NameEnds
  <2>3. Meaning(SubSeq(bytes, i + 1, j)) # NoSize /\ \A k \in i + 1 .. j : bytes[k] \in Digits
    BY <1>3, <1>4
  <2>4. \A k \in i + 1 .. j : bytes[k] \notin {NUL, SP}
    BY <2>3 DEF NUL, SP, Digits
  <2>5. j \in i .. len
    BY <1>4
  <2>6. FieldsAt(bytes, i - 1, j)
    BY <1>4, <2>1, <2>2, <2>4, <2>5 DEF FieldsAt
  <2> QED
    BY <1>4, <2>3, <2>6
<1>5. ASSUME FieldsAt(bytes, i - 1, j), i \in 1 .. len,
             IsName(SubSeq(bytes, 1, i - 1)), Meaning(SubSeq(bytes, i + 1, j)) # NoSize
      PROVE  Stands
  <2>1. (i - 1) + 1 = i
    BY <1>5
  <2>2. bytes[i] = NUL /\ j \in i .. len /\ (j < len => bytes[j + 1] \in {NUL, SP})
    BY <1>5, <2>1 DEF FieldsAt, Precedes
  <2>3. j \in 1 .. len /\ i <= j
    BY <1>5, <2>2
  <2> QED
    BY <1>3, <1>5, <2>2, <2>3
<1> QED
  BY <1>1, <1>4, <1>5

-----------------------------------------------------------------------------
(***************************************************************************)
(* A payload announces the file the receiver finds in it, or none.         *)
(***************************************************************************)
\* A payload without NUL is a name, and the size is 0.
LEMMA WholeName ==
  ASSUME NEW bytes \in Seq(Byte), bytes = zfileBuf, Precedes(bytes, NUL, Len(bytes))
  PROVE  /\ NameField = bytes /\ SizeField = 0 /\ SizesIn = {}
         /\ IsName(bytes) <=> Len(bytes) \in 1 .. StringCap
<1> PICK len \in Nat : len = Len(bytes)
  OBVIOUS
<1>0. NUL \in Byte /\ SP \in Byte
  BY DEF NUL, SP, Byte
<1>1. bytes = SubSeq(bytes, 1, len)
  OBVIOUS
<1>2. NameField = bytes
  BY <1>0, <1>1, BeforeFinds DEF NameField
<1>3. IsName(bytes) <=> len \in 1 .. StringCap
  BY <1>1, NameIs
<1>4. SizeField = 0
  <2>0. <<>> \in Seq(Byte)
    OBVIOUS
  <2> PICK none \in Seq(Byte) : none = <<>>
    BY <2>0
  <2>1. After(bytes, NUL) = none
    <3>1. Before(bytes, NUL) = bytes
      BY <1>2 DEF NameField
    <3>2. SubSeq(bytes, len + 2, len) = none
      OBVIOUS
    <3> QED
      BY <3>1, <3>2 DEF After
  <2>2. ASSUME NEW separator \in Byte
        PROVE  Before(none, separator) = none
    <3>1. Precedes(none, separator, 0)
      BY DEF Precedes
    <3>2. SubSeq(none, 1, 0) = none
      OBVIOUS
    <3> QED
      BY <3>1, <3>2, BeforeFinds
  <2>3. SizeField = ParseFileSize(none)
    BY <1>0, <2>1, <2>2 DEF SizeField
  <2> QED
    BY <2>3, ParseSteps
<1>5. SizesIn = {}
  <2> SUFFICES ASSUME NEW p \in SizesIn
               PROVE  FALSE
    OBVIOUS
  <2>1. p[1] \in 1 .. len /\ bytes[p[1]] = NUL
    BY DEF SizesIn
  <2> QED
    BY <2>1 DEF Precedes
<1> QED
  BY <1>2, <1>3, <1>4, <1>5

\* A payload with a NUL has a name and the text of a size.
LEMMA NameAndSize ==
  ASSUME NEW bytes \in Seq(Byte), bytes = zfileBuf,
         NEW n, NEW m, FieldsAt(bytes, n, m)
  PROVE  /\ NameField = SubSeq(bytes, 1, n) /\ Len(NameField) = n /\ ~ IsName(bytes)
         /\ IsName(NameField) <=> n \in 1 .. StringCap
         /\ SizeField = Meaning(SubSeq(bytes, n + 2, m))
         /\ SizeField = ParseFileSize(SubSeq(bytes, n + 2, m))
         /\ SizesIn = IF IsName(NameField) /\ SizeField # NoSize THEN {<<n + 1, m>>} ELSE {}
<1> PICK len \in Nat : len = Len(bytes)
  OBVIOUS
<1>0. NUL \in Byte /\ SP \in Byte
  BY DEF NUL, SP, Byte
<1>1. Precedes(bytes, NUL, n) /\ n < len /\ n \in 0 .. len /\ m \in n + 1 .. len
  BY DEF FieldsAt, Precedes
<1>2. NameField = SubSeq(bytes, 1, n) /\ Len(NameField) = n
  BY <1>0, <1>1, BeforeFinds DEF NameField
<1>3. IsName(NameField) <=> n \in 1 .. StringCap
  BY <1>1, <1>2, NameIs
<1>4. ~ IsName(bytes)
  <2>1. n + 1 \in DOMAIN bytes /\ bytes[n + 1] = NUL
    BY <1>1 DEF Precedes
  <2> QED
    BY <2>1 DEF IsName, Range
<1>5. TextOfSize(bytes) = SubSeq(bytes, n + 2, m)
  <2>1. PICK k : FieldsAt(bytes, n, k) /\ TextOfSize(bytes) = SubSeq(bytes, n + 2, k)
    BY <1>1, FieldsFound
  <2>2. k = m
    BY <2>1, FieldsOnce
  <2> QED
    BY <2>1, <2>2
<1>6. SizeField = ParseFileSize(SubSeq(bytes, n + 2, m))
  BY <1>5 DEF SizeField, TextOfSize
<1>7. SubSeq(bytes, n + 2, m) \in Seq(Byte)
  <2>1. n + 2 \in Nat /\ m \in 0 .. len /\ 1 <= n + 2 /\ n + 2 <= m + 1
    BY <1>1
  <2> QED
    BY <2>1, PartIs
<1>8. SizeField = Meaning(SubSeq(bytes, n + 2, m))
  BY <1>6, <1>7, ParseMeans
<1>9. ASSUME NEW p \in SizesIn
      PROVE  p = <<n + 1, m>> /\ IsName(NameField) /\ SizeField # NoSize
  <2>1. PICK i \in 1 .. len, j \in 1 .. len : p = <<i, j>>
    BY DEF SizesIn
  <2>2. /\ FieldsAt(bytes, i - 1, j) /\ IsName(SubSeq(bytes, 1, i - 1))
        /\ Meaning(SubSeq(bytes, i + 1, j)) # NoSize
    BY <2>1, SizesEnd
  <2>3. i - 1 = n /\ j = m
    BY <2>2, FieldsOnce
  <2>4. i = n + 1 /\ i + 1 = n + 2
    BY <1>1, <2>3
  <2> QED
    BY <1>2, <1>8, <2>1, <2>2, <2>3, <2>4
<1>10. ASSUME IsName(NameField), SizeField # NoSize
       PROVE  <<n + 1, m>> \in SizesIn
  <2>1. (n + 1) - 1 = n /\ (n + 1) + 1 = n + 2 /\ n + 1 \in 1 .. len
    BY <1>1
  <2> QED
    BY <1>2, <1>8, <1>10, <2>1, SizesEnd
<1>11. SizesIn = IF IsName(NameField) /\ SizeField # NoSize THEN {<<n + 1, m>>} ELSE {}
  BY <1>9, <1>10
<1> QED
  BY <1>2, <1>3, <1>4, <1>6, <1>8, <1>11

\* The file a payload announces is the one of its fields.
LEMMA FilesAre ==
  ASSUME zfileBuf \in Seq(Byte)
  PROVE  /\ Len(NameField) \in Nat /\ (Len(NameField) = 0 => NameField = <<>>)
         /\ NameField = <<>> => Len(NameField) = 0
         /\ SizeField \in Size
         /\ FilesIn = IF Len(NameField) \in 1 .. StringCap /\ SizeField # NoSize
                      THEN {[name |-> NameField, size |-> SizeField]} ELSE {}
<1> PICK bytes \in Seq(Byte) : bytes = zfileBuf
  OBVIOUS
<1> PICK len \in Nat : len = Len(bytes)
  OBVIOUS
<1>0. NUL \in Byte
  BY DEF NUL, Byte
<1>1. PICK n : Precedes(bytes, NUL, n) /\ NameField = SubSeq(bytes, 1, n)
  BY <1>0, BeforeIs DEF NameField
<1>2. n \in 0 .. len
  BY <1>1 DEF Precedes
<1>3. NameField \in Seq(Byte) /\ Len(NameField) = n
  BY <1>1, <1>2, FrontIs
<1>4. NoSize = MaxPosition + 1 /\ MaxPosition \in Nat
  BY TextAssumption DEF NoSize
<1>5. CASE n = len
  <2>1. /\ NameField = bytes /\ SizeField = 0 /\ SizesIn = {}
        /\ IsName(bytes) <=> len \in 1 .. StringCap
    BY <1>1, <1>5, WholeName
  <2>2. FilesIn = {[name |-> whole, size |-> 0] : whole \in {p \in {bytes} : IsName(p)}}
    BY <2>1 DEF FilesIn
  <2>3. FilesIn = IF IsName(bytes) THEN {[name |-> bytes, size |-> 0]} ELSE {}
    BY <2>2
  <2>4. SizeField \in Size /\ SizeField # NoSize
    BY <1>4, <2>1 DEF Size
  <2> QED
    BY <1>3, <2>1, <2>3, <2>4
<1>6. CASE n # len
  <2>0. n < Len(bytes)
    BY <1>2, <1>6
  <2>1. PICK m : FieldsAt(bytes, n, m)
    BY <1>1, <2>0, FieldsFound
  <2>2. /\ ~ IsName(bytes) /\ (IsName(NameField) <=> n \in 1 .. StringCap)
        /\ SizeField = Meaning(SubSeq(bytes, n + 2, m))
        /\ SizesIn = IF IsName(NameField) /\ SizeField # NoSize THEN {<<n + 1, m>>} ELSE {}
    BY <2>1, NameAndSize
  <2>3. n + 2 \in Nat /\ m \in 0 .. len /\ 1 <= n + 2 /\ n + 2 <= m + 1
    BY <1>2, <2>1 DEF FieldsAt
  <2> PICK text \in Seq(Byte) : text = SubSeq(bytes, n + 2, m)
    BY <2>3, PartIs
  <2>4. SizeField \in Size
    <3>1. ParseFileSize(text) \in Size
      BY ParseSteps
    <3> QED
      BY <2>2, <3>1, ParseMeans
  <2>5. FilesIn = {[name |-> SubSeq(bytes, 1, p[1] - 1),
                    size |-> ValueOf(SubSeq(bytes, p[1] + 1, p[2]))] : p \in SizesIn}
    BY <2>2 DEF FilesIn
  <2>6. CASE IsName(NameField) /\ SizeField # NoSize
    <3>1. SizesIn = {<<n + 1, m>>}
      BY <2>2, <2>6
    <3>2. FilesIn = {[name |-> SubSeq(bytes, 1, (n + 1) - 1),
                      size |-> ValueOf(SubSeq(bytes, (n + 1) + 1, m))]}
      BY <2>5, <3>1
    <3>3. (n + 1) - 1 = n /\ (n + 1) + 1 = n + 2
      BY <1>2
    <3>4. ValueOf(text) = SizeField
      BY <2>2, <2>6 DEF Meaning
    <3>5. FilesIn = {[name |-> NameField, size |-> SizeField]}
      BY <1>1, <3>2, <3>3, <3>4
    <3> QED
      BY <1>3, <2>2, <2>4, <2>6, <3>5
  <2>7. CASE ~ (IsName(NameField) /\ SizeField # NoSize)
    <3>1. FilesIn = {}
      BY <2>2, <2>5, <2>7
    <3> QED
      BY <1>3, <2>2, <2>4, <2>7, <3>1
  <2> QED
    BY <2>6, <2>7
<1> QED
  BY <1>5, <1>6

-----------------------------------------------------------------------------
(***************************************************************************)
(* The fields of a payload this library writes.                            *)
(***************************************************************************)
\* A text that stands in another one is a part of it.
LEMMA PartEquals ==
  ASSUME NEW bytes \in Seq(Byte), NEW part \in Seq(Byte), NEW i \in Nat,
         i + Len(part) <= Len(bytes),
         \A k \in 1 .. Len(part) : bytes[i + k] = part[k]
  PROVE  SubSeq(bytes, i + 1, i + Len(part)) = part
<1> PICK n \in Nat : n = Len(part)
  OBVIOUS
<1> PICK s : s = SubSeq(bytes, i + 1, i + n)
  OBVIOUS
<1>1. /\ i + 1 \in Nat /\ i + n \in 0 .. Len(bytes) /\ 1 <= i + 1 /\ i + 1 <= (i + n) + 1
      /\ (i + n) - (i + 1) + 1 = n /\ \A k \in 1 .. n : (i + 1) - 1 + k = i + k
  OBVIOUS
<1>2. s \in Seq(Byte) /\ Len(s) = n /\ \A k \in 1 .. n : s[k] = bytes[i + k]
  <2>1. /\ s \in Seq(Byte) /\ Len(s) = (i + n) - (i + 1) + 1
        /\ \A k \in 1 .. (i + n) - (i + 1) + 1 : s[k] = bytes[(i + 1) - 1 + k]
    BY <1>1, PartIs
  <2> QED
    BY ONLY <1>1, <2>1
<1>3. \A k \in 1 .. n : s[k] = part[k]
  BY <1>2
<1> QED
  BY <1>2, <1>3, SameBytes

\* What stands where in a payload that is written.
LEMMA Layout ==
  ASSUME NEW name \in Seq(Byte), NEW text \in Seq(Byte), NEW all \in Seq(Byte),
         all = name \o <<NUL>> \o text \o <<NUL>>
  PROVE  /\ Len(all) = Len(name) + Len(text) + 2
         /\ \A i \in 1 .. Len(name) : all[i] = name[i]
         /\ all[Len(name) + 1] = NUL
         /\ \A i \in 1 .. Len(text) : all[Len(name) + 1 + i] = text[i]
         /\ all[Len(name) + Len(text) + 2] = NUL
<1> PICK n \in Nat : n = Len(name)
  OBVIOUS
<1> PICK c \in Nat : c = Len(text)
  OBVIOUS
<1>0. <<NUL>> \in Seq(Byte)
  BY DEF NUL, Byte
<1>1. name \o <<NUL>> \in Seq(Byte)
  BY <1>0
<1> PICK front \in Seq(Byte) : front = name \o <<NUL>>
  BY <1>1
<1>2. /\ Len(front) = n + 1 /\ front[n + 1] = NUL
      /\ \A i \in 1 .. n : front[i] = name[i]
  BY <1>0
<1>3. front \o text \in Seq(Byte)
  OBVIOUS
<1> PICK most \in Seq(Byte) : most = front \o text
  BY <1>3
<1>4. /\ Len(most) = n + 1 + c
      /\ \A i \in 1 .. n + 1 : most[i] = front[i]
      /\ \A i \in 1 .. c : most[n + 1 + i] = text[i]
  BY <1>2
<1>5. all = most \o <<NUL>>
  OBVIOUS
<1>6. /\ Len(all) = n + c + 2 /\ all[n + c + 2] = NUL
      /\ \A i \in 1 .. n + 1 + c : all[i] = most[i]
  BY <1>0, <1>4, <1>5
<1>7. /\ \A i \in 1 .. n : i \in 1 .. n + 1 /\ i \in 1 .. n + 1 + c
      /\ n + 1 \in 1 .. n + 1 /\ n + 1 \in 1 .. n + 1 + c
      /\ \A i \in 1 .. c : n + 1 + i \in 1 .. n + 1 + c
  BY ONLY n \in Nat, c \in Nat
<1> QED
  BY <1>2, <1>4, <1>6, <1>7

\* Its fields end where its separators stand.
LEMMA FieldsOf ==
  ASSUME NEW all \in Seq(Byte), NEW n \in Nat, NEW c \in Nat,
         Len(all) = n + c + 2,
         \A i \in 1 .. n : all[i] # NUL,
         all[n + 1] = NUL,
         \A i \in 1 .. c : all[n + 1 + i] \in Digits,
         all[n + c + 2] = NUL
  PROVE  FieldsAt(all, n, n + 1 + c)
<1>1. Precedes(all, NUL, n)
  BY DEF Precedes
<1>2. ASSUME NEW i \in n + 2 .. n + 1 + c
      PROVE  all[i] \notin {NUL, SP}
  <2>1. i - (n + 1) \in 1 .. c /\ n + 1 + (i - (n + 1)) = i
    OBVIOUS
  <2>2. all[i] \in Digits
    BY <2>1
  <2> QED
    BY <2>2 DEF NUL, SP, Digits
<1>3. n + 1 + c \in n + 1 .. Len(all) /\ n < Len(all) /\ (n + 1 + c) + 1 = n + c + 2
  OBVIOUS
<1> QED
  BY <1>1, <1>2, <1>3 DEF FieldsAt

\* They are the name and the size the sender is given.
LEMMA WrittenFields ==
  ASSUME NEW name \in FileNames, NEW size \in 0 .. MaxPosition
  PROVE  \E n, m : /\ ZfilePayload(name, size) \in Seq(Byte)
                   /\ FieldsAt(ZfilePayload(name, size), n, m)
                   /\ SubSeq(ZfilePayload(name, size), 1, n) = name
                   /\ SubSeq(ZfilePayload(name, size), n + 2, m) = Decimal[size]
                   /\ n = Len(name) /\ n \in 1 .. StringCap
<1>1. Decimal[size] \in Seq(Digits)
  BY DecimalMeans, TextAssumption
<1>2. Decimal[size] \in Seq(Byte) /\ name \in Seq(Byte) /\ <<NUL>> \in Seq(Byte)
  BY <1>1, FileNamesAssumption DEF Byte, Digits, NUL
<1>3. ZfilePayload(name, size) \in Seq(Byte)
  BY <1>2 DEF ZfilePayload
<1> PICK who \in Seq(Byte) : who = name
  BY <1>2
<1> PICK text \in Seq(Byte) : text = Decimal[size]
  BY <1>2
<1> PICK all \in Seq(Byte) : all = ZfilePayload(name, size)
  BY <1>3
<1> PICK n \in Nat : n = Len(who)
  OBVIOUS
<1> PICK c \in Nat : c = Len(text)
  OBVIOUS
<1>4. n \in 1 .. StringCap /\ \A i \in 1 .. n : who[i] # NUL
  <2>1. who # <<>> /\ Len(who) <= StringCap /\ NUL \notin Range(who)
    BY FileNamesAssumption
  <2>2. DOMAIN who = 1 .. n /\ n # 0
    BY <2>1
  <2> QED
    BY <2>1, <2>2, TextAssumption DEF Range
<1>5. /\ Len(all) = n + c + 2
      /\ \A i \in 1 .. n : all[i] = who[i]
      /\ all[n + 1] = NUL
      /\ \A i \in 1 .. c : all[n + 1 + i] = text[i]
      /\ all[n + c + 2] = NUL
  <2>1. all = who \o <<NUL>> \o text \o <<NUL>>
    BY DEF ZfilePayload
  <2>2. /\ who \in Seq(Byte) /\ text \in Seq(Byte) /\ all \in Seq(Byte)
        /\ n = Len(who) /\ c = Len(text)
    OBVIOUS
  <2> QED
    BY ONLY <2>1, <2>2, Layout
<1>6. FieldsAt(all, n, n + 1 + c)
  <2>1. text \in Seq(Digits)
    BY <1>1
  <2>2. \A i \in 1 .. c : text[i] \in Digits
    BY <2>1
  <2>3. /\ \A i \in 1 .. n : all[i] # NUL
        /\ \A i \in 1 .. c : all[n + 1 + i] \in Digits
    BY ONLY <1>4, <1>5, <2>2
  <2>4. all \in Seq(Byte) /\ n \in Nat /\ c \in Nat
    OBVIOUS
  <2> QED
    BY ONLY <1>5, <2>3, <2>4, FieldsOf
<1>7. SubSeq(all, 1, n) = who
  <2>1. /\ 0 \in Nat /\ 0 + n <= Len(all) /\ 0 + 1 = 1 /\ 0 + n = n
        /\ \A k \in 1 .. n : 0 + k = k
    BY ONLY <1>5, n \in Nat, c \in Nat
  <2>2. \A k \in 1 .. n : all[0 + k] = who[k]
    BY ONLY <1>5, <2>1
  <2>3. all \in Seq(Byte) /\ who \in Seq(Byte) /\ n = Len(who)
    OBVIOUS
  <2> QED
    BY ONLY <2>1, <2>2, <2>3, PartEquals
<1>8. SubSeq(all, n + 2, n + 1 + c) = text
  <2>1. n + 1 \in Nat /\ n + 1 + c <= Len(all) /\ (n + 1) + 1 = n + 2
    BY ONLY <1>5, n \in Nat, c \in Nat
  <2>2. \A k \in 1 .. c : all[n + 1 + k] = text[k]
    BY ONLY <1>5
  <2>3. all \in Seq(Byte) /\ text \in Seq(Byte) /\ c = Len(text)
    OBVIOUS
  <2> QED
    BY ONLY <2>1, <2>2, <2>3, PartEquals
<1> QED
  BY <1>4, <1>6, <1>7, <1>8

\* The receiver finds in it what the sender was given.
LEMMA WrittenIs ==
  ASSUME NEW name \in FileNames, NEW size \in 0 .. MaxPosition,
         zfileBuf = ZfilePayload(name, size)
  PROVE  /\ NameField = name /\ Len(NameField) \in 1 .. StringCap
         /\ SizeField = size /\ size # NoSize
<1>1. PICK n, m : /\ ZfilePayload(name, size) \in Seq(Byte)
                  /\ FieldsAt(ZfilePayload(name, size), n, m)
                  /\ SubSeq(ZfilePayload(name, size), 1, n) = name
                  /\ SubSeq(ZfilePayload(name, size), n + 2, m) = Decimal[size]
                  /\ n = Len(name) /\ n \in 1 .. StringCap
  BY WrittenFields
<1>2. /\ NameField = name /\ Len(NameField) = n
      /\ SizeField = ParseFileSize(Decimal[size])
  BY <1>1, NameAndSize
<1>3. size \in Nat /\ size <= MaxPosition /\ size # NoSize
  BY TextAssumption DEF NoSize
<1>4. Decimal[size] \in Seq(Digits) /\ ValueOf(Decimal[size]) = size
  BY <1>3, DecimalMeans
<1>5. Decimal[size] \in Seq(Byte)
  BY <1>4 DEF Digits, Byte
<1>6. ParseFileSize(Decimal[size]) = Meaning(Decimal[size])
  BY <1>5, ParseMeans
<1>7. Range(Decimal[size]) \subseteq Digits
  BY <1>4, <1>5, DigitsAre
<1> QED
  BY <1>1, <1>2, <1>3, <1>4, <1>6, <1>7 DEF Meaning

-----------------------------------------------------------------------------
(***************************************************************************)
(* The invariant: where the payload comes from, and what parse_zfile_buf   *)
(* found in it when it gave each of its answers.                           *)
(***************************************************************************)
Written ==
  announced # Nothing =>
    /\ announced.name \in FileNames /\ announced.size \in 0 .. MaxPosition
    /\ announced = [name |-> announced.name, size |-> announced.size]
    /\ zfileBuf = ZfilePayload(announced.name, announced.size)

Answered ==
  \/ parsed = "Pending"
  \/ parsed = "MalformedFileName" /\ NameField = <<>>
  \/ parsed = "OutOfMemory" /\ Len(NameField) > StringCap
  \/ /\ parsed = "MalformedFileSize"
     /\ Len(NameField) \in 1 .. StringCap /\ SizeField = NoSize
  \/ /\ parsed = "Ok"
     /\ Len(NameField) \in 1 .. StringCap /\ SizeField # NoSize
     /\ fileName = NameField /\ fileSize = SizeField

FileInv == zfileBuf \in Seq(Byte) /\ Written /\ Answered

\* Every operation keeps it: for every MaxPosition, StringCap and Text.
THEOREM FileInvHolds == FileSpec => []FileInv
<1>1. FileInit => FileInv
  <2>1. <<>> \in Seq(Byte)
    OBVIOUS
  <2> QED
    BY <2>1 DEF FileInit, FileInv, Written, Answered
<1>2. FileInv /\ [FileNext]_fileVars => FileInv'
  <2> SUFFICES ASSUME FileInv, [FileNext]_fileVars
               PROVE  FileInv'
    OBVIOUS
  <2>1. ASSUME NEW name \in FileNames, NEW size \in 0 .. MaxPosition, WriteZfile(name, size)
        PROVE  FileInv'
    <3>1. ZfilePayload(name, size) \in Seq(Byte)
      BY WrittenFields
    <3>2. Written'
      BY <2>1 DEF WriteZfile, Written
    <3>3. Answered'
      BY <2>1 DEF WriteZfile, Answered
    <3> QED
      BY <2>1, <3>1, <3>2, <3>3 DEF WriteZfile, FileInv
  <2>2. ASSUME NEW byte \in Text, Collect(byte)
        PROVE  FileInv'
    <3>1. byte \in Byte
      BY TextAssumption DEF Byte
    <3>2. zfileBuf' \in Seq(Byte)
      BY <2>2, <3>1 DEF Collect, FileInv
    <3>3. Written'
      BY <2>2 DEF Collect, Written
    <3>4. Answered'
      BY <2>2 DEF Collect, Answered
    <3> QED
      BY <3>2, <3>3, <3>4 DEF FileInv
  <2>3. ASSUME ParseZfileBuf
        PROVE  FileInv'
    <3>1. zfileBuf' = zfileBuf /\ announced' = announced
      BY <2>3 DEF ParseZfileBuf
    <3>2. NameField' = NameField /\ SizeField' = SizeField
      BY <3>1 DEF NameField, SizeField
    <3>3. Answered'
      BY <2>3, <3>2 DEF ParseZfileBuf, Answered
    <3>4. Written'
      BY <3>1 DEF FileInv, Written
    <3> QED
      BY <3>1, <3>3, <3>4 DEF FileInv
  <2>4. CASE UNCHANGED fileVars
    <3>1. NameField' = NameField /\ SizeField' = SizeField
      BY <2>4 DEF fileVars, NameField, SizeField
    <3> QED
      BY <2>4, <3>1 DEF fileVars, FileInv, Written, Answered
  <2> QED
    BY <2>1, <2>2, <2>3, <2>4 DEF FileNext
<1> QED
  BY <1>1, <1>2, PTL DEF FileSpec

-----------------------------------------------------------------------------
(***************************************************************************)
(* Whatever text arrives, the receiver (parse_zfile_buf) takes it exactly  *)
(* if it announces a file, and takes the name and the size it announces,   *)
(* for a payload of any length, any MaxPosition and any StringCap.         *)
(***************************************************************************)
THEOREM AnnouncementsAreRead == FileSpec => []ReadsWhatIsAnnounced
<1>1. FileInv => ReadsWhatIsAnnounced
  <2> SUFFICES ASSUME FileInv
               PROVE  ReadsWhatIsAnnounced
    OBVIOUS
  <2>1. /\ Len(NameField) \in Nat /\ (NameField = <<>> => Len(NameField) = 0)
        /\ FilesIn = IF Len(NameField) \in 1 .. StringCap /\ SizeField # NoSize
                     THEN {[name |-> NameField, size |-> SizeField]} ELSE {}
    BY FilesAre DEF FileInv
  <2>2. StringCap \in Nat
    BY TextAssumption
  <2> QED
    BY <2>1, <2>2 DEF FileInv, Answered, ReadsWhatIsAnnounced
<1> QED
  BY <1>1, FileInvHolds, PTL

(***************************************************************************)
(* Whatever file this library's sender announces (write_zfile), its        *)
(* receiver takes, under that name and with that size.                     *)
(***************************************************************************)
THEOREM WrittenIsRead == FileSpec => []ReadsWhatWasWritten
<1>1. FileInv => ReadsWhatWasWritten
  <2> SUFFICES ASSUME FileInv, announced # Nothing, parsed # "Pending"
               PROVE  parsed = "Ok" /\ announced = [name |-> fileName, size |-> fileSize]
    BY DEF ReadsWhatWasWritten
  <2>1. /\ announced.name \in FileNames /\ announced.size \in 0 .. MaxPosition
        /\ announced = [name |-> announced.name, size |-> announced.size]
        /\ zfileBuf = ZfilePayload(announced.name, announced.size)
    BY DEF FileInv, Written
  <2>2. /\ NameField = announced.name /\ Len(NameField) \in 1 .. StringCap
        /\ SizeField = announced.size /\ announced.size # NoSize
    BY <2>1, WrittenIs
  <2>3. NameField # <<>> /\ ~ Len(NameField) > StringCap
    <3>1. Len(<<>>) = 0
      OBVIOUS
    <3> QED
      BY <2>2, <3>1, TextAssumption
  <2> QED
    BY <2>1, <2>2, <2>3 DEF FileInv, Answered
<1> QED
  BY <1>1, FileInvHolds, PTL
=============================================================================
