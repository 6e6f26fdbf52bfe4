-------------------------- MODULE ByteStreamProofs --------------------------
(***************************************************************************)
(* What holds of the byte stream for every script, every checksum and      *)
(* every cut of the input, on a clean line and, for the types and the      *)
(* headers missed, on any; and that no payload is taken for a header       *)
(* (StrayData).                                                            *)
(***************************************************************************)
EXTENDS ByteStream, StrayData, FoldProofs, FiniteSetTheorems, SequenceTheorems,
        WellFoundedInduction, TLAPS

-----------------------------------------------------------------------------
(***************************************************************************)
(* FlattenSeq, which is recursive: joins is what it computes on its way.   *)
(***************************************************************************)
Joins(seqs, joins, upto) ==
  joins = [i \in 1 .. upto |-> IF i = 1 THEN seqs[i]
                                        ELSE joins[i - 1] \o seqs[i]]

\* Something is computed, and it is made of the same elements.
LEMMA JoinsExist ==
  ASSUME NEW S, NEW seqs \in Seq(Seq(S)), NEW n \in 1 .. Len(seqs)
  PROVE  \E joins \in [1 .. n -> Seq(S)] : Joins(seqs, joins, n)
<1> DEFINE Missing == {m \in 1 .. Len(seqs) :
                         ~ \E joins \in [1 .. m -> Seq(S)] : Joins(seqs, joins, m)}
<1>1. \A i \in 1 .. Len(seqs) : seqs[i] \in Seq(S)
  OBVIOUS
<1>2. ASSUME Missing # {}
      PROVE  FALSE
  <2>1. Missing \subseteq Nat
    OBVIOUS
  <2>2. PICK m \in Missing : \A i \in Missing : <<i, m>> \notin OpToRel(<, Nat)
    <3> HIDE DEF Missing
    <3> QED
      BY <1>2, <2>1, NatLessThanWellFounded, WFMin
  <2>3. m \in 1 .. Len(seqs)
    OBVIOUS
  <2>4. CASE m = 1
    <3>1. [i \in 1 .. 1 |-> seqs[1]] \in [1 .. 1 -> Seq(S)]
      BY <1>1, <2>3, <2>4
    <3>2. Joins(seqs, [i \in 1 .. 1 |-> seqs[1]], 1)
      BY DEF Joins
    <3> QED
      BY <2>2, <2>4, <3>1, <3>2
  <2>5. CASE m # 1
    <3>1. PICK k : k = m - 1
      OBVIOUS
    <3>2. k \in 1 .. Len(seqs) /\ m = k + 1
      BY <2>3, <2>5, <3>1
    <3>3. <<k, m>> \in OpToRel(<, Nat)
      BY <3>2 DEF OpToRel
    <3>4. k \notin Missing
      <4> HIDE DEF Missing
      <4> QED
        BY <2>2, <3>3
    <3>5. PICK f \in [1 .. k -> Seq(S)] : Joins(seqs, f, k)
      BY <3>2, <3>4
    <3>6. PICK g : g = [i \in 1 .. m |-> IF i = m THEN f[k] \o seqs[m] ELSE f[i]]
      OBVIOUS
    <3>7. g \in [1 .. m -> Seq(S)]
      BY <1>1, <2>3, <3>2, <3>5, <3>6
    <3>8. ASSUME NEW i \in 1 .. m
          PROVE  g[i] = IF i = 1 THEN seqs[i] ELSE g[i - 1] \o seqs[i]
      <4>1. CASE i = m
        <5>1. g[i] = f[k] \o seqs[m] /\ g[i - 1] = f[k] /\ i # 1
          BY <2>3, <3>2, <3>6, <4>1
        <5> QED
          BY <4>1, <5>1
      <4>2. CASE i # m
        <5>1. i \in 1 .. k /\ g[i] = f[i]
          BY <2>3, <3>2, <3>6, <4>2
        <5>2. i # 1 => g[i - 1] = f[i - 1]
          BY <2>3, <3>2, <3>6, <5>1
        <5> QED
          BY <3>5, <5>1, <5>2 DEF Joins
      <4> QED
        BY <4>1, <4>2
    <3>9. Joins(seqs, g, m)
      BY <3>7, <3>8 DEF Joins
    <3> QED
      BY <2>2, <3>7, <3>9
  <2> QED
    BY <2>4, <2>5
<1> QED
  BY <1>2

\* Only one thing is.
LEMMA JoinsAgree ==
  ASSUME NEW seqs, NEW n \in Nat, NEW f, NEW g,
         Joins(seqs, f, n), Joins(seqs, g, n)
  PROVE  f = g
<1> DEFINE Differ == {m \in 1 .. n : f[m] # g[m]}
<1>1. ASSUME Differ # {}
      PROVE  FALSE
  <2>1. Differ \subseteq Nat
    OBVIOUS
  <2>2. PICK m \in Differ : \A i \in Differ : <<i, m>> \notin OpToRel(<, Nat)
    <3> HIDE DEF Differ
    <3> QED
      BY <1>1, <2>1, NatLessThanWellFounded, WFMin
  <2>3. m \in 1 .. n /\ f[m] # g[m]
    OBVIOUS
  <2>4. m # 1
    BY <2>3 DEF Joins
  <2>5. PICK k : k = m - 1
    OBVIOUS
  <2>6. k \in 1 .. n /\ <<k, m>> \in OpToRel(<, Nat)
    BY <2>3, <2>4, <2>5 DEF OpToRel
  <2>7. k \notin Differ
    <3> HIDE DEF Differ
    <3> QED
      BY <2>2, <2>6
  <2>8. f[k] = g[k]
    BY <2>6, <2>7
  <2>9. f[m] = f[k] \o seqs[m] /\ g[m] = g[k] \o seqs[m]
    BY <2>3, <2>4, <2>5 DEF Joins
  <2> QED
    BY <2>3, <2>8, <2>9
<1>2. \A m \in 1 .. n : f[m] = g[m]
  BY <1>1
<1>3. f = [m \in 1 .. n |-> f[m]] /\ g = [m \in 1 .. n |-> g[m]]
  BY DEF Joins
<1> QED
  BY <1>2, <1>3

\* What is computed last is the result.
LEMMA FlattenIsLastJoin ==
  ASSUME NEW seqs, Len(seqs) \in Nat \ {0}, NEW f, Joins(seqs, f, Len(seqs))
  PROVE  FlattenSeq(seqs) = f[Len(seqs)]
<1>1. PICK g : g = CHOOSE h : h = [i \in 1 .. Len(seqs) |->
                                     IF i = 1 THEN seqs[i] ELSE h[i - 1] \o seqs[i]]
  OBVIOUS
<1>2. FlattenSeq(seqs) = g[Len(seqs)]
  BY <1>1 DEF FlattenSeq
<1>3. Joins(seqs, g, Len(seqs))
  BY <1>1 DEF Joins
<1> QED
  BY <1>2, <1>3, JoinsAgree

LEMMA JoinAssociates ==
  ASSUME NEW S, NEW x \in Seq(S), NEW y \in Seq(S), NEW z \in Seq(S)
  PROVE  x \o (y \o z) = (x \o y) \o z
BY ConcatAssociative

LEMMA FlattenEmpty == FlattenSeq(<<>>) = <<>>
BY DEF FlattenSeq

LEMMA FlattenType ==
  ASSUME NEW S, NEW seqs \in Seq(Seq(S))
  PROVE  FlattenSeq(seqs) \in Seq(S)
<1>1. CASE seqs = <<>>
  <2>1. <<>> \in Seq(S)
    OBVIOUS
  <2> QED
    BY <1>1, <2>1, FlattenEmpty
<1>2. CASE seqs # <<>>
  <2>1. Len(seqs) \in Nat \ {0} /\ Len(seqs) \in 1 .. Len(seqs)
    BY <1>2
  <2>2. PICK joins \in [1 .. Len(seqs) -> Seq(S)] : Joins(seqs, joins, Len(seqs))
    BY <2>1, JoinsExist
  <2>3. joins[Len(seqs)] \in Seq(S)
    BY <2>1, <2>2
  <2>4. FlattenSeq(seqs) = joins[Len(seqs)]
    BY <2>1, <2>2, FlattenIsLastJoin
  <2> QED
    BY <2>3, <2>4
<1> QED
  BY <1>1, <1>2

LEMMA FlattenFirst ==
  ASSUME NEW S, NEW x \in Seq(S), NEW seqs \in Seq(Seq(S))
  PROVE  FlattenSeq(<<x>> \o seqs) = x \o FlattenSeq(seqs)
<1>1. PICK all : all = <<x>> \o seqs
  OBVIOUS
<1>2. PICK n : n = Len(seqs)
  OBVIOUS
<1>3. n \in Nat /\ Len(all) = n + 1 /\ all[1] = x
  BY <1>1, <1>2
<1>4. \A i \in 2 .. n + 1 : i - 1 \in 1 .. n /\ all[i] = seqs[i - 1]
  BY <1>1, <1>2
<1>5. CASE n = 0
  <2>1. seqs = <<>>
    BY <1>2, <1>5, EmptySeq
  <2>2. PICK f : f = [i \in 1 .. 1 |-> x]
    OBVIOUS
  <2>3. Joins(all, f, 1)
    BY <1>3, <2>2 DEF Joins
  <2>4. FlattenSeq(all) = x
    <3>1. Len(all) = 1 /\ f[1] = x
      BY <1>3, <1>5, <2>2
    <3>2. Len(all) \in Nat \ {0} /\ Joins(all, f, Len(all))
      BY <2>3, <3>1
    <3>3. FlattenSeq(all) = f[Len(all)]
      BY <3>2, FlattenIsLastJoin
    <3> QED
      BY <3>1, <3>3
  <2>5. x \o <<>> = x
    OBVIOUS
  <2> QED
    BY <1>1, <2>1, <2>4, <2>5, FlattenEmpty
<1>6. CASE n # 0
  <2>1. n \in 1 .. Len(seqs) /\ n \in Nat \ {0}
    BY <1>2, <1>3, <1>6
  <2>2. PICK f \in [1 .. n -> Seq(S)] : Joins(seqs, f, n)
    BY <2>1, JoinsExist
  <2>3. FlattenSeq(seqs) = f[n]
    BY <1>2, <2>1, <2>2, FlattenIsLastJoin
  <2>4. PICK g : g = [i \in 1 .. n + 1 |-> IF i = 1 THEN x ELSE x \o f[i - 1]]
    OBVIOUS
  <2>5. ASSUME NEW i \in 1 .. n + 1
        PROVE  g[i] = IF i = 1 THEN all[i] ELSE g[i - 1] \o all[i]
    <3>1. CASE i = 1
      BY <1>3, <2>4, <3>1
    <3>2. CASE i = 2
      <4>1. g[2] = x \o f[1] /\ g[1] = x
        BY <1>3, <2>1, <2>4
      <4>2. f[1] = seqs[1] /\ all[2] = seqs[1]
        BY <1>4, <2>1, <2>2 DEF Joins
      <4>3. g[2] = g[1] \o all[2]
        BY <4>1, <4>2
      <4>4. i # 1 /\ i - 1 = 1
        BY <3>2
      <4> QED
        BY <3>2, <4>3, <4>4
    <3>3. CASE i > 2
      <4>1. PICK j : j = i - 1
        OBVIOUS
      <4>0. PICK k : k = j - 1
        OBVIOUS
      <4>2. /\ j \in 1 .. n /\ j # 1 /\ k \in 1 .. n /\ k = j - 1
            /\ i # 1 /\ i \in 2 .. n + 1 /\ j \in 1 .. n + 1 /\ j = i - 1
        BY <1>3, <3>3, <4>0, <4>1
      <4>3. f[j] = f[k] \o seqs[j] /\ all[i] = seqs[j]
        BY <1>4, <2>2, <4>2 DEF Joins
      <4>4. g[i] = x \o f[j] /\ g[j] = x \o f[k]
        BY <2>4, <4>2
      <4>5. f[k] \in Seq(S) /\ seqs[j] \in Seq(S)
        <5>1. f[k] \in Seq(S)
          BY <2>2, <4>2
        <5>2. seqs[j] \in Seq(S)
          BY <1>2, <4>2, ElementOfSeq
        <5> QED
          BY <5>1, <5>2
      <4>6. x \o (f[k] \o seqs[j]) = (x \o f[k]) \o seqs[j]
        <5>1. ASSUME NEW a \in Seq(S), NEW b \in Seq(S)
              PROVE  x \o (a \o b) = (x \o a) \o b
          BY ONLY x \in Seq(S), <5>1, JoinAssociates
        <5> QED
          BY <4>5, <5>1
      <4>7. g[i] = g[j] \o all[i]
        BY <4>3, <4>4, <4>6
      <4>8. i # 1
        BY <3>3
      <4> QED
        BY <4>1, <4>7, <4>8
    <3> QED
      BY <1>3, <3>1, <3>2, <3>3
  <2>6. Joins(all, g, n + 1)
    BY <2>4, <2>5 DEF Joins
  <2>7. FlattenSeq(all) = g[n + 1]
    <3>1. Len(all) \in Nat \ {0} /\ Joins(all, g, Len(all))
      BY <1>3, <2>6
    <3> QED
      BY <1>3, <3>1, FlattenIsLastJoin
  <2>8. g[n + 1] = x \o f[n]
    BY <1>3, <1>6, <2>4
  <2> QED
    BY <1>1, <2>3, <2>7, <2>8
<1> QED
  BY <1>5, <1>6

-----------------------------------------------------------------------------
(***************************************************************************)
(* Escaping.                                                               *)
(***************************************************************************)
\* An octet travels as it is or behind a ZDLE, where it is no terminator.
LEMMA EscapedShape ==
  ASSUME NEW b \in Octet
  PROVE  /\ ZdleTable(b) \in Octet
         /\ IF ZdleTable(b) = b
            THEN b # ZDLE /\ Escaped(b) = <<b>>
            ELSE /\ Escaped(b) = <<ZDLE, ZdleTable(b)>>
                 /\ UnzdleTable(ZdleTable(b)) = b
                 /\ ZdleTable(b) \notin 104 .. 107
         /\ b \notin {LF, LF + 128} => Escaped(b)[1] \notin Trailer
<1>1. CASE b \in {13, 16, 17, 19, 24, 141, 144, 145, 147}
  <2>1. ZdleTable(b) = b + 64
    BY <1>1 DEF ZdleTable
  <2>2. UnzdleTable(b + 64) = b
    BY <1>1 DEF UnzdleTable
  <2> QED
    BY <1>1, <2>1, <2>2 DEF Escaped, Octet, ZDLE, Trailer, CR, LF, XON
<1>2. CASE b \in {127, 255}
  <2>1. ZdleTable(b) = IF b = 127 THEN 108 ELSE 109
    BY <1>2 DEF ZdleTable
  <2>2. UnzdleTable(108) = 127 /\ UnzdleTable(109) = 255
    BY DEF UnzdleTable
  <2> QED
    BY <1>2, <2>1, <2>2 DEF Escaped, Octet, ZDLE, Trailer, CR, LF, XON
<1>3. CASE b \notin {13, 16, 17, 19, 24, 141, 144, 145, 147, 127, 255}
  <2>1. ZdleTable(b) = b
    BY <1>3 DEF ZdleTable
  <2> QED
    BY <1>3, <2>1 DEF Escaped, Octet, ZDLE, Trailer, CR, LF, XON
<1> QED
  BY <1>1, <1>2, <1>3

LEMMA UnescapedType ==
  ASSUME NEW b \in Octet PROVE UnzdleTable(b) \in Octet
BY DEF UnzdleTable, Octet

LEMMA EscapedType ==
  ASSUME NEW b \in Octet PROVE Escaped(b) \in Seq(Octet)
<1>1. ZDLE \in Octet
  BY DEF ZDLE, Octet
<1>2. ZdleTable(b) \in Octet
  BY EscapedShape
<1>3. <<b>> \in Seq(Octet) /\ <<ZDLE, ZdleTable(b)>> \in Seq(Octet)
  BY <1>1, <1>2
<1> QED
  BY <1>3 DEF Escaped

LEMMA EscapedSymbols ==
  ASSUME NEW bytes \in Seq(Octet)
  PROVE  [i \in DOMAIN bytes |-> Escaped(bytes[i])] \in Seq(Seq(Octet))
<1>1. DOMAIN bytes = 1 .. Len(bytes) /\ Len(bytes) \in Nat
  OBVIOUS
<1>2. \A i \in 1 .. Len(bytes) : Escaped(bytes[i]) \in Seq(Octet)
  BY EscapedType
<1> QED
  BY <1>1, <1>2

LEMMA EscapeSliceType ==
  ASSUME NEW bytes \in Seq(Octet)
  PROVE  EscapeSlice(bytes) \in Seq(Octet)
BY EscapedSymbols, FlattenType DEF EscapeSlice

LEMMA EscapeNothing == EscapeSlice(<<>>) = <<>>
<1>1. [i \in DOMAIN <<>> |-> Escaped(<<>>[i])] = <<>>
  OBVIOUS
<1> QED
  BY <1>1, FlattenEmpty DEF EscapeSlice

LEMMA EscapeFirst ==
  ASSUME NEW bytes \in Seq(Octet), bytes # <<>>
  PROVE  EscapeSlice(bytes) = Escaped(bytes[1]) \o EscapeSlice(Tail(bytes))
<1>1. PICK t : t = Tail(bytes)
  OBVIOUS
<1>2. /\ t \in Seq(Octet) /\ Len(bytes) \in Nat /\ Len(bytes) = Len(t) + 1
      /\ bytes[1] \in Octet
      /\ \A i \in 1 .. Len(t) : t[i] = bytes[i + 1]
  BY <1>1
<1>3. PICK symbols : symbols = [i \in DOMAIN t |-> Escaped(t[i])]
  OBVIOUS
<1>4. symbols \in Seq(Seq(Octet)) /\ Escaped(bytes[1]) \in Seq(Octet)
  BY <1>2, <1>3, EscapedSymbols, EscapedType
<1>5. PICK all : all = <<Escaped(bytes[1])>> \o symbols
  OBVIOUS
<1>6. /\ all \in Seq(Seq(Octet)) /\ Len(all) = Len(t) + 1
      /\ all[1] = Escaped(bytes[1])
      /\ \A i \in 2 .. Len(t) + 1 : all[i] = symbols[i - 1]
  BY <1>2, <1>3, <1>4, <1>5
<1>7. PICK those : those = [i \in DOMAIN bytes |-> Escaped(bytes[i])]
  OBVIOUS
<1>8. those \in Seq(Seq(Octet)) /\ Len(those) = Len(bytes)
  BY <1>7, EscapedSymbols
<1>9. ASSUME NEW i \in 1 .. Len(those)
      PROVE  all[i] = those[i]
  <2>1. those[i] = Escaped(bytes[i])
    BY <1>7, <1>8
  <2>2. CASE i = 1
    BY <1>6, <2>1, <2>2
  <2>3. CASE i # 1
    <3>1. PICK j : j = i - 1
      OBVIOUS
    <3>2. j \in 1 .. Len(t) /\ i = j + 1
      BY <1>2, <1>8, <2>3, <3>1
    <3>3. i \in 2 .. Len(t) + 1 /\ DOMAIN t = 1 .. Len(t)
      BY <1>2, <3>2
    <3>4. all[i] = symbols[j]
      BY <1>6, <3>1, <3>3
    <3>5. symbols[j] = Escaped(t[j]) /\ t[j] = bytes[i]
      BY <1>2, <1>3, <3>2, <3>3
    <3> QED
      BY <2>1, <3>4, <3>5
  <2> QED
    BY <2>2, <2>3
<1>10. all = those
  <2>1. Len(all) = Len(those)
    BY <1>2, <1>6, <1>8
  <2> QED
    BY <1>6, <1>8, <1>9, <2>1, SeqEqual
<1>11. FlattenSeq(those) = Escaped(bytes[1]) \o FlattenSeq(symbols)
  BY <1>4, <1>5, <1>10, FlattenFirst
<1>12. EscapeSlice(bytes) = FlattenSeq(those)
  BY <1>7 DEF EscapeSlice
<1>13. EscapeSlice(t) = FlattenSeq(symbols)
  BY <1>3 DEF EscapeSlice
<1> QED
  BY <1>1, <1>11, <1>12, <1>13

-----------------------------------------------------------------------------
(***************************************************************************)
(* Escaped bytes on their way, and behind them bytes that are not escaped: *)
(* all of them, or without the ZDLE of the first, which the reader has had.*)
(***************************************************************************)
Coming(octets, behind) == EscapeSlice(octets) \o behind
HalfComing(octets, behind) ==
  <<ZdleTable(octets[1])>> \o Coming(Tail(octets), behind)
HasHalf(octets) == octets # <<>> /\ ZdleTable(octets[1]) # octets[1]

LEMMA ComingType ==
  ASSUME NEW octets \in Seq(Octet), NEW behind \in Seq(Octet)
  PROVE  Coming(octets, behind) \in Seq(Octet)
BY EscapeSliceType DEF Coming

LEMMA OctetsAssociate ==
  ASSUME NEW x \in Seq(Octet), NEW y \in Seq(Octet), NEW z \in Seq(Octet)
  PROVE  (x \o y) \o z = x \o (y \o z)
BY JoinAssociates

LEMMA ComingFirst ==
  ASSUME NEW octets \in Seq(Octet), octets # <<>>, NEW behind \in Seq(Octet)
  PROVE  /\ octets[1] \in Octet
         /\ Tail(octets) \in Seq(Octet)
         /\ Coming(Tail(octets), behind) \in Seq(Octet)
         /\ Coming(octets, behind) =
              Escaped(octets[1]) \o Coming(Tail(octets), behind)
<1>1. octets[1] \in Octet /\ Tail(octets) \in Seq(Octet)
  OBVIOUS
<1>2. EscapeSlice(Tail(octets)) \in Seq(Octet) /\ Escaped(octets[1]) \in Seq(Octet)
  BY <1>1, EscapeSliceType, EscapedType
<1>3. Coming(Tail(octets), behind) \in Seq(Octet)
  BY <1>1, ComingType
<1>4. PICK first : first = Escaped(octets[1])
  OBVIOUS
<1>5. PICK more : more = EscapeSlice(Tail(octets))
  OBVIOUS
<1>6. EscapeSlice(octets) = first \o more
  BY <1>4, <1>5, EscapeFirst
<1>7. first \in Seq(Octet) /\ more \in Seq(Octet)
  BY <1>2, <1>4, <1>5
<1>8. (first \o more) \o behind = first \o (more \o behind)
  BY ONLY <1>7, behind \in Seq(Octet), OctetsAssociate
<1> QED
  BY <1>1, <1>3, <1>4, <1>5, <1>6, <1>8 DEF Coming

LEMMA Taken ==
  ASSUME NEW line \in Seq(Octet), NEW n \in 1 .. 2, n <= Len(line)
  PROVE  /\ SubSeq(line, 1, n) \in Seq(Octet)
         /\ Len(SubSeq(line, 1, n)) = n
         /\ SubSeq(line, 1, n)[1] = line[1]
         /\ n = 2 => SubSeq(line, 1, n)[2] = line[2]
OBVIOUS

LEMMA JustZdle == <<ZDLE>>[1] = ZDLE /\ Len(<<ZDLE>>) = 1 /\ ZDLE \in Octet
BY DEF ZDLE, Octet

-----------------------------------------------------------------------------
(***************************************************************************)
(* Reading octets that travel escaped, with other bytes behind: got is     *)
(* what was collected, line what is still on its way.                      *)
(***************************************************************************)
From(octets, k) == SubSeq(octets, k + 1, Len(octets))

Plain(octets, got, behind, line) ==
  /\ Len(got) < Len(octets) /\ got = SubSeq(octets, 1, Len(got))
  /\ line = Coming(From(octets, Len(got)), behind)
Half(octets, got, behind, line) ==
  /\ Len(got) < Len(octets) /\ got = SubSeq(octets, 1, Len(got))
  /\ HasHalf(From(octets, Len(got)))
  /\ line = HalfComing(From(octets, Len(got)), behind)
\* A step of a reader.
Takes(line, n, bytes, left) ==
  /\ n \in 1 .. 2 /\ n <= Len(line)
  /\ bytes = SubSeq(line, 1, n) /\ left = SubSeq(line, n + 1, Len(line))
\* One more was read.
OneMore(octets, got, octet, behind, line) ==
  /\ octet = octets[Len(got) + 1]
  /\ IF Len(got) + 1 < Len(octets)
     THEN Plain(octets, Append(got, octet), behind, line)
     ELSE Append(got, octet) = octets /\ line = behind

LEMMA FromNext ==
  ASSUME NEW octets \in Seq(Octet), NEW k \in Nat, k < Len(octets)
  PROVE  /\ From(octets, k) \in Seq(Octet) /\ From(octets, k) # <<>>
         /\ octets[k + 1] \in Octet /\ From(octets, k)[1] = octets[k + 1]
         /\ From(octets, k + 1) \in Seq(Octet)
         /\ Tail(From(octets, k)) = From(octets, k + 1)
         /\ Append(SubSeq(octets, 1, k), octets[k + 1]) = SubSeq(octets, 1, k + 1)
<1>1. PICK f : f = From(octets, k)
  OBVIOUS
<1>2. /\ f \in Seq(Octet) /\ Len(f) = Len(octets) - k
      /\ \A i \in 1 .. Len(f) : f[i] = octets[k + i]
  BY <1>1 DEF From
<1>3. PICK g : g = From(octets, k + 1)
  OBVIOUS
<1>4. /\ g \in Seq(Octet) /\ Len(g) = Len(octets) - (k + 1)
      /\ \A i \in 1 .. Len(g) : g[i] = octets[k + 1 + i]
  BY <1>3 DEF From
<1>5. PICK t : t = Tail(f)
  OBVIOUS
<1>6. /\ t \in Seq(Octet) /\ Len(t) = Len(g)
      /\ \A i \in 1 .. Len(t) : t[i] = f[i + 1]
  BY <1>2, <1>4, <1>5
<1>7. ASSUME NEW i \in 1 .. Len(t) PROVE t[i] = g[i]
  <2>1. i \in 1 .. Len(g) /\ i + 1 \in 1 .. Len(f)
    BY <1>2, <1>4, <1>6
  <2>2. f[i + 1] = octets[k + (i + 1)] /\ g[i] = octets[k + 1 + i] /\ t[i] = f[i + 1]
    BY <1>2, <1>4, <1>6, <2>1
  <2>3. k + (i + 1) = k + 1 + i
    BY <2>1
  <2> QED
    BY <2>2, <2>3
<1>8. t = g
  BY <1>4, <1>6, <1>7, SeqEqual
<1>9. PICK b : b = octets[k + 1]
  OBVIOUS
<1>10. b \in Octet /\ f[1] = b /\ f # <<>>
  BY <1>2, <1>9
<1>11. PICK more : more = Append(SubSeq(octets, 1, k), b)
  OBVIOUS
<1>12. PICK all : all = SubSeq(octets, 1, k + 1)
  OBVIOUS
<1>13. /\ more \in Seq(Octet) /\ Len(more) = k + 1
       /\ \A i \in 1 .. k + 1 : more[i] = octets[i]
  BY <1>9, <1>10, <1>11
<1>14. /\ all \in Seq(Octet) /\ Len(all) = k + 1
       /\ \A i \in 1 .. k + 1 : all[i] = octets[i]
  BY <1>12
<1>15. more = all
  BY <1>13, <1>14, SeqEqual
<1> QED
  BY <1>1, <1>2, <1>3, <1>4, <1>5, <1>8, <1>9, <1>10, <1>11, <1>12, <1>15

LEMMA ComingNone ==
  ASSUME NEW octets \in Seq(Octet), NEW behind \in Seq(Octet)
  PROVE  /\ SubSeq(octets, 1, Len(octets)) = octets
         /\ Coming(From(octets, Len(octets)), behind) = behind
<1>1. SubSeq(octets, 1, Len(octets)) = octets
  OBVIOUS
<1>2. PICK f : f = From(octets, Len(octets))
  OBVIOUS
<1>3. f = <<>>
  BY <1>2 DEF From
<1>4. EscapeSlice(f) = <<>>
  BY <1>3, EscapeNothing
<1>5. <<>> \o behind = behind
  OBVIOUS
<1> QED
  BY <1>1, <1>2, <1>4, <1>5 DEF Coming

LEMMA OneMoreRead ==
  ASSUME NEW octets \in Seq(Octet), NEW got \in Seq(Octet), NEW behind \in Seq(Octet),
         Len(got) < Len(octets), got = SubSeq(octets, 1, Len(got)),
         NEW octet, octet = octets[Len(got) + 1],
         NEW line, line = Coming(From(octets, Len(got) + 1), behind)
  PROVE  OneMore(octets, got, octet, behind, line)
<1>1. PICK k : k = Len(got)
  OBVIOUS
<1>2. k \in Nat /\ k < Len(octets)
  BY <1>1
<1>3. PICK now : now = Append(got, octet)
  OBVIOUS
<1>4. now = SubSeq(octets, 1, k + 1)
  BY <1>1, <1>2, <1>3, FromNext
<1>5. Len(now) = k + 1
  BY <1>2, <1>4
<1>6. CASE k + 1 < Len(octets)
  BY <1>1, <1>3, <1>4, <1>5, <1>6 DEF OneMore, Plain
<1>7. CASE ~(k + 1 < Len(octets))
  <2>1. k + 1 = Len(octets)
    BY <1>2, <1>7
  <2>2. now = octets /\ line = behind
    BY <1>1, <1>4, <2>1, ComingNone
  <2> QED
    BY <1>1, <1>3, <1>7, <2>2 DEF OneMore
<1> QED
  BY <1>6, <1>7

\* The next bytes, read behind a whole octet.
LEMMA PlainStep ==
  ASSUME NEW octets \in Seq(Octet), NEW got \in Seq(Octet), NEW behind \in Seq(Octet),
         NEW line, Plain(octets, got, behind, line),
         NEW n, NEW bytes, NEW left, Takes(line, n, bytes, left)
  PROVE  /\ bytes[1] = Escaped(octets[Len(got) + 1])[1]
         /\ bytes = <<ZDLE>> => Half(octets, got, behind, left)
         /\ Len(bytes) = 1 /\ bytes[1] # ZDLE =>
              OneMore(octets, got, bytes[1], behind, left)
         /\ Len(bytes) = 2 /\ bytes[1] = ZDLE =>
              /\ bytes[2] \notin 104 .. 107
              /\ OneMore(octets, got, UnzdleTable(bytes[2]), behind, left)
<1>0. /\ n \in 1 .. 2 /\ n <= Len(line)
      /\ bytes = SubSeq(line, 1, n) /\ left = SubSeq(line, n + 1, Len(line))
  BY DEF Takes
<1> USE <1>0
<1> PICK k : k = Len(got)
  OBVIOUS
<1> PICK f : f = From(octets, k)
  OBVIOUS
<1> PICK b : b = octets[k + 1]
  OBVIOUS
<1> PICK z : z = ZdleTable(b)
  OBVIOUS
<1> PICK later : later = Coming(From(octets, k + 1), behind)
  OBVIOUS
<1>1. /\ k \in Nat /\ k < Len(octets) /\ got = SubSeq(octets, 1, Len(got))
      /\ line = Coming(f, behind)
  BY DEF Plain
<1>2. /\ f \in Seq(Octet) /\ f # <<>> /\ f[1] = b /\ b \in Octet
      /\ Tail(f) = From(octets, k + 1)
  BY <1>1, FromNext
<1>3. /\ later \in Seq(Octet) /\ line = Escaped(b) \o later
      /\ HalfComing(f, behind) = <<z>> \o later
  <2>1. later = Coming(Tail(f), behind)
    BY <1>2
  <2>2. later \in Seq(Octet) /\ Coming(f, behind) = Escaped(b) \o later
    BY ONLY <1>2, <2>1, behind \in Seq(Octet), ComingFirst
  <2>3. HalfComing(f, behind) = <<z>> \o later
    BY <1>2, <2>1 DEF HalfComing
  <2> QED
    BY <1>1, <2>2, <2>3
<1>4. /\ z \in Octet
      /\ z = b => b # ZDLE /\ Escaped(b) = <<b>>
      /\ z # b => /\ Escaped(b) = <<ZDLE, z>> /\ UnzdleTable(z) = b
                  /\ z \notin 104 .. 107
  BY <1>2, EscapedShape
<1>5. left = later => OneMore(octets, got, b, behind, left)
  BY <1>1, OneMoreRead
<1>6. CASE z = b
  <2>1. line = <<b>> \o later /\ b # ZDLE /\ Escaped(b) = <<b>>
    BY <1>3, <1>4, <1>6
  <2>2. line \in Seq(Octet) /\ Len(line) = Len(later) + 1 /\ line[1] = b
    BY <1>2, <1>3, <2>1
  <2>3. SubSeq(line, 2, Len(line)) = later
    BY <1>3, <2>1, <2>2
  <2>4. Len(bytes) = n /\ bytes[1] = b
    BY <2>2, Taken
  <2>5. bytes # <<ZDLE>>
    BY <2>1, <2>4, JustZdle
  <2>6. n = 1 => left = later
    BY <2>3
  <2>7. Escaped(b)[1] = b
    BY <2>1
  <2> QED
    BY <1>5, <2>1, <2>4, <2>5, <2>6, <2>7
<1>7. CASE z # b
  <2>1. line = <<ZDLE, z>> \o later /\ Escaped(b) = <<ZDLE, z>>
    BY <1>3, <1>4, <1>7
  <2>2. /\ line \in Seq(Octet) /\ Len(line) = Len(later) + 2
        /\ line[1] = ZDLE /\ line[2] = z
    BY <1>3, <1>4, <2>1, JustZdle
  <2>3. /\ Len(bytes) = n /\ bytes[1] = ZDLE /\ bytes \in Seq(Octet)
        /\ n = 2 => bytes[2] = z
    BY <2>2, Taken
  <2>4. HasHalf(f)
    BY <1>2, <1>7 DEF HasHalf
  <2>5. Escaped(b)[1] = ZDLE
    BY <2>1
  <2>6. CASE n = 1
    <3>1. SubSeq(line, 2, Len(line)) = <<z>> \o later
      BY ONLY <1>3, <1>4, <2>1, <2>2
    <3>2. left = HalfComing(f, behind)
      <4>1. left = SubSeq(line, 2, Len(line))
        BY <2>6
      <4> QED
        BY ONLY <1>3, <3>1, <4>1
    <3>3. Half(octets, got, behind, left)
      BY <1>1, <2>4, <3>2 DEF Half
    <3> QED
      BY <2>3, <2>5, <2>6, <3>3
  <2>7. CASE n = 2
    <3>1. bytes # <<ZDLE>>
      BY ONLY <2>3, <2>7, JustZdle
    <3>2. SubSeq(line, 3, Len(line)) = later
      BY ONLY <1>3, <2>1, <2>2
    <3>3. left = later
      BY <2>7, <3>2
    <3> QED
      BY <1>4, <1>5, <1>7, <2>3, <2>5, <2>7, <3>1, <3>3
  <2>8. n = 1 \/ n = 2
    BY <1>0
  <2> QED
    BY ONLY <2>6, <2>7, <2>8
<1> QED
  BY <1>6, <1>7

\* The next bytes, read behind a ZDLE.
LEMMA HalfStep ==
  ASSUME NEW octets \in Seq(Octet), NEW got \in Seq(Octet), NEW behind \in Seq(Octet),
         NEW line, Half(octets, got, behind, line),
         NEW n, NEW bytes, NEW left, Takes(line, n, bytes, left)
  PROVE  Len(bytes) = 1 =>
           /\ bytes[1] \notin 104 .. 107
           /\ OneMore(octets, got, UnzdleTable(bytes[1]), behind, left)
<1>0. /\ n \in 1 .. 2 /\ n <= Len(line)
      /\ bytes = SubSeq(line, 1, n) /\ left = SubSeq(line, n + 1, Len(line))
  BY DEF Takes
<1> USE <1>0
<1> PICK k : k = Len(got)
  OBVIOUS
<1> PICK f : f = From(octets, k)
  OBVIOUS
<1> PICK b : b = octets[k + 1]
  OBVIOUS
<1> PICK z : z = ZdleTable(b)
  OBVIOUS
<1> PICK later : later = Coming(From(octets, k + 1), behind)
  OBVIOUS
<1>1. /\ k \in Nat /\ k < Len(octets) /\ got = SubSeq(octets, 1, Len(got))
      /\ line = HalfComing(f, behind) /\ HasHalf(f)
  BY DEF Half
<1>2. /\ f \in Seq(Octet) /\ f # <<>> /\ f[1] = b /\ b \in Octet
      /\ Tail(f) = From(octets, k + 1)
  BY <1>1, FromNext
<1>3. later \in Seq(Octet) /\ line = <<z>> \o later
  BY <1>1, <1>2, ComingFirst DEF HalfComing
<1>4. z \in Octet /\ UnzdleTable(z) = b /\ z \notin 104 .. 107
  BY <1>1, <1>2, EscapedShape DEF HasHalf
<1>5. left = later => OneMore(octets, got, b, behind, left)
  BY <1>1, OneMoreRead
<1>6. line \in Seq(Octet) /\ Len(line) = Len(later) + 1 /\ line[1] = z
  BY <1>3, <1>4
<1>7. SubSeq(line, 2, Len(line)) = later
  BY <1>3, <1>6
<1>8. Len(bytes) = n /\ bytes[1] = z
  BY <1>6, Taken
<1>9. n = 1 => left = later
  BY <1>7
<1> QED
  BY <1>4, <1>5, <1>8, <1>9

-----------------------------------------------------------------------------
(***************************************************************************)
(* What holds whatever is damaged: everything has its type, and the peer   *)
(* is within its script.                                                   *)
(***************************************************************************)
SubpacketRecord ==
  [is : {"subpacket"}, kind : SubpacketType, data : Seq(Octet)]

StreamTypeOK ==
  /\ wire \in Seq(Octet)
  /\ stage \in 0 .. Len(Script)
  /\ found \in Seq(HeaderUnit)
  /\ accepted \in Seq(SubpacketRecord)
  /\ sent \in Nat /\ damaged \in Nat
  /\ frame \in Encoding \cup {"None"}

\* A subpacket can only come when a header announced it, and not more are
\* accepted than were sent before the header of a frame was read.
InScript ==
  /\ frame # "None" => stage > 0 /\ sent < Len(Subpackets)
  /\ found = <<>> => Len(accepted) <= Len(Subpackets)
  /\ phase # "Idle" => found # <<>>

TypeInv == ReaderTypeOK /\ SubpacketTypeOK /\ StreamTypeOK /\ InScript

-----------------------------------------------------------------------------
(***************************************************************************)
(* What holds on a clean line.                                             *)
(***************************************************************************)
HeaderPayload(h) == <<FrameNumber[h.frame]>> \o Flags(h)
HeaderOctets(e, h) == HeaderPayload(h) \o CrcBytes(e, HeaderPayload(h))
Collectable(e, h) ==
  IF e = "ZHEX" THEN HexBytes(HeaderOctets(e, h)) ELSE HeaderOctets(e, h)
LineEnd(e, h) == IF e = "ZHEX" THEN HexEnd(h.frame) ELSE <<>>

Announces(frameType) == frameType \in {"ZSINIT", "ZFILE", "ZDATA"}

ReaderAtRest ==
  readerState = "SeekingZpad" /\ headerBuf = <<>> /\ ~escapePending /\ encoding = "None"
SubpacketAtRest ==
  buf = <<>> /\ crcBuf = <<>> /\ ~subpacketEscapePending /\ ~crcEscapePending

\* A header of encoding e is on its way, or the rest of it is.
HeaderComes(e) ==
  LET octets == Collectable(e, header)
      end == LineEnd(e, header)
      coming == Coming(octets, end)
  IN  \/ /\ ReaderAtRest
         /\ \/ wire = <<ZPAD, ZPAD, ZDLE, EncodingByte[e]>> \o coming
            \/ wire = <<ZPAD, ZDLE, EncodingByte[e]>> \o coming
            \/ wire = <<ZDLE, EncodingByte[e]>> \o coming /\ zpadState # "Idle"
      \/ /\ readerState = "ReadingEncoding"
         /\ wire = <<EncodingByte[e]>> \o coming
      \/ /\ readerState = "ReadingData" /\ encoding = e
         /\ \/ ~escapePending /\ Plain(octets, headerBuf, end, wire)
            \/ escapePending /\ Half(octets, headerBuf, end, wire)

AwaitsHeader ==
  /\ found = <<>> /\ phase = "Idle" /\ SubpacketAtRest
  /\ Len(accepted) = sent
  /\ \E e \in Script[stage].encodings : (frame = "None" \/ frame = e) /\ HeaderComes(e)
  /\ frame # "None" <=> Announces(header.frame)

\* The header was read; what is left of its line end is on the wire.
AfterHeader ==
  /\ found = <<header>> /\ ReaderAtRest /\ SubpacketAtRest
  /\ Len(accepted) = sent
  /\ wire \in Seq({CR, LF, XON})
  /\ phase \in {"Idle", "SkipTrailer", "Reading"}
  /\ phase = "Idle" <=> frame = "None"
  /\ phase = "Reading" => wire = <<>>
  /\ frame # "None" => dataEncoding = IF frame = "ZHEX" THEN "ZBIN" ELSE frame
  /\ phase = "SkipTrailer" => frame = "ZHEX"

\* A subpacket is on its way, or the rest of it is.
SubpacketComes ==
  LET subpacket == Subpackets[sent]
      last == TerminatorByte[subpacket.kind]
      crc == CrcBytes(dataEncoding, Append(subpacket.data, last))
      behind == <<ZDLE, last>> \o EscapeSlice(crc)
  IN  \/ /\ phase \in {"SkipTrailer", "Reading"}
         /\ crcBuf = <<>> /\ ~crcEscapePending
         /\ \/ ~subpacketEscapePending /\ Plain(subpacket.data, buf, behind, wire)
            \/ subpacketEscapePending /\ Half(subpacket.data, buf, behind, wire)
            \/ /\ buf = subpacket.data
               /\ \/ ~subpacketEscapePending /\ wire = behind
                  \/ subpacketEscapePending /\ wire = <<last>> \o EscapeSlice(crc)
         /\ phase = "SkipTrailer" =>
              /\ buf = <<>> /\ ~subpacketEscapePending
              /\ subpacket.data # <<>> => subpacket.data[1] \notin {LF, LF + 128}
      \/ /\ phase = "Crc" /\ kind = subpacket.kind /\ buf = subpacket.data
         /\ ~subpacketEscapePending
         /\ \/ ~crcEscapePending /\ Plain(crc, crcBuf, <<>>, wire)
            \/ crcEscapePending /\ Half(crc, crcBuf, <<>>, wire)

AwaitsSubpacket ==
  /\ found = <<header>> /\ ReaderAtRest
  /\ sent \in 1 .. Len(Subpackets) /\ sent = Len(accepted) + 1
  /\ frame # "None" <=> Subpackets[sent].kind \in {"ZCRCG", "ZCRCQ"}
  /\ frame # "None" => dataEncoding = IF frame = "ZHEX" THEN "ZBIN" ELSE frame
  /\ SubpacketComes

NothingBegun ==
  /\ stage = 0 /\ wire = <<>> /\ frame = "None" /\ found = <<>> /\ accepted = <<>>
  /\ phase = "Idle" /\ ReaderAtRest /\ SubpacketAtRest

\* The header names where the peer began.
HeaderRight ==
  stage > 0 =>
    /\ \E i \in 0 .. Len(Subpackets) :
         header = Header(Script[stage].frame, Position(stage, i))
    /\ frame # "None" => frame \in Script[stage].encodings
    /\ sent <= Len(Subpackets)

StreamInv ==
  damaged = 0 =>
    /\ error = "None" /\ ~resyncing /\ HeaderRight
    /\ \/ NothingBegun
       \/ stage > 0 /\ (AwaitsHeader \/ AfterHeader \/ AwaitsSubpacket)

-----------------------------------------------------------------------------
(***************************************************************************)
(* What the assumptions say of a stage, and what the peer sends for it.    *)
(***************************************************************************)
LEMMA StageFacts ==
  ASSUME NEW s \in 1 .. Len(Script)
  PROVE  /\ Script[s].frame \in Frame \ {"ZRINIT"}
         /\ Script[s].encodings \subseteq Encoding
         /\ Script[s].subpackets \in Seq(SubpacketRecord)
         /\ Script[s].count \in Nat
         /\ Len(Script[s].subpackets) > 0 <=> Announces(Script[s].frame)
         /\ Len(Script[s].subpackets) > 0 =>
              Script[s].subpackets[Len(Script[s].subpackets)].kind \in {"ZCRCE", "ZCRCW"}
         /\ Len(Script[s].subpackets) > 1 => Script[s].frame = "ZDATA"
         /\ \A i \in 1 .. Len(Script[s].subpackets) :
              Len(Script[s].subpackets[i].data) <= SubpacketMaxSize
         /\ Len(Script[s].subpackets) > 0 /\ "ZHEX" \in Script[s].encodings =>
              /\ Script[s].frame = "ZSINIT"
              /\ \A i \in 1 .. Len(Script[s].subpackets) :
                   Script[s].subpackets[i].data # <<>> =>
                     Script[s].subpackets[i].data[1] \notin {LF, LF + 128}
         /\ \A i \in 0 .. Len(Script[s].subpackets) :
              /\ Position(s, i) \in Nat
              /\ FitsInFlags(Position(s, i))
<1>1. Script \in Seq(StageRecord)
  BY ScriptAssumption
<1>2. Script[s] \in StageRecord
  BY <1>1
<1>3. /\ Script[s].frame \in Frame \ {"ZRINIT"}
      /\ Script[s].encodings \subseteq Encoding
      /\ Script[s].subpackets \in Seq(SubpacketRecord)
      /\ Script[s].count \in Nat
  BY <1>2 DEF StageRecord, SubpacketRecord
<1>4. PICK subpackets : subpackets = Script[s].subpackets
  OBVIOUS
<1>5. Len(subpackets) > 0 <=> Script[s].frame \in {"ZSINIT", "ZFILE", "ZDATA"}
  BY <1>4, ScriptAssumption
<1>6. Len(subpackets) > 0 => subpackets[Len(subpackets)].kind \in {"ZCRCE", "ZCRCW"}
  BY <1>4, ScriptAssumption
<1>10. Len(subpackets) > 1 => Script[s].frame = "ZDATA"
  BY <1>4, ScriptAssumption
<1>7. \A i \in 1 .. Len(subpackets) : Len(subpackets[i].data) <= SubpacketMaxSize
  <2>1. \A i \in 1 .. Len(Script[s].subpackets) :
          Len(Script[s].subpackets[i].data) <= SubpacketMaxSize
    <3>1. \A u \in 1 .. Len(Script) : \A i \in 1 .. Len(Script[u].subpackets) :
            Len(Script[u].subpackets[i].data) <= SubpacketMaxSize
      BY ONLY ScriptAssumption, Zenon
    <3> QED
      BY ONLY s \in 1 .. Len(Script), <3>1
  <2> QED
    BY ONLY <1>4, <2>1
<1>8. Len(subpackets) > 0 /\ "ZHEX" \in Script[s].encodings =>
        /\ Script[s].frame = "ZSINIT"
        /\ \A i \in 1 .. Len(subpackets) :
             subpackets[i].data # <<>> => subpackets[i].data[1] \notin {LF, LF + 128}
  BY <1>4, ScriptAssumption
<1>9. \A i \in 0 .. Len(subpackets) : /\ Position(s, i) \in Nat
                                     /\ FitsInFlags(Position(s, i))
  BY <1>4, ScriptAssumption
<1> QED
  BY ONLY <1>3, <1>4, <1>5, <1>6, <1>7, <1>8, <1>9, <1>10 DEF Announces

LEMMA JoinFacts ==
  ASSUME NEW p \in Seq(Octet), NEW c \in Seq(Octet)
  PROVE  /\ p \o c \in Seq(Octet)
         /\ Len(p \o c) = Len(p) + Len(c)
         /\ SubSeq(p \o c, 1, Len(p)) = p
         /\ SubSeq(p \o c, Len(p) + 1, Len(p \o c)) = c
OBVIOUS

LEMMA CrcType ==
  ASSUME NEW e, NEW bytes \in Checksummed
  PROVE  /\ CrcBytes(e, bytes) \in Seq(Octet)
         /\ Len(CrcBytes(e, bytes)) = IF e = "ZBIN32" THEN 4 ELSE 2
BY ChecksumAssumption DEF CrcBytes

LEMMA FlagsType ==
  ASSUME NEW n \in Nat, FitsInFlags(n)
  PROVE  CountBytes(n) \in Seq(Octet) /\ Len(CountBytes(n)) = 4
<1>1. n % 256 \in 0 .. 255 /\ n \div 16777216 \in 0 .. 255
  BY DEF FitsInFlags
<1>2. (n \div 256) % 256 \in 0 .. 255 /\ (n \div 65536) % 256 \in 0 .. 255
  OBVIOUS
<1> QED
  BY <1>1, <1>2 DEF CountBytes, Octet

LEMMA FrameNumbers ==
  ASSUME NEW f \in Frame
  PROVE  FrameNumber[f] \in Octet
BY DEF Frame, FrameNumber, Octet

\* The bytes of a header before its checksum.
LEMMA PayloadType ==
  ASSUME NEW s \in 1 .. Len(Script), NEW i \in 0 .. Len(Script[s].subpackets),
         NEW h, h = Header(Script[s].frame, Position(s, i))
  PROVE  /\ HeaderPayload(h) =
              <<FrameNumber[Script[s].frame]>> \o CountBytes(Position(s, i))
         /\ HeaderPayload(h) \in Checksummed
         /\ HeaderPayload(h) \in Seq(Octet) /\ Len(HeaderPayload(h)) = 5
<1>1. /\ h.frame = Script[s].frame /\ h.count = Position(s, i)
      /\ h.frame \in Frame /\ h.frame # "ZRINIT"
  BY StageFacts DEF Header
<1>2. PICK flags : flags = CountBytes(Position(s, i))
  OBVIOUS
<1>3. flags \in Seq(Octet) /\ Len(flags) = 4
  BY <1>2, StageFacts, FlagsType
<1>4. Flags(h) = flags
  BY <1>1, <1>2 DEF Flags
<1>5. PICK number : number = FrameNumber[Script[s].frame]
  OBVIOUS
<1>6. number \in Octet
  BY <1>1, <1>5, FrameNumbers
<1>7. HeaderPayload(h) = <<number>> \o flags
  BY <1>1, <1>4, <1>5 DEF HeaderPayload
<1>8. <<number>> \o flags \in Seq(Octet) /\ Len(<<number>> \o flags) = 5
  <2>1. <<number>> \in Seq(Octet) /\ Len(<<number>>) = 1
    BY ONLY <1>6
  <2>2. PICK p : p = <<number>>
    OBVIOUS
  <2>3. PICK all : all = p \o flags
    OBVIOUS
  <2>4. p \in Seq(Octet) /\ Len(p) = 1
    BY <2>1, <2>2
  <2>5. all \in Seq(Octet) /\ Len(all) = Len(p) + Len(flags)
    <3>1. flags \in Seq(Octet) /\ p \in Seq(Octet)
      BY <1>3, <2>4
    <3> QED
      BY ONLY <3>1, <2>3, JoinFacts
  <2> QED
    BY ONLY <1>3, <2>2, <2>3, <2>4, <2>5
<1>9. <<number>> \o flags \in Checksummed
  BY <1>2, <1>5 DEF Checksummed
<1> QED
  BY <1>2, <1>5, <1>7, <1>8, <1>9

LEMMA OctetsType ==
  ASSUME NEW s \in 1 .. Len(Script), NEW i \in 0 .. Len(Script[s].subpackets),
         NEW h, h = Header(Script[s].frame, Position(s, i)), NEW e
  PROVE  /\ HeaderOctets(e, h) \in Seq(Octet)
         /\ Len(HeaderOctets(e, h)) = IF e = "ZBIN32" THEN 9 ELSE 7
         /\ SubSeq(HeaderOctets(e, h), 1, 5) = HeaderPayload(h)
         /\ SubSeq(HeaderOctets(e, h), 6, Len(HeaderOctets(e, h)))
              = CrcBytes(e, HeaderPayload(h))
<1>1. PICK p : p = HeaderPayload(h)
  OBVIOUS
<1>2. p \in Checksummed /\ p \in Seq(Octet) /\ Len(p) = 5
  BY <1>1, PayloadType
<1>3. PICK c : c = CrcBytes(e, p)
  OBVIOUS
<1>4. c \in Seq(Octet) /\ Len(c) = IF e = "ZBIN32" THEN 4 ELSE 2
  BY <1>2, <1>3, CrcType
<1>5. PICK all : all = p \o c
  OBVIOUS
<1>6. /\ all \in Seq(Octet) /\ Len(all) = Len(p) + Len(c)
      /\ SubSeq(all, 1, Len(p)) = p /\ SubSeq(all, Len(p) + 1, Len(all)) = c
  <2>1. p \in Seq(Octet) /\ c \in Seq(Octet)
    BY <1>2, <1>4
  <2> QED
    BY ONLY <1>5, <2>1, JoinFacts
<1>7. SubSeq(all, 1, 5) = p /\ SubSeq(all, 6, Len(all)) = c
  BY <1>2, <1>6
<1>8. HeaderOctets(e, h) = all
  BY <1>1, <1>3, <1>5 DEF HeaderOctets
<1>9. Len(all) = IF e = "ZBIN32" THEN 9 ELSE 7
  BY <1>2, <1>4, <1>6
<1> QED
  BY ONLY <1>1, <1>3, <1>6, <1>7, <1>8, <1>9

-----------------------------------------------------------------------------
(***************************************************************************)
(* A header is decoded as what it was encoded from.                        *)
(***************************************************************************)
LEMMA HexDigits ==
  ASSUME NEW n \in 0 .. 15
  PROVE  /\ HexDigit(n) \in Octet /\ IsHexDigit(HexDigit(n))
         /\ HexValue(HexDigit(n)) = n
<1> PICK d : d = HexDigit(n)
  OBVIOUS
<1>1. CASE n < 10
  <2>1. d = 48 + n
    BY <1>1 DEF HexDigit
  <2> QED
    BY <1>1, <2>1 DEF Octet, IsHexDigit, HexValue
<1>2. CASE n >= 10
  <2>1. d = 87 + n
    BY <1>2 DEF HexDigit
  <2> QED
    BY <1>2, <2>1 DEF Octet, IsHexDigit, HexValue
<1> QED
  BY <1>1, <1>2

LEMMA Nibbles ==
  ASSUME NEW b \in Octet
  PROVE  b \div 16 \in 0 .. 15 /\ b % 16 \in 0 .. 15 /\ 16 * (b \div 16) + (b % 16) = b
BY DEF Octet

LEMMA HexFacts ==
  ASSUME NEW bytes \in Seq(Octet), bytes # <<>>
  PROVE  /\ HexBytes(bytes) \in Seq(Octet)
         /\ Len(HexBytes(bytes)) = 2 * Len(bytes)
         /\ \A i \in 1 .. Len(bytes) :
              /\ HexBytes(bytes)[2 * i - 1] = HexDigit(bytes[i] \div 16)
              /\ HexBytes(bytes)[2 * i] = HexDigit(bytes[i] % 16)
<1> PICK n : n = Len(bytes)
  OBVIOUS
<1> PICK high : high = [i \in 1 .. n |-> HexDigit(bytes[i] \div 16)]
  OBVIOUS
<1> PICK low : low = [i \in 1 .. n |-> HexDigit(bytes[i] % 16)]
  OBVIOUS
<1> PICK seqs : seqs = [i \in DOMAIN bytes |-> <<HexDigit(bytes[i] \div 16),
                                                 HexDigit(bytes[i] % 16)>>]
  OBVIOUS
<1>1. n \in Nat \ {0} /\ DOMAIN bytes = 1 .. n
  OBVIOUS
<1>2. ASSUME NEW i \in 1 .. n
      PROVE  /\ high[i] \in Octet /\ low[i] \in Octet
             /\ high[i] = HexDigit(bytes[i] \div 16)
             /\ low[i] = HexDigit(bytes[i] % 16)
             /\ seqs[i] = <<high[i], low[i]>>
  <2>1. bytes[i] \in Octet
    OBVIOUS
  <2>2. HexDigit(bytes[i] \div 16) \in Octet /\ HexDigit(bytes[i] % 16) \in Octet
    BY <2>1, Nibbles, HexDigits
  <2> QED
    BY <1>1, <2>2
<1>3. Len(seqs) = n /\ seqs \in Seq(Seq(Octet))
  <2>1. \A i \in 1 .. n : seqs[i] \in Seq(Octet)
    <3>1. ASSUME NEW a \in Octet, NEW b \in Octet PROVE <<a, b>> \in Seq(Octet)
      OBVIOUS
    <3> QED
      BY <1>2, <3>1
  <2> QED
    BY <1>1, <2>1
<1> PICK w : w = [k \in 1 .. 2 * n |-> IF k % 2 = 1 THEN high[(k + 1) \div 2]
                                                    ELSE low[k \div 2]]
  OBVIOUS
<1>4. ASSUME NEW k \in 1 .. 2 * n
      PROVE  w[k] \in Octet
  <2>1. CASE k % 2 = 1
    <3>1. (k + 1) \div 2 \in 1 .. n
      BY <1>1, <2>1
    <3> QED
      BY <1>2, <2>1, <3>1
  <2>2. CASE k % 2 # 1
    <3>1. k \div 2 \in 1 .. n
      BY <1>1, <2>2
    <3> QED
      BY <1>2, <2>2, <3>1
  <2> QED
    BY <2>1, <2>2
<1>5. w \in Seq(Octet) /\ Len(w) = 2 * n
  BY <1>1, <1>4
<1>6. ASSUME NEW i \in 1 .. n
      PROVE  w[2 * i - 1] = high[i] /\ w[2 * i] = low[i]
  <2>1. 2 * i - 1 \in 1 .. 2 * n /\ 2 * i \in 1 .. 2 * n
    BY <1>1
  <2>2. (2 * i - 1) % 2 = 1 /\ ((2 * i - 1) + 1) \div 2 = i
    BY <1>1
  <2>3. (2 * i) % 2 = 0 /\ (2 * i) \div 2 = i
    BY <1>1
  <2> QED
    BY <2>1, <2>2, <2>3
<1> PICK f : f = [i \in 1 .. n |-> SubSeq(w, 1, 2 * i)]
  OBVIOUS
<1>7. ASSUME NEW i \in 1 .. n
      PROVE  /\ f[i] \in Seq(Octet) /\ Len(f[i]) = 2 * i
             /\ \A k \in 1 .. 2 * i : f[i][k] = w[k]
  <2>1. 2 * i \in 0 .. Len(w)
    BY <1>1, <1>5
  <2>2. f[i] = SubSeq(w, 1, 2 * i)
    OBVIOUS
  <2>3. /\ SubSeq(w, 1, 2 * i) \in Seq(Octet) /\ Len(SubSeq(w, 1, 2 * i)) = 2 * i
        /\ \A k \in 1 .. 2 * i : SubSeq(w, 1, 2 * i)[k] = w[k]
    BY ONLY <1>5, <2>1
  <2> QED
    BY ONLY <2>2, <2>3
<1>8. ASSUME NEW i \in 1 .. n
      PROVE  f[i] = IF i = 1 THEN seqs[i] ELSE f[i - 1] \o seqs[i]
  <2> PICK pair : pair = <<high[i], low[i]>>
    OBVIOUS
  <2>1. /\ seqs[i] = pair /\ pair \in Seq(Octet) /\ Len(pair) = 2
        /\ pair[1] = high[i] /\ pair[2] = low[i]
    <3>1. seqs[i] = pair /\ high[i] \in Octet /\ low[i] \in Octet
      BY <1>2
    <3>2. pair \in Seq(Octet) /\ Len(pair) = 2 /\ pair[1] = high[i] /\ pair[2] = low[i]
      BY ONLY <3>1, pair = <<high[i], low[i]>>
    <3> QED
      BY <3>1, <3>2
  <2>2. CASE i = 1
    <3> PICK head : head = f[i]
      OBVIOUS
    <3>1. 2 * i = 2 /\ 2 * i - 1 = 1
      BY <2>2
    <3>2. /\ head \in Seq(Octet) /\ Len(head) = 2
          /\ \A k \in 1 .. 2 : head[k] = w[k]
      BY <1>7, <3>1
    <3>3. w[1] = high[i] /\ w[2] = low[i]
      BY <1>6, <3>1
    <3>4. head = pair
      <4>1. \A k \in 1 .. 2 : head[k] = pair[k]
        BY ONLY <2>1, <3>2, <3>3
      <4> QED
        BY ONLY <2>1, <3>2, <4>1, SeqEqual
    <3> QED
      BY <2>1, <2>2, <3>4
  <2>3. CASE i # 1
    <3> PICK j : j = i - 1
      OBVIOUS
    <3>1. j \in 1 .. n /\ i = j + 1
      BY <1>1, <2>3
    <3> PICK head : head = f[j]
      OBVIOUS
    <3>2. /\ head \in Seq(Octet) /\ Len(head) = 2 * j
          /\ \A k \in 1 .. 2 * j : head[k] = w[k]
      BY <1>7, <3>1
    <3> PICK all : all = head \o pair
      OBVIOUS
    <3>3. /\ all \in Seq(Octet) /\ Len(all) = Len(head) + Len(pair)
          /\ \A k \in 1 .. Len(head) : all[k] = head[k]
          /\ \A k \in 1 .. Len(pair) : all[Len(head) + k] = pair[k]
      <4>1. head \in Seq(Octet) /\ pair \in Seq(Octet)
        BY <2>1, <3>2
      <4> QED
        BY ONLY <4>1, all = head \o pair
    <3>4. w[2 * j + 1] = pair[1] /\ w[2 * j + 2] = pair[2]
      <4>1. 2 * i - 1 = 2 * j + 1 /\ 2 * i = 2 * j + 2
        BY <3>1
      <4> QED
        BY <1>6, <2>1, <4>1
    <3>5. ASSUME NEW k \in 1 .. 2 * j + 2 PROVE all[k] = w[k]
      <4>1. CASE k \in 1 .. 2 * j
        BY ONLY <3>2, <3>3, <4>1
      <4>2. CASE k = 2 * j + 1
        BY ONLY <2>1, <3>1, <3>2, <3>3, <3>4, <4>2
      <4>3. CASE k = 2 * j + 2
        BY ONLY <2>1, <3>1, <3>2, <3>3, <3>4, <4>3
      <4> QED
        BY <3>1, <4>1, <4>2, <4>3
    <3>6. /\ f[i] \in Seq(Octet) /\ Len(f[i]) = 2 * j + 2
          /\ \A k \in 1 .. 2 * j + 2 : f[i][k] = w[k]
      <4>1. 2 * i = 2 * j + 2
        BY <3>1
      <4> QED
        BY <1>7, <4>1
    <3>7. Len(all) = 2 * j + 2
      BY <2>1, <3>1, <3>2, <3>3
    <3>8. f[i] = all
      BY ONLY <3>3, <3>5, <3>6, <3>7, SeqEqual
    <3> QED
      BY <2>1, <2>3, <3>8
  <2> QED
    BY <2>2, <2>3
<1>9. Joins(seqs, f, n)
  BY <1>8 DEF Joins
<1>10. FlattenSeq(seqs) = f[n]
  <2>1. Len(seqs) \in Nat \ {0} /\ Joins(seqs, f, Len(seqs))
    BY <1>1, <1>3, <1>9
  <2> QED
    BY <1>3, <2>1, FlattenIsLastJoin
<1>11. f[n] \in Seq(Octet) /\ Len(f[n]) = 2 * n /\ \A k \in 1 .. 2 * n : f[n][k] = w[k]
  <2>1. n \in 1 .. n
    BY <1>1
  <2> QED
    BY ONLY <1>7, <2>1
<1>12. HexBytes(bytes) = f[n]
  BY <1>10 DEF HexBytes
<1>13. ASSUME NEW i \in 1 .. n
       PROVE  /\ f[n][2 * i - 1] = HexDigit(bytes[i] \div 16)
              /\ f[n][2 * i] = HexDigit(bytes[i] % 16)
  <2>1. 2 * i - 1 \in 1 .. 2 * n /\ 2 * i \in 1 .. 2 * n
    BY <1>1
  <2> QED
    BY <1>2, <1>6, <1>11, <2>1
<1> QED
  BY ONLY n = Len(bytes), <1>11, <1>12, <1>13

LEMMA HexRoundTrip ==
  ASSUME NEW bytes \in Seq(Octet), bytes # <<>>,
         NEW digits, digits = HexBytes(bytes)
  PROVE  /\ ~ \E i \in DOMAIN digits : ~IsHexDigit(digits[i])
         /\ HexDecoded(digits) = bytes
<1> PICK n : n = Len(bytes)
  OBVIOUS
<1>1. /\ n \in Nat /\ digits \in Seq(Octet) /\ Len(digits) = 2 * n
      /\ \A i \in 1 .. n : /\ digits[2 * i - 1] = HexDigit(bytes[i] \div 16)
                           /\ digits[2 * i] = HexDigit(bytes[i] % 16)
  <2>1. /\ HexBytes(bytes) \in Seq(Octet)
        /\ Len(HexBytes(bytes)) = 2 * Len(bytes)
        /\ \A i \in 1 .. Len(bytes) :
             /\ HexBytes(bytes)[2 * i - 1] = HexDigit(bytes[i] \div 16)
             /\ HexBytes(bytes)[2 * i] = HexDigit(bytes[i] % 16)
    BY ONLY bytes \in Seq(Octet), bytes # <<>>, HexFacts, ZenonT(30)
  <2>2. n \in Nat
    OBVIOUS
  <2> QED
    BY ONLY <2>1, <2>2, n = Len(bytes), digits = HexBytes(bytes)
<1>0. n \in Nat
  OBVIOUS
<1>2. ASSUME NEW i \in 1 .. n
      PROVE  /\ IsHexDigit(digits[2 * i - 1]) /\ IsHexDigit(digits[2 * i])
             /\ 16 * HexValue(digits[2 * i - 1]) + HexValue(digits[2 * i]) = bytes[i]
  <2>1. bytes[i] \in Octet
    OBVIOUS
  <2> PICK high : high = bytes[i] \div 16
    OBVIOUS
  <2> PICK low : low = bytes[i] % 16
    OBVIOUS
  <2>2. high \in 0 .. 15 /\ low \in 0 .. 15 /\ 16 * high + low = bytes[i]
    BY <2>1, Nibbles
  <2>3. digits[2 * i - 1] = HexDigit(high) /\ digits[2 * i] = HexDigit(low)
    BY <1>1
  <2>4. /\ IsHexDigit(HexDigit(high)) /\ HexValue(HexDigit(high)) = high
        /\ IsHexDigit(HexDigit(low)) /\ HexValue(HexDigit(low)) = low
    BY <2>2, HexDigits
  <2> QED
    BY ONLY <2>2, <2>3, <2>4
<1>3. ASSUME NEW k \in DOMAIN digits PROVE IsHexDigit(digits[k])
  <2>1. k \in 1 .. 2 * n
    BY <1>1
  <2>2. CASE k % 2 = 1
    <3> PICK i : i = (k + 1) \div 2
      OBVIOUS
    <3>1. i \in 1 .. n /\ k = 2 * i - 1
      BY ONLY <1>0, <2>1, <2>2, i = (k + 1) \div 2
    <3> QED
      BY <1>2, <3>1
  <2>3. CASE k % 2 # 1
    <3> PICK i : i = k \div 2
      OBVIOUS
    <3>1. i \in 1 .. n /\ k = 2 * i
      BY ONLY <1>0, <2>1, <2>3, i = k \div 2
    <3> QED
      BY <1>2, <3>1
  <2> QED
    BY <2>2, <2>3
<1>4. Len(digits) \div 2 = n
  BY ONLY <1>1
<1>5. HexDecoded(digits) = [i \in 1 .. n |->
        16 * HexValue(digits[2 * i - 1]) + HexValue(digits[2 * i])]
  BY <1>4 DEF HexDecoded
<1>6. HexDecoded(digits) = [i \in 1 .. n |-> bytes[i]]
  BY <1>2, <1>5
<1>7. bytes = [i \in 1 .. n |-> bytes[i]]
  OBVIOUS
<1> QED
  BY <1>3, <1>6, <1>7

LEMMA CountRoundTrip ==
  ASSUME NEW n \in Nat, FitsInFlags(n)
  PROVE  CountBytes(n)[1] + 256 * CountBytes(n)[2] + 65536 * CountBytes(n)[3]
           + 16777216 * CountBytes(n)[4] = n
<1>1. (n % 256) + 256 * ((n \div 256) % 256) + 65536 * ((n \div 65536) % 256)
        + 16777216 * (n \div 16777216) = n
  OBVIOUS
<1> QED
  BY <1>1 DEF CountBytes

LEMMA FrameOfNumber ==
  ASSUME NEW f \in Frame, NEW g \in Frame, FrameNumber[f] = FrameNumber[g]
  PROVE  f = g
BY DEF Frame, FrameNumber

LEMMA CollectableFacts ==
  ASSUME NEW s \in 1 .. Len(Script), NEW i \in 0 .. Len(Script[s].subpackets),
         NEW h, h = Header(Script[s].frame, Position(s, i)), NEW e \in Encoding
  PROVE  /\ Collectable(e, h) \in Seq(Octet)
         /\ Len(Collectable(e, h)) = ReadSize[e]
         /\ DecodeHeader(e, Collectable(e, h)) = h
<1> PICK out : out = HeaderOctets(e, h)
  OBVIOUS
<1> PICK payload : payload = HeaderPayload(h)
  OBVIOUS
<1> PICK count : count = Position(s, i)
  OBVIOUS
<1> PICK f : f = Script[s].frame
  OBVIOUS
<1>1. /\ out \in Seq(Octet) /\ Len(out) = IF e = "ZBIN32" THEN 9 ELSE 7
      /\ SubSeq(out, 1, 5) = payload
      /\ SubSeq(out, 6, Len(out)) = CrcBytes(e, payload)
  BY OctetsType
<1>2. /\ f \in Frame /\ f # "ZRINIT" /\ count \in Nat /\ FitsInFlags(count)
      /\ h = Header(f, count)
  BY StageFacts
<1> PICK flags : flags = CountBytes(count)
  OBVIOUS
<1>3. payload = <<FrameNumber[f]>> \o flags /\ payload \in Seq(Octet) /\ Len(payload) = 5
  BY PayloadType
<1>4. flags \in Seq(Octet) /\ Len(flags) = 4
  BY <1>2, FlagsType
<1>5. payload[1] = FrameNumber[f] /\ \A k \in 1 .. 4 : payload[k + 1] = flags[k]
  <2> PICK number : number = FrameNumber[f]
    OBVIOUS
  <2>1. number \in Octet
    BY <1>2, FrameNumbers
  <2>2. ASSUME NEW s1 \in Seq(Octet)
        PROVE  /\ (<<number>> \o s1)[1] = number
               /\ \A k \in 1 .. Len(s1) : (<<number>> \o s1)[k + 1] = s1[k]
    BY ONLY <2>1, <2>2
  <2> QED
    BY <1>3, <1>4, <2>2
<1>6. out[1] = FrameNumber[f] /\ SubSeq(out, 2, 5) = flags
  <2>1. out # <<>> /\ Len(out) >= 5
    BY ONLY <1>1
  <2>2. \A k \in 1 .. 5 : out[k] = payload[k]
    BY ONLY <1>1, <2>1
  <2>3. out[1] = FrameNumber[f]
    BY <1>5, <2>2
  <2> PICK four : four = SubSeq(out, 2, 5)
    OBVIOUS
  <2>4. /\ four \in Seq(Octet) /\ Len(four) = 4
        /\ \A k \in 1 .. 4 : four[k] = out[k + 1]
    BY ONLY <1>1, <2>1, four = SubSeq(out, 2, 5)
  <2>5. \A k \in 1 .. 4 : four[k] = flags[k]
    BY ONLY <1>5, <2>2, <2>4
  <2>6. four = flags
    BY ONLY <1>4, <2>4, <2>5, SeqEqual
  <2> QED
    BY <2>3, <2>6
<1>7. CrcRight(e, out)
  BY <1>1 DEF CrcRight
<1>8. {g \in Frame : FrameNumber[g] = out[1]} = {f}
  BY <1>2, <1>6, FrameOfNumber
<1>9. HeaderOf(f, flags) = h
  <2>1. flags[1] + 256 * flags[2] + 65536 * flags[3] + 16777216 * flags[4] = count
    BY <1>2, CountRoundTrip
  <2> QED
    BY <1>2, <2>1 DEF HeaderOf
<1>10. ASSUME NEW data,
             e # "ZHEX" \/ ~ \E k \in DOMAIN data : ~IsHexDigit(data[k]),
             out = IF e = "ZHEX" THEN HexDecoded(data) ELSE data
       PROVE DecodeHeader(e, data) = h
  <2>1. (CHOOSE g \in {f} : TRUE) = f
    OBVIOUS
  <2>2. DecodeHeader(e, data) =
          IF CrcRight(e, out) /\ {g \in Frame : FrameNumber[g] = out[1]} # {}
          THEN HeaderOf(CHOOSE g \in {x \in Frame : FrameNumber[x] = out[1]} : TRUE,
                        SubSeq(out, 2, 5))
          ELSE Malformed
    BY <1>10 DEF DecodeHeader
  <2>3. DecodeHeader(e, data) = HeaderOf(CHOOSE g \in {f} : TRUE, flags)
    BY ONLY <1>6, <1>7, <1>8, <2>2
  <2> QED
    BY ONLY <1>9, <2>1, <2>3
<1>11. CASE e = "ZHEX"
  <2> PICK digits : digits = HexBytes(out)
    OBVIOUS
  <2>1. Collectable(e, h) = digits
    BY <1>11 DEF Collectable
  <2>2. out # <<>> /\ Len(out) = 7
    BY <1>1, <1>11
  <2>3. digits \in Seq(Octet) /\ Len(digits) = 2 * Len(out)
    BY <1>1, <2>2, HexFacts
  <2>4. Len(digits) = 14 /\ ReadSize[e] = 14
    <3>1. ReadSize[e] = 14
      BY <1>11 DEF ReadSize
    <3> QED
      BY ONLY <2>2, <2>3, <3>1
  <2>5. DecodeHeader(e, digits) = h
    BY <1>1, <1>10, <1>11, <2>2, HexRoundTrip
  <2> QED
    BY <2>1, <2>3, <2>4, <2>5
<1>12. CASE e # "ZHEX"
  <2>1. Collectable(e, h) = out
    BY <1>12 DEF Collectable
  <2>2. Len(out) = ReadSize[e]
    BY <1>1, <1>12 DEF ReadSize, Encoding
  <2>3. DecodeHeader(e, out) = h
    BY <1>10, <1>12
  <2> QED
    BY <1>1, <2>1, <2>2, <2>3
<1> QED
  BY <1>11, <1>12

-----------------------------------------------------------------------------
(***************************************************************************)
(* What travels, and what is decoded, has its type.                        *)
(***************************************************************************)
LEMMA HexDecodedType ==
  ASSUME NEW digits \in Seq(Octet), Len(digits) = 14,
         \A i \in DOMAIN digits : IsHexDigit(digits[i])
  PROVE  HexDecoded(digits) \in Seq(Nat) /\ Len(HexDecoded(digits)) = 7
<1>1. Len(digits) \div 2 = 7
  OBVIOUS
<1>2. HexDecoded(digits) = [i \in 1 .. 7 |->
        16 * HexValue(digits[2 * i - 1]) + HexValue(digits[2 * i])]
  BY <1>1 DEF HexDecoded
<1>3. ASSUME NEW b, IsHexDigit(b) PROVE HexValue(b) \in Nat
  <2>1. CASE b \in 48 .. 57
    <3>1. b \notin 65 .. 70
      BY ONLY <2>1
    <3>2. HexValue(b) = b - 48
      BY ONLY <2>1, <3>1 DEF HexValue
    <3> QED
      BY ONLY <2>1, <3>2
  <2>2. CASE b \in 65 .. 70
    <3>1. b \notin 48 .. 57
      BY ONLY <2>2
    <3>2. HexValue(b) = b - 55
      BY ONLY <2>2, <3>1 DEF HexValue
    <3> QED
      BY ONLY <2>2, <3>2
  <2>3. CASE b \in 97 .. 102
    <3>1. b \notin 48 .. 57 /\ b \notin 65 .. 70
      BY <2>3
    <3>2. HexValue(b) = b - 87
      BY <3>1 DEF HexValue
    <3> QED
      BY <2>3, <3>2
  <2> QED
    BY <1>3, <2>1, <2>2, <2>3 DEF IsHexDigit
<1>4. ASSUME NEW i \in 1 .. 7
      PROVE  16 * HexValue(digits[2 * i - 1]) + HexValue(digits[2 * i]) \in Nat
  <2>1. 2 * i - 1 \in DOMAIN digits /\ 2 * i \in DOMAIN digits
    OBVIOUS
  <2>2. HexValue(digits[2 * i - 1]) \in Nat /\ HexValue(digits[2 * i]) \in Nat
    BY <1>3, <2>1
  <2> QED
    BY ONLY <2>2
<1> PICK f : f = [i \in 1 .. 7 |->
        16 * HexValue(digits[2 * i - 1]) + HexValue(digits[2 * i])]
  OBVIOUS
<1>5. f \in Seq(Nat) /\ Len(f) = 7
  BY ONLY <1>4, f = [i \in 1 .. 7 |->
        16 * HexValue(digits[2 * i - 1]) + HexValue(digits[2 * i])]
<1> QED
  BY <1>2, <1>5

LEMMA HeaderOfType ==
  ASSUME NEW f \in Frame, NEW a \in Nat, NEW b \in Nat, NEW c \in Nat, NEW d \in Nat,
         NEW flags, flags[1] = a, flags[2] = b, flags[3] = c, flags[4] = d
  PROVE  HeaderOf(f, flags) \in HeaderUnit
<1>1. CASE f = "ZRINIT"
  <2> PICK canOvio \in BOOLEAN : canOvio = ((d \div 2) % 2 = 1)
    OBVIOUS
  <2> PICK len : len = a + 256 * b
    OBVIOUS
  <2>1. len \in Nat
    OBVIOUS
  <2>2. HeaderOf(f, flags) = Zrinit(len, canOvio)
    BY <1>1 DEF HeaderOf
  <2>3. Zrinit(len, canOvio) \in HeaderUnit
    BY <2>1 DEF Zrinit, HeaderUnit, Frame
  <2> QED
    BY <2>2, <2>3
<1>2. CASE f # "ZRINIT"
  <2> PICK count : count = a + 256 * b + 65536 * c + 16777216 * d
    OBVIOUS
  <2>1. count \in Nat
    OBVIOUS
  <2>2. HeaderOf(f, flags) = Header(f, count)
    BY <1>2 DEF HeaderOf
  <2>3. Header(f, count) \in HeaderUnit
    BY <2>1 DEF Header, HeaderUnit
  <2> QED
    BY <2>2, <2>3
<1> QED
  BY <1>1, <1>2

LEMMA DecodedType ==
  ASSUME NEW e \in Encoding, NEW data \in Seq(Octet), Len(data) = ReadSize[e]
  PROVE  DecodeHeader(e, data) = Malformed \/ DecodeHeader(e, data) \in HeaderUnit
<1>1. ASSUME NEW out \in Seq(Nat), Len(out) >= 5,
             {f \in Frame : FrameNumber[f] = out[1]} # {}
      PROVE  HeaderOf(CHOOSE f \in {g \in Frame : FrameNumber[g] = out[1]} : TRUE,
                      SubSeq(out, 2, 5)) \in HeaderUnit
  <2> PICK f : f = CHOOSE h \in {g \in Frame : FrameNumber[g] = out[1]} : TRUE
    OBVIOUS
  <2>1. f \in Frame
    BY <1>1
  <2> PICK flags : flags = SubSeq(out, 2, 5)
    OBVIOUS
  <2>2. flags[1] \in Nat /\ flags[2] \in Nat /\ flags[3] \in Nat /\ flags[4] \in Nat
    <3>1. /\ out[2] \in Nat /\ out[3] \in Nat /\ out[4] \in Nat /\ out[5] \in Nat
          /\ 5 \in 1 .. Len(out)
      <4>1. ASSUME NEW k \in 1 .. 5 PROVE out[k] \in Nat
        BY <1>1
      <4>2. 5 \in 1 .. Len(out)
        BY <1>1
      <4> QED
        BY ONLY <4>1, <4>2
    <3>2. ASSUME NEW k \in 1 .. 4 PROVE flags[k] = out[k + 1]
      BY <1>1, <3>1
    <3>3. flags[1] = out[2] /\ flags[2] = out[3] /\ flags[3] = out[4] /\ flags[4] = out[5]
      <4>1. /\ 1 \in 1 .. 4 /\ 2 \in 1 .. 4 /\ 3 \in 1 .. 4 /\ 4 \in 1 .. 4
            /\ 1 + 1 = 2 /\ 2 + 1 = 3 /\ 3 + 1 = 4 /\ 4 + 1 = 5
        OBVIOUS
      <4>2. flags[1] = out[1 + 1] /\ flags[2] = out[2 + 1]
        BY ONLY <3>2, <4>1
      <4>3. flags[3] = out[3 + 1] /\ flags[4] = out[4 + 1]
        BY ONLY <3>2, <4>1
      <4> QED
        BY ONLY <4>1, <4>2, <4>3
    <3> QED
      BY ONLY <3>1, <3>3
  <2>3. HeaderOf(f, flags) \in HeaderUnit
    BY <2>1, <2>2, HeaderOfType
  <2> QED
    BY <2>3
<1>2. CASE e = "ZHEX" /\ \E i \in DOMAIN data : ~IsHexDigit(data[i])
  BY <1>2 DEF DecodeHeader
<1>3. CASE e = "ZHEX" /\ ~ \E i \in DOMAIN data : ~IsHexDigit(data[i])
  <2> PICK out : out = HexDecoded(data)
    OBVIOUS
  <2>0. Len(data) = 14
    BY <1>3 DEF ReadSize
  <2>1. out \in Seq(Nat) /\ Len(out) = 7
    BY <1>3, <2>0, HexDecodedType
  <2>2. Len(out) >= 5
    BY <2>1
  <2>3. DecodeHeader(e, data) =
          IF CrcRight(e, out) /\ {f \in Frame : FrameNumber[f] = out[1]} # {}
          THEN HeaderOf(CHOOSE f \in {g \in Frame : FrameNumber[g] = out[1]} : TRUE,
                        SubSeq(out, 2, 5))
          ELSE Malformed
    BY <1>3 DEF DecodeHeader
  <2> QED
    BY ONLY <1>1, <2>1, <2>2, <2>3
<1>4. CASE e # "ZHEX"
  <2>1. data \in Seq(Nat) /\ Len(data) >= 5
    <3>1. Octet \subseteq Nat
      BY DEF Octet
    <3>2. Len(data) = 7 \/ Len(data) = 9
      BY <1>4 DEF ReadSize, Encoding
    <3>3. \A k \in 1 .. Len(data) : data[k] \in Nat
      <4>1. ASSUME NEW k \in 1 .. Len(data) PROVE data[k] \in Octet
        BY ONLY data \in Seq(Octet), <4>1
      <4> QED
        BY ONLY <3>1, <4>1
    <3>4. data = [k \in 1 .. Len(data) |-> data[k]]
      OBVIOUS
    <3>5. [k \in 1 .. Len(data) |-> data[k]] \in Seq(Nat)
      BY ONLY data \in Seq(Octet), <3>3
    <3> QED
      BY ONLY <3>2, <3>4, <3>5
  <2>2. DecodeHeader(e, data) =
          IF CrcRight(e, data) /\ {f \in Frame : FrameNumber[f] = data[1]} # {}
          THEN HeaderOf(CHOOSE f \in {g \in Frame : FrameNumber[g] = data[1]} : TRUE,
                        SubSeq(data, 2, 5))
          ELSE Malformed
    BY <1>4 DEF DecodeHeader
  <2> QED
    BY ONLY <1>1, <2>1, <2>2
<1> QED
  BY <1>2, <1>3, <1>4

LEMMA Specials ==
  /\ ZPAD \in Octet /\ ZDLE \in Octet /\ CR \in Octet /\ LF \in Octet /\ XON \in Octet
  /\ \A e \in Encoding : EncodingByte[e] \in Octet
  /\ \A k \in SubpacketType : TerminatorByte[k] \in Octet /\ TerminatorByte[k] \in 104 .. 107
BY DEF ZPAD, ZDLE, CR, LF, XON, Octet, Encoding, EncodingByte, SubpacketType,
       TerminatorByte

LEMMA LineEndType ==
  ASSUME NEW e, NEW h
  PROVE  LineEnd(e, h) \in Seq(Octet) /\ LineEnd(e, h) \in Seq({CR, LF, XON})
<1> PICK end : end = LineEnd(e, h)
  OBVIOUS
<1>1. end = <<>> \/ end = <<CR, LF>> \/ end = <<CR, LF, XON>>
  BY DEF LineEnd, HexEnd
<1>2. CR \in Octet /\ LF \in Octet /\ XON \in Octet
  BY Specials
<1>3. ASSUME NEW S, CR \in S, LF \in S, XON \in S
      PROVE  end \in Seq(S)
  <2>1. <<CR, LF>> \in Seq(S)
    BY ONLY <1>3
  <2>2. <<CR, LF, XON>> \in Seq(S)
    BY ONLY <1>3
  <2>3. <<>> \in Seq(S)
    OBVIOUS
  <2> QED
    BY ONLY <1>1, <2>1, <2>2, <2>3
<1>4. end \in Seq(Octet)
  BY ONLY <1>2, <1>3
<1>5. end \in Seq({CR, LF, XON})
  BY ONLY <1>3
<1> QED
  BY <1>4, <1>5

\* A header on its way.
LEMMA HeaderBytesFacts ==
  ASSUME NEW s \in 1 .. Len(Script), NEW i \in 0 .. Len(Script[s].subpackets),
         NEW h, h = Header(Script[s].frame, Position(s, i)), NEW e \in Encoding
  PROVE  /\ HeaderBytes(e, h) \in Seq(Octet)
         /\ \/ HeaderBytes(e, h) = <<ZPAD, ZPAD, ZDLE, EncodingByte[e]>>
                                     \o Coming(Collectable(e, h), LineEnd(e, h))
            \/ HeaderBytes(e, h) = <<ZPAD, ZDLE, EncodingByte[e]>>
                                     \o Coming(Collectable(e, h), LineEnd(e, h))
<1> PICK octets : octets = Collectable(e, h)
  OBVIOUS
<1> PICK end : end = LineEnd(e, h)
  OBVIOUS
<1> PICK escaped : escaped = EscapeSlice(octets)
  OBVIOUS
<1>1. octets \in Seq(Octet) /\ escaped \in Seq(Octet) /\ end \in Seq(Octet)
  BY CollectableFacts, EscapeSliceType, LineEndType
<1>2. EncodingByte[e] \in Octet /\ ZPAD \in Octet /\ ZDLE \in Octet
  BY Specials
<1>3. CASE e = "ZHEX"
  <2> PICK start : start = <<ZPAD, ZPAD, ZDLE, EncodingByte[e]>>
    OBVIOUS
  <2>1. start \in Seq(Octet)
    BY <1>2
  <2>2. HeaderBytes(e, h) = (start \o escaped) \o end
    BY <1>3 DEF HeaderBytes, Collectable, LineEnd, HeaderOctets, HeaderPayload
  <2>3. (start \o escaped) \o end = start \o (escaped \o end)
    BY ONLY <1>1, <2>1, OctetsAssociate
  <2>4. (start \o escaped) \o end \in Seq(Octet)
    BY ONLY <1>1, <2>1
  <2> QED
    BY <2>2, <2>3, <2>4 DEF Coming
<1>4. CASE e # "ZHEX"
  <2> PICK start : start = <<ZPAD, ZDLE, EncodingByte[e]>>
    OBVIOUS
  <2>1. start \in Seq(Octet)
    BY <1>2
  <2>2. HeaderBytes(e, h) = start \o escaped
    BY <1>4 DEF HeaderBytes, Collectable, HeaderOctets, HeaderPayload
  <2>3. end = <<>>
    BY <1>4 DEF LineEnd
  <2>4. escaped \o <<>> = escaped
    BY <1>1
  <2>5. start \o escaped \in Seq(Octet)
    BY ONLY <1>1, <2>1
  <2> QED
    BY <2>2, <2>3, <2>4, <2>5 DEF Coming
<1> QED
  BY <1>3, <1>4

\* A subpacket on its way.
LEMMA SubpacketBytesFacts ==
  ASSUME NEW s \in 1 .. Len(Script), NEW i \in 1 .. Len(Script[s].subpackets),
         NEW subpacket, subpacket = Script[s].subpackets[i], NEW e
  PROVE  LET crc == CrcBytes(e, Append(subpacket.data, TerminatorByte[subpacket.kind]))
             behind == <<ZDLE, TerminatorByte[subpacket.kind]>> \o EscapeSlice(crc)
         IN  /\ crc \in Seq(Octet) /\ Len(crc) = IF e = "ZBIN32" THEN 4 ELSE 2
             /\ EscapeSlice(crc) \in Seq(Octet)
             /\ behind \in Seq(Octet)
             /\ SubpacketBytes(e, subpacket.kind, subpacket.data) \in Seq(Octet)
             /\ SubpacketBytes(e, subpacket.kind, subpacket.data) =
                  Coming(subpacket.data, behind)
<1> PICK data : data = subpacket.data
  OBVIOUS
<1> PICK last : last = TerminatorByte[subpacket.kind]
  OBVIOUS
<1> PICK crc : crc = CrcBytes(e, Append(data, last))
  OBVIOUS
<1>1. subpacket \in SubpacketRecord
  BY StageFacts
<1>2. data \in Seq(Octet) /\ last \in Octet
  BY <1>1, Specials DEF SubpacketRecord
<1>3. Append(data, last) \in Checksummed
  <2> PICK subpackets : subpackets = Script[s].subpackets
    OBVIOUS
  <2>1. subpacket \in Range(subpackets)
    <3>1. i \in DOMAIN subpackets
      BY StageFacts
    <3> QED
      BY <3>1 DEF Range
  <2>2. Append(data, last) \in
          {Append(x.data, TerminatorByte[x.kind]) : x \in Range(Script[s].subpackets)}
    BY <2>1
  <2> QED
    BY ONLY s \in 1 .. Len(Script), <2>2 DEF Checksummed
<1>4. crc \in Seq(Octet) /\ Len(crc) = IF e = "ZBIN32" THEN 4 ELSE 2
  BY <1>3, CrcType
<1> PICK a : a = EscapeSlice(data)
  OBVIOUS
<1> PICK b : b = <<ZDLE, last>>
  OBVIOUS
<1> PICK c : c = EscapeSlice(crc)
  OBVIOUS
<1>5. a \in Seq(Octet) /\ b \in Seq(Octet) /\ c \in Seq(Octet)
  BY <1>2, <1>4, EscapeSliceType, Specials
<1>6. b \o c \in Seq(Octet) /\ (a \o b) \o c \in Seq(Octet)
  BY ONLY <1>5
<1>7. (a \o b) \o c = a \o (b \o c)
  BY ONLY <1>5, OctetsAssociate
<1>8. SubpacketBytes(e, subpacket.kind, data) = (a \o b) \o c
  BY DEF SubpacketBytes
<1>9. Coming(data, b \o c) = a \o (b \o c)
  BY DEF Coming
<1> QED
  BY <1>4, <1>5, <1>6, <1>7, <1>8, <1>9

-----------------------------------------------------------------------------
(***************************************************************************)
(* The readers keep their types.                                           *)
(***************************************************************************)
LEMMA UnescapedOctet ==
  ASSUME NEW pending, NEW bytes \in Seq(Octet), IsWhole(pending, bytes)
  PROVE  Unescaped(pending, bytes) \in Octet
<1>1. Len(bytes) \in 1 .. 2 /\ bytes[1] \in Octet /\ (Len(bytes) = 2 => bytes[2] \in Octet)
  BY DEF IsWhole
<1>2. UnzdleTable(bytes[1]) \in Octet
  BY <1>1, UnescapedType
<1>3. Len(bytes) = 2 => UnzdleTable(bytes[2]) \in Octet
  BY <1>1, UnescapedType
<1> QED
  BY <1>1, <1>2, <1>3 DEF Unescaped

LEMMA ResetType ==
  ASSUME ReaderTypeOK, Reset, resyncing' \in BOOLEAN
  PROVE  ReaderTypeOK'
<1>1. headerBuf' \in Seq(Octet)
  BY DEF Reset
<1>2. escapePending' \in BOOLEAN
  BY DEF Reset
<1>3. /\ readerState' = "SeekingZpad" /\ zpadState' = "Idle" /\ encoding' = "None"
  BY DEF Reset
<1> QED
  BY ONLY <1>1, <1>2, <1>3, resyncing' \in BOOLEAN DEF ReaderTypeOK, HeaderReadState

LEMMA ReaderSteps ==
  ASSUME ReaderTypeOK, NEW bytes \in Seq(Octet), Skips(bytes) \/ Fails(bytes)
  PROVE  ReaderTypeOK'
<1>1. CASE SeekZpad(bytes)
  BY <1>1 DEF SeekZpad, ReaderTypeOK, HeaderReadState, ZpadAfter
<1>2. CASE ReadEncoding(bytes)
  <2>1. encoding' \in Encoding /\ encoding' # "None"
    BY <1>2 DEF ReadEncoding, Encodings, Encoding
  <2>2. ReadSize[encoding'] > 0
    BY <2>1 DEF ReadSize, Encoding
  <2> QED
    <3>1. headerBuf' = <<>> /\ escapePending' = FALSE
      BY <1>2 DEF ReadEncoding
    <3>2. headerBuf' \in Seq(Octet) /\ Len(headerBuf') = 0
      BY <3>1
    <3>3. escapePending' \in BOOLEAN /\ resyncing' \in BOOLEAN
      BY <1>2, <3>1 DEF ReadEncoding, ReaderTypeOK
    <3>4. readerState' = "ReadingData" /\ zpadState' \in {"Idle", "Zpad", "ZpadZpad"}
      BY <1>2 DEF ReadEncoding, ReaderTypeOK
    <3> QED
      BY ONLY <2>1, <2>2, <3>2, <3>3, <3>4 DEF ReaderTypeOK, HeaderReadState
<1>3. CASE StopAtEscape(bytes)
  BY <1>3 DEF StopAtEscape, ReaderTypeOK
<1>4. CASE CollectByte(bytes)
  <2>1. Unescaped(escapePending, bytes) \in Octet
    BY <1>4, UnescapedOctet DEF CollectByte
  <2> PICK octet \in Octet : octet = Unescaped(escapePending, bytes)
    BY <2>1
  <2>2. headerBuf' = Append(headerBuf, octet)
    BY <1>4 DEF CollectByte, Collected
  <2>3. headerBuf' \in Seq(Octet) /\ Len(headerBuf') = Len(headerBuf) + 1
    BY <2>2 DEF ReaderTypeOK
  <2> QED
    BY <1>4, <2>3 DEF CollectByte, ReaderTypeOK
<1>5. CASE Stumbles(bytes) /\ resyncing' = resyncing
  BY <1>5, ResetType DEF Stumbles, UnknownEncoding, DropHeader, ReaderTypeOK
<1>6. Stumbles(bytes) => resyncing' = resyncing
  BY DEF Stumbles, UnknownEncoding, DropHeader
<1> QED
  BY <1>1, <1>2, <1>3, <1>4, <1>5, <1>6 DEF Skips, Fails

LEMMA AwaitType ==
  ASSUME Await(phase'), phase' \in {"Idle", "SkipTrailer", "Reading"},
         dataEncoding' \in Encoding
  PROVE  SubpacketTypeOK'
<1>1. SubpacketMaxSize \in Nat
  BY SizeAssumption
<1>2. CrcLength' > 0
  BY DEF CrcLength
<1>3. kind' = "None" /\ buf' = <<>> /\ crcBuf' = <<>>
  BY DEF Await, ResetCrc
<1>4. buf' \in Seq(Octet) /\ Len(buf') <= SubpacketMaxSize
  BY <1>1, <1>3
<1>5. crcBuf' \in Seq(Octet) /\ Len(crcBuf') < CrcLength'
  BY <1>2, <1>3
<1>6. ~subpacketEscapePending' /\ ~crcEscapePending'
      /\ subpacketEscapePending' \in BOOLEAN /\ crcEscapePending' \in BOOLEAN
  BY DEF Await, ResetCrc
<1> QED
  BY <1>3, <1>4, <1>5, <1>6 DEF SubpacketTypeOK, SubpacketType

LEMMA AnnouncedType ==
  ASSUME NEW f, NEW e \in Encoding, Announced(f, e)
  PROVE  SubpacketTypeOK' /\ phase' \in {"SkipTrailer", "Reading"}
<1>1. phase' \in {"SkipTrailer", "Reading"} /\ Await(phase')
  BY DEF Announced, Await
<1>2. dataEncoding' \in Encoding
  BY DEF Announced, Encoding
<1> QED
  BY <1>1, <1>2, AwaitType

LEMMA SubpacketSteps ==
  ASSUME SubpacketTypeOK, NEW bytes \in Seq(Octet), phase # "Idle",
         Reads(bytes) \/ Overflows(bytes)
  PROVE  SubpacketTypeOK' /\ phase' # "Idle"
<1>1. CASE SkipTrailer(bytes)
  BY <1>1 DEF SkipTrailer, subpacketVars, SubpacketTypeOK, CrcLength
<1>2. CASE PauseAtEscape(bytes)
  <2>1. kind = "None"
    BY <1>2 DEF PauseAtEscape, IsPayload, SubpacketTypeOK
  <2> QED
    BY <1>2, <2>1 DEF PauseAtEscape, SubpacketTypeOK, CrcLength
<1>3. CASE CollectData(bytes)
  <2>1. kind = "None"
    BY <1>3 DEF CollectData, IsData, IsPayload, SubpacketTypeOK
  <2>2. Unescaped(subpacketEscapePending, bytes) \in Octet
    BY <1>3, UnescapedOctet DEF CollectData, IsData
  <2> PICK octet \in Octet : octet = Unescaped(subpacketEscapePending, bytes)
    BY <2>2
  <2>3. buf' = Append(buf, octet) /\ Len(buf) < SubpacketMaxSize
    BY <1>3 DEF CollectData, HasRoom
  <2>4. buf' \in Seq(Octet) /\ Len(buf') <= SubpacketMaxSize
    BY <2>3, SizeAssumption DEF SubpacketTypeOK
  <2> QED
    BY <1>3, <2>1, <2>4 DEF CollectData, SubpacketTypeOK, CrcLength
<1>4. CASE Terminate(bytes)
  <2>1. kind' \in SubpacketType /\ kind' # "None"
    BY <1>4 DEF Terminate, TerminatorsIn, SubpacketType
  <2> QED
    BY <1>4, <2>1 DEF Terminate, SubpacketTypeOK, CrcLength
<1>5. CASE PauseInCrc(bytes)
  BY <1>5 DEF PauseInCrc, SubpacketTypeOK, CrcLength
<1>6. CASE CollectCrc(bytes)
  <2>1. Unescaped(crcEscapePending, bytes) \in Octet
    BY <1>6, UnescapedOctet DEF CollectCrc
  <2> PICK octet \in Octet : octet = Unescaped(crcEscapePending, bytes)
    BY <2>1
  <2>2. crcBuf' = Append(crcBuf, octet)
    BY <1>6 DEF CollectCrc, CrcCollected
  <2>3. crcBuf' \in Seq(Octet) /\ Len(crcBuf') = Len(crcBuf) + 1
    BY <2>2 DEF SubpacketTypeOK
  <2> QED
    BY <1>6, <2>3 DEF CollectCrc, SubpacketTypeOK, CrcLength
<1>7. CASE Overflows(bytes)
  <2>1. kind = "None"
    BY <1>7 DEF Overflows, IsData, IsPayload, SubpacketTypeOK
  <2> QED
    BY <1>7, <2>1 DEF Overflows, SubpacketTypeOK, CrcLength
<1> QED
  BY <1>1, <1>2, <1>3, <1>4, <1>5, <1>6, <1>7 DEF Reads

-----------------------------------------------------------------------------
(***************************************************************************)
(* TypeInv is an invariant.                                                *)
(***************************************************************************)
LEMMA InitTyped == StreamInit => TypeInv
<1> SUFFICES ASSUME StreamInit PROVE TypeInv
  OBVIOUS
<1>1. <<>> \in Seq(Octet) /\ Len(<<>>) = 0
  OBVIOUS
<1>2. ReaderTypeOK
  BY <1>1 DEF StreamInit, ReaderInit, ReaderTypeOK, HeaderReadState
<1>3. SubpacketTypeOK
  <2>1. SubpacketInit
    BY DEF StreamInit
  <2>2. buf \in Seq(Octet) /\ Len(buf) <= SubpacketMaxSize
    BY <1>1, <2>1, SizeAssumption DEF SubpacketInit
  <2>3. crcBuf \in Seq(Octet) /\ Len(crcBuf) < CrcLength
    BY <1>1, <2>1 DEF SubpacketInit, CrcLength
  <2>4. subpacketEscapePending \in BOOLEAN /\ crcEscapePending \in BOOLEAN
    BY <2>1 DEF SubpacketInit
  <2> QED
    BY ONLY <2>1, <2>2, <2>3, <2>4 DEF SubpacketInit, SubpacketTypeOK, Encoding,
                                      SubpacketType
<1>4. StreamTypeOK
  <2>1. Len(Script) \in Nat
    BY ScriptAssumption
  <2> QED
    BY <1>1, <2>1 DEF StreamInit, StreamTypeOK
<1>5. InScript
  <2>1. Len(accepted) <= Len(Subpackets)
    BY <1>1 DEF StreamInit, Subpackets
  <2> QED
    BY <2>1 DEF StreamInit, SubpacketInit, InScript
<1> QED
  BY <1>2, <1>3, <1>4, <1>5 DEF TypeInv

\* Where the peer begins a frame.
LEMMA BeginFrameFacts ==
  ASSUME StreamTypeOK, InScript, BeginFrame
  PROVE  /\ stage' \in 1 .. Len(Script)
         /\ accepted' \in Seq(SubpacketRecord)
         /\ sent' = Len(accepted') /\ sent' \in 0 .. Len(Script[stage'].subpackets)
         /\ header' = Header(Script[stage'].frame, Position(stage', sent'))
<1>1. sent' = Len(accepted') /\ stage' <= Len(Script) /\ Len(Script) \in Nat
  BY ScriptAssumption DEF BeginFrame
<1>2. header' = Header(Script[stage'].frame, Position(stage', sent'))
  BY DEF BeginFrame
<1>3. CASE StageDone
  <2>1. stage' = stage + 1 /\ accepted' = <<>>
    BY <1>3 DEF BeginFrame
  <2>2. stage' \in 1 .. Len(Script)
    BY <1>1, <2>1 DEF StreamTypeOK
  <2>3. Len(accepted') = 0 /\ accepted' \in Seq(SubpacketRecord)
    BY <2>1
  <2>4. Len(Script[stage'].subpackets) \in Nat
    BY <2>2, StageFacts
  <2> QED
    BY <1>1, <1>2, <2>2, <2>3, <2>4
<1>4. CASE ~StageDone
  <2>1. stage' = stage /\ accepted' = accepted /\ stage # 0
    BY <1>4 DEF BeginFrame, StageDone
  <2>2. stage' \in 1 .. Len(Script)
    BY <1>1, <2>1 DEF StreamTypeOK
  <2>3. Len(accepted) <= Len(Subpackets)
    <3>1. Len(accepted) \in Nat /\ Len(Subpackets) \in Nat
      BY <2>1, <2>2, StageFacts DEF StreamTypeOK, Subpackets
    <3> QED
      BY <1>4, <3>1 DEF StageDone, InScript
  <2>4. Subpackets = Script[stage'].subpackets
    BY <2>1 DEF Subpackets
  <2>5. Len(accepted) \in Nat /\ Len(Script[stage'].subpackets) \in Nat
    BY <2>2, StageFacts DEF StreamTypeOK
  <2> QED
    BY <1>1, <1>2, <2>1, <2>2, <2>3, <2>4, <2>5 DEF StreamTypeOK
<1> QED
  BY <1>3, <1>4

LEMMA BeginFrameTyped ==
  ASSUME TypeInv, BeginFrame
  PROVE  TypeInv'
<1>1. /\ stage' \in 1 .. Len(Script)
      /\ accepted' \in Seq(SubpacketRecord)
      /\ sent' = Len(accepted') /\ sent' \in 0 .. Len(Script[stage'].subpackets)
      /\ header' = Header(Script[stage'].frame, Position(stage', sent'))
  BY BeginFrameFacts DEF TypeInv
<1>2. PICK e \in Script[stage'].encodings :
        /\ wire' = HeaderBytes(e, header')
        /\ frame' = IF sent' = Len(Script[stage'].subpackets) THEN "None" ELSE e
  BY DEF BeginFrame
<1>3. e \in Encoding
  BY <1>1, StageFacts
<1>4. wire' \in Seq(Octet)
  BY <1>1, <1>2, <1>3, HeaderBytesFacts
<1>5. Subpackets' = Script[stage'].subpackets /\ Len(Script[stage'].subpackets) \in Nat
  BY <1>1, StageFacts DEF Subpackets
<1>6. StreamTypeOK'
  <2>1. stage' \in 0 .. Len(Script) /\ sent' \in Nat /\ frame' \in Encoding \cup {"None"}
    BY <1>1, <1>2, <1>3, <1>5
  <2>2. damaged' \in Nat
    BY DEF BeginFrame, TypeInv, StreamTypeOK
  <2>3. found' \in Seq(HeaderUnit)
    BY DEF BeginFrame
  <2> QED
    BY ONLY <1>1, <1>4, <2>1, <2>2, <2>3 DEF StreamTypeOK
<1>7. InScript'
  <2>1. frame' # "None" => stage' > 0 /\ sent' < Len(Subpackets')
    BY <1>1, <1>2, <1>5
  <2>2. Len(accepted') <= Len(Subpackets')
    BY <1>1, <1>5
  <2>3. phase' = "Idle"
    BY DEF BeginFrame, receiverVars, subpacketVars
  <2> QED
    BY ONLY <2>1, <2>2, <2>3 DEF InScript
<1>8. ReaderTypeOK' /\ SubpacketTypeOK'
  <2>1. UNCHANGED readerVars /\ UNCHANGED subpacketVars
    BY DEF BeginFrame, receiverVars
  <2>2. ReaderTypeOK /\ SubpacketTypeOK
    BY DEF TypeInv
  <2>3. ReaderTypeOK'
    BY ONLY <2>1, <2>2 DEF readerVars, ReaderTypeOK
  <2>4. SubpacketTypeOK'
    BY ONLY <2>1, <2>2 DEF subpacketVars, SubpacketTypeOK, CrcLength
  <2> QED
    BY <2>3, <2>4
<1> QED
  BY <1>6, <1>7, <1>8 DEF TypeInv

LEMMA SendSubpacketTyped ==
  ASSUME TypeInv, SendSubpacket
  PROVE  TypeInv'
<1> PICK subpacket : subpacket = Subpackets[sent + 1]
  OBVIOUS
<1> PICK encoded : encoded = IF frame = "ZHEX" THEN "ZBIN" ELSE frame
  OBVIOUS
<1>1. /\ wire' = SubpacketBytes(encoded, subpacket.kind, subpacket.data)
      /\ frame' = IF subpacket.kind \in {"ZCRCG", "ZCRCQ"} THEN frame ELSE "None"
      /\ sent' = sent + 1 /\ frame # "None"
      /\ UNCHANGED <<stage, found, accepted, damaged>>
  BY DEF SendSubpacket
<1>2. UNCHANGED readerVars /\ UNCHANGED subpacketVars
  BY DEF SendSubpacket, receiverVars
<1>3. stage \in 1 .. Len(Script) /\ sent \in Nat /\ sent < Len(Subpackets)
  BY <1>1, ScriptAssumption DEF TypeInv, StreamTypeOK, InScript
<1> PICK subpackets : subpackets = Script[stage].subpackets
  OBVIOUS
<1>4. Subpackets = subpackets /\ Len(subpackets) \in Nat
  BY <1>3, StageFacts DEF Subpackets
<1>5. sent + 1 \in 1 .. Len(subpackets)
  BY <1>3, <1>4
<1>6. wire' \in Seq(Octet)
  BY <1>1, <1>3, <1>4, <1>5, SubpacketBytesFacts
<1>7. StreamTypeOK'
  <2>1. frame' \in Encoding \cup {"None"}
    BY <1>1 DEF TypeInv, StreamTypeOK
  <2> QED
    BY <1>1, <1>6, <2>1 DEF TypeInv, StreamTypeOK
<1>8. InScript'
  <2>1. Subpackets' = subpackets
    BY <1>1, <1>4 DEF Subpackets
  <2>2. frame' # "None" => sent' < Len(subpackets)
    <3>1. ASSUME sent + 1 = Len(subpackets)
          PROVE  subpacket.kind \in {"ZCRCE", "ZCRCW"}
      <4>1. Len(subpackets) > 0
        BY <1>5
      <4> QED
        BY <1>3, <1>4, <3>1, <4>1, StageFacts
    <3> QED
      BY <1>1, <1>5, <3>1
  <2>3. stage' = stage /\ found' = found /\ accepted' = accepted /\ phase' = phase
    BY <1>1, <1>2 DEF subpacketVars
  <2> QED
    BY <1>3, <1>4, <2>1, <2>2, <2>3 DEF TypeInv, InScript
<1>9. ReaderTypeOK'
  BY <1>2 DEF readerVars, TypeInv, ReaderTypeOK
<1>10. SubpacketTypeOK'
  BY <1>2 DEF subpacketVars, TypeInv, SubpacketTypeOK, CrcLength
<1> QED
  BY <1>7, <1>8, <1>9, <1>10 DEF TypeInv

LEMMA DamageTyped ==
  ASSUME TypeInv, Damage
  PROVE  TypeInv'
<1>1. PICK b \in Replacement : wire' = <<b>> \o Tail(wire)
  BY DEF Damage
<1>2. UNCHANGED readerVars /\ UNCHANGED subpacketVars
      /\ UNCHANGED <<stage, frame, sent, found, accepted>>
      /\ damaged' = damaged + 1 /\ wire # <<>>
  BY DEF Damage, receiverVars
<1>3. wire' \in Seq(Octet)
  <2>1. <<b>> \in Seq(Octet)
    BY ReplacementAssumption
  <2>2. Tail(wire) \in Seq(Octet)
    BY <1>2 DEF TypeInv, StreamTypeOK
  <2> QED
    BY <1>1, <2>1, <2>2
<1>4. StreamTypeOK'
  BY <1>2, <1>3 DEF TypeInv, StreamTypeOK
<1>5. InScript'
  BY <1>2 DEF TypeInv, InScript, Subpackets, subpacketVars
<1>6. ReaderTypeOK'
  BY <1>2 DEF readerVars, TypeInv, ReaderTypeOK
<1>7. SubpacketTypeOK'
  BY <1>2 DEF subpacketVars, TypeInv, SubpacketTypeOK, CrcLength
<1> QED
  BY <1>4, <1>5, <1>6, <1>7 DEF TypeInv

LEMMA ReadHeaderTyped ==
  ASSUME TypeInv, NEW bytes \in Seq(Octet), ReadHeader(bytes)
  PROVE  /\ ReaderTypeOK' /\ SubpacketTypeOK' /\ found' \in Seq(HeaderUnit)
         /\ accepted' = accepted
         /\ found' = <<>> => found = <<>>
         /\ phase' # "Idle" => found' # <<>>
<1>1. phase = "Idle" /\ accepted' = accepted
  BY DEF ReadHeader
<1>2. CASE (Skips(bytes) \/ Fails(bytes)) /\ UNCHANGED <<subpacketVars, found>>
  <2>1. ReaderTypeOK'
    BY <1>2, ReaderSteps DEF TypeInv
  <2>2. SubpacketTypeOK' /\ phase' = "Idle"
    BY <1>1, <1>2 DEF subpacketVars, TypeInv, SubpacketTypeOK, CrcLength
  <2> QED
    BY <1>1, <1>2, <2>1, <2>2 DEF TypeInv, StreamTypeOK
<1>3. CASE /\ Finds(bytes)
           /\ found' = Append(found, Decoded(bytes))
           /\ IF Decoded(bytes).frame \in {"ZSINIT", "ZFILE", "ZDATA"}
              THEN Announced(Decoded(bytes).frame, encoding)
              ELSE UNCHANGED subpacketVars
  <2>1. ReaderTypeOK'
    <3>1. Reset /\ resyncing' \in BOOLEAN
      BY <1>3 DEF Finds
    <3> QED
      BY <3>1, ResetType DEF TypeInv
  <2>2. encoding \in Encoding /\ Len(headerBuf) + 1 = ReadSize[encoding]
    BY <1>3 DEF Finds, Completes, TypeInv, ReaderTypeOK
  <2> PICK octet : octet = Unescaped(escapePending, bytes)
    OBVIOUS
  <2>3. octet \in Octet
    BY <1>3, UnescapedOctet DEF Finds, Completes
  <2> PICK data : data = Append(headerBuf, octet)
    OBVIOUS
  <2>4. data \in Seq(Octet) /\ Len(data) = Len(headerBuf) + 1
    BY <2>3 DEF TypeInv, ReaderTypeOK
  <2>5. Decoded(bytes) = DecodeHeader(encoding, data)
    BY DEF Decoded, Collected
  <2>6. Decoded(bytes) \in HeaderUnit
    BY <1>3, <2>2, <2>4, <2>5, DecodedType DEF Finds
  <2>7. found' \in Seq(HeaderUnit) /\ found' # <<>>
    BY <1>3, <2>6 DEF TypeInv, StreamTypeOK
  <2>8. SubpacketTypeOK'
    <3>1. CASE Announced(Decoded(bytes).frame, encoding)
      BY <2>2, <3>1, AnnouncedType
    <3>2. CASE UNCHANGED subpacketVars
      BY <3>2 DEF subpacketVars, TypeInv, SubpacketTypeOK, CrcLength
    <3> QED
      BY <1>3, <3>1, <3>2
  <2> QED
    BY <1>1, <2>1, <2>7, <2>8
<1> QED
  BY <1>2, <1>3 DEF ReadHeader

LEMMA ProcessSubpacketTyped ==
  ASSUME TypeInv, NEW bytes \in Seq(Octet), ProcessSubpacket(bytes)
  PROVE  /\ ReaderTypeOK' /\ SubpacketTypeOK'
         /\ accepted' \in Seq(SubpacketRecord)
         /\ found' = found /\ found # <<>>
<1>1. phase # "Idle" /\ found' = found /\ found # <<>>
  BY DEF ProcessSubpacket, TypeInv, InScript
<1>2. /\ ReaderTypeOK /\ SubpacketTypeOK /\ accepted \in Seq(SubpacketRecord)
      /\ dataEncoding \in Encoding
  BY DEF TypeInv, StreamTypeOK, SubpacketTypeOK
<1>3. UNCHANGED readerVars => ReaderTypeOK'
  BY <1>2 DEF readerVars, ReaderTypeOK
<1>4. EnterResync => ReaderTypeOK'
  BY <1>2 DEF EnterResync, ReaderTypeOK
<1>5. CASE Reads(bytes) /\ UNCHANGED <<readerVars, accepted, error>>
  BY <1>1, <1>2, <1>3, <1>5, SubpacketSteps
<1>6. CASE /\ Accepts(Last(found).frame, bytes)
           /\ accepted' = Append(accepted, Subpacket(kind, buf))
           /\ UNCHANGED <<readerVars, error>>
  <2>1. kind \in SubpacketType /\ buf \in Seq(Octet)
    BY <1>2, <1>6 DEF Accepts, CompletesCrc, SubpacketTypeOK
  <2>2. Subpacket(kind, buf) \in SubpacketRecord
    BY <2>1 DEF Subpacket, SubpacketRecord
  <2>3. accepted' \in Seq(SubpacketRecord)
    BY <1>2, <1>6, <2>2
  <2>4. Await(phase') /\ phase' \in {"Idle", "SkipTrailer", "Reading"}
        /\ dataEncoding' \in Encoding
    BY <1>2, <1>6 DEF Accepts, Await
  <2> QED
    BY <1>1, <1>3, <1>6, <2>3, <2>4, AwaitType
<1>7. CASE Rejects(bytes) /\ accepted' = accepted /\ (EnterResync \/ UNCHANGED readerVars)
  <2>1. Await(phase') /\ phase' \in {"Idle", "SkipTrailer", "Reading"}
        /\ dataEncoding' \in Encoding
    BY <1>2, <1>7 DEF Rejects, Await
  <2> QED
    BY <1>1, <1>2, <1>3, <1>4, <1>7, <2>1, AwaitType
<1>8. CASE Overflows(bytes) /\ UNCHANGED <<readerVars, accepted>>
  BY <1>1, <1>2, <1>3, <1>8, SubpacketSteps
<1> QED
  BY <1>5, <1>6, <1>7, <1>8 DEF ProcessSubpacket

LEMMA SubmitWireTyped ==
  ASSUME TypeInv, SubmitWire
  PROVE  TypeInv'
<1>1. PICK n \in 1 .. Len(wire) :
        /\ ReadHeader(SubSeq(wire, 1, n)) \/ ProcessSubpacket(SubSeq(wire, 1, n))
        /\ wire' = SubSeq(wire, n + 1, Len(wire))
  BY DEF SubmitWire
<1> PICK bytes : bytes = SubSeq(wire, 1, n)
  OBVIOUS
<1>2. wire \in Seq(Octet)
  BY DEF TypeInv, StreamTypeOK
<1>3. bytes \in Seq(Octet) /\ wire' \in Seq(Octet)
  BY <1>1, <1>2
<1>4. UNCHANGED <<stage, frame, sent, damaged>>
  BY DEF SubmitWire
<1>5. /\ ReaderTypeOK' /\ SubpacketTypeOK' /\ found' \in Seq(HeaderUnit)
      /\ accepted' \in Seq(SubpacketRecord)
      /\ found' = <<>> => found = <<>> /\ accepted' = accepted
      /\ phase' # "Idle" => found' # <<>>
  <2>1. CASE ReadHeader(bytes)
    <3>1. accepted \in Seq(SubpacketRecord)
      BY DEF TypeInv, StreamTypeOK
    <3> QED
      BY <1>3, <2>1, <3>1, ReadHeaderTyped
  <2>2. CASE ProcessSubpacket(bytes)
    <3>1. found \in Seq(HeaderUnit)
      BY DEF TypeInv, StreamTypeOK
    <3> QED
      BY <1>3, <2>2, <3>1, ProcessSubpacketTyped
  <2> QED
    BY <1>1, <2>1, <2>2
<1>6. StreamTypeOK'
  BY <1>3, <1>4, <1>5 DEF TypeInv, StreamTypeOK
<1>7. InScript'
  <2>1. Subpackets' = Subpackets
    BY <1>4 DEF Subpackets
  <2> QED
    BY <1>4, <1>5, <2>1 DEF TypeInv, InScript
<1> QED
  BY <1>5, <1>6, <1>7 DEF TypeInv

LEMMA StepTyped == TypeInv /\ [StreamNext]_<<receiverVars, streamVars>> => TypeInv'
<1> SUFFICES ASSUME TypeInv, [StreamNext]_<<receiverVars, streamVars>>
             PROVE  TypeInv'
  OBVIOUS
<1>1. CASE UNCHANGED <<receiverVars, streamVars>>
  <2>1. UNCHANGED readerVars /\ UNCHANGED subpacketVars /\ UNCHANGED streamVars
    BY <1>1 DEF receiverVars
  <2>2. StreamTypeOK' /\ InScript'
    BY <2>1 DEF TypeInv, StreamTypeOK, InScript, Subpackets, streamVars, subpacketVars
  <2>3. ReaderTypeOK'
    BY <2>1 DEF readerVars, TypeInv, ReaderTypeOK
  <2>4. SubpacketTypeOK'
    BY <2>1 DEF subpacketVars, TypeInv, SubpacketTypeOK, CrcLength
  <2> QED
    BY <2>2, <2>3, <2>4 DEF TypeInv
<1> QED
  BY <1>1, BeginFrameTyped, SendSubpacketTyped, DamageTyped, SubmitWireTyped
     DEF StreamNext

THEOREM StreamTypeInvariant == StreamSpec => []TypeInv
BY InitTyped, StepTyped, PTL DEF StreamSpec

\* Whatever is read, damaged or not, and wherever the input is cut, the header
\* reader never collects more bytes than a header of the encoding read has, and
\* holds an encoding exactly while it collects.  Nor does the subpacket reader
\* collect more than a subpacket may hold or more than its checksum has, and it
\* has a terminator exactly while it reads the checksum.
THEOREM ReadersTypeCorrect == StreamSpec => []ReadersTypeOK
<1>1. TypeInv => ReadersTypeOK
  BY DEF TypeInv, ReadersTypeOK
<1> QED
  BY <1>1, StreamTypeInvariant, PTL

-----------------------------------------------------------------------------
(***************************************************************************)
(* Something is on the wire while something is to come.                    *)
(***************************************************************************)
LEMMA NotNothing ==
  ASSUME NEW a \in Octet, NEW later \in Seq(Octet)
  PROVE  /\ <<a>> \o later # <<>> /\ (<<a>> \o later)[1] = a
         /\ <<a>> \o later \in Seq(Octet)
         /\ Len(<<a>> \o later) = Len(later) + 1
         /\ SubSeq(<<a>> \o later, 2, Len(<<a>> \o later)) = later
<1> PICK line : line = <<a>> \o later
  OBVIOUS
<1>1. line \in Seq(Octet) /\ Len(line) = Len(later) + 1 /\ line[1] = a
  OBVIOUS
<1>2. line # <<>>
  <2>1. Len(<<>>) = 0 /\ Len(later) \in Nat
    OBVIOUS
  <2> QED
    BY ONLY <1>1, <2>1
<1>3. SubSeq(line, 2, Len(line)) = later
  BY <1>1
<1> QED
  BY <1>1, <1>2, <1>3

LEMMA PlainComes ==
  ASSUME NEW octets \in Seq(Octet), NEW got \in Seq(Octet), NEW behind \in Seq(Octet),
         NEW line, Plain(octets, got, behind, line)
  PROVE  line # <<>>
<1> PICK k : k = Len(got)
  OBVIOUS
<1> PICK f : f = From(octets, k)
  OBVIOUS
<1>1. k \in Nat /\ k < Len(octets) /\ line = Coming(f, behind)
  BY DEF Plain
<1>2. f \in Seq(Octet) /\ f # <<>>
  BY <1>1, FromNext
<1>3. /\ f[1] \in Octet /\ Tail(f) \in Seq(Octet)
      /\ Coming(Tail(f), behind) \in Seq(Octet)
      /\ line = Escaped(f[1]) \o Coming(Tail(f), behind)
  BY <1>1, <1>2, ComingFirst
<1> PICK first : first = Escaped(f[1])
  OBVIOUS
<1> PICK more : more = Coming(Tail(f), behind)
  OBVIOUS
<1>4. first \in Seq(Octet) /\ Len(first) > 0
  <2>1. first \in Seq(Octet)
    BY <1>3, EscapedType
  <2>2. Len(first) > 0
    <3> PICK b : b = f[1]
      OBVIOUS
    <3>1. first = <<b>> \/ first = <<ZDLE, ZdleTable(b)>>
      BY DEF Escaped
    <3>2. CASE first = <<b>>
      BY ONLY <3>2
    <3>3. CASE first = <<ZDLE, ZdleTable(b)>>
      BY ONLY <3>3
    <3> QED
      BY ONLY <3>1, <3>2, <3>3
  <2> QED
    BY <2>1, <2>2
<1>5. line = first \o more /\ more \in Seq(Octet)
  BY <1>3
<1>6. Len(line) = Len(first) + Len(more)
  BY ONLY <1>4, <1>5
<1>7. Len(more) \in Nat /\ Len(<<>>) = 0 /\ Len(first) \in Nat
  BY ONLY <1>4, <1>5
<1> QED
  BY ONLY <1>4, <1>6, <1>7

LEMMA HalfComes ==
  ASSUME NEW octets \in Seq(Octet), NEW got \in Seq(Octet), NEW behind \in Seq(Octet),
         NEW line, Half(octets, got, behind, line)
  PROVE  line # <<>>
<1> PICK k : k = Len(got)
  OBVIOUS
<1> PICK f : f = From(octets, k)
  OBVIOUS
<1>1. k \in Nat /\ k < Len(octets) /\ line = HalfComing(f, behind)
  BY DEF Half
<1>2. f \in Seq(Octet) /\ f # <<>>
  BY <1>1, FromNext
<1> PICK z : z = ZdleTable(f[1])
  OBVIOUS
<1> PICK more : more = Coming(Tail(f), behind)
  OBVIOUS
<1>3. z \in Octet /\ more \in Seq(Octet)
  <2>1. f[1] \in Octet /\ more \in Seq(Octet)
    BY <1>2, ComingFirst
  <2> QED
    BY <2>1, EscapedShape
<1>4. line = <<z>> \o more
  BY <1>1 DEF HalfComing
<1> QED
  BY ONLY <1>3, <1>4, NotNothing

LEMMA PlainStarts ==
  ASSUME NEW octets \in Seq(Octet), Len(octets) > 0, NEW behind
  PROVE  Plain(octets, <<>>, behind, Coming(octets, behind))
<1>1. From(octets, 0) = octets /\ SubSeq(octets, 1, 0) = <<>> /\ Len(<<>>) = 0
  BY DEF From
<1> QED
  BY <1>1 DEF Plain

-----------------------------------------------------------------------------
(***************************************************************************)
(* The header sent last.                                                   *)
(***************************************************************************)
LEMMA HeaderNow ==
  ASSUME TypeInv, stage > 0, HeaderRight, NEW e \in Script[stage].encodings
  PROVE  /\ stage \in 1 .. Len(Script) /\ e \in Encoding /\ e # "None"
         /\ EncodingByte[e] \in Octet
         /\ Collectable(e, header) \in Seq(Octet)
         /\ Len(Collectable(e, header)) = ReadSize[e] /\ ReadSize[e] > 0
         /\ DecodeHeader(e, Collectable(e, header)) = header
         /\ LineEnd(e, header) \in Seq(Octet)
         /\ LineEnd(e, header) \in Seq({CR, LF, XON})
         /\ Coming(Collectable(e, header), LineEnd(e, header)) \in Seq(Octet)
         /\ header # Malformed /\ header.frame = Script[stage].frame
<1>1. stage \in 1 .. Len(Script)
  BY ScriptAssumption DEF TypeInv, StreamTypeOK
<1>2. e \in Encoding /\ e # "None"
  BY <1>1, StageFacts DEF Encoding
<1>3. PICK i \in 0 .. Len(Script[stage].subpackets) :
        header = Header(Script[stage].frame, Position(stage, i))
  BY <1>1 DEF HeaderRight, Subpackets
<1>4. /\ Collectable(e, header) \in Seq(Octet)
      /\ Len(Collectable(e, header)) = ReadSize[e]
      /\ DecodeHeader(e, Collectable(e, header)) = header
  BY <1>1, <1>2, <1>3, CollectableFacts
<1>5. LineEnd(e, header) \in Seq(Octet) /\ LineEnd(e, header) \in Seq({CR, LF, XON})
  BY LineEndType
<1>6. header # Malformed /\ header.frame = Script[stage].frame
  <2>1. header.is = "header" /\ header.frame = Script[stage].frame
    BY <1>3 DEF Header
  <2>2. Malformed.is = "malformed"
    BY DEF Malformed
  <2> QED
    BY <2>1, <2>2
<1>7. ReadSize[e] > 0
  BY <1>2 DEF ReadSize, Encoding
<1>8. EncodingByte[e] \in Octet
  BY <1>2, Specials
<1> QED
  BY <1>1, <1>2, <1>4, <1>5, <1>6, <1>7, <1>8, ComingType

LEMMA HeaderComesOn ==
  ASSUME TypeInv, stage > 0, HeaderRight, NEW e \in Script[stage].encodings,
         HeaderComes(e)
  PROVE  wire # <<>>
<1> PICK octets : octets = Collectable(e, header)
  OBVIOUS
<1> PICK end : end = LineEnd(e, header)
  OBVIOUS
<1> PICK coming : coming = Coming(octets, end)
  OBVIOUS
<1> PICK byte : byte = EncodingByte[e]
  OBVIOUS
<1>1. /\ octets \in Seq(Octet) /\ end \in Seq(Octet) /\ coming \in Seq(Octet)
      /\ byte \in Octet
  BY HeaderNow
<1>2. headerBuf \in Seq(Octet)
  BY DEF TypeInv, ReaderTypeOK
<1>3. \/ wire = <<ZPAD, ZPAD, ZDLE, byte>> \o coming
      \/ wire = <<ZPAD, ZDLE, byte>> \o coming
      \/ wire = <<ZDLE, byte>> \o coming
      \/ wire = <<byte>> \o coming
      \/ Plain(octets, headerBuf, end, wire)
      \/ Half(octets, headerBuf, end, wire)
  BY DEF HeaderComes
<1>4. ASSUME NEW start \in Seq(Octet), Len(start) > 0, wire = start \o coming
      PROVE  wire # <<>>
  <2>1. Len(wire) = Len(start) + Len(coming)
    BY ONLY <1>1, <1>4
  <2>2. Len(coming) \in Nat /\ Len(<<>>) = 0
    BY ONLY <1>1
  <2> QED
    BY ONLY <1>4, <2>1, <2>2
<1>5. /\ <<ZPAD, ZPAD, ZDLE, byte>> \in Seq(Octet) /\ Len(<<ZPAD, ZPAD, ZDLE, byte>>) > 0
      /\ <<ZPAD, ZDLE, byte>> \in Seq(Octet) /\ Len(<<ZPAD, ZDLE, byte>>) > 0
      /\ <<ZDLE, byte>> \in Seq(Octet) /\ Len(<<ZDLE, byte>>) > 0
      /\ <<byte>> \in Seq(Octet) /\ Len(<<byte>>) > 0
  <2>1. ZPAD \in Octet /\ ZDLE \in Octet
    BY Specials
  <2> QED
    BY ONLY <1>1, <2>1
<1>6. Plain(octets, headerBuf, end, wire) => wire # <<>>
  BY <1>1, <1>2, PlainComes
<1>7. Half(octets, headerBuf, end, wire) => wire # <<>>
  BY <1>1, <1>2, HalfComes
<1> QED
  BY ONLY <1>3, <1>4, <1>5, <1>6, <1>7

-----------------------------------------------------------------------------
(***************************************************************************)
(* The subpacket sent last.                                                *)
(***************************************************************************)
LastByte == TerminatorByte[Subpackets[sent].kind]
SentCrc == CrcBytes(dataEncoding, Append(Subpackets[sent].data, LastByte))
BehindData == <<ZDLE, LastByte>> \o EscapeSlice(SentCrc)

LEMMA SubpacketNow ==
  ASSUME TypeInv, stage > 0, sent \in 1 .. Len(Subpackets)
  PROVE  /\ Subpackets[sent].kind \in SubpacketType
         /\ Subpackets[sent].data \in Seq(Octet)
         /\ Len(Subpackets[sent].data) <= SubpacketMaxSize
         /\ LastByte \in Octet /\ LastByte \in 104 .. 107
         /\ SentCrc \in Seq(Octet)
         /\ Len(SentCrc) = CrcLength
         /\ EscapeSlice(SentCrc) \in Seq(Octet) /\ BehindData \in Seq(Octet)
<1>1. stage \in 1 .. Len(Script)
  BY ScriptAssumption DEF TypeInv, StreamTypeOK
<1> PICK subpackets : subpackets = Script[stage].subpackets
  OBVIOUS
<1>2. Subpackets = subpackets
  BY <1>1 DEF Subpackets
<1>3. sent \in 1 .. Len(subpackets)
  BY <1>2
<1> PICK subpacket : subpacket = subpackets[sent]
  OBVIOUS
<1>4. subpacket \in SubpacketRecord /\ Len(subpacket.data) <= SubpacketMaxSize
  <2>1. subpackets \in Seq(SubpacketRecord)
    BY <1>1, StageFacts
  <2>2. \A i \in 1 .. Len(Script[stage].subpackets) :
          Len(Script[stage].subpackets[i].data) <= SubpacketMaxSize
    BY ONLY <1>1, StageFacts, Zenon
  <2>3. Len(subpackets[sent].data) <= SubpacketMaxSize
    BY ONLY <1>3, <2>2, subpackets = Script[stage].subpackets
  <2> QED
    BY <1>3, <2>1, <2>3
<1>5. subpacket.kind \in SubpacketType /\ subpacket.data \in Seq(Octet)
  BY <1>4 DEF SubpacketRecord
<1>6. LastByte \in Octet /\ LastByte \in 104 .. 107
  BY <1>2, <1>5, Specials DEF LastByte
<1>7. /\ SentCrc \in Seq(Octet) /\ Len(SentCrc) = IF dataEncoding = "ZBIN32" THEN 4 ELSE 2
      /\ EscapeSlice(SentCrc) \in Seq(Octet) /\ BehindData \in Seq(Octet)
  BY <1>1, <1>2, <1>3, SubpacketBytesFacts DEF SentCrc, BehindData, LastByte
<1> QED
  BY <1>2, <1>4, <1>5, <1>6, <1>7 DEF CrcLength

\* SubpacketComes, with names for its parts.
LEMMA SubpacketComesIs ==
  SubpacketComes <=>
    \/ /\ phase \in {"SkipTrailer", "Reading"}
       /\ crcBuf = <<>> /\ ~crcEscapePending
       /\ \/ ~subpacketEscapePending /\ Plain(Subpackets[sent].data, buf, BehindData, wire)
          \/ subpacketEscapePending /\ Half(Subpackets[sent].data, buf, BehindData, wire)
          \/ /\ buf = Subpackets[sent].data
             /\ \/ ~subpacketEscapePending /\ wire = BehindData
                \/ subpacketEscapePending /\ wire = <<LastByte>> \o EscapeSlice(SentCrc)
       /\ phase = "SkipTrailer" =>
            /\ buf = <<>> /\ ~subpacketEscapePending
            /\ Subpackets[sent].data # <<>> =>
                 Subpackets[sent].data[1] \notin {LF, LF + 128}
    \/ /\ phase = "Crc" /\ kind = Subpackets[sent].kind /\ buf = Subpackets[sent].data
       /\ ~subpacketEscapePending
       /\ \/ ~crcEscapePending /\ Plain(SentCrc, crcBuf, <<>>, wire)
          \/ crcEscapePending /\ Half(SentCrc, crcBuf, <<>>, wire)
BY DEF SubpacketComes, BehindData, SentCrc, LastByte

LEMMA SubpacketComesOn ==
  ASSUME TypeInv, stage > 0, sent \in 1 .. Len(Subpackets), SubpacketComes
  PROVE  wire # <<>>
<1> PICK data : data = Subpackets[sent].data
  OBVIOUS
<1>1. /\ data \in Seq(Octet) /\ BehindData \in Seq(Octet) /\ SentCrc \in Seq(Octet)
      /\ EscapeSlice(SentCrc) \in Seq(Octet) /\ LastByte \in Octet /\ ZDLE \in Octet
      /\ <<>> \in Seq(Octet)
  BY SubpacketNow, Specials
<1>2. buf \in Seq(Octet) /\ crcBuf \in Seq(Octet)
  BY DEF TypeInv, SubpacketTypeOK
<1>3. \/ Plain(data, buf, BehindData, wire) \/ Half(data, buf, BehindData, wire)
      \/ wire = BehindData \/ wire = <<LastByte>> \o EscapeSlice(SentCrc)
      \/ Plain(SentCrc, crcBuf, <<>>, wire) \/ Half(SentCrc, crcBuf, <<>>, wire)
  BY SubpacketComesIs
<1>4. Plain(data, buf, BehindData, wire) \/ Half(data, buf, BehindData, wire) => wire # <<>>
  BY <1>1, <1>2, PlainComes, HalfComes
<1>5. Plain(SentCrc, crcBuf, <<>>, wire) \/ Half(SentCrc, crcBuf, <<>>, wire) => wire # <<>>
  BY <1>1, <1>2, PlainComes, HalfComes
<1>6. wire = <<LastByte>> \o EscapeSlice(SentCrc) => wire # <<>>
  BY ONLY <1>1, NotNothing
<1>7. BehindData # <<>>
  <2> PICK later : later = EscapeSlice(SentCrc)
    OBVIOUS
  <2> PICK start : start = <<ZDLE, LastByte>>
    OBVIOUS
  <2>1. start \in Seq(Octet) /\ Len(start) = 2
    BY ONLY <1>1, start = <<ZDLE, LastByte>>
  <2>2. later \in Seq(Octet)
    BY <1>1
  <2>3. start \o later # <<>>
    <3>1. Len(start \o later) = Len(start) + Len(later)
      BY ONLY <2>1, <2>2, JoinFacts
    <3>2. Len(later) \in Nat /\ Len(<<>>) = 0
      BY ONLY <2>2
    <3> QED
      BY ONLY <2>1, <3>1, <3>2
  <2> QED
    BY <2>3 DEF BehindData
<1> QED
  BY ONLY <1>3, <1>4, <1>5, <1>6, <1>7

-----------------------------------------------------------------------------
(***************************************************************************)
(* StreamInv is an invariant: the peer.                                    *)
(***************************************************************************)
InPart == NothingBegun \/ (stage > 0 /\ (AwaitsHeader \/ AfterHeader \/ AwaitsSubpacket))

\* Nothing on the wire: nothing begun, or all of it read.
LEMMA AllRead ==
  ASSUME TypeInv, HeaderRight, InPart, wire = <<>>
  PROVE  NothingBegun \/ (stage > 0 /\ AfterHeader)
<1>1. ASSUME stage > 0, AwaitsHeader PROVE FALSE
  <2>1. PICK e \in Script[stage].encodings : HeaderComes(e)
    BY <1>1 DEF AwaitsHeader
  <2> QED
    BY <1>1, <2>1, HeaderComesOn
<1>2. ASSUME stage > 0, AwaitsSubpacket PROVE FALSE
  BY <1>2, SubpacketComesOn DEF AwaitsSubpacket
<1> QED
  BY <1>1, <1>2 DEF InPart

LEMMA BeginFrameClean ==
  ASSUME TypeInv, HeaderRight, InPart, BeginFrame
  PROVE  HeaderRight' /\ stage' > 0 /\ AwaitsHeader'
<1>1. /\ stage' \in 1 .. Len(Script)
      /\ accepted' \in Seq(SubpacketRecord)
      /\ sent' = Len(accepted') /\ sent' \in 0 .. Len(Script[stage'].subpackets)
      /\ header' = Header(Script[stage'].frame, Position(stage', sent'))
  BY BeginFrameFacts DEF TypeInv
<1>2. PICK e \in Script[stage'].encodings :
        /\ wire' = HeaderBytes(e, header')
        /\ frame' = IF sent' = Len(Script[stage'].subpackets) THEN "None" ELSE e
  BY DEF BeginFrame
<1>3. wire = <<>> /\ phase = "Idle" /\ found' = <<>>
      /\ UNCHANGED readerVars /\ UNCHANGED subpacketVars
  BY DEF BeginFrame, receiverVars
<1>4. NothingBegun \/ (stage > 0 /\ AfterHeader)
  BY <1>3, AllRead
<1>5. ReaderAtRest /\ SubpacketAtRest
  BY <1>4 DEF NothingBegun, AfterHeader
<1>6. ReaderAtRest' /\ SubpacketAtRest' /\ phase' = "Idle"
  BY <1>3, <1>5 DEF ReaderAtRest, SubpacketAtRest, readerVars, subpacketVars
<1> PICK subpackets : subpackets = Script[stage'].subpackets
  OBVIOUS
<1>7. Subpackets' = subpackets /\ Len(subpackets) \in Nat
      /\ (Len(subpackets) > 0 <=> Announces(Script[stage'].frame))
      /\ e \in Encoding /\ e # "None"
  BY <1>1, StageFacts DEF Subpackets, Encoding
<1>8. HeaderRight'
  BY <1>1, <1>2, <1>7 DEF HeaderRight
<1>9. sent' = Len(subpackets) => Len(subpackets) = 0
  <2>1. CASE StageDone
    <3>1. accepted' = <<>>
      BY <2>1 DEF BeginFrame
    <3> QED
      BY <1>1, <3>1
  <2>2. CASE ~StageDone
    <3>1. AfterHeader /\ stage' = stage /\ accepted' = accepted
      BY <1>4, <2>2 DEF BeginFrame, NothingBegun, StageDone
    <3>2. found # <<>>
      BY <3>1 DEF AfterHeader
    <3>3. ~(Len(accepted) >= Len(Subpackets))
      BY <2>2, <3>2 DEF StageDone
    <3>4. Subpackets = subpackets
      BY <1>1, <3>1 DEF Subpackets
    <3> QED
      BY <1>1, <1>7, <3>1, <3>3, <3>4
  <2> QED
    BY <2>1, <2>2
<1>10. frame' # "None" <=> Announces(header'.frame)
  <2>1. header'.frame = Script[stage'].frame
    BY <1>1 DEF Header
  <2> QED
    BY <1>1, <1>2, <1>7, <1>9, <2>1
<1>11. HeaderComes(e)'
  <2>1. \/ wire' = <<ZPAD, ZPAD, ZDLE, EncodingByte[e]>>
                     \o Coming(Collectable(e, header'), LineEnd(e, header'))
        \/ wire' = <<ZPAD, ZDLE, EncodingByte[e]>>
                     \o Coming(Collectable(e, header'), LineEnd(e, header'))
    BY <1>1, <1>2, <1>7, HeaderBytesFacts
  <2> QED
    BY <1>6, <2>1 DEF HeaderComes
<1>12. AwaitsHeader'
  BY <1>1, <1>2, <1>3, <1>6, <1>10, <1>11 DEF AwaitsHeader
<1> QED
  BY <1>1, <1>8, <1>12

LEMMA SendSubpacketClean ==
  ASSUME TypeInv, HeaderRight, InPart, SendSubpacket
  PROVE  HeaderRight' /\ stage' > 0 /\ AwaitsSubpacket'
<1>1. /\ wire = <<>> /\ frame # "None" /\ sent' = sent + 1
      /\ UNCHANGED <<stage, header, found, accepted>>
      /\ UNCHANGED readerVars /\ UNCHANGED subpacketVars
  BY DEF SendSubpacket, receiverVars
<1>2. stage > 0 /\ AfterHeader
  BY <1>1, AllRead DEF NothingBegun
<1>3. /\ found = <<header>> /\ ReaderAtRest /\ SubpacketAtRest /\ Len(accepted) = sent
      /\ phase \in {"SkipTrailer", "Reading"}
      /\ dataEncoding = IF frame = "ZHEX" THEN "ZBIN" ELSE frame
      /\ phase = "SkipTrailer" => frame = "ZHEX"
  BY <1>1, <1>2 DEF AfterHeader
<1>4. stage \in 1 .. Len(Script) /\ sent \in Nat /\ sent < Len(Subpackets)
      /\ frame \in Script[stage].encodings
  BY <1>1, <1>2, ScriptAssumption DEF TypeInv, StreamTypeOK, InScript, HeaderRight
<1> PICK subpackets : subpackets = Script[stage].subpackets
  OBVIOUS
<1>5. Subpackets = subpackets /\ Len(subpackets) \in Nat /\ Subpackets' = subpackets
  BY <1>1, <1>4, StageFacts DEF Subpackets
<1>6. sent' \in 1 .. Len(subpackets)
  BY <1>1, <1>4, <1>5
<1> PICK subpacket : subpacket = subpackets[sent']
  OBVIOUS
<1>7. /\ wire' = SubpacketBytes(dataEncoding, subpacket.kind, subpacket.data)
      /\ frame' = IF subpacket.kind \in {"ZCRCG", "ZCRCQ"} THEN frame ELSE "None"
  BY <1>1, <1>3, <1>5 DEF SendSubpacket
<1>8. HeaderRight'
  BY <1>1, <1>4, <1>5, <1>6, <1>7 DEF HeaderRight
<1>9. ReaderAtRest' /\ SubpacketAtRest' /\ phase' = phase /\ dataEncoding' = dataEncoding
  BY <1>1, <1>3 DEF ReaderAtRest, SubpacketAtRest, readerVars, subpacketVars
<1>10. subpacket \in SubpacketRecord
  BY <1>4, <1>6, StageFacts
<1>11. subpacket.data \in Seq(Octet)
  BY <1>10 DEF SubpacketRecord
<1>12. wire' = Coming(subpacket.data, BehindData') /\ BehindData' \in Seq(Octet)
  BY <1>4, <1>5, <1>6, <1>7, <1>9, SubpacketBytesFacts DEF BehindData, SentCrc, LastByte
<1>13. phase = "SkipTrailer" /\ subpacket.data # <<>> =>
         subpacket.data[1] \notin {LF, LF + 128}
  <2>1. Len(subpackets) > 0
    BY <1>6
  <2> QED
    BY <1>3, <1>4, <1>6, <2>1, StageFacts
<1>14. \/ Plain(subpacket.data, <<>>, BehindData', wire')
       \/ subpacket.data = <<>> /\ wire' = BehindData'
  <2>1. CASE subpacket.data = <<>>
    <3>1. Coming(<<>>, BehindData') = <<>> \o BehindData'
      BY EscapeNothing DEF Coming
    <3>2. <<>> \o BehindData' = BehindData'
      BY <1>12
    <3> QED
      BY <1>12, <2>1, <3>1, <3>2
  <2>2. CASE subpacket.data # <<>>
    <3>1. Len(subpacket.data) > 0
      BY <1>11, <2>2
    <3> QED
      BY <1>11, <1>12, <3>1, PlainStarts
  <2> QED
    BY <2>1, <2>2
<1>15. SubpacketComes'
  <2>1. buf' = <<>> /\ crcBuf' = <<>> /\ ~subpacketEscapePending' /\ ~crcEscapePending'
    BY <1>9 DEF SubpacketAtRest
  <2>2. Subpackets'[sent'] = subpacket
    BY <1>5
  <2> PICK b : b = BehindData'
    OBVIOUS
  <2>3. b = LET last == TerminatorByte[subpacket.kind]
                crc == CrcBytes(dataEncoding', Append(subpacket.data, last))
            IN  <<ZDLE, last>> \o EscapeSlice(crc)
    BY <2>2 DEF BehindData, SentCrc, LastByte
  <2> QED
    BY <1>3, <1>9, <1>13, <1>14, <2>1, <2>2, <2>3 DEF SubpacketComes
<1>16. AwaitsSubpacket'
  <2>1. frame' # "None" <=> subpacket.kind \in {"ZCRCG", "ZCRCQ"}
    BY <1>1, <1>7
  <2>2. frame' # "None" => frame' = frame
    BY <1>7
  <2> QED
    BY <1>1, <1>3, <1>5, <1>6, <1>9, <1>15, <2>1, <2>2 DEF AwaitsSubpacket
<1> QED
  BY <1>1, <1>2, <1>8, <1>16

-----------------------------------------------------------------------------
(***************************************************************************)
(* Both readers take octets off the line alike.                            *)
(***************************************************************************)
Underway(pending, octets, got, behind, line) ==
  /\ pending => Half(octets, got, behind, line)
  /\ ~pending => Plain(octets, got, behind, line)

LEMMA EscapeStep ==
  ASSUME NEW octets \in Seq(Octet), NEW got \in Seq(Octet), NEW behind \in Seq(Octet),
         NEW line, NEW pending, Underway(pending, octets, got, behind, line),
         NEW n, NEW bytes, NEW left, Takes(line, n, bytes, left)
  PROVE  /\ ~pending => bytes[1] = Escaped(octets[Len(got) + 1])[1]
         /\ IsCut(pending, bytes) => Half(octets, got, behind, left)
         /\ IsWhole(pending, bytes) =>
              /\ OneMore(octets, got, Unescaped(pending, bytes), behind, left)
              /\ pending \/ Len(bytes) = 2 => bytes[Len(bytes)] \notin 104 .. 107
<1>0. /\ pending => Half(octets, got, behind, line)
      /\ ~pending => Plain(octets, got, behind, line)
  BY DEF Underway
<1>1. CASE pending
  <2>1. ~IsCut(pending, bytes)
    BY <1>1 DEF IsCut
  <2>2. IsWhole(pending, bytes) => Len(bytes) = 1
    BY <1>1 DEF IsWhole
  <2>3. Unescaped(pending, bytes) = UnzdleTable(bytes[1])
    BY <1>1 DEF Unescaped
  <2>4. Len(bytes) = 1 =>
          /\ bytes[1] \notin 104 .. 107
          /\ OneMore(octets, got, UnzdleTable(bytes[1]), behind, left)
    BY <1>0, <1>1, HalfStep
  <2> QED
    BY <1>1, <2>1, <2>2, <2>3, <2>4
<1>2. CASE ~pending
  <2>1. IsCut(pending, bytes) => bytes = <<ZDLE>>
    BY DEF IsCut
  <2>2. IsWhole(pending, bytes) => \/ Len(bytes) = 1 /\ bytes[1] # ZDLE
                                   \/ Len(bytes) = 2 /\ bytes[1] = ZDLE
    BY <1>2 DEF IsWhole
  <2>3. Unescaped(pending, bytes) =
          IF Len(bytes) = 2 THEN UnzdleTable(bytes[2]) ELSE bytes[1]
    BY <1>2 DEF Unescaped
  <2>4. /\ bytes[1] = Escaped(octets[Len(got) + 1])[1]
        /\ bytes = <<ZDLE>> => Half(octets, got, behind, left)
        /\ Len(bytes) = 1 /\ bytes[1] # ZDLE =>
             OneMore(octets, got, bytes[1], behind, left)
        /\ Len(bytes) = 2 /\ bytes[1] = ZDLE =>
             /\ bytes[2] \notin 104 .. 107
             /\ OneMore(octets, got, UnzdleTable(bytes[2]), behind, left)
    BY <1>0, <1>2, PlainStep
  <2>5. ASSUME Len(bytes) = 1, bytes[1] # ZDLE
        PROVE  OneMore(octets, got, Unescaped(pending, bytes), behind, left)
    <3>1. Unescaped(pending, bytes) = bytes[1]
      BY ONLY <2>3, <2>5
    <3> QED
      BY <2>4, <2>5, <3>1
  <2>6. ASSUME Len(bytes) = 2, bytes[1] = ZDLE
        PROVE  /\ OneMore(octets, got, Unescaped(pending, bytes), behind, left)
               /\ bytes[Len(bytes)] \notin 104 .. 107
    <3>1. Unescaped(pending, bytes) = UnzdleTable(bytes[2])
      BY ONLY <2>3, <2>6
    <3> QED
      BY <2>4, <2>6, <3>1
  <2>7. IsCut(pending, bytes) => Half(octets, got, behind, left)
    BY <2>1, <2>4
  <2>8. IsWhole(pending, bytes) =>
          OneMore(octets, got, Unescaped(pending, bytes), behind, left)
    BY <2>2, <2>5, <2>6
  <2>9. IsWhole(pending, bytes) /\ (pending \/ Len(bytes) = 2) =>
          bytes[Len(bytes)] \notin 104 .. 107
    <3>1. CASE Len(bytes) = 2
      BY <2>2, <2>6, <3>1
    <3>2. CASE Len(bytes) # 2
      BY <1>2, <3>2
    <3> QED
      BY <3>1, <3>2
  <2> QED
    BY <2>4, <2>7, <2>8, <2>9
<1> QED
  BY <1>1, <1>2

-----------------------------------------------------------------------------
(***************************************************************************)
(* StreamInv is an invariant: a header is read.                            *)
(***************************************************************************)
\* One call of submit_wire, as far as the bytes go.
Submits(bytes, n) ==
  /\ Takes(wire, n, bytes, wire')
  /\ UNCHANGED <<stage, header, frame, sent>>

LEMMA HeaderReadingIs ==
  ASSUME NEW bytes, ReadHeader(bytes)
  PROVE  /\ readerState = "SeekingZpad" =>
              SeekZpad(bytes) /\ UNCHANGED <<subpacketVars, found>>
         /\ readerState = "ReadingEncoding" =>
              /\ ReadEncoding(bytes) \/ UnknownEncoding(bytes)
              /\ UNCHANGED <<subpacketVars, found>>
         /\ readerState = "ReadingData" =>
              \/ /\ StopAtEscape(bytes) \/ CollectByte(bytes) \/ DropHeader(bytes)
                 /\ UNCHANGED <<subpacketVars, found>>
              \/ /\ Finds(bytes)
                 /\ found' = Append(found, Decoded(bytes))
                 /\ IF Announces(Decoded(bytes).frame)
                    THEN Announced(Decoded(bytes).frame, encoding)
                    ELSE UNCHANGED subpacketVars
         /\ phase = "Idle" /\ UNCHANGED <<accepted, error>>
BY DEF ReadHeader, Skips, Fails, Finds, Stumbles, SeekZpad, ReadEncoding,
       UnknownEncoding, StopAtEscape, CollectByte, Completes, DropHeader, Announces

\* The next byte of a sequence that begins with b.
LEMMA FirstByte ==
  ASSUME NEW b \in Octet, NEW later \in Seq(Octet), NEW line, line = <<b>> \o later,
         NEW n \in 1 .. 2, n <= Len(line)
  PROVE  /\ SubSeq(line, 1, n)[1] = b
         /\ Len(SubSeq(line, 1, n)) = 1 => SubSeq(line, n + 1, Len(line)) = later
<1>1. line \in Seq(Octet) /\ line[1] = b /\ SubSeq(line, 2, Len(line)) = later
  BY NotNothing
<1>2. SubSeq(line, 1, n)[1] = b /\ Len(SubSeq(line, 1, n)) = n
  BY <1>1, Taken
<1> QED
  BY ONLY <1>1, <1>2

LEMMA OneAtATime ==
  ASSUME NEW a \in Octet, NEW s \in Seq(Octet), NEW t \in Seq(Octet)
  PROVE  (<<a>> \o s) \o t = <<a>> \o (s \o t)
<1>1. <<a>> \in Seq(Octet)
  OBVIOUS
<1> QED
  BY ONLY <1>1, s \in Seq(Octet), t \in Seq(Octet), JoinAssociates

LEMMA SeekClean ==
  ASSUME TypeInv, HeaderRight, stage > 0, NEW e \in Script[stage].encodings,
         ReaderAtRest, HeaderComes(e),
         NEW bytes, NEW n, Submits(bytes, n), SeekZpad(bytes)
  PROVE  HeaderComes(e)'
<1> PICK byte : byte = EncodingByte[e]
  OBVIOUS
<1> PICK coming : coming = Coming(Collectable(e, header), LineEnd(e, header))
  OBVIOUS
<1>1. /\ coming \in Seq(Octet) /\ byte \in Octet /\ ZPAD \in Octet /\ ZDLE \in Octet
      /\ ZPAD # ZDLE
  BY HeaderNow, Specials DEF ZPAD, ZDLE
<1>2. \/ wire = <<ZPAD, ZPAD, ZDLE, byte>> \o coming
      \/ wire = <<ZPAD, ZDLE, byte>> \o coming
      \/ wire = <<ZDLE, byte>> \o coming /\ zpadState # "Idle"
  BY DEF HeaderComes, ReaderAtRest
<1>3. /\ <<byte>> \o coming \in Seq(Octet)
      /\ <<ZDLE, byte>> \o coming = <<ZDLE>> \o (<<byte>> \o coming)
      /\ <<ZDLE, byte>> \o coming \in Seq(Octet)
      /\ <<ZPAD, ZDLE, byte>> \o coming = <<ZPAD>> \o (<<ZDLE, byte>> \o coming)
      /\ <<ZPAD, ZDLE, byte>> \o coming \in Seq(Octet)
      /\ <<ZPAD, ZPAD, ZDLE, byte>> \o coming = <<ZPAD>> \o (<<ZPAD, ZDLE, byte>> \o coming)
  <2>1. /\ <<byte>> \in Seq(Octet) /\ <<ZDLE, byte>> \in Seq(Octet)
        /\ <<ZPAD, ZDLE, byte>> \in Seq(Octet)
    BY <1>1
  <2>2. /\ <<ZDLE, byte>> = <<ZDLE>> \o <<byte>>
        /\ <<ZPAD, ZDLE, byte>> = <<ZPAD>> \o <<ZDLE, byte>>
        /\ <<ZPAD, ZPAD, ZDLE, byte>> = <<ZPAD>> \o <<ZPAD, ZDLE, byte>>
    BY <1>1
  <2>3. /\ <<byte>> \o coming \in Seq(Octet) /\ <<ZDLE, byte>> \o coming \in Seq(Octet)
        /\ <<ZPAD, ZDLE, byte>> \o coming \in Seq(Octet)
    BY <1>1, <2>1, JoinFacts
  <2>7. ASSUME NEW a \in Octet, NEW t \in Seq(Octet), NEW all, all = <<a>> \o t
        PROVE  all \o coming = <<a>> \o (t \o coming)
    BY ONLY <1>1, <2>7, OneAtATime
  <2>4. <<ZDLE, byte>> \o coming = <<ZDLE>> \o (<<byte>> \o coming)
    BY ONLY <1>1, <2>1, <2>2, <2>7
  <2>5. <<ZPAD, ZDLE, byte>> \o coming = <<ZPAD>> \o (<<ZDLE, byte>> \o coming)
    BY ONLY <1>1, <2>1, <2>2, <2>7
  <2>6. <<ZPAD, ZPAD, ZDLE, byte>> \o coming = <<ZPAD>> \o (<<ZPAD, ZDLE, byte>> \o coming)
    BY ONLY <1>1, <2>1, <2>2, <2>7
  <2> QED
    BY ONLY <2>3, <2>4, <2>5, <2>6
<1>4. /\ n \in 1 .. 2 /\ n <= Len(wire) /\ bytes = SubSeq(wire, 1, n)
      /\ wire' = SubSeq(wire, n + 1, Len(wire)) /\ Len(bytes) = 1
      /\ header' = header
  BY DEF Submits, Takes, SeekZpad
<1>5. ASSUME NEW b \in Octet, NEW later \in Seq(Octet), wire = <<b>> \o later
      PROVE  bytes[1] = b /\ wire' = later
  BY ONLY <1>4, <1>5, FirstByte
<1>6. coming = Coming(Collectable(e, header'), LineEnd(e, header'))
  BY <1>4
<1>7. UNCHANGED <<encoding, headerBuf, escapePending>>
  BY DEF SeekZpad
<1>8. ASSUME bytes[1] = ZPAD
      PROVE  ReaderAtRest' /\ zpadState' # "Idle"
  <2>1. ~StartsHeader(bytes[1])
    BY <1>1, <1>8 DEF StartsHeader
  <2>2. readerState' = readerState /\ zpadState' = ZpadAfter(bytes[1])
    BY <2>1 DEF SeekZpad
  <2> QED
    BY <1>7, <1>8, <2>2 DEF ReaderAtRest, ZpadAfter
<1>9. CASE wire = <<ZPAD, ZPAD, ZDLE, byte>> \o coming
  <2>1. bytes[1] = ZPAD /\ wire' = <<ZPAD, ZDLE, byte>> \o coming
    BY <1>1, <1>3, <1>5, <1>9
  <2> QED
    BY <1>6, <1>8, <2>1 DEF HeaderComes
<1>10. CASE wire = <<ZPAD, ZDLE, byte>> \o coming
  <2>1. bytes[1] = ZPAD /\ wire' = <<ZDLE, byte>> \o coming
    BY <1>1, <1>3, <1>5, <1>10
  <2> QED
    BY <1>6, <1>8, <2>1 DEF HeaderComes
<1>11. CASE wire = <<ZDLE, byte>> \o coming /\ zpadState # "Idle"
  <2>1. bytes[1] = ZDLE /\ wire' = <<byte>> \o coming
    BY <1>1, <1>3, <1>5, <1>11
  <2>2. StartsHeader(bytes[1])
    BY <1>11, <2>1 DEF StartsHeader
  <2>3. readerState' = "ReadingEncoding"
    BY <2>2 DEF SeekZpad
  <2> QED
    BY <1>6, <2>1, <2>3 DEF HeaderComes
<1> QED
  BY <1>2, <1>9, <1>10, <1>11

LEMMA EncodingOfByte ==
  ASSUME NEW e \in Encoding
  PROVE  Encodings(EncodingByte[e]) = {e}
BY DEF Encodings, Encoding, EncodingByte

LEMMA ReadEncodingClean ==
  ASSUME TypeInv, HeaderRight, stage > 0, NEW e \in Script[stage].encodings,
         readerState = "ReadingEncoding", HeaderComes(e),
         NEW bytes, NEW n, Submits(bytes, n),
         ReadEncoding(bytes) \/ UnknownEncoding(bytes)
  PROVE  HeaderComes(e)' /\ resyncing' = resyncing
<1> PICK byte : byte = EncodingByte[e]
  OBVIOUS
<1> PICK octets : octets = Collectable(e, header)
  OBVIOUS
<1> PICK end : end = LineEnd(e, header)
  OBVIOUS
<1>1. /\ octets \in Seq(Octet) /\ Len(octets) > 0 /\ end \in Seq(Octet)
      /\ Coming(octets, end) \in Seq(Octet) /\ byte \in Octet /\ e \in Encoding
  BY HeaderNow
<1>2. wire = <<byte>> \o Coming(octets, end)
  BY DEF HeaderComes, ReaderAtRest
<1>3. /\ n \in 1 .. 2 /\ n <= Len(wire) /\ bytes = SubSeq(wire, 1, n)
      /\ wire' = SubSeq(wire, n + 1, Len(wire)) /\ Len(bytes) = 1
      /\ header' = header
  BY DEF Submits, Takes, ReadEncoding, UnknownEncoding
<1>4. bytes[1] = byte /\ wire' = Coming(octets, end)
  BY ONLY <1>1, <1>2, <1>3, FirstByte
<1>5. Encodings(bytes[1]) = {e}
  BY <1>1, <1>4, EncodingOfByte
<1>6. ReadEncoding(bytes)
  BY <1>5 DEF UnknownEncoding
<1>7. /\ encoding' = e /\ readerState' = "ReadingData" /\ headerBuf' = <<>>
      /\ ~escapePending' /\ resyncing' = resyncing
  BY <1>5, <1>6 DEF ReadEncoding
<1>8. Plain(octets, headerBuf', end, wire')
  BY <1>1, <1>4, <1>7, PlainStarts
<1>9. octets = Collectable(e, header') /\ end = LineEnd(e, header')
  BY <1>3
<1> QED
  BY <1>7, <1>8, <1>9 DEF HeaderComes

LEMMA CollectClean ==
  ASSUME TypeInv, HeaderRight, stage > 0, NEW e \in Script[stage].encodings,
         readerState = "ReadingData", HeaderComes(e),
         NEW bytes, NEW n, Submits(bytes, n)
  PROVE  /\ encoding = e
         /\ StopAtEscape(bytes) \/ CollectByte(bytes) =>
              HeaderComes(e)' /\ resyncing' = resyncing
         /\ Completes(bytes) => Decoded(bytes) = header /\ wire' = LineEnd(e, header)
<1> PICK octets : octets = Collectable(e, header)
  OBVIOUS
<1> PICK end : end = LineEnd(e, header)
  OBVIOUS
<1>1. /\ octets \in Seq(Octet) /\ Len(octets) = ReadSize[e] /\ end \in Seq(Octet)
      /\ DecodeHeader(e, octets) = header
  BY HeaderNow
<1>2. /\ encoding = e
      /\ escapePending => Half(octets, headerBuf, end, wire)
      /\ ~escapePending => Plain(octets, headerBuf, end, wire)
  BY DEF HeaderComes, ReaderAtRest
<1>3. header' = header
  BY DEF Submits
<1>4. headerBuf \in Seq(Octet) /\ escapePending \in BOOLEAN
  BY DEF TypeInv, ReaderTypeOK
<1> PICK octet : octet = Unescaped(escapePending, bytes)
  OBVIOUS
<1>5. /\ IsCut(escapePending, bytes) => Half(octets, headerBuf, end, wire')
      /\ IsWhole(escapePending, bytes) => OneMore(octets, headerBuf, octet, end, wire')
  <2>1. Underway(escapePending, octets, headerBuf, end, wire)
    BY <1>2 DEF Underway
  <2>2. Takes(wire, n, bytes, wire')
    BY DEF Submits
  <2> QED
    BY ONLY <1>1, <1>4, <2>1, <2>2, octet = Unescaped(escapePending, bytes), EscapeStep
<1>6. octets = Collectable(e, header') /\ end = LineEnd(e, header')
  BY <1>3
<1>7. CASE StopAtEscape(bytes)
  <2>1. /\ readerState' = "ReadingData" /\ encoding' = e /\ headerBuf' = headerBuf
        /\ escapePending' /\ resyncing' = resyncing
    BY <1>2, <1>7 DEF StopAtEscape
  <2>2. Half(octets, headerBuf', end, wire')
    BY <1>5, <1>7, <2>1 DEF StopAtEscape
  <2>3. HeaderComes(e)'
    BY <1>6, <2>1, <2>2 DEF HeaderComes
  <2>4. ~Completes(bytes)
    <3>1. bytes[1] = ZDLE /\ Len(bytes) = 1
      BY <1>7, JustZdle DEF StopAtEscape, IsCut
    <3> QED
      BY <1>7, <3>1 DEF StopAtEscape, Completes, IsCut, IsWhole
  <2> QED
    BY <1>2, <2>1, <2>3, <2>4
<1>8. CASE CollectByte(bytes)
  <2>1. /\ readerState' = "ReadingData" /\ encoding' = e
        /\ headerBuf' = Append(headerBuf, octet)
        /\ ~escapePending' /\ resyncing' = resyncing
        /\ Len(headerBuf) + 1 < ReadSize[e]
    BY <1>2, <1>8 DEF CollectByte, Collected
  <2>2. OneMore(octets, headerBuf, octet, end, wire')
    BY <1>5, <1>8 DEF CollectByte
  <2>3. Plain(octets, headerBuf', end, wire')
    BY <1>1, <2>1, <2>2 DEF OneMore
  <2>4. HeaderComes(e)'
    BY <1>6, <2>1, <2>3 DEF HeaderComes
  <2>5. ~Completes(bytes)
    BY <1>2, <1>4, <2>1 DEF Completes
  <2> QED
    BY <1>2, <2>1, <2>4, <2>5
<1>9. CASE Completes(bytes)
  <2>1. Len(headerBuf) + 1 = Len(octets)
    BY <1>1, <1>2, <1>9 DEF Completes
  <2>2. OneMore(octets, headerBuf, octet, end, wire')
    BY <1>5, <1>9 DEF Completes
  <2>3. Append(headerBuf, octet) = octets /\ wire' = end
    BY <2>1, <2>2 DEF OneMore
  <2>4. Decoded(bytes) = header
    BY <1>1, <1>2, <2>3 DEF Decoded, Collected
  <2>5. ~StopAtEscape(bytes) /\ ~CollectByte(bytes)
    <3>1. ~(Len(headerBuf) + 1 < ReadSize[encoding])
      BY <1>9 DEF Completes
    <3>2. ASSUME IsCut(escapePending, bytes) PROVE FALSE
      <4>1. bytes[1] = ZDLE /\ Len(bytes) = 1
        BY <3>2, JustZdle DEF IsCut
      <4> QED
        BY <1>9, <3>2, <4>1 DEF Completes, IsCut, IsWhole
    <3> QED
      BY <3>1, <3>2 DEF StopAtEscape, CollectByte
  <2> QED
    BY <1>2, <2>3, <2>4, <2>5
<1> QED
  BY <1>2, <1>7, <1>8, <1>9

\* The header is complete, and announces the subpackets that come if any.
LEMMA FoundClean ==
  ASSUME TypeInv, HeaderRight, stage > 0, AwaitsHeader,
         NEW e \in Script[stage].encodings, frame = "None" \/ frame = e, encoding = e,
         Reset, found' = Append(found, header), wire' = LineEnd(e, header),
         IF Announces(header.frame) THEN Announced(header.frame, e)
                                    ELSE UNCHANGED subpacketVars,
         UNCHANGED <<stage, header, frame, sent, accepted>>
  PROVE  AfterHeader'
<1>1. /\ stage \in 1 .. Len(Script) /\ e \in Encoding /\ e # "None"
      /\ LineEnd(e, header) \in Seq({CR, LF, XON})
      /\ header.frame = Script[stage].frame
  BY HeaderNow
<1>2. /\ found = <<>> /\ phase = "Idle" /\ SubpacketAtRest /\ Len(accepted) = sent
      /\ (frame # "None" <=> Announces(header.frame))
  BY DEF AwaitsHeader
<1>3. found' = <<header'>>
  BY <1>2
<1>4. ReaderAtRest'
  BY DEF Reset, ReaderAtRest
<1>5. Len(accepted') = sent'
  BY <1>2
<1>6. CASE Announces(header.frame)
  <2>1. Announced(header.frame, e) /\ frame = e
    BY <1>2, <1>6
  <2>2. SubpacketAtRest'
    BY <2>1 DEF Announced, Await, ResetCrc, SubpacketAtRest
  <2>3. e = "ZHEX" => header.frame = "ZSINIT"
    <3>1. Len(Script[stage].subpackets) > 0
      BY <1>1, <1>6, StageFacts
    <3> QED
      BY <1>1, <3>1, StageFacts
  <2>4. /\ phase' = IF e = "ZHEX" THEN "SkipTrailer" ELSE "Reading"
        /\ dataEncoding' = IF e = "ZHEX" THEN "ZBIN" ELSE e
    BY <2>1, <2>3 DEF Announced, Await
  <2>5. e # "ZHEX" => wire' = <<>>
    BY DEF LineEnd
  <2> QED
    BY <1>1, <1>3, <1>4, <1>5, <2>1, <2>2, <2>4, <2>5 DEF AfterHeader
<1>7. CASE ~Announces(header.frame)
  <2>1. frame = "None" /\ UNCHANGED subpacketVars
    BY <1>2, <1>7
  <2>2. SubpacketAtRest' /\ phase' = "Idle"
    BY <1>2, <2>1 DEF SubpacketAtRest, subpacketVars
  <2> QED
    BY <1>1, <1>3, <1>4, <1>5, <2>1, <2>2 DEF AfterHeader
<1> QED
  BY <1>6, <1>7

LEMMA ReadHeaderClean ==
  ASSUME TypeInv, HeaderRight, stage > 0, AwaitsHeader, ~resyncing,
         NEW bytes, NEW n, Submits(bytes, n), ReadHeader(bytes)
  PROVE  ~resyncing' /\ error' = error /\ (AwaitsHeader' \/ AfterHeader')
<1>1. PICK e \in Script[stage].encodings : (frame = "None" \/ frame = e) /\ HeaderComes(e)
  BY DEF AwaitsHeader
<1>2. UNCHANGED <<stage, header, frame, sent, accepted, error>>
  BY DEF Submits, ReadHeader
<1>3. ASSUME UNCHANGED <<subpacketVars, found>>, HeaderComes(e)'
      PROVE  AwaitsHeader'
  BY <1>1, <1>2, <1>3 DEF AwaitsHeader, SubpacketAtRest, subpacketVars
<1>4. CASE readerState = "SeekingZpad"
  <2>1. SeekZpad(bytes) /\ UNCHANGED <<subpacketVars, found>>
    BY <1>4, HeaderReadingIs
  <2>2. ReaderAtRest
    BY <1>1, <1>4 DEF HeaderComes
  <2>3. HeaderComes(e)' /\ resyncing' = resyncing
    BY <1>1, <2>1, <2>2, SeekClean DEF SeekZpad
  <2> QED
    BY <1>2, <1>3, <2>1, <2>3
<1>5. CASE readerState = "ReadingEncoding"
  <2>1. /\ ReadEncoding(bytes) \/ UnknownEncoding(bytes)
        /\ UNCHANGED <<subpacketVars, found>>
    BY <1>5, HeaderReadingIs
  <2>2. HeaderComes(e)' /\ resyncing' = resyncing
    BY <1>1, <1>5, <2>1, ReadEncodingClean
  <2> QED
    BY <1>2, <1>3, <2>1, <2>2
<1>6. CASE readerState = "ReadingData"
  <2>1. /\ encoding = e
        /\ StopAtEscape(bytes) \/ CollectByte(bytes) =>
             HeaderComes(e)' /\ resyncing' = resyncing
        /\ Completes(bytes) => Decoded(bytes) = header /\ wire' = LineEnd(e, header)
    BY <1>1, <1>6, CollectClean
  <2>2. ~DropHeader(bytes)
    BY <1>1, <2>1, HeaderNow DEF DropHeader
  <2>3. CASE /\ StopAtEscape(bytes) \/ CollectByte(bytes)
             /\ UNCHANGED <<subpacketVars, found>>
    BY <1>2, <1>3, <2>1, <2>3
  <2>4. CASE /\ Finds(bytes)
             /\ found' = Append(found, Decoded(bytes))
             /\ IF Announces(Decoded(bytes).frame)
                THEN Announced(Decoded(bytes).frame, encoding)
                ELSE UNCHANGED subpacketVars
    <3>1. Completes(bytes) /\ Reset /\ ~resyncing'
      BY <2>4 DEF Finds
    <3>2. Decoded(bytes) = header /\ wire' = LineEnd(e, header)
      BY <2>1, <3>1
    <3>3. AfterHeader'
      BY <1>1, <1>2, <2>1, <2>4, <3>1, <3>2, FoundClean
    <3> QED
      BY <1>2, <3>1, <3>3
  <2> QED
    BY <1>6, <2>2, <2>3, <2>4, HeaderReadingIs
<1> QED
  BY <1>4, <1>5, <1>6 DEF TypeInv, ReaderTypeOK, HeaderReadState

-----------------------------------------------------------------------------
(***************************************************************************)
(* StreamInv is an invariant: what stands behind a header is read.         *)
(***************************************************************************)
LEMMA ProcessingIs ==
  ASSUME NEW bytes, ProcessSubpacket(bytes)
  PROVE  /\ phase # "Idle" /\ found' = found
         /\ phase \in {"SkipTrailer", "Reading"} =>
              \/ /\ phase = "SkipTrailer" /\ bytes[1] \in Trailer
                 /\ UNCHANGED <<subpacketVars, readerVars, accepted, error>>
              \/ /\ phase = "SkipTrailer" => bytes[1] \notin Trailer
                 /\ \/ /\ PauseAtEscape(bytes) \/ CollectData(bytes) \/ Terminate(bytes)
                       /\ UNCHANGED <<readerVars, accepted, error>>
                    \/ Overflows(bytes)
         /\ phase = "Crc" =>
              \/ /\ PauseInCrc(bytes) \/ CollectCrc(bytes)
                 /\ UNCHANGED <<readerVars, accepted, error>>
              \/ /\ Accepts(Last(found).frame, bytes)
                 /\ accepted' = Append(accepted, Subpacket(kind, buf))
                 /\ UNCHANGED <<readerVars, error>>
              \/ Rejects(bytes)
<1>1. phase # "Idle" /\ found' = found
  BY DEF ProcessSubpacket
<1>2. ASSUME phase \in {"SkipTrailer", "Reading"}
      PROVE  /\ ~PauseInCrc(bytes) /\ ~CollectCrc(bytes) /\ ~Rejects(bytes)
             /\ ~Accepts(Last(found).frame, bytes)
  BY <1>2 DEF PauseInCrc, CollectCrc, Accepts, Rejects, CompletesCrc
<1>3. ASSUME PauseAtEscape(bytes) \/ CollectData(bytes) \/ Terminate(bytes) \/ Overflows(bytes)
      PROVE  /\ phase \in {"SkipTrailer", "Reading"}
             /\ phase = "SkipTrailer" => bytes[1] \notin Trailer
  BY <1>3 DEF PauseAtEscape, CollectData, Terminate, Overflows, IsData, IsPayload
<1>4. SkipTrailer(bytes) => phase = "SkipTrailer" /\ bytes[1] \in Trailer
                            /\ UNCHANGED subpacketVars
  BY DEF SkipTrailer
<1> QED
  BY <1>1, <1>2, <1>3, <1>4 DEF ProcessSubpacket, Reads

LEMMA LineEndOctets ==
  /\ {CR, LF, XON} \subseteq Octet /\ {CR, LF, XON} \subseteq Trailer
  /\ ZDLE \notin {CR, LF, XON} /\ ZDLE \notin Trailer
BY DEF CR, LF, XON, ZDLE, Octet, Trailer

LEMMA LineEndClean ==
  ASSUME TypeInv, stage > 0, AfterHeader, ~resyncing,
         NEW bytes, NEW n, Submits(bytes, n),
         ReadHeader(bytes) \/ ProcessSubpacket(bytes)
  PROVE  ~resyncing' /\ error' = error /\ AfterHeader'
<1>1. /\ found = <<header>> /\ ReaderAtRest /\ SubpacketAtRest
      /\ wire \in Seq({CR, LF, XON})
      /\ phase \in {"Idle", "SkipTrailer", "Reading"}
      /\ phase = "Reading" => wire = <<>>
  BY DEF AfterHeader
<1>2. /\ n \in 1 .. 2 /\ n <= Len(wire) /\ bytes = SubSeq(wire, 1, n)
      /\ wire' = SubSeq(wire, n + 1, Len(wire))
      /\ UNCHANGED <<stage, header, frame, sent>>
  BY DEF Submits, Takes
<1>3. bytes[1] \in {CR, LF, XON} /\ wire' \in Seq({CR, LF, XON})
  <2> PICK S : S = {CR, LF, XON}
    OBVIOUS
  <2>1. wire \in Seq(S)
    BY <1>1
  <2>2. bytes[1] = wire[1] /\ wire[1] \in S
    BY ONLY <1>2, <2>1
  <2>3. wire' \in Seq(S)
    BY ONLY <1>2, <2>1
  <2> QED
    BY <2>2, <2>3
<1>4. phase # "Reading"
  <2>1. Len(<<>>) = 0
    OBVIOUS
  <2> QED
    BY <1>1, <1>2, <2>1
<1>5. ASSUME UNCHANGED <<subpacketVars, found, accepted, error>>, ~resyncing', ReaderAtRest'
      PROVE  ~resyncing' /\ error' = error /\ AfterHeader'
  <2>1. SubpacketAtRest' /\ phase' = phase /\ dataEncoding' = dataEncoding
    BY <1>1, <1>5 DEF SubpacketAtRest, subpacketVars
  <2>2. found' = found /\ accepted' = accepted /\ error' = error
    BY <1>5
  <2>3. UNCHANGED <<stage, header, frame, sent>>
    BY <1>2
  <2>4. phase' # "Reading"
    BY <1>4, <2>1
  <2> QED
    BY ONLY AfterHeader, <1>3, <1>5, <2>1, <2>2, <2>3, <2>4 DEF AfterHeader
<1>6. CASE ReadHeader(bytes)
  <2>1. SeekZpad(bytes) /\ UNCHANGED <<subpacketVars, found, accepted, error>>
    BY <1>1, <1>6, HeaderReadingIs DEF ReaderAtRest
  <2>2. ~StartsHeader(bytes[1])
    BY <1>3, LineEndOctets DEF StartsHeader
  <2>3. ReaderAtRest' /\ ~resyncing'
    BY <1>1, <2>1, <2>2 DEF SeekZpad, ReaderAtRest
  <2> QED
    BY <1>5, <2>1, <2>3
<1>7. CASE ProcessSubpacket(bytes)
  <2>1. phase = "SkipTrailer" /\ found' = found
    BY <1>1, <1>4, <1>7, ProcessingIs
  <2>2. bytes[1] \in Trailer
    BY <1>3, LineEndOctets
  <2>3. UNCHANGED <<subpacketVars, readerVars, accepted, error>>
    BY <1>7, <2>1, <2>2, ProcessingIs
  <2>4. ReaderAtRest' /\ ~resyncing'
    BY <1>1, <2>3 DEF readerVars, ReaderAtRest
  <2> QED
    BY <1>5, <2>1, <2>3, <2>4
<1> QED
  BY <1>6, <1>7

LEMMA TerminatorOfByte ==
  ASSUME NEW k \in SubpacketType
  PROVE  {j \in SubpacketType : TerminatorByte[j] = TerminatorByte[k]} = {k}
BY DEF SubpacketType, TerminatorByte

LEMMA NoTerminator ==
  ASSUME NEW bytes,
         subpacketEscapePending \/ Len(bytes) = 2 => bytes[Len(bytes)] \notin 104 .. 107
  PROVE  TerminatorsIn(bytes) = {}
<1>1. ASSUME NEW k \in SubpacketType, TerminatorByte[k] = bytes[Len(bytes)]
      PROVE  bytes[Len(bytes)] \in 104 .. 107
  BY <1>1, Specials
<1> QED
  BY <1>1 DEF TerminatorsIn


LEMMA StillAwaits ==
  ASSUME AwaitsSubpacket, UNCHANGED <<readerVars, found, accepted, dataEncoding>>,
         UNCHANGED <<stage, header, frame, sent>>, SubpacketComes'
  PROVE  AwaitsSubpacket'
<1>1. ReaderAtRest'
  BY DEF AwaitsSubpacket, ReaderAtRest, readerVars
<1>2. Subpackets' = Subpackets
  BY DEF Subpackets
<1> QED
  BY <1>1, <1>2 DEF AwaitsSubpacket

LEMMA SentUnchanged ==
  ASSUME UNCHANGED <<stage, sent, dataEncoding>>
  PROVE  /\ Subpackets' = Subpackets /\ Subpackets'[sent'] = Subpackets[sent]
         /\ LastByte' = LastByte
         /\ SentCrc' = SentCrc /\ BehindData' = BehindData
<1>1. Subpackets' = Subpackets
  BY DEF Subpackets
<1>2. LastByte' = LastByte
  BY <1>1 DEF LastByte
<1>3. SentCrc' = SentCrc
  BY <1>1, <1>2 DEF SentCrc
<1> QED
  BY <1>1, <1>2, <1>3 DEF BehindData

\* What SubpacketComes is, in the next state, in terms of this one.
LEMMA SubpacketComesNext ==
  ASSUME UNCHANGED <<stage, sent, dataEncoding>>
  PROVE  /\ /\ phase' = "Reading" /\ crcBuf' = <<>> /\ ~crcEscapePending'
            /\ \/ Underway(subpacketEscapePending', Subpackets[sent].data, buf',
                           BehindData, wire')
               \/ /\ buf' = Subpackets[sent].data
                  /\ \/ ~subpacketEscapePending' /\ wire' = BehindData
                     \/ subpacketEscapePending'
                        /\ wire' = <<LastByte>> \o EscapeSlice(SentCrc)
            => SubpacketComes'
         /\ /\ phase' = "Crc" /\ kind' = Subpackets[sent].kind
            /\ buf' = Subpackets[sent].data /\ ~subpacketEscapePending'
            /\ Underway(crcEscapePending', SentCrc, crcBuf', <<>>, wire')
            => SubpacketComes'
<1> PICK last : last = LastByte
  OBVIOUS
<1> PICK crc : crc = SentCrc
  OBVIOUS
<1> PICK behind : behind = BehindData
  OBVIOUS
<1> PICK subpacket : subpacket = Subpackets[sent]
  OBVIOUS
<1>1. /\ Subpackets'[sent'] = subpacket /\ last = TerminatorByte[subpacket.kind]
      /\ crc = CrcBytes(dataEncoding', Append(subpacket.data, last))
      /\ behind = <<ZDLE, last>> \o EscapeSlice(crc)
  BY SentUnchanged DEF LastByte, SentCrc, BehindData
<1>2. ASSUME phase' = "Reading", crcBuf' = <<>>, ~crcEscapePending',
             \/ Underway(subpacketEscapePending', subpacket.data, buf', behind, wire')
             \/ /\ buf' = subpacket.data
                /\ \/ ~subpacketEscapePending' /\ wire' = behind
                   \/ subpacketEscapePending' /\ wire' = <<last>> \o EscapeSlice(crc)
      PROVE  SubpacketComes'
  BY ONLY <1>1, <1>2 DEF SubpacketComes, Underway
<1>3. ASSUME phase' = "Crc", kind' = subpacket.kind,
             buf' = subpacket.data, ~subpacketEscapePending',
             Underway(crcEscapePending', crc, crcBuf', <<>>, wire')
      PROVE  SubpacketComes'
  BY ONLY <1>1, <1>3 DEF SubpacketComes, Underway
<1> QED
  BY <1>2, <1>3

\* The payload is on its way.
LEMMA DataClean ==
  ASSUME TypeInv, stage > 0, sent \in 1 .. Len(Subpackets),
         phase \in {"SkipTrailer", "Reading"}, crcBuf = <<>>, ~crcEscapePending,
         Underway(subpacketEscapePending, Subpackets[sent].data, buf, BehindData, wire),
         NEW bytes, NEW n, Submits(bytes, n),
         PauseAtEscape(bytes) \/ CollectData(bytes) \/ Terminate(bytes) \/ Overflows(bytes)
  PROVE  SubpacketComes' /\ ~Overflows(bytes) /\ dataEncoding' = dataEncoding
<1> PICK data : data = Subpackets[sent].data
  OBVIOUS
<1> PICK behind : behind = BehindData
  OBVIOUS
<1> PICK octet : octet = Unescaped(subpacketEscapePending, bytes)
  OBVIOUS
<1>1. /\ data \in Seq(Octet) /\ behind \in Seq(Octet) /\ buf \in Seq(Octet)
      /\ Len(data) <= SubpacketMaxSize
  BY SubpacketNow DEF TypeInv, SubpacketTypeOK
<1>2. /\ Underway(subpacketEscapePending, data, buf, behind, wire)
      /\ Takes(wire, n, bytes, wire') /\ UNCHANGED <<stage, sent>>
  BY DEF Submits
<1>3. /\ IsCut(subpacketEscapePending, bytes) => Half(data, buf, behind, wire')
      /\ IsWhole(subpacketEscapePending, bytes) =>
           /\ OneMore(data, buf, octet, behind, wire')
           /\ subpacketEscapePending \/ Len(bytes) = 2 =>
                bytes[Len(bytes)] \notin 104 .. 107
  BY ONLY <1>1, <1>2, octet = Unescaped(subpacketEscapePending, bytes), EscapeStep
<1>4. Len(buf) < Len(data)
  BY <1>2 DEF Underway, Plain, Half
<1>5. HasRoom
  BY <1>1, <1>4, SizeAssumption DEF HasRoom
<1>6. IsWhole(subpacketEscapePending, bytes) => TerminatorsIn(bytes) = {}
  BY <1>3, NoTerminator
<1>7. ~Terminate(bytes)
  BY <1>6 DEF Terminate
<1>8. CASE PauseAtEscape(bytes)
  <2>1. /\ phase' = "Reading" /\ subpacketEscapePending' /\ buf' = buf
        /\ crcBuf' = <<>> /\ ~crcEscapePending' /\ dataEncoding' = dataEncoding
    BY <1>8 DEF PauseAtEscape
  <2>2. Underway(subpacketEscapePending', data, buf', behind, wire')
    BY <1>3, <1>8, <2>1 DEF PauseAtEscape, Underway
  <2> QED
    BY <1>2, <1>5, <2>1, <2>2, SubpacketComesNext DEF Overflows
<1>9. CASE CollectData(bytes)
  <2>1. /\ phase' = "Reading" /\ ~subpacketEscapePending' /\ buf' = Append(buf, octet)
        /\ crcBuf' = <<>> /\ ~crcEscapePending' /\ dataEncoding' = dataEncoding
        /\ OneMore(data, buf, octet, behind, wire')
    BY <1>3, <1>9 DEF CollectData, IsData
  <2>2. CASE Len(buf) + 1 < Len(data)
    <3>1. Plain(data, buf', behind, wire')
      BY <2>1, <2>2 DEF OneMore
    <3>2. Underway(subpacketEscapePending', data, buf', behind, wire')
      BY <2>1, <3>1 DEF Underway
    <3> QED
      BY <1>2, <1>5, <2>1, <3>2, SubpacketComesNext DEF Overflows
  <2>3. CASE ~(Len(buf) + 1 < Len(data))
    <3>1. buf' = data /\ wire' = behind
      BY <2>1, <2>3 DEF OneMore
    <3> QED
      BY <1>2, <1>5, <2>1, <3>1, SubpacketComesNext DEF Overflows
  <2> QED
    BY <2>2, <2>3
<1>10. ~Overflows(bytes)
  BY <1>5 DEF Overflows
<1> QED
  BY <1>7, <1>8, <1>9, <1>10

\* Its terminator is, or what follows the ZDLE of it.
LEMMA TerminatorClean ==
  ASSUME TypeInv, stage > 0, sent \in 1 .. Len(Subpackets),
         phase \in {"SkipTrailer", "Reading"}, crcBuf = <<>>, ~crcEscapePending,
         buf = Subpackets[sent].data,
         \/ ~subpacketEscapePending /\ wire = BehindData
         \/ subpacketEscapePending /\ wire = <<LastByte>> \o EscapeSlice(SentCrc),
         NEW bytes, NEW n, Submits(bytes, n),
         PauseAtEscape(bytes) \/ CollectData(bytes) \/ Terminate(bytes) \/ Overflows(bytes)
  PROVE  SubpacketComes' /\ ~Overflows(bytes) /\ dataEncoding' = dataEncoding
<1> PICK crc : crc = SentCrc
  OBVIOUS
<1> PICK escaped : escaped = EscapeSlice(crc)
  OBVIOUS
<1> PICK last : last = LastByte
  OBVIOUS
<1> PICK k : k = Subpackets[sent].kind
  OBVIOUS
<1>1. /\ k \in SubpacketType /\ last = TerminatorByte[k] /\ last \in Octet
      /\ last \in 104 .. 107 /\ crc \in Seq(Octet) /\ Len(crc) > 0
      /\ escaped \in Seq(Octet) /\ ZDLE \in Octet /\ ZDLE # last
  <2>1. /\ k \in SubpacketType /\ last \in Octet /\ last \in 104 .. 107
        /\ crc \in Seq(Octet) /\ Len(crc) = CrcLength /\ escaped \in Seq(Octet)
    BY SubpacketNow
  <2>2. last = TerminatorByte[k]
    BY DEF LastByte
  <2>3. CrcLength > 0
    BY DEF CrcLength
  <2>4. ZDLE \in Octet /\ ZDLE # last
    BY <2>1, Specials DEF ZDLE
  <2> QED
    BY ONLY <2>1, <2>2, <2>3, <2>4
<1>2. /\ n \in 1 .. 2 /\ n <= Len(wire) /\ bytes = SubSeq(wire, 1, n)
      /\ wire' = SubSeq(wire, n + 1, Len(wire)) /\ UNCHANGED <<stage, sent>>
  BY DEF Submits, Takes
<1>3. {j \in SubpacketType : TerminatorByte[j] = last} = {k}
  BY <1>1, TerminatorOfByte
<1>4. <<last>> \o escaped \in Seq(Octet)
  BY <1>1, NotNothing
<1>5. ASSUME IsWhole(subpacketEscapePending, bytes), TerminatorsIn(bytes) = {k},
             wire' = escaped
      PROVE  SubpacketComes' /\ ~Overflows(bytes) /\ dataEncoding' = dataEncoding
  <2>1. Terminate(bytes) /\ ~Overflows(bytes)
    <3>1. ~IsCut(subpacketEscapePending, bytes)
      <4>1. ASSUME IsCut(subpacketEscapePending, bytes) PROVE FALSE
        <5>1. bytes[1] = ZDLE /\ Len(bytes) = 1
          BY <4>1, JustZdle DEF IsCut
        <5> QED
          BY <1>5, <4>1, <5>1 DEF IsCut, IsWhole
      <4> QED
        BY <4>1
    <3> QED
      BY <1>5, <3>1 DEF PauseAtEscape, CollectData, Overflows, IsData
  <2>2. /\ kind' = k /\ phase' = "Crc" /\ ~subpacketEscapePending'
        /\ buf' = buf /\ dataEncoding' = dataEncoding
        /\ crcBuf' = <<>> /\ ~crcEscapePending'
    BY <1>5, <2>1 DEF Terminate
  <2>3. wire' = Coming(crc, <<>>)
    <3>1. escaped \o <<>> = escaped
      BY <1>1
    <3> QED
      BY <1>5, <3>1 DEF Coming
  <2>4. Plain(crc, crcBuf', <<>>, wire')
    BY <1>1, <2>2, <2>3, PlainStarts
  <2>5. Underway(crcEscapePending', crc, crcBuf', <<>>, wire')
    BY <2>2, <2>4 DEF Underway
  <2> QED
    BY <1>2, <2>1, <2>2, <2>5, SubpacketComesNext
<1>6. CASE ~subpacketEscapePending /\ wire = BehindData
  <2>1. wire = <<ZDLE, last>> \o escaped
    BY <1>6 DEF BehindData
  <2>2. wire = <<ZDLE>> \o (<<last>> \o escaped)
    <3>1. <<ZDLE, last>> = <<ZDLE>> \o <<last>> /\ <<last>> \in Seq(Octet)
      BY <1>1
    <3>2. (<<ZDLE>> \o <<last>>) \o escaped = <<ZDLE>> \o (<<last>> \o escaped)
      BY ONLY <1>1, <3>1, OneAtATime
    <3> QED
      BY ONLY <2>1, <3>1, <3>2
  <2>3. CASE n = 1
    <3>1. bytes[1] = ZDLE /\ Len(bytes) = 1 /\ bytes \in Seq(Octet)
      <4>1. wire \in Seq(Octet)
        BY <1>1, <1>4, <2>2, NotNothing
      <4>2. wire[1] = ZDLE
        BY <1>1, <1>4, <2>2, NotNothing
      <4> QED
        BY <1>2, <2>3, <4>1, <4>2, Taken
    <3>2. wire' = <<last>> \o escaped
      BY ONLY <1>1, <1>2, <1>4, <2>2, <3>1, FirstByte
    <3>3. ~IsWhole(subpacketEscapePending, bytes)
      BY <1>6, <3>1 DEF IsWhole
    <3>4. PauseAtEscape(bytes) /\ ~Overflows(bytes)
      BY <3>3 DEF CollectData, Terminate, Overflows, IsData
    <3>5. /\ phase' = "Reading" /\ subpacketEscapePending' /\ buf' = buf
          /\ crcBuf' = <<>> /\ ~crcEscapePending' /\ dataEncoding' = dataEncoding
      BY <3>4 DEF PauseAtEscape
    <3> QED
      BY <1>2, <3>2, <3>4, <3>5, SubpacketComesNext
  <2>4. CASE n = 2
    <3>1. /\ wire \in Seq(Octet) /\ wire[1] = ZDLE /\ wire[2] = last
          /\ SubSeq(wire, 3, Len(wire)) = escaped
      BY ONLY <1>1, <2>1
    <3>2. bytes[1] = ZDLE /\ Len(bytes) = 2 /\ bytes[2] = last
      BY <1>2, <2>4, <3>1, Taken
    <3>3. IsWhole(subpacketEscapePending, bytes)
      BY <1>6, <3>2 DEF IsWhole
    <3>4. TerminatorsIn(bytes) = {k}
      BY <1>3, <3>2 DEF TerminatorsIn
    <3> QED
      BY <1>2, <1>5, <2>4, <3>1, <3>3, <3>4
  <2> QED
    BY <1>2, <2>3, <2>4
<1>7. CASE subpacketEscapePending /\ wire = <<last>> \o escaped
  <2>1. wire \in Seq(Octet) /\ wire[1] = last /\ SubSeq(wire, 2, Len(wire)) = escaped
    BY ONLY <1>1, <1>7, NotNothing
  <2>2. Len(bytes) = n /\ bytes[1] = last
    BY <1>2, <2>1, Taken
  <2>3. CASE n = 1
    <3>1. IsWhole(subpacketEscapePending, bytes)
      BY <1>7, <2>2, <2>3 DEF IsWhole
    <3>2. TerminatorsIn(bytes) = {k}
      BY <1>3, <1>7, <2>2, <2>3 DEF TerminatorsIn
    <3> QED
      BY <1>2, <1>5, <2>1, <2>3, <3>1, <3>2
  <2>4. CASE n = 2
    <3>1. ~IsWhole(subpacketEscapePending, bytes) /\ ~IsCut(subpacketEscapePending, bytes)
      BY <1>7, <2>2, <2>4 DEF IsWhole, IsCut
    <3> QED
      BY <3>1 DEF PauseAtEscape, CollectData, Terminate, Overflows, IsData
  <2> QED
    BY <1>2, <2>3, <2>4
<1> QED
  BY <1>6, <1>7

\* What follows the line end of a hex ZSINIT is not taken for a part of it.
LEMMA PayloadIsNoTrailer ==
  ASSUME TypeInv, stage > 0, sent \in 1 .. Len(Subpackets),
         phase = "SkipTrailer", SubpacketComes, NEW bytes, NEW n, Submits(bytes, n)
  PROVE  bytes[1] \notin Trailer
<1> PICK data : data = Subpackets[sent].data
  OBVIOUS
<1> PICK behind : behind = BehindData
  OBVIOUS
<1>1. /\ buf = <<>> /\ ~subpacketEscapePending
      /\ data # <<>> => data[1] \notin {LF, LF + 128}
      /\ Plain(data, buf, behind, wire) \/ wire = behind
  BY SubpacketComesIs
<1>2. /\ n \in 1 .. 2 /\ n <= Len(wire) /\ bytes = SubSeq(wire, 1, n)
      /\ wire' = SubSeq(wire, n + 1, Len(wire))
  BY DEF Submits, Takes
<1>3. data \in Seq(Octet) /\ behind \in Seq(Octet) /\ buf \in Seq(Octet)
  BY SubpacketNow DEF TypeInv, SubpacketTypeOK
<1>4. CASE Plain(data, buf, behind, wire)
  <2>1. bytes[1] = Escaped(data[Len(buf) + 1])[1]
    <3>1. Underway(subpacketEscapePending, data, buf, behind, wire)
      BY <1>1, <1>4 DEF Underway
    <3>2. Takes(wire, n, bytes, wire')
      BY DEF Submits
    <3>3. ~subpacketEscapePending => bytes[1] = Escaped(data[Len(buf) + 1])[1]
      BY ONLY <1>3, <3>1, <3>2, EscapeStep
    <3> QED
      BY <1>1, <3>3
  <2>2. Len(buf) = 0 /\ Len(data) > 0
    <3>1. Len(buf) < Len(data)
      BY ONLY <1>4 DEF Plain
    <3>2. Len(buf) = 0
      BY ONLY <1>1
    <3> QED
      BY ONLY <3>1, <3>2
  <2>3. bytes[1] = Escaped(data[1])[1]
    BY <2>1, <2>2
  <2>4. data[1] \in Octet /\ data # <<>>
    BY <1>3, <2>2
  <2> PICK b \in Octet : b = data[1]
    BY <2>4
  <2>5. b \notin {LF, LF + 128} => Escaped(b)[1] \notin Trailer
    BY ONLY b \in Octet, EscapedShape
  <2>6. b \notin {LF, LF + 128}
    BY <1>1, <2>4
  <2> QED
    BY ONLY b = data[1], <2>3, <2>5, <2>6
<1>5. CASE wire = behind
  <2>1. /\ LastByte \in Octet /\ EscapeSlice(SentCrc) \in Seq(Octet) /\ ZDLE \in Octet
        /\ wire = <<ZDLE, LastByte>> \o EscapeSlice(SentCrc)
    BY <1>5, SubpacketNow, Specials DEF BehindData
  <2>2. wire \in Seq(Octet) /\ wire[1] = ZDLE
    <3> PICK last : last = LastByte
      OBVIOUS
    <3> PICK later : later = EscapeSlice(SentCrc)
      OBVIOUS
    <3>1. /\ last \in Octet /\ later \in Seq(Octet) /\ ZDLE \in Octet
          /\ wire = <<ZDLE, last>> \o later
      BY <2>1
    <3> QED
      BY ONLY <3>1
  <2>3. bytes[1] = ZDLE
    BY <1>2, <2>2, Taken
  <2> QED
    BY <2>3, LineEndOctets
<1> QED
  BY <1>1, <1>4, <1>5

LEMMA SubpacketBegunClean ==
  ASSUME TypeInv, stage > 0, AwaitsSubpacket, phase \in {"SkipTrailer", "Reading"},
         NEW bytes, NEW n, Submits(bytes, n), ProcessSubpacket(bytes)
  PROVE  error' = error /\ resyncing' = resyncing /\ AwaitsSubpacket'
<1>1. sent \in 1 .. Len(Subpackets) /\ SubpacketComes
  BY DEF AwaitsSubpacket
<1>2. /\ crcBuf = <<>> /\ ~crcEscapePending
      /\ \/ Underway(subpacketEscapePending, Subpackets[sent].data, buf, BehindData, wire)
         \/ /\ buf = Subpackets[sent].data
            /\ \/ ~subpacketEscapePending /\ wire = BehindData
               \/ subpacketEscapePending /\ wire = <<LastByte>> \o EscapeSlice(SentCrc)
  BY <1>1, SubpacketComesIs DEF Underway
<1>3. phase = "SkipTrailer" => bytes[1] \notin Trailer
  BY <1>1, PayloadIsNoTrailer
<1>4. \/ /\ PauseAtEscape(bytes) \/ CollectData(bytes) \/ Terminate(bytes)
         /\ UNCHANGED <<readerVars, accepted, error>>
      \/ Overflows(bytes)
  BY <1>3, ProcessingIs
<1>5. SubpacketComes' /\ ~Overflows(bytes) /\ dataEncoding' = dataEncoding
  <2>1. CASE Underway(subpacketEscapePending, Subpackets[sent].data, buf, BehindData, wire)
    BY <1>1, <1>2, <1>4, <2>1, DataClean
  <2>2. CASE /\ buf = Subpackets[sent].data
             /\ \/ ~subpacketEscapePending /\ wire = BehindData
                \/ subpacketEscapePending /\ wire = <<LastByte>> \o EscapeSlice(SentCrc)
    BY <1>1, <1>2, <1>4, <2>2, TerminatorClean
  <2> QED
    BY <1>2, <2>1, <2>2
<1>6. UNCHANGED <<stage, header, frame, sent>> /\ found' = found
  BY ProcessingIs DEF Submits
<1>7. AwaitsSubpacket'
  BY <1>4, <1>5, <1>6, StillAwaits
<1>8. error' = error /\ resyncing' = resyncing
  BY <1>4, <1>5 DEF readerVars
<1> QED
  BY <1>7, <1>8

LEMMA StageSubpackets ==
  ASSUME TypeInv, stage > 0
  PROVE  stage \in 1 .. Len(Script) /\ Subpackets \in Seq(SubpacketRecord)
<1>1. stage \in 1 .. Len(Script)
  BY ScriptAssumption DEF TypeInv, StreamTypeOK
<1> QED
  BY <1>1, StageFacts DEF Subpackets

\* Only a data frame has a subpacket that another one follows.
LEMMA AnotherComes ==
  ASSUME TypeInv, HeaderRight, stage > 0, AwaitsSubpacket,
         Subpackets[sent].kind \in {"ZCRCG", "ZCRCQ"}
  PROVE  Last(found).frame = "ZDATA"
<1> PICK subpackets : subpackets = Subpackets
  OBVIOUS
<1>1. /\ stage \in 1 .. Len(Script) /\ subpackets = Script[stage].subpackets
      /\ subpackets \in Seq(SubpacketRecord)
  BY StageSubpackets DEF Subpackets
<1>2. /\ found = <<header>> /\ sent \in 1 .. Len(subpackets)
      /\ subpackets[sent].kind \in {"ZCRCG", "ZCRCQ"}
  BY SubpacketComesIs DEF AwaitsSubpacket
<1>3. subpackets[Len(subpackets)].kind \in {"ZCRCE", "ZCRCW"}
  BY <1>1, <1>2, StageFacts
<1>4. sent # Len(subpackets)
  BY <1>2, <1>3
<1>5. Len(subpackets) > 1
  BY <1>1, <1>2, <1>4
<1>6. Script[stage].frame = "ZDATA"
  BY <1>1, <1>5, StageFacts
<1>7. header.frame = "ZDATA"
  BY <1>6 DEF HeaderRight, Header
<1> QED
  BY <1>2, <1>7 DEF Last

\* The checksum is on its way; once it is there the subpacket is accepted.
LEMMA ChecksumClean ==
  ASSUME TypeInv, HeaderRight, stage > 0, AwaitsSubpacket, phase = "Crc",
         NEW bytes, NEW n, Submits(bytes, n), ProcessSubpacket(bytes)
  PROVE  error' = error /\ resyncing' = resyncing /\ (AwaitsSubpacket' \/ AfterHeader')
<1> PICK crc : crc = SentCrc
  OBVIOUS
<1> PICK octet : octet = Unescaped(crcEscapePending, bytes)
  OBVIOUS
<1>1. /\ sent \in 1 .. Len(Subpackets) /\ SubpacketComes /\ found = <<header>>
      /\ ReaderAtRest /\ sent = Len(accepted) + 1
      /\ (frame # "None" <=> Subpackets[sent].kind \in {"ZCRCG", "ZCRCQ"})
      /\ frame # "None" => dataEncoding = IF frame = "ZHEX" THEN "ZBIN" ELSE frame
  BY DEF AwaitsSubpacket
<1>2. /\ kind = Subpackets[sent].kind /\ buf = Subpackets[sent].data
      /\ ~subpacketEscapePending
      /\ Underway(crcEscapePending, crc, crcBuf, <<>>, wire)
  BY <1>1, SubpacketComesIs DEF Underway
<1>3. Takes(wire, n, bytes, wire') /\ UNCHANGED <<stage, header, frame, sent>>
      /\ found' = found
  BY ProcessingIs DEF Submits
<1>4. crc \in Seq(Octet) /\ Len(crc) = CrcLength /\ crcBuf \in Seq(Octet)
      /\ <<>> \in Seq(Octet)
  BY <1>1, SubpacketNow DEF TypeInv, SubpacketTypeOK
<1>5. /\ IsCut(crcEscapePending, bytes) => Half(crc, crcBuf, <<>>, wire')
      /\ IsWhole(crcEscapePending, bytes) => OneMore(crc, crcBuf, octet, <<>>, wire')
  BY ONLY <1>2, <1>3, <1>4, octet = Unescaped(crcEscapePending, bytes), EscapeStep
<1>6. SubpacketCrc = crc
  BY <1>2 DEF SubpacketCrc, SentCrc, LastByte
<1>7. CASE PauseInCrc(bytes) /\ UNCHANGED <<readerVars, accepted, error>>
  <2>1. /\ phase' = "Crc" /\ kind' = kind /\ buf' = buf /\ ~subpacketEscapePending'
        /\ crcEscapePending' /\ crcBuf' = crcBuf /\ dataEncoding' = dataEncoding
    BY <1>2, <1>7 DEF PauseInCrc
  <2>2. Underway(crcEscapePending', crc, crcBuf', <<>>, wire')
    BY <1>5, <1>7, <2>1 DEF PauseInCrc, Underway
  <2>3. SubpacketComes'
    BY <1>2, <1>3, <2>1, <2>2, SubpacketComesNext
  <2> QED
    BY <1>3, <1>7, <2>1, <2>3, StillAwaits DEF readerVars
<1>8. CASE CollectCrc(bytes) /\ UNCHANGED <<readerVars, accepted, error>>
  <2>1. /\ phase' = "Crc" /\ kind' = kind /\ buf' = buf /\ ~subpacketEscapePending'
        /\ ~crcEscapePending' /\ crcBuf' = Append(crcBuf, octet)
        /\ dataEncoding' = dataEncoding
        /\ Len(crcBuf) + 1 < Len(crc) /\ IsWhole(crcEscapePending, bytes)
    BY <1>2, <1>4, <1>8 DEF CollectCrc, CrcCollected
  <2>2. Plain(crc, crcBuf', <<>>, wire')
    BY <1>5, <2>1 DEF OneMore
  <2>3. Underway(crcEscapePending', crc, crcBuf', <<>>, wire')
    BY <2>1, <2>2 DEF Underway
  <2>4. SubpacketComes'
    BY <1>2, <1>3, <2>1, <2>3, SubpacketComesNext
  <2> QED
    BY <1>3, <1>8, <2>1, <2>4, StillAwaits DEF readerVars
<1>9. ASSUME CompletesCrc(bytes)
      PROVE  CrcMatches(bytes) /\ wire' = <<>>
  <2>1. Len(crcBuf) + 1 = Len(crc) /\ IsWhole(crcEscapePending, bytes)
    BY <1>4, <1>9 DEF CompletesCrc
  <2>2. Append(crcBuf, octet) = crc /\ wire' = <<>>
    BY <1>5, <2>1 DEF OneMore
  <2> QED
    BY <1>6, <2>2 DEF CrcMatches, CrcCollected
<1>10. CASE /\ Accepts(Last(found).frame, bytes)
            /\ accepted' = Append(accepted, Subpacket(kind, buf))
            /\ UNCHANGED <<readerVars, error>>
  <2>1. /\ Await(phase') /\ dataEncoding' = dataEncoding /\ wire' = <<>>
        /\ phase' = IF kind \in {"ZCRCG", "ZCRCQ"} THEN "Reading" ELSE "Idle"
    BY <1>2, <1>9, <1>10, AnotherComes DEF Accepts, Await, ReadsOn
  <2>2. SubpacketAtRest'
    BY <2>1 DEF Await, ResetCrc, SubpacketAtRest
  <2>3. ReaderAtRest'
    BY <1>1, <1>10 DEF readerVars, ReaderAtRest
  <2>4. Len(accepted') = sent'
    <3>1. accepted \in Seq(SubpacketRecord)
      BY DEF TypeInv, StreamTypeOK
    <3> PICK subpacket : subpacket = Subpacket(kind, buf)
      OBVIOUS
    <3>2. accepted' = Append(accepted, subpacket)
      BY <1>10
    <3>3. Len(Append(accepted, subpacket)) = Len(accepted) + 1
      BY ONLY <3>1
    <3> QED
      BY <1>1, <1>3, <3>2, <3>3
  <2>5. wire' \in Seq({CR, LF, XON})
    BY <2>1
  <2>6. found' = <<header'>>
    BY <1>1, <1>3
  <2>7. phase' = "Idle" <=> frame' = "None"
    BY <1>1, <1>2, <1>3, <2>1
  <2>8. /\ phase' \in {"Idle", "SkipTrailer", "Reading"} /\ phase' # "SkipTrailer"
        /\ phase' = "Reading" => wire' = <<>>
        /\ frame' # "None" => dataEncoding' = IF frame' = "ZHEX" THEN "ZBIN" ELSE frame'
    BY <1>1, <1>3, <2>1
  <2>9. AfterHeader'
    BY ONLY <2>2, <2>3, <2>4, <2>5, <2>6, <2>7, <2>8 DEF AfterHeader
  <2> QED
    BY <1>10, <2>9 DEF readerVars
<1>11. ~Rejects(bytes)
  BY <1>9 DEF Rejects
<1> QED
  BY <1>7, <1>8, <1>10, <1>11, ProcessingIs

-----------------------------------------------------------------------------
(***************************************************************************)
(* StreamInv is an invariant.                                              *)
(***************************************************************************)
LEMMA StreamInvIs ==
  StreamInv <=> (damaged = 0 => error = "None" /\ ~resyncing /\ HeaderRight /\ InPart)
BY DEF StreamInv, InPart

LEMMA InitClean == StreamInit => StreamInv
<1> SUFFICES ASSUME StreamInit PROVE StreamInv
  OBVIOUS
<1>1. error = "None" /\ ~resyncing /\ HeaderRight
  BY DEF StreamInit, ReaderInit, HeaderRight
<1>2. NothingBegun
  BY DEF StreamInit, ReaderInit, SubpacketInit, NothingBegun, ReaderAtRest,
         SubpacketAtRest
<1> QED
  BY <1>1, <1>2, StreamInvIs DEF InPart

LEMMA SubmitWireClean ==
  ASSUME TypeInv, HeaderRight, InPart, ~resyncing, SubmitWire
  PROVE  error' = error /\ ~resyncing' /\ HeaderRight' /\ InPart'
<1>1. PICK n \in 1 .. Len(wire) :
        /\ n <= 2
        /\ ReadHeader(SubSeq(wire, 1, n)) \/ ProcessSubpacket(SubSeq(wire, 1, n))
        /\ wire' = SubSeq(wire, n + 1, Len(wire))
  BY DEF SubmitWire
<1> PICK bytes : bytes = SubSeq(wire, 1, n)
  OBVIOUS
<1>2. UNCHANGED <<stage, header, frame, sent>>
  BY DEF SubmitWire
<1>3. Submits(bytes, n)
  BY <1>1, <1>2 DEF Submits, Takes
<1>4. ReadHeader(bytes) \/ ProcessSubpacket(bytes)
  BY <1>1
<1>5. HeaderRight'
  BY <1>2 DEF HeaderRight, Subpackets
<1>6. ~NothingBegun
  <2>1. wire # <<>>
    <3>1. Len(<<>>) = 0
      OBVIOUS
    <3> QED
      BY <1>1, <3>1
  <2> QED
    BY <2>1 DEF NothingBegun
<1>7. ReadHeader(bytes) => phase = "Idle"
  BY DEF ReadHeader
<1>8. ProcessSubpacket(bytes) => phase # "Idle"
  BY DEF ProcessSubpacket
<1>9. CASE stage > 0 /\ AwaitsHeader
  <2>1. ReadHeader(bytes)
    BY <1>4, <1>8, <1>9 DEF AwaitsHeader
  <2>2. ~resyncing' /\ error' = error /\ (AwaitsHeader' \/ AfterHeader')
    BY <1>3, <1>9, <2>1, ReadHeaderClean
  <2> QED
    BY <1>2, <1>5, <1>9, <2>2 DEF InPart
<1>10. CASE stage > 0 /\ AfterHeader
  <2>1. ~resyncing' /\ error' = error /\ AfterHeader'
    BY <1>3, <1>4, <1>10, LineEndClean
  <2> QED
    BY <1>2, <1>5, <1>10, <2>1 DEF InPart
<1>11. CASE stage > 0 /\ AwaitsSubpacket
  <2>1. phase \in {"SkipTrailer", "Reading", "Crc"}
    BY <1>11 DEF AwaitsSubpacket, SubpacketComes
  <2>2. ProcessSubpacket(bytes)
    BY <1>4, <1>7, <2>1
  <2>3. resyncing' = resyncing /\ error' = error /\ (AwaitsSubpacket' \/ AfterHeader')
    BY <1>3, <1>11, <2>1, <2>2, SubpacketBegunClean, ChecksumClean
  <2> QED
    BY <1>2, <1>5, <1>11, <2>3 DEF InPart
<1> QED
  BY <1>6, <1>9, <1>10, <1>11 DEF InPart

LEMMA StepClean ==
  TypeInv /\ StreamInv /\ [StreamNext]_<<receiverVars, streamVars>> => StreamInv'
<1> SUFFICES ASSUME TypeInv, StreamInv, [StreamNext]_<<receiverVars, streamVars>>,
                    damaged' = 0
             PROVE  error' = "None" /\ ~resyncing' /\ HeaderRight' /\ InPart'
  BY StreamInvIs DEF StreamInv, InPart
<1>1. damaged \in Nat
  BY DEF TypeInv, StreamTypeOK
<1>2. ASSUME damaged' = damaged
      PROVE  error = "None" /\ ~resyncing /\ HeaderRight /\ InPart
  BY <1>2, StreamInvIs
<1>3. CASE BeginFrame
  <2>1. damaged' = damaged /\ error' = error /\ resyncing' = resyncing
    BY <1>3 DEF BeginFrame, receiverVars, readerVars
  <2> QED
    BY <1>2, <1>3, <2>1, BeginFrameClean DEF InPart
<1>4. CASE SendSubpacket
  <2>1. damaged' = damaged /\ error' = error /\ resyncing' = resyncing
    BY <1>4 DEF SendSubpacket, receiverVars, readerVars
  <2> QED
    BY <1>2, <1>4, <2>1, SendSubpacketClean DEF InPart
<1>5. CASE Damage
  <2>1. damaged' = damaged + 1
    BY <1>5 DEF Damage
  <2> QED
    BY <1>1, <2>1
<1>6. CASE SubmitWire
  <2>1. damaged' = damaged
    BY <1>6 DEF SubmitWire
  <2> QED
    BY <1>2, <1>6, <2>1, SubmitWireClean
<1>7. CASE UNCHANGED <<receiverVars, streamVars>>
  <2>1. UNCHANGED readerVars /\ UNCHANGED subpacketVars /\ UNCHANGED streamVars
    BY <1>7 DEF receiverVars
  <2>2. damaged' = damaged /\ error' = error /\ resyncing' = resyncing
    BY <2>1 DEF streamVars, readerVars
  <2>3. ReaderAtRest' <=> ReaderAtRest
    BY <2>1 DEF readerVars, ReaderAtRest
  <2>4. SubpacketAtRest' <=> SubpacketAtRest
    BY <2>1 DEF subpacketVars, SubpacketAtRest
  <2>5. Subpackets' = Subpackets
    BY <2>1 DEF streamVars, Subpackets
  <2>6. HeaderRight' <=> HeaderRight
    BY <2>1, <2>5 DEF streamVars, HeaderRight
  <2>7. NothingBegun' <=> NothingBegun
    BY <2>1, <2>3, <2>4 DEF streamVars, subpacketVars, NothingBegun
  <2>8. AwaitsHeader' <=> AwaitsHeader
    <3>1. \A e : HeaderComes(e)' <=> HeaderComes(e)
      BY <2>1, <2>3 DEF streamVars, readerVars, HeaderComes
    <3> QED
      BY <2>1, <2>4, <3>1 DEF streamVars, subpacketVars, AwaitsHeader
  <2>9. AfterHeader' <=> AfterHeader
    BY <2>1, <2>3, <2>4 DEF streamVars, subpacketVars, AfterHeader
  <2>10. AwaitsSubpacket' <=> AwaitsSubpacket
    <3>1. SubpacketComes' <=> SubpacketComes
      BY <2>1, <2>5 DEF streamVars, subpacketVars, SubpacketComes
    <3> QED
      BY <2>1, <2>3, <2>5, <3>1 DEF streamVars, subpacketVars, AwaitsSubpacket
  <2>11. stage' = stage
    BY <2>1 DEF streamVars
  <2> QED
    BY <1>2, <2>2, <2>6, <2>7, <2>8, <2>9, <2>10, <2>11 DEF InPart
<1> QED
  BY <1>3, <1>4, <1>5, <1>6, <1>7 DEF StreamNext

\* On a clean line the receiver is always where the peer's bytes say: the rest
\* of a header and the place of the header reader fit together, so do the rest
\* of a subpacket and the place of the subpacket reader, and between the two
\* nothing is left over but a line end.
THEOREM StreamInvariant == StreamSpec => [](TypeInv /\ StreamInv)
<1>1. StreamInit => TypeInv /\ StreamInv
  BY InitTyped, InitClean
<1>2. TypeInv /\ StreamInv /\ [StreamNext]_<<receiverVars, streamVars>>
        => TypeInv' /\ StreamInv'
  BY StepTyped, StepClean
<1> QED
  BY <1>1, <1>2, PTL DEF StreamSpec

\* What is sent is found: for every script, every choice of encodings and every
\* way the input is cut, on a clean line the header that was sent is read and
\* each of its subpackets is accepted, and once all its bytes are read the
\* readers expect what the peer sends next.
THEOREM ReadersStayInStep == StreamSpec => []StaysInStep
<1>1. TypeInv /\ StreamInv => StaysInStep
  <2> SUFFICES ASSUME TypeInv, StreamInv, damaged = 0, wire = <<>>, stage > 0
               PROVE  /\ found = <<header>> /\ Len(accepted) = sent /\ error = "None"
                      /\ phase = "Idle" <=> frame = "None"
                      /\ buf = <<>> /\ crcBuf = <<>>
                      /\ ~escapePending /\ ~subpacketEscapePending /\ ~crcEscapePending
                      /\ readerState = "SeekingZpad"
    BY DEF StaysInStep
  <2>1. error = "None" /\ HeaderRight /\ InPart
    BY StreamInvIs
  <2>2. AfterHeader
    BY <2>1, AllRead DEF NothingBegun
  <2> QED
    BY <2>1, <2>2 DEF AfterHeader, ReaderAtRest, SubpacketAtRest
<1> QED
  BY <1>1, StreamInvariant, PTL

-----------------------------------------------------------------------------
(***************************************************************************)
(* FoundIsSent, HeadersFound and AcceptedIsSent on a clean line.           *)
(***************************************************************************)
DeliversWhatIsSent ==
  damaged = 0 =>
    /\ FoundIsSent /\ missed = 0
    /\ IsPrefix(accepted, Subpackets)

AcceptedSoFar ==
  damaged = 0 =>
    missed = 0 /\ \A i \in 1 .. Len(accepted) : accepted[i] = Subpackets[i]

\* The subpacket accepted is the one sent last.
LEMMA AcceptedNext ==
  ASSUME TypeInv, StreamInv, damaged = 0, stage > 0,
         NEW bytes, Accepts(Last(found).frame, bytes)
  PROVE  /\ Len(accepted) + 1 \in 1 .. Len(Subpackets)
         /\ Subpacket(kind, buf) = Subpackets[Len(accepted) + 1]
<1>1. phase = "Crc"
  BY DEF Accepts, CompletesCrc
<1>2. AwaitsSubpacket
  BY <1>1, StreamInvIs DEF InPart, NothingBegun, AwaitsHeader, AfterHeader
<1>3. /\ sent \in 1 .. Len(Subpackets) /\ sent = Len(accepted) + 1
      /\ kind = Subpackets[sent].kind /\ buf = Subpackets[sent].data
  BY <1>1, <1>2, SubpacketComesIs DEF AwaitsSubpacket
<1>4. Subpackets[sent] \in SubpacketRecord
  BY <1>3, StageSubpackets
<1>5. Subpackets[sent] = Subpacket(kind, buf)
  BY <1>3, <1>4 DEF SubpacketRecord, Subpacket
<1> QED
  BY <1>3, <1>5

LEMMA AcceptedStep ==
  TypeInv /\ StreamInv /\ AcceptedSoFar /\ [StreamNext]_<<receiverVars, streamVars>>
    => AcceptedSoFar'
<1> SUFFICES ASSUME TypeInv, StreamInv, AcceptedSoFar,
                    [StreamNext]_<<receiverVars, streamVars>>,
                    damaged' = 0
             PROVE  missed' = 0 /\ \A i \in 1 .. Len(accepted') : accepted'[i] = Subpackets'[i]
  BY DEF AcceptedSoFar
<1>1. /\ damaged \in Nat /\ accepted \in Seq(SubpacketRecord)
      /\ stage \in 0 .. Len(Script)
  BY DEF TypeInv, StreamTypeOK
<1>2. ASSUME damaged' = damaged, UNCHANGED <<stage, accepted, missed>>
      PROVE  missed' = 0 /\ \A i \in 1 .. Len(accepted') : accepted'[i] = Subpackets'[i]
  BY <1>2 DEF AcceptedSoFar, Subpackets
<1>3. CASE BeginFrame
  <2>1. damaged' = damaged /\ damaged = 0 /\ wire = <<>>
    BY <1>3 DEF BeginFrame
  <2>2. NothingBegun \/ (stage > 0 /\ AfterHeader)
    BY <2>1, StreamInvIs, AllRead
  <2>3. missed' = missed /\ missed = 0
    <3>1. stage > 0 => found # <<>>
      <4>1. AfterHeader => found # <<>>
        BY DEF AfterHeader
      <4>2. NothingBegun => ~(stage > 0)
        BY DEF NothingBegun
      <4> QED
        BY <2>2, <4>1, <4>2
    <3> QED
      BY <1>3, <2>1, <3>1 DEF BeginFrame, AcceptedSoFar
  <2>4. CASE StageDone
    <3>1. accepted' = <<>>
      BY <1>3, <2>4 DEF BeginFrame
    <3>2. 1 .. Len(accepted') = {}
      BY <3>1
    <3> QED
      BY <2>3, <3>2
  <2>5. CASE ~StageDone
    <3>1. UNCHANGED <<stage, accepted>>
      BY <1>3, <2>5 DEF BeginFrame
    <3> QED
      BY <1>2, <2>1, <2>3, <3>1
  <2> QED
    BY <2>4, <2>5
<1>4. CASE SendSubpacket
  BY <1>2, <1>4 DEF SendSubpacket
<1>5. CASE Damage
  <2>1. damaged' = damaged + 1
    BY <1>5 DEF Damage
  <2> QED
    BY <1>1, <2>1
<1>6. CASE SubmitWire
  <2>1. damaged' = damaged /\ UNCHANGED <<stage, missed>> /\ wire # <<>>
    <3>1. Len(<<>>) = 0
      OBVIOUS
    <3> QED
      BY <1>6, <3>1 DEF SubmitWire
  <2>2. stage > 0
    <3>1. InPart
      BY <2>1, StreamInvIs
    <3> QED
      BY <2>1, <3>1 DEF InPart, NothingBegun
  <2>3. PICK bytes : ReadHeader(bytes) \/ ProcessSubpacket(bytes)
    BY <1>6 DEF SubmitWire
  <2>5. CASE accepted' = accepted
    BY <1>2, <2>1, <2>5
  <2>6. CASE /\ Accepts(Last(found).frame, bytes)
             /\ accepted' = Append(accepted, Subpacket(kind, buf))
    <3> PICK subpacket : subpacket = Subpacket(kind, buf)
      OBVIOUS
    <3> PICK k : k = Len(accepted)
      OBVIOUS
    <3>1. k + 1 \in 1 .. Len(Subpackets) /\ subpacket = Subpackets[k + 1]
      BY <2>1, <2>2, <2>6, AcceptedNext
    <3>2. subpacket \in SubpacketRecord
      BY <2>2, <3>1, StageSubpackets
    <3>3. /\ k \in Nat /\ Len(accepted') = k + 1 /\ accepted'[k + 1] = subpacket
          /\ \A i \in 1 .. k : accepted'[i] = accepted[i]
      BY <1>1, <2>6, <3>2
    <3>4. missed = 0 /\ \A i \in 1 .. k : accepted[i] = Subpackets[i]
      BY <2>1 DEF AcceptedSoFar
    <3>5. Subpackets' = Subpackets
      BY <2>1 DEF Subpackets
    <3>6. ASSUME NEW i \in 1 .. k + 1
          PROVE  accepted'[i] = Subpackets[i]
      <4>1. CASE i = k + 1
        BY <3>1, <3>3, <4>1
      <4>2. CASE i # k + 1
        <5>1. i \in 1 .. k
          BY <3>3, <4>2
        <5> QED
          BY <3>3, <3>4, <5>1
      <4> QED
        BY <4>1, <4>2
    <3> QED
      BY <2>1, <3>3, <3>4, <3>5, <3>6
  <2> QED
    BY <2>3, <2>5, <2>6 DEF ReadHeader, ProcessSubpacket
<1>7. CASE UNCHANGED <<receiverVars, streamVars>>
  BY <1>2, <1>7 DEF streamVars
<1> QED
  BY <1>3, <1>4, <1>5, <1>6, <1>7 DEF StreamNext

LEMMA AcceptedIsPrefix ==
  ASSUME TypeInv, StreamInv, AcceptedSoFar
  PROVE  DeliversWhatIsSent
<1> SUFFICES ASSUME damaged = 0
             PROVE  FoundIsSent /\ missed = 0 /\ IsPrefix(accepted, Subpackets)
  BY DEF DeliversWhatIsSent
<1>1. HeaderRight /\ InPart
  BY StreamInvIs
<1>2. FoundIsSent
  BY <1>1 DEF InPart, NothingBegun, AwaitsHeader, AfterHeader, AwaitsSubpacket, FoundIsSent
<1>3. missed = 0 /\ \A i \in 1 .. Len(accepted) : accepted[i] = Subpackets[i]
  BY DEF AcceptedSoFar
<1> PICK k : k = Len(accepted)
  OBVIOUS
<1>4. accepted \in Seq(SubpacketRecord) /\ sent \in Nat
  BY DEF TypeInv, StreamTypeOK
<1>5. CASE NothingBegun
  <2>1. accepted = <<>> /\ Subpackets = <<>>
    BY <1>5 DEF NothingBegun, Subpackets
  <2> QED
    BY <1>2, <1>3, <2>1 DEF IsPrefix
<1>6. CASE stage > 0 /\ ~NothingBegun
  <2>1. Subpackets \in Seq(SubpacketRecord)
    BY <1>6, StageSubpackets
  <2> PICK subpackets : subpackets = Subpackets
    OBVIOUS
  <2>2. sent <= Len(subpackets)
    BY <1>1, <1>6 DEF HeaderRight
  <2>3. k = sent \/ sent = k + 1
    BY <1>1, <1>6 DEF InPart, AwaitsHeader, AfterHeader, AwaitsSubpacket
  <2>4. k \in Nat /\ Len(subpackets) \in Nat /\ k <= Len(subpackets)
    BY <1>4, <2>1, <2>2, <2>3
  <2> PICK a : a = SubSeq(accepted, 1, k)
    OBVIOUS
  <2> PICK b : b = SubSeq(subpackets, 1, k)
    OBVIOUS
  <2>5. /\ a \in Seq(SubpacketRecord) /\ Len(a) = k
        /\ \A i \in 1 .. k : a[i] = accepted[i]
    BY <1>4, <2>4
  <2>6. /\ b \in Seq(SubpacketRecord) /\ Len(b) = k
        /\ \A i \in 1 .. k : b[i] = subpackets[i]
    BY <2>1, <2>4
  <2>7. a = b
    BY <1>3, <2>5, <2>6, SeqEqual
  <2> QED
    BY <1>2, <1>3, <2>4, <2>7 DEF IsPrefix
<1> QED
  BY <1>1, <1>5, <1>6 DEF InPart

\* On a clean line no header is lost, none is read that was not sent, and the
\* subpackets accepted are the first ones of those that are sent, byte for byte
\* and terminator for terminator.
THEOREM CleanLineDelivers == StreamSpec => []DeliversWhatIsSent
<1>1. StreamInit => AcceptedSoFar
  <2>1. 1 .. Len(<<>>) = {}
    OBVIOUS
  <2> QED
    BY <2>1 DEF StreamInit, AcceptedSoFar
<1>2. TypeInv /\ StreamInv /\ AcceptedSoFar => DeliversWhatIsSent
  BY AcceptedIsPrefix
<1> QED
  BY <1>1, <1>2, AcceptedStep, StreamInvariant, PTL DEF StreamSpec

-----------------------------------------------------------------------------
(***************************************************************************)
(* No payload is ever taken for a header (StrayData).                      *)
(***************************************************************************)
\* What an escape or a terminator may end with: no ZDLE and no encoding.
SecondHalf == Octet \ {ZDLE, 65, 66, 67}

\* Behind ZPAD ZDLE the second half of an escape is still to come, and that
\* is no encoding.
StrayInv ==
  \/ /\ readerState = "SeekingZpad"
     /\ \/ rest = <<>>
        \/ \E b \in Octet \ {ZDLE} : rest = <<b>>
        \/ \E e \in SecondHalf : rest = <<ZDLE, e>>
  \/ /\ readerState \in {"SeekingZpad", "ReadingEncoding"}
     /\ \E e \in SecondHalf : rest = <<e>>

-----------------------------------------------------------------------------
\* A byte that travels as it is is no ZDLE; what follows a ZDLE is never an
\* encoding: a property of the escape table and of the terminators.
LEMMA SymbolShape ==
  ASSUME NEW s \in Symbols
  PROVE  \/ \E b \in Octet \ {ZDLE} : s = <<b>>
         \/ \E e \in SecondHalf : s = <<ZDLE, e>>
<1>1. ASSUME NEW b \in Octet, s = Escaped(b)
      PROVE  \/ b # ZDLE /\ s = <<b>>
             \/ ZdleTable(b) \in SecondHalf /\ s = <<ZDLE, ZdleTable(b)>>
  <2>1. CASE b \in {13, 16, 17, 19, 24, 141, 144, 145, 147}
    <3>1. ZdleTable(b) = b + 64
      BY <2>1 DEF ZdleTable
    <3> QED
      BY <1>1, <2>1, <3>1 DEF Escaped, SecondHalf, Octet, ZDLE
  <2>2. CASE b \in {127, 255}
    <3>1. ZdleTable(b) = IF b = 127 THEN 108 ELSE 109
      BY <2>2 DEF ZdleTable
    <3> QED
      BY <1>1, <2>2, <3>1 DEF Escaped, SecondHalf, Octet, ZDLE
  <2>3. CASE b \notin {13, 16, 17, 19, 24, 141, 144, 145, 147, 127, 255}
    <3>1. ZdleTable(b) = b /\ b # ZDLE
      BY <2>3 DEF ZdleTable, ZDLE
    <3> QED
      BY <1>1, <3>1 DEF Escaped
  <2> QED
    BY <2>1, <2>2, <2>3
<1>2. ASSUME NEW k \in SubpacketType, s = <<ZDLE, TerminatorByte[k]>>
      PROVE  TerminatorByte[k] \in SecondHalf
  BY DEF SubpacketType, TerminatorByte, SecondHalf, Octet, ZDLE
<1> QED
  BY <1>1, <1>2 DEF Symbols, Terminators

\* Such a byte behind ZPAD ZDLE is rejected.
LEMMA SecondHalfIsUnknown ==
  ASSUME NEW e \in SecondHalf PROVE Encodings(e) = {}
BY DEF SecondHalf, Encodings, Encoding, EncodingByte

LEMMA DeliverByteKeepsStrayInv ==
  ASSUME StrayInv, DeliverByte PROVE StrayInv'
<1> DEFINE byte == <<rest[1]>>
<1>1. /\ readerState # "ReadingData"
      /\ SeekZpad(byte) \/ ReadEncoding(byte) \/ UnknownEncoding(byte)
  BY DEF StrayInv, DeliverByte, Skips, Fails, Finds, Stumbles, StopAtEscape,
         CollectByte, Completes, DropHeader
<1>2. CASE SeekZpad(byte)
  <2>1. readerState = "SeekingZpad"
    BY <1>2 DEF SeekZpad
  <2>2. CASE \E b \in Octet \ {ZDLE} : rest = <<b>>
    BY <1>2, <2>2 DEF SeekZpad, StartsHeader, DeliverByte, StrayInv
  <2>3. CASE \E e \in SecondHalf : rest = <<ZDLE, e>>
    BY <1>2, <2>3 DEF SeekZpad, DeliverByte, StrayInv
  <2>4. CASE \E e \in SecondHalf : rest = <<e>>
    BY <1>2, <2>4 DEF SeekZpad, StartsHeader, DeliverByte, StrayInv, SecondHalf
  <2> QED
    BY <2>1, <2>2, <2>3, <2>4 DEF StrayInv, DeliverByte
<1>3. CASE ReadEncoding(byte)
  <2>1. PICK e \in SecondHalf : rest = <<e>>
    BY <1>3 DEF ReadEncoding, StrayInv
  <2>2. Encodings(byte[1]) = {}
    BY <2>1, SecondHalfIsUnknown
  <2> QED
    BY <1>3, <2>2 DEF ReadEncoding
<1>4. CASE UnknownEncoding(byte)
  <2>1. PICK e \in SecondHalf : rest = <<e>>
    BY <1>4 DEF UnknownEncoding, StrayInv
  <2> QED
    BY <1>4, <2>1 DEF UnknownEncoding, Reset, DeliverByte, StrayInv
<1> QED
  BY <1>1, <1>2, <1>3, <1>4

\* For every payload and every checksum: data is never taken for a header.
THEOREM StrayDataIsNoHeader == StraySpec => []StrayIsNoHeader
<1>1. StrayInit => StrayInv
  BY DEF StrayInit, ReaderInit, StrayInv
<1>2. ASSUME StrayInv, [StrayNext]_strayVars PROVE StrayInv'
  <2>1. CASE SendSymbol
    <3>1. readerState' = readerState /\ rest = <<>> /\ rest' \in Symbols
      BY <2>1 DEF SendSymbol, readerVars
    <3>2. readerState = "SeekingZpad"
      BY <1>2, <3>1 DEF StrayInv
    <3> QED
      BY <3>1, <3>2, SymbolShape DEF StrayInv
  <2>2. CASE RewindStray
    BY <1>2, <2>2 DEF RewindStray, EnterResync, StrayInv
  <2>3. CASE DeliverByte
    BY <1>2, <2>3, DeliverByteKeepsStrayInv
  <2>4. CASE UNCHANGED strayVars
    BY <1>2, <2>4 DEF strayVars, readerVars, StrayInv
  <2> QED
    BY <1>2, <2>1, <2>2, <2>3, <2>4 DEF StrayNext
<1>3. StrayInv => StrayIsNoHeader
  BY DEF StrayInv, StrayIsNoHeader
<1> QED
  BY <1>1, <1>2, <1>3, PTL DEF StraySpec

-----------------------------------------------------------------------------
(***************************************************************************)
(* However many bytes are damaged, few headers are missed.                 *)
(*                                                                         *)
(* What a damaged byte can do is make the reader take something for a      *)
(* header that is none, and hold on to it until it has as many bytes as a  *)
(* header of that encoding.  So the proof counts what the reader still     *)
(* needs.  Data, checksums and line ends are calm: no encoding stands      *)
(* behind a ZDLE in them.                                                  *)
(***************************************************************************)
\* How many bytes of a line are no ZDLE: each octet that is read has one.
Solid(line) == Cardinality({i \in 1 .. Len(line) : line[i] # ZDLE})

\* Behind a ZDLE never an encoding, nor the end.
Calm(line) ==
  \A i \in 1 .. Len(line) :
    line[i] = ZDLE => i + 1 <= Len(line) /\ line[i + 1] \in SecondHalf

\* Lines one byte at a time.
LEMMA FromIs ==
  ASSUME NEW t \in Seq(Octet), NEW k \in Nat, k <= Len(t), NEW y, y = From(t, k)
  PROVE  /\ y \in Seq(Octet) /\ Len(y) = Len(t) - k
         /\ \A i \in 1 .. Len(y) : y[i] = t[k + i]
BY DEF From

\* line is t with one byte in front.
Shifted(line, t) == \A k \in 0 .. Len(t) : From(line, k + 1) = From(t, k)

LEMMA FirstOff ==
  ASSUME NEW a \in Octet, NEW t \in Seq(Octet), NEW line, line = <<a>> \o t
  PROVE  /\ line \in Seq(Octet) /\ line # <<>> /\ line[1] = a /\ Tail(line) = t
         /\ Len(line) = Len(t) + 1 /\ Len(t) \in Nat
         /\ \A i \in 1 .. Len(t) : line[i + 1] = t[i]
         /\ Shifted(line, t)
<1>1. /\ line \in Seq(Octet) /\ line # <<>> /\ line[1] = a
      /\ Len(line) = Len(t) + 1 /\ SubSeq(line, 2, Len(line)) = t
  BY NotNothing
<1>2. Len(t) \in Nat /\ Tail(line) = t
  BY <1>1
<1>3. ASSUME NEW i \in 1 .. Len(t)
      PROVE  line[i + 1] = t[i]
  BY ONLY t \in Seq(Octet), a \in Octet, line = <<a>> \o t, <1>3
<1>4. ASSUME NEW k \in 0 .. Len(t)
      PROVE  From(line, k + 1) = From(t, k)
  <2> PICK x : x = From(line, k + 1)
    OBVIOUS
  <2> PICK y : y = From(t, k)
    OBVIOUS
  <2>1. /\ x \in Seq(Octet) /\ Len(x) = Len(t) - k
        /\ \A i \in 1 .. Len(x) : x[i] = line[(k + 1) + i]
    <3> PICK m \in Nat : m = k + 1
      BY <1>2
    <3>1. m <= Len(line) /\ Len(line) - m = Len(t) - k /\ line \in Seq(Octet)
      BY <1>1, <1>2
    <3>2. /\ x \in Seq(Octet) /\ Len(x) = Len(line) - m
          /\ \A i \in 1 .. Len(x) : x[i] = line[m + i]
      BY ONLY <3>1, m \in Nat, x = From(line, k + 1), m = k + 1, FromIs
    <3> QED
      BY ONLY <3>1, <3>2, m = k + 1
  <2>2. /\ y \in Seq(Octet) /\ Len(y) = Len(t) - k
        /\ \A i \in 1 .. Len(y) : y[i] = t[k + i]
    <3>1. k \in Nat /\ k <= Len(t)
      BY <1>2
    <3> QED
      BY ONLY t \in Seq(Octet), <3>1, y = From(t, k), FromIs
  <2>3. ASSUME NEW i \in 1 .. Len(x) PROVE x[i] = y[i]
    <3> PICK j \in 1 .. Len(t) : j = k + i
      BY <1>2, <2>1
    <3>1. (k + 1) + i = j + 1 /\ i \in 1 .. Len(y)
      BY <1>2, <2>1, <2>2
    <3>2. x[i] = line[(k + 1) + i] /\ y[i] = t[k + i]
      BY <2>1, <2>2, <3>1
    <3>3. x[i] = line[j + 1] /\ y[i] = t[j]
      BY ONLY <3>1, <3>2, j = k + i
    <3> QED
      BY <1>3, <3>3
  <2>4. x = y
    BY <2>1, <2>2, <2>3, SeqEqual
  <2> QED
    BY <2>4
<1> QED
  BY <1>1, <1>2, <1>3, <1>4 DEF Shifted

LEMMA SplitFirst ==
  ASSUME NEW line \in Seq(Octet), line # <<>>
  PROVE  line[1] \in Octet /\ Tail(line) \in Seq(Octet) /\ line = <<line[1]>> \o Tail(line)
<1> PICK t : t = Tail(line)
  OBVIOUS
<1>1. t \in Seq(Octet) /\ Len(line) = Len(t) + 1 /\ line[1] \in Octet
      /\ \A i \in 1 .. Len(t) : t[i] = line[i + 1]
  OBVIOUS
<1> PICK all : all = <<line[1]>> \o t
  OBVIOUS
<1>2. /\ all \in Seq(Octet) /\ all[1] = line[1] /\ Len(all) = Len(t) + 1
      /\ \A i \in 1 .. Len(t) : all[i + 1] = t[i]
  BY <1>1, FirstOff
<1>3. ASSUME NEW i \in 1 .. Len(all) PROVE all[i] = line[i]
  <2>1. CASE i = 1
    BY <1>2, <2>1
  <2>2. CASE i # 1
    <3> PICK j \in 1 .. Len(t) : i = j + 1
      BY <1>1, <1>2, <2>2
    <3> QED
      BY <1>1, <1>2
  <2> QED
    BY <2>1, <2>2
<1>4. all = line
  BY <1>1, <1>2, <1>3, SeqEqual
<1> QED
  BY <1>1, <1>4

LEMMA SolidNothing == Solid(<<>>) = 0
<1>1. {i \in 1 .. Len(<<>>) : <<>>[i] # ZDLE} = {}
  OBVIOUS
<1> QED
  BY <1>1, FS_EmptySet DEF Solid

LEMMA SolidFirst ==
  ASSUME NEW a \in Octet, NEW t \in Seq(Octet)
  PROVE  /\ Solid(t) \in Nat
         /\ Solid(<<a>> \o t) = IF a = ZDLE THEN Solid(t) ELSE Solid(t) + 1
<1> PICK line : line = <<a>> \o t
  OBVIOUS
<1>1. /\ line[1] = a /\ Len(line) = Len(t) + 1 /\ Len(t) \in Nat
      /\ \A i \in 1 .. Len(t) : line[i + 1] = t[i]
  BY FirstOff
<1> PICK S : S = {i \in 1 .. Len(t) : t[i] # ZDLE}
  OBVIOUS
<1> PICK T : T = {i \in 2 .. Len(line) : line[i] # ZDLE}
  OBVIOUS
<1>2. IsFiniteSet(S) /\ Cardinality(S) \in Nat
  <2>1. IsFiniteSet(1 .. Len(t))
    BY <1>1, FS_Interval
  <2> QED
    BY <2>1, FS_Subset, FS_CardinalityType
<1>3. IsFiniteSet(T) /\ Cardinality(T) = Cardinality(S)
  <2> PICK f : f = [i \in S |-> i + 1]
    OBVIOUS
  <2>1. f \in [S -> T]
    BY <1>1
  <2>2. \A i, j \in S : f[i] = f[j] => i = j
    OBVIOUS
  <2>3. ASSUME NEW j \in T PROVE \E i \in S : f[i] = j
    <3> PICK i \in 1 .. Len(t) : j = i + 1
      BY <1>1
    <3>1. i \in S
      BY <1>1
    <3> QED
      BY <3>1
  <2>4. f \in Bijection(S, T)
    BY <2>1, <2>2, <2>3 DEF Bijection, Injection, Surjection, IsInjective
  <2> QED
    BY <1>2, <2>4, FS_Bijection DEF ExistsBijection
<1>4. Solid(line) = Cardinality({i \in 1 .. Len(line) : line[i] # ZDLE})
  BY DEF Solid
<1>5. CASE a = ZDLE
  <2>1. {i \in 1 .. Len(line) : line[i] # ZDLE} = T
    BY <1>1, <1>5
  <2> QED
    BY <1>2, <1>3, <1>4, <1>5, <2>1 DEF Solid
<1>6. CASE a # ZDLE
  <2>1. {i \in 1 .. Len(line) : line[i] # ZDLE} = T \cup {1} /\ 1 \notin T
    BY <1>1, <1>6
  <2>2. Cardinality(T \cup {1}) = Cardinality(T) + 1
    BY <1>3, <2>1, FS_AddElement
  <2> QED
    BY <1>2, <1>3, <1>4, <1>6, <2>1, <2>2 DEF Solid
<1> QED
  BY <1>2, <1>5, <1>6 DEF Solid

LEMMA CalmNothing == Calm(<<>>)
BY DEF Calm

LEMMA CalmTail ==
  ASSUME NEW a \in Octet, NEW t \in Seq(Octet), Calm(<<a>> \o t)
  PROVE  Calm(t) /\ (a = ZDLE => t # <<>> /\ t[1] \in SecondHalf)
<1> PICK line : line = <<a>> \o t
  OBVIOUS
<1>1. /\ line[1] = a /\ Len(line) = Len(t) + 1 /\ Len(t) \in Nat
      /\ \A i \in 1 .. Len(t) : line[i + 1] = t[i]
  BY FirstOff
<1>2. \A i \in 1 .. Len(line) :
        line[i] = ZDLE => i + 1 <= Len(line) /\ line[i + 1] \in SecondHalf
  BY DEF Calm
<1>3. ASSUME NEW i \in 1 .. Len(t), t[i] = ZDLE
      PROVE  i + 1 <= Len(t) /\ t[i + 1] \in SecondHalf
  <2> PICK j \in 1 .. Len(line) : j = i + 1
    BY <1>1
  <2>1. j + 1 <= Len(line) /\ line[j + 1] \in SecondHalf
    BY <1>1, <1>2, <1>3
  <2>2. j \in 1 .. Len(t)
    BY <1>1, <2>1
  <2> QED
    BY <1>1, <2>1, <2>2
<1>4. ASSUME a = ZDLE
      PROVE  t # <<>> /\ t[1] \in SecondHalf
  <2>1. 2 <= Len(line) /\ line[1 + 1] \in SecondHalf
    BY <1>1, <1>2, <1>4
  <2>2. 1 \in 1 .. Len(t) /\ Len(<<>>) = 0
    BY <1>1, <2>1
  <2> QED
    BY <1>1, <2>1, <2>2
<1> QED
  BY <1>3, <1>4 DEF Calm

LEMMA CalmBefore ==
  ASSUME NEW a \in Octet, NEW t \in Seq(Octet), Calm(t),
         a = ZDLE => t # <<>> /\ t[1] \in SecondHalf
  PROVE  Calm(<<a>> \o t)
<1> PICK line : line = <<a>> \o t
  OBVIOUS
<1>1. /\ line[1] = a /\ Len(line) = Len(t) + 1 /\ Len(t) \in Nat
      /\ \A i \in 1 .. Len(t) : line[i + 1] = t[i]
  BY FirstOff
<1>2. ASSUME NEW i \in 1 .. Len(line), line[i] = ZDLE
      PROVE  i + 1 <= Len(line) /\ line[i + 1] \in SecondHalf
  <2>1. CASE i = 1
    <3>1. t # <<>> /\ t[1] \in SecondHalf
      BY <1>1, <1>2, <2>1
    <3>2. 1 \in 1 .. Len(t)
      BY <1>1, <3>1, EmptySeq
    <3> QED
      BY <1>1, <2>1, <3>1, <3>2
  <2>2. CASE i # 1
    <3> PICK j \in 1 .. Len(t) : i = j + 1
      BY <1>1, <2>2
    <3>1. t[j] = ZDLE
      BY <1>1, <1>2
    <3>2. j + 1 <= Len(t) /\ t[j + 1] \in SecondHalf
      BY <3>1 DEF Calm
    <3>3. line[i + 1] = t[j + 1]
      BY <1>1, <3>2
    <3> QED
      BY <1>1, <3>2, <3>3
  <2> QED
    BY <2>1, <2>2
<1> QED
  BY <1>2 DEF Calm

-----------------------------------------------------------------------------
(***************************************************************************)
(* What a header that begins on a line needs.                              *)
(***************************************************************************)
\* What may follow ZPAD ZDLE: not the end, and an encoding only with what makes
\* a header of it.
Affords(line, more) ==
  /\ line # <<>>
  /\ \A e \in Encodings(line[1]) : ReadSize[e] <= Solid(Tail(line)) + more
\* What may follow a ZPAD.
Enough(line, more) ==
  line # <<>> /\ line[1] = ZDLE => Affords(Tail(line), more)
WholeStarts(line, more) ==
  \A i \in 1 .. Len(line) : line[i] = ZPAD => Enough(From(line, i), more)

\* With so many octets more behind the wire every header is whole that begins
\* on it, and the reader is through with the one it is reading.
ReaderEnds(more) ==
  /\ WholeStarts(wire, more)
  /\ readerState = "SeekingZpad" /\ zpadState # "Idle" => Enough(wire, more)
  /\ readerState = "ReadingEncoding" => Affords(wire, more)
  /\ readerState = "ReadingData" =>
       ReadSize[encoding] <= Len(headerBuf) + Solid(wire) + more

LEMMA WholeFirst ==
  ASSUME NEW a \in Octet, NEW t \in Seq(Octet), NEW more
  PROVE  WholeStarts(<<a>> \o t, more)
           <=> WholeStarts(t, more) /\ (a = ZPAD => Enough(t, more))
<1> PICK line : line = <<a>> \o t
  OBVIOUS
<1>1. /\ line[1] = a /\ Len(line) = Len(t) + 1 /\ Len(t) \in Nat
      /\ \A i \in 1 .. Len(t) : line[i + 1] = t[i]
  BY FirstOff
<1>0. Shifted(line, t)
  BY ONLY a \in Octet, t \in Seq(Octet), line = <<a>> \o t, FirstOff
<1>2. From(line, 1) = t
  <2>1. From(line, 0 + 1) = From(t, 0)
    BY <1>0, <1>1 DEF Shifted
  <2>2. From(t, 0) = t
    BY DEF From
  <2> QED
    BY <2>1, <2>2
<1>3. ASSUME WholeStarts(line, more)
      PROVE  WholeStarts(t, more) /\ (a = ZPAD => Enough(t, more))
  <2>1. a = ZPAD => Enough(t, more)
    BY <1>1, <1>2, <1>3 DEF WholeStarts
  <2>2. ASSUME NEW i \in 1 .. Len(t), t[i] = ZPAD
        PROVE  Enough(From(t, i), more)
    <3> PICK j \in 1 .. Len(line) : j = i + 1
      BY <1>1
    <3>1. line[j] = ZPAD /\ From(line, j) = From(t, i)
      BY <1>0, <1>1, <2>2 DEF Shifted
    <3>2. Enough(From(line, j), more)
      BY <1>3, <3>1 DEF WholeStarts
    <3> QED
      BY <3>1, <3>2
  <2> QED
    BY <2>1, <2>2 DEF WholeStarts
<1>4. ASSUME WholeStarts(t, more), a = ZPAD => Enough(t, more)
      PROVE  WholeStarts(line, more)
  <2>1. ASSUME NEW i \in 1 .. Len(line), line[i] = ZPAD
        PROVE  Enough(From(line, i), more)
    <3>1. CASE i = 1
      BY <1>1, <1>2, <1>4, <2>1, <3>1
    <3>2. CASE i # 1
      <4> PICK j \in 1 .. Len(t) : i = j + 1
        BY <1>1, <3>2
      <4>1. t[j] = ZPAD /\ From(line, i) = From(t, j)
        BY <1>0, <1>1, <2>1 DEF Shifted
      <4> QED
        BY <1>4, <4>1 DEF WholeStarts
    <3> QED
      BY <3>1, <3>2
  <2> QED
    BY <2>1 DEF WholeStarts
<1> QED
  BY <1>3, <1>4

LEMMA WholeNothing ==
  ASSUME NEW more PROVE WholeStarts(<<>>, more) /\ Enough(<<>>, more)
<1>1. Len(<<>>) = 0
  OBVIOUS
<1> QED
  BY <1>1 DEF WholeStarts, Enough

LEMMA AffordsFirst ==
  ASSUME NEW a \in Octet, NEW t \in Seq(Octet), NEW more
  PROVE  Affords(<<a>> \o t, more)
           <=> \A e \in Encodings(a) : ReadSize[e] <= Solid(t) + more
<1> PICK line : line = <<a>> \o t
  OBVIOUS
<1>1. line # <<>> /\ line[1] = a /\ Tail(line) = t
  BY FirstOff
<1> QED
  BY <1>1 DEF Affords

LEMMA EnoughFirst ==
  ASSUME NEW a \in Octet, NEW t \in Seq(Octet), NEW more
  PROVE  Enough(<<a>> \o t, more) <=> (a = ZDLE => Affords(t, more))
<1> PICK line : line = <<a>> \o t
  OBVIOUS
<1>1. line # <<>> /\ line[1] = a /\ Tail(line) = t
  BY FirstOff
<1> QED
  BY <1>1 DEF Enough

LEMMA SolidType ==
  ASSUME NEW line \in Seq(Octet) PROVE Solid(line) \in Nat
<1>1. 0 \in Octet
  BY DEF Octet
<1> QED
  BY <1>1, SolidFirst

LEMMA Sizes ==
  ASSUME NEW e \in Encoding PROVE ReadSize[e] \in 7 .. 14
BY DEF Encoding, ReadSize

LEMMA AffordsMore ==
  ASSUME NEW line \in Seq(Octet), Affords(line, 0)
  PROVE  Affords(line, 9)
<1>1. Tail(line) \in Seq(Octet)
  BY DEF Affords
<1>2. Solid(Tail(line)) \in Nat
  BY <1>1, SolidType
<1>3. ASSUME NEW e \in Encodings(line[1])
      PROVE  ReadSize[e] <= Solid(Tail(line)) + 9
  <2>1. ReadSize[e] <= Solid(Tail(line)) + 0
    BY DEF Affords
  <2>2. ReadSize[e] \in 7 .. 14
    BY Sizes DEF Encodings
  <2> QED
    BY <1>2, <2>1, <2>2
<1> QED
  BY <1>3 DEF Affords

LEMMA EnoughMore ==
  ASSUME NEW line \in Seq(Octet), Enough(line, 0)
  PROVE  Enough(line, 9)
<1>1. CASE line # <<>> /\ line[1] = ZDLE
  <2>1. Affords(Tail(line), 0) /\ Tail(line) \in Seq(Octet)
    BY <1>1 DEF Enough
  <2> QED
    BY <2>1, AffordsMore DEF Enough
<1> QED
  BY <1>1 DEF Enough

LEMMA WholeMore ==
  ASSUME NEW line \in Seq(Octet), WholeStarts(line, 0)
  PROVE  WholeStarts(line, 9)
<1>1. ASSUME NEW i \in 1 .. Len(line), line[i] = ZPAD
      PROVE  Enough(From(line, i), 9)
  <2>1. Enough(From(line, i), 0)
    BY <1>1 DEF WholeStarts
  <2>2. From(line, i) \in Seq(Octet)
    BY DEF From
  <2> QED
    BY <2>1, <2>2, EnoughMore
<1> QED
  BY <1>1 DEF WholeStarts

LEMMA CalmEnough ==
  ASSUME NEW line \in Seq(Octet), Calm(line), NEW more
  PROVE  Enough(line, more)
<1>1. CASE line # <<>> /\ line[1] = ZDLE
  <2> PICK t : t = Tail(line)
    OBVIOUS
  <2> PICK a : a = line[1]
    OBVIOUS
  <2>1. a \in Octet /\ t \in Seq(Octet) /\ line = <<a>> \o t
    BY <1>1, SplitFirst
  <2>2. t # <<>> /\ t[1] \in SecondHalf
    <3>1. Calm(<<a>> \o t) /\ a = ZDLE
      BY <1>1, <2>1
    <3> QED
      BY ONLY <2>1, <3>1, CalmTail
  <2>3. Encodings(t[1]) = {}
    BY <2>2, SecondHalfIsUnknown
  <2>4. Affords(t, more)
    BY <2>2, <2>3 DEF Affords
  <2> QED
    BY <2>4 DEF Enough
<1> QED
  BY <1>1 DEF Enough

LEMMA CalmFrom ==
  ASSUME NEW line \in Seq(Octet), Calm(line), NEW k \in Nat, k <= Len(line)
  PROVE  Calm(From(line, k))
<1> PICK y : y = From(line, k)
  OBVIOUS
<1>1. /\ y \in Seq(Octet) /\ Len(y) = Len(line) - k
      /\ \A i \in 1 .. Len(y) : y[i] = line[k + i]
  BY FromIs
<1>2. Len(line) \in Nat
  OBVIOUS
<1>3. ASSUME NEW i \in 1 .. Len(y), y[i] = ZDLE
      PROVE  i + 1 <= Len(y) /\ y[i + 1] \in SecondHalf
  <2> PICK j \in 1 .. Len(line) : j = k + i
    BY <1>1, <1>2
  <2>1. line[j] = ZDLE
    BY <1>1, <1>3
  <2>2. j + 1 <= Len(line) /\ line[j + 1] \in SecondHalf
    BY <2>1 DEF Calm
  <2>3. i + 1 \in 1 .. Len(y) /\ k + (i + 1) = j + 1
    BY <1>1, <1>2, <2>2
  <2>4. y[i + 1] = line[k + (i + 1)]
    BY ONLY <1>1, <2>3
  <2> QED
    BY <2>2, <2>3, <2>4
<1> QED
  BY <1>3 DEF Calm

LEMMA CalmWhole ==
  ASSUME NEW line \in Seq(Octet), Calm(line), NEW more
  PROVE  WholeStarts(line, more)
<1>1. ASSUME NEW i \in 1 .. Len(line)
      PROVE  Enough(From(line, i), more)
  <2>1. i \in Nat /\ i <= Len(line)
    OBVIOUS
  <2>2. Calm(From(line, i)) /\ From(line, i) \in Seq(Octet)
    BY <2>1, CalmFrom, FromIs
  <2> QED
    BY <2>2, CalmEnough
<1> QED
  BY <1>1 DEF WholeStarts

-----------------------------------------------------------------------------
(***************************************************************************)
(* What is sent is calm but for the beginning of a header.                 *)
(***************************************************************************)
LEMMA EscapedCalm ==
  ASSUME NEW b \in Octet, NEW behind \in Seq(Octet), Calm(behind)
  PROVE  /\ Escaped(b) \o behind \in Seq(Octet)
         /\ Calm(Escaped(b) \o behind)
         /\ Solid(Escaped(b) \o behind) >= Solid(behind) + 1
<1>1. Escaped(b) \in Symbols
  BY DEF Symbols
<1>2. Solid(behind) \in Nat /\ ZDLE \in Octet
  BY SolidType, Specials
<1>3. ASSUME NEW c \in Octet \ {ZDLE}, Escaped(b) = <<c>>
      PROVE  /\ Escaped(b) \o behind \in Seq(Octet)
             /\ Calm(Escaped(b) \o behind)
             /\ Solid(Escaped(b) \o behind) >= Solid(behind) + 1
  <2>1. Calm(<<c>> \o behind) /\ <<c>> \o behind \in Seq(Octet)
    BY ONLY c \in Octet \ {ZDLE}, behind \in Seq(Octet), Calm(behind), CalmBefore, FirstOff
  <2>2. Solid(<<c>> \o behind) = Solid(behind) + 1
    BY ONLY c \in Octet \ {ZDLE}, behind \in Seq(Octet), SolidFirst
  <2> QED
    BY <1>2, <1>3, <2>1, <2>2
<1>4. ASSUME NEW c \in SecondHalf, Escaped(b) = <<ZDLE, c>>
      PROVE  /\ Escaped(b) \o behind \in Seq(Octet)
             /\ Calm(Escaped(b) \o behind)
             /\ Solid(Escaped(b) \o behind) >= Solid(behind) + 1
  <2>1. c \in Octet /\ c # ZDLE
    BY DEF SecondHalf
  <2> PICK t : t = <<c>> \o behind
    OBVIOUS
  <2>2. t \in Seq(Octet) /\ t # <<>> /\ t[1] = c
    BY ONLY <2>1, behind \in Seq(Octet), t = <<c>> \o behind, FirstOff
  <2>3. Calm(t)
    BY ONLY <2>1, behind \in Seq(Octet), t = <<c>> \o behind, Calm(behind), CalmBefore
  <2>4. Solid(t) = Solid(behind) + 1
    BY ONLY <2>1, behind \in Seq(Octet), t = <<c>> \o behind, SolidFirst
  <2>5. Calm(<<ZDLE>> \o t) /\ <<ZDLE>> \o t \in Seq(Octet)
    BY ONLY <1>2, <2>2, <2>3, c \in SecondHalf, CalmBefore, FirstOff
  <2>6. Solid(<<ZDLE>> \o t) = Solid(t)
    BY ONLY <1>2, <2>2, SolidFirst
  <2>7. Escaped(b) \o behind = <<ZDLE>> \o t
    <3>1. <<ZDLE, c>> = <<ZDLE>> \o <<c>> /\ <<c>> \in Seq(Octet)
      BY ONLY <1>2, <2>1
    <3>2. (<<ZDLE>> \o <<c>>) \o behind = <<ZDLE>> \o (<<c>> \o behind)
      BY ONLY <1>2, <3>1, behind \in Seq(Octet), OneAtATime
    <3> QED
      BY ONLY <1>4, <3>1, <3>2, t = <<c>> \o behind
  <2> QED
    BY <1>2, <2>4, <2>5, <2>6, <2>7
<1> QED
  BY <1>1, <1>3, <1>4, SymbolShape

\* What travels escaped is calm, and has a byte for each octet.
CalmWith(octets, behind) ==
  /\ Calm(Coming(octets, behind))
  /\ Solid(Coming(octets, behind)) >= Len(octets)

LEMMA ComingNothing ==
  ASSUME NEW behind \in Seq(Octet) PROVE Coming(<<>>, behind) = behind
BY EscapeNothing DEF Coming

LEMMA CalmComing ==
  ASSUME NEW octets \in Seq(Octet), NEW behind \in Seq(Octet), Calm(behind)
  PROVE  CalmWith(octets, behind)
<1> DEFINE S == {k \in Nat : \A o \in Seq(Octet) : Len(o) = k => CalmWith(o, behind)}
<1>1. 0 \in S
  <2>1. ASSUME NEW o \in Seq(Octet), Len(o) = 0 PROVE CalmWith(o, behind)
    <3>1. o = <<>> /\ Len(<<>>) = 0
      BY <2>1
    <3>2. Coming(o, behind) = behind
      BY <3>1, ComingNothing
    <3>3. Solid(behind) \in Nat
      BY SolidType
    <3> QED
      BY <3>1, <3>2, <3>3 DEF CalmWith
  <2> QED
    BY <2>1
<1>2. ASSUME NEW k \in Nat \ {0}, k - 1 \in S PROVE k \in S
  <2>1. ASSUME NEW o \in Seq(Octet), Len(o) = k PROVE CalmWith(o, behind)
    <3>1. o # <<>> /\ o[1] \in Octet /\ Tail(o) \in Seq(Octet) /\ Len(Tail(o)) = k - 1
      BY <2>1
    <3> PICK t : t = Coming(Tail(o), behind)
      OBVIOUS
    <3>2. CalmWith(Tail(o), behind)
      BY <1>2, <3>1
    <3>3. t \in Seq(Octet) /\ Coming(o, behind) = Escaped(o[1]) \o t
      BY <3>1, ComingFirst
    <3>4. Calm(t) /\ Solid(t) >= k - 1
      BY ONLY <3>1, <3>2, t = Coming(Tail(o), behind) DEF CalmWith
    <3>5. Calm(Escaped(o[1]) \o t) /\ Solid(Escaped(o[1]) \o t) >= Solid(t) + 1
          /\ Escaped(o[1]) \o t \in Seq(Octet)
      BY ONLY <3>1, <3>3, <3>4, EscapedCalm
    <3>6. Solid(t) \in Nat /\ Solid(Escaped(o[1]) \o t) \in Nat
      BY ONLY <3>3, <3>5, SolidType
    <3>7. Solid(Escaped(o[1]) \o t) >= k
      BY ONLY <3>4, <3>5, <3>6, k \in Nat \ {0}
    <3> QED
      BY ONLY <3>3, <3>5, <3>7, Len(o) = k DEF CalmWith
  <2> QED
    BY <2>1
<1>3. \A k \in Nat : k \in S
  <2> HIDE DEF S
  <2> QED
    BY <1>1, <1>2, ForAll
<1>4. Len(octets) \in Nat
  OBVIOUS
<1> QED
  BY <1>3, <1>4

LEMMA CalmLineEnd ==
  ASSUME NEW e, NEW h PROVE Calm(LineEnd(e, h))
<1> PICK end : end = LineEnd(e, h)
  OBVIOUS
<1>1. end \in Seq({CR, LF, XON})
  BY LineEndType
<1>2. ZDLE \notin {CR, LF, XON}
  BY DEF ZDLE, CR, LF, XON
<1>3. \A i \in 1 .. Len(end) : end[i] # ZDLE
  BY <1>1, <1>2
<1> QED
  BY <1>3 DEF Calm

LEMMA TerminatorSecond ==
  \A k \in SubpacketType : TerminatorByte[k] \in SecondHalf
BY DEF SubpacketType, TerminatorByte, SecondHalf, Octet, ZDLE

LEMMA CalmSubpacket ==
  ASSUME NEW s \in 1 .. Len(Script), NEW i \in 1 .. Len(Script[s].subpackets),
         NEW subpacket, subpacket = Script[s].subpackets[i], NEW e
  PROVE  /\ Calm(SubpacketBytes(e, subpacket.kind, subpacket.data))
         /\ SubpacketBytes(e, subpacket.kind, subpacket.data) \in Seq(Octet)
<1> PICK crc : crc = CrcBytes(e, Append(subpacket.data, TerminatorByte[subpacket.kind]))
  OBVIOUS
<1> PICK last : last = TerminatorByte[subpacket.kind]
  OBVIOUS
<1> PICK escaped : escaped = EscapeSlice(crc)
  OBVIOUS
<1> PICK behind : behind = <<ZDLE, last>> \o escaped
  OBVIOUS
<1>1. /\ crc \in Seq(Octet) /\ escaped \in Seq(Octet) /\ behind \in Seq(Octet)
      /\ SubpacketBytes(e, subpacket.kind, subpacket.data) \in Seq(Octet)
      /\ SubpacketBytes(e, subpacket.kind, subpacket.data) = Coming(subpacket.data, behind)
  BY SubpacketBytesFacts
<1>2. subpacket.kind \in SubpacketType /\ subpacket.data \in Seq(Octet)
  <2>1. Script[s].subpackets \in Seq(SubpacketRecord)
    BY StageFacts
  <2>2. subpacket \in SubpacketRecord
    BY ONLY <2>1, i \in 1 .. Len(Script[s].subpackets),
            subpacket = Script[s].subpackets[i]
  <2> QED
    BY ONLY <2>2 DEF SubpacketRecord
<1>3. last \in SecondHalf /\ last # ZDLE /\ last \in Octet
  <2>1. last \in SecondHalf
    BY ONLY <1>2, TerminatorSecond, last = TerminatorByte[subpacket.kind]
  <2> QED
    BY ONLY <2>1 DEF SecondHalf
<1>4. Calm(escaped)
  <2>1. <<>> \in Seq(Octet)
    BY ONLY EmptySeq
  <2>2. CalmWith(crc, <<>>)
    BY ONLY <1>1, <2>1, CalmNothing, CalmComing
  <2>3. Coming(crc, <<>>) = escaped
    BY ONLY <1>1, escaped = EscapeSlice(crc) DEF Coming
  <2> QED
    BY <2>2, <2>3 DEF CalmWith
<1>5. Calm(behind)
  <2> PICK t : t = <<last>> \o escaped
    OBVIOUS
  <2>1. Calm(t) /\ t \in Seq(Octet) /\ t # <<>> /\ t[1] = last
    BY ONLY <1>1, <1>3, <1>4, t = <<last>> \o escaped, CalmBefore, FirstOff
  <2>2. ZDLE \in Octet
    BY Specials
  <2>3. Calm(<<ZDLE>> \o t)
    BY ONLY <1>3, <2>1, <2>2, CalmBefore
  <2>4. <<ZDLE, last>> = <<ZDLE>> \o <<last>> /\ <<last>> \in Seq(Octet)
    BY ONLY <1>3, <2>2
  <2>5. (<<ZDLE>> \o <<last>>) \o escaped = <<ZDLE>> \o (<<last>> \o escaped)
    BY ONLY <1>1, <2>2, <2>4, OneAtATime
  <2> QED
    BY ONLY <2>3, <2>4, <2>5, t = <<last>> \o escaped, behind = <<ZDLE, last>> \o escaped
<1>6. CalmWith(subpacket.data, behind)
  BY ONLY <1>1, <1>2, <1>5, CalmComing
<1> QED
  BY <1>1, <1>6 DEF CalmWith

\* The parts of a header on its way.
LEMMA HeaderShape ==
  ASSUME NEW byte \in Octet, NEW coming \in Seq(Octet)
  PROVE  /\ <<byte>> \o coming \in Seq(Octet)
         /\ <<ZDLE, byte>> \o coming = <<ZDLE>> \o (<<byte>> \o coming)
         /\ <<ZDLE, byte>> \o coming \in Seq(Octet)
         /\ <<ZPAD, ZDLE, byte>> \o coming = <<ZPAD>> \o (<<ZDLE, byte>> \o coming)
         /\ <<ZPAD, ZDLE, byte>> \o coming \in Seq(Octet)
         /\ <<ZPAD, ZPAD, ZDLE, byte>> \o coming = <<ZPAD>> \o (<<ZPAD, ZDLE, byte>> \o coming)
         /\ <<ZPAD, ZPAD, ZDLE, byte>> \o coming \in Seq(Octet)
<1>1. ZPAD \in Octet /\ ZDLE \in Octet
  BY Specials
<1>2. /\ <<byte>> \in Seq(Octet) /\ <<ZDLE, byte>> \in Seq(Octet)
      /\ <<ZPAD, ZDLE, byte>> \in Seq(Octet) /\ <<ZPAD, ZPAD, ZDLE, byte>> \in Seq(Octet)
  BY ONLY <1>1, byte \in Octet
<1>3. /\ <<ZDLE, byte>> = <<ZDLE>> \o <<byte>>
      /\ <<ZPAD, ZDLE, byte>> = <<ZPAD>> \o <<ZDLE, byte>>
      /\ <<ZPAD, ZPAD, ZDLE, byte>> = <<ZPAD>> \o <<ZPAD, ZDLE, byte>>
  BY ONLY <1>1, byte \in Octet
<1>4. /\ (<<ZDLE>> \o <<byte>>) \o coming = <<ZDLE>> \o (<<byte>> \o coming)
      /\ (<<ZPAD>> \o <<ZDLE, byte>>) \o coming = <<ZPAD>> \o (<<ZDLE, byte>> \o coming)
      /\ (<<ZPAD>> \o <<ZPAD, ZDLE, byte>>) \o coming
           = <<ZPAD>> \o (<<ZPAD, ZDLE, byte>> \o coming)
  BY ONLY <1>1, <1>2, coming \in Seq(Octet), OneAtATime
<1>5. /\ <<byte>> \o coming \in Seq(Octet)
      /\ <<ZDLE, byte>> \o coming \in Seq(Octet)
      /\ <<ZPAD, ZDLE, byte>> \o coming \in Seq(Octet)
      /\ <<ZPAD, ZPAD, ZDLE, byte>> \o coming \in Seq(Octet)
  BY ONLY <1>2, coming \in Seq(Octet)
<1> QED
  BY ONLY <1>3, <1>4, <1>5

LEMMA NoEncodings ==
  /\ Encodings(ZPAD) = {} /\ Encodings(ZDLE) = {} /\ ZPAD # ZDLE
  /\ \A e \in Encoding : /\ EncodingByte[e] \notin {ZPAD, ZDLE}
                         /\ Encodings(EncodingByte[e]) = {e}
  /\ \A b \in Octet : Encodings(b) \subseteq Encoding
BY DEF Encodings, Encoding, EncodingByte, ZPAD, ZDLE

\* What the header of an encoding makes whole: e stands for what is sent.
LEMMA HeaderWhole ==
  ASSUME NEW e \in Encoding, NEW coming \in Seq(Octet), Calm(coming),
         Solid(coming) >= ReadSize[e], NEW more \in Nat
  PROVE  /\ WholeStarts(<<EncodingByte[e]>> \o coming, more)
         /\ Affords(<<EncodingByte[e]>> \o coming, more)
         /\ WholeStarts(<<ZDLE, EncodingByte[e]>> \o coming, more)
         /\ Enough(<<ZDLE, EncodingByte[e]>> \o coming, more)
         /\ WholeStarts(<<ZPAD, ZDLE, EncodingByte[e]>> \o coming, more)
         /\ WholeStarts(<<ZPAD, ZPAD, ZDLE, EncodingByte[e]>> \o coming, more)
<1> PICK byte : byte = EncodingByte[e]
  OBVIOUS
<1>1. /\ byte \in Octet /\ byte # ZPAD /\ byte # ZDLE /\ Encodings(byte) = {e}
      /\ ZPAD \in Octet /\ ZDLE \in Octet /\ ZPAD # ZDLE
  BY Specials, NoEncodings
<1> PICK one : one = <<byte>> \o coming
  OBVIOUS
<1> PICK two : two = <<ZDLE, byte>> \o coming
  OBVIOUS
<1> PICK three : three = <<ZPAD, ZDLE, byte>> \o coming
  OBVIOUS
<1> PICK four : four = <<ZPAD, ZPAD, ZDLE, byte>> \o coming
  OBVIOUS
<1>2. /\ one \in Seq(Octet) /\ two = <<ZDLE>> \o one /\ two \in Seq(Octet)
      /\ three = <<ZPAD>> \o two /\ three \in Seq(Octet)
      /\ four = <<ZPAD>> \o three /\ four \in Seq(Octet)
  BY ONLY <1>1, coming \in Seq(Octet), HeaderShape,
          one = <<byte>> \o coming, two = <<ZDLE, byte>> \o coming,
          three = <<ZPAD, ZDLE, byte>> \o coming,
          four = <<ZPAD, ZPAD, ZDLE, byte>> \o coming
<1>3. WholeStarts(coming, more)
  BY CalmWhole
<1>4. WholeStarts(one, more)
  BY ONLY <1>1, <1>3, coming \in Seq(Octet), one = <<byte>> \o coming, WholeFirst
<1>5. Affords(one, more)
  <2>1. Solid(coming) \in Nat /\ ReadSize[e] \in 7 .. 14
    BY SolidType, Sizes
  <2>2. ReadSize[e] <= Solid(coming) + more
    BY ONLY <2>1, Solid(coming) >= ReadSize[e], more \in Nat
  <2>3. \A f \in Encodings(byte) : ReadSize[f] <= Solid(coming) + more
    BY ONLY <1>1, <2>2
  <2> QED
    BY ONLY <1>1, <2>3, coming \in Seq(Octet), one = <<byte>> \o coming, AffordsFirst
<1>6. WholeStarts(two, more) /\ Enough(two, more)
  BY ONLY <1>1, <1>2, <1>4, <1>5, WholeFirst, EnoughFirst
<1>7. WholeStarts(three, more) /\ Enough(three, more)
  BY ONLY <1>1, <1>2, <1>6, WholeFirst, EnoughFirst
<1>8. WholeStarts(four, more)
  BY ONLY <1>1, <1>2, <1>7, WholeFirst
<1> QED
  BY <1>4, <1>5, <1>6, <1>7, <1>8

\* A header sent anew.
LEMMA HeaderSent ==
  ASSUME NEW s \in 1 .. Len(Script), NEW i \in 0 .. Len(Script[s].subpackets),
         NEW h, h = Header(Script[s].frame, Position(s, i)), NEW e \in Encoding,
         NEW line, line = HeaderBytes(e, h)
  PROVE  /\ line \in Seq(Octet) /\ WholeStarts(line, 0) /\ WholeStarts(line, 9)
         /\ \A more \in Nat : Enough(line, more) /\ Affords(line, more)
         /\ Solid(line) \in Nat /\ Solid(line) >= 9
<1> PICK byte : byte = EncodingByte[e]
  OBVIOUS
<1> PICK octets : octets = Collectable(e, h)
  OBVIOUS
<1> PICK end : end = LineEnd(e, h)
  OBVIOUS
<1> PICK coming : coming = Coming(octets, end)
  OBVIOUS
<1>1. octets \in Seq(Octet) /\ Len(octets) = ReadSize[e]
  BY CollectableFacts
<1>2. end \in Seq(Octet) /\ Calm(end)
  BY LineEndType, CalmLineEnd
<1>3. coming \in Seq(Octet) /\ Calm(coming) /\ Solid(coming) >= ReadSize[e]
  <2>1. CalmWith(octets, end)
    BY ONLY <1>1, <1>2, CalmComing
  <2> QED
    BY ONLY <1>1, <1>2, <2>1, coming = Coming(octets, end), ComingType DEF CalmWith
<1>4. line = <<ZPAD, ZPAD, ZDLE, byte>> \o coming \/ line = <<ZPAD, ZDLE, byte>> \o coming
  BY HeaderBytesFacts
<1>5. /\ byte \in Octet /\ byte # ZPAD /\ byte # ZDLE
      /\ ZPAD \in Octet /\ ZDLE \in Octet /\ ZPAD # ZDLE /\ Encodings(ZPAD) = {}
  BY Specials, NoEncodings
<1> PICK one : one = <<byte>> \o coming
  OBVIOUS
<1> PICK two : two = <<ZDLE, byte>> \o coming
  OBVIOUS
<1> PICK three : three = <<ZPAD, ZDLE, byte>> \o coming
  OBVIOUS
<1> PICK four : four = <<ZPAD, ZPAD, ZDLE, byte>> \o coming
  OBVIOUS
<1>6. /\ one \in Seq(Octet) /\ two = <<ZDLE>> \o one /\ two \in Seq(Octet)
      /\ three = <<ZPAD>> \o two /\ three \in Seq(Octet)
      /\ four = <<ZPAD>> \o three /\ four \in Seq(Octet)
  BY ONLY <1>3, <1>5, HeaderShape,
          one = <<byte>> \o coming, two = <<ZDLE, byte>> \o coming,
          three = <<ZPAD, ZDLE, byte>> \o coming,
          four = <<ZPAD, ZPAD, ZDLE, byte>> \o coming
<1>7. /\ Solid(coming) \in Nat /\ Solid(one) = Solid(coming) + 1
      /\ Solid(two) = Solid(one) /\ Solid(three) = Solid(two) + 1
      /\ Solid(four) = Solid(three) + 1 /\ ReadSize[e] \in 7 .. 14
  <2>1. Solid(coming) \in Nat
    BY ONLY <1>3, SolidType
  <2>2. Solid(one) = Solid(coming) + 1
    BY ONLY <1>3, <1>5, one = <<byte>> \o coming, SolidFirst
  <2>3. Solid(two) = Solid(one)
    BY ONLY <1>5, <1>6, SolidFirst
  <2>4. Solid(three) = Solid(two) + 1 /\ Solid(four) = Solid(three) + 1
    BY ONLY <1>5, <1>6, SolidFirst
  <2> QED
    BY ONLY <2>1, <2>2, <2>3, <2>4, Sizes, e \in Encoding
<1>8. \E later \in Seq(Octet) : line = <<ZPAD>> \o later
  BY ONLY <1>4, <1>6, three = <<ZPAD, ZDLE, byte>> \o coming,
          four = <<ZPAD, ZPAD, ZDLE, byte>> \o coming
<1> PICK later \in Seq(Octet) : line = <<ZPAD>> \o later
  BY <1>8
<1>9. ASSUME NEW more \in Nat PROVE Enough(line, more) /\ Affords(line, more)
  BY ONLY <1>5, later \in Seq(Octet), line = <<ZPAD>> \o later, EnoughFirst, AffordsFirst
<1>10. Solid(line) \in Nat /\ Solid(line) >= 9
  <2>1. Solid(three) \in Nat /\ Solid(three) >= 9 /\ Solid(four) \in Nat /\ Solid(four) >= 9
    BY ONLY <1>3, <1>7
  <2> QED
    BY ONLY <1>4, <2>1, three = <<ZPAD, ZDLE, byte>> \o coming,
            four = <<ZPAD, ZPAD, ZDLE, byte>> \o coming
<1>11. line \in Seq(Octet)
  BY ONLY <1>4, <1>6, three = <<ZPAD, ZDLE, byte>> \o coming,
          four = <<ZPAD, ZPAD, ZDLE, byte>> \o coming
<1>12. WholeStarts(line, 0)
  BY ONLY <1>3, <1>4, HeaderWhole, e \in Encoding, byte = EncodingByte[e], 0 \in Nat
<1>13. WholeStarts(line, 9)
  BY ONLY <1>11, <1>12, WholeMore
<1> QED
  BY ONLY <1>9, <1>10, <1>11, <1>12, <1>13

-----------------------------------------------------------------------------
(***************************************************************************)
(* What the reader does to what it still needs.                            *)
(***************************************************************************)
\* The first byte, and the second one if two were taken.
Begins(line, n, bytes, left) ==
  \E a \in Octet, t \in Seq(Octet) :
    /\ line = <<a>> \o t /\ bytes[1] = a
    /\ n = 1 => left = t
    /\ n = 2 => \E b \in Octet : t = <<b>> \o left

LEMMA TakenOff ==
  ASSUME NEW line \in Seq(Octet), NEW n, NEW bytes, NEW left, Takes(line, n, bytes, left)
  PROVE  /\ left \in Seq(Octet) /\ n \in 1 .. 2 /\ Len(bytes) = n
         /\ Begins(line, n, bytes, left)
<1>1. /\ n \in 1 .. 2 /\ n <= Len(line)
      /\ bytes = SubSeq(line, 1, n) /\ left = SubSeq(line, n + 1, Len(line))
  BY DEF Takes
<1>2. Len(bytes) = n /\ bytes[1] = line[1]
  BY <1>1, Taken
<1>3. left \in Seq(Octet)
  BY <1>1
<1>4. line # <<>>
  <2>1. Len(<<>>) = 0
    OBVIOUS
  <2> QED
    BY ONLY <1>1, <2>1
<1> PICK a : a = line[1]
  OBVIOUS
<1> PICK t : t = Tail(line)
  OBVIOUS
<1>5. a \in Octet /\ t \in Seq(Octet) /\ line = <<a>> \o t
  BY <1>4, SplitFirst
<1>6. Len(line) \in Nat /\ Len(t) = Len(line) - 1
      /\ \A i \in 1 .. Len(t) : t[i] = line[i + 1]
  BY <1>4
<1>7. ASSUME n = 1 PROVE left = t
  BY <1>1, <1>4, <1>7
<1>8. ASSUME n = 2 PROVE \E b \in Octet : t = <<b>> \o left
  <2>1. t # <<>>
    <3>1. Len(<<>>) = 0 /\ Len(t) >= 1
      BY <1>1, <1>6, <1>8
    <3> QED
      BY ONLY <3>1
  <2>2. t[1] \in Octet /\ t = <<t[1]>> \o Tail(t) /\ Tail(t) \in Seq(Octet)
    BY <1>5, <2>1, SplitFirst
  <2> PICK u : u = Tail(t)
    OBVIOUS
  <2>3. u \in Seq(Octet) /\ Len(u) = Len(line) - 2 /\ \A i \in 1 .. Len(u) : u[i] = line[i + 2]
    <3>1. u \in Seq(Octet) /\ Len(u) = Len(t) - 1 /\ \A i \in 1 .. Len(u) : u[i] = t[i + 1]
      BY <1>5, <2>1
    <3>2. ASSUME NEW i \in 1 .. Len(u) PROVE u[i] = line[i + 2]
      <4> PICK j \in 1 .. Len(t) : j = i + 1
        BY <1>6, <3>1
      <4>1. u[i] = t[j] /\ t[j] = line[j + 1] /\ j + 1 = i + 2
        BY <1>6, <3>1
      <4> QED
        BY <4>1
    <3> QED
      BY <1>6, <3>1, <3>2
  <2>4. Len(left) = Len(line) - 2 /\ \A i \in 1 .. Len(left) : left[i] = line[i + 2]
    BY <1>1, <1>6, <1>8
  <2>5. left = u
    BY ONLY <1>3, <2>3, <2>4, SeqEqual
  <2> QED
    BY ONLY <2>2, <2>5, u = Tail(t)
<1> QED
  BY ONLY <1>1, <1>2, <1>3, <1>5, <1>7, <1>8, a = line[1] DEF Begins

\* What is left makes its headers whole, too, and an octet read cost at most one
\* that is no ZDLE.
LEMMA LeftWhole ==
  ASSUME NEW line \in Seq(Octet), NEW n, NEW bytes, NEW left, Takes(line, n, bytes, left),
         NEW more, WholeStarts(line, more)
  PROVE  /\ WholeStarts(left, more)
         /\ Solid(line) \in Nat /\ Solid(left) \in Nat
         /\ Len(bytes) = 1 => Solid(left) + 1 >= Solid(line)
         /\ Len(bytes) = 1 /\ bytes[1] = ZDLE => Solid(left) = Solid(line)
         /\ Len(bytes) = 2 /\ bytes[1] = ZDLE => Solid(left) + 1 >= Solid(line)
<1>1. /\ left \in Seq(Octet) /\ n \in 1 .. 2 /\ Len(bytes) = n
      /\ Begins(line, n, bytes, left)
  BY TakenOff
<1>2. PICK a \in Octet, t \in Seq(Octet) :
        /\ line = <<a>> \o t /\ bytes[1] = a
        /\ n = 1 => left = t
        /\ n = 2 => \E b \in Octet : t = <<b>> \o left
  BY <1>1 DEF Begins
<1>3. WholeStarts(t, more)
  BY ONLY <1>2, WholeStarts(line, more), a \in Octet, t \in Seq(Octet), WholeFirst
<1>4. /\ Solid(line) \in Nat /\ Solid(left) \in Nat /\ Solid(t) \in Nat
      /\ Solid(line) = IF a = ZDLE THEN Solid(t) ELSE Solid(t) + 1
  <2>1. Solid(line) \in Nat /\ Solid(left) \in Nat /\ Solid(t) \in Nat
    BY <1>1, SolidType
  <2> QED
    BY ONLY <1>2, <2>1, a \in Octet, t \in Seq(Octet), SolidFirst
<1>5. CASE n = 1
  BY ONLY <1>1, <1>2, <1>3, <1>4, <1>5
<1>6. CASE n = 2
  <2> PICK b \in Octet : t = <<b>> \o left
    BY <1>2, <1>6
  <2>1. WholeStarts(left, more)
    BY ONLY <1>1, <1>3, b \in Octet, t = <<b>> \o left, WholeFirst
  <2>2. Solid(t) = IF b = ZDLE THEN Solid(left) ELSE Solid(left) + 1
    BY ONLY <1>1, b \in Octet, t = <<b>> \o left, SolidFirst
  <2> QED
    BY ONLY <1>1, <1>2, <1>4, <1>6, <2>1, <2>2
<1> QED
  BY <1>1, <1>5, <1>6

\* Reading a header keeps what is on the wire enough.
LEMMA ReadingKeeps ==
  ASSUME ReaderTypeOK, wire \in Seq(Octet), NEW n, NEW bytes,
         Takes(wire, n, bytes, wire'), ReadHeader(bytes),
         NEW more \in Nat, ReaderEnds(more)
  PROVE  ReaderEnds(more)'
<1>1. WholeStarts(wire', more) /\ wire' \in Seq(Octet)
  BY LeftWhole, TakenOff DEF ReaderEnds
<1>2. ASSUME readerState' = "SeekingZpad", zpadState' = "Idle"
      PROVE  ReaderEnds(more)'
  BY <1>1, <1>2 DEF ReaderEnds
<1>3. Len(bytes) = n
  BY TakenOff
<1>4. CASE Len(bytes) = 1 /\ readerState \in {"SeekingZpad", "ReadingEncoding"}
  <2>1. PICK a \in Octet, t \in Seq(Octet) :
          wire = <<a>> \o t /\ bytes[1] = a /\ wire' = t
    <3>0. Begins(wire, n, bytes, wire')
      BY TakenOff
    <3>1. PICK a \in Octet, t \in Seq(Octet) :
            /\ wire = <<a>> \o t /\ bytes[1] = a
            /\ n = 1 => wire' = t
      BY <3>0 DEF Begins
    <3> QED
      BY <1>3, <1>4, <3>1
  <2>2. WholeStarts(<<a>> \o t, more)
    BY <2>1 DEF ReaderEnds
  <2>3. a = ZPAD => Enough(t, more)
    BY ONLY <2>2, a \in Octet, t \in Seq(Octet), WholeFirst
  <2>4. CASE SeekZpad(bytes)
    <3>1. CASE StartsHeader(bytes[1]) /\ readerState' = "ReadingEncoding"
      <4>1. a = ZDLE /\ zpadState # "Idle" /\ readerState = "SeekingZpad"
        BY <2>1, <2>4, <3>1 DEF StartsHeader, SeekZpad
      <4>2. Enough(<<a>> \o t, more)
        BY <2>1, <4>1 DEF ReaderEnds
      <4>3. Affords(t, more)
        BY ONLY <4>1, <4>2, a \in Octet, t \in Seq(Octet), EnoughFirst
      <4> QED
        BY <1>1, <2>1, <3>1, <4>3 DEF ReaderEnds
    <3>2. CASE zpadState' = ZpadAfter(bytes[1]) /\ readerState' = "SeekingZpad"
      <4>1. zpadState' # "Idle" => Enough(wire', more)
        BY <2>1, <2>3, <3>2 DEF ZpadAfter
      <4> QED
        BY <1>1, <3>2, <4>1 DEF ReaderEnds
    <3> QED
      BY <2>4, <3>1, <3>2 DEF SeekZpad
  <2>5. CASE ReadEncoding(bytes)
    <3>1. encoding' \in Encodings(a) /\ readerState' = "ReadingData" /\ headerBuf' = <<>>
      BY <2>1, <2>5 DEF ReadEncoding
    <3>2. Affords(<<a>> \o t, more)
      BY <2>1, <2>5 DEF ReaderEnds, ReadEncoding
    <3>3. ReadSize[encoding'] <= Solid(t) + more
      BY ONLY <3>1, <3>2, a \in Octet, t \in Seq(Octet), AffordsFirst
    <3>4. Len(headerBuf') = 0
      BY <3>1
    <3>5. Solid(t) \in Nat
      BY SolidType
    <3>6. ReadSize[encoding'] <= Len(headerBuf') + Solid(wire') + more
      BY ONLY <2>1, <3>3, <3>4, <3>5, more \in Nat
    <3> QED
      BY <1>1, <3>1, <3>6 DEF ReaderEnds
  <2>6. CASE UnknownEncoding(bytes)
    BY <1>2, <2>6 DEF UnknownEncoding, Reset
  <2> QED
    BY <1>4, <2>4, <2>5, <2>6, HeaderReadingIs
<1>5. CASE readerState = "ReadingData"
  <2>1. /\ ReadSize[encoding] <= Len(headerBuf) + Solid(wire) + more
        /\ Len(headerBuf) \in Nat /\ encoding \in Encoding
    BY <1>5 DEF ReaderEnds, ReaderTypeOK
  <2>2. ReadSize[encoding] \in 7 .. 14
    BY <2>1, Sizes
  <2>3. /\ Solid(wire) \in Nat /\ Solid(wire') \in Nat
        /\ Len(bytes) = 1 => Solid(wire') + 1 >= Solid(wire)
        /\ Len(bytes) = 1 /\ bytes[1] = ZDLE => Solid(wire') = Solid(wire)
        /\ Len(bytes) = 2 /\ bytes[1] = ZDLE => Solid(wire') + 1 >= Solid(wire)
    BY LeftWhole DEF ReaderEnds
  <2>4. CASE StopAtEscape(bytes)
    <3>1. Len(bytes) = 1 /\ bytes[1] = ZDLE
      BY <2>4, JustZdle DEF StopAtEscape, IsCut
    <3>2. /\ readerState' = "ReadingData" /\ encoding' = encoding
          /\ headerBuf' = headerBuf
      BY <1>5, <2>4 DEF StopAtEscape
    <3>3. ReadSize[encoding'] <= Len(headerBuf') + Solid(wire') + more
      BY <2>1, <2>3, <3>1, <3>2
    <3> QED
      BY <1>1, <3>2, <3>3 DEF ReaderEnds
  <2>5. CASE CollectByte(bytes)
    <3>1. Solid(wire') + 1 >= Solid(wire)
      BY <2>3, <2>5 DEF CollectByte, IsWhole
    <3> PICK octet : octet = Unescaped(escapePending, bytes)
      OBVIOUS
    <3>2. /\ readerState' = "ReadingData" /\ encoding' = encoding
          /\ headerBuf' = Append(headerBuf, octet)
      BY <1>5, <2>5 DEF CollectByte, Collected
    <3>3. Len(headerBuf') = Len(headerBuf) + 1
      BY <3>2 DEF ReaderTypeOK
    <3>4. ReadSize[encoding] <= Len(headerBuf') + Solid(wire') + more
      <4> PICK size, had, has, old, new :
            size = ReadSize[encoding] /\ had = Len(headerBuf) /\ has = Len(headerBuf')
            /\ old = Solid(wire) /\ new = Solid(wire')
        OBVIOUS
      <4>1. had \in Nat /\ old \in Nat /\ new \in Nat
        BY <2>1, <2>3
      <4>0. size \in Nat
        BY <2>2
      <4>3. has = had + 1
        BY <3>3
      <4>4. new + 1 >= old
        BY <3>1
      <4>5. size <= had + old + more
        BY <2>1
      <4>2. size <= has + new + more
        BY ONLY <4>0, <4>1, <4>3, <4>4, <4>5, more \in Nat
      <4> QED
        BY <4>2
    <3> QED
      BY <1>1, <3>2, <3>4 DEF ReaderEnds
  <2>6. CASE DropHeader(bytes) \/ Finds(bytes)
    BY <1>2, <2>6 DEF DropHeader, Finds, Reset
  <2> QED
    BY <1>5, <2>4, <2>5, <2>6, HeaderReadingIs
<1>6. readerState \in {"SeekingZpad", "ReadingEncoding"} => Len(bytes) = 1
  BY HeaderReadingIs DEF SeekZpad, ReadEncoding, UnknownEncoding
<1> QED
  BY <1>4, <1>5, <1>6 DEF ReaderTypeOK, HeaderReadState

-----------------------------------------------------------------------------
(***************************************************************************)
(* The headers missed are paid for by the bytes damaged.                   *)
(***************************************************************************)
\* The header sent last is on its way, and the reader will find it.
HeaderDue ==
  /\ stage > 0 /\ found = <<>> /\ ReaderEnds(0)
  /\ \E e \in Script[stage].encodings : HeaderComes(e)
\* One more is missed if the header is not found.
Owed == IF stage > 0 /\ found = <<>> THEN 1 ELSE 0
\* So many may still be missed on account of the bytes damaged so far.
Lost(more) == missed + Owed + more <= 2 * damaged

\* One reader is at rest while the other one reads.
ReadersApart ==
  /\ readerState = "SeekingZpad" => ReaderAtRest
  /\ phase # "Idle" => readerState = "SeekingZpad" /\ zpadState = "Idle"

\* From a header that will be found a damaged byte leads to a reader that needs
\* at most nine octets more: it takes the next header for them, and only that
\* one.  A byte damaged in the meantime pays for two more.
MissedSoFar ==
  \/ HeaderDue /\ missed <= 2 * damaged
  \/ ReaderEnds(0) /\ Lost(0)
  \/ ReaderEnds(9) /\ Lost(1)
  \/ Lost(2)

MissedInv == missed \in Nat /\ HeaderRight /\ ReadersApart /\ MissedSoFar

LEMMA StreamTypes ==
  ASSUME TypeInv
  PROVE  /\ wire \in Seq(Octet) /\ damaged \in Nat /\ stage \in Nat
         /\ found \in Seq(HeaderUnit) /\ ReaderTypeOK /\ InScript
         /\ headerBuf \in Seq(Octet) /\ Len(headerBuf) \in Nat
BY DEF TypeInv, StreamTypeOK, ReaderTypeOK

LEMMA MissedInit == StreamInit => MissedInv
<1> SUFFICES ASSUME StreamInit PROVE MissedInv
  OBVIOUS
<1>1. /\ wire = <<>> /\ stage = 0 /\ found = <<>> /\ missed = 0 /\ damaged = 0
      /\ readerState = "SeekingZpad" /\ zpadState = "Idle" /\ phase = "Idle"
      /\ encoding = "None" /\ headerBuf = <<>> /\ ~escapePending
  BY DEF StreamInit, ReaderInit, SubpacketInit
<1>2. ReaderEnds(0)
  BY <1>1, WholeNothing DEF ReaderEnds
<1>3. Lost(0)
  BY <1>1 DEF Lost, Owed
<1>4. HeaderRight /\ ReadersApart
  BY <1>1 DEF HeaderRight, ReadersApart, ReaderAtRest
<1> QED
  BY <1>1, <1>2, <1>3, <1>4 DEF MissedInv, MissedSoFar

LEMMA HeaderDueHasWire ==
  ASSUME TypeInv, HeaderRight, HeaderDue PROVE wire # <<>>
BY HeaderComesOn DEF HeaderDue

\* HeaderRight on any line, and which reader reads.
LEMMA HeaderRightSteps ==
  ASSUME TypeInv, HeaderRight, StreamNext
  PROVE  HeaderRight'
<1>1. CASE BeginFrame
  <2>1. /\ stage' \in 1 .. Len(Script)
        /\ sent' \in 0 .. Len(Script[stage'].subpackets)
        /\ header' = Header(Script[stage'].frame, Position(stage', sent'))
    BY <1>1, BeginFrameFacts DEF TypeInv
  <2>2. Subpackets' = Script[stage'].subpackets
    BY <2>1 DEF Subpackets
  <2>3. frame' # "None" => frame' \in Script[stage'].encodings
    BY <1>1 DEF BeginFrame
  <2>4. sent' <= Len(Subpackets')
    BY <2>1, <2>2
  <2> QED
    BY <2>1, <2>2, <2>3, <2>4 DEF HeaderRight
<1>2. CASE SendSubpacket
  <2>1. /\ stage' = stage /\ header' = header /\ sent' = sent + 1
        /\ frame' \in {frame, "None"} /\ frame # "None"
    BY <1>2 DEF SendSubpacket
  <2>2. sent < Len(Subpackets) /\ sent \in Nat /\ stage > 0
    BY <2>1 DEF TypeInv, InScript, StreamTypeOK
  <2>3. Subpackets' = Subpackets /\ Len(Subpackets) \in Nat
    <3>1. stage \in 1 .. Len(Script)
      BY <2>2, ScriptAssumption DEF TypeInv, StreamTypeOK
    <3> QED
      BY <2>1, <2>2, <3>1, StageFacts DEF Subpackets
  <2>4. sent' <= Len(Subpackets')
    BY <2>1, <2>2, <2>3
  <2> QED
    BY <2>1, <2>2, <2>3, <2>4 DEF HeaderRight
<1>3. CASE Damage \/ SubmitWire
  <2>1. UNCHANGED <<stage, header, frame, sent>>
    BY <1>3 DEF Damage, SubmitWire
  <2> QED
    BY <2>1 DEF HeaderRight, Subpackets
<1> QED
  BY <1>1, <1>2, <1>3 DEF StreamNext

LEMMA ReadersApartSteps ==
  ASSUME TypeInv, ReadersApart, StreamNext
  PROVE  ReadersApart'
<1>1. CASE BeginFrame \/ SendSubpacket \/ Damage
  <2>1. UNCHANGED readerVars /\ UNCHANGED subpacketVars
    BY <1>1 DEF BeginFrame, SendSubpacket, Damage, receiverVars
  <2> QED
    BY <2>1 DEF readerVars, subpacketVars, ReadersApart, ReaderAtRest
<1>2. CASE SubmitWire
  <2>1. PICK bytes : ReadHeader(bytes) \/ ProcessSubpacket(bytes)
    BY <1>2 DEF SubmitWire
  <2>2. CASE ProcessSubpacket(bytes)
    <3>1. phase # "Idle" /\ UNCHANGED <<readerState, zpadState, encoding, headerBuf, escapePending>>
      BY <2>2 DEF ProcessSubpacket, EnterResync, readerVars
    <3> QED
      BY <3>1 DEF ReadersApart, ReaderAtRest
  <2>3. CASE ReadHeader(bytes)
    <3>1. phase = "Idle"
      BY <2>3 DEF ReadHeader
    <3>2. CASE Reset
      BY <3>2 DEF Reset, ReadersApart, ReaderAtRest
    <3>3. CASE UNCHANGED <<subpacketVars, found>> /\ SeekZpad(bytes)
      BY <3>1, <3>3 DEF SeekZpad, ReadersApart, ReaderAtRest, subpacketVars
    <3>4. CASE UNCHANGED <<subpacketVars, found>> /\ readerState' = "ReadingData"
      BY <3>1, <3>4 DEF ReadersApart, subpacketVars
    <3>5. /\ ReadEncoding(bytes) \/ StopAtEscape(bytes) \/ CollectByte(bytes)
               => readerState' = "ReadingData"
          /\ UnknownEncoding(bytes) \/ DropHeader(bytes) \/ Finds(bytes) => Reset
      BY DEF ReadEncoding, StopAtEscape, CollectByte, UnknownEncoding, DropHeader, Finds
    <3> QED
      BY <2>3, <3>2, <3>3, <3>4, <3>5, HeaderReadingIs
         DEF TypeInv, ReaderTypeOK, HeaderReadState
  <2> QED
    BY <2>1, <2>2, <2>3
<1> QED
  BY <1>1, <1>2 DEF StreamNext

\* At the end of the wire a reader that needs nothing more waits for a header,
\* and one that can do with nine octets may be in the middle of one.
LEMMA EndsOnNothing ==
  ASSUME TypeInv, wire = <<>>
  PROVE  /\ ReaderEnds(0) => readerState = "SeekingZpad"
         /\ ReaderEnds(9) => readerState # "ReadingEncoding"
<1>1. ASSUME NEW more, ReaderEnds(more) PROVE readerState # "ReadingEncoding"
  BY <1>1 DEF ReaderEnds, Affords
<1>2. ASSUME ReaderEnds(0), readerState = "ReadingData" PROVE FALSE
  <2>1. /\ Len(headerBuf) < ReadSize[encoding] /\ Len(headerBuf) \in Nat
        /\ encoding \in Encoding
    BY <1>2 DEF TypeInv, ReaderTypeOK
  <2>2. ReadSize[encoding] <= Len(headerBuf) + 0 + 0
    BY <1>2, SolidNothing DEF ReaderEnds
  <2>3. ReadSize[encoding] \in 7 .. 14
    BY <2>1, Sizes
  <2> QED
    BY ONLY <2>1, <2>2, <2>3
<1> QED
  BY <1>1, <1>2 DEF TypeInv, ReaderTypeOK, HeaderReadState

\* A byte is damaged of a header that would have been found: the next one is
\* enough.
LEMMA DamagedDue ==
  ASSUME TypeInv, HeaderRight, HeaderDue, Damage
  PROVE  ReaderEnds(9)'
<1>1. PICK e \in Script[stage].encodings : HeaderComes(e)
  BY DEF HeaderDue
<1> PICK octets : octets = Collectable(e, header)
  OBVIOUS
<1> PICK end : end = LineEnd(e, header)
  OBVIOUS
<1> PICK coming : coming = Coming(octets, end)
  OBVIOUS
<1> PICK byte : byte = EncodingByte[e]
  OBVIOUS
<1>2. stage > 0 /\ ReaderEnds(0)
  BY DEF HeaderDue
<1>3. /\ octets \in Seq(Octet) /\ end \in Seq(Octet) /\ coming \in Seq(Octet)
      /\ byte \in Octet /\ e \in Encoding /\ Len(octets) = ReadSize[e]
  BY <1>2, HeaderNow
<1>4. Calm(end)
  BY CalmLineEnd
<1>5. Calm(coming) /\ Solid(coming) >= ReadSize[e]
  <2>1. CalmWith(octets, end)
    BY ONLY <1>3, <1>4, CalmComing
  <2> QED
    BY ONLY <1>3, <2>1, coming = Coming(octets, end) DEF CalmWith
<1>6. /\ wire # <<>> /\ wire \in Seq(Octet) /\ UNCHANGED readerVars
      /\ \E b \in Octet : wire' = <<b>> \o Tail(wire)
  BY StreamTypes, ReplacementAssumption DEF Damage, receiverVars
<1> PICK b \in Octet : wire' = <<b>> \o Tail(wire)
  BY <1>6
<1> PICK a : a = wire[1]
  OBVIOUS
<1> PICK t : t = Tail(wire)
  OBVIOUS
<1>7. a \in Octet /\ t \in Seq(Octet) /\ wire = <<a>> \o t /\ wire' = <<b>> \o t
  BY <1>6, SplitFirst
<1>8. WholeStarts(t, 0) /\ WholeStarts(t, 9)
  <2>1. WholeStarts(<<a>> \o t, 0)
    BY <1>2, <1>7 DEF ReaderEnds
  <2>2. WholeStarts(t, 0)
    BY ONLY <1>7, <2>1, WholeFirst
  <2> QED
    BY ONLY <1>7, <2>2, WholeMore
<1>9. /\ ReadSize[e] \in 7 .. 14 /\ Solid(coming) \in Nat /\ Solid(t) \in Nat
  BY <1>3, <1>7, Sizes, SolidType
<1>10. /\ ZPAD \in Octet /\ ZDLE \in Octet /\ ZPAD # ZDLE /\ byte \notin {ZPAD, ZDLE}
       /\ Encodings(ZPAD) = {} /\ Encodings(ZDLE) = {} /\ Encodings(byte) = {e}
       /\ Encodings(b) \subseteq Encoding
  BY <1>3, Specials, NoEncodings
\* It is enough that what follows the byte may follow a ZPAD, and a ZDLE, too,
\* when one was read before.
<1>11. ASSUME Enough(t, 9),
              readerState = "SeekingZpad" /\ zpadState # "Idle" => Affords(t, 9),
              readerState = "ReadingEncoding" => t = coming,
              readerState = "ReadingData" => Solid(wire') + 1 >= Solid(wire)
       PROVE  ReaderEnds(9)'
  <2>1. WholeStarts(wire', 9)
    BY ONLY <1>7, <1>8, <1>11, b \in Octet, WholeFirst
  <2>2. readerState = "SeekingZpad" /\ zpadState # "Idle" => Enough(wire', 9)
    BY ONLY <1>7, <1>11, b \in Octet, EnoughFirst
  <2>3. readerState = "ReadingEncoding" => Affords(wire', 9)
    <3>1. ASSUME readerState = "ReadingEncoding", NEW f \in Encodings(b)
          PROVE  ReadSize[f] <= Solid(t) + 9
      <4>1. ReadSize[f] \in 7 .. 14
        BY <1>10, Sizes
      <4>2. Solid(t) >= 7
        <5>1. t = coming
          BY <1>11, <3>1
        <5> QED
          BY ONLY <1>5, <1>9, <5>1
      <4> QED
        BY <1>9, <4>1, <4>2
    <3>2. ASSUME readerState = "ReadingEncoding"
          PROVE  Affords(wire', 9)
      <4>1. \A f \in Encodings(b) : ReadSize[f] <= Solid(t) + 9
        BY <3>1, <3>2
      <4> QED
        BY ONLY <1>7, <4>1, b \in Octet, AffordsFirst
    <3> QED
      BY <3>2
  <2>4. readerState = "ReadingData" =>
          ReadSize[encoding] <= Len(headerBuf) + Solid(wire') + 9
    <3>1. ASSUME readerState = "ReadingData"
          PROVE  ReadSize[encoding] <= Len(headerBuf) + Solid(wire') + 9
      <4>1. ReadSize[encoding] <= Len(headerBuf) + Solid(wire) + 0
        BY <1>2, <3>1 DEF ReaderEnds
      <4>2. Solid(wire') \in Nat /\ Solid(wire) \in Nat /\ Len(headerBuf) \in Nat
        <5>1. wire' \in Seq(Octet)
          BY ONLY <1>7, b \in Octet, FirstOff
        <5> QED
          BY <1>6, <5>1, SolidType, StreamTypes
      <4>3. encoding \in Encoding
        BY <3>1 DEF TypeInv, ReaderTypeOK
      <4>4. ReadSize[encoding] \in 7 .. 14
        BY <4>3, Sizes
      <4>5. Solid(wire') + 1 >= Solid(wire)
        BY <1>11, <3>1
      <4> QED
        BY ONLY <4>1, <4>2, <4>4, <4>5
    <3> QED
      BY <3>1
  <2>5. UNCHANGED <<readerState, zpadState, encoding, headerBuf>>
    BY <1>6 DEF readerVars
  <2> QED
    BY <2>1, <2>2, <2>3, <2>4, <2>5 DEF ReaderEnds
<1> PICK one : one = <<byte>> \o coming
  OBVIOUS
<1> PICK two : two = <<ZDLE, byte>> \o coming
  OBVIOUS
<1> PICK three : three = <<ZPAD, ZDLE, byte>> \o coming
  OBVIOUS
<1> PICK four : four = <<ZPAD, ZPAD, ZDLE, byte>> \o coming
  OBVIOUS
<1>12. /\ one \in Seq(Octet) /\ two = <<ZDLE>> \o one /\ two \in Seq(Octet)
       /\ three = <<ZPAD>> \o two /\ three \in Seq(Octet)
       /\ four = <<ZPAD>> \o three /\ four \in Seq(Octet)
  BY ONLY <1>3, HeaderShape, one = <<byte>> \o coming, two = <<ZDLE, byte>> \o coming,
          three = <<ZPAD, ZDLE, byte>> \o coming, four = <<ZPAD, ZPAD, ZDLE, byte>> \o coming
<1>13. ASSUME NEW c \in Octet, NEW later \in Seq(Octet), wire = <<c>> \o later
       PROVE  t = later
  BY ONLY <1>13, t = Tail(wire), FirstOff
<1>14. CASE ReaderAtRest
  <2>1. readerState = "SeekingZpad"
    BY <1>14 DEF ReaderAtRest
  <2>2. wire = four \/ wire = three \/ wire = two
    BY <1>1, <2>1 DEF HeaderComes
  <2>3. CASE wire = four
    <3>1. t = three /\ three = <<ZPAD>> \o two
      BY ONLY <1>10, <1>12, <1>13, <2>3
    <3>2. Enough(t, 9) /\ Affords(t, 9)
      BY ONLY <1>10, <1>12, <3>1, EnoughFirst, AffordsFirst
    <3> QED
      BY <1>11, <2>1, <3>2
  <2>4. CASE wire = three
    <3>1. t = two
      BY ONLY <1>10, <1>12, <1>13, <2>4
    <3>2. Enough(t, 9)
      BY ONLY <1>3, <1>5, <3>1, 9 \in Nat, byte = EncodingByte[e],
              two = <<ZDLE, byte>> \o coming, HeaderWhole
    <3>3. Affords(t, 9)
      BY ONLY <1>10, <1>12, <3>1, AffordsFirst
    <3> QED
      BY <1>11, <2>1, <3>2, <3>3
  <2>5. CASE wire = two
    <3>1. t = one
      BY ONLY <1>10, <1>12, <1>13, <2>5
    <3>2. Affords(t, 9)
      BY ONLY <1>3, <1>5, <3>1, 9 \in Nat, byte = EncodingByte[e],
              one = <<byte>> \o coming, HeaderWhole
    <3>3. Enough(t, 9)
      BY ONLY <1>3, <1>10, <3>1, one = <<byte>> \o coming, EnoughFirst
    <3> QED
      BY <1>11, <2>1, <3>2, <3>3
  <2> QED
    BY <2>2, <2>3, <2>4, <2>5
<1>15. CASE readerState = "ReadingEncoding"
  <2>1. wire = one
    BY <1>1, <1>15 DEF HeaderComes, ReaderAtRest
  <2>2. t = coming
    BY ONLY <1>3, <1>13, <2>1, one = <<byte>> \o coming
  <2>3. Enough(t, 9)
    BY ONLY <1>3, <1>5, <2>2, CalmEnough
  <2> QED
    BY <1>11, <1>15, <2>2, <2>3
<1>16. CASE readerState = "ReadingData"
  <2>1. Plain(octets, headerBuf, end, wire) \/ Half(octets, headerBuf, end, wire)
    BY <1>1, <1>16 DEF HeaderComes, ReaderAtRest
  <2> PICK f : f = From(octets, Len(headerBuf))
    OBVIOUS
  <2>2. Len(headerBuf) \in Nat /\ Len(headerBuf) < Len(octets)
    BY <2>1, StreamTypes DEF Plain, Half
  <2>3. f \in Seq(Octet) /\ f # <<>>
    BY ONLY <1>3, <2>2, f = From(octets, Len(headerBuf)), FromNext
  <2>4. Calm(t)
    <3>1. CASE Plain(octets, headerBuf, end, wire)
      <4>1. wire = Coming(f, end)
        BY <3>1 DEF Plain
      <4>2. CalmWith(f, end)
        BY ONLY <1>3, <1>4, <2>3, CalmComing
      <4>3. Calm(<<a>> \o t)
        BY ONLY <1>7, <4>1, <4>2 DEF CalmWith
      <4> QED
        BY ONLY <1>7, <4>3, CalmTail
    <3>2. CASE Half(octets, headerBuf, end, wire)
      <4> PICK later : later = Coming(Tail(f), end)
        OBVIOUS
      <4>1. wire = <<ZdleTable(f[1])>> \o later
        BY <3>2 DEF Half, HalfComing
      <4>2. f[1] \in Octet /\ Tail(f) \in Seq(Octet) /\ later \in Seq(Octet)
        BY ONLY <1>3, <2>3, ComingFirst, later = Coming(Tail(f), end)
      <4>3. ZdleTable(f[1]) \in Octet
        BY ONLY <4>2, EscapedShape
      <4>4. t = later
        BY ONLY <1>13, <4>1, <4>2, <4>3
      <4>5. CalmWith(Tail(f), end)
        BY ONLY <1>3, <1>4, <4>2, CalmComing
      <4> QED
        BY ONLY <4>4, <4>5, later = Coming(Tail(f), end) DEF CalmWith
    <3> QED
      BY <2>1, <3>1, <3>2
  <2>5. Enough(t, 9)
    BY ONLY <1>7, <2>4, CalmEnough
  <2>6. Solid(wire') + 1 >= Solid(wire)
    <3>1. /\ Solid(wire) = IF a = ZDLE THEN Solid(t) ELSE Solid(t) + 1
          /\ Solid(wire') = IF b = ZDLE THEN Solid(t) ELSE Solid(t) + 1
      BY ONLY <1>7, b \in Octet, SolidFirst
    <3> QED
      BY ONLY <1>9, <3>1
  <2> QED
    BY <1>11, <1>16, <2>5, <2>6
<1> QED
  BY <1>1, <1>14, <1>15, <1>16 DEF HeaderComes

LEMMA MissedTypes ==
  ASSUME TypeInv, MissedInv
  PROVE  missed \in Nat /\ damaged \in Nat /\ Owed \in {0, 1}
BY StreamTypes DEF MissedInv, Owed

\* Where the reader needs nothing more the header sent will be found; where it
\* needs at most nine octets this header has them.
LEMMA BeginFrameMissed ==
  ASSUME TypeInv, MissedInv, BeginFrame
  PROVE  missed' \in Nat /\ MissedSoFar'
<1>1. /\ stage' \in 1 .. Len(Script)
      /\ sent' \in 0 .. Len(Script[stage'].subpackets)
      /\ header' = Header(Script[stage'].frame, Position(stage', sent'))
  BY BeginFrameFacts DEF TypeInv
<1>2. /\ wire = <<>> /\ found' = <<>> /\ UNCHANGED readerVars /\ damaged' = damaged
      /\ missed' = missed + Owed
  <2>1. missed' = IF stage > 0 /\ found = <<>> THEN missed + 1 ELSE missed
    BY DEF BeginFrame
  <2>2. missed' = missed + Owed
    BY <2>1, MissedTypes DEF Owed
  <2> QED
    BY <2>2 DEF BeginFrame, receiverVars
<1>3. PICK e \in Script[stage'].encodings : wire' = HeaderBytes(e, header')
  BY DEF BeginFrame
<1>4. e \in Encoding
  BY <1>1, StageFacts
<1>5. /\ wire' \in Seq(Octet) /\ WholeStarts(wire', 0) /\ WholeStarts(wire', 9)
      /\ \A more \in Nat : Enough(wire', more) /\ Affords(wire', more)
      /\ Solid(wire') \in Nat /\ Solid(wire') >= 9
  BY <1>1, <1>3, <1>4, HeaderSent
<1>6. stage' > 0 /\ Owed' = 1
  BY <1>1, <1>2 DEF Owed
<1>7. missed \in Nat /\ damaged \in Nat /\ Owed \in {0, 1} /\ missed' \in Nat
  BY <1>2, MissedTypes
<1>8. UNCHANGED <<readerState, zpadState, encoding, headerBuf, escapePending>>
  BY <1>2 DEF readerVars
<1>9. Len(headerBuf) \in Nat /\ ReaderTypeOK
  BY StreamTypes
<1>10. CASE ReaderEnds(0) /\ Lost(0)
  <2>1. readerState = "SeekingZpad"
    BY <1>2, <1>10, EndsOnNothing
  <2>2. ReaderAtRest'
    BY <1>8, <2>1 DEF MissedInv, ReadersApart, ReaderAtRest
  <2>3. ReaderEnds(0)'
    BY <1>5, <2>2 DEF ReaderEnds, ReaderAtRest
  <2>4. HeaderComes(e)'
    <3>1. LET octets == Collectable(e, header')
              end == LineEnd(e, header')
          IN  \/ wire' = <<ZPAD, ZPAD, ZDLE, EncodingByte[e]>> \o Coming(octets, end)
              \/ wire' = <<ZPAD, ZDLE, EncodingByte[e]>> \o Coming(octets, end)
      BY <1>1, <1>3, <1>4, HeaderBytesFacts
    <3> QED
      BY <2>2, <3>1 DEF HeaderComes
  <2>5. HeaderDue'
    BY <1>2, <1>3, <1>6, <2>3, <2>4 DEF HeaderDue
  <2>6. missed' <= 2 * damaged'
    <3>1. missed + Owed + 0 <= 2 * damaged
      BY <1>10 DEF Lost
    <3> QED
      BY ONLY <1>2, <1>7, <3>1
  <2> QED
    BY <1>7, <2>5, <2>6 DEF MissedSoFar
<1>11. CASE ReaderEnds(9) /\ Lost(1)
  <2>1. readerState # "ReadingEncoding"
    BY <1>2, <1>11, EndsOnNothing
  <2>2. readerState = "ReadingData" =>
          ReadSize[encoding] <= Len(headerBuf) + Solid(wire') + 0
    <3>1. ASSUME readerState = "ReadingData"
          PROVE  ReadSize[encoding] <= Len(headerBuf) + Solid(wire') + 0
      <4>1. ReadSize[encoding] <= Len(headerBuf) + Solid(wire) + 9
        BY <1>11, <3>1 DEF ReaderEnds
      <4>2. Solid(wire) = 0
        BY <1>2, SolidNothing
      <4>3. encoding \in Encoding
        BY <1>9, <3>1 DEF ReaderTypeOK
      <4>4. ReadSize[encoding] \in 7 .. 14
        BY <4>3, Sizes
      <4> QED
        BY ONLY <1>5, <1>9, <4>1, <4>2, <4>4
    <3> QED
      BY <3>1
  <2>3. ReaderEnds(0)'
    BY <1>5, <1>8, <2>1, <2>2 DEF ReaderEnds
  <2>4. Lost(0)'
    <3>1. missed + Owed + 1 <= 2 * damaged
      BY <1>11 DEF Lost
    <3>2. missed' + Owed' + 0 <= 2 * damaged'
      BY ONLY <1>2, <1>6, <1>7, <3>1
    <3> QED
      BY <3>2 DEF Lost
  <2> QED
    BY <1>7, <2>3, <2>4 DEF MissedSoFar
<1>12. CASE Lost(2)
  <2>1. readerState = "ReadingData" =>
          ReadSize[encoding] <= Len(headerBuf) + Solid(wire') + 9
    <3>1. ASSUME readerState = "ReadingData"
          PROVE  ReadSize[encoding] <= Len(headerBuf) + Solid(wire') + 9
      <4>1. encoding \in Encoding
        BY <1>9, <3>1 DEF ReaderTypeOK
      <4>2. ReadSize[encoding] \in 7 .. 14
        BY <4>1, Sizes
      <4> QED
        BY ONLY <1>5, <1>9, <4>2
    <3> QED
      BY <3>1
  <2>2. ReaderEnds(9)'
    BY <1>5, <1>8, <2>1 DEF ReaderEnds
  <2>3. Lost(1)'
    <3>1. missed + Owed + 2 <= 2 * damaged
      BY <1>12 DEF Lost
    <3>2. missed' + Owed' + 1 <= 2 * damaged'
      BY ONLY <1>2, <1>6, <1>7, <3>1
    <3> QED
      BY <3>2 DEF Lost
  <2> QED
    BY <1>7, <2>2, <2>3 DEF MissedSoFar
<1>13. ~HeaderDue
  BY <1>2, HeaderDueHasWire DEF MissedInv
<1> QED
  BY <1>10, <1>11, <1>12, <1>13 DEF MissedInv, MissedSoFar

\* No subpacket makes the reader need more.
LEMMA SendSubpacketMissed ==
  ASSUME TypeInv, MissedInv, SendSubpacket
  PROVE  missed' \in Nat /\ MissedSoFar'
<1>1. /\ wire = <<>> /\ UNCHANGED readerVars
      /\ UNCHANGED <<stage, found, missed, damaged>> /\ frame # "None"
  BY DEF SendSubpacket, receiverVars
<1>2. stage \in 1 .. Len(Script) /\ sent + 1 \in 1 .. Len(Script[stage].subpackets)
      /\ Subpackets = Script[stage].subpackets
  <2>1. stage > 0 /\ sent < Len(Subpackets) /\ sent \in Nat
    BY <1>1 DEF TypeInv, InScript, StreamTypeOK
  <2>2. stage \in 1 .. Len(Script)
    BY <2>1, ScriptAssumption DEF TypeInv, StreamTypeOK
  <2>3. Subpackets = Script[stage].subpackets
    BY <2>2 DEF Subpackets
  <2>4. Len(Subpackets) \in Nat
    BY <2>2, <2>3, StageFacts
  <2> QED
    BY <2>1, <2>2, <2>3, <2>4
<1>3. Calm(wire') /\ wire' \in Seq(Octet)
  <2> PICK k : k = sent + 1
    OBVIOUS
  <2> PICK subpacket : subpacket = Script[stage].subpackets[k]
    OBVIOUS
  <2> PICK encoded : encoded = IF frame = "ZHEX" THEN "ZBIN" ELSE frame
    OBVIOUS
  <2>1. wire' = SubpacketBytes(encoded, subpacket.kind, subpacket.data)
    BY <1>2 DEF SendSubpacket
  <2>2. stage \in 1 .. Len(Script) /\ k \in 1 .. Len(Script[stage].subpackets)
    BY <1>2
  <2> QED
    BY ONLY <2>1, <2>2, subpacket = Script[stage].subpackets[k], CalmSubpacket
<1>4. UNCHANGED <<readerState, zpadState, encoding, headerBuf, escapePending>>
  BY <1>1 DEF readerVars
<1>5. Solid(wire') \in Nat /\ Solid(wire) = 0 /\ Len(headerBuf) \in Nat /\ ReaderTypeOK
  BY <1>1, <1>3, SolidType, SolidNothing, StreamTypes
<1>6. ASSUME NEW more \in Nat, ReaderEnds(more)
      PROVE  ReaderEnds(more)'
  <2>1. WholeStarts(wire', more) /\ Enough(wire', more)
    BY <1>3, CalmWhole, CalmEnough
  <2>2. readerState # "ReadingEncoding"
    BY <1>1, <1>6 DEF ReaderEnds, Affords
  <2>3. readerState = "ReadingData" =>
          ReadSize[encoding] <= Len(headerBuf) + Solid(wire') + more
    <3>1. ASSUME readerState = "ReadingData"
          PROVE  ReadSize[encoding] <= Len(headerBuf) + Solid(wire') + more
      <4>1. ReadSize[encoding] <= Len(headerBuf) + Solid(wire) + more
        BY <1>6, <3>1 DEF ReaderEnds
      <4>2. encoding \in Encoding
        BY <1>5, <3>1 DEF ReaderTypeOK
      <4>3. ReadSize[encoding] \in 7 .. 14
        BY <4>2, Sizes
      <4> QED
        BY ONLY <1>5, <4>1, <4>3, more \in Nat
    <3> QED
      BY <3>1
  <2> QED
    BY <1>4, <2>1, <2>2, <2>3 DEF ReaderEnds
<1>7. ~HeaderDue
  BY <1>1, HeaderDueHasWire DEF MissedInv
<1>8. ReaderEnds(0) => ReaderEnds(0)'
  BY <1>6
<1>9. ReaderEnds(9) => ReaderEnds(9)'
  BY <1>6
<1>10. /\ Lost(0) => Lost(0)'
       /\ Lost(1) => Lost(1)'
       /\ Lost(2) => Lost(2)'
  BY <1>1 DEF Lost, Owed
<1> QED
  BY <1>1, <1>7, <1>8, <1>9, <1>10 DEF MissedInv, MissedSoFar

\* A damaged byte pays for two headers.
LEMMA DamageMissed ==
  ASSUME TypeInv, MissedInv, Damage
  PROVE  missed' \in Nat /\ MissedSoFar'
<1>1. UNCHANGED <<stage, found, missed>> /\ damaged' = damaged + 1
  BY DEF Damage
<1>2. missed \in Nat /\ damaged \in Nat /\ Owed \in {0, 1} /\ Owed' = Owed
  BY <1>1, MissedTypes DEF Owed
<1>3. CASE HeaderDue /\ missed <= 2 * damaged
  <2>1. ReaderEnds(9)'
    BY <1>3, DamagedDue DEF MissedInv
  <2>2. missed' + Owed' + 1 <= 2 * damaged'
    BY <1>1, <1>2, <1>3
  <2> QED
    BY <1>1, <1>2, <2>1, <2>2 DEF MissedSoFar, Lost
<1>4. CASE Lost(0) \/ Lost(1) \/ Lost(2)
  <2>1. missed' + Owed' + 2 <= 2 * damaged'
    BY <1>1, <1>2, <1>4 DEF Lost
  <2> QED
    BY <1>1, <1>2, <2>1 DEF MissedSoFar, Lost
<1> QED
  BY <1>3, <1>4 DEF MissedInv, MissedSoFar

\* Whatever is read, and wherever it is cut.
LEMMA SubmitWireMissed ==
  ASSUME TypeInv, MissedInv, SubmitWire
  PROVE  missed' \in Nat /\ MissedSoFar'
<1>1. /\ UNCHANGED <<stage, header, frame, sent, missed, damaged>>
      /\ missed \in Nat /\ damaged \in Nat /\ Owed \in {0, 1}
  BY MissedTypes DEF SubmitWire
<1>2. PICK n \in 1 .. Len(wire) :
        /\ n <= 2
        /\ ReadHeader(SubSeq(wire, 1, n)) \/ ProcessSubpacket(SubSeq(wire, 1, n))
        /\ wire' = SubSeq(wire, n + 1, Len(wire))
  BY DEF SubmitWire
<1> PICK bytes : bytes = SubSeq(wire, 1, n)
  OBVIOUS
<1>3. wire \in Seq(Octet) /\ ReaderTypeOK /\ Takes(wire, n, bytes, wire')
  BY <1>2, StreamTypes DEF Takes
<1>4. ASSUME NEW more \in Nat, ReaderEnds(more)
      PROVE  ReaderEnds(more)'
  <2>1. CASE ReadHeader(bytes)
    BY <1>3, <1>4, <2>1, ReadingKeeps
  <2>2. CASE ProcessSubpacket(bytes)
    <3>1. phase # "Idle" /\ readerState' = readerState /\ zpadState' = zpadState
      BY <2>2 DEF ProcessSubpacket, EnterResync, readerVars
    <3>2. readerState' = "SeekingZpad" /\ zpadState' = "Idle"
      BY <3>1 DEF MissedInv, ReadersApart
    <3>3. WholeStarts(wire', more)
      BY <1>3, <1>4, LeftWhole DEF ReaderEnds
    <3> QED
      BY <3>2, <3>3 DEF ReaderEnds
  <2> QED
    BY <1>2, <2>1, <2>2
<1>5. ReaderEnds(0) => ReaderEnds(0)'
  BY <1>4
<1>6. ReaderEnds(9) => ReaderEnds(9)'
  BY <1>4
<1>7. (found' = <<>> => found = <<>>) /\ Owed' \in {0, 1} /\ Owed' <= Owed
  <2>1. bytes \in Seq(Octet)
    BY <1>2, <1>3
  <2>2. found' = <<>> => found = <<>>
    BY <1>2, <2>1, ReadHeaderTyped, ProcessSubpacketTyped
  <2> QED
    BY <1>1, <2>2 DEF Owed
<1>8. ASSUME NEW more \in Nat, Lost(more) PROVE Lost(more)'
  <2> PICK now, then : now = Owed /\ then = Owed'
    OBVIOUS
  <2>1. missed + now + more <= 2 * damaged
    BY <1>8 DEF Lost
  <2>2. now \in Nat /\ then \in Nat /\ then <= now /\ missed \in Nat /\ damaged \in Nat
    BY <1>1, <1>7
  <2>3. missed + then + more <= 2 * damaged
    BY ONLY <2>1, <2>2, more \in Nat
  <2>4. missed' + Owed' + more <= 2 * damaged'
    BY <1>1, <2>3
  <2> QED
    BY <2>4 DEF Lost
<1>9. CASE \/ ReaderEnds(0) /\ Lost(0)
           \/ ReaderEnds(9) /\ Lost(1)
           \/ Lost(2)
  <2>1. (Lost(0) => Lost(0)') /\ (Lost(1) => Lost(1)') /\ (Lost(2) => Lost(2)')
    BY <1>8
  <2> QED
    BY <1>1, <1>5, <1>6, <1>9, <2>1 DEF MissedSoFar
<1>10. CASE HeaderDue /\ missed <= 2 * damaged
  <2>1. PICK e \in Script[stage].encodings : HeaderComes(e)
    BY <1>10 DEF HeaderDue
  <2>2. stage > 0 /\ found = <<>> /\ ReaderEnds(0)'
    BY <1>5, <1>10 DEF HeaderDue
  <2>3. ReadHeader(bytes) /\ Submits(bytes, n) /\ HeaderRight
    <3>1. phase = "Idle"
      BY <2>2 DEF TypeInv, InScript
    <3> QED
      BY <1>1, <1>2, <1>3, <3>1 DEF ProcessSubpacket, Submits, MissedInv
  <2>4. CASE found' # <<>>
    <3>1. Lost(0)'
      BY <1>1, <1>10, <2>4 DEF Lost, Owed
    <3> QED
      BY <1>1, <2>2, <3>1 DEF MissedSoFar
  <2>5. CASE HeaderComes(e)' /\ found' = <<>>
    BY <1>1, <1>10, <2>1, <2>2, <2>5 DEF HeaderDue, MissedSoFar
  <2>6. HeaderComes(e)' \/ found' # <<>>
    <3>1. CASE readerState = "SeekingZpad"
      <4>1. ReaderAtRest /\ SeekZpad(bytes)
        BY <2>3, <3>1, HeaderReadingIs DEF MissedInv, ReadersApart
      <4> QED
        BY <2>1, <2>2, <2>3, <4>1, SeekClean
    <3>2. CASE readerState = "ReadingEncoding"
      <4>1. ReadEncoding(bytes) \/ UnknownEncoding(bytes)
        BY <2>3, <3>2, HeaderReadingIs
      <4> QED
        BY <2>1, <2>2, <2>3, <3>2, <4>1, ReadEncodingClean
    <3>3. CASE readerState = "ReadingData"
      <4>1. /\ StopAtEscape(bytes) \/ CollectByte(bytes) => HeaderComes(e)'
            /\ Completes(bytes) => Decoded(bytes) = header
        BY <2>1, <2>2, <2>3, <3>3, CollectClean
      <4>2. ~DropHeader(bytes)
        BY <2>1, <2>2, <2>3, <4>1, HeaderNow DEF DropHeader
      <4>3. found' = Append(found, Decoded(bytes)) => found' # <<>>
        BY <2>2
      <4> QED
        BY <2>3, <3>3, <4>1, <4>2, <4>3, HeaderReadingIs
    <3> QED
      BY <1>3, <3>1, <3>2, <3>3 DEF ReaderTypeOK, HeaderReadState
  <2> QED
    BY <2>4, <2>5, <2>6
<1>11. \/ HeaderDue /\ missed <= 2 * damaged
       \/ ReaderEnds(0) /\ Lost(0)
       \/ ReaderEnds(9) /\ Lost(1)
       \/ Lost(2)
  BY DEF MissedInv, MissedSoFar
<1> QED
  BY <1>9, <1>10, <1>11

LEMMA MissedStep ==
  TypeInv /\ MissedInv /\ [StreamNext]_<<receiverVars, streamVars>> => MissedInv'
<1> SUFFICES ASSUME TypeInv, MissedInv, [StreamNext]_<<receiverVars, streamVars>>
             PROVE  MissedInv'
  OBVIOUS
<1>1. CASE StreamNext
  <2>1. missed' \in Nat /\ MissedSoFar'
    BY <1>1, BeginFrameMissed, SendSubpacketMissed, DamageMissed, SubmitWireMissed
       DEF StreamNext
  <2>2. HeaderRight' /\ ReadersApart'
    BY <1>1, HeaderRightSteps, ReadersApartSteps DEF MissedInv
  <2> QED
    BY <2>1, <2>2 DEF MissedInv
<1>2. CASE UNCHANGED <<receiverVars, streamVars>>
  <2>1. UNCHANGED readerVars /\ UNCHANGED subpacketVars /\ UNCHANGED streamVars
    BY <1>2 DEF receiverVars
  <2>2. HeaderRight' /\ ReadersApart' /\ missed' \in Nat
    BY <2>1 DEF MissedInv, HeaderRight, Subpackets, ReadersApart, ReaderAtRest,
                readerVars, subpacketVars, streamVars
  <2>3. /\ HeaderDue' = HeaderDue /\ missed' = missed /\ damaged' = damaged
        /\ ReaderEnds(0)' = ReaderEnds(0) /\ ReaderEnds(9)' = ReaderEnds(9)
        /\ Lost(0)' = Lost(0) /\ Lost(1)' = Lost(1) /\ Lost(2)' = Lost(2)
    BY <2>1 DEF HeaderDue, HeaderComes, ReaderAtRest, ReaderEnds, Lost, Owed,
                readerVars, streamVars
  <2> QED
    BY <2>2, <2>3 DEF MissedInv, MissedSoFar
<1> QED
  BY <1>1, <1>2

LEMMA MissedBound ==
  ASSUME TypeInv, MissedInv PROVE HeadersFound
<1>1. missed \in Nat /\ damaged \in Nat /\ Owed \in {0, 1}
  BY MissedTypes
<1> QED
  BY <1>1 DEF MissedInv, MissedSoFar, Lost, HeadersFound

\* For every script and checksum, wherever the input is cut and whichever
\* bytes are damaged, and however many: at most two headers are missed for
\* each of them.
THEOREM HeadersAreFound == StreamSpec => []HeadersFound
<1>1. StreamSpec => [](TypeInv /\ MissedInv)
  BY MissedInit, MissedStep, StreamTypeInvariant, PTL DEF StreamSpec
<1>2. TypeInv /\ MissedInv => HeadersFound
  BY MissedBound
<1> QED
  BY <1>1, <1>2, PTL
=============================================================================
