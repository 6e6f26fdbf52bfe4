--------------------------- MODULE SessionProofs ----------------------------
(***************************************************************************)
(* SessionInv is an invariant of the session, for every value of the       *)
(* constants, and the properties of module Session follow from it.         *)
(***************************************************************************)
EXTENDS SessionFlow, SequenceTheorems, WellFoundedInduction, TLAPS

-----------------------------------------------------------------------------
(***************************************************************************)
(* A link p with the output q behind it.                                   *)
(***************************************************************************)
\* Writing the first unit of the output to the link changes nothing.
LEMMA WrittenIsUnderWay ==
  ASSUME NEW T, NEW p \in Seq(T), NEW q \in Seq(T), q # <<>>
  PROVE  /\ Append(p, Head(q)) \in Seq(T)
         /\ SubSeq(q, 2, Len(q)) \in Seq(T)
         /\ Append(p, Head(q)) \o SubSeq(q, 2, Len(q)) = p \o q
<1>1. Head(q) \in T /\ Tail(q) \in Seq(T) /\ Tail(q) = SubSeq(q, 2, Len(q))
  BY HeadTailProperties, TailIsSubSeq
<1>2. Append(p, Head(q)) = p \o <<Head(q)>> /\ Append(p, Head(q)) \in Seq(T)
  BY <1>1, AppendIsConcat, AppendProperties
<1>3. <<Head(q)>> \in Seq(T)
  BY <1>1
<1>4. (p \o <<Head(q)>>) \o Tail(q) = p \o (<<Head(q)>> \o Tail(q))
  BY <1>1, <1>3, ConcatAssociative
<1>5. <<Head(q)>> \o Tail(q) = q
  <2>1. Len(q) \in Nat /\ Len(q) >= 1 /\ Head(q) = q[1]
    OBVIOUS
  <2>2. q = SubSeq(q, 1, Len(q))
    BY SubSeqFull
  <2>3. SubSeq(q, 1, Len(q)) = <<q[1]>> \o SubSeq(q, 2, Len(q))
    BY <2>1, SubSeqRecursiveFirst
  <2> QED
    BY <1>1, <2>1, <2>2, <2>3
<1> QED
  BY <1>1, <1>2, <1>4, <1>5

\* What is taken from the link is the first of all that is under way.
LEMMA FirstIsTaken ==
  ASSUME NEW T, NEW p \in Seq(T), NEW q \in Seq(T), p # <<>>
  PROVE  /\ Head(p) = (p \o q)[1] /\ Len(p \o q) >= 1
         /\ Tail(p) \in Seq(T)
         /\ Len(Tail(p) \o q) = Len(p \o q) - 1
         /\ \A i \in 1 .. Len(p \o q) - 1 : (Tail(p) \o q)[i] = (p \o q)[i + 1]
<1>1. /\ Tail(p) \in Seq(T) /\ Len(Tail(p)) = Len(p) - 1
      /\ \A i \in 1 .. Len(Tail(p)) : Tail(p)[i] = p[i + 1]
  BY HeadTailProperties
<1>2. Len(p) \in Nat /\ Len(p) >= 1 /\ Head(p) = p[1] /\ Len(q) \in Nat
  OBVIOUS
<1>3. /\ Len(p \o q) = Len(p) + Len(q)
      /\ \A i \in 1 .. Len(p) + Len(q) :
           (p \o q)[i] = IF i <= Len(p) THEN p[i] ELSE q[i - Len(p)]
  BY ConcatProperties
<1>4. /\ Len(Tail(p) \o q) = Len(Tail(p)) + Len(q)
      /\ \A i \in 1 .. Len(Tail(p)) + Len(q) :
           (Tail(p) \o q)[i] = IF i <= Len(Tail(p)) THEN Tail(p)[i]
                               ELSE q[i - Len(Tail(p))]
  BY <1>1, ConcatProperties
<1>5. ASSUME NEW i \in 1 .. Len(p \o q) - 1
      PROVE  (Tail(p) \o q)[i] = (p \o q)[i + 1]
  <2>1. CASE i <= Len(Tail(p))
    BY <1>1, <1>2, <1>3, <1>4, <2>1
  <2>2. CASE i > Len(Tail(p))
    BY <1>1, <1>2, <1>3, <1>4, <2>2
  <2> QED
    BY <2>1, <2>2, <1>1, <1>2, <1>3
<1> QED
  BY <1>1, <1>2, <1>3, <1>4, <1>5

\* What is said when nothing is queued comes last.
LEMMA SaidComesLast ==
  ASSUME NEW T, NEW p \in Seq(T), NEW q \in Seq(T)
  PROVE  /\ p \o <<>> = p
         /\ Len(p \o q) = Len(p) + Len(q)
         /\ \A i \in 1 .. Len(p) : (p \o q)[i] = p[i]
         /\ \A i \in 1 .. Len(q) : (p \o q)[Len(p) + i] = q[i]
<1>1. Len(p) \in Nat /\ Len(q) \in Nat
  OBVIOUS
<1> QED
  BY <1>1, ConcatProperties, ConcatEmptySeq

-----------------------------------------------------------------------------
(***************************************************************************)
(* What a step does to what is under way: nothing, its first unit is       *)
(* taken, or units are added behind it.                                    *)
(***************************************************************************)
DownTaken ==
  /\ Len(Down) >= 1 /\ Head(down) = Down[1]
  /\ Len(Down') = Len(Down) - 1
  /\ \A i \in 1 .. Len(Down) - 1 : Down'[i] = Down[i + 1]
DownSaid(units) ==
  /\ Len(Down') = Len(Down) + Len(units)
  /\ \A i \in 1 .. Len(Down) : Down'[i] = Down[i]
  /\ \A i \in 1 .. Len(units) : Down'[Len(Down) + i] = units[i]
UpTaken ==
  /\ Len(Up) >= 1 /\ Head(up) = Up[1]
  /\ Len(Up') = Len(Up) - 1
  /\ \A i \in 1 .. Len(Up) - 1 : Up'[i] = Up[i + 1]
UpSaid(unit) ==
  /\ Len(Up') = Len(Up) + 1
  /\ \A i \in 1 .. Len(Up) : Up'[i] = Up[i]
  /\ Up'[Len(Up) + 1] = unit

LaneTypes ==
  /\ down \in Seq(Unit) /\ sOutgoing \in Seq(Unit)
  /\ up \in Seq(HeaderUnit) /\ rOutgoing \in Seq(HeaderUnit)

\* The four lanes are typed wherever the invariant holds.
LEMMA InvTypesLanes == SessionInv => LaneTypes
  BY DEF SessionInv, SenderOK, ReceiverOK, LinkOK, LaneTypes

\* What is under way is a sequence.
LEMMA LanesAreSequences ==
  ASSUME LaneTypes
  PROVE  /\ Down \in Seq(Unit) /\ Len(Down) \in Nat
         /\ Up \in Seq(HeaderUnit) /\ Len(Up) \in Nat
         /\ Len(up) \in Nat /\ Len(up) <= Len(Up)
<1>1. Len(down) \in Nat /\ Len(sOutgoing) \in Nat /\ Len(up) \in Nat /\ Len(rOutgoing) \in Nat
  BY DEF LaneTypes
<1>2. Down \in Seq(Unit) /\ Len(Down) \in Nat
  BY <1>1, ConcatProperties DEF LaneTypes, Down
<1>3. Up \in Seq(HeaderUnit) /\ Len(Up) = Len(up) + Len(rOutgoing)
  BY ConcatProperties DEF LaneTypes, Up
<1> QED
  BY <1>1, <1>2, <1>3

LEMMA SenderWritesUnit ==
  ASSUME LaneTypes, sOutgoing # <<>>,
         down' = Append(down, Head(sOutgoing)),
         sOutgoing' = SubSeq(sOutgoing, 2, Len(sOutgoing))
  PROVE  Down' = Down /\ down' \in Seq(Unit) /\ sOutgoing' \in Seq(Unit)
<1>1. down \in Seq(Unit) /\ sOutgoing \in Seq(Unit)
  BY DEF LaneTypes
<1>2. Down' = Append(down, Head(sOutgoing)) \o SubSeq(sOutgoing, 2, Len(sOutgoing))
  BY DEF Down
<1>3. /\ Append(down, Head(sOutgoing)) \in Seq(Unit)
      /\ SubSeq(sOutgoing, 2, Len(sOutgoing)) \in Seq(Unit)
      /\ Append(down, Head(sOutgoing)) \o SubSeq(sOutgoing, 2, Len(sOutgoing)) = down \o sOutgoing
  BY <1>1, WrittenIsUnderWay
<1>4. Down = down \o sOutgoing
  BY DEF Down
<1> QED
  BY <1>2, <1>3, <1>4

LEMMA ReceiverWritesUnit ==
  ASSUME LaneTypes, rOutgoing # <<>>,
         up' = Append(up, Head(rOutgoing)),
         rOutgoing' = SubSeq(rOutgoing, 2, Len(rOutgoing))
  PROVE  Up' = Up /\ up' \in Seq(HeaderUnit) /\ rOutgoing' \in Seq(HeaderUnit)
<1>1. up \in Seq(HeaderUnit) /\ rOutgoing \in Seq(HeaderUnit)
  BY DEF LaneTypes
<1>2. Up' = Append(up, Head(rOutgoing)) \o SubSeq(rOutgoing, 2, Len(rOutgoing))
  BY DEF Up
<1>3. /\ Append(up, Head(rOutgoing)) \in Seq(HeaderUnit)
      /\ SubSeq(rOutgoing, 2, Len(rOutgoing)) \in Seq(HeaderUnit)
      /\ Append(up, Head(rOutgoing)) \o SubSeq(rOutgoing, 2, Len(rOutgoing)) = up \o rOutgoing
  BY <1>1, WrittenIsUnderWay
<1>4. Up = up \o rOutgoing
  BY DEF Up
<1> QED
  BY <1>2, <1>3, <1>4

LEMMA ReceiverTakesUnit ==
  ASSUME LaneTypes, down # <<>>, down' = Tail(down), sOutgoing' = sOutgoing
  PROVE  DownTaken /\ down' \in Seq(Unit)
<1>1. Down' = Tail(down) \o sOutgoing
  BY DEF Down
<1> QED
  BY <1>1, FirstIsTaken DEF LaneTypes, DownTaken, Down

LEMMA SenderTakesUnit ==
  ASSUME LaneTypes, up # <<>>, up' = Tail(up), rOutgoing' = rOutgoing
  PROVE  UpTaken /\ up' \in Seq(HeaderUnit)
<1>1. Up' = Tail(up) \o rOutgoing
  BY DEF Up
<1> QED
  BY <1>1, FirstIsTaken DEF LaneTypes, UpTaken, Up

LEMMA SenderSays ==
  ASSUME LaneTypes, NEW units \in Seq(Unit), sOutgoing = <<>>,
         sOutgoing' = units, down' = down
  PROVE  DownSaid(units)
<1>1. Down = down /\ Down' = down \o units
  BY SaidComesLast DEF LaneTypes, Down
<1> QED
  BY <1>1, SaidComesLast DEF LaneTypes, DownSaid

LEMMA ReceiverSays ==
  ASSUME LaneTypes, NEW unit \in HeaderUnit, rOutgoing = <<>>,
         rOutgoing' = <<unit>>, up' = up
  PROVE  UpSaid(unit) /\ rOutgoing' \in Seq(HeaderUnit) /\ Up = up
<1>1. Up = up /\ Up' = up \o <<unit>> /\ <<unit>> \in Seq(HeaderUnit)
  BY SaidComesLast DEF LaneTypes, Up
<1>2. Len(<<unit>>) = 1 /\ <<unit>>[1] = unit
  OBVIOUS
<1> QED
  BY <1>1, <1>2, SaidComesLast DEF LaneTypes, UpSaid

-----------------------------------------------------------------------------
(***************************************************************************)
(* What these steps do to a frame that is under way.                       *)
(***************************************************************************)
SenderGoesOnOrStops ==
  /\ \/ sState' = "Done"
     \/ sState' = sState /\ pendingRequest' = pendingRequest
  /\ offered' = offered

LEMMA FrameMovesUp ==
  ASSUME LaneTypes, DownTaken, SenderGoesOnOrStops,
         NEW first \in Nat \ {0}, first <= Len(Down), NEW start \in Nat,
         RestOfFrame(first + 1), DataFrom(first + 1, start)
  PROVE  RestOfFrame(first)' /\ DataFrom(first, start)'
<1>1. Len(Down) \in Nat /\ Len(Down') = Len(Down) - 1
  BY LanesAreSequences DEF DownTaken
<1>2. RestOfFrame(first)'
  <2>1. ASSUME NEW i \in first .. Len(Down')
        PROVE  /\ LiveUnit(Down'[i])
               /\ i < Len(Down') =>
                    IF GoesOn(Down'[i]) THEN Down'[i + 1].is = "subpacket"
                                        ELSE Noise(Down'[i + 1])
    <3>1. i + 1 \in first + 1 .. Len(Down) /\ i \in 1 .. Len(Down) - 1
      BY <1>1
    <3>2. Down'[i] = Down[i + 1] /\ LiveUnit(Down[i + 1])
      BY <3>1 DEF DownTaken, RestOfFrame
    <3>3. ASSUME i < Len(Down')
          PROVE  IF GoesOn(Down'[i]) THEN Down'[i + 1].is = "subpacket"
                                     ELSE Noise(Down'[i + 1])
      <4>1. i + 1 \in 1 .. Len(Down) - 1 /\ i + 1 < Len(Down)
        BY <1>1, <3>3
      <4>2. Down'[i + 1] = Down[i + 1 + 1]
        BY <4>1 DEF DownTaken
      <4> QED
        BY <3>1, <3>2, <4>1, <4>2 DEF RestOfFrame
    <3> QED
      BY <3>2, <3>3
  <2>2. ASSUME first <= Len(Down')
        PROVE  /\ sState' = "NeedFileData" => GoesOn(Down'[Len(Down')])
               /\ sState' = "WaitFileAck" => ~GoesOn(Down'[Len(Down')])
    <3>1. Down'[Len(Down')] = Down[Len(Down)]
      BY <1>1, <2>2 DEF DownTaken
    <3> QED
      BY <1>1, <2>2, <3>1 DEF RestOfFrame, SenderGoesOnOrStops
  <2> QED
    BY <2>1, <2>2 DEF RestOfFrame
<1>3. DataFrom(first, start)'
  <2>0. CurrentFile' = CurrentFile
    BY DEF CurrentFile, SenderGoesOnOrStops
  <2>1. PICK at \in [first + 1 .. Len(Down) + 1 -> 0 .. Len(Content[CurrentFile])] :
          /\ at[first + 1] = start
          /\ \A i \in first + 1 .. Len(Down) : Carries(Down[i], CurrentFile, at[i], at[i + 1])
          /\ sState = "NeedFileData" => at[Len(Down) + 1] = pendingRequest.offset
    BY DEF DataFrom
  <2> DEFINE moved == [i \in first .. Len(Down') + 1 |-> at[i + 1]]
  <2>2. moved \in [first .. Len(Down') + 1 -> 0 .. Len(Content[CurrentFile])]
    BY <1>1
  <2>3. moved[first] = start
    BY <1>1, <2>1
  <2>4. ASSUME NEW i \in first .. Len(Down')
        PROVE  Carries(Down'[i], CurrentFile, moved[i], moved[i + 1])
    <3>1. i + 1 \in first + 1 .. Len(Down) /\ i \in 1 .. Len(Down) - 1
      BY <1>1
    <3>2. Down'[i] = Down[i + 1] /\ moved[i] = at[i + 1] /\ moved[i + 1] = at[i + 1 + 1]
      BY <1>1, <3>1 DEF DownTaken
    <3> QED
      BY <2>1, <3>1, <3>2
  <2>5. ASSUME sState' = "NeedFileData"
        PROVE  moved[Len(Down') + 1] = pendingRequest'.offset
    <3>1. moved[Len(Down') + 1] = at[Len(Down) + 1]
      BY <1>1
    <3> QED
      BY <2>1, <2>5, <3>1 DEF SenderGoesOnOrStops
  <2> HIDE DEF moved
  <2> QED
    BY <2>0, <2>2, <2>3, <2>4, <2>5 DEF DataFrom
<1> QED
  BY <1>2, <1>3

LEMMA FrameStays ==
  ASSUME LaneTypes, Down' = Down, SenderGoesOnOrStops,
         NEW first \in Nat, NEW start \in Nat,
         RestOfFrame(first), DataFrom(first, start)
  PROVE  RestOfFrame(first)' /\ DataFrom(first, start)'
<1>1. CurrentFile' = CurrentFile
  BY DEF CurrentFile, SenderGoesOnOrStops
<1>2. RestOfFrame(first)'
  BY DEF RestOfFrame, SenderGoesOnOrStops
<1>3. DataFrom(first, start)'
  <2>1. PICK at \in [first .. Len(Down) + 1 -> 0 .. Len(Content[CurrentFile])] :
          /\ at[first] = start
          /\ \A i \in first .. Len(Down) :
               Carries(Down[i], CurrentFile, at[i], at[i + 1])
          /\ sState = "NeedFileData" => at[Len(Down) + 1] = pendingRequest.offset
    BY DEF DataFrom
  <2>2. sState' = "NeedFileData" => at[Len(Down) + 1] = pendingRequest'.offset
    BY <2>1 DEF SenderGoesOnOrStops
  <2> QED
    BY <1>1, <2>1, <2>2 DEF DataFrom
<1> QED
  BY <1>2, <1>3

\* One more unit, of n bytes, carries on where the data under way ends.
LEMMA DataExtends ==
  ASSUME LaneTypes, NEW unit, NEW n \in Nat, DownSaid(<<unit>>),
         offered' = offered,
         NEW first \in Nat \ {0}, first <= Len(Down) + 1, NEW start \in Nat,
         DataFrom(first, start),
         \A p \in 0 .. Len(Content[CurrentFile]) :
           (sState = "NeedFileData" => p = pendingRequest.offset) =>
             /\ p + n <= Len(Content[CurrentFile])
             /\ Carries(unit, CurrentFile, p, p + n)
             /\ sState' = "NeedFileData" => p + n = pendingRequest'.offset
  PROVE  DataFrom(first, start)'
<1>1. CurrentFile' = CurrentFile
  BY DEF CurrentFile
<1>2. /\ Len(Down) \in Nat /\ Len(Down') = Len(Down) + 1
      /\ \A i \in 1 .. Len(Down) : Down'[i] = Down[i]
      /\ Down'[Len(Down) + 1] = unit
  <2>1. Len(<<unit>>) = 1 /\ <<unit>>[1] = unit
    OBVIOUS
  <2>2. 1 \in 1 .. Len(<<unit>>)
    BY <2>1
  <2> QED
    BY <2>1, <2>2, LanesAreSequences DEF DownSaid
<1>3. PICK at \in [first .. Len(Down) + 1 -> 0 .. Len(Content[CurrentFile])] :
        /\ at[first] = start
        /\ \A i \in first .. Len(Down) :
             Carries(Down[i], CurrentFile, at[i], at[i + 1])
        /\ sState = "NeedFileData" => at[Len(Down) + 1] = pendingRequest.offset
  BY DEF DataFrom
<1> DEFINE p == at[Len(Down) + 1]
           longer == [i \in first .. Len(Down') + 1 |->
                        IF i <= Len(Down) + 1 THEN at[i] ELSE p + n]
<1>4. p \in 0 .. Len(Content[CurrentFile])
  BY <1>2
<1>5. /\ p + n <= Len(Content[CurrentFile])
      /\ Carries(unit, CurrentFile, p, p + n)
      /\ sState' = "NeedFileData" => p + n = pendingRequest'.offset
  BY <1>3, <1>4
<1>6. longer \in [first .. Len(Down') + 1 -> 0 .. Len(Content[CurrentFile])]
  BY <1>2, <1>4, <1>5
<1>7. longer[first] = start
  BY <1>2, <1>3
<1>8. ASSUME NEW i \in first .. Len(Down')
      PROVE  Carries(Down'[i], CurrentFile, longer[i], longer[i + 1])
  <2>1. CASE i <= Len(Down)
    <3>1. i \in first .. Len(Down) /\ i \in 1 .. Len(Down)
      BY <1>2, <2>1
    <3>2. Down'[i] = Down[i] /\ longer[i] = at[i] /\ longer[i + 1] = at[i + 1]
      BY <1>2, <3>1
    <3> QED
      BY <1>3, <3>1, <3>2
  <2>2. CASE i = Len(Down) + 1
    <3>1. Down'[i] = unit /\ longer[i] = p /\ longer[i + 1] = p + n
      BY <1>2, <2>2
    <3> QED
      BY <1>5, <3>1
  <2> QED
    BY <1>2, <2>1, <2>2
<1>9. longer[Len(Down') + 1] = p + n
  BY <1>2
<1> HIDE DEF longer, p
<1> QED
  BY <1>1, <1>5, <1>6, <1>7, <1>8, <1>9 DEF DataFrom

\* One more unit follows where the frame under way leaves room for it.
LEMMA FrameExtends ==
  ASSUME LaneTypes, NEW unit, DownSaid(<<unit>>), LiveUnit(unit),
         NEW first \in Nat \ {0}, first <= Len(Down) + 1,
         RestOfFrame(first),
         \/ sState = "NeedFileData" /\ unit.is = "subpacket"
         \/ sState = "WaitFileAck" /\ Noise(unit),
         sState' = "NeedFileData" => GoesOn(unit),
         sState' = "WaitFileAck" => ~GoesOn(unit)
  PROVE  RestOfFrame(first)'
<1>1. /\ Len(Down) \in Nat /\ Len(Down') = Len(Down) + 1
      /\ \A i \in 1 .. Len(Down) : Down'[i] = Down[i]
      /\ Down'[Len(Down) + 1] = unit
  <2>1. Len(<<unit>>) = 1 /\ <<unit>>[1] = unit
    OBVIOUS
  <2>2. 1 \in 1 .. Len(<<unit>>)
    BY <2>1
  <2> QED
    BY <2>1, <2>2, LanesAreSequences DEF DownSaid
<1>2. ASSUME NEW i \in first .. Len(Down')
      PROVE  /\ LiveUnit(Down'[i])
             /\ i < Len(Down') =>
                  IF GoesOn(Down'[i]) THEN Down'[i + 1].is = "subpacket"
                                      ELSE Noise(Down'[i + 1])
  <2>1. CASE i < Len(Down)
    <3>1. i \in first .. Len(Down) /\ Down'[i] = Down[i] /\ Down'[i + 1] = Down[i + 1]
      BY <1>1, <2>1
    <3> QED
      BY <2>1, <3>1 DEF RestOfFrame
  <2>2. CASE i = Len(Down)
    <3>1. i \in first .. Len(Down) /\ first <= Len(Down)
          /\ Down'[i] = Down[Len(Down)] /\ Down'[i + 1] = unit
      BY <1>1, <2>2
    <3>2. /\ LiveUnit(Down[Len(Down)])
          /\ sState = "NeedFileData" => GoesOn(Down[Len(Down)])
          /\ sState = "WaitFileAck" => ~GoesOn(Down[Len(Down)])
      BY <3>1, <2>2 DEF RestOfFrame
    <3> QED
      BY <3>1, <3>2
  <2>3. CASE i = Len(Down) + 1
    BY <1>1, <2>3
  <2> QED
    BY <1>1, <2>1, <2>2, <2>3
<1>3. Down'[Len(Down')] = unit
  BY <1>1
<1> QED
  BY <1>2, <1>3 DEF RestOfFrame

-----------------------------------------------------------------------------
(***************************************************************************)
(* What a step may leave alone.                                            *)
(***************************************************************************)
KeepsSender ==
  /\ UNCHANGED <<sState, sHasFile, sFileName, sFileSize, pendingRequest,
                 frameNeedsHeader, offered>>
  /\ maxSubpacketSize' \in Nat \ {0}
  /\ \/ finishRequested' = finishRequested
     \/ finishRequested' = TRUE /\ offered = Len(Files)
KeepsReceiver ==
  UNCHANGED <<rState, count, rFileName, buf, bufWriteOffset, subpacketState,
              pendingEvents, manualAccept>>
KeepsWorld == UNCHANGED <<offered, disk, declined, completed>>

LEMMA SameWorld ==
  ASSUME KeepsWorld
  PROVE  /\ CurrentFile' = CurrentFile /\ Begun' = Begun
         /\ Undecided' <=> Undecided
         /\ \A name : Has(name)' <=> Has(name)
         /\ \A name : Settled(name)' <=> Settled(name)
         /\ AllSettled' <=> AllSettled
         /\ WorldOK => WorldOK'
<1>1. CurrentFile' = CurrentFile /\ Begun' = Begun
  BY DEF KeepsWorld, CurrentFile, Begun
<1>2. Undecided' <=> Undecided
  BY <1>1 DEF KeepsWorld, Undecided
<1>3. ASSUME NEW name
      PROVE  (Has(name)' <=> Has(name)) /\ (Settled(name)' <=> Settled(name))
  BY DEF KeepsWorld, Has, Settled
<1>4. AllSettled' <=> AllSettled
  BY DEF KeepsWorld, AllSettled, Settled, Has
<1>5. WorldOK => WorldOK'
  BY <1>1 DEF KeepsWorld, WorldOK, DiskIsPrefix, CompletedIsWhole, Has
<1> QED
  BY <1>1, <1>2, <1>3, <1>4, <1>5

LEMMA SameSender ==
  ASSUME KeepsSender, SenderOK, sOutgoing' \in Seq(Unit)
  PROVE  SenderOK'
<1>1. /\ finishRequested' \in BOOLEAN
      /\ finishRequested' => offered = Len(Files)
      /\ finishRequested => finishRequested'
  <2>1. CASE finishRequested' = finishRequested
    BY <2>1 DEF SenderOK
  <2>2. CASE finishRequested' = TRUE /\ offered = Len(Files)
    BY <2>2
  <2> QED
    BY <2>1, <2>2 DEF KeepsSender
<1>2. CurrentFile' = CurrentFile /\ maxSubpacketSize' \in Nat \ {0}
      /\ UNCHANGED <<sState, sHasFile, sFileName, sFileSize, pendingRequest,
                     offered>>
  BY DEF KeepsSender, CurrentFile
<1> QED
  BY <1>1, <1>2 DEF SenderOK

LEMMA SameReceiver ==
  ASSUME KeepsReceiver, offered' = offered, ReceiverOK,
         rOutgoing' \in Seq(HeaderUnit)
  PROVE  /\ ReceiverOK'
         /\ ReceiverIdle' <=> ReceiverIdle
         /\ ResetDue' <=> ResetDue
<1>1. ReceiverIdle' <=> ReceiverIdle
  BY DEF KeepsReceiver, ReceiverIdle
<1>2. ResetDue' <=> ResetDue
  BY DEF KeepsReceiver, ResetDue
<1>3. ReceiverOK'
  BY <1>2 DEF KeepsReceiver, ReceiverOK, Begun
<1> QED
  BY <1>1, <1>2, <1>3

\* Settled files stay settled when the sender goes on waiting, or stops.
LEMMA SameSettled ==
  ASSUME KeepsWorld, sState' = sState \/ sState' = "Done", FilesSettled
  PROVE  FilesSettled'
<1>1. /\ CurrentFile' = CurrentFile /\ offered' = offered
      /\ \A name : (Settled(name)' <=> Settled(name)) /\ (Has(name)' <=> Has(name))
  BY SameWorld DEF KeepsWorld
<1>2. \A i \in 1 .. offered - 1 : Settled(Files[i])'
  BY <1>1 DEF FilesSettled
<1>3. sState' \in {"ReadyForFile", "WaitFinish"} /\ offered > 0 => Settled(CurrentFile)'
  BY <1>1 DEF FilesSettled
<1>4. sState' = "WaitFileDone" => Has(CurrentFile)'
  BY <1>1 DEF FilesSettled
<1> QED
  BY <1>1, <1>2, <1>3, <1>4 DEF FilesSettled

-----------------------------------------------------------------------------
(***************************************************************************)
(* Steps of the sender that are nobody's turn: it writes what it has       *)
(* queued, drops a header it does not act on, adds noise.                  *)
(***************************************************************************)
DownChatters ==
  \/ Down' = Down
  \/ /\ sState \notin {"NeedFileData", "Done"}
     /\ \E unit : Noise(unit) /\ DownSaid(<<unit>>)
UpHeard ==
  \/ Up' = Up /\ up' = up
  \/ UpTaken /\ Len(up') = Len(up) - 1 /\ Up[1].frame \notin Answers

LEMMA NoiseIsPlain ==
  ASSUME NEW unit, Noise(unit)
  PROVE  /\ Plain(unit) /\ LiveUnit(unit) /\ ~GoesOn(unit)
         /\ unit.is = "header" /\ unit.frame \in {"ZRQINIT", "ZNAK"}
  BY DEF Noise, IsFrame, Plain, LiveUnit, GoesOn

LEMMA OneMoreUnit ==
  ASSUME LaneTypes, NEW unit, DownSaid(<<unit>>)
  PROVE  /\ Len(Down) \in Nat /\ Len(Down') = Len(Down) + 1
         /\ \A i \in 1 .. Len(Down) : Down'[i] = Down[i]
         /\ Down'[Len(Down) + 1] = unit
<1>1. Len(<<unit>>) = 1 /\ <<unit>>[1] = unit
  OBVIOUS
<1>2. 1 \in 1 .. Len(<<unit>>)
  BY <1>1
<1> QED
  BY <1>1, <1>2, LanesAreSequences DEF DownSaid

LEMMA ChatterBehind ==
  ASSUME LaneTypes, DownChatters
  PROVE  /\ Len(Down) \in Nat /\ Len(Down') \in Nat /\ Len(Down) <= Len(Down')
         /\ \A i \in 1 .. Len(Down) : Down'[i] = Down[i]
         /\ \A i \in Len(Down) + 1 .. Len(Down') : Noise(Down'[i])
<1>1. CASE Down' = Down
  BY <1>1, LanesAreSequences
<1>2. ASSUME NEW unit, Noise(unit), DownSaid(<<unit>>)
      PROVE  /\ Len(Down) \in Nat /\ Len(Down') \in Nat /\ Len(Down) <= Len(Down')
             /\ \A i \in 1 .. Len(Down) : Down'[i] = Down[i]
             /\ \A i \in Len(Down) + 1 .. Len(Down') : Noise(Down'[i])
  BY <1>2, OneMoreUnit
<1> QED
  BY <1>1, <1>2 DEF DownChatters

\* Any unit now under way was under way before or is noise.
LEMMA NothingNewButNoise ==
  ASSUME LaneTypes, DownChatters, NEW i \in 1 .. Len(Down')
  PROVE  (i \in 1 .. Len(Down) /\ Down'[i] = Down[i]) \/ Noise(Down'[i])
<1>1. CASE i <= Len(Down)
  BY <1>1, ChatterBehind
<1>2. CASE i > Len(Down)
  BY <1>2, ChatterBehind
<1> QED
  BY <1>1, <1>2, ChatterBehind

LEMMA NothingNewUp ==
  ASSUME LaneTypes, UpHeard, NEW i \in 1 .. Len(Up')
  PROVE  \E j \in 1 .. Len(Up) : Up'[i] = Up[j]
<1>1. CASE Up' = Up
  BY <1>1
<1>2. CASE UpTaken
  <2>1. i \in 1 .. Len(Up) - 1 /\ i + 1 \in 1 .. Len(Up)
    BY <1>2, LanesAreSequences DEF UpTaken
  <2> QED
    BY <1>2, <2>1 DEF UpTaken
<1> QED
  BY <1>1, <1>2 DEF UpHeard

LEMMA ChatterNoAnswer ==
  ASSUME LaneTypes, UpHeard, NoAnswer
  PROVE  NoAnswer'
  BY NothingNewUp DEF NoAnswer

LEMMA ChatterLink ==
  ASSUME LaneTypes, LinkOK, DownChatters, UpHeard,
         down' \in Seq(Unit), up' \in Seq(HeaderUnit)
  PROVE  LinkOK'
<1>1. ASSUME NEW i \in 1 .. Len(Down'), Down'[i].is = "header"
      PROVE  Down'[i].frame \in {"ZRQINIT", "ZNAK", "ZFILE", "ZDATA", "ZEOF", "ZFIN"}
  BY <1>1, NothingNewButNoise, NoiseIsPlain DEF LinkOK
<1>2. ASSUME NEW i \in 1 .. Len(Up')
      PROVE  Up'[i].frame \in {"ZRINIT", "ZNAK", "ZFIN"} \cup Answers
  BY <1>2, NothingNewUp DEF LinkOK
<1> QED
  BY <1>1, <1>2 DEF LinkOK

\* A header of one of these sorts under way now was under way before.
LEMMA ChatterFrames ==
  ASSUME LaneTypes, DownChatters, NEW i \in 1 .. Len(Down'),
         IsFrame(Down'[i], {"ZFILE", "ZDATA", "ZEOF", "ZFIN"})
  PROVE  i \in 1 .. Len(Down) /\ Down'[i] = Down[i]
  BY NothingNewButNoise, NoiseIsPlain DEF IsFrame

LEMMA ChatterFrame ==
  ASSUME LaneTypes, KeepsSender, DownChatters, Sending,
         NEW first \in Nat \ {0}, first <= Len(Down) + 1, NEW start \in Nat,
         RestOfFrame(first), DataFrom(first, start)
  PROVE  RestOfFrame(first)' /\ DataFrom(first, start)'
<1>1. CASE Down' = Down
  BY <1>1, FrameStays DEF KeepsSender, SenderGoesOnOrStops
<1>2. CASE ~(Down' = Down)
  <2>1. PICK unit : Noise(unit) /\ DownSaid(<<unit>>)
    BY <1>2 DEF DownChatters
  <2>2. sState = "WaitFileAck" /\ sState' = "WaitFileAck" /\ offered' = offered
    BY <1>2 DEF DownChatters, Sending, KeepsSender
  <2>3. LiveUnit(unit) /\ ~GoesOn(unit) /\ unit.is = "header"
    BY <2>1, NoiseIsPlain
  <2>4. RestOfFrame(first)'
    BY <2>1, <2>2, <2>3, FrameExtends
  <2>5. \A p \in 0 .. Len(Content[CurrentFile]) :
          /\ p + 0 <= Len(Content[CurrentFile])
          /\ Carries(unit, CurrentFile, p, p + 0)
    BY <2>3 DEF Carries
  <2>6. DataFrom(first, start)'
    BY <2>1, <2>2, <2>5, DataExtends
  <2> QED
    BY <2>4, <2>6
<1> QED
  BY <1>1, <1>2

\* Whoever's turn it was, it still is.
LEMMA ChatterTurn ==
  ASSUME SessionInv, LaneTypes, KeepsSender, KeepsReceiver, KeepsWorld,
         DownChatters, UpHeard
  PROVE  SomeTurn'
<1>1. /\ ReceiverIdle' <=> ReceiverIdle
      /\ ResetDue' <=> ResetDue
      /\ OwesHeader' <=> OwesHeader
      /\ Undecided' <=> Undecided
      /\ CurrentFile' = CurrentFile
      /\ Sending' <=> Sending
      /\ Taken' <=> Taken
      /\ Synced' <=> Synced
  <2>1. (ReceiverIdle' <=> ReceiverIdle) /\ (ResetDue' <=> ResetDue)
    BY DEF KeepsReceiver, ReceiverIdle, ResetDue
  <2>2. (Undecided' <=> Undecided) /\ CurrentFile' = CurrentFile
    BY SameWorld
  <2>3. (OwesHeader' <=> OwesHeader) /\ (Sending' <=> Sending)
    BY DEF KeepsSender, OwesHeader, Sending
  <2>4. (Taken' <=> Taken) /\ (Synced' <=> Synced)
    BY <2>2 DEF Taken, Synced, KeepsReceiver, KeepsWorld
  <2> QED
    BY <2>1, <2>2, <2>3, <2>4
<1>2. /\ Len(Down) \in Nat /\ Len(Down') \in Nat /\ Len(Down) <= Len(Down')
      /\ \A i \in 1 .. Len(Down) : Down'[i] = Down[i]
      /\ \A i \in Len(Down) + 1 .. Len(Down') : Noise(Down'[i])
  BY ChatterBehind
<1>3. (\A i \in 1 .. Len(Down) : Plain(Down[i]))
      => \A i \in 1 .. Len(Down') : Plain(Down'[i])
  BY NothingNewButNoise, NoiseIsPlain
<1>4. NoAnswer => NoAnswer'
  BY ChatterNoAnswer
<1>5. CASE NoTurn
  <2>1. \A i \in 1 .. Len(Down') : ~IsFrame(Down'[i], {"ZFILE", "ZDATA"})
    BY <1>5, NothingNewButNoise, NoiseIsPlain DEF NoTurn, IsFrame
  <2>2. NoTurn'
    BY <1>1, <1>4, <1>5, <2>1 DEF NoTurn, KeepsSender, KeepsReceiver
  <2> QED
    BY <2>2 DEF SomeTurn
<1>6. CASE AnnouncementUnderWay
  <2>1. PICK k \in 1 .. Len(Down) :
          /\ IsFrame(Down[k], {"ZFILE"})
          /\ k < Len(Down) /\ Announced(Down[k + 1])
          /\ \A i \in 1 .. k - 1 : ~IsFrame(Down[i], {"ZFILE", "ZDATA", "ZFIN"})
          /\ \A i \in k + 2 .. Len(Down) : Noise(Down[i])
    BY <1>6 DEF AnnouncementUnderWay
  <2>2. k \in 1 .. Len(Down') /\ k < Len(Down')
        /\ IsFrame(Down'[k], {"ZFILE"}) /\ Announced(Down[k + 1])'
    BY <1>1, <1>2, <2>1 DEF Announced
  <2>3. \A i \in 1 .. k - 1 : ~IsFrame(Down'[i], {"ZFILE", "ZDATA", "ZFIN"})
    <3>1. \A i \in 1 .. k - 1 : Down'[i] = Down[i]
      BY <1>2, <2>1
    <3> QED
      BY <2>1, <3>1
  <2>4. ASSUME NEW i \in k + 2 .. Len(Down')
        PROVE  Noise(Down'[i])
    BY <1>2, <2>1
  <2>6. AnnouncementUnderWay'
    BY <1>1, <1>4, <1>6, <2>1, <2>2, <2>3, <2>4
       DEF AnnouncementUnderWay, KeepsSender, KeepsReceiver
  <2> QED
    BY <2>6 DEF SomeTurn
<1>7. CASE ReadingAnnouncement
  <2>1. Down # <<>> /\ Announced(Down[1]) /\ \A i \in 2 .. Len(Down) : Noise(Down[i])
    BY <1>7 DEF ReadingAnnouncement
  <2>2. Len(Down) >= 1
    BY <1>2, <2>1, LanesAreSequences
  <2>3. Down' # <<>> /\ Announced(Down[1])'
    BY <1>1, <1>2, <2>1, <2>2 DEF Announced
  <2>4. \A i \in 2 .. Len(Down') : Noise(Down'[i])
    BY <1>2, <2>1
  <2>5. ReadingAnnouncement'
    BY <1>1, <1>4, <1>7, <2>3, <2>4
       DEF ReadingAnnouncement, KeepsSender, KeepsReceiver
  <2> QED
    BY <2>5 DEF SomeTurn
<1>8. CASE Deciding
  <2>1. Deciding'
    BY <1>1, <1>3, <1>4, <1>8 DEF Deciding, KeepsSender, KeepsReceiver
  <2> QED
    BY <2>1 DEF SomeTurn
<1>9. CASE AnswerUnderWay
  <2>1. PICK k \in 1 .. Len(Up) :
          /\ Up[k].frame \in Answers
          /\ \A i \in 1 .. Len(Up) : Up[i].frame \in Answers => i = k
          /\ AnswersCurrent(k)
    BY <1>9 DEF AnswerUnderWay
  <2>2. \E m \in 1 .. Len(Up') :
          /\ Up'[m].frame \in Answers
          /\ \A i \in 1 .. Len(Up') : Up'[i].frame \in Answers => i = m
          /\ AnswersCurrent(m)'
    <3>1. CASE Up' = Up /\ up' = up
      <4>1. AnswersCurrent(k)'
        BY <1>1, <2>1, <3>1
           DEF AnswersCurrent, KeepsSender, KeepsReceiver, KeepsWorld
      <4> QED
        BY <2>1, <3>1, <4>1
    <3>2. CASE UpTaken /\ Len(up') = Len(up) - 1 /\ Up[1].frame \notin Answers
      <4>1. /\ Len(Up) \in Nat /\ Len(up) \in Nat /\ k # 1
            /\ Len(Up') = Len(Up) - 1
            /\ \A i \in 1 .. Len(Up) - 1 : Up'[i] = Up[i + 1]
        BY <2>1, <3>2, LanesAreSequences DEF UpTaken
      <4>2. k - 1 \in 1 .. Len(Up') /\ Up'[k - 1] = Up[k]
        BY <4>1
      <4>3. ASSUME NEW i \in 1 .. Len(Up'), Up'[i].frame \in Answers
            PROVE  i = k - 1
        <5>1. i + 1 \in 1 .. Len(Up) /\ Up[i + 1].frame \in Answers
          BY <4>1, <4>3
        <5> QED
          BY <2>1, <4>1, <5>1
      <4>4. AnswersCurrent(k - 1)'
        <5>1. k > Len(up) => k - 1 > Len(up')
          BY <3>2, <4>1
        <5>2. CASE Up[k].frame = "ZSKIP"
          BY <1>1, <2>1, <4>2, <5>2
             DEF AnswersCurrent, KeepsSender, KeepsReceiver, KeepsWorld
        <5>3. CASE Up[k].frame # "ZSKIP"
          BY <1>1, <2>1, <4>2, <5>1, <5>3
             DEF AnswersCurrent, KeepsSender, KeepsReceiver, KeepsWorld
        <5> QED
          BY <5>2, <5>3
      <4> QED
        BY <2>1, <4>2, <4>3, <4>4
    <3> QED
      BY <3>1, <3>2 DEF UpHeard
  <2>3. pendingEvents' = pendingEvents /\ completed' = completed /\ offered' = offered
        /\ rFileName' = rFileName /\ sState' = sState
    BY DEF KeepsReceiver, KeepsWorld, KeepsSender
  <2>4. AnswerUnderWay'
    BY <1>1, <1>3, <1>9, <2>2, <2>3 DEF AnswerUnderWay, OneStart
  <2> QED
    BY <2>4 DEF SomeTurn
<1>10. CASE FrameOwed
  <2>1. FrameOwed'
    BY <1>1, <1>3, <1>4, <1>10 DEF FrameOwed, KeepsSender, KeepsReceiver
  <2> QED
    BY <2>1 DEF SomeTurn
<1>11. CASE FrameUnderWay
  <2>1. PICK k \in 1 .. Len(Down) :
          /\ IsFrame(Down[k], {"ZDATA"}) /\ Down[k].count = count
          /\ \A i \in 1 .. k - 1 : Plain(Down[i])
          /\ k < Len(Down) /\ Down[k + 1].is = "subpacket"
          /\ RestOfFrame(k + 1) /\ DataFrom(k + 1, count)
    BY <1>11 DEF FrameUnderWay
  <2>2. count' = count /\ count \in Nat
    BY DEF KeepsReceiver, SessionInv, ReceiverOK
  <2>3. RestOfFrame(k + 1)' /\ DataFrom(k + 1, count)'
    <3>1. k + 1 \in Nat \ {0} /\ k + 1 <= Len(Down) + 1
      BY <1>2, <2>1
    <3>2. RestOfFrame(k + 1)' /\ \A start \in Nat : DataFrom(k + 1, start) => DataFrom(k + 1, start)'
      BY <1>11, <2>1, <2>2, <3>1, ChatterFrame DEF FrameUnderWay
    <3> QED
      BY <2>1, <2>2, <3>2
  <2>4. /\ k \in 1 .. Len(Down') /\ k < Len(Down')
        /\ Down'[k] = Down[k] /\ Down'[k + 1] = Down[k + 1]
        /\ \A i \in 1 .. k - 1 : Down'[i] = Down[i]
    BY <1>2, <2>1
  <2>5. FrameUnderWay'
    BY <1>1, <1>4, <1>11, <2>1, <2>2, <2>3, <2>4 DEF FrameUnderWay
  <2> QED
    BY <2>5 DEF SomeTurn
<1>12. MoreToCome /\ Sending => MoreToCome'
  BY <1>2, LanesAreSequences DEF MoreToCome, DownChatters, Sending, KeepsSender
<1>13. CASE ReadingFrame
  <2>1. RestOfFrame(1)' /\ DataFrom(1, count)'
    <3>1. count \in Nat /\ count' = count /\ 1 <= Len(Down) + 1
      BY <1>2 DEF SessionInv, ReceiverOK, KeepsReceiver
    <3>2. RestOfFrame(1)' /\ \A start \in Nat : DataFrom(1, start) => DataFrom(1, start)'
      BY <1>13, <3>1, ChatterFrame DEF ReadingFrame
    <3> QED
      BY <1>13, <3>1, <3>2 DEF ReadingFrame
  <2>2. ReadingFrame'
    BY <1>1, <1>4, <1>12, <1>13, <2>1 DEF ReadingFrame, KeepsReceiver
  <2> QED
    BY <2>2 DEF SomeTurn
<1>14. CASE PersistingData
  <2>1. count \in Nat /\ Len(buf) \in Nat /\ 1 <= Len(Down) + 1
    BY <1>2 DEF SessionInv, ReceiverOK
  <2>2. RestOfFrame(1)' /\ DataFrom(1, count + Len(buf))'
    <3>1. count + Len(buf) \in Nat
      BY <2>1
    <3>2. RestOfFrame(1)' /\ \A start \in Nat : DataFrom(1, start) => DataFrom(1, start)'
      BY <1>14, <2>1, <3>1, ChatterFrame DEF PersistingData
    <3> QED
      BY <1>14, <3>1, <3>2 DEF PersistingData, KeepsReceiver
  <2>3. (\A i \in 1 .. Len(Down) : Noise(Down[i]))
        => \A i \in 1 .. Len(Down') : Noise(Down'[i])
    BY NothingNewButNoise
  <2>4. PersistingData'
    BY <1>1, <1>4, <1>12, <1>14, <2>2, <2>3
       DEF PersistingData, KeepsReceiver, KeepsSender, KeepsWorld
  <2> QED
    BY <2>4 DEF SomeTurn
<1> QED
  BY <1>5, <1>6, <1>7, <1>8, <1>9, <1>10, <1>11, <1>13, <1>14
     DEF SessionInv, SomeTurn

LEMMA ChatterEof ==
  ASSUME LaneTypes, KeepsSender, KeepsReceiver, KeepsWorld, DownChatters,
         EofIsTrue, FinIsTrue
  PROVE  EofIsTrue' /\ FinIsTrue'
<1>1. /\ sState' = sState /\ rFileName' = rFileName /\ declined' = declined
      /\ Begun' = Begun /\ (AllSettled' <=> AllSettled)
      /\ \A name : Has(name)' <=> Has(name)
  BY SameWorld DEF KeepsSender, KeepsReceiver, KeepsWorld
<1>2. Has(rFileName)' <=> Has(rFileName)
  BY DEF KeepsReceiver, KeepsWorld, Has
<1>3. ASSUME NEW i \in 1 .. Len(Down'), IsFrame(Down'[i], {"ZEOF"})
      PROVE  i \in 1 .. Len(Down) /\ IsFrame(Down[i], {"ZEOF"})
  BY <1>3, ChatterFrames DEF IsFrame
<1>4. ASSUME NEW i \in 1 .. Len(Down'), IsFrame(Down'[i], {"ZFIN"})
      PROVE  i \in 1 .. Len(Down) /\ IsFrame(Down[i], {"ZFIN"})
  BY <1>4, ChatterFrames DEF IsFrame
<1>5. EofIsTrue'
  BY <1>1, <1>2, <1>3 DEF EofIsTrue
<1>6. FinIsTrue'
  BY <1>1, <1>4 DEF FinIsTrue
<1> QED
  BY <1>5, <1>6

LEMMA SenderChatters ==
  ASSUME SessionInv, KeepsSender, KeepsReceiver, KeepsWorld,
         DownChatters, UpHeard,
         down' \in Seq(Unit), sOutgoing' \in Seq(Unit),
         up' \in Seq(HeaderUnit), rOutgoing' \in Seq(HeaderUnit)
  PROVE  SessionInv'
<1>1. LaneTypes
  BY InvTypesLanes
<1>2. SenderOK' /\ ReceiverOK'
  BY SameSender, SameReceiver DEF SessionInv, KeepsWorld
<1>3. LinkOK'
  BY <1>1, ChatterLink DEF SessionInv
<1>4. WorldOK'
  BY SameWorld DEF SessionInv
<1>5. FilesSettled'
  BY SameSettled DEF SessionInv, KeepsSender
<1>6. EofIsTrue' /\ FinIsTrue'
  BY <1>1, ChatterEof DEF SessionInv
<1>7. SomeTurn'
  BY <1>1, ChatterTurn
<1> QED
  BY <1>2, <1>3, <1>4, <1>5, <1>6, <1>7 DEF SessionInv

-----------------------------------------------------------------------------
(***************************************************************************)
(* The sender's steps of this sort.                                        *)
(***************************************************************************)
\* The machines and the link speak of the same units.
LEMMA SameUnits ==
  /\ \A f, n : S!Header(f, n) = Header(f, n) /\ R!Header(f, n) = Header(f, n)
  /\ \A k, d : S!Subpacket(k, d) = Subpacket(k, d)
  /\ \A m, n : S!Metadata(m, n) = Metadata(m, n)
  /\ S!OverAndOut = OverAndOut
  /\ R!OwnZrinit = Zrinit(BufferLen, OverlappedIo)
  BY DEF S!Header, R!Header, Header, S!Subpacket, Subpacket, S!Metadata,
         Metadata, S!OverAndOut, OverAndOut, R!OwnZrinit, R!Zrinit, Zrinit

LEMMA HeaderIsUnit ==
  \A f \in Frame : \A n \in Nat :
    /\ Header(f, n) \in HeaderUnit /\ Header(f, n) \in Unit
    /\ <<Header(f, n)>> \in Seq(Unit)
    /\ Header(f, n).is = "header" /\ Header(f, n).frame = f
    /\ Header(f, n).count = n
<1> TAKE f \in Frame
<1> TAKE n \in Nat
<1>1. /\ Header(f, n) \in HeaderUnit /\ Header(f, n) \in Unit
      /\ Header(f, n).is = "header" /\ Header(f, n).frame = f
      /\ Header(f, n).count = n
  BY DEF Header, HeaderUnit, Unit
<1> QED
  BY <1>1

LEMMA NoiseHeaders ==
  /\ <<Header("ZRQINIT", 0)>> \in Seq(Unit) /\ Noise(Header("ZRQINIT", 0))
  /\ <<Header("ZNAK", 0)>> \in Seq(Unit) /\ Noise(Header("ZNAK", 0))
  BY HeaderIsUnit DEF Frame, Noise, IsFrame

\* The sender adds noise to nothing.
LEMMA SaysNoise ==
  ASSUME LaneTypes, sOutgoing = <<>>, down' = down,
         sState \notin {"NeedFileData", "Done"},
         sOutgoing' \in {<<Header("ZRQINIT", 0)>>, <<Header("ZNAK", 0)>>}
  PROVE  DownChatters /\ sOutgoing' \in Seq(Unit)
<1>1. PICK unit : /\ Noise(unit) /\ <<unit>> \in Seq(Unit)
                  /\ sOutgoing' = <<unit>>
  BY NoiseHeaders
<1>2. DownSaid(<<unit>>)
  BY <1>1, SenderSays
<1> QED
  BY <1>1, <1>2 DEF DownChatters

LEMMA EventTaken ==
  ASSUME SessionInv, SenderEvent
  PROVE  SessionInv'
<1>1. /\ KeepsSender /\ KeepsReceiver /\ KeepsWorld
      /\ UNCHANGED <<down, up, sOutgoing, rOutgoing>>
  BY DEF SessionInv, SenderOK, SenderEvent, S!PollEvent, S!fileVars, S!frameVars, S!capVars, rVars,
         link, world, KeepsSender, KeepsReceiver, KeepsWorld
<1>2. Down' = Down /\ Up' = Up
  BY <1>1 DEF Down, Up
<1> QED
  BY <1>1, <1>2, SenderChatters, InvTypesLanes
     DEF DownChatters, UpHeard, LaneTypes

LEMMA SenderWritten ==
  ASSUME SessionInv, SenderWrites
  PROVE  SessionInv'
<1>1. /\ KeepsSender /\ KeepsReceiver /\ KeepsWorld
      /\ UNCHANGED <<up, rOutgoing>>
      /\ down' = Append(down, Head(sOutgoing))
      /\ sOutgoing' = SubSeq(sOutgoing, 1 + 1, Len(sOutgoing))
      /\ 1 \in 1 .. Len(sOutgoing)
  BY DEF SessionInv, SenderOK, SenderWrites, S!WireWritten, S!fileVars, S!frameVars, S!capVars,
         rVars, world, KeepsSender, KeepsReceiver, KeepsWorld
<1>2. LaneTypes
  BY InvTypesLanes
<1>3. sOutgoing # <<>> /\ sOutgoing' = SubSeq(sOutgoing, 2, Len(sOutgoing))
  BY <1>1, <1>2 DEF LaneTypes
<1>4. Down' = Down /\ down' \in Seq(Unit) /\ sOutgoing' \in Seq(Unit)
  BY <1>1, <1>2, <1>3, SenderWritesUnit
<1>5. Up' = Up
  BY <1>1 DEF Up
<1> QED
  BY <1>1, <1>2, <1>4, <1>5, SenderChatters
     DEF DownChatters, UpHeard, LaneTypes

LEMMA SenderTimesOut ==
  ASSUME SessionInv, SenderTimeout
  PROVE  SessionInv'
<1>1. /\ KeepsSender /\ KeepsReceiver /\ KeepsWorld
      /\ UNCHANGED <<up, rOutgoing, down>>
      /\ sOutgoing = <<>> /\ sOutgoing' = <<Header("ZRQINIT", 0)>>
      /\ sState = "WaitReceiverInit"
  BY SameUnits DEF SessionInv, SenderOK, SenderTimeout, S!Timeout, S!fileVars, S!frameVars, S!capVars,
         rVars, world, link, KeepsSender, KeepsReceiver, KeepsWorld
<1>2. LaneTypes
  BY InvTypesLanes
<1>3. DownChatters /\ sOutgoing' \in Seq(Unit)
  BY <1>1, <1>2, SaysNoise
<1>4. Up' = Up
  BY <1>1 DEF Up
<1> QED
  BY <1>1, <1>2, <1>3, <1>4, SenderChatters
     DEF DownChatters, UpHeard, LaneTypes

-----------------------------------------------------------------------------
(***************************************************************************)
(* Steps of the sender after which it is nobody's turn.                    *)
(***************************************************************************)
\* What the sender may say then.
MayFollow(unit) ==
  /\ unit \in Unit
  /\ unit.is = "header" => unit.frame \in {"ZRQINIT", "ZNAK", "ZEOF", "ZFIN"}
  /\ IsFrame(unit, {"ZEOF"}) =>
       rFileName \in Begun \ declined /\ Has(rFileName)
  /\ IsFrame(unit, {"ZFIN"}) =>
       sState' \in {"WaitFinish", "Done"} /\ AllSettled

LEMMA NobodysTurn ==
  ASSUME SessionInv, KeepsReceiver, KeepsWorld,
         SenderOK', FilesSettled', NoAnswer', ~OwesHeader',
         ReceiverIdle, ~ResetDue,
         sState' # "WaitReceiverInit",
         sState \in {"WaitFinish", "Done"} => sState' \in {"WaitFinish", "Done"},
         \A i \in 1 .. Len(Down) : ~IsFrame(Down[i], {"ZFILE", "ZDATA"}),
         Down' = Down \/ \E unit : DownSaid(<<unit>>) /\ MayFollow(unit),
         \A i \in 1 .. Len(Up') : \E j \in 1 .. Len(Up) : Up'[i] = Up[j],
         down' \in Seq(Unit), up' \in Seq(HeaderUnit),
         rOutgoing' \in Seq(HeaderUnit)
  PROVE  SessionInv' /\ NoTurn'
<1>1. LaneTypes
  BY InvTypesLanes
<1>2. ASSUME NEW i \in 1 .. Len(Down')
      PROVE  (i \in 1 .. Len(Down) /\ Down'[i] = Down[i]) \/ MayFollow(Down'[i])
  <2>1. CASE Down' = Down
    BY <2>1
  <2>2. ASSUME NEW unit, DownSaid(<<unit>>), MayFollow(unit)
        PROVE  (i \in 1 .. Len(Down) /\ Down'[i] = Down[i]) \/ MayFollow(Down'[i])
    <3>1. /\ Len(Down) \in Nat /\ Len(Down') = Len(Down) + 1
          /\ \A j \in 1 .. Len(Down) : Down'[j] = Down[j]
          /\ Down'[Len(Down) + 1] = unit
      BY <1>1, <2>2, OneMoreUnit
    <3> QED
      BY <2>2, <3>1
  <2> QED
    BY <2>1, <2>2
<1>3. /\ rFileName' = rFileName /\ declined' = declined
      /\ Begun' = Begun /\ (AllSettled' <=> AllSettled)
      /\ Has(rFileName)' <=> Has(rFileName)
  BY SameWorld DEF KeepsReceiver, KeepsWorld, Has
<1>4. ReceiverOK' /\ WorldOK' /\ ReceiverIdle' /\ ~ResetDue'
  BY SameReceiver, SameWorld DEF SessionInv, KeepsWorld
<1>5. LinkOK'
  <2>1. ASSUME NEW i \in 1 .. Len(Down'), Down'[i].is = "header"
        PROVE  Down'[i].frame \in {"ZRQINIT", "ZNAK", "ZFILE", "ZDATA", "ZEOF", "ZFIN"}
    BY <1>2, <2>1 DEF SessionInv, LinkOK, MayFollow
  <2>2. ASSUME NEW i \in 1 .. Len(Up')
        PROVE  Up'[i].frame \in {"ZRINIT", "ZNAK", "ZFIN"} \cup Answers
    BY <2>2 DEF SessionInv, LinkOK
  <2> QED
    BY <2>1, <2>2 DEF LinkOK
<1>6. EofIsTrue'
  <2>1. ASSUME NEW i \in 1 .. Len(Down'), IsFrame(Down'[i], {"ZEOF"})
        PROVE  rFileName \in Begun \ declined /\ Has(rFileName)
    BY <1>2, <2>1 DEF SessionInv, EofIsTrue, MayFollow
  <2> QED
    BY <1>3, <2>1 DEF EofIsTrue
<1>7. FinIsTrue'
  <2>1. ASSUME NEW i \in 1 .. Len(Down'), IsFrame(Down'[i], {"ZFIN"})
        PROVE  sState' \in {"WaitFinish", "Done"} /\ AllSettled
    BY <1>2, <2>1 DEF SessionInv, FinIsTrue, MayFollow
  <2> QED
    BY <1>3, <2>1 DEF FinIsTrue
<1>8. NoTurn'
  <2>1. \A i \in 1 .. Len(Down') : ~IsFrame(Down'[i], {"ZFILE", "ZDATA"})
    BY <1>2 DEF MayFollow, IsFrame
  <2> QED
    BY <1>4, <2>1 DEF NoTurn
<1> QED
  BY <1>4, <1>5, <1>6, <1>7, <1>8 DEF SessionInv, SomeTurn

\* A sender without a file under way has had its turn.
LEMMA SenderBetweenFiles ==
  ASSUME SessionInv,
         sState \in {"WaitReceiverInit", "ReadyForFile", "WaitFileDone",
                     "WaitFinish"}
  PROVE  NoTurn
  BY DEF SessionInv, SomeTurn, AnnouncementUnderWay, ReadingAnnouncement,
         Deciding, AnswerUnderWay, FrameOwed, OwesHeader, FrameUnderWay,
         ReadingFrame, PersistingData, Sending

\* The receiver's answer has come first on the link.
LEMMA AnswerHasCome ==
  ASSUME SessionInv, UpTaken, up # <<>>, Up[1].frame \in Answers
  PROVE  /\ ReceiverIdle /\ ~OwesHeader /\ ~ResetDue
         /\ sState \in {"WaitFilePos", "NeedFileData", "WaitFileAck", "Done"}
         /\ offered > 0 /\ rFileName = CurrentFile
         /\ CurrentFile \notin completed
         /\ \A i \in 1 .. Len(Down) : Plain(Down[i])
         /\ \A i \in 1 .. Len(Up) : Up[i].frame \in Answers => i = 1
         /\ AnswersCurrent(1)
         /\ NoAnswer'
<1>1. LaneTypes /\ Len(Up) \in Nat /\ Len(up) \in Nat /\ 1 \in 1 .. Len(Up)
  BY InvTypesLanes, LanesAreSequences DEF UpTaken
<1>2. Len(up) >= 1
  BY <1>1 DEF LaneTypes
<1>3. ~NoAnswer
  BY <1>1 DEF NoAnswer
<1>4. AnswerUnderWay
  BY <1>3 DEF SessionInv, SomeTurn, NoTurn, AnnouncementUnderWay,
     ReadingAnnouncement, Deciding, FrameOwed, FrameUnderWay, ReadingFrame,
     PersistingData
<1>5. PICK k \in 1 .. Len(Up) :
        /\ Up[k].frame \in Answers
        /\ \A i \in 1 .. Len(Up) : Up[i].frame \in Answers => i = k
        /\ AnswersCurrent(k)
  BY <1>4 DEF AnswerUnderWay
<1>6. k = 1
  BY <1>1, <1>5
<1>7. ~ResetDue
  BY <1>2, <1>5, <1>6, <1>1 DEF AnswersCurrent
<1>8. NoAnswer'
  <2>1. ASSUME NEW i \in 1 .. Len(Up')
        PROVE  Up'[i].frame \notin Answers
    <3>1. i \in 1 .. Len(Up) - 1 /\ i + 1 \in 1 .. Len(Up) /\ i + 1 # 1
      BY <1>1 DEF UpTaken
    <3> QED
      BY <1>5, <1>6, <3>1 DEF UpTaken
  <2> QED
    BY <2>1 DEF NoAnswer
<1> QED
  BY <1>4, <1>5, <1>6, <1>7, <1>8 DEF AnswerUnderWay

LEMMA PlainIsNoFrame ==
  ASSUME NEW unit, Plain(unit)
  PROVE  ~IsFrame(unit, {"ZFILE", "ZDATA"})
  BY DEF Plain, IsFrame

LEMMA SenderStops ==
  ASSUME SessionInv, SenderAborts
  PROVE  SessionInv'
<1>0. /\ KeepsReceiver /\ KeepsWorld
      /\ UNCHANGED <<sHasFile, sFileName, sFileSize, frameNeedsHeader,
                     maxSubpacketSize, finishRequested, offered,
                     down, up, sOutgoing, rOutgoing>>
      /\ sState' = "Done" /\ pendingRequest' = NoRequest
  BY DEF SenderAborts, S!Abort, S!StopAborted, S!fileVars, S!capVars, rVars,
         link, world, KeepsReceiver, KeepsWorld
<1>1. LaneTypes
  BY InvTypesLanes
<1>2. /\ Down' = Down /\ Up' = Up
      /\ down' \in Seq(Unit) /\ up' \in Seq(HeaderUnit)
      /\ sOutgoing' \in Seq(Unit) /\ rOutgoing' \in Seq(HeaderUnit)
  BY <1>0, <1>1 DEF Down, Up, LaneTypes
<1>3. SenderOK'
  BY <1>0, <1>2 DEF SessionInv, SenderOK, S!SenderPhase, CurrentFile
<1>4. FilesSettled'
  BY <1>0, SameSettled DEF SessionInv
<1>5. CASE NoTurn \/ FrameOwed
  <2>1. ReceiverIdle /\ ~ResetDue /\ NoAnswer
    BY <1>5 DEF NoTurn, FrameOwed
  <2>2. NoAnswer'
    BY <1>2, <2>1 DEF NoAnswer
  <2>3. \A i \in 1 .. Len(Down) : ~IsFrame(Down[i], {"ZFILE", "ZDATA"})
    BY <1>5, PlainIsNoFrame DEF NoTurn, FrameOwed
  <2>4. ~OwesHeader'
    BY <1>0 DEF OwesHeader
  <2> QED
    BY <1>0, <1>2, <1>3, <1>4, <2>1, <2>2, <2>3, <2>4, NobodysTurn
<1>6. CASE ~(NoTurn \/ FrameOwed)
  <2>1. /\ ReceiverIdle' <=> ReceiverIdle
        /\ ResetDue' <=> ResetDue
        /\ Undecided' <=> Undecided
        /\ CurrentFile' = CurrentFile
        /\ Taken' <=> Taken
        /\ Synced' <=> Synced
        /\ NoAnswer' <=> NoAnswer
    <3>1. (ReceiverIdle' <=> ReceiverIdle) /\ (ResetDue' <=> ResetDue)
      BY <1>0 DEF KeepsReceiver, ReceiverIdle, ResetDue
    <3>2. (Undecided' <=> Undecided) /\ CurrentFile' = CurrentFile
      BY <1>0, SameWorld
    <3>3. (Taken' <=> Taken) /\ (Synced' <=> Synced)
      BY <1>0, <3>2 DEF Taken, Synced, KeepsReceiver, KeepsWorld
    <3>4. NoAnswer' <=> NoAnswer
      BY <1>2 DEF NoAnswer
    <3> QED
      BY <3>1, <3>2, <3>3, <3>4
  <2>2. ~OwesHeader' /\ Sending' /\ SenderGoesOnOrStops
    BY <1>0 DEF OwesHeader, Sending, SenderGoesOnOrStops, KeepsWorld
  <2>3. /\ \A i \in 1 .. Len(Down) : IsFrame(Down[i], {"ZEOF"}) =>
             rFileName \in Begun \ declined /\ Has(rFileName)
        /\ \A i \in 1 .. Len(Down) : IsFrame(Down[i], {"ZFIN"}) => AllSettled
    BY DEF SessionInv, EofIsTrue, FinIsTrue
  <2>4. EofIsTrue' /\ FinIsTrue'
    <3>1. /\ rFileName' = rFileName /\ declined' = declined
          /\ Begun' = Begun /\ (AllSettled' <=> AllSettled)
          /\ Has(rFileName)' <=> Has(rFileName)
      BY <1>0, SameWorld DEF KeepsReceiver, KeepsWorld, Has
    <3>2. EofIsTrue'
      BY <1>0, <1>2, <2>3, <3>1 DEF EofIsTrue
    <3>3. FinIsTrue'
      BY <1>0, <1>2, <2>3, <3>1 DEF FinIsTrue
    <3> QED
      BY <3>2, <3>3
  <2>5. ReceiverOK' /\ WorldOK'
    BY <1>0, <1>2, SameReceiver, SameWorld DEF SessionInv, KeepsWorld
  <2>6. LinkOK'
    BY <1>2 DEF SessionInv, LinkOK
  <2>7. count \in Nat /\ count' = count /\ Len(buf) \in Nat /\ buf' = buf
    BY <1>0 DEF KeepsReceiver, SessionInv, ReceiverOK
  <2>8. SomeTurn'
    <3>1. CASE AnnouncementUnderWay
      <4>1. AnnouncementUnderWay'
        BY <1>0, <1>2, <2>1, <3>1
           DEF AnnouncementUnderWay, Announced, KeepsReceiver
      <4> QED
        BY <4>1 DEF SomeTurn
    <3>2. CASE ReadingAnnouncement
      <4>1. ReadingAnnouncement'
        BY <1>0, <1>2, <2>1, <3>2
           DEF ReadingAnnouncement, Announced, KeepsReceiver
      <4> QED
        BY <4>1 DEF SomeTurn
    <3>3. CASE Deciding
      <4>1. Deciding'
        BY <1>0, <1>2, <2>1, <3>3 DEF Deciding, KeepsReceiver
      <4> QED
        BY <4>1 DEF SomeTurn
    <3>4. CASE AnswerUnderWay
      <4>1. PICK k \in 1 .. Len(Up) :
              /\ Up[k].frame \in Answers
              /\ \A i \in 1 .. Len(Up) : Up[i].frame \in Answers => i = k
              /\ AnswersCurrent(k)
        BY <3>4 DEF AnswerUnderWay
      <4>2. AnswersCurrent(k)'
        BY <1>0, <1>2, <2>1, <4>1
           DEF AnswersCurrent, KeepsReceiver, KeepsWorld
      <4>3. pendingEvents' = pendingEvents /\ completed' = completed
            /\ offered' = offered /\ rFileName' = rFileName
        BY <1>0 DEF KeepsReceiver, KeepsWorld
      <4>4. AnswerUnderWay'
        BY <1>0, <1>2, <2>1, <2>2, <3>4, <4>1, <4>2, <4>3
           DEF AnswerUnderWay, OneStart
      <4> QED
        BY <4>4 DEF SomeTurn
    <3>5. CASE FrameUnderWay
      <4>1. PICK k \in 1 .. Len(Down) :
              /\ IsFrame(Down[k], {"ZDATA"}) /\ Down[k].count = count
              /\ \A i \in 1 .. k - 1 : Plain(Down[i])
              /\ k < Len(Down) /\ Down[k + 1].is = "subpacket"
              /\ RestOfFrame(k + 1) /\ DataFrom(k + 1, count)
        BY <3>5 DEF FrameUnderWay
      <4>2. \A start \in Nat : DataFrom(k + 1, start)
                               => RestOfFrame(k + 1)' /\ DataFrom(k + 1, start)'
        <5>1. k + 1 \in Nat
          BY <1>1, LanesAreSequences
        <5> QED
          BY <1>1, <1>2, <2>2, <4>1, <5>1, FrameStays
      <4>3. RestOfFrame(k + 1)' /\ DataFrom(k + 1, count)'
        BY <2>7, <4>1, <4>2
      <4>4. FrameUnderWay'
        BY <1>2, <2>1, <2>2, <2>7, <3>5, <4>1, <4>3 DEF FrameUnderWay
      <4> QED
        BY <4>4 DEF SomeTurn
    <3>6. CASE ReadingFrame
      <4>1. \A start \in Nat : DataFrom(1, start)
                               => RestOfFrame(1)' /\ DataFrom(1, start)'
        BY <1>1, <1>2, <2>2, <3>6, FrameStays DEF ReadingFrame
      <4>2. RestOfFrame(1)' /\ DataFrom(1, count)'
        BY <2>7, <3>6, <4>1 DEF ReadingFrame
      <4>3. MoreToCome'
        BY <1>0, <1>2, <3>6 DEF ReadingFrame, MoreToCome
      <4>4. ReadingFrame'
        BY <1>0, <2>1, <2>2, <3>6, <4>1, <4>2, <4>3
           DEF ReadingFrame, KeepsReceiver
      <4> QED
        BY <4>4 DEF SomeTurn
    <3>7. CASE PersistingData
      <4>1. \A start \in Nat : DataFrom(1, start)
                               => RestOfFrame(1)' /\ DataFrom(1, start)'
        BY <1>1, <1>2, <2>2, <3>7, FrameStays DEF PersistingData
      <4>2. RestOfFrame(1)' /\ DataFrom(1, count + Len(buf))'
        <5>1. count + Len(buf) \in Nat
          BY <2>7
        <5> QED
          BY <2>7, <3>7, <4>1, <5>1 DEF PersistingData
      <4>3. MoreToCome => MoreToCome'
        BY <1>0, <1>2 DEF MoreToCome
      <4>4. PersistingData'
        BY <1>0, <1>2, <2>1, <2>2, <3>7, <4>1, <4>2, <4>3
           DEF PersistingData, KeepsReceiver, KeepsWorld
      <4> QED
        BY <4>4 DEF SomeTurn
    <3> QED
      BY <1>6, <3>1, <3>2, <3>3, <3>4, <3>5, <3>6, <3>7
         DEF SessionInv, SomeTurn
  <2> QED
    BY <1>3, <1>4, <2>4, <2>5, <2>6, <2>8 DEF SessionInv
<1> QED
  BY <1>5, <1>6
-----------------------------------------------------------------------------
(***************************************************************************)
(* The sender takes a header from the link.                                *)
(***************************************************************************)
\* The file the sender is at is one of the files.
LEMMA CurrentIsNamed ==
  ASSUME SenderOK, offered > 0
  PROVE  /\ CurrentFile \in Name /\ CurrentFile \in Begun
         /\ offered \in 1 .. Len(Files) /\ Len(Files) \in Nat
         /\ Content[CurrentFile] \in Seq(Byte)
         /\ Len(Content[CurrentFile]) \in Nat
         /\ Len(Content[CurrentFile]) <= MaxPosition
<1>1. Files \in Seq(Name) /\ Content \in [Name -> Seq(Byte)]
      /\ \A name \in Name : Len(Content[name]) <= MaxPosition
  BY FilesAssumption
<1>2. offered \in 1 .. Len(Files) /\ Len(Files) \in Nat
  BY <1>1 DEF SenderOK
<1>3. CurrentFile \in Name /\ CurrentFile \in Begun
  BY <1>1, <1>2 DEF CurrentFile, Begun
<1> QED
  BY <1>1, <1>2, <1>3

\* A prefix that is as long as the file is the file.
LEMMA AsLongIsWhole ==
  ASSUME WorldOK, NEW name \in Name, Len(disk[name]) >= Len(Content[name])
  PROVE  Has(name)
<1>1. Content[name] \in Seq(Byte) /\ disk[name] \in Seq(Byte)
      /\ IsPrefixOf(disk[name], Content[name])
  BY FilesAssumption DEF WorldOK, DiskIsPrefix
<1>2. Len(disk[name]) = Len(Content[name])
      /\ disk[name] = SubSeq(Content[name], 1, Len(disk[name]))
  BY <1>1 DEF IsPrefixOf
<1>3. Content[name] = SubSeq(Content[name], 1, Len(Content[name]))
  BY <1>1, SubSeqFull
<1> QED
  BY <1>2, <1>3 DEF Has

LEMMA SenderTakes ==
  ASSUME SessionInv, up # <<>>, up' = Tail(up),
         UNCHANGED <<rVars, down, world>>
  PROVE  /\ LaneTypes /\ UpTaken /\ Len(up') = Len(up) - 1
         /\ KeepsReceiver /\ KeepsWorld /\ down' = down
         /\ up' \in Seq(HeaderUnit) /\ rOutgoing' \in Seq(HeaderUnit)
         /\ down' \in Seq(Unit)
         /\ Head(up) = Up[1] /\ Up[1] \in HeaderUnit
         /\ Up[1].frame \in {"ZRINIT", "ZNAK", "ZFIN"} \cup Answers
         /\ \A i \in 1 .. Len(Up') : \E j \in 1 .. Len(Up) : Up'[i] = Up[j]
<1>1. LaneTypes
  BY InvTypesLanes
<1>2. rOutgoing' = rOutgoing /\ down' = down
  BY DEF rVars
<1>3. UpTaken /\ up' \in Seq(HeaderUnit)
  BY <1>1, <1>2, SenderTakesUnit
<1>4. KeepsReceiver /\ KeepsWorld
  BY DEF rVars, world, KeepsReceiver, KeepsWorld
<1>5. Len(up') = Len(up) - 1
  BY <1>1, HeadTailProperties DEF LaneTypes
<1>6. Head(up) = Up[1] /\ Len(Up) \in Nat /\ 1 \in 1 .. Len(Up)
  BY <1>1, <1>3, LanesAreSequences DEF UpTaken
<1>7. Up[1] \in HeaderUnit
  BY <1>1, <1>6, LanesAreSequences
<1>8. Up[1].frame \in {"ZRINIT", "ZNAK", "ZFIN"} \cup Answers
  BY <1>6 DEF SessionInv, LinkOK
<1>9. ASSUME NEW i \in 1 .. Len(Up')
      PROVE  \E j \in 1 .. Len(Up) : Up'[i] = Up[j]
  <2>1. i \in 1 .. Len(Up) - 1 /\ i + 1 \in 1 .. Len(Up)
    BY <1>3, <1>6 DEF UpTaken
  <2> QED
    BY <1>3, <2>1 DEF UpTaken
<1> QED
  BY <1>1, <1>2, <1>3, <1>4, <1>5, <1>6, <1>7, <1>8, <1>9 DEF LaneTypes

\* Without output, with a request or behind the end, it takes nothing.
LEMMA WhileReadable ==
  ASSUME SessionInv, S!Readable
  PROVE  /\ sOutgoing = <<>> /\ pendingRequest = NoRequest
         /\ sState \in {"WaitReceiverInit", "ReadyForFile", "WaitFilePos",
                        "WaitFileAck", "WaitFileDone", "WaitFinish"}
         /\ ~OwesHeader
<1>1. /\ sOutgoing = <<>> /\ pendingRequest = NoRequest /\ sState # "Done"
  BY DEF S!Readable
<1>2. sState # "NeedFileData"
  BY <1>1, SessionLimitsAssumption DEF SessionInv, SenderOK
<1> QED
  BY <1>1, <1>2 DEF SessionInv, SenderOK, S!SenderPhase, OwesHeader

LEMMA NoAnswerStays ==
  ASSUME NoAnswer,
         \A i \in 1 .. Len(Up') : \E j \in 1 .. Len(Up) : Up'[i] = Up[j]
  PROVE  NoAnswer'
  BY DEF NoAnswer

\* It drops a header it does not act on, whatever it says.
LEMMA SenderDrops ==
  ASSUME SessionInv, S!Readable, up # <<>>, up' = Tail(up),
         UNCHANGED <<rVars, down, world>>,
         KeepsSender, Head(up).frame \notin Answers,
         sOutgoing' \in {<<>>, <<Header("ZRQINIT", 0)>>, <<Header("ZNAK", 0)>>}
  PROVE  SessionInv'
<1>1. /\ LaneTypes /\ UpTaken /\ Len(up') = Len(up) - 1
      /\ KeepsReceiver /\ KeepsWorld /\ down' = down
      /\ up' \in Seq(HeaderUnit) /\ rOutgoing' \in Seq(HeaderUnit)
      /\ Head(up) = Up[1] /\ down' \in Seq(Unit)
  BY SenderTakes
<1>2. sOutgoing = <<>> /\ sState \notin {"NeedFileData", "Done"}
  BY WhileReadable
<1>3. UpHeard
  BY <1>1 DEF UpHeard
<1>4. DownChatters /\ sOutgoing' \in Seq(Unit)
  <2>1. CASE sOutgoing' = <<>>
    <3>1. Down' = Down
      BY <1>1, <1>2, <2>1 DEF Down
    <3> QED
      BY <2>1, <3>1 DEF DownChatters
  <2>2. CASE sOutgoing' # <<>>
    BY <1>1, <1>2, <2>2, SaysNoise
  <2> QED
    BY <2>1, <2>2
<1> QED
  BY <1>1, <1>3, <1>4, SenderChatters

LEMMA SenderMisses ==
  ASSUME SessionInv, SenderReceivesDamaged
  PROVE  SessionInv'
<1>1. /\ up # <<>> /\ up' = Tail(up) /\ S!Readable
      /\ UNCHANGED <<rVars, down, world>>
      /\ KeepsSender
      /\ sOutgoing' \in {<<>>, <<Header("ZNAK", 0)>>}
  <2>1. CASE S!SubmitGarbled
    BY <2>1, SameUnits DEF SenderReceivesDamaged, S!SubmitGarbled, S!Readable,
       S!fileVars, S!frameVars, S!capVars, KeepsSender, SessionInv, SenderOK,
       world
  <2>2. CASE UNCHANGED sVars
    BY <2>2 DEF SenderReceivesDamaged, S!Readable, sVars, KeepsSender,
       SessionInv, SenderOK, world
  <2> QED
    BY <2>1, <2>2 DEF SenderReceivesDamaged
<1>2. /\ LaneTypes /\ UpTaken /\ KeepsReceiver /\ KeepsWorld /\ down' = down
      /\ up' \in Seq(HeaderUnit) /\ rOutgoing' \in Seq(HeaderUnit)
      /\ Head(up) = Up[1] /\ down' \in Seq(Unit)
      /\ \A i \in 1 .. Len(Up') : \E j \in 1 .. Len(Up) : Up'[i] = Up[j]
  BY <1>1, SenderTakes
<1>3. CASE Head(up).frame \notin Answers
  BY <1>1, <1>3, SenderDrops
<1>4. CASE Head(up).frame \in Answers
  <2>1. /\ ReceiverIdle /\ ~ResetDue /\ NoAnswer'
        /\ \A i \in 1 .. Len(Down) : Plain(Down[i])
        /\ sState \in {"WaitFilePos", "NeedFileData", "WaitFileAck", "Done"}
    BY <1>1, <1>2, <1>4, AnswerHasCome
  <2>2. /\ sOutgoing = <<>> /\ ~OwesHeader
        /\ sState \notin {"WaitReceiverInit", "WaitFinish", "Done",
                          "NeedFileData"}
    BY <1>1, <2>1, WhileReadable
  <2>3. sOutgoing' \in Seq(Unit)
    BY <1>1, <1>2, <2>2, NoiseHeaders DEF LaneTypes
  <2>4. SenderOK' /\ FilesSettled'
    BY <1>1, <1>2, <2>3, SameSender, SameSettled DEF SessionInv, KeepsSender
  <2>5. ~OwesHeader' /\ sState' = sState
    BY <1>1, <2>2 DEF KeepsSender, OwesHeader
  <2>6. \A i \in 1 .. Len(Down) : ~IsFrame(Down[i], {"ZFILE", "ZDATA"})
    BY <2>1, PlainIsNoFrame
  <2>7. Down' = Down \/ \E unit : DownSaid(<<unit>>) /\ MayFollow(unit)
    <3>1. CASE sOutgoing' = <<>>
      BY <1>2, <2>2, <3>1 DEF Down
    <3>2. CASE sOutgoing' # <<>>
      <4>1. PICK unit \in Unit :
              sOutgoing' = <<unit>> /\ <<unit>> \in Seq(Unit)
              /\ unit.is = "header" /\ unit.frame = "ZNAK"
        BY <1>1, <3>2, HeaderIsUnit DEF Frame
      <4>2. DownSaid(<<unit>>)
        BY <1>2, <2>2, <4>1, SenderSays
      <4>3. MayFollow(unit)
        BY <4>1 DEF MayFollow, IsFrame
      <4> QED
        BY <4>2, <4>3
    <3> QED
      BY <3>1, <3>2
  <2> QED
    BY <1>2, <2>1, <2>2, <2>4, <2>5, <2>6, <2>7, NobodysTurn
<1> QED
  BY <1>3, <1>4

LEMMA TwoMoreUnits ==
  ASSUME LaneTypes, NEW one, NEW two, DownSaid(<<one, two>>)
  PROVE  /\ Len(Down) \in Nat /\ Len(Down') = Len(Down) + 2
         /\ \A i \in 1 .. Len(Down) : Down'[i] = Down[i]
         /\ Down'[Len(Down) + 1] = one /\ Down'[Len(Down) + 2] = two
<1>1. /\ Len(<<one, two>>) = 2
      /\ <<one, two>>[1] = one /\ <<one, two>>[2] = two
  OBVIOUS
<1>2. 1 \in 1 .. Len(<<one, two>>) /\ 2 \in 1 .. Len(<<one, two>>)
  BY <1>1
<1> QED
  BY <1>1, <1>2, LanesAreSequences DEF DownSaid

\* The sender announces a file.
LEMMA AnnouncementIsMade ==
  ASSUME SessionInv, KeepsReceiver, UNCHANGED <<disk, declined, completed>>,
         SenderOK', ReceiverOK', WorldOK', FilesSettled', NoTurn,
         sState \notin {"WaitFinish", "Done"}, sState' = "WaitFilePos",
         offered' > 0, Undecided', rFileName # CurrentFile', Begun \subseteq Begun',
         NEW name \in Name, name = CurrentFile',
         DownSaid(<<Header("ZFILE", 0), Metadata(name, Len(Content[name]))>>),
         \A i \in 1 .. Len(Up') : \E j \in 1 .. Len(Up) : Up'[i] = Up[j],
         down' \in Seq(Unit), up' \in Seq(HeaderUnit)
  PROVE  SessionInv'
<1> DEFINE zfile == Header("ZFILE", 0)
           metadata == Metadata(name, Len(Content[name]))
<1>0. PICK k : k = Len(Down) + 1
  OBVIOUS
<1>1. /\ Len(Down) \in Nat /\ Len(Down') = Len(Down) + 2
      /\ \A i \in 1 .. Len(Down) : Down'[i] = Down[i]
      /\ Down'[k] = zfile /\ Down'[k + 1] = metadata
      /\ k \in Nat /\ k = Len(Down) + 1
  <2>1. LaneTypes
    BY InvTypesLanes
  <2> HIDE DEF zfile, metadata
  <2>2. /\ Len(Down) \in Nat /\ Len(Down') = Len(Down) + 2
        /\ \A i \in 1 .. Len(Down) : Down'[i] = Down[i]
        /\ Down'[Len(Down) + 1] = zfile /\ Down'[Len(Down) + 2] = metadata
    BY <2>1, TwoMoreUnits DEF zfile, metadata
  <2> QED
    BY <1>0, <2>2
<1>2. /\ zfile.is = "header" /\ zfile.frame = "ZFILE"
      /\ metadata.is = "metadata"
  BY DEF Header, Metadata
<1> HIDE DEF zfile
<1>3. ASSUME NEW i \in 1 .. Len(Down')
      PROVE  \/ i \in 1 .. Len(Down) /\ Down'[i] = Down[i]
             \/ i = k /\ Down'[i] = zfile
             \/ i = k + 1 /\ Down'[i] = metadata
  BY <1>1
<1>4. \A i \in 1 .. Len(Down) : ~IsFrame(Down[i], {"ZEOF", "ZFIN", "ZFILE", "ZDATA"}) \/ IsFrame(Down[i], {"ZEOF"})
  BY DEF NoTurn, IsFrame, SessionInv, FinIsTrue
<1>5. LinkOK'
  <2>1. ASSUME NEW i \in 1 .. Len(Down'), Down'[i].is = "header"
        PROVE  Down'[i].frame \in {"ZRQINIT", "ZNAK", "ZFILE", "ZDATA", "ZEOF", "ZFIN"}
    BY <1>2, <1>3, <2>1 DEF SessionInv, LinkOK
  <2>2. ASSUME NEW i \in 1 .. Len(Up')
        PROVE  Up'[i].frame \in {"ZRINIT", "ZNAK", "ZFIN"} \cup Answers
    BY <2>2 DEF SessionInv, LinkOK
  <2> QED
    BY <2>1, <2>2 DEF LinkOK
<1>6. EofIsTrue'
  <2>1. ASSUME NEW i \in 1 .. Len(Down'), IsFrame(Down'[i], {"ZEOF"})
        PROVE  rFileName \in Begun \ declined /\ Has(rFileName)
    BY <1>2, <1>3, <2>1 DEF SessionInv, EofIsTrue, IsFrame
  <2>2. rFileName' = rFileName /\ declined' = declined /\ (Has(rFileName)' <=> Has(rFileName))
    BY DEF KeepsReceiver, Has
  <2> QED
    BY <2>1, <2>2 DEF EofIsTrue
<1>7. \A i \in 1 .. Len(Down') : ~IsFrame(Down'[i], {"ZFIN"})
  BY <1>2, <1>3, <1>4 DEF IsFrame
<1>8. FinIsTrue'
  BY <1>7 DEF FinIsTrue
<1>9. AnnouncementUnderWay'
  <2>1. ReceiverIdle' /\ ~ResetDue' /\ NoAnswer' /\ rFileName' = rFileName
    BY NoAnswerStays DEF NoTurn, KeepsReceiver, ReceiverIdle, ResetDue
  <2>2. k \in 1 .. Len(Down') /\ k < Len(Down')
    BY <1>1
  <2>3. IsFrame(Down'[k], {"ZFILE"}) /\ Announced(Down[k + 1])'
    <3>1. Down'[k + 1] = Metadata(CurrentFile', Len(Content[CurrentFile']))
      BY <1>1
    <3> QED
      BY <1>1, <1>2, <3>1, Zenon DEF IsFrame, Announced
  <2>4. \A i \in 1 .. k - 1 : ~IsFrame(Down'[i], {"ZFILE", "ZDATA", "ZFIN"})
    <3>1. ASSUME NEW i \in 1 .. k - 1
          PROVE  ~IsFrame(Down'[i], {"ZFILE", "ZDATA", "ZFIN"})
      <4>1. i \in 1 .. Len(Down) /\ Down'[i] = Down[i]
        BY <1>1
      <4> QED
        BY <1>4, <4>1 DEF IsFrame
    <3> QED
      BY <3>1
  <2>5. \A i \in k + 2 .. Len(Down') : Noise(Down'[i])
    BY <1>1
  <2> HIDE DEF metadata
  <2> QED
    BY <2>1, <2>2, <2>3, <2>4, <2>5 DEF AnnouncementUnderWay
<1> QED
  BY <1>5, <1>6, <1>8, <1>9 DEF SessionInv, SomeTurn

\* A sender between two files hears a header and goes on.
LEMMA SenderGoesOn ==
  ASSUME SessionInv, S!Readable, up # <<>>, up' = Tail(up),
         UNCHANGED <<rVars, down, world>>,
         sState \in {"WaitReceiverInit", "WaitFileDone", "WaitFinish"},
         SenderOK', FilesSettled',
         sState' \in {"ReadyForFile", "WaitFinish", "Done"},
         sState = "WaitFinish" => sState' = "Done",
         \/ sOutgoing' = <<>>
         \/ \E unit \in Unit : sOutgoing' = <<unit>> /\ MayFollow(unit)
  PROVE  SessionInv'
<1>1. /\ LaneTypes /\ KeepsReceiver /\ KeepsWorld /\ down' = down
      /\ up' \in Seq(HeaderUnit) /\ rOutgoing' \in Seq(HeaderUnit)
      /\ down' \in Seq(Unit)
      /\ \A i \in 1 .. Len(Up') : \E j \in 1 .. Len(Up) : Up'[i] = Up[j]
  BY SenderTakes
<1>2. sOutgoing = <<>>
  BY WhileReadable
<1>3. NoTurn
  BY SenderBetweenFiles
<1>4. /\ NoAnswer' /\ ReceiverIdle /\ ~ResetDue
      /\ \A i \in 1 .. Len(Down) : ~IsFrame(Down[i], {"ZFILE", "ZDATA"})
  BY <1>1, <1>3, NoAnswerStays DEF NoTurn
<1>5. Down' = Down \/ \E unit : DownSaid(<<unit>>) /\ MayFollow(unit)
  <2>1. CASE sOutgoing' = <<>>
    BY <1>1, <1>2, <2>1 DEF Down
  <2>2. ASSUME NEW unit \in Unit, sOutgoing' = <<unit>>, MayFollow(unit)
        PROVE  DownSaid(<<unit>>)
    <3>1. <<unit>> \in Seq(Unit)
      OBVIOUS
    <3> QED
      BY <1>1, <1>2, <2>2, <3>1, SenderSays
  <2> QED
    BY <2>1, <2>2
<1>6. ~OwesHeader' /\ sState' # "WaitReceiverInit" /\ sState # "Done"
  BY DEF OwesHeader
<1> QED
  BY <1>1, <1>4, <1>5, <1>6, NobodysTurn

\* With the current file settled, all those before it are.
LEMMA EveryFileSettled ==
  ASSUME SenderOK, FilesSettled, offered = Len(Files),
         offered > 0 => Settled(CurrentFile)
  PROVE  AllSettled
<1>1. offered = Len(Files) /\ Len(Files) \in Nat
  BY FilesAssumption DEF SenderOK
<1>2. ASSUME NEW i \in 1 .. Len(Files)
      PROVE  Settled(Files[i])
  <2>1. CASE i = offered
    BY <1>1, <2>1 DEF CurrentFile
  <2>2. CASE i # offered
    BY <1>1, <2>2 DEF FilesSettled
  <2> QED
    BY <2>1, <2>2
<1> QED
  BY <1>1, <1>2 DEF AllSettled

LEMMA FilesStaySettled ==
  ASSUME KeepsWorld, FilesSettled,
         sState' \in {"ReadyForFile", "WaitFinish"} /\ offered > 0
           => Settled(CurrentFile),
         sState' # "WaitFileDone"
  PROVE  FilesSettled'
<1>1. /\ CurrentFile' = CurrentFile /\ offered' = offered
      /\ \A name : Settled(name)' <=> Settled(name)
  BY SameWorld DEF KeepsWorld
<1>2. \A i \in 1 .. offered - 1 : Settled(Files[i])'
  BY <1>1 DEF FilesSettled
<1>3. sState' \in {"ReadyForFile", "WaitFinish"} /\ offered > 0
      => Settled(CurrentFile)'
  BY <1>1
<1> QED
  BY <1>1, <1>2, <1>3 DEF FilesSettled

LEMMA ReceiverCapsPositive ==
  ASSUME NEW h \in HeaderUnit
  PROVE  S!SubpacketSizeFor(h) \in Nat \ {0}
<1>1. h.bufferLen \in Nat
  BY DEF HeaderUnit
<1> QED
  BY <1>1, SessionLimitsAssumption DEF S!SubpacketSizeFor, S!Smaller

\* The handshake is done, or a file, or the session.
LEMMA SenderHearsZrinit ==
  ASSUME SessionInv, S!Readable, up # <<>>, up' = Tail(up),
         UNCHANGED <<rVars, down, world>>, S!OnZrinit(Head(up))
  PROVE  SessionInv'
<1>1. /\ LaneTypes /\ KeepsReceiver /\ KeepsWorld /\ down' = down
      /\ up' \in Seq(HeaderUnit) /\ rOutgoing' \in Seq(HeaderUnit)
      /\ down' \in Seq(Unit)
      /\ Head(up) \in HeaderUnit
      /\ \A i \in 1 .. Len(Up') : \E j \in 1 .. Len(Up) : Up'[i] = Up[j]
  BY SenderTakes
<1>2. /\ sOutgoing = <<>> /\ pendingRequest = NoRequest /\ ~OwesHeader
      /\ sState \in {"WaitReceiverInit", "ReadyForFile", "WaitFilePos",
                     "WaitFileAck", "WaitFileDone", "WaitFinish"}
  BY WhileReadable
<1>3. /\ Head(up).frame = "ZRINIT"
      /\ maxSubpacketSize' \in Nat \ {0}
      /\ UNCHANGED <<sFileName, sFileSize, pendingRequest, frameNeedsHeader,
                     finishRequested>>
  BY <1>1, ReceiverCapsPositive
     DEF S!OnZrinit, S!UpdateReceiverCaps, S!frameVars
<1>4. offered' = offered /\ CurrentFile' = CurrentFile /\ Begun' = Begun
      /\ (Undecided' <=> Undecided)
  BY <1>1, SameWorld DEF KeepsWorld
<1>5. SenderOK /\ FilesSettled /\ finishRequested \in BOOLEAN
      /\ sHasFile \in BOOLEAN /\ offered \in Nat
  BY FilesAssumption DEF SessionInv, SenderOK
<1>6. CASE /\ sState = "WaitReceiverInit" /\ sHasFile
           /\ sOutgoing' = S!FileUnits(sFileName, sFileSize)
           /\ sState' = "WaitFilePos"
           /\ sHasFile' = sHasFile
  <2>1. /\ offered > 0 /\ sFileName = CurrentFile
        /\ sFileSize = Len(Content[CurrentFile])
    BY <1>5, <1>6 DEF SenderOK
  <2>2. CurrentFile \in Name /\ Len(Content[CurrentFile]) \in Nat
    BY <1>5, <2>1, CurrentIsNamed
  <2>3. sOutgoing' = <<Header("ZFILE", 0),
                       Metadata(CurrentFile, Len(Content[CurrentFile]))>>
    BY <1>6, <2>1, SameUnits DEF S!FileUnits
  <2>4. sOutgoing' \in Seq(Unit)
    <3>1. Header("ZFILE", 0) \in Unit
      BY HeaderIsUnit DEF Frame
    <3>2. Metadata(CurrentFile, Len(Content[CurrentFile])) \in Unit
      BY <2>2 DEF Metadata, MetadataUnit, Unit
    <3> QED
      BY <2>3, <3>1, <3>2
  <2>5. DownSaid(<<Header("ZFILE", 0),
                   Metadata(CurrentFile, Len(Content[CurrentFile]))>>)
    BY <1>1, <1>2, <2>3, <2>4, SenderSays
  <2>6. NoTurn
    BY <1>6, SenderBetweenFiles
  <2>7. Undecided /\ rFileName # CurrentFile
    BY <1>6, <2>6 DEF NoTurn
  <2>8. SenderOK'
    BY <1>2, <1>3, <1>4, <1>5, <1>6, <2>4 DEF SenderOK, S!SenderPhase
  <2>9. FilesSettled'
    BY <1>1, <1>5, <1>6, FilesStaySettled
  <2>10. ReceiverOK' /\ WorldOK'
    BY <1>1, <1>4, SameReceiver, SameWorld DEF SessionInv
  <2>11. PICK name \in Name : name = CurrentFile
    BY <2>2
  <2>12. /\ name = CurrentFile' /\ Undecided' /\ rFileName # CurrentFile'
         /\ offered' > 0 /\ Begun \subseteq Begun'
         /\ DownSaid(<<Header("ZFILE", 0), Metadata(name, Len(Content[name]))>>)
         /\ UNCHANGED <<disk, declined, completed>>
    BY <1>1, <1>4, <2>1, <2>5, <2>7, <2>11 DEF KeepsWorld
  <2> QED
    BY <1>1, <1>6, <2>6, <2>8, <2>9, <2>10, <2>11, <2>12, AnnouncementIsMade
<1>7. CASE /\ S!FinishOrReady
           /\ \/ sState = "WaitReceiverInit" /\ ~sHasFile /\ sHasFile' = sHasFile
              \/ sState = "WaitFileDone" /\ sHasFile' = FALSE
  <2>1. sHasFile' = FALSE /\ (offered > 0 => Settled(CurrentFile))
    BY <1>5, <1>7 DEF SenderOK, FilesSettled, Settled
  <2>2. finishRequested => AllSettled
    BY <1>5, <2>1, EveryFileSettled DEF SenderOK
  <2>3. /\ sState' \in {"ReadyForFile", "WaitFinish"}
        /\ sState' = "WaitFinish" => finishRequested
    BY <1>7 DEF S!FinishOrReady
  <2>4. \/ sOutgoing' = <<>>
        \/ sOutgoing' = <<Header("ZFIN", 0)>> /\ MayFollow(Header("ZFIN", 0))
    <3>1. CASE ~finishRequested
      BY <1>2, <1>7, <3>1 DEF S!FinishOrReady
    <3>2. CASE finishRequested
      <4>1. sOutgoing' = <<Header("ZFIN", 0)>> /\ sState' = "WaitFinish"
        BY <1>7, <3>2, SameUnits DEF S!FinishOrReady
      <4>2. /\ Header("ZFIN", 0) \in Unit
            /\ Header("ZFIN", 0).frame = "ZFIN"
        BY HeaderIsUnit DEF Frame
      <4> QED
        BY <2>2, <3>2, <4>1, <4>2 DEF MayFollow, IsFrame
    <3> QED
      BY <3>1, <3>2
  <2>5. Header("ZFIN", 0) \in Unit /\ <<Header("ZFIN", 0)>> \in Seq(Unit)
    BY HeaderIsUnit DEF Frame
  <2>6. sOutgoing' \in Seq(Unit)
    BY <1>1, <1>2, <2>4, <2>5 DEF LaneTypes
  <2>7. SenderOK'
    BY <1>2, <1>3, <1>4, <1>5, <2>1, <2>3, <2>6 DEF SenderOK, S!SenderPhase
  <2>8. FilesSettled'
    BY <1>1, <1>5, <2>1, <2>3, FilesStaySettled
  <2> QED
    BY <1>7, <2>3, <2>4, <2>5, <2>7, <2>8, SenderGoesOn
<1>8. CASE /\ sState = "WaitFinish" /\ S!CompleteSession
           /\ sHasFile' = sHasFile
  <2>1. sOutgoing' = <<OverAndOut>> /\ sState' = "Done"
    BY <1>8, SameUnits DEF S!CompleteSession
  <2>2. OverAndOut \in Unit /\ MayFollow(OverAndOut)
        /\ <<OverAndOut>> \in Seq(Unit)
    BY DEF OverAndOut, Unit, MayFollow, IsFrame
  <2>3. SenderOK'
    BY <1>2, <1>3, <1>4, <1>5, <1>8, <2>1, <2>2 DEF SenderOK, S!SenderPhase
  <2>4. FilesSettled'
    BY <1>1, <1>5, <2>1, FilesStaySettled
  <2> QED
    BY <1>8, <2>1, <2>2, <2>3, <2>4, SenderGoesOn
<1>9. CASE UNCHANGED <<sState, sOutgoing, sHasFile>>
  <2>1. KeepsSender
    BY <1>3, <1>4, <1>9 DEF KeepsSender
  <2>2. Head(up).frame \notin Answers
    BY <1>3 DEF Answers
  <2> QED
    BY <1>2, <1>9, <2>1, <2>2, SenderDrops
<1> QED
  BY <1>6, <1>7, <1>8, <1>9 DEF S!OnZrinit, S!CompletesFile

\* The receiver asks for the file from the position it has reached.
LEMMA SenderHearsPosition ==
  ASSUME SessionInv, S!Readable, up # <<>>, up' = Tail(up),
         UNCHANGED <<rVars, down, world>>, S!OnZrpos(Head(up))
  PROVE  SessionInv'
<1>1. /\ LaneTypes /\ UpTaken /\ KeepsReceiver /\ KeepsWorld /\ down' = down
      /\ up' \in Seq(HeaderUnit) /\ rOutgoing' \in Seq(HeaderUnit)
      /\ down' \in Seq(Unit)
      /\ Head(up) = Up[1] /\ Head(up) \in HeaderUnit
      /\ \A i \in 1 .. Len(Up') : \E j \in 1 .. Len(Up) : Up'[i] = Up[j]
  BY SenderTakes
<1>2. /\ sOutgoing = <<>> /\ pendingRequest = NoRequest /\ ~OwesHeader
      /\ sState \in {"WaitReceiverInit", "ReadyForFile", "WaitFilePos",
                     "WaitFileAck", "WaitFileDone", "WaitFinish"}
  BY WhileReadable
<1>3. /\ Head(up).frame \in {"ZRPOS", "ZACK"}
      /\ UNCHANGED <<sFileName, sFileSize, sHasFile, maxSubpacketSize,
                     finishRequested>>
  BY DEF S!OnZrpos, S!fileVars, S!capVars
<1>4. Up[1].frame \in Answers /\ Up[1].frame # "ZSKIP"
  BY <1>1, <1>3 DEF Answers
<1>5. /\ ReceiverIdle /\ ~ResetDue /\ NoAnswer'
      /\ sState \in {"WaitFilePos", "NeedFileData", "WaitFileAck", "Done"}
      /\ offered > 0 /\ rFileName = CurrentFile
      /\ CurrentFile \notin completed
      /\ \A i \in 1 .. Len(Down) : Plain(Down[i])
      /\ AnswersCurrent(1)
  BY <1>1, <1>4, AnswerHasCome
<1>6. /\ CurrentFile \notin declined
      /\ Head(up).count = count /\ count <= Len(Content[CurrentFile])
      /\ Synced
  BY <1>1, <1>4, <1>5 DEF AnswersCurrent
<1>7. sState \in {"WaitFilePos", "WaitFileAck"}
  BY <1>2, <1>5
<1>8. /\ SenderOK /\ FilesSettled /\ WorldOK /\ count \in Nat
      /\ CurrentFile \in Name /\ CurrentFile \in Begun
      /\ Len(Content[CurrentFile]) \in Nat
      /\ Len(Content[CurrentFile]) <= MaxPosition
  BY <1>5, CurrentIsNamed DEF SessionInv, ReceiverOK
<1>9. sHasFile /\ sFileSize = Len(Content[CurrentFile])
  BY <1>7, <1>8 DEF SenderOK
<1>10. offered' = offered /\ CurrentFile' = CurrentFile /\ Begun' = Begun
       /\ (Undecided' <=> Undecided)
  BY <1>1, SameWorld DEF KeepsWorld
<1>11. \A i \in 1 .. Len(Down) : ~IsFrame(Down[i], {"ZFILE", "ZDATA"})
  BY <1>5, PlainIsNoFrame
<1>12. CASE /\ S!AtEnd(Head(up).count)
            /\ sOutgoing' = <<Header("ZEOF", Head(up).count)>>
            /\ sState' = "WaitFileDone"
            /\ pendingRequest' = NoRequest
  <2>1. Has(CurrentFile)
    <3>1. Len(disk[CurrentFile]) >= Len(Content[CurrentFile])
      BY <1>6, <1>8, <1>9, <1>12 DEF S!AtEnd, Synced
    <3> QED
      BY <1>8, <3>1, AsLongIsWhole
  <2>2. /\ Header("ZEOF", Head(up).count) \in Unit
        /\ <<Header("ZEOF", Head(up).count)>> \in Seq(Unit)
        /\ Header("ZEOF", Head(up).count).is = "header"
        /\ Header("ZEOF", Head(up).count).frame = "ZEOF"
    BY <1>6, <1>8, HeaderIsUnit DEF Frame
  <2>3. MayFollow(Header("ZEOF", Head(up).count))
    BY <1>5, <1>6, <1>8, <2>1, <2>2 DEF MayFollow, IsFrame
  <2>4. DownSaid(<<Header("ZEOF", Head(up).count)>>)
    BY <1>1, <1>2, <1>12, <2>2, SenderSays
  <2>5. SenderOK'
    BY <1>3, <1>8, <1>9, <1>10, <1>12, <2>2 DEF SenderOK, S!SenderPhase
  <2>6. FilesSettled'
    <3>1. Has(CurrentFile)' /\ \A name : Settled(name)' <=> Settled(name)
      BY <1>1, <1>10, <2>1, SameWorld DEF KeepsWorld, Has
    <3> QED
      BY <1>8, <1>10, <1>12, <3>1 DEF FilesSettled
  <2>7. /\ ~OwesHeader' /\ sState' # "WaitReceiverInit"
        /\ sState \notin {"WaitFinish", "Done"}
    BY <1>7, <1>12 DEF OwesHeader
  <2> QED
    BY <1>1, <1>5, <1>11, <2>3, <2>4, <2>5, <2>6, <2>7, NobodysTurn
<1>13. CASE /\ ~S!AtEnd(Head(up).count)
            /\ frameNeedsHeader' = TRUE
            /\ pendingRequest' =
                 [offset |-> Head(up).count,
                  len |-> S!Smaller(maxSubpacketSize,
                                    sFileSize - Head(up).count)]
            /\ sState' = "NeedFileData"
            /\ sOutgoing' = sOutgoing
  <2>1. count < sFileSize /\ sFileSize \in Nat /\ sFileSize <= MaxPosition
        /\ maxSubpacketSize \in Nat \ {0}
    BY <1>6, <1>8, <1>9, <1>13 DEF S!AtEnd, SenderOK
  <2>2. /\ pendingRequest'.offset = count
        /\ pendingRequest' \in S!Request
        /\ pendingRequest'.len >= 1
        /\ pendingRequest'.offset + pendingRequest'.len <= sFileSize
    <3> DEFINE len == S!Smaller(maxSubpacketSize, sFileSize - count)
    <3>1. len \in Nat /\ len >= 1 /\ count + len <= sFileSize
      BY <1>8, <2>1 DEF S!Smaller
    <3> HIDE DEF len
    <3>2. pendingRequest' = [offset |-> count, len |-> len]
      BY <1>6, <1>13 DEF len
    <3>3. count \in 0 .. MaxPosition
      BY <1>8, <2>1, SessionLimitsAssumption
    <3> QED
      BY <3>1, <3>2, <3>3 DEF S!Request
  <2>3. Down' = Down
    BY <1>1, <1>13 DEF Down
  <2>4. SenderOK'
    BY <1>1, <1>2, <1>3, <1>8, <1>9, <1>10, <1>13, <2>2
       DEF SenderOK, S!SenderPhase, LaneTypes
  <2>5. FilesSettled'
    BY <1>1, <1>8, <1>13, FilesStaySettled
  <2>6. /\ ReceiverOK' /\ WorldOK'
        /\ ReceiverIdle' /\ ~ResetDue'
    BY <1>1, <1>5, <1>10, SameReceiver, SameWorld DEF SessionInv
  <2>7. LinkOK'
    BY <1>1, <2>3 DEF LinkOK, SessionInv
  <2>8. EofIsTrue' /\ FinIsTrue'
    BY <1>5, <2>3 DEF EofIsTrue, FinIsTrue, Plain, IsFrame
  <2>9. FrameOwed'
    <3>1. Taken' /\ Synced'
      BY <1>1, <1>5, <1>6, <1>10
         DEF Taken, Synced, Undecided, KeepsReceiver, KeepsWorld
    <3>2. OwesHeader' /\ pendingRequest'.offset = count'
      BY <1>1, <1>13, <2>2 DEF OwesHeader, KeepsReceiver
    <3> QED
      BY <1>5, <2>3, <2>6, <3>1, <3>2 DEF FrameOwed
  <2> QED
    BY <2>4, <2>5, <2>6, <2>7, <2>8, <2>9 DEF SessionInv, SomeTurn
<1> QED
  BY <1>7, <1>12, <1>13, SameUnits DEF S!OnZrpos

\* The receiver declines the file.
LEMMA SenderHearsRefusal ==
  ASSUME SessionInv, S!Readable, up # <<>>, up' = Tail(up),
         UNCHANGED <<rVars, down, world>>, S!OnZskip(Head(up))
  PROVE  SessionInv'
<1>1. /\ LaneTypes /\ UpTaken /\ KeepsReceiver /\ KeepsWorld /\ down' = down
      /\ up' \in Seq(HeaderUnit) /\ rOutgoing' \in Seq(HeaderUnit)
      /\ down' \in Seq(Unit)
      /\ Head(up) = Up[1]
      /\ \A i \in 1 .. Len(Up') : \E j \in 1 .. Len(Up) : Up'[i] = Up[j]
  BY SenderTakes
<1>2. /\ sOutgoing = <<>>
      /\ sState \in {"WaitReceiverInit", "ReadyForFile", "WaitFilePos",
                     "WaitFileAck", "WaitFileDone", "WaitFinish"}
  BY WhileReadable
<1>3. Up[1].frame = "ZSKIP" /\ Up[1].frame \in Answers
  BY <1>1 DEF Answers, S!OnZskip
<1>4. /\ ReceiverIdle /\ ~ResetDue /\ NoAnswer'
      /\ sState \in {"WaitFilePos", "NeedFileData", "WaitFileAck", "Done"}
      /\ \A i \in 1 .. Len(Down) : Plain(Down[i])
      /\ CurrentFile \in declined
  BY <1>1, <1>3, AnswerHasCome DEF AnswersCurrent
<1>5. /\ sState' = "ReadyForFile" /\ sHasFile' = FALSE
      /\ pendingRequest' = NoRequest
      /\ UNCHANGED <<sFileName, sFileSize, maxSubpacketSize, finishRequested,
                     sOutgoing>>
  BY <1>2, <1>4 DEF S!OnZskip, S!capVars
<1>6. offered' = offered /\ Down' = Down
  BY <1>1, <1>5 DEF KeepsWorld, Down
<1>7. SenderOK'
  BY <1>5, <1>6 DEF SenderOK, S!SenderPhase, SessionInv
<1>8. FilesSettled'
  BY <1>1, <1>4, <1>5, FilesStaySettled DEF Settled, SessionInv
<1>9. \A i \in 1 .. Len(Down) : ~IsFrame(Down[i], {"ZFILE", "ZDATA"})
  BY <1>4, PlainIsNoFrame
<1>10. /\ ~OwesHeader' /\ sState' # "WaitReceiverInit"
       /\ sState \notin {"WaitFinish", "Done"}
  BY <1>2, <1>4, <1>5 DEF OwesHeader
<1> QED
  BY <1>1, <1>4, <1>6, <1>7, <1>8, <1>9, <1>10, NobodysTurn

LEMMA SenderHears ==
  ASSUME SessionInv, SenderReceives
  PROVE  SessionInv'
<1>1. /\ up # <<>> /\ up' = Tail(up) /\ S!Readable
      /\ UNCHANGED <<rVars, down, world>>
      /\ S!SubmitWire(Head(up))
  BY DEF SenderReceives, S!SubmitWire
<1>2. /\ LaneTypes /\ KeepsWorld
      /\ Head(up).frame \in {"ZRINIT", "ZNAK", "ZFIN"} \cup Answers
      /\ Up[1] = Head(up)
  BY <1>1, SenderTakes
<1>3. /\ sOutgoing = <<>> /\ pendingRequest = NoRequest
      /\ SenderOK /\ offered' = offered
  BY <1>1, <1>2, WhileReadable DEF SessionInv, KeepsWorld
<1>4. CASE S!OnZrinit(Head(up))
  BY <1>1, <1>4, SenderHearsZrinit
<1>5. CASE S!OnZrpos(Head(up))
  BY <1>1, <1>5, SenderHearsPosition
<1>6. CASE S!OnZskip(Head(up))
  BY <1>1, <1>6, SenderHearsRefusal
<1>7. CASE S!OnAbort(Head(up))
  BY <1>2, <1>7 DEF S!OnAbort, Answers
<1>8. CASE S!OnZfin(Head(up)) /\ sState = "WaitFinish"
  <2>1. /\ sOutgoing' = <<OverAndOut>> /\ sState' = "Done"
        /\ UNCHANGED <<sHasFile, sFileName, sFileSize, pendingRequest,
                       maxSubpacketSize, finishRequested>>
    BY <1>8, SameUnits DEF S!OnZfin, S!CompleteSession, S!fileVars,
       S!frameVars, S!capVars
  <2>2. OverAndOut \in Unit /\ MayFollow(OverAndOut)
        /\ <<OverAndOut>> \in Seq(Unit)
    BY DEF OverAndOut, Unit, MayFollow, IsFrame
  <2>3. SenderOK'
    BY <1>3, <1>8, <2>1, <2>2 DEF SenderOK, S!SenderPhase
  <2>4. FilesSettled'
    BY <1>2, <2>1, FilesStaySettled DEF SessionInv
  <2> QED
    BY <1>1, <1>8, <2>1, <2>2, <2>3, <2>4, SenderGoesOn
<1>9. CASE S!OnZfin(Head(up)) /\ sState # "WaitFinish"
  <2>1. KeepsSender /\ sOutgoing' = <<>>
    BY <1>3, <1>9 DEF S!OnZfin, S!fileVars, S!frameVars, S!capVars,
       KeepsSender, SenderOK
  <2>2. Head(up).frame \notin Answers
    BY <1>9 DEF S!OnZfin, Answers
  <2> QED
    BY <1>1, <2>1, <2>2, SenderDrops
<1>10. CASE S!OnOther(Head(up))
  <2>1. /\ KeepsSender
        /\ sOutgoing' \in {<<>>, <<Header("ZRQINIT", 0)>>}
    BY <1>3, <1>10, SameUnits DEF S!OnOther, S!QueueZrqinit, S!fileVars,
       S!frameVars, S!capVars, KeepsSender, SenderOK
  <2>2. Head(up).frame \notin Answers
    BY <1>10 DEF S!OnOther, Answers
  <2> QED
    BY <1>1, <2>1, <2>2, SenderDrops
<1> QED
  BY <1>1, <1>4, <1>5, <1>6, <1>7, <1>8, <1>9, <1>10 DEF S!SubmitWire

-----------------------------------------------------------------------------
(***************************************************************************)
(* The sender's user offers a file, or asks to finish.                     *)
(***************************************************************************)
\* A file that is offered is another than all those before it.
LEMMA NextFileIsNew ==
  ASSUME SenderOK, ReceiverOK, WorldOK, offered < Len(Files),
         offered' = offered + 1
  PROVE  /\ offered \in Nat /\ Len(Files) \in Nat
         /\ CurrentFile' = Files[offered + 1]
         /\ Files[offered + 1] \in Name
         /\ Files[offered + 1] \notin completed \cup declined
         /\ rFileName # Files[offered + 1]
         /\ Begun \subseteq Begun' /\ Files[offered + 1] \in Begun'
<1>1. offered \in Nat /\ Len(Files) \in Nat /\ offered + 1 \in 1 .. Len(Files)
  BY FilesAssumption DEF SenderOK
<1>2. Files[offered + 1] \in Name
  BY <1>1, FilesAssumption
<1>3. Files[offered + 1] \notin Begun
  <2>1. ASSUME NEW i \in 1 .. offered
        PROVE  Files[i] # Files[offered + 1]
    <3>1. i \in 1 .. Len(Files) /\ i # offered + 1
      BY <1>1
    <3> QED
      BY <1>1, <3>1, FilesAssumption
  <2> QED
    BY <2>1 DEF Begun
<1>4. Begun' = {Files[i] : i \in 1 .. offered + 1}
  BY DEF Begun
<1>5. Begun \subseteq Begun' /\ Files[offered + 1] \in Begun'
  <2>1. 1 .. offered \subseteq 1 .. offered + 1 /\ offered + 1 \in 1 .. offered + 1
    BY <1>1
  <2> QED
    BY <1>4, <2>1 DEF Begun
<1> QED
  BY <1>1, <1>2, <1>3, <1>5, EmptyNameAssumption
     DEF CurrentFile, WorldOK, ReceiverOK

LEMMA MoreFilesBegun ==
  ASSUME KeepsReceiver, UNCHANGED <<disk, declined, completed>>,
         Begun \subseteq Begun', ReceiverOK, WorldOK,
         rOutgoing' \in Seq(HeaderUnit)
  PROVE  ReceiverOK' /\ WorldOK'
<1>1. ResetDue' <=> ResetDue
  BY DEF KeepsReceiver, ResetDue
<1>2. ReceiverOK'
  BY <1>1 DEF KeepsReceiver, ReceiverOK
<1>3. WorldOK'
  BY DEF WorldOK, DiskIsPrefix, CompletedIsWhole, Has
<1> QED
  BY <1>2, <1>3

LEMMA FileIsOffered ==
  ASSUME SessionInv, OfferFile
  PROVE  SessionInv'
<1>1. /\ offered < Len(Files) /\ ~sHasFile /\ ~finishRequested
      /\ sState \in {"WaitReceiverInit", "ReadyForFile"}
      /\ sState = "WaitReceiverInit" \/ sOutgoing = <<>>
      /\ offered' = offered + 1
      /\ sFileName' = Files[offered + 1]
      /\ sFileSize' = Len(Content[Files[offered + 1]])
      /\ sHasFile' = TRUE /\ pendingRequest' = NoRequest
      /\ UNCHANGED <<maxSubpacketSize, finishRequested, down, up, rOutgoing,
                     disk, declined, completed>>
      /\ KeepsReceiver
  BY DEF OfferFile, S!StartFile, S!capVars, rVars, link, KeepsReceiver
<1>2. /\ SenderOK /\ ReceiverOK /\ LinkOK /\ WorldOK
      /\ FilesSettled /\ EofIsTrue /\ FinIsTrue /\ LaneTypes
  BY InvTypesLanes DEF SessionInv
<1>3. /\ offered \in Nat /\ Len(Files) \in Nat
      /\ CurrentFile' = Files[offered + 1]
      /\ CurrentFile' \in Name
      /\ CurrentFile' \notin completed \cup declined
      /\ rFileName # CurrentFile'
      /\ Begun \subseteq Begun'
  BY <1>1, <1>2, NextFileIsNew
<1>4. ReceiverOK' /\ WorldOK'
  BY <1>1, <1>2, <1>3, MoreFilesBegun DEF LaneTypes
<1>5. NoTurn
  BY <1>1, SenderBetweenFiles
<1>6. Undecided' /\ offered' > 0
  BY <1>1, <1>3 DEF Undecided
<1>7. /\ Up' = Up
      /\ down' \in Seq(Unit) /\ up' \in Seq(HeaderUnit)
  BY <1>1, <1>2 DEF Up, LaneTypes
<1>8. \A name : Settled(name)' <=> Settled(name)
  BY <1>1 DEF Settled, Has
<1>9. CASE sState = "ReadyForFile"
  <2>1. /\ sOutgoing = <<>> /\ sState' = "WaitFilePos"
        /\ sOutgoing' = <<Header("ZFILE", 0),
                          Metadata(Files[offered + 1],
                                   Len(Content[Files[offered + 1]]))>>
    BY <1>1, <1>9, SameUnits DEF OfferFile, S!StartFile, S!FileUnits
  <2>2. PICK name \in Name : name = Files[offered + 1]
    BY <1>3
  <2>3. Len(Content[name]) \in Nat
    BY FilesAssumption
  <2>4. <<Header("ZFILE", 0), Metadata(name, Len(Content[name]))>> \in Seq(Unit)
    <3>1. Header("ZFILE", 0) \in Unit
      BY HeaderIsUnit DEF Frame
    <3>2. Metadata(name, Len(Content[name])) \in Unit
      BY <2>3 DEF Metadata, MetadataUnit, Unit
    <3> QED
      BY <3>1, <3>2
  <2>5. DownSaid(<<Header("ZFILE", 0), Metadata(name, Len(Content[name]))>>)
    BY <1>1, <1>2, <2>1, <2>2, <2>4, SenderSays
  <2>6. SenderOK'
    BY <1>1, <1>2, <1>3, <2>1, <2>2, <2>4 DEF SenderOK, S!SenderPhase
  <2>7. FilesSettled'
    <3>1. ASSUME NEW i \in 1 .. offered
          PROVE  Settled(Files[i])
      <4>1. CASE i = offered
        BY <1>2, <1>3, <1>9, <4>1 DEF FilesSettled, CurrentFile
      <4>2. CASE i # offered
        BY <1>2, <1>3, <4>2 DEF FilesSettled
      <4> QED
        BY <4>1, <4>2
    <3>2. \A i \in 1 .. offered' - 1 : Settled(Files[i])'
      BY <1>1, <1>3, <1>8, <3>1
    <3> QED
      BY <2>1, <3>2 DEF FilesSettled
  <2> QED
    BY <1>1, <1>3, <1>4, <1>5, <1>6, <1>7, <1>9, <2>1, <2>2, <2>5, <2>6,
       <2>7, AnnouncementIsMade
<1>10. CASE sState = "WaitReceiverInit"
  <2>1. sState' = sState /\ sOutgoing' = sOutgoing
    BY <1>10 DEF OfferFile, S!StartFile
  <2>2. offered = 0 /\ offered' = 1
    BY <1>1, <1>2, <1>10 DEF SenderOK
  <2>3. Down' = Down
    BY <1>1, <2>1 DEF Down
  <2>4. SenderOK'
    BY <1>1, <1>2, <1>3, <1>10, <2>1, <2>2 DEF SenderOK
  <2>5. LinkOK'
    BY <1>2, <1>7, <2>3 DEF LinkOK
  <2>6. FilesSettled'
    BY <1>10, <2>1, <2>2 DEF FilesSettled
  <2>7. EofIsTrue' /\ FinIsTrue'
    BY <1>2, <1>10, <2>3 DEF EofIsTrue, FinIsTrue
  <2>8. NoTurn'
    <3>1. ReceiverIdle' /\ ~ResetDue' /\ NoAnswer' /\ rFileName' = rFileName
      BY <1>1, <1>5, <1>7
         DEF NoTurn, NoAnswer, KeepsReceiver, ReceiverIdle, ResetDue
    <3>2. ~OwesHeader'
      BY <1>10, <2>1 DEF OwesHeader
    <3> QED
      BY <1>3, <1>5, <1>6, <2>3, <3>1, <3>2 DEF NoTurn
  <2> QED
    BY <1>4, <2>4, <2>5, <2>6, <2>7, <2>8 DEF SessionInv, SomeTurn
<1> QED
  BY <1>1, <1>9, <1>10

LEMMA FinishIsAskedFor ==
  ASSUME SessionInv, AskToFinish
  PROVE  SessionInv'
<1>1. /\ offered = Len(Files) /\ finishRequested' = TRUE
      /\ sState = "ReadyForFile" => sOutgoing = <<>>
      /\ UNCHANGED <<sFileName, sFileSize, sHasFile, pendingRequest,
                     frameNeedsHeader, maxSubpacketSize, down, up, rOutgoing>>
      /\ KeepsReceiver /\ KeepsWorld
  BY DEF AskToFinish, S!Finish, S!fileVars, S!frameVars, S!capVars, rVars,
     link, world, KeepsReceiver, KeepsWorld
<1>2. SenderOK /\ FilesSettled /\ LaneTypes
  BY InvTypesLanes DEF SessionInv
<1>3. Up' = Up /\ offered' = offered
  BY <1>1 DEF Up, KeepsWorld
<1>4. CASE sState = "ReadyForFile"
  <2>1. sOutgoing = <<>> /\ sOutgoing' = <<Header("ZFIN", 0)>>
        /\ sState' = "WaitFinish"
    BY <1>1, <1>4, SameUnits DEF AskToFinish, S!Finish
  <2>2. NoTurn
    BY <1>4, SenderBetweenFiles
  <2>3. AllSettled /\ (offered > 0 => Settled(CurrentFile))
    BY <1>1, <1>2, <1>4, EveryFileSettled DEF FilesSettled
  <2>4. /\ Header("ZFIN", 0) \in Unit /\ <<Header("ZFIN", 0)>> \in Seq(Unit)
        /\ Header("ZFIN", 0).frame = "ZFIN"
    BY HeaderIsUnit DEF Frame
  <2>5. DownSaid(<<Header("ZFIN", 0)>>) /\ MayFollow(Header("ZFIN", 0))
    <3>1. DownSaid(<<Header("ZFIN", 0)>>)
      BY <1>1, <1>2, <2>1, <2>4, SenderSays
    <3>2. MayFollow(Header("ZFIN", 0))
      BY <2>1, <2>3, <2>4 DEF MayFollow, IsFrame
    <3> QED
      BY <3>1, <3>2
  <2>6. SenderOK'
    BY <1>1, <1>2, <1>3, <1>4, <2>1, <2>4 DEF SenderOK, S!SenderPhase
  <2>7. FilesSettled'
    BY <1>1, <1>2, <2>1, <2>3, FilesStaySettled
  <2>8. /\ NoAnswer' /\ ~OwesHeader' /\ ReceiverIdle /\ ~ResetDue
        /\ \A i \in 1 .. Len(Down) : ~IsFrame(Down[i], {"ZFILE", "ZDATA"})
    BY <1>3, <2>1, <2>2 DEF NoTurn, NoAnswer, OwesHeader
  <2>9. down' \in Seq(Unit) /\ up' \in Seq(HeaderUnit) /\ rOutgoing' \in Seq(HeaderUnit)
    BY <1>1, <1>2 DEF LaneTypes
  <2> QED
    BY <1>1, <1>3, <1>4, <2>1, <2>5, <2>6, <2>7, <2>8, <2>9, NobodysTurn
<1>5. CASE sState # "ReadyForFile"
  <2>1. sState' = sState /\ sOutgoing' = sOutgoing
    BY <1>5 DEF AskToFinish, S!Finish
  <2>2. KeepsSender
    BY <1>1, <1>2, <1>3, <2>1 DEF KeepsSender, SenderOK
  <2>3. Down' = Down
    BY <1>1, <2>1 DEF Down
  <2> QED
    BY <1>1, <1>2, <1>3, <2>1, <2>2, <2>3, SenderChatters
       DEF DownChatters, UpHeard, LaneTypes
<1> QED
  BY <1>4, <1>5

-----------------------------------------------------------------------------
(***************************************************************************)
(* Pieces of a sequence.                                                   *)
(***************************************************************************)
LEMMA PieceOf ==
  ASSUME NEW T, NEW s \in Seq(T), NEW from \in Nat, NEW n \in Nat,
         from + n <= Len(s)
  PROVE  /\ SubSeq(s, from + 1, from + n) \in Seq(T)
         /\ Len(SubSeq(s, from + 1, from + n)) = n
<1>1. \A i \in from + 1 .. from + n : s[i] \in T
  <2>1. Len(s) \in Nat /\ \A i \in 1 .. Len(s) : s[i] \in T
    BY ElementOfSeq
  <2> QED
    BY <2>1
<1>2. from + 1 \in Int /\ from + n \in Int
  OBVIOUS
<1>3. /\ SubSeq(s, from + 1, from + n) \in Seq(T)
      /\ Len(SubSeq(s, from + 1, from + n)) =
           IF from + 1 <= from + n THEN (from + n) - (from + 1) + 1 ELSE 0
  BY <1>1, <1>2, SubSeqProperties
<1> QED
  BY <1>3

LEMMA TwoUnits ==
  ASSUME NEW one, NEW two
  PROVE  <<one>> \o <<two>> = <<one, two>>
<1> DEFINE T == {one, two}
<1>1. /\ <<one>> \in Seq(T) /\ <<two>> \in Seq(T) /\ <<one, two>> \in Seq(T)
      /\ Len(<<one>>) = 1 /\ Len(<<two>>) = 1 /\ Len(<<one, two>>) = 2
      /\ <<one>>[1] = one /\ <<two>>[1] = two
      /\ <<one, two>>[1] = one /\ <<one, two>>[2] = two
  OBVIOUS
<1> HIDE DEF T
<1>2. /\ <<one>> \o <<two>> \in Seq(T)
      /\ Len(<<one>> \o <<two>>) = 2
      /\ (<<one>> \o <<two>>)[1] = one /\ (<<one>> \o <<two>>)[2] = two
  BY <1>1, ConcatProperties
<1>3. \A i \in 1 .. 2 : (<<one>> \o <<two>>)[i] = <<one, two>>[i]
  BY <1>1, <1>2
<1> QED
  BY <1>1, <1>2, <1>3, SeqEqual

-----------------------------------------------------------------------------
(***************************************************************************)
(* The sender reads a piece of the file and puts it on the link.           *)
(***************************************************************************)
\* What the piece is, n bytes from the position asked for, and what is said:
\* subpacket unit, behind a header if the frame has none yet.
PieceSaid(n, unit) ==
  /\ n \in Nat /\ n >= 1
  /\ pendingRequest.offset + n <= Len(Content[CurrentFile])
  /\ unit.is = "subpacket"
  /\ unit.kind = IF sState' = "NeedFileData" THEN "ZCRCG" ELSE "ZCRCW"
  /\ unit.data = SubSeq(Content[CurrentFile], pendingRequest.offset + 1,
                        pendingRequest.offset + n)
  /\ sState' = "NeedFileData" =>
       pendingRequest'.offset = pendingRequest.offset + n
  /\ IF frameNeedsHeader
     THEN DownSaid(<<Header("ZDATA", pendingRequest.offset), unit>>)
     ELSE DownSaid(<<unit>>)

LEMMA PieceIsRead ==
  ASSUME SessionInv, SenderReadsFile
  PROVE  /\ sState = "NeedFileData" /\ offered > 0
         /\ sState' \in {"NeedFileData", "WaitFileAck"}
         /\ frameNeedsHeader' = FALSE
         /\ SenderOK'
         /\ KeepsReceiver /\ KeepsWorld
         /\ UNCHANGED <<down, up, rOutgoing>>
         /\ \E n, unit : PieceSaid(n, unit)
<1>1. PICK n \in 1 .. pendingRequest.len :
        S!SubmitFile(SubSeq(Content[CurrentFile], pendingRequest.offset + 1,
                            pendingRequest.offset + n))
  BY DEF SenderReadsFile
<1> DEFINE data == SubSeq(Content[CurrentFile], pendingRequest.offset + 1,
                          pendingRequest.offset + n)
<1>2. /\ sState = "NeedFileData" /\ sOutgoing = <<>>
      /\ sOutgoing' = S!DataUnits(data)
      /\ frameNeedsHeader' = FALSE
      /\ \/ /\ S!IsLastInFrame(data) /\ pendingRequest' = NoRequest
            /\ sState' = "WaitFileAck"
         \/ /\ ~S!IsLastInFrame(data)
            /\ pendingRequest' = S!NextRequest(data)
            /\ sState' = sState
      /\ UNCHANGED <<sHasFile, sFileName, sFileSize, maxSubpacketSize,
                     finishRequested>>
  BY <1>1 DEF S!SubmitFile, S!fileVars, S!capVars
<1>3. /\ KeepsReceiver /\ KeepsWorld
      /\ UNCHANGED <<offered, down, up, rOutgoing>>
  BY DEF SenderReadsFile, rVars, link, world, KeepsReceiver, KeepsWorld
<1>4. /\ SenderOK /\ LaneTypes
      /\ pendingRequest \in S!Request /\ pendingRequest.len \in Nat
      /\ pendingRequest.offset \in Nat
      /\ pendingRequest.offset + pendingRequest.len <= sFileSize
      /\ sHasFile /\ offered > 0 /\ sFileName = CurrentFile
      /\ sFileSize = Len(Content[CurrentFile])
      /\ maxSubpacketSize \in Nat \ {0}
  BY <1>2, InvTypesLanes, SessionLimitsAssumption
     DEF SessionInv, SenderOK, S!Request
<1>5. /\ CurrentFile \in Name /\ Content[CurrentFile] \in Seq(Byte)
      /\ Len(Content[CurrentFile]) \in Nat
      /\ Len(Content[CurrentFile]) <= MaxPosition
      /\ CurrentFile' = CurrentFile
  BY <1>3, <1>4, CurrentIsNamed DEF CurrentFile
<1>6. n \in Nat /\ n >= 1 /\ pendingRequest.offset + n <= sFileSize
  BY <1>4
<1>7. data \in Seq(Byte) /\ Len(data) = n
  BY <1>4, <1>5, <1>6, PieceOf
<1> DEFINE kind == IF sState' = "NeedFileData" THEN "ZCRCG" ELSE "ZCRCW"
           unit == Subpacket(kind, data)
<1> HIDE DEF data
<1>8. S!IsLastInFrame(data) <=> sState' # "NeedFileData"
  BY <1>2
<1>9. S!DataUnits(data) =
        (IF frameNeedsHeader
         THEN <<Header("ZDATA", pendingRequest.offset)>> ELSE <<>>) \o <<unit>>
  BY <1>8, SameUnits DEF S!DataUnits
<1>10. /\ unit \in Unit /\ unit.is = "subpacket" /\ unit.kind = kind
       /\ unit.data = data
       /\ Header("ZDATA", pendingRequest.offset) \in Unit
  <2>1. unit \in SubpacketUnit
    BY <1>7 DEF Subpacket, SubpacketUnit, SubpacketType
  <2>2. Header("ZDATA", pendingRequest.offset) \in Unit
    BY <1>4, HeaderIsUnit DEF Frame
  <2> QED
    BY <2>1, <2>2 DEF Subpacket, Unit
<1> HIDE DEF unit
<1>11. /\ sOutgoing' \in Seq(Unit)
       /\ IF frameNeedsHeader
          THEN DownSaid(<<Header("ZDATA", pendingRequest.offset), unit>>)
          ELSE DownSaid(<<unit>>)
  <2>1. CASE frameNeedsHeader
    <3>1. sOutgoing' = <<Header("ZDATA", pendingRequest.offset), unit>>
      BY <1>2, <1>9, <2>1, TwoUnits
    <3>2. <<Header("ZDATA", pendingRequest.offset), unit>> \in Seq(Unit)
      BY <1>10
    <3> QED
      BY <1>2, <1>3, <1>4, <2>1, <3>1, <3>2, SenderSays
  <2>2. CASE ~frameNeedsHeader
    <3>1. <<unit>> \in Seq(Unit)
      BY <1>10
    <3>2. sOutgoing' = <<unit>>
      BY <1>2, <1>9, <2>2, <3>1, ConcatEmptySeq
    <3> QED
      BY <1>2, <1>3, <1>4, <2>2, <3>1, <3>2, SenderSays
  <2> QED
    BY <2>1, <2>2
<1>12. sState' \in {"NeedFileData", "WaitFileAck"}
  BY <1>2
<1>13. /\ sState' = "NeedFileData" =>
            /\ pendingRequest' \in S!Request
            /\ pendingRequest'.len >= 1
            /\ pendingRequest'.offset = pendingRequest.offset + n
            /\ pendingRequest'.offset + pendingRequest'.len <= sFileSize
       /\ sState' # "NeedFileData" => pendingRequest' = NoRequest
  <2>1. CASE sState' = "NeedFileData"
    <3> DEFINE offset == pendingRequest.offset + n
               len == S!Smaller(maxSubpacketSize, sFileSize - offset)
    <3>1. offset \in 0 .. MaxPosition /\ offset < sFileSize
      BY <1>4, <1>5, <1>6, <1>7, <1>8, <2>1, SessionLimitsAssumption
         DEF S!IsLastInFrame
    <3>2. len \in Nat /\ len >= 1 /\ offset + len <= sFileSize
      <4>1. /\ offset \in Nat /\ sFileSize \in Nat /\ offset < sFileSize
            /\ maxSubpacketSize \in Nat /\ maxSubpacketSize >= 1
        BY <1>4, <1>5, <1>6, <3>1
      <4> HIDE DEF offset
      <4> QED
        BY <4>1 DEF S!Smaller
    <3>3. pendingRequest' = [offset |-> offset, len |-> len]
      BY <1>2, <1>7, <2>1 DEF S!NextRequest
    <3> HIDE DEF offset, len
    <3>4. pendingRequest' \in S!Request
          /\ pendingRequest'.offset = offset /\ pendingRequest'.len = len
      BY <3>1, <3>2, <3>3 DEF S!Request
    <3> QED
      BY <2>1, <3>2, <3>4 DEF offset
  <2>2. CASE sState' # "NeedFileData"
    BY <1>2, <2>2
  <2> QED
    BY <2>1, <2>2
<1>14. SenderOK'
  BY <1>2, <1>3, <1>4, <1>5, <1>11, <1>12, <1>13 DEF SenderOK, S!SenderPhase
<1>15. PieceSaid(n, unit)
  BY <1>4, <1>6, <1>10, <1>11, <1>13 DEF PieceSaid, data
<1> QED
  BY <1>2, <1>3, <1>4, <1>12, <1>14, <1>15

\* The piece carries on a frame under way, or begins the one that is owed.
LEMMA PieceCarriesOn ==
  ASSUME LaneTypes, NEW n, NEW unit, PieceSaid(n, unit), ~frameNeedsHeader,
         sState = "NeedFileData", sState' \in {"NeedFileData", "WaitFileAck"},
         offered' = offered,
         NEW first \in Nat \ {0}, first <= Len(Down) + 1, NEW start \in Nat,
         RestOfFrame(first), DataFrom(first, start)
  PROVE  RestOfFrame(first)' /\ DataFrom(first, start)'
<1>1. /\ DownSaid(<<unit>>) /\ unit.is = "subpacket" /\ n \in Nat
      /\ GoesOn(unit) <=> sState' = "NeedFileData"
      /\ LiveUnit(unit)
  BY DEF PieceSaid, GoesOn, LiveUnit
<1>2. RestOfFrame(first)'
  BY <1>1, FrameExtends
<1>3. ASSUME NEW p \in 0 .. Len(Content[CurrentFile]),
             p = pendingRequest.offset
      PROVE  /\ p + n <= Len(Content[CurrentFile])
             /\ Carries(unit, CurrentFile, p, p + n)
             /\ sState' = "NeedFileData" => p + n = pendingRequest'.offset
  BY <1>3 DEF PieceSaid, Carries
<1>4. DataFrom(first, start)'
  BY <1>1, <1>3, DataExtends
<1> QED
  BY <1>2, <1>4

LEMMA PieceBeginsFrame ==
  ASSUME LaneTypes, NEW n, NEW unit, PieceSaid(n, unit), frameNeedsHeader,
         sState' \in {"NeedFileData", "WaitFileAck"},
         offered' = offered, Content[CurrentFile] \in Seq(Byte),
         pendingRequest.offset \in Nat,
         NEW k, k = Len(Down) + 1, NEW start \in Nat, start = pendingRequest.offset
  PROVE  /\ Len(Down') = Len(Down) + 2
         /\ k \in 1 .. Len(Down') /\ k + 1 = Len(Down')
         /\ Down'[k] = Header("ZDATA", start) /\ Down'[k + 1] = unit
         /\ RestOfFrame(k + 1)' /\ DataFrom(k + 1, start)'
<1>1. /\ unit.is = "subpacket" /\ n \in Nat /\ n >= 1
      /\ GoesOn(unit) <=> sState' = "NeedFileData"
      /\ LiveUnit(unit)
      /\ start + n <= Len(Content[CurrentFile])
      /\ Carries(unit, CurrentFile, start, start + n)
      /\ sState' = "NeedFileData" => pendingRequest'.offset = start + n
  BY DEF PieceSaid, GoesOn, LiveUnit, Carries
<1>2. /\ Len(Down) \in Nat /\ Len(Down') = Len(Down) + 2
      /\ Down'[k] = Header("ZDATA", start) /\ Down'[k + 1] = unit
      /\ k \in Nat /\ k + 1 = Len(Down')
  <2>1. DownSaid(<<Header("ZDATA", start), unit>>)
    BY DEF PieceSaid
  <2>2. /\ Len(Down) \in Nat /\ Len(Down') = Len(Down) + 2
        /\ Down'[Len(Down) + 1] = Header("ZDATA", start)
        /\ Down'[Len(Down) + 2] = unit
    BY <2>1, TwoMoreUnits
  <2> QED
    BY <2>2
<1>3. RestOfFrame(k + 1)'
  BY <1>1, <1>2 DEF RestOfFrame
<1>4. DataFrom(k + 1, start)'
  <2> DEFINE at == [i \in k + 1 .. Len(Down') + 1 |->
                      IF i = k + 1 THEN start ELSE start + n]
  <2>1. CurrentFile' = CurrentFile
    BY DEF CurrentFile
  <2>2. at \in [k + 1 .. Len(Down') + 1 -> 0 .. Len(Content[CurrentFile])]
    <3>1. Len(Content[CurrentFile]) \in Nat
      OBVIOUS
    <3>2. start \in 0 .. Len(Content[CurrentFile])
          /\ start + n \in 0 .. Len(Content[CurrentFile])
      BY <1>1, <3>1
    <3> QED
      BY <3>2
  <2>3. at[k + 1] = start /\ at[Len(Down') + 1] = start + n
    BY <1>2
  <2>4. ASSUME NEW i \in k + 1 .. Len(Down')
        PROVE  Carries(Down'[i], CurrentFile, at[i], at[i + 1])
    <3>1. i = k + 1 /\ i + 1 = Len(Down') + 1
      BY <1>2
    <3> QED
      BY <1>1, <1>2, <2>3, <3>1
  <2> HIDE DEF at
  <2> QED
    BY <1>1, <2>1, <2>2, <2>3, <2>4 DEF DataFrom
<1> QED
  BY <1>2, <1>3, <1>4

LEMMA PieceIsSent ==
  ASSUME SessionInv, SenderReadsFile
  PROVE  SessionInv'
<1>1. /\ sState = "NeedFileData" /\ offered > 0
      /\ sState' \in {"NeedFileData", "WaitFileAck"}
      /\ frameNeedsHeader' = FALSE
      /\ SenderOK'
      /\ KeepsReceiver /\ KeepsWorld
      /\ UNCHANGED <<down, up, rOutgoing>>
  BY PieceIsRead
<1>2. PICK n, unit : PieceSaid(n, unit)
  BY PieceIsRead
<1>3. LaneTypes /\ Up' = Up /\ Len(Down) \in Nat
  BY <1>1, InvTypesLanes, LanesAreSequences DEF Up
<1>4. /\ offered' = offered /\ CurrentFile' = CurrentFile /\ Begun' = Begun
      /\ (Undecided' <=> Undecided)
      /\ pendingRequest.offset \in Nat
      /\ CurrentFile \in Name /\ Content[CurrentFile] \in Seq(Byte)
  BY <1>1, SameWorld, CurrentIsNamed DEF KeepsWorld, SessionInv, SenderOK, S!Request
<1>5. /\ ReceiverIdle' <=> ReceiverIdle
      /\ ResetDue' <=> ResetDue
      /\ ReceiverOK' /\ WorldOK'
  BY <1>1, <1>3, <1>4, SameReceiver, SameWorld DEF SessionInv, LaneTypes
<1>6. FilesSettled'
  BY <1>1, FilesStaySettled DEF SessionInv
<1>7. /\ Sending' /\ ~OwesHeader'
      /\ Taken' <=> Taken
      /\ Synced' <=> Synced
      /\ NoAnswer' <=> NoAnswer
  <2>1. Sending' /\ ~OwesHeader'
    BY <1>1 DEF Sending, OwesHeader
  <2>2. NoAnswer' <=> NoAnswer
    BY <1>3 DEF NoAnswer
  <2>3. (Taken' <=> Taken) /\ (Synced' <=> Synced)
    BY <1>1, <1>4 DEF Taken, Synced, KeepsReceiver, KeepsWorld
  <2> QED
    BY <2>1, <2>2, <2>3
<1>8. /\ \A i \in 1 .. Len(Down) : Down'[i] = Down[i]
      /\ Len(Down') \in Nat /\ Len(Down) < Len(Down')
      /\ \A i \in Len(Down) + 1 .. Len(Down') :
           \/ Down'[i] = unit
           \/ frameNeedsHeader /\ IsFrame(Down'[i], {"ZDATA"})
      /\ ~frameNeedsHeader => Down'[Len(Down) + 1] = unit
      /\ unit.is = "subpacket"
  <2>1. CASE frameNeedsHeader
    <3>1. DownSaid(<<Header("ZDATA", pendingRequest.offset), unit>>)
      BY <1>2, <2>1 DEF PieceSaid
    <3>2. /\ Len(Down') = Len(Down) + 2
          /\ \A i \in 1 .. Len(Down) : Down'[i] = Down[i]
          /\ Down'[Len(Down) + 1] = Header("ZDATA", pendingRequest.offset)
          /\ Down'[Len(Down) + 2] = unit
      BY <1>3, <3>1, TwoMoreUnits
    <3>3. IsFrame(Down'[Len(Down) + 1], {"ZDATA"})
      BY <3>2 DEF IsFrame, Header
    <3> QED
      BY <1>2, <1>3, <2>1, <3>2, <3>3 DEF PieceSaid
  <2>2. CASE ~frameNeedsHeader
    <3>1. DownSaid(<<unit>>)
      BY <1>2, <2>2 DEF PieceSaid
    <3>2. /\ Len(Down') = Len(Down) + 1
          /\ \A i \in 1 .. Len(Down) : Down'[i] = Down[i]
          /\ Down'[Len(Down) + 1] = unit
      BY <1>3, <3>1, OneMoreUnit
    <3> QED
      BY <1>2, <1>3, <2>2, <3>2 DEF PieceSaid
  <2> QED
    BY <2>1, <2>2
<1>9. ASSUME NEW i \in 1 .. Len(Down')
      PROVE  \/ i \in 1 .. Len(Down) /\ Down'[i] = Down[i]
             \/ Down'[i].is = "subpacket"
             \/ frameNeedsHeader /\ IsFrame(Down'[i], {"ZDATA"})
  <2>1. CASE i <= Len(Down)
    BY <1>3, <1>8, <2>1
  <2>2. CASE i > Len(Down)
    BY <1>3, <1>8, <2>2
  <2> QED
    BY <1>3, <2>1, <2>2
<1>10. LinkOK'
  <2>1. ASSUME NEW i \in 1 .. Len(Down'), Down'[i].is = "header"
        PROVE  Down'[i].frame \in {"ZRQINIT", "ZNAK", "ZFILE", "ZDATA", "ZEOF", "ZFIN"}
    BY <1>9, <2>1 DEF SessionInv, LinkOK, IsFrame
  <2>2. down' \in Seq(Unit) /\ up' \in Seq(HeaderUnit)
    BY <1>1, <1>3 DEF LaneTypes
  <2> QED
    BY <1>3, <2>1, <2>2 DEF SessionInv, LinkOK
<1>11. EofIsTrue' /\ FinIsTrue'
  <2>1. ASSUME NEW i \in 1 .. Len(Down'), IsFrame(Down'[i], {"ZEOF", "ZFIN"})
        PROVE  i \in 1 .. Len(Down) /\ Down'[i] = Down[i]
    BY <1>9, <2>1 DEF IsFrame
  <2>2. ASSUME NEW i \in 1 .. Len(Down'), IsFrame(Down'[i], {"ZEOF"})
        PROVE  rFileName \in Begun \ declined /\ Has(rFileName)
    BY <2>1, <2>2 DEF SessionInv, EofIsTrue, IsFrame
  <2>3. \A i \in 1 .. Len(Down') : ~IsFrame(Down'[i], {"ZFIN"})
    BY <1>1, <2>1 DEF SessionInv, FinIsTrue, IsFrame
  <2>4. /\ rFileName' = rFileName /\ declined' = declined
        /\ Has(rFileName)' <=> Has(rFileName)
    BY <1>1 DEF KeepsReceiver, KeepsWorld, Has
  <2> QED
    BY <1>1, <1>4, <2>2, <2>3, <2>4 DEF EofIsTrue, FinIsTrue
<1>12. /\ NoTurn \/ AnswerUnderWay \/ FrameOwed \/ FrameUnderWay
          \/ ReadingFrame \/ PersistingData
       /\ frameNeedsHeader <=> OwesHeader
  BY <1>1 DEF SessionInv, SomeTurn, AnnouncementUnderWay, ReadingAnnouncement, Deciding,
     OwesHeader
<1>13. (\A i \in 1 .. Len(Down) : Plain(Down[i])) /\ ~frameNeedsHeader
       => \A i \in 1 .. Len(Down') : Plain(Down'[i])
  BY <1>9 DEF Plain, IsFrame
<1>14. count \in Nat /\ count' = count /\ Len(buf) \in Nat /\ buf' = buf
  BY <1>1 DEF KeepsReceiver, SessionInv, ReceiverOK
<1>15. CASE NoTurn
  <2>1. \A i \in 1 .. Len(Down') : ~IsFrame(Down'[i], {"ZFILE", "ZDATA"})
    BY <1>9, <1>12, <1>15 DEF NoTurn, IsFrame
  <2>2. NoTurn'
    BY <1>1, <1>5, <1>7, <1>15, <2>1 DEF NoTurn
  <2> QED
    BY <1>1, <1>5, <1>6, <1>10, <1>11, <2>2 DEF SessionInv, SomeTurn
<1>16. CASE AnswerUnderWay
  <2>1. PICK k \in 1 .. Len(Up) :
          /\ Up[k].frame \in Answers
          /\ \A i \in 1 .. Len(Up) : Up[i].frame \in Answers => i = k
          /\ AnswersCurrent(k)
    BY <1>16 DEF AnswerUnderWay
  <2>2. AnswersCurrent(k)'
    BY <1>1, <1>3, <1>4, <1>5, <1>7, <2>1
       DEF AnswersCurrent, KeepsReceiver, KeepsWorld
  <2>3. pendingEvents' = pendingEvents /\ completed' = completed
        /\ rFileName' = rFileName /\ ~frameNeedsHeader
    BY <1>1, <1>12, <1>16 DEF KeepsReceiver, KeepsWorld, AnswerUnderWay
  <2>4. AnswerUnderWay'
    BY <1>1, <1>3, <1>4, <1>5, <1>7, <1>13, <1>16, <2>1, <2>2, <2>3
       DEF AnswerUnderWay, OneStart
  <2> QED
    BY <1>1, <1>5, <1>6, <1>10, <1>11, <2>4 DEF SessionInv, SomeTurn
<1>17. CASE FrameOwed
  <2>1. PICK k : k = Len(Down) + 1
    OBVIOUS
  <2>2. /\ frameNeedsHeader /\ count = pendingRequest.offset
        /\ \A i \in 1 .. Len(Down) : Plain(Down[i])
    BY <1>12, <1>17 DEF FrameOwed
  <2>3. /\ Len(Down') = Len(Down) + 2
        /\ k \in 1 .. Len(Down') /\ k + 1 = Len(Down')
        /\ Down'[k] = Header("ZDATA", count) /\ Down'[k + 1] = unit
        /\ RestOfFrame(k + 1)' /\ \A c \in Nat : c = count => DataFrom(k + 1, c)'
    BY <1>1, <1>2, <1>3, <1>4, <1>14, <2>1, <2>2, PieceBeginsFrame
  <2>4. /\ IsFrame(Down'[k], {"ZDATA"}) /\ Down'[k].count = count'
        /\ k < Len(Down') /\ Down'[k + 1].is = "subpacket"
    BY <1>3, <1>8, <1>14, <2>1, <2>3 DEF IsFrame, Header
  <2>5. \A i \in 1 .. k - 1 : Plain(Down'[i])
    BY <1>3, <1>8, <2>1, <2>2
  <2>6. RestOfFrame(k + 1)' /\ DataFrom(k + 1, count)'
    BY <1>14, <2>3
  <2>7. FrameUnderWay'
    BY <1>5, <1>7, <1>17, <2>3, <2>4, <2>5, <2>6 DEF FrameUnderWay, FrameOwed
  <2> QED
    BY <1>1, <1>5, <1>6, <1>10, <1>11, <2>7 DEF SessionInv, SomeTurn
<1>18. CASE FrameUnderWay
  <2>1. PICK k \in 1 .. Len(Down) :
          /\ IsFrame(Down[k], {"ZDATA"}) /\ Down[k].count = count
          /\ \A i \in 1 .. k - 1 : Plain(Down[i])
          /\ k < Len(Down) /\ Down[k + 1].is = "subpacket"
          /\ RestOfFrame(k + 1) /\ DataFrom(k + 1, count)
    BY <1>18 DEF FrameUnderWay
  <2>2. \A start \in Nat : DataFrom(k + 1, start)
                           => RestOfFrame(k + 1)' /\ DataFrom(k + 1, start)'
    <3>1. k + 1 \in Nat \ {0} /\ k + 1 <= Len(Down) + 1 /\ ~frameNeedsHeader
      BY <1>3, <1>12, <1>18, <2>1 DEF FrameUnderWay, Sending
    <3> QED
      BY <1>1, <1>2, <1>3, <1>4, <2>1, <3>1, PieceCarriesOn
  <2>3. RestOfFrame(k + 1)' /\ DataFrom(k + 1, count)'
    BY <1>14, <2>1, <2>2
  <2>4. /\ k \in 1 .. Len(Down') /\ k < Len(Down')
        /\ Down'[k] = Down[k] /\ Down'[k + 1] = Down[k + 1]
        /\ \A i \in 1 .. k - 1 : Down'[i] = Down[i]
    BY <1>3, <1>8, <2>1
  <2>5. FrameUnderWay'
    BY <1>5, <1>7, <1>14, <1>18, <2>1, <2>3, <2>4 DEF FrameUnderWay
  <2> QED
    BY <1>1, <1>5, <1>6, <1>10, <1>11, <2>5 DEF SessionInv, SomeTurn
<1>19. ASSUME ~frameNeedsHeader, RestOfFrame(1), NEW start \in Nat, DataFrom(1, start)
       PROVE  RestOfFrame(1)' /\ DataFrom(1, start)'
  <2>1. 1 \in Nat \ {0} /\ 1 <= Len(Down) + 1
    BY <1>3
  <2> QED
    BY <1>1, <1>2, <1>3, <1>4, <1>19, <2>1, PieceCarriesOn
<1>20. ~frameNeedsHeader /\ MoreToCome => MoreToCome'
  <2>1. ASSUME ~frameNeedsHeader, MoreToCome
        PROVE  MoreToCome'
    <3>1. Down' # <<>>
      BY <1>3, <1>8
    <3>2. Down'[1].is = "subpacket"
      <4>1. CASE Down = <<>>
        BY <1>8, <2>1, <4>1
      <4>2. CASE Down # <<>>
        <5>1. 1 \in 1 .. Len(Down)
          BY <1>3, <4>2, LanesAreSequences
        <5> QED
          BY <1>8, <2>1, <4>2, <5>1 DEF MoreToCome
      <4> QED
        BY <4>1, <4>2
    <3> QED
      BY <3>1, <3>2 DEF MoreToCome
  <2> QED
    BY <2>1
<1>21. CASE ReadingFrame
  <2>1. ~frameNeedsHeader /\ RestOfFrame(1) /\ DataFrom(1, count) /\ MoreToCome
    BY <1>12, <1>21 DEF ReadingFrame, Sending
  <2>2. RestOfFrame(1)' /\ DataFrom(1, count)' /\ MoreToCome'
    BY <1>14, <1>19, <1>20, <2>1
  <2>3. ReadingFrame'
    BY <1>1, <1>5, <1>7, <1>21, <2>2 DEF ReadingFrame, KeepsReceiver
  <2> QED
    BY <1>1, <1>5, <1>6, <1>10, <1>11, <2>3 DEF SessionInv, SomeTurn
<1>22. CASE PersistingData
  <2>1. /\ ~frameNeedsHeader /\ RestOfFrame(1)
        /\ DataFrom(1, count + Len(buf)) /\ MoreToCome
        /\ subpacketState.kind = "ZCRCG"
    BY <1>1, <1>12, <1>22 DEF PersistingData, Sending, R!Writing
  <2>2. RestOfFrame(1)' /\ DataFrom(1, count + Len(buf))' /\ MoreToCome'
    <3>1. count + Len(buf) \in Nat
      BY <1>14
    <3>2. \A start \in Nat : DataFrom(1, start) => RestOfFrame(1)' /\ DataFrom(1, start)'
      BY <1>19, <2>1
    <3> QED
      BY <1>14, <1>20, <2>1, <3>1, <3>2
  <2>3. PersistingData'
    BY <1>1, <1>4, <1>5, <1>7, <1>22, <2>1, <2>2
       DEF PersistingData, KeepsReceiver, KeepsWorld
  <2> QED
    BY <1>1, <1>5, <1>6, <1>10, <1>11, <2>3 DEF SessionInv, SomeTurn
<1> QED
  BY <1>12, <1>15, <1>16, <1>17, <1>18, <1>21, <1>22

-----------------------------------------------------------------------------
(***************************************************************************)
(* Steps of the receiver that are nobody's turn: it writes what it has     *)
(* queued, reports an event, repeats itself, stops.                        *)
(***************************************************************************)
UpChatters ==
  \/ Up' = Up
  \/ \E unit \in HeaderUnit :
       UpSaid(unit) /\ unit.frame \in {"ZRINIT", "ZNAK", "ZFIN"}

LEMMA UpChattersBehind ==
  ASSUME LaneTypes, UpChatters
  PROVE  /\ Len(Up) \in Nat /\ Len(Up') \in Nat /\ Len(Up) <= Len(Up')
         /\ \A i \in 1 .. Len(Up) : Up'[i] = Up[i]
         /\ \A i \in Len(Up) + 1 .. Len(Up') :
              Up'[i].frame \in {"ZRINIT", "ZNAK", "ZFIN"}
<1>1. Len(Up) \in Nat
  BY LanesAreSequences
<1>2. CASE Up' = Up
  BY <1>1, <1>2
<1>3. ASSUME NEW unit \in HeaderUnit, UpSaid(unit),
             unit.frame \in {"ZRINIT", "ZNAK", "ZFIN"}
      PROVE  /\ Len(Up') \in Nat /\ Len(Up) <= Len(Up')
             /\ \A i \in 1 .. Len(Up) : Up'[i] = Up[i]
             /\ \A i \in Len(Up) + 1 .. Len(Up') :
                  Up'[i].frame \in {"ZRINIT", "ZNAK", "ZFIN"}
  BY <1>1, <1>3 DEF UpSaid
<1> QED
  BY <1>1, <1>2, <1>3 DEF UpChatters

\* No answer is lost or added.
LEMMA SameAnswers ==
  ASSUME LaneTypes, UpChatters
  PROVE  /\ NoAnswer => NoAnswer'
         /\ \A k \in 1 .. Len(Up) :
              (\A i \in 1 .. Len(Up) : Up[i].frame \in Answers => i = k)
              => /\ k \in 1 .. Len(Up') /\ Up'[k] = Up[k]
                 /\ \A i \in 1 .. Len(Up') : Up'[i].frame \in Answers => i = k
<1>1. ASSUME NEW i \in 1 .. Len(Up'), Up'[i].frame \in Answers
      PROVE  i \in 1 .. Len(Up) /\ Up'[i] = Up[i]
  <2>1. CASE i <= Len(Up)
    BY <2>1, UpChattersBehind
  <2>2. CASE i > Len(Up)
    BY <1>1, <2>2, UpChattersBehind DEF Answers
  <2> QED
    BY <2>1, <2>2, UpChattersBehind
<1>2. NoAnswer => NoAnswer'
  BY <1>1 DEF NoAnswer
<1>3. ASSUME NEW k \in 1 .. Len(Up)
      PROVE  k \in 1 .. Len(Up') /\ Up'[k] = Up[k]
  BY UpChattersBehind
<1> QED
  BY <1>1, <1>2, <1>3

LEMMA UpLinkOK ==
  ASSUME LaneTypes, LinkOK, UpChatters, up' \in Seq(HeaderUnit)
  PROVE  \A i \in 1 .. Len(Up') :
           Up'[i].frame \in {"ZRINIT", "ZNAK", "ZFIN"} \cup Answers
<1> TAKE i \in 1 .. Len(Up')
<1>1. CASE i <= Len(Up)
  BY <1>1, UpChattersBehind DEF LinkOK
<1>2. CASE i > Len(Up)
  BY <1>2, UpChattersBehind
<1> QED
  BY <1>1, <1>2, UpChattersBehind

\* What is left of a frame, or of an announcement, begins no other.
LEMMA LiveIsNoFrame ==
  ASSUME NEW unit, LiveUnit(unit)
  PROVE  Plain(unit) /\ ~IsFrame(unit, {"ZFILE", "ZDATA"})
  BY NoiseIsPlain, PlainIsNoFrame DEF LiveUnit, Plain, IsFrame

LEMMA AnnouncedIsNoFrame ==
  ASSUME NEW unit, Announced(unit)
  PROVE  /\ unit.is = "metadata" /\ unit.name = CurrentFile
         /\ unit.size = Len(Content[CurrentFile])
         /\ Plain(unit) /\ ~IsFrame(unit, {"ZFILE", "ZDATA"})
  BY DEF Announced, Metadata, IsFrame, Plain

\* A receiver that has stopped reading leaves the turn to nobody.
LEMMA NobodyReads ==
  ASSUME SessionInv, KeepsSender,
         ReadingAnnouncement \/ Deciding \/ ReadingFrame
  PROVE  /\ NoAnswer /\ ~ResetDue /\ ~OwesHeader' /\ sState' # "WaitReceiverInit"
         /\ subpacketState.phase # "Writing"
         /\ \A i \in 1 .. Len(Down) : Plain(Down[i])
<1>1. CASE ReadingAnnouncement
  <2>1. ASSUME NEW i \in 1 .. Len(Down)
        PROVE  Plain(Down[i])
    <3>1. CASE i = 1
      BY <1>1, <3>1, AnnouncedIsNoFrame DEF ReadingAnnouncement
    <3>2. CASE i # 1
      <4>1. i \in 2 .. Len(Down)
        BY <3>2, InvTypesLanes, LanesAreSequences
      <4> QED
        BY <1>1, <4>1, NoiseIsPlain DEF ReadingAnnouncement
    <3> QED
      BY <3>1, <3>2
  <2> QED
    BY <1>1, <2>1 DEF ReadingAnnouncement, OwesHeader, KeepsSender, R!Reading
<1>2. CASE Deciding
  BY <1>2 DEF Deciding, OwesHeader, KeepsSender
<1>3. CASE ReadingFrame
  <2>1. \A i \in 1 .. Len(Down) : Plain(Down[i])
    BY <1>3, LiveIsNoFrame DEF ReadingFrame, RestOfFrame
  <2> QED
    BY <1>3, <2>1 DEF ReadingFrame, OwesHeader, KeepsSender, Sending, R!Reading
<1> QED
  BY <1>1, <1>2, <1>3

LEMMA ReceiverChatters ==
  ASSUME SessionInv, KeepsSender, KeepsWorld, Down' = Down, UpChatters,
         UNCHANGED <<count, rFileName, buf, bufWriteOffset, subpacketState>>,
         rState' \in {rState, "SessionEnd"},
         ReceiverOK', ResetDue' <=> ResetDue, OneStart => OneStart',
         ResetDue => Len(up') <= Len(up),
         down' \in Seq(Unit), sOutgoing' \in Seq(Unit), up' \in Seq(HeaderUnit)
  PROVE  SessionInv'
<1>1. LaneTypes
  BY InvTypesLanes
<1>2. SenderOK' /\ WorldOK' /\ FilesSettled'
  BY SameSender, SameWorld, SameSettled DEF SessionInv, KeepsSender
<1>3. LinkOK'
  BY <1>1, UpLinkOK DEF SessionInv, LinkOK
<1>4. /\ CurrentFile' = CurrentFile /\ Begun' = Begun
      /\ (Undecided' <=> Undecided) /\ (AllSettled' <=> AllSettled)
      /\ Has(rFileName)' <=> Has(rFileName)
      /\ sState' = sState /\ offered' = offered
      /\ UNCHANGED <<pendingRequest, declined, completed, disk, sHasFile>>
      /\ SenderGoesOnOrStops
  BY SameWorld DEF KeepsWorld, KeepsSender, Has, SenderGoesOnOrStops
<1>5. EofIsTrue' /\ FinIsTrue'
  BY <1>4 DEF SessionInv, EofIsTrue, FinIsTrue
<1>6. /\ OwesHeader' <=> OwesHeader
      /\ Sending' <=> Sending
      /\ Taken' <=> Taken
      /\ Synced' <=> Synced
      /\ ReceiverIdle => ReceiverIdle'
      /\ MoreToCome => MoreToCome'
  <2>1. (OwesHeader' <=> OwesHeader) /\ (Sending' <=> Sending)
    BY <1>4 DEF OwesHeader, Sending, KeepsSender
  <2>2. (Taken' <=> Taken) /\ (Synced' <=> Synced)
    BY <1>4 DEF Taken, Synced
  <2>3. ReceiverIdle => ReceiverIdle'
    BY DEF ReceiverIdle
  <2>4. MoreToCome => MoreToCome'
    BY <1>4 DEF MoreToCome
  <2> QED
    BY <2>1, <2>2, <2>3, <2>4
<1>7. NoAnswer => NoAnswer'
  BY <1>1, SameAnswers
<1>8. SomeTurn'
  <2>1. CASE NoTurn
    <3>1. NoTurn'
      BY <1>4, <1>6, <1>7, <2>1 DEF NoTurn
    <3> QED
      BY <3>1 DEF SomeTurn
  <2>2. CASE AnnouncementUnderWay
    <3>1. AnnouncementUnderWay'
      BY <1>4, <1>6, <1>7, <2>2 DEF AnnouncementUnderWay, Announced
    <3> QED
      BY <3>1 DEF SomeTurn
  <2>3. CASE (ReadingAnnouncement \/ Deciding \/ ReadingFrame) /\ rState' = "SessionEnd"
    <3>1. /\ NoAnswer /\ ~ResetDue /\ ~OwesHeader'
          /\ sState' # "WaitReceiverInit"
          /\ subpacketState.phase # "Writing"
          /\ \A i \in 1 .. Len(Down) : Plain(Down[i])
      BY <2>3, NobodyReads
    <3>2. ReceiverIdle'
      BY <2>3, <3>1 DEF ReceiverIdle
    <3>3. \A i \in 1 .. Len(Down') : ~IsFrame(Down'[i], {"ZFILE", "ZDATA"})
      BY <3>1, PlainIsNoFrame
    <3>4. NoTurn'
      BY <1>7, <3>1, <3>2, <3>3 DEF NoTurn
    <3> QED
      BY <3>4 DEF SomeTurn
  <2>4. CASE ReadingAnnouncement /\ rState' = rState
    <3>1. ReadingAnnouncement'
      BY <1>4, <1>6, <1>7, <2>4 DEF ReadingAnnouncement, Announced
    <3> QED
      BY <3>1 DEF SomeTurn
  <2>5. CASE Deciding /\ rState' = rState
    <3>1. Deciding'
      BY <1>4, <1>6, <1>7, <2>5 DEF Deciding
    <3> QED
      BY <3>1 DEF SomeTurn
  <2>6. CASE AnswerUnderWay
    <3>1. PICK k \in 1 .. Len(Up) :
            /\ Up[k].frame \in Answers
            /\ \A i \in 1 .. Len(Up) : Up[i].frame \in Answers => i = k
            /\ AnswersCurrent(k)
      BY <2>6 DEF AnswerUnderWay
    <3>2. /\ k \in 1 .. Len(Up') /\ Up'[k] = Up[k]
          /\ \A i \in 1 .. Len(Up') : Up'[i].frame \in Answers => i = k
      BY <1>1, <3>1, SameAnswers
    <3>3. AnswersCurrent(k)'
      <4>1. ResetDue => (k > Len(up) => k > Len(up'))
        BY <1>1 DEF LaneTypes
      <4> QED
        BY <1>4, <1>6, <3>1, <3>2, <4>1 DEF AnswersCurrent
    <3>4. AnswerUnderWay'
      BY <1>4, <1>6, <2>6, <3>1, <3>2, <3>3 DEF AnswerUnderWay
    <3> QED
      BY <3>4 DEF SomeTurn
  <2>7. CASE FrameOwed
    <3>1. FrameOwed'
      BY <1>4, <1>6, <1>7, <2>7 DEF FrameOwed
    <3> QED
      BY <3>1 DEF SomeTurn
  <2>8. count \in Nat /\ Len(buf) \in Nat
    BY DEF SessionInv, ReceiverOK
  <2>9. CASE FrameUnderWay
    <3>1. PICK k \in 1 .. Len(Down) :
            /\ IsFrame(Down[k], {"ZDATA"}) /\ Down[k].count = count
            /\ \A i \in 1 .. k - 1 : Plain(Down[i])
            /\ k < Len(Down) /\ Down[k + 1].is = "subpacket"
            /\ RestOfFrame(k + 1) /\ DataFrom(k + 1, count)
      BY <2>9 DEF FrameUnderWay
    <3>2. \A start \in Nat : DataFrom(k + 1, start)
                             => RestOfFrame(k + 1)' /\ DataFrom(k + 1, start)'
      <4>1. k + 1 \in Nat
        BY <1>1, LanesAreSequences
      <4> QED
        BY <1>1, <1>4, <3>1, <4>1, FrameStays
    <3>3. RestOfFrame(k + 1)' /\ DataFrom(k + 1, count)'
      BY <2>8, <3>1, <3>2
    <3>4. FrameUnderWay'
      BY <1>6, <1>7, <2>9, <3>1, <3>3 DEF FrameUnderWay
    <3> QED
      BY <3>4 DEF SomeTurn
  <2>10. CASE ReadingFrame /\ rState' = rState
    <3>1. \A start \in Nat : DataFrom(1, start)
                             => RestOfFrame(1)' /\ DataFrom(1, start)'
      BY <1>1, <1>4, <2>10, FrameStays DEF ReadingFrame
    <3>2. RestOfFrame(1)' /\ DataFrom(1, count)'
      BY <2>8, <2>10, <3>1 DEF ReadingFrame
    <3>3. ReadingFrame'
      BY <1>6, <1>7, <2>10, <3>2 DEF ReadingFrame
    <3> QED
      BY <3>3 DEF SomeTurn
  <2>11. CASE PersistingData
    <3>1. \A start \in Nat : DataFrom(1, start)
                             => RestOfFrame(1)' /\ DataFrom(1, start)'
      BY <1>1, <1>4, <2>11, FrameStays DEF PersistingData
    <3>2. RestOfFrame(1)' /\ DataFrom(1, count + Len(buf))'
      <4>1. count + Len(buf) \in Nat
        BY <2>8
      <4> QED
        BY <2>11, <3>1, <4>1 DEF PersistingData
    <3>3. PersistingData'
      BY <1>4, <1>6, <1>7, <2>11, <3>2 DEF PersistingData
    <3> QED
      BY <3>3 DEF SomeTurn
  <2> QED
    BY <2>1, <2>2, <2>3, <2>4, <2>5, <2>6, <2>7, <2>9, <2>10, <2>11
       DEF SessionInv, SomeTurn
<1> QED
  BY <1>2, <1>3, <1>5, <1>8 DEF SessionInv

\* What the receiver says without answering for a file.
LEMMA ReceiverReplies ==
  /\ R!OwnZrinit \in HeaderUnit /\ R!OwnZrinit.frame = "ZRINIT"
  /\ R!Header("ZNAK", 0) \in HeaderUnit /\ R!Header("ZNAK", 0).frame = "ZNAK"
  /\ R!Header("ZFIN", 0) \in HeaderUnit /\ R!Header("ZFIN", 0).frame = "ZFIN"
<1>1. Zrinit(BufferLen, OverlappedIo) \in HeaderUnit
      /\ Zrinit(BufferLen, OverlappedIo).frame = "ZRINIT"
  BY SessionLimitsAssumption DEF Zrinit, HeaderUnit, Frame
<1>2. \A f \in {"ZNAK", "ZFIN"} : Header(f, 0) \in HeaderUnit /\ Header(f, 0).frame = f
  BY HeaderIsUnit DEF Frame
<1> QED
  BY <1>1, <1>2, SameUnits

\* An event other than the start of a file changes nothing for the caller's
\* duty to empty one.
LEMMA EventRaised ==
  ASSUME pendingEvents \in Seq(R!ReceiverEvent),
         NEW event \in R!ReceiverEvent, event # "FileStart",
         pendingEvents' = Append(pendingEvents, event),
         manualAccept' = manualAccept
  PROVE  /\ pendingEvents' \in Seq(R!ReceiverEvent)
         /\ ResetDue' <=> ResetDue
         /\ OneStart => OneStart'
<1>1. /\ pendingEvents' \in Seq(R!ReceiverEvent)
      /\ Len(pendingEvents) \in Nat
      /\ Len(pendingEvents') = Len(pendingEvents) + 1
      /\ \A i \in 1 .. Len(pendingEvents) : pendingEvents'[i] = pendingEvents[i]
      /\ pendingEvents'[Len(pendingEvents) + 1] = event
  BY AppendProperties
<1>2. \A i \in 1 .. Len(pendingEvents') : pendingEvents'[i] = "FileStart" =>
        i \in 1 .. Len(pendingEvents) /\ pendingEvents[i] = "FileStart"
  BY <1>1
<1>3. \A i \in 1 .. Len(pendingEvents) : i \in 1 .. Len(pendingEvents')
  BY <1>1
<1>4. ResetDue' <=> ResetDue
  BY <1>1, <1>2, <1>3 DEF ResetDue
<1>5. OneStart => OneStart'
  BY <1>2 DEF OneStart
<1> QED
  BY <1>1, <1>4, <1>5

LEMMA EventReported ==
  ASSUME pendingEvents \in Seq(R!ReceiverEvent), pendingEvents # <<>>,
         pendingEvents' = Tail(pendingEvents), manualAccept' = manualAccept
  PROVE  /\ pendingEvents' \in Seq(R!ReceiverEvent)
         /\ ResetDue' => ResetDue
         /\ OneStart => OneStart'
         /\ Head(pendingEvents) # "FileStart" => (ResetDue' <=> ResetDue)
         /\ Head(pendingEvents) = "FileStart" /\ OneStart => ~ResetDue'
         /\ Head(pendingEvents) = "FileStart" /\ ~manualAccept => ResetDue
<1>1. /\ pendingEvents' \in Seq(R!ReceiverEvent)
      /\ Len(pendingEvents) \in Nat /\ Len(pendingEvents) >= 1
      /\ Len(pendingEvents') = Len(pendingEvents) - 1
      /\ \A i \in 1 .. Len(pendingEvents') : pendingEvents'[i] = pendingEvents[i + 1]
      /\ Head(pendingEvents) = pendingEvents[1]
  BY HeadTailProperties
<1>2. \A i \in 1 .. Len(pendingEvents') : i + 1 \in 1 .. Len(pendingEvents)
  BY <1>1
<1>3. ResetDue' => ResetDue
  BY <1>1, <1>2 DEF ResetDue
<1>4. OneStart => OneStart'
  <2>1. ASSUME OneStart, NEW i \in 1 .. Len(pendingEvents'), NEW j \in 1 .. Len(pendingEvents'),
               pendingEvents'[i] = "FileStart", pendingEvents'[j] = "FileStart"
        PROVE  i = j
    <3>1. i + 1 = j + 1
      BY <1>1, <1>2, <2>1 DEF OneStart
    <3> QED
      BY <3>1
  <2> QED
    BY <2>1 DEF OneStart
<1>5. Head(pendingEvents) # "FileStart" => (ResetDue' <=> ResetDue)
  <2>1. ASSUME Head(pendingEvents) # "FileStart", ResetDue
        PROVE  ResetDue'
    <3>1. PICK i \in 1 .. Len(pendingEvents) : pendingEvents[i] = "FileStart"
      BY <2>1 DEF ResetDue
    <3>2. i # 1 /\ i - 1 \in 1 .. Len(pendingEvents') /\ (i - 1) + 1 = i
      BY <1>1, <2>1, <3>1
    <3>3. pendingEvents'[i - 1] = "FileStart"
      BY <1>1, <3>1, <3>2
    <3> QED
      BY <2>1, <3>2, <3>3 DEF ResetDue
  <2> QED
    BY <1>3, <2>1
<1>6. Head(pendingEvents) = "FileStart" /\ OneStart => ~ResetDue'
  <2>1. ASSUME Head(pendingEvents) = "FileStart", OneStart,
               NEW i \in 1 .. Len(pendingEvents')
        PROVE  pendingEvents'[i] # "FileStart"
    <3>1. 1 \in 1 .. Len(pendingEvents) /\ i + 1 # 1
      BY <1>1
    <3> QED
      BY <1>1, <1>2, <2>1, <3>1 DEF OneStart
  <2> QED
    BY <2>1 DEF ResetDue
<1>7. Head(pendingEvents) = "FileStart" /\ ~manualAccept => ResetDue
  <2>1. 1 \in 1 .. Len(pendingEvents)
    BY <1>1
  <2> QED
    BY <1>1, <2>1 DEF ResetDue
<1> QED
  BY <1>1, <1>3, <1>4, <1>5, <1>6, <1>7

\* What the receiver's side leaves alone unless it takes a unit.
LEMMA SenderUntouched ==
  ASSUME SessionInv, UNCHANGED <<sVars, offered, down>>
  PROVE  /\ KeepsSender /\ LaneTypes /\ Down' = Down
         /\ down' \in Seq(Unit) /\ sOutgoing' \in Seq(Unit)
<1>1. LaneTypes
  BY InvTypesLanes
<1>2. /\ UNCHANGED <<sState, sHasFile, sFileName, sFileSize, pendingRequest,
                     frameNeedsHeader, maxSubpacketSize, finishRequested,
                     sOutgoing, offered>>
  BY DEF sVars
<1>3. KeepsSender
  BY <1>2 DEF KeepsSender, SessionInv, SenderOK
<1> QED
  BY <1>1, <1>2, <1>3 DEF Down, LaneTypes

LEMMA ReceiverTimesOut ==
  ASSUME SessionInv, ReceiverTimeout
  PROVE  SessionInv'
<1>1. /\ rOutgoing = <<>> /\ rOutgoing' = <<R!OwnZrinit>>
      /\ UNCHANGED <<sVars, rState, count, rFileName, buf, bufWriteOffset,
                     subpacketState, pendingEvents, manualAccept, down, up,
                     offered>>
      /\ KeepsWorld /\ KeepsReceiver
  BY DEF ReceiverTimeout, R!Timeout, R!fileVars, R!bufVars, link, world,
     KeepsWorld, KeepsReceiver
<1>2. /\ KeepsSender /\ LaneTypes /\ Down' = Down
      /\ down' \in Seq(Unit) /\ sOutgoing' \in Seq(Unit)
  BY <1>1, SenderUntouched
<1>3. UpSaid(R!OwnZrinit) /\ rOutgoing' \in Seq(HeaderUnit)
  BY <1>1, <1>2, ReceiverReplies, ReceiverSays
<1>4. UpChatters
  BY <1>3, ReceiverReplies DEF UpChatters
<1>5. ReceiverOK' /\ (ResetDue' <=> ResetDue)
  BY <1>1, <1>3, SameReceiver DEF SessionInv
<1>6. /\ OneStart => OneStart'
      /\ up' \in Seq(HeaderUnit) /\ Len(up') <= Len(up)
  BY <1>1, <1>2 DEF OneStart, LaneTypes
<1> QED
  BY <1>1, <1>2, <1>4, <1>5, <1>6, ReceiverChatters

LEMMA ReceiverWritten ==
  ASSUME SessionInv, ReceiverWrites
  PROVE  SessionInv'
<1>1. /\ R!BytesHandedOut /\ 1 \in 1 .. Len(rOutgoing)
      /\ rOutgoing' = SubSeq(rOutgoing, 1 + 1, Len(rOutgoing))
      /\ up' = Append(up, Head(rOutgoing))
      /\ UNCHANGED <<sVars, rState, count, rFileName, buf, bufWriteOffset,
                     subpacketState, pendingEvents, manualAccept, down,
                     offered>>
      /\ KeepsWorld /\ KeepsReceiver
  BY DEF ReceiverWrites, R!WireWritten, R!fileVars, R!bufVars, world,
     KeepsWorld, KeepsReceiver
<1>2. /\ KeepsSender /\ LaneTypes /\ Down' = Down
      /\ down' \in Seq(Unit) /\ sOutgoing' \in Seq(Unit)
  BY <1>1, SenderUntouched
<1>3. rOutgoing # <<>> /\ rOutgoing' = SubSeq(rOutgoing, 2, Len(rOutgoing))
  BY <1>1, <1>2 DEF LaneTypes
<1>4. /\ Up' = Up /\ up' \in Seq(HeaderUnit)
      /\ rOutgoing' \in Seq(HeaderUnit)
  BY <1>1, <1>2, <1>3, ReceiverWritesUnit
<1>5. ReceiverOK' /\ (ResetDue' <=> ResetDue)
  BY <1>1, <1>4, SameReceiver DEF SessionInv
<1>6. (OneStart => OneStart') /\ ~ResetDue
  BY <1>1 DEF OneStart, R!BytesHandedOut, ResetDue
<1> QED
  BY <1>1, <1>2, <1>4, <1>5, <1>6, ReceiverChatters DEF UpChatters

LEMMA ReceiverStops ==
  ASSUME SessionInv, ReceiverAborts
  PROVE  SessionInv'
<1>1. /\ rState' = "SessionEnd"
      /\ \/ pendingEvents' = Append(pendingEvents, "Aborted")
         \/ pendingEvents' = pendingEvents
      /\ UNCHANGED <<sVars, count, rFileName, buf, bufWriteOffset,
                     subpacketState, rOutgoing, manualAccept, down, up,
                     offered>>
      /\ KeepsWorld
  BY DEF ReceiverAborts, R!Abort, R!PushEvent, R!fileVars, R!bufVars, link,
     world, KeepsWorld
<1>2. /\ KeepsSender /\ LaneTypes /\ Down' = Down
      /\ down' \in Seq(Unit) /\ sOutgoing' \in Seq(Unit)
  BY <1>1, SenderUntouched
<1>3. ReceiverOK
  BY DEF SessionInv
<1>4. /\ pendingEvents' \in Seq(R!ReceiverEvent)
      /\ ResetDue' <=> ResetDue
      /\ OneStart => OneStart'
  <2>1. CASE pendingEvents' = Append(pendingEvents, "Aborted")
    BY <1>1, <1>3, <2>1, EventRaised DEF ReceiverOK, R!ReceiverEvent
  <2>2. CASE pendingEvents' = pendingEvents
    BY <1>1, <1>3, <2>2 DEF ReceiverOK, ResetDue, OneStart
  <2> QED
    BY <1>1, <2>1, <2>2
<1>5. ReceiverOK'
  BY <1>1, <1>3, <1>4 DEF ReceiverOK, R!ReceiverPhase, Begun
<1>6. /\ Up' = Up /\ up' \in Seq(HeaderUnit) /\ Len(up') <= Len(up)
  BY <1>1, <1>2 DEF Up, LaneTypes
<1> QED
  BY <1>1, <1>2, <1>4, <1>5, <1>6, ReceiverChatters DEF UpChatters

LEMMA ManualIsSet ==
  ASSUME SessionInv, SetManual
  PROVE  SessionInv'
<1>1. /\ pendingEvents = <<>> /\ manualAccept' = TRUE
      /\ UNCHANGED <<sVars, rState, count, rFileName, buf, bufWriteOffset,
                     subpacketState, rOutgoing, pendingEvents, down, up,
                     offered>>
      /\ KeepsWorld
  BY DEF SetManual, R!SetManualFileAccept, R!fileVars, R!bufVars, link,
     world, KeepsWorld
<1>2. /\ KeepsSender /\ LaneTypes /\ Down' = Down
      /\ down' \in Seq(Unit) /\ sOutgoing' \in Seq(Unit)
  BY <1>1, SenderUntouched
<1>3. ReceiverOK
  BY DEF SessionInv
<1>4. ~ResetDue /\ ~ResetDue' /\ (OneStart => OneStart')
  BY <1>1, <1>3 DEF ReceiverOK, ResetDue, OneStart
<1>5. ReceiverOK'
  BY <1>1, <1>3, <1>4 DEF ReceiverOK, Begun
<1>6. /\ Up' = Up /\ up' \in Seq(HeaderUnit)
  BY <1>1, <1>2 DEF Up, LaneTypes
<1> QED
  BY <1>1, <1>2, <1>4, <1>5, <1>6, ReceiverChatters DEF UpChatters

-----------------------------------------------------------------------------
(***************************************************************************)
(* The caller takes an event from the receiver.  When a file starts that   *)
(* is taken automatically, it empties the file on the disk.                *)
(***************************************************************************)
LEMMA DiskTyped ==
  ASSUME WorldOK, NEW name \in Name
  PROVE  /\ disk[name] \in Seq(Byte) /\ Len(disk[name]) \in Nat
         /\ Content[name] \in Seq(Byte) /\ Len(Content[name]) \in Nat
         /\ IsPrefixOf(disk[name], Content[name])
  BY FilesAssumption DEF WorldOK, DiskIsPrefix

\* The current file, which the receiver has not reported complete, is written.
LEMMA CurrentWritten ==
  ASSUME SessionInv, offered > 0, rFileName = CurrentFile,
         rFileName' = rFileName,
         CurrentFile \notin completed,
         NEW new \in Seq(Byte), IsPrefixOf(new, Content[CurrentFile]),
         disk' = [disk EXCEPT ![rFileName] = new],
         UNCHANGED <<offered, declined, completed, sState>>,
         sState \notin {"ReadyForFile", "WaitFileDone", "WaitFinish"},
         Down' = Down,
         \A i \in 1 .. Len(Down) : ~IsFrame(Down[i], {"ZEOF", "ZFIN"})
  PROVE  /\ WorldOK' /\ FilesSettled' /\ EofIsTrue' /\ FinIsTrue'
         /\ CurrentFile' = CurrentFile /\ disk'[CurrentFile] = new
<1>1. /\ CurrentFile \in Name /\ disk \in [Name -> Seq(Byte)]
      /\ CurrentFile' = CurrentFile /\ Begun' = Begun
  BY CurrentIsNamed DEF SessionInv, WorldOK, CurrentFile, Begun
<1>2. /\ disk' \in [Name -> Seq(Byte)] /\ disk'[CurrentFile] = new
      /\ \A name \in Name \ {CurrentFile} : disk'[name] = disk[name]
  BY <1>1
<1>3. \A name \in Name \ {CurrentFile} : Settled(name) => Settled(name)'
  BY <1>2 DEF Settled, Has
<1>4. \A name \in completed : Has(name)'
  <2>1. ASSUME NEW name \in completed
        PROVE  Has(name)'
    <3>1. name \in Begun /\ name # CurrentFile /\ Has(name)
      BY DEF SessionInv, WorldOK, CompletedIsWhole
    <3>2. name \in Name
      BY <3>1, FilesAssumption DEF Begun, SessionInv, SenderOK
    <3> QED
      BY <1>2, <3>1, <3>2 DEF Has
  <2> QED
    BY <2>1
<1>5. \A name \in Name : IsPrefixOf(disk'[name], Content[name])
  BY <1>2 DEF SessionInv, WorldOK, DiskIsPrefix
<1>6. WorldOK'
  <2>1. DiskIsPrefix'
    BY <1>2, <1>5 DEF DiskIsPrefix
  <2>2. CompletedIsWhole'
    BY <1>4 DEF CompletedIsWhole
  <2> QED
    BY <1>1, <1>2, <2>1, <2>2 DEF SessionInv, WorldOK
<1>7. FilesSettled'
  <2>1. ASSUME NEW i \in 1 .. offered - 1
        PROVE  Settled(Files[i])'
    <3>1. i \in 1 .. Len(Files) /\ offered \in 1 .. Len(Files) /\ i # offered
      BY CurrentIsNamed DEF SessionInv, SenderOK
    <3>2. Files[i] \in Name /\ Files[i] # CurrentFile
      BY <3>1, FilesAssumption DEF CurrentFile
    <3>3. Settled(Files[i])
      BY DEF SessionInv, FilesSettled
    <3> QED
      BY <1>3, <3>2, <3>3
  <2> QED
    BY <2>1 DEF FilesSettled
<1>8. EofIsTrue' /\ FinIsTrue'
  BY DEF EofIsTrue, FinIsTrue, IsFrame
<1> QED
  BY <1>1, <1>2, <1>6, <1>7, <1>8

LEMMA PlainIsNoEnd ==
  ASSUME NEW unit, Plain(unit)
  PROVE  ~IsFrame(unit, {"ZEOF", "ZFIN"})
  BY DEF Plain, IsFrame

LEMMA EmptyIsPrefix ==
  ASSUME NEW whole \in Seq(Byte)
  PROVE  <<>> \in Seq(Byte) /\ IsPrefixOf(<<>>, whole) /\ Len(<<>>) = 0
<1>1. Len(whole) \in Nat /\ <<>> \in Seq(Byte) /\ Len(<<>>) = 0
  OBVIOUS
<1>2. SubSeq(whole, 1, 0) = <<>>
  BY SubSeqEmpty
<1> QED
  BY <1>1, <1>2 DEF IsPrefixOf

LEMMA ReceiverReported ==
  ASSUME SessionInv, ReceiverEvent
  PROVE  SessionInv'
<1>1. /\ pendingEvents # <<>> /\ pendingEvents' = Tail(pendingEvents)
      /\ UNCHANGED <<sVars, rState, count, rFileName, buf, bufWriteOffset,
                     subpacketState, rOutgoing, manualAccept, down, up,
                     offered, declined, completed>>
      /\ disk' = IF Head(pendingEvents) = "FileStart" /\ ~manualAccept
                 THEN [disk EXCEPT ![rFileName] = <<>>] ELSE disk
  BY DEF ReceiverEvent, R!PollEvent, R!fileVars, R!bufVars, link
<1>2. /\ KeepsSender /\ LaneTypes /\ Down' = Down
      /\ down' \in Seq(Unit) /\ sOutgoing' \in Seq(Unit)
  BY <1>1, SenderUntouched
<1>3. ReceiverOK /\ pendingEvents \in Seq(R!ReceiverEvent)
  BY DEF SessionInv, ReceiverOK
<1>4. /\ pendingEvents' \in Seq(R!ReceiverEvent)
      /\ ResetDue' => ResetDue
      /\ OneStart => OneStart'
      /\ Head(pendingEvents) # "FileStart" => (ResetDue' <=> ResetDue)
      /\ Head(pendingEvents) = "FileStart" /\ OneStart => ~ResetDue'
      /\ Head(pendingEvents) = "FileStart" /\ ~manualAccept => ResetDue
  BY <1>1, <1>3, EventReported
<1>5. ReceiverOK'
  BY <1>1, <1>2, <1>3, <1>4 DEF ReceiverOK, Begun, LaneTypes
<1>6. Up' = Up /\ up' \in Seq(HeaderUnit) /\ up' = up
  BY <1>1, <1>2 DEF Up, LaneTypes
<1>7. CASE Head(pendingEvents) # "FileStart" \/ manualAccept
  <2>1. ResetDue' <=> ResetDue
    BY <1>1, <1>4, <1>7 DEF ResetDue
  <2>2. KeepsWorld
    BY <1>1, <1>3, <1>7 DEF KeepsWorld, ReceiverOK
  <2> QED
    BY <1>1, <1>2, <1>4, <1>5, <1>6, <2>1, <2>2, ReceiverChatters DEF UpChatters
<1>8. CASE Head(pendingEvents) = "FileStart" /\ ~manualAccept
  <2>1. ResetDue /\ AnswerUnderWay
    BY <1>4, <1>8 DEF SessionInv, SomeTurn, NoTurn, AnnouncementUnderWay,
       ReadingAnnouncement, Deciding, FrameOwed, FrameUnderWay, ReadingFrame,
       PersistingData
  <2>2. PICK k \in 1 .. Len(Up) :
          /\ Up[k].frame \in Answers
          /\ \A i \in 1 .. Len(Up) : Up[i].frame \in Answers => i = k
          /\ AnswersCurrent(k)
    BY <2>1 DEF AnswerUnderWay
  <2>3. /\ Up[k].frame # "ZSKIP" /\ CurrentFile \notin declined
        /\ Up[k].count = count /\ count <= Len(Content[CurrentFile])
        /\ count = 0 /\ k > Len(up)
    BY <2>1, <2>2 DEF AnswersCurrent
  <2>4. /\ offered > 0 /\ rFileName = CurrentFile
        /\ CurrentFile \notin completed /\ OneStart
        /\ ReceiverIdle /\ ~OwesHeader
        /\ sState \in {"WaitFilePos", "NeedFileData", "WaitFileAck", "Done"}
        /\ \A i \in 1 .. Len(Down) : Plain(Down[i])
    BY <2>1 DEF AnswerUnderWay
  <2>5. ~ResetDue' /\ OneStart'
    BY <1>4, <1>8, <2>4
  <2>6. CurrentFile \in Name
    BY <2>4, CurrentIsNamed DEF SessionInv
  <2>7. /\ <<>> \in Seq(Byte) /\ IsPrefixOf(<<>>, Content[CurrentFile])
        /\ Len(<<>>) = 0
    BY <2>6, DiskTyped, EmptyIsPrefix DEF SessionInv
  <2>8. sState' = sState /\ offered' = offered
    BY <1>2 DEF KeepsSender
  <2>9. /\ WorldOK' /\ FilesSettled' /\ EofIsTrue' /\ FinIsTrue'
        /\ CurrentFile' = CurrentFile /\ disk'[CurrentFile] = <<>>
    <3>1. disk' = [disk EXCEPT ![rFileName] = <<>>]
      BY <1>1, <1>8
    <3>2. \A i \in 1 .. Len(Down) : ~IsFrame(Down[i], {"ZEOF", "ZFIN"})
      BY <2>4, PlainIsNoEnd
    <3> HIDE DEF IsPrefixOf
    <3>3. PICK new \in Seq(Byte) : new = <<>>
      BY <2>7
    <3> QED
      BY <1>1, <1>2, <2>4, <2>7, <2>8, <3>1, <3>2, <3>3, CurrentWritten
  <2>10. LinkOK'
    BY <1>2, <1>6 DEF SessionInv, LinkOK
  <2>11. SenderOK'
    BY <1>2, SameSender DEF SessionInv
  <2>12. AnswerUnderWay'
    <3>1. ReceiverIdle' /\ ~OwesHeader'
      BY <1>1, <1>2, <2>4 DEF ReceiverIdle, OwesHeader, KeepsSender
    <3>2. Synced'
      BY <1>1, <2>3, <2>7, <2>9 DEF Synced
    <3>3. AnswersCurrent(k)'
      BY <1>1, <1>6, <2>3, <2>5, <2>9, <3>2 DEF AnswersCurrent
    <3> QED
      BY <1>1, <1>2, <1>6, <2>2, <2>4, <2>5, <2>8, <2>9, <3>1, <3>3
         DEF AnswerUnderWay
  <2> QED
    BY <1>5, <2>9, <2>10, <2>11, <2>12 DEF SessionInv, SomeTurn
<1> QED
  BY <1>7, <1>8

-----------------------------------------------------------------------------
(***************************************************************************)
(* The receiver answers for the current file.                              *)
(***************************************************************************)
LEMMA AnswerIsUnit ==
  ASSUME NEW f \in Answers, NEW n \in Nat
  PROVE  /\ R!Header(f, n) \in HeaderUnit /\ R!Header(f, n).frame = f
         /\ R!Header(f, n).count = n
<1>1. f \in Frame
  BY DEF Answers, Frame
<1>2. Header(f, n) \in HeaderUnit /\ Header(f, n).frame = f /\ Header(f, n).count = n
  BY <1>1, HeaderIsUnit
<1> QED
  BY <1>2, SameUnits

LEMMA AnswerIsGiven ==
  ASSUME LaneTypes, NoAnswer, rOutgoing = <<>>, up' = up,
         NEW unit \in HeaderUnit, unit.frame \in Answers,
         rOutgoing' = <<unit>>,
         ReceiverIdle', ~OwesHeader',
         sState' \in {"WaitFilePos", "NeedFileData", "WaitFileAck", "Done"},
         offered' > 0, rFileName' = CurrentFile',
         CurrentFile' \notin completed',
         \A i \in 1 .. Len(Down') : Plain(Down'[i]),
         ResetDue' => OneStart',
         unit.frame = "ZSKIP" =>
           /\ CurrentFile' \in declined'
           /\ sState' \in {"WaitFilePos", "Done"} /\ ~ResetDue',
         unit.frame # "ZSKIP" =>
           /\ CurrentFile' \notin declined' /\ unit.count = count'
           /\ count' <= Len(Content[CurrentFile'])
           /\ ~ResetDue' => Synced'
           /\ ResetDue' => count' = 0
  PROVE  AnswerUnderWay' /\ rOutgoing' \in Seq(HeaderUnit) /\ UpSaid(unit)
<1>1. UpSaid(unit) /\ rOutgoing' \in Seq(HeaderUnit) /\ Up = up
  BY ReceiverSays
<1>2. PICK k : k = Len(Up) + 1
  OBVIOUS
<1>3. /\ k \in 1 .. Len(Up') /\ Up'[k] = unit /\ k > Len(up')
      /\ \A i \in 1 .. Len(Up') : i # k => Up'[i].frame \notin Answers
  BY <1>1, <1>2, LanesAreSequences DEF UpSaid, NoAnswer
<1>4. AnswersCurrent(k)'
  BY <1>3 DEF AnswersCurrent
<1> QED
  BY <1>1, <1>3, <1>4 DEF AnswerUnderWay

LEMMA UpSaidLinkOK ==
  ASSUME LaneTypes, LinkOK, NEW unit \in HeaderUnit, UpSaid(unit),
         unit.frame \in Answers
  PROVE  \A i \in 1 .. Len(Up') :
           Up'[i].frame \in {"ZRINIT", "ZNAK", "ZFIN"} \cup Answers
<1> TAKE i \in 1 .. Len(Up')
<1>1. CASE i <= Len(Up)
  BY <1>1, LanesAreSequences DEF UpSaid, LinkOK
<1>2. CASE i > Len(Up)
  BY <1>2, LanesAreSequences DEF UpSaid
<1> QED
  BY <1>1, <1>2, LanesAreSequences

\* The user can only be asked about the current file.
LEMMA UserDecides ==
  ASSUME SessionInv, rState = "FileAcceptPending"
  PROVE  Deciding
  BY DEF SessionInv, SomeTurn, NoTurn, AnnouncementUnderWay,
     ReadingAnnouncement, AnswerUnderWay, FrameOwed, FrameUnderWay,
     ReadingFrame, PersistingData, ReceiverIdle

LEMMA FileIsResumed ==
  ASSUME SessionInv, Resume
  PROVE  SessionInv'
<1>1. /\ rState = "FileAcceptPending" /\ rOutgoing = <<>>
      /\ rOutgoing' = <<R!Header("ZRPOS", Len(disk[rFileName]))>>
      /\ count' = Len(disk[rFileName]) /\ rState' = "FileBegin"
      /\ pendingEvents = <<>>
      /\ UNCHANGED <<sVars, rFileName, buf, bufWriteOffset, subpacketState,
                     pendingEvents, manualAccept, down, up, offered, disk,
                     declined, completed>>
  BY DEF Resume, R!AcceptFileAt, R!bufVars, link, world
<1>2. /\ KeepsSender /\ LaneTypes /\ Down' = Down /\ KeepsWorld
      /\ down' \in Seq(Unit) /\ sOutgoing' \in Seq(Unit)
  BY <1>1, SenderUntouched DEF KeepsWorld
<1>3. Deciding
  BY <1>1, UserDecides
<1>4. /\ subpacketState.phase # "Writing" /\ NoAnswer /\ ~ResetDue
      /\ sState \in {"WaitFilePos", "Done"}
      /\ offered > 0 /\ rFileName = CurrentFile
      /\ CurrentFile \notin completed /\ CurrentFile \notin declined
      /\ \A i \in 1 .. Len(Down) : Plain(Down[i])
  BY <1>3 DEF Deciding, Taken, Undecided
<1>5. /\ CurrentFile' = CurrentFile /\ WorldOK' /\ SenderOK' /\ FilesSettled'
      /\ sState' = sState /\ ~ResetDue' /\ offered' = offered
      /\ Begun' = Begun /\ (AllSettled' <=> AllSettled)
      /\ ~OwesHeader' /\ ReceiverIdle'
  <2>1. /\ CurrentFile' = CurrentFile /\ WorldOK' /\ SenderOK' /\ FilesSettled'
        /\ sState' = sState /\ offered' = offered
        /\ Begun' = Begun /\ (AllSettled' <=> AllSettled)
    BY <1>2, SameWorld, SameSender, SameSettled DEF SessionInv, KeepsSender
  <2>2. ~ResetDue' /\ ~OwesHeader' /\ ReceiverIdle'
    BY <1>1, <1>4, <2>1 DEF ResetDue, OwesHeader, ReceiverIdle
  <2> QED
    BY <2>1, <2>2
<1>6. /\ CurrentFile \in Name
      /\ count' \in Nat /\ count' <= Len(Content[CurrentFile])
  BY <1>1, <1>4, CurrentIsNamed, DiskTyped DEF SessionInv, IsPrefixOf
<1>7. Synced'
  BY <1>1, <1>4, <1>5 DEF Synced
<1>8. PICK unit \in HeaderUnit :
        unit.frame = "ZRPOS" /\ unit.count = count' /\ rOutgoing' = <<unit>>
  BY <1>1, <1>6, AnswerIsUnit DEF Answers
<1>9. AnswerUnderWay' /\ rOutgoing' \in Seq(HeaderUnit) /\ UpSaid(unit)
  BY <1>1, <1>2, <1>4, <1>5, <1>6, <1>7, <1>8, AnswerIsGiven DEF Answers
<1>10. ReceiverOK'
  BY <1>1, <1>5, <1>6, <1>9 DEF SessionInv, ReceiverOK, R!ReceiverPhase
<1>11. LinkOK'
  BY <1>1, <1>2, <1>8, <1>9, UpSaidLinkOK DEF SessionInv, LinkOK, Answers, LaneTypes
<1>12. EofIsTrue' /\ FinIsTrue'
  BY <1>2, <1>4, PlainIsNoEnd DEF EofIsTrue, FinIsTrue, IsFrame
<1> QED
  BY <1>5, <1>9, <1>10, <1>11, <1>12 DEF SessionInv, SomeTurn

LEMMA FileIsDeclined ==
  ASSUME SessionInv, Decline
  PROVE  SessionInv'
<1>1. /\ rState = "FileAcceptPending" /\ rOutgoing = <<>>
      /\ rOutgoing' = <<R!Header("ZSKIP", 0)>>
      /\ rState' = "FileBegin"
      /\ pendingEvents = <<>>
      /\ UNCHANGED <<sVars, count, rFileName, buf, bufWriteOffset, subpacketState,
                     pendingEvents, manualAccept, down, up, offered, disk,
                     completed>>
      /\ declined' = declined \cup {rFileName}
  BY DEF Decline, R!SkipFile, R!Refusal, R!fileVars, R!bufVars, link
<1>2. /\ KeepsSender /\ LaneTypes /\ Down' = Down
      /\ down' \in Seq(Unit) /\ sOutgoing' \in Seq(Unit)
  BY <1>1, SenderUntouched
<1>3. Deciding
  BY <1>1, UserDecides
<1>4. /\ subpacketState.phase # "Writing" /\ NoAnswer /\ ~ResetDue
      /\ sState \in {"WaitFilePos", "Done"}
      /\ offered > 0 /\ rFileName = CurrentFile
      /\ CurrentFile \notin completed
      /\ \A i \in 1 .. Len(Down) : Plain(Down[i])
  BY <1>3 DEF Deciding, Taken, Undecided
<1>5. /\ CurrentFile' = CurrentFile /\ SenderOK'
      /\ sState' = sState /\ ~ResetDue' /\ offered' = offered
      /\ Begun' = Begun
      /\ ~OwesHeader' /\ ReceiverIdle'
  <2>1. /\ SenderOK' /\ sState' = sState /\ offered' = offered
    BY <1>2, SameSender DEF SessionInv, KeepsSender
  <2>2. CurrentFile' = CurrentFile /\ Begun' = Begun
    BY <2>1 DEF CurrentFile, Begun
  <2>3. ~ResetDue' /\ ~OwesHeader' /\ ReceiverIdle'
    BY <1>1, <1>4, <2>1 DEF ResetDue, OwesHeader, ReceiverIdle
  <2> QED
    BY <2>1, <2>2, <2>3
<1>6. WorldOK'
  <2>1. declined' \subseteq Begun'
    BY <1>1, <1>4, <1>5, CurrentIsNamed DEF SessionInv, WorldOK
  <2>2. DiskIsPrefix' /\ CompletedIsWhole'
    BY <1>1 DEF SessionInv, WorldOK, DiskIsPrefix, CompletedIsWhole, Has
  <2> QED
    BY <1>1, <1>5, <2>1, <2>2 DEF SessionInv, WorldOK
<1>7. FilesSettled'
  BY <1>1, <1>4, <1>5 DEF SessionInv, FilesSettled, Settled, Has
<1>8. PICK unit \in HeaderUnit :
        unit.frame = "ZSKIP" /\ rOutgoing' = <<unit>>
  BY <1>1, AnswerIsUnit DEF Answers
<1>9. AnswerUnderWay' /\ rOutgoing' \in Seq(HeaderUnit) /\ UpSaid(unit)
  <2>1. CurrentFile' \in declined'
    BY <1>1, <1>4, <1>5
  <2>2. CurrentFile' \notin completed' /\ rFileName' = CurrentFile' /\ offered' > 0
    BY <1>1, <1>4, <1>5
  <2> QED
    BY <1>1, <1>2, <1>4, <1>5, <1>8, <2>1, <2>2, AnswerIsGiven DEF Answers
<1>10. ReceiverOK'
  BY <1>1, <1>5, <1>9 DEF SessionInv, ReceiverOK, R!ReceiverPhase
<1>11. LinkOK'
  BY <1>1, <1>2, <1>8, <1>9, UpSaidLinkOK DEF SessionInv, LinkOK, Answers, LaneTypes
<1>12. EofIsTrue' /\ FinIsTrue'
  BY <1>2, <1>4, PlainIsNoEnd DEF EofIsTrue, FinIsTrue, IsFrame
<1> QED
  BY <1>5, <1>6, <1>7, <1>9, <1>10, <1>11, <1>12 DEF SessionInv, SomeTurn

-----------------------------------------------------------------------------
(***************************************************************************)
(* The caller persists data the receiver has read.                         *)
(***************************************************************************)
LEMMA PieceOfPiece ==
  ASSUME NEW whole \in Seq(Byte), NEW from \in Nat, NEW len \in Nat,
         NEW skip \in Nat, NEW n \in Nat,
         n >= 1, skip + n <= len, from + len <= Len(whole)
  PROVE  SubSeq(SubSeq(SubSeq(whole, from + 1, from + len), skip + 1, len),
                1, n)
         = SubSeq(whole, from + skip + 1, from + skip + n)
<1>1. Len(whole) \in Nat
  OBVIOUS
<1>2. SubSeq(SubSeq(whole, from + 1, from + len), skip + 1, len)
      = SubSeq(whole, from + skip + 1, from + len)
  <2>1. /\ from + 1 \in 1 .. Len(whole) /\ from + len \in 1 .. Len(whole)
        /\ skip + 1 \in 1 .. (from + len) - (from + 1) + 1
        /\ len \in 1 .. (from + len) - (from + 1) + 1
    BY <1>1
  <2>2. SubSeq(SubSeq(whole, from + 1, from + len), skip + 1, len)
        = SubSeq(whole, (from + 1) + (skip + 1) - 1, (from + 1) + len - 1)
    BY <2>1, SubSeqOfSubSeq
  <2>3. (from + 1) + (skip + 1) - 1 = from + skip + 1
        /\ (from + 1) + len - 1 = from + len
    OBVIOUS
  <2> QED
    BY <2>2, <2>3
<1>3. SubSeq(SubSeq(whole, from + skip + 1, from + len), 1, n)
      = SubSeq(whole, from + skip + 1, from + skip + n)
  <2>1. /\ from + skip + 1 \in 1 .. Len(whole) /\ from + len \in 1 .. Len(whole)
        /\ 1 \in 1 .. (from + len) - (from + skip + 1) + 1
        /\ n \in 1 .. (from + len) - (from + skip + 1) + 1
    BY <1>1
  <2>2. SubSeq(SubSeq(whole, from + skip + 1, from + len), 1, n)
        = SubSeq(whole, (from + skip + 1) + 1 - 1, (from + skip + 1) + n - 1)
    BY <2>1, SubSeqOfSubSeq
  <2>3. (from + skip + 1) + 1 - 1 = from + skip + 1
        /\ (from + skip + 1) + n - 1 = from + skip + n
    OBVIOUS
  <2> QED
    BY <2>2, <2>3
<1> QED
  BY <1>2, <1>3

\* A prefix with the n elements that come next behind it.
Extended(part, whole, n) ==
  part \o SubSeq(whole, Len(part) + 1, Len(part) + n)

LEMMA PrefixGrows ==
  ASSUME NEW whole \in Seq(Byte), NEW part \in Seq(Byte),
         IsPrefixOf(part, whole), NEW n \in Nat, Len(part) + n <= Len(whole)
  PROVE  /\ Extended(part, whole, n) \in Seq(Byte)
         /\ IsPrefixOf(Extended(part, whole, n), whole)
         /\ Len(Extended(part, whole, n)) = Len(part) + n
<1>0. PICK at \in Nat : at = Len(part)
  OBVIOUS
<1>1. Len(whole) \in Nat
  OBVIOUS
<1>2. part = SubSeq(whole, 1, at)
  BY <1>0 DEF IsPrefixOf
<1>3. SubSeq(whole, 1, at) \o SubSeq(whole, at + 1, at + n)
      = SubSeq(whole, 1, at + n)
  <2>1. /\ 1 \in 1 .. Len(whole) + 1 /\ at \in 1 - 1 .. Len(whole)
        /\ at + n \in at .. Len(whole)
    BY <1>0, <1>1
  <2> QED
    BY <2>1, ConcatAdjacentSubSeq
<1>4. PICK m \in Nat : m = at + n
  OBVIOUS
<1>5. SubSeq(whole, 1, m) \in Seq(Byte) /\ Len(SubSeq(whole, 1, m)) = m
  <2>1. 0 + m <= Len(whole)
    BY <1>0, <1>1, <1>4
  <2>2. /\ SubSeq(whole, 0 + 1, 0 + m) \in Seq(Byte)
        /\ Len(SubSeq(whole, 0 + 1, 0 + m)) = m
    BY <2>1, PieceOf
  <2>3. 0 + 1 = 1 /\ 0 + m = m
    OBVIOUS
  <2> QED
    BY <2>2, <2>3
<1>6. m <= Len(whole)
  BY <1>0, <1>1, <1>4
<1>7. Extended(part, whole, n) = SubSeq(whole, 1, m)
  BY <1>0, <1>2, <1>3, <1>4 DEF Extended
<1> QED
  BY <1>0, <1>4, <1>5, <1>6, <1>7 DEF IsPrefixOf

\* It can only be data of the current file.
LEMMA DataIsOffered ==
  ASSUME SessionInv, R!DrainFile # <<>>
  PROVE  /\ PersistingData
         /\ R!DrainFile = SubSeq(buf, bufWriteOffset + 1, Len(buf))
         /\ Len(R!DrainFile) = Len(buf) - bufWriteOffset
<1>1. subpacketState.phase = "Writing"
  BY DEF R!DrainFile
<1>2. R!DrainFile = SubSeq(buf, bufWriteOffset + 1, Len(buf))
  BY <1>1 DEF R!DrainFile
<1>3. PersistingData
  BY <1>1 DEF SessionInv, SomeTurn, NoTurn, AnnouncementUnderWay,
     ReadingAnnouncement, Deciding, AnswerUnderWay, FrameOwed, FrameUnderWay,
     ReadingFrame, ReceiverIdle, R!Reading
<1>4. buf \in Seq(Byte) /\ bufWriteOffset \in Nat /\ bufWriteOffset < Len(buf)
  BY <1>3 DEF SessionInv, ReceiverOK, PersistingData
<1>5. PICK n \in Nat : bufWriteOffset + n = Len(buf)
  BY <1>4
<1>6. Len(SubSeq(buf, bufWriteOffset + 1, bufWriteOffset + n)) = n
  BY <1>4, <1>5, PieceOf
<1> QED
  BY <1>2, <1>3, <1>4, <1>5, <1>6

\* What it persists comes next in the file.
LEMMA DiskGrows ==
  ASSUME SessionInv, ReceiverWritesFile
  PROVE  \E n \in 1 .. Len(R!DrainFile), new \in Seq(Byte) :
           /\ R!FileWritten(n)
           /\ disk' = [disk EXCEPT ![rFileName] = new]
           /\ IsPrefixOf(new, Content[CurrentFile])
           /\ Len(new) = count + bufWriteOffset + n
<1>1. PICK n \in 1 .. Len(R!DrainFile) :
        /\ R!FileWritten(n)
        /\ disk' = [disk EXCEPT ![rFileName] = @ \o SubSeq(R!DrainFile, 1, n)]
  BY DEF ReceiverWritesFile
<1>2. R!DrainFile # <<>>
  <2>1. Len(R!DrainFile) # 0 /\ Len(<<>>) = 0
    BY <1>1
  <2> QED
    BY <2>1
<1>3. /\ PersistingData
      /\ R!DrainFile = SubSeq(buf, bufWriteOffset + 1, Len(buf))
      /\ Len(R!DrainFile) = Len(buf) - bufWriteOffset
  BY <1>2, DataIsOffered
<1>4. /\ offered > 0 /\ rFileName = CurrentFile
      /\ count + Len(buf) <= Len(Content[CurrentFile])
      /\ buf = SubSeq(Content[CurrentFile], count + 1, count + Len(buf))
      /\ Len(disk[CurrentFile]) = count + bufWriteOffset
  BY <1>3 DEF PersistingData, Taken
<1>5. /\ count \in Nat /\ buf \in Seq(Byte) /\ Len(buf) \in Nat
      /\ bufWriteOffset \in Nat /\ n \in Nat /\ n >= 1
      /\ bufWriteOffset + n <= Len(buf)
  BY <1>1, <1>3 DEF SessionInv, ReceiverOK
<1>6. /\ CurrentFile \in Name
      /\ Content[CurrentFile] \in Seq(Byte) /\ disk[CurrentFile] \in Seq(Byte)
      /\ IsPrefixOf(disk[CurrentFile], Content[CurrentFile])
      /\ Len(Content[CurrentFile]) \in Nat
      /\ disk \in [Name -> Seq(Byte)]
  BY <1>4, CurrentIsNamed, DiskTyped DEF SessionInv, WorldOK
<1>7. PICK new \in Seq(Byte) :
        /\ new = disk[CurrentFile] \o SubSeq(R!DrainFile, 1, n)
        /\ IsPrefixOf(new, Content[CurrentFile])
        /\ Len(new) = count + bufWriteOffset + n
  <2>1. PICK len \in Nat : len = Len(buf)
    BY <1>5
  <2>2. PICK whole \in Seq(Byte), part \in Seq(Byte) :
          whole = Content[CurrentFile] /\ part = disk[CurrentFile]
    BY <1>6
  <2>3. PICK at \in Nat : at = count + bufWriteOffset
    BY <1>5
  <2>4. /\ IsPrefixOf(part, whole) /\ Len(part) = at
        /\ bufWriteOffset + n <= len /\ count + len <= Len(whole)
        /\ buf = SubSeq(whole, count + 1, count + len)
        /\ at + n <= Len(whole)
    BY <1>4, <1>5, <1>6, <2>1, <2>2, <2>3
  <2>5. PICK piece : piece = SubSeq(R!DrainFile, 1, n)
    OBVIOUS
  <2>6. piece = SubSeq(whole, at + 1, at + n)
    <3>1. piece = SubSeq(SubSeq(SubSeq(whole, count + 1, count + len),
                                bufWriteOffset + 1, len), 1, n)
      BY <1>3, <2>1, <2>4, <2>5
    <3>2. SubSeq(SubSeq(SubSeq(whole, count + 1, count + len),
                        bufWriteOffset + 1, len), 1, n)
          = SubSeq(whole, count + bufWriteOffset + 1,
                   count + bufWriteOffset + n)
      BY <1>5, <2>4, PieceOfPiece
    <3> QED
      BY <2>3, <3>1, <3>2
  <2>7. /\ Extended(part, whole, n) \in Seq(Byte)
        /\ IsPrefixOf(Extended(part, whole, n), whole)
        /\ Len(Extended(part, whole, n)) = Len(part) + n
    BY <1>5, <2>4, PrefixGrows
  <2>8. Extended(part, whole, n) = part \o piece
    BY <2>4, <2>6 DEF Extended
  <2>9. count + bufWriteOffset + n = Len(part) + n
    BY <2>3, <2>4
  <2> QED
    BY <2>2, <2>5, <2>7, <2>8, <2>9
<1>8. disk' = [disk EXCEPT ![rFileName] = new]
  BY <1>1, <1>4, <1>6, <1>7
<1> QED
  BY <1>1, <1>7, <1>8

LEMMA DataIsPersisted ==
  ASSUME SessionInv, ReceiverWritesFile
  PROVE  SessionInv'
<1>1. PICK n \in 1 .. Len(R!DrainFile), new \in Seq(Byte) :
        /\ R!FileWritten(n)
        /\ disk' = [disk EXCEPT ![rFileName] = new]
        /\ IsPrefixOf(new, Content[CurrentFile])
        /\ Len(new) = count + bufWriteOffset + n
  BY DiskGrows
<1>2. /\ rOutgoing = <<>>
      /\ UNCHANGED <<sVars, rFileName, pendingEvents, manualAccept, down, up,
                     offered, declined, completed>>
      /\ \/ /\ n < Len(R!DrainFile)
            /\ bufWriteOffset' = bufWriteOffset + n
            /\ UNCHANGED <<rState, count, buf, subpacketState, rOutgoing>>
         \/ /\ n = Len(R!DrainFile)
            /\ R!FinishSubpacket(subpacketState.kind, Len(buf))
         \/ ~(count + Len(buf) <= MaxPosition)
  BY <1>1 DEF R!FileWritten, R!FinishSubpacket, R!Fits, ReceiverWritesFile,
     link, R!fileVars
<1>3. R!DrainFile # <<>>
  <2>1. Len(R!DrainFile) # 0 /\ Len(<<>>) = 0
    BY <1>1
  <2> QED
    BY <2>1
<1>4. /\ PersistingData
      /\ R!DrainFile = SubSeq(buf, bufWriteOffset + 1, Len(buf))
      /\ Len(R!DrainFile) = Len(buf) - bufWriteOffset
  BY <1>3, DataIsOffered
<1>5. /\ rState \in {"FileReadingSubpacket", "SessionEnd"}
      /\ subpacketState \in {R!Writing("ZCRCG"), R!Writing("ZCRCW")}
      /\ NoAnswer /\ ~ResetDue /\ Sending
      /\ offered > 0 /\ rFileName = CurrentFile
      /\ CurrentFile \notin completed /\ CurrentFile \notin declined
      /\ bufWriteOffset < Len(buf)
      /\ count + Len(buf) <= Len(Content[CurrentFile])
      /\ buf = SubSeq(Content[CurrentFile], count + 1, count + Len(buf))
      /\ Len(disk[CurrentFile]) = count + bufWriteOffset
      /\ RestOfFrame(1) /\ DataFrom(1, count + Len(buf))
      /\ IF subpacketState.kind = "ZCRCG" THEN MoreToCome
         ELSE /\ sState # "NeedFileData"
              /\ \A i \in 1 .. Len(Down) : Noise(Down[i])
  BY <1>4 DEF PersistingData, Taken, Undecided
<1>6. /\ KeepsSender /\ LaneTypes /\ Down' = Down
      /\ down' \in Seq(Unit) /\ sOutgoing' \in Seq(Unit)
  BY <1>2, SenderUntouched
<1>7. /\ count \in Nat /\ buf \in Seq(Byte) /\ Len(buf) \in Nat
      /\ bufWriteOffset \in Nat /\ n \in Nat /\ n >= 1
      /\ bufWriteOffset + n <= Len(buf)
      /\ pendingEvents \in Seq(R!ReceiverEvent)
  BY <1>1, <1>4 DEF SessionInv, ReceiverOK
<1>8. /\ CurrentFile \in Name
      /\ Content[CurrentFile] \in Seq(Byte) /\ disk[CurrentFile] \in Seq(Byte)
      /\ IsPrefixOf(disk[CurrentFile], Content[CurrentFile])
      /\ Len(Content[CurrentFile]) \in Nat
      /\ Len(Content[CurrentFile]) <= MaxPosition /\ MaxPosition \in Nat
      /\ disk \in [Name -> Seq(Byte)]
  BY <1>5, CurrentIsNamed, DiskTyped, SessionLimitsAssumption
     DEF SessionInv, WorldOK
<1>9. \A i \in 1 .. Len(Down) :
         Plain(Down[i]) /\ ~IsFrame(Down[i], {"ZFILE", "ZDATA", "ZEOF", "ZFIN"})
  <2>1. \A i \in 1 .. Len(Down) : Plain(Down[i])
    BY <1>5, LiveIsNoFrame DEF RestOfFrame
  <2> QED
    BY <2>1 DEF Plain
<1>10. sState' = sState /\ offered' = offered
  BY <1>6 DEF KeepsSender
<1>11. /\ WorldOK' /\ FilesSettled' /\ EofIsTrue' /\ FinIsTrue'
       /\ CurrentFile' = CurrentFile /\ disk'[CurrentFile] = new
  <2>1. sState \notin {"ReadyForFile", "WaitFileDone", "WaitFinish"}
    BY <1>5 DEF Sending
  <2>2. \A i \in 1 .. Len(Down) : ~IsFrame(Down[i], {"ZEOF", "ZFIN"})
    BY <1>9 DEF IsFrame
  <2> QED
    BY <1>1, <1>2, <1>5, <1>6, <1>10, <2>1, <2>2, CurrentWritten
<1>12. SenderOK'
  BY <1>6, SameSender DEF SessionInv
<1>13. SenderGoesOnOrStops
  BY <1>6 DEF SenderGoesOnOrStops, KeepsSender
<1>14. /\ ~ResetDue' /\ Sending' /\ ~OwesHeader' /\ Taken'
       /\ MoreToCome => MoreToCome'
       /\ up' = up /\ up' \in Seq(HeaderUnit)
       /\ sState \in {"NeedFileData", "WaitFileAck", "Done"}
  <2>1. ~ResetDue'
    BY <1>2, <1>5 DEF ResetDue
  <2>2. Sending' /\ ~OwesHeader'
    BY <1>5, <1>6 DEF Sending, OwesHeader, KeepsSender
  <2>3. Taken'
    BY <1>2, <1>5, <1>11 DEF Taken, Undecided
  <2>4. MoreToCome => MoreToCome'
    BY <1>6, <1>10 DEF MoreToCome
  <2> QED
    BY <1>2, <1>5, <1>6, <2>1, <2>2, <2>3, <2>4 DEF Sending, LaneTypes
<1>15. RestOfFrame(1)' /\ \A p \in Nat : p = count + Len(buf) => DataFrom(1, p)'
  <2>1. PICK p \in Nat : p = count + Len(buf)
    BY <1>7
  <2>2. RestOfFrame(1)' /\ DataFrom(1, p)'
    BY <1>5, <1>6, <1>13, <2>1, FrameStays
  <2> QED
    BY <2>1, <2>2
<1>16. CASE n < Len(R!DrainFile)
  <2>1. /\ bufWriteOffset' = bufWriteOffset + n
        /\ UNCHANGED <<rState, count, buf, subpacketState, rOutgoing>>
    BY <1>2, <1>5, <1>7, <1>8, <1>16
  <2>2. Up' = Up
    BY <1>2, <2>1 DEF Up
  <2>3. ReceiverOK'
    BY <1>2, <1>7, <1>14, <2>1 DEF SessionInv, ReceiverOK, Begun
  <2>4. LinkOK'
    BY <1>6, <1>14, <2>2 DEF SessionInv, LinkOK
  <2>5. PersistingData'
    <3>1. NoAnswer'
      BY <1>5, <2>2 DEF NoAnswer
    <3>2. bufWriteOffset' < Len(buf')
      BY <1>4, <1>7, <1>16, <2>1
    <3>3. Len(disk'[CurrentFile']) = count' + bufWriteOffset'
      <4>1. disk'[CurrentFile'] = new
        BY <1>11
      <4>2. Len(new) = count' + bufWriteOffset'
        BY <1>1, <1>7, <2>1
      <4> QED
        BY <4>1, <4>2
    <3>4. RestOfFrame(1)' /\ DataFrom(1, count + Len(buf))'
      <4>1. (count + Len(buf))' = count + Len(buf) /\ count + Len(buf) \in Nat
        BY <1>7, <2>1
      <4> QED
        BY <1>15, <4>1
    <3> QED
      BY <1>5, <1>6, <1>10, <1>11, <1>14, <2>1, <3>1, <3>2, <3>3, <3>4
         DEF PersistingData
  <2> QED
    BY <1>11, <1>12, <2>3, <2>4, <2>5 DEF SessionInv, SomeTurn
<1>17. CASE n = Len(R!DrainFile)
  <2>1. R!FinishSubpacket(subpacketState.kind, Len(buf))
    BY <1>2, <1>5, <1>7, <1>8, <1>17
  <2>2. /\ count' = count + Len(buf) /\ buf' = <<>> /\ bufWriteOffset' = 0
        /\ count' \in Nat /\ buf' \in Seq(Byte) /\ bufWriteOffset' \in Nat
    BY <1>7, <2>1 DEF R!FinishSubpacket, R!Advanced, R!ClearBuf
  <2>3. Synced' /\ count' <= Len(Content[CurrentFile'])
    <3>1. Len(new) = count + Len(buf)
      BY <1>4, <1>7, <1>1, <1>17
    <3> QED
      BY <1>5, <1>11, <2>2, <3>1 DEF Synced
  <2>4. CASE subpacketState.kind = "ZCRCG"
    <3>1. subpacketState' = R!Reading /\ rState' = rState /\ rOutgoing' = rOutgoing
      BY <2>1, <2>4 DEF R!FinishSubpacket
    <3>2. Up' = Up
      BY <1>2, <3>1 DEF Up
    <3>3. LinkOK'
      BY <1>6, <1>14, <3>2 DEF SessionInv, LinkOK
    <3>4. ReceiverOK'
      BY <1>2, <1>14, <2>2, <3>1
         DEF SessionInv, ReceiverOK, Begun, R!SubpacketPhase
    <3>5. NoAnswer'
      BY <1>5, <3>2 DEF NoAnswer
    <3>6. CASE rState = "FileReadingSubpacket"
      <4>1. DataFrom(1, count)'
        BY <1>15, <2>2
      <4>2. ReadingFrame'
        BY <1>5, <1>14, <1>15, <2>3, <2>4, <3>1, <3>5, <3>6, <4>1
           DEF ReadingFrame
      <4> QED
        BY <1>11, <1>12, <3>3, <3>4, <4>2 DEF SessionInv, SomeTurn
    <3>7. CASE rState = "SessionEnd"
      <4>1. ReceiverIdle'
        BY <3>1, <3>7 DEF ReceiverIdle, R!Reading
      <4>2. \A i \in 1 .. Len(Down') : ~IsFrame(Down'[i], {"ZFILE", "ZDATA"})
        BY <1>6, <1>9 DEF IsFrame
      <4>3. NoTurn'
        BY <1>10, <1>14, <3>5, <4>1, <4>2 DEF NoTurn
      <4> QED
        BY <1>11, <1>12, <3>3, <3>4, <4>3 DEF SessionInv, SomeTurn
    <3> QED
      BY <1>5, <3>6, <3>7
  <2>5. CASE subpacketState.kind # "ZCRCG"
    <3>1. subpacketState.kind = "ZCRCW"
      BY <1>5, <2>5 DEF R!Writing
    <3>2. /\ subpacketState' = R!Idle /\ rState' = "FileWaitingSubpacket"
          /\ rOutgoing' = <<R!Header("ZACK", count + Len(buf))>>
      BY <2>1, <3>1 DEF R!FinishSubpacket, R!Acknowledgement, R!Advanced
    <3>3. PICK unit \in HeaderUnit :
            unit.frame = "ZACK" /\ unit.count = count' /\ rOutgoing' = <<unit>>
      BY <2>2, <3>2, AnswerIsUnit DEF Answers
    <3>4. ReceiverIdle'
      BY <3>2 DEF ReceiverIdle, R!Idle
    <3>5. sState' \in {"WaitFileAck", "Done"}
      BY <1>5, <1>10, <1>14, <2>5
    <3>6. AnswerUnderWay' /\ rOutgoing' \in Seq(HeaderUnit) /\ UpSaid(unit)
      BY <1>2, <1>5, <1>6, <1>9, <1>10, <1>11, <1>14, <2>3, <3>3, <3>4,
         <3>5, AnswerIsGiven DEF Answers
    <3>7. ReceiverOK'
      BY <1>2, <1>14, <2>2, <3>2, <3>6
         DEF SessionInv, ReceiverOK, Begun, R!SubpacketPhase, R!ReceiverPhase
    <3>8. LinkOK'
      BY <1>6, <1>14, <3>3, <3>6, UpSaidLinkOK DEF SessionInv, LinkOK, Answers
    <3> QED
      BY <1>11, <1>12, <3>6, <3>7, <3>8 DEF SessionInv, SomeTurn
  <2> QED
    BY <2>4, <2>5
<1> QED
  BY <1>1, <1>16, <1>17

-----------------------------------------------------------------------------
(***************************************************************************)
(* The receiver takes a unit from the link.                                *)
(***************************************************************************)
LEMMA ReceiverTakes ==
  ASSUME SessionInv, down # <<>>, down' = Tail(down),
         UNCHANGED <<sVars, offered>>
  PROVE  /\ LaneTypes /\ DownTaken /\ KeepsSender /\ SenderGoesOnOrStops
         /\ down' \in Seq(Unit) /\ sOutgoing' \in Seq(Unit)
         /\ Len(Down) \in Nat /\ Len(Down) >= 1 /\ Len(Down') = Len(Down) - 1
         /\ Head(down) = Down[1] /\ Down[1] \in Unit
         /\ Down[1].is = "header" =>
              Down[1].frame \in {"ZRQINIT", "ZNAK", "ZFILE", "ZDATA", "ZEOF",
                                 "ZFIN"}
         /\ \A i \in 1 .. Len(Down') :
              i + 1 \in 2 .. Len(Down) /\ Down'[i] = Down[i + 1]
<1>1. LaneTypes
  BY InvTypesLanes
<1>2. /\ UNCHANGED <<sState, sHasFile, sFileName, sFileSize, pendingRequest,
                     frameNeedsHeader, maxSubpacketSize, finishRequested,
                     sOutgoing, offered>>
  BY DEF sVars
<1>3. KeepsSender
  BY <1>2 DEF KeepsSender, SessionInv, SenderOK
<1>4. DownTaken /\ down' \in Seq(Unit) /\ sOutgoing' \in Seq(Unit)
  BY <1>1, <1>2, ReceiverTakesUnit DEF LaneTypes
<1>5. /\ Len(Down) \in Nat /\ Len(Down) >= 1 /\ Len(Down') = Len(Down) - 1
      /\ Head(down) = Down[1]
  BY <1>1, <1>4, LanesAreSequences DEF DownTaken
<1>6. 1 \in 1 .. Len(Down)
  BY <1>5
<1>7. Down[1] \in Unit
  BY <1>1, <1>6, LanesAreSequences
<1>8. Down[1].is = "header" =>
        Down[1].frame \in {"ZRQINIT", "ZNAK", "ZFILE", "ZDATA", "ZEOF", "ZFIN"}
  BY <1>6 DEF SessionInv, LinkOK
<1>9. \A i \in 1 .. Len(Down') :
        i + 1 \in 2 .. Len(Down) /\ Down'[i] = Down[i + 1]
  BY <1>4, <1>5 DEF DownTaken
<1> QED
  BY <1>1, <1>3, <1>4, <1>5, <1>7, <1>8, <1>9
     DEF SenderGoesOnOrStops, KeepsSender

\* A receiver that offers no data is not waiting for any to be persisted.
LEMMA NothingToPersist ==
  ASSUME SessionInv, R!DrainFile = <<>>
  PROVE  ~PersistingData
<1>1. ASSUME PersistingData
      PROVE  FALSE
  <2>1. /\ subpacketState.phase = "Writing"
        /\ buf \in Seq(Byte) /\ bufWriteOffset \in Nat
        /\ bufWriteOffset < Len(buf)
    BY <1>1 DEF PersistingData, R!Writing, SessionInv, ReceiverOK
  <2>2. SubSeq(buf, bufWriteOffset + 1, Len(buf)) = <<>>
    BY <2>1 DEF R!DrainFile
  <2>3. PICK n \in Nat : bufWriteOffset + n = Len(buf) /\ n > 0
    BY <2>1
  <2>4. Len(SubSeq(buf, bufWriteOffset + 1, bufWriteOffset + n)) = n
    BY <2>1, <2>3, PieceOf
  <2>5. SubSeq(buf, bufWriteOffset + 1, bufWriteOffset + n) = <<>>
    BY <2>2, <2>3
  <2>6. Len(<<>>) = 0
    OBVIOUS
  <2>7. n = 0
    BY <2>4, <2>5, <2>6
  <2> QED
    BY <2>3, <2>7
<1> QED
  BY <1>1

\* While the caller is offered data, a reset is due or output is pending, it
\* takes nothing.
LEMMA WhileReceivable ==
  ASSUME SessionInv, ~R!Blocked
  PROVE  /\ rOutgoing = <<>> /\ Up = up
         /\ ~PersistingData /\ ~ResetDue /\ subpacketState.phase # "Writing"
<1>1. rOutgoing = <<>> /\ R!DrainFile = <<>>
  BY DEF R!Blocked
<1>2. LaneTypes
  BY InvTypesLanes
<1>3. Up = up
  BY <1>1, <1>2, SaidComesLast DEF LaneTypes, Up
<1>4. ~PersistingData
  BY <1>1, NothingToPersist
<1>5. ~ResetDue
  <2>1. ASSUME ResetDue
        PROVE  FALSE
    <3>1. AnswerUnderWay
      BY <1>4, <2>1 DEF SessionInv, SomeTurn, NoTurn, AnnouncementUnderWay,
         ReadingAnnouncement, Deciding, FrameOwed, FrameUnderWay, ReadingFrame
    <3>2. PICK k \in 1 .. Len(Up) : Up[k].frame \in Answers /\ AnswersCurrent(k)
      BY <3>1 DEF AnswerUnderWay
    <3>3. k > Len(up)
      BY <2>1, <3>2 DEF AnswersCurrent
    <3> QED
      BY <1>2, <1>3, <3>2, <3>3, LanesAreSequences
  <2> QED
    BY <2>1
<1>6. subpacketState.phase # "Writing"
  BY <1>4 DEF SessionInv, SomeTurn, NoTurn, AnnouncementUnderWay,
     ReadingAnnouncement, Deciding, AnswerUnderWay, FrameOwed, FrameUnderWay,
     ReadingFrame, ReceiverIdle, R!Reading
<1> QED
  BY <1>1, <1>3, <1>4, <1>5, <1>6

\* Where the receiver reads data the data of an announcement or of a frame is
\* what comes, where it reads headers neither is.
LEMMA ReadsHeaders ==
  ASSUME SessionInv, R!ReadableAsHeader
  PROVE  \/ NoTurn \/ AnnouncementUnderWay \/ Deciding \/ AnswerUnderWay
         \/ FrameOwed \/ FrameUnderWay
<1>1. rState \notin {"FileReadingMetadata", "FileReadingSubpacket"}
      /\ ~PersistingData
  BY WhileReceivable DEF R!ReadableAsHeader, R!InData
<1> QED
  BY <1>1 DEF SessionInv, SomeTurn, ReadingAnnouncement, ReadingFrame

LEMMA ReadsData ==
  ASSUME SessionInv, R!ReadableAsData
  PROVE  /\ ReadingAnnouncement \/ ReadingFrame
         /\ rState = "FileReadingMetadata" => ReadingAnnouncement
         /\ rState = "FileReadingSubpacket" => ReadingFrame
         /\ rState \in {"FileReadingMetadata", "FileReadingSubpacket"}
<1>1. /\ ~PersistingData /\ subpacketState = R!Reading
      /\ rState \in {"FileReadingMetadata", "FileReadingSubpacket"}
  BY WhileReceivable
     DEF R!ReadableAsData, R!InData, SessionInv, ReceiverOK
<1>2. ~ReceiverIdle /\ rState # "FileAcceptPending"
  BY <1>1 DEF ReceiverIdle
<1>3. ReadingAnnouncement \/ ReadingFrame
  BY <1>1, <1>2 DEF SessionInv, SomeTurn, NoTurn, AnnouncementUnderWay,
     Deciding, AnswerUnderWay, FrameOwed, FrameUnderWay
<1> QED
  BY <1>1, <1>3 DEF ReadingAnnouncement, ReadingFrame

\* What stays true of the world and of what the sender says when the receiver
\* takes the first unit, without persisting anything.
LEMMA UnitTakenWorld ==
  ASSUME SessionInv, DownTaken, KeepsSender, LaneTypes,
         \A i \in 1 .. Len(Down') :
           i + 1 \in 2 .. Len(Down) /\ Down'[i] = Down[i + 1],
         down' \in Seq(Unit), sOutgoing' \in Seq(Unit),
         UNCHANGED <<disk, declined>>,
         \/ completed' = completed
         \/ completed' = completed \cup {rFileName} /\ IsFrame(Down[1], {"ZEOF"})
  PROVE  /\ SenderOK' /\ WorldOK' /\ FilesSettled'
         /\ rFileName' = rFileName => EofIsTrue'
         /\ (\A i \in 1 .. Len(Down') : ~IsFrame(Down'[i], {"ZEOF"})) => EofIsTrue'
         /\ FinIsTrue'
         /\ CurrentFile' = CurrentFile /\ Begun' = Begun
         /\ sState' = sState /\ offered' = offered
         /\ \A i \in 1 .. Len(Down') : Down'[i].is = "header" =>
              Down'[i].frame \in {"ZRQINIT", "ZNAK", "ZFILE", "ZDATA", "ZEOF",
                                  "ZFIN"}
<1>1. sState' = sState /\ offered' = offered
  BY DEF KeepsSender
<1>2. CurrentFile' = CurrentFile /\ Begun' = Begun
  BY <1>1 DEF CurrentFile, Begun
<1>3. /\ \A name : (Settled(name)' <=> Settled(name)) /\ (Has(name)' <=> Has(name))
      /\ AllSettled' <=> AllSettled
  BY <1>1 DEF Settled, Has, AllSettled
<1>4. SenderOK'
  BY SameSender DEF SessionInv
<1>5. WorldOK'
  <2>1. \A name \in completed' : name \in Begun /\ Has(name)
    <3>1. \A name \in completed : name \in Begun /\ Has(name)
      BY DEF SessionInv, WorldOK, CompletedIsWhole
    <3>2. IsFrame(Down[1], {"ZEOF"}) => rFileName \in Begun /\ Has(rFileName)
      <4>1. 1 \in 1 .. Len(Down)
        BY LanesAreSequences DEF DownTaken
      <4> QED
        BY <4>1 DEF SessionInv, EofIsTrue
    <3> QED
      BY <3>1, <3>2
  <2>2. completed' \subseteq Begun' /\ CompletedIsWhole'
    BY <1>2, <2>1 DEF CompletedIsWhole, Has
  <2>3. DiskIsPrefix'
    BY DEF SessionInv, WorldOK, DiskIsPrefix
  <2> QED
    BY <1>2, <2>2, <2>3 DEF SessionInv, WorldOK
<1>6. FilesSettled'
  BY <1>1, <1>2, <1>3 DEF SessionInv, FilesSettled
<1>7. rFileName' = rFileName => EofIsTrue'
  <2>1. ASSUME NEW i \in 1 .. Len(Down'), IsFrame(Down'[i], {"ZEOF"})
        PROVE  /\ sState # "WaitReceiverInit"
               /\ rFileName \in Begun \ declined /\ Has(rFileName)
    <3>1. i + 1 \in 1 .. Len(Down) /\ Down'[i] = Down[i + 1]
      BY LanesAreSequences
    <3> QED
      BY <2>1, <3>1 DEF SessionInv, EofIsTrue
  <2> QED
    BY <1>1, <1>2, <2>1 DEF EofIsTrue, Has
<1>8. (\A i \in 1 .. Len(Down') : ~IsFrame(Down'[i], {"ZEOF"})) => EofIsTrue'
  BY DEF EofIsTrue
<1>9. FinIsTrue'
  <2>1. ASSUME NEW i \in 1 .. Len(Down'), IsFrame(Down'[i], {"ZFIN"})
        PROVE  sState \in {"WaitFinish", "Done"} /\ AllSettled
    <3>1. i + 1 \in 1 .. Len(Down) /\ Down'[i] = Down[i + 1]
      BY LanesAreSequences
    <3> QED
      BY <2>1, <3>1 DEF SessionInv, FinIsTrue
  <2> QED
    BY <1>1, <1>3, <2>1 DEF FinIsTrue
<1>10. ASSUME NEW i \in 1 .. Len(Down'), Down'[i].is = "header"
       PROVE  Down'[i].frame \in {"ZRQINIT", "ZNAK", "ZFILE", "ZDATA", "ZEOF", "ZFIN"}
  <2>1. i + 1 \in 1 .. Len(Down) /\ Down'[i] = Down[i + 1]
    BY LanesAreSequences
  <2> QED
    BY <1>10, <2>1 DEF SessionInv, LinkOK
<1> QED
  BY <1>1, <1>2, <1>4, <1>5, <1>6, <1>7, <1>8, <1>9, <1>10

\* The first unit is taken and no data begins: an announcement or a frame
\* whose header it was is lost, any other turn goes on.
LEMMA UnitTakenTurn ==
  ASSUME SessionInv, R!ReadableAsHeader, DownTaken, KeepsSender, LaneTypes,
         SenderGoesOnOrStops,
         Len(Down) \in Nat, Len(Down') = Len(Down) - 1,
         \A i \in 1 .. Len(Down') :
           i + 1 \in 2 .. Len(Down) /\ Down'[i] = Down[i + 1],
         UNCHANGED <<count, rFileName, disk, declined, subpacketState>>,
         \/ completed' = completed
         \/ completed' = completed \cup {rFileName} /\ IsFrame(Down[1], {"ZEOF"}),
         \/ rState' = rState
         \/ rState' \in {"FileBegin", "SessionEnd"} /\ ~Plain(Down[1]),
         UpChatters, ~ResetDue'
  PROVE  SomeTurn'
<1>1. /\ NoAnswer => NoAnswer'
      /\ ~ResetDue /\ subpacketState.phase # "Writing"
  BY SameAnswers, WhileReceivable DEF R!ReadableAsHeader
<1>2. /\ CurrentFile' = CurrentFile /\ sState' = sState /\ offered' = offered
      /\ UNCHANGED <<sHasFile, pendingRequest, frameNeedsHeader>>
      /\ Synced' <=> Synced
      /\ OwesHeader' <=> OwesHeader
      /\ Sending' <=> Sending
  BY DEF KeepsSender, CurrentFile, Synced, OwesHeader, Sending
<1>3. /\ ~IsFrame(Down[1], {"ZEOF"}) => completed' = completed
      /\ Plain(Down[1]) => completed' = completed /\ rState' = rState
      /\ ReceiverIdle => ReceiverIdle'
  BY <1>1 DEF IsFrame, Plain, ReceiverIdle
<1>4. ASSUME \A i \in 1 .. Len(Down) : Plain(Down[i])
      PROVE  /\ \A i \in 1 .. Len(Down') : Plain(Down'[i])
             /\ completed' = completed /\ rState' = rState
  <2>1. 1 \in 1 .. Len(Down) /\ \A i \in 1 .. Len(Down') : i + 1 \in 1 .. Len(Down)
    BY DEF DownTaken
  <2> QED
    BY <1>3, <1>4, <2>1
<1>5. CASE NoTurn
  <2>1. \A i \in 1 .. Len(Down') : ~IsFrame(Down'[i], {"ZFILE", "ZDATA"})
    <3>1. \A i \in 1 .. Len(Down') : i + 1 \in 1 .. Len(Down)
      BY DEF DownTaken
    <3> QED
      BY <1>5, <3>1 DEF NoTurn
  <2>2. sState' = "WaitReceiverInit" /\ sHasFile' =>
          Undecided' /\ rFileName' # CurrentFile'
    <3>1. ASSUME sState = "WaitReceiverInit", sHasFile
          PROVE  Undecided /\ rFileName # CurrentFile /\ completed' = completed
      <4>1. 1 \in 1 .. Len(Down)
        BY DEF DownTaken
      <4>2. ~IsFrame(Down[1], {"ZEOF"})
        BY <3>1, <4>1 DEF SessionInv, EofIsTrue
      <4> QED
        BY <1>3, <1>5, <3>1, <4>2 DEF NoTurn
    <3> QED
      BY <1>2, <3>1 DEF Undecided
  <2>3. NoTurn'
    BY <1>1, <1>2, <1>3, <1>5, <2>1, <2>2 DEF NoTurn
  <2> QED
    BY <2>3 DEF SomeTurn
<1>6. CASE AnnouncementUnderWay
  <2>1. PICK k \in 1 .. Len(Down) :
          /\ IsFrame(Down[k], {"ZFILE"})
          /\ k < Len(Down) /\ Announced(Down[k + 1])
          /\ \A i \in 1 .. k - 1 : ~IsFrame(Down[i], {"ZFILE", "ZDATA", "ZFIN"})
          /\ \A i \in k + 2 .. Len(Down) : Noise(Down[i])
    BY <1>6 DEF AnnouncementUnderWay
  <2>2. /\ ReceiverIdle' /\ NoAnswer' /\ ~ResetDue'
        /\ sState' \in {"WaitFilePos", "Done"} /\ ~OwesHeader'
        /\ offered' > 0 /\ rFileName' # CurrentFile' /\ Undecided'
    <3>1. Undecided'
      BY <1>2, <1>6 DEF AnnouncementUnderWay, Undecided
    <3> QED
      BY <1>1, <1>2, <1>3, <1>6, <3>1 DEF AnnouncementUnderWay, OwesHeader
  <2>3. CASE k = 1
    <3>1. ASSUME NEW i \in 1 .. Len(Down')
          PROVE  ~IsFrame(Down'[i], {"ZFILE", "ZDATA"})
      <4>1. CASE i = 1
        <5>1. Down'[i] = Down[k + 1]
          BY <2>3, <4>1
        <5> QED
          BY <2>1, <5>1, AnnouncedIsNoFrame
      <4>2. CASE i # 1
        <5>1. i + 1 \in k + 2 .. Len(Down) /\ Down'[i] = Down[i + 1]
          BY <2>3, <4>2
        <5> QED
          BY <2>1, <5>1, NoiseIsPlain, PlainIsNoFrame
      <4> QED
        BY <4>1, <4>2
    <3>2. NoTurn'
      BY <2>2, <3>1 DEF NoTurn
    <3> QED
      BY <3>2 DEF SomeTurn
  <2>4. CASE k # 1
    <3>1. PICK m : m = k - 1
      OBVIOUS
    <3>2. /\ m \in 1 .. Len(Down') /\ m < Len(Down')
          /\ Down'[m] = Down[k] /\ Down'[m + 1] = Down[k + 1]
      BY <2>1, <2>4, <3>1
    <3>3. ASSUME NEW i \in 1 .. m - 1
          PROVE  ~IsFrame(Down'[i], {"ZFILE", "ZDATA", "ZFIN"})
      <4>1. i + 1 \in 1 .. k - 1 /\ Down'[i] = Down[i + 1]
        BY <2>1, <2>4, <3>1
      <4> QED
        BY <2>1, <4>1
    <3>4. ASSUME NEW i \in m + 2 .. Len(Down')
          PROVE  Noise(Down'[i])
      <4>1. i + 1 \in k + 2 .. Len(Down) /\ Down'[i] = Down[i + 1]
        BY <2>1, <2>4, <3>1
      <4> QED
        BY <2>1, <4>1
    <3>5. Announced(Down[m + 1])'
      BY <1>2, <2>1, <3>2 DEF Announced
    <3>6. AnnouncementUnderWay'
      BY <2>1, <2>2, <3>2, <3>3, <3>4, <3>5 DEF AnnouncementUnderWay
    <3> QED
      BY <3>6 DEF SomeTurn
  <2> QED
    BY <2>3, <2>4
<1>7. CASE Deciding
  <2>1. \A i \in 1 .. Len(Down) : Plain(Down[i])
    BY <1>7 DEF Deciding
  <2>2. Taken'
    BY <1>2, <1>4, <1>7, <2>1 DEF Deciding, Taken, Undecided
  <2>3. Deciding'
    BY <1>1, <1>2, <1>4, <1>7, <2>1, <2>2 DEF Deciding
  <2> QED
    BY <2>3 DEF SomeTurn
<1>8. CASE AnswerUnderWay
  <2>1. \A i \in 1 .. Len(Down) : Plain(Down[i])
    BY <1>8 DEF AnswerUnderWay
  <2>2. PICK k \in 1 .. Len(Up) :
          /\ Up[k].frame \in Answers
          /\ \A i \in 1 .. Len(Up) : Up[i].frame \in Answers => i = k
          /\ AnswersCurrent(k)
    BY <1>8 DEF AnswerUnderWay
  <2>3. /\ k \in 1 .. Len(Up') /\ Up'[k] = Up[k]
        /\ \A i \in 1 .. Len(Up') : Up'[i].frame \in Answers => i = k
    BY <2>2, SameAnswers
  <2>4. AnswersCurrent(k)'
    BY <1>1, <1>2, <2>2, <2>3 DEF AnswersCurrent
  <2>5. AnswerUnderWay'
    BY <1>2, <1>3, <1>4, <1>8, <2>1, <2>2, <2>3, <2>4 DEF AnswerUnderWay
  <2> QED
    BY <2>5 DEF SomeTurn
<1>9. CASE FrameOwed
  <2>1. \A i \in 1 .. Len(Down) : Plain(Down[i])
    BY <1>9 DEF FrameOwed
  <2>2. Taken'
    BY <1>2, <1>4, <1>9, <2>1 DEF FrameOwed, Taken, Undecided
  <2>3. FrameOwed'
    BY <1>1, <1>2, <1>3, <1>4, <1>9, <2>1, <2>2 DEF FrameOwed
  <2> QED
    BY <2>3 DEF SomeTurn
<1>10. CASE FrameUnderWay
  <2>1. PICK k \in 1 .. Len(Down) :
          /\ IsFrame(Down[k], {"ZDATA"}) /\ Down[k].count = count
          /\ \A i \in 1 .. k - 1 : Plain(Down[i])
          /\ k < Len(Down) /\ Down[k + 1].is = "subpacket"
          /\ RestOfFrame(k + 1) /\ DataFrom(k + 1, count)
    BY <1>10 DEF FrameUnderWay
  <2>2. ~IsFrame(Down[1], {"ZEOF"})
    <3>1. CASE k = 1
      BY <2>1, <3>1 DEF IsFrame
    <3>2. CASE k # 1
      <4>1. 1 \in 1 .. k - 1
        BY <3>2
      <4> QED
        BY <2>1, <4>1 DEF Plain, IsFrame
    <3> QED
      BY <3>1, <3>2
  <2>3. completed' = completed
    BY <1>3, <2>2
  <2>4. /\ ReceiverIdle' /\ NoAnswer' /\ ~ResetDue' /\ Sending' /\ Taken'
        /\ Synced' /\ ~OwesHeader' /\ sState' # "WaitReceiverInit"
    <3>1. Taken'
      BY <1>2, <1>10, <2>3 DEF FrameUnderWay, Taken, Undecided
    <3> QED
      BY <1>1, <1>2, <1>3, <1>10, <3>1 DEF FrameUnderWay, Sending
  <2>5. CASE k = 1
    <3>1. ASSUME NEW i \in 1 .. Len(Down')
          PROVE  ~IsFrame(Down'[i], {"ZFILE", "ZDATA"})
      <4>1. i + 1 \in k + 1 .. Len(Down) /\ Down'[i] = Down[i + 1]
        BY <2>5
      <4> QED
        BY <2>1, <4>1, LiveIsNoFrame DEF RestOfFrame
    <3>2. NoTurn'
      BY <2>4, <3>1 DEF NoTurn
    <3> QED
      BY <3>2 DEF SomeTurn
  <2>6. CASE k # 1
    <3>1. PICK m : m = k - 1
      OBVIOUS
    <3>2. /\ m \in 1 .. Len(Down') /\ m < Len(Down')
          /\ Down'[m] = Down[k] /\ Down'[m + 1] = Down[k + 1]
          /\ m + 1 = k /\ k \in Nat \ {0} /\ k <= Len(Down)
      BY <2>1, <2>6, <3>1
    <3>3. ASSUME NEW i \in 1 .. m - 1
          PROVE  Plain(Down'[i])
      <4>1. i + 1 \in 1 .. k - 1 /\ Down'[i] = Down[i + 1]
        BY <2>1, <2>6, <3>1
      <4> QED
        BY <2>1, <4>1
    <3>4. \A start \in Nat : DataFrom(k + 1, start) =>
            RestOfFrame(k)' /\ DataFrom(k, start)'
      BY <2>1, <3>2, FrameMovesUp
    <3>5. count' = count /\ count \in Nat
      BY DEF SessionInv, ReceiverOK
    <3>6. RestOfFrame(k)' /\ DataFrom(k, count)'
      BY <2>1, <3>4, <3>5
    <3>7. RestOfFrame(m + 1)' /\ DataFrom(m + 1, count)'
      BY <3>2, <3>6
    <3>8. FrameUnderWay'
      BY <2>1, <2>4, <3>2, <3>3, <3>5, <3>7 DEF FrameUnderWay
    <3> QED
      BY <3>8 DEF SomeTurn
  <2> QED
    BY <2>5, <2>6
<1> QED
  BY <1>5, <1>6, <1>7, <1>8, <1>9, <1>10, ReadsHeaders

LEMMA ReceiverHeard ==
  ASSUME SessionInv, R!ReadableAsHeader, down # <<>>, down' = Tail(down),
         UNCHANGED <<sVars, up, offered, disk, declined, count, rFileName, buf,
                     bufWriteOffset, subpacketState, manualAccept>>,
         \/ completed' = completed
         \/ /\ completed' = completed \cup {rFileName}
            /\ IsFrame(Head(down), {"ZEOF"}),
         \/ rState' = rState
         \/ rState' \in {"FileBegin", "SessionEnd"} /\ ~Plain(Head(down)),
         \/ rOutgoing' = rOutgoing
         \/ \E unit \in HeaderUnit : /\ unit.frame \in {"ZRINIT", "ZNAK", "ZFIN"}
                                     /\ rOutgoing' = <<unit>>,
         \/ pendingEvents' = pendingEvents
         \/ \E event \in R!ReceiverEvent \ {"FileStart"} :
              pendingEvents' = Append(pendingEvents, event)
  PROVE  SessionInv'
<1>1. /\ LaneTypes /\ DownTaken /\ KeepsSender /\ SenderGoesOnOrStops
      /\ down' \in Seq(Unit) /\ sOutgoing' \in Seq(Unit)
      /\ Len(Down) \in Nat /\ Len(Down') = Len(Down) - 1
      /\ Head(down) = Down[1]
      /\ \A i \in 1 .. Len(Down') :
           i + 1 \in 2 .. Len(Down) /\ Down'[i] = Down[i + 1]
  BY ReceiverTakes
<1>2. rOutgoing = <<>> /\ Up = up /\ ~ResetDue
  BY WhileReceivable DEF R!ReadableAsHeader
<1>3. UpChatters /\ rOutgoing' \in Seq(HeaderUnit) /\ up' \in Seq(HeaderUnit)
  <2>1. CASE rOutgoing' = rOutgoing
    BY <1>1, <2>1 DEF UpChatters, Up, LaneTypes
  <2>2. CASE rOutgoing' # rOutgoing
    <3>1. PICK unit \in HeaderUnit :
            unit.frame \in {"ZRINIT", "ZNAK", "ZFIN"} /\ rOutgoing' = <<unit>>
      BY <2>2
    <3>2. UpSaid(unit) /\ rOutgoing' \in Seq(HeaderUnit)
      BY <1>1, <1>2, <3>1, ReceiverSays
    <3> QED
      BY <1>1, <3>1, <3>2 DEF UpChatters, LaneTypes
  <2> QED
    BY <2>1, <2>2
<1>4. ReceiverOK
  BY DEF SessionInv
<1>5. /\ pendingEvents' \in Seq(R!ReceiverEvent)
      /\ ~ResetDue'
  <2>1. CASE pendingEvents' = pendingEvents
    BY <1>2, <1>4, <2>1 DEF ReceiverOK, ResetDue
  <2>2. CASE pendingEvents' # pendingEvents
    <3>1. PICK event \in R!ReceiverEvent \ {"FileStart"} :
            pendingEvents' = Append(pendingEvents, event)
      BY <2>2
    <3>2. event # "FileStart" /\ pendingEvents \in Seq(R!ReceiverEvent)
      BY <1>4 DEF ReceiverOK
    <3> QED
      BY <1>2, <3>1, <3>2, EventRaised
  <2> QED
    BY <2>1, <2>2
<1>6. /\ SenderOK' /\ WorldOK' /\ FilesSettled' /\ EofIsTrue' /\ FinIsTrue'
      /\ Begun' = Begun
      /\ \A i \in 1 .. Len(Down') : Down'[i].is = "header" =>
           Down'[i].frame \in {"ZRQINIT", "ZNAK", "ZFILE", "ZDATA", "ZEOF", "ZFIN"}
  BY <1>1, UnitTakenWorld
<1>7. ReceiverOK'
  BY <1>3, <1>4, <1>5, <1>6 DEF ReceiverOK, R!ReceiverPhase
<1>8. LinkOK'
  BY <1>1, <1>3, <1>6, UpLinkOK DEF SessionInv, LinkOK
<1>9. SomeTurn'
  BY <1>1, <1>3, <1>5, UnitTakenTurn
<1> QED
  BY <1>6, <1>7, <1>8, <1>9 DEF SessionInv

\* Bytes that are no header are skipped, or answered with a ZNAK.
LEMMA StrayIsHeard ==
  ASSUME SessionInv, down # <<>>, down' = Tail(down),
         ReadsStray \/ (R!ReadableAsHeader /\ UNCHANGED rVars),
         UNCHANGED <<sVars, up, offered, disk, declined, completed>>
  PROVE  SessionInv'
<1>1. R!ReadableAsHeader
  BY DEF ReadsStray
<1>2. UNCHANGED <<count, rFileName, buf, bufWriteOffset, subpacketState,
                  manualAccept, rState, pendingEvents>>
  BY DEF ReadsStray, R!SubmitGarbled, R!fileVars, R!bufVars, rVars
<1>3. \/ rOutgoing' = rOutgoing
      \/ rOutgoing' = <<R!Header("ZNAK", 0)>>
  BY DEF ReadsStray, R!SubmitGarbled, R!Answer, rVars
<1>4. \/ rOutgoing' = rOutgoing
      \/ \E unit \in HeaderUnit : /\ unit.frame \in {"ZRINIT", "ZNAK", "ZFIN"}
                                  /\ rOutgoing' = <<unit>>
  BY <1>3, ReceiverReplies
<1> QED
  BY <1>1, <1>2, <1>4, ReceiverHeard

\* A report of an event is the event that was raised.
LEMMA ReportIsRaised ==
  ASSUME ReceiverOK, NEW event
  PROVE  /\ pendingEvents' = pendingEvents => ~ReceiverReports(event)
         /\ \A raised \in R!ReceiverEvent :
              pendingEvents' = Append(pendingEvents, raised)
              => (ReceiverReports(event) <=> event = raised)
<1>1. pendingEvents \in Seq(R!ReceiverEvent) /\ Len(pendingEvents) \in Nat
  BY DEF ReceiverOK
<1>2. ASSUME pendingEvents' = pendingEvents
      PROVE  ~ReceiverReports(event)
  BY <1>1, <1>2 DEF ReceiverReports
<1>3. ASSUME NEW raised \in R!ReceiverEvent,
             pendingEvents' = Append(pendingEvents, raised)
      PROVE  ReceiverReports(event) <=> event = raised
  <2>1. /\ Len(pendingEvents') = Len(pendingEvents) + 1
        /\ pendingEvents'[Len(pendingEvents) + 1] = raised
    BY <1>1, <1>3, AppendProperties
  <2> QED
    BY <1>1, <2>1 DEF ReceiverReports
<1> QED
  BY <1>2, <1>3

\* A header that begins an announcement or a frame is about the current one.
LEMMA BeginsTurn ==
  ASSUME SessionInv, R!ReadableAsHeader, 1 \in 1 .. Len(Down)
  PROVE  /\ IsFrame(Down[1], {"ZFILE"}) =>
              /\ AnnouncementUnderWay
              /\ 1 < Len(Down) /\ Announced(Down[2])
              /\ \A i \in 3 .. Len(Down) : Noise(Down[i])
         /\ IsFrame(Down[1], {"ZDATA"}) =>
              /\ FrameUnderWay /\ Down[1].count = count
              /\ 1 < Len(Down) /\ Down[2].is = "subpacket"
              /\ RestOfFrame(2) /\ DataFrom(2, count)
<1>1. Len(Down) \in Nat
  BY InvTypesLanes, LanesAreSequences
<1>2. ASSUME IsFrame(Down[1], {"ZFILE"}) \/ IsFrame(Down[1], {"ZDATA"})
      PROVE  AnnouncementUnderWay \/ FrameUnderWay
  <2>1. ~Plain(Down[1]) /\ IsFrame(Down[1], {"ZFILE", "ZDATA"})
    BY <1>2 DEF Plain, IsFrame
  <2> QED
    BY <2>1, ReadsHeaders DEF NoTurn, Deciding, AnswerUnderWay, FrameOwed
<1>3. ASSUME AnnouncementUnderWay
      PROVE  /\ ~IsFrame(Down[1], {"ZDATA"})
             /\ IsFrame(Down[1], {"ZFILE"}) =>
                  /\ 1 < Len(Down) /\ Announced(Down[2])
                  /\ \A i \in 3 .. Len(Down) : Noise(Down[i])
  <2>1. PICK k \in 1 .. Len(Down) :
          /\ IsFrame(Down[k], {"ZFILE"})
          /\ k < Len(Down) /\ Announced(Down[k + 1])
          /\ \A i \in 1 .. k - 1 : ~IsFrame(Down[i], {"ZFILE", "ZDATA", "ZFIN"})
          /\ \A i \in k + 2 .. Len(Down) : Noise(Down[i])
    BY <1>3 DEF AnnouncementUnderWay
  <2>2. CASE k = 1
    BY <2>1, <2>2 DEF IsFrame
  <2>3. CASE k # 1
    <3>1. 1 \in 1 .. k - 1
      BY <2>3
    <3> QED
      BY <2>1, <3>1 DEF IsFrame
  <2> QED
    BY <2>2, <2>3
<1>4. ASSUME FrameUnderWay
      PROVE  /\ ~IsFrame(Down[1], {"ZFILE"})
             /\ IsFrame(Down[1], {"ZDATA"}) =>
                  /\ Down[1].count = count
                  /\ 1 < Len(Down) /\ Down[2].is = "subpacket"
                  /\ RestOfFrame(2) /\ DataFrom(2, count)
  <2>1. PICK k \in 1 .. Len(Down) :
          /\ IsFrame(Down[k], {"ZDATA"}) /\ Down[k].count = count
          /\ \A i \in 1 .. k - 1 : Plain(Down[i])
          /\ k < Len(Down) /\ Down[k + 1].is = "subpacket"
          /\ RestOfFrame(k + 1) /\ DataFrom(k + 1, count)
    BY <1>4 DEF FrameUnderWay
  <2>2. CASE k = 1
    <3>1. k + 1 = 2
      BY <2>2
    <3> QED
      BY <2>1, <2>2, <3>1 DEF IsFrame
  <2>3. CASE k # 1
    <3>1. 1 \in 1 .. k - 1
      BY <2>3
    <3> QED
      BY <2>1, <3>1 DEF IsFrame, Plain
  <2> QED
    BY <2>2, <2>3
<1> QED
  BY <1>2, <1>3, <1>4

\* A header after which the receiver goes on reading headers.
LEMMA HeaderIsHeard ==
  ASSUME SessionInv, ReceiverReceives, Head(down).is = "header",
         R!SubmitHeader(Head(down)),
         ~R!OnZfile(Head(down)),
         ~(R!OnZdata(Head(down)) /\ Head(down).count = count)
  PROVE  SessionInv'
<1> DEFINE h == Head(down)
<1>1. /\ down # <<>> /\ down' = Tail(down) /\ R!ReadableAsHeader
      /\ UNCHANGED <<sVars, up, offered, disk, declined, rFileName, manualAccept>>
      /\ completed' = IF ReceiverReports("FileComplete")
                      THEN completed \cup {rFileName} ELSE completed
  BY DEF ReceiverReceives, R!SubmitHeader
<1>2. /\ h = Down[1] /\ Len(Down) \in Nat /\ 1 \in 1 .. Len(Down)
      /\ h.frame \in {"ZRQINIT", "ZNAK", "ZFILE", "ZDATA", "ZEOF", "ZFIN"}
  BY <1>1, ReceiverTakes
<1>3. ReceiverOK
  BY DEF SessionInv
<1> HIDE DEF h
<1>4. CASE R!OnZrqinitOrEarlyData(h)
  <2>1. /\ rOutgoing' = <<R!OwnZrinit>>
        /\ UNCHANGED <<rState, count, buf, bufWriteOffset, subpacketState,
                       pendingEvents>>
    BY <1>4 DEF R!OnZrqinitOrEarlyData, R!Answer, R!bufVars
  <2>2. completed' = completed
    BY <1>1, <1>3, <2>1, ReportIsRaised
  <2> QED
    BY <1>1, <2>1, <2>2, ReceiverReplies, ReceiverHeard
<1>5. CASE R!OnZeof(h)
  <2>1. /\ h.frame = "ZEOF" /\ rOutgoing' = <<R!OwnZrinit>>
        /\ rState' = "FileBegin"
        /\ pendingEvents' = Append(pendingEvents, "FileComplete")
        /\ UNCHANGED <<count, buf, bufWriteOffset, subpacketState>>
    BY <1>5 DEF R!OnZeof, R!Answer, R!PushEvent, R!bufVars
  <2>2. IsFrame(h, {"ZEOF"}) /\ ~Plain(h)
    BY <2>1 DEF h, IsFrame, Plain
  <2>3. "FileComplete" \in R!ReceiverEvent \ {"FileStart"}
    BY DEF R!ReceiverEvent
  <2>4. completed' = completed \cup {rFileName}
    BY <1>1, <1>3, <2>1, <2>3, ReportIsRaised
  <2> QED
    BY <1>1, <2>1, <2>2, <2>3, <2>4, ReceiverReplies, ReceiverHeard DEF h
<1>6. CASE R!OnZfin(h)
  <2>1. /\ h.frame = "ZFIN" /\ rOutgoing' = <<R!Header("ZFIN", 0)>>
        /\ rState' = "SessionEnd"
        /\ pendingEvents' = Append(pendingEvents, "SessionComplete")
        /\ UNCHANGED <<count, buf, bufWriteOffset, subpacketState>>
    BY <1>6 DEF R!OnZfin, R!Answer, R!PushEvent, R!bufVars
  <2>2. ~Plain(h)
    BY <2>1 DEF h, IsFrame, Plain
  <2>3. "SessionComplete" \in R!ReceiverEvent \ {"FileStart"}
    BY DEF R!ReceiverEvent
  <2>4. completed' = completed
    BY <1>1, <1>3, <2>1, <2>3, ReportIsRaised
  <2> QED
    BY <1>1, <2>1, <2>2, <2>3, <2>4, ReceiverReplies, ReceiverHeard DEF h
<1>7. CASE R!Ignored(h)
  <2>1. UNCHANGED <<rState, count, buf, bufWriteOffset, subpacketState,
                    rOutgoing, pendingEvents>>
    BY <1>7 DEF R!Ignored, R!Stay, R!bufVars
  <2>2. completed' = completed
    BY <1>1, <1>3, <2>1, ReportIsRaised
  <2> QED
    BY <1>1, <2>1, <2>2, ReceiverHeard
<1>8. ~(R!OnZdata(h) /\ ~R!Matches(h))
  <2>1. R!OnZdata(h) => IsFrame(Down[1], {"ZDATA"})
    BY <1>2 DEF h, R!OnZdata, IsFrame
  <2>2. IsFrame(Down[1], {"ZDATA"}) => Down[1].count = count
    BY <1>1, <1>2, BeginsTurn
  <2> QED
    BY <1>2, <2>1, <2>2 DEF R!Matches
<1>9. ~R!OnZsinit(h) /\ ~R!OnAbort(h)
  BY <1>2 DEF R!OnZsinit, R!OnAbort
<1> QED
  BY <1>4, <1>5, <1>6, <1>7, <1>8, <1>9 DEF h, R!SubmitHeader, R!Matches

LEMMA AnnouncementBegins ==
  ASSUME SessionInv, ReceiverReceives, Head(down).is = "header",
         R!SubmitHeader(Head(down)), R!OnZfile(Head(down))
  PROVE  SessionInv'
<1>1. /\ down # <<>> /\ down' = Tail(down) /\ R!ReadableAsHeader
      /\ UNCHANGED <<sVars, up, offered, disk, declined, rFileName, manualAccept>>
      /\ completed' = IF ReceiverReports("FileComplete")
                      THEN completed \cup {rFileName} ELSE completed
      /\ Head(down).frame = "ZFILE"
      /\ rState' = "FileReadingMetadata" /\ subpacketState' = R!Reading
      /\ buf' = <<>> /\ bufWriteOffset' = 0
      /\ UNCHANGED <<count, rOutgoing, pendingEvents>>
  BY DEF ReceiverReceives, R!SubmitHeader, R!OnZfile, R!SilentlyEnter, R!ClearBuf
<1>2. /\ LaneTypes /\ DownTaken /\ KeepsSender /\ SenderGoesOnOrStops
      /\ down' \in Seq(Unit) /\ sOutgoing' \in Seq(Unit)
      /\ Len(Down) \in Nat /\ Len(Down) >= 1 /\ Len(Down') = Len(Down) - 1
      /\ Head(down) = Down[1]
      /\ \A i \in 1 .. Len(Down') :
           i + 1 \in 2 .. Len(Down) /\ Down'[i] = Down[i + 1]
  BY <1>1, ReceiverTakes
<1>3. ReceiverOK
  BY DEF SessionInv
<1>4. completed' = completed
  BY <1>1, <1>3, ReportIsRaised
<1>5. /\ AnnouncementUnderWay /\ 1 < Len(Down) /\ Announced(Down[2])
      /\ \A i \in 3 .. Len(Down) : Noise(Down[i])
  <2>1. IsFrame(Down[1], {"ZFILE"}) /\ 1 \in 1 .. Len(Down)
    BY <1>1, <1>2 DEF IsFrame
  <2> QED
    BY <1>1, <2>1, BeginsTurn
<1>6. /\ SenderOK' /\ WorldOK' /\ FilesSettled' /\ EofIsTrue' /\ FinIsTrue'
      /\ Begun' = Begun /\ CurrentFile' = CurrentFile
      /\ sState' = sState /\ offered' = offered
      /\ \A i \in 1 .. Len(Down') : Down'[i].is = "header" =>
           Down'[i].frame \in {"ZRQINIT", "ZNAK", "ZFILE", "ZDATA", "ZEOF", "ZFIN"}
  BY <1>1, <1>2, <1>4, UnitTakenWorld
<1>7. Up' = Up /\ ~ResetDue' /\ NoAnswer'
  <2>1. Up' = Up
    BY <1>1 DEF Up
  <2> QED
    BY <1>1, <1>5, <2>1 DEF AnnouncementUnderWay, NoAnswer, ResetDue
<1>8. ReceiverOK'
  BY <1>1, <1>3, <1>6, <1>7 DEF ReceiverOK, R!ReceiverPhase, R!SubpacketPhase
<1>9. LinkOK'
  BY <1>1, <1>2, <1>6, <1>7 DEF SessionInv, LinkOK, LaneTypes
<1>10. ReadingAnnouncement'
  <2>1. Announced(Down[1])' /\ Down' # <<>>
    <3>1. Len(Down') >= 1 /\ Down'[1] = Down[2] /\ Len(<<>>) = 0
      BY <1>2, <1>5
    <3> QED
      BY <1>5, <1>6, <3>1 DEF Announced
  <2>2. ASSUME NEW i \in 2 .. Len(Down')
        PROVE  Noise(Down'[i])
    <3>1. i + 1 \in 3 .. Len(Down) /\ Down'[i] = Down[i + 1]
      BY <1>2
    <3> QED
      BY <1>5, <3>1
  <2>3. Undecided' /\ offered' > 0 /\ sState' \in {"WaitFilePos", "Done"}
    BY <1>1, <1>4, <1>5, <1>6 DEF AnnouncementUnderWay, Undecided
  <2> QED
    BY <1>1, <1>7, <2>1, <2>2, <2>3 DEF ReadingAnnouncement
<1> QED
  BY <1>6, <1>8, <1>9, <1>10 DEF SessionInv, SomeTurn

LEMMA FrameBegins ==
  ASSUME SessionInv, ReceiverReceives, Head(down).is = "header",
         R!SubmitHeader(Head(down)), R!OnZdata(Head(down)),
         Head(down).count = count
  PROVE  SessionInv'
<1>1. /\ down # <<>> /\ down' = Tail(down) /\ R!ReadableAsHeader
      /\ UNCHANGED <<sVars, up, offered, disk, declined, rFileName, manualAccept>>
      /\ completed' = IF ReceiverReports("FileComplete")
                      THEN completed \cup {rFileName} ELSE completed
      /\ Head(down).frame = "ZDATA"
      /\ rState' = "FileReadingSubpacket" /\ subpacketState' = R!Reading
      /\ buf' = <<>> /\ bufWriteOffset' = 0
      /\ UNCHANGED <<count, rOutgoing, pendingEvents>>
  BY DEF ReceiverReceives, R!SubmitHeader, R!OnZdata, R!Matches,
     R!SilentlyEnter, R!ClearBuf
<1>2. /\ LaneTypes /\ DownTaken /\ KeepsSender /\ SenderGoesOnOrStops
      /\ down' \in Seq(Unit) /\ sOutgoing' \in Seq(Unit)
      /\ Len(Down) \in Nat /\ Len(Down) >= 1 /\ Len(Down') = Len(Down) - 1
      /\ Head(down) = Down[1]
      /\ \A i \in 1 .. Len(Down') :
           i + 1 \in 2 .. Len(Down) /\ Down'[i] = Down[i + 1]
  BY <1>1, ReceiverTakes
<1>3. ReceiverOK
  BY DEF SessionInv
<1>4. completed' = completed
  BY <1>1, <1>3, ReportIsRaised
<1>5. /\ FrameUnderWay /\ 1 < Len(Down) /\ Down[2].is = "subpacket"
      /\ RestOfFrame(2) /\ DataFrom(2, count)
  <2>1. IsFrame(Down[1], {"ZDATA"}) /\ 1 \in 1 .. Len(Down)
    BY <1>1, <1>2 DEF IsFrame
  <2> QED
    BY <1>1, <2>1, BeginsTurn
<1>6. /\ SenderOK' /\ WorldOK' /\ FilesSettled' /\ EofIsTrue' /\ FinIsTrue'
      /\ Begun' = Begun /\ CurrentFile' = CurrentFile
      /\ sState' = sState /\ offered' = offered
      /\ \A i \in 1 .. Len(Down') : Down'[i].is = "header" =>
           Down'[i].frame \in {"ZRQINIT", "ZNAK", "ZFILE", "ZDATA", "ZEOF", "ZFIN"}
  BY <1>1, <1>2, <1>4, UnitTakenWorld
<1>7. Up' = Up /\ ~ResetDue' /\ NoAnswer'
  <2>1. Up' = Up
    BY <1>1 DEF Up
  <2> QED
    BY <1>1, <1>5, <2>1 DEF FrameUnderWay, NoAnswer, ResetDue
<1>8. ReceiverOK'
  BY <1>1, <1>3, <1>6, <1>7 DEF ReceiverOK, R!ReceiverPhase, R!SubpacketPhase
<1>9. LinkOK'
  BY <1>1, <1>2, <1>6, <1>7 DEF SessionInv, LinkOK, LaneTypes
<1>10. ReadingFrame'
  <2>1. Down' # <<>> /\ Down'[1].is = "subpacket"
    <3>1. Len(Down') >= 1 /\ Down'[1] = Down[2] /\ Len(<<>>) = 0
      BY <1>2, <1>5
    <3> QED
      BY <1>5, <3>1
  <2>2. MoreToCome'
    BY <2>1 DEF MoreToCome
  <2>3. RestOfFrame(1)' /\ DataFrom(1, count)'
    <3>1. 1 \in Nat \ {0} /\ 1 + 1 = 2
      OBVIOUS
    <3>2. \A start \in Nat : DataFrom(2, start) =>
            RestOfFrame(1)' /\ DataFrom(1, start)'
      BY <1>2, <1>5, <3>1, FrameMovesUp
    <3>3. count \in Nat /\ count' = count
      BY <1>1, <1>3 DEF ReceiverOK
    <3> QED
      BY <1>5, <3>2, <3>3
  <2>4. Sending' /\ Taken' /\ Synced'
    <3>1. Sending'
      BY <1>2, <1>5 DEF FrameUnderWay, Sending, OwesHeader, KeepsSender
    <3>2. Taken' /\ Synced'
      BY <1>1, <1>4, <1>5, <1>6 DEF FrameUnderWay, Taken, Undecided, Synced
    <3> QED
      BY <3>1, <3>2
  <2> QED
    BY <1>1, <1>7, <2>2, <2>3, <2>4 DEF ReadingFrame
<1> QED
  BY <1>6, <1>8, <1>9, <1>10 DEF SessionInv, SomeTurn

-----------------------------------------------------------------------------
(***************************************************************************)
(* The receiver reads data: what is left of a frame when its first unit is *)
(* taken.                                                                  *)
(***************************************************************************)
\* Behind a subpacket that asks for an answer there is only noise, and the
\* sender waits.
LEMMA FrameEnds ==
  ASSUME RestOfFrame(1), Len(Down) \in Nat, Len(Down) >= 1, ~GoesOn(Down[1])
  PROVE  /\ \A i \in 2 .. Len(Down) : Noise(Down[i])
         /\ sState # "NeedFileData"
<1> DEFINE Loud == {i \in 2 .. Len(Down) : ~Noise(Down[i])}
<1>1. ASSUME Loud # {}
      PROVE  FALSE
  <2>1. Loud \subseteq Nat
    OBVIOUS
  <2>2. PICK first \in Loud : \A i \in Loud : <<i, first>> \notin OpToRel(<, Nat)
    <3> HIDE DEF Loud
    <3> QED
      BY <1>1, <2>1, NatLessThanWellFounded, WFMin
  <2>3. first \in 2 .. Len(Down) /\ ~Noise(Down[first])
    OBVIOUS
  <2>4. PICK before : before = first - 1
    OBVIOUS
  <2>5. /\ before \in 1 .. Len(Down) /\ before < Len(Down)
        /\ before + 1 = first /\ before \in Nat /\ first \in Nat
        /\ before < first
    BY <2>3, <2>4
  <2>6. before \notin Loud
    <3>1. <<before, first>> \in OpToRel(<, Nat)
      BY <2>5 DEF OpToRel
    <3> HIDE DEF Loud
    <3> QED
      BY <2>2, <3>1
  <2>7. ~GoesOn(Down[before])
    <3>1. CASE before = 1
      BY <3>1
    <3>2. CASE before # 1
      <4>1. Noise(Down[before])
        BY <2>5, <2>6, <3>2
      <4> QED
        BY <4>1, NoiseIsPlain
    <3> QED
      BY <3>1, <3>2
  <2>8. Noise(Down[before + 1])
    BY <2>5, <2>7 DEF RestOfFrame
  <2> QED
    BY <2>3, <2>5, <2>8
<1>2. \A i \in 2 .. Len(Down) : Noise(Down[i])
  BY <1>1
<1>3. sState # "NeedFileData"
  <2>1. ~GoesOn(Down[Len(Down)])
    <3>1. CASE Len(Down) = 1
      BY <3>1
    <3>2. CASE Len(Down) # 1
      <4>1. Noise(Down[Len(Down)])
        BY <1>2, <3>2
      <4> QED
        BY <4>1, NoiseIsPlain
    <3> QED
      BY <3>1, <3>2
  <2> QED
    BY <2>1 DEF RestOfFrame
<1> QED
  BY <1>2, <1>3

\* The first subpacket of the rest of a frame is the piece that comes next.
LEMMA NextPiece ==
  ASSUME Len(Down) \in Nat, Len(Down) >= 1, Down[1].is = "subpacket",
         Len(Content[CurrentFile]) \in Nat,
         NEW start \in Nat, DataFrom(1, start)
  PROVE  \E to \in 0 .. Len(Content[CurrentFile]) :
           /\ start < to
           /\ Down[1].data = SubSeq(Content[CurrentFile], start + 1, to)
           /\ DataFrom(2, to)
<1>1. PICK at \in [1 .. Len(Down) + 1 -> 0 .. Len(Content[CurrentFile])] :
        /\ at[1] = start
        /\ \A i \in 1 .. Len(Down) :
             Carries(Down[i], CurrentFile, at[i], at[i + 1])
        /\ sState = "NeedFileData" => at[Len(Down) + 1] = pendingRequest.offset
  BY DEF DataFrom
<1>2. Carries(Down[1], CurrentFile, at[1], at[1 + 1])
  BY <1>1
<1>3. 1 + 1 = 2 /\ 2 \in 1 .. Len(Down) + 1
  OBVIOUS
<1>4. /\ at[2] \in 0 .. Len(Content[CurrentFile])
      /\ start < at[2]
      /\ Down[1].data = SubSeq(Content[CurrentFile], start + 1, at[2])
  BY <1>1, <1>2, <1>3 DEF Carries
<1>5. DataFrom(2, at[2])
  <2> DEFINE rest == [i \in 2 .. Len(Down) + 1 |-> at[i]]
  <2>1. rest \in [2 .. Len(Down) + 1 -> 0 .. Len(Content[CurrentFile])]
    BY <1>1
  <2>2. rest[2] = at[2]
    BY <1>3
  <2>3. ASSUME NEW i \in 2 .. Len(Down)
        PROVE  Carries(Down[i], CurrentFile, rest[i], rest[i + 1])
    <3>1. /\ i \in 1 .. Len(Down) /\ i \in 2 .. Len(Down) + 1
          /\ i + 1 \in 2 .. Len(Down) + 1
      OBVIOUS
    <3>2. rest[i] = at[i] /\ rest[i + 1] = at[i + 1]
      BY <3>1
    <3> HIDE DEF rest
    <3> QED
      BY <1>1, <3>1, <3>2
  <2>4. sState = "NeedFileData" => rest[Len(Down) + 1] = pendingRequest.offset
    <3>1. Len(Down) + 1 \in 2 .. Len(Down) + 1
      OBVIOUS
    <3> QED
      BY <1>1, <3>1
  <2> HIDE DEF rest
  <2> QED
    BY <2>1, <2>2, <2>3, <2>4 DEF DataFrom
<1> QED
  BY <1>4, <1>5

\* The unit is one of the current frame; what is left is live.
LEMMA FrameUnitTaken ==
  ASSUME SessionInv, R!ReadableAsData, rState = "FileReadingSubpacket",
         down # <<>>, down' = Tail(down),
         UNCHANGED <<sVars, up, offered, disk, declined, completed, rFileName,
                     pendingEvents, manualAccept>>
  PROVE  /\ ReadingFrame /\ Down[1].is = "subpacket"
         /\ Down[1].kind \in {"ZCRCG", "ZCRCW"}
         /\ LaneTypes /\ DownTaken /\ SenderGoesOnOrStops
         /\ Len(Down) \in Nat /\ Len(Down) >= 1 /\ Len(Down') = Len(Down) - 1
         /\ \A i \in 1 .. Len(Down') :
              i + 1 \in 2 .. Len(Down) /\ Down'[i] = Down[i + 1]
         /\ \A i \in 1 .. Len(Down') : Plain(Down'[i]) /\ LiveUnit(Down'[i])
         /\ SenderOK' /\ WorldOK' /\ FilesSettled' /\ EofIsTrue' /\ FinIsTrue'
         /\ CurrentFile' = CurrentFile /\ Begun' = Begun
         /\ sState' = sState /\ offered' = offered
         /\ ~ResetDue' /\ Sending' /\ ~OwesHeader' /\ Taken'
         /\ up' = up /\ up' \in Seq(HeaderUnit) /\ down' \in Seq(Unit)
         /\ sOutgoing' \in Seq(Unit)
         /\ \A i \in 1 .. Len(Down') : Down'[i].is = "header" =>
              Down'[i].frame \in {"ZRQINIT", "ZNAK", "ZFILE", "ZDATA", "ZEOF",
                                  "ZFIN"}
<1>1. /\ LaneTypes /\ DownTaken /\ KeepsSender /\ SenderGoesOnOrStops
      /\ down' \in Seq(Unit) /\ sOutgoing' \in Seq(Unit)
      /\ Len(Down) \in Nat /\ Len(Down) >= 1 /\ Len(Down') = Len(Down) - 1
      /\ \A i \in 1 .. Len(Down') :
           i + 1 \in 2 .. Len(Down) /\ Down'[i] = Down[i + 1]
  BY ReceiverTakes
<1>2. ReadingFrame
  BY ReadsData
<1>3. 1 \in 1 .. Len(Down) /\ Down # <<>>
  <2>1. Len(<<>>) = 0
    OBVIOUS
  <2> QED
    BY <1>1, <2>1
<1>4. Down[1].is = "subpacket"
  BY <1>2, <1>3 DEF ReadingFrame, MoreToCome
<1>5. Down[1].kind \in {"ZCRCG", "ZCRCW"}
  <2>1. LiveUnit(Down[1])
    BY <1>2, <1>3 DEF ReadingFrame, RestOfFrame
  <2> QED
    BY <1>4, <2>1 DEF LiveUnit, Noise, IsFrame
<1>6. \A i \in 1 .. Len(Down') : Plain(Down'[i]) /\ LiveUnit(Down'[i])
  <2>1. ASSUME NEW i \in 1 .. Len(Down')
        PROVE  LiveUnit(Down'[i])
    <3>1. i + 1 \in 1 .. Len(Down) /\ Down'[i] = Down[i + 1]
      BY <1>1
    <3> QED
      BY <1>2, <3>1 DEF ReadingFrame, RestOfFrame
  <2> QED
    BY <2>1, LiveIsNoFrame
<1>7. /\ SenderOK' /\ WorldOK' /\ FilesSettled' /\ EofIsTrue' /\ FinIsTrue'
      /\ CurrentFile' = CurrentFile /\ Begun' = Begun
      /\ sState' = sState /\ offered' = offered
      /\ \A i \in 1 .. Len(Down') : Down'[i].is = "header" =>
           Down'[i].frame \in {"ZRQINIT", "ZNAK", "ZFILE", "ZDATA", "ZEOF", "ZFIN"}
  BY <1>1, UnitTakenWorld
<1>8. ~ResetDue' /\ Taken'
  BY <1>2, <1>7 DEF ReadingFrame, ResetDue, Taken, Undecided
<1>9. Sending' /\ ~OwesHeader'
  BY <1>1, <1>2 DEF ReadingFrame, Sending, OwesHeader, KeepsSender
<1> QED
  BY <1>1, <1>2, <1>4, <1>5, <1>6, <1>7, <1>8, <1>9 DEF LaneTypes

-----------------------------------------------------------------------------
(***************************************************************************)
(* The receiver reads a subpacket of file data, whole or corrupt.          *)
(***************************************************************************)
LEMMA DataIsRead ==
  ASSUME SessionInv, ReceiverReceives, Head(down).is = "subpacket",
         R!SubmitData(Head(down).kind, Head(down).data)
  PROVE  SessionInv'
<1>1. /\ down # <<>> /\ down' = Tail(down) /\ R!ReadableAsData
      /\ rState = "FileReadingSubpacket"
      /\ UNCHANGED <<sVars, up, offered, disk, declined, pendingEvents,
                     manualAccept>>
      /\ completed' = IF ReceiverReports("FileComplete")
                      THEN completed \cup {rFileName} ELSE completed
      /\ rFileName' = rFileName
      /\ Head(down).data # <<>> =>
           /\ buf' = Head(down).data /\ bufWriteOffset' = 0
           /\ subpacketState' = R!Writing(Head(down).kind)
           /\ UNCHANGED <<rState, count, rOutgoing>>
  BY DEF ReceiverReceives, R!SubmitData, R!FinishSubpacket, R!fileVars
<1>2. ReceiverOK
  BY DEF SessionInv
<1>3. completed' = completed
  BY <1>1, <1>2, ReportIsRaised
<1>4. /\ ReadingFrame /\ Down[1].is = "subpacket"
      /\ Down[1].kind \in {"ZCRCG", "ZCRCW"}
      /\ LaneTypes /\ DownTaken /\ SenderGoesOnOrStops
      /\ Len(Down) \in Nat /\ Len(Down) >= 1 /\ Len(Down') = Len(Down) - 1
      /\ \A i \in 1 .. Len(Down') :
           i + 1 \in 2 .. Len(Down) /\ Down'[i] = Down[i + 1]
      /\ SenderOK' /\ WorldOK' /\ FilesSettled' /\ EofIsTrue' /\ FinIsTrue'
      /\ CurrentFile' = CurrentFile /\ Begun' = Begun
      /\ sState' = sState /\ offered' = offered
      /\ ~ResetDue' /\ Sending' /\ Taken'
      /\ up' = up /\ up' \in Seq(HeaderUnit) /\ down' \in Seq(Unit)
      /\ \A i \in 1 .. Len(Down') : Down'[i].is = "header" =>
           Down'[i].frame \in {"ZRQINIT", "ZNAK", "ZFILE", "ZDATA", "ZEOF",
                               "ZFIN"}
  BY <1>1, <1>3, FrameUnitTaken
<1>5. Head(down) = Down[1] /\ 1 \in 1 .. Len(Down)
  BY <1>1, <1>4, ReceiverTakes
<1>6. /\ NoAnswer /\ Synced /\ RestOfFrame(1) /\ MoreToCome
      /\ DataFrom(1, count) /\ count \in Nat
  BY <1>2, <1>4 DEF ReadingFrame, ReceiverOK
<1>7. /\ offered > 0 /\ CurrentFile \in Name
      /\ Content[CurrentFile] \in Seq(Byte) /\ Len(Content[CurrentFile]) \in Nat
  BY <1>4, CurrentIsNamed DEF ReadingFrame, Taken, SessionInv
<1>8. PICK to \in 0 .. Len(Content[CurrentFile]) :
        /\ count < to
        /\ Down[1].data = SubSeq(Content[CurrentFile], count + 1, to)
        /\ DataFrom(2, to)
  BY <1>4, <1>6, <1>7, NextPiece
<1>9. PICK n \in Nat : count + n = to /\ n >= 1
  BY <1>6, <1>8
<1>10. /\ Down[1].data \in Seq(Byte) /\ Len(Down[1].data) = n
       /\ Down[1].data # <<>>
  <2>1. count + n <= Len(Content[CurrentFile])
    BY <1>7, <1>8, <1>9
  <2>2. /\ SubSeq(Content[CurrentFile], count + 1, count + n) \in Seq(Byte)
        /\ Len(SubSeq(Content[CurrentFile], count + 1, count + n)) = n
    BY <1>6, <1>7, <2>1, PieceOf
  <2>3. Down[1].data = SubSeq(Content[CurrentFile], count + 1, count + n)
    BY <1>8, <1>9
  <2>4. Down[1].data \in Seq(Byte) /\ Len(Down[1].data) = n
    BY <2>2, <2>3
  <2>5. Down[1].data # <<>>
    <3>1. Len(Down[1].data) # 0 /\ Len(<<>>) = 0
      BY <1>9, <2>4
    <3> QED
      BY <3>1
  <2> QED
    BY <2>4, <2>5
<1>11. /\ buf' = Down[1].data /\ bufWriteOffset' = 0
       /\ subpacketState' = R!Writing(Down[1].kind)
       /\ UNCHANGED <<rState, count, rOutgoing>>
  BY <1>1, <1>5, <1>10
<1>12. Up' = Up /\ NoAnswer'
  BY <1>4, <1>6, <1>11 DEF Up, NoAnswer
<1>13. ReceiverOK'
  <2>1. subpacketState' \in R!SubpacketPhase
    BY <1>4, <1>11 DEF R!SubpacketPhase, R!SubpacketType
  <2> QED
    BY <1>1, <1>2, <1>4, <1>10, <1>11, <2>1 DEF ReceiverOK, LaneTypes
<1>14. LinkOK'
  BY <1>4, <1>12 DEF SessionInv, LinkOK
<1>15. RestOfFrame(1)' /\ \A p \in Nat : p = to => DataFrom(1, p)'
  <2>1. RestOfFrame(1 + 1) /\ DataFrom(1 + 1, to) /\ to \in Nat
    <3>1. RestOfFrame(2)
      BY <1>4, <1>6 DEF RestOfFrame
    <3>2. 1 + 1 = 2
      OBVIOUS
    <3> QED
      BY <1>7, <1>8, <3>1, <3>2
  <2>2. RestOfFrame(1)' /\ DataFrom(1, to)'
    BY <1>4, <2>1, FrameMovesUp
  <2> QED
    BY <2>2
<1>16. IF Down[1].kind = "ZCRCG" THEN MoreToCome'
       ELSE /\ sState' # "NeedFileData"
            /\ \A i \in 1 .. Len(Down') : Noise(Down'[i])
  <2>1. CASE Down[1].kind = "ZCRCG"
    <3>1. CASE Down' = <<>>
      <4>1. Len(Down) = 1
        <5>1. Len(<<>>) = 0
          OBVIOUS
        <5> QED
          BY <1>4, <3>1, <5>1
      <4>2. sState # "WaitFileAck"
        <5>1. GoesOn(Down[1])
          BY <1>4, <2>1 DEF GoesOn
        <5> QED
          BY <1>6, <4>1, <5>1 DEF RestOfFrame
      <4> QED
        BY <1>4, <2>1, <3>1, <4>2 DEF MoreToCome, Sending
    <3>2. CASE Down' # <<>>
      <4>1. Len(Down') # 0
        <5>1. Down' \in Seq(Unit)
          <6>1. sOutgoing' \in Seq(Unit)
            BY <1>1, <1>4 DEF LaneTypes, sVars
          <6> QED
            BY <1>4, <6>1, ConcatProperties DEF Down
        <5> QED
          BY <3>2, <5>1
      <4>2. 1 \in 1 .. Len(Down') /\ 1 < Len(Down) /\ 1 + 1 = 2
        BY <1>4, <4>1
      <4>3. Down[2].is = "subpacket"
        <5>1. GoesOn(Down[1])
          BY <1>4, <2>1 DEF GoesOn
        <5> QED
          BY <1>5, <1>6, <4>2, <5>1 DEF RestOfFrame
      <4>4. Down'[1] = Down[2]
        BY <1>4, <4>2
      <4> QED
        BY <2>1, <3>2, <4>3, <4>4 DEF MoreToCome
    <3> QED
      BY <3>1, <3>2
  <2>2. CASE Down[1].kind # "ZCRCG"
    <3>1. ~GoesOn(Down[1])
      BY <2>2 DEF GoesOn
    <3>2. (\A i \in 2 .. Len(Down) : Noise(Down[i])) /\ sState # "NeedFileData"
      BY <1>4, <1>6, <3>1, FrameEnds
    <3>3. \A i \in 1 .. Len(Down') : Noise(Down'[i])
      BY <1>4, <3>2
    <3> QED
      BY <1>4, <2>2, <3>2, <3>3
  <2> QED
    BY <2>1, <2>2
<1>17. PersistingData'
  <2>1. /\ bufWriteOffset' < Len(buf')
        /\ count' + Len(buf') = to /\ (count + Len(buf))' = to
        /\ to <= Len(Content[CurrentFile'])
    <3>1. Len(buf') = n /\ bufWriteOffset' = 0 /\ count' = count
      BY <1>10, <1>11
    <3>2. count' + Len(buf') = to /\ (count + Len(buf))' = to
      BY <1>9, <3>1
    <3>3. to <= Len(Content[CurrentFile'])
      BY <1>4, <1>7, <1>8
    <3> QED
      BY <1>9, <3>1, <3>2, <3>3
  <2>2. buf' = SubSeq(Content[CurrentFile'], count' + 1, count' + Len(buf'))
    BY <1>4, <1>8, <1>11, <2>1
  <2>3. Len(disk'[CurrentFile']) = count' + bufWriteOffset'
    BY <1>1, <1>4, <1>6, <1>11 DEF Synced
  <2>4. RestOfFrame(1)' /\ DataFrom(1, count + Len(buf))'
    <3>1. to \in Nat
      BY <1>7, <1>8
    <3>2. count' + Len(buf') \in Nat
      BY <2>1, <3>1
    <3> QED
      BY <1>15, <2>1, <3>1
  <2>5. /\ rState' \in {"FileReadingSubpacket", "SessionEnd"}
        /\ subpacketState' \in {R!Writing("ZCRCG"), R!Writing("ZCRCW")}
        /\ subpacketState'.kind = Down[1].kind
    BY <1>1, <1>4, <1>11 DEF R!Writing
  <2> QED
    BY <1>4, <1>12, <1>16, <2>1, <2>2, <2>3, <2>4, <2>5 DEF PersistingData
<1> QED
  BY <1>4, <1>13, <1>14, <1>17 DEF SessionInv, SomeTurn

LEMMA CorruptionIsRepaired ==
  ASSUME SessionInv, ReceiverReceivesDamaged, R!RecoverCorruptSubpacket
  PROVE  SessionInv'
<1>1. /\ down # <<>> /\ down' = Tail(down) /\ R!ReadableAsData
      /\ rState = "FileReadingSubpacket"
      /\ rOutgoing = <<>>
      /\ UNCHANGED <<sVars, up, offered, disk, declined, completed,
                     pendingEvents, manualAccept, count, rFileName>>
      /\ buf' = <<>> /\ bufWriteOffset' = 0
      /\ rOutgoing' = <<R!Header("ZRPOS", count)>>
      /\ rState' = "FileWaitingSubpacket" /\ subpacketState' = R!Idle
  BY DEF ReceiverReceivesDamaged, R!RecoverCorruptSubpacket, R!fileVars,
     R!ClearBuf, R!Answer, world, R!ReadableAsData, R!Blocked
<1>2. ReceiverOK
  BY DEF SessionInv
<1>3. /\ ReadingFrame
      /\ LaneTypes
      /\ \A i \in 1 .. Len(Down') : Plain(Down'[i])
      /\ SenderOK' /\ WorldOK' /\ FilesSettled' /\ EofIsTrue' /\ FinIsTrue'
      /\ CurrentFile' = CurrentFile /\ Begun' = Begun
      /\ sState' = sState /\ offered' = offered
      /\ ~ResetDue' /\ Sending' /\ ~OwesHeader' /\ Taken'
      /\ up' = up /\ up' \in Seq(HeaderUnit) /\ down' \in Seq(Unit)
      /\ \A i \in 1 .. Len(Down') : Down'[i].is = "header" =>
           Down'[i].frame \in {"ZRQINIT", "ZNAK", "ZFILE", "ZDATA", "ZEOF",
                               "ZFIN"}
  BY <1>1, FrameUnitTaken
<1>4. NoAnswer /\ Synced /\ count \in Nat
  BY <1>2, <1>3 DEF ReadingFrame, ReceiverOK
<1>5. /\ offered' > 0 /\ rFileName' = CurrentFile'
      /\ CurrentFile' \notin completed' /\ CurrentFile' \notin declined'
      /\ sState' \in {"NeedFileData", "WaitFileAck", "Done"}
  BY <1>3 DEF Taken, Undecided, Sending
<1>6. count' <= Len(Content[CurrentFile']) /\ Synced'
  <2>1. offered > 0 /\ CurrentFile \in Name
    BY <1>3, <1>5, CurrentIsNamed DEF SessionInv
  <2>2. IsPrefixOf(disk[CurrentFile], Content[CurrentFile])
    BY <2>1, DiskTyped DEF SessionInv
  <2> QED
    BY <1>1, <1>3, <1>4, <2>2 DEF Synced, IsPrefixOf
<1>7. PICK unit \in HeaderUnit :
        unit.frame = "ZRPOS" /\ unit.count = count' /\ rOutgoing' = <<unit>>
  BY <1>1, <1>4, AnswerIsUnit DEF Answers
<1>8. ReceiverIdle'
  BY <1>1 DEF ReceiverIdle, R!Idle
<1>9. AnswerUnderWay' /\ rOutgoing' \in Seq(HeaderUnit) /\ UpSaid(unit)
  BY <1>1, <1>3, <1>4, <1>5, <1>6, <1>7, <1>8, AnswerIsGiven DEF Answers
<1>10. ReceiverOK'
  BY <1>1, <1>2, <1>3, <1>9
     DEF ReceiverOK, R!ReceiverPhase, R!SubpacketPhase
<1>11. LinkOK'
  BY <1>3, <1>7, <1>9, UpSaidLinkOK DEF SessionInv, LinkOK, Answers
<1> QED
  BY <1>3, <1>9, <1>10, <1>11 DEF SessionInv, SomeTurn

\* After too many corrupt subpackets, or a corrupt announcement, it reads no
\* more.
LEMMA CorruptionEndsIt ==
  ASSUME SessionInv, ReceiverReceivesDamaged, NEW kind \in SubpacketType,
         R!GiveUpOnCorruptSubpacket(kind)
  PROVE  SessionInv'
<1>1. /\ down # <<>> /\ down' = Tail(down) /\ R!ReadableAsData
      /\ UNCHANGED <<sVars, up, offered, disk, declined, completed,
                     pendingEvents, manualAccept, count, rFileName, rState,
                     rOutgoing, buf, bufWriteOffset>>
      /\ subpacketState' = R!Crc(kind)
  BY DEF ReceiverReceivesDamaged, R!GiveUpOnCorruptSubpacket, R!fileVars,
     R!bufVars, world
<1>2. ReceiverOK
  BY DEF SessionInv
<1>3. /\ LaneTypes /\ DownTaken /\ KeepsSender /\ SenderGoesOnOrStops
      /\ down' \in Seq(Unit) /\ sOutgoing' \in Seq(Unit)
      /\ Len(Down) \in Nat /\ Len(Down') = Len(Down) - 1
      /\ \A i \in 1 .. Len(Down') :
           i + 1 \in 2 .. Len(Down) /\ Down'[i] = Down[i + 1]
  BY <1>1, ReceiverTakes
<1>4. /\ SenderOK' /\ WorldOK' /\ FilesSettled' /\ EofIsTrue' /\ FinIsTrue'
      /\ Begun' = Begun /\ sState' = sState
      /\ \A i \in 1 .. Len(Down') : Down'[i].is = "header" =>
           Down'[i].frame \in {"ZRQINIT", "ZNAK", "ZFILE", "ZDATA", "ZEOF",
                               "ZFIN"}
  BY <1>1, <1>3, UnitTakenWorld
<1>5. ReadingAnnouncement \/ ReadingFrame
  BY <1>1, ReadsData
<1>6. /\ NoAnswer /\ ~ResetDue /\ ~OwesHeader
      /\ sState # "WaitReceiverInit"
  BY <1>5 DEF ReadingAnnouncement, ReadingFrame, Sending, OwesHeader
<1>7. ASSUME NEW i \in 1 .. Len(Down')
      PROVE  ~IsFrame(Down'[i], {"ZFILE", "ZDATA"})
  <2>1. /\ i + 1 \in 1 .. Len(Down) /\ i + 1 \in 2 .. Len(Down)
        /\ Down'[i] = Down[i + 1]
    BY <1>3
  <2>2. CASE ReadingAnnouncement
    <3>1. Noise(Down[i + 1])
      BY <2>1, <2>2 DEF ReadingAnnouncement
    <3> QED
      BY <2>1, <3>1, NoiseIsPlain, PlainIsNoFrame
  <2>3. CASE ReadingFrame
    <3>1. LiveUnit(Down[i + 1])
      BY <2>1, <2>3 DEF ReadingFrame, RestOfFrame
    <3> QED
      BY <2>1, <3>1, LiveIsNoFrame
  <2> QED
    BY <1>5, <2>2, <2>3
<1>8. Up' = Up /\ NoAnswer' /\ ~ResetDue' /\ ~OwesHeader'
  <2>1. Up' = Up /\ ~ResetDue'
    BY <1>1, <1>6 DEF Up, ResetDue
  <2>2. ~OwesHeader'
    BY <1>3, <1>6 DEF OwesHeader, KeepsSender
  <2> QED
    BY <1>6, <2>1, <2>2 DEF NoAnswer
<1>9. ReceiverIdle'
  <2>1. /\ subpacketState'.phase = "Crc" /\ subpacketState' # R!Reading
        /\ rState # "FileAcceptPending"
    BY <1>1, <1>5
       DEF R!Crc, R!Reading, ReadingAnnouncement, ReadingFrame
  <2> QED
    BY <1>1, <2>1 DEF ReceiverIdle
<1>10. NoTurn'
  BY <1>4, <1>6, <1>7, <1>8, <1>9 DEF NoTurn
<1>11. ReceiverOK'
  <2>1. subpacketState' \in R!SubpacketPhase
    BY <1>1 DEF R!SubpacketPhase, R!SubpacketType, SubpacketType
  <2> QED
    BY <1>1, <1>2, <1>4, <1>8, <2>1 DEF ReceiverOK
<1>12. LinkOK'
  BY <1>1, <1>3, <1>4, <1>8 DEF SessionInv, LinkOK, LaneTypes
<1> QED
  BY <1>4, <1>10, <1>11, <1>12 DEF SessionInv, SomeTurn

-----------------------------------------------------------------------------
(***************************************************************************)
(* The receiver reads the announcement of a file.                          *)
(***************************************************************************)
\* The start of a file is reported.
LEMMA StartRaised ==
  ASSUME pendingEvents \in Seq(R!ReceiverEvent), ~ResetDue,
         pendingEvents' = Append(pendingEvents, "FileStart"),
         manualAccept' = manualAccept
  PROVE  /\ pendingEvents' \in Seq(R!ReceiverEvent)
         /\ ResetDue' <=> ~manualAccept
         /\ ~manualAccept => OneStart'
<1>1. /\ "FileStart" \in R!ReceiverEvent
      /\ Len(pendingEvents) \in Nat
  BY DEF R!ReceiverEvent
<1>2. /\ pendingEvents' \in Seq(R!ReceiverEvent)
      /\ Len(pendingEvents') = Len(pendingEvents) + 1
      /\ \A i \in 1 .. Len(pendingEvents) : pendingEvents'[i] = pendingEvents[i]
      /\ pendingEvents'[Len(pendingEvents) + 1] = "FileStart"
  BY <1>1, AppendProperties
<1>3. ResetDue' <=> ~manualAccept
  <2>1. Len(pendingEvents) + 1 \in 1 .. Len(pendingEvents')
    BY <1>1, <1>2
  <2> QED
    BY <1>2, <2>1 DEF ResetDue
<1>4. ASSUME ~manualAccept
      PROVE  OneStart'
  <2>1. \A i \in 1 .. Len(pendingEvents) : pendingEvents[i] # "FileStart"
    BY <1>4 DEF ResetDue
  <2>2. \A i \in 1 .. Len(pendingEvents') :
          pendingEvents'[i] = "FileStart" => i = Len(pendingEvents) + 1
    BY <1>1, <1>2, <2>1
  <2> QED
    BY <2>2 DEF OneStart
<1> QED
  BY <1>2, <1>3, <1>4

LEMMA AnnouncementIsRead ==
  ASSUME SessionInv, ReceiverReceives, Head(down).is = "metadata",
         R!SubmitMetadata(Head(down).name, Head(down).size)
  PROVE  SessionInv'
<1>1. /\ down # <<>> /\ down' = Tail(down) /\ R!ReadableAsData
      /\ rState = "FileReadingMetadata" /\ rOutgoing = <<>>
      /\ UNCHANGED <<sVars, up, offered, disk, declined, manualAccept>>
      /\ completed' = IF ReceiverReports("FileComplete")
                      THEN completed \cup {rFileName} ELSE completed
      /\ rFileName' = Head(down).name
      /\ count' = 0 /\ buf' = <<>> /\ bufWriteOffset' = 0
      /\ subpacketState' = R!Idle
      /\ pendingEvents' = Append(pendingEvents, "FileStart")
      /\ \/ /\ manualAccept /\ rState' = "FileAcceptPending"
            /\ rOutgoing' = rOutgoing
         \/ /\ ~manualAccept /\ rState' = "FileBegin"
            /\ rOutgoing' = <<R!Header("ZRPOS", 0)>>
  BY DEF ReceiverReceives, R!SubmitMetadata, R!ClearBuf, R!Answer,
     R!PushEvent, R!ReadableAsData, R!Blocked
<1>2. ReceiverOK /\ "FileStart" \in R!ReceiverEvent
  BY DEF SessionInv, R!ReceiverEvent
<1>3. completed' = completed
  BY <1>1, <1>2, ReportIsRaised
<1>4. /\ LaneTypes /\ DownTaken /\ KeepsSender /\ SenderGoesOnOrStops
      /\ down' \in Seq(Unit) /\ sOutgoing' \in Seq(Unit)
      /\ Len(Down) \in Nat /\ Len(Down') = Len(Down) - 1
      /\ Head(down) = Down[1]
      /\ \A i \in 1 .. Len(Down') :
           i + 1 \in 2 .. Len(Down) /\ Down'[i] = Down[i + 1]
  BY <1>1, ReceiverTakes
<1>5. ReadingAnnouncement
  BY <1>1, ReadsData
<1>6. /\ NoAnswer /\ ~ResetDue
      /\ sState \in {"WaitFilePos", "Done"}
      /\ offered > 0 /\ CurrentFile \notin completed
      /\ CurrentFile \notin declined
      /\ Announced(Down[1])
      /\ \A i \in 2 .. Len(Down) : Noise(Down[i])
  BY <1>5 DEF ReadingAnnouncement, Undecided
<1>7. \A i \in 1 .. Len(Down') : Plain(Down'[i])
  <2>1. ASSUME NEW i \in 1 .. Len(Down')
        PROVE  Plain(Down'[i])
    <3>1. i + 1 \in 2 .. Len(Down) /\ Down'[i] = Down[i + 1]
      BY <1>4
    <3> QED
      BY <1>6, <3>1, NoiseIsPlain
  <2> QED
    BY <2>1
<1>8. /\ SenderOK' /\ WorldOK' /\ FilesSettled' /\ EofIsTrue' /\ FinIsTrue'
      /\ CurrentFile' = CurrentFile /\ Begun' = Begun
      /\ sState' = sState /\ offered' = offered
      /\ \A i \in 1 .. Len(Down') : Down'[i].is = "header" =>
           Down'[i].frame \in {"ZRQINIT", "ZNAK", "ZFILE", "ZDATA", "ZEOF",
                               "ZFIN"}
  <2>1. \A i \in 1 .. Len(Down') : ~IsFrame(Down'[i], {"ZEOF"})
    BY <1>7 DEF Plain, IsFrame
  <2> QED
    BY <1>1, <1>3, <1>4, <2>1, UnitTakenWorld
<1>9. /\ rFileName' = CurrentFile /\ rFileName' = CurrentFile'
      /\ CurrentFile \in Begun
      /\ Len(Content[CurrentFile]) \in Nat
  BY <1>1, <1>4, <1>6, <1>8, AnnouncedIsNoFrame, CurrentIsNamed
     DEF SessionInv
<1>10. /\ pendingEvents' \in Seq(R!ReceiverEvent)
       /\ ResetDue' <=> ~manualAccept
       /\ ~manualAccept => OneStart'
  BY <1>1, <1>2, <1>6, StartRaised DEF ReceiverOK
<1>11. /\ buf' \in Seq(Byte) /\ bufWriteOffset' \in Nat /\ count' \in Nat
       /\ subpacketState' \in R!SubpacketPhase
       /\ rState' \in R!ReceiverPhase \ {"SinitReadingData"}
       /\ subpacketState'.phase # "Writing" /\ subpacketState' # R!Reading
  BY <1>1 DEF R!SubpacketPhase, R!ReceiverPhase, R!Idle, R!Reading
<1>12. rOutgoing' \in Seq(HeaderUnit) => ReceiverOK'
  BY <1>1, <1>2, <1>8, <1>9, <1>10, <1>11 DEF ReceiverOK
<1>13. CASE manualAccept
  <2>1. rOutgoing' = rOutgoing /\ rState' = "FileAcceptPending"
    BY <1>1, <1>13
  <2>2. Up' = Up /\ NoAnswer' /\ ReceiverOK'
    BY <1>1, <1>4, <1>6, <1>12, <2>1 DEF Up, NoAnswer, LaneTypes
  <2>3. LinkOK'
    BY <1>1, <1>4, <1>8, <2>2 DEF SessionInv, LinkOK, LaneTypes
  <2>4. Taken'
    BY <1>1, <1>3, <1>6, <1>8, <1>9 DEF Taken, Undecided
  <2>5. Deciding'
    BY <1>6, <1>7, <1>8, <1>10, <1>11, <1>13, <2>1, <2>2, <2>4 DEF Deciding
  <2> QED
    BY <1>8, <2>2, <2>3, <2>5 DEF SessionInv, SomeTurn
<1>14. CASE ~manualAccept
  <2>1. /\ rState' = "FileBegin" /\ rOutgoing' = <<R!Header("ZRPOS", 0)>>
        /\ ResetDue' /\ OneStart'
    BY <1>1, <1>10, <1>14
  <2>2. PICK unit \in HeaderUnit :
          unit.frame = "ZRPOS" /\ unit.count = 0 /\ rOutgoing' = <<unit>>
    BY <2>1, AnswerIsUnit DEF Answers
  <2>3. ReceiverIdle' /\ ~OwesHeader'
    BY <1>6, <1>8, <1>11, <2>1 DEF ReceiverIdle, OwesHeader
  <2>4. /\ offered' > 0 /\ CurrentFile' \notin completed'
        /\ CurrentFile' \notin declined' /\ unit.count = count'
        /\ count' = 0 /\ count' <= Len(Content[CurrentFile'])
    BY <1>1, <1>3, <1>6, <1>8, <1>9, <2>2
  <2>5. AnswerUnderWay' /\ rOutgoing' \in Seq(HeaderUnit) /\ UpSaid(unit)
    BY <1>1, <1>4, <1>6, <1>7, <1>8, <1>9, <2>1, <2>2, <2>3, <2>4,
       AnswerIsGiven DEF Answers
  <2>6. LinkOK'
    BY <1>1, <1>4, <1>8, <2>2, <2>5, UpSaidLinkOK
       DEF SessionInv, LinkOK, LaneTypes, Answers
  <2> QED
    BY <1>8, <1>12, <2>5, <2>6 DEF SessionInv, SomeTurn
<1> QED
  BY <1>13, <1>14

-----------------------------------------------------------------------------
(***************************************************************************)
(* Whatever the receiver takes from the link, whole or damaged.            *)
(***************************************************************************)
LEMMA ReceiverHears ==
  ASSUME SessionInv, ReceiverReceives
  PROVE  SessionInv'
<1>1. /\ down # <<>> /\ down' = Tail(down)
      /\ completed' = IF ReceiverReports("FileComplete")
                      THEN completed \cup {rFileName} ELSE completed
      /\ UNCHANGED <<sVars, up, offered, disk, declined>>
  BY DEF ReceiverReceives
<1>2. ReceiverOK
  BY DEF SessionInv
<1>3. ASSUME Head(down).is = "header", R!SubmitHeader(Head(down))
      PROVE  SessionInv'
  <2>1. CASE R!OnZfile(Head(down))
    BY <1>3, <2>1, AnnouncementBegins
  <2>2. CASE R!OnZdata(Head(down)) /\ Head(down).count = count
    BY <1>3, <2>2, FrameBegins
  <2>3. CASE ~R!OnZfile(Head(down))
             /\ ~(R!OnZdata(Head(down)) /\ Head(down).count = count)
    BY <1>3, <2>3, HeaderIsHeard
  <2> QED
    BY <2>1, <2>2, <2>3
<1>4. ASSUME ReadsStray \/ (R!ReadableAsHeader /\ UNCHANGED rVars)
      PROVE  SessionInv'
  <2>1. pendingEvents' = pendingEvents
    BY <1>4 DEF ReadsStray, R!SubmitGarbled, rVars
  <2>2. completed' = completed
    BY <1>1, <1>2, <2>1, ReportIsRaised
  <2> QED
    BY <1>1, <1>4, <2>2, StrayIsHeard
<1>5. ASSUME Head(down).is = "subpacket",
             R!SubmitData(Head(down).kind, Head(down).data)
      PROVE  SessionInv'
  BY <1>5, DataIsRead
<1>6. ASSUME Head(down).is = "metadata",
             R!SubmitMetadata(Head(down).name, Head(down).size)
      PROVE  SessionInv'
  BY <1>6, AnnouncementIsRead
<1> QED
  BY <1>3, <1>4, <1>5, <1>6 DEF ReceiverReceives

LEMMA ReceiverMisses ==
  ASSUME SessionInv, ReceiverReceivesDamaged
  PROVE  SessionInv'
<1>1. /\ down # <<>> /\ down' = Tail(down)
      /\ UNCHANGED <<sVars, up, offered, disk, declined, completed>>
  BY DEF ReceiverReceivesDamaged, world
<1>2. CASE ReadsStray
  BY <1>1, <1>2, StrayIsHeard
<1>3. CASE R!RecoverCorruptSubpacket
  BY <1>3, CorruptionIsRepaired
<1>4. ASSUME NEW kind \in SubpacketType, R!GiveUpOnCorruptSubpacket(kind)
      PROVE  SessionInv'
  BY <1>4, CorruptionEndsIt
<1>5. Head(down).is = "subpacket" => Head(down).kind \in SubpacketType
  <2>1. Head(down) = Down[1] /\ Down[1] \in Unit
    BY <1>1, ReceiverTakes DEF sVars
  <2> QED
    BY <2>1 DEF Unit, HeaderUnit, SubpacketUnit, MetadataUnit, OverAndOut
<1>6. "ZCRCW" \in SubpacketType
  BY DEF SubpacketType
<1> QED
  BY <1>2, <1>3, <1>4, <1>5, <1>6 DEF ReceiverReceivesDamaged

-----------------------------------------------------------------------------
(***************************************************************************)
(* The invariant.                                                          *)
(***************************************************************************)
LEMMA SessionBegins == Init => SessionInv
<1> SUFFICES ASSUME Init
             PROVE  SessionInv
  OBVIOUS
<1>1. /\ sState = "WaitReceiverInit" /\ sHasFile = FALSE
      /\ pendingRequest = NoRequest /\ frameNeedsHeader = FALSE
      /\ maxSubpacketSize = SubpacketMaxSize
      /\ sOutgoing = <<Header("ZRQINIT", 0)>>
      /\ finishRequested = FALSE
      /\ rState = "SessionBegin" /\ count = 0 /\ rFileName = EmptyName
      /\ buf = <<>> /\ bufWriteOffset = 0 /\ subpacketState = R!Idle
      /\ rOutgoing = <<R!OwnZrinit>> /\ pendingEvents = <<>>
      /\ manualAccept = FALSE
      /\ down = <<>> /\ up = <<>> /\ offered = 0 /\ disk = AlreadyHas
      /\ declined = {} /\ completed = {}
  BY SameUnits DEF Init, S!Init, R!Init
<1>2. /\ Len(<<>>) = 0 /\ Len(Files) \in Nat
  BY FilesAssumption
<1>3. /\ Header("ZRQINIT", 0) \in Unit /\ Noise(Header("ZRQINIT", 0))
      /\ Header("ZRQINIT", 0).frame = "ZRQINIT"
      /\ sOutgoing \in Seq(Unit) /\ rOutgoing \in Seq(HeaderUnit)
  BY <1>1, HeaderIsUnit, NoiseHeaders, ReceiverReplies DEF Frame
<1>4. LaneTypes
  BY <1>1, <1>3 DEF LaneTypes
<1>5. Down = <<Header("ZRQINIT", 0)>> /\ Up = <<R!OwnZrinit>>
  <2>1. ASSUME NEW T, NEW unit \in T
        PROVE  <<>> \o <<unit>> = <<unit>>
    BY ConcatEmptySeq
  <2> QED
    BY <1>1, <1>3, <2>1, ReceiverReplies DEF Down, Up
<1>6. /\ Len(Down) = 1 /\ Down[1] = Header("ZRQINIT", 0)
      /\ Len(Up) = 1 /\ Up[1] = R!OwnZrinit
  BY <1>5
<1>7. \A i \in 1 .. Len(Down) :
        /\ Noise(Down[i]) /\ Plain(Down[i])
        /\ ~IsFrame(Down[i], {"ZFILE", "ZDATA"})
        /\ ~IsFrame(Down[i], {"ZEOF"}) /\ ~IsFrame(Down[i], {"ZFIN"})
        /\ Down[i].frame = "ZRQINIT"
  BY <1>3, <1>6, NoiseIsPlain, PlainIsNoFrame DEF Plain, IsFrame
<1>8. \A i \in 1 .. Len(Up) : Up[i].frame = "ZRINIT"
  BY <1>6, ReceiverReplies
<1>9. ~ResetDue
  BY <1>1, <1>2 DEF ResetDue
<1>10. SenderOK
  <2>1. /\ sHasFile \in BOOLEAN /\ finishRequested \in BOOLEAN
        /\ ~sHasFile /\ ~finishRequested
    BY <1>1
  <2>2. /\ sState \in S!SenderPhase /\ maxSubpacketSize \in Nat \ {0}
        /\ offered \in 0 .. Len(Files)
    BY <1>1, <1>2, SessionLimitsAssumption DEF S!SenderPhase
  <2> QED
    BY <1>1, <1>3, <2>1, <2>2 DEF SenderOK
<1>11. ReceiverOK
  <2>1. /\ rState \in R!ReceiverPhase \ {"SinitReadingData"}
        /\ subpacketState \in R!SubpacketPhase
        /\ rFileName \in Begun \cup {EmptyName}
    BY <1>1 DEF R!ReceiverPhase, R!SubpacketPhase
  <2>2. /\ count \in Nat /\ bufWriteOffset \in Nat
        /\ manualAccept \in BOOLEAN
    BY <1>1
  <2>3. buf \in Seq(Byte) /\ pendingEvents \in Seq(R!ReceiverEvent)
    BY <1>1
  <2> QED
    BY <1>3, <1>9, <2>1, <2>2, <2>3 DEF ReceiverOK
<1>12. LinkOK
  BY <1>1, <1>7, <1>8 DEF LinkOK
<1>13. WorldOK
  <2>1. AlreadyHas \in [Name -> Seq(Byte)]
        /\ \A name \in Name : IsPrefixOf(AlreadyHas[name], Content[name])
    BY FilesAssumption
  <2>2. DiskIsPrefix
    BY <1>1, <2>1 DEF DiskIsPrefix
  <2> QED
    BY <1>1, <2>1, <2>2 DEF WorldOK, CompletedIsWhole
<1>14. FilesSettled /\ EofIsTrue /\ FinIsTrue
  <2>1. FilesSettled
    BY <1>1 DEF FilesSettled
  <2> QED
    BY <1>7, <2>1 DEF EofIsTrue, FinIsTrue
<1>15. NoTurn
  BY <1>1, <1>7, <1>8, <1>9
     DEF NoTurn, ReceiverIdle, R!Idle, NoAnswer, Answers, OwesHeader
<1> QED
  BY <1>10, <1>11, <1>12, <1>13, <1>14, <1>15 DEF SessionInv, SomeTurn

\* Nothing but the budgets changes.
LEMMA NothingHappens ==
  ASSUME SessionInv, UNCHANGED <<sVars, rVars, link, world>>
  PROVE  SessionInv'
<1>1. /\ KeepsSender /\ KeepsReceiver /\ KeepsWorld
      /\ UNCHANGED <<down, up, sOutgoing, rOutgoing>>
  BY DEF SessionInv, SenderOK, sVars, rVars, link, world, KeepsSender,
     KeepsReceiver, KeepsWorld
<1>2. Down' = Down /\ Up' = Up
  BY <1>1 DEF Down, Up
<1> QED
  BY <1>1, <1>2, SenderChatters, InvTypesLanes
     DEF DownChatters, UpHeard, LaneTypes

LEMMA SessionGoesOn ==
  ASSUME SessionInv, [Next]_vars
  PROVE  SessionInv'
<1>1. CASE UNCHANGED vars
  BY <1>1, NothingHappens DEF vars
<1>2. CASE SenderStep
  BY <1>2, FileIsOffered, FinishIsAskedFor, EventTaken, SenderWritten,
     PieceIsSent, SenderHears DEF SenderStep
<1>3. CASE ReceiverStep
  BY <1>3, ManualIsSet, FileIsResumed, FileIsDeclined, ReceiverReported,
     ReceiverWritten, DataIsPersisted, ReceiverHears DEF ReceiverStep
<1>4. CASE FaultStep
  BY <1>4, SenderMisses, SenderTimesOut, SenderStops, ReceiverMisses,
     ReceiverTimesOut, ReceiverStops DEF FaultStep
<1> QED
  BY <1>1, <1>2, <1>3, <1>4 DEF Next

\* Whatever the link damages, however the two callers interleave, time out and
\* abort, and whatever the user decides: it is always the turn of exactly one
\* side, or nobody's, and what is under way, in the receiver's buffer and on
\* its disk fits that turn.
THEOREM SessionInvariant == Spec => []SessionInv
<1>1. Init => SessionInv
  BY SessionBegins
<1>2. SessionInv /\ [Next]_vars => SessionInv'
  BY SessionGoesOn
<1> QED
  BY <1>1, <1>2, PTL DEF Spec

-----------------------------------------------------------------------------
(***************************************************************************)
(* The promises of module FileTransfer, one step at a time.                *)
(***************************************************************************)
\* Only the current file is ever emptied, and only while it is undecided or
\* taken.
LEMMA ResetIsCurrent ==
  ASSUME SessionInv, ResetDue
  PROVE  /\ offered > 0 /\ rFileName = CurrentFile
         /\ CurrentFile \notin declined \cup completed
<1>1. AnswerUnderWay
  BY DEF SessionInv, SomeTurn, NoTurn, AnnouncementUnderWay,
     ReadingAnnouncement, Deciding, FrameOwed, FrameUnderWay, ReadingFrame,
     PersistingData
<1>2. PICK k \in 1 .. Len(Up) : AnswersCurrent(k)
  BY <1>1 DEF AnswerUnderWay
<1>3. CurrentFile \notin declined
  BY <1>2 DEF AnswersCurrent
<1> QED
  BY <1>1, <1>3 DEF AnswerUnderWay

LEMMA OfferImplements ==
  ASSUME SessionInv, OfferFile
  PROVE  Transfer!Offer
<1>1. /\ offered < Len(Files) /\ ~sHasFile
      /\ sState \in {"WaitReceiverInit", "ReadyForFile"}
      /\ offered' = offered + 1
      /\ UNCHANGED <<disk, declined, completed>>
  BY DEF OfferFile, S!StartFile
<1>2. offered > 0 => Settled(CurrentFile)
  BY <1>1 DEF SessionInv, SenderOK, FilesSettled
<1> QED
  BY <1>1, <1>2 DEF Transfer!Offer, Transfer!Settled, Transfer!Has,
     Transfer!Current, Settled, Has, CurrentFile

LEMMA DeclineImplements ==
  ASSUME SessionInv, Decline
  PROVE  Transfer!Decline
<1>1. /\ rState = "FileAcceptPending"
      /\ declined' = declined \cup {rFileName}
      /\ UNCHANGED <<offered, disk, completed>>
  BY DEF Decline, R!SkipFile
<1>2. Deciding
  BY <1>1, UserDecides
<1>3. offered > 0 /\ rFileName = CurrentFile /\ CurrentFile \notin completed
  BY <1>2 DEF Deciding, Taken, Undecided
<1> QED
  BY <1>1, <1>3 DEF Transfer!Decline, Transfer!Current, CurrentFile

LEMMA EventImplements ==
  ASSUME SessionInv, ReceiverEvent
  PROVE  Transfer!Restart \/ UNCHANGED world
<1>1. /\ pendingEvents # <<>>
      /\ disk' = IF Head(pendingEvents) = "FileStart" /\ ~manualAccept
                 THEN [disk EXCEPT ![rFileName] = <<>>] ELSE disk
      /\ UNCHANGED <<offered, declined, completed>>
  BY DEF ReceiverEvent, R!PollEvent
<1>2. CASE Head(pendingEvents) = "FileStart" /\ ~manualAccept
  <2>1. ResetDue
    <3>1. pendingEvents \in Seq(R!ReceiverEvent)
      BY DEF SessionInv, ReceiverOK
    <3>2. 1 \in 1 .. Len(pendingEvents) /\ pendingEvents[1] = Head(pendingEvents)
      BY <1>1, <3>1
    <3> QED
      BY <1>2, <3>2 DEF ResetDue
  <2>2. /\ offered > 0 /\ rFileName = CurrentFile
        /\ CurrentFile \notin declined \cup completed
    BY <2>1, ResetIsCurrent
  <2> QED
    BY <1>1, <1>2, <2>2 DEF Transfer!Restart, Transfer!Current, CurrentFile
<1>3. CASE ~(Head(pendingEvents) = "FileStart" /\ ~manualAccept)
  BY <1>1, <1>3 DEF world
<1> QED
  BY <1>2, <1>3

LEMMA WriteImplements ==
  ASSUME SessionInv, ReceiverWritesFile
  PROVE  Transfer!Extend
<1>1. UNCHANGED <<offered, declined, completed>>
  BY DEF ReceiverWritesFile
<1>2. PICK n \in 1 .. Len(R!DrainFile), new \in Seq(Byte) :
        /\ disk' = [disk EXCEPT ![rFileName] = new]
        /\ IsPrefixOf(new, Content[CurrentFile])
        /\ Len(new) = count + bufWriteOffset + n
  BY DiskGrows
<1>3. PersistingData
  <2>1. Len(R!DrainFile) # 0 /\ Len(<<>>) = 0
    BY <1>2
  <2>2. R!DrainFile # <<>>
    BY <2>1
  <2> QED
    BY <2>2, DataIsOffered
<1>4. /\ offered > 0 /\ rFileName = CurrentFile
      /\ CurrentFile \notin declined \cup completed
      /\ Len(disk[CurrentFile]) = count + bufWriteOffset
  BY <1>3 DEF PersistingData, Taken, Undecided
<1>5. /\ count \in Nat /\ bufWriteOffset \in Nat
      /\ Len(Content[CurrentFile]) \in Nat
  BY <1>4, CurrentIsNamed DEF SessionInv, ReceiverOK
<1>6. /\ Len(new) \in Len(disk[CurrentFile]) + 1 .. Len(Content[CurrentFile])
      /\ new = SubSeq(Content[CurrentFile], 1, Len(new))
  BY <1>2, <1>4, <1>5 DEF IsPrefixOf
<1>7. PICK m \in Len(disk[CurrentFile]) + 1 .. Len(Content[CurrentFile]) :
        new = SubSeq(Content[CurrentFile], 1, m)
  BY <1>6
<1>8. disk' = [disk EXCEPT ![CurrentFile] = SubSeq(Content[CurrentFile], 1, m)]
  BY <1>2, <1>4, <1>7
<1> QED
  BY <1>1, <1>4, <1>8 DEF Transfer!Extend, Transfer!Current, CurrentFile

\* The receiver reports what a header says.
LEMMA ReceiverReportsHeader ==
  ASSUME SessionInv, ReceiverReceives,
         NEW event \in {"FileComplete", "SessionComplete"},
         ReceiverReports(event)
  PROVE  /\ R!ReadableAsHeader /\ Head(down) = Down[1] /\ 1 \in 1 .. Len(Down)
         /\ event = "FileComplete" => IsFrame(Down[1], {"ZEOF"})
         /\ event = "SessionComplete" => IsFrame(Down[1], {"ZFIN"})
<1> DEFINE h == Head(down)
<1>1. /\ down # <<>> /\ down' = Tail(down) /\ UNCHANGED <<sVars, offered>>
  BY DEF ReceiverReceives
<1>2. /\ h = Down[1] /\ Len(Down) \in Nat /\ 1 \in 1 .. Len(Down)
      /\ h.is = "header" =>
           h.frame \in {"ZRQINIT", "ZNAK", "ZFILE", "ZDATA", "ZEOF", "ZFIN"}
  BY <1>1, ReceiverTakes
<1>3. ReceiverOK
  BY DEF SessionInv
<1>4. /\ pendingEvents' # pendingEvents
      /\ \A raised \in R!ReceiverEvent :
           pendingEvents' = Append(pendingEvents, raised) => event = raised
  BY <1>3, ReportIsRaised
<1>5. /\ "FileStart" \in R!ReceiverEvent /\ "FileComplete" \in R!ReceiverEvent
      /\ "SessionComplete" \in R!ReceiverEvent
  BY DEF R!ReceiverEvent
<1> HIDE DEF h
<1>6. h.is = "header" /\ R!SubmitHeader(h)
  <2>1. ~(\E kind, data : R!SubmitData(kind, data))
    BY <1>4 DEF R!SubmitData
  <2>2. ~(\E name, size : R!SubmitMetadata(name, size))
    BY <1>4, <1>5 DEF R!SubmitMetadata, R!PushEvent
  <2>3. ~ReadsStray /\ ~(UNCHANGED rVars)
    BY <1>4 DEF ReadsStray, R!SubmitGarbled, rVars
  <2> QED
    BY <2>1, <2>2, <2>3 DEF ReceiverReceives, h
<1>7. \/ h.frame = "ZEOF" /\ event = "FileComplete"
      \/ h.frame = "ZFIN" /\ event = "SessionComplete"
  BY <1>2, <1>4, <1>5, <1>6
     DEF R!SubmitHeader, R!OnZrqinitOrEarlyData, R!OnZsinit, R!OnZfile,
         R!OnZdata, R!OnZeof, R!OnAbort, R!OnZfin, R!Ignored, R!Stay,
         R!SilentlyEnter, R!PushEvent
<1> QED
  BY <1>2, <1>6, <1>7 DEF R!SubmitHeader, IsFrame, h

LEMMA ReceiveImplements ==
  ASSUME SessionInv, ReceiverReceives
  PROVE  Transfer!Complete \/ UNCHANGED world
<1>1. /\ completed' = IF ReceiverReports("FileComplete")
                      THEN completed \cup {rFileName} ELSE completed
      /\ UNCHANGED <<offered, disk, declined>>
  BY DEF ReceiverReceives
<1>2. CASE ReceiverReports("FileComplete")
  <2>1. 1 \in 1 .. Len(Down) /\ IsFrame(Down[1], {"ZEOF"})
    BY <1>2, ReceiverReportsHeader
  <2>2. rFileName \in Begun /\ rFileName \notin declined /\ Has(rFileName)
    BY <2>1 DEF SessionInv, EofIsTrue
  <2>3. PICK i \in 1 .. offered : rFileName = Files[i]
    BY <2>2 DEF Begun
  <2> QED
    BY <1>1, <1>2, <2>2, <2>3 DEF Transfer!Complete, Transfer!Has, Has
<1>3. CASE ~ReceiverReports("FileComplete")
  BY <1>1, <1>3 DEF world
<1> QED
  BY <1>2, <1>3

\* A step of the session is one that module FileTransfer allows, or none of
\* its business.
LEMMA StepImplements ==
  ASSUME SessionInv, [Next]_vars
  PROVE  [Transfer!Next]_(Transfer!vars)
<1>1. UNCHANGED world => UNCHANGED Transfer!vars
  BY DEF world, Transfer!vars
<1>2. CASE UNCHANGED vars
  BY <1>1, <1>2 DEF vars
<1>3. CASE SenderStep
  <2>1. CASE OfferFile
    BY <2>1, OfferImplements DEF Transfer!Next
  <2>2. CASE ~OfferFile
    BY <1>1, <1>3, <2>2 DEF SenderStep, AskToFinish, SenderEvent, SenderWrites,
       SenderReadsFile, SenderReceives
  <2> QED
    BY <2>1, <2>2
<1>4. CASE ReceiverStep
  <2>1. CASE Decline
    BY <2>1, DeclineImplements DEF Transfer!Next
  <2>2. CASE ReceiverEvent
    BY <1>1, <2>2, EventImplements DEF Transfer!Next
  <2>3. CASE ReceiverWritesFile
    BY <2>3, WriteImplements DEF Transfer!Next
  <2>4. CASE ReceiverReceives
    BY <1>1, <2>4, ReceiveImplements DEF Transfer!Next
  <2>5. CASE SetManual \/ Resume \/ ReceiverWrites
    BY <1>1, <2>5 DEF SetManual, Resume, ReceiverWrites
  <2> QED
    BY <1>4, <2>1, <2>2, <2>3, <2>4, <2>5 DEF ReceiverStep
<1>5. CASE FaultStep
  BY <1>1, <1>5 DEF FaultStep, SenderReceivesDamaged, SenderTimeout,
     SenderAborts, ReceiverReceivesDamaged, ReceiverTimeout, ReceiverAborts
<1> QED
  BY <1>2, <1>3, <1>4, <1>5 DEF Next

-----------------------------------------------------------------------------
(***************************************************************************)
(* The properties of module Session.                                       *)
(***************************************************************************)
\* What is on the receiver's disk is a prefix of what the sender has under that
\* name, whatever arrives damaged, twice, late or not at all.
THEOREM DiskHoldsPrefixes == Spec => []DiskIsPrefix
<1>1. SessionInv => DiskIsPrefix
  BY DEF SessionInv, WorldOK
<1> QED
  BY <1>1, SessionInvariant, PTL

\* A file that the receiver has reported complete is on its disk, all of it.
THEOREM CompletedFilesAreWhole == Spec => []CompletedIsWhole
<1>1. SessionInv => CompletedIsWhole
  BY DEF SessionInv, WorldOK
<1> QED
  BY <1>1, SessionInvariant, PTL

\* Where the receiver reads data the sender has put data, of the sort
\* expected: no header is taken for data.
THEOREM MachinesStayInStep == Spec => []InStep
<1>1. SessionInv => InStep
  <2> SUFFICES ASSUME SessionInv, R!ReadableAsData, down # <<>>
               PROVE  Head(down).is = IF rState = "FileReadingMetadata"
                                      THEN "metadata" ELSE "subpacket"
    BY DEF InStep
  <2>1. Head(down) = Down[1] /\ Len(Down) \in Nat /\ Len(Down) >= 1
    BY InvTypesLanes, LanesAreSequences, FirstIsTaken DEF LaneTypes, Down
  <2>2. CASE rState = "FileReadingMetadata"
    <3>1. Announced(Down[1])
      BY <2>2, ReadsData DEF ReadingAnnouncement
    <3> QED
      BY <2>1, <2>2, <3>1, AnnouncedIsNoFrame
  <2>3. CASE rState # "FileReadingMetadata"
    <3>1. ReadingFrame
      BY <2>3, ReadsData
    <3>2. Down # <<>>
      <4>1. Len(<<>>) = 0
        OBVIOUS
      <4> QED
        BY <2>1, <4>1
    <3> QED
      BY <2>1, <2>3, <3>1, <3>2 DEF ReadingFrame, MoreToCome
  <2> QED
    BY <2>2, <2>3
<1> QED
  BY <1>1, SessionInvariant, PTL

\* The sender reports what a header from the receiver says.
LEMMA SenderReportsHeader ==
  ASSUME SessionInv, [Next]_vars,
         NEW event \in {"FileComplete", "SessionComplete"},
         SenderReports(event)
  PROVE  /\ up # <<>> /\ S!Readable /\ Head(up) = Up[1]
         /\ event = "FileComplete" =>
              sState = "WaitFileDone" \/ Up[1].frame = "ZSKIP"
         /\ event = "SessionComplete" => sState = "WaitFinish"
<1>1. pendingEvent' = event /\ pendingEvent # event
  BY DEF SenderReports
<1>2. ~(UNCHANGED sVars)
  BY <1>1 DEF sVars
<1>3. ~(UNCHANGED vars) /\ ~ReceiverStep
  BY <1>2 DEF vars, ReceiverStep, SetManual, Resume, Decline, ReceiverEvent,
     ReceiverWrites, ReceiverWritesFile, ReceiverReceives
<1>4. ~FaultStep
  <2>1. ~(S!SubmitGarbled \/ S!Timeout \/ S!Abort)
    BY <1>1 DEF S!SubmitGarbled, S!Timeout, S!Abort, S!StopAborted
  <2> QED
    BY <1>2, <2>1 DEF FaultStep, SenderReceivesDamaged, SenderTimeout,
       SenderAborts, ReceiverReceivesDamaged, ReceiverTimeout, ReceiverAborts
<1>5. SenderReceives
  <2>1. /\ ~(\E name, size : S!StartFile(name, size))
        /\ ~S!Finish /\ ~S!PollEvent /\ ~(\E n : S!WireWritten(n))
        /\ ~(\E data : S!SubmitFile(data))
    BY <1>1 DEF S!StartFile, S!Finish, S!PollEvent, S!WireWritten,
       S!SubmitFile, S!NoEvent
  <2>2. ~OfferFile /\ ~AskToFinish /\ ~SenderEvent
    BY <2>1 DEF OfferFile, AskToFinish, SenderEvent
  <2>3. ~SenderWrites /\ ~SenderReadsFile
    BY <2>1 DEF SenderWrites, SenderReadsFile
  <2> QED
    BY <1>3, <1>4, <2>2, <2>3 DEF Next, SenderStep
<1>6. up # <<>> /\ S!Readable /\ S!SubmitWire(Head(up)) /\ Head(up) = Up[1]
  <2>1. /\ up # <<>> /\ up' = Tail(up) /\ S!SubmitWire(Head(up))
        /\ UNCHANGED <<rVars, down, world>>
    BY <1>5 DEF SenderReceives
  <2> QED
    BY <2>1, SenderTakes DEF S!SubmitWire
<1>7. \/ sState = "WaitFileDone" /\ event = "FileComplete"
      \/ Head(up).frame = "ZSKIP" /\ event = "FileComplete"
      \/ sState = "WaitFinish" /\ event = "SessionComplete"
  BY <1>1, <1>6 DEF S!SubmitWire, S!OnZrinit, S!OnZrpos, S!OnZskip, S!OnAbort,
     S!StopAborted, S!OnZfin, S!OnOther, S!CompletesFile, S!CompleteSession
<1> QED
  BY <1>6, <1>7

\* The sender reports a file complete only when the receiver has persisted all
\* of it, or its user has declined it.
THEOREM SenderCompletionIsSound == Spec => SenderCompletionSound
<1>1. SessionInv /\ [Next]_vars
      => [SenderReports("FileComplete") => Settled(CurrentFile)]_vars
  <2> SUFFICES ASSUME SessionInv, [Next]_vars, SenderReports("FileComplete")
               PROVE  Settled(CurrentFile)
    OBVIOUS
  <2>1. /\ up # <<>> /\ S!Readable /\ Head(up) = Up[1]
        /\ sState = "WaitFileDone" \/ Up[1].frame = "ZSKIP"
    BY SenderReportsHeader
  <2>2. CASE sState = "WaitFileDone"
    BY <2>2 DEF SessionInv, FilesSettled, Settled
  <2>3. CASE Up[1].frame = "ZSKIP"
    <3>1. 1 \in 1 .. Len(Up) /\ Up[1].frame \in Answers
      <4>1. Len(Up) >= 1 /\ Len(Up) \in Nat
        BY <2>1, InvTypesLanes, LanesAreSequences, FirstIsTaken
           DEF LaneTypes, Up
      <4> QED
        BY <2>3, <4>1 DEF Answers
    <3>2. AnswerUnderWay
      BY <3>1 DEF SessionInv, SomeTurn, NoTurn, AnnouncementUnderWay,
         ReadingAnnouncement, Deciding, FrameOwed, FrameUnderWay,
         ReadingFrame, PersistingData, NoAnswer
    <3>3. PICK k \in 1 .. Len(Up) :
            /\ \A i \in 1 .. Len(Up) : Up[i].frame \in Answers => i = k
            /\ AnswersCurrent(k)
      BY <3>2 DEF AnswerUnderWay
    <3>4. k = 1
      BY <3>1, <3>3
    <3> QED
      BY <2>3, <3>3, <3>4 DEF AnswersCurrent, Settled
  <2> QED
    BY <2>1, <2>2, <2>3
<1> QED
  BY <1>1, SessionInvariant, PTL DEF Spec, SenderCompletionSound

\* Neither side reports the session complete before every file is settled.
THEOREM SessionCompletionIsSound == Spec => SessionCompletionSound
<1>1. SessionInv /\ [Next]_vars
      => [SenderReports("SessionComplete") \/ ReceiverReports("SessionComplete")
          => /\ offered = Len(Files)
             /\ \A i \in 1 .. Len(Files) : Settled(Files[i])]_vars
  <2> SUFFICES ASSUME SessionInv, [Next]_vars,
                      \/ SenderReports("SessionComplete")
                      \/ ReceiverReports("SessionComplete")
               PROVE  AllSettled
    BY DEF AllSettled
  <2>1. CASE SenderReports("SessionComplete")
    <3>1. sState = "WaitFinish"
      BY <2>1, SenderReportsHeader
    <3>2. offered = Len(Files) /\ (offered > 0 => Settled(CurrentFile))
      BY <3>1 DEF SessionInv, SenderOK, FilesSettled
    <3> QED
      BY <3>2, EveryFileSettled DEF SessionInv
  <2>2. CASE ReceiverReports("SessionComplete")
    <3>1. ReceiverReceives
      <4>1. pendingEvents \in Seq(R!ReceiverEvent) /\ ReceiverOK
        BY DEF SessionInv, ReceiverOK
      <4>2. pendingEvents' # pendingEvents
        BY <2>2, <4>1, ReportIsRaised
      <4>3. ~(UNCHANGED rVars)
        BY <4>2 DEF rVars
      <4>4. ~(UNCHANGED vars) /\ ~SenderStep
        BY <4>3 DEF vars, SenderStep, OfferFile, AskToFinish, SenderEvent,
           SenderWrites, SenderReadsFile, SenderReceives
      <4>5. ~R!Abort
        <5>1. "Aborted" \in R!ReceiverEvent
          BY DEF R!ReceiverEvent
        <5> QED
          BY <2>2, <4>1, <5>1, ReportIsRaised DEF R!Abort, R!PushEvent
      <4>6. ~R!PollEvent
        <5>1. ASSUME R!PollEvent
              PROVE  Len(pendingEvents') < Len(pendingEvents)
          BY <4>1, <5>1 DEF R!PollEvent
        <5> QED
          BY <2>2, <4>1, <5>1 DEF ReceiverReports
      <4>7. ~FaultStep
        BY <4>2, <4>3, <4>5 DEF FaultStep, SenderReceivesDamaged,
           SenderTimeout, SenderAborts, ReceiverReceivesDamaged,
           ReceiverTimeout, ReceiverAborts, ReadsStray, R!SubmitGarbled,
           R!RecoverCorruptSubpacket, R!GiveUpOnCorruptSubpacket, R!Timeout
      <4>8. ~(\E n : R!FileWritten(n)) /\ ~(\E n : R!WireWritten(n))
        BY <4>2 DEF R!FileWritten, R!WireWritten
      <4>9. /\ ~SetManual /\ ~Resume /\ ~Decline /\ ~ReceiverEvent
            /\ ~ReceiverWrites /\ ~ReceiverWritesFile
        BY <4>2, <4>6, <4>8 DEF SetManual, R!SetManualFileAccept, Resume,
           R!AcceptFileAt, Decline, R!SkipFile, ReceiverEvent,
           ReceiverWrites, ReceiverWritesFile
      <4> QED
        BY <4>4, <4>7, <4>9 DEF Next, ReceiverStep
    <3>2. 1 \in 1 .. Len(Down) /\ IsFrame(Down[1], {"ZFIN"})
      BY <2>2, <3>1, ReceiverReportsHeader
    <3> QED
      BY <3>2 DEF SessionInv, FinIsTrue
  <2> QED
    BY <2>1, <2>2
<1> QED
  BY <1>1, SessionInvariant, PTL DEF Spec, SessionCompletionSound

\* A file that the user has declined stays as it was on the disk.
THEOREM DeclinedStaysUntouched == Spec => DeclinedUntouched
<1>1. SessionInv /\ [Next]_vars
      => [\A name \in declined : disk'[name] = disk[name]]_vars
  <2> SUFFICES ASSUME SessionInv, [Next]_vars, NEW name \in declined
               PROVE  disk'[name] = disk[name]
    OBVIOUS
  <2>1. [Transfer!Next]_(Transfer!vars)
    BY StepImplements
  <2>2. disk \in [Name -> Seq(Byte)] /\ name \in Name
    <3>1. name \in Begun /\ disk \in [Name -> Seq(Byte)]
      BY DEF SessionInv, WorldOK
    <3> QED
      BY <3>1, FilesAssumption DEF SessionInv, SenderOK, Begun
  <2>3. disk' = disk
        \/ \E new : /\ Transfer!Current \notin declined
                    /\ disk' = [disk EXCEPT ![Transfer!Current] = new]
    BY <2>1 DEF Transfer!Next, Transfer!Offer, Transfer!Restart,
       Transfer!Extend, Transfer!Decline, Transfer!Complete, Transfer!vars
  <2> QED
    BY <2>2, <2>3
<1> QED
  BY <1>1, SessionInvariant, PTL DEF Spec, DeclinedUntouched

\* The session implements module FileTransfer: whatever the link, the timeouts
\* and the users do, files arrive one after the other, from their start or
\* behind what was there, in order and without a gap, and the next one is
\* offered when the last one is settled.
THEOREM SessionTransfersFiles == Spec => TransfersFiles
<1>1. Init => Transfer!Init
  BY DEF Init, Transfer!Init
<1>2. SessionInv /\ [Next]_vars => [Transfer!Next]_(Transfer!vars)
  BY StepImplements
<1> QED
  BY <1>1, <1>2, SessionInvariant, PTL
     DEF Spec, TransfersFiles, Transfer!Spec

-----------------------------------------------------------------------------
(***************************************************************************)
(* Nobody is stuck: what a step leaves of the things a waiting side needs. *)
(***************************************************************************)
SameReading == UNCHANGED <<rState, count, fileActive, subpacketState>>

\* Units are added behind those under way to the receiver, or none; what comes
\* to the sender came before.
DownGrows ==
  /\ Len(Down) \in Nat /\ Len(Down') \in Nat /\ Len(Down) <= Len(Down')
  /\ \A i \in 1 .. Len(Down) : Down'[i] = Down[i]
UpShrinks == \A i \in 1 .. Len(Up') : \E j \in 1 .. Len(Up) : Up'[i] = Up[j]

\* The first n units are gone, at most one, and not one the receiver acts on.
UnitsIgnored(n) ==
  /\ n \in {0, 1} /\ Len(Down) \in Nat /\ n <= Len(Down)
  /\ Len(Down') = Len(Down) - n
  /\ \A i \in 1 .. Len(Down') : Down'[i] = Down[i + n]
  /\ n = 1 => /\ ~EndsFile(1) /\ ~IsFrame(Down[1], {"ZFILE", "ZDATA"})
              /\ IsFrame(Down[1], {"ZFIN"}) => rState # "FileBegin"

\* What the sender adds changes nothing of what is before it.
LEMMA SenderLeaves ==
  ASSUME SameReading, DownGrows, UpShrinks
  PROVE  /\ ReceiverIdle' <=> ReceiverIdle
         /\ R!AwaitsZeof' <=> R!AwaitsZeof
         /\ \A k \in 1 .. Len(Down) : EndsFile(k) => EndsFile(k)'
         /\ \A k \in 1 .. Len(Down) + 1 : ReadyAt(k) => ReadyAt(k)'
         /\ ReadyAt(Len(Down) + 1) => ReadyAt(Len(Down) + 1)'
         /\ FileEnds => FileEnds'
         /\ SessionEnds => SessionEnds'
         /\ FrameComes("ZFILE") => FrameComes("ZFILE")'
         /\ FrameComes("ZDATA") => FrameComes("ZDATA")'
         /\ Comes("ZRPOS")' => Comes("ZRPOS")
         /\ Comes("ZACK")' => Comes("ZACK")
         /\ Comes("ZSKIP")' => Comes("ZSKIP")
         /\ NoAnswer => NoAnswer'
<1>1. UNCHANGED <<rState, count, fileActive, subpacketState>>
  BY DEF SameReading
<1>2. ReceiverIdle' <=> ReceiverIdle
  BY <1>1 DEF ReceiverIdle
<1>3. R!AwaitsZeof' <=> R!AwaitsZeof
  BY <1>1 DEF R!AwaitsZeof
<1>4. ASSUME NEW k \in 1 .. Len(Down)
      PROVE  k \in 1 .. Len(Down') /\ Down'[k] = Down[k]
  BY DEF DownGrows
<1>5. ASSUME NEW k \in 1 .. Len(Down), EndsFile(k)
      PROVE  EndsFile(k)'
  BY <1>1, <1>3, <1>4, <1>5 DEF EndsFile, IsFrame
<1>6. ASSUME NEW k \in 1 .. Len(Down) + 1, ReadyAt(k)
      PROVE  ReadyAt(k)'
  <2>1. CASE rState = "FileBegin"
    BY <1>1, <2>1 DEF ReadyAt
  <2>2. ASSUME NEW i \in 1 .. k - 1, EndsFile(i)
        PROVE  ReadyAt(k)'
    <3>1. i \in 1 .. Len(Down)
      BY <1>6, <2>2 DEF DownGrows
    <3>2. EndsFile(i)'
      BY <1>5, <2>2, <3>1
    <3> QED
      BY <2>2, <3>2 DEF ReadyAt
  <2> QED
    BY <1>6, <2>1, <2>2 DEF ReadyAt
<1>7. ASSUME SessionEnds
      PROVE  SessionEnds'
  <2>1. PICK k \in 1 .. Len(Down) : IsFrame(Down[k], {"ZFIN"}) /\ ReadyAt(k)
    BY <1>7 DEF SessionEnds
  <2>2. k \in 1 .. Len(Down) + 1
    BY DEF DownGrows
  <2>3. ReadyAt(k)' /\ k \in 1 .. Len(Down') /\ IsFrame(Down'[k], {"ZFIN"})
    BY <1>4, <1>6, <2>1, <2>2
  <2> QED
    BY <2>3 DEF SessionEnds
<1>8. ReadyAt(Len(Down) + 1) => ReadyAt(Len(Down) + 1)'
  <2>1. PICK k : k = Len(Down) + 1
    OBVIOUS
  <2>2. k \in 1 .. Len(Down) + 1 /\ \A i \in 1 .. k - 1 : i \in 1 .. (Len(Down') + 1) - 1
    BY <2>1 DEF DownGrows
  <2>3. ReadyAt(k)' => ReadyAt(Len(Down) + 1)'
    BY <2>2 DEF ReadyAt
  <2> QED
    BY <1>6, <2>1, <2>2, <2>3
<1>9. FileEnds => FileEnds'
  BY <1>4, <1>5 DEF FileEnds
<1>10. /\ FrameComes("ZFILE") => FrameComes("ZFILE")'
       /\ FrameComes("ZDATA") => FrameComes("ZDATA")'
  BY <1>4 DEF FrameComes
<1>11. /\ Comes("ZRPOS")' => Comes("ZRPOS")
       /\ Comes("ZACK")' => Comes("ZACK")
       /\ Comes("ZSKIP")' => Comes("ZSKIP")
       /\ NoAnswer => NoAnswer'
  BY DEF Comes, UpShrinks, NoAnswer
<1>12. \A k \in 1 .. Len(Down) : EndsFile(k) => EndsFile(k)'
  BY ONLY <1>5
<1>13. \A k \in 1 .. Len(Down) + 1 : ReadyAt(k) => ReadyAt(k)'
  BY ONLY <1>6
<1>14. SessionEnds => SessionEnds'
  BY ONLY <1>7
<1> QED
  BY ONLY <1>2, <1>3, <1>8, <1>9, <1>10, <1>11, <1>12, <1>13, <1>14

\* What the sender waits for still comes after a header that was not it.
LEMMA StillComes ==
  ASSUME LaneTypes, UpTaken, NEW frame, Up[1].frame # frame
  PROVE  Comes(frame) => Comes(frame)'
<1> SUFFICES ASSUME Comes(frame)
             PROVE  Comes(frame)'
  OBVIOUS
<1>1. PICK i \in 1 .. Len(Up) : Up[i].frame = frame
  BY DEF Comes
<1>2. Len(Up) \in Nat /\ i # 1
  BY <1>1, LanesAreSequences
<1>3. i - 1 \in 1 .. Len(Up') /\ i - 1 \in 1 .. Len(Up) - 1 /\ (i - 1) + 1 = i
  BY <1>2 DEF UpTaken
<1>4. Up'[i - 1] = Up[i]
  BY <1>3 DEF UpTaken
<1> QED
  BY <1>1, <1>3, <1>4 DEF Comes

\* What the receiver says adds to what comes.
LEMMA ComesToo ==
  ASSUME LaneTypes, NEW unit, UpSaid(unit)
  PROVE  /\ Comes(unit.frame)'
         /\ \A frame : Comes(frame) => Comes(frame)'
         /\ \A frame : Comes(frame)' => Comes(frame) \/ frame = unit.frame
         /\ unit.frame \in Answers => ~NoAnswer'
<1>1. /\ Len(Up) \in Nat /\ Len(Up') = Len(Up) + 1
      /\ \A i \in 1 .. Len(Up) : Up'[i] = Up[i]
      /\ Up'[Len(Up) + 1] = unit
  BY LanesAreSequences DEF UpSaid
<1>2. Comes(unit.frame)' /\ (unit.frame \in Answers => ~NoAnswer')
  <2>1. Len(Up) + 1 \in 1 .. Len(Up')
    BY <1>1
  <2> QED
    BY <1>1, <2>1 DEF Comes, NoAnswer
<1>3. ASSUME NEW frame, Comes(frame)
      PROVE  Comes(frame)'
  BY <1>1, <1>3 DEF Comes
<1>4. ASSUME NEW frame, Comes(frame)'
      PROVE  Comes(frame) \/ frame = unit.frame
  <2>1. PICK i \in 1 .. Len(Up') : Up'[i].frame = frame
    BY <1>4 DEF Comes
  <2>2. i \in 1 .. Len(Up) \/ i = Len(Up) + 1
    BY <1>1, <2>1
  <2> QED
    BY <1>1, <2>1, <2>2 DEF Comes
<1> QED
  BY <1>2, <1>3, <1>4

LEMMA NothingComes ==
  ASSUME NoAnswer
  PROVE  ~Comes("ZRPOS") /\ ~Comes("ZACK") /\ ~Comes("ZSKIP")
  BY DEF NoAnswer, Comes, Answers

\* A receiver that acts on nothing and goes on reading leaves what both sides
\* wait for where it is.
LEMMA ReceiverLeaves ==
  ASSUME SameReading, LaneTypes, UpChatters, NEW n, UnitsIgnored(n),
         UNCHANGED <<sState, offered, finishRequested, declined>>,
         OwesHeader' <=> OwesHeader, OwedInv, Retries'
  PROVE  OwedInv'
<1>1. UNCHANGED <<rState, count, fileActive, subpacketState>>
  BY DEF SameReading
<1>2. /\ ReceiverIdle' <=> ReceiverIdle
      /\ R!AwaitsZeof' <=> R!AwaitsZeof
  BY <1>1 DEF ReceiverIdle, R!AwaitsZeof
<1>3. CurrentFile' = CurrentFile
  BY DEF CurrentFile
<1>4. /\ n \in {0, 1} /\ Len(Down) \in Nat /\ n <= Len(Down)
      /\ Len(Down') = Len(Down) - n
      /\ \A i \in 1 .. Len(Down') : Down'[i] = Down[i + n]
  BY DEF UnitsIgnored
<1>5. ASSUME NEW k \in 1 .. Len(Down'), NEW frame
      PROVE  /\ k + n \in 1 .. Len(Down)
             /\ IsFrame(Down'[k], {frame}) <=> IsFrame(Down[k + n], {frame})
  BY <1>4
<1>6. ASSUME NEW k \in 1 .. Len(Down), EndsFile(k)
      PROVE  k - n \in 1 .. Len(Down') /\ EndsFile(k - n)'
  <2>1. k # 1 \/ n = 0
    BY <1>4, <1>6 DEF UnitsIgnored
  <2>2. k - n \in 1 .. Len(Down') /\ (k - n) + n = k
    BY <1>4, <2>1
  <2>3. Down'[k - n] = Down[k]
    BY <1>4, <2>2
  <2> QED
    BY <1>1, <1>2, <1>6, <2>2, <2>3 DEF EndsFile
<1>7. ASSUME NEW k \in 1 .. Len(Down) + 1, ReadyAt(k)
      PROVE  ReadyAt(k - n)'
  <2>1. CASE rState = "FileBegin"
    BY <1>1, <2>1 DEF ReadyAt
  <2>2. ASSUME NEW i \in 1 .. k - 1, EndsFile(i)
        PROVE  ReadyAt(k - n)'
    <3>1. i \in 1 .. Len(Down)
      BY <1>4, <2>2
    <3>2. i - n \in 1 .. Len(Down') /\ EndsFile(i - n)'
      BY <1>6, <2>2, <3>1
    <3>3. i - n \in 1 .. (k - n) - 1
      BY <1>4, <2>2, <3>2
    <3> QED
      BY <3>2, <3>3 DEF ReadyAt
  <2> QED
    BY <1>7, <2>1, <2>2 DEF ReadyAt
<1>8. ReadyAt(Len(Down) + 1) => ReadyAt(Len(Down) + 1)'
  <2>1. (Len(Down) + 1) - n = Len(Down') + 1 /\ Len(Down) + 1 \in 1 .. Len(Down) + 1
    BY <1>4
  <2>2. PICK k \in Nat : k = Len(Down) + 1
    BY <1>4
  <2>3. ReadyAt(k) => ReadyAt(k - n)'
    BY <1>7, <2>1, <2>2
  <2>4. ReadyAt(k - n)' => ReadyAt(Len(Down) + 1)'
    <3>1. k - n = Len(Down') + 1 /\ (k - n) - 1 = (Len(Down') + 1) - 1
      BY <1>4, <2>1, <2>2
    <3> QED
      BY ONLY <3>1 DEF ReadyAt
  <2>5. ReadyAt(Len(Down) + 1) => ReadyAt(k)
    BY <2>2
  <2> QED
    BY <2>3, <2>4, <2>5
<1>9. FileEnds => FileEnds'
  BY <1>6 DEF FileEnds
<1>10. SessionEnds => SessionEnds'
  <2>1. ASSUME SessionEnds
        PROVE  SessionEnds'
    <3>1. PICK k \in 1 .. Len(Down) : IsFrame(Down[k], {"ZFIN"}) /\ ReadyAt(k)
      BY <2>1 DEF SessionEnds
    <3>2. n = 1 => k # 1
      <4>1. ASSUME n = 1, k = 1
            PROVE  FALSE
        BY <3>1, <4>1 DEF ReadyAt, UnitsIgnored
      <4> QED
        BY <4>1
    <3>3. k - n \in 1 .. Len(Down') /\ (k - n) + n = k /\ k \in 1 .. Len(Down) + 1
      BY <1>4, <3>2
    <3>4. ReadyAt(k - n)' /\ IsFrame(Down'[k - n], {"ZFIN"})
      BY <1>4, <1>7, <3>1, <3>3
    <3> QED
      BY <3>3, <3>4 DEF SessionEnds
  <2> QED
    BY <2>1
<1>11. /\ FrameComes("ZFILE") => FrameComes("ZFILE")'
       /\ FrameComes("ZDATA") => FrameComes("ZDATA")'
  <2>1. ASSUME NEW frame \in {"ZFILE", "ZDATA"}, FrameComes(frame)
        PROVE  FrameComes(frame)'
    <3>1. PICK k \in 1 .. Len(Down) : IsFrame(Down[k], {frame})
      BY <2>1 DEF FrameComes
    <3>2. n = 1 => k # 1
      BY <3>1 DEF UnitsIgnored, IsFrame
    <3>3. k - n \in 1 .. Len(Down') /\ (k - n) + n = k
      BY <1>4, <3>2
    <3>4. IsFrame(Down'[k - n], {frame})
      BY <1>4, <3>1, <3>3
    <3> QED
      BY <3>3, <3>4 DEF FrameComes
  <2> QED
    BY <2>1
<1>12. FrameComes("ZDATA")' => FrameComes("ZDATA")
  BY <1>5 DEF FrameComes
<1>13. /\ \A frame : Comes(frame) => Comes(frame)'
       /\ \A frame \in Answers : Comes(frame)' => Comes(frame)
       /\ NoAnswer' => NoAnswer
  <2>1. CASE Up' = Up
    BY <2>1 DEF Comes, NoAnswer
  <2>2. ASSUME NEW unit \in HeaderUnit, UpSaid(unit),
               unit.frame \in {"ZRINIT", "ZNAK", "ZFIN"}
        PROVE  /\ \A frame : Comes(frame) => Comes(frame)'
               /\ \A frame \in Answers : Comes(frame)' => Comes(frame)
               /\ NoAnswer' => NoAnswer
    <3>1. /\ \A frame : Comes(frame) => Comes(frame)'
          /\ \A frame \in Answers : Comes(frame)' => Comes(frame)
      BY <2>2, ComesToo DEF Answers
    <3>2. NoAnswer' => NoAnswer
      BY <3>1 DEF NoAnswer, Comes
    <3> QED
      BY <3>1, <3>2
  <2> QED
    BY <2>1, <2>2 DEF UpChatters
<1>14. FilesGoOn'
  <2>1. sState' \in {"WaitFilePos", "NeedFileData", "WaitFileAck"} => Moving'
    BY <1>2, <1>11, <1>13 DEF OwedInv, FilesGoOn, Moving
  <2>5. ASSUME NEW k \in 1 .. Len(Down'), IsFrame(Down'[k], {"ZFILE"})
        PROVE  rState' = "SessionBegin" \/ ReadyAt(k)'
    <3>1. k + n \in 1 .. Len(Down) /\ IsFrame(Down[k + n], {"ZFILE"})
      BY <1>5, <2>5
    <3>2. rState = "SessionBegin" \/ ReadyAt(k + n)
      BY <3>1 DEF OwedInv, FilesGoOn, FilesTaken
    <3>3. (k + n) - n = k /\ k + n \in 1 .. Len(Down) + 1
      BY <1>4, <3>1
    <3>4. ReadyAt(k + n) => ReadyAt((k + n) - n)'
      BY <1>7, <3>3
    <3>5. ReadyAt((k + n) - n)' => ReadyAt(k)'
      BY <3>3 DEF ReadyAt
    <3> QED
      BY <1>1, <3>2, <3>4, <3>5
  <2>2. FilesTaken'
    BY <2>5 DEF FilesTaken
  <2>3. OwesHeader' \/ FrameComes("ZDATA")' \/ Comes("ZRPOS")' \/ Comes("ZACK")'
        => R!AwaitsZeof'
    BY <1>2, <1>12, <1>13 DEF OwedInv, FilesGoOn, Answers
  <2>4. Comes("ZSKIP")' => rState' = "FileBegin"
    BY <1>1, <1>13 DEF OwedInv, FilesGoOn, Answers
  <2> QED
    BY <2>1, <2>2, <2>3, <2>4 DEF FilesGoOn
<1>15. SenderGoesOnFrom'
  <2>1. /\ UNCHANGED <<sState, offered, finishRequested, declined, rState>>
        /\ SenderGoesOnFrom
    BY <1>1 DEF OwedInv
  <2>2. /\ Comes("ZRINIT") => Comes("ZRINIT")'
        /\ Comes("ZFIN") => Comes("ZFIN")'
    BY <1>13
  <2> QED
    BY ONLY <1>3, <1>8, <1>9, <1>10, <2>1, <2>2 DEF SenderGoesOnFrom
<1>16. ReceiverEnds'
  BY <1>1, <1>2 DEF OwedInv, ReceiverEnds
<1> QED
  BY <1>14, <1>15, <1>16 DEF OwedInv

\* Between the announcement of a file and its end.
LEMMA StaysMoving ==
  ASSUME Retries', sState' \in {"WaitFilePos", "NeedFileData", "WaitFileAck"},
         Moving', FilesTaken', rState' # "SessionEnd",
         OwesHeader' \/ FrameComes("ZDATA")' \/ Comes("ZRPOS")' \/ Comes("ZACK")'
           => R!AwaitsZeof',
         Comes("ZSKIP")' => rState' = "FileBegin"
  PROVE  OwedInv'
<1>1. FilesGoOn'
  BY DEF FilesGoOn
<1>2. SenderGoesOnFrom' /\ ReceiverEnds'
  BY DEF SenderGoesOnFrom, ReceiverEnds
<1> QED
  BY <1>1, <1>2 DEF OwedInv

\* While it is somebody's turn the sender waits for it.
LEMMA TurnIsAwaited ==
  ASSUME SessionInv, OwedInv, ~NoTurn
  PROVE  /\ sState \in {"WaitFilePos", "NeedFileData", "WaitFileAck"}
         /\ rState # "SessionEnd"
<1>1. sState \in {"WaitFilePos", "NeedFileData", "WaitFileAck", "Done"}
  BY DEF SessionInv, SomeTurn, AnnouncementUnderWay, ReadingAnnouncement,
     Deciding, AnswerUnderWay, FrameOwed, OwesHeader, FrameUnderWay,
     ReadingFrame, PersistingData, Sending
<1>2. ASSUME sState = "Done"
      PROVE  FALSE
  <2>1. rState = "SessionEnd" \/ SessionEnds
    BY <1>2 DEF OwedInv, SenderGoesOnFrom
  <2>2. (\A i \in 1 .. Len(Down) : ~IsFrame(Down[i], {"ZFIN"})) => ~SessionEnds
    BY DEF SessionEnds
  <2>3. Len(Down) \in Nat
    BY InvTypesLanes, LanesAreSequences
  <2>4. \A i \in 1 .. Len(Down) : Plain(Down[i]) => ~IsFrame(Down[i], {"ZFIN"})
    BY DEF Plain, IsFrame
  <2>5. \A i \in 1 .. Len(Down) :
          Noise(Down[i]) \/ LiveUnit(Down[i]) \/ Announced(Down[i])
          => Plain(Down[i])
    BY NoiseIsPlain, LiveIsNoFrame, AnnouncedIsNoFrame
  <2>6. \A i \in 1 .. Len(Down) : ~IsFrame(Down[i], {"ZFIN"})
    <3>1. CASE AnnouncementUnderWay
      <4>1. PICK k \in 1 .. Len(Down) :
              /\ IsFrame(Down[k], {"ZFILE"})
              /\ k < Len(Down) /\ Announced(Down[k + 1])
              /\ \A i \in 1 .. k - 1 : ~IsFrame(Down[i], {"ZFILE", "ZDATA", "ZFIN"})
              /\ \A i \in k + 2 .. Len(Down) : Noise(Down[i])
        BY <3>1 DEF AnnouncementUnderWay
      <4>2. TAKE i \in 1 .. Len(Down)
      <4>3. i \in 1 .. k - 1 \/ i = k \/ i = k + 1 \/ i \in k + 2 .. Len(Down)
        BY <2>3
      <4>4. i \in 1 .. k - 1 => ~IsFrame(Down[i], {"ZFIN"})
        BY <4>1 DEF IsFrame
      <4>5. i = k => ~IsFrame(Down[i], {"ZFIN"})
        BY <4>1 DEF IsFrame
      <4>6. i = k + 1 \/ i \in k + 2 .. Len(Down) => ~IsFrame(Down[i], {"ZFIN"})
        BY <2>4, <2>5, <4>1
      <4> QED
        BY <4>3, <4>4, <4>5, <4>6
    <3>2. CASE ReadingAnnouncement
      <4>1. TAKE i \in 1 .. Len(Down)
      <4>2. i = 1 \/ i \in 2 .. Len(Down)
        BY <2>3
      <4>3. Plain(Down[i])
        BY <2>5, <3>2, <4>2 DEF ReadingAnnouncement
      <4> QED
        BY <2>4, <4>3
    <3>3. CASE Deciding \/ AnswerUnderWay \/ FrameOwed
      BY <2>4, <3>3 DEF Deciding, AnswerUnderWay, FrameOwed
    <3>4. CASE FrameUnderWay
      <4>1. PICK k \in 1 .. Len(Down) :
              /\ IsFrame(Down[k], {"ZDATA"})
              /\ \A i \in 1 .. k - 1 : Plain(Down[i])
              /\ RestOfFrame(k + 1)
        BY <3>4 DEF FrameUnderWay
      <4>2. \A i \in k + 1 .. Len(Down) : LiveUnit(Down[i])
        BY <4>1 DEF RestOfFrame
      <4>3. TAKE i \in 1 .. Len(Down)
      <4>4. i \in 1 .. k - 1 \/ i = k \/ i \in k + 1 .. Len(Down)
        BY <2>3
      <4>5. i = k => ~IsFrame(Down[i], {"ZFIN"})
        BY <4>1 DEF IsFrame
      <4> QED
        BY <2>4, <2>5, <4>1, <4>2, <4>4, <4>5
    <3>5. CASE ReadingFrame \/ PersistingData
      BY <2>4, <2>5, <3>5 DEF ReadingFrame, PersistingData, RestOfFrame
    <3> QED
      BY <3>1, <3>2, <3>3, <3>4, <3>5 DEF SessionInv, SomeTurn
  <2>7. rState = "SessionEnd"
    BY <2>1, <2>2, <2>6
  <2>8. /\ ReceiverIdle /\ ~R!AwaitsZeof
        /\ ~OwesHeader /\ ~FrameComes("ZDATA")
        /\ ~Comes("ZRPOS") /\ ~Comes("ZACK") /\ ~Comes("ZSKIP")
    BY <2>7 DEF OwedInv, ReceiverEnds, FilesGoOn, R!AwaitsZeof
  <2>9. \A k \in 1 .. Len(Down) : ~ReadyAt(k)
    BY <2>7, <2>8 DEF ReadyAt, EndsFile
  <2>10. ~FrameComes("ZFILE")
    BY <2>7, <2>9 DEF OwedInv, FilesGoOn, FilesTaken, FrameComes
  <2>11. NoAnswer
    BY <2>8 DEF NoAnswer, Comes, Answers
  <2>12. ~AnnouncementUnderWay /\ ~FrameUnderWay
    BY <2>8, <2>10 DEF AnnouncementUnderWay, FrameUnderWay, FrameComes
  <2>13. ~AnswerUnderWay /\ ~FrameOwed
    BY <2>8, <2>11 DEF AnswerUnderWay, FrameOwed, NoAnswer
  <2>14. ~ReadingAnnouncement /\ ~Deciding /\ ~ReadingFrame /\ ~PersistingData
    BY <2>7, <2>8 DEF ReadingAnnouncement, Deciding, ReadingFrame,
       PersistingData, ReceiverIdle, R!Writing
  <2> QED
    BY <2>12, <2>13, <2>14 DEF SessionInv, SomeTurn
<1>3. rState # "SessionEnd"
  BY <1>1, <1>2 DEF OwedInv, ReceiverEnds
<1> QED
  BY <1>1, <1>2, <1>3

-----------------------------------------------------------------------------
(***************************************************************************)
(* Nobody is stuck: what the sender does leaves something under way.       *)
(***************************************************************************)
LEMMA SaidGrows ==
  ASSUME LaneTypes, NEW units \in Seq(Unit), DownSaid(units)
  PROVE  DownGrows
<1>1. Len(units) \in Nat /\ Len(Down) \in Nat
  BY LanesAreSequences
<1> QED
  BY <1>1 DEF DownSaid, DownGrows

\* The sender goes on waiting for what it waited for.
LEMMA SenderRests ==
  ASSUME SessionInv, OwedInv, Retries', LaneTypes, SameReading,
         DownChatters, UpHeard,
         sState' = sState, declined' = declined, OwesHeader' <=> OwesHeader,
         sState = "ReadyForFile" => UNCHANGED <<offered, finishRequested>>,
         sState = "WaitReceiverInit" =>
           Comes("ZRINIT")' \/ "handshake" \in Damageable,
         sState \in {"WaitFileDone", "WaitFinish"} /\ Comes("ZRINIT") =>
           Comes("ZRINIT")',
         sState = "WaitFinish" /\ Comes("ZFIN") => Comes("ZFIN")'
  PROVE  OwedInv'
<1>1. DownGrows /\ UpShrinks
  BY ChatterBehind, NothingNewUp DEF DownGrows, UpShrinks
<1>2. /\ ReceiverIdle' <=> ReceiverIdle
      /\ R!AwaitsZeof' <=> R!AwaitsZeof
      /\ \A k \in 1 .. Len(Down) + 1 : ReadyAt(k) => ReadyAt(k)'
      /\ ReadyAt(Len(Down) + 1) => ReadyAt(Len(Down) + 1)'
      /\ FileEnds => FileEnds'
      /\ SessionEnds => SessionEnds'
      /\ FrameComes("ZFILE") => FrameComes("ZFILE")'
      /\ FrameComes("ZDATA") => FrameComes("ZDATA")'
      /\ Comes("ZRPOS")' => Comes("ZRPOS")
      /\ Comes("ZACK")' => Comes("ZACK")
      /\ Comes("ZSKIP")' => Comes("ZSKIP")
  BY <1>1, SenderLeaves
<1>3. UNCHANGED <<rState, count, fileActive, subpacketState>>
  BY DEF SameReading
<1>4. ~NoAnswer => ~NoAnswer'
  <2>1. CASE Up' = Up
    BY <2>1 DEF NoAnswer
  <2>2. CASE UpTaken /\ Up[1].frame \notin Answers
    <3>1. \A frame \in Answers : Comes(frame) => Comes(frame)'
      BY <2>2, StillComes
    <3> QED
      BY <3>1 DEF NoAnswer, Comes
  <2> QED
    BY <2>1, <2>2 DEF UpHeard
<1>5. FilesTaken'
  <2>1. ASSUME NEW k \in 1 .. Len(Down'), IsFrame(Down'[k], {"ZFILE"})
        PROVE  rState' = "SessionBegin" \/ ReadyAt(k)'
    <3>1. k \in 1 .. Len(Down) /\ Down'[k] = Down[k]
      BY <2>1, ChatterFrames DEF IsFrame
    <3>2. k \in 1 .. Len(Down) + 1
      BY <1>1, <3>1 DEF DownGrows
    <3> QED
      BY <1>2, <1>3, <2>1, <3>1, <3>2 DEF OwedInv, FilesGoOn, FilesTaken
  <2> QED
    BY <2>1 DEF FilesTaken
<1>6. FrameComes("ZDATA")' => FrameComes("ZDATA")
  BY ChatterFrames DEF FrameComes, IsFrame
<1>7. FilesGoOn'
  BY <1>2, <1>3, <1>4, <1>5, <1>6 DEF OwedInv, FilesGoOn, Moving
<1>8. SenderGoesOnFrom'
  <2>1. SenderGoesOnFrom
    BY DEF OwedInv
  <2>2. sState = "ReadyForFile" => CurrentFile' = CurrentFile
    BY DEF CurrentFile
  <2> QED
    BY <1>2, <1>3, <2>1, <2>2 DEF SenderGoesOnFrom
<1>9. ReceiverEnds'
  BY <1>2, <1>3 DEF OwedInv, ReceiverEnds
<1> QED
  BY <1>7, <1>8, <1>9 DEF OwedInv

\* The sender goes on where nothing comes that is about a file.
LEMMA SenderBetweenOwes ==
  ASSUME Retries', sState' \notin {"WaitFilePos", "NeedFileData", "WaitFileAck"},
         ~OwesHeader', ~FrameComes("ZFILE")', ~FrameComes("ZDATA")', NoAnswer',
         SenderGoesOnFrom', ReceiverEnds'
  PROVE  OwedInv'
<1>1. ~Comes("ZRPOS")' /\ ~Comes("ZACK")' /\ ~Comes("ZSKIP")'
  BY DEF NoAnswer, Comes, Answers
<1>2. FilesTaken'
  BY DEF FilesTaken, FrameComes
<1> QED
  BY <1>1, <1>2 DEF OwedInv, FilesGoOn

\* It announces a file.
LEMMA AnnouncementOwes ==
  ASSUME SessionInv, OwedInv, Retries', LaneTypes, SameReading, UpShrinks,
         sState \in {"WaitReceiverInit", "ReadyForFile"},
         sState' = "WaitFilePos",
         rState = "SessionBegin" \/ ReadyAt(Len(Down) + 1),
         NEW name, NEW size,
         <<Header("ZFILE", 0), Metadata(name, size)>> \in Seq(Unit),
         DownSaid(<<Header("ZFILE", 0), Metadata(name, size)>>)
  PROVE  OwedInv'
<1>1. DownGrows
  BY SaidGrows
<1>2. PICK k : k = Len(Down) + 1
  OBVIOUS
<1>3. /\ Len(Down) \in Nat /\ Len(Down') = Len(Down) + 2
      /\ \A i \in 1 .. Len(Down) : Down'[i] = Down[i]
      /\ Down'[Len(Down) + 1] = Header("ZFILE", 0)
      /\ Down'[Len(Down) + 2] = Metadata(name, size)
  BY TwoMoreUnits
<1>4. k \in 1 .. Len(Down') /\ k \in 1 .. Len(Down) + 1
      /\ Down'[k] = Header("ZFILE", 0) /\ Down'[k + 1] = Metadata(name, size)
  BY <1>2, <1>3
<1>5. IsFrame(Down'[k], {"ZFILE"}) /\ ~IsFrame(Down'[k], {"ZDATA"})
  BY <1>4, HeaderIsUnit DEF Frame, IsFrame
<1>6. NoTurn /\ NoAnswer /\ ~FrameComes("ZFILE") /\ ~FrameComes("ZDATA")
  BY SenderBetweenFiles DEF NoTurn, FrameComes, IsFrame
<1>7. NoAnswer' /\ (rState = "SessionBegin" \/ ReadyAt(k)')
      /\ rState' = rState
  BY <1>1, <1>2, <1>4, <1>6, SenderLeaves DEF SameReading
<1>8. ~Comes("ZRPOS")' /\ ~Comes("ZACK")' /\ ~Comes("ZSKIP")'
  BY <1>7 DEF NoAnswer, Comes, Answers
<1>9. ASSUME NEW i \in 1 .. Len(Down')
      PROVE  i = k \/ (~IsFrame(Down'[i], {"ZFILE"}) /\ ~IsFrame(Down'[i], {"ZDATA"}))
  <2>1. i \in 1 .. Len(Down) \/ i = k \/ i = k + 1
    BY <1>2, <1>3
  <2>2. i \in 1 .. Len(Down)
        => ~IsFrame(Down'[i], {"ZFILE"}) /\ ~IsFrame(Down'[i], {"ZDATA"})
    BY <1>3, <1>6 DEF FrameComes
  <2>3. i = k + 1
        => ~IsFrame(Down'[i], {"ZFILE"}) /\ ~IsFrame(Down'[i], {"ZDATA"})
    BY <1>4 DEF Metadata, IsFrame
  <2> QED
    BY <2>1, <2>2, <2>3
<1>10. FilesTaken' /\ FrameComes("ZFILE")' /\ ~FrameComes("ZDATA")'
  BY <1>4, <1>5, <1>7, <1>9 DEF FilesTaken, FrameComes
<1>11. ~OwesHeader' /\ Moving' /\ rState' # "SessionEnd"
  BY <1>7, <1>10 DEF OwesHeader, Moving, OwedInv, ReceiverEnds
<1> QED
  BY <1>8, <1>10, <1>11, StaysMoving

\* It says that there are no more files.
LEMMA FinishOwes ==
  ASSUME SessionInv, OwedInv, Retries', LaneTypes, SameReading, UpShrinks,
         sState \in {"ReadyForFile", "WaitFileDone"},
         sState' = "WaitFinish",
         ReadyAt(Len(Down) + 1),
         DownSaid(<<Header("ZFIN", 0)>>)
  PROVE  OwedInv'
<1>1. /\ <<Header("ZFIN", 0)>> \in Seq(Unit)
      /\ Header("ZFIN", 0).is = "header" /\ Header("ZFIN", 0).frame = "ZFIN"
  BY HeaderIsUnit DEF Frame
<1>2. DownGrows
  BY <1>1, SaidGrows
<1>3. PICK k : k = Len(Down) + 1
  OBVIOUS
<1>4. /\ Len(Down) \in Nat /\ Len(Down') = Len(Down) + 1
      /\ \A i \in 1 .. Len(Down) : Down'[i] = Down[i]
      /\ Down'[Len(Down) + 1] = Header("ZFIN", 0)
  BY OneMoreUnit
<1>5. k \in 1 .. Len(Down') /\ k \in 1 .. Len(Down) + 1 /\ Down'[k] = Header("ZFIN", 0)
  BY <1>3, <1>4
<1>6. NoTurn /\ NoAnswer /\ ~FrameComes("ZFILE") /\ ~FrameComes("ZDATA")
  BY SenderBetweenFiles DEF NoTurn, FrameComes, IsFrame
<1>7. NoAnswer' /\ ReadyAt(k)' /\ rState' = rState
  BY <1>2, <1>3, <1>5, <1>6, SenderLeaves DEF SameReading
<1>8. SessionEnds'
  BY <1>1, <1>5, <1>7 DEF SessionEnds, IsFrame
<1>9. ASSUME NEW i \in 1 .. Len(Down')
      PROVE  ~IsFrame(Down'[i], {"ZFILE"}) /\ ~IsFrame(Down'[i], {"ZDATA"})
  <2>1. i \in 1 .. Len(Down) \/ i = k
    BY <1>3, <1>4
  <2>2. i \in 1 .. Len(Down)
        => ~IsFrame(Down'[i], {"ZFILE"}) /\ ~IsFrame(Down'[i], {"ZDATA"})
    BY <1>4, <1>6 DEF FrameComes
  <2>3. i = k => ~IsFrame(Down'[i], {"ZFILE"}) /\ ~IsFrame(Down'[i], {"ZDATA"})
    BY <1>1, <1>5 DEF IsFrame
  <2> QED
    BY <2>1, <2>2, <2>3
<1>10. ~FrameComes("ZFILE")' /\ ~FrameComes("ZDATA")'
  BY <1>9 DEF FrameComes
<1>11. ~OwesHeader' /\ SenderGoesOnFrom' /\ ReceiverEnds'
  BY <1>7, <1>8 DEF OwesHeader, SenderGoesOnFrom, ReceiverEnds, OwedInv
<1> QED
  BY <1>7, <1>10, <1>11, SenderBetweenOwes

LEMMA RetriesStay ==
  ASSUME OwedInv, UNCHANGED <<zrposRetries, damage, aborts>>
  PROVE  Retries'
  BY DEF OwedInv, Retries

LEMMA OfferOwes ==
  ASSUME SessionInv, OwedInv, OfferFile
  PROVE  OwedInv'
<1>1. /\ offered < Len(Files) /\ ~sHasFile /\ ~finishRequested
      /\ sState \in {"WaitReceiverInit", "ReadyForFile"}
      /\ sState = "WaitReceiverInit" \/ sOutgoing = <<>>
      /\ offered' = offered + 1
      /\ UNCHANGED <<finishRequested, declined, down, up, rOutgoing,
                     zrposRetries, damage, aborts>>
      /\ SameReading
  BY DEF OfferFile, S!StartFile, S!capVars, rVars, link, budgets, SameReading
<1>2. Retries' /\ LaneTypes
  BY <1>1, RetriesStay, InvTypesLanes
<1>3. Up' = Up /\ up' = up
  BY <1>1 DEF Up
<1>4. CASE sState = "WaitReceiverInit"
  <2>1. sOutgoing' = sOutgoing /\ sState' = sState
    BY <1>1, <1>4 DEF OfferFile, S!StartFile
  <2>2. Down' = Down
    BY <1>1, <2>1 DEF Down
  <2>3. ~OwesHeader /\ ~OwesHeader'
    BY <1>4, <2>1 DEF OwesHeader
  <2>4. Comes("ZRINIT")' \/ "handshake" \in Damageable
    BY <1>3, <1>4 DEF OwedInv, SenderGoesOnFrom, Comes
  <2> QED
    BY <1>1, <1>2, <1>3, <1>4, <2>1, <2>2, <2>3, <2>4, SenderRests
       DEF DownChatters, UpHeard
<1>5. CASE sState = "ReadyForFile"
  <2>1. PICK name \in Name : name = Files[offered + 1]
    BY <1>1, FilesAssumption DEF SessionInv, SenderOK
  <2>2. PICK size \in Nat : size = Len(Content[name])
    BY FilesAssumption
  <2>3. /\ sState' = "WaitFilePos" /\ sOutgoing = <<>>
        /\ sOutgoing' = <<Header("ZFILE", 0), Metadata(name, size)>>
    BY <1>1, <1>5, <2>1, <2>2, SameUnits DEF OfferFile, S!StartFile, S!FileUnits
  <2>4. <<Header("ZFILE", 0), Metadata(name, size)>> \in Seq(Unit)
    <3>1. Header("ZFILE", 0) \in Unit
      BY HeaderIsUnit DEF Frame
    <3>2. Metadata(name, size) \in Unit
      BY DEF Metadata, MetadataUnit, Unit
    <3> QED
      BY <3>1, <3>2
  <2>5. DownSaid(<<Header("ZFILE", 0), Metadata(name, size)>>)
    BY <1>1, <1>2, <2>3, <2>4, SenderSays
  <2>6. rState = "SessionBegin" \/ ReadyAt(Len(Down) + 1)
    BY <1>5 DEF OwedInv, SenderGoesOnFrom
  <2> QED
    BY <1>1, <1>2, <1>3, <1>5, <2>3, <2>4, <2>5, <2>6, AnnouncementOwes
       DEF UpShrinks
<1> QED
  BY <1>1, <1>4, <1>5

LEMMA AskingOwes ==
  ASSUME SessionInv, OwedInv, Files # <<>>, AskToFinish
  PROVE  OwedInv'
<1>1. /\ offered = Len(Files)
      /\ sState = "ReadyForFile" => sOutgoing = <<>>
      /\ UNCHANGED <<frameNeedsHeader, declined, offered, down, up, rOutgoing,
                     zrposRetries, damage, aborts>>
      /\ SameReading
  BY DEF AskToFinish, S!Finish, S!frameVars, rVars, link, world, budgets,
     SameReading
<1>2. Retries' /\ LaneTypes
  BY <1>1, RetriesStay, InvTypesLanes
<1>3. Up' = Up /\ up' = up
  BY <1>1 DEF Up
<1>4. CASE sState = "ReadyForFile"
  <2>1. sOutgoing = <<>> /\ sOutgoing' = <<Header("ZFIN", 0)>>
        /\ sState' = "WaitFinish"
    BY <1>1, <1>4, SameUnits DEF AskToFinish, S!Finish
  <2>2. <<Header("ZFIN", 0)>> \in Seq(Unit)
    BY HeaderIsUnit DEF Frame
  <2>3. DownSaid(<<Header("ZFIN", 0)>>)
    BY <1>1, <1>2, <2>1, <2>2, SenderSays
  <2>4. offered # 0
    BY <1>1, FilesAssumption
  <2>5. ReadyAt(Len(Down) + 1)
    BY <1>4, <2>4 DEF OwedInv, SenderGoesOnFrom
  <2> QED
    BY <1>1, <1>2, <1>3, <1>4, <2>1, <2>3, <2>5, FinishOwes DEF UpShrinks
<1>5. CASE sState # "ReadyForFile"
  <2>1. sOutgoing' = sOutgoing /\ sState' = sState
    BY <1>1, <1>5 DEF AskToFinish, S!Finish
  <2>2. Down' = Down
    BY <1>1, <2>1 DEF Down
  <2>3. OwesHeader' <=> OwesHeader
    BY <1>1, <2>1 DEF OwesHeader
  <2>4. /\ Comes("ZRINIT") => Comes("ZRINIT")'
        /\ Comes("ZFIN") => Comes("ZFIN")'
    BY <1>3 DEF Comes
  <2>5. sState = "WaitReceiverInit" =>
          Comes("ZRINIT")' \/ "handshake" \in Damageable
    BY <2>4 DEF OwedInv, SenderGoesOnFrom
  <2> QED
    BY <1>1, <1>2, <1>3, <1>5, <2>1, <2>2, <2>3, <2>4, <2>5, SenderRests
       DEF DownChatters, UpHeard
<1> QED
  BY <1>4, <1>5

\* Nothing of what both sides wait for changes.
LEMMA NobodyActsOwes ==
  ASSUME SessionInv, OwedInv, Retries', SameReading, Down' = Down, UpChatters,
         UNCHANGED <<sState, frameNeedsHeader, offered, finishRequested,
                     declined>>
  PROVE  OwedInv'
<1>1. LaneTypes /\ Len(Down) \in Nat
  BY InvTypesLanes, LanesAreSequences
<1>2. OwesHeader' <=> OwesHeader
  BY DEF OwesHeader
<1>3. UnitsIgnored(0)
  BY <1>1 DEF UnitsIgnored
<1> QED
  BY <1>1, <1>2, <1>3, ReceiverLeaves

LEMMA SenderWritesOwes ==
  ASSUME SessionInv, OwedInv, SenderEvent \/ SenderWrites
  PROVE  OwedInv'
<1>1. /\ SameReading
      /\ UNCHANGED <<sState, frameNeedsHeader, offered, finishRequested,
                     declined, zrposRetries, damage, aborts, up, rOutgoing>>
  BY DEF SenderEvent, S!PollEvent, SenderWrites, S!WireWritten, S!frameVars,
     rVars, link, world, budgets, SameReading
<1>2. Down' = Down
  <2>1. CASE SenderEvent
    BY <2>1 DEF SenderEvent, S!PollEvent, link, Down
  <2>2. CASE SenderWrites
    <3>1. /\ down' = Append(down, Head(sOutgoing)) /\ LaneTypes
          /\ sOutgoing' = SubSeq(sOutgoing, 1 + 1, Len(sOutgoing))
          /\ 1 \in 1 .. Len(sOutgoing)
      BY <2>2, InvTypesLanes DEF SenderWrites, S!WireWritten
    <3>2. sOutgoing # <<>> /\ sOutgoing' = SubSeq(sOutgoing, 2, Len(sOutgoing))
      BY <3>1 DEF LaneTypes
    <3> QED
      BY <3>1, <3>2, SenderWritesUnit
  <2> QED
    BY <2>1, <2>2
<1>3. Up' = Up
  BY <1>1 DEF Up
<1> QED
  BY <1>1, <1>2, <1>3, RetriesStay, NobodyActsOwes DEF UpChatters

LEMMA PieceOwes ==
  ASSUME SessionInv, OwedInv, SenderReadsFile
  PROVE  OwedInv'
<1>1. /\ sState = "NeedFileData" /\ offered > 0
      /\ sState' \in {"NeedFileData", "WaitFileAck"}
      /\ frameNeedsHeader' = FALSE
      /\ UNCHANGED <<down, up, rOutgoing>>
  BY PieceIsRead
<1>2. PICK n, unit : PieceSaid(n, unit)
  BY PieceIsRead
<1>3. SameReading /\ UNCHANGED <<zrposRetries, damage, aborts>>
  BY DEF SenderReadsFile, rVars, budgets, SameReading
<1>4. Retries' /\ LaneTypes /\ Len(Down) \in Nat
  BY <1>3, RetriesStay, InvTypesLanes, LanesAreSequences
<1>5. Up' = Up /\ UpShrinks
  BY <1>1 DEF Up, UpShrinks
<1>6. unit.is = "subpacket"
  BY <1>2 DEF PieceSaid
<1>7. \A f : ~IsFrame(unit, {f})
  BY <1>6 DEF IsFrame
<1>8. pendingRequest.offset \in Nat
  BY <1>1 DEF SessionInv, SenderOK, S!Request
<1>9. /\ DownGrows
      /\ FrameComes("ZFILE")' => FrameComes("ZFILE")
      /\ FrameComes("ZDATA")' => FrameComes("ZDATA") \/ OwesHeader
      /\ OwesHeader => FrameComes("ZDATA")'
      /\ \A k \in 1 .. Len(Down') : IsFrame(Down'[k], {"ZFILE"}) =>
           k \in 1 .. Len(Down) /\ Down'[k] = Down[k]
  <2>1. CASE frameNeedsHeader
    <3>1. PICK header : header = Header("ZDATA", pendingRequest.offset)
      OBVIOUS
    <3>2. DownSaid(<<header, unit>>)
      BY <1>2, <2>1, <3>1 DEF PieceSaid
    <3>3. /\ Len(Down') = Len(Down) + 2
          /\ \A i \in 1 .. Len(Down) : Down'[i] = Down[i]
          /\ Down'[Len(Down) + 1] = header /\ Down'[Len(Down) + 2] = unit
      BY <1>4, <3>2, TwoMoreUnits
    <3>4. IsFrame(header, {"ZDATA"}) /\ ~IsFrame(header, {"ZFILE"})
      BY <1>8, <3>1, HeaderIsUnit DEF Frame, IsFrame
    <3>5. ASSUME NEW i \in 1 .. Len(Down')
          PROVE  \/ i \in 1 .. Len(Down) /\ Down'[i] = Down[i]
                 \/ Down'[i] = header \/ Down'[i] = unit
      <4>1. i \in 1 .. Len(Down) \/ i = Len(Down) + 1 \/ i = Len(Down) + 2
        BY <1>4, <3>3
      <4> QED
        BY <3>3, <4>1
    <3>6. DownGrows
      BY <1>4, <3>3 DEF DownGrows
    <3>7. FrameComes("ZDATA")' /\ OwesHeader
      <4>1. Len(Down) + 1 \in 1 .. Len(Down')
        BY <1>4, <3>3
      <4> QED
        BY <1>1, <2>1, <3>3, <3>4, <4>1 DEF FrameComes, OwesHeader
    <3>8. \A k \in 1 .. Len(Down') : IsFrame(Down'[k], {"ZFILE"}) =>
            k \in 1 .. Len(Down) /\ Down'[k] = Down[k]
      BY <1>7, <3>4, <3>5
    <3>9. FrameComes("ZFILE")' => FrameComes("ZFILE")
      BY <3>8 DEF FrameComes
    <3> QED
      BY <3>6, <3>7, <3>8, <3>9
  <2>2. CASE ~frameNeedsHeader
    <3>1. DownSaid(<<unit>>)
      BY <1>2, <2>2 DEF PieceSaid
    <3>2. /\ Len(Down') = Len(Down) + 1
          /\ \A i \in 1 .. Len(Down) : Down'[i] = Down[i]
          /\ Down'[Len(Down) + 1] = unit
      BY <1>4, <3>1, OneMoreUnit
    <3>3. ASSUME NEW i \in 1 .. Len(Down')
          PROVE  (i \in 1 .. Len(Down) /\ Down'[i] = Down[i]) \/ Down'[i] = unit
      <4>1. i \in 1 .. Len(Down) \/ i = Len(Down) + 1
        BY <1>4, <3>2
      <4> QED
        BY <3>2, <4>1
    <3>4. DownGrows
      BY <1>4, <3>2 DEF DownGrows
    <3>5. /\ FrameComes("ZFILE")' => FrameComes("ZFILE")
          /\ FrameComes("ZDATA")' => FrameComes("ZDATA")
      BY <1>7, <3>3 DEF FrameComes
    <3>6. ~OwesHeader
      BY <2>2 DEF OwesHeader
    <3>7. \A k \in 1 .. Len(Down') : IsFrame(Down'[k], {"ZFILE"}) =>
            k \in 1 .. Len(Down) /\ Down'[k] = Down[k]
      BY <1>7, <3>3
    <3> QED
      BY <3>4, <3>5, <3>6, <3>7
  <2> QED
    BY <2>1, <2>2
<1>10. /\ ReceiverIdle' <=> ReceiverIdle
       /\ R!AwaitsZeof' <=> R!AwaitsZeof
       /\ \A k \in 1 .. Len(Down) + 1 : ReadyAt(k) => ReadyAt(k)'
       /\ FrameComes("ZFILE") => FrameComes("ZFILE")'
       /\ FrameComes("ZDATA") => FrameComes("ZDATA")'
       /\ Comes("ZRPOS")' => Comes("ZRPOS")
       /\ Comes("ZACK")' => Comes("ZACK")
       /\ Comes("ZSKIP")' => Comes("ZSKIP")
       /\ rState' = rState
  BY <1>3, <1>5, <1>9, SenderLeaves DEF SameReading
<1>11. ~OwesHeader' /\ (NoAnswer' <=> NoAnswer)
  BY <1>1, <1>5 DEF OwesHeader, NoAnswer
<1>12. Moving'
  BY <1>1, <1>9, <1>10, <1>11 DEF OwedInv, FilesGoOn, Moving
<1>13. FilesTaken'
  <2>1. ASSUME NEW k \in 1 .. Len(Down'), IsFrame(Down'[k], {"ZFILE"})
        PROVE  rState' = "SessionBegin" \/ ReadyAt(k)'
    <3>1. k \in 1 .. Len(Down) /\ IsFrame(Down[k], {"ZFILE"})
      BY <1>9, <2>1
    <3>2. k \in 1 .. Len(Down) + 1
      BY <1>4, <3>1
    <3> QED
      BY <1>10, <3>1, <3>2 DEF OwedInv, FilesGoOn, FilesTaken
  <2> QED
    BY <2>1 DEF FilesTaken
<1>14. rState' # "SessionEnd"
  BY <1>1, <1>10 DEF OwedInv, ReceiverEnds
<1>15. /\ OwesHeader' \/ FrameComes("ZDATA")' \/ Comes("ZRPOS")' \/ Comes("ZACK")'
            => R!AwaitsZeof'
       /\ Comes("ZSKIP")' => rState' = "FileBegin"
  BY <1>9, <1>10, <1>11 DEF OwedInv, FilesGoOn
<1> QED
  BY <1>1, <1>4, <1>12, <1>13, <1>14, <1>15, StaysMoving

-----------------------------------------------------------------------------
(***************************************************************************)
(* Nobody is stuck: what the sender hears, misses and waits for.           *)
(***************************************************************************)
\* A header the sender does not act on.
LEMMA DroppedOwes ==
  ASSUME SessionInv, OwedInv, Retries', S!Readable, up # <<>>, up' = Tail(up),
         UNCHANGED <<rVars, down, world>>,
         UNCHANGED <<sState, finishRequested, frameNeedsHeader>>,
         Head(up).frame \notin Answers,
         sState \in {"WaitFileDone", "WaitFinish"} => Head(up).frame # "ZRINIT",
         sState = "WaitFinish" => Head(up).frame # "ZFIN",
         sState = "WaitReceiverInit" =>
           Head(up).frame # "ZRINIT" \/ "handshake" \in Damageable,
         sOutgoing' \in {<<>>, <<Header("ZRQINIT", 0)>>, <<Header("ZNAK", 0)>>}
  PROVE  OwedInv'
<1>1. /\ LaneTypes /\ UpTaken /\ Len(up') = Len(up) - 1 /\ down' = down
      /\ Head(up) = Up[1]
  BY SenderTakes
<1>2. /\ sOutgoing = <<>> /\ ~OwesHeader
      /\ sState \notin {"NeedFileData", "Done"}
  BY WhileReadable
<1>3. DownChatters
  <2>1. CASE sOutgoing' = <<>>
    BY <1>1, <1>2, <2>1 DEF Down, DownChatters
  <2>2. CASE sOutgoing' # <<>>
    BY <1>1, <1>2, <2>2, SaysNoise
  <2> QED
    BY <2>1, <2>2
<1>4. UpHeard /\ SameReading /\ UNCHANGED <<offered, declined>>
  BY <1>1 DEF UpHeard, rVars, world, SameReading
<1>5. OwesHeader' <=> OwesHeader
  BY DEF OwesHeader
<1>6. /\ Head(up).frame # "ZRINIT" /\ Comes("ZRINIT") => Comes("ZRINIT")'
      /\ Head(up).frame # "ZFIN" /\ Comes("ZFIN") => Comes("ZFIN")'
  BY <1>1, StillComes
<1>7. sState = "WaitReceiverInit" =>
        Comes("ZRINIT")' \/ "handshake" \in Damageable
  BY <1>6 DEF OwedInv, SenderGoesOnFrom
<1> QED
  BY <1>1, <1>3, <1>4, <1>5, <1>6, <1>7, SenderRests

\* The session ends for the sender.
LEMMA CompletingOwes ==
  ASSUME SessionInv, OwedInv, Retries', S!Readable, up # <<>>, up' = Tail(up),
         UNCHANGED <<rVars, down, world>>,
         sState = "WaitFinish", S!CompleteSession
  PROVE  OwedInv'
<1>1. /\ LaneTypes /\ down' = down
      /\ \A i \in 1 .. Len(Up') : \E j \in 1 .. Len(Up) : Up'[i] = Up[j]
  BY SenderTakes
<1>2. sOutgoing = <<>> /\ Len(Down) \in Nat
  BY <1>1, WhileReadable, LanesAreSequences
<1>3. /\ sOutgoing' = <<OverAndOut>> /\ sState' = "Done"
      /\ OverAndOut.is # "header" /\ <<OverAndOut>> \in Seq(Unit)
  BY SameUnits DEF S!CompleteSession, OverAndOut, Unit
<1>4. DownSaid(<<OverAndOut>>)
  BY <1>1, <1>2, <1>3, SenderSays
<1>5. SameReading /\ UpShrinks /\ DownGrows /\ rState' = rState
  BY <1>1, <1>3, <1>4, SaidGrows DEF rVars, SameReading, UpShrinks
<1>6. /\ Len(Down') = Len(Down) + 1
      /\ \A i \in 1 .. Len(Down) : Down'[i] = Down[i]
      /\ Down'[Len(Down) + 1] = OverAndOut
  BY <1>1, <1>4, OneMoreUnit
<1>7. NoTurn
  BY SenderBetweenFiles
<1>8. ASSUME NEW i \in 1 .. Len(Down')
      PROVE  ~IsFrame(Down'[i], {"ZFILE"}) /\ ~IsFrame(Down'[i], {"ZDATA"})
  <2>1. i \in 1 .. Len(Down) \/ i = Len(Down) + 1
    BY <1>2, <1>6
  <2>2. i \in 1 .. Len(Down)
        => ~IsFrame(Down'[i], {"ZFILE"}) /\ ~IsFrame(Down'[i], {"ZDATA"})
    BY <1>6, <1>7 DEF NoTurn, IsFrame
  <2>3. i = Len(Down) + 1
        => ~IsFrame(Down'[i], {"ZFILE"}) /\ ~IsFrame(Down'[i], {"ZDATA"})
    BY <1>3, <1>6 DEF IsFrame
  <2> QED
    BY <2>1, <2>2, <2>3
<1>9. /\ NoAnswer' /\ ~OwesHeader'
      /\ ~FrameComes("ZFILE")' /\ ~FrameComes("ZDATA")'
  BY <1>1, <1>3, <1>7, <1>8, NoAnswerStays DEF NoTurn, OwesHeader, FrameComes
<1>10. (SessionEnds => SessionEnds') /\ (ReceiverIdle' <=> ReceiverIdle)
  BY <1>5, SenderLeaves
<1>11. SenderGoesOnFrom' /\ ReceiverEnds'
  BY <1>3, <1>5, <1>7, <1>10
     DEF OwedInv, SenderGoesOnFrom, ReceiverEnds, NoTurn
<1> QED
  BY <1>3, <1>9, <1>11, SenderBetweenOwes

\* The handshake is done, or a file, or the session.
LEMMA ZrinitOwes ==
  ASSUME SessionInv, OwedInv, Retries', Files # <<>>,
         S!Readable, up # <<>>, up' = Tail(up),
         UNCHANGED <<rVars, down, world>>, S!OnZrinit(Head(up))
  PROVE  OwedInv'
<1>1. /\ LaneTypes /\ UpTaken /\ down' = down /\ Head(up) = Up[1]
      /\ \A i \in 1 .. Len(Up') : \E j \in 1 .. Len(Up) : Up'[i] = Up[j]
  BY SenderTakes
<1>2. /\ sOutgoing = <<>> /\ ~OwesHeader
      /\ sState \in {"WaitReceiverInit", "ReadyForFile", "WaitFilePos",
                     "WaitFileAck", "WaitFileDone", "WaitFinish"}
  BY WhileReadable
<1>3. /\ Head(up).frame = "ZRINIT" /\ Head(up).frame \notin Answers
      /\ UNCHANGED <<finishRequested, frameNeedsHeader>>
      /\ SameReading /\ UpShrinks /\ UNCHANGED <<offered, declined, rState>>
      /\ Len(Down) \in Nat
  BY <1>1, LanesAreSequences
     DEF S!OnZrinit, S!frameVars, rVars, world, SameReading, UpShrinks, Answers
<1>4. /\ SenderOK /\ finishRequested \in BOOLEAN /\ sHasFile \in BOOLEAN
      /\ offered \in Nat /\ Len(Files) # 0
  BY FilesAssumption DEF SessionInv, SenderOK
<1>5. CASE /\ sState = "WaitReceiverInit" /\ sHasFile
           /\ sOutgoing' = S!FileUnits(sFileName, sFileSize)
           /\ sState' = "WaitFilePos"
  <2>1. /\ offered > 0 /\ sFileName = CurrentFile
        /\ sFileSize = Len(Content[CurrentFile])
    BY <1>4, <1>5 DEF SenderOK
  <2>2. PICK name \in Name : name = sFileName
    BY <1>4, <2>1, CurrentIsNamed
  <2>3. PICK size \in Nat : size = sFileSize
    BY <1>4, <2>1, CurrentIsNamed
  <2>4. sOutgoing' = <<Header("ZFILE", 0), Metadata(name, size)>>
    BY <1>5, <2>2, <2>3, SameUnits DEF S!FileUnits
  <2>5. <<Header("ZFILE", 0), Metadata(name, size)>> \in Seq(Unit)
    <3>1. Header("ZFILE", 0) \in Unit
      BY HeaderIsUnit DEF Frame
    <3>2. Metadata(name, size) \in Unit
      BY DEF Metadata, MetadataUnit, Unit
    <3> QED
      BY <3>1, <3>2
  <2>6. DownSaid(<<Header("ZFILE", 0), Metadata(name, size)>>)
    BY <1>1, <1>2, <2>4, <2>5, SenderSays
  <2>7. rState = "SessionBegin"
    BY <1>5 DEF OwedInv, SenderGoesOnFrom
  <2> QED
    BY <1>1, <1>3, <1>5, <2>5, <2>6, <2>7, AnnouncementOwes
<1>6. CASE sState = "WaitReceiverInit" /\ ~sHasFile /\ S!FinishOrReady
  <2>1. offered = 0 /\ ~finishRequested
    BY <1>4, <1>6 DEF SenderOK
  <2>2. sState' = "ReadyForFile" /\ sOutgoing' = sOutgoing
    BY <1>6, <2>1 DEF S!FinishOrReady
  <2>3. Down' = Down
    BY <1>1, <2>2 DEF Down
  <2>4. NoTurn
    BY <1>6, SenderBetweenFiles
  <2>5. /\ NoAnswer' /\ ~OwesHeader'
        /\ ~FrameComes("ZFILE")' /\ ~FrameComes("ZDATA")'
    BY <1>1, <2>2, <2>3, <2>4, NoAnswerStays
       DEF NoTurn, OwesHeader, FrameComes, IsFrame
  <2>6. rState' = "SessionBegin"
    BY <1>3, <1>6 DEF OwedInv, SenderGoesOnFrom
  <2>7. SenderGoesOnFrom' /\ ReceiverEnds'
    BY <1>3, <2>1, <2>2, <2>6 DEF SenderGoesOnFrom, ReceiverEnds
  <2> QED
    BY <2>2, <2>5, <2>7, SenderBetweenOwes
<1>7. CASE sState = "WaitFileDone" /\ S!FinishOrReady
  <2>1. ReadyAt(Len(Down) + 1) /\ offered > 0
    BY <1>4, <1>7 DEF OwedInv, SenderGoesOnFrom, SenderOK
  <2>2. CASE finishRequested
    <3>1. sState' = "WaitFinish" /\ sOutgoing' = <<Header("ZFIN", 0)>>
      BY <1>7, <2>2, SameUnits DEF S!FinishOrReady
    <3>2. <<Header("ZFIN", 0)>> \in Seq(Unit)
      BY HeaderIsUnit DEF Frame
    <3>3. DownSaid(<<Header("ZFIN", 0)>>)
      BY <1>1, <1>2, <3>1, <3>2, SenderSays
    <3> QED
      BY <1>1, <1>3, <1>7, <2>1, <3>1, <3>3, FinishOwes
  <2>3. CASE ~finishRequested
    <3>1. sState' = "ReadyForFile" /\ sOutgoing' = sOutgoing
      BY <1>7, <2>3 DEF S!FinishOrReady
    <3>2. Down' = Down
      BY <1>1, <3>1 DEF Down
    <3>3. NoTurn
      BY <1>7, SenderBetweenFiles
    <3>4. /\ NoAnswer' /\ ~OwesHeader'
          /\ ~FrameComes("ZFILE")' /\ ~FrameComes("ZDATA")'
      BY <1>1, <3>1, <3>2, <3>3, NoAnswerStays
         DEF NoTurn, OwesHeader, FrameComes, IsFrame
    <3>5. DownGrows
      BY <1>3, <3>2 DEF DownGrows
    <3>6. ReadyAt(Len(Down) + 1)'
      BY <1>3, <2>1, <3>5, SenderLeaves
    <3>7. SenderGoesOnFrom'
      BY <1>3, <2>1, <2>3, <3>1, <3>6 DEF SenderGoesOnFrom
    <3>8. ReceiverEnds'
      BY <1>3, <1>7, <3>1 DEF OwedInv, ReceiverEnds
    <3> QED
      BY <3>1, <3>4, <3>7, <3>8, SenderBetweenOwes
  <2> QED
    BY <2>2, <2>3
<1>8. CASE sState = "WaitFinish" /\ S!CompleteSession
  BY <1>8, CompletingOwes
<1>9. CASE UNCHANGED <<sState, sOutgoing>>
           /\ sState \notin {"WaitReceiverInit", "WaitFinish", "WaitFileDone"}
  BY <1>2, <1>3, <1>9, DroppedOwes
<1> QED
  BY <1>5, <1>6, <1>7, <1>8, <1>9 DEF S!OnZrinit, S!CompletesFile

\* The receiver asks for the file from the position it has reached.
LEMMA PositionOwes ==
  ASSUME SessionInv, OwedInv, Retries', S!Readable, up # <<>>, up' = Tail(up),
         UNCHANGED <<rVars, down, world>>, S!OnZrpos(Head(up))
  PROVE  OwedInv'
<1>1. /\ LaneTypes /\ UpTaken /\ down' = down /\ Head(up) = Up[1]
      /\ \A i \in 1 .. Len(Up') : \E j \in 1 .. Len(Up) : Up'[i] = Up[j]
  BY SenderTakes
<1>2. /\ sOutgoing = <<>> /\ ~OwesHeader /\ Len(Down) \in Nat
      /\ sState \in {"WaitReceiverInit", "ReadyForFile", "WaitFilePos",
                     "WaitFileAck", "WaitFileDone", "WaitFinish"}
  BY <1>1, WhileReadable, LanesAreSequences
<1>3. Up[1].frame \in Answers /\ Up[1].frame \in {"ZRPOS", "ZACK"}
  BY <1>1 DEF S!OnZrpos, Answers
<1>4. /\ ReceiverIdle /\ NoAnswer'
      /\ sState \in {"WaitFilePos", "NeedFileData", "WaitFileAck", "Done"}
      /\ \A i \in 1 .. Len(Down) : Plain(Down[i])
      /\ AnswersCurrent(1)
  BY <1>1, <1>3, AnswerHasCome
<1>5. Head(up).count = count /\ count \in Nat
  BY <1>1, <1>3, <1>4 DEF AnswersCurrent, SessionInv, ReceiverOK
<1>6. sState \in {"WaitFilePos", "WaitFileAck"}
  BY <1>2, <1>4
<1>7. /\ SameReading /\ UpShrinks
      /\ UNCHANGED <<rState, count, fileActive>>
  BY <1>1 DEF rVars, SameReading, UpShrinks
<1>8. R!AwaitsZeof /\ R!AwaitsZeof' /\ rState # "SessionEnd"
  <2>1. 1 \in 1 .. Len(Up)
    BY <1>1, LanesAreSequences DEF UpTaken
  <2>2. R!AwaitsZeof
    BY <1>3, <2>1 DEF Comes, OwedInv, FilesGoOn
  <2> QED
    BY <1>7, <2>2 DEF R!AwaitsZeof
<1>9. ~Comes("ZRPOS")' /\ ~Comes("ZACK")' /\ ~Comes("ZSKIP")'
  BY <1>4 DEF NoAnswer, Comes, Answers
<1>10. \A i \in 1 .. Len(Down) :
         ~IsFrame(Down[i], {"ZFILE"}) /\ ~IsFrame(Down[i], {"ZDATA"})
  BY <1>4 DEF Plain, IsFrame
<1>11. CASE /\ sOutgoing' = <<Header("ZEOF", Head(up).count)>>
            /\ sState' = "WaitFileDone"
  <2>1. PICK eof : eof = Header("ZEOF", Head(up).count)
    OBVIOUS
  <2>2. /\ <<eof>> \in Seq(Unit) /\ sOutgoing' = <<eof>>
        /\ eof.is = "header" /\ eof.frame = "ZEOF" /\ eof.count = count
    BY <1>5, <1>11, <2>1, HeaderIsUnit DEF Frame
  <2>3. DownSaid(<<eof>>)
    BY <1>1, <1>2, <2>2, SenderSays
  <2>4. /\ Len(Down') = Len(Down) + 1
        /\ \A i \in 1 .. Len(Down) : Down'[i] = Down[i]
        /\ Down'[Len(Down) + 1] = eof
    BY <1>1, <2>3, OneMoreUnit
  <2>5. PICK k \in Nat : k = Len(Down) + 1
    BY <1>2
  <2>6. /\ k \in 1 .. Len(Down') /\ k \in 1 .. (Len(Down') + 1) - 1
        /\ Down'[k] = eof
    BY <1>2, <2>4, <2>5
  <2>7. EndsFile(k)'
    BY <1>7, <1>8, <2>2, <2>6 DEF EndsFile, IsFrame
  <2>8. FileEnds' /\ ReadyAt(Len(Down) + 1)'
    BY <2>6, <2>7 DEF FileEnds, ReadyAt
  <2>9. ASSUME NEW i \in 1 .. Len(Down')
        PROVE  ~IsFrame(Down'[i], {"ZFILE"}) /\ ~IsFrame(Down'[i], {"ZDATA"})
    <3>1. i \in 1 .. Len(Down) \/ i = k
      BY <1>2, <2>4, <2>5
    <3>2. i = k => ~IsFrame(Down'[i], {"ZFILE"}) /\ ~IsFrame(Down'[i], {"ZDATA"})
      BY <2>2, <2>6 DEF IsFrame
    <3> QED
      BY <1>10, <2>4, <3>1, <3>2
  <2>10. ~OwesHeader' /\ ~FrameComes("ZFILE")' /\ ~FrameComes("ZDATA")'
    BY <1>11, <2>9 DEF OwesHeader, FrameComes
  <2>11. SenderGoesOnFrom' /\ ReceiverEnds'
    BY <1>7, <1>8, <1>11, <2>8 DEF SenderGoesOnFrom, ReceiverEnds
  <2> QED
    BY <1>4, <1>11, <2>10, <2>11, SenderBetweenOwes
<1>12. CASE /\ frameNeedsHeader' = TRUE
            /\ sState' = "NeedFileData"
            /\ sOutgoing' = sOutgoing
  <2>1. Down' = Down
    BY <1>1, <1>12 DEF Down
  <2>2. FilesTaken' /\ Moving' /\ rState' # "SessionEnd"
    BY <1>7, <1>8, <1>10, <1>12, <2>1 DEF FilesTaken, Moving, OwesHeader
  <2> QED
    BY <1>8, <1>9, <1>12, <2>2, StaysMoving
<1> QED
  BY <1>6, <1>11, <1>12, SameUnits DEF S!OnZrpos

\* The receiver declines the file.
LEMMA RefusalOwes ==
  ASSUME SessionInv, OwedInv, Retries', S!Readable, up # <<>>, up' = Tail(up),
         UNCHANGED <<rVars, down, world>>, S!OnZskip(Head(up))
  PROVE  OwedInv'
<1>1. /\ LaneTypes /\ UpTaken /\ down' = down /\ Head(up) = Up[1]
  BY SenderTakes
<1>2. /\ sOutgoing = <<>>
      /\ sState \in {"WaitReceiverInit", "ReadyForFile", "WaitFilePos",
                     "WaitFileAck", "WaitFileDone", "WaitFinish"}
  BY WhileReadable
<1>3. Up[1].frame = "ZSKIP" /\ Up[1].frame \in Answers
  BY <1>1 DEF Answers, S!OnZskip
<1>4. /\ NoAnswer' /\ offered > 0
      /\ sState \in {"WaitFilePos", "NeedFileData", "WaitFileAck", "Done"}
      /\ \A i \in 1 .. Len(Down) : Plain(Down[i])
      /\ CurrentFile \in declined
  BY <1>1, <1>3, AnswerHasCome DEF AnswersCurrent
<1>5. sState' = "ReadyForFile" /\ sOutgoing' = sOutgoing
  BY <1>2, <1>4 DEF S!OnZskip
<1>6. /\ UNCHANGED <<rState, offered, declined>> /\ Down' = Down
      /\ CurrentFile' = CurrentFile
  BY <1>1, <1>5 DEF rVars, world, Down, CurrentFile
<1>7. rState = "FileBegin"
  <2>1. 1 \in 1 .. Len(Up)
    BY <1>1, LanesAreSequences DEF UpTaken
  <2> QED
    BY <1>3, <2>1 DEF Comes, OwedInv, FilesGoOn
<1>8. ~OwesHeader' /\ ~FrameComes("ZFILE")' /\ ~FrameComes("ZDATA")'
  BY <1>4, <1>5, <1>6 DEF OwesHeader, FrameComes, Plain, IsFrame
<1>9. offered # 0
  BY <1>4 DEF SessionInv, SenderOK
<1>10. ReadyAt(Len(Down) + 1)'
  BY <1>6, <1>7 DEF ReadyAt
<1>11. SenderGoesOnFrom'
  BY <1>4, <1>5, <1>6, <1>9, <1>10 DEF SenderGoesOnFrom
<1>12. ReceiverEnds'
  BY <1>6, <1>7 DEF ReceiverEnds
<1> QED
  BY <1>4, <1>5, <1>8, <1>11, <1>12, SenderBetweenOwes

LEMMA SenderHearsOwes ==
  ASSUME SessionInv, OwedInv, Files # <<>>, SenderReceives
  PROVE  OwedInv'
<1>1. /\ up # <<>> /\ up' = Tail(up) /\ S!Readable
      /\ UNCHANGED <<rVars, down, world>>
      /\ UNCHANGED <<zrposRetries, damage, aborts>>
      /\ S!SubmitWire(Head(up))
  BY DEF SenderReceives, S!SubmitWire, budgets, rVars
<1>2. Retries'
  BY <1>1, RetriesStay
<1>3. Head(up).frame \in {"ZRINIT", "ZNAK", "ZFIN"} \cup Answers
  BY <1>1, SenderTakes
<1>4. sOutgoing = <<>>
  BY <1>1, WhileReadable
<1>5. CASE S!OnZrinit(Head(up))
  BY <1>1, <1>2, <1>5, ZrinitOwes
<1>6. CASE S!OnZrpos(Head(up))
  BY <1>1, <1>2, <1>6, PositionOwes
<1>7. CASE S!OnZskip(Head(up))
  BY <1>1, <1>2, <1>7, RefusalOwes
<1>8. CASE S!OnAbort(Head(up))
  BY <1>3, <1>8 DEF S!OnAbort, Answers
<1>9. CASE S!OnZfin(Head(up)) /\ sState = "WaitFinish"
  <2>1. S!CompleteSession
    BY <1>9 DEF S!OnZfin
  <2> QED
    BY <1>1, <1>2, <1>9, <2>1, CompletingOwes
<1>10. CASE S!OnZfin(Head(up)) /\ sState # "WaitFinish"
  <2>1. /\ UNCHANGED <<sState, finishRequested, frameNeedsHeader>>
        /\ sOutgoing' = <<>>
    BY <1>4, <1>10 DEF S!OnZfin, S!frameVars
  <2>2. Head(up).frame = "ZFIN" /\ Head(up).frame \notin Answers
    BY <1>10 DEF S!OnZfin, Answers
  <2> QED
    BY <1>1, <1>2, <1>10, <2>1, <2>2, DroppedOwes
<1>11. CASE S!OnOther(Head(up))
  <2>1. /\ UNCHANGED <<sState, finishRequested, frameNeedsHeader>>
        /\ sOutgoing' \in {<<>>, <<Header("ZRQINIT", 0)>>}
    BY <1>4, <1>11, SameUnits DEF S!OnOther, S!QueueZrqinit, S!frameVars
  <2>2. /\ Head(up).frame \notin {"ZRINIT", "ZFIN"}
        /\ Head(up).frame \notin Answers
    BY <1>11 DEF S!OnOther, Answers
  <2> QED
    BY <1>1, <1>2, <2>1, <2>2, DroppedOwes
<1> QED
  BY <1>1, <1>5, <1>6, <1>7, <1>8, <1>9, <1>10, <1>11 DEF S!SubmitWire

LEMMA RetriesSpent ==
  ASSUME OwedInv, damage > 0, damage' = damage - 1,
         UNCHANGED <<zrposRetries, aborts>>
  PROVE  Retries'
<1>1. /\ zrposRetries \in Nat /\ damage \in Nat /\ MaxDamage \in Nat
      /\ zrposRetries + damage <= MaxDamage /\ aborts = 0
  BY SessionLimitsAssumption DEF OwedInv, Retries
<1>2. damage' \in Nat /\ zrposRetries + damage' <= MaxDamage
  BY <1>1
<1> QED
  BY <1>1, <1>2 DEF Retries

\* Only headers of the handshake get lost on the way to the sender.
LEMMA SenderMissesOwes ==
  ASSUME SessionInv, OwedInv, Forgiving, SenderReceivesDamaged
  PROVE  OwedInv'
<1>1. /\ up # <<>> /\ up' = Tail(up) /\ S!Readable
      /\ UNCHANGED <<rVars, down, world>>
      /\ UNCHANGED <<zrposRetries, aborts>>
      /\ damage > 0 /\ damage' = damage - 1
      /\ SortOf(Head(up)) \in Damageable
      /\ UNCHANGED <<sState, finishRequested, frameNeedsHeader>>
      /\ sOutgoing' = <<S!Header("ZNAK", 0)>> \/ sOutgoing' = sOutgoing
  BY DEF SenderReceivesDamaged, MayDamage, S!SubmitGarbled, S!frameVars,
     sVars, rVars
<1>2. Retries'
  BY <1>1, RetriesSpent
<1>3. Head(up).is = "header"
  BY <1>1, SenderTakes DEF HeaderUnit
<1>4. sState = "WaitReceiverInit" /\ "handshake" \in Damageable
  BY <1>1, <1>3 DEF SortOf, Forgiving
<1>5. sOutgoing' \in {<<>>, <<Header("ZNAK", 0)>>}
  BY <1>1, WhileReadable, SameUnits
<1>6. Head(up).frame \notin Answers
  <2>1. UpTaken /\ Head(up) = Up[1]
    BY <1>1, SenderTakes
  <2>2. Up[1].frame \in Answers => sState # "WaitReceiverInit"
    BY <1>1, <2>1, AnswerHasCome
  <2> QED
    BY <1>4, <2>1, <2>2
<1> QED
  BY <1>1, <1>2, <1>4, <1>5, <1>6, DroppedOwes

LEMMA SenderTimesOutOwes ==
  ASSUME SessionInv, OwedInv, SenderTimeout
  PROVE  OwedInv'
<1>1. /\ UNCHANGED <<up, rOutgoing, down, sState, frameNeedsHeader, offered,
                     finishRequested, declined, zrposRetries, damage, aborts>>
      /\ SameReading
      /\ sOutgoing = <<>> /\ sOutgoing' = <<Header("ZRQINIT", 0)>>
      /\ sState = "WaitReceiverInit"
  BY SameUnits DEF SenderTimeout, S!Timeout, S!frameVars, rVars, world, link,
     SameReading
<1>2. LaneTypes /\ Retries'
  BY <1>1, InvTypesLanes, RetriesStay
<1>3. DownChatters
  BY <1>1, <1>2, SaysNoise
<1>4. Up' = Up
  BY <1>1 DEF Up
<1>5. /\ Comes("ZRINIT") => Comes("ZRINIT")'
      /\ OwesHeader' <=> OwesHeader
  BY <1>1, <1>4 DEF Comes, OwesHeader
<1>6. Comes("ZRINIT")' \/ "handshake" \in Damageable
  BY <1>1, <1>5 DEF OwedInv, SenderGoesOnFrom
<1> QED
  BY <1>1, <1>2, <1>3, <1>4, <1>5, <1>6, SenderRests DEF UpHeard

-----------------------------------------------------------------------------
(***************************************************************************)
(* Nobody is stuck: what the receiver says, and what it only drops.        *)
(***************************************************************************)
\* The receiver says nothing of the files, or writes what it has said.
LEMMA ReceiverSaysOwes ==
  ASSUME SessionInv, OwedInv,
         SetManual \/ ReceiverEvent \/ ReceiverWrites \/ ReceiverTimeout
  PROVE  OwedInv'
<1>1. /\ SameReading
      /\ UNCHANGED <<sVars, down, offered, declined, zrposRetries, damage,
                     aborts>>
  BY DEF SetManual, R!SetManualFileAccept, ReceiverEvent, R!PollEvent,
     ReceiverWrites, R!WireWritten, ReceiverTimeout, R!Timeout, R!fileVars,
     link, world, budgets, SameReading
<1>2. UNCHANGED <<sState, frameNeedsHeader, finishRequested, sOutgoing>>
  BY <1>1 DEF sVars
<1>3. Down' = Down /\ Retries' /\ LaneTypes
  BY <1>1, <1>2, RetriesStay, InvTypesLanes DEF Down
<1>4. UpChatters
  <2>1. CASE SetManual \/ ReceiverEvent
    BY <2>1 DEF SetManual, R!SetManualFileAccept, ReceiverEvent, R!PollEvent,
       link, Up, UpChatters
  <2>2. CASE ReceiverWrites
    <3>1. /\ 1 \in 1 .. Len(rOutgoing)
          /\ rOutgoing' = SubSeq(rOutgoing, 1 + 1, Len(rOutgoing))
          /\ up' = Append(up, Head(rOutgoing))
      BY <2>2 DEF ReceiverWrites, R!WireWritten
    <3>2. rOutgoing # <<>> /\ rOutgoing' = SubSeq(rOutgoing, 2, Len(rOutgoing))
      BY <1>3, <3>1 DEF LaneTypes
    <3>3. Up' = Up
      BY <1>3, <3>1, <3>2, ReceiverWritesUnit
    <3> QED
      BY <3>3 DEF UpChatters
  <2>3. CASE ReceiverTimeout
    <3>1. rOutgoing = <<>> /\ rOutgoing' = <<R!OwnZrinit>> /\ up' = up
      BY <2>3 DEF ReceiverTimeout, R!Timeout, link
    <3>2. UpSaid(R!OwnZrinit)
      BY <1>3, <3>1, ReceiverReplies, ReceiverSays
    <3> QED
      BY <3>2, ReceiverReplies DEF UpChatters
  <2> QED
    BY <2>1, <2>2, <2>3
<1> QED
  BY <1>1, <1>2, <1>3, <1>4, NobodyActsOwes

\* It takes a unit and acts on nothing.
LEMMA UnitDroppedOwes ==
  ASSUME SessionInv, OwedInv, Retries', down # <<>>, down' = Tail(down),
         SameReading, UNCHANGED <<sVars, up, offered, declined>>, UpChatters,
         ~EndsFile(1), ~IsFrame(Down[1], {"ZFILE", "ZDATA"}),
         IsFrame(Down[1], {"ZFIN"}) => rState # "FileBegin"
  PROVE  OwedInv'
<1>1. /\ LaneTypes
      /\ Len(Down) \in Nat /\ Len(Down) >= 1 /\ Len(Down') = Len(Down) - 1
      /\ \A i \in 1 .. Len(Down') :
           i + 1 \in 2 .. Len(Down) /\ Down'[i] = Down[i + 1]
  BY ReceiverTakes
<1>2. UnitsIgnored(1)
  BY <1>1 DEF UnitsIgnored
<1>3. /\ UNCHANGED <<sState, finishRequested>>
      /\ OwesHeader' <=> OwesHeader
  BY DEF sVars, OwesHeader
<1> QED
  BY <1>1, <1>2, <1>3, ReceiverLeaves

\* Bytes that are no header are none of its business.
LEMMA StrayOwes ==
  ASSUME SessionInv, OwedInv, Retries', down # <<>>, down' = Tail(down),
         ReadsStray \/ (R!ReadableAsHeader /\ UNCHANGED rVars),
         UNCHANGED <<sVars, up, offered, declined>>,
         \/ Head(down).is # "header"
         \/ sState = "WaitReceiverInit"
  PROVE  OwedInv'
<1>1. R!ReadableAsHeader /\ SameReading
  BY DEF ReadsStray, R!SubmitGarbled, R!fileVars, rVars, SameReading
<1>2. /\ LaneTypes /\ Head(down) = Down[1] /\ 1 \in 1 .. Len(Down)
  BY ReceiverTakes
<1>3. UpChatters
  <2>1. rOutgoing = <<>>
    BY <1>1 DEF R!ReadableAsHeader, R!Blocked
  <2>2. rOutgoing' = rOutgoing \/ rOutgoing' = <<R!Header("ZNAK", 0)>>
    BY DEF ReadsStray, R!SubmitGarbled, R!Answer, rVars
  <2>3. CASE rOutgoing' = rOutgoing
    BY <2>3 DEF Up, UpChatters
  <2>4. CASE rOutgoing' = <<R!Header("ZNAK", 0)>>
    <3>1. UpSaid(R!Header("ZNAK", 0))
      BY <1>2, <2>1, <2>4, ReceiverReplies, ReceiverSays
    <3> QED
      BY <3>1, ReceiverReplies DEF UpChatters
  <2> QED
    BY <2>2, <2>3, <2>4
<1>4. /\ ~EndsFile(1) /\ ~IsFrame(Down[1], {"ZFILE", "ZDATA"})
      /\ ~IsFrame(Down[1], {"ZFIN"})
  <2>1. CASE Head(down).is # "header"
    BY <1>2, <2>1 DEF EndsFile, IsFrame
  <2>2. CASE sState = "WaitReceiverInit"
    <3>1. NoTurn
      BY <2>2, SenderBetweenFiles
    <3> QED
      BY <1>2, <2>2, <3>1 DEF SessionInv, EofIsTrue, FinIsTrue, NoTurn, EndsFile
  <2> QED
    BY <2>1, <2>2
<1> QED
  BY <1>1, <1>3, <1>4, UnitDroppedOwes

\* While the receiver does something it is somebody's turn.
LEMMA BusyIsTurn == ~ReceiverIdle \/ ~NoAnswer => ~NoTurn
  BY DEF NoTurn

\* What it will only drop begins nothing.
LEMMA PlainOwes ==
  ASSUME \A i \in 1 .. Len(Down') : Plain(Down'[i])
  PROVE  ~FrameComes("ZFILE")' /\ ~FrameComes("ZDATA")' /\ FilesTaken'
<1>1. \A i \in 1 .. Len(Down') :
        ~IsFrame(Down'[i], {"ZFILE"}) /\ ~IsFrame(Down'[i], {"ZDATA"})
  BY DEF Plain, IsFrame
<1> QED
  BY <1>1 DEF FrameComes, FilesTaken

\* It is busy with the current file, and says nothing of it.
LEMMA BusyOwes ==
  ASSUME Retries', sState' \in {"WaitFilePos", "NeedFileData", "WaitFileAck"},
         ~ReceiverIdle', ~OwesHeader', NoAnswer', rState' # "SessionEnd",
         \A i \in 1 .. Len(Down') : Plain(Down'[i])
  PROVE  OwedInv'
<1>1. ~FrameComes("ZDATA")' /\ FilesTaken' /\ Moving'
  BY PlainOwes DEF Moving
<1>2. ~Comes("ZRPOS")' /\ ~Comes("ZACK")' /\ ~Comes("ZSKIP")'
  BY DEF NoAnswer, Comes, Answers
<1> QED
  BY <1>1, <1>2, StaysMoving

\* It answers for the current file.
LEMMA AnsweringOwes ==
  ASSUME Retries', sState' \in {"WaitFilePos", "NeedFileData", "WaitFileAck"},
         LaneTypes, NoAnswer, NEW unit, unit.frame \in Answers, UpSaid(unit),
         ~OwesHeader',
         \A i \in 1 .. Len(Down') : Plain(Down'[i]),
         IF unit.frame = "ZSKIP" THEN rState' = "FileBegin" ELSE R!AwaitsZeof'
  PROVE  OwedInv'
<1>1. ~FrameComes("ZDATA")' /\ FilesTaken'
  BY PlainOwes
<1>2. /\ ~NoAnswer'
      /\ \A frame : Comes(frame)' => Comes(frame) \/ frame = unit.frame
  BY ComesToo
<1>3. /\ Comes("ZRPOS")' \/ Comes("ZACK")' => R!AwaitsZeof'
      /\ Comes("ZSKIP")' => rState' = "FileBegin"
  BY <1>2, NothingComes
<1>4. rState' # "SessionEnd" /\ Moving'
  BY <1>2 DEF R!AwaitsZeof, Moving
<1> QED
  BY <1>1, <1>3, <1>4, StaysMoving

-----------------------------------------------------------------------------
(***************************************************************************)
(* Nobody is stuck: the headers the receiver acts on.                      *)
(***************************************************************************)
\* It never ignores an announcement, a frame, or the end of either.
LEMMA HeaderDropsOwes ==
  ASSUME SessionInv, OwedInv, ReceiverReceives, Head(down).is = "header",
         R!SubmitHeader(Head(down)),
         R!OnZrqinitOrEarlyData(Head(down)) \/ R!Ignored(Head(down))
  PROVE  OwedInv'
<1> DEFINE h == Head(down)
<1>1. /\ down # <<>> /\ down' = Tail(down) /\ rOutgoing = <<>>
      /\ UNCHANGED <<sVars, up, offered, declined, zrposRetries, damage, aborts>>
      /\ SameReading
      /\ rOutgoing' = rOutgoing \/ rOutgoing' = <<R!OwnZrinit>>
  BY DEF ReceiverReceives, R!SubmitHeader, R!OnZrqinitOrEarlyData, R!Ignored,
     R!Stay, R!Answer, R!bufVars, budgets, R!ReadableAsHeader, R!Blocked,
     SameReading
<1>2. LaneTypes /\ h = Down[1] /\ 1 \in 1 .. Len(Down)
  BY <1>1, ReceiverTakes
<1>3. Retries'
  BY <1>1, RetriesStay
<1>4. UpChatters
  <2>1. CASE rOutgoing' = rOutgoing
    BY <1>1, <2>1 DEF Up, UpChatters
  <2>2. CASE rOutgoing' = <<R!OwnZrinit>>
    <3>1. UpSaid(R!OwnZrinit)
      BY <1>1, <1>2, <2>2, ReceiverReplies, ReceiverSays
    <3> QED
      BY <3>1, ReceiverReplies DEF UpChatters
  <2> QED
    BY <1>1, <2>1, <2>2
<1> HIDE DEF h
<1>5. IsFrame(Down[1], {"ZDATA"}) =>
        rState \in {"FileWaitingSubpacket", "FileBegin"}
  <2>1. IsFrame(Down[1], {"ZDATA"}) => FrameComes("ZDATA")
    BY <1>2 DEF FrameComes
  <2> QED
    BY <2>1 DEF OwedInv, FilesGoOn, R!AwaitsZeof
<1>6. IsFrame(Down[1], {"ZFILE"}) => rState \in {"SessionBegin", "FileBegin"}
  <2>1. ReadyAt(1) => rState = "FileBegin"
    BY DEF ReadyAt
  <2> QED
    BY <1>2, <2>1 DEF OwedInv, FilesGoOn, FilesTaken
<1>7. CASE R!OnZrqinitOrEarlyData(h)
  <2>1. h.frame \in {"ZRQINIT", "ZDATA"} /\ rState = "SessionBegin"
    BY <1>7 DEF R!OnZrqinitOrEarlyData
  <2>2. h.frame # "ZDATA"
    BY <1>2, <1>5, <2>1 DEF IsFrame, h
  <2>3. /\ ~EndsFile(1) /\ ~IsFrame(Down[1], {"ZFILE", "ZDATA"})
        /\ ~IsFrame(Down[1], {"ZFIN"})
    BY <1>2, <2>1, <2>2 DEF EndsFile, IsFrame
  <2> QED
    BY <1>1, <1>3, <1>4, <2>3, UnitDroppedOwes
<1>8. CASE R!Ignored(h)
  <2>1. /\ h.frame = "ZFILE" => rState \notin {"SessionBegin", "FileBegin"}
        /\ h.frame = "ZDATA" =>
             rState \notin {"SessionBegin", "FileBegin", "FileWaitingSubpacket"}
        /\ h.frame = "ZEOF" => ~(R!AwaitsZeof /\ h.count = count)
        /\ h.frame = "ZFIN" => rState # "FileBegin"
    BY <1>8 DEF R!Ignored
  <2>2. /\ ~EndsFile(1) /\ ~IsFrame(Down[1], {"ZFILE", "ZDATA"})
        /\ IsFrame(Down[1], {"ZFIN"}) => rState # "FileBegin"
    BY <1>2, <1>5, <1>6, <2>1 DEF EndsFile, IsFrame
  <2> QED
    BY <1>1, <1>3, <1>4, <2>2, UnitDroppedOwes
<1> QED
  BY <1>7, <1>8 DEF h

\* The announcement of a file, or a frame, has come.
LEMMA DataBeginsOwes ==
  ASSUME SessionInv, OwedInv, ReceiverReceives, Head(down).is = "header",
         R!SubmitHeader(Head(down)),
         R!OnZfile(Head(down)) \/ R!OnZdata(Head(down))
  PROVE  OwedInv'
<1>1. /\ down # <<>> /\ down' = Tail(down) /\ R!ReadableAsHeader
      /\ UNCHANGED <<sVars, up, offered, zrposRetries, damage, aborts>>
  BY DEF ReceiverReceives, R!SubmitHeader, budgets
<1>2. /\ LaneTypes /\ Head(down) = Down[1] /\ 1 \in 1 .. Len(Down)
      /\ Len(Down) \in Nat /\ Len(Down') = Len(Down) - 1
      /\ \A i \in 1 .. Len(Down') :
           i + 1 \in 2 .. Len(Down) /\ Down'[i] = Down[i + 1]
  BY <1>1, ReceiverTakes
<1>3. IsFrame(Down[1], {"ZFILE"}) \/ IsFrame(Down[1], {"ZDATA"})
  BY <1>2 DEF R!OnZfile, R!OnZdata, IsFrame
<1>4. ~NoTurn
  BY <1>2, <1>3 DEF NoTurn, IsFrame
<1>5. sState \in {"WaitFilePos", "NeedFileData", "WaitFileAck"}
  BY <1>4, TurnIsAwaited
<1>6. /\ NoAnswer /\ ~OwesHeader
      /\ \A i \in 2 .. Len(Down) : Plain(Down[i])
      /\ rState' \in {"FileReadingMetadata", "FileReadingSubpacket"}
      /\ subpacketState' = R!Reading /\ rOutgoing' = rOutgoing
  <2>1. CASE IsFrame(Down[1], {"ZFILE"})
    <3>1. /\ AnnouncementUnderWay /\ 1 < Len(Down) /\ Announced(Down[2])
          /\ \A i \in 3 .. Len(Down) : Noise(Down[i])
      BY <1>1, <1>2, <2>1, BeginsTurn
    <3>2. ASSUME NEW i \in 2 .. Len(Down)
          PROVE  Plain(Down[i])
      <4>1. i = 2 \/ i \in 3 .. Len(Down)
        BY <1>2
      <4> QED
        BY <3>1, <4>1, AnnouncedIsNoFrame, NoiseIsPlain
    <3>3. NoAnswer /\ ~OwesHeader
      BY <3>1 DEF AnnouncementUnderWay, OwesHeader
    <3>4. R!OnZfile(Head(down))
      BY <1>2, <2>1 DEF R!OnZdata, IsFrame
    <3> QED
      BY <3>2, <3>3, <3>4 DEF R!OnZfile, R!SilentlyEnter
  <2>2. CASE IsFrame(Down[1], {"ZDATA"})
    <3>1. FrameUnderWay /\ Down[1].count = count /\ RestOfFrame(2)
      BY <1>1, <1>2, <2>2, BeginsTurn
    <3>2. \A i \in 2 .. Len(Down) : Plain(Down[i])
      BY <3>1, LiveIsNoFrame DEF RestOfFrame
    <3>3. NoAnswer /\ ~OwesHeader
      BY <3>1 DEF FrameUnderWay, Sending
    <3>4. R!OnZdata(Head(down)) /\ R!Matches(Head(down))
      BY <1>2, <2>2, <3>1 DEF R!OnZfile, R!Matches, IsFrame
    <3> QED
      BY <3>2, <3>3, <3>4 DEF R!OnZdata, R!SilentlyEnter
  <2> QED
    BY <1>3, <2>1, <2>2
<1>7. /\ Retries' /\ sState' = sState /\ ~OwesHeader' /\ NoAnswer'
      /\ \A i \in 1 .. Len(Down') : Plain(Down'[i])
  <2>1. Retries'
    BY <1>1, RetriesStay
  <2>2. sState' = sState /\ ~OwesHeader'
    BY <1>1, <1>6 DEF sVars, OwesHeader
  <2>3. NoAnswer'
    BY <1>1, <1>6 DEF Up, NoAnswer
  <2> QED
    BY <1>2, <1>6, <2>1, <2>2, <2>3
<1>8. ~ReceiverIdle' /\ rState' # "SessionEnd"
  BY <1>6 DEF ReceiverIdle
<1> QED
  BY <1>5, <1>7, <1>8, BusyOwes

\* The file ends; the sender may be ahead already.
LEMMA FileEndsOwes ==
  ASSUME SessionInv, OwedInv, ReceiverReceives, Head(down).is = "header",
         R!SubmitHeader(Head(down)), R!OnZeof(Head(down))
  PROVE  OwedInv'
<1>1. /\ down # <<>> /\ down' = Tail(down) /\ R!ReadableAsHeader
      /\ rOutgoing = <<>> /\ rOutgoing' = <<R!OwnZrinit>>
      /\ UNCHANGED <<sVars, up, offered, declined, zrposRetries, damage, aborts,
                     subpacketState>>
      /\ R!AwaitsZeof /\ rState' = "FileBegin" /\ fileActive' = FALSE
  BY DEF ReceiverReceives, R!SubmitHeader, R!OnZeof, R!Answer, budgets,
     R!ReadableAsHeader, R!Blocked
<1>2. /\ LaneTypes /\ Head(down) = Down[1] /\ 1 \in 1 .. Len(Down)
      /\ Len(Down) \in Nat /\ Len(Down') = Len(Down) - 1
      /\ \A i \in 1 .. Len(Down') :
           i + 1 \in 2 .. Len(Down) /\ Down'[i] = Down[i + 1]
  BY <1>1, ReceiverTakes
<1>3. IsFrame(Down[1], {"ZEOF"})
  BY <1>2 DEF R!OnZeof, IsFrame
<1>4. /\ UNCHANGED <<sState, frameNeedsHeader, finishRequested>>
      /\ CurrentFile' = CurrentFile
      /\ sState # "WaitReceiverInit" /\ Retries'
  BY <1>1, <1>2, <1>3, RetriesStay
     DEF sVars, CurrentFile, SessionInv, EofIsTrue
<1>5. UpSaid(R!OwnZrinit) /\ UpChatters /\ Comes("ZRINIT")'
  <2>1. UpSaid(R!OwnZrinit)
    BY <1>1, <1>2, ReceiverReplies, ReceiverSays
  <2> QED
    BY <1>2, <2>1, ReceiverReplies, ComesToo DEF UpChatters
<1>6. ReceiverIdle /\ NoAnswer /\ ~OwesHeader /\ ~FrameComes("ZDATA")
  <2>1. ~Plain(Down[1])
    BY <1>3 DEF Plain, IsFrame
  <2>2. CASE NoTurn
    BY <2>2 DEF NoTurn, FrameComes, IsFrame
  <2>3. CASE AnnouncementUnderWay
    <3>1. PICK k \in 1 .. Len(Down) :
            /\ IsFrame(Down[k], {"ZFILE"})
            /\ k < Len(Down) /\ Announced(Down[k + 1])
            /\ \A i \in 1 .. k - 1 : ~IsFrame(Down[i], {"ZFILE", "ZDATA", "ZFIN"})
            /\ \A i \in k + 2 .. Len(Down) : Noise(Down[i])
      BY <2>3 DEF AnnouncementUnderWay
    <3>2. ASSUME NEW i \in 1 .. Len(Down)
          PROVE  ~IsFrame(Down[i], {"ZDATA"})
      <4>1. i \in 1 .. k - 1 \/ i = k \/ i = k + 1 \/ i \in k + 2 .. Len(Down)
        BY <1>2
      <4>2. i \in 1 .. k - 1 \/ i = k => ~IsFrame(Down[i], {"ZDATA"})
        BY <3>1 DEF IsFrame
      <4>3. i = k + 1 \/ i \in k + 2 .. Len(Down) => Plain(Down[i])
        BY <3>1, AnnouncedIsNoFrame, NoiseIsPlain
      <4> QED
        BY <4>1, <4>2, <4>3 DEF Plain, IsFrame
    <3> QED
      BY <2>3, <3>2 DEF AnnouncementUnderWay, OwesHeader, FrameComes
  <2>4. CASE FrameUnderWay
    <3>1. PICK k \in 1 .. Len(Down) :
            /\ IsFrame(Down[k], {"ZDATA"})
            /\ \A i \in 1 .. k - 1 : Plain(Down[i])
      BY <2>4 DEF FrameUnderWay
    <3>2. k # 1 /\ (k # 1 => 1 \in 1 .. k - 1)
      BY <1>3, <3>1 DEF IsFrame
    <3> QED
      BY <2>1, <3>1, <3>2
  <2> QED
    BY <1>1, <1>2, <2>1, <2>2, <2>3, <2>4, ReadsHeaders
       DEF Deciding, AnswerUnderWay, FrameOwed
<1>7. /\ ReceiverIdle' /\ NoAnswer' /\ ~OwesHeader' /\ ~R!AwaitsZeof'
      /\ ~Comes("ZRPOS")' /\ ~Comes("ZACK")'
  <2>1. ReceiverIdle' /\ ~OwesHeader' /\ ~R!AwaitsZeof'
    BY <1>1, <1>4, <1>6 DEF ReceiverIdle, OwesHeader, R!AwaitsZeof
  <2>2. NoAnswer'
    BY <1>2, <1>5, <1>6, SameAnswers
  <2> QED
    BY <2>1, <2>2 DEF NoAnswer, Comes, Answers
<1>8. /\ FrameComes("ZFILE") => FrameComes("ZFILE")'
      /\ ~FrameComes("ZDATA")'
      /\ \A k \in 1 .. Len(Down) + 1 : ReadyAt(k)'
      /\ ReadyAt(Len(Down) + 1)'
  <2>1. ASSUME FrameComes("ZFILE")
        PROVE  FrameComes("ZFILE")'
    <3>1. PICK k \in 1 .. Len(Down) : IsFrame(Down[k], {"ZFILE"})
      BY <2>1 DEF FrameComes
    <3>2. k # 1
      BY <1>3, <3>1 DEF IsFrame
    <3>3. k - 1 \in 1 .. Len(Down') /\ (k - 1) + 1 = k
      BY <1>2, <3>2
    <3> QED
      BY <1>2, <3>1, <3>3 DEF FrameComes
  <2>2. ~FrameComes("ZDATA")'
    <3>1. ASSUME NEW k \in 1 .. Len(Down'), IsFrame(Down'[k], {"ZDATA"})
          PROVE  FALSE
      <4>1. k + 1 \in 1 .. Len(Down) /\ IsFrame(Down[k + 1], {"ZDATA"})
        BY <1>2, <3>1
      <4> QED
        BY <1>6, <4>1 DEF FrameComes
    <3> QED
      BY <3>1 DEF FrameComes
  <2> QED
    BY <1>1, <2>1, <2>2 DEF ReadyAt
<1>9. FilesGoOn'
  <2>1. FilesTaken'
    BY <1>1 DEF FilesTaken, ReadyAt
  <2>2. sState' \in {"WaitFilePos", "NeedFileData", "WaitFileAck"} => Moving'
    BY <1>4, <1>6, <1>8 DEF OwedInv, FilesGoOn, Moving
  <2> QED
    BY <1>1, <1>7, <1>8, <2>1, <2>2 DEF FilesGoOn
<1>10. SenderGoesOnFrom'
  <2>1. ASSUME sState \in {"WaitFinish", "Done"}
        PROVE  SessionEnds'
    <3>1. SessionEnds
      BY <1>1, <2>1 DEF OwedInv, SenderGoesOnFrom, R!AwaitsZeof
    <3>2. PICK k \in 1 .. Len(Down) : IsFrame(Down[k], {"ZFIN"})
      BY <3>1 DEF SessionEnds
    <3>3. k # 1
      BY <1>3, <3>2 DEF IsFrame
    <3>4. k - 1 \in 1 .. Len(Down') /\ (k - 1) + 1 = k /\ k - 1 \in 1 .. Len(Down) + 1
      BY <1>2, <3>3
    <3>5. IsFrame(Down'[k - 1], {"ZFIN"})
      BY <1>2, <3>2, <3>4
    <3> QED
      BY <1>8, <3>4, <3>5 DEF SessionEnds
  <2>2. sState = "ReadyForFile" => offered # 0
    BY <1>1 DEF OwedInv, SenderGoesOnFrom, R!AwaitsZeof
  <2>3. sState = "ReadyForFile" /\ finishRequested =>
          offered > 0 /\ CurrentFile \in declined
    BY DEF OwedInv, SenderGoesOnFrom
  <2>4. UNCHANGED <<sState, offered, finishRequested, declined, CurrentFile>>
    BY <1>1, <1>4
  <2> QED
    BY ONLY <1>4, <1>5, <1>8, <2>1, <2>2, <2>3, <2>4 DEF SenderGoesOnFrom
<1>11. ReceiverEnds'
  BY <1>1 DEF ReceiverEnds
<1> QED
  BY <1>4, <1>9, <1>10, <1>11 DEF OwedInv

\* The session ends, and the sender is told.
LEMMA SessionEndsOwes ==
  ASSUME SessionInv, OwedInv, ReceiverReceives, Head(down).is = "header",
         R!SubmitHeader(Head(down)), R!OnZfin(Head(down))
  PROVE  OwedInv'
<1>1. /\ down # <<>> /\ down' = Tail(down)
      /\ rOutgoing = <<>> /\ rOutgoing' = <<R!Header("ZFIN", 0)>>
      /\ UNCHANGED <<sVars, up, offered, zrposRetries, damage, aborts,
                     subpacketState>>
      /\ rState # "SessionEnd" /\ rState' = "SessionEnd"
  BY DEF ReceiverReceives, R!SubmitHeader, R!OnZfin, R!Answer, budgets,
     R!ReadableAsHeader, R!Blocked
<1>2. /\ LaneTypes /\ Head(down) = Down[1] /\ 1 \in 1 .. Len(Down)
      /\ Len(Down) \in Nat /\ Len(Down') = Len(Down) - 1
      /\ \A i \in 1 .. Len(Down') :
           i + 1 \in 2 .. Len(Down) /\ Down'[i] = Down[i + 1]
  BY <1>1, ReceiverTakes
<1>3. sState \in {"WaitFinish", "Done"} /\ Retries'
  <2>1. IsFrame(Down[1], {"ZFIN"})
    BY <1>2 DEF R!OnZfin, IsFrame
  <2> QED
    BY <1>1, <1>2, <2>1, RetriesStay DEF SessionInv, FinIsTrue
<1>4. NoTurn
  BY <1>3, TurnIsAwaited
<1>5. UpSaid(R!Header("ZFIN", 0)) /\ UpChatters
  <2>1. UpSaid(R!Header("ZFIN", 0))
    BY <1>1, <1>2, ReceiverReplies, ReceiverSays
  <2> QED
    BY <2>1, ReceiverReplies DEF UpChatters
<1>6. NoAnswer' /\ Comes("ZFIN")'
  BY <1>2, <1>4, <1>5, ReceiverReplies, ComesToo, SameAnswers DEF NoTurn
<1>7. sState' = sState /\ ~OwesHeader'
  BY <1>1, <1>3 DEF sVars, OwesHeader
<1>8. ~FrameComes("ZFILE")' /\ ~FrameComes("ZDATA")'
  <2>1. ASSUME NEW i \in 1 .. Len(Down')
        PROVE  ~IsFrame(Down'[i], {"ZFILE"}) /\ ~IsFrame(Down'[i], {"ZDATA"})
    <3>1. i + 1 \in 1 .. Len(Down) /\ Down'[i] = Down[i + 1]
      BY <1>2
    <3> QED
      BY <1>4, <3>1 DEF NoTurn, IsFrame
  <2> QED
    BY <2>1 DEF FrameComes
<1>9. SenderGoesOnFrom' /\ ReceiverEnds'
  <2>1. ReceiverIdle'
    BY <1>1, <1>4 DEF NoTurn, ReceiverIdle
  <2> QED
    BY <1>1, <1>3, <1>6, <1>7, <2>1 DEF SenderGoesOnFrom, ReceiverEnds
<1> QED
  BY <1>3, <1>6, <1>7, <1>8, <1>9, SenderBetweenOwes

-----------------------------------------------------------------------------
(***************************************************************************)
(* Nobody is stuck: the data the receiver reads, misses and persists.      *)
(***************************************************************************)
LEMMA AnnouncementReadOwes ==
  ASSUME SessionInv, OwedInv, ReceiverReceives, Head(down).is = "metadata",
         R!SubmitMetadata(Head(down).name, Head(down).size)
  PROVE  OwedInv'
<1>1. /\ down # <<>> /\ down' = Tail(down) /\ R!ReadableAsData
      /\ rState = "FileReadingMetadata" /\ rOutgoing = <<>>
      /\ UNCHANGED <<sVars, up, offered, zrposRetries, damage, aborts>>
      /\ \/ /\ manualAccept /\ rState' = "FileAcceptPending"
            /\ rOutgoing' = rOutgoing
         \/ /\ ~manualAccept /\ rState' = "FileBegin" /\ fileActive' = TRUE
            /\ rOutgoing' = <<R!Header("ZRPOS", 0)>>
  BY DEF ReceiverReceives, R!SubmitMetadata, R!Answer, R!ReadableAsData,
     R!Blocked, budgets
<1>2. /\ LaneTypes /\ Len(Down) \in Nat /\ Len(Down') = Len(Down) - 1
      /\ \A i \in 1 .. Len(Down') :
           i + 1 \in 2 .. Len(Down) /\ Down'[i] = Down[i + 1]
  BY <1>1, ReceiverTakes
<1>3. ReadingAnnouncement /\ ~NoTurn
  BY <1>1, ReadsData, BusyIsTurn DEF ReadingAnnouncement, ReceiverIdle
<1>4. /\ sState = "WaitFilePos" /\ sState' = sState /\ Retries'
      /\ ~OwesHeader' /\ NoAnswer
  BY <1>1, <1>3, TurnIsAwaited, RetriesStay
     DEF ReadingAnnouncement, sVars, OwesHeader
<1>5. \A i \in 1 .. Len(Down') : Plain(Down'[i])
  <2>1. \A i \in 2 .. Len(Down) : Plain(Down[i])
    BY <1>3, NoiseIsPlain DEF ReadingAnnouncement
  <2> QED
    BY <1>2, <2>1
<1>6. CASE rState' = "FileAcceptPending" /\ rOutgoing' = rOutgoing
  <2>1. NoAnswer' /\ ~ReceiverIdle' /\ rState' # "SessionEnd"
    BY <1>1, <1>4, <1>6 DEF Up, NoAnswer, ReceiverIdle
  <2> QED
    BY <1>4, <1>5, <2>1, BusyOwes
<1>7. CASE /\ rState' = "FileBegin" /\ fileActive' = TRUE
           /\ rOutgoing' = <<R!Header("ZRPOS", 0)>>
  <2>1. PICK unit \in HeaderUnit : unit.frame = "ZRPOS" /\ rOutgoing' = <<unit>>
    BY <1>7, AnswerIsUnit DEF Answers
  <2>2. UpSaid(unit) /\ R!AwaitsZeof'
    BY <1>1, <1>2, <1>7, <2>1, ReceiverSays DEF R!AwaitsZeof
  <2> QED
    BY <1>2, <1>4, <1>5, <2>1, <2>2, AnsweringOwes DEF Answers
<1> QED
  BY <1>1, <1>6, <1>7

\* A subpacket of a frame carries some data.
LEMMA PieceIsSome ==
  ASSUME SessionInv, ReadingFrame, Len(Down) \in Nat, Len(Down) >= 1,
         Down[1].is = "subpacket"
  PROVE  Down[1].data # <<>>
<1>1. /\ Content[CurrentFile] \in Seq(Byte) /\ Len(Content[CurrentFile]) \in Nat
  BY CurrentIsNamed DEF ReadingFrame, Taken, SessionInv
<1>2. DataFrom(1, count) /\ count \in Nat
  BY DEF ReadingFrame, SessionInv, ReceiverOK
<1>3. PICK to \in 0 .. Len(Content[CurrentFile]) :
        /\ count < to
        /\ Down[1].data = SubSeq(Content[CurrentFile], count + 1, to)
  BY <1>1, <1>2, NextPiece
<1>4. PICK n \in Nat : count + n = to /\ n >= 1
  <2>1. /\ to \in Nat /\ count \in Nat /\ count < to
        /\ to <= Len(Content[CurrentFile])
    BY <1>1, <1>2, <1>3
  <2>2. to - count \in Nat /\ to - count >= 1 /\ count + (to - count) = to
    BY ONLY <2>1
  <2> QED
    BY <2>2
<1>5. Len(SubSeq(Content[CurrentFile], count + 1, count + n)) = n
  BY <1>1, <1>2, <1>3, <1>4, PieceOf
<1>6. Len(Down[1].data) = n /\ Len(<<>>) = 0
  BY <1>3, <1>4, <1>5
<1> QED
  BY <1>4, <1>6

LEMMA DataReadOwes ==
  ASSUME SessionInv, OwedInv, ReceiverReceives, Head(down).is = "subpacket",
         R!SubmitData(Head(down).kind, Head(down).data)
  PROVE  OwedInv'
<1>1. /\ down # <<>> /\ down' = Tail(down) /\ R!ReadableAsData
      /\ rState = "FileReadingSubpacket"
      /\ UNCHANGED <<sVars, up, offered, disk, declined, pendingEvents,
                     manualAccept, damage, aborts>>
      /\ completed' = IF ReceiverReports("FileComplete")
                      THEN completed \cup {rFileName} ELSE completed
      /\ rFileName' = rFileName
      /\ Head(down).data # <<>> =>
           /\ subpacketState' = R!Writing(Head(down).kind)
           /\ UNCHANGED <<rState, rOutgoing, zrposRetries>>
  BY DEF ReceiverReceives, R!SubmitData, R!FinishSubpacket, R!fileVars, budgets
<1>2. completed' = completed
  BY <1>1, ReportIsRaised DEF SessionInv
<1>3. /\ ReadingFrame /\ Down[1].is = "subpacket"
      /\ Len(Down) \in Nat /\ Len(Down) >= 1
      /\ \A i \in 1 .. Len(Down') : Plain(Down'[i])
      /\ sState' = sState /\ ~OwesHeader'
  BY <1>1, <1>2, FrameUnitTaken
<1>4. Head(down) = Down[1] /\ Down[1].data # <<>>
  BY <1>1, <1>3, ReceiverTakes, PieceIsSome
<1>5. /\ sState \in {"WaitFilePos", "NeedFileData", "WaitFileAck"}
      /\ NoAnswer /\ Retries'
  <2>1. ~NoTurn /\ NoAnswer
    BY <1>3, BusyIsTurn DEF ReadingFrame, ReceiverIdle
  <2> QED
    BY <1>1, <1>4, <2>1, TurnIsAwaited, RetriesStay
<1>6. NoAnswer' /\ ~ReceiverIdle' /\ rState' # "SessionEnd"
  BY <1>1, <1>4, <1>5 DEF Up, NoAnswer, ReceiverIdle, R!Writing
<1> QED
  BY <1>3, <1>5, <1>6, BusyOwes

LEMMA RepairOwes ==
  ASSUME SessionInv, OwedInv, ReceiverReceivesDamaged, R!RecoverCorruptSubpacket
  PROVE  OwedInv'
<1>1. /\ down # <<>> /\ down' = Tail(down) /\ R!ReadableAsData
      /\ rState = "FileReadingSubpacket" /\ rOutgoing = <<>>
      /\ UNCHANGED <<sVars, up, offered, disk, declined, completed,
                     pendingEvents, manualAccept, rFileName, aborts>>
      /\ rOutgoing' = <<R!Header("ZRPOS", count)>>
      /\ rState' = "FileWaitingSubpacket"
      /\ zrposRetries' = zrposRetries + 1
      /\ damage > 0 /\ damage' = damage - 1
  BY DEF ReceiverReceivesDamaged, MayDamage, R!RecoverCorruptSubpacket,
     R!fileVars, R!Answer, world, R!ReadableAsData, R!Blocked
<1>2. /\ ReadingFrame /\ LaneTypes /\ up' = up
      /\ \A i \in 1 .. Len(Down') : Plain(Down'[i])
      /\ sState' = sState /\ ~OwesHeader'
  BY <1>1, FrameUnitTaken
<1>3. /\ sState \in {"WaitFilePos", "NeedFileData", "WaitFileAck"}
      /\ NoAnswer
  BY <1>2, BusyIsTurn, TurnIsAwaited DEF ReadingFrame, ReceiverIdle
<1>4. Retries'
  <2>1. /\ zrposRetries \in Nat /\ damage \in Nat /\ MaxDamage \in Nat
        /\ zrposRetries + damage <= MaxDamage /\ aborts = 0
    BY SessionLimitsAssumption DEF OwedInv, Retries
  <2>2. /\ zrposRetries' \in Nat /\ damage' \in Nat
        /\ zrposRetries' + damage' <= MaxDamage
    BY <1>1, <2>1
  <2> QED
    BY <1>1, <2>1, <2>2 DEF Retries
<1>5. PICK unit \in HeaderUnit : unit.frame = "ZRPOS" /\ rOutgoing' = <<unit>>
  BY <1>1, AnswerIsUnit DEF Answers, SessionInv, ReceiverOK
<1>6. UpSaid(unit) /\ R!AwaitsZeof'
  BY <1>1, <1>2, <1>5, ReceiverSays DEF R!AwaitsZeof
<1> QED
  BY <1>2, <1>3, <1>4, <1>5, <1>6, AnsweringOwes DEF Answers

\* It never has to ask for the data so often that it gives up.
LEMMA NeverGivesUp ==
  ASSUME SessionInv, OwedInv, Forgiving, ReceiverReceivesDamaged
  PROVE  /\ Head(down).is = "header" => sState = "WaitReceiverInit"
         /\ Head(down).is # "metadata"
         /\ Head(down).is = "subpacket" =>
              \A kind : ~R!GiveUpOnCorruptSubpacket(kind)
<1>1. /\ down # <<>> /\ damage > 0 /\ SortOf(Head(down)) \in Damageable
      /\ down' = Tail(down) /\ UNCHANGED <<sVars, offered>>
  BY DEF ReceiverReceivesDamaged, MayDamage, world
<1>2. SortOf(Head(down)) \in {"handshake", "subpacket"}
  BY <1>1 DEF Forgiving
<1>3. Head(down).is = "subpacket" =>
        \A kind : ~R!GiveUpOnCorruptSubpacket(kind)
  <2>1. ASSUME Head(down).is = "subpacket",
               NEW kind, R!GiveUpOnCorruptSubpacket(kind)
        PROVE  FALSE
    <3>1. R!ReadableAsData /\ Head(down) = Down[1]
      BY <1>1, <2>1, ReceiverTakes DEF R!GiveUpOnCorruptSubpacket
    <3>2. CASE zrposRetries >= MaxZrposRetries
      <4>1. /\ zrposRetries \in Nat /\ damage \in Nat
            /\ MaxDamage \in Nat /\ MaxZrposRetries \in Nat
            /\ zrposRetries + damage <= MaxDamage
            /\ MaxDamage <= MaxZrposRetries
        BY SessionLimitsAssumption DEF OwedInv, Retries, Forgiving
      <4> QED
        BY <1>1, <3>2, <4>1
    <3>3. CASE rState \in {"FileReadingMetadata", "SinitReadingData"}
      <4>1. ReadingAnnouncement
        BY <3>1, <3>3, ReadsData
      <4> QED
        BY <2>1, <3>1, <4>1, AnnouncedIsNoFrame DEF ReadingAnnouncement
    <3> QED
      BY <2>1, <3>2, <3>3 DEF R!GiveUpOnCorruptSubpacket
  <2> QED
    BY <2>1
<1> QED
  BY <1>2, <1>3 DEF SortOf

LEMMA ReceiverMissesOwes ==
  ASSUME SessionInv, OwedInv, Forgiving, ReceiverReceivesDamaged
  PROVE  OwedInv'
<1>1. /\ down # <<>> /\ down' = Tail(down) /\ damage > 0 /\ damage' = damage - 1
      /\ UNCHANGED <<sVars, up, offered, declined, aborts>>
  BY DEF ReceiverReceivesDamaged, MayDamage, world
<1>2. CASE ReadsStray
  <2>1. UNCHANGED zrposRetries
    BY <1>2 DEF ReadsStray, R!SubmitGarbled, rVars
  <2>2. Retries'
    BY <1>1, <2>1, RetriesSpent
  <2> QED
    BY <1>1, <1>2, <2>2, NeverGivesUp, StrayOwes
<1>3. CASE R!RecoverCorruptSubpacket
  BY <1>3, RepairOwes
<1> QED
  BY <1>2, <1>3, NeverGivesUp DEF ReceiverReceivesDamaged

\* The user decides: the answer is on its way.
LEMMA DecisionOwes ==
  ASSUME SessionInv, OwedInv, Resume \/ Decline
  PROVE  OwedInv'
<1>1. /\ rState = "FileAcceptPending" /\ rOutgoing = <<>>
      /\ rState' = "FileBegin"
      /\ UNCHANGED <<sVars, down, up, offered, zrposRetries, damage, aborts>>
      /\ \/ /\ fileActive' = TRUE
            /\ rOutgoing' = <<R!Header("ZRPOS", Len(disk[rFileName]))>>
         \/ rOutgoing' = <<R!Header("ZSKIP", 0)>>
  BY DEF Resume, R!AcceptFileAt, Decline, R!SkipFile, R!Refusal, link, world,
     budgets
<1>2. Deciding
  BY <1>1, UserDecides
<1>3. LaneTypes /\ NoAnswer /\ Down' = Down /\ Retries'
  BY <1>1, <1>2, InvTypesLanes, RetriesStay DEF Deciding, Down, sVars
<1>4. sState = "WaitFilePos" /\ sState' = sState /\ ~OwesHeader'
  BY <1>1, <1>2, BusyIsTurn, TurnIsAwaited
     DEF Deciding, ReceiverIdle, sVars, OwesHeader
<1>5. \A i \in 1 .. Len(Down') : Plain(Down'[i])
  BY <1>2, <1>3 DEF Deciding
<1>6. Len(disk[rFileName]) \in Nat
  BY <1>2, CurrentIsNamed, DiskTyped DEF Deciding, Taken, SessionInv
<1>7. PICK unit \in HeaderUnit :
        /\ unit.frame \in Answers /\ rOutgoing' = <<unit>>
        /\ unit.frame # "ZSKIP" => fileActive' = TRUE
  BY <1>1, <1>6, AnswerIsUnit DEF Answers
<1>8. UpSaid(unit) /\ (unit.frame # "ZSKIP" => R!AwaitsZeof')
  BY <1>1, <1>3, <1>7, ReceiverSays DEF R!AwaitsZeof
<1> QED
  BY <1>1, <1>3, <1>4, <1>5, <1>7, <1>8, AnsweringOwes

\* Data is persisted: more of the frame is to come, or it is acknowledged.
LEMMA PersistingOwes ==
  ASSUME SessionInv, OwedInv, ReceiverWritesFile
  PROVE  OwedInv'
<1>1. PICK n \in 1 .. Len(R!DrainFile) : R!FileWritten(n)
  BY DEF ReceiverWritesFile
<1>2. R!DrainFile # <<>>
  <2>1. Len(R!DrainFile) # 0 /\ Len(<<>>) = 0
    BY <1>1
  <2> QED
    BY <2>1
<1>3. /\ rOutgoing = <<>>
      /\ UNCHANGED <<sVars, down, up, offered, declined, damage, aborts>>
  BY <1>1 DEF R!FileWritten, ReceiverWritesFile, link, budgets
<1>4. /\ Down' = Down /\ LaneTypes
      /\ UNCHANGED <<sState, frameNeedsHeader, finishRequested>>
  BY <1>3, InvTypesLanes DEF Down, sVars
<1>5. PersistingData /\ ~NoTurn
  BY <1>2, DataIsOffered, BusyIsTurn DEF PersistingData, ReceiverIdle, R!Writing
<1>6. /\ sState \in {"WaitFilePos", "NeedFileData", "WaitFileAck"}
      /\ rState = "FileReadingSubpacket" /\ NoAnswer /\ ~OwesHeader'
      /\ subpacketState.kind \in {"ZCRCG", "ZCRCW"}
  BY <1>4, <1>5, TurnIsAwaited
     DEF PersistingData, R!Writing, Sending, OwesHeader
<1>7. \A i \in 1 .. Len(Down') : Plain(Down'[i])
  BY <1>4, <1>5, LiveIsNoFrame DEF PersistingData, RestOfFrame
<1>8. CASE UNCHANGED <<rState, count, subpacketState, rOutgoing, zrposRetries>>
  <2>1. SameReading
    BY <1>1, <1>8 DEF R!FileWritten, SameReading
  <2>2. Up' = Up /\ Retries'
    BY <1>3, <1>8, RetriesStay DEF Up
  <2> QED
    BY <1>3, <1>4, <2>1, <2>2, NobodyActsOwes DEF UpChatters
<1>9. CASE R!FinishSubpacket(subpacketState.kind, Len(buf))
  <2>1. Retries'
    <3>1. /\ zrposRetries \in Nat /\ damage \in Nat /\ MaxDamage \in Nat
          /\ zrposRetries + damage <= MaxDamage /\ aborts = 0
          /\ zrposRetries' = 0
      BY <1>9, SessionLimitsAssumption DEF OwedInv, Retries, R!FinishSubpacket
    <3>2. 0 \in Nat /\ 0 + damage <= MaxDamage
      BY <3>1
    <3> QED
      BY <1>3, <3>1, <3>2 DEF Retries
  <2>2. CASE subpacketState.kind = "ZCRCG"
    <3>1. /\ subpacketState' = R!Reading /\ rState' = rState
          /\ rOutgoing' = rOutgoing
      BY <1>9, <2>2 DEF R!FinishSubpacket
    <3>2. NoAnswer' /\ ~ReceiverIdle' /\ rState' # "SessionEnd"
      BY <1>3, <1>6, <3>1 DEF Up, NoAnswer, ReceiverIdle
    <3> QED
      BY <1>4, <1>6, <1>7, <2>1, <3>2, BusyOwes
  <2>3. CASE subpacketState.kind = "ZCRCW"
    <3>1. /\ rOutgoing' = <<R!Header("ZACK", count + Len(buf))>>
          /\ rState' = "FileWaitingSubpacket"
      BY <1>9, <2>3 DEF R!FinishSubpacket, R!Acknowledgement, R!Advanced
    <3>2. count + Len(buf) \in Nat
      BY DEF SessionInv, ReceiverOK
    <3>3. PICK unit \in HeaderUnit : unit.frame = "ZACK" /\ rOutgoing' = <<unit>>
      BY <3>1, <3>2, AnswerIsUnit DEF Answers
    <3>4. UpSaid(unit) /\ R!AwaitsZeof'
      BY <1>3, <1>4, <3>1, <3>3, ReceiverSays DEF R!AwaitsZeof
    <3> QED
      BY <1>4, <1>6, <1>7, <2>1, <3>3, <3>4, AnsweringOwes DEF Answers
  <2> QED
    BY <1>6, <2>2, <2>3
<1> QED
  BY <1>1, <1>8, <1>9 DEF R!FileWritten, R!fileVars

LEMMA ReceiverHearsOwes ==
  ASSUME SessionInv, OwedInv, ReceiverReceives
  PROVE  OwedInv'
<1>1. /\ down # <<>> /\ down' = Tail(down)
      /\ UNCHANGED <<sVars, up, offered, declined, damage, aborts>>
  BY DEF ReceiverReceives, budgets
<1>2. CASE Head(down).is = "header" /\ R!SubmitHeader(Head(down))
  <2>1. Head(down).frame \in {"ZRQINIT", "ZNAK", "ZFILE", "ZDATA", "ZEOF",
                              "ZFIN"}
    <3>1. Head(down) = Down[1] /\ 1 \in 1 .. Len(Down)
      BY <1>1, ReceiverTakes
    <3> QED
      BY <1>2, <3>1 DEF SessionInv, LinkOK
  <2>2. ~R!OnZsinit(Head(down)) /\ ~R!OnAbort(Head(down))
    BY <2>1 DEF R!OnZsinit, R!OnAbort
  <2>3. \/ R!OnZrqinitOrEarlyData(Head(down)) \/ R!Ignored(Head(down))
        \/ R!OnZfile(Head(down)) \/ R!OnZdata(Head(down))
        \/ R!OnZeof(Head(down)) \/ R!OnZfin(Head(down))
    BY <1>2, <2>2 DEF R!SubmitHeader
  <2> QED
    BY <1>2, <2>3, HeaderDropsOwes, DataBeginsOwes, FileEndsOwes,
       SessionEndsOwes
<1>3. CASE Head(down).is = "subpacket"
           /\ R!SubmitData(Head(down).kind, Head(down).data)
  BY <1>3, DataReadOwes
<1>4. CASE Head(down).is = "metadata"
           /\ R!SubmitMetadata(Head(down).name, Head(down).size)
  BY <1>4, AnnouncementReadOwes
<1>5. CASE /\ Head(down).is \in {"subpacket", "metadata", "OO"}
           /\ ReadsStray \/ (R!ReadableAsHeader /\ UNCHANGED rVars)
  <2>1. UNCHANGED zrposRetries
    BY <1>5 DEF ReadsStray, R!SubmitGarbled, rVars
  <2> QED
    BY <1>1, <1>5, <2>1, RetriesStay, StrayOwes
<1> QED
  BY <1>2, <1>3, <1>4, <1>5 DEF ReceiverReceives

-----------------------------------------------------------------------------
(***************************************************************************)
(* Nobody is stuck: the invariant.                                         *)
(***************************************************************************)
LEMMA NobodyGivesUp ==
  ASSUME SessionInv, OwedInv, Forgiving, Files # <<>>, [Next]_vars
  PROVE  OwedInv'
<1>1. CASE UNCHANGED vars
  <2>1. /\ SameReading /\ Down' = Down /\ Up' = Up
        /\ UNCHANGED <<sState, frameNeedsHeader, offered, finishRequested,
                       declined, zrposRetries, damage, aborts>>
    BY <1>1 DEF vars, sVars, rVars, link, world, budgets, SameReading, Down, Up
  <2> QED
    BY <2>1, RetriesStay, NobodyActsOwes DEF UpChatters
<1>2. CASE SenderStep
  BY <1>2, OfferOwes, AskingOwes, SenderWritesOwes, PieceOwes, SenderHearsOwes
     DEF SenderStep
<1>3. CASE ReceiverStep
  BY <1>3, ReceiverSaysOwes, DecisionOwes, PersistingOwes, ReceiverHearsOwes
     DEF ReceiverStep
<1>4. CASE FaultStep
  <2>1. ~SenderAborts /\ ~ReceiverAborts
    BY DEF SenderAborts, ReceiverAborts, OwedInv, Retries
  <2> QED
    BY <1>4, <2>1, SenderMissesOwes, SenderTimesOutOwes, ReceiverMissesOwes,
       ReceiverSaysOwes DEF FaultStep
<1> QED
  BY <1>1, <1>2, <1>3, <1>4 DEF Next

LEMMA ForgivingBegins == Init => ForgivingInv
<1> SUFFICES ASSUME Init, Forgiving
             PROVE  OwedInv
  BY DEF ForgivingInv
<1>1. /\ sState = "WaitReceiverInit" /\ frameNeedsHeader = FALSE
      /\ sOutgoing = <<Header("ZRQINIT", 0)>>
      /\ rState = "SessionBegin" /\ subpacketState = R!Idle
      /\ rOutgoing = <<R!OwnZrinit>>
      /\ down = <<>> /\ up = <<>>
      /\ zrposRetries = 0 /\ damage = MaxDamage /\ aborts = 0
  BY SameUnits DEF Init, S!Init, R!Init, Forgiving
<1>2. Retries
  BY <1>1, SessionLimitsAssumption DEF Retries
<1>3. /\ Header("ZRQINIT", 0) \in Unit /\ rOutgoing \in Seq(HeaderUnit)
      /\ Header("ZRQINIT", 0).frame = "ZRQINIT"
  BY <1>1, HeaderIsUnit, ReceiverReplies DEF Frame
<1>4. Down = <<Header("ZRQINIT", 0)>> /\ Up = <<R!OwnZrinit>>
  <2>1. ASSUME NEW T, NEW unit \in T
        PROVE  <<>> \o <<unit>> = <<unit>>
    BY ConcatEmptySeq
  <2> QED
    BY <1>1, <1>3, <2>1, ReceiverReplies DEF Down, Up
<1>5. /\ Len(Down) = 1 /\ Down[1] = Header("ZRQINIT", 0)
      /\ Len(Up) = 1 /\ Up[1] = R!OwnZrinit
  BY <1>4
<1>6. \A i \in 1 .. Len(Down) :
        ~IsFrame(Down[i], {"ZFILE"}) /\ ~IsFrame(Down[i], {"ZDATA"})
  BY <1>3, <1>5 DEF IsFrame
<1>7. \A i \in 1 .. Len(Up) : Up[i].frame = "ZRINIT"
  BY <1>5, ReceiverReplies
<1>8. /\ Comes("ZRINIT")
      /\ ~Comes("ZRPOS") /\ ~Comes("ZACK") /\ ~Comes("ZSKIP")
  BY <1>5, <1>7 DEF Comes
<1>9. FilesGoOn
  BY <1>1, <1>6, <1>8 DEF FilesGoOn, FilesTaken, FrameComes, OwesHeader
<1>10. SenderGoesOnFrom /\ ReceiverEnds
  BY <1>1, <1>8 DEF SenderGoesOnFrom, ReceiverEnds
<1> QED
  BY <1>2, <1>9, <1>10 DEF OwedInv

LEMMA ForgivingGoesOn ==
  ASSUME SessionInv, ForgivingInv, [Next]_vars
  PROVE  ForgivingInv'
<1> SUFFICES ASSUME Forgiving, Files # <<>>
             PROVE  OwedInv'
  BY DEF ForgivingInv, Forgiving
<1> QED
  BY NobodyGivesUp DEF ForgivingInv

\* What is owed is on its way, so a link with nothing on it leaves the users
\* something to do.
LEMMA OwedIsUnderWay ==
  ASSUME SessionInv, OwedInv, Quiet
  PROVE  \/ BothDone \/ WaitsForUser
         \/ sState = "WaitReceiverInit" /\ "handshake" \in Damageable
<1>1. Down = <<>> /\ Up = <<>>
  BY InvTypesLanes, WrittenIsUnderWay DEF Quiet, Down, Up, LaneTypes
<1>2. Len(Down) = 0 /\ Len(Up) = 0
  BY <1>1
<1>3. /\ \A frame : ~Comes(frame) /\ ~FrameComes(frame)
      /\ NoAnswer /\ ~FileEnds /\ ~SessionEnds
  BY <1>2 DEF Comes, FrameComes, NoAnswer, FileEnds, SessionEnds
<1>4. ~PersistingData
  BY NothingToPersist DEF Quiet
<1>5. CASE sState = "WaitReceiverInit"
  BY <1>3, <1>5 DEF OwedInv, SenderGoesOnFrom
<1>6. CASE sState = "ReadyForFile"
  BY <1>6 DEF OwedInv, SenderGoesOnFrom, WaitsForUser
<1>7. CASE sState \in {"WaitFilePos", "NeedFileData", "WaitFileAck"}
  <2>1. sState # "NeedFileData"
    BY SessionLimitsAssumption DEF Quiet, SessionInv, SenderOK
  <2>2. ~ReceiverIdle
    BY <1>3, <1>7, <2>1 DEF OwedInv, FilesGoOn, Moving, OwesHeader
  <2>3. ReadingAnnouncement \/ Deciding \/ ReadingFrame
    BY <1>4, <2>2 DEF SessionInv, SomeTurn, NoTurn, AnnouncementUnderWay,
       AnswerUnderWay, FrameOwed, FrameUnderWay
  <2>4. ~ReadingAnnouncement /\ ~ReadingFrame
    BY <1>1, <1>7, <2>1 DEF ReadingAnnouncement, ReadingFrame, MoreToCome
  <2> QED
    BY <2>3, <2>4 DEF Deciding, WaitsForUser
<1>8. CASE sState \in {"WaitFileDone", "WaitFinish"}
  BY <1>3, <1>8 DEF OwedInv, SenderGoesOnFrom
<1>9. CASE sState = "Done"
  <2>1. rState = "SessionEnd"
    BY <1>3, <1>9 DEF OwedInv, SenderGoesOnFrom
  <2> QED
    BY <1>9, <2>1 DEF Quiet, BothDone
<1> QED
  BY <1>5, <1>6, <1>7, <1>8, <1>9 DEF SessionInv, SenderOK, S!SenderPhase

\* In every session with a file, however its callers interleave, however many
\* of its subpackets the link damages up to what the receiver tolerates, and
\* whatever its users decide: whenever nothing is on its way the session is
\* over on both sides, or a user has to act, or a header of the handshake was
\* damaged and a timeout repeats it.
THEOREM NobodyIsStuck == Spec => []NeverStuck
<1>1. SessionInv /\ ForgivingInv => NeverStuck
  BY OwedIsUnderWay DEF ForgivingInv, NeverStuck
<1>2. Init => ForgivingInv
  BY ForgivingBegins
<1>3. SessionInv /\ ForgivingInv /\ [Next]_vars => ForgivingInv'
  BY ForgivingGoesOn
<1> QED
  BY <1>1, <1>2, <1>3, SessionInvariant, PTL DEF Spec
=============================================================================
