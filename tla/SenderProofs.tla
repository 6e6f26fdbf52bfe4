---------------------------- MODULE SenderProofs ----------------------------
(***************************************************************************)
(* Proofs about the sender, for every value of the constants.              *)
(***************************************************************************)
EXTENDS SenderFlow, SequenceTheorems, TLAPS

-----------------------------------------------------------------------------
(***************************************************************************)
(* Arithmetic.                                                             *)
(***************************************************************************)
\* A buffer holds as many subpackets as its length divided by theirs.
LEMMA DivisionFits ==
  ASSUME NEW a \in Nat, NEW b \in Nat \ {0}
  PROVE  a \div b \in Nat /\ (a \div b) * b <= a
  OBVIOUS

\* A positive number of bytes makes at least one subpacket.
LEMMA CeilDivPositive ==
  ASSUME NEW a \in Nat \ {0}, NEW b \in Nat \ {0}
  PROVE  CeilDiv(a, b) \in Nat \ {0}
  BY DEF CeilDiv

\* More subpackets of one length are no fewer bytes.
LEMMA ProductMonotone ==
  ASSUME NEW a \in Nat, NEW b \in Nat, NEW c \in Nat, a <= b
  PROVE  a * c <= b * c
  OBVIOUS

\* One subpacket less is one length of it less.
LEMMA ProductOfPredecessor ==
  ASSUME NEW n \in Nat \ {0}, NEW m \in Nat
  PROVE  (n - 1) * m = n * m - m
  OBVIOUS

-----------------------------------------------------------------------------
(***************************************************************************)
(* Units and sequences of them.                                            *)
(***************************************************************************)
\* A header frame the sender writes is a unit of the wire.
LEMMA HeaderIsUnit ==
  ASSUME NEW f \in Frame, NEW n \in Nat
  PROVE  Header(f, n) \in Unit
  BY DEF Header, Unit, HeaderUnit

\* A data subpacket the sender writes is a unit of the wire.
LEMMA SubpacketIsUnit ==
  ASSUME NEW kind \in SubpacketType, NEW data \in Seq(Byte)
  PROVE  Subpacket(kind, data) \in Unit
  BY DEF Subpacket, Unit, SubpacketUnit

\* The ZFILE subpacket is a unit of the wire.
LEMMA MetadataIsUnit ==
  ASSUME NEW name \in Name \cup {EmptyName}, NEW size \in Nat
  PROVE  Metadata(name, size) \in Unit
  BY DEF Metadata, Unit, MetadataUnit

\* A buffer that is given one unit holds units.
LEMMA OneUnit ==
  ASSUME NEW u \in Unit
  PROVE  <<u>> \in Seq(Unit)
  OBVIOUS

\* A buffer that is given two units holds units.
LEMMA TwoUnits ==
  ASSUME NEW u \in Unit, NEW v \in Unit
  PROVE  <<u, v>> \in Seq(Unit)
  OBVIOUS

\* What is left after the driver took the first unit is units.
LEMMA DropUnits ==
  ASSUME NEW units \in Seq(Unit), NEW n \in 1 .. Len(units)
  PROVE  SubSeq(units, n + 1, Len(units)) \in Seq(Unit)
  OBVIOUS

\* What the sender queues for a ZFILE is units.
LEMMA FileUnitsAreUnits ==
  ASSUME NEW name \in Name \cup {EmptyName}, NEW size \in Nat
  PROVE  FileUnits(name, size) \in Seq(Unit)
  <1>1. Header("ZFILE", 0) \in Unit
    BY HeaderIsUnit DEF Frame
  <1>2. Metadata(name, size) \in Unit
    BY MetadataIsUnit
  <1> QED
    BY <1>1, <1>2, TwoUnits DEF FileUnits

\* What the sender queues for a chunk of the file is units.
LEMMA DataUnitsAreUnits ==
  ASSUME NEW data \in Seq(Byte), TypeOK, pendingRequest # NoRequest
  PROVE  DataUnits(data) \in Seq(Unit)
  <1> DEFINE kind == IF IsLastInFrame(data) THEN "ZCRCW" ELSE "ZCRCG"
  <1>1. Subpacket(kind, data) \in Unit
    <2>1. kind \in SubpacketType
      BY DEF SubpacketType
    <2> QED
      BY <2>1, SubpacketIsUnit
  <1>2. Header("ZDATA", pendingRequest.offset) \in Unit
    <2>1. pendingRequest.offset \in Nat
      BY LimitsAssumption DEF TypeOK, Request
    <2> QED
      BY <2>1, HeaderIsUnit DEF Frame
  <1>3. <<Subpacket(kind, data)>> \in Seq(Unit)
    BY <1>1, OneUnit
  <1>4. (IF frameNeedsHeader
         THEN <<Header("ZDATA", pendingRequest.offset)>> ELSE <<>>)
          \in Seq(Unit)
    <2>1. <<Header("ZDATA", pendingRequest.offset)>> \in Seq(Unit)
      BY <1>2, OneUnit
    <2>2. <<>> \in Seq(Unit)
      OBVIOUS
    <2> QED
      BY <2>1, <2>2
  <1> QED
    BY <1>3, <1>4, ConcatProperties DEF DataUnits

\* The headers the sender answers with.
LEMMA AnswersAreUnits ==
  /\ \A f \in Frame : \A n \in Nat : <<Header(f, n)>> \in Seq(Unit)
  /\ <<OverAndOut>> \in Seq(Unit)
  <1>1. ASSUME NEW f \in Frame, NEW n \in Nat
        PROVE  <<Header(f, n)>> \in Seq(Unit)
    BY HeaderIsUnit, OneUnit
  <1>2. <<OverAndOut>> \in Seq(Unit)
    <2>1. OverAndOut \in Unit
      BY DEF Unit
    <2> QED
      BY <2>1, OneUnit
  <1> QED
    BY <1>1, <1>2

-----------------------------------------------------------------------------
(***************************************************************************)
(* Pacing.                                                                 *)
(***************************************************************************)
\* What update_receiver_caps derives from a ZRINIT is usable as pacing, and
\* fits the buffer the ZRINIT advertises.
LEMMA CapsOfZrinit ==
  ASSUME NEW h \in HeaderUnit, streamingWindow \in Nat \ {0}
  PROVE  /\ SubpacketSizeFor(h) \in 1 .. SubpacketMaxSize
         /\ SubpacketsPerAckFor(h) \in Nat \ {0}
         /\ h.bufferLen > 0 =>
              SubpacketsPerAckFor(h) * SubpacketSizeFor(h) <= h.bufferLen
         /\ ~h.canOvio => SubpacketsPerAckFor(h) = 1
         /\ h.bufferLen = 0 /\ h.canOvio =>
              SubpacketsPerAckFor(h) = streamingWindow
  <1> DEFINE size == SubpacketSizeFor(h)
             quotient == h.bufferLen \div size
  <1>1. h.bufferLen \in Nat /\ h.canOvio \in BOOLEAN
    BY DEF HeaderUnit
  <1>2. size \in 1 .. SubpacketMaxSize /\ (h.bufferLen > 0 => size <= h.bufferLen)
    BY <1>1, LimitsAssumption DEF SubpacketSizeFor, Smaller
  <1>3. size \in Nat \ {0}
    BY <1>2, LimitsAssumption
  <1> HIDE DEF size
  <1>4. quotient \in Nat /\ quotient * size <= h.bufferLen
    BY <1>1, <1>3, DivisionFits
  <1> HIDE DEF quotient
  <1>5. SubpacketsPerAckFor(h) =
          IF ~h.canOvio THEN 1
          ELSE IF h.bufferLen = 0 THEN streamingWindow
          ELSE Larger(quotient, 1)
    BY DEF SubpacketsPerAckFor, size, quotient
  <1>6. Larger(quotient, 1) \in Nat \ {0}
    BY <1>4 DEF Larger
  <1>7. h.bufferLen > 0 => Larger(quotient, 1) * size <= h.bufferLen
    <2>1. CASE quotient >= 1
      BY <1>4, <2>1 DEF Larger
    <2>2. CASE ~(quotient >= 1)
      BY <1>2, <1>3, <2>2 DEF Larger
    <2> QED
      BY <2>1, <2>2
  <1>8. h.bufferLen > 0 => 1 * size <= h.bufferLen
    BY <1>2, <1>3
  <1> QED
    BY <1>1, <1>2, <1>5, <1>6, <1>7, <1>8 DEF size

\* A frame that starts inside the file may carry a subpacket at least, and no
\* more than the pacing allows.
LEMMA QuotaOfFrame ==
  ASSUME NEW offset \in Nat, offset < fileSize, TypeOK
  PROVE  /\ FrameQuota(offset) \in Nat \ {0}
         /\ FrameQuota(offset) <= maxSubpacketsPerAck
  <1>1. fileSize - offset \in Nat \ {0}
    BY LimitsAssumption DEF TypeOK
  <1>2. maxSubpacketSize \in Nat \ {0} /\ maxSubpacketsPerAck \in Nat \ {0}
    BY LimitsAssumption DEF TypeOK
  <1>3. CeilDiv(fileSize - offset, maxSubpacketSize) \in Nat \ {0}
    BY <1>1, <1>2, CeilDivPositive
  <1> QED
    BY <1>2, <1>3 DEF FrameQuota, Smaller

-----------------------------------------------------------------------------
(***************************************************************************)
(* Type correctness.                                                       *)
(***************************************************************************)
\* A new sender is well typed.
LEMMA InitType == FlowInit => TypeOK
  <1>1. <<Header("ZRQINIT", 0)>> \in Seq(Unit)
    BY AnswersAreUnits DEF Frame
  <1> SUFFICES ASSUME FlowInit
               PROVE  TypeOK
    OBVIOUS
  <1>2. Init /\ receiver = NoReceiver
    BY DEF FlowInit
  <1>3. streamingWindow \in Nat \ {0}
    BY <1>2, LimitsAssumption DEF Init
  <1>4. Terms \in TermsType
    BY <1>2, <1>3 DEF Terms, TermsType, NoReceiver
  <1>5. frame \in [start : Nat, sent : Nat, subpackets : Nat,
                   terms : TermsType]
    BY <1>4 DEF FlowInit
  <1>6. receiver \in [bufferLen : Nat, canOvio : BOOLEAN]
    BY <1>2 DEF NoReceiver
  <1>7. /\ fileSize \in 0 .. MaxPosition
        /\ maxSubpacketSize \in 1 .. SubpacketMaxSize
        /\ maxSubpacketsPerAck \in Nat \ {0}
    BY <1>2, LimitsAssumption DEF Init
  <1> QED
    BY <1>1, <1>2, <1>3, <1>5, <1>6, <1>7 DEF Init, TypeOK, SenderPhase

\* A header that arrives.
LEMMA SubmitWireType ==
  ASSUME TypeOK, NEW h \in Incoming, FlowSubmitWire(h)
  PROVE  TypeOK'
  <1>1. h \in HeaderUnit
    BY InputAssumption
  <1>2. h.count \in Nat /\ h.bufferLen \in Nat /\ h.canOvio \in BOOLEAN
    BY <1>1 DEF HeaderUnit
  <1>3. \A f \in Frame : \A n \in Nat : <<Header(f, n)>> \in Seq(Unit)
    BY AnswersAreUnits
  <1>4. Terms \in TermsType
    BY DEF Terms, TermsType, TypeOK
  <1> DEFINE MachineType ==
               /\ state \in SenderPhase
               /\ fileName \in Name \cup {EmptyName}
               /\ fileSize \in 0 .. MaxPosition
               /\ hasFile \in BOOLEAN
               /\ pendingRequest \in Request \cup {NoRequest}
               /\ frameRemaining \in Nat
               /\ frameNeedsHeader \in BOOLEAN
               /\ maxSubpacketSize \in 1 .. SubpacketMaxSize
               /\ maxSubpacketsPerAck \in Nat \ {0}
               /\ outgoing \in Seq(Unit)
               /\ pendingEvent \in SenderEvent \cup {NoEvent}
               /\ finishRequested \in BOOLEAN
               /\ streamingWindow \in Nat \ {0}
               /\ rxNonstop \in BOOLEAN
  <1>5. MachineType'
    <2>1. CASE OnZrinit(h)
      <3>1. UpdateReceiverCaps(h)
        BY <2>1 DEF OnZrinit
      <3>2. /\ maxSubpacketSize' \in 1 .. SubpacketMaxSize
            /\ maxSubpacketsPerAck' \in Nat \ {0}
            /\ rxNonstop' \in BOOLEAN
        BY <1>1, <3>1, CapsOfZrinit DEF TypeOK, UpdateReceiverCaps
      <3>3. FileUnits(fileName, fileSize) \in Seq(Unit)
        BY FileUnitsAreUnits DEF TypeOK
      <3>4. <<Header("ZFIN", 0)>> \in Seq(Unit)
        BY <1>3 DEF Frame
      <3>5. /\ state' \in SenderPhase
            /\ outgoing' \in Seq(Unit)
            /\ pendingEvent' \in SenderEvent \cup {NoEvent}
            /\ hasFile' \in BOOLEAN
        BY <2>1, <3>3, <3>4, AnswersAreUnits
        DEF OnZrinit, FinishOrReady, CompleteSession, TypeOK, SenderPhase,
            SenderEvent
      <3> QED
        BY <2>1, <3>2, <3>5 DEF OnZrinit, TypeOK, frameVars
    <2>2. CASE OnZrpos(h)
      <3>1. <<Header("ZRQINIT", 0)>> \in Seq(Unit)
              /\ <<Header("ZEOF", h.count)>> \in Seq(Unit)
        BY <1>2, <1>3 DEF Frame
      <3>2. ~AtEnd(h.count) =>
              /\ FrameQuota(h.count) \in Nat
              /\ [offset |-> h.count,
                  len |-> Smaller(maxSubpacketSize, fileSize - h.count)]
                   \in Request
        <4> SUFFICES ASSUME ~AtEnd(h.count)
                     PROVE  /\ FrameQuota(h.count) \in Nat
                            /\ [offset |-> h.count,
                                len |-> Smaller(maxSubpacketSize,
                                                fileSize - h.count)]
                                 \in Request
          OBVIOUS
        <4>1. h.count < fileSize /\ fileSize \in 0 .. MaxPosition
          BY <1>2, LimitsAssumption DEF AtEnd, TypeOK
        <4>2. h.count \in 0 .. MaxPosition
          BY <4>1, <1>2, LimitsAssumption
        <4>3. Smaller(maxSubpacketSize, fileSize - h.count) \in Nat
          BY <4>1, <1>2, LimitsAssumption DEF Smaller, TypeOK
        <4>4. FrameQuota(h.count) \in Nat
          BY <4>1, <1>2, QuotaOfFrame
        <4> QED
          BY <4>2, <4>3, <4>4 DEF Request
      <3> QED
        BY <2>2, <3>1, <3>2
        DEF OnZrpos, QueueZrqinit, TypeOK, SenderPhase, fileVars, capVars,
            frameVars
    <2>3. CASE OnZskip(h)
      <3>1. state' \in SenderPhase
        BY <2>3 DEF OnZskip, TypeOK, SenderPhase
      <3>2. hasFile' \in BOOLEAN
        BY <2>3 DEF OnZskip, TypeOK
      <3>3. pendingRequest' \in Request \cup {NoRequest}
        BY <2>3 DEF OnZskip, TypeOK
      <3>4. frameRemaining' \in Nat
        BY <2>3 DEF OnZskip, TypeOK
      <3>5. pendingEvent' \in SenderEvent \cup {NoEvent}
        BY <2>3 DEF OnZskip, TypeOK, SenderEvent
      <3> QED
        BY <2>3, <3>1, <3>2, <3>3, <3>4, <3>5 DEF OnZskip, TypeOK, capVars
    <2>4. CASE OnAbort(h)
      BY <2>4
      DEF OnAbort, StopAborted, TypeOK, SenderPhase, SenderEvent, capVars,
          fileVars
    <2>5. CASE OnZfin(h)
      BY <2>5, AnswersAreUnits
      DEF OnZfin, CompleteSession, TypeOK, SenderPhase, SenderEvent, capVars,
          fileVars, frameVars
    <2>6. CASE OnOther(h)
      <3>1. <<Header("ZRQINIT", 0)>> \in Seq(Unit)
        BY <1>3 DEF Frame
      <3> QED
        BY <2>6, <3>1
        DEF OnOther, QueueZrqinit, TypeOK, capVars, fileVars, frameVars
    <2> QED
      BY <2>1, <2>2, <2>3, <2>4, <2>5, <2>6 DEF FlowSubmitWire, SubmitWire
  <1>6. receiver' \in [bufferLen : Nat, canOvio : BOOLEAN]
    BY <1>2 DEF FlowSubmitWire, TypeOK
  <1>7. frame' \in [start : Nat, sent : Nat, subpackets : Nat,
                    terms : TermsType]
    BY <1>2, <1>4 DEF FlowSubmitWire, TypeOK
  <1> HIDE DEF MachineType
  <1> QED
    BY <1>5, <1>6, <1>7 DEF MachineType, TypeOK

\* A chunk of the file.
LEMMA SubmitFileType ==
  ASSUME TypeOK, NEW data \in Chunk, FlowSubmitFile(data)
  PROVE  TypeOK'
  <1>1. data \in Seq(Byte) /\ Len(data) \in Nat
    BY InputAssumption
  <1>2. pendingRequest \in Request /\ pendingRequest # NoRequest
    BY DEF FlowSubmitFile, SubmitFile, TypeOK
  <1>3. outgoing' \in Seq(Unit)
    BY <1>1, <1>2, DataUnitsAreUnits DEF FlowSubmitFile, SubmitFile
  <1>4. frame' \in [start : Nat, sent : Nat, subpackets : Nat,
                    terms : TermsType]
    BY <1>1 DEF FlowSubmitFile, TypeOK
  <1>5. ~IsLastInFrame(data) =>
          NextRequest(data) \in Request /\ frameRemaining - 1 \in Nat
    <2> SUFFICES ASSUME ~IsLastInFrame(data)
                 PROVE  /\ NextRequest(data) \in Request
                        /\ frameRemaining - 1 \in Nat
      OBVIOUS
    <2>1. /\ frameRemaining > 1 /\ frameRemaining \in Nat
          /\ pendingRequest.offset \in Nat
          /\ fileSize \in 0 .. MaxPosition
      BY <1>2, LimitsAssumption DEF IsLastInFrame, TypeOK, Request
    <2>2. pendingRequest.offset + Len(data) < fileSize
      BY <1>1, <2>1, LimitsAssumption DEF IsLastInFrame
    <2>3. pendingRequest.offset + Len(data) \in 0 .. MaxPosition
      BY <1>1, <2>1, <2>2, LimitsAssumption
    <2>4. Smaller(maxSubpacketSize,
                  fileSize - (pendingRequest.offset + Len(data))) \in Nat
      BY <1>1, <2>1, <2>2, LimitsAssumption DEF Smaller, TypeOK
    <2> QED
      BY <2>1, <2>3, <2>4 DEF NextRequest, Request
  <1>6. /\ state' \in SenderPhase
        /\ pendingRequest' \in Request \cup {NoRequest}
        /\ frameRemaining' \in Nat
        /\ frameNeedsHeader' \in BOOLEAN
    <2>1. SubmitFile(data)
      BY DEF FlowSubmitFile
    <2>2. CASE IsLastInFrame(data)
      <3>1. /\ state' = "WaitFileAck" /\ pendingRequest' = NoRequest
            /\ frameRemaining' = 0 /\ frameNeedsHeader' = FALSE
        BY <2>1, <2>2 DEF SubmitFile
      <3> QED
        BY <3>1 DEF SenderPhase
    <2>3. CASE ~IsLastInFrame(data)
      BY <1>5, <2>1, <2>3 DEF SubmitFile, TypeOK
    <2> QED
      BY <2>2, <2>3
  <1> QED
    BY <1>3, <1>4, <1>6
    DEF FlowSubmitFile, SubmitFile, TypeOK, fileVars, capVars

\* Every other step.
LEMMA OtherStepType ==
  ASSUME TypeOK, OtherStep, UNCHANGED <<receiver, frame>>
  PROVE  TypeOK'
  <1>1. CASE \E subpackets \in Window : SetStreamingWindow(subpackets)
    BY <1>1, InputAssumption
    DEF SetStreamingWindow, ClampedWindow, PacingUnder, Larger, TypeOK,
        fileVars, frameVars
  <1>2. CASE \E name \in Name, size \in FileSize : StartFile(name, size)
    <2>1. PICK name \in Name, size \in FileSize : StartFile(name, size)
      BY <1>2
    <2>2. size \in 0 .. MaxPosition /\ size \in Nat
      BY InputAssumption, LimitsAssumption
    <2>3. FileUnits(name, size) \in Seq(Unit)
      BY <2>2, FileUnitsAreUnits
    <2> QED
      BY <2>1, <2>2, <2>3 DEF StartFile, TypeOK, SenderPhase, capVars
  <1>3. CASE StartFileNameTooLong
    BY <1>3 DEF StartFileNameTooLong, TypeOK, frameVars, capVars
  <1>4. CASE Finish
    <2>1. <<Header("ZFIN", 0)>> \in Seq(Unit)
      BY AnswersAreUnits DEF Frame
    <2> QED
      BY <1>4, <2>1
      DEF Finish, TypeOK, SenderPhase, fileVars, frameVars, capVars
  <1>5. CASE Abort
    BY <1>5 DEF Abort, StopAborted, TypeOK, SenderPhase, SenderEvent,
                fileVars, capVars
  <1>6. CASE Timeout
    <2>1. <<Header("ZRQINIT", 0)>> \in Seq(Unit)
      BY AnswersAreUnits DEF Frame
    <2> QED
      BY <1>6, <2>1 DEF Timeout, TypeOK, fileVars, frameVars, capVars
  <1>7. CASE PollEvent
    BY <1>7 DEF PollEvent, TypeOK, fileVars, frameVars, capVars
  <1>8. CASE \E n \in 1 .. Len(outgoing) : WireWritten(n)
    <2>1. PICK n \in 1 .. Len(outgoing) : WireWritten(n)
      BY <1>8
    <2>2. outgoing' \in Seq(Unit)
      BY <2>1, DropUnits DEF WireWritten, TypeOK
    <2> QED
      BY <2>1, <2>2 DEF WireWritten, TypeOK, fileVars, frameVars, capVars
  <1>9. CASE SubmitGarbled
    <2>1. <<Header("ZNAK", 0)>> \in Seq(Unit)
      BY AnswersAreUnits DEF Frame
    <2> QED
      BY <1>9, <2>1 DEF SubmitGarbled, TypeOK, fileVars, frameVars, capVars
  <1> QED
    BY <1>1, <1>2, <1>3, <1>4, <1>5, <1>6, <1>7, <1>8, <1>9 DEF OtherStep

\* Every step, and a stutter.
LEMMA NextType == TypeOK /\ [FlowNext]_flowVars => TypeOK'
  <1> SUFFICES ASSUME TypeOK, [FlowNext]_flowVars
               PROVE  TypeOK'
    OBVIOUS
  <1>1. CASE \E h \in Incoming : FlowSubmitWire(h)
    BY <1>1, SubmitWireType
  <1>2. CASE \E data \in Chunk : FlowSubmitFile(data)
    BY <1>2, SubmitFileType
  <1>3. CASE OtherStep /\ UNCHANGED <<receiver, frame>>
    BY <1>3, OtherStepType
  <1>4. CASE UNCHANGED flowVars
    BY <1>4 DEF flowVars, vars, fileVars, frameVars, capVars, TypeOK
  <1> QED
    BY <1>1, <1>2, <1>3, <1>4 DEF FlowNext

\* The sender's variables keep their types, whatever arrives and whatever its
\* user does; in particular its pacing never becomes zero.
THEOREM TypeCorrect == FlowSpec => []TypeOK
  BY InitType, NextType, PTL DEF FlowSpec

-----------------------------------------------------------------------------
(***************************************************************************)
(* Flow control.  FlowInv is inductive; a step either leaves no request    *)
(* open (QuietStep), leaves the open request alone (StillStep), opens a    *)
(* frame (OpenFrame) or sends a chunk of one (SendChunk).                  *)
(***************************************************************************)
Promises == /\ RequestServable /\ FrameIsContiguous /\ PacingIsCurrent
            /\ CapsPromise /\ FramePromise /\ WithinTerms

\* A new sender has no request open, so it has promised nothing yet.
LEMMA InitPromises == FlowInit => Promises
  <1> SUFFICES ASSUME FlowInit
               PROVE  Promises
    OBVIOUS
  <1>1. /\ state = "WaitReceiverInit" /\ pendingRequest = NoRequest
        /\ rxNonstop = FALSE /\ streamingWindow = SubpacketPerAck
        /\ receiver = NoReceiver
        /\ frame = [start |-> 0, sent |-> 0, subpackets |-> 0,
                    terms |-> Terms]
    BY DEF FlowInit, Init
  <1>2. WithinTerms
    BY <1>1, LimitsAssumption DEF WithinTerms, Terms, NoReceiver
  <1> QED
    BY <1>1, <1>2
    DEF Promises, RequestServable, FrameIsContiguous, PacingIsCurrent,
        CapsPromise, FramePromise

\* No request is open after the step and the pacing was not touched.
LEMMA QuietStep ==
  ASSUME Promises,
         UNCHANGED <<receiver, frame, capVars, streamingWindow>>,
         pendingRequest' = NoRequest,
         state' # "NeedFileData",
         state' \notin {"WaitReceiverInit", "Done"} =>
           state \notin {"WaitReceiverInit", "Done"}
  PROVE  Promises'
  <1>1. RequestServable' /\ FrameIsContiguous' /\ FramePromise'
    BY DEF RequestServable, FrameIsContiguous, FramePromise
  <1>2. PacingIsCurrent' /\ CapsPromise'
    BY DEF Promises, PacingIsCurrent, CapsPromise, capVars
  <1>3. WithinTerms'
    BY DEF Promises, WithinTerms
  <1> QED
    BY <1>1, <1>2, <1>3 DEF Promises

\* The open request, if any, and the pacing are as before.
LEMMA StillStep ==
  ASSUME Promises,
         UNCHANGED <<state, fileSize, frameVars, capVars, streamingWindow,
                     receiver, frame>>
  PROVE  Promises'
  BY DEF Promises, RequestServable, FrameIsContiguous, PacingIsCurrent,
         CapsPromise, FramePromise, WithinTerms, frameVars, capVars

\* The user sets the window: the open frame keeps the terms it has.
LEMMA WindowStep ==
  ASSUME TypeOK, Promises, NEW subpackets \in Window,
         SetStreamingWindow(subpackets), UNCHANGED <<receiver, frame>>
  PROVE  Promises'
  <1>1. UNCHANGED <<state, fileSize, frameVars, maxSubpacketSize, rxNonstop>>
    BY DEF SetStreamingWindow, fileVars
  <1>2. /\ RequestServable' /\ FrameIsContiguous'
        /\ FramePromise' /\ WithinTerms'
    BY <1>1
    DEF Promises, RequestServable, FrameIsContiguous, FramePromise,
        WithinTerms, frameVars
  <1>3. PacingIsCurrent'
    BY <1>1 DEF SetStreamingWindow, PacingUnder, PacingIsCurrent
  <1>4. CapsPromise'
    <2> SUFFICES ASSUME state \notin {"WaitReceiverInit", "Done"}
                 PROVE  /\ rxNonstop <=> receiver.bufferLen = 0
                                            /\ receiver.canOvio
                        /\ receiver.bufferLen > 0 =>
                             maxSubpacketsPerAck' * maxSubpacketSize
                               <= receiver.bufferLen
                        /\ ~receiver.canOvio => maxSubpacketsPerAck' = 1
      BY <1>1 DEF CapsPromise
    <2>1. CapsPromise /\ receiver.bufferLen \in Nat
      BY DEF Promises, TypeOK
    <2>2. CASE rxNonstop
      BY <2>1, <2>2 DEF CapsPromise
    <2>3. CASE ~rxNonstop
      <3>1. maxSubpacketsPerAck' = maxSubpacketsPerAck
        BY <2>3 DEF SetStreamingWindow, PacingUnder
      <3> QED
        BY <2>1, <3>1 DEF CapsPromise
    <2> QED
      BY <2>2, <2>3
  <1> QED
    BY <1>2, <1>3, <1>4 DEF Promises

\* A ZRINIT renews the pacing while no request is open.
LEMMA ZrinitStep ==
  ASSUME TypeOK, Promises, NEW h \in Incoming, FlowSubmitWire(h), OnZrinit(h)
  PROVE  Promises'
  <1>1. h \in HeaderUnit /\ h.frame = "ZRINIT"
    BY InputAssumption DEF OnZrinit
  <1>2. /\ pendingRequest = NoRequest /\ pendingRequest' = NoRequest
        /\ UNCHANGED <<frame, streamingWindow>>
        /\ receiver' = [bufferLen |-> h.bufferLen, canOvio |-> h.canOvio]
    BY <1>1
    DEF FlowSubmitWire, SubmitWire, Readable, OnZrinit, frameVars
  <1>3. state' # "NeedFileData"
    BY <1>2
    DEF OnZrinit, FinishOrReady, CompleteSession, Promises, RequestServable
  <1>4. /\ rxNonstop' = (h.bufferLen = 0 /\ h.canOvio)
        /\ maxSubpacketSize' = SubpacketSizeFor(h)
        /\ maxSubpacketsPerAck' = SubpacketsPerAckFor(h)
    BY DEF OnZrinit, UpdateReceiverCaps
  <1>5. /\ h.bufferLen > 0 =>
             SubpacketsPerAckFor(h) * SubpacketSizeFor(h) <= h.bufferLen
        /\ ~h.canOvio => SubpacketsPerAckFor(h) = 1
        /\ h.bufferLen = 0 /\ h.canOvio =>
             SubpacketsPerAckFor(h) = streamingWindow
    BY <1>1, CapsOfZrinit DEF TypeOK
  <1>6. RequestServable' /\ FrameIsContiguous' /\ FramePromise'
    BY <1>2, <1>3 DEF RequestServable, FrameIsContiguous, FramePromise
  <1>7. PacingIsCurrent'
    BY <1>2, <1>4, <1>5 DEF PacingIsCurrent
  <1>8. CapsPromise'
    BY <1>2, <1>4, <1>5 DEF CapsPromise
  <1>9. WithinTerms'
    BY <1>2 DEF Promises, WithinTerms
  <1> QED
    BY <1>6, <1>7, <1>8, <1>9 DEF Promises

\* A ZRPOS or ZACK inside the file opens a frame.
LEMMA OpenFrame ==
  ASSUME TypeOK, Promises, NEW h \in Incoming, FlowSubmitWire(h), OnZrpos(h),
         state \in {"WaitFilePos", "WaitFileAck", "NeedFileData"},
         ~AtEnd(h.count)
  PROVE  Promises'
  <1>1. h \in HeaderUnit /\ h.count \in Nat /\ h.frame # "ZRINIT"
    BY InputAssumption DEF OnZrpos, HeaderUnit
  <1>2. h.count < fileSize /\ fileSize \in Nat
    BY <1>1, LimitsAssumption DEF AtEnd, TypeOK
  <1> DEFINE len == Smaller(maxSubpacketSize, fileSize - h.count)
  <1>3. /\ state' = "NeedFileData"
        /\ pendingRequest' = [offset |-> h.count, len |-> len]
        /\ frameRemaining' = FrameQuota(h.count)
        /\ frameNeedsHeader' = TRUE
        /\ UNCHANGED <<fileSize, capVars, streamingWindow>>
    BY DEF OnZrpos, fileVars
  <1>4. maxSubpacketSize \in Nat \ {0} /\ maxSubpacketsPerAck \in Nat \ {0}
    BY LimitsAssumption DEF TypeOK
  <1>5. len \in 1 .. maxSubpacketSize /\ h.count + len <= fileSize
    BY <1>1, <1>2, <1>4 DEF Smaller
  <1> HIDE DEF len
  <1>6. /\ FrameQuota(h.count) \in Nat \ {0}
        /\ FrameQuota(h.count) <= maxSubpacketsPerAck
    BY <1>1, <1>2, QuotaOfFrame
  <1>7. pendingRequest' # NoRequest
    <2>1. pendingRequest'.offset = h.count /\ pendingRequest'.len = len
      BY <1>3
    <2>2. h.count \in 0 .. MaxPosition
      BY <1>1, <1>2, LimitsAssumption DEF TypeOK
    <2>3. [offset |-> h.count, len |-> len] \in Request
      BY <1>5, <2>2 DEF Request
    <2> QED
      BY <1>3, <2>3, NoRequestAssumption
  <1>8. /\ receiver' = receiver
        /\ frame' = [start |-> h.count, sent |-> 0, subpackets |-> 0,
                     terms |-> Terms]
    BY <1>1, <1>7 DEF FlowSubmitWire
  <1>9. RequestServable'
    BY <1>3, <1>5, <1>6, <1>7 DEF RequestServable, capVars
  <1>10. FrameIsContiguous'
    BY <1>1, <1>3, <1>8 DEF FrameIsContiguous
  <1>11. PacingIsCurrent' /\ CapsPromise'
    BY <1>3, <1>8 DEF Promises, PacingIsCurrent, CapsPromise, capVars
  <1>12. FramePromise'
    <2>1. /\ frame'.sent = 0 /\ frame'.subpackets = 0
          /\ frame'.terms.bufferLen = receiver.bufferLen
          /\ frame'.terms.canOvio = receiver.canOvio
          /\ frame'.terms.window = streamingWindow
          /\ frameRemaining' = FrameQuota(h.count)
          /\ maxSubpacketSize' = maxSubpacketSize
      BY <1>3, <1>8 DEF Terms, capVars
    <2>2. FrameQuota(h.count) * maxSubpacketSize
            <= maxSubpacketsPerAck * maxSubpacketSize
      BY <1>4, <1>6, ProductMonotone
    <2>3. /\ rxNonstop <=> receiver.bufferLen = 0 /\ receiver.canOvio
          /\ receiver.bufferLen > 0 =>
               maxSubpacketsPerAck * maxSubpacketSize <= receiver.bufferLen
          /\ ~receiver.canOvio => maxSubpacketsPerAck = 1
          /\ rxNonstop => maxSubpacketsPerAck = streamingWindow
      BY DEF Promises, CapsPromise, PacingIsCurrent
    <2>4. receiver.bufferLen \in Nat
      BY DEF TypeOK
    <2>5. receiver.bufferLen > 0 =>
            0 + FrameQuota(h.count) * maxSubpacketSize <= receiver.bufferLen
      <3>1. /\ FrameQuota(h.count) * maxSubpacketSize \in Nat
            /\ maxSubpacketsPerAck * maxSubpacketSize \in Nat
        BY <1>4, <1>6
      <3> QED
        BY <2>2, <2>3, <2>4, <3>1
    <2>6. ~receiver.canOvio => 0 + FrameQuota(h.count) <= 1
      BY <1>4, <1>6, <2>3
    <2>7. (receiver.bufferLen = 0 /\ receiver.canOvio)
            => 0 + FrameQuota(h.count) <= streamingWindow
      BY <1>4, <1>6, <2>3
    <2> QED
      BY <2>1, <2>5, <2>6, <2>7 DEF FramePromise
  <1>13. WithinTerms'
    <2>1. /\ frame'.sent = 0 /\ frame'.subpackets = 0
          /\ frame'.terms.bufferLen = receiver.bufferLen
          /\ frame'.terms.window = streamingWindow
      BY <1>8 DEF Terms
    <2>2. receiver.bufferLen \in Nat /\ streamingWindow \in Nat
      BY DEF TypeOK
    <2> QED
      BY <2>1, <2>2 DEF WithinTerms
  <1> QED
    BY <1>9, <1>10, <1>11, <1>12, <1>13 DEF Promises

\* What is true of a chunk the caller may submit: the arithmetic shared by
\* the chunk that ends its frame and the one that does not.
LEMMA ChunkFits ==
  ASSUME TypeOK, Promises, NEW data \in Chunk, SubmitFile(data)
  PROVE  /\ Len(data) \in Nat \ {0} /\ Len(data) <= maxSubpacketSize
         /\ frameRemaining \in Nat \ {0} /\ maxSubpacketSize \in Nat \ {0}
         /\ maxSubpacketSize <= frameRemaining * maxSubpacketSize
         /\ frameRemaining * maxSubpacketSize \in Nat
         /\ (frameRemaining - 1) * maxSubpacketSize
              = frameRemaining * maxSubpacketSize - maxSubpacketSize
  <1>1. pendingRequest # NoRequest /\ Len(data) \in 1 .. pendingRequest.len
    BY DEF SubmitFile
  <1>2. /\ pendingRequest.len \in 1 .. maxSubpacketSize
        /\ frameRemaining >= 1
    BY <1>1 DEF Promises, RequestServable
  <1>3. maxSubpacketSize \in Nat \ {0} /\ frameRemaining \in Nat
    BY LimitsAssumption DEF TypeOK
  <1>4. frameRemaining \in Nat \ {0}
    BY <1>2, <1>3
  <1>5. 1 * maxSubpacketSize <= frameRemaining * maxSubpacketSize
    <2>1. 1 \in Nat /\ 1 <= frameRemaining /\ maxSubpacketSize \in Nat
      BY <1>3, <1>4
    <2> QED
      BY <1>3, <2>1, ProductMonotone
  <1>6. maxSubpacketSize <= frameRemaining * maxSubpacketSize
    BY <1>3, <1>5
  <1>7. frameRemaining * maxSubpacketSize \in Nat
    BY <1>3
  <1>8. (frameRemaining - 1) * maxSubpacketSize
          = frameRemaining * maxSubpacketSize - maxSubpacketSize
    BY <1>3, <1>4, ProductOfPredecessor
  <1>9. Len(data) \in Nat \ {0} /\ Len(data) <= maxSubpacketSize
    BY <1>1, <1>2, <1>3
  <1> QED
    BY <1>3, <1>4, <1>6, <1>7, <1>8, <1>9

\* A chunk keeps the frame within its terms, and leaves room in them for the
\* subpackets the frame may still carry.
LEMMA ChunkWithinTerms ==
  ASSUME TypeOK, Promises, NEW data \in Chunk, FlowSubmitFile(data)
  PROVE  /\ WithinTerms'
         /\ frameRemaining' = frameRemaining - 1 => FramePromise'
  <1> DEFINE terms == frame.terms
             room == (frameRemaining - 1) * maxSubpacketSize
  <1>1. /\ SubmitFile(data)
        /\ frame' = [start |-> frame.start, sent |-> frame.sent + Len(data),
                     subpackets |-> frame.subpackets + 1,
                     terms |-> frame.terms]
    BY DEF FlowSubmitFile
  <1>2. /\ Len(data) \in Nat \ {0} /\ Len(data) <= maxSubpacketSize
        /\ frameRemaining \in Nat \ {0} /\ maxSubpacketSize \in Nat \ {0}
        /\ maxSubpacketSize <= frameRemaining * maxSubpacketSize
        /\ frameRemaining * maxSubpacketSize \in Nat
        /\ room = frameRemaining * maxSubpacketSize - maxSubpacketSize
    BY <1>1, ChunkFits
  <1>3. /\ frame.sent \in Nat /\ frame.subpackets \in Nat
        /\ terms.bufferLen \in Nat /\ terms.window \in Nat
    BY DEF TypeOK, TermsType
  <1>4. pendingRequest # NoRequest /\ maxSubpacketSize' = maxSubpacketSize
    BY <1>1 DEF SubmitFile, capVars
  <1>5. /\ terms.bufferLen > 0 =>
             frame.sent + frameRemaining * maxSubpacketSize <= terms.bufferLen
        /\ ~terms.canOvio => frame.subpackets + frameRemaining <= 1
        /\ (terms.bufferLen = 0 /\ terms.canOvio)
             => frame.subpackets + frameRemaining <= terms.window
    BY <1>4 DEF Promises, FramePromise
  <1> HIDE DEF room
  <1>6. terms.bufferLen > 0 =>
          (frame.sent + Len(data)) + room <= terms.bufferLen
    BY <1>2, <1>3, <1>5
  <1>7. terms.bufferLen > 0 => frame.sent + Len(data) <= terms.bufferLen
    BY <1>2, <1>3, <1>5
  <1>8. /\ ~terms.canOvio =>
             (frame.subpackets + 1) + (frameRemaining - 1) <= 1
        /\ (terms.bufferLen = 0 /\ terms.canOvio)
             => (frame.subpackets + 1) + (frameRemaining - 1) <= terms.window
    BY <1>2, <1>3, <1>5
  <1>9. /\ ~terms.canOvio => frame.subpackets + 1 <= 1
        /\ (terms.bufferLen = 0 /\ terms.canOvio)
             => frame.subpackets + 1 <= terms.window
    BY <1>2, <1>3, <1>5
  <1>10. /\ frame'.sent = frame.sent + Len(data)
         /\ frame'.subpackets = frame.subpackets + 1
         /\ frame'.terms = terms
    BY <1>1
  <1> HIDE DEF terms
  <1>11. WithinTerms'
    BY <1>7, <1>9, <1>10 DEF WithinTerms
  <1>12. frameRemaining' = frameRemaining - 1 => FramePromise'
    BY <1>4, <1>6, <1>8, <1>10 DEF FramePromise, room
  <1> QED
    BY <1>11, <1>12

\* A chunk of the open frame is sent: it ends the frame or the request moves
\* on by its length.
LEMMA SendChunk ==
  ASSUME TypeOK, Promises, NEW data \in Chunk, FlowSubmitFile(data)
  PROVE  Promises'
  <1>1. /\ SubmitFile(data) /\ receiver' = receiver
        /\ frame' = [start |-> frame.start, sent |-> frame.sent + Len(data),
                     subpackets |-> frame.subpackets + 1,
                     terms |-> frame.terms]
    BY DEF FlowSubmitFile
  <1>2. /\ state = "NeedFileData" /\ pendingRequest # NoRequest
        /\ frameNeedsHeader' = FALSE
        /\ UNCHANGED <<fileSize, capVars, streamingWindow>>
    BY <1>1 DEF SubmitFile, fileVars
  <1>3. state' \in {"NeedFileData", "WaitFileAck"}
    BY <1>1 DEF SubmitFile
  <1>4. PacingIsCurrent' /\ CapsPromise'
    BY <1>1, <1>2 DEF Promises, PacingIsCurrent, CapsPromise, capVars
  <1>5. WithinTerms' /\ (frameRemaining' = frameRemaining - 1 => FramePromise')
    BY ChunkWithinTerms
  <1>6. CASE IsLastInFrame(data)
    <2>1. pendingRequest' = NoRequest /\ state' = "WaitFileAck"
      BY <1>1, <1>6 DEF SubmitFile
    <2>2. RequestServable' /\ FrameIsContiguous' /\ FramePromise'
      BY <2>1 DEF RequestServable, FrameIsContiguous, FramePromise
    <2> QED
      BY <1>4, <1>5, <2>2 DEF Promises
  <1>7. CASE ~IsLastInFrame(data)
    <2> DEFINE offset == pendingRequest.offset + Len(data)
               len == Smaller(maxSubpacketSize, fileSize - offset)
    <2>1. /\ pendingRequest' = [offset |-> offset, len |-> len]
          /\ frameRemaining' = frameRemaining - 1
          /\ state' = "NeedFileData"
      BY <1>1, <1>2, <1>7 DEF SubmitFile, NextRequest
    <2>2. /\ Len(data) \in Nat \ {0} /\ maxSubpacketSize \in Nat \ {0}
          /\ frameRemaining \in Nat
      BY <1>1, ChunkFits
    <2>3. /\ pendingRequest.offset \in 0 .. MaxPosition
          /\ fileSize \in 0 .. MaxPosition
          /\ frame.sent \in Nat /\ frame.start \in Nat
      BY <1>2 DEF TypeOK, Request
    <2>4. frameRemaining > 1 /\ offset < fileSize
      BY <1>7, <2>2, <2>3, LimitsAssumption DEF IsLastInFrame
    <2>5. /\ offset \in 0 .. MaxPosition /\ len \in 1 .. maxSubpacketSize
          /\ offset + len <= fileSize
      BY <2>2, <2>3, <2>4, LimitsAssumption DEF Smaller
    <2> HIDE DEF len
    <2>6. pendingRequest' # NoRequest
      <3>1. [offset |-> offset, len |-> len] \in Request
        BY <2>2, <2>5 DEF Request
      <3> QED
        BY <2>1, <3>1, NoRequestAssumption
    <2>7. pendingRequest'.offset = offset /\ pendingRequest'.len = len
      BY <2>1
    <2>8. RequestServable'
      BY <1>2, <2>1, <2>2, <2>4, <2>5, <2>6, <2>7 DEF RequestServable, capVars
    <2>9. FrameIsContiguous'
      <3>1. pendingRequest.offset = frame.start + frame.sent
        BY <1>2 DEF Promises, FrameIsContiguous
      <3>2. /\ frame'.sent = frame.sent + Len(data)
            /\ frame'.start = frame.start
        BY <1>1
      <3>3. offset = frame'.start + frame'.sent /\ frame'.sent # 0
        BY <2>2, <2>3, <3>1, <3>2
      <3> QED
        BY <1>2, <2>7, <3>3 DEF FrameIsContiguous
    <2> QED
      BY <1>4, <1>5, <2>1, <2>8, <2>9 DEF Promises
  <1> QED
    BY <1>6, <1>7

-----------------------------------------------------------------------------
\* An arriving header: a ZRINIT renews the pacing, a position inside the file
\* opens a frame, any other leaves no request open.
LEMMA WireStep ==
  ASSUME TypeOK, Promises, NEW h \in Incoming, FlowSubmitWire(h)
  PROVE  Promises'
  <1>1. SubmitWire(h) /\ pendingRequest = NoRequest /\ state # "Done"
    BY DEF FlowSubmitWire, SubmitWire, Readable
  <1>2. state # "NeedFileData"
    BY <1>1 DEF Promises, RequestServable
  <1>3. CASE OnZrinit(h)
    BY <1>3, ZrinitStep
  <1>4. CASE OnZrpos(h) /\ state \in {"WaitFilePos", "WaitFileAck"}
                        /\ ~AtEnd(h.count)
    BY <1>4, OpenFrame
  <1>5. ASSUME h.frame # "ZRINIT", pendingRequest' = NoRequest,
               UNCHANGED <<capVars, streamingWindow>>,
               state' # "NeedFileData",
               state' \notin {"WaitReceiverInit", "Done"} =>
                 state # "WaitReceiverInit"
        PROVE  Promises'
    <2>1. UNCHANGED <<receiver, frame>>
      BY <1>5 DEF FlowSubmitWire
    <2> QED
      BY <1>1, <1>5, <2>1, QuietStep
  <1>6. CASE OnZrpos(h) /\ (state \in {"WaitFilePos", "WaitFileAck"}
                              => AtEnd(h.count))
    <2>1. h.frame # "ZRINIT" /\ UNCHANGED <<capVars, streamingWindow>>
      BY <1>6 DEF OnZrpos
    <2>2. pendingRequest' = NoRequest /\ state' # "NeedFileData"
      BY <1>1, <1>2, <1>6 DEF OnZrpos, QueueZrqinit, frameVars
    <2>3. state' \notin {"WaitReceiverInit", "Done"} =>
            state # "WaitReceiverInit"
      BY <1>6 DEF OnZrpos, QueueZrqinit
    <2> QED
      BY <1>5, <2>1, <2>2, <2>3
  <1>7. CASE OnZskip(h)
    <2>1. /\ h.frame # "ZRINIT" /\ UNCHANGED <<capVars, streamingWindow>>
          /\ pendingRequest' = NoRequest /\ state' # "NeedFileData"
          /\ state' \notin {"WaitReceiverInit", "Done"} =>
               state # "WaitReceiverInit"
      BY <1>1, <1>2, <1>7 DEF OnZskip
    <2> QED
      BY <1>5, <2>1
  <1>8. CASE OnAbort(h)
    <2>1. /\ h.frame # "ZRINIT" /\ UNCHANGED <<capVars, streamingWindow>>
          /\ pendingRequest' = NoRequest /\ state' = "Done"
      BY <1>8 DEF OnAbort, StopAborted
    <2> QED
      BY <1>5, <2>1
  <1>9. CASE OnZfin(h)
    <2>1. /\ h.frame # "ZRINIT" /\ UNCHANGED <<capVars, streamingWindow>>
          /\ pendingRequest' = NoRequest /\ state' \in {state, "Done"}
      BY <1>1, <1>9 DEF OnZfin, CompleteSession, frameVars
    <2> QED
      BY <1>2, <1>5, <2>1
  <1>10. CASE OnOther(h)
    <2>1. /\ h.frame # "ZRINIT" /\ UNCHANGED <<capVars, streamingWindow>>
          /\ pendingRequest' = NoRequest /\ state' = state
      BY <1>1, <1>10 DEF OnOther, QueueZrqinit, frameVars
    <2> QED
      BY <1>2, <1>5, <2>1
  <1> QED
    BY <1>1, <1>3, <1>4, <1>6, <1>7, <1>8, <1>9, <1>10 DEF SubmitWire

\* The steps that are neither an arriving header nor a chunk.
LEMMA OtherPromises ==
  ASSUME TypeOK, Promises, OtherStep, UNCHANGED <<receiver, frame>>
  PROVE  Promises'
  <1>1. CASE \E subpackets \in Window : SetStreamingWindow(subpackets)
    BY <1>1, WindowStep
  <1>2. CASE \E name \in Name, size \in FileSize : StartFile(name, size)
    <2>1. PICK name \in Name, size \in FileSize : StartFile(name, size)
      BY <1>2
    <2>2. /\ UNCHANGED <<capVars, streamingWindow>>
          /\ pendingRequest' = NoRequest /\ state' # "NeedFileData"
          /\ state' \notin {"WaitReceiverInit", "Done"} =>
               state \notin {"WaitReceiverInit", "Done"}
      BY <2>1 DEF StartFile
    <2> QED
      BY <2>2, QuietStep
  <1>3. CASE Finish /\ state = "ReadyForFile"
    <2>1. pendingRequest = NoRequest
      BY <1>3 DEF Promises, RequestServable
    <2>2. /\ UNCHANGED <<capVars, streamingWindow>>
          /\ pendingRequest' = NoRequest
          /\ state' \in {"ReadyForFile", "WaitFinish"}
      BY <1>3, <2>1 DEF Finish, frameVars
    <2> QED
      BY <1>3, <2>2, QuietStep
  <1>4. CASE Abort
    <2>1. /\ UNCHANGED <<capVars, streamingWindow>>
          /\ pendingRequest' = NoRequest /\ state' = "Done"
      BY <1>4 DEF Abort, StopAborted
    <2> QED
      BY <2>1, QuietStep
  <1>5. ASSUME UNCHANGED <<state, fileSize, frameVars, capVars,
                           streamingWindow>>
        PROVE  Promises'
    BY <1>5, StillStep
  <1>6. CASE Finish /\ state # "ReadyForFile"
    BY <1>5, <1>6 DEF Finish, fileVars
  <1>7. CASE StartFileNameTooLong
    BY <1>5, <1>7 DEF StartFileNameTooLong
  <1>8. CASE Timeout
    BY <1>5, <1>8 DEF Timeout, fileVars
  <1>9. CASE PollEvent
    BY <1>5, <1>9 DEF PollEvent, fileVars
  <1>10. CASE \E n \in 1 .. Len(outgoing) : WireWritten(n)
    BY <1>5, <1>10 DEF WireWritten, fileVars
  <1>11. CASE SubmitGarbled
    BY <1>5, <1>11 DEF SubmitGarbled, fileVars
  <1> QED
    BY <1>1, <1>2, <1>3, <1>4, <1>6, <1>7, <1>8, <1>9, <1>10, <1>11
    DEF OtherStep

\* Every step keeps the flow control's promises.
LEMMA NextPromises == TypeOK /\ Promises /\ [FlowNext]_flowVars => Promises'
  <1> SUFFICES ASSUME TypeOK, Promises, [FlowNext]_flowVars
               PROVE  Promises'
    OBVIOUS
  <1>1. CASE \E h \in Incoming : FlowSubmitWire(h)
    BY <1>1, WireStep
  <1>2. CASE \E data \in Chunk : FlowSubmitFile(data)
    BY <1>2, SendChunk
  <1>3. CASE OtherStep /\ UNCHANGED <<receiver, frame>>
    BY <1>3, OtherPromises
  <1>4. CASE UNCHANGED flowVars
    BY <1>4, StillStep DEF flowVars, vars, fileVars
  <1> QED
    BY <1>1, <1>2, <1>3, <1>4 DEF FlowNext

\* FlowInv holds throughout.
THEOREM FlowInvariant == FlowSpec => []FlowInv
  <1>1. FlowInit => TypeOK /\ Promises
    BY InitType, InitPromises
  <1>2. TypeOK /\ Promises /\ [FlowNext]_flowVars => (TypeOK /\ Promises)'
    BY NextType, NextPromises
  <1>3. TypeOK /\ Promises => FlowInv
    BY DEF FlowInv, Promises
  <1> QED
    BY <1>1, <1>2, <1>3, PTL DEF FlowSpec

\* Flow control: a receiver is never sent more between two waits than it
\* advertised or the user's window allows, whatever ZRINITs arrive and
\* whenever the window changes.
THEOREM FlowControl == FlowSpec => []WithinTerms
  <1>1. FlowInv => WithinTerms
    BY DEF FlowInv
  <1> QED
    BY <1>1, FlowInvariant, PTL

\* The caller is never asked for bytes its file does not have.
THEOREM RequestsServable == FlowSpec => []RequestServable
  <1>1. FlowInv => RequestServable
    BY DEF FlowInv
  <1> QED
    BY <1>1, FlowInvariant, PTL

\* The data of a frame is contiguous from the offset its header names.
THEOREM FramesContiguous == FlowSpec => []FrameIsContiguous
  <1>1. FlowInv => FrameIsContiguous
    BY DEF FlowInv
  <1> QED
    BY <1>1, FlowInvariant, PTL

\* The window set last is the one in force with a nonstop receiver.
THEOREM PacingCurrent == FlowSpec => []PacingIsCurrent
  <1>1. FlowInv => PacingIsCurrent
    BY DEF FlowInv
  <1> QED
    BY <1>1, FlowInvariant, PTL

-----------------------------------------------------------------------------
(***************************************************************************)
(* What is on the wire, and the slot for the event.                        *)
(***************************************************************************)
\* Nothing but a chunk of the file puts data on the wire.
LEMMA NoData ==
  /\ \A f \in Frame : \A n \in Nat : DataOf(<<Header(f, n)>>) = {}
  /\ \A name, size : DataOf(FileUnits(name, size)) = {}
  /\ DataOf(<<OverAndOut>>) = {}
  /\ DataOf(<<>>) = {}
  <1>1. ASSUME NEW f \in Frame, NEW n \in Nat
        PROVE  DataOf(<<Header(f, n)>>) = {}
    <2>1. \A i \in 1 .. Len(<<Header(f, n)>>) :
            <<Header(f, n)>>[i].is = "header"
      BY DEF Header
    <2> QED
      BY <2>1 DEF DataOf
  <1>2. ASSUME NEW name, NEW size
        PROVE  DataOf(FileUnits(name, size)) = {}
    <2>1. \A i \in 1 .. Len(FileUnits(name, size)) :
            FileUnits(name, size)[i].is \in {"header", "metadata"}
      BY DEF FileUnits, Header, Metadata
    <2> QED
      BY <2>1 DEF DataOf
  <1>3. DataOf(<<OverAndOut>>) = {}
    <2>1. \A i \in 1 .. Len(<<OverAndOut>>) : <<OverAndOut>>[i].is = "OO"
      BY DEF OverAndOut
    <2> QED
      BY <2>1 DEF DataOf
  <1>4. DataOf(<<>>) = {}
    BY DEF DataOf
  <1> QED
    BY <1>1, <1>2, <1>3, <1>4

\* No data is queued, whatever the state.
LEMMA QuietWire ==
  ASSUME DataOf(outgoing) = {}
  PROVE  WaitMatchesWire
  BY DEF WaitMatchesWire

\* Neither state nor output change, or the session ends.
LEMMA SameWire ==
  ASSUME WaitMatchesWire, outgoing' = outgoing, state' \in {state, "Done"}
  PROVE  WaitMatchesWire'
  BY DEF WaitMatchesWire, DataOf

\* A chunk of the file is queued with the terminator that says what is next.
LEMMA ChunkWire ==
  ASSUME TypeOK, NEW data \in Chunk, SubmitFile(data)
  PROVE  WaitMatchesWire'
  <1> DEFINE kind == IF IsLastInFrame(data) THEN "ZCRCW" ELSE "ZCRCG"
             sub == Subpacket(kind, data)
             head == Header("ZDATA", pendingRequest.offset)
  <1>1. /\ sub.is = "subpacket" /\ sub.kind = kind
        /\ head.is = "header"
    BY DEF Subpacket, Header
  <1> HIDE DEF sub, head
  <1>2. \A i \in 1 .. Len(outgoing') : outgoing'[i] \in {head, sub}
    <2> DEFINE first == IF frameNeedsHeader THEN <<head>> ELSE <<>>
    <2>1. outgoing' = first \o <<sub>>
      BY DEF SubmitFile, DataUnits, sub, head, kind
    <2>2. first \in Seq({head, sub}) /\ <<sub>> \in Seq({head, sub})
      OBVIOUS
    <2> HIDE DEF first
    <2>3. outgoing' \in Seq({head, sub})
      BY <2>1, <2>2, ConcatProperties
    <2> QED
      BY <2>3
  <1>3. \A i \in DataOf(outgoing') : outgoing'[i] = sub
    BY <1>1, <1>2 DEF DataOf
  <1>4. state' = IF IsLastInFrame(data) THEN "WaitFileAck" ELSE "NeedFileData"
    BY DEF SubmitFile
  <1> QED
    BY <1>1, <1>3, <1>4 DEF WaitMatchesWire

\* The first n units are written: the rest is as it was.
LEMMA ShorterWire ==
  ASSUME TypeOK, WaitMatchesWire, NEW n \in 1 .. Len(outgoing), WireWritten(n)
  PROVE  WaitMatchesWire'
  <1>1. /\ outgoing \in Seq(Unit) /\ Len(outgoing) \in Nat
        /\ outgoing' = SubSeq(outgoing, n + 1, Len(outgoing))
        /\ state' = state
    BY DEF TypeOK, WireWritten
  <1>2. Len(outgoing') = Len(outgoing) - n
    BY <1>1
  <1>3. \A i \in 1 .. Len(outgoing') :
          i + n \in 1 .. Len(outgoing) /\ outgoing'[i] = outgoing[i + n]
    BY <1>1, <1>2
  <1>4. ASSUME NEW i \in DataOf(outgoing')
        PROVE  i + n \in DataOf(outgoing) /\ outgoing'[i] = outgoing[i + n]
    BY <1>3 DEF DataOf
  <1> QED
    BY <1>1, <1>4 DEF WaitMatchesWire

\* A header is answered without data.
LEMMA WireOfAnswer ==
  ASSUME TypeOK, WaitMatchesWire, NEW h \in Incoming, SubmitWire(h)
  PROVE  WaitMatchesWire'
  <1>1. outgoing = <<>> /\ h.count \in Nat
    BY InputAssumption DEF SubmitWire, Readable, HeaderUnit
  <1>2. /\ DataOf(<<Header("ZFIN", 0)>>) = {}
        /\ DataOf(<<Header("ZRQINIT", 0)>>) = {}
        /\ DataOf(<<Header("ZEOF", h.count)>>) = {}
    BY <1>1, NoData DEF Frame
  <1>3. DataOf(outgoing') = {}
    <2>1. CASE OnZrinit(h)
      BY <1>1, <1>2, <2>1, NoData DEF OnZrinit, FinishOrReady, CompleteSession
    <2>2. CASE OnZrpos(h)
      BY <1>1, <1>2, <2>2, NoData DEF OnZrpos, QueueZrqinit
    <2>3. CASE OnZskip(h) \/ OnAbort(h)
      BY <1>1, <2>3, NoData DEF OnZskip, OnAbort, StopAborted
    <2>4. CASE OnZfin(h)
      BY <1>1, <2>4, NoData DEF OnZfin, CompleteSession
    <2>5. CASE OnOther(h)
      BY <1>1, <1>2, <2>5, NoData DEF OnOther, QueueZrqinit
    <2> QED
      BY <2>1, <2>2, <2>3, <2>4, <2>5 DEF SubmitWire
  <1> QED
    BY <1>3 DEF WaitMatchesWire

\* Every other step.
LEMMA WireOfOther ==
  ASSUME TypeOK, WaitMatchesWire, OtherStep
  PROVE  WaitMatchesWire'
  <1>1. /\ DataOf(<<Header("ZFIN", 0)>>) = {}
        /\ DataOf(<<Header("ZRQINIT", 0)>>) = {}
        /\ DataOf(<<Header("ZNAK", 0)>>) = {}
    BY NoData DEF Frame
  <1>2. CASE \E name \in Name, size \in FileSize : StartFile(name, size)
    <2>1. PICK name \in Name, size \in FileSize : StartFile(name, size)
      BY <1>2
    <2>2. CASE outgoing' = FileUnits(name, size)
      BY <2>2, NoData DEF WaitMatchesWire
    <2>3. CASE UNCHANGED <<state, outgoing>>
      BY <2>3, SameWire
    <2> QED
      BY <2>1, <2>2, <2>3 DEF StartFile
  <1>3. CASE Finish
    <2>1. CASE outgoing' = <<Header("ZFIN", 0)>>
      BY <1>1, <2>1 DEF WaitMatchesWire
    <2>2. CASE UNCHANGED <<state, outgoing>>
      BY <2>2, SameWire
    <2> QED
      BY <1>3, <2>1, <2>2 DEF Finish
  <1>4. CASE Timeout \/ SubmitGarbled
    BY <1>1, <1>4 DEF Timeout, SubmitGarbled, WaitMatchesWire
  <1>5. CASE \E n \in 1 .. Len(outgoing) : WireWritten(n)
    BY <1>5, ShorterWire
  <1>6. CASE \/ \E subpackets \in Window : SetStreamingWindow(subpackets)
             \/ StartFileNameTooLong \/ Abort \/ PollEvent
    BY <1>6, SameWire
    DEF SetStreamingWindow, StartFileNameTooLong, Abort, StopAborted,
        PollEvent
  <1> QED
    BY <1>2, <1>3, <1>4, <1>5, <1>6 DEF OtherStep

\* What the terminator on the wire says and what the sender does next agree.
THEOREM WireMatches == FlowSpec => []WaitMatchesWire
  <1>1. FlowInit => WaitMatchesWire
    BY NoData, QuietWire DEF FlowInit, Init, Frame
  <1>2. TypeOK /\ WaitMatchesWire /\ [FlowNext]_flowVars => WaitMatchesWire'
    BY ChunkWire, WireOfAnswer, WireOfOther, SameWire
    DEF FlowNext, FlowSubmitWire, FlowSubmitFile, flowVars, vars
  <1> QED
    BY <1>1, <1>2, TypeCorrect, PTL DEF FlowSpec

\* An event that waits for the caller is guarded against the next one.
LEMMA EventStep ==
  ASSUME TypeOK, EventGuarded, [FlowNext]_flowVars
  PROVE  /\ EventGuarded'
         /\ pendingEvent # NoEvent =>
              pendingEvent' \in {pendingEvent, NoEvent, "Aborted"}
  <1>1. ASSUME NEW h \in Incoming, SubmitWire(h)
        PROVE  /\ EventGuarded'
               /\ pendingEvent # NoEvent =>
                    pendingEvent' \in {pendingEvent, NoEvent, "Aborted"}
    <2>1. /\ outgoing = <<>> /\ state # "Done"
          /\ pendingEvent # NoEvent =>
               pendingEvent = "FileComplete" /\ state = "ReadyForFile"
      BY <1>1 DEF SubmitWire, Readable, EventGuarded
    <2>2. \A u : <<u>> # <<>>
      OBVIOUS
    <2>3. CASE OnZrinit(h)
      BY <2>1, <2>2, <2>3
      DEF OnZrinit, CompletesFile, FinishOrReady, CompleteSession,
          EventGuarded
    <2>4. CASE OnZrpos(h)
      BY <2>1, <2>4 DEF OnZrpos, QueueZrqinit, EventGuarded
    <2>5. CASE OnZskip(h)
      BY <2>1, <2>5 DEF OnZskip, EventGuarded
    <2>6. CASE OnAbort(h)
      BY <2>6 DEF OnAbort, StopAborted, EventGuarded
    <2>7. CASE OnZfin(h)
      BY <2>1, <2>7 DEF OnZfin, CompleteSession, EventGuarded
    <2>8. CASE OnOther(h)
      BY <2>1, <2>8 DEF OnOther, QueueZrqinit, EventGuarded
    <2> QED
      BY <1>1, <2>3, <2>4, <2>5, <2>6, <2>7, <2>8 DEF SubmitWire
  <1>2. CASE \E data \in Chunk : SubmitFile(data)
    BY <1>2 DEF SubmitFile, EventGuarded
  <1>3. CASE \E n \in 1 .. Len(outgoing) : WireWritten(n)
    BY <1>3 DEF WireWritten, WriteHandedOut, EventGuarded
  <1>4. CASE \E name \in Name, size \in FileSize : StartFile(name, size)
    BY <1>4 DEF StartFile, FileUnits, EventGuarded
  <1>5. CASE Finish \/ Timeout \/ SubmitGarbled
    BY <1>5 DEF Finish, Timeout, SubmitGarbled, EventGuarded
  <1>6. CASE \/ \E subpackets \in Window : SetStreamingWindow(subpackets)
             \/ StartFileNameTooLong \/ Abort \/ PollEvent
             \/ UNCHANGED flowVars
    BY <1>6
    DEF SetStreamingWindow, StartFileNameTooLong, Abort, StopAborted,
        PollEvent, flowVars, vars, EventGuarded
  <1> QED
    BY <1>1, <1>2, <1>3, <1>4, <1>5, <1>6
    DEF FlowNext, FlowSubmitWire, FlowSubmitFile, OtherStep

\* No event is overwritten before the caller took it, except by Aborted.
THEOREM EventsKept == FlowSpec => EventsNotLost
  <1>1. FlowInit => EventGuarded
    BY DEF FlowInit, Init, EventGuarded
  <1>2. TypeOK /\ EventGuarded /\ [FlowNext]_flowVars =>
          /\ EventGuarded'
          /\ pendingEvent # NoEvent =>
               pendingEvent' \in {pendingEvent, NoEvent, "Aborted"}
    BY EventStep
  <1> QED
    BY <1>1, <1>2, TypeCorrect, PTL DEF FlowSpec, EventsNotLost

\* Nothing is queued, and nothing but Aborted reported, after the end.
THEOREM DoneForGood == FlowSpec => DoneIsFinal
  <1> DEFINE Suffix == \E n \in 0 .. Len(outgoing) :
                         outgoing' = SubSeq(outgoing, n + 1, Len(outgoing))
  <1>1. ASSUME TypeOK, [FlowNext]_flowVars, state = "Done"
        PROVE  /\ state' = "Done" /\ Suffix
               /\ pendingEvent' \in {pendingEvent, NoEvent, "Aborted"}
    <2>1. outgoing' = outgoing => Suffix
      <3>1. outgoing \in Seq(Unit)
        BY <1>1 DEF TypeOK
      <3>2. SubSeq(outgoing, 0 + 1, Len(outgoing)) = outgoing
        BY <3>1
      <3> QED
        BY <3>1, <3>2
    <2>2. CASE \E n \in 1 .. Len(outgoing) : WireWritten(n)
      <3>1. PICK n \in 1 .. Len(outgoing) : WireWritten(n)
        BY <2>2
      <3>2. n \in 0 .. Len(outgoing)
        BY <1>1 DEF TypeOK
      <3> QED
        BY <1>1, <3>1, <3>2 DEF WireWritten
    <2> HIDE DEF Suffix
    <2>3. CASE \/ \E subpackets \in Window : SetStreamingWindow(subpackets)
               \/ StartFileNameTooLong \/ Finish \/ Abort \/ PollEvent
               \/ UNCHANGED flowVars
      BY <1>1, <2>1, <2>3
      DEF SetStreamingWindow, StartFileNameTooLong, Finish, Abort,
          StopAborted, PollEvent, flowVars, vars
    <2>4. CASE \/ \E h \in Incoming : SubmitWire(h)
               \/ \E data \in Chunk : SubmitFile(data)
               \/ \E name \in Name, size \in FileSize : StartFile(name, size)
               \/ Timeout \/ SubmitGarbled
      BY <1>1, <2>4
      DEF SubmitWire, Readable, SubmitFile, StartFile, Timeout, SubmitGarbled
    <2> QED
      BY <1>1, <2>2, <2>3, <2>4
      DEF FlowNext, FlowSubmitWire, FlowSubmitFile, OtherStep
  <1> QED
    BY <1>1, TypeCorrect, PTL DEF FlowSpec, DoneIsFinal
=============================================================================
