--------------------------- MODULE ReceiverProofs ---------------------------
(***************************************************************************)
(* Proofs about the receiver, for every value of the constants.            *)
(*                                                                         *)
(* FlowInv is inductive.  Its part TypeOK is proved to be preserved first, *)
(* then the rest, Ledger: what the position, the answers and the phases    *)
(* say of the bytes persisted.                                             *)
(***************************************************************************)
EXTENDS ReceiverFlow, SequenceTheorems, TLAPS

Ledger ==
  /\ CountIsPersisted /\ AnswersArePersisted /\ OutputFreeWhileWriting
  /\ PhaseFits /\ BeginsAtZero /\ BudgetSpent /\ OpenWhereItMatters

-----------------------------------------------------------------------------
(***************************************************************************)
(* Units, sequences and phases.                                            *)
(***************************************************************************)
\* The headers the receiver answers with are units of the wire.
LEMMA AnswersAreUnits ==
  /\ <<OwnZrinit>> \in Seq(Unit)
  /\ \A f \in Frame : \A n \in Nat : <<Header(f, n)>> \in Seq(Unit)
  <1>1. OwnZrinit \in Unit
    BY LimitsAssumption DEF OwnZrinit, Zrinit, Unit, HeaderUnit, Frame
  <1>2. ASSUME NEW f \in Frame, NEW n \in Nat
        PROVE  <<Header(f, n)>> \in Seq(Unit)
    <2>1. Header(f, n) \in Unit
      BY DEF Header, Unit, HeaderUnit
    <2> QED
      BY <2>1
  <1> QED
    BY <1>1, <1>2

\* What is left of the output after the first n units are units.
LEMMA DropUnits ==
  ASSUME NEW units \in Seq(Unit), NEW n \in 1 .. Len(units)
  PROVE  SubSeq(units, n + 1, Len(units)) \in Seq(Unit)
  OBVIOUS

\* One more event fits while the queue is not full.
LEMMA OneMoreEvent ==
  ASSUME TypeOK, ~EventsFull, NEW event \in ReceiverEvent, PushEvent(event)
  PROVE  /\ pendingEvents' \in Seq(ReceiverEvent)
         /\ Len(pendingEvents') <= EventQueueCap
         /\ Len(pendingEvents') = Len(pendingEvents) + 1
         /\ pendingEvents'[Len(pendingEvents')] = event
  BY LimitsAssumption DEF TypeOK, EventsFull, PushEvent

\* The four sorts of phases.
LEMMA Phases ==
  /\ Idle \in SubpacketPhase /\ Reading \in SubpacketPhase
  /\ \A k \in SubpacketType :
       Writing(k) \in SubpacketPhase /\ Crc(k) \in SubpacketPhase
  /\ Idle.phase = "Idle" /\ Reading.phase = "Reading"
  /\ \A k \in SubpacketType :
       Writing(k).phase = "Writing" /\ Crc(k).phase = "Crc"
  BY DEF SubpacketPhase, Idle, Reading, Writing, Crc

\* A phase in which data waits carries its terminator.
LEMMA KindOfWriting ==
  ASSUME TypeOK, subpacketState.phase = "Writing"
  PROVE  subpacketState.kind \in SubpacketType
  BY DEF TypeOK, SubpacketPhase, Idle, Reading, Writing, Crc

\* A buffer that is cleared is empty.
LEMMA EmptyBuf ==
  ASSUME buf' = <<>>, bufWriteOffset' = 0
  PROVE  /\ buf' \in Seq(Byte) /\ Len(buf') <= SubpacketMaxSize
         /\ bufWriteOffset' \in 0 .. Len(buf')
  BY LimitsAssumption

\* Data waits exactly in that phase, and as much as was not persisted yet.
LEMMA WaitingData ==
  ASSUME TypeOK
  PROVE  /\ DrainFile # <<>> => subpacketState.phase = "Writing"
         /\ subpacketState.phase = "Writing" =>
              /\ Len(DrainFile) = Len(buf) - bufWriteOffset
              /\ DrainFile = <<>> <=> bufWriteOffset = Len(buf)
  <1>1. /\ buf \in Seq(Byte) /\ Len(buf) \in Nat
        /\ bufWriteOffset \in 0 .. Len(buf)
    BY DEF TypeOK
  <1>2. CASE subpacketState.phase = "Writing"
    <2>1. DrainFile = SubSeq(buf, bufWriteOffset + 1, Len(buf))
      BY <1>2 DEF DrainFile
    <2>2. /\ DrainFile \in Seq(Byte)
          /\ Len(DrainFile) = Len(buf) - bufWriteOffset
      BY <1>1, <2>1
    <2>3. DrainFile = <<>> <=> Len(DrainFile) = 0
      BY <2>2, EmptySeq
    <2> QED
      BY <1>1, <1>2, <2>2, <2>3
  <1>3. CASE subpacketState.phase # "Writing"
    BY <1>3 DEF DrainFile
  <1> QED
    BY <1>2, <1>3

-----------------------------------------------------------------------------
(***************************************************************************)
(* Type correctness.                                                       *)
(***************************************************************************)
\* A new receiver.
LEMMA InitType == FlowInit => TypeOK
  <1>1. <<OwnZrinit>> \in Seq(Unit)
    BY AnswersAreUnits
  <1>2. Idle \in SubpacketPhase
    BY Phases
  <1> SUFFICES ASSUME FlowInit
               PROVE  TypeOK
    OBVIOUS
  <1>3. /\ buf \in Seq(Byte) /\ Len(buf) <= SubpacketMaxSize
        /\ bufWriteOffset \in 0 .. Len(buf)
    BY LimitsAssumption DEF FlowInit, Init
  <1>4. /\ pendingEvents \in Seq(ReceiverEvent)
        /\ Len(pendingEvents) <= EventQueueCap
    BY LimitsAssumption DEF FlowInit, Init
  <1>5. /\ count \in 0 .. MaxPosition /\ fileSize \in 0 .. MaxPosition
        /\ zrposRetries \in 0 .. MaxZrposRetries + 1
        /\ rewinds \in 0 .. MaxZrposRetries + 1
    BY LimitsAssumption DEF FlowInit, Init
  <1> QED
    BY <1>1, <1>2, <1>3, <1>4, <1>5 DEF FlowInit, Init, TypeOK, ReceiverPhase

\* What finishing a subpacket writes.
LEMMA FinishType ==
  ASSUME TypeOK, NEW kind \in SubpacketType, NEW len \in Nat,
         FinishSubpacket(kind, len)
  PROVE  /\ state' \in ReceiverPhase
         /\ count' = count + len /\ count' \in 0 .. MaxPosition
         /\ buf' = <<>> /\ bufWriteOffset' = 0
         /\ subpacketState' \in {Idle, Reading}
         /\ outgoing' \in Seq(Unit)
         /\ zrposRetries' = 0
         /\ UNCHANGED <<fileName, fileSize>>
  <1>1. count' = count + len /\ count' \in 0 .. MaxPosition
    BY LimitsAssumption DEF FinishSubpacket, Fits, Advanced, TypeOK
  <1>2. <<Acknowledgement(len)>> \in Seq(Unit)
    BY <1>1, AnswersAreUnits, LimitsAssumption
    DEF Acknowledgement, Advanced, TypeOK, Frame
  <1> QED
    BY <1>1, <1>2 DEF FinishSubpacket, ClearBuf, TypeOK, ReceiverPhase

\* A header that arrives.
LEMMA HeaderType ==
  ASSUME TypeOK, NEW h \in Incoming, FlowHeader(h)
  PROVE  TypeOK'
  <1>1. SubmitHeader(h) /\ ~EventsFull
    BY DEF FlowHeader, SubmitHeader, ReadableAsHeader, Blocked
  <1>2. /\ <<Header("ZRPOS", count)>> \in Seq(Unit)
        /\ <<Header("ZFIN", 0)>> \in Seq(Unit)
        /\ <<OwnZrinit>> \in Seq(Unit)
    BY AnswersAreUnits, LimitsAssumption DEF TypeOK, Frame
  <1>3. \A event \in ReceiverEvent :
          PushEvent(event) => /\ pendingEvents' \in Seq(ReceiverEvent)
                              /\ Len(pendingEvents') <= EventQueueCap
    BY <1>1, OneMoreEvent
  <1>4. Reading \in SubpacketPhase /\ <<>> \in Seq(Byte) /\ Len(<<>>) = 0
    BY Phases
  <1> DEFINE Written ==
        /\ state \in ReceiverPhase
        /\ count \in 0 .. MaxPosition
        /\ buf \in Seq(Byte) /\ Len(buf) <= SubpacketMaxSize
        /\ bufWriteOffset \in 0 .. Len(buf)
        /\ subpacketState \in SubpacketPhase
        /\ outgoing \in Seq(Unit)
        /\ pendingEvents \in Seq(ReceiverEvent)
        /\ Len(pendingEvents) <= EventQueueCap
        /\ fileActive \in BOOLEAN
  <1>5. Written'
    <2>1. CASE OnZrqinitOrEarlyData(h)
      BY <2>1, <1>2 DEF OnZrqinitOrEarlyData, Answer, TypeOK, bufVars
    <2>2. ASSUME NEW phase \in {"SinitReadingData", "FileReadingMetadata",
                                "FileReadingSubpacket"},
                 SilentlyEnter(phase)
          PROVE  Written'
      BY <2>2, <1>4, LimitsAssumption
      DEF SilentlyEnter, ClearBuf, TypeOK, ReceiverPhase
    <2>3. CASE OnZsinit(h)
      BY <2>2, <2>3 DEF OnZsinit
    <2>4. CASE OnZfile(h)
      BY <2>2, <2>4 DEF OnZfile
    <2>5. CASE OnZdata(h)
      <3>1. CASE Matches(h)
        BY <2>2, <2>5, <3>1 DEF OnZdata
      <3>2. CASE ~Matches(h)
        BY <2>5, <3>2, <1>2 DEF OnZdata, Answer, TypeOK, bufVars
      <3> QED
        BY <3>1, <3>2
    <2>6. CASE OnZeof(h)
      BY <2>6, <1>2, <1>3
      DEF OnZeof, Answer, TypeOK, bufVars, ReceiverPhase, ReceiverEvent
    <2>7. CASE OnAbort(h)
      BY <2>7, <1>3 DEF OnAbort, TypeOK, bufVars, ReceiverPhase, ReceiverEvent
    <2>8. CASE OnZfin(h)
      BY <2>8, <1>2, <1>3
      DEF OnZfin, Answer, TypeOK, bufVars, ReceiverPhase, ReceiverEvent
    <2>9. CASE Ignored(h)
      BY <2>9 DEF Ignored, Stay, TypeOK, bufVars
    <2> QED
      BY <1>1, <2>1, <2>3, <2>4, <2>5, <2>6, <2>7, <2>8, <2>9
      DEF SubmitHeader
  <1> HIDE DEF Written
  <1>6. /\ resyncing' \in BOOLEAN
        /\ UNCHANGED <<fileName, fileSize, manualAccept, zrposRetries>>
    BY <1>1 DEF SubmitHeader
  <1>7. opened' \in BOOLEAN /\ UNCHANGED <<base, persisted, rewinds>>
    BY DEF FlowHeader, TypeOK
  <1> QED
    BY <1>5, <1>6, <1>7 DEF Written, TypeOK

\* The caller persists data.
LEMMA WrittenType ==
  ASSUME TypeOK, NEW n \in 1 .. Len(DrainFile), FlowWritten(n)
  PROVE  TypeOK'
  <1>1. /\ FileWritten(n) /\ n \in Nat
        /\ buf \in Seq(Byte) /\ Len(buf) \in Nat
        /\ bufWriteOffset \in 0 .. Len(buf)
    BY DEF FlowWritten, TypeOK
  <1>2. /\ subpacketState.phase = "Writing"
        /\ Len(DrainFile) = Len(buf) - bufWriteOffset
    <2>1. DrainFile # <<>>
      OBVIOUS
    <2> QED
      BY <2>1, WaitingData
  <1>3. subpacketState.kind \in SubpacketType
    BY <1>2, KindOfWriting
  <1>4. /\ persisted' \in Nat /\ rewinds' \in 0 .. MaxZrposRetries + 1
        /\ UNCHANGED <<base, opened, pendingEvents, manualAccept, fileActive,
                       resyncing>>
    BY <1>1, LimitsAssumption DEF FlowWritten, FileWritten, TypeOK
  <1>5. CASE FinishSubpacket(subpacketState.kind, Len(buf))
    <2>1. Idle \in SubpacketPhase /\ Reading \in SubpacketPhase
      BY Phases
    <2>2. /\ state' \in ReceiverPhase /\ count' \in 0 .. MaxPosition
          /\ buf' = <<>> /\ bufWriteOffset' = 0
          /\ subpacketState' \in {Idle, Reading}
          /\ outgoing' \in Seq(Unit) /\ zrposRetries' = 0
          /\ UNCHANGED <<fileName, fileSize>>
      BY <1>1, <1>3, <1>5, FinishType
    <2> QED
      BY <1>4, <2>1, <2>2, EmptyBuf, LimitsAssumption DEF TypeOK
  <1>6. CASE /\ UNCHANGED <<state, fileVars, buf, subpacketState, outgoing,
                            zrposRetries>>
             /\ bufWriteOffset' \in 0 .. Len(buf)
    BY <1>4, <1>6 DEF TypeOK, fileVars
  <1> QED
    BY <1>1, <1>2, <1>5, <1>6 DEF FileWritten

\* A ZFILE payload, and the user's decision about the file.
LEMMA FileType ==
  ASSUME TypeOK,
         \/ \E offset \in ResumeOffset : FlowAccept(offset)
         \/ FlowSkip
         \/ \E name \in Name, size \in IncomingSize : FlowMetadata(name, size)
  PROVE  TypeOK'
  <1>1. CASE \E offset \in ResumeOffset : FlowAccept(offset)
    <2>1. PICK offset \in ResumeOffset : FlowAccept(offset)
      BY <1>1
    <2>2. offset \in 0 .. MaxPosition /\ offset \in Nat
      BY InputAssumption, LimitsAssumption
    <2>3. <<Header("ZRPOS", offset)>> \in Seq(Unit)
      BY <2>2, AnswersAreUnits DEF Frame
    <2> QED
      BY <2>1, <2>2, <2>3, LimitsAssumption
      DEF FlowAccept, AcceptFileAt, Restart, TypeOK, bufVars, ReceiverPhase
  <1>2. CASE FlowSkip
    <2>1. <<Refusal>> \in Seq(Unit)
      BY AnswersAreUnits DEF Refusal, Frame
    <2> QED
      BY <1>2, <2>1
      DEF FlowSkip, SkipFile, TypeOK, bufVars, fileVars, ReceiverPhase
  <1>3. CASE \E name \in Name, size \in IncomingSize :
               FlowMetadata(name, size)
    <2>1. PICK name \in Name, size \in IncomingSize : FlowMetadata(name, size)
      BY <1>3
    <2>2. size \in 0 .. MaxPosition
      BY InputAssumption
    <2>3. <<Header("ZRPOS", 0)>> \in Seq(Unit)
      BY AnswersAreUnits DEF Frame
    <2>4. /\ pendingEvents' \in Seq(ReceiverEvent)
          /\ Len(pendingEvents') <= EventQueueCap
      BY <2>1, OneMoreEvent
      DEF FlowMetadata, SubmitMetadata, ReadableAsData, Blocked,
          ReceiverEvent
    <2>5. Idle \in SubpacketPhase
      BY Phases
    <2>6. /\ buf' \in Seq(Byte) /\ Len(buf') <= SubpacketMaxSize
          /\ bufWriteOffset' \in 0 .. Len(buf')
      BY <2>1, EmptyBuf DEF FlowMetadata, SubmitMetadata, ClearBuf
    <2>7. /\ state' \in ReceiverPhase /\ outgoing' \in Seq(Unit)
          /\ fileActive' \in BOOLEAN /\ opened' \in BOOLEAN
      BY <2>1, <2>3
      DEF FlowMetadata, SubmitMetadata, Answer, TypeOK, ReceiverPhase
    <2>8. /\ fileName' = name /\ fileSize' = size /\ count' = 0
          /\ subpacketState' = Idle
          /\ base' = 0 /\ persisted' = 0 /\ rewinds' = 0
          /\ UNCHANGED <<manualAccept, zrposRetries, resyncing>>
      BY <2>1 DEF FlowMetadata, SubmitMetadata, Restart
    <2> QED
      BY <2>2, <2>4, <2>5, <2>6, <2>7, <2>8, LimitsAssumption DEF TypeOK
  <1> QED
    BY <1>1, <1>2, <1>3

\* A corrupt subpacket that is recovered from.
LEMMA RecoverType ==
  ASSUME TypeOK, FlowRecover
  PROVE  TypeOK'
  <1>1. <<Header("ZRPOS", count)>> \in Seq(Unit)
    BY AnswersAreUnits, LimitsAssumption DEF TypeOK, Frame
  <1>2. /\ buf' = <<>> /\ buf' \in Seq(Byte) /\ Len(buf') = 0
        /\ bufWriteOffset' = 0
    BY DEF FlowRecover, RecoverCorruptSubpacket, ClearBuf
  <1>3. Idle \in SubpacketPhase
    BY Phases
  <1>4. /\ zrposRetries' \in 0 .. MaxZrposRetries + 1
        /\ rewinds' \in 0 .. MaxZrposRetries + 1
    BY LimitsAssumption DEF FlowRecover, RecoverCorruptSubpacket, TypeOK
  <1> QED
    BY <1>1, <1>2, <1>3, <1>4, LimitsAssumption
    DEF FlowRecover, RecoverCorruptSubpacket, Answer, TypeOK, fileVars,
        ReceiverPhase

\* Every other step.
LEMMA OtherStepType ==
  ASSUME TypeOK, BudgetSpent, OtherStep, UNCHANGED flow
  PROVE  TypeOK'
  <1>1. CASE \E manual \in BOOLEAN : SetManualFileAccept(manual)
    BY <1>1 DEF SetManualFileAccept, TypeOK, fileVars, bufVars, flow
  <1>2. CASE Timeout
    <2>1. <<OwnZrinit>> \in Seq(Unit)
      BY AnswersAreUnits
    <2> QED
      BY <1>2, <2>1 DEF Timeout, TypeOK, fileVars, bufVars, flow
  <1>3. CASE Abort
    <2>1. /\ pendingEvents' \in Seq(ReceiverEvent)
          /\ Len(pendingEvents') <= EventQueueCap
      BY <1>3, OneMoreEvent DEF Abort, ReceiverEvent, TypeOK
    <2> QED
      BY <1>3, <2>1
      DEF Abort, TypeOK, fileVars, bufVars, flow, ReceiverPhase
  <1>4. CASE PollEvent
    <2>1. /\ pendingEvents' \in Seq(ReceiverEvent)
          /\ Len(pendingEvents') <= EventQueueCap
      BY <1>4, LimitsAssumption DEF PollEvent, TypeOK
    <2> QED
      BY <1>4, <2>1 DEF PollEvent, TypeOK, fileVars, bufVars, flow
  <1>5. CASE \E n \in 1 .. Len(outgoing) : WireWritten(n)
    <2>1. outgoing' \in Seq(Unit)
      BY <1>5, DropUnits DEF WireWritten, TypeOK
    <2> QED
      BY <1>5, <2>1 DEF WireWritten, TypeOK, fileVars, bufVars, flow
  <1>6. CASE SubmitGarbled
    <2>1. <<Header("ZNAK", 0)>> \in Seq(Unit)
      BY AnswersAreUnits DEF Frame
    <2> QED
      BY <1>6, <2>1
      DEF SubmitGarbled, Answer, TypeOK, fileVars, bufVars, flow
  <1>7. CASE \E storedName \in Name \cup {fileName, EmptyName} :
               SubmitMalformedMetadata(storedName)
    <2>1. Crc("ZCRCW") \in SubpacketPhase
      BY Phases DEF SubpacketType
    <2> QED
      BY <1>7, <2>1 DEF SubmitMalformedMetadata, TypeOK, bufVars, flow
  <1>8. CASE SubmitSinitData
    <2>1. <<Header("ZACK", 0)>> \in Seq(Unit)
      BY AnswersAreUnits DEF Frame
    <2>2. /\ buf' = <<>> /\ buf' \in Seq(Byte) /\ Len(buf') = 0
          /\ bufWriteOffset' = 0
      BY <1>8 DEF SubmitSinitData, ClearBuf
    <2>3. Idle \in SubpacketPhase
      BY Phases
    <2> QED
      BY <1>8, <2>1, <2>2, <2>3, LimitsAssumption
      DEF SubmitSinitData, Answer, TypeOK, fileVars, flow, ReceiverPhase
  <1>9. CASE \E kind \in SubpacketType, data \in IncomingData :
               SubmitData(kind, data)
    <2>1. PICK kind \in SubpacketType, data \in IncomingData :
            SubmitData(kind, data)
      BY <1>9
    <2>2. data \in Seq(Byte) /\ Len(data) <= SubpacketMaxSize
      BY InputAssumption
    <2>3. UNCHANGED <<pendingEvents, manualAccept, fileActive, resyncing>>
      BY <2>1 DEF SubmitData
    <2>4. CASE data # <<>>
      <3>1. Writing(kind) \in SubpacketPhase
        BY Phases
      <3>2. /\ buf' = data /\ bufWriteOffset' = 0
            /\ subpacketState' = Writing(kind)
            /\ UNCHANGED <<state, fileVars, outgoing, zrposRetries>>
        BY <2>1, <2>4 DEF SubmitData
      <3> QED
        BY <2>2, <2>3, <3>1, <3>2 DEF TypeOK, fileVars, flow
    <2>5. CASE FinishSubpacket(kind, 0)
      <3>1. Idle \in SubpacketPhase /\ Reading \in SubpacketPhase
        BY Phases
      <3>2. /\ state' \in ReceiverPhase /\ count' \in 0 .. MaxPosition
            /\ buf' = <<>> /\ bufWriteOffset' = 0
            /\ subpacketState' \in {Idle, Reading}
            /\ outgoing' \in Seq(Unit) /\ zrposRetries' = 0
            /\ UNCHANGED <<fileName, fileSize>>
        BY <2>5, FinishType
      <3> QED
        BY <2>3, <3>1, <3>2, EmptyBuf, LimitsAssumption DEF TypeOK, flow
    <2> QED
      BY <2>1, <2>4, <2>5 DEF SubmitData
  <1>10. CASE \E kind \in SubpacketType : GiveUpOnCorruptSubpacket(kind)
    <2>1. PICK kind \in SubpacketType : GiveUpOnCorruptSubpacket(kind)
      BY <1>10
    <2>2. Crc(kind) \in SubpacketPhase
      BY Phases
    <2>3. zrposRetries <= MaxZrposRetries
      BY <2>1, LimitsAssumption
      DEF GiveUpOnCorruptSubpacket, ReadableAsData, BudgetSpent, TypeOK,
          Reading
    <2>4. zrposRetries' \in 0 .. MaxZrposRetries + 1
      BY <2>1, <2>3, LimitsAssumption DEF GiveUpOnCorruptSubpacket, TypeOK
    <2> QED
      BY <2>1, <2>2, <2>4
      DEF GiveUpOnCorruptSubpacket, TypeOK, fileVars, bufVars, flow
  <1> QED
    BY <1>1, <1>2, <1>3, <1>4, <1>5, <1>6, <1>7, <1>8, <1>9, <1>10
    DEF OtherStep

-----------------------------------------------------------------------------
(***************************************************************************)
(* The ledger: position, answers and phases.                               *)
(***************************************************************************)
\* One header is queued; if it is an answer, it names what is persisted.
LEMMA OneAnswer ==
  ASSUME NEW u, outgoing' = <<u>>,
         u.frame \in {"ZACK", "ZRPOS"} => u.count = (base + persisted)'
  PROVE  AnswersArePersisted'
  <1>1. \A i \in 1 .. Len(outgoing') : outgoing'[i] = u
    OBVIOUS
  <1> QED
    BY <1>1 DEF AnswersArePersisted, HeadersOf

\* What is queued does not change, nor what it refers to.
LEMMA SameAnswers ==
  ASSUME AnswersArePersisted, UNCHANGED <<outgoing, base, persisted>>
  PROVE  AnswersArePersisted'
  BY DEF AnswersArePersisted, HeadersOf

\* Nothing is queued.
LEMMA EmptyOutput ==
  ASSUME outgoing = <<>>
  PROVE  AnswersArePersisted
  BY DEF AnswersArePersisted, HeadersOf

\* The first n units are written: the answers among the rest stay what they
\* were.
LEMMA FewerAnswers ==
  ASSUME TypeOK, AnswersArePersisted, UNCHANGED <<base, persisted>>,
         NEW n \in 1 .. Len(outgoing),
         outgoing' = SubSeq(outgoing, n + 1, Len(outgoing))
  PROVE  AnswersArePersisted'
  <1>1. outgoing \in Seq(Unit) /\ Len(outgoing) \in Nat
    BY DEF TypeOK
  <1>2. Len(outgoing') = Len(outgoing) - n
    BY <1>1
  <1>3. \A i \in 1 .. Len(outgoing') :
          i + n \in 1 .. Len(outgoing) /\ outgoing'[i] = outgoing[i + n]
    BY <1>1, <1>2
  <1>4. ASSUME NEW i \in 1 .. Len(outgoing'), outgoing'[i].is = "header",
               outgoing'[i].frame \in {"ZACK", "ZRPOS"}
        PROVE  outgoing'[i].count = base' + persisted'
    BY <1>3, <1>4 DEF AnswersArePersisted, HeadersOf
  <1> QED
    BY <1>4 DEF AnswersArePersisted, HeadersOf

\* A new receiver.
LEMMA InitLedger == FlowInit => Ledger
  <1> SUFFICES ASSUME FlowInit
               PROVE  Ledger
    OBVIOUS
  <1>1. /\ count = 0 /\ bufWriteOffset = 0 /\ base = 0 /\ persisted = 0
        /\ state = "SessionBegin" /\ subpacketState = Idle
        /\ outgoing = <<OwnZrinit>> /\ zrposRetries = 0 /\ fileActive = FALSE
    BY DEF FlowInit, Init
  <1>2. Idle.phase = "Idle"
    BY Phases
  <1>3. AnswersArePersisted
    <2>1. \A i \in 1 .. Len(outgoing) : outgoing[i].frame = "ZRINIT"
      BY <1>1 DEF OwnZrinit, Zrinit
    <2> QED
      BY <2>1 DEF AnswersArePersisted, HeadersOf
  <1>4. OutputFreeWhileWriting
    BY <1>1, <1>2 DEF OutputFreeWhileWriting, DrainFile
  <1>5. BudgetSpent
    BY <1>1, LimitsAssumption DEF BudgetSpent
  <1> QED
    BY <1>1, <1>2, <1>3, <1>4, <1>5
    DEF Ledger, CountIsPersisted, PhaseFits, BeginsAtZero,
        OpenWhereItMatters

\* A header that arrives moves neither the position nor what is persisted.
LEMMA HeaderLedger ==
  ASSUME FlowInv, NEW h \in Incoming, FlowHeader(h)
  PROVE  Ledger'
  <1>1. /\ SubmitHeader(h) /\ outgoing = <<>> /\ DrainFile = <<>> /\ ~InData
        /\ UNCHANGED <<base, persisted, zrposRetries>>
        /\ opened' = IF OnZeof(h) THEN FALSE
                     ELSE opened \/ state' = "FileReadingSubpacket"
    BY DEF FlowHeader, SubmitHeader, ReadableAsHeader, Blocked
  <1>2. /\ Idle.phase = "Idle" /\ Reading.phase = "Reading"
        /\ count \in Nat /\ base \in Nat /\ persisted \in Nat
        /\ opened \in BOOLEAN
    BY Phases, LimitsAssumption DEF FlowInv, TypeOK
  <1>3. /\ InData <=> state \in {"FileReadingSubpacket",
                                 "FileReadingMetadata", "SinitReadingData"}
        /\ InData' <=> state' \in {"FileReadingSubpacket",
                                   "FileReadingMetadata", "SinitReadingData"}
    BY DEF InData
  <1>4. /\ count + bufWriteOffset = base + persisted
        /\ state = "SessionEnd" \/ subpacketState = Idle
        /\ subpacketState.phase # "Writing" => bufWriteOffset = 0
        /\ state = "SessionBegin" => base + persisted = 0
        /\ zrposRetries > MaxZrposRetries => subpacketState.phase = "Crc"
        /\ (\/ fileActive
            \/ state \in {"FileReadingSubpacket", "FileWaitingSubpacket"}
            \/ subpacketState.phase = "Writing") => opened
    BY <1>1
    DEF FlowInv, CountIsPersisted, PhaseFits, BeginsAtZero, BudgetSpent,
        OpenWhereItMatters
  \* Between subpackets the position is what is persisted.
  <1>5. state # "SessionEnd" =>
          bufWriteOffset = 0 /\ count = base + persisted
    BY <1>2, <1>4
  <1>6. ASSUME NEW phase \in {"SinitReadingData", "FileReadingMetadata",
                              "FileReadingSubpacket"},
               SilentlyEnter(phase), state # "SessionEnd", ~OnZeof(h),
               phase = "SinitReadingData" => state = "SessionBegin"
        PROVE  Ledger'
    <2>1. /\ state' = phase /\ subpacketState' = Reading
          /\ bufWriteOffset' = 0 /\ UNCHANGED <<count, outgoing, fileActive>>
      BY <1>6 DEF SilentlyEnter, ClearBuf
    <2>2. CountIsPersisted' /\ PhaseFits' /\ BeginsAtZero' /\ BudgetSpent'
      BY <1>1, <1>2, <1>3, <1>4, <1>5, <1>6, <2>1
      DEF CountIsPersisted, PhaseFits, BeginsAtZero, BudgetSpent
    <2>3. AnswersArePersisted' /\ OutputFreeWhileWriting'
      BY <1>1, <2>1, EmptyOutput, SameAnswers DEF OutputFreeWhileWriting
    <2>4. OpenWhereItMatters'
      BY <1>1, <1>2, <1>4, <1>6, <2>1 DEF OpenWhereItMatters
    <2> QED
      BY <2>2, <2>3, <2>4 DEF Ledger
  \* The steps that leave the subpacket alone.
  <1>7. ASSUME UNCHANGED <<count, bufVars, subpacketState>>,
               \/ state' = state
               \/ state' = "SessionEnd"
               \/ state' = "FileBegin" /\ state # "SessionEnd",
               \/ outgoing' = outgoing
               \/ \E u : /\ outgoing' = <<u>>
                         /\ u.frame \in {"ZACK", "ZRPOS"} =>
                              u.count = base + persisted,
               \/ opened' = opened /\ fileActive' = fileActive
               \/ fileActive' = FALSE /\ state' = "FileBegin"
                    /\ state # "SessionEnd"
        PROVE  Ledger'
    <2>1. CountIsPersisted' /\ BudgetSpent'
      BY <1>1, <1>4, <1>7 DEF CountIsPersisted, BudgetSpent, bufVars
    <2>2. PhaseFits' /\ BeginsAtZero'
      BY <1>1, <1>2, <1>3, <1>4, <1>7
      DEF FlowInv, PhaseFits, BeginsAtZero, bufVars
    <2>3. AnswersArePersisted'
      BY <1>1, <1>7, OneAnswer, EmptyOutput, SameAnswers
    <2>4. OutputFreeWhileWriting'
      BY <1>1, <1>7 DEF OutputFreeWhileWriting, DrainFile, bufVars
    <2>5. OpenWhereItMatters'
      BY <1>2, <1>4, <1>7 DEF OpenWhereItMatters
    <2> QED
      BY <2>1, <2>2, <2>3, <2>4, <2>5 DEF Ledger
  <1>8. CASE OnZrqinitOrEarlyData(h)
    <2>1. OwnZrinit.frame = "ZRINIT"
      BY DEF OwnZrinit, Zrinit
    <2>2. ~OnZeof(h) /\ opened' = opened
      BY <1>1, <1>2, <1>8 DEF OnZrqinitOrEarlyData, OnZeof
    <2> QED
      BY <1>1, <1>7, <1>8, <2>1, <2>2 DEF OnZrqinitOrEarlyData, Answer
  <1>9. CASE OnZsinit(h)
    BY <1>6, <1>9 DEF OnZsinit, OnZeof
  <1>10. CASE OnZfile(h)
    BY <1>6, <1>10 DEF OnZfile, OnZeof
  <1>11. CASE OnZdata(h)
    <2>1. CASE SilentlyEnter("FileReadingSubpacket")
      BY <1>6, <1>11, <2>1 DEF OnZdata, OnZeof
    <2>2. CASE /\ Answer(Header("ZRPOS", count))
               /\ UNCHANGED <<state, count, bufVars, subpacketState,
                              pendingEvents, fileActive>>
      <3>1. /\ Header("ZRPOS", count).count = base + persisted
            /\ outgoing' = <<Header("ZRPOS", count)>>
        BY <1>5, <1>11, <2>2 DEF OnZdata, Header, Answer
      <3>2. opened' = opened
        BY <1>1, <1>2, <1>11, <2>2 DEF OnZdata, OnZeof
      <3> QED
        BY <1>7, <2>2, <3>1, <3>2
    <2> QED
      BY <1>11, <2>1, <2>2 DEF OnZdata
  <1>12. CASE OnZeof(h)
    <2>1. OwnZrinit.frame = "ZRINIT"
      BY DEF OwnZrinit, Zrinit
    <2> QED
      BY <1>1, <1>7, <1>12, <2>1 DEF OnZeof, AwaitsZeof, Answer
  <1>13. CASE OnAbort(h)
    BY <1>1, <1>2, <1>7, <1>13 DEF OnAbort, OnZeof
  <1>14. CASE OnZfin(h)
    <2>1. Header("ZFIN", 0).frame = "ZFIN"
      BY DEF Header
    <2> QED
      BY <1>1, <1>2, <1>7, <1>14, <2>1 DEF OnZfin, OnZeof, Answer
  <1>15. CASE Ignored(h)
    <2>1. opened' = opened
      BY <1>1, <1>2, <1>3, <1>15 DEF Ignored, Stay, OnZeof, InData
    <2> QED
      BY <1>7, <1>15, <2>1 DEF Ignored, Stay
  <1> QED
    BY <1>1, <1>8, <1>9, <1>10, <1>11, <1>12, <1>13, <1>14, <1>15
    DEF SubmitHeader

\* Finishing a subpacket moves the position over what is persisted of it, and
\* answers with that position.
LEMMA FinishLedger ==
  ASSUME FlowInv, NEW kind \in SubpacketType, NEW len \in Nat,
         FinishSubpacket(kind, len), outgoing = <<>>,
         state \in {"FileReadingSubpacket", "SessionEnd"}, opened,
         (base + persisted)' = count + len,
         UNCHANGED <<opened, fileActive>>
  PROVE  Ledger'
  <1>1. /\ Idle.phase = "Idle" /\ Reading.phase = "Reading"
        /\ count \in Nat
    BY Phases, LimitsAssumption DEF FlowInv, TypeOK
  <1>2. /\ count' = count + len /\ bufWriteOffset' = 0 /\ zrposRetries' = 0
        /\ \/ outgoing' = <<Acknowledgement(len)>>
           \/ outgoing' = <<>>
        /\ \/ state' = "FileWaitingSubpacket" /\ subpacketState' = Idle
           \/ state' = state /\ subpacketState' = Reading
    BY DEF FinishSubpacket, Advanced, ClearBuf
  <1>3. CountIsPersisted' /\ BudgetSpent' /\ PhaseFits' /\ BeginsAtZero'
    BY <1>1, <1>2, LimitsAssumption
    DEF CountIsPersisted, BudgetSpent, PhaseFits, BeginsAtZero, InData
  <1>4. AnswersArePersisted'
    <2>1. Acknowledgement(len).count = count + len
      BY DEF Acknowledgement, Advanced, Header
    <2>2. CASE outgoing' = <<Acknowledgement(len)>>
      BY <2>1, <2>2, OneAnswer
    <2>3. CASE outgoing' = <<>>
      BY <2>3 DEF AnswersArePersisted, HeadersOf
    <2> QED
      BY <1>2, <2>2, <2>3
  <1>5. OutputFreeWhileWriting'
    BY <1>1, <1>2 DEF OutputFreeWhileWriting, DrainFile
  <1>6. OpenWhereItMatters'
    BY DEF OpenWhereItMatters
  <1> QED
    BY <1>3, <1>4, <1>5, <1>6 DEF Ledger

\* The caller persists data: the output is free, so the acknowledgement can be
\* queued and the subpacket is finished in one go.
LEMMA WrittenLedger ==
  ASSUME FlowInv, NEW n \in 1 .. Len(DrainFile), FlowWritten(n)
  PROVE  Ledger'
  <1>1. /\ FileWritten(n) /\ n \in Nat /\ outgoing = <<>>
        /\ persisted' = persisted + n
        /\ UNCHANGED <<base, opened, fileActive>>
    BY DEF FlowWritten, FileWritten
  <1>2. /\ TypeOK /\ Len(buf) \in Nat /\ bufWriteOffset \in 0 .. Len(buf)
        /\ count \in Nat /\ base \in Nat /\ persisted \in Nat
        /\ count + bufWriteOffset = base + persisted
    BY LimitsAssumption DEF FlowInv, TypeOK, CountIsPersisted
  <1>3. /\ subpacketState.phase = "Writing"
        /\ Len(DrainFile) = Len(buf) - bufWriteOffset
    <2>1. DrainFile # <<>>
      OBVIOUS
    <2> QED
      BY <1>2, <2>1, WaitingData
  <1>4. /\ subpacketState.kind \in SubpacketType
        /\ state \in {"FileReadingSubpacket", "SessionEnd"} /\ opened
    BY <1>2, <1>3, KindOfWriting
    DEF FlowInv, PhaseFits, OpenWhereItMatters
  <1>5. CASE /\ n = Len(DrainFile)
             /\ FinishSubpacket(subpacketState.kind, Len(buf))
    <2>1. (base + persisted)' = count + Len(buf)
      BY <1>1, <1>2, <1>3, <1>5
    <2> QED
      BY <1>1, <1>2, <1>4, <1>5, <2>1, FinishLedger
  <1>6. CASE /\ bufWriteOffset' = bufWriteOffset + n
             /\ UNCHANGED <<state, fileVars, buf, subpacketState, outgoing,
                            zrposRetries>>
    <2>1. count' = count
      BY <1>6 DEF fileVars
    <2>2. CountIsPersisted' /\ BudgetSpent' /\ PhaseFits'
      BY <1>1, <1>2, <1>3, <1>6, <2>1
      DEF FlowInv, CountIsPersisted, BudgetSpent, PhaseFits, InData
    <2>3. BeginsAtZero' /\ OpenWhereItMatters'
      BY <1>1, <1>4, <1>6 DEF BeginsAtZero, OpenWhereItMatters
    <2>4. AnswersArePersisted' /\ OutputFreeWhileWriting'
      BY <1>1, <1>6
      DEF AnswersArePersisted, HeadersOf, OutputFreeWhileWriting
    <2> QED
      BY <2>2, <2>3, <2>4 DEF Ledger
  <1> QED
    <2>1. n = Len(DrainFile) => Len(buf) = bufWriteOffset + n
      BY <1>1, <1>2, <1>3
    <2> QED
      BY <1>1, <1>5, <1>6, <2>1 DEF FileWritten

\* A ZFILE payload, and the user's decision about the file: the position is
\* set anew, and so is what the history counts from.
LEMMA FileLedger ==
  ASSUME FlowInv,
         \/ \E offset \in ResumeOffset : FlowAccept(offset)
         \/ FlowSkip
         \/ \E name \in Name, size \in IncomingSize : FlowMetadata(name, size)
  PROVE  Ledger'
  <1>1. /\ Idle.phase = "Idle" /\ Reading.phase = "Reading"
        /\ count \in Nat /\ base \in Nat /\ persisted \in Nat
    BY Phases, LimitsAssumption DEF FlowInv, TypeOK
  \* What the three have in common.
  <1>2. ASSUME state \in {"FileAcceptPending", "FileReadingMetadata"},
               state' \in {"FileBegin", "FileAcceptPending"},
               subpacketState' = Idle, bufWriteOffset' = 0,
               count' = (base + persisted)', AnswersArePersisted',
               BudgetSpent', fileActive' => opened'
        PROVE  Ledger'
    <2>1. CountIsPersisted' /\ PhaseFits' /\ BeginsAtZero'
      BY <1>1, <1>2, LimitsAssumption
      DEF CountIsPersisted, PhaseFits, BeginsAtZero, InData
    <2>2. OutputFreeWhileWriting' /\ OpenWhereItMatters'
      BY <1>1, <1>2
      DEF OutputFreeWhileWriting, DrainFile, OpenWhereItMatters
    <2> QED
      BY <1>2, <2>1, <2>2 DEF Ledger
  <1>3. state = "FileAcceptPending" =>
          /\ subpacketState = Idle /\ bufWriteOffset = 0
          /\ count = base + persisted
    BY <1>1 DEF FlowInv, PhaseFits, InData, CountIsPersisted
  <1>4. CASE \E offset \in ResumeOffset : FlowAccept(offset)
    <2>1. PICK offset \in ResumeOffset : FlowAccept(offset)
      BY <1>4
    <2>2. offset \in Nat
      BY InputAssumption, LimitsAssumption
    <2>3. /\ state = "FileAcceptPending" /\ state' = "FileBegin"
          /\ outgoing' = <<Header("ZRPOS", offset)>> /\ count' = offset
          /\ base' = offset /\ persisted' = 0 /\ opened' = TRUE
          /\ UNCHANGED <<bufWriteOffset, subpacketState, zrposRetries>>
      BY <2>1 DEF FlowAccept, AcceptFileAt, Restart, bufVars
    <2>4. AnswersArePersisted'
      <3>1. Header("ZRPOS", offset).count = (base + persisted)'
        BY <2>2, <2>3 DEF Header
      <3> QED
        BY <2>3, <3>1, OneAnswer
    <2>5. BudgetSpent'
      BY <2>3 DEF FlowInv, BudgetSpent
    <2> QED
      BY <1>2, <1>3, <2>2, <2>3, <2>4, <2>5
  <1>5. CASE FlowSkip
    <2>1. /\ state = "FileAcceptPending" /\ state' = "FileBegin"
          /\ outgoing' = <<Refusal>> /\ fileActive' = FALSE
          /\ UNCHANGED <<count, base, persisted, bufWriteOffset,
                         subpacketState, zrposRetries>>
      BY <1>5 DEF FlowSkip, SkipFile, bufVars, fileVars
    <2>2. AnswersArePersisted'
      <3>1. Refusal.frame = "ZSKIP"
        BY DEF Refusal, Header
      <3> QED
        BY <2>1, <3>1, OneAnswer
    <2>3. BudgetSpent'
      BY <2>1 DEF FlowInv, BudgetSpent
    <2> QED
      BY <1>2, <1>3, <2>1, <2>2, <2>3
  <1>6. CASE \E name \in Name, size \in IncomingSize :
               FlowMetadata(name, size)
    <2>1. PICK name \in Name, size \in IncomingSize : FlowMetadata(name, size)
      BY <1>6
    <2>2. /\ state = "FileReadingMetadata" /\ outgoing = <<>>
          /\ subpacketState = Reading
          /\ state' \in {"FileBegin", "FileAcceptPending"}
          /\ \/ outgoing' = <<>> \/ outgoing' = <<Header("ZRPOS", 0)>>
          /\ count' = 0 /\ base' = 0 /\ persisted' = 0
          /\ bufWriteOffset' = 0 /\ subpacketState' = Idle
          /\ UNCHANGED zrposRetries
      BY <2>1
      DEF FlowMetadata, SubmitMetadata, Restart, ReadableAsData, Blocked,
          Answer, ClearBuf
    <2>3. fileActive' => opened'
      BY <2>1
      DEF FlowMetadata, SubmitMetadata, FlowInv, OpenWhereItMatters, TypeOK
    <2>4. AnswersArePersisted'
      <3>1. Header("ZRPOS", 0).count = (base + persisted)'
        BY <2>2 DEF Header
      <3>2. CASE outgoing' = <<Header("ZRPOS", 0)>>
        BY <3>1, <3>2, OneAnswer
      <3>3. CASE outgoing' = <<>>
        BY <3>3 DEF AnswersArePersisted, HeadersOf
      <3> QED
        BY <2>2, <3>2, <3>3
    <2>5. BudgetSpent'
      BY <1>1, <2>2 DEF FlowInv, BudgetSpent
    <2> QED
      BY <1>2, <2>2, <2>3, <2>4, <2>5
  <1> QED
    BY <1>4, <1>5, <1>6

\* A corrupt subpacket: the receiver asks for the data behind what is
\* persisted.
LEMMA RecoverLedger ==
  ASSUME FlowInv, FlowRecover
  PROVE  Ledger'
  <1>1. /\ state = "FileReadingSubpacket" /\ subpacketState = Reading
        /\ zrposRetries < MaxZrposRetries /\ zrposRetries' = zrposRetries + 1
        /\ bufWriteOffset' = 0 /\ outgoing' = <<Header("ZRPOS", count)>>
        /\ state' = "FileWaitingSubpacket" /\ subpacketState' = Idle
        /\ UNCHANGED <<count, base, persisted, opened, fileActive>>
    BY DEF FlowRecover, RecoverCorruptSubpacket, ReadableAsData, ClearBuf,
           Answer, fileVars
  <1>2. /\ Idle.phase = "Idle" /\ Reading.phase = "Reading"
        /\ count \in Nat /\ zrposRetries \in Nat
    BY Phases, LimitsAssumption DEF FlowInv, TypeOK
  <1>3. count = base + persisted /\ opened
    BY <1>1, <1>2
    DEF FlowInv, CountIsPersisted, PhaseFits, OpenWhereItMatters
  <1>4. AnswersArePersisted'
    <2>1. Header("ZRPOS", count).count = (base + persisted)'
      BY <1>1, <1>3 DEF Header
    <2> QED
      BY <1>1, <2>1, OneAnswer
  <1>5. BudgetSpent'
    BY <1>1, <1>2, LimitsAssumption DEF BudgetSpent
  <1> QED
    BY <1>1, <1>2, <1>3, <1>4, <1>5
    DEF Ledger, CountIsPersisted, OutputFreeWhileWriting, DrainFile,
        PhaseFits, InData, BeginsAtZero, OpenWhereItMatters

\* Steps that touch none of it but the output, in which they leave or add no
\* false answer.
LEMMA StillLedger ==
  ASSUME FlowInv,
         UNCHANGED <<count, buf, bufWriteOffset, subpacketState, zrposRetries,
                     fileActive, base, persisted, opened>>,
         state' \in {state, "SessionEnd"},
         AnswersArePersisted', OutputFreeWhileWriting'
  PROVE  Ledger'
  BY DEF FlowInv, Ledger, CountIsPersisted, PhaseFits, InData, BeginsAtZero,
         BudgetSpent, OpenWhereItMatters

\* A data subpacket is offered to the caller, or finished when empty.
LEMMA DataLedger ==
  ASSUME FlowInv, NEW kind \in SubpacketType, NEW data \in IncomingData,
         SubmitData(kind, data), UNCHANGED flow
  PROVE  Ledger'
  <1>1. /\ outgoing = <<>> /\ subpacketState = Reading
        /\ state = "FileReadingSubpacket"
        /\ UNCHANGED <<base, persisted, opened, fileActive>>
    BY DEF SubmitData, ReadableAsData, Blocked, flow
  <1>2. /\ Idle.phase = "Idle" /\ Reading.phase = "Reading"
        /\ Writing(kind).phase = "Writing"
        /\ count \in Nat /\ zrposRetries \in Nat
    BY Phases, LimitsAssumption DEF FlowInv, TypeOK
  <1>3. /\ bufWriteOffset = 0 /\ count = base + persisted /\ opened
        /\ zrposRetries <= MaxZrposRetries
    BY <1>1, <1>2, LimitsAssumption
    DEF FlowInv, PhaseFits, CountIsPersisted, OpenWhereItMatters, BudgetSpent
  <1>4. CASE FinishSubpacket(kind, 0)
    <2>1. (base + persisted)' = count + 0
      BY <1>1, <1>2, <1>3
    <2> QED
      BY <1>1, <1>3, <1>4, <2>1, FinishLedger
  <1>5. CASE /\ bufWriteOffset' = 0 /\ subpacketState' = Writing(kind)
             /\ UNCHANGED <<state, fileVars, outgoing, zrposRetries>>
    <2>1. AnswersArePersisted' /\ OutputFreeWhileWriting'
      BY <1>1, <1>5
      DEF AnswersArePersisted, HeadersOf, OutputFreeWhileWriting
    <2> QED
      BY <1>1, <1>2, <1>3, <1>5, <2>1, LimitsAssumption
      DEF Ledger, CountIsPersisted, PhaseFits, InData, BeginsAtZero,
          BudgetSpent, OpenWhereItMatters, fileVars
  <1> QED
    BY <1>4, <1>5 DEF SubmitData

\* The payload of a ZSINIT, answered before the first file.
LEMMA SinitLedger ==
  ASSUME FlowInv, SubmitSinitData, UNCHANGED flow
  PROVE  Ledger'
  <1>1. /\ state = "SinitReadingData" /\ state' = "SessionBegin"
        /\ subpacketState = Reading /\ subpacketState' = Idle
        /\ outgoing' = <<Header("ZACK", 0)>> /\ bufWriteOffset' = 0
        /\ UNCHANGED <<count, zrposRetries, fileActive, base, persisted,
                       opened>>
    BY DEF SubmitSinitData, ReadableAsData, Answer, ClearBuf, fileVars, flow
  <1>2. /\ Idle.phase = "Idle" /\ Reading.phase = "Reading"
        /\ count \in Nat /\ base \in Nat /\ persisted \in Nat
        /\ zrposRetries \in Nat
    BY Phases, LimitsAssumption DEF FlowInv, TypeOK
  <1>3. /\ bufWriteOffset = 0 /\ count = 0 /\ base + persisted = 0
        /\ zrposRetries <= MaxZrposRetries
    BY <1>1, <1>2, LimitsAssumption
    DEF FlowInv, PhaseFits, CountIsPersisted, BeginsAtZero, BudgetSpent
  <1>4. AnswersArePersisted'
    <2>1. Header("ZACK", 0).count = (base + persisted)'
      BY <1>1, <1>3 DEF Header
    <2> QED
      BY <1>1, <2>1, OneAnswer
  <1>5. OpenWhereItMatters'
    BY <1>1, <1>2 DEF FlowInv, OpenWhereItMatters
  <1> QED
    BY <1>1, <1>2, <1>3, <1>4, <1>5, LimitsAssumption
    DEF Ledger, CountIsPersisted, OutputFreeWhileWriting, DrainFile,
        PhaseFits, InData, BeginsAtZero, BudgetSpent

\* A transfer that fails for good: the phase is Crc from then on.
LEMMA FailedLedger ==
  ASSUME FlowInv, NEW kind \in SubpacketType,
         subpacketState = Reading, subpacketState' = Crc(kind), InData,
         UNCHANGED <<state, count, buf, bufWriteOffset, outgoing, fileActive,
                     flow>>
  PROVE  Ledger'
  <1>1. Crc(kind).phase = "Crc" /\ Reading.phase = "Reading"
    BY Phases
  <1>2. bufWriteOffset = 0 /\ UNCHANGED <<base, persisted, opened>>
    BY <1>1 DEF FlowInv, PhaseFits, flow
  <1>3. AnswersArePersisted'
    BY <1>2, SameAnswers DEF FlowInv
  <1>4. OutputFreeWhileWriting'
    BY <1>1 DEF OutputFreeWhileWriting, DrainFile
  <1>5. OpenWhereItMatters'
    BY <1>1, <1>2 DEF FlowInv, OpenWhereItMatters
  <1> QED
    BY <1>1, <1>2, <1>3, <1>4, <1>5
    DEF FlowInv, Ledger, CountIsPersisted, PhaseFits, InData, BeginsAtZero,
        BudgetSpent

\* Every other step.
LEMMA OtherStepLedger ==
  ASSUME FlowInv, OtherStep, UNCHANGED flow
  PROVE  Ledger'
  <1>1. UNCHANGED <<base, persisted, opened>>
    BY DEF flow
  <1>2. /\ AnswersArePersisted /\ OutputFreeWhileWriting /\ TypeOK
    BY DEF FlowInv
  \* One header that is no answer is queued while nothing waits.
  <1>3. ASSUME NEW u, outgoing' = <<u>>, u.frame \notin {"ZACK", "ZRPOS"},
               DrainFile = <<>>,
               UNCHANGED <<state, fileVars, bufVars, subpacketState,
                           zrposRetries, fileActive>>
        PROVE  Ledger'
    <2>1. AnswersArePersisted'
      BY <1>3, OneAnswer
    <2>2. OutputFreeWhileWriting'
      BY <1>3 DEF OutputFreeWhileWriting, DrainFile, bufVars
    <2> QED
      BY <1>1, <1>3, <2>1, <2>2, StillLedger DEF fileVars, bufVars
  \* The output stays, or becomes shorter.
  <1>4. ASSUME UNCHANGED <<fileVars, bufVars, subpacketState, zrposRetries,
                           fileActive>>,
               state' \in {state, "SessionEnd"},
               AnswersArePersisted', outgoing = <<>> => outgoing' = <<>>
        PROVE  Ledger'
    <2>1. OutputFreeWhileWriting'
      BY <1>2, <1>4 DEF OutputFreeWhileWriting, DrainFile, bufVars
    <2> QED
      BY <1>1, <1>4, <2>1, StillLedger DEF fileVars, bufVars
  <1>5. CASE \E manual \in BOOLEAN : SetManualFileAccept(manual)
    BY <1>1, <1>2, <1>4, <1>5, SameAnswers DEF SetManualFileAccept
  <1>6. CASE Timeout
    <2>1. DrainFile = <<>>
      <3>1. subpacketState.phase = "Idle"
        BY <1>6, Phases DEF Timeout, FlowInv, PhaseFits, InData
      <3> QED
        BY <3>1 DEF DrainFile
    <2>2. OwnZrinit.frame = "ZRINIT"
      BY DEF OwnZrinit, Zrinit
    <2> QED
      BY <1>3, <1>6, <2>1, <2>2 DEF Timeout
  <1>7. CASE Abort
    BY <1>1, <1>2, <1>4, <1>7, SameAnswers DEF Abort
  <1>8. CASE PollEvent
    BY <1>1, <1>2, <1>4, <1>8, SameAnswers DEF PollEvent
  <1>9. CASE \E n \in 1 .. Len(outgoing) : WireWritten(n)
    <2>1. PICK n \in 1 .. Len(outgoing) : WireWritten(n)
      BY <1>9
    <2>2. outgoing' = SubSeq(outgoing, n + 1, Len(outgoing))
      BY <2>1 DEF WireWritten
    <2>3. AnswersArePersisted'
      BY <1>1, <1>2, <2>2, FewerAnswers
    <2>4. outgoing # <<>>
      OBVIOUS
    <2> QED
      BY <1>4, <2>1, <2>3, <2>4 DEF WireWritten
  <1>10. CASE SubmitGarbled
    <2>1. Header("ZNAK", 0).frame = "ZNAK"
      BY DEF Header
    <2> QED
      BY <1>3, <1>10, <2>1
      DEF SubmitGarbled, ReadableAsHeader, Blocked, Answer
  <1>11. CASE \E storedName \in Name \cup {fileName, EmptyName} :
                SubmitMalformedMetadata(storedName)
    BY <1>11, FailedLedger
    DEF SubmitMalformedMetadata, ReadableAsData, SubpacketType, bufVars
  <1>12. CASE SubmitSinitData
    BY <1>12, SinitLedger
  <1>13. CASE \E kind \in SubpacketType, data \in IncomingData :
                SubmitData(kind, data)
    BY <1>13, DataLedger
  <1>14. CASE \E kind \in SubpacketType : GiveUpOnCorruptSubpacket(kind)
    BY <1>14, FailedLedger
    DEF GiveUpOnCorruptSubpacket, ReadableAsData, fileVars, bufVars
  <1> QED
    BY <1>5, <1>6, <1>7, <1>8, <1>9, <1>10, <1>11, <1>12, <1>13, <1>14
    DEF OtherStep

-----------------------------------------------------------------------------
(***************************************************************************)
(* The theorems.                                                           *)
(***************************************************************************)
\* FlowInv is inductive.
LEMMA InvariantStep == FlowInv /\ [FlowNext]_flowVars => FlowInv'
  <1> SUFFICES ASSUME FlowInv, [FlowNext]_flowVars
               PROVE  TypeOK' /\ Ledger'
    BY DEF FlowInv, Ledger
  <1> USE DEF FlowInv
  <1>1. CASE \/ \E offset \in ResumeOffset : FlowAccept(offset)
             \/ FlowSkip
             \/ \E name \in Name, size \in IncomingSize :
                  FlowMetadata(name, size)
    BY <1>1, FileType, FileLedger
  <1>2. CASE \E n \in 1 .. Len(DrainFile) : FlowWritten(n)
    BY <1>2, WrittenType, WrittenLedger
  <1>3. CASE \E h \in Incoming : FlowHeader(h)
    BY <1>3, HeaderType, HeaderLedger
  <1>4. CASE FlowRecover
    BY <1>4, RecoverType, RecoverLedger
  <1>5. CASE OtherStep /\ UNCHANGED flow
    BY <1>5, OtherStepType, OtherStepLedger
  <1>6. CASE UNCHANGED flowVars
    <2>1. TypeOK'
      BY <1>6 DEF flowVars, vars, flow, fileVars, bufVars, TypeOK
    <2>2. AnswersArePersisted' /\ OutputFreeWhileWriting'
      BY <1>6
      DEF flowVars, vars, flow, fileVars, bufVars, AnswersArePersisted,
          HeadersOf, OutputFreeWhileWriting, DrainFile
    <2> QED
      BY <1>6, <2>1, <2>2, StillLedger
      DEF flowVars, vars, flow, fileVars, bufVars
  <1> QED
    BY <1>1, <1>2, <1>3, <1>4, <1>5, <1>6 DEF FlowNext

\* FlowInv holds throughout, whatever arrives and whatever the caller and the
\* user do.
THEOREM FlowInvariant == FlowSpec => []FlowInv
  <1>1. FlowInit => FlowInv
    BY InitType, InitLedger DEF FlowInv, Ledger
  <1> QED
    BY <1>1, InvariantStep, PTL DEF FlowSpec

\* The receiver's variables keep their types; the event queue never exceeds
\* its slots and the position stays a u32.
THEOREM TypeCorrect == FlowSpec => []TypeOK
  <1>1. FlowInv => TypeOK
    BY DEF FlowInv
  <1> QED
    BY <1>1, FlowInvariant, PTL

\* The position is what was accepted plus what was persisted.
THEOREM PositionIsPersisted == FlowSpec => []CountIsPersisted
  <1>1. FlowInv => CountIsPersisted
    BY DEF FlowInv
  <1> QED
    BY <1>1, FlowInvariant, PTL

\* No answer claims more, or less, than what is persisted.
THEOREM AnswersPersisted == FlowSpec => []AnswersArePersisted
  <1>1. FlowInv => AnswersArePersisted
    BY DEF FlowInv
  <1> QED
    BY <1>1, FlowInvariant, PTL

\* file_written always finds room for the acknowledgement it owes.
THEOREM OutputFree == FlowSpec => []OutputFreeWhileWriting
  <1>1. FlowInv => OutputFreeWhileWriting
    BY DEF FlowInv
  <1> QED
    BY <1>1, FlowInvariant, PTL

\* No file is reported complete twice, or without having been opened.
THEOREM CompletesOnce == FlowSpec => NoSecondCompletion
  <1> DEFINE Reports ==
        /\ Len(pendingEvents') > Len(pendingEvents)
        /\ pendingEvents'[Len(pendingEvents')] = "FileComplete"
  <1>1. ASSUME FlowInv, [FlowNext]_flowVars
        PROVE  Reports => opened
    <2> SUFFICES ASSUME Reports
                 PROVE  opened
      OBVIOUS
    <2>1. pendingEvents \in Seq(ReceiverEvent)
      BY <1>1 DEF FlowInv, TypeOK
    <2>2. ASSUME NEW event, PushEvent(event)
          PROVE  event = "FileComplete"
      <3>1. pendingEvents'[Len(pendingEvents')] = event
        BY <2>1, <2>2 DEF PushEvent
      <3> QED
        BY <3>1
    <2>3. pendingEvents' # pendingEvents
      BY <2>1
    <2>4. ASSUME NEW h \in Incoming, OnZeof(h)
          PROVE  opened
      BY <1>1, <2>4
      DEF OnZeof, AwaitsZeof, FlowInv, OpenWhereItMatters
    <2>5. CASE \E h \in Incoming : FlowHeader(h)
      BY <2>2, <2>3, <2>4, <2>5
      DEF FlowHeader, SubmitHeader, OnZrqinitOrEarlyData, OnZsinit, OnZfile,
          OnZdata, OnAbort, OnZfin, Ignored, Stay, SilentlyEnter
    <2>6. CASE OtherStep
      <3>1. ~PollEvent
        <4> SUFFICES ASSUME PollEvent
                     PROVE  FALSE
          OBVIOUS
        <4>1. Len(pendingEvents') = Len(pendingEvents) - 1
          BY <2>1 DEF PollEvent
        <4> QED
          BY <2>1, <4>1
      <3> QED
        BY <2>2, <2>3, <2>6, <3>1
        DEF OtherStep, SetManualFileAccept, Timeout, Abort, WireWritten,
            SubmitGarbled, SubmitMalformedMetadata, SubmitSinitData,
            SubmitData, GiveUpOnCorruptSubpacket
    <2>7. CASE \E name \in Name, size \in IncomingSize :
                 FlowMetadata(name, size)
      BY <2>2, <2>7 DEF FlowMetadata, SubmitMetadata
    <2>8. CASE \/ \E offset \in ResumeOffset : FlowAccept(offset)
               \/ FlowSkip \/ FlowRecover
               \/ \E n \in 1 .. Len(DrainFile) : FlowWritten(n)
               \/ UNCHANGED flowVars
      BY <2>3, <2>8
      DEF FlowAccept, AcceptFileAt, FlowSkip, SkipFile, FlowRecover,
          RecoverCorruptSubpacket, FlowWritten, FileWritten, flowVars, vars
    <2> QED
      BY <1>1, <2>5, <2>6, <2>7, <2>8 DEF FlowNext
  <1> QED
    BY <1>1, FlowInvariant, PTL DEF FlowSpec, NoSecondCompletion

\* A session that has ended, with no data left to persist, stays ended.
THEOREM EndsForGood == FlowSpec => EndIsFinal
  <1>1. ASSUME [FlowNext]_flowVars, state = "SessionEnd", DrainFile = <<>>
        PROVE  state' = "SessionEnd"
    <2>1. CASE \E h \in Incoming : FlowHeader(h)
      BY <1>1, <2>1
      DEF FlowHeader, SubmitHeader, OnZrqinitOrEarlyData, OnZsinit, OnZfile,
          OnZdata, OnZeof, AwaitsZeof, OnAbort, OnZfin, Ignored, Stay
    <2>2. CASE OtherStep
      BY <1>1, <2>2
      DEF OtherStep, SetManualFileAccept, Timeout, Abort, PollEvent,
          WireWritten, SubmitGarbled, SubmitMalformedMetadata,
          SubmitSinitData, SubmitData, GiveUpOnCorruptSubpacket
    <2>3. CASE \/ \E offset \in ResumeOffset : FlowAccept(offset)
               \/ FlowSkip \/ FlowRecover
               \/ \E name \in Name, size \in IncomingSize :
                    FlowMetadata(name, size)
               \/ UNCHANGED flowVars
      BY <1>1, <2>3
      DEF FlowAccept, AcceptFileAt, FlowSkip, SkipFile, FlowMetadata,
          SubmitMetadata, FlowRecover, RecoverCorruptSubpacket, flowVars, vars
    <2>4. CASE \E n \in 1 .. Len(DrainFile) : FlowWritten(n)
      BY <1>1, <2>4
    <2> QED
      BY <1>1, <2>1, <2>2, <2>3, <2>4 DEF FlowNext
  <1> QED
    BY <1>1, PTL DEF FlowSpec, EndIsFinal

-----------------------------------------------------------------------------
(***************************************************************************)
(* When poll says Idle.                                                    *)
(***************************************************************************)
LEMMA UnderWayStep ==
  FlowInv /\ SubpacketUnderWay /\ [FlowNext]_flowVars => SubpacketUnderWay'
  <1> SUFFICES ASSUME FlowInv, SubpacketUnderWay, [FlowNext]_flowVars
               PROVE  SubpacketUnderWay'
    OBVIOUS
  <1>1. /\ TypeOK /\ Len(buf) \in Nat /\ bufWriteOffset \in 0 .. Len(buf)
        /\ Idle.phase = "Idle" /\ Reading.phase = "Reading"
        /\ \A k \in SubpacketType :
             Writing(k).phase = "Writing" /\ Crc(k).phase = "Crc"
    BY Phases DEF FlowInv, TypeOK
  <1>2. ASSUME UNCHANGED <<count, buf, bufWriteOffset, subpacketState>>,
               state' = state \/ ~InData'
        PROVE  SubpacketUnderWay'
    BY <1>2 DEF SubpacketUnderWay, InData
  <1>3. ASSUME subpacketState' \in {Idle, Reading}, subpacketState' = Idle => ~InData'
        PROVE  SubpacketUnderWay'
    BY <1>1, <1>3 DEF SubpacketUnderWay
  <1>4. ASSUME NEW kind \in SubpacketType, NEW len, FinishSubpacket(kind, len)
        PROVE  SubpacketUnderWay'
    <2>1. \/ subpacketState' = Reading
          \/ subpacketState' = Idle /\ state' = "FileWaitingSubpacket"
      BY <1>4 DEF FinishSubpacket
    <2>2. Reading # Idle
      BY <1>1
    <2> QED
      BY <1>3, <2>1, <2>2 DEF InData
  <1>5. ASSUME NEW kind \in SubpacketType, subpacketState' = Crc(kind)
        PROVE  SubpacketUnderWay'
    BY <1>1, <1>5 DEF SubpacketUnderWay
  <1>6. CASE \E offset \in ResumeOffset : FlowAccept(offset)
    <2>1. subpacketState' = Idle /\ ~InData'
      BY <1>6 DEF FlowAccept, AcceptFileAt, FlowInv, PhaseFits, InData
    <2> QED
      BY <1>3, <2>1
  <1>7. CASE \E n \in 1 .. Len(DrainFile) : FlowWritten(n)
    <2> PICK n \in 1 .. Len(DrainFile) : FileWritten(n)
      BY <1>7 DEF FlowWritten
    <2>1. /\ subpacketState.phase = "Writing" /\ n \in Nat
          /\ Len(DrainFile) = Len(buf) - bufWriteOffset
      <3>1. DrainFile # <<>>
        OBVIOUS
      <3> QED
        BY <1>1, <3>1, WaitingData
    <2>2. subpacketState.kind \in SubpacketType
      BY <1>1, <2>1, KindOfWriting
    <2>3. CASE /\ n < Len(DrainFile) /\ bufWriteOffset' = bufWriteOffset + n
               /\ UNCHANGED <<state, buf, subpacketState>>
      <3>1. bufWriteOffset' # Len(buf')
        BY <1>1, <2>1, <2>3
      <3> QED
        BY <2>3, <3>1 DEF SubpacketUnderWay, InData
    <2>4. CASE FinishSubpacket(subpacketState.kind, Len(buf))
      BY <1>4, <2>2, <2>4
    <2>5. CASE /\ ~Fits(count + Len(buf))
               /\ UNCHANGED <<state, count, buf, subpacketState>>
      BY <2>5 DEF SubpacketUnderWay, InData, Fits
    <2> QED
      BY <2>3, <2>4, <2>5 DEF FileWritten, fileVars
  <1>8. CASE \E h \in Incoming : FlowHeader(h)
    <2>1. ASSUME NEW phase \in ReceiverPhase, SilentlyEnter(phase)
          PROVE  SubpacketUnderWay'
      BY <1>1, <1>3, <2>1 DEF SilentlyEnter
    <2>2. \/ \E phase \in ReceiverPhase : SilentlyEnter(phase)
          \/ /\ UNCHANGED <<count, bufVars, subpacketState>>
             /\ state' \in {state, "FileBegin", "SessionEnd"}
      BY <1>8
      DEF FlowHeader, SubmitHeader, OnZrqinitOrEarlyData, OnZsinit, OnZfile,
          OnZdata, OnZeof, OnAbort, OnZfin, Ignored, Stay, ReceiverPhase
    <2> QED
      BY <1>2, <2>1, <2>2 DEF bufVars, InData
  <1>9. CASE \/ FlowRecover
             \/ \E name \in Name, size \in IncomingSize :
                  FlowMetadata(name, size)
    <2>1. subpacketState' = Idle /\ ~InData'
      BY <1>9
      DEF FlowRecover, RecoverCorruptSubpacket, FlowMetadata, SubmitMetadata,
          InData
    <2> QED
      BY <1>3, <2>1
  <1>10. CASE OtherStep
    <2>1. CASE \E kind \in SubpacketType, data \in IncomingData :
                 SubmitData(kind, data)
      <3> PICK kind \in SubpacketType, data \in IncomingData :
            SubmitData(kind, data)
        BY <2>1
      <3>1. CASE FinishSubpacket(kind, 0)
        BY <1>4, <3>1
      <3>2. CASE /\ data # <<>> /\ buf' = data /\ bufWriteOffset' = 0
                 /\ subpacketState' = Writing(kind)
        <4>1. Len(data) # 0
          BY <3>2, InputAssumption, EmptySeq
        <4> QED
          BY <1>1, <3>2, <4>1 DEF SubpacketUnderWay
      <3> QED
        BY <3>1, <3>2 DEF SubmitData
    <2>2. CASE \/ \E storedName \in Name \cup {fileName, EmptyName} :
                    SubmitMalformedMetadata(storedName)
               \/ \E kind \in SubpacketType : GiveUpOnCorruptSubpacket(kind)
      <3>1. "ZCRCW" \in SubpacketType
        BY DEF SubpacketType
      <3> QED
        BY <1>5, <2>2, <3>1
        DEF SubmitMalformedMetadata, GiveUpOnCorruptSubpacket
    <2>3. CASE SubmitSinitData
      <3>1. subpacketState' = Idle /\ ~InData'
        BY <2>3 DEF SubmitSinitData, InData
      <3> QED
        BY <1>3, <3>1
    <2>4. CASE \/ \E manual \in BOOLEAN : SetManualFileAccept(manual)
               \/ Timeout \/ Abort \/ PollEvent \/ SubmitGarbled
               \/ \E n \in 1 .. Len(outgoing) : WireWritten(n)
      <3>1. /\ UNCHANGED <<count, buf, bufWriteOffset, subpacketState>>
            /\ state' \in {state, "SessionEnd"}
        BY <2>4
        DEF SetManualFileAccept, Timeout, Abort, PollEvent, SubmitGarbled,
            WireWritten, fileVars, bufVars
      <3> QED
        BY <1>2, <3>1 DEF InData
    <2> QED
      BY <1>10, <2>1, <2>2, <2>3, <2>4 DEF OtherStep
  <1>11. CASE FlowSkip \/ UNCHANGED flowVars
    <2>1. /\ UNCHANGED <<count, buf, bufWriteOffset, subpacketState>>
          /\ state' \in {state, "FileBegin"}
      BY <1>11 DEF FlowSkip, SkipFile, flowVars, vars, fileVars, bufVars
    <2> QED
      BY <1>2, <2>1 DEF InData
  <1> QED
    BY <1>6, <1>7, <1>8, <1>9, <1>10, <1>11 DEF FlowNext

\* Whenever poll offers nothing submit_wire reads, as headers or as a
\* subpacket, unless one of three errors has left a subpacket unfinished.
THEOREM IdleMeansReading == FlowSpec => []IdleOrFailed
  <1>1. FlowInit => SubpacketUnderWay
    BY Phases DEF FlowInit, Init, SubpacketUnderWay, InData
  <1>2. FlowInv /\ SubpacketUnderWay => IdleOrFailed
    <2> SUFFICES ASSUME FlowInv, SubpacketUnderWay, PollSaysIdle
                 PROVE  ReadsInput \/ Failed
      BY DEF IdleOrFailed
    <2>1. ~Blocked
      <3>1. Len(pendingEvents) = 0
        BY DEF PollSaysIdle
      <3> QED
        BY <3>1, LimitsAssumption DEF PollSaysIdle, Blocked, EventsFull
    <2>2. subpacketState = Reading \/ subpacketState = Idle
          \/ subpacketState.phase \in {"Writing", "Crc"}
      BY Phases DEF FlowInv, TypeOK, SubpacketPhase
    <2>3. CASE InData /\ subpacketState.phase = "Writing"
      <3>1. bufWriteOffset = Len(buf)
        BY <2>3, WaitingData DEF FlowInv, PollSaysIdle
      <3> QED
        BY <2>3, <3>1
        DEF SubpacketUnderWay, PollSaysIdle, Failed, PositionRefused
    <2> QED
      BY <2>1, <2>2, <2>3, Phases
      DEF SubpacketUnderWay, ReadsInput, ReadableAsHeader, ReadableAsData,
          Failed
  <1> QED
    BY <1>1, <1>2, FlowInvariant, UnderWayStep, PTL DEF FlowSpec
=============================================================================
