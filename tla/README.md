# zmodem2 in TLA+

`zmodem2` is a ZMODEM implementation without I/O of its own: a `Sender` and a
`Receiver` are state machines that a caller polls for the next thing to do and
feeds with what arrived. This directory holds TLA+ models of both machines, of
a session of the two over an unreliable link and of the bytes below them, the
TLC configurations that check them, and proofs that TLAPS checks.

## The system

| part | state | operations |
|---|---|---|
| `Sender` (`src/sender.rs`) | phase, announced file, open read request, quota of the open frame, negotiated pacing, output, one event slot, finish request, window | `start_file`, `finish`, `abort`, `timeout`, `set_streaming_window`, `poll`, `wire_written`, `submit_file`, `submit_wire` (handlers for ZRINIT, ZRPOS/ZACK, ZSKIP, ZABORT/ZCAN, ZFIN, others) |
| `Receiver` (`src/receiver.rs`) | phase, position `count`, file metadata, checked subpacket and how much of it is persisted, subpacket phase, output, event queue of 4, manual mode, retry counter, file-active flag | `set_manual_file_accept`, `accept_file_at`, `skip_file`, `abort`, `timeout`, `poll`, `wire_written`, `file_written`, `submit_wire` (headers; metadata, ZSINIT and data subpackets; recovery from a corrupt one) |
| `HeaderReader` (`src/wire.rs`) | byte automaton: padding, encoding, escape pending, resynchronising | `read`, `enter_resync` |
| header and subpacket writers (`src/header.rs`, `wire.rs`, `file.rs`) | none | encode a header, a ZRINIT, a subpacket, a ZFILE payload |
| subpacket reader (`process_subpacket` in `receiver.rs`, `RxCrc`) | phase (line end of a hex header, data, checksum), payload collected, escape pending, checksum bytes | one byte, or an escape, at a time |
| escaping, CRC, size parser (`zdle.rs`, `crc.rs`, `file.rs`) | none, or a register | pure functions; the incremental `Crc16` and `Crc32` |
| event queue (`push_event`, `pop_event` in `receiver.rs`) | a ring of 4 slots, head and length | push, pop |
| `Buffer`, `String` (`buffer.rs`, `string.rs`) | bounded vectors | push, extend, clear |
| the callers (README, `src/tests.rs`, `tests/integration.rs`) | bytes read and not yet consumed, files | a loop over `poll` |

The machines share nothing. They interact through the bytes their callers
carry, and with their callers through `poll` and the methods that report what
was done. `poll` has a priority: events, then wire output, then file data (or
a read request), then `Idle`. A machine reads input only while it has nothing
to hand out (`outgoing`, `pending_request`, `blocked`).

What is hard here is not threads but protocol: any header may arrive in any
phase; answers are repeated, late, or lost; the caller writes and reads in
pieces and calls `abort`, `timeout`, `finish`, `start_file` and
`set_streaming_window` between any two of them; data is damaged and the rest
of a window is still under way when the receiver asks for it again. The
hazards are listed one by one, with their lines, in `PROJECT.json`.

What makes each part correct:

- Sender: it never overruns what the receiver advertised; a frame's data is
  contiguous; what it tells the receiver to expect is what it does next; it
  asks its caller for bytes that exist; no event is lost; after `Done` it
  reports nothing more.
- Receiver: its position is exactly what the caller persisted; it acknowledges
  nothing else; a file completes once; an ended session stays ended; it never
  refuses input without offering the caller something to do.
- Session: the disk holds a prefix of each file, whatever is damaged; "complete"
  means whole, on both sides; a declined file is not touched; while damage
  stays within the retry budget the session ends on both sides. All of it is
  what a session without any protocol would do.
- Readers: wherever the input is cut and whichever byte is damaged, what they
  hand on is what was sent; on a clean line they stay in step with the peer;
  data is never taken for a header, so a rewind may skip what it cannot parse.
- Writers: what they queue fits; what they announce the other side reads.
- Checksums: the standard ones, and they notice a damaged byte.
- Event queue: first in, first out, nothing lost when the indices wrap.

## Modules

| module | models | correspondence |
|---|---|---|
| `Wire` | what is put on the wire | A unit is a header (frame type, count; capabilities for ZRINIT), a subpacket (terminator, payload), a ZFILE payload (name, size) or `OO`. |
| `Sender` | `sender.rs` | A variable for each field that control depends on; an action for each public method; `SubmitWire` is one turn of `submit_wire`'s loop, with one operator per header handler. A failing call that changes state is an action or a disjunct (`StartFileNameTooLong`, `Finish` under backpressure); one that changes nothing is a stutter. |
| `SenderFlow` | properties of the sender | History variables: the last ZRINIT, the frame opened last and the terms it was opened under. |
| `Receiver` | `receiver.rs` | Same layout. `SubmitMetadata`, `SubmitSinitData` and `SubmitData` are a subpacket whose CRC was right, `RecoverCorruptSubpacket` and `GiveUpOnCorruptSubpacket` one whose CRC was wrong. |
| `ReceiverFlow` | properties of the receiver | History variables: where the file was started, what was persisted since, whether a file is open, rewinds since the last progress. |
| `Session` | both, their callers, the link | `S == INSTANCE Sender`, `R == INSTANCE Receiver`; every action of a machine is taken by a caller action that also moves units between output, link and input or data between disk and machine. |
| `SessionFlow` | properties of the session | Whose turn it is: the inductive invariant `SessionInv`. No history variables; what a machine has queued counts as under way (`Down`, `Up`). |
| `FileTransfer` | what a session promises | The abstract specification: files arrive one after the other, in order and whole, or are declined. `Session` is shown to implement it; the mapping is the identity on the four variables they share. |
| `Codec` | `header.rs`, `zdle.rs`, `wire.rs` | How a unit becomes bytes and bytes a header: the escape tables, the encodings, `write`, `decode_header`, `write_subpacket`. The checksum is a parameter. |
| `HeaderReader` | `HeaderReader` in `wire.rs` | An operator per branch of `read`: more input wanted, an error, a header. A step reads one byte, or the two of an escape; that is all a call boundary can change. |
| `SubpacketReader` | `process_subpacket` and what it calls, `RxCrc` | The same for a subpacket: line end skipped, data collected, terminator, checksum, overflow. |
| `ByteStream` | the loop of `submit_wire` over the two readers | A peer that goes through a script of frames, sends again what was not taken, at once or after the rest of its window; damaged bytes; input cut anywhere. |
| `StrayData` | the header reader fed with data | Any bytes, escaped, with any terminators between, resynchronising or not. |
| `Crc`, `CrcStream` | `crc.rs` | The registers as sets of bits, shifted bit by bit as in the code; `CrcStream` feeds a message and a copy of it with one byte changed. |
| `OutgoingBuffer` | `queue_...`, `wire_written`, `Buffer`, `BufferWriter` | The length of the buffer under every write, an escaped byte taking two. |
| `FileInfo` | `write_zfile`, `parse_zfile_buf`, `parse_file_size` | A payload of this library, or any text of another sender. |
| `EventQueue`, `BoundedFifo` | `push_event`, `pop_event` | The ring, and the queue it implements. |
| `MCSender`, `MCReceiver`, `MCSession`, `MCParts` | instances for TLC | Values of the constants. `MCParts` puts everything below the machines side by side (see Bounds). |
| `SenderProofs`, `ReceiverProofs`, `SessionProofs`, `ByteStreamProofs`, `CrcProofs`, `FileInfoProofs`, `BufferProofs` | proofs | `ByteStreamProofs` is about `StrayData`, too, and `BufferProofs` about the event queue and the outgoing buffer. |
| `FoldProofs` | lemmas | Induction and folds over sequences, for the proofs about checksums, announcements and the byte stream. |

Operators named `Bug...` are not part of a machine. Each is the operator below
it with a plausible mistake and documents which mistake a property would catch.

### Abstractions

- In `Sender`, `Receiver` and `Session` the wire carries units, not bytes.
  Therefore a write that ends inside a unit is not told apart from one that has
  not begun it, and a call of `submit_wire` is one unit or several steps of
  one. What this rests on is checked byte by byte in `ByteStream` and
  `StrayData`: a unit arrives as it was sent or is rejected, wherever input is
  cut, and data read as headers is skipped.
- `submit_wire` consumes at most one unit per step. Its loop tests the same
  condition before each header, so a longer input is several steps in a row.
- File names are model values; a name over 256 bytes is the action
  `StartFileNameTooLong`. Payload bytes are model values or numbers.
- `usize` values stay small in the code (a subpacket, a window count) and are
  naturals; `u32` positions keep their bound `MaxPosition`, and the receiver's
  checked addition is modelled.
- The link of `Session` delivers in order, as a serial line, a pipe or TCP
  does. It damages units: a damaged header disappears or is recognised as
  damaged; a damaged subpacket keeps its terminator and fails its CRC. A
  damaged terminator, which joins two subpackets, is a case of `ByteStream`.
- The receiver's event queue is a sequence in `Receiver`; that the ring behaves
  like one is what `EventQueue` shows.
- `SubpacketReader` compares the checksum of what was collected, where the code
  updates a register byte by byte; `CrcStream` shows that this is the same.
- `ByteStream` has no output and no caller that persists data: those decide
  only when a byte is read, which is `Receiver`'s matter. Its peer begins a
  frame only when the receiver awaits a header, as a sender that waits for the
  answer does; the rest of a window behind a rejected subpacket is sent.
- The bytes of a CRC-checked unit are real bytes, and so are the checksums:
  `Codec` takes them from `Crc`.

## Runs

| run | configuration | shows |
|---|---|---|
| `sender` | `MCSender`, `Sender.cfg` | `TypeOK`, `RequestServable`, `WithinTerms`, `FrameIsContiguous`, `WaitMatchesWire`, `PacingIsCurrent`, `EventsNotLost`, `DoneIsFinal` against any receiver |
| `sender_announce` | `SenderAnnounce.cfg` | finding: `AnnouncesAName` fails |
| `receiver` | `MCReceiver`, `Receiver.cfg` | `TypeOK`, `CountIsPersisted`, `AnswersArePersisted`, `OutputFreeWhileWriting`, `IdleOrFailed`, `NoSecondCompletion`, `EndIsFinal` against any sender; liveness: `ReadsAgain` |
| `receiver_abort` | `ReceiverAbort.cfg` | finding: `AbortIsFinal` fails |
| `receiver_rewinds` | `ReceiverRewinds.cfg` | finding: `RewindsBounded` fails |
| `receiver_idle` | `ReceiverIdle.cfg` | finding: `IdleReadsInput` fails |
| `session_faults` | `MCSession`, `SessionFaults.cfg` | `SessionInv`, `DiskIsPrefix`, `CompletedIsWhole`, `InStep`, `SenderCompletionSound`, `SessionCompletionSound`, `DeclinedUntouched` under damage of anything, timeouts and an abort; `TransfersFiles`: the session implements `FileTransfer` |
| `session_completes` | `SessionCompletes.cfg` | `NeverStuck` and liveness: `Completes` and `TransfersEveryFile` (`FileTransfer` with its fairness), with files taken automatically, resumed and declined, a bounded receiver, damage in the handshake and in data |
| `session_finish` | `SessionFinish.cfg` | finding: `FinishHonoured` fails |
| `session_no_files` | `SessionNoFiles.cfg` | finding: `SuccessIsMutual` fails |
| `session_headers` | `SessionHeaders.cfg` | finding: `GarbledHeaderRecovered` fails |
| `parts` | `MCParts`, `Parts.cfg` | byte stream: `ReadersTypeOK`, `FoundIsSent`, `HeadersFound`, `AcceptedIsSent`, `StaysInStep`; left-over data: `StrayIsNoHeader`; checksums: `IsTheStandardChecksum`, `DamageShows`; output: `WhatIsQueuedFits`, `OffsetInBuffer`; announcements: `ReadsWhatIsAnnounced`, `ReadsWhatWasWritten`; events: `IsFifo` |

The sender and the receiver are each checked alone first, against a peer that
may send anything at any time. What they promise there holds with any peer,
not only with the other machine of this crate. `Session` then shows what needs
both.

### Bounds

- Subpackets have at most 2 bytes (`SubpacketMaxSize = 2`), so full, short and
  (on the receiver) empty ones all occur.
- `MCSender`: files of 0 and 5 bytes, so a frame has up to three subpackets
  with a short last one; positions to 6, so the receiver may name one past the
  end; buffers of 0, 1, 3 and 4 bytes: nonstop, below one subpacket, between
  one and two, exactly two; windows 0 (clamped) and 3.
- `MCReceiver`: `MaxPosition = 3`, so a second full subpacket overflows the
  position; 3 event slots, which fill up; a retry budget of 2.
- `MCSession`: files of 6 bytes, of 2 and of none, all bytes different; up to 2
  damaged units, 2 timeouts, 1 abort. In manual mode the receiver already has
  one byte of the long file and all of the short one, so it resumes in the
  middle, resumes at the end, and declines. The receiver's user may ask for
  manual mode at any time it has seen all events, so files taken automatically
  are part of the same runs. `session_faults` and `session_completes` send all
  three, the short one first: what happens behind a file that was complete from
  the start shows only when another follows it. `session_faults` has a nonstop
  receiver, `session_completes` one whose buffer holds two subpackets, so that
  data is lost inside a window and answers are waited for. The last file is not
  declined there (`Declinable`), because a finish already asked for would be
  forgotten (`FinishHonoured`). Two variants hold as well: a nonstop receiver
  that may decline any file, with a finish asked for at the end only, and, when
  just subpackets are damaged, callers without patience (`FairSpec`).
- The budgets of damage, timeouts and aborts are guards of `Session`
  (`damage`, `timeouts`, `aborts`); they bound nothing in the machines.
- `MCParts` lets one of six parts run in each behaviour while the others keep
  their first state. They share no state, except that the byte stream and the
  left-over data are two environments of one header reader, so nothing is lost.
  - Byte stream: ZSINIT, ZFILE, a ZDATA window with all four terminators, ZEOF
    and ZFIN, in every encoding the code writes. Counts and payloads hold ZPAD,
    ZDLE and bytes that would be terminators or encodings behind a ZDLE; one
    payload is empty and one is full (5 bytes). Two bytes are damaged, to a
    NUL, XON, ZDLE, ZPAD, an encoding or a terminator (`MaxDamage`,
    `Replacement`). One damaged byte with all 256 replacements is about 470,000
    states, and holds as well.
  - Left-over data: all 256 bytes. The model is finite without a bound.
  - Checksums: messages of 4 bytes out of NUL, 24, 129 and 255.
  - Output: a payload of 24 bytes stands for 1024, a name of 12 for 256; the
    header's room is the least that suffices. The sizes only add up, and the
    theorem is for all of them.
  - Announcements: texts of up to 6 bytes out of NUL, space, `2`, `6` and `x`;
    the largest position is 225, so a third digit overflows it with the
    multiplication or with the addition, as a tenth does a `u32`.
  - Events: the 4 slots of the code.

The interesting cases of the session need two frames, a short last subpacket, a
rewind inside a window, and a stale answer to one file that arrives in the next;
all of them fit in these bounds. Deadlock is checked for the sender and the receiver alone.
A session really stops (it is over, or stuck after a fault nothing repairs), and
so do a script of frames, a message and a payload; their configurations turn
the check off.

### Fairness

`FairFlowSpec` (receiver) assumes that the caller goes on doing what `poll`
offers: it takes events, writes output and persists data. `FairSpec` (session)
assumes the same of both callers, that the link keeps delivering, and that the
users act when it is their turn (offer the next file, ask to finish, accept or
decline). That is the loop of the README and of the tests, which polls until
the session is done. All of it is weak fairness of single actions. Faults, timeouts,
aborts, a refusal and manual mode are never forced.

`ReadsAgain` is `[]<>(ReadsInput \/ Failed)`: input is read again and again, as
headers or as a subpacket, unless an error has left a subpacket unfinished
(`Failed`: a checksum that is not recovered from, a malformed announcement, a
position that does not fit). It does not say what of that input is taken.

`PatientSpec` (`session_completes`, `session_headers`) adds what a caller does
when nothing moves any more: its timeout expires, as often as it takes
(`QuietTimeout`). The crate leaves the timer to the caller and says so
(`timeout` of either machine). That one of the two callers is patient is enough
for `Completes`.

`session_completes` damages data subpackets and the headers of the handshake,
which the timeouts repeat. A damaged header behind the handshake is never
repaired by this code (the sender ignores ZNAK, and `timeout` does nothing
then), so no session can be expected to end after one. That is the finding of
`session_headers`; `session_faults` shows that even then nothing false is
reported.

### What the code's comments say and the code does not do

- `AnnouncesAName`: `start_file` clears the name before it can fail. After one
  successful call and one failed for a too long name, before the handshake, a
  file with an empty name is announced.
- `AbortIsFinal`: the receiver's `file_written` after `abort` takes the
  transfer up again. (`EndIsFinal` is the part that does hold.)
- `RewindsBounded`: the retry counter is cleared by an empty subpacket, which
  makes no progress.
- `IdleReadsInput`: with `Idle` `poll` says "submit more wire input"
  (`api.rs:74-75`). After a subpacket that would move the position past
  `u32::MAX`, `file_written` fails with its offset already at the end of the
  buffer (`receiver.rs:285-298`). From then on `poll` says `Idle`, and
  `submit_wire` consumes nothing and reports nothing. That this and the errors
  of `submit_wire` inside a subpacket are the only exceptions is proved
  (`IdleOrFailed`), and `ReadsAgain` says the same of the future.
- `FinishHonoured`: `finish` asked for before the last file is forgotten when
  that file is declined.
- `SuccessIsMutual`: in a session without files the receiver is in
  `SessionBegin`, where it ignores ZFIN. The second of its two ZRINITs (one
  sent unasked, one in answer to ZRQINIT) makes the sender report success, and
  the receiver waits for ever.
- `GarbledHeaderRecovered`: ZNAK "indicates last header was garbled"
  (`docs/zmodem.txt:1816`). The receiver sends one, and the sender ignores it.

Also met while modelling. The models have the behaviour, and no run is about it:

- The sender gives ZACK to the handler of ZRPOS (`sender.rs:409`), so one for an
  earlier position rewinds it; `docs/zmodem.txt:1402-1404` has such a ZACK
  ignored. (`DiskIsPrefix` and `FrameIsContiguous` hold all the same.)
- A corrupt data subpacket "is recoverable" (`receiver.rs:640`), but if the
  damaged byte is one of the terminator, the subpacket runs on into the next
  and may outgrow its buffer: `OutOfMemory`, and no rewind.
- A receiver "ignores" XON and XOFF in the data stream
  (`docs/zmodem.txt:819-820`); this one takes them as data (`receiver.rs:589`).
- The trailer behind a hex ZSINIT is "framing, not payload"
  (`receiver.rs:621-622`), but a payload that begins with a line feed loses it
  to the trailer (`receiver.rs:628`), and its checksum fails.
- For a file resumed at its end the sender queues ZEOF at once, and any ZRINIT
  that arrives then lets it go on (`sender.rs`, handler of ZRINIT), also one
  that a timeout of the receiver repeated. It then reports the file complete,
  and may announce the next one, before the receiver has read the ZEOF. The
  file is whole, so nothing false is reported; `FileTransfer` allows a file to
  be completed while the next one is offered for this reason.
- CRC-16 starts at zero and so does not notice a NUL in front. Two damaged bytes
  that turn an escape at the beginning of a payload into a NUL and the byte it
  stands for are accepted. `AcceptedIsSent` says so and is about one byte.

## Proofs

The theorems hold for every value of the constants (any sizes, windows, files,
capacities, any set of arriving headers and data). What they assume of the
constants are the named assumptions of the modules, which give them their types
(`LimitsAssumption`, `NoRequestAssumption`, `InputAssumption`,
`EmptyNameAssumption`, `CapacityAssumption`, `NoEventAssumption`,
`MessageAssumption`, `SessionLimitsAssumption`, `SizeAssumption`,
`ReplacementAssumption`), say how the sizes of the code
are related (`SizesAssumption`: a header's room is at least 35 bytes, a name
and a size fit into a payload), say what the byte stream's peer may send
(`ScriptAssumption`: positions fit in four bytes, payloads in a subpacket, only
a frame that announces data has subpackets and it ends with the last, ZSINIT and
ZFILE have just one, because the receiver leaves the frame after it whatever its
terminator, file data is not sent in hex, and the payload behind a hex ZSINIT
does not begin with a line feed, which is the case noted above) and that its checksums are two and
four bytes long (`ChecksumAssumption`, which supposes nothing else of them, so
the results hold whatever the checksums are), say that texts are made of bytes
and that a sender's file names are not empty, fit in a string and hold no NUL
(`TextAssumption`, `FileNamesAssumption`), or say what the users of a session start from
(`FilesAssumption`: no two files have the same name, every position in one fits
into a `u32`, and what the receiver has of one before is the beginning of it,
which is what resuming takes for granted). The budgets of damage and of rewinds are naturals
(`SessionLimitsAssumption`); those of timeouts and aborts are subject to no
assumption.

| module | theorem | statement |
|---|---|---|
| `SenderProofs` | `TypeCorrect` | `FlowSpec => []TypeOK` |
| | `FlowInvariant` | `FlowSpec => []FlowInv` |
| | `FlowControl` | `FlowSpec => []WithinTerms` |
| | `RequestsServable` | `FlowSpec => []RequestServable` |
| | `FramesContiguous` | `FlowSpec => []FrameIsContiguous` |
| | `PacingCurrent` | `FlowSpec => []PacingIsCurrent` |
| | `WireMatches` | `FlowSpec => []WaitMatchesWire` |
| | `EventsKept` | `FlowSpec => EventsNotLost` |
| | `DoneForGood` | `FlowSpec => DoneIsFinal` |
| `ReceiverProofs` | `TypeCorrect` | `FlowSpec => []TypeOK` |
| | `FlowInvariant` | `FlowSpec => []FlowInv` |
| | `PositionIsPersisted` | `FlowSpec => []CountIsPersisted` |
| | `AnswersPersisted` | `FlowSpec => []AnswersArePersisted` |
| | `OutputFree` | `FlowSpec => []OutputFreeWhileWriting` |
| | `CompletesOnce` | `FlowSpec => NoSecondCompletion` |
| | `EndsForGood` | `FlowSpec => EndIsFinal` |
| | `IdleMeansReading` | `FlowSpec => []IdleOrFailed` (the safety half of `ReadsAgain`) |
| `SessionProofs` | `SessionInvariant` | `Spec => []SessionInv` |
| | `DiskHoldsPrefixes` | `Spec => []DiskIsPrefix` |
| | `CompletedFilesAreWhole` | `Spec => []CompletedIsWhole` |
| | `MachinesStayInStep` | `Spec => []InStep` |
| | `SenderCompletionIsSound` | `Spec => SenderCompletionSound` |
| | `SessionCompletionIsSound` | `Spec => SessionCompletionSound` |
| | `DeclinedStaysUntouched` | `Spec => DeclinedUntouched` |
| | `SessionTransfersFiles` | `Spec => TransfersFiles` (refinement of `FileTransfer`) |
| | `NobodyIsStuck` | `Spec => []NeverStuck` |
| `ByteStreamProofs` | `StreamTypeInvariant` | `StreamSpec => []TypeInv` |
| | `ReadersTypeCorrect` | `StreamSpec => []ReadersTypeOK` |
| | `StreamInvariant` | `StreamSpec => [](TypeInv /\ StreamInv)` |
| | `ReadersStayInStep` | `StreamSpec => []StaysInStep` |
| | `CleanLineDelivers` | `StreamSpec => []DeliversWhatIsSent` |
| | `HeadersAreFound` | `StreamSpec => []HeadersFound` |
| | `StrayDataIsNoHeader` | `StraySpec => []StrayIsNoHeader` |
| `BufferProofs` | `TypeCorrect` | `QueueSpec => []RingTypeOK` |
| | `RingIsFifo` | `QueueSpec => IsFifo` (refinement of `BoundedFifo`) |
| | `QueuedFits` | `BufferSpec => []WhatIsQueuedFits` |
| | `OffsetStaysInBuffer` | `BufferSpec => []OffsetInBuffer` |
| `CrcProofs` | `DamagedByteShows` | `CrcSpec => []DamageShows` |
| | `StandardChecksums` | `CrcSpec => []IsTheStandardChecksum` |
| `FileInfoProofs` | `AnnouncementsAreRead` | `FileSpec => []ReadsWhatIsAnnounced` |
| | `WrittenIsRead` | `FileSpec => []ReadsWhatWasWritten` |

**Sender.** `WithinTerms` is not inductive: that a frame has carried no more
than the terms allow says nothing of what it may still carry. `FlowInv` adds
two conjuncts. `CapsPromise` says that outside the handshake the pacing fits
the last ZRINIT (subpackets times their size is at most the buffer).
`FramePromise` says that what the open frame has carried plus what its
remaining quota may carry is within its terms. A ZRINIT renews the pacing only
while no request is open (`ZrinitStep`); a ZRPOS or ZACK opens a frame whose
quota is at most the pacing (`OpenFrame`); a chunk moves bytes from "may carry"
to "has carried" (`SendChunk`); a new window touches the pacing only of a
nonstop receiver and leaves the open frame's terms alone (`WindowStep`); every
other step leaves no request open (`QuietStep`) or touches none of this
(`StillStep`). The arithmetic (division, products) is in lemmas of its own.
`EventsNotLost` rests on `EventGuarded`: an event the caller has not taken keeps
the sender from reading a header that would raise another. `WaitMatchesWire` is
inductive with `TypeOK`.

**Receiver.** `FlowInv` adds to the properties what they need from one step to
the next: which subpacket phase goes with which phase of the session
(`PhaseFits`), that before the first file the position is the start
(`BeginsAtZero`), that a receiver whose budget of rewinds is spent reads no more
data (`BudgetSpent`), and that a file is open wherever a ZEOF is taken or can be
reached from (`OpenWhereItMatters`). The lemmas named `...Type` keep the types,
those named `...Ledger` the account of position, persisted data and answers,
one for each kind of step. `IdleOrFailed` needs one thing more
(`SubpacketUnderWay`): a state that is to read a subpacket has one under way, and
a subpacket that is persisted and still there is one whose position was refused.

**Session.** None of its properties is inductive: whether the next byte on the
disk is the right one depends on what is in the receiver's buffer, that on what
is on the link, and that on what the sender thinks was asked for.
`SessionInv` says all of it. `SenderOK`, `ReceiverOK`, `LinkOK`, `WorldOK`,
`FilesSettled`, `EofIsTrue` and `FinIsTrue` hold at any time: the last two say
that a ZEOF under way is about a file the receiver has all of, and that a ZFIN
is under way only when every file is settled. `SomeTurn` says whose turn it is.
From the announcement of a file to its end exactly one thing is going on, and
each turn fixes what may be on the link:

| turn | what it says |
|---|---|
| `AnnouncementUnderWay`, `ReadingAnnouncement` | the ZFILE of the current file, then only its payload, stands in front of nothing but noise |
| `Deciding` | the receiver has taken the file, and no answer is under way |
| `AnswerUnderWay` | exactly one answer, from the receiver's position, whether it is queued or on the link; the caller may still have to see that a file starts (`ResetDue`) |
| `FrameOwed` | the sender has read the answer and not written the header yet |
| `FrameUnderWay`, `ReadingFrame` | the rest of the frame is on the link, its pieces without a gap from the receiver's position to the sender's next request (`RestOfFrame`, `DataFrom`), the disk up to the position |
| `PersistingData` | the same behind the buffer, the disk up to what of it was written |
| `NoTurn` | nothing of this: before the first file, after the last, or since a header was damaged or a side aborted |

`Down` and `Up` are the link with the output behind it, so writing output
changes nothing. The proof has a section for each kind of step. A side that only
adds noise (`ChatterTurn`: it writes, times out, repeats itself) leaves every
turn as it was; a unit that is taken and begins nothing (`UnitTakenTurn`) loses
an announcement or a frame if it was their header and leaves the other turns
alone; a side that aborts, ends a file or begins to wait leaves nobody's turn
(`NobodysTurn`). What remains are the steps that pass the turn on: a file is
offered, its announcement read, an answer given and heard (`AnswerIsGiven`,
`AnswerHasCome`), a piece sent (`PieceIsSent`), read (`DataIsRead`) and
persisted (`DataIsPersisted`), a corrupt piece asked for again
(`CorruptionIsRepaired`). What these do to the pieces of a frame on the link -
one more behind, one fewer in front - is in `DataExtends` and `FrameMovesUp`.
The refinement maps one step at a time (`StepImplements`), from `SessionInv`.

`NeverStuck` is the safety half of `Completes`: if the faults are ones the code
gets over (`Forgiving`: damaged subpackets, as many as it asks for again, and a
damaged handshake), then in a state in which neither machine nor caller nor link
has anything to do, the session is over on both sides. `Completes` adds that
fairness gets it there. It has three exceptions, and each is the code's: a user
has still to act, which includes offering a further file when the last one was
declined after `finish` was asked for (`FinishHonoured`); a damaged header of
the handshake needs a timeout; without files the receiver waits for one
(`SuccessIsMutual`). `SessionInv` allows a stuck session, because it holds for
damage nothing repairs, so `ForgivingInv` says what keeps this one going:

| part | what it says |
|---|---|
| `Retries` | the rewinds counted and the damage still possible stay within the damage there may be, so the receiver never gives up |
| `FilesGoOn` | while a file is under way, so is something for it: an announcement, a frame, an answer, a header the sender owes or work of the receiver; and nothing of it arrives when its reader ignores it |
| `SenderGoesOnFrom` | what the sender waits for is under way, or what makes the receiver send it is and the receiver will be ready for it (`ReadyAt`) |
| `ReceiverEnds` | a receiver that is done has a sender that is done or waits only for its ZFIN |

The proof goes through the steps of the sender, then those of the receiver, and
first says what a step of either leaves of the other's prospects
(`SenderLeaves`, `StillComes`): a unit more at the end of a lane, or one that
was noise less in front of it, takes away nothing that was to come.

**Byte stream.** `TypeInv` holds at any time and makes `ReadersTypeOK` a theorem
for every damage, and `HeadersFound` (below) is one, too. The rest is about a
clean line (`damaged = 0`), where no checksum is put to the test: that
`StaysInStep` holds for any script, any encoding, any checksum and any cut of
the input does not depend on the polynomial, only on escaping, framing and the
two readers agreeing. `StaysInStep` speaks only of the moments at which the wire is empty;
`StreamInv` says for every moment between how the rest of the wire and the
place in the reader fit together (`InPart`):

| part | what it says |
|---|---|
| `NothingBegun` | before the first frame: everything at rest |
| `AwaitsHeader` | `HeaderComes`: the bytes still coming, escapes removed, complete what the header reader has collected to exactly the encoding of `header` |
| `AfterHeader` | the header was found; at most the line end of a hex header is left |
| `AwaitsSubpacket` | `SubpacketComes`: the same for the next subpacket, its terminator and its checksum, with the line end of a hex header in front if there is one |

An escaped stream is read in one of two positions: between two symbols
(`Plain`) or behind a ZDLE that input was cut after (`Half`). `PlainStep` and
`HalfStep` say what reading the next byte does in each; `EscapeStep` is both.
They rest on `EscapeFirst`: the escaping of a string is the escaping of its
first byte in front of that of the rest. `EscapeSlice` flattens a sequence of
symbols, and `FlattenSeq` is recursive, so that fact is an induction; the
proof takes the least index at which it would fail (`WFMin`), which needs
no induction over an operator (`JoinsExist`, `JoinsAgree`, `FlattenFirst`).
`HexRoundTrip` and `CountRoundTrip` say that digits and flags are read back as
they were written, and `CollectableFacts` that decoding the encoding of a
header gives that header. There is one lemma for each branch of the readers
(`SeekClean`, `ReadEncodingClean`, `CollectClean`, `FoundClean`; `LineEndClean`,
`DataClean`, `TerminatorClean`, `ChecksumClean`) and for each step of the peer
(`BeginFrameClean`, `SendSubpacketClean`). Both sides agree that another
subpacket follows because only a ZDATA frame of a script has more than one
(`AnotherComes`). `CleanLineDelivers` adds what was
accepted so far (`AcceptedSoFar`): together they are `FoundIsSent`,
`HeadersFound` and `AcceptedIsSent` for a clean line.

`HeadersFound`, that a damaged byte costs at most two headers, is proved for any
number of damaged bytes, whatever they turn into. What a damaged byte can do is
make the reader take something for a header that is none and hold on to it until
it has as many bytes as a header of that encoding. Nothing else does: data,
checksums and line ends are `Calm`, no encoding stands behind a ZDLE in them.
The bound alone is not inductive, because it does not know how far the reader is
from looking for a header again. `MissedInv` counts the octets it still needs.
`ReaderEnds(more)` says that with `more` octets behind what is on the wire, every
header that begins there is whole and the reader is through with the one it is
reading. `MissedSoFar` has four cases, and counts the header sent last as missed
until it is found (`Lost`):

| case | the reader | may still be missed |
|---|---|---|
| `HeaderDue` | will find the header on the wire | none, and this one is not counted |
| `ReaderEnds(0) /\ Lost(0)` | is through when the wire is empty | none |
| `ReaderEnds(9) /\ Lost(1)` | needs at most nine octets, which every header has that are no ZDLE | the next one |
| `Lost(2)` | needs at most the fourteen of a hex header, which two headers have | the next two |

A damaged byte pays two headers. It leads from the first case to the third
(`DamagedDue`, the hard one: wherever it stands in the header, what is left of it
serves the reader for all but nine octets) and from the others to the last. A
header sent leads from each case to the one above it (`BeginFrameMissed`, with
`HeaderSent`). Reading leads from the first to the second when the header is
found, and otherwise stays in its case (`ReadingKeeps`), because a byte that is
read is one the reader no longer needs. The run `parts` has two damaged bytes.

**Event queue.** The window of occupied slots is described by how far a slot
lies behind the head (`Behind`), which has no modulo in it (`WindowIsBehind`);
a push extends the window by one slot and a pop takes its first.

**Left-over data.** `StrayInv` follows the reader through the symbols: behind
ZPAD ZDLE the second half of an escape is still to come, and that is no
encoding (`SymbolShape`, `SecondHalfIsUnknown`), a property of the escape table.

**Checksums.** A shift never makes two registers equal, because the bit the
generator feeds back at one end tells whether it was added (`Shift16Injective`,
`Shift32Injective`). So equal bytes keep registers different, and a different
byte makes equal ones different.

`StandardChecksums` compares the registers with polynomial division, which
knows of no register. `Standard` is the property for the message so far and
says besides that the registers are the fold of its bytes. One byte more means
a division with eight more steps. All the steps but the last eight are those of
the shorter message, eight places higher, and leave the new byte alone because
they are above it (`LongerDivision`, an induction over the steps); each of the
last eight is a shift of the register (`EliminateTop`, `Reduced16`,
`Reduced32`). CRC-32 shifts the other way, so its register is the mirror image
of the remainder (`Mirror`). `Remainder`, `Crc16Xmodem` and `Crc32IsoHdlc` are
folds with `FoldLeft`, which picks the indices of a sequence out of a set, the
largest first. `FoldProofs` shows that this computes the last element of a
chain with one link for each byte (`IterateFolds`), and that a fold over one
element more is one application more (`FoldAppend`).

**Announcements.** `FileInv` says where the payload comes from and, for each
answer of the parser, which of its conditions it found to hold; the parser
writes only once, so this is inductive without effort. What it takes is to
compare the parser, which splits from the left and stops at the first NUL, NUL
and SP, with `FilesIn`, which asks where in the payload a name and a size
stand. There is one such place (`FieldsOnce`), the parser finds it
(`FieldsFound`), and nothing else is a size (`SizesEnd`, `FilesAre`).
`parse_file_size` and `ValueOf` are folds with different steps, one from the
left with a check for overflow at each digit, one a sum of powers of ten. By
induction over the length they agree as long as the value fits, and once it does
not no further digit makes it fit again (`ParseMeans`). For what this library
writes, `Decimal` is shown to satisfy the equation it is defined by
(`DecimalIs`) and to have the number as its value (`DecimalMeans`), and digits
hold no separator (`WrittenFields`).

**Outgoing buffer.** `BufferInv`: the bytes in the buffer and the bytes still
to be queued, all of them escaped, fit (`Fits`), and a buffer that was taken
completely is empty (`Emptied`).

Model-checked only: the liveness properties (`ReadsAgain`, `Completes`,
`TransfersEveryFile` and the refuted ones), which need fairness and ENABLED and
are beyond this prover; `FoundIsSent` and `AcceptedIsSent` on a damaged line,
which are not true of any checksum. The proofs take the checksum as any function, and what a CRC makes of a
byte that became a ZDLE, or of a subpacket that ends early and whose next bytes
are then taken for its checksum, depends on the bytes. `CleanLineDelivers` and
`HeadersAreFound` are what holds without knowing them. The library's
induction theorems take an operator as a parameter, which these provers cannot
instantiate. Where an induction was needed (`FlattenSeq`, `FoldLeft`, a
division, decimal numbers), the property is a set and a least counterexample
refutes it (`UpTo` and `ForAll` in `FoldProofs`). There is no recursive
operator in any module; decimal numbers and powers of ten are recursive
functions, and that a solution of their equation exists is proved where it is
used.

## Not modelled

- Input submitted after an error there is no recovery from. The README's loop
  and the tests stop at the first error. After a damaged header `ByteStream`
  goes on at the next byte, although `submit_wire` returns its error without the
  number of bytes consumed, so a caller has to guess where that is.
- Data of a sender that escapes more than this crate does. `StrayData` is about
  data escaped by this crate's table; of a control byte escaped as well
  (ZDLE A for SOH, behind a ZPAD) the reader would take a header's beginning,
  and only the header's checksum tells.
- A peer that begins a frame while the receiver still reads a subpacket, as
  bytes. (`Receiver` has it: any unit may arrive in any phase.)
- `String::from`, comparisons and slice traits of `Buffer` and `String`, error
  types, I/O traits: no protocol state.
- A file name with a NUL in it, or an empty one: no source says what
  `start_file` should do with them. `FileInfo` assumes other names.
- The `build.rs` generator and the packaging scripts.

## Plan

1. Done: the two machines, the session, their runs and proofs.
2. Done: `FileTransfer` and the refinement; the byte level (`Codec`,
   `HeaderReader`, `SubpacketReader`, `ByteStream`, `StrayData`), `Crc`,
   `FileInfo`, `OutgoingBuffer`, `EventQueue`, with the proofs above.
3. Done: the session proved: `SessionInv`, what follows from it, and the
   refinement of `FileTransfer`.
4. Done: `StaysInStep` and the readers' types proved for the byte stream, with
   the checksum as any function (`StreamInv`), and delivery on a clean line.
5. Done: the checksums are the standard ones for every message
   (`StandardChecksums`), with the lemmas about folds it needs.
6. Done: announcements are read back, whatever their length
   (`AnnouncementsAreRead`, `WrittenIsRead`), with the same lemmas.
7. Done: the safety half of `Completes` (`NobodyIsStuck`).
8. Done: `HeadersFound` for any damage (`MissedInv`, `HeadersAreFound`).
