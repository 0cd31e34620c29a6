------------------------- MODULE SuouServiceProofs -------------------------
(***************************************************************************)
(* Proofs about the service engine of the software update over UART, for   *)
(* every size, image, line and number of failures.                         *)
(***************************************************************************)
EXTENDS SuouService, TLAPS

-----------------------------------------------------------------------------
(* Arithmetic of the unsigned types.                                       *)

LEMMA ModRange ==
  ASSUME NEW a \in Int, NEW n \in Nat, n > 0
  PROVE  a % n \in 0..n-1
OBVIOUS

LEMMA Sub32Type ==
  ASSUME NEW a \in 0..U32-1, NEW b \in 0..U32-1
  PROVE  Sub32(a, b) \in 0..U32-1
BY SizesAssumption DEF Sub32

LEMMA Add32Type ==
  ASSUME NEW a \in 0..U32-1, NEW b \in 0..U32-1
  PROVE  Add32(a, b) \in 0..U32-1
BY SizesAssumption DEF Add32

LEMMA NextSectorType ==
  ASSUME NEW a \in Nat
  PROVE  NextSector(a) \in Nat /\ a < NextSector(a)
<1>1. a % SECTOR \in 0..SECTOR-1
  BY ModRange, SizesAssumption
<1> QED
  BY <1>1, SizesAssumption DEF NextSector, SectorOf

-----------------------------------------------------------------------------
(* Bytes in flash and in the buffer.                                       *)

LEMMA ProgramType ==
  ASSUME NEW f \in Cells, NEW a \in Nat, NEW s \in Seq(Byte)
  PROVE  Program(f, a, s) \in Cells
<1> SUFFICES ASSUME NEW x \in 0..PART_SIZE-1, a <= x, x < a + Len(s)
             PROVE  s[x - a + 1] \in Byte
  BY DEF Program, Cells
<1> QED
  BY SizesAssumption

LEMMA EraseType ==
  ASSUME NEW f \in Cells, NEW a, NEW n
  PROVE  EraseRegion(f, a, n) \in Cells
BY DataAssumption DEF EraseRegion, Cells

LEMMA HdrType == header \in [1..HDR -> Byte] => Hdr \in Headers
BY DataAssumption DEF Hdr

LEMMA ExpectedLenType ==
  ASSUME StateType, BufferType, CounterType, Receiving
  PROVE  ExpectedLen \in Nat /\ (state = "W4_HEADER" => ExpectedLen = HDR)
<1>1. Hdr.ivt \in 0..U32-1 /\ Hdr.size \in 0..U32-1
  BY HdrType DEF BufferType, Headers
<1>2. HDR \in 0..U32-1
  BY SizesAssumption
<1>3. Sub32(Hdr.ivt, HDR) \in 0..U32-1
  BY <1>1, <1>2, Sub32Type
<1>4. Sub32(Sub32(Hdr.ivt, HDR), recv_hdr_ext_len) \in 0..U32-1
  BY <1>3, Sub32Type DEF CounterType
<1>5. Sub32(Hdr.size, recv_image_len) \in 0..U32-1
  BY <1>1, Sub32Type DEF CounterType
<1> QED
  BY <1>4, <1>5, SizesAssumption DEF ExpectedLen, MinOf, Receiving

\* The buffer after suouart_pull_to_buffer never holds more than what is expected.
LEMMA FilledType ==
  ASSUME StateType, BufferType, CounterType, LineType, Receiving, BufferBounded
  PROVE  /\ Pulled \in 0..Len(line)-taken
         /\ Filled \in Seq(Byte)
         /\ Len(Filled) = Len(buffer) + Pulled
         /\ Len(Filled) <= ExpectedLen
<1>1. ExpectedLen \in Nat /\ Len(buffer) <= ExpectedLen
  BY ExpectedLenType DEF BufferBounded
<1>2. Pulled \in 0..Len(line)-taken /\ Pulled <= ExpectedLen - Len(buffer)
  BY <1>1 DEF Pulled, MinOf, BufferType, LineType
<1> DEFINE piece == SubSeq(line, taken + 1, taken + Pulled)
<1>3. piece \in Seq(Byte) /\ Len(piece) = Pulled
  BY <1>2 DEF LineType
<1> HIDE DEF piece
<1>4. buffer \o piece \in Seq(Byte) /\ Len(buffer \o piece) = Len(buffer) + Len(piece)
  BY <1>3 DEF BufferType
<1>5. Filled = buffer \o piece
  BY DEF Filled, piece
<1>6. Len(buffer) \in Nat
  BY DEF BufferType
<1> QED
  BY <1>1, <1>2, <1>3, <1>4, <1>5, <1>6

-----------------------------------------------------------------------------
(* The inductive invariant: the types, and what they rest on.  A header is *)
(* taken from the buffer, so the buffer must hold no more than a header;   *)
(* a handler of the image writes through the partition handle, so that     *)
(* must be open; and a try to write the product header must be left.       *)

NvmsOpen    == (\/ state \in {"W4_HEADER_EXT", "W4_IMAGE_DATA"}
                \/ pc \in {"read_ph", "wr_backup", "wr_primary"}) => nvms \in Slots
RetriesLeft == pc \in {"wr_backup", "wr_primary"} => retry_cnt < TRIES
IInv        == TypeOK /\ BufferBounded /\ NvmsOpen /\ RetriesLeft

LEMMA InitIInv == Init => IInv
<1> SUFFICES ASSUME Init PROVE IInv
  OBVIOUS
<1> USE DEF Init, Zeroed
<1>1. FlagType /\ StateType
  BY DEF FlagType, StateType
<1>2. BufferType
  BY DataAssumption DEF BufferType
<1>3. CounterType /\ LineType
  BY SizesAssumption DEF CounterType, LineType
<1>4. RunType /\ SwitchType /\ FlashType
  BY SizesAssumption, FactoryAssumption DEF RunType, SwitchType, FlashType
<1>5. TypeOK
  BY <1>1, <1>2, <1>3, <1>4 DEF TypeOK
<1> QED
  BY <1>5, SizesAssumption DEF IInv, BufferBounded, NvmsOpen, RetriesLeft, Receiving

LEMMA EmptyType == <<>> \in Seq(Byte) /\ <<>> \in Seq(Byte \cup {Flip})
OBVIOUS

LEMMA RepliesType ==
  /\ <<>> \in Seq(Messages) /\ <<"OK">> \in Seq(Messages) /\ <<"ERROR">> \in Seq(Messages)
  /\ <<"IMG_STARTED", "OK">> \in Seq(Messages) /\ <<"SRV_EXIT", "OK">> \in Seq(Messages)
  /\ <<"CRC_ERR", "OK">> \in Seq(Messages) /\ <<"APP_ERROR", "ERROR">> \in Seq(Messages)
  /\ <<"CMP_OK", "OK">> \in Seq(Messages)
BY DEF Messages

LEMMA AppendType ==
  ASSUME NEW s \in Seq(Messages), NEW e \in Messages
  PROVE  Append(s, e) \in Seq(Messages)
OBVIOUS

LEMMA InvertedType ==
  ASSUME NEW crc \in Seq(Byte \cup {Flip})
  PROVE  Inverted(crc) \in Seq(Byte \cup {Flip})
<1>1. Append(crc, Flip) \in Seq(Byte \cup {Flip})
  OBVIOUS
<1>2. CASE crc # <<>>
  <2>1. Len(crc) \in Nat \ {0}
    BY <1>2
  <2>2. SubSeq(crc, 1, Len(crc) - 1) \in Seq(Byte \cup {Flip})
    BY <2>1
  <2> QED
    BY <1>1, <2>2 DEF Inverted
<1>3. CASE crc = <<>>
  BY <1>1, <1>3 DEF Inverted
<1> QED
  BY <1>2, <1>3

\* The commands that are answered at once, and those that begin some work.

LEMMA CommandsIInv ==
  ASSUME IInv, 
         \/ (\E v \in Statuses : WriteStatus(v)) \/ (\E n \in PatchLens : PatchLenWrite(n))
         \/ (\E l \in Lines : PatchData(l))
         \/ MemDevOther \/ MemDevStart \/ MemDevExit \/ MemDevEnd
  PROVE  IInv'
<1> USE DEF recvVars, addrVars, imgVars, chunkVars, loopVars, phVars, failVars, Reply
<1>0. /\ FlagType /\ StateType /\ BufferType /\ CounterType /\ LineType
      /\ RunType /\ SwitchType /\ FlashType
      /\ BufferBounded /\ NvmsOpen /\ RetriesLeft
  BY DEF IInv, TypeOK
<1>1. ASSUME NEW v \in Statuses, WriteStatus(v) PROVE IInv'
  <2> USE <1>0, <1>1 DEF WriteStatus
  <2>1. FlagType' /\ StateType'
    BY DEF FlagType, StateType
  <2>2. BufferType'
    BY DEF BufferType
  <2>3. CounterType' /\ LineType'
    BY InputAssumption DEF CounterType, LineType
  <2>4. RunType'
    BY RepliesType DEF RunType
  <2>5. SwitchType' /\ FlashType'
    BY DEF SwitchType, FlashType
  <2>6. BufferBounded' /\ NvmsOpen' /\ RetriesLeft'
    BY DEF BufferBounded, Receiving, ExpectedLen, Hdr, NvmsOpen, RetriesLeft
  <2> QED
    BY <2>1, <2>2, <2>3, <2>4, <2>5, <2>6 DEF IInv, TypeOK
<1>2. ASSUME NEW n \in PatchLens, PatchLenWrite(n) PROVE IInv'
  <2> USE <1>0, <1>2 DEF PatchLenWrite
  <2>1. FlagType' /\ StateType'
    BY DEF FlagType, StateType
  <2>2. BufferType'
    BY DEF BufferType
  <2>3. CounterType' /\ LineType'
    BY InputAssumption DEF CounterType, LineType
  <2>4. RunType'
    BY RepliesType DEF RunType
  <2>5. SwitchType' /\ FlashType'
    BY DEF SwitchType, FlashType
  <2>6. BufferBounded' /\ NvmsOpen' /\ RetriesLeft'
    BY DEF BufferBounded, Receiving, ExpectedLen, Hdr, NvmsOpen, RetriesLeft
  <2> QED
    BY <2>1, <2>2, <2>3, <2>4, <2>5, <2>6 DEF IInv, TypeOK
<1>3. ASSUME NEW l \in Lines, PatchData(l) PROVE IInv'
  <2> USE <1>0, <1>3 DEF PatchData
  <2>1. FlagType' /\ StateType'
    BY DEF FlagType, StateType
  <2>2. BufferType'
    BY DEF BufferType
  <2>3. CounterType' /\ LineType'
    BY InputAssumption, SizesAssumption DEF CounterType, LineType
  <2>4. RunType'
    BY RepliesType DEF RunType
  <2>5. SwitchType' /\ FlashType'
    BY DEF SwitchType, FlashType
  <2>6. BufferBounded' /\ NvmsOpen' /\ RetriesLeft'
    BY DEF BufferBounded, Receiving, ExpectedLen, Hdr, NvmsOpen, RetriesLeft
  <2> QED
    BY <2>1, <2>2, <2>3, <2>4, <2>5, <2>6 DEF IInv, TypeOK
<1>4. ASSUME MemDevOther PROVE IInv'
  <2> USE <1>0, <1>4 DEF MemDevOther
  <2>1. FlagType' /\ StateType'
    BY DEF FlagType, StateType
  <2>2. BufferType'
    BY DEF BufferType
  <2>3. CounterType' /\ LineType'
    BY SizesAssumption DEF CounterType, LineType
  <2>4. RunType'
    BY RepliesType DEF RunType
  <2>5. SwitchType' /\ FlashType'
    BY DEF SwitchType, FlashType
  <2>6. BufferBounded' /\ NvmsOpen' /\ RetriesLeft'
    BY DEF BufferBounded, Receiving, ExpectedLen, Hdr, NvmsOpen, RetriesLeft
  <2> QED
    BY <2>1, <2>2, <2>3, <2>4, <2>5, <2>6 DEF IInv, TypeOK
<1>5. ASSUME MemDevStart PROVE IInv'
  <2> USE <1>0, <1>5 DEF MemDevStart, StartOver
  <2>1. FlagType' /\ StateType'
    BY DEF FlagType, StateType
  <2>2. BufferType'
    BY EmptyType DEF BufferType
  <2>3. CounterType' /\ LineType'
    BY SizesAssumption DEF CounterType, LineType
  <2>4. RunType'
    BY RepliesType DEF RunType
  <2>5. SwitchType' /\ FlashType'
    BY DEF SwitchType, FlashType
  <2>6. BufferBounded' /\ NvmsOpen' /\ RetriesLeft'
    BY SizesAssumption DEF BufferBounded, Receiving, ExpectedLen, Hdr, NvmsOpen, RetriesLeft
  <2> QED
    BY <2>1, <2>2, <2>3, <2>4, <2>5, <2>6 DEF IInv, TypeOK
<1>6. ASSUME MemDevExit PROVE IInv'
  <2> USE <1>0, <1>6 DEF MemDevExit
  <2>1. FlagType' /\ StateType'
    BY DEF FlagType, StateType
  <2>2. BufferType'
    BY DEF BufferType
  <2>3. CounterType' /\ LineType'
    BY DEF CounterType, LineType
  <2>4. RunType'
    BY RepliesType DEF RunType
  <2>5. SwitchType' /\ FlashType'
    BY DEF SwitchType, FlashType
  <2>6. BufferBounded' /\ NvmsOpen' /\ RetriesLeft'
    BY DEF BufferBounded, Receiving, ExpectedLen, Hdr, NvmsOpen, RetriesLeft
  <2> QED
    BY <2>1, <2>2, <2>3, <2>4, <2>5, <2>6 DEF IInv, TypeOK
<1>7. ASSUME MemDevEnd PROVE IInv'
  <2> USE <1>0, <1>7 DEF MemDevEnd
  <2>1. FlagType' /\ StateType'
    BY DEF FlagType, StateType
  <2>2. BufferType'
    BY InvertedType DEF BufferType
  <2>3. CounterType' /\ LineType'
    BY DEF CounterType, LineType
  <2>4. RunType'
    BY RepliesType DEF RunType
  <2>5. SwitchType' /\ FlashType'
    BY DEF SwitchType, FlashType
  <2>6. BufferBounded' /\ NvmsOpen' /\ RetriesLeft'
    BY DEF BufferBounded, Receiving, ExpectedLen, Hdr, NvmsOpen, RetriesLeft
  <2> QED
    BY <2>1, <2>2, <2>3, <2>4, <2>5, <2>6 DEF IInv, TypeOK
<1> QED
  BY <1>1, <1>2, <1>3, <1>4, <1>5, <1>6, <1>7

\* The loop over a line, but for the handlers.
LEMMA LoopIInv ==
  ASSUME IInv, PatchRefused \/ PatchIgnored \/ ChunkAdd \/ ChunkNotify \/ PatchReturn
  PROVE  IInv'
<1> USE DEF recvVars, addrVars, imgVars, chunkVars, loopVars, phVars, failVars, Reply
<1>0. /\ FlagType /\ StateType /\ BufferType /\ CounterType /\ LineType
      /\ RunType /\ SwitchType /\ FlashType
      /\ BufferBounded /\ NvmsOpen /\ RetriesLeft
  BY DEF IInv, TypeOK
<1>1. ASSUME PatchRefused PROVE IInv'
  <2> USE <1>0, <1>1 DEF PatchRefused, Iterated, iterUnchanged
  <2>1. FlagType' /\ StateType'
    BY DEF FlagType, StateType
  <2>2. BufferType'
    BY DEF BufferType
  <2>3. CounterType' /\ LineType'
    BY DEF CounterType, LineType
  <2>4. RunType'
    BY RepliesType DEF RunType
  <2>5. SwitchType' /\ FlashType'
    BY DEF SwitchType, FlashType
  <2>6. BufferBounded' /\ NvmsOpen' /\ RetriesLeft'
    BY DEF BufferBounded, Receiving, ExpectedLen, Hdr, NvmsOpen, RetriesLeft
  <2> QED
    BY <2>1, <2>2, <2>3, <2>4, <2>5, <2>6 DEF IInv, TypeOK
<1>2. ASSUME PatchIgnored PROVE IInv'
  <2> USE <1>0, <1>2 DEF PatchIgnored, Iterated, iterUnchanged, Trailing
  <2>1. FlagType' /\ StateType'
    BY DEF FlagType, StateType
  <2>2. BufferType'
    BY DEF BufferType
  <2>3. CounterType' /\ LineType'
    BY DEF CounterType, LineType
  <2>4. RunType'
    BY RepliesType DEF RunType
  <2>5. SwitchType' /\ FlashType'
    BY DEF SwitchType, FlashType
  <2>6. BufferBounded' /\ NvmsOpen' /\ RetriesLeft'
    BY DEF BufferBounded, Receiving, ExpectedLen, Hdr, NvmsOpen, RetriesLeft
  <2> QED
    BY <2>1, <2>2, <2>3, <2>4, <2>5, <2>6 DEF IInv, TypeOK
<1>3. ASSUME ChunkAdd PROVE IInv'
  <2> USE <1>0, <1>3 DEF ChunkAdd, chunkUnchanged, Add16
  <2>1. FlagType' /\ StateType'
    BY DEF FlagType, StateType
  <2>2. BufferType'
    BY DEF BufferType
  <2>3. CounterType' /\ LineType'
    BY SizesAssumption DEF CounterType, LineType
  <2>4. RunType'
    BY RepliesType DEF RunType
  <2>5. SwitchType' /\ FlashType'
    BY DEF SwitchType, FlashType
  <2>6. BufferBounded' /\ NvmsOpen' /\ RetriesLeft'
    BY DEF BufferBounded, Receiving, ExpectedLen, Hdr, NvmsOpen, RetriesLeft
  <2> QED
    BY <2>1, <2>2, <2>3, <2>4, <2>5, <2>6 DEF IInv, TypeOK
<1>4. ASSUME ChunkNotify PROVE IInv'
  <2> USE <1>0, <1>4 DEF ChunkNotify, chunkUnchanged
  <2>1. FlagType' /\ StateType'
    BY DEF FlagType, StateType
  <2>2. BufferType'
    BY DEF BufferType
  <2>3. CounterType' /\ LineType'
    BY SizesAssumption DEF CounterType, LineType
  <2>4. RunType'
    BY AppendType DEF RunType, Messages
  <2>5. SwitchType' /\ FlashType'
    BY DEF SwitchType, FlashType
  <2>6. BufferBounded' /\ NvmsOpen' /\ RetriesLeft'
    BY DEF BufferBounded, Receiving, ExpectedLen, Hdr, NvmsOpen, RetriesLeft
  <2> QED
    BY <2>1, <2>2, <2>3, <2>4, <2>5, <2>6 DEF IInv, TypeOK
<1>5. ASSUME PatchReturn PROVE IInv'
  <2> USE <1>0, <1>5 DEF PatchReturn, chunkUnchanged
  <2>1. FlagType' /\ StateType'
    BY DEF FlagType, StateType
  <2>2. BufferType'
    BY DEF BufferType
  <2>3. CounterType' /\ LineType'
    BY SizesAssumption DEF CounterType, LineType
  <2>4. RunType'
    BY RepliesType DEF RunType
  <2>5. SwitchType' /\ FlashType'
    BY DEF SwitchType, FlashType
  <2>6. BufferBounded' /\ NvmsOpen' /\ RetriesLeft'
    BY DEF BufferBounded, Receiving, ExpectedLen, Hdr, NvmsOpen, RetriesLeft
  <2> QED
    BY <2>1, <2>2, <2>3, <2>4, <2>5, <2>6 DEF IInv, TypeOK
<1> QED
  BY <1>1, <1>2, <1>3, <1>4, <1>5

LEMMA PrepareType ==
  ASSUME NEW p \in Slots, NEW n \in Nat, n < U32, CounterType, FlashType
  PROVE  Prepare(p, n).cells \in Cells /\ Prepare(p, n).erase \in 0..U32-1
<1> DEFINE end == Sub32(Add32(flash_write_addr, n), 1)
<1>1. end \in 0..U32-1
  BY SizesAssumption, Add32Type, Sub32Type DEF CounterType
<1>2. NextSector(end + 1) \in Nat
  BY <1>1, NextSectorType
<1>3. NextSector(end + 1) % U32 \in 0..U32-1
  BY <1>2, ModRange, SizesAssumption
<1>4. flash[p] \in Cells
  BY DEF FlashType
<1>5. EraseRegion(flash[p], flash_erase_addr, end - flash_erase_addr + 1) \in Cells
  BY <1>4, EraseType
<1> QED
  BY <1>3, <1>4, <1>5 DEF Prepare, CounterType

LEMMA FitType ==
  ASSUME NEW a \in Nat, NEW n \in Nat
  PROVE  Fit(a, n) \in Int /\ -1 <= Fit(a, n) /\ Fit(a, n) <= n
BY SizesAssumption DEF Fit, MinOf

LEMMA PrefixType ==
  ASSUME NEW s \in Seq(Byte), NEW n \in Int, n <= Len(s)
  PROVE  SubSeq(s, 1, n) \in Seq(Byte)
OBVIOUS

LEMMA BytesType ==
  ASSUME NEW f \in Cells, NEW a \in Nat, NEW n \in Nat, a + n <= PART_SIZE
  PROVE  Bytes(f, a, n) \in Seq(Byte) /\ Len(Bytes(f, a, n)) = n
BY SizesAssumption DEF Bytes, Cells

LEMMA UpdateSlotType ==
  ASSUME SwitchType
  PROVE  /\ UpdateSlot \in Slots \cup {None}
         /\ UpdateSlot # None => UpdateSlot # ph["primary"].active
<1>1. ph["primary"].active \in Slots
  BY DEF SwitchType, Copies, ProductHeaders
<1>2. \E s \in Slots : s # ph["primary"].active
  BY <1>1, DataAssumption
<1> QED
  BY <1>2 DEF UpdateSlot

\* One round of the loop takes what was pulled; an error may end in a null call.
LEMMA IteratedType ==
  ASSUME LineType, NEW n \in 0..Len(line)-taken, NEW r \in BOOLEAN, Iterated(n, r), UNCHANGED line
  PROVE  LineType' /\ ret' \in BOOLEAN /\ pc' \in {"patch", "chunk"}
<1>1. LineType'
  BY DEF LineType, Iterated
<1>2. ret' \in BOOLEAN /\ pc' \in {"patch", "chunk"}
  BY DEF Iterated
<1> QED
  BY <1>1, <1>2

LEMMA ErrorCbType ==
  ASSUME LineType, RunType, FlagType, StateType, Pulled \in 0..Len(line)-taken,
         NEW status \in Messages, NEW r \in BOOLEAN, ErrorCb(status, r), UNCHANGED line
  PROVE  /\ LineType' /\ ret' \in BOOLEAN /\ RunType'
         /\ pc' \in {"patch", "chunk", "fault"} /\ state' \in {state, "ERROR"}
<1>1. CASE cbs
  <2>1. Iterated(Pulled, r) /\ out' = Append(out, status) /\ state' = "ERROR"
    BY <1>1 DEF ErrorCb
  <2>2. LineType' /\ ret' \in BOOLEAN /\ pc' \in {"patch", "chunk"}
    BY <2>1, IteratedType
  <2>3. out' \in Seq(Messages)
    BY <2>1, AppendType DEF RunType
  <2> QED
    BY <2>1, <2>2, <2>3 DEF RunType
<1>2. CASE ~cbs
  <2>1. pc' = "fault" /\ UNCHANGED <<out, state, taken, ret>>
    BY <1>2 DEF ErrorCb
  <2>2. LineType'
    BY <2>1 DEF LineType
  <2>3. ret' \in BOOLEAN
    BY <2>1 DEF FlagType
  <2> QED
    BY <2>1, <2>2, <2>3 DEF RunType
<1> QED
  BY <1>1, <1>2

LEMMA PullShortIInv ==
  ASSUME IInv, PullShort
  PROVE  IInv'
<1> USE DEF recvVars, addrVars, imgVars, chunkVars, phVars, failVars, iterUnchanged
<1>0. /\ FlagType /\ StateType /\ BufferType /\ CounterType /\ LineType
      /\ RunType /\ SwitchType /\ FlashType
      /\ BufferBounded /\ NvmsOpen /\ RetriesLeft
  BY DEF IInv, TypeOK
<1>1. Pulled \in 0..Len(line)-taken /\ Filled \in Seq(Byte) /\ Len(Filled) <= ExpectedLen
  BY <1>0, FilledType DEF PullShort
<1>2. LineType' /\ ret' \in BOOLEAN /\ pc' \in {"patch", "chunk"}
  BY <1>0, <1>1, IteratedType DEF PullShort
<1>3. FlagType' /\ StateType' /\ RunType'
  BY <1>0, <1>2 DEF PullShort, FlagType, StateType, RunType
<1>4. BufferType'
  BY <1>0, <1>1 DEF PullShort, BufferType
<1>5. CounterType' /\ SwitchType' /\ FlashType'
  BY <1>0 DEF PullShort, CounterType, SwitchType, FlashType
<1>6. BufferBounded'
  <2>1. buffer' = Filled /\ ExpectedLen' = ExpectedLen
    BY DEF PullShort, ExpectedLen, Hdr
  <2> QED
    BY <1>1, <2>1 DEF BufferBounded
<1>7. NvmsOpen' /\ RetriesLeft'
  BY <1>0, <1>2 DEF PullShort, NvmsOpen, RetriesLeft
<1> QED
  BY <1>2, <1>3, <1>4, <1>5, <1>6, <1>7 DEF IInv, TypeOK

\* After a handler the buffer is empty, so it is within any bound.
LEMMA EmptyBufferBounded ==
  ASSUME BufferType', CounterType', buffer' = <<>>
  PROVE  BufferBounded'
<1>1. Hdr'.ivt \in 0..U32-1 /\ Hdr'.size \in 0..U32-1
  BY DataAssumption DEF Hdr, BufferType, Headers
<1>2. HDR \in 0..U32-1
  BY SizesAssumption
<1>3. Sub32(Hdr'.ivt, HDR) \in 0..U32-1
  BY <1>1, <1>2, Sub32Type
<1>4. Sub32(Sub32(Hdr'.ivt, HDR), recv_hdr_ext_len') \in 0..U32-1
  BY <1>3, Sub32Type DEF CounterType
<1>5. Sub32(Hdr'.size, recv_image_len') \in 0..U32-1
  BY <1>1, Sub32Type DEF CounterType
<1>6. Receiving' => ExpectedLen' \in Nat
  BY <1>4, <1>5, SizesAssumption DEF ExpectedLen, MinOf, Receiving
<1> QED
  BY <1>6 DEF BufferBounded

LEMMA HandleHeaderIInv ==
  ASSUME IInv, HandleHeader
  PROVE  IInv'
<1> DEFINE h == ParseHeader(Filled)
           p == Prepare(UpdateSlot, HDR)
<1> USE DEF recvVars, addrVars, imgVars, chunkVars, phVars, failVars, iterUnchanged
<1>0. /\ FlagType /\ StateType /\ BufferType /\ CounterType /\ LineType
      /\ RunType /\ SwitchType /\ FlashType
      /\ BufferBounded /\ NvmsOpen /\ RetriesLeft
  BY DEF IInv, TypeOK
<1>1. Receiving /\ state = "W4_HEADER" /\ Len(Filled) >= ExpectedLen /\ buffer' = <<>> /\ header' = Filled
  BY DEF HandleHeader, Handle, Receiving
<1>2. ExpectedLen = HDR
  BY <1>0, <1>1, ExpectedLenType
<1>3. Pulled \in 0..Len(line)-taken /\ Filled \in Seq(Byte) /\ Len(Filled) <= ExpectedLen
  BY <1>0, <1>1, FilledType
<1>4. Len(Filled) = HDR
  BY <1>1, <1>2, <1>3, SizesAssumption
<1>5. Filled \in [1..HDR -> Byte]
  BY <1>3, <1>4
<1>6. BufferType'
  BY <1>0, <1>1, <1>5, EmptyType DEF HandleHeader, BufferType
<1>7. \/ /\ \E status \in Messages, r \in BOOLEAN : ErrorCb(status, r)
         /\ UNCHANGED <<addrVars, flash>>
         /\ nvms' \in {nvms, UpdateSlot}
      \/ /\ nvms' = UpdateSlot /\ UpdateSlot # None
         /\ flash' = [flash EXCEPT ![UpdateSlot] = p.cells]
         /\ flash_erase_addr' = p.erase
         /\ flash_write_addr' = Add32(flash_write_addr, HDR)
         /\ state' = "W4_HEADER_EXT"
         /\ Iterated(Pulled, TRUE)
         /\ UNCHANGED out
  BY DEF HandleHeader, Messages
<1>8. /\ UNCHANGED <<alloc, cbs, torn_base, line, recv_total_len, recv_hdr_ext_len, recv_image_len,
                     chunk_len, patch_len, external_status, ph_buffer, retry_cnt, ph, resets, faults>>
  BY DEF HandleHeader
<1>9. UpdateSlot \in Slots \cup {None}
  BY <1>0, UpdateSlotType
<1>10. SwitchType'
  BY <1>0, <1>8 DEF SwitchType
<1>11. CASE /\ \E status \in Messages, r \in BOOLEAN : ErrorCb(status, r)
            /\ UNCHANGED <<addrVars, flash>>
            /\ nvms' \in {nvms, UpdateSlot}
  <2>1. /\ LineType' /\ ret' \in BOOLEAN /\ RunType'
        /\ pc' \in {"patch", "chunk", "fault"} /\ state' \in {state, "ERROR"}
    BY <1>0, <1>3, <1>8, <1>11, ErrorCbType
  <2>2. FlagType' /\ StateType'
    BY <1>0, <1>8, <1>9, <1>11, <2>1 DEF FlagType, StateType
  <2>3. CounterType' /\ FlashType'
    BY <1>0, <1>8, <1>11 DEF CounterType, FlashType
  <2>4. NvmsOpen' /\ RetriesLeft'
    BY <1>1, <2>1 DEF NvmsOpen, RetriesLeft
  <2>5. BufferBounded'
    <3>1. Receiving' => ExpectedLen' = HDR
      BY <1>1, <2>1 DEF Receiving, ExpectedLen
    <3> QED
      BY <1>1, <3>1, SizesAssumption DEF BufferBounded
  <2> QED
    BY <1>6, <1>10, <2>1, <2>2, <2>3, <2>4, <2>5 DEF IInv, TypeOK
<1>12. CASE /\ nvms' = UpdateSlot /\ UpdateSlot # None
            /\ flash' = [flash EXCEPT ![UpdateSlot] = p.cells]
            /\ flash_erase_addr' = p.erase
            /\ flash_write_addr' = Add32(flash_write_addr, HDR)
            /\ state' = "W4_HEADER_EXT"
            /\ Iterated(Pulled, TRUE)
            /\ UNCHANGED out
  <2>1. HDR \in 0..U32-1
    BY SizesAssumption
  <2>2. p.cells \in Cells /\ p.erase \in 0..U32-1
    <3>1. UpdateSlot \in Slots /\ HDR \in Nat /\ HDR < U32
      BY <1>9, <1>12, <2>1, SizesAssumption
    <3> QED
      BY <1>0, <3>1, PrepareType
  <2>3. Add32(flash_write_addr, HDR) \in 0..U32-1
    BY <1>0, <2>1, Add32Type DEF CounterType
  <2> HIDE DEF p
  <2>4. CounterType' /\ FlashType'
    BY <1>0, <1>8, <1>9, <1>12, <2>2, <2>3 DEF CounterType, FlashType
  <2>5. LineType' /\ ret' \in BOOLEAN /\ pc' \in {"patch", "chunk"}
    BY <1>0, <1>3, <1>8, <1>12, IteratedType
  <2>6. FlagType' /\ StateType' /\ RunType'
    BY <1>0, <1>8, <1>9, <1>12, <2>5 DEF FlagType, StateType, RunType
  <2>7. NvmsOpen' /\ RetriesLeft'
    BY <1>9, <1>12, <2>5 DEF NvmsOpen, RetriesLeft
  <2>8. BufferBounded'
    BY <1>1, <1>6, <2>4, EmptyBufferBounded
  <2> QED
    BY <1>6, <1>10, <2>4, <2>5, <2>6, <2>7, <2>8 DEF IInv, TypeOK
<1> QED
  BY <1>7, <1>11, <1>12

LEMMA HandleHeaderExtIInv ==
  ASSUME IInv, HandleHeaderExt
  PROVE  IInv'
<1> DEFINE p == Prepare(nvms, Len(Filled))
<1> USE DEF recvVars, addrVars, imgVars, chunkVars, phVars, failVars, iterUnchanged
<1>0. /\ FlagType /\ StateType /\ BufferType /\ CounterType /\ LineType
      /\ RunType /\ SwitchType /\ FlashType
      /\ BufferBounded /\ NvmsOpen /\ RetriesLeft
  BY DEF IInv, TypeOK
<1>1. /\ Receiving /\ state = "W4_HEADER_EXT" /\ buffer' = <<>> /\ nvms \in Slots
  BY <1>0 DEF HandleHeaderExt, Handle, Receiving, NvmsOpen
<1>2. Pulled \in 0..Len(line)-taken /\ Filled \in Seq(Byte) /\ Len(Filled) <= ExpectedLen
  BY <1>0, <1>1, FilledType
<1>3. Len(Filled) \in Nat /\ Len(Filled) <= BUF /\ Len(Filled) < U32
  <2>1. ExpectedLen \in Nat /\ ExpectedLen <= BUF
    BY <1>0, <1>1, ExpectedLenType, SizesAssumption DEF ExpectedLen, MinOf
  <2> QED
    BY <1>2, <2>1, SizesAssumption
<1>4. p.cells \in Cells /\ p.erase \in 0..U32-1
  BY <1>0, <1>1, <1>3, PrepareType
<1> HIDE DEF p
<1>5. flash_write_addr \in Nat
  BY <1>0 DEF CounterType
<1>6. Fit(flash_write_addr, Len(Filled)) \in Int /\ Fit(flash_write_addr, Len(Filled)) <= Len(Filled)
  BY <1>3, <1>5, FitType
<1>7. PICK n \in -1..BUF :
        /\ \/ n = Fit(flash_write_addr, Len(Filled)) /\ UNCHANGED faults
           \/ /\ n < Fit(flash_write_addr, Len(Filled))
              /\ faults < MaxFaults /\ faults' = faults + 1
        /\ flash' = [flash EXCEPT ![nvms] = Program(p.cells, flash_write_addr, SubSeq(Filled, 1, n))]
        /\ IF n < 0
           THEN UNCHANGED <<flash_write_addr, recv_hdr_ext_len, state>>
           ELSE /\ flash_write_addr' = Add32(flash_write_addr, n)
                /\ recv_hdr_ext_len' = Add32(recv_hdr_ext_len, n)
                /\ state' = IF recv_hdr_ext_len' = Sub32(Hdr.ivt, HDR)
                            THEN "W4_IMAGE_DATA" ELSE state
        /\ Iterated(Pulled, n = Len(Filled))
  BY DEF HandleHeaderExt, p
<1>7a. n <= Len(Filled) /\ faults' \in 0..MaxFaults
  BY <1>0, <1>3, <1>6, <1>7, SizesAssumption DEF FlashType
<1>8. /\ UNCHANGED <<alloc, cbs, torn_base, line, recv_total_len, recv_image_len, image_crc, header, nvms,
                     chunk_len, patch_len, external_status, ph_buffer, retry_cnt, ph, resets, out>>
      /\ flash_erase_addr' = p.erase
  BY DEF HandleHeaderExt, p
<1>9. BufferType'
  BY <1>0, <1>1, <1>8, EmptyType DEF BufferType
<1>10. state' \in {state, "W4_IMAGE_DATA"}
  BY <1>7
<1>11. CounterType'
  <2>1. n < 0 \/ n \in 0..U32-1
    BY <1>7, SizesAssumption
  <2>2. CASE n < 0
    BY <1>0, <1>4, <1>7, <1>8, <2>2 DEF CounterType
  <2>3. CASE n \in 0..U32-1
    <3>1. Add32(flash_write_addr, n) \in 0..U32-1 /\ Add32(recv_hdr_ext_len, n) \in 0..U32-1
      BY <1>0, <2>3, Add32Type DEF CounterType
    <3> QED
      BY <1>0, <1>4, <1>7, <1>8, <2>3, <3>1 DEF CounterType
  <2> QED
    BY <2>1, <2>2, <2>3
<1>12. FlashType' /\ SwitchType'
  <2>1. SubSeq(Filled, 1, n) \in Seq(Byte)
    BY <1>2, <1>7a, PrefixType
  <2>2. Program(p.cells, flash_write_addr, SubSeq(Filled, 1, n)) \in Cells
    BY <1>4, <1>5, <2>1, ProgramType
  <2> QED
    BY <1>0, <1>1, <1>7, <1>7a, <1>8, <2>2 DEF FlashType, SwitchType
<1>13. LineType' /\ ret' \in BOOLEAN /\ pc' \in {"patch", "chunk"}
  <2>1. (n = Len(Filled)) \in BOOLEAN
    OBVIOUS
  <2> QED
    BY <1>0, <1>2, <1>7, <1>8, <2>1, IteratedType
<1>14. FlagType' /\ StateType' /\ RunType'
  BY <1>0, <1>8, <1>10, <1>13 DEF FlagType, StateType, RunType
<1>15. NvmsOpen' /\ RetriesLeft'
  BY <1>1, <1>8, <1>13 DEF NvmsOpen, RetriesLeft
<1>16. BufferBounded'
  BY <1>1, <1>9, <1>11, EmptyBufferBounded
<1> QED
  BY <1>9, <1>11, <1>12, <1>13, <1>14, <1>15, <1>16 DEF IInv, TypeOK

LEMMA HandleImageDataIInv ==
  ASSUME IInv, HandleImageData
  PROVE  IInv'
<1> DEFINE p == Prepare(nvms, Len(Filled))
           a == flash_write_addr
           fits == Fit(a, Len(Filled))
<1> USE DEF recvVars, addrVars, imgVars, chunkVars, phVars, failVars, iterUnchanged
<1>0. /\ FlagType /\ StateType /\ BufferType /\ CounterType /\ LineType
      /\ RunType /\ SwitchType /\ FlashType
      /\ BufferBounded /\ NvmsOpen /\ RetriesLeft
  BY DEF IInv, TypeOK
<1>1. /\ Receiving /\ state = "W4_IMAGE_DATA" /\ buffer' = <<>> /\ nvms \in Slots
  BY <1>0 DEF HandleImageData, Handle, Receiving, NvmsOpen
<1>2. Pulled \in 0..Len(line)-taken /\ Filled \in Seq(Byte) /\ Len(Filled) <= ExpectedLen
  BY <1>0, <1>1, FilledType
<1>3. Len(Filled) \in Nat /\ Len(Filled) <= BUF /\ Len(Filled) < U32
  <2>1. ExpectedLen \in Nat /\ ExpectedLen <= BUF
    BY <1>0, <1>1, ExpectedLenType, SizesAssumption DEF ExpectedLen, MinOf
  <2> QED
    BY <1>2, <2>1, SizesAssumption
<1>4. p.cells \in Cells /\ p.erase \in 0..U32-1
  BY <1>0, <1>1, <1>3, PrepareType
<1> HIDE DEF p
<1>5. a \in Nat
  BY <1>0 DEF CounterType
<1>6. fits \in Int /\ -1 <= fits /\ fits <= Len(Filled)
  BY <1>3, <1>5, FitType
<1>8. /\ UNCHANGED <<alloc, cbs, torn_base, line, recv_total_len, recv_hdr_ext_len, header, nvms,
                     chunk_len, patch_len, external_status, ph_buffer, retry_cnt, ph, resets, out>>
      /\ flash_erase_addr' = p.erase
  BY DEF HandleImageData, p
<1>9. SwitchType'
  BY <1>0, <1>8 DEF SwitchType
<1>10. CASE \E s \in {Filled, [Filled EXCEPT ![1] = Garbage]} :
          /\ fits = Len(Filled)
          /\ \/ s = Filled /\ UNCHANGED faults
             \/ s # Filled /\ faults < MaxFaults /\ faults' = faults + 1
          /\ flash' = [flash EXCEPT ![nvms] = Program(p.cells, a, s)]
          /\ flash_write_addr' = Add32(a, Len(Filled))
          /\ image_crc' = image_crc \o ReadBack(flash'[nvms], a, Filled)
          /\ recv_image_len' = Add32(recv_image_len, Len(Filled))
          /\ state' = IF recv_image_len' = Hdr.size THEN "DONE" ELSE state
          /\ Iterated(Pulled, TRUE)
  <2>1. PICK s \in {Filled, [Filled EXCEPT ![1] = Garbage]} :
          /\ flash' = [flash EXCEPT ![nvms] = Program(p.cells, a, s)]
          /\ \/ UNCHANGED faults
             \/ faults < MaxFaults /\ faults' = faults + 1
    BY <1>10
  <2>2. fits = Len(Filled)
    BY <1>10
  <2>3. s \in Seq(Byte) /\ Len(s) = Len(Filled)
    BY <1>2, <1>3, <2>1, DataAssumption
  <2>4. Program(p.cells, a, s) \in Cells
    BY <1>4, <1>5, <2>3, ProgramType
  <2>5. FlashType' /\ flash'[nvms] \in Cells
    BY <1>0, <1>1, <1>8, <2>1, <2>4, SizesAssumption DEF FlashType
  <2>6. Len(Filled) = 0 \/ a + Len(Filled) <= PART_SIZE
    BY <1>3, <1>5, <2>2, SizesAssumption DEF Fit, MinOf
  <2>7. ReadBack(flash'[nvms], a, Filled) \in Seq(Byte)
    <3>1. CASE Len(Filled) = 0
      BY <1>5, <2>5, <3>1 DEF ReadBack, Bytes
    <3>2. CASE a + Len(Filled) <= PART_SIZE
      BY <1>3, <1>5, <2>5, <3>2, BytesType DEF ReadBack
    <3> QED
      BY <2>6, <3>1, <3>2
  <2> DEFINE back == ReadBack(flash'[nvms], a, Filled)
  <2>8. image_crc' = image_crc \o back /\ header' = header /\ Iterated(Pulled, TRUE)
        /\ state' \in {state, "DONE"}
    BY <1>8, <1>10
  <2>9. CounterType'
    <3>1. Len(Filled) \in 0..U32-1
      BY <1>3, SizesAssumption
    <3>2. Add32(a, Len(Filled)) \in 0..U32-1 /\ Add32(recv_image_len, Len(Filled)) \in 0..U32-1
      BY <1>0, <3>1, Add32Type DEF CounterType
    <3> QED
      BY <1>0, <1>4, <1>8, <1>10, <3>2 DEF CounterType
  <2> HIDE DEF back
  <2>10. BufferType'
    <3>1. back \in Seq(Byte \cup {Flip})
      BY <2>7 DEF back
    <3> QED
      BY <1>0, <1>1, <1>8, <2>8, <3>1, EmptyType DEF BufferType
  <2>11. LineType' /\ ret' \in BOOLEAN /\ pc' \in {"patch", "chunk"}
    BY <1>0, <1>2, <1>8, <2>8, IteratedType
  <2>12. FlagType' /\ StateType' /\ RunType'
    BY <1>0, <1>8, <2>8, <2>11 DEF FlagType, StateType, RunType
  <2>13. NvmsOpen' /\ RetriesLeft'
    BY <1>1, <1>8, <2>11 DEF NvmsOpen, RetriesLeft
  <2>14. BufferBounded'
    BY <1>1, <2>9, <2>10, EmptyBufferBounded
  <2> QED
    BY <1>9, <2>5, <2>9, <2>10, <2>11, <2>12, <2>13, <2>14 DEF IInv, TypeOK
<1>11. CASE \E n \in -1..BUF :
          /\ \/ n = fits /\ fits < Len(Filled) /\ UNCHANGED faults
             \/ n <= fits /\ faults < MaxFaults /\ faults' = faults + 1
          /\ flash' = [flash EXCEPT ![nvms] = Program(p.cells, a, SubSeq(Filled, 1, n))]
          /\ Iterated(Pulled, FALSE)
          /\ UNCHANGED <<flash_write_addr, image_crc, recv_image_len, state>>
  <2>1. PICK n \in -1..BUF :
          /\ \/ n = fits /\ fits < Len(Filled) /\ UNCHANGED faults
             \/ n <= fits /\ faults < MaxFaults /\ faults' = faults + 1
          /\ flash' = [flash EXCEPT ![nvms] = Program(p.cells, a, SubSeq(Filled, 1, n))]
    BY <1>11
  <2>2. Iterated(Pulled, FALSE) /\ UNCHANGED <<flash_write_addr, image_crc, recv_image_len, state>>
    BY <1>11
  <2>3. n <= Len(Filled)
    BY <1>3, <1>6, <2>1
  <2>4. Program(p.cells, a, SubSeq(Filled, 1, n)) \in Cells
    <3>1. SubSeq(Filled, 1, n) \in Seq(Byte)
      BY <1>2, <2>3, PrefixType
    <3> QED
      BY <1>4, <1>5, <3>1, ProgramType
  <2>5. FlashType'
    BY <1>0, <1>1, <1>8, <2>1, <2>4, SizesAssumption DEF FlashType
  <2>6. CounterType'
    BY <1>0, <1>4, <1>8, <2>2 DEF CounterType
  <2>7. BufferType'
    BY <1>0, <1>1, <1>8, <2>2, EmptyType DEF BufferType
  <2>8. LineType' /\ ret' \in BOOLEAN /\ pc' \in {"patch", "chunk"}
    BY <1>0, <1>2, <1>8, <2>2, IteratedType
  <2>9. FlagType' /\ StateType' /\ RunType'
    BY <1>0, <1>8, <2>2, <2>8 DEF FlagType, StateType, RunType
  <2>10. NvmsOpen' /\ RetriesLeft'
    BY <1>0, <1>8, <2>2, <2>8 DEF NvmsOpen, RetriesLeft
  <2>11. BufferBounded'
    BY <1>1, <2>6, <2>7, EmptyBufferBounded
  <2> QED
    BY <1>9, <2>5, <2>6, <2>7, <2>8, <2>9, <2>10, <2>11 DEF IInv, TypeOK
<1> QED
  BY <1>10, <1>11 DEF HandleImageData, p

-----------------------------------------------------------------------------
(* The switch of the product header, and the resets.                       *)

LEMMA SwitchIInv ==
  ASSUME IInv, WriteFwHeader \/ ReadProductHeader \/ WriteBackup \/ WritePrimary
  PROVE  IInv'
<1> USE DEF recvVars, addrVars, imgVars, chunkVars, loopVars, phVars, failVars, endUnchanged, Reply
<1>0. /\ FlagType /\ StateType /\ BufferType /\ CounterType /\ LineType
      /\ RunType /\ SwitchType /\ FlashType
      /\ BufferBounded /\ NvmsOpen /\ RetriesLeft
  BY DEF IInv, TypeOK
<1> DEFINE Kept == UNCHANGED <<state, alloc, buffer, recv_total_len, recvVars, addrVars, imgVars,
                               chunkVars, external_status, loopVars>>
<1>1. Kept => /\ StateType' /\ BufferType' /\ CounterType' /\ LineType'
              /\ ret' \in BOOLEAN /\ alloc' \in BOOLEAN /\ cbs' \in BOOLEAN
  BY <1>0 DEF FlagType, StateType, BufferType, CounterType, LineType
<1>2. Kept => BufferBounded'
  BY <1>0 DEF BufferBounded, Receiving, ExpectedLen, Hdr
<1>3. Kept
  BY DEF WriteFwHeader, ReadProductHeader, WriteBackup, WritePrimary, WriteProductHeader
<1>4. SUFFICES torn_base' \in BOOLEAN /\ RunType' /\ SwitchType' /\ FlashType' /\ NvmsOpen' /\ RetriesLeft'
  BY <1>1, <1>2, <1>3 DEF IInv, TypeOK, FlagType
<1>5. CASE WriteFwHeader
  <2>1. \A s \in Seq(Byte) : nvms # None => Program(flash[nvms], 0, s) \in Cells
    BY <1>0, ProgramType DEF FlashType, StateType
  <2>2. header \in Seq(Byte) /\ Len(header) = HDR
    BY <1>0, SizesAssumption DEF BufferType
  <2>3. \A n \in 0..HDR-1 : SubSeq(header, 1, n) \in Seq(Byte)
    BY <2>2, PrefixType, SizesAssumption
  <2>4. flash' \in [Slots -> Cells]
    BY <1>0, <1>5, <2>1, <2>2, <2>3 DEF WriteFwHeader, StateType, FlashType
  <2>5. FlashType'
    BY <1>0, <1>5, <2>4, SizesAssumption DEF WriteFwHeader, FlashType
  <2>6. RunType'
    BY <1>0, <1>5, RepliesType DEF WriteFwHeader, SwitchFails, RunType
  <2>7. SwitchType' /\ NvmsOpen' /\ RetriesLeft'
    BY <1>0, <1>5 DEF WriteFwHeader, SwitchFails, SwitchType, StateType, NvmsOpen, RetriesLeft
  <2> QED
    BY <1>0, <1>5, <2>5, <2>6, <2>7 DEF WriteFwHeader, FlagType
<1>6. CASE ReadProductHeader
  <2>1. torn_base' \in BOOLEAN
    BY <1>0, <1>6 DEF ReadProductHeader, FlagType
  <2>2. RunType'
    BY <1>0, <1>6, RepliesType DEF ReadProductHeader, SwitchFails, RunType
  <2>3. FlashType'
    BY <1>0, <1>6, SizesAssumption DEF ReadProductHeader, FlashType
  <2>4. Stamp(ph["primary"]) \in ProductHeaders
    BY <1>0, <1>6 DEF ReadProductHeader, NvmsOpen, Stamp, SwitchType, Copies, ProductHeaders
  <2>5. SwitchType'
    BY <1>0, <1>6, <2>4, SizesAssumption DEF ReadProductHeader, SwitchType
  <2>6. NvmsOpen' /\ RetriesLeft'
    BY <1>0, <1>6, SizesAssumption DEF ReadProductHeader, SwitchFails, NvmsOpen, RetriesLeft
  <2> QED
    BY <2>1, <2>2, <2>3, <2>5, <2>6
<1>7. ASSUME NEW c \in Copies,
             \/ WriteBackup /\ c = "backup"
             \/ WritePrimary /\ c = "primary"
      PROVE  torn_base' \in BOOLEAN /\ RunType' /\ SwitchType' /\ FlashType' /\ NvmsOpen' /\ RetriesLeft'
  <2> DEFINE tried == /\ ph' = [ph EXCEPT ![c] = ph_buffer] /\ retry_cnt' = 0 /\ UNCHANGED faults
                      /\ \/ pc' = "wr_primary" /\ UNCHANGED out
                         \/ Reply(<<"CMP_OK", "OK">>)
             missed == /\ faults < MaxFaults /\ faults' = faults + 1
                       /\ \E q \in Torn(ph[c], ph_buffer) \cup {ph[c], ph_buffer} :
                            ph' = [ph EXCEPT ![c] = q]
                       /\ retry_cnt' = retry_cnt + 1
                       /\ IF retry_cnt' < TRIES THEN UNCHANGED <<pc, out>> ELSE SwitchFails
             refused == /\ faults < MaxFaults /\ faults' = faults + 1
                        /\ SwitchFails /\ UNCHANGED <<ph, retry_cnt>>
  <2>1. tried \/ missed \/ refused
    BY <1>7 DEF WriteBackup, WritePrimary, WriteProductHeader
  <2>2. UNCHANGED <<ph_buffer, torn_base, flash, resets, nvms, state>> /\ pc \in {"wr_backup", "wr_primary"}
    BY <1>3, <1>7 DEF WriteBackup, WritePrimary, WriteProductHeader
  <2>3. torn_base' \in BOOLEAN
    BY <1>0, <2>2 DEF FlagType
  <2>4. nvms' \in Slots
    BY <1>0, <2>2 DEF NvmsOpen
  <2>5. ph[c] \in ProductHeaders /\ ph_buffer \in ProductHeaders
    BY <1>0 DEF SwitchType
  <2>6. Torn(ph[c], ph_buffer) \subseteq ProductHeaders
    BY <2>5 DEF Torn, ProductHeaders
  <2>7. retry_cnt \in 0..TRIES /\ retry_cnt < TRIES
    BY <1>0, <2>2 DEF RetriesLeft, SwitchType
  <2>8. CASE tried
    <3>1. RunType'
      BY <1>0, <2>8, RepliesType DEF RunType
    <3>2. SwitchType' /\ FlashType'
      BY <1>0, <2>2, <2>5, <2>8, SizesAssumption DEF SwitchType, FlashType
    <3>3. NvmsOpen' /\ RetriesLeft'
      BY <2>4, <2>8, SizesAssumption DEF NvmsOpen, RetriesLeft
    <3> QED
      BY <2>3, <3>1, <3>2, <3>3
  <2>9. CASE missed
    <3>1. RunType'
      BY <1>0, <2>9, RepliesType DEF RunType, SwitchFails
    <3>2. ph' \in [Copies -> ProductHeaders]
      BY <1>0, <2>5, <2>6, <2>9 DEF SwitchType
    <3>3. SwitchType' /\ FlashType'
      BY <1>0, <2>2, <2>7, <2>9, <3>2, SizesAssumption DEF SwitchType, FlashType
    <3>4. NvmsOpen' /\ RetriesLeft'
      BY <2>2, <2>4, <2>7, <2>9, SizesAssumption DEF NvmsOpen, RetriesLeft, SwitchFails
    <3> QED
      BY <2>3, <3>1, <3>3, <3>4
  <2>10. CASE refused
    <3>1. RunType'
      BY <1>0, <2>10, RepliesType DEF RunType, SwitchFails
    <3>2. SwitchType' /\ FlashType'
      BY <1>0, <2>2, <2>10, SizesAssumption DEF SwitchType, FlashType
    <3>3. NvmsOpen' /\ RetriesLeft'
      BY <2>4, <2>10, SizesAssumption DEF NvmsOpen, RetriesLeft, SwitchFails
    <3> QED
      BY <2>3, <3>1, <3>2, <3>3
  <2> QED
    BY <2>1, <2>8, <2>9, <2>10
<1>8. "backup" \in Copies /\ "primary" \in Copies
  BY DEF Copies
<1> QED
  BY <1>5, <1>6, <1>7, <1>8

LEMMA ResetIInv ==
  ASSUME IInv, MemDevReboot \/ PowerLoss
  PROVE  IInv'
<1>0. /\ FlagType /\ SwitchType /\ FlashType
  BY DEF IInv, TypeOK
<1>1. Reset /\ UNCHANGED <<flash, faults, torn_base>> /\ resets < MaxResets /\ resets' = resets + 1
  BY DEF MemDevReboot, PowerLoss
<1>2. FlagType' /\ StateType'
  BY <1>0, <1>1 DEF Reset, FlagType, StateType
<1>3. BufferType'
  BY <1>1, DataAssumption DEF Reset, BufferType
<1>4. CounterType' /\ LineType'
  BY <1>1, SizesAssumption DEF Reset, CounterType, LineType
<1>5. RunType' /\ FlashType'
  BY <1>0, <1>1, RepliesType, SizesAssumption DEF Reset, RunType, FlashType
<1>6. ph' \in [Copies -> ProductHeaders]
  <2>1. \A c \in Copies : ph[c] \in ProductHeaders /\ ph_buffer \in ProductHeaders
    BY <1>0 DEF SwitchType
  <2>2. \A c \in Copies : Torn(ph[c], ph_buffer) \subseteq ProductHeaders
    BY <2>1 DEF Torn, ProductHeaders
  <2>3. \/ UNCHANGED ph
        \/ \E c \in Copies : \E q \in Torn(ph[c], ph_buffer) : ph' = [ph EXCEPT ![c] = q]
    BY DEF MemDevReboot, PowerLoss, Copies
  <2> QED
    BY <1>0, <2>2, <2>3 DEF SwitchType
<1>7. SwitchType'
  BY <1>1, <1>6, FactoryAssumption, SizesAssumption DEF Reset, SwitchType
<1>8. BufferBounded' /\ NvmsOpen' /\ RetriesLeft'
  BY <1>1 DEF Reset, BufferBounded, Receiving, NvmsOpen, RetriesLeft
<1> QED
  BY <1>2, <1>3, <1>4, <1>5, <1>7, <1>8 DEF IInv, TypeOK

LEMMA BootIInv ==
  ASSUME IInv, Boot
  PROVE  IInv'
<1> USE DEF ramVars
<1>0. /\ FlagType /\ StateType /\ BufferType /\ CounterType /\ LineType
      /\ RunType /\ SwitchType /\ FlashType
      /\ BufferBounded /\ NvmsOpen /\ RetriesLeft
  BY DEF IInv, TypeOK
<1>1. Loaded \in [Copies -> ProductHeaders]
  <2>1. BootCopy(ph) \in ProductHeaders
    BY <1>0 DEF SwitchType, BootCopy, Copies
  <2>2. [BootCopy(ph) EXCEPT !.active = BootCopy(ph).update] \in ProductHeaders
    BY <2>1 DEF ProductHeaders
  <2> QED
    BY <1>0, <2>2 DEF Loaded, SwitchType
<1>2. ph' \in [Copies -> ProductHeaders] /\ pc' \in {"ready", "fault", "dead"}
  BY <1>0, <1>1 DEF Boot, SwitchType
<1>3. FlagType' /\ StateType' /\ BufferType' /\ CounterType' /\ LineType' /\ FlashType'
  BY <1>0 DEF Boot, FlagType, StateType, BufferType, CounterType, LineType, FlashType
<1>4. RunType' /\ SwitchType'
  BY <1>0, <1>2 DEF Boot, RunType, SwitchType
<1>5. BufferBounded'
  BY <1>0 DEF Boot, BufferBounded, Receiving, ExpectedLen, Hdr
<1>6. NvmsOpen' /\ RetriesLeft'
  BY <1>0, <1>2 DEF Boot, NvmsOpen, RetriesLeft
<1> QED
  BY <1>3, <1>4, <1>5, <1>6 DEF IInv, TypeOK

LEMMA StutterIInv ==
  ASSUME IInv, UNCHANGED vars
  PROVE  IInv'
BY DEF vars, ramVars, IInv, TypeOK, FlagType, StateType, BufferType, CounterType, LineType,
       RunType, SwitchType, FlashType, BufferBounded, Receiving, ExpectedLen, Hdr, NvmsOpen,
       RetriesLeft

(* Every step keeps the invariant, whichever action it is.                 *)
LEMMA StepIInv == IInv /\ [Next]_vars => IInv'
<1> SUFFICES ASSUME IInv, [Next]_vars PROVE IInv'
  OBVIOUS
<1>1. CASE Command
  BY <1>1, CommandsIInv, ResetIInv DEF Command
<1>2. CASE Work
  BY <1>2, LoopIInv, PullShortIInv, HandleHeaderIInv, HandleHeaderExtIInv, HandleImageDataIInv,
     SwitchIInv DEF Work
<1>3. CASE PowerLoss \/ Boot
  BY <1>3, ResetIInv, BootIInv
<1>4. CASE UNCHANGED vars
  BY <1>4, StutterIInv
<1> QED
  BY <1>1, <1>2, <1>3, <1>4 DEF Next

(* Type correctness of the service, for every header size, slot size, line *)
(* and sequence of failures.                                               *)
THEOREM TypeCorrect == Spec => []TypeOK
<1>1. Init => IInv
  BY InitIInv
<1>2. IInv /\ [Next]_vars => IInv'
  BY StepIInv
<1>3. IInv => TypeOK
  BY DEF IInv
<1> QED
  BY <1>1, <1>2, <1>3, PTL DEF Spec

(* The OS_ASSERT of suouart_pull_to_buffer can not fail.                   *)
THEOREM BufferNeverOverfull == Spec => []BufferBounded
<1>1. Init => IInv
  BY InitIInv
<1>2. IInv /\ [Next]_vars => IInv'
  BY StepIInv
<1>3. IInv => BufferBounded
  BY DEF IInv
<1> QED
  BY <1>1, <1>2, <1>3, PTL DEF Spec

=============================================================================
