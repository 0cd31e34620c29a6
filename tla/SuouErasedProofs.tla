-------------------------- MODULE SuouErasedProofs --------------------------
(***************************************************************************)
(* "Assume everything prior to this address is erased": proof that the     *)
(* service never programs a byte of the flash over an old one, as long as  *)
(* no operation of the flash has failed, for images made by mkimage and    *)
(* clients that select no other memory device.                             *)
(***************************************************************************)
EXTENDS SuouImageProofs

(* The erase address starts at zero, and the header of the image, which is *)
(* written last, lies behind the write address or behind all that matters. *)
FreshErase == state = "W4_HEADER" => flash_erase_addr = 0
HeaderPassed ==
  state \in {"W4_HEADER_EXT", "W4_IMAGE_DATA"} =>
    flash_erase_addr <= flash_write_addr \/ HDR <= flash_write_addr

ErasedInv == ErasedAhead /\ FreshErase /\ HeaderPassed

-----------------------------------------------------------------------------
(* What suouart_prepare_flash leaves ahead of the write address.           *)

LEMMA SameSector ==
  ASSUME NEW e \in Nat, NEW x \in Nat, SectorOf(e) = e, e <= x, x < e + SECTOR
  PROVE  SectorOf(x) = e
<1>1. SECTOR \in Nat /\ SECTOR > 0
  BY SizesAssumption
<1>2. PICK q \in Nat : e = q * SECTOR
  <2>1. e % SECTOR = 0
    BY <1>1 DEF SectorOf
  <2>2. e \div SECTOR \in Nat /\ e = (e \div SECTOR) * SECTOR + (e % SECTOR)
    BY <1>1, Division
  <2>3. PICK q \in Nat : q = e \div SECTOR
    BY <2>2
  <2> QED
    BY <2>1, <2>2, <2>3, <1>1
<1>3. PICK r \in Nat, m \in Nat : x = r * SECTOR + m /\ m = x % SECTOR
  <2>1. x % SECTOR \in Nat
    BY <1>1
  <2> QED
    BY <1>1, <2>1, Division
<1>4. m < SECTOR
  BY <1>1, <1>3
<1>5. PICK d \in Int : d = r - q
  OBVIOUS
<1>6. d * SECTOR = r * SECTOR - q * SECTOR
  BY <1>1, <1>5
<1>7. d * SECTOR < SECTOR /\ -SECTOR < d * SECTOR
  <2>1. PICK rs \in Int, qs \in Int : rs = r * SECTOR /\ qs = q * SECTOR
    BY <1>1
  <2> QED
    BY <1>1, <1>2, <1>3, <1>4, <1>6, <2>1
<1>8. d = 0
  <2>1. CASE d >= 1
    BY <1>1, <1>7, <2>1
  <2>2. CASE d <= -1
    BY <1>1, <1>7, <2>2
  <2> QED
    BY <2>1, <2>2
<1>9. x = e + m
  BY <1>2, <1>3, <1>5, <1>8
<1> QED
  BY <1>3, <1>9 DEF SectorOf

LEMMA PrepareErases ==
  ASSUME CounterType, FlashType, NEW p \in Slots, NEW n \in Nat, n <= BUF,
         0 < flash_write_addr + n, flash_write_addr + n <= PART_SIZE,
         flash_write_addr <= flash_erase_addr,
         SectorOf(flash_erase_addr) = flash_erase_addr,
         \A x \in 0..PART_SIZE-1 :
           flash_write_addr <= x /\ x < flash_erase_addr => flash[p][x] = Erased
  PROVE  \A x \in 0..PART_SIZE-1 :
           flash_write_addr <= x /\ x < Prepare(p, n).erase => Prepare(p, n).cells[x] = Erased
<1> DEFINE a == flash_write_addr
           e == flash_erase_addr
           end == Sub32(Add32(a, n), 1)
           sector == {x \in 0..PART_SIZE-1 : e <= x /\ x < e + SECTOR}
           erased == EraseRegion(flash[p], e, end - e + 1)
<1>1. a \in Nat /\ e \in Nat /\ a + n < U32 /\ e < U32
  BY SizesAssumption DEF CounterType
<1>2. end = a + n - 1 /\ end \in Nat
  BY <1>1, SizesAssumption DEF Add32, Sub32
<1>3. Prepare(p, n) = IF end < e THEN [cells |-> flash[p], erase |-> e]
                      ELSE [cells |-> IF \A x \in sector : flash[p][x] = Erased THEN flash[p]
                                      ELSE erased,
                            erase |-> NextSector(end + 1) % U32]
  BY DEF Prepare
<1>4. ASSUME NEW x \in 0..PART_SIZE-1
      PROVE  erased[x] = IF e <= x /\ SectorOf(x) <= e + (end - e + 1) - 1 THEN Erased ELSE flash[p][x]
  BY DEF EraseRegion
<1> HIDE DEF end, sector, erased
<1>5. CASE end < e
  BY <1>3, <1>5
<1>6. CASE ~(end < e)
  <2>1. SectorOf(end + 1) = e
    <3>1. end + 1 \in Nat /\ e <= end + 1 /\ end + 1 < e + SECTOR
      BY <1>1, <1>2, <1>6, SizesAssumption
    <3> QED
      BY <1>1, <3>1, SameSector
  <2>2. Prepare(p, n).erase = e + SECTOR
    <3>1. e + SECTOR \in Nat /\ e + SECTOR < U32
      BY <1>1, <1>2, <1>6, SizesAssumption
    <3>2. (e + SECTOR) % U32 = e + SECTOR
      BY <3>1, SizesAssumption
    <3> QED
      BY <1>3, <1>6, <2>1, <3>2 DEF NextSector
  <2>3. ASSUME NEW x \in 0..PART_SIZE-1, a <= x, x < e + SECTOR
        PROVE  Prepare(p, n).cells[x] = Erased
    <3>1. CASE x < e
      BY <1>3, <1>4, <1>6, <2>3, <3>1
    <3>2. CASE e <= x
      <4>1. x \in Nat /\ SectorOf(x) = e
        <5>1. x \in Nat
          BY SizesAssumption
        <5> QED
          BY <1>1, <2>3, <3>2, <5>1, SameSector
      <4>2. e <= e + (end - e + 1) - 1
        BY <1>1, <1>2, <1>6
      <4>3. erased[x] = Erased
        BY <1>4, <3>2, <4>1, <4>2
      <4>4. x \in sector
        BY <2>3, <3>2 DEF sector
      <4> QED
        BY <1>3, <1>6, <4>3, <4>4
    <3> QED
      BY <1>1, <3>1, <3>2, SizesAssumption
  <2> QED
    BY <2>2, <2>3
<1> QED
  BY <1>5, <1>6

-----------------------------------------------------------------------------
(* The steps.                                                              *)

(* Nothing is claimed of the states in which no image is written.          *)
LEMMA IdleErased ==
  ASSUME state' \notin {"W4_HEADER_EXT", "W4_IMAGE_DATA"}, FreshErase'
  PROVE  ErasedInv'
BY DEF ErasedInv, ErasedAhead, HeaderPassed

(* A step that leaves alone the state, the addresses and the flash.        *)
erasedState == <<state, nvms, flash_write_addr, flash_erase_addr, flash>>

LEMMA KeptErased ==
  ASSUME ErasedInv, UNCHANGED erasedState, faults' = 0 => faults = 0
  PROVE  ErasedInv'
BY DEF erasedState, ErasedInv, ErasedAhead, FreshErase, HeaderPassed

LEMMA CommandsErased ==
  ASSUME OtherDevs = FALSE, IInv, ErasedInv, Command
  PROVE  ErasedInv'
<1> USE DEF recvVars, addrVars, imgVars, chunkVars, phVars, failVars, Reply
<1>1. CASE MemDevReboot
  BY <1>1, IdleErased DEF MemDevReboot, Reset, FreshErase
<1>2. CASE MemDevStart
  <2>1. /\ flash_write_addr' = 0 /\ flash_erase_addr' = 0 /\ UNCHANGED <<nvms, flash, faults>>
    BY <1>2 DEF MemDevStart
  <2>2. ErasedAhead'
    BY <2>1, SizesAssumption DEF ErasedAhead
  <2> QED
    BY <2>1, <2>2 DEF ErasedInv, FreshErase, HeaderPassed
<1>3. CASE ~MemDevReboot /\ ~MemDevStart
  <2>1. UNCHANGED erasedState /\ UNCHANGED faults
    BY <1>3 DEF Command, WriteStatus, PatchLenWrite, PatchData, MemDevOther, MemDevExit,
                MemDevEnd, erasedState
  <2> QED
    BY <2>1, KeptErased
<1> QED
  BY <1>1, <1>2, <1>3

LEMMA LoopErased ==
  ASSUME ErasedInv, \/ PatchRefused \/ PatchIgnored \/ PullShort
                    \/ ChunkAdd \/ ChunkNotify \/ PatchReturn
  PROVE  ErasedInv'
<1>1. UNCHANGED erasedState /\ UNCHANGED faults
  BY DEF PatchRefused, PatchIgnored, PullShort, ChunkAdd, ChunkNotify, PatchReturn,
         iterUnchanged, chunkUnchanged, recvVars, addrVars, imgVars, phVars, failVars, erasedState
<1> QED
  BY <1>1, KeptErased

(* A write of the copies of the product header leaves the image alone.     *)
LEMMA SwitchErased ==
  ASSUME IInv, ErasedInv, ReadProductHeader \/ WriteBackup \/ WritePrimary
  PROVE  ErasedInv'
<1>1. UNCHANGED erasedState
  BY DEF ReadProductHeader, WriteBackup, WritePrimary, WriteProductHeader, endUnchanged,
         recvVars, addrVars, imgVars, erasedState
<1>2. faults' = faults \/ faults' = faults + 1
  BY DEF ReadProductHeader, WriteBackup, WritePrimary, WriteProductHeader
<1>3. faults \in Nat
  BY SizesAssumption DEF IInv, TypeOK, FlashType
<1>4. faults' = 0 => faults = 0
  BY <1>2, <1>3
<1> QED
  BY <1>1, <1>4, KeptErased

(* The header is written before the cells that are still to be written.    *)
LEMMA WriteFwHeaderErased ==
  ASSUME IInv, ErasedInv, WriteFwHeader
  PROVE  ErasedInv'
<1>1. /\ UNCHANGED <<state, nvms, flash_write_addr, flash_erase_addr>>
      /\ pc = "wr_header"
  BY DEF WriteFwHeader, endUnchanged, recvVars, addrVars, imgVars
<1>2. faults' = faults \/ faults' = faults + 1
  BY DEF WriteFwHeader
<1>3. faults \in Nat
  BY SizesAssumption DEF IInv, TypeOK, FlashType
<1>4. faults' = 0 => faults = 0
  BY <1>2, <1>3
<1>5. CASE UNCHANGED flash
  BY <1>1, <1>4, <1>5, KeptErased DEF erasedState
<1>6. CASE \E s \in Seq(Byte) : /\ nvms # None /\ Len(s) <= HDR
                                /\ flash' = [flash EXCEPT ![nvms] = Program(@, 0, s)]
  <2>1. PICK s \in Seq(Byte) : /\ nvms # None /\ Len(s) <= HDR
                               /\ flash' = [flash EXCEPT ![nvms] = Program(@, 0, s)]
    BY <1>6
  <2>2. nvms \in Slots /\ flash \in [Slots -> Cells] /\ flash[nvms] \in Cells
    BY <2>1 DEF IInv, TypeOK, FlashType, StateType
  <2>3. flash'[nvms] = Program(flash[nvms], 0, s)
    BY <2>1, <2>2
  <2>4. flash_write_addr \in Nat /\ flash_erase_addr \in Nat /\ Len(s) \in Nat
    BY LenProperties, SizesAssumption DEF IInv, TypeOK, CounterType
  <2>5. ASSUME faults = 0, state \in {"W4_HEADER_EXT", "W4_IMAGE_DATA"},
               NEW x \in 0..PART_SIZE-1, flash_write_addr <= x, x < flash_erase_addr
        PROVE  flash'[nvms][x] = Erased
    <3>1. flash[nvms][x] = Erased
      BY <2>1, <2>5 DEF ErasedInv, ErasedAhead
    <3>2. 0 + Len(s) <= x
      BY <2>1, <2>4, <2>5, SizesAssumption DEF ErasedInv, HeaderPassed
    <3>3. Program(flash[nvms], 0, s)[x] = flash[nvms][x]
      BY <2>2, <3>2, ProgramKeeps
    <3> QED
      BY <2>3, <3>1, <3>3
  <2>6. ErasedAhead'
    BY <1>1, <1>4, <2>5 DEF ErasedAhead
  <2> QED
    BY <1>1, <2>6 DEF ErasedInv, FreshErase, HeaderPassed
<1> QED
  <2>1. header \in [1..HDR -> Byte] /\ HDR \in Nat
    BY SizesAssumption DEF IInv, TypeOK, BufferType
  <2>2. header \in Seq(Byte) /\ Len(header) <= HDR
    <3>1. header \in Seq(Byte) /\ Len(header) = HDR
      BY <2>1
    <3> QED
      BY <2>1, <3>1
  <2>3. ASSUME NEW n \in 0..HDR-1
        PROVE  SubSeq(header, 1, n) \in Seq(Byte) /\ Len(SubSeq(header, 1, n)) <= HDR
    <3>1. \A k \in 1..n : header[k] \in Byte
      BY <2>1
    <3> QED
      BY <2>1, <2>3, <3>1, SubSeqProperties
  <2> QED
    BY <1>5, <1>6, <2>2, <2>3 DEF WriteFwHeader

(* The first write: the sectors that the header will take are erased.      *)
LEMMA HandleHeaderErased ==
  ASSUME IInv, ImgInv, ErasedInv, HandleHeader
  PROVE  ErasedInv'
<1> DEFINE p == Prepare(UpdateSlot, HDR)
<1>1. pc = "patch" /\ state = "W4_HEADER" /\ alloc /\ UNCHANGED faults
  BY DEF HandleHeader, Handle, ImgInv, Addresses
<1>2. /\ flash_write_addr = 0 /\ flash_erase_addr = 0
      /\ SectorOf(flash_erase_addr) = flash_erase_addr
  BY <1>1 DEF ErasedInv, FreshErase, ImgInv, Addresses, Receiving
<1>3. CASE state' \in {"ERROR", "W4_HEADER"} /\ UNCHANGED addrVars
  BY <1>2, <1>3, IdleErased DEF FreshErase, addrVars
<1>4. CASE /\ nvms' = UpdateSlot /\ nvms' # None
           /\ flash' = [flash EXCEPT ![UpdateSlot] = p.cells]
           /\ flash_erase_addr' = p.erase
           /\ flash_write_addr' = Add32(flash_write_addr, HDR)
           /\ state' = "W4_HEADER_EXT"
  <2>1. UpdateSlot \in Slots
    BY <1>4, UpdateSlotType DEF IInv, TypeOK
  <2>2. HDR \in Nat /\ HDR <= BUF /\ 0 < 0 + HDR /\ 0 + HDR <= PART_SIZE
    BY SizesAssumption
  <2>3. \A x \in 0..PART_SIZE-1 : 0 <= x /\ x < p.erase => p.cells[x] = Erased
    <3>1. \A x \in 0..PART_SIZE-1 : 0 <= x /\ x < 0 => flash[UpdateSlot][x] = Erased
      BY SizesAssumption
    <3> QED
      BY <1>2, <2>1, <2>2, <3>1, PrepareErases DEF IInv, TypeOK
  <2> HIDE DEF p
  <2>4. flash_write_addr' = HDR
    BY <1>2, <1>4, SizesAssumption DEF Add32
  <2>5. flash'[nvms'] = p.cells
    BY <1>4, <2>1 DEF IInv, TypeOK, FlashType
  <2>6. ErasedAhead'
    <3>1. \A x \in 0..PART_SIZE-1 : HDR <= x => 0 <= x
      BY SizesAssumption
    <3> QED
      BY <1>4, <2>3, <2>4, <2>5, <3>1 DEF ErasedAhead
  <2> QED
    BY <1>4, <2>2, <2>4, <2>6 DEF ErasedInv, FreshErase, HeaderPassed
<1> QED
  BY <1>1, <1>3, <1>4 DEF HandleHeader, ErrorCb

(* A piece that is written ends where the next one begins.                 *)
LEMMA PieceErased ==
  ASSUME NEW c \in Cells, NEW a \in Nat, NEW e \in Nat, NEW s \in Seq(Byte),
         \A x \in 0..PART_SIZE-1 : a <= x /\ x < e => c[x] = Erased
  PROVE  \A x \in 0..PART_SIZE-1 : a + Len(s) <= x /\ x < e => Program(c, a, s)[x] = Erased
<1> TAKE x \in 0..PART_SIZE-1
<1>1. HAVE a + Len(s) <= x /\ x < e
<1>2. a <= x
  BY <1>1, LenProperties, SizesAssumption
<1>3. Program(c, a, s)[x] = c[x]
  BY <1>1, ProgramKeeps
<1> QED
  BY <1>1, <1>2, <1>3

(* The rest of the header, as much of it as the flash takes.               *)
LEMMA HandleHeaderExtErased ==
  ASSUME IInv, ImgInv, ErasedInv, HandleHeaderExt
  PROVE  ErasedInv'
<1> DEFINE a == flash_write_addr
           L == Len(Filled)
           p == Prepare(nvms, L)
<1>1. /\ state = "W4_HEADER_EXT" /\ nvms \in Slots /\ nvms' = nvms
      /\ flash_erase_addr' = p.erase /\ p.erase \in Nat /\ p.cells \in Cells
      /\ Filled \in Seq(Byte) /\ L \in Nat /\ L <= BUF
  BY HeaderExtStart
<1>2. /\ a \in Nat /\ a <= flash_erase_addr /\ SectorOf(flash_erase_addr) = flash_erase_addr
      /\ 0 < a + L /\ a + L <= PART_SIZE /\ HDR <= a
  <2>1. /\ a \in Nat /\ a <= flash_erase_addr /\ SectorOf(flash_erase_addr) = flash_erase_addr
        /\ Hdr.ivt \in Nat /\ Hdr.size \in Nat /\ Hdr.ivt + Hdr.size <= PART_SIZE
        /\ recv_hdr_ext_len \in Nat /\ a = HDR + recv_hdr_ext_len /\ a + L <= Hdr.ivt
    BY HeaderExtStart
  <2> QED
    BY <1>1, <2>1, SizesAssumption
<1>3. ASSUME faults = 0
      PROVE  \A x \in 0..PART_SIZE-1 : a <= x /\ x < p.erase => p.cells[x] = Erased
  <2>1. \A x \in 0..PART_SIZE-1 : a <= x /\ x < flash_erase_addr => flash[nvms][x] = Erased
    BY <1>1, <1>3, DataAssumption DEF ErasedInv, ErasedAhead
  <2> QED
    BY <1>1, <1>2, <2>1, PrepareErases DEF IInv, TypeOK
<1>4. flash \in [Slots -> Cells] /\ faults \in Nat
  BY SizesAssumption DEF IInv, TypeOK, FlashType
<1> HIDE DEF p, L
<1>5. PICK n \in -1..BUF :
        /\ n <= L
        /\ faults' = faults \/ faults' = faults + 1
        /\ flash' = [flash EXCEPT ![nvms] = Program(p.cells, a, SubSeq(Filled, 1, n))]
        /\ \/ n < 0 /\ UNCHANGED flash_write_addr /\ state' = state
           \/ n >= 0 /\ flash_write_addr' = Add32(a, n) /\ state' \in {state, "W4_IMAGE_DATA"}
  <2>1. Fit(a, L) \in Int /\ Fit(a, L) <= L
    BY <1>1, <1>2, FitType
  <2>2. PICK n \in -1..BUF :
          /\ \/ n = Fit(a, L) /\ UNCHANGED faults
             \/ n < Fit(a, L) /\ faults' = faults + 1
          /\ flash' = [flash EXCEPT ![nvms] = Program(p.cells, a, SubSeq(Filled, 1, n))]
          /\ IF n < 0 THEN UNCHANGED flash_write_addr /\ state' = state
             ELSE flash_write_addr' = Add32(a, n) /\ state' \in {state, "W4_IMAGE_DATA"}
    BY DEF HandleHeaderExt, L, p
  <2>3. n <= L
    BY <1>1, <2>1, <2>2, SizesAssumption
  <2>4. n < 0 \/ n >= 0
    BY <2>2, SizesAssumption
  <2> QED
    BY <2>2, <2>3, <2>4
<1> DEFINE s == SubSeq(Filled, 1, n)
<1>6. s \in Seq(Byte) /\ Len(s) = IF n < 0 THEN 0 ELSE n
  <2>1. \A k \in 1..n : Filled[k] \in Byte
    BY <1>1, <1>5, SizesAssumption DEF L
  <2> QED
    BY <1>1, <1>5, <2>1, SubSeqProperties, SizesAssumption
<1> HIDE DEF s
<1>7. flash_write_addr' = a + Len(s) /\ HDR <= flash_write_addr'
  <2>1. CASE n < 0
    BY <1>2, <1>5, <1>6, <2>1
  <2>2. CASE n >= 0
    <3>1. Add32(a, n) = a + n
      BY <1>1, <1>2, <1>5, <2>2, SizesAssumption DEF Add32
    <3> QED
      BY <1>2, <1>5, <1>6, <2>2, <3>1, SizesAssumption
  <2> QED
    BY <1>5, <2>1, <2>2, SizesAssumption
<1>8. flash'[nvms] = Program(p.cells, a, s)
  BY <1>1, <1>4, <1>5 DEF s
<1>9. faults' = 0 => faults = 0
  BY <1>4, <1>5
<1>10. ErasedAhead'
  <2>1. ASSUME faults = 0
        PROVE  \A x \in 0..PART_SIZE-1 :
                 a + Len(s) <= x /\ x < p.erase => flash'[nvms][x] = Erased
    <3>1. PICK c \in Cells, e \in Nat : c = p.cells /\ e = p.erase
      BY <1>1
    <3>2. \A x \in 0..PART_SIZE-1 : a <= x /\ x < e => c[x] = Erased
      BY <1>3, <2>1, <3>1
    <3>3. \A x \in 0..PART_SIZE-1 : a + Len(s) <= x /\ x < e => Program(c, a, s)[x] = Erased
      BY <1>2, <1>6, <3>2, PieceErased
    <3> QED
      BY <1>8, <3>1, <3>3
  <2> QED
    BY <1>1, <1>7, <1>9, <2>1 DEF ErasedAhead
<1> QED
  BY <1>1, <1>5, <1>7, <1>10 DEF ErasedInv, FreshErase, HeaderPassed

(* The code.  A piece that does not fit is a failure of the flash: the     *)
(* image was found to fit the slot when its header was accepted.           *)
LEMMA HandleImageDataErased ==
  ASSUME IInv, ImgInv, ErasedInv, HandleImageData
  PROVE  ErasedInv'
<1> DEFINE a == flash_write_addr
           L == Len(Filled)
           p == Prepare(nvms, L)
<1>1. /\ state = "W4_IMAGE_DATA" /\ nvms \in Slots /\ nvms' = nvms /\ alloc
      /\ flash_erase_addr' = p.erase /\ p.erase \in Nat /\ p.cells \in Cells
      /\ Filled \in Seq(Byte) /\ L \in Nat
  BY ImageDataStart
<1>2. a \in Nat /\ a + L <= PART_SIZE /\ HDR <= a /\ 0 < a + L
  <2>1. PICK i \in Nat, z \in Nat, m \in Nat, l \in Nat :
          l = L /\ a = i + m /\ HDR <= i /\ m + l <= z /\ i + z <= PART_SIZE
    BY ImageDataStart
  <2> QED
    BY <2>1, SizesAssumption
<1>3. a <= flash_erase_addr /\ SectorOf(flash_erase_addr) = flash_erase_addr
  BY <1>1 DEF ImgInv, Addresses, Receiving
<1>4. L <= BUF
  <2>1. Hdr.size \in 0..U32-1
    BY HdrType DEF IInv, TypeOK, BufferType, Headers
  <2>2. Sub32(Hdr.size, recv_image_len) \in 0..U32-1
    BY <2>1, Sub32Type DEF IInv, TypeOK, CounterType
  <2>3. L = MinOf(BUF, Sub32(Hdr.size, recv_image_len))
    BY <1>1, FilledExact DEF HandleImageData, Handle, Receiving, ExpectedLen
  <2> QED
    BY <2>2, <2>3, SizesAssumption DEF MinOf
<1>5. ASSUME faults = 0
      PROVE  \A x \in 0..PART_SIZE-1 : a <= x /\ x < p.erase => p.cells[x] = Erased
  <2>1. \A x \in 0..PART_SIZE-1 : a <= x /\ x < flash_erase_addr => flash[nvms][x] = Erased
    BY <1>1, <1>5, DataAssumption DEF ErasedInv, ErasedAhead
  <2> QED
    BY <1>1, <1>2, <1>3, <1>4, <2>1, PrepareErases DEF IInv, TypeOK
<1>6. flash \in [Slots -> Cells] /\ faults \in Nat
  BY SizesAssumption DEF IInv, TypeOK, FlashType
<1>7. Fit(a, L) = L
  BY <1>1, <1>2, SizesAssumption DEF Fit, MinOf
<1> HIDE DEF p, L
<1>8. CASE \E s \in {Filled, [Filled EXCEPT ![1] = Garbage]} :
          /\ faults' = faults \/ faults' = faults + 1
          /\ flash' = [flash EXCEPT ![nvms] = Program(p.cells, a, s)]
          /\ flash_write_addr' = Add32(a, L)
          /\ state' \in {"DONE", "W4_IMAGE_DATA"}
  <2>1. PICK s \in {Filled, [Filled EXCEPT ![1] = Garbage]} :
          /\ faults' = faults \/ faults' = faults + 1
          /\ flash' = [flash EXCEPT ![nvms] = Program(p.cells, a, s)]
          /\ flash_write_addr' = Add32(a, L)
          /\ state' \in {"DONE", "W4_IMAGE_DATA"}
    BY <1>8
  <2>2. s \in Seq(Byte) /\ Len(s) = L
    BY <1>1, <2>1, DataAssumption DEF L
  <2>3. flash_write_addr' = a + L
    BY <1>1, <1>2, <2>1, SizesAssumption DEF Add32
  <2>4. HDR <= flash_write_addr'
    BY <1>1, <1>2, <2>3, SizesAssumption
  <2>5. flash'[nvms] = Program(p.cells, a, s)
    BY <1>1, <1>6, <2>1
  <2>6. faults' = 0 => faults = 0
    BY <1>6, <2>1
  <2>7. ErasedAhead'
    <3>1. ASSUME faults = 0
          PROVE  \A x \in 0..PART_SIZE-1 :
                   a + L <= x /\ x < p.erase => flash'[nvms][x] = Erased
      <4>1. PICK c \in Cells, e \in Nat : c = p.cells /\ e = p.erase
        BY <1>1
      <4>2. \A x \in 0..PART_SIZE-1 : a <= x /\ x < e => c[x] = Erased
        BY <1>5, <3>1, <4>1
      <4>3. \A x \in 0..PART_SIZE-1 : a + Len(s) <= x /\ x < e => Program(c, a, s)[x] = Erased
        BY <1>2, <2>2, <4>2, PieceErased
      <4> QED
        BY <2>2, <2>5, <4>1, <4>3
    <3> QED
      BY <1>1, <2>3, <2>6, <3>1 DEF ErasedAhead
  <2> QED
    BY <2>1, <2>4, <2>7 DEF ErasedInv, FreshErase, HeaderPassed
<1>9. CASE faults' = faults + 1 /\ UNCHANGED <<flash_write_addr, state>>
  <2>1. faults' # 0
    BY <1>6, <1>9
  <2> QED
    BY <1>1, <1>2, <1>9, <2>1 DEF ErasedInv, ErasedAhead, FreshErase, HeaderPassed
<1> QED
  <2>1. ~(Fit(a, L) < L)
    BY <1>1, <1>7
  <2> QED
    BY <1>1, <1>8, <1>9, <2>1 DEF HandleImageData, L, p

LEMMA StepErasedInv ==
  ASSUME Honest, AllInv, ErasedInv, [Next]_vars
  PROVE  ErasedInv'
<1>1. IInv /\ ImgInv /\ OtherDevs = FALSE
  BY DEF AllInv, Honest
<1>2. CASE Command
  BY <1>1, <1>2, CommandsErased
<1>3. CASE Work
  BY <1>1, <1>3, LoopErased, SwitchErased, WriteFwHeaderErased, HandleHeaderErased,
     HandleHeaderExtErased, HandleImageDataErased DEF Work
<1>4. CASE PowerLoss
  BY <1>4, IdleErased DEF PowerLoss, Reset, FreshErase
<1>5. CASE Boot \/ UNCHANGED vars
  <2>1. UNCHANGED erasedState /\ UNCHANGED faults
    BY <1>5 DEF Boot, vars, ramVars, erasedState
  <2> QED
    BY <2>1, KeptErased
<1> QED
  BY <1>2, <1>3, <1>4, <1>5 DEF Next

(* As long as no operation of the flash has failed, every cell between the *)
(* write address and the erase address is erased: no byte of an image is   *)
(* programmed over an old one, for every size of the sectors, the slots    *)
(* and the buffer, and wherever the lines were cut.                        *)
THEOREM ErasedBeforeWrite ==
  ASSUME Honest
  PROVE  Spec => []ErasedAhead
<1>1. Init => AllInv /\ ErasedInv
  <2>1. Init => ErasedInv
    BY DEF Init, Zeroed, ErasedInv, ErasedAhead, FreshErase, HeaderPassed
  <2> QED
    BY <2>1, InitAllInv
<1>2. AllInv /\ ErasedInv /\ [Next]_vars => (AllInv /\ ErasedInv)'
  BY StepAllInv, StepErasedInv
<1>3. ErasedInv => ErasedAhead
  BY DEF ErasedInv
<1> QED
  BY <1>1, <1>2, <1>3, PTL DEF Spec

=============================================================================
