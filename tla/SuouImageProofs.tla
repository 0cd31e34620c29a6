-------------------------- MODULE SuouImageProofs --------------------------
(***************************************************************************)
(* Only complete images are selected, and CMP_OK tells the truth: proof    *)
(* that the counters, the addresses and the CRC of a reception agree with  *)
(* what is in the flash, for images made by mkimage and clients that       *)
(* select no other memory device.                                          *)
(***************************************************************************)
EXTENDS SuouBootProofs, SuouImplements, SequenceTheorems

Flipped(crc) == crc # <<>> /\ crc[Len(crc)] = Flip
Plain(crc) == IF Flipped(crc) THEN SubSeq(crc, 1, Len(crc) - 1) ELSE crc

(* What is received is never a zero.                                       *)
NoZeros == /\ buffer \in Seq(Byte \ {Zero}) /\ line \in Seq(Byte \ {Zero})
           /\ nvms # None => Hdr.crc # <<>>

(* A CRC is inverted at most once, and covers nothing before the code.     *)
CrcShape ==
  /\ ~Flipped(Plain(image_crc))
  /\ state \in {"IDLE", "ERROR", "W4_HEADER", "W4_HEADER_EXT"} => Plain(image_crc) = <<>>

(* From the second state on, the header was accepted.                      *)
HeaderGood ==
  state \in {"W4_HEADER_EXT", "W4_IMAGE_DATA", "DONE"} =>
    /\ nvms \in Slots
    /\ Hdr.id_ok /\ WellFormed(Hdr)
    /\ Hdr.ivt + Hdr.size <= PART_SIZE

(* Where the next byte goes, and what lies before the next erase, as long  *)
(* as there is a buffer to receive into.                                   *)
Addresses ==
  /\ state = "W4_HEADER" => recv_hdr_ext_len = 0
  /\ state \in {"W4_HEADER", "W4_HEADER_EXT"} => recv_image_len = 0
  /\ alloc /\ state = "W4_HEADER" => flash_write_addr = 0
  /\ alloc /\ state = "W4_HEADER_EXT" =>
       /\ flash_write_addr = HDR + recv_hdr_ext_len
       /\ flash_write_addr <= Hdr.ivt
  /\ alloc /\ state \in {"W4_IMAGE_DATA", "DONE"} =>
       /\ flash_write_addr = Hdr.ivt + recv_image_len
       /\ recv_image_len <= Hdr.size
  /\ state = "DONE" => recv_image_len = Hdr.size
  /\ alloc /\ Receiving => /\ flash_write_addr <= flash_erase_addr
                           /\ SectorOf(flash_erase_addr) = flash_erase_addr
  /\ pc = "patch" => alloc

(* The CRC is that of the bytes of the code that are in the flash.         *)
CrcOfFlash ==
  (state \in {"W4_IMAGE_DATA", "DONE"} /\ Plain(image_crc) \in Seq(Byte)) =>
    /\ Len(Plain(image_crc)) = recv_image_len
    /\ \A k \in 1..recv_image_len :
         flash[nvms][Hdr.ivt + k - 1] = Plain(image_crc)[k]

(* The switch of the product header is under way for a complete image.     *)
SwitchReady ==
  /\ pc = "wr_header" => image_crc = Append(Hdr.crc, Flip)
  /\ pc \in {"read_ph", "wr_backup", "wr_primary"} => SlotComplete(flash[nvms])
  /\ pc \in {"wr_backup", "wr_primary"} => ph_buffer.update = nvms /\ ph_buffer.crc = "ok"
  /\ pc = "wr_primary" => ph["backup"] = ph_buffer
  /\ pc \in {"wr_header", "read_ph", "wr_backup", "wr_primary"} => out = <<>>

ImgInv == /\ NoZeros /\ CrcShape /\ HeaderGood /\ Addresses /\ CrcOfFlash /\ SwitchReady

-----------------------------------------------------------------------------
(* Inversion of a CRC.                                                     *)

CrcByte == Byte \cup {Flip}

LEMMA FrontOfCrc ==
  ASSUME NEW c \in Seq(CrcByte), c # <<>>
  PROVE  LET d == SubSeq(c, 1, Len(c) - 1) IN
         /\ d \in Seq(CrcByte) /\ Len(d) = Len(c) - 1
         /\ \A k \in 1..Len(d) : d[k] = c[k]
<1>1. Len(c) \in Nat /\ Len(c) # 0
  BY EmptySeq, LenProperties
<1>2. \A k \in 1..Len(c)-1 : c[k] \in CrcByte
  BY <1>1, LenProperties
<1> DEFINE n == Len(c) - 1
           d == SubSeq(c, 1, n)
<1>3. n \in Nat /\ \A k \in 1..n : c[k] \in CrcByte
  BY <1>1, <1>2
<1> HIDE DEF n
<1>4. /\ d \in Seq(CrcByte) /\ Len(d) = (IF 1 <= n THEN n - 1 + 1 ELSE 0)
      /\ \A k \in 1..n - 1 + 1 : d[k] = c[1 + k - 1]
  BY <1>3, SubSeqProperties
<1>5. Len(d) = n
  BY <1>3, <1>4
<1>6. \A k \in 1..Len(d) : d[k] = c[k]
  BY <1>3, <1>4, <1>5
<1> QED
  BY <1>4, <1>5, <1>6 DEF n

LEMMA InvertedOnce ==
  ASSUME NEW c \in Seq(CrcByte), ~Flipped(Plain(c))
  PROVE  ~Flipped(Plain(Inverted(c))) /\ Plain(Inverted(c)) = Plain(c)
<1>1. CASE Flipped(c)
  <2>1. Inverted(c) = SubSeq(c, 1, Len(c) - 1) /\ Plain(c) = SubSeq(c, 1, Len(c) - 1)
    BY <1>1 DEF Inverted, Flipped, Plain
  <2>2. ~Flipped(Inverted(c))
    BY <2>1
  <2> QED
    BY <2>1, <2>2 DEF Plain
<1>2. CASE ~Flipped(c)
  <2>1. Inverted(c) = Append(c, Flip) /\ Plain(c) = c
    BY <1>2 DEF Inverted, Flipped, Plain
  <2>2. /\ Append(c, Flip) \in Seq(CrcByte) /\ Append(c, Flip) # <<>>
        /\ Len(Append(c, Flip)) = Len(c) + 1 /\ Append(c, Flip)[Len(c) + 1] = Flip
        /\ \A k \in 1..Len(c) : Append(c, Flip)[k] = c[k]
    BY AppendProperties DEF CrcByte
  <2>3. Flipped(Append(c, Flip))
    BY <2>2 DEF Flipped
  <2> DEFINE d == SubSeq(Append(c, Flip), 1, Len(Append(c, Flip)) - 1)
  <2>4. d \in Seq(CrcByte) /\ Len(d) = Len(c) /\ \A k \in 1..Len(c) : d[k] = c[k]
    <3>1. Len(c) \in Nat
      BY LenProperties
    <3> QED
      BY <2>2, <3>1, FrontOfCrc
  <2>5. d = c
    BY <2>4, SeqEqual
  <2> QED
    BY <2>1, <2>3, <2>5, <1>2 DEF Plain
<1> QED
  BY <1>1, <1>2

LEMMA PlainOfAppend ==
  ASSUME NEW g \in Seq(Byte)
  PROVE  Plain(Append(g, Flip)) = g
<1>1. g \in Seq(CrcByte) /\ Flip \in CrcByte
  BY DEF CrcByte
<1>2. /\ Append(g, Flip) \in Seq(CrcByte) /\ Append(g, Flip) # <<>>
      /\ Len(Append(g, Flip)) = Len(g) + 1 /\ Append(g, Flip)[Len(g) + 1] = Flip
      /\ \A k \in 1..Len(g) : Append(g, Flip)[k] = g[k]
  BY <1>1, AppendProperties
<1>3. Flipped(Append(g, Flip))
  BY <1>2 DEF Flipped
<1> DEFINE d == SubSeq(Append(g, Flip), 1, Len(Append(g, Flip)) - 1)
<1>4. d \in Seq(CrcByte) /\ Len(d) = Len(g) /\ \A k \in 1..Len(g) : d[k] = g[k]
  <2>1. Len(g) \in Nat
    BY LenProperties
  <2> QED
    BY <1>2, <2>1, FrontOfCrc
<1>5. d = g
  BY <1>1, <1>4, SeqEqual
<1> QED
  BY <1>3, <1>5 DEF Plain

(* Bytes are added at the end of a CRC: if it is a plain one afterwards,   *)
(* it was a plain one before.                                              *)
LEMMA CrcGrows ==
  ASSUME NEW c \in Seq(CrcByte), NEW d \in Seq(Byte), ~Flipped(Plain(c))
  PROVE  /\ ~Flipped(Plain(c \o d))
         /\ Plain(c \o d) \in Seq(Byte) =>
              /\ Plain(c) \in Seq(Byte)
              /\ Plain(c \o d) = Plain(c) \o d
<1>1. CASE d = <<>>
  <2>1. c \o d = c
    BY <1>1, ConcatEmptySeq
  <2>2. Plain(c) \in Seq(Byte) => Plain(c) \o d = Plain(c)
    BY <1>1, ConcatEmptySeq
  <2> QED
    BY <2>1, <2>2
<1>2. CASE d # <<>>
  <2>1. d \in Seq(CrcByte)
    BY DEF CrcByte
  <2>2. /\ c \o d \in Seq(CrcByte) /\ Len(c \o d) = Len(c) + Len(d)
        /\ \A k \in 1..Len(c) + Len(d) :
             (c \o d)[k] = IF k <= Len(c) THEN c[k] ELSE d[k - Len(c)]
    BY <2>1, ConcatProperties
  <2>3. Len(c) \in Nat /\ Len(d) \in Nat /\ Len(d) > 0
    BY <1>2, EmptySeq, LenProperties
  <2>4. (c \o d)[Len(c \o d)] = d[Len(d)]
    BY <2>2, <2>3
  <2>5. d[Len(d)] # Flip
    BY <2>3, LenProperties, DataAssumption
  <2>6. ~Flipped(c \o d) /\ Plain(c \o d) = c \o d
    BY <2>4, <2>5 DEF Flipped, Plain
  <2>7. ASSUME c \o d \in Seq(Byte) PROVE c \in Seq(Byte) /\ Plain(c) = c
    <3>1. \A k \in 1..Len(c) : c[k] \in Byte
      <4> TAKE k \in 1..Len(c)
      <4>1. k \in 1..Len(c \o d) /\ (c \o d)[k] = c[k]
        BY <2>2, <2>3
      <4> QED
        BY <2>7, <4>1, LenProperties
    <3>2. c \in Seq(Byte)
      <4>1. SubSeq(c, 1, Len(c)) \in Seq(Byte)
        BY <2>3, <3>1, SubSeqProperties
      <4> QED
        BY <4>1, SubSeqFull
    <3>3. ~Flipped(c)
      <4>1. c # <<>> => Len(c) \in 1..Len(c)
        BY <2>3, EmptySeq
      <4> QED
        BY <3>1, <4>1, DataAssumption DEF Flipped
    <3> QED
      BY <3>2, <3>3 DEF Plain
  <2> QED
    BY <2>6, <2>7
<1> QED
  BY <1>1, <1>2

-----------------------------------------------------------------------------
(* Sectors, and what a write leaves alone.                                 *)

LEMMA Division ==
  ASSUME NEW x \in Nat, NEW n \in Nat, n > 0
  PROVE  x \div n \in Nat /\ x = (x \div n) * n + (x % n)
OBVIOUS

LEMMA Multiple ==
  ASSUME NEW q \in Nat, NEW n \in Nat, n > 0
  PROVE  (q * n) % n = 0
OBVIOUS

LEMMA SectorFacts ==
  ASSUME NEW x \in Nat
  PROVE  /\ SectorOf(x) \in Nat /\ SectorOf(x) <= x
         /\ x < NextSector(x) /\ NextSector(x) \in Nat /\ NextSector(x) <= x + SECTOR
         /\ SectorOf(NextSector(x)) = NextSector(x)
<1>1. SECTOR \in Nat /\ SECTOR > 0
  BY SizesAssumption
<1>2. x % SECTOR \in 0..SECTOR-1 /\ x % SECTOR <= x
  BY <1>1
<1>3. (x - (x % SECTOR) + SECTOR) % SECTOR = 0
  <2>1. PICK q \in Nat : x = q * SECTOR + (x % SECTOR)
    BY <1>1, Division
  <2>2. PICK r \in Nat : r = q + 1
    OBVIOUS
  <2>3. x - (x % SECTOR) + SECTOR = r * SECTOR
    BY <1>1, <2>1, <2>2
  <2>4. (r * SECTOR) % SECTOR = 0
    BY <1>1, Multiple
  <2> QED
    BY <2>3, <2>4
<1> QED
  BY <1>1, <1>2, <1>3 DEF SectorOf, NextSector

LEMMA FirstSector == SectorOf(0) = 0
BY SizesAssumption DEF SectorOf

LEMMA PrepareAhead ==
  ASSUME CounterType, FlashType, NEW p \in Slots, NEW n \in Nat, 0 < flash_write_addr + n,
         flash_write_addr + n <= PART_SIZE, flash_write_addr <= flash_erase_addr,
         SectorOf(flash_erase_addr) = flash_erase_addr
  PROVE  /\ \A x \in 0..PART_SIZE-1 : x < flash_write_addr => Prepare(p, n).cells[x] = flash[p][x]
         /\ flash_write_addr + n <= Prepare(p, n).erase
         /\ SectorOf(Prepare(p, n).erase) = Prepare(p, n).erase
<1> DEFINE a == flash_write_addr
           e == flash_erase_addr
           end == Sub32(Add32(a, n), 1)
           sector == {x \in 0..PART_SIZE-1 : e <= x /\ x < e + SECTOR}
<1>1. a \in Nat /\ e \in Nat /\ a + n < U32 /\ e < U32
  BY SizesAssumption DEF CounterType
<1>2. end = a + n - 1 /\ end \in Nat
  BY <1>1, SizesAssumption DEF Add32, Sub32
<1>3. flash[p] \in Cells
  BY DEF FlashType
<1>4. Prepare(p, n) = IF end < e THEN [cells |-> flash[p], erase |-> e]
                      ELSE [cells |-> IF \A x \in sector : flash[p][x] = Erased THEN flash[p]
                                      ELSE EraseRegion(flash[p], e, end - e + 1),
                            erase |-> NextSector(end + 1) % U32]
  BY DEF Prepare
<1> HIDE DEF end, sector
<1>5. CASE end < e
  BY <1>1, <1>2, <1>4, <1>5
<1>6. CASE ~(end < e)
  <2>1. Prepare(p, n).erase = NextSector(end + 1) % U32
    BY <1>4, <1>6
  <2>2. NextSector(end + 1) < U32 /\ NextSector(end + 1) \in Nat /\ end + 1 < NextSector(end + 1)
        /\ SectorOf(NextSector(end + 1)) = NextSector(end + 1)
    <3>1. end + 1 \in Nat /\ end + 1 <= PART_SIZE
      BY <1>1, <1>2
    <3>2. /\ NextSector(end + 1) \in Nat /\ end + 1 < NextSector(end + 1)
          /\ NextSector(end + 1) <= end + 1 + SECTOR
          /\ SectorOf(NextSector(end + 1)) = NextSector(end + 1)
      BY <3>1, SectorFacts
    <3> QED
      BY <3>1, <3>2, SizesAssumption
  <2>3. Prepare(p, n).erase = NextSector(end + 1)
    BY <2>1, <2>2, SizesAssumption
  <2>4. ASSUME NEW x \in 0..PART_SIZE-1, x < a
        PROVE  Prepare(p, n).cells[x] = flash[p][x]
    <3>1. EraseRegion(flash[p], e, end - e + 1)[x] = flash[p][x]
      BY <1>1, <2>4, SizesAssumption DEF EraseRegion
    <3> QED
      BY <1>4, <1>6, <3>1
  <2> QED
    BY <1>1, <1>2, <2>2, <2>3, <2>4
<1> QED
  BY <1>5, <1>6

(* A program leaves the cells before and after it as they are.             *)
LEMMA ProgramKeeps ==
  ASSUME NEW f \in Cells, NEW a \in Nat, NEW s \in Seq(Byte), NEW x \in 0..PART_SIZE-1,
         x < a \/ a + Len(s) <= x
  PROVE  Program(f, a, s)[x] = f[x]
<1>1. Len(s) \in Nat
  BY LenProperties
<1> QED
  BY <1>1, SizesAssumption DEF Program

LEMMA ProgramStores ==
  ASSUME NEW f \in Cells, NEW a \in Nat, NEW s \in Seq(Byte), a + Len(s) <= PART_SIZE,
         NEW k \in 1..Len(s)
  PROVE  Program(f, a, s)[a + k - 1] = s[k]
<1>1. Len(s) \in Nat
  BY LenProperties
<1>2. a + k - 1 \in 0..PART_SIZE-1 /\ (a + k - 1) - a + 1 = k
  BY <1>1, SizesAssumption
<1> QED
  BY <1>1, <1>2, SizesAssumption DEF Program

-----------------------------------------------------------------------------
(* The steps.                                                              *)

Honest == HonestImages /\ OtherDevs = FALSE

LEMMA EmptyCrc == /\ Plain(<<>>) = <<>> /\ ~Flipped(<<>>)
                  /\ Plain(<<Flip>>) = <<>>
<1>1. Flipped(<<Flip>>)
  BY DEF Flipped
<1>2. <<Flip>> \in Seq(CrcByte) /\ Len(<<Flip>>) = 1
  BY DEF CrcByte
<1>3. SubSeq(<<Flip>>, 1, Len(<<Flip>>) - 1) = <<>>
  BY <1>2, SubSeqEmpty
<1> QED
  BY <1>1, <1>3 DEF Plain, Flipped

(* After a reset there is nothing to keep in place.                        *)
LEMMA ClearImgInv ==
  ASSUME state = "IDLE", buffer = <<>>, line = <<>>, nvms = None, image_crc = <<Flip>>,
         recv_image_len = 0, recv_hdr_ext_len = 0,
         pc \in {"ready", "off"}
  PROVE  ImgInv
<1>1. NoZeros
  BY EmptySeq DEF NoZeros
<1>2. CrcShape
  BY EmptyCrc DEF CrcShape
<1>3. HeaderGood /\ Addresses /\ CrcOfFlash /\ SwitchReady
  BY DEF HeaderGood, Addresses, CrcOfFlash, SwitchReady, Receiving
<1> QED
  BY <1>1, <1>2, <1>3 DEF ImgInv

LEMMA InitImgInv == Init => ImgInv
BY ClearImgInv DEF Init, Zeroed

LEMMA ResetImgInv ==
  ASSUME MemDevReboot \/ PowerLoss
  PROVE  ImgInv'
<1>1. /\ state' = "IDLE" /\ buffer' = <<>> /\ line' = <<>> /\ nvms' = None
      /\ image_crc' = <<Flip>> /\ recv_image_len' = 0 /\ recv_hdr_ext_len' = 0 /\ pc' = "off"
  BY DEF MemDevReboot, PowerLoss, Reset
<1>2. NoZeros'
  BY <1>1, EmptySeq DEF NoZeros
<1>3. CrcShape'
  BY <1>1, EmptyCrc DEF CrcShape
<1>4. HeaderGood' /\ Addresses' /\ CrcOfFlash' /\ SwitchReady'
  BY <1>1 DEF HeaderGood, Addresses, CrcOfFlash, SwitchReady, Receiving
<1> QED
  BY <1>2, <1>3, <1>4 DEF ImgInv

(* What the reception is made of, and the step that leaves all of it.      *)
recvState == <<state, alloc, buffer, header, nvms, image_crc, recv_hdr_ext_len, recv_image_len,
               flash_write_addr, flash_erase_addr, flash, line>>

LEMMA RecvKept ==
  ASSUME ImgInv, UNCHANGED recvState
  PROVE  /\ NoZeros' /\ CrcShape' /\ HeaderGood' /\ CrcOfFlash'
         /\ (pc' = "patch" => alloc) => Addresses'
BY DEF recvState, ImgInv, NoZeros, CrcShape, HeaderGood, Addresses, CrcOfFlash, Receiving, Hdr

LEMMA CalmSwitchReady ==
  ASSUME pc' \notin {"wr_header", "read_ph", "wr_backup", "wr_primary"}
  PROVE  SwitchReady'
BY DEF SwitchReady

LEMMA QuietImgInv ==
  ASSUME ImgInv,
         \/ (\E v \in Statuses : WriteStatus(v)) \/ (\E n \in PatchLens : PatchLenWrite(n))
         \/ PatchRefused \/ PatchIgnored \/ ChunkAdd \/ ChunkNotify
  PROVE  ImgInv'
<1> USE DEF recvVars, addrVars, imgVars, chunkVars, loopVars, phVars, failVars, Reply,
            iterUnchanged, chunkUnchanged, Iterated
<1>1. UNCHANGED recvState
  BY DEF recvState, WriteStatus, PatchLenWrite, PatchRefused, PatchIgnored, ChunkAdd, ChunkNotify
<1>2. pc' \in {"ready", "patch", "chunk", "hang"} /\ (pc' = "patch" => pc = "patch")
  BY DEF WriteStatus, PatchLenWrite, PatchRefused, PatchIgnored, ChunkAdd, ChunkNotify
<1>3. Addresses'
  BY <1>1, <1>2, RecvKept DEF ImgInv, Addresses
<1> QED
  BY <1>1, <1>2, <1>3, RecvKept, CalmSwitchReady DEF ImgInv

LEMMA ReturnImgInv ==
  ASSUME ImgInv, PatchReturn
  PROVE  ImgInv'
<1>1. /\ UNCHANGED <<state, alloc, buffer, header, nvms, image_crc, recv_hdr_ext_len,
                     recv_image_len, flash_write_addr, flash_erase_addr, flash>>
      /\ line' = <<>> /\ pc' = "ready"
  BY DEF PatchReturn, chunkUnchanged, recvVars, addrVars, imgVars, Reply
<1>2. NoZeros'
  BY <1>1, EmptySeq DEF ImgInv, NoZeros, Hdr
<1>3. CrcShape' /\ HeaderGood' /\ Addresses' /\ CrcOfFlash'
  BY <1>1 DEF ImgInv, CrcShape, HeaderGood, Addresses, CrcOfFlash, Receiving, Hdr
<1> QED
  BY <1>1, <1>2, <1>3, CalmSwitchReady DEF ImgInv

LEMMA LineImgInv ==
  ASSUME Honest, ImgInv, NEW l \in Lines, PatchData(l)
  PROVE  ImgInv'
<1>1. /\ UNCHANGED <<state, alloc, buffer, header, nvms, image_crc, recv_hdr_ext_len,
                     recv_image_len, flash_write_addr, flash_erase_addr, flash>>
      /\ line' \in {line, l} /\ pc' \in {"ready", "patch"} /\ (pc' = "patch" => alloc)
  BY DEF PatchData, recvVars, addrVars, imgVars, Reply
<1>2. NoZeros'
  BY <1>1 DEF ImgInv, NoZeros, Hdr, Honest, HonestImages
<1>3. CrcShape' /\ HeaderGood' /\ Addresses' /\ CrcOfFlash'
  BY <1>1 DEF ImgInv, CrcShape, HeaderGood, Addresses, CrcOfFlash, Receiving, Hdr
<1> QED
  BY <1>1, <1>2, <1>3, CalmSwitchReady DEF ImgInv

LEMMA StartImgInv ==
  ASSUME ImgInv, MemDevStart \/ MemDevExit
  PROVE  ImgInv'
<1> USE DEF recvVars, addrVars, imgVars, Reply, StartOver, loopVars
<1>1. CASE MemDevStart /\ state' = "W4_HEADER" /\ buffer' = <<>> /\ StartOver
  <2>1. /\ UNCHANGED <<nvms, header, line>> /\ pc' = "ready"
        /\ flash_write_addr' = 0 /\ flash_erase_addr' = 0
    BY <1>1 DEF MemDevStart
  <2>2. NoZeros'
    BY <1>1, <2>1, EmptySeq DEF ImgInv, NoZeros, Hdr
  <2>3. CrcShape'
    BY <1>1, EmptyCrc DEF CrcShape
  <2>4. HeaderGood' /\ Addresses' /\ CrcOfFlash'
    BY <1>1, <2>1, FirstSector DEF HeaderGood, Addresses, CrcOfFlash, Receiving
  <2> QED
    BY <2>1, <2>2, <2>3, <2>4, CalmSwitchReady DEF ImgInv
<1>2. CASE /\ UNCHANGED <<state, buffer, header, nvms, image_crc, recv_hdr_ext_len,
                          recv_image_len, flash, line>>
           /\ ~alloc' /\ pc' = "ready"
  <2>1. NoZeros' /\ CrcShape' /\ HeaderGood' /\ Addresses' /\ CrcOfFlash'
    BY <1>2 DEF ImgInv, NoZeros, CrcShape, HeaderGood, Addresses, CrcOfFlash, Receiving, Hdr
  <2> QED
    BY <1>2, <2>1, CalmSwitchReady DEF ImgInv
<1>3. CASE MemDevExit
  <2>1. ~alloc'
    BY <1>3 DEF MemDevExit
  <2> QED
    BY <1>2, <1>3, <2>1 DEF MemDevExit
<1>4. CASE MemDevStart
  <2>1. \/ state' = "W4_HEADER" /\ buffer' = <<>> /\ StartOver
        \/ ~alloc /\ UNCHANGED <<alloc, state, buffer, recvVars>> /\ pc' = "ready"
    BY <1>4 DEF MemDevStart
  <2>2. UNCHANGED <<header, nvms, flash, line>>
    BY <1>4 DEF MemDevStart
  <2> QED
    BY <1>1, <1>2, <1>4, <2>1, <2>2
<1> QED
  BY <1>3, <1>4

LEMMA EndImgInv ==
  ASSUME IInv, ImgInv, MemDevEnd
  PROVE  ImgInv'
<1>1. /\ UNCHANGED <<state, alloc, buffer, header, nvms, recv_hdr_ext_len, recv_image_len,
                     flash_write_addr, flash_erase_addr, flash, line>>
      /\ image_crc' = Inverted(image_crc)
      /\ \/ pc' = "ready"
         \/ pc' = "wr_header" /\ image_crc' = Append(Hdr.crc, Flip) /\ out' = <<>>
  BY DEF MemDevEnd, addrVars, imgVars, loopVars, Reply
<1>2. image_crc \in Seq(CrcByte) /\ ~Flipped(Plain(image_crc))
  BY DEF IInv, TypeOK, BufferType, CrcByte, ImgInv, CrcShape
<1>3. ~Flipped(Plain(image_crc')) /\ Plain(image_crc') = Plain(image_crc)
  BY <1>1, <1>2, InvertedOnce
<1>4. CrcShape'
  BY <1>1, <1>3 DEF ImgInv, CrcShape
<1>5. NoZeros' /\ HeaderGood' /\ Addresses' /\ CrcOfFlash'
  BY <1>1, <1>3 DEF ImgInv, NoZeros, HeaderGood, Addresses, CrcOfFlash, Receiving, Hdr
<1>6. SwitchReady'
  BY <1>1 DEF SwitchReady, Hdr
<1> QED
  BY <1>4, <1>5, <1>6 DEF ImgInv

-----------------------------------------------------------------------------
(* The steps that take bytes from a line.                                  *)

NonZero == Byte \ {Zero}

LEMMA FilledNoZeros ==
  ASSUME IInv, ImgInv, Receiving
  PROVE  Filled \in Seq(NonZero)
<1>1. buffer \in Seq(NonZero) /\ line \in Seq(NonZero)
  BY DEF ImgInv, NoZeros, NonZero
<1>2. taken \in 0..Len(line) /\ Pulled \in 0..Len(line)-taken /\ Len(line) \in Nat
  BY FilledType, LenProperties DEF IInv, TypeOK, LineType
<1>3. PICK m \in Int : m = taken + 1
  BY <1>2
<1>4. PICK n \in Int : n = taken + Pulled
  BY <1>2
<1>5. \A i \in m..n : line[i] \in NonZero
  <2> TAKE i \in m..n
  <2>1. i \in 1..Len(line)
    BY <1>2, <1>3, <1>4
  <2> QED
    BY <1>1, <2>1, LenProperties
<1>6. SubSeq(line, m, n) \in Seq(NonZero)
  BY <1>3, <1>4, <1>5, SubSeqProperties
<1> QED
  BY <1>1, <1>3, <1>4, <1>6, ConcatProperties DEF Filled

LEMMA PullShortImgInv ==
  ASSUME IInv, ImgInv, PullShort
  PROVE  ImgInv'
<1>1. /\ UNCHANGED <<state, alloc, header, nvms, image_crc, recv_hdr_ext_len,
                     recv_image_len, flash_write_addr, flash_erase_addr, flash, line>>
      /\ buffer' = Filled /\ pc' \in {"patch", "chunk"} /\ pc = "patch" /\ Receiving
  BY DEF PullShort, iterUnchanged, recvVars, addrVars, imgVars, Iterated
<1>2. Filled \in Seq(Byte \ {Zero})
  BY <1>1, FilledNoZeros DEF NonZero
<1>3. NoZeros'
  BY <1>1, <1>2 DEF ImgInv, NoZeros, Hdr
<1>4. CrcShape' /\ HeaderGood' /\ Addresses' /\ CrcOfFlash'
  BY <1>1 DEF ImgInv, CrcShape, HeaderGood, Addresses, CrcOfFlash, Receiving, Hdr
<1> QED
  BY <1>1, <1>3, <1>4, CalmSwitchReady DEF ImgInv

(* A handler is given exactly the bytes that it waits for.                 *)
LEMMA FilledExact ==
  ASSUME IInv, Receiving, Len(Filled) >= ExpectedLen
  PROVE  /\ Filled \in Seq(Byte) /\ Len(Filled) \in Nat
         /\ Len(Filled) = ExpectedLen
<1>1. /\ StateType /\ BufferType /\ CounterType /\ LineType /\ BufferBounded
  BY DEF IInv, TypeOK
<1>2. Filled \in Seq(Byte) /\ Len(Filled) <= ExpectedLen /\ ExpectedLen \in Nat
  BY <1>1, FilledType, ExpectedLenType
<1>3. Len(Filled) \in Nat
  BY <1>2, LenProperties
<1> QED
  BY <1>2, <1>3

LEMMA HandleHeaderImgInv ==
  ASSUME Honest, IInv, ImgInv, HandleHeader
  PROVE  ImgInv'
<1> DEFINE h == ParseHeader(Filled)
           p == Prepare(UpdateSlot, HDR)
<1> USE DEF recvVars, addrVars, imgVars, iterUnchanged
<1>1. /\ pc = "patch" /\ state = "W4_HEADER" /\ Receiving /\ Len(Filled) >= ExpectedLen
      /\ buffer' = <<>> /\ header' = Filled /\ alloc
      /\ UNCHANGED <<alloc, line, recv_hdr_ext_len, recv_image_len, image_crc>>
      /\ pc' \in {"patch", "chunk", "fault"}
  BY DEF HandleHeader, Handle, Receiving, ErrorCb, Iterated, ImgInv, Addresses
<1>2. Filled \in Seq(Byte) /\ Len(Filled) = HDR
  BY <1>1, FilledExact, ExpectedLenType DEF IInv, TypeOK
<1>3. Filled \in [1..HDR -> Byte] /\ \A k \in 1..HDR : Filled[k] # Zero
  <2>1. Filled \in Seq(NonZero)
    BY <1>1, FilledNoZeros
  <2> QED
    BY <1>2, <2>1, LenProperties DEF NonZero
<1>4. Hdr' = h /\ h \in Headers /\ h.crc # <<>> /\ (h.id_ok => WellFormed(h))
  BY <1>1, <1>3, DataAssumption DEF Hdr, Honest, HonestImages
<1>5. /\ flash_write_addr = 0 /\ recv_hdr_ext_len = 0 /\ recv_image_len = 0
      /\ flash_write_addr <= flash_erase_addr /\ SectorOf(flash_erase_addr) = flash_erase_addr
  BY <1>1 DEF ImgInv, Addresses
<1>6. NoZeros'
  BY <1>1, <1>4, EmptySeq DEF ImgInv, NoZeros
<1>7. CASE state' \in {"ERROR", "W4_HEADER"} /\ UNCHANGED <<flash_write_addr, flash_erase_addr>>
  <2>1. CrcShape' /\ HeaderGood' /\ Addresses' /\ CrcOfFlash'
    BY <1>1, <1>5, <1>7 DEF ImgInv, CrcShape, HeaderGood, Addresses, CrcOfFlash, Receiving
  <2> QED
    BY <1>1, <1>6, <2>1, CalmSwitchReady DEF ImgInv
<1>8. CASE /\ h.id_ok /\ nvms' = UpdateSlot /\ nvms' # None
           /\ Add32(h.ivt, h.size) <= PART_SIZE
           /\ flash_erase_addr' = p.erase
           /\ flash_write_addr' = Add32(flash_write_addr, HDR)
           /\ state' = "W4_HEADER_EXT"
  <2>1. UpdateSlot \in Slots
    BY <1>8, UpdateSlotType DEF IInv, TypeOK
  <2>2. /\ HDR \in Nat /\ 0 < 0 + HDR /\ 0 + HDR <= PART_SIZE
    BY SizesAssumption
  <2>3. 0 + HDR <= p.erase /\ SectorOf(p.erase) = p.erase
    BY <1>5, <2>1, <2>2, PrepareAhead DEF IInv, TypeOK
  <2> HIDE DEF p
  <2>4. flash_write_addr' = HDR
    BY <1>5, <1>8, SizesAssumption DEF Add32
  <2>5. h.ivt + h.size <= PART_SIZE /\ HDR <= h.ivt
    BY <1>4, <1>8 DEF WellFormed, Add32, Headers
  <2>6. HeaderGood'
    BY <1>4, <1>8, <2>1, <2>5 DEF HeaderGood
  <2>7. Addresses'
    BY <1>1, <1>4, <1>5, <1>8, <2>3, <2>4, <2>5, SizesAssumption DEF Addresses, Receiving
  <2>8. CrcShape' /\ CrcOfFlash'
    BY <1>1, <1>8 DEF ImgInv, CrcShape, CrcOfFlash
  <2> QED
    BY <1>1, <1>6, <2>6, <2>7, <2>8, CalmSwitchReady DEF ImgInv
<1> QED
  <2>1. \/ state' \in {"ERROR", "W4_HEADER"} /\ UNCHANGED <<flash_write_addr, flash_erase_addr>>
        \/ /\ h.id_ok /\ nvms' = UpdateSlot /\ nvms' # None
           /\ Add32(h.ivt, h.size) <= PART_SIZE
           /\ flash_erase_addr' = p.erase
           /\ flash_write_addr' = Add32(flash_write_addr, HDR)
           /\ state' = "W4_HEADER_EXT"
    BY <1>1 DEF HandleHeader, ErrorCb
  <2> QED
    BY <1>7, <1>8, <2>1

(* Where a handler of the rest of the header stands: before the code, with *)
(* the sectors ahead of it prepared.                                       *)
LEMMA HeaderExtStart ==
  ASSUME IInv, ImgInv, HandleHeaderExt
  PROVE  LET L == Len(Filled)
             p == Prepare(nvms, L) IN
         /\ pc = "patch" /\ state = "W4_HEADER_EXT" /\ Receiving /\ alloc /\ nvms \in Slots
         /\ UNCHANGED <<alloc, line, header, nvms, recv_image_len, image_crc>>
         /\ buffer' = <<>> /\ flash_erase_addr' = p.erase /\ pc' \in {"patch", "chunk"}
         /\ Filled \in Seq(Byte) /\ L \in Nat /\ L <= BUF
         /\ Hdr.ivt \in Nat /\ Hdr.size \in Nat /\ HDR <= Hdr.ivt
         /\ Hdr.ivt + Hdr.size <= PART_SIZE /\ Hdr.ivt < U32
         /\ flash_write_addr \in Nat /\ recv_hdr_ext_len \in Nat /\ recv_image_len = 0
         /\ flash_write_addr = HDR + recv_hdr_ext_len /\ flash_write_addr <= Hdr.ivt
         /\ flash_write_addr <= flash_erase_addr
         /\ SectorOf(flash_erase_addr) = flash_erase_addr
         /\ Sub32(Hdr.ivt, HDR) = Hdr.ivt - HDR
         /\ flash_write_addr + L <= Hdr.ivt /\ flash_write_addr + L <= p.erase
         /\ flash_write_addr <= p.erase /\ p.erase \in Nat /\ p.cells \in Cells
         /\ SectorOf(p.erase) = p.erase
<1> DEFINE a == flash_write_addr
           L == Len(Filled)
           p == Prepare(nvms, L)
<1> USE DEF recvVars, addrVars, imgVars, iterUnchanged
<1>1. /\ pc = "patch" /\ state = "W4_HEADER_EXT" /\ Receiving /\ L >= ExpectedLen
      /\ buffer' = <<>> /\ alloc /\ nvms \in Slots
      /\ UNCHANGED <<alloc, line, header, nvms, recv_image_len, image_crc>>
      /\ flash_erase_addr' = p.erase
      /\ pc' \in {"patch", "chunk"}
  BY DEF HandleHeaderExt, Handle, Receiving, Iterated, ImgInv, Addresses, HeaderGood
<1>2. Filled \in Seq(Byte) /\ L \in Nat /\ L = ExpectedLen
  BY <1>1, FilledExact
<1>3. /\ Hdr.ivt \in Nat /\ Hdr.size \in Nat /\ HDR <= Hdr.ivt /\ Hdr.ivt + Hdr.size <= PART_SIZE
      /\ Hdr.ivt < U32 /\ a = HDR + recv_hdr_ext_len /\ a <= Hdr.ivt /\ recv_image_len = 0
      /\ a <= flash_erase_addr /\ SectorOf(flash_erase_addr) = flash_erase_addr
      /\ recv_hdr_ext_len \in Nat
  <2>1. Hdr \in Headers
    BY HdrType DEF IInv, TypeOK, BufferType
  <2>2. HDR <= Hdr.ivt /\ Hdr.ivt + Hdr.size <= PART_SIZE
    BY <1>1 DEF ImgInv, HeaderGood, WellFormed
  <2>3. /\ a = HDR + recv_hdr_ext_len /\ a <= Hdr.ivt /\ recv_image_len = 0
        /\ a <= flash_erase_addr /\ SectorOf(flash_erase_addr) = flash_erase_addr
    BY <1>1 DEF ImgInv, Addresses
  <2>4. Hdr.ivt \in 0..U32-1 /\ Hdr.size \in 0..U32-1
    BY <2>1 DEF Headers
  <2>5. recv_hdr_ext_len \in Nat
    BY SizesAssumption DEF IInv, TypeOK, CounterType
  <2>6. /\ Hdr.ivt \in Nat /\ Hdr.ivt < U32 /\ Hdr.size \in Nat
    BY <2>4, SizesAssumption
  <2> QED
    BY <2>2, <2>3, <2>5, <2>6
<1>4. Sub32(Hdr.ivt, HDR) = Hdr.ivt - HDR
  BY <1>3, SizesAssumption DEF Sub32
<1>5. a + L <= Hdr.ivt /\ a \in Nat /\ L <= BUF
  <2>1. ExpectedLen = MinOf(BUF, Sub32(Hdr.ivt - HDR, recv_hdr_ext_len))
    BY <1>1, <1>4 DEF ExpectedLen
  <2>2. Sub32(Hdr.ivt - HDR, recv_hdr_ext_len) = Hdr.ivt - HDR - recv_hdr_ext_len
    BY <1>3, SizesAssumption DEF Sub32
  <2> QED
    BY <1>2, <1>3, <2>1, <2>2, SizesAssumption DEF MinOf
<1>6. a + L <= p.erase /\ SectorOf(p.erase) = p.erase
  <2>1. 0 < a + L /\ a + L <= PART_SIZE
    BY <1>2, <1>3, <1>5, SizesAssumption
  <2> QED
    BY <1>1, <1>2, <1>3, <2>1, PrepareAhead DEF IInv, TypeOK
<1>6a. a <= p.erase /\ SectorOf(p.erase) = p.erase
  <2>1. L < U32
    BY <1>2, <1>3, <1>5, SizesAssumption
  <2>2. p.erase \in 0..U32-1
    BY <1>1, <1>2, <2>1, PrepareType DEF IInv, TypeOK
  <2> HIDE DEF p, L
  <2> QED
    BY <1>2, <1>5, <1>6, <2>2
<1>6b. p.erase \in Nat /\ p.cells \in Cells
  <2>1. L < U32
    BY <1>2, <1>3, <1>5, SizesAssumption
  <2>2. p.erase \in 0..U32-1 /\ p.cells \in Cells
    BY <1>1, <1>2, <2>1, PrepareType DEF IInv, TypeOK
  <2> HIDE DEF p
  <2> QED
    BY <2>2, SizesAssumption
<1> HIDE DEF p, L
<1> QED
  BY <1>1, <1>2, <1>3, <1>4, <1>5, <1>6, <1>6a, <1>6b DEF p, L

LEMMA HandleHeaderExtImgInv ==
  ASSUME IInv, ImgInv, HandleHeaderExt
  PROVE  ImgInv'
<1> DEFINE a == flash_write_addr
           L == Len(Filled)
           p == Prepare(nvms, L)
           fits == Fit(a, L)
<1> USE DEF recvVars, addrVars, imgVars, iterUnchanged
<1>1. /\ pc = "patch" /\ state = "W4_HEADER_EXT" /\ Receiving
      /\ buffer' = <<>> /\ alloc /\ nvms \in Slots
      /\ UNCHANGED <<alloc, line, header, nvms, recv_image_len, image_crc>>
      /\ flash_erase_addr' = p.erase
      /\ pc' \in {"patch", "chunk"}
  BY HeaderExtStart
<1>2. L \in Nat
  BY HeaderExtStart
<1>3. /\ Hdr.ivt \in Nat /\ Hdr.size \in Nat /\ HDR <= Hdr.ivt /\ Hdr.ivt + Hdr.size <= PART_SIZE
      /\ Hdr.ivt < U32 /\ a = HDR + recv_hdr_ext_len /\ a <= Hdr.ivt /\ recv_image_len = 0
      /\ recv_hdr_ext_len \in Nat
  BY HeaderExtStart
<1>4. Sub32(Hdr.ivt, HDR) = Hdr.ivt - HDR
  BY HeaderExtStart
<1>5. a + L <= Hdr.ivt /\ a \in Nat
  BY HeaderExtStart
<1>6. /\ a + L <= p.erase /\ a <= p.erase /\ SectorOf(p.erase) = p.erase
      /\ p.erase \in Nat
  BY HeaderExtStart
<1> HIDE DEF p, L
<1>7. PICK n \in -1..BUF :
        /\ n <= fits
        /\ \/ n < 0 /\ UNCHANGED <<flash_write_addr, recv_hdr_ext_len, state>>
           \/ /\ n >= 0
              /\ flash_write_addr' = Add32(a, n)
              /\ recv_hdr_ext_len' = Add32(recv_hdr_ext_len, n)
              /\ state' = IF recv_hdr_ext_len' = Sub32(Hdr.ivt, HDR) THEN "W4_IMAGE_DATA" ELSE state
  <2>1. fits \in Int
    BY <1>2, <1>5, FitType
  <2> QED
    BY <2>1, SizesAssumption DEF HandleHeaderExt, L
<1>8. n <= L
  BY <1>2, <1>5, <1>7, FitType
<1>9. NoZeros'
  BY <1>1, EmptySeq DEF ImgInv, NoZeros, Hdr
<1>10. CASE n < 0
  <2>1. UNCHANGED <<flash_write_addr, recv_hdr_ext_len, state>>
    BY <1>7, <1>10
  <2>2. Addresses'
    BY <1>1, <1>3, <1>6, <2>1 DEF Addresses, Receiving, Hdr
  <2>3. CrcShape' /\ HeaderGood' /\ CrcOfFlash'
    BY <1>1, <2>1 DEF ImgInv, CrcShape, HeaderGood, CrcOfFlash, Hdr
  <2> QED
    BY <1>1, <1>9, <2>2, <2>3, CalmSwitchReady DEF ImgInv
<1>11. CASE n >= 0
  <2>1. /\ flash_write_addr' = a + n
        /\ recv_hdr_ext_len' = recv_hdr_ext_len + n
        /\ state' = IF recv_hdr_ext_len' = Hdr.ivt - HDR THEN "W4_IMAGE_DATA" ELSE state
    <3>1. Add32(a, n) = a + n /\ Add32(recv_hdr_ext_len, n) = recv_hdr_ext_len + n
      BY <1>2, <1>3, <1>5, <1>8, <1>11, SizesAssumption DEF Add32
    <3> QED
      BY <1>4, <1>7, <1>11, <3>1
  <2>2. a + n <= Hdr.ivt /\ a + n <= p.erase
    BY <1>2, <1>3, <1>5, <1>6, <1>8
  <2>3. state' \in {"W4_HEADER_EXT", "W4_IMAGE_DATA"} /\ (state' = "W4_IMAGE_DATA" => a + n = Hdr.ivt)
    BY <1>1, <1>3, <2>1, SizesAssumption
  <2>4. Addresses'
    <3>1. /\ Hdr' = Hdr /\ recv_image_len' = 0 /\ flash_erase_addr' = p.erase
          /\ SectorOf(flash_erase_addr') = flash_erase_addr'
          /\ flash_write_addr' <= Hdr.ivt /\ flash_write_addr' <= flash_erase_addr'
      BY <1>1, <1>3, <1>6, <2>1, <2>2 DEF Hdr
    <3>2. flash_write_addr' = HDR + recv_hdr_ext_len'
      BY <1>3, <2>1, SizesAssumption
    <3>3. state' = "W4_IMAGE_DATA" => flash_write_addr' = Hdr.ivt + recv_image_len'
      BY <1>3, <2>1, <2>3, <3>1
    <3>4. recv_image_len' <= Hdr.size
      BY <1>3, <3>1
    <3> QED
      BY <1>1, <2>3, <3>1, <3>2, <3>3, <3>4 DEF Addresses
  <2>5. HeaderGood'
    BY <1>1, <2>3 DEF ImgInv, HeaderGood, Hdr
  <2>6. CrcShape' /\ CrcOfFlash'
    BY <1>1, <1>3, <2>3, EmptySeq DEF ImgInv, CrcShape, CrcOfFlash
  <2> QED
    BY <1>1, <1>9, <2>4, <2>5, <2>6, CalmSwitchReady DEF ImgInv
<1> QED
  BY <1>7, <1>10, <1>11

(* Where a handler of image data stands: before the end of the image, with *)
(* the sectors ahead of it prepared and the cells behind it untouched.     *)
LEMMA ImageDataStart ==
  ASSUME IInv, ImgInv, HandleImageData
  PROVE  LET L == Len(Filled)
             p == Prepare(nvms, L) IN
         /\ pc = "patch" /\ state = "W4_IMAGE_DATA" /\ alloc /\ nvms \in Slots
         /\ UNCHANGED <<alloc, line, header, nvms, recv_hdr_ext_len>>
         /\ buffer' = <<>> /\ flash_erase_addr' = p.erase /\ pc' \in {"patch", "chunk"}
         /\ Filled \in Seq(Byte) /\ L \in Nat
         /\ Hdr.ivt \in Nat /\ Hdr.size \in Nat /\ HDR <= Hdr.ivt
         /\ Hdr.ivt + Hdr.size <= PART_SIZE
         /\ recv_image_len \in Nat /\ flash_write_addr = Hdr.ivt + recv_image_len
         /\ recv_image_len + L <= Hdr.size
         /\ p.erase \in Nat /\ flash_write_addr + L <= p.erase /\ SectorOf(p.erase) = p.erase
         /\ p.cells \in Cells
         /\ \A x \in 0..PART_SIZE-1 : x < flash_write_addr => p.cells[x] = flash[nvms][x]
<1> DEFINE L == Len(Filled)
           p == Prepare(nvms, L)
<1>1. /\ pc = "patch" /\ state = "W4_IMAGE_DATA" /\ Receiving /\ L >= ExpectedLen
      /\ UNCHANGED <<alloc, line, header, nvms, recv_hdr_ext_len>>
      /\ buffer' = <<>> /\ flash_erase_addr' = p.erase /\ pc' \in {"patch", "chunk"}
  BY DEF HandleImageData, Handle, Receiving, Iterated, iterUnchanged, imgVars
<1>2. Filled \in Seq(Byte) /\ L \in Nat /\ L = ExpectedLen
  BY <1>1, FilledExact
<1>3. alloc /\ nvms \in Slots
  BY <1>1 DEF ImgInv, Addresses, HeaderGood
<1>4. /\ Hdr.ivt \in 0..U32-1 /\ Hdr.size \in 0..U32-1
  BY HdrType DEF IInv, TypeOK, BufferType, Headers
<1>5. HDR <= Hdr.ivt /\ Hdr.ivt + Hdr.size <= PART_SIZE
  BY <1>1 DEF ImgInv, HeaderGood, WellFormed
<1>6. /\ flash_write_addr = Hdr.ivt + recv_image_len /\ recv_image_len <= Hdr.size
      /\ flash_write_addr <= flash_erase_addr /\ SectorOf(flash_erase_addr) = flash_erase_addr
  BY <1>1, <1>3 DEF ImgInv, Addresses
<1>7. recv_image_len \in Nat /\ Hdr.ivt \in Nat /\ Hdr.size \in Nat /\ Hdr.size < U32
  BY <1>4, SizesAssumption DEF IInv, TypeOK, CounterType
<1>8. recv_image_len + L <= Hdr.size
  <2>1. ExpectedLen = MinOf(BUF, Sub32(Hdr.size, recv_image_len))
    BY <1>1 DEF ExpectedLen
  <2>2. Sub32(Hdr.size, recv_image_len) = Hdr.size - recv_image_len
    BY <1>6, <1>7 DEF Sub32
  <2> QED
    BY <1>2, <1>6, <1>7, <2>1, <2>2, SizesAssumption DEF MinOf
<1>9. L < U32 /\ 0 < flash_write_addr + L /\ flash_write_addr + L <= PART_SIZE
  BY <1>2, <1>5, <1>6, <1>7, <1>8, SizesAssumption
<1>10. p.cells \in Cells /\ p.erase \in 0..U32-1
  BY <1>2, <1>3, <1>9, PrepareType DEF IInv, TypeOK
<1>11. /\ \A x \in 0..PART_SIZE-1 : x < flash_write_addr => p.cells[x] = flash[nvms][x]
       /\ flash_write_addr + L <= p.erase /\ SectorOf(p.erase) = p.erase
  BY <1>2, <1>3, <1>6, <1>9, PrepareAhead DEF IInv, TypeOK
<1> HIDE DEF p, L
<1>12. p.erase \in Nat
  BY <1>10, SizesAssumption
<1> QED
  BY <1>1, <1>2, <1>3, <1>5, <1>6, <1>7, <1>8, <1>10, <1>11, <1>12 DEF p, L

LEMMA ImageDataFails ==
  ASSUME IInv, ImgInv, HandleImageData,
         NEW n \in -1..BUF, n <= Len(Filled),
         flash' = [flash EXCEPT ![nvms] = Program(Prepare(nvms, Len(Filled)).cells, flash_write_addr,
                                                  SubSeq(Filled, 1, n))],
         UNCHANGED <<flash_write_addr, image_crc, recv_image_len, state>>
  PROVE  ImgInv'
<1> DEFINE L == Len(Filled)
           p == Prepare(nvms, L)
           s == SubSeq(Filled, 1, n)
<1>1. /\ state = "W4_IMAGE_DATA" /\ alloc /\ nvms \in Slots
      /\ UNCHANGED <<alloc, line, header, nvms, recv_hdr_ext_len>>
      /\ buffer' = <<>> /\ flash_erase_addr' = p.erase /\ pc' \in {"patch", "chunk"}
      /\ Filled \in Seq(Byte) /\ L \in Nat
      /\ Hdr.ivt \in Nat /\ Hdr.size \in Nat /\ Hdr.ivt + Hdr.size <= PART_SIZE
      /\ recv_image_len \in Nat /\ flash_write_addr = Hdr.ivt + recv_image_len
      /\ recv_image_len + L <= Hdr.size
      /\ p.erase \in Nat /\ flash_write_addr + L <= p.erase /\ SectorOf(p.erase) = p.erase
      /\ p.cells \in Cells
      /\ \A x \in 0..PART_SIZE-1 : x < flash_write_addr => p.cells[x] = flash[nvms][x]
  BY ImageDataStart
<1>2. Hdr' = Hdr
  BY <1>1 DEF Hdr
<1>3. s \in Seq(Byte)
  BY <1>1, PrefixType
<1>4. flash \in [Slots -> Cells] /\ flash[nvms] \in Cells
  BY <1>1 DEF IInv, TypeOK, FlashType
<1> HIDE DEF p, L, s
<1>5. flash'[nvms] = Program(p.cells, flash_write_addr, s)
  BY <1>1, <1>4 DEF p, L, s
<1>6. \A k \in 1..recv_image_len : flash'[nvms][Hdr.ivt + k - 1] = flash[nvms][Hdr.ivt + k - 1]
  <2>1. PICK a \in Nat, i \in Nat, n1 \in Nat :
          a = flash_write_addr /\ i = Hdr.ivt /\ n1 = recv_image_len
    BY <1>1
  <2>2. PICK f \in Cells, c \in Cells : f = flash[nvms] /\ c = p.cells
    BY <1>1, <1>4
  <2>3. a <= PART_SIZE /\ a = i + n1
    <3>1. PICK z \in Nat, l \in Nat :
            a = i + n1 /\ n1 + l <= z /\ i + z <= PART_SIZE
      BY <1>1, <2>1
    <3> QED
      BY <3>1, SizesAssumption
  <2>4. \A x \in 0..PART_SIZE-1 : x < a => c[x] = f[x]
    BY <1>1, <2>1, <2>2
  <2>5. ASSUME NEW k \in 1..n1 PROVE Program(c, a, s)[i + k - 1] = f[i + k - 1]
    <3>1. PICK x \in 0..PART_SIZE-1 : x = i + k - 1 /\ x < a
      BY <2>3, SizesAssumption
    <3>2. Program(c, a, s)[x] = c[x]
      BY <1>3, <3>1, ProgramKeeps
    <3> QED
      BY <2>4, <3>1, <3>2
  <2> QED
    BY <1>5, <2>1, <2>2, <2>5
<1>7. CrcOfFlash'
  BY <1>1, <1>2, <1>6 DEF ImgInv, CrcOfFlash
<1>8. NoZeros'
  BY <1>1, <1>2, EmptySeq DEF ImgInv, NoZeros
<1>9. flash_write_addr <= p.erase
  BY <1>1
<1>10. Addresses'
  <2>1. /\ flash_write_addr' = Hdr.ivt + recv_image_len' /\ recv_image_len' <= Hdr.size
    BY <1>1
  <2> QED
    BY <1>1, <1>2, <1>9, <2>1 DEF Addresses, Receiving
<1>11. CrcShape' /\ HeaderGood'
  BY <1>1, <1>2 DEF ImgInv, CrcShape, HeaderGood
<1> QED
  BY <1>1, <1>7, <1>8, <1>10, <1>11, CalmSwitchReady DEF ImgInv

LEMMA ImageDataTaken ==
  ASSUME IInv, ImgInv, HandleImageData,
         NEW s \in Seq(Byte), Len(s) = Len(Filled),
         flash' = [flash EXCEPT ![nvms] = Program(Prepare(nvms, Len(Filled)).cells, flash_write_addr, s)],
         flash_write_addr' = Add32(flash_write_addr, Len(Filled)),
         image_crc' = image_crc \o ReadBack(flash'[nvms], flash_write_addr, Filled),
         recv_image_len' = Add32(recv_image_len, Len(Filled)),
         state' = IF recv_image_len' = Hdr.size THEN "DONE" ELSE state
  PROVE  ImgInv'
<1> DEFINE L == Len(Filled)
           p == Prepare(nvms, L)
           back == ReadBack(flash'[nvms], flash_write_addr, Filled)
<1>1. /\ state = "W4_IMAGE_DATA" /\ alloc /\ nvms \in Slots
      /\ UNCHANGED <<alloc, line, header, nvms, recv_hdr_ext_len>>
      /\ buffer' = <<>> /\ flash_erase_addr' = p.erase /\ pc' \in {"patch", "chunk"}
      /\ Filled \in Seq(Byte) /\ L \in Nat
      /\ Hdr.ivt \in Nat /\ Hdr.size \in Nat /\ Hdr.ivt + Hdr.size <= PART_SIZE
      /\ recv_image_len \in Nat /\ flash_write_addr = Hdr.ivt + recv_image_len
      /\ recv_image_len + L <= Hdr.size
      /\ p.erase \in Nat /\ flash_write_addr + L <= p.erase /\ SectorOf(p.erase) = p.erase
      /\ p.cells \in Cells
      /\ \A x \in 0..PART_SIZE-1 : x < flash_write_addr => p.cells[x] = flash[nvms][x]
  BY ImageDataStart
<1>2. Hdr' = Hdr
  BY <1>1 DEF Hdr
<1>3. flash \in [Slots -> Cells] /\ flash[nvms] \in Cells
  BY <1>1 DEF IInv, TypeOK, FlashType
<1>4. image_crc \in Seq(CrcByte) /\ ~Flipped(Plain(image_crc))
  BY DEF IInv, TypeOK, BufferType, CrcByte, ImgInv, CrcShape
<1>5. PICK a \in Nat, i \in Nat, m \in Nat :
        a = flash_write_addr /\ i = Hdr.ivt /\ m = recv_image_len
  BY <1>1
<1> HIDE DEF p, L, back
<1>6. flash'[nvms] = Program(p.cells, a, s)
  BY <1>1, <1>3, <1>5 DEF p, L
<1>7. /\ a = i + m /\ a + L <= PART_SIZE /\ a <= PART_SIZE /\ L \in Nat
      /\ m + L < U32 /\ a + L < U32
  <2>1. PICK z \in Nat, l \in Nat :
          l = L /\ a = i + m /\ m + l <= z /\ i + z <= PART_SIZE
    BY <1>1, <1>5
  <2>2. a + l <= PART_SIZE /\ a <= PART_SIZE /\ m + l < U32 /\ a + l < U32
    BY <2>1, SizesAssumption
  <2> QED
    BY <2>1, <2>2
<1>8. \A k \in 1..m : flash'[nvms][i + k - 1] = flash[nvms][i + k - 1]
  <2>1. PICK f \in Cells, c \in Cells : f = flash[nvms] /\ c = p.cells
    BY <1>1, <1>3
  <2>2. \A x \in 0..PART_SIZE-1 : x < a => c[x] = f[x]
    BY <1>1, <1>5, <2>1
  <2>3. ASSUME NEW k \in 1..m PROVE Program(c, a, s)[i + k - 1] = f[i + k - 1]
    <3>1. PICK x \in 0..PART_SIZE-1 : x = i + k - 1 /\ x < a
      BY <1>7, SizesAssumption
    <3>2. Program(c, a, s)[x] = c[x]
      BY <3>1, ProgramKeeps
    <3> QED
      BY <2>2, <3>1, <3>2
  <2> QED
    BY <1>6, <2>1, <2>3
<1>9. /\ back \in Seq(Byte) /\ Len(back) = L
      /\ \A k \in 1..L : back[k] = flash'[nvms][a + k - 1]
  <2>1. flash'[nvms] \in Cells
    BY <1>1, <1>6, ProgramType
  <2>2. back = Bytes(flash'[nvms], a, L)
    BY <1>5 DEF back, ReadBack, L
  <2>3. back \in Seq(Byte) /\ Len(back) = L
    BY <1>1, <1>7, <2>1, <2>2, BytesType
  <2> QED
    BY <2>2, <2>3 DEF Bytes
<1>10. image_crc' = image_crc \o back
  BY DEF back
<1>11. /\ ~Flipped(Plain(image_crc'))
       /\ Plain(image_crc') \in Seq(Byte) =>
            Plain(image_crc) \in Seq(Byte) /\ Plain(image_crc') = Plain(image_crc) \o back
  BY <1>4, <1>9, <1>10, CrcGrows
<1>12. flash_write_addr' = a + L /\ recv_image_len' = m + L
  <2>1. flash_write_addr' = Add32(a, L) /\ recv_image_len' = Add32(m, L)
    BY <1>5 DEF L
  <2> QED
    BY <1>7, <2>1 DEF Add32
<1>13. state' \in {"W4_IMAGE_DATA", "DONE"} /\ (state' = "DONE" => m + L = Hdr.size)
  BY <1>1, <1>12
<1>14. CrcOfFlash'
  <2> SUFFICES ASSUME Plain(image_crc') \in Seq(Byte)
               PROVE  /\ Len(Plain(image_crc')) = m + L
                      /\ \A k \in 1..m + L :
                           flash'[nvms][i + k - 1] = Plain(image_crc')[k]
    BY <1>1, <1>2, <1>5, <1>12 DEF CrcOfFlash
  <2>1. /\ Len(Plain(image_crc)) = m
        /\ \A k \in 1..m : flash[nvms][i + k - 1] = Plain(image_crc)[k]
    BY <1>1, <1>5, <1>11 DEF ImgInv, CrcOfFlash
  <2>2. PICK c \in Seq(Byte) : c = Plain(image_crc)
    BY <1>11
  <2>3. /\ Len(c \o back) = m + L
        /\ \A k \in 1..m + L : (c \o back)[k] = IF k <= m THEN c[k] ELSE back[k - m]
    <3>1. Len(c) = m /\ Len(back) = L /\ back \in Seq(Byte)
      BY <1>9, <2>1, <2>2
    <3>2. /\ Len(c \o back) = Len(c) + Len(back)
          /\ \A k \in 1..Len(c) + Len(back) :
               (c \o back)[k] = IF k <= Len(c) THEN c[k] ELSE back[k - Len(c)]
      BY <3>1, ConcatProperties
    <3> QED
      BY <3>1, <3>2
  <2>4. ASSUME NEW k \in 1..m + L PROVE flash'[nvms][i + k - 1] = (c \o back)[k]
    <3>1. CASE k <= m
      <4>1. k \in 1..m
        BY <1>7, <3>1
      <4> QED
        BY <1>8, <2>1, <2>2, <2>3, <3>1, <4>1
    <3>2. CASE k > m
      <4>1. PICK j \in 1..L : j = k - m
        BY <1>7, <3>2
      <4>2. a + j - 1 = i + k - 1
        BY <1>7, <4>1
      <4>3. (c \o back)[k] = back[j]
        BY <1>7, <2>3, <3>2, <4>1
      <4> QED
        BY <1>9, <4>1, <4>2, <4>3
    <3>3. L \in Nat
      BY <1>7
    <3>4. k <= m \/ k > m
      BY <3>3
    <3> QED
      BY <3>1, <3>2, <3>4
  <2> QED
    BY <1>11, <2>2, <2>3, <2>4
<1>15. CrcShape'
  BY <1>11, <1>13 DEF CrcShape
<1>16. NoZeros'
  BY <1>1, <1>2, EmptySeq DEF ImgInv, NoZeros
<1>17. Addresses'
  <2>1. flash_write_addr' = Hdr.ivt + recv_image_len' /\ recv_image_len' <= Hdr.size
    BY <1>1, <1>5, <1>7, <1>12
  <2>2. state' = "DONE" => recv_image_len' = Hdr.size
    BY <1>12, <1>13
  <2>3. flash_write_addr' <= flash_erase_addr' /\ SectorOf(flash_erase_addr') = flash_erase_addr'
    BY <1>1, <1>5, <1>12
  <2> QED
    BY <1>1, <1>2, <1>13, <2>1, <2>2, <2>3 DEF Addresses
<1>18. HeaderGood'
  BY <1>1, <1>2, <1>13 DEF ImgInv, HeaderGood
<1> QED
  BY <1>1, <1>14, <1>15, <1>16, <1>17, <1>18, CalmSwitchReady DEF ImgInv

LEMMA HandleImageDataImgInv ==
  ASSUME IInv, ImgInv, HandleImageData
  PROVE  ImgInv'
<1> DEFINE a == flash_write_addr
           p == Prepare(nvms, Len(Filled))
           fits == Fit(a, Len(Filled))
<1>1. Filled \in Seq(Byte) /\ Len(Filled) \in Nat /\ a \in Nat
  BY ImageDataStart DEF IInv, TypeOK, CounterType
<1>2. fits \in Int /\ fits <= Len(Filled)
  BY <1>1, FitType
<1> HIDE DEF fits
<1>3. CASE \E s \in {Filled, [Filled EXCEPT ![1] = Garbage]} :
          /\ flash' = [flash EXCEPT ![nvms] = Program(p.cells, a, s)]
          /\ flash_write_addr' = Add32(a, Len(Filled))
          /\ image_crc' = image_crc \o ReadBack(flash'[nvms], a, Filled)
          /\ recv_image_len' = Add32(recv_image_len, Len(Filled))
          /\ state' = IF recv_image_len' = Hdr.size THEN "DONE" ELSE state
  <2>1. PICK s \in {Filled, [Filled EXCEPT ![1] = Garbage]} :
          /\ flash' = [flash EXCEPT ![nvms] = Program(p.cells, a, s)]
          /\ flash_write_addr' = Add32(a, Len(Filled))
          /\ image_crc' = image_crc \o ReadBack(flash'[nvms], a, Filled)
          /\ recv_image_len' = Add32(recv_image_len, Len(Filled))
          /\ state' = IF recv_image_len' = Hdr.size THEN "DONE" ELSE state
    BY <1>3
  <2>2. s \in Seq(Byte) /\ Len(s) = Len(Filled)
    BY <1>1, <2>1, DataAssumption
  <2> QED
    BY <2>1, <2>2, ImageDataTaken
<1>4. CASE \E n \in -1..BUF :
          /\ \/ n = fits /\ fits < Len(Filled) /\ UNCHANGED faults
             \/ n <= fits /\ faults < MaxFaults /\ faults' = faults + 1
          /\ flash' = [flash EXCEPT ![nvms] = Program(p.cells, a, SubSeq(Filled, 1, n))]
          /\ UNCHANGED <<flash_write_addr, image_crc, recv_image_len, state>>
  <2>1. PICK n \in -1..BUF :
          /\ \/ n = fits /\ fits < Len(Filled) /\ UNCHANGED faults
             \/ n <= fits /\ faults < MaxFaults /\ faults' = faults + 1
          /\ flash' = [flash EXCEPT ![nvms] = Program(p.cells, a, SubSeq(Filled, 1, n))]
          /\ UNCHANGED <<flash_write_addr, image_crc, recv_image_len, state>>
    BY <1>4
  <2>2. n <= Len(Filled)
    BY <1>1, <1>2, <2>1, SizesAssumption
  <2> QED
    BY <2>1, <2>2, ImageDataFails
<1> QED
  BY <1>3, <1>4 DEF HandleImageData, fits

-----------------------------------------------------------------------------
(* The switch of the product header.                                       *)

(* When END has accepted the CRC, the code of the image is in the flash.   *)
LEMMA CodeInFlash ==
  ASSUME IInv, ImgInv, pc = "wr_header", nvms # None
  PROVE  /\ nvms \in Slots /\ state \in {"W4_IMAGE_DATA", "DONE"}
         /\ Hdr.id_ok /\ Hdr.ivt \in Nat /\ HDR <= Hdr.ivt /\ Hdr.ivt + Hdr.size <= PART_SIZE
         /\ Hdr.crc \in Seq(Byte) /\ Len(Hdr.crc) = Hdr.size /\ recv_image_len = Hdr.size
         /\ \A k \in 1..Hdr.size : flash[nvms][Hdr.ivt + k - 1] = Hdr.crc[k]
<1>1. Hdr \in Headers
  BY HdrType DEF IInv, TypeOK, BufferType
<1>2. Hdr.crc \in Seq(Byte) /\ Hdr.ivt \in Nat
  BY <1>1, SizesAssumption DEF Headers
<1>3. Plain(image_crc) = Hdr.crc /\ Hdr.crc # <<>>
  BY <1>2, PlainOfAppend DEF ImgInv, SwitchReady, NoZeros
<1>4. state \in {"W4_IMAGE_DATA", "DONE"}
  BY <1>3 DEF ImgInv, CrcShape, IInv, TypeOK, StateType
<1>5. nvms \in Slots /\ Hdr.id_ok /\ WellFormed(Hdr) /\ Hdr.ivt + Hdr.size <= PART_SIZE
  BY <1>4 DEF ImgInv, HeaderGood
<1>6. /\ Len(Hdr.crc) = recv_image_len
      /\ \A k \in 1..recv_image_len : flash[nvms][Hdr.ivt + k - 1] = Hdr.crc[k]
  BY <1>2, <1>3, <1>4 DEF ImgInv, CrcOfFlash
<1> QED
  BY <1>2, <1>4, <1>5, <1>6 DEF WellFormed

(* The header, or a part of it, is written before the code.                *)
LEMMA HeaderBeforeCode ==
  ASSUME NEW f \in Cells, NEW s \in Seq(Byte), Len(s) <= HDR,
         NEW i \in Nat, NEW n \in Nat, HDR <= i, i + n <= PART_SIZE
  PROVE  \A k \in 1..n : Program(f, 0, s)[i + k - 1] = f[i + k - 1]
<1> TAKE k \in 1..n
<1>1. Len(s) \in Nat
  BY LenProperties
<1>2. PICK x \in 0..PART_SIZE-1 : x = i + k - 1 /\ HDR <= x
  BY SizesAssumption
<1>3. Program(f, 0, s)[x] = f[x]
  BY <1>1, <1>2, ProgramKeeps, SizesAssumption
<1> QED
  BY <1>2, <1>3

LEMMA HeaderCompletes ==
  ASSUME NEW f \in Cells, NEW hd \in [1..HDR -> Byte],
         ParseHeader(hd).id_ok, ParseHeader(hd).ivt \in Nat, HDR <= ParseHeader(hd).ivt,
         ParseHeader(hd).ivt + ParseHeader(hd).size <= PART_SIZE,
         ParseHeader(hd).crc \in Seq(Byte), Len(ParseHeader(hd).crc) = ParseHeader(hd).size,
         \A k \in 1..ParseHeader(hd).size :
           f[ParseHeader(hd).ivt + k - 1] = ParseHeader(hd).crc[k]
  PROVE  SlotComplete(Program(f, 0, hd))
<1> DEFINE g == Program(f, 0, hd)
<1>1. HDR \in Nat /\ 0 + HDR <= PART_SIZE
  BY SizesAssumption
<1>2. hd \in Seq(Byte) /\ Len(hd) = HDR
  BY <1>1
<1>3. g \in Cells
  BY <1>2, ProgramType
<1>4. Bytes(g, 0, HDR) = hd
  <2>1. \A k \in 1..HDR : g[0 + k - 1] = hd[k]
    BY <1>1, <1>2, ProgramStores
  <2> QED
    BY <2>1 DEF Bytes
<1>5. PICK h \in Headers : h = ParseHeader(hd)
  BY DataAssumption
<1>6. PICK i \in Nat, n \in Nat : i = h.ivt /\ n = h.size
  <2>1. h.size \in 0..U32-1
    BY <1>5 DEF Headers
  <2> QED
    BY <1>5, <2>1, SizesAssumption
<1>7. HDR <= i /\ i + n <= PART_SIZE
  BY <1>5, <1>6
<1>8. \A k \in 1..n : g[i + k - 1] = f[i + k - 1]
  <2>1. Len(hd) <= HDR
    BY <1>1, <1>2
  <2>2. \A k \in 1..n : Program(f, 0, hd)[i + k - 1] = f[i + k - 1]
    BY <1>2, <1>7, <2>1, HeaderBeforeCode
  <2> QED
    BY <2>2
<1> HIDE DEF g
<1>9. Bytes(g, i, n) = h.crc
  <2>1. Bytes(g, i, n) \in Seq(Byte) /\ Len(Bytes(g, i, n)) = n
    BY <1>3, <1>7, BytesType
  <2>2. PICK c \in Seq(Byte) : c = h.crc /\ Len(c) = n
    BY <1>5, <1>6
  <2>3. \A k \in 1..n : Bytes(g, i, n)[k] = c[k]
    BY <1>5, <1>6, <1>8, <2>2 DEF Bytes
  <2> QED
    BY <2>1, <2>2, <2>3, SeqEqual
<1>10. SlotComplete(g)
  BY <1>4, <1>5, <1>6, <1>7, <1>9 DEF SlotComplete
<1> QED
  BY <1>10 DEF g

LEMMA WriteFwHeaderImgInv ==
  ASSUME IInv, ImgInv, WriteFwHeader
  PROVE  ImgInv'
<1>1. /\ pc = "wr_header"
      /\ UNCHANGED <<state, alloc, buffer, header, nvms, image_crc, recv_hdr_ext_len,
                     recv_image_len, flash_write_addr, flash_erase_addr, line>>
  BY DEF WriteFwHeader, endUnchanged, recvVars, addrVars, imgVars, loopVars
<1>2. pc' # "patch" /\ Hdr' = Hdr
  BY <1>1 DEF WriteFwHeader, SwitchFails, Reply, Hdr
<1>3. NoZeros' /\ CrcShape' /\ HeaderGood' /\ Addresses'
  BY <1>1, <1>2 DEF ImgInv, NoZeros, CrcShape, HeaderGood, Addresses, Receiving
<1>4. CASE nvms = None
  <2>1. flash' = flash /\ pc' = "fault"
    BY <1>4 DEF WriteFwHeader
  <2>2. CrcOfFlash'
    BY <1>1, <1>2, <2>1 DEF ImgInv, CrcOfFlash
  <2> QED
    BY <1>3, <2>1, <2>2, CalmSwitchReady DEF ImgInv
<1>5. CASE nvms # None
  <2> DEFINE f == flash[nvms]
  <2>1. /\ nvms \in Slots /\ state \in {"W4_IMAGE_DATA", "DONE"}
        /\ Hdr.id_ok /\ Hdr.ivt \in Nat /\ HDR <= Hdr.ivt /\ Hdr.ivt + Hdr.size <= PART_SIZE
        /\ Hdr.crc \in Seq(Byte) /\ Len(Hdr.crc) = Hdr.size /\ recv_image_len = Hdr.size
        /\ \A k \in 1..Hdr.size : f[Hdr.ivt + k - 1] = Hdr.crc[k]
    BY <1>1, <1>5, CodeInFlash
  <2>2. flash \in [Slots -> Cells] /\ f \in Cells /\ header \in [1..HDR -> Byte]
    BY <2>1 DEF IInv, TypeOK, FlashType, BufferType
  <2>3. header \in Seq(Byte) /\ Len(header) = HDR /\ HDR \in Nat
    BY <2>2, SizesAssumption
  <2>4. PICK s \in Seq(Byte) :
          /\ flash' = [flash EXCEPT ![nvms] = Program(f, 0, s)]
          /\ Len(s) <= HDR
          /\ pc' \in {"ready", "read_ph"}
          /\ pc' = "read_ph" => s = header /\ out' = out
    <3>1. CASE /\ flash' = [flash EXCEPT ![nvms] = Program(@, 0, header)]
               /\ pc' = "read_ph" /\ out' = out
      <4>1. Len(header) <= HDR
        BY <2>3
      <4> QED
        BY <2>3, <3>1, <4>1
    <3>2. CASE \E n \in 0..HDR-1 :
                 /\ flash' = [flash EXCEPT ![nvms] = Program(@, 0, SubSeq(header, 1, n))]
                 /\ pc' = "ready"
      <4>1. PICK n \in 0..HDR-1 :
              /\ flash' = [flash EXCEPT ![nvms] = Program(@, 0, SubSeq(header, 1, n))]
              /\ pc' = "ready"
        BY <3>2
      <4>2. \A k \in 1..n : header[k] \in Byte
        BY <2>2, <2>3, <4>1
      <4>3. n \in Int /\ SubSeq(header, 1, n) \in Seq(Byte) /\ Len(SubSeq(header, 1, n)) <= HDR
        BY <2>3, <4>1, <4>2, SubSeqProperties
      <4> QED
        BY <4>1, <4>3
    <3> QED
      BY <1>5, <3>1, <3>2 DEF WriteFwHeader, SwitchFails, Reply
  <2>5. flash'[nvms] = Program(f, 0, s)
    BY <2>1, <2>2, <2>4
  <2> HIDE DEF f
  <2>6. \A k \in 1..recv_image_len : flash'[nvms][Hdr.ivt + k - 1] = f[Hdr.ivt + k - 1]
    <3>1. PICK i \in Nat, n \in Nat : i = Hdr.ivt /\ n = recv_image_len /\ HDR <= i /\ i + n <= PART_SIZE
      <4>1. recv_image_len \in Nat
        BY SizesAssumption DEF IInv, TypeOK, CounterType
      <4> QED
        BY <2>1, <4>1
    <3>2. \A k \in 1..n : Program(f, 0, s)[i + k - 1] = f[i + k - 1]
      BY <2>2, <2>4, <3>1, HeaderBeforeCode
    <3> QED
      BY <2>5, <3>1, <3>2
  <2>7. CrcOfFlash'
    BY <1>1, <1>2, <2>6 DEF ImgInv, CrcOfFlash, f
  <2>8. pc' = "read_ph" => SlotComplete(flash'[nvms'])
    <3>1. SlotComplete(Program(f, 0, header))
      BY <2>1, <2>2, HeaderCompletes DEF Hdr
    <3> QED
      BY <1>1, <2>4, <2>5, <3>1
  <2>9. SwitchReady'
    BY <1>1, <2>4, <2>8 DEF ImgInv, SwitchReady
  <2> QED
    BY <1>3, <2>7, <2>9 DEF ImgInv
<1> QED
  BY <1>4, <1>5

LEMMA SwitchImgInv ==
  ASSUME IInv, ImgInv, ReadProductHeader \/ WriteBackup \/ WritePrimary
  PROVE  ImgInv'
<1>1. UNCHANGED recvState
  BY DEF ReadProductHeader, WriteBackup, WritePrimary, WriteProductHeader, endUnchanged,
         recvState, recvVars, addrVars, imgVars, loopVars
<1>2. UNCHANGED <<nvms, flash>>
  BY <1>1 DEF recvState
<1>3. CASE ReadProductHeader
  <2>1. \/ pc' = "ready"
        \/ pc' = "wr_backup" /\ ph_buffer' = Stamp(ph["primary"]) /\ out' = out
    BY <1>3 DEF ReadProductHeader, SwitchFails, Reply
  <2>2. ph["primary"] \in ProductHeaders
    BY DEF IInv, TypeOK, SwitchType, Copies
  <2>3. Stamp(ph["primary"]).update = nvms /\ Stamp(ph["primary"]).crc = "ok"
    BY <2>2 DEF Stamp, ProductHeaders
  <2>4. SwitchReady' /\ pc' # "patch"
    BY <1>2, <1>3, <2>1, <2>3 DEF ImgInv, SwitchReady, ReadProductHeader
  <2> QED
    BY <1>1, <2>4, RecvKept DEF ImgInv
<1>4. CASE WriteBackup
  <2>1. /\ pc = "wr_backup" /\ ph_buffer' = ph_buffer
        /\ \/ pc' = "ready"
           \/ pc' = pc /\ out' = out
           \/ pc' = "wr_primary" /\ out' = out /\ ph' = [ph EXCEPT !["backup"] = ph_buffer]
    BY <1>4 DEF WriteBackup, WriteProductHeader, SwitchFails, Reply
  <2>2. ph \in [Copies -> ProductHeaders]
    BY DEF IInv, TypeOK, SwitchType
  <2>3. pc' = "wr_primary" => ph'["backup"] = ph_buffer
    BY <2>1, <2>2 DEF Copies
  <2>4. SwitchReady' /\ pc' # "patch"
    BY <1>2, <2>1, <2>3 DEF ImgInv, SwitchReady
  <2> QED
    BY <1>1, <2>4, RecvKept DEF ImgInv
<1>5. CASE WritePrimary
  <2>1. /\ pc = "wr_primary" /\ ph_buffer' = ph_buffer
        /\ \/ pc' = "ready"
           \/ pc' = pc /\ out' = out /\ \E p : ph' = [ph EXCEPT !["primary"] = p]
    BY <1>5 DEF WritePrimary, WriteProductHeader, SwitchFails, Reply
  <2>2. ph \in [Copies -> ProductHeaders]
    BY DEF IInv, TypeOK, SwitchType
  <2>3. pc' = "wr_primary" => ph'["backup"] = ph["backup"]
    BY <2>1, <2>2 DEF Copies
  <2>4. SwitchReady' /\ pc' # "patch"
    BY <1>2, <2>1, <2>3 DEF ImgInv, SwitchReady
  <2> QED
    BY <1>1, <2>4, RecvKept DEF ImgInv
<1> QED
  BY <1>3, <1>4, <1>5

LEMMA BootImgInv ==
  ASSUME ImgInv, Boot
  PROVE  ImgInv'
<1>1. UNCHANGED recvState /\ pc' \in {"ready", "fault", "dead"}
  BY DEF Boot, ramVars, recvState
<1> QED
  BY <1>1, RecvKept, CalmSwitchReady DEF ImgInv

LEMMA StutterImgInv ==
  ASSUME ImgInv, UNCHANGED vars
  PROVE  ImgInv'
BY DEF vars, ramVars, ImgInv, NoZeros, CrcShape, HeaderGood, Addresses, CrcOfFlash, SwitchReady,
       Receiving, Hdr

LEMMA StepImgInv ==
  ASSUME Honest, IInv, ImgInv, [Next]_vars
  PROVE  ImgInv'
<1>1. CASE Command
  <2>1. ~MemDevOther
    BY DEF MemDevOther, Honest
  <2> QED
    BY <1>1, <2>1, QuietImgInv, LineImgInv, StartImgInv, EndImgInv, ResetImgInv DEF Command
<1>2. CASE Work
  BY <1>2, QuietImgInv, PullShortImgInv, HandleHeaderImgInv, HandleHeaderExtImgInv,
     HandleImageDataImgInv, ReturnImgInv, WriteFwHeaderImgInv, SwitchImgInv DEF Work
<1> QED
  BY <1>1, <1>2, ResetImgInv, BootImgInv, StutterImgInv DEF Next

-----------------------------------------------------------------------------
(* What the steps do to the copies of the product header.                  *)

Writing(c) == IF c = "backup" THEN "wr_backup" ELSE "wr_primary"

LEMMA HeaderSteps ==
  ASSUME [Next]_vars
  PROVE  \/ UNCHANGED ph
         \/ /\ UNCHANGED flash
            /\ \E c \in Copies : pc = Writing(c) /\
                 \E q \in Torn(ph[c], ph_buffer) \cup {ph[c], ph_buffer} : ph' = [ph EXCEPT ![c] = q]
         \/ UNCHANGED flash /\ pc = "off" /\ ph' = Loaded
<1>1. CASE Command \/ UNCHANGED vars
  <2>1. UNCHANGED ph
    BY <1>1 DEF Command, WriteStatus, PatchLenWrite, PatchData, MemDevOther, MemDevStart,
                MemDevExit, MemDevEnd, MemDevReboot, phVars, vars, ramVars
  <2> QED
    BY <2>1
<1>2. CASE Work /\ ~WriteBackup /\ ~WritePrimary
  <2>1. UNCHANGED ph
    BY <1>2 DEF Work, PatchRefused, PatchIgnored, PullShort, HandleHeader, HandleHeaderExt,
                HandleImageData, ChunkAdd, ChunkNotify, PatchReturn, WriteFwHeader,
                ReadProductHeader, phVars, iterUnchanged, chunkUnchanged
  <2> QED
    BY <2>1
<1>3. CASE WriteBackup \/ WritePrimary
  <2>1. /\ UNCHANGED flash
        /\ \E c \in Copies : /\ pc = Writing(c)
                             /\ \/ UNCHANGED ph
                                \/ \E q \in Torn(ph[c], ph_buffer) \cup {ph[c], ph_buffer} :
                                     ph' = [ph EXCEPT ![c] = q]
    BY <1>3 DEF WriteBackup, WritePrimary, WriteProductHeader, Writing, Copies
  <2> QED
    BY <2>1
<1>4. CASE PowerLoss
  <2>1. UNCHANGED flash
    BY <1>4 DEF PowerLoss
  <2>2. \/ UNCHANGED ph
        \/ \E c \in Copies : pc = Writing(c) /\
             \E q \in Torn(ph[c], ph_buffer) : ph' = [ph EXCEPT ![c] = q]
    BY <1>4 DEF PowerLoss, Writing, Copies
  <2> QED
    BY <2>1, <2>2
<1>5. CASE Boot
  <2>1. UNCHANGED flash /\ pc = "off" /\ (UNCHANGED ph \/ ph' = Loaded)
    BY <1>5 DEF Boot
  <2> QED
    BY <2>1
<1> QED
  BY <1>1, <1>2, <1>3, <1>4, <1>5 DEF Next

(* A write of a copy, whole or torn, can only select the slot of the       *)
(* update, which is complete; and the boot loader sees it in one step.     *)
LEMMA CopySelects ==
  ASSUME IInv, BootInv, ImgInv, NEW c \in Copies, pc = Writing(c),
         NEW q \in Torn(ph[c], ph_buffer) \cup {ph[c], ph_buffer}, ph' = [ph EXCEPT ![c] = q]
  PROVE  /\ nvms \in Slots /\ nvms # BootCopy(ph).active /\ SlotComplete(flash[nvms])
         /\ \A d \in Copies : ph'[d].update \in {ph[d].update, nvms}
         /\ BootCopy(ph').update \in {BootCopy(ph).update, nvms}
         /\ BootCopy(ph').active = BootCopy(ph).active
<1>1. /\ pc \in {"wr_backup", "wr_primary"}
      /\ c = "backup" \/ (c = "primary" /\ pc = "wr_primary")
  BY DEF Writing, Copies
<1>2. /\ ph \in [Copies -> ProductHeaders] /\ ph_buffer \in ProductHeaders
      /\ ph["primary"] \in ProductHeaders /\ ph["backup"] \in ProductHeaders
  BY DEF IInv, TypeOK, SwitchType, Copies
<1>3. SlotComplete(flash[nvms]) /\ ph_buffer.update = nvms
      /\ (pc = "wr_primary" => ph["backup"] = ph_buffer)
  BY <1>1 DEF ImgInv, SwitchReady
<1>4. nvms \in Slots /\ nvms # BootCopy(ph).active
  BY <1>2, <1>3, BootCopyRuns DEF ProductHeaders, BootInv, HandleElsewhere
<1>5. /\ q.active = ph[c].active \/ q.active = ph_buffer.active
      /\ q.update \in {ph[c].update, nvms}
      /\ q \in {ph[c], ph_buffer} \/ q.crc = "bad"
  BY <1>3 DEF Torn
<1>6. /\ ph["primary"].active = RunningSlot /\ ph["backup"].active = RunningSlot
      /\ ph_buffer.active = RunningSlot
  BY <1>1 DEF BootInv, OneRunningSlot, RunningSlot
<1>7. CASE c = "backup"
  <2>1. ph'["primary"] = ph["primary"] /\ ph'["backup"] = q
    BY <1>2, <1>7 DEF Copies
  <2> QED
    BY <1>3, <1>4, <1>5, <1>6, <1>7, <2>1 DEF BootCopy, Copies
<1>8. CASE c = "primary"
  <2>1. ph'["primary"] = q /\ ph'["backup"] = ph["backup"]
    BY <1>2, <1>8 DEF Copies
  <2>2. pc = "wr_primary" /\ ph["backup"] = ph_buffer
    BY <1>1, <1>3, <1>8
  <2> QED
    BY <1>3, <1>4, <1>5, <1>6, <1>8, <2>1, <2>2 DEF BootCopy, Copies
<1> QED
  BY <1>7, <1>8 DEF Copies

(* The boot loader takes over the slot that is selected, if it is complete *)
LEMMA BootLoads ==
  ASSUME IInv, ph' = Loaded
  PROVE  \/ UNCHANGED ph
         \/ /\ SlotComplete(flash[BootCopy(ph).update])
            /\ \A d \in Copies : ph'[d].update = BootCopy(ph).update
            /\ BootCopy(ph').update = BootCopy(ph).update
            /\ BootCopy(ph').active = BootCopy(ph).update
<1> DEFINE b == BootCopy(ph)
           n == [b EXCEPT !.active = b.update]
<1>1. b \in ProductHeaders
  BY DEF IInv, TypeOK, SwitchType, BootCopy, Copies
<1>2. n.active = b.update /\ n.update = b.update
  BY <1>1 DEF ProductHeaders
<1>3. CASE SlotComplete(flash[b.update]) /\ ph' = [c \in Copies |-> n]
  <2>1. ph'["primary"] = n /\ ph'["backup"] = n /\ \A d \in Copies : ph'[d] = n
    BY <1>3 DEF Copies
  <2>2. BootCopy(ph') = n
    BY <2>1 DEF BootCopy
  <2> QED
    BY <1>2, <1>3, <2>1, <2>2
<1> QED
  BY <1>3 DEF Loaded

-----------------------------------------------------------------------------
(* The theorems.                                                           *)

AllInv == IInv /\ BootInv /\ ImgInv

LEMMA InitAllInv == Init => AllInv
BY InitIInv, InitBootInv, InitImgInv DEF AllInv

LEMMA StepAllInv ==
  ASSUME Honest
  PROVE  AllInv /\ [Next]_vars => AllInv'
BY StepIInv, StepBootInv, StepImgInv DEF AllInv

(* While an image is received, its counters and addresses agree with each  *)
(* other and the image stays in its slot, wherever the lines were cut and  *)
(* whatever the flash refused.                                             *)
THEOREM ReceptionInPlace ==
  ASSUME Honest
  PROVE  Spec => []ImageInPlace
<1>1. AllInv => ImageInPlace
  <2> SUFFICES ASSUME IInv, HeaderGood, Addresses, alloc PROVE ImageInPlace
    BY DEF AllInv, ImgInv, ImageInPlace
  <2>1. 0 <= Hdr.size
    BY HdrType DEF IInv, TypeOK, BufferType, Headers
  <2>2. state = "W4_HEADER_EXT" => recv_image_len <= Hdr.size /\ Hdr.ivt + Hdr.size <= PART_SIZE
    BY <2>1 DEF Addresses, HeaderGood
  <2> QED
    BY <2>2 DEF Addresses, HeaderGood, ImageInPlace
<1> QED
  BY <1>1, InitAllInv, StepAllInv, PTL DEF Spec

(* No copy of the product header ever comes to point to a slot that does   *)
(* not hold a complete image: not by lost, repeated or reordered lines, by *)
(* stray commands, by errors of the flash or by a loss of power.           *)
THEOREM OnlyCompleteSelected ==
  ASSUME Honest
  PROVE  Spec => SwitchOnlyComplete
<1>1. ASSUME AllInv, [Next]_vars, NEW c \in Copies, ph'[c].update # ph[c].update
      PROVE  SlotComplete(flash'[ph'[c].update])
  <2>1. CASE UNCHANGED flash /\ pc = "off" /\ ph' = Loaded
    BY <1>1, <2>1, BootLoads DEF AllInv
  <2>2. CASE /\ UNCHANGED flash
             /\ \E d \in Copies : pc = Writing(d) /\
                  \E q \in Torn(ph[d], ph_buffer) \cup {ph[d], ph_buffer} :
                    ph' = [ph EXCEPT ![d] = q]
    BY <1>1, <2>2, CopySelects DEF AllInv
  <2> QED
    BY <1>1, <2>1, <2>2, HeaderSteps
<1>2. AllInv /\ [Next]_vars
        => [\A c \in Copies :
              ph'[c].update # ph[c].update => SlotComplete(flash'[ph'[c].update])]_vars
  BY <1>1
<1> QED
  BY <1>2, InitAllInv, StepAllInv, PTL DEF Spec, SwitchOnlyComplete

(* CMP_OK in answer to END tells the truth: both copies of the product     *)
(* header select one slot, other than the running one, with a complete     *)
(* image.                                                                  *)
THEOREM CmpOkIsTrue ==
  ASSUME Honest
  PROVE  Spec => CmpOkMeansSwitched
<1>1. ASSUME AllInv, [Next]_vars, pc = "wr_primary", out' = <<"CMP_OK", "OK">>
      PROVE  /\ ph'["primary"] = ph'["backup"]
             /\ ph'["primary"].crc = "ok"
             /\ ph'["primary"].update # ph'["primary"].active
             /\ SlotComplete(flash'[ph'["primary"].update])
  <2>1. out = <<>>
    BY <1>1 DEF AllInv, ImgInv, SwitchReady
  <2>2. UNCHANGED flash /\ ph' = [ph EXCEPT !["primary"] = ph_buffer]
    <3>1. out' # out /\ out' # <<>> /\ out' # <<"APP_ERROR", "ERROR">>
      BY <1>1, <2>1
    <3>2. ~Command
      BY <1>1 DEF Command, WriteStatus, PatchLenWrite, PatchData, MemDevOther, MemDevStart,
                  MemDevExit, MemDevEnd, MemDevReboot
    <3>3. ~PowerLoss /\ ~Boot /\ ~UNCHANGED vars
      BY <1>1, <3>1 DEF PowerLoss, Boot, Reset, vars, ramVars
    <3>4. Work => WritePrimary
      BY <1>1 DEF Work, PatchRefused, PatchIgnored, PullShort, HandleHeader, HandleHeaderExt,
                  HandleImageData, Handle, ChunkAdd, ChunkNotify, PatchReturn, WriteFwHeader,
                  ReadProductHeader, WriteBackup
    <3>5. WritePrimary
      BY <1>1, <3>2, <3>3, <3>4 DEF Next
    <3> QED
      BY <3>1, <3>5 DEF WritePrimary, WriteProductHeader, SwitchFails, Reply
  <2>3. /\ ph["backup"] = ph_buffer /\ ph_buffer.update = nvms /\ ph_buffer.crc = "ok"
        /\ SlotComplete(flash[nvms])
    BY <1>1 DEF AllInv, ImgInv, SwitchReady
  <2>4. ph_buffer.active # nvms
    BY <1>1 DEF AllInv, BootInv, OneRunningSlot, HandleElsewhere
  <2>5. ph \in [Copies -> ProductHeaders]
    BY <1>1 DEF AllInv, IInv, TypeOK, SwitchType
  <2>6. ph'["primary"] = ph_buffer /\ ph'["backup"] = ph["backup"]
    BY <2>2, <2>5 DEF Copies
  <2> QED
    BY <2>2, <2>3, <2>4, <2>6
<1>2. AllInv /\ [Next]_vars
        => [(pc = "wr_primary" /\ out' = <<"CMP_OK", "OK">>) =>
              /\ ph'["primary"] = ph'["backup"]
              /\ ph'["primary"].crc = "ok"
              /\ ph'["primary"].update # ph'["primary"].active
              /\ SlotComplete(flash'[ph'["primary"].update])]_vars
  BY <1>1
<1> QED
  BY <1>2, InitAllInv, StepAllInv, PTL DEF Spec, CmpOkMeansSwitched

(* The service engine implements the abstract update: for every size of    *)
(* the slots, the sectors and the buffer, and any number of failures, what *)
(* a client and the boot loader see is a slot that is filled, selected     *)
(* when it is complete, and started.                                       *)
THEOREM EngineImplementsUpdate ==
  ASSUME Honest
  PROVE  Spec => ImplementsFwSlots
<1>1. Init => Update!Init
  <2> SUFFICES ASSUME Init PROVE Update!Init
    OBVIOUS
  <2>1. BootCopy(ph) = FactoryHeader /\ flash = FactoryFlash
    BY FactoryAssumption DEF Init, BootCopy, Copies
  <2> QED
    BY <2>1, FactoryAssumption DEF Update!Init, ProductHeaders
<1>2. ASSUME AllInv, AllInv', [Next]_vars
      PROVE  [Update!Next]_(Update!vars)
  <2>1. CASE UNCHANGED ph
    <3>1. /\ BootCopy(ph)' = BootCopy(ph)
          /\ flash' \in [Slots -> Cells]
      BY <1>2, <2>1 DEF BootCopy, AllInv, IInv, TypeOK, FlashType
    <3>2. flash'[BootCopy(ph).active] = flash[BootCopy(ph).active]
      BY <1>2, StepBootInv, BootCopyRuns DEF AllInv, BootInv, SlotKept
    <3> QED
      BY <3>1, <3>2 DEF Update!Next, Update!Receive
  <2>2. CASE UNCHANGED flash /\ pc = "off" /\ ph' = Loaded
    <3>1. CASE UNCHANGED ph
      BY <2>1, <3>1
    <3>2. CASE /\ SlotComplete(flash[BootCopy(ph).update])
               /\ BootCopy(ph').update = BootCopy(ph).update
               /\ BootCopy(ph').active = BootCopy(ph).update
      BY <2>2, <3>2 DEF Update!Next, Update!Start, BootCopy
    <3> QED
      BY <1>2, <2>2, <3>1, <3>2, BootLoads DEF AllInv
  <2>3. CASE /\ UNCHANGED flash
             /\ \E d \in Copies : pc = Writing(d) /\
                  \E q \in Torn(ph[d], ph_buffer) \cup {ph[d], ph_buffer} :
                    ph' = [ph EXCEPT ![d] = q]
    <3>1. /\ nvms \in Slots /\ nvms # BootCopy(ph).active /\ SlotComplete(flash[nvms])
          /\ BootCopy(ph').update \in {BootCopy(ph).update, nvms}
          /\ BootCopy(ph').active = BootCopy(ph).active
      BY <1>2, <2>3, CopySelects DEF AllInv
    <3>2. CASE BootCopy(ph').update = BootCopy(ph).update
      BY <2>3, <3>1, <3>2 DEF Update!vars, BootCopy
    <3>3. CASE BootCopy(ph').update = nvms
      BY <2>3, <3>1, <3>3 DEF Update!Next, Update!Select, BootCopy
    <3> QED
      BY <3>1, <3>2, <3>3
  <2> QED
    BY <1>2, <2>1, <2>2, <2>3, HeaderSteps
<1> QED
  BY <1>1, <1>2, InitAllInv, StepAllInv, PTL DEF Spec, ImplementsFwSlots, Update!Spec

=============================================================================
