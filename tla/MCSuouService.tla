--------------------------- MODULE MCSuouService ---------------------------
(***************************************************************************)
(* A small device for TLC: a header of two bytes, sectors of four, slots   *)
(* of eight, and one good image whose code lies across a sector boundary.  *)
(***************************************************************************)
EXTENDS SuouImplements

Image == <<"hA1", "hA2", "ext", "d1", "d2", "d3", "d4">>  \* header, extension, code
OldImage == <<"hO1", "hO2", "o1">>

MCByte == {"hA1", "hA2", "hB2", "hC2", "hO1", "hO2", "ext", "d1", "d2", "d3", "d4", "o1",
           "zero", "erased", "garbage"}

MCParseHeader(s) ==
  CASE s = <<"hA1", "hA2">> -> [id_ok |-> TRUE, ivt |-> 3, size |-> 4, crc |-> <<"d1", "d2", "d3", "d4">>]
    [] s = <<"hA1", "hC2">> -> [id_ok |-> TRUE, ivt |-> 3, size |-> 6, crc |-> <<"d1", "d2", "d3", "d4", "o1", "o1">>]
    [] s = <<"hO1", "hO2">> -> [id_ok |-> TRUE, ivt |-> 2, size |-> 1, crc |-> <<"o1">>]
    [] s = <<"zero", "zero">> -> [id_ok |-> FALSE, ivt |-> 0, size |-> 0, crc |-> <<>>]
    [] OTHER                -> [id_ok |-> FALSE, ivt |-> 0, size |-> 0, crc |-> <<"garbage">>]

Padded(s) == [x \in 0..PART_SIZE-1 |-> IF x < Len(s) THEN s[x + 1] ELSE "garbage"]
MCFactoryFlash == [s \in Slots |-> Padded(OldImage)]
MCFactoryHeader == [head |-> "ok", active |-> "slot1", update |-> "slot1",
                    body |-> "good", crc |-> "ok"]

\* The image cut in several ways, so that pieces may be lost, repeated or out of order,
\* and two headers that are refused.
Piece(i, j) == SubSeq(Image, i, j)
CutLines == {Piece(1, 1), Piece(2, 4), Piece(4, 5), Piece(5, 7), Piece(6, 7),
             <<"hB2", "hA1">>, <<"hA1", "hC2">>}
WholeLines == {Piece(1, 3), Piece(4, 7)}

ASSUME MCImagesAssumption == HonestImages

=============================================================================
