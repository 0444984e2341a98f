---------------------------- MODULE Serialization ----------------------------
(* The values in files of src/include/serialize.h: sizes of a varying number of bytes,
   strings, and data with their checksum.  A program writes one of them and reads it
   back, whole or cut off, or reads bytes that it finds.

   Sizes are written in groups of GroupBits bits (7 in the code), with a flag above
   them in each byte; rv is RvBits wide (64) and size_t SizeBits.  Checksums are the
   code's, as sets of bits; so are the bytes that they are made of. *)
EXTENDS Integers, Sequences

CONSTANTS GroupBits, RvBits, SizeBits,
          MaxLen,        \* the longest string that the reader accepts
          Strings,       \* sequences of bytes
          Found,         \* sequences of bytes that the reader finds
          Data           \* sequences of sets of bits 0 to 7

ASSUME SerializationAssumption ==
  /\ {GroupBits, RvBits, SizeBits} \subseteq Nat \ {0} /\ SizeBits <= RvBits
  /\ MaxLen \in Nat
  /\ Strings \cup Found \subseteq Seq(0 .. 2 ^ (GroupBits + 1) - 1)
  /\ \A s \in Strings : Len(s) < 2 ^ SizeBits
  /\ Data \subseteq Seq(SUBSET (0 .. 7))

VARIABLE tape       \* what is in the file, how it came there, and what was read

Flag == 2 ^ GroupBits
SizeMax == 2 ^ SizeBits - 1
Groups == (RvBits + GroupBits - 1) \div GroupBits      \* the bytes of the longest size

-----------------------------------------------------------------------------
(* Sizes and strings.  A reading function returns what it read and what follows. *)

Failed == [ok |-> FALSE]
Got(value, rest) == [ok |-> TRUE, value |-> value, rest |-> rest]

SerializeSize(x) ==
  LET Bytes[n \in Nat] == IF n < Flag THEN <<n>> ELSE <<(n % Flag) + Flag>> \o Bytes[n \div Flag]
  IN  Bytes[x]

(* The number in the first n bytes *)
Number(s, n) == LET Of[i \in 0 .. n] ==
                      IF i = 0 THEN 0 ELSE Of[i - 1] + (s[i] % Flag) * 2 ^ (GroupBits * (i - 1))
                IN  Of[n]

\* Mutant: the last byte may hold as many bits as the others.
FitsAnyway(s, n) == TRUE

(* The last byte holds only the bits that are left. *)
Fits(s, n) == n = Groups => s[n] < 2 ^ (RvBits - GroupBits * (Groups - 1))

(* rv loses the bits that are shifted too far. *)
DeserializeSize(s) ==
  LET ends == {i \in DOMAIN s : i <= Groups /\ s[i] < Flag}
      n == CHOOSE i \in ends : \A j \in ends : i <= j
      rv == Number(s, n) % 2 ^ RvBits
  IN  IF ends = {} \/ ~Fits(s, n) \/ rv > SizeMax THEN Failed
      ELSE Got(rv, SubSeq(s, n + 1, Len(s)))

SerializeString(s) == SerializeSize(Len(s)) \o s

DeserializeString(s, memory) ==
  LET n == DeserializeSize(s)
  IN  IF \/ ~n.ok
         \/ n.value > MaxLen \/ n.value >= SizeMax \/ Len(n.rest) < n.value
         \/ ~memory
      THEN Failed
      ELSE Got(SubSeq(n.rest, 1, n.value), SubSeq(n.rest, n.value + 1, Len(n.rest)))

-----------------------------------------------------------------------------
(* Checksums *)

Bits == 0 .. 31

Xor(a, b) == (a \ b) \cup (b \ a)

(* Eight hexadecimal digits *)
Word(digits) == {i \in Bits : (digits[8 - (i \div 4)] \div 2 ^ (i % 4)) % 2 = 1}

CrcTable ==
  LET hex == << <<0,0,0,0,0,0,0,0>>,     <<1,13,11,7,1,0,6,4>>,   <<3,11,6,14,2,0,12,8>>,
                <<2,6,13,9,3,0,10,12>>,  <<7,6,13,12,4,1,9,0>>,   <<6,11,6,11,5,1,15,4>>,
                <<4,13,11,2,6,1,5,8>>,   <<5,0,0,5,7,1,3,12>>,    <<14,13,11,8,8,3,2,0>>,
                <<15,0,0,15,9,3,4,4>>,   <<13,6,13,6,10,3,14,8>>, <<12,11,6,1,11,3,8,12>>,
                <<9,11,6,4,12,2,11,0>>,  <<8,6,13,3,13,2,13,4>>,  <<10,0,0,10,14,2,7,8>>,
                <<11,13,11,13,15,2,1,12>> >>
  IN  [i \in 0 .. 15 |-> Word(hex[i + 1])]

(* Four bits go out, and the table has what to do for them. *)
FourBits(crc) ==
  LET low == CHOOSE d \in 0 .. 15 : \A k \in 0 .. 3 : (d \div 2 ^ k) % 2 = 1 <=> k \in crc
  IN  Xor({i \in Bits : i + 4 \in crc}, CrcTable[low])

\* Mutant: a later piece goes on from the checksum as it was returned.
Crc32UpdateUninverted(crc, data) ==
  LET Crc[n \in 0 .. Len(data)] ==
        IF n = 0 THEN crc ELSE FourBits(FourBits(Xor(Crc[n - 1], data[n])))
  IN  Bits \ Crc[Len(data)]

Crc32Update(crc, data) ==
  LET Crc[n \in 0 .. Len(data)] ==
        IF n = 0 THEN Bits \ crc ELSE FourBits(FourBits(Xor(Crc[n - 1], data[n])))
  IN  Bits \ Crc[Len(data)]

(* A checksum is written in four bytes, the lowest first. *)
SerializeU32(x) == [i \in 1 .. 4 |-> {k \in 0 .. 7 : k + 8 * (i - 1) \in x}]
DeserializeU32(s) == IF Len(s) < 4 THEN Failed
                     ELSE Got({j \in Bits : j % 8 \in s[(j \div 8) + 1]}, SubSeq(s, 5, Len(s)))

(* Data with its checksum in front, as the files of arrays have it *)
SerializeData(data) == SerializeU32(Crc32Update({}, data)) \o data
DeserializeData(s) ==
  LET crc == DeserializeU32(s)
  IN  IF crc.ok /\ Crc32Update({}, crc.rest) = crc.value THEN Got(crc.rest, <<>>) ELSE Failed

-----------------------------------------------------------------------------
(* The program *)

Fresh(kind, item, bytes, fate) ==
  tape' = [kind |-> kind, item |-> item, bytes |-> bytes, fate |-> fate, read |-> <<>>]

Write == \/ \E x \in 0 .. SizeMax : Fresh("size", x, SerializeSize(x), "whole")
         \/ \E s \in Strings : Fresh("string", s, SerializeString(s), "whole")
         \/ \E d \in Data : Fresh("data", d, SerializeData(d), "whole")

Find == \E kind \in {"size", "string"}, s \in Found : Fresh(kind, <<>>, s, "found")

CutOff == \E n \in 0 .. Len(tape.bytes) - 1 :
            tape' = [tape EXCEPT !.bytes = SubSeq(@, 1, n), !.fate = "cut off"]

Changed == /\ tape.kind = "data"
           /\ \E s \in Data : /\ Len(s) = Len(tape.item) /\ s # tape.item
                              /\ tape' = [tape EXCEPT !.bytes = SubSeq(@, 1, 4) \o s,
                                                      !.fate = "changed"]

Deserialized(memory) ==
  CASE tape.kind = "size" -> DeserializeSize(tape.bytes)
    [] tape.kind = "string" -> DeserializeString(tape.bytes, memory)
    [] tape.kind = "data" -> DeserializeData(tape.bytes)

ReadBack == \E memory \in BOOLEAN :
              tape' = [tape EXCEPT !.read = <<Deserialized(memory), memory>>]

TapeInit == tape = [kind |-> "none"]

TapeNext == \/ tape.kind = "none" /\ (Write \/ Find)
            \/ tape.kind # "none" /\ tape.read = <<>> /\ tape.fate = "whole" /\ (CutOff \/ Changed)
            \/ tape.kind # "none" /\ tape.read = <<>> /\ ReadBack
            \/ tape.kind # "none" /\ tape.read # <<>> /\ tape' = [kind |-> "none"]

-----------------------------------------------------------------------------
(* What was written whole is read as it was; a string only if there is memory and the
   reader accepts its length.  Of what was cut off or changed nothing is believed. *)
ReadAsWritten ==
  LET r == tape.read[1]
      acceptable == tape.kind = "string" =>
                      tape.read[2] /\ Len(tape.item) <= MaxLen /\ Len(tape.item) < SizeMax
  IN  /\ tape.fate = "whole" => r = IF acceptable THEN Got(tape.item, <<>>) ELSE Failed
      /\ tape.fate \in {"cut off", "changed"} => r = Failed

(* A size is the number that its bytes say, however they came there: no bit is lost. *)
NothingShiftedOut ==
  LET r == tape.read[1]
  IN  tape.kind = "size" /\ r.ok => r.value = Number(tape.bytes, Len(tape.bytes) - Len(r.rest))

(* The checksum by its definition in IEEE 802.3, with polynomials over two elements as
   sets of exponents: the remainder of the data, its first 32 bits inverted, by this
   polynomial, with the lowest bits of bytes first. *)
Ieee == {0, 1, 2, 4, 5, 7, 8, 10, 11, 12, 16, 22, 23, 26, 32}

Remainder(data) ==
  LET n == 8 * Len(data)
      message == {32 + n - 1 - j : j \in {i \in 0 .. n - 1 : i % 8 \in data[(i \div 8) + 1]}}
      Divided[k \in 0 .. n] ==
        IF k = 0 THEN Xor(message, n .. n + 31)
        ELSE LET top == n + 32 - k
                 rest == Divided[k - 1]
             IN  IF top \in rest THEN Xor(rest, {e + top - 32 : e \in Ieee}) ELSE rest
  IN  Bits \ {31 - e : e \in Divided[n]}

(* It is the same in one piece and in two. *)
ChecksumRight ==
  LET d == tape.item
  IN  tape.kind = "data" =>
        \A n \in 0 .. Len(d) :
          Remainder(d) = Crc32Update(Crc32Update({}, SubSeq(d, 1, n)), SubSeq(d, n + 1, Len(d)))

WasRead == tape.kind # "none" /\ tape.read # <<>>

(* Sizes, strings and data are read back as they were written; of a size or string that
   was cut off nothing is, and no number is read that the bytes do not say. *)
FilesReadBack ==
  WasRead => /\ tape.kind # "data" \/ tape.fate = "whole" => ReadAsWritten
             /\ NothingShiftedOut

(* Data with a checksum are not believed when they were cut off or changed, and the checksum
   is the one of the standard. *)
DamageSeen == WasRead /\ tape.kind = "data" => ReadAsWritten /\ ChecksumRight
=============================================================================
