------------------------------- MODULE Crc16 -------------------------------
(***************************************************************************)
(* The checksum of UHFReader18 frames (checksum.py): the bit-reflected     *)
(* CRC-16/CCITT, preset to all ones, no final exclusive-or.  The register  *)
(* is a 16-bit integer; an exclusive-or is computed bit by bit.            *)
(***************************************************************************)
EXTENDS Integers, Sequences

WORDS == 256 * 256        \* how many values a word has

CRC_PRESET     == WORDS - 1   \* 0xFFFF

\* Fault for CRC_POLYNOMIAL: 0x1021, the same polynomial unreflected.
CRC_POLYNOMIAL_Unreflected == 4129

CRC_POLYNOMIAL == 33800   \* 0x8408

Byte == 0 .. 255
Word == 0 .. WORDS - 1

\* a ^ b: each bit of the result is the sum modulo 2, here for four bits ...
XorNibble ==
    LET bit(x, weight) == (x \div weight) % 2
        sum(a, b, weight) == weight * ((bit(a, weight) + bit(b, weight)) % 2)
    IN  [a \in 0 .. 15 |-> [b \in 0 .. 15 |->
           sum(a, b, 1) + sum(a, b, 2) + sum(a, b, 4) + sum(a, b, 8)]]

\* ... and for the four digits of a word.
Xor(a, b) ==
    LET digit(x, weight) == (x \div weight) % 16
        xor(weight) == weight * XorNibble[digit(a, weight)][digit(b, weight)]
    IN  xor(1) + xor(16) + xor(256) + xor(4096)

ShiftBit(crc) ==
    IF crc % 2 = 1 THEN Xor(crc \div 2, CRC_POLYNOMIAL) ELSE crc \div 2

\* What k more shifts make of the register.
Shifts ==
    LET shift[k \in 0 .. 8] ==
          [crc \in Word |-> IF k = 0 THEN crc ELSE shift[k - 1][ShiftBit(crc)]]
    IN  shift

\* The body of the outer loop: fold a byte into the register, shift 8 times.
AddByte(register, byte) == Shifts[8][Xor(register, byte)]

\* What the bytes behind the first k make of the register.
Registers(data) ==
    LET fold[k \in 0 .. Len(data)] ==
          [crc \in Word |-> IF k = Len(data) THEN crc ELSE fold[k + 1][AddByte(crc, data[k + 1])]]
    IN  fold

crc16(data) == Registers(data)[0][CRC_PRESET] % WORDS
=============================================================================
