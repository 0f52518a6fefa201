-------------------------------- MODULE MCCrc32 --------------------------------
(***************************************************************************)
(* Values of the constant of Crc32 for TLC.                                *)
(***************************************************************************)
EXTENDS Crc32

\* Every message of one byte, messages of two bytes, the empty message, and
\* the digits "123456789", the customary test of a CRC.
Digit(n) == {4, 5} \cup (CASE n = 1 -> {0} [] n = 2 -> {1} [] n = 3 -> {0, 1} [] n = 4 -> {2}
                           [] n = 5 -> {0, 2} [] n = 6 -> {1, 2} [] n = 7 -> {0, 1, 2}
                           [] n = 8 -> {3} [] n = 9 -> {0, 3})

Digits == [n \in 1 .. 9 |-> Digit(n)]

SomeBytes == {{}, {0}, {7}, {1, 3, 6}, 0 .. 7}

SingleMessages ==
  {<<m>> : m \in {<<b>> : b \in Byte} \cup {<<b, c>> : b, c \in SomeBytes}
                  \cup {<<>>, Digits}}

\* Messages of six bytes, each with a burst of up to 32 bits changed: one bit,
\* two bits as far apart as can be had, or all bits between.
SixBytes == [n \in 1 .. 6 |-> {n}]

Changed(m, bits) ==
  [n \in DOMAIN m |-> SymDiff(m[n], {b \in 0 .. 7 : 8 * (n - 1) + b \in bits})]

Bursts ==
  {{first, last} : first \in 0 .. 47, last \in 0 .. 47} \cup
  {first .. last : first \in 0 .. 47, last \in 0 .. 47}

BurstPairs ==
  {<<SixBytes, Changed(SixBytes, b)>> :
     b \in {c \in Bursts : c # {} /\ Max(c) - Min(c) < 32}}

AllMessages == SingleMessages \cup BurstPairs

=============================================================================
