--------------------------------- MODULE Crc32 ---------------------------------
(***************************************************************************)
(* CalculateCrc32 of Entry.cpp, bit by bit.  A register or a byte is the   *)
(* set of the positions of its one bits, position 0 the least significant, *)
(* so exclusive or is the symmetric difference of two sets.  The checksums *)
(* of several messages of one length are computed side by side, because    *)
(* what a checksum is for is to differ between two of them.                *)
(***************************************************************************)
EXTENDS Integers, Sequences, FiniteSetsExt

CONSTANT
  Messages   \* the sets of messages considered: each a function to Seq(Byte)

Word == 0 .. 31
Byte == SUBSET (0 .. 7)

\* Messages computed side by side: at least one, and all of one length.
SideBySide(messages) ==
  /\ DOMAIN messages # {}
  /\ \A c \in DOMAIN messages : messages[c] \in Seq(Byte)
  /\ \A c, d \in DOMAIN messages : Len(messages[c]) = Len(messages[d])

ASSUME MessagesAssumption == \A messages \in Messages : SideBySide(messages)

VARIABLES
  message,   \* Bytes of each computation
  next,      \* the byte taken next
  bit,       \* Bit; 8 once the loop over a byte's bits is done
  crc,       \* Crc of each computation
  done

crcVars == <<message, next, bit, crc, done>>

Copies == DOMAIN message
Length == Len(message[CHOOSE c \in Copies : TRUE])

(* 0xEDB88320 *)
Polynomial == {5, 8, 9, 15, 19, 20, 21, 23, 24, 26, 27, 29, 30, 31}

(* Mutant: the polynomial is put in with or. *)
ShiftedWithOr(r) ==
  {p - 1 : p \in r \ {0}} \cup (IF 0 \in r THEN Polynomial ELSE {})

(* Mutant: the polynomial is put in before the shift. *)
ShiftedLate(r) ==
  {p - 1 : p \in (IF 0 \in r THEN SymDiff(r, Polynomial) ELSE r) \ {0}}

(* One bit of the register is shifted out. *)
Shifted(r) ==
  SymDiff({p - 1 : p \in r \ {0}}, IF 0 \in r THEN Polynomial ELSE {})

CrcInit ==
  /\ message \in Messages
  /\ next = 1
  /\ bit = 8
  /\ crc = [c \in Copies |-> Word]
  /\ done = FALSE

TakeByte ==
  /\ bit = 8 /\ next <= Length
  /\ crc' = [c \in Copies |-> SymDiff(crc[c], message[c][next])]
  /\ bit' = 0
  /\ next' = next + 1
  /\ UNCHANGED <<message, done>>

ShiftBit ==
  /\ bit < 8
  /\ crc' = [c \in Copies |-> Shifted(crc[c])]
  /\ bit' = bit + 1
  /\ UNCHANGED <<message, next, done>>

Return ==
  /\ bit = 8 /\ next > Length /\ ~done
  /\ crc' = [c \in Copies |-> Word \ crc[c]]
  /\ done' = TRUE
  /\ UNCHANGED <<message, next, bit>>

CrcNext == TakeByte \/ ShiftBit \/ Return

CrcSpec == CrcInit /\ [][CrcNext]_crcVars

-----------------------------------------------------------------------------

(***************************************************************************)
(* CRC-32 as it is defined: the remainder, modulo the generator, of the    *)
(* message as a polynomial over GF(2) times x^32, with its first 32        *)
(* coefficients inverted.  A polynomial is the set of its exponents; the   *)
(* first bit of a message is its highest coefficient, and the register     *)
(* holds the remainder with the coefficient of x^e in bit 31 - e.          *)
(***************************************************************************)
Generator == {32, 26, 23, 22, 16, 12, 11, 10, 8, 7, 5, 4, 2, 1, 0}

\* The bits of the first n bytes of a message, numbered from 0.
BitsOf(m, n) == {i \in 0 .. 8 * n - 1 : (i % 8) \in m[i \div 8 + 1]}

Dividend(m, n) ==
  LET top == 8 * n + 31
  IN SymDiff({top - i : i \in BitsOf(m, n)}, {top - i : i \in Word})

\* What is left of p, whose highest coefficient is that of x^e, once that is zero.
DividedOut(p, e) ==
  IF e \in p THEN SymDiff(p, {g + (e - 32) : g \in Generator}) ELSE p

\* What is left of p once the coefficients above x^e are zero, for each e.
Rests(p, top) ==
  LET rest[e \in 31 .. top] == IF e = top THEN p ELSE DividedOut(rest[e + 1], e + 1)
  IN rest

RemainderOf(m, n) == Rests(Dividend(m, n), 8 * n + 31)[31]

(* After each byte the register holds the remainder of the bytes so far,   *)
(* and the value returned is the inverted remainder of all of them.        *)
IsRemainder ==
  bit = 8 =>
    \A c \in Copies :
      LET remainder == {31 - e : e \in RemainderOf(message[c], next - 1)}
      IN crc[c] = IF done THEN Word \ remainder ELSE remainder

(* Two messages that differ, and only within 32 consecutive bits, have     *)
(* different checksums: ReadEfiSystemTable never takes a table one word of *)
(* which was written between its two reads for the one it belongs to.      *)
BurstsAreSeen ==
  done => \A c, d \in Copies :
    LET changed == SymDiff(BitsOf(message[c], Length), BitsOf(message[d], Length))
    IN changed # {} /\ Max(changed) - Min(changed) < 32 => crc[c] # crc[d]

=============================================================================
