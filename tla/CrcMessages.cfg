\* The checksum of a message against its definition, and the checksums of two
\* messages that differ in a burst of bits.
CONSTANT Messages <- AllMessages
SPECIFICATION CrcSpec
INVARIANTS
  IsRemainder
  BurstsAreSeen
\* The checksums of one set of messages are calculated.
CHECK_DEADLOCK FALSE
