----------------------------- MODULE MemoryTypes -----------------------------
(***************************************************************************)
(* The value types every component of Memory/ is built on: Address<Domain> *)
(* (Include/Memory/Address.hpp), MemoryRegion (MemoryRegion.hpp) and       *)
(* MemoryError (MemoryError.hpp), over an address space of MaxAddress + 1  *)
(* bytes divided into pages of PageSize bytes.                             *)
(*                                                                         *)
(* An expected<T, MemoryError> is a record.  A call that transfers bytes   *)
(* answers how many it transferred, and on failure the address it blames.  *)
(***************************************************************************)
EXTENDS Integers

CONSTANTS
  MaxAddress,   \* numeric_limits<uint64_t>::max()
  PageSize      \* Detail::PhysicalPageSize and PAGE_SIZE

\* The address space is a whole number of pages, as 2^64 is of 4096 bytes.
ASSUME GeometryAssumption ==
  /\ PageSize \in Nat \ {0}
  /\ MaxAddress \in Nat
  /\ (MaxAddress + 1) % PageSize = 0

Address == 0 .. MaxAddress

(* Address::Offset yields an address, not AddressOverflow. *)
CanOffset(a, n) == n <= MaxAddress - a

(* Address::AlignDown(PhysicalPageSize): the base of the page holding a. *)
PageBase(a) == a - (a % PageSize)

(* Where in its page the address lies. *)
PageOffset(a) == a % PageSize

Pages == {a \in Address : a % PageSize = 0}

(* MemoryRegion::Create yields a region of n bytes at a. *)
IsRegion(a, n) == n # 0 /\ CanOffset(a, n - 1)

StdMin(x, y) == IF x <= y THEN x ELSE y

-----------------------------------------------------------------------------

(* The answer of a transfer: all n bytes, or MemoryError{Code,             *)
(* BytesTransferred, FaultAddress}.                                        *)
Success(n) == [code |-> "Success", bytes |-> n, fault |-> 0]

(* Mutant: the address blamed counts the bytes transferred once more.      *)
FailureCountsTwice(c, n, a) == [code |-> c, bytes |-> n, fault |-> a + n]

Failure(c, n, a) == [code |-> c, bytes |-> n, fault |-> a]

(* A call that has not answered yet. *)
Pending == [code |-> "Pending", bytes |-> 0, fault |-> 0]

ErrorCodes == {"AddressOverflow", "InvalidRange", "MappingFailed"}

Answers == [code : ErrorCodes \cup {"Success", "Pending"},
            bytes : Nat, fault : Address]

(***************************************************************************)
(* What PhysicalMemoryReader::ReadInto promises to answer to a read of len *)
(* bytes at src, when reads of the pages of solid never fail: an empty     *)
(* read and a read past the end of the address space are settled at once;  *)
(* any other read delivers everything, or stops at a byte of a page that   *)
(* is not solid, blames that byte, and has delivered every byte before it. *)
(* PhysicalMemoryReader is shown to implement this, and the scan of        *)
(* EfiTableScan relies on nothing else.                                    *)
(***************************************************************************)
ReadAnswers(src, len, solid) ==
  IF len = 0 THEN {Success(0)}
  ELSE IF ~CanOffset(src, len - 1) THEN {Failure("AddressOverflow", 0, src)}
  ELSE {Success(len)} \cup
       {Failure("MappingFailed", k, src + k) :
          k \in {i \in 0 .. len - 1 : PageBase(src + i) \notin solid}}

(***************************************************************************)
(* What PhysicalMemoryWriter::Write promises to answer to a write of len   *)
(* bytes at dst, when the pages of solid can always be mapped.  It stops   *)
(* only between pages: the byte blamed is the first of the write in a page *)
(* that could not be mapped.  PhysicalMemoryWriter is shown to implement   *)
(* this, and VirtualMemoryTransfer relies on nothing else.                 *)
(***************************************************************************)
WriteAnswers(dst, len, solid) ==
  IF len = 0 THEN {Success(0)}
  ELSE IF ~CanOffset(dst, len - 1) THEN {Failure("AddressOverflow", 0, dst)}
  ELSE {Success(len)} \cup
       {Failure("MappingFailed", k, dst + k) :
          k \in {i \in 0 .. len - 1 : /\ i = 0 \/ PageOffset(dst + i) = 0
                                     /\ PageBase(dst + i) \notin solid}}

=============================================================================
