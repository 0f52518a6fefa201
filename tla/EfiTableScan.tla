----------------------------- MODULE EfiTableScan -----------------------------
(***************************************************************************)
(* The driver's search for EFI_SYSTEM_TABLE (Source/Entry.cpp):            *)
(* FindEfiSystemTable reads physical memory a buffer at a time and steps   *)
(* over the pages it cannot read, ScanBuffer looks for the signature in    *)
(* what was read, and ReadEfiSystemTable reads a candidate again, header   *)
(* first and then whole, and validates it.  The rest of the machine keeps  *)
(* running, so memory may change between any two of these reads.           *)
(*                                                                         *)
(* Every read is one call of PhysicalMemoryReader and may answer anything  *)
(* ReadAnswers allows.                                                     *)
(*                                                                         *)
(* The content of an address a is what would be found there if a table     *)
(* were looked for at a:                                                   *)
(*   body  the bytes but for the stored Crc32, as far as the code tells    *)
(*         them apart: kind is how far the header looks like a table's,    *)
(*         plausible whether the fields behind it do, size the HeaderSize  *)
(*         claimed, and tag tells apart bodies that look alike             *)
(*   crc   the stored Crc32, whatever bytes it is the checksum of          *)
(* Two bodies may have the same checksum.  A read returns the content of   *)
(* one moment, so a read that others' writes tear is left out.             *)
(***************************************************************************)
EXTENDS MemoryTypes

CONSTANTS
  ScanSize,        \* PhysicalScanSize; PhysicalScanStart is 0
  BufferSize,      \* ScanBufferSize
  SignatureSize,   \* sizeof(EfiSystemTableSignature)
  TableAlignment,  \* EfiSystemTableAlignment
  HeaderBytes,     \* sizeof(EfiTableHeader)
  MinTableSize,    \* sizeof(EfiSystemTable)
  MaxTableSize,    \* MaximumEfiSystemTableSize
  Checksum(_, _),  \* CalculateCrc32 of the first so many bytes of a body
  Contents,        \* the contents addresses may have
  Memories,        \* the initial contents of memory considered
  SolidSets,       \* the sets of pages reads of which never fail considered
  MaxWrites        \* bound: changes to memory while the scan runs

Kinds ==
  { "other",       \* does not start with the signature's first byte
    "lead",        \* starts with it, but is not the signature
    "reserved",    \* the signature, but Reserved is not 0
    "header" }     \* nothing wrong with the header but perhaps the size

ASSUME ScanAssumption ==
  /\ ScanSize \in Nat /\ ScanSize <= MaxAddress + 1 /\ ScanSize % PageSize = 0
  /\ BufferSize \in Nat \ {0} /\ BufferSize % PageSize = 0
  /\ SignatureSize \in Nat \ {0} /\ SignatureSize <= PageSize
  /\ TableAlignment \in Nat \ {0}
  /\ HeaderBytes \in Nat \ {0} /\ MinTableSize \in Nat /\ MaxTableSize \in Nat
  /\ HeaderBytes <= MinTableSize
  /\ Contents \subseteq
       [body : [kind : Kinds, plausible : BOOLEAN, size : Nat, tag : Nat], crc : Nat]
  /\ Memories \subseteq [Address -> Contents]
  /\ SolidSets \subseteq SUBSET Pages
  /\ MaxWrites \in Nat

VARIABLES
  pc,          \* where FindEfiSystemTable and the calls it makes are
  mem,         \* the content of each address
  solid,       \* the pages reads of which never fail
  held,        \* history: the contents each address has had so far
  writes,      \* changes made to memory
  current,     \* CurrentAddress
  remaining,   \* RemainingBytes
  buffer,      \* Buffer: the contents it was filled from
  readable,    \* ReadableBytes
  advance,     \* BytesToAdvance
  search,      \* SearchOffset
  candidate,   \* the last CandidateAddress examined, or NoAddress
  header,      \* what is used later of the header read last
  result       \* what FindEfiSystemTable returned, or Searching

memory == <<mem, solid, held, writes>>
chunk == <<current, remaining, buffer, readable, advance>>
vars == <<pc, memory, chunk, search, candidate, header, result>>

NoAddress == -1
Blank ==
  [body |-> [kind |-> "other", plausible |-> FALSE, size |-> 0, tag |-> 0], crc |-> 0]
NoHeader == [size |-> 0, crc |-> 0]

Searching == [status |-> "Searching", address |-> NoAddress]
NotFound == [status |-> "NotFound", address |-> NoAddress]
OutOfMemory == [status |-> "InsufficientResources", address |-> NoAddress]
Found(a) == [status |-> "Found", address |-> a]

-----------------------------------------------------------------------------

(* What the validation looks at, in the order it does. *)
StartsLikeSignature(body) == body.kind # "other"
HasSignature(body) == body.kind \notin {"other", "lead"}

HeaderAccepted(body) ==
  /\ HasSignature(body)
  /\ body.kind # "reserved"
  /\ body.size >= MinTableSize
  /\ body.size <= MaxTableSize

(* RuntimeServices, and the configuration table's count and address.       *)
IsPlausible(body) == body.plausible

(* HeaderSize and Crc32 as the read of the header alone found them.        *)
HeaderOf(c) == [size |-> c.body.size, crc |-> c.crc]

(* Mutant: the Crc32 compared is the one the second read found. *)
ChecksumMatchesOwnCrc(c, head) == c.crc = Checksum(c.body, head.size)

(* The bytes of the second read, the Crc32 among them zeroed, have the     *)
(* checksum that the first read found.  Nothing else of the header is      *)
(* looked at again.                                                        *)
ChecksumMatches(c, head) == head.crc = Checksum(c.body, head.size)

(* Mutant: the fault's page is scanned again from its start. *)
NextPageOffsetDown(offset) == offset - (offset % PageSize)

(* Mutant: the page after the fault's page is skipped too. *)
NextPageOffsetFar(offset) ==
  (offset + 2 * PageSize) - ((offset + 2 * PageSize) % PageSize)

(* Mutant: a page's size beyond the fault, wherever in its page that was. *)
NextPageOffsetUnaligned(offset) == offset + PageSize

(* The offset of the page after the one holding offset. *)
NextPageOffset(offset) ==
  (offset + PageSize) - ((offset + PageSize) % PageSize)

(* Mutant: a whole buffer is read also where less of the range is left. *)
BytesToReadWholeBuffer == BufferSize

BytesToRead == StdMin(remaining, BufferSize)

(* How far the scan moves on after a read with the given answer. *)
BytesToAdvance(answer) ==
  IF /\ answer.code # "Success"
     /\ answer.fault >= current
     /\ answer.fault - current < BytesToRead
  THEN StdMin(BytesToRead, NextPageOffset(answer.fault - current))
  ELSE BytesToRead

(* The offsets memchr can still find in the bytes read, and the first.     *)
Matches ==
  {o \in search .. readable - 1 : StartsLikeSignature(buffer[o].body)}

IsFirstMatch(o) == o \in Matches /\ \A p \in Matches : o <= p

(* Mutant: a signature cut off by the end of the bytes read is no match.   *)
WorthReadingWhole(o) ==
  /\ CanOffset(current, o)
  /\ (current + o) % TableAlignment = 0
  /\ o + SignatureSize < readable
  /\ HasSignature(buffer[o].body)

(* ScanBuffer goes on to read the table at offset o: it is aligned, and    *)
(* as much of its signature as was read is right.                          *)
WorthReading(o) ==
  /\ CanOffset(current, o)
  /\ (current + o) % TableAlignment = 0
  /\ o + SignatureSize <= readable => HasSignature(buffer[o].body)

-----------------------------------------------------------------------------

Init ==
  /\ mem \in Memories
  /\ solid \in SolidSets
  /\ held = [a \in Address |-> {mem[a]}]
  /\ writes = 0
  /\ pc = "allocate"
  /\ current = 0
  /\ remaining = ScanSize
  /\ buffer = [o \in 0 .. BufferSize - 1 |-> Blank]
  /\ readable = 0
  /\ advance = 0
  /\ search = 0
  /\ candidate = NoAddress
  /\ header = NoHeader
  /\ result = Searching

Finish(r) == pc' = "done" /\ result' = r

(* new (nothrow) byte[ScanBufferSize] *)
AllocateBuffer ==
  /\ pc = "allocate"
  /\ \/ pc' = "read" /\ UNCHANGED result
     \/ Finish(OutOfMemory)
  /\ UNCHANGED <<memory, chunk, search, candidate, header>>

(* Reader.ReadInto of the next bytes; those transferred overwrite the      *)
(* buffer, also when the read fails.                                       *)
ReadChunk ==
  /\ pc = "read"
  /\ remaining # 0
  /\ \E answer \in ReadAnswers(current, BytesToRead, solid) :
       /\ buffer' = [o \in DOMAIN buffer |->
                       IF o < answer.bytes THEN mem[current + o] ELSE buffer[o]]
       /\ readable' = StdMin(answer.bytes, BytesToRead)
       /\ advance' = BytesToAdvance(answer)
       /\ pc' = IF answer.bytes >= SignatureSize THEN "scan" ELSE "advance"
  /\ search' = 0
  /\ UNCHANGED <<memory, current, remaining, candidate, header, result>>

(* The whole range has been read. *)
EndOfRange ==
  /\ pc = "read"
  /\ remaining = 0
  /\ Finish(NotFound)
  /\ UNCHANGED <<memory, chunk, search, candidate, header>>

(* memchr finds a byte that is no candidate. *)
SkipMatch ==
  /\ pc = "scan"
  /\ \E o \in Matches :
       /\ IsFirstMatch(o)
       /\ ~WorthReading(o)
       /\ search' = o + 1
  /\ UNCHANGED <<pc, memory, chunk, candidate, header, result>>

(* memchr finds a candidate, and ReadEfiSystemTable is called. *)
TakeCandidate ==
  /\ pc = "scan"
  /\ \E o \in Matches :
       /\ IsFirstMatch(o)
       /\ WorthReading(o)
       /\ search' = o + 1
       /\ candidate' = current + o
  /\ pc' = "header"
  /\ UNCHANGED <<memory, chunk, header, result>>

(* memchr finds nothing more. *)
EndOfBuffer ==
  /\ pc = "scan"
  /\ Matches = {}
  /\ pc' = "advance"
  /\ UNCHANGED <<memory, chunk, search, candidate, header, result>>

(* The candidate's header is read and looked at. *)
ReadHeader ==
  /\ pc = "header"
  /\ \E answer \in ReadAnswers(candidate, HeaderBytes, solid) :
       IF answer.code = "Success" /\ HeaderAccepted(mem[candidate].body)
       THEN pc' = "body" /\ header' = HeaderOf(mem[candidate])
       ELSE pc' = "scan" /\ UNCHANGED header
  /\ UNCHANGED <<memory, chunk, search, candidate, result>>

(* HeaderSize bytes are read again from the start, checked against the     *)
(* Crc32 read before, and the fields looked at.                            *)
ReadTable ==
  /\ pc = "body"
  /\ \E answer \in ReadAnswers(candidate, header.size, solid) :
       IF /\ answer.code = "Success"
          /\ ChecksumMatches(mem[candidate], header)
          /\ IsPlausible(mem[candidate].body)
       THEN Finish(Found(candidate))
       ELSE pc' = "scan" /\ UNCHANGED result
  /\ UNCHANGED <<memory, chunk, search, candidate, header>>

(* CurrentAddress and RemainingBytes move on. *)
Advance ==
  /\ pc = "advance"
  /\ current' = current + advance
  /\ remaining' = remaining - advance
  /\ pc' = "read"
  /\ UNCHANGED <<memory, buffer, readable, advance, search, candidate, header, result>>

ScanStep ==
  \/ AllocateBuffer \/ ReadChunk \/ EndOfRange
  \/ SkipMatch \/ TakeCandidate \/ EndOfBuffer
  \/ ReadHeader \/ ReadTable \/ Advance

(* Someone else changes what is at an address. *)
Overwrite ==
  /\ pc # "done"
  /\ writes < MaxWrites
  /\ \E a \in Address : \E c \in Contents :
       /\ mem' = [mem EXCEPT ![a] = c]
       /\ held' = [held EXCEPT ![a] = @ \cup {c}]
  /\ writes' = writes + 1
  /\ UNCHANGED <<solid, pc, chunk, search, candidate, header, result>>

Next == ScanStep \/ Overwrite

SafetySpec == Init /\ [][Next]_vars

\* DriverEntry runs the scan in one thread, and the kernel calls it makes
\* return; nothing is assumed of who changes memory.
Spec == SafetySpec /\ WF_vars(ScanStep)

-----------------------------------------------------------------------------

TypeOK ==
  /\ pc \in {"allocate", "read", "scan", "header", "body", "advance", "done"}
  /\ mem \in [Address -> Contents]
  /\ solid \in SUBSET Pages
  /\ held \in [Address -> SUBSET Contents]
  /\ \A a \in Address : mem[a] \in held[a]
  /\ writes \in 0 .. MaxWrites
  /\ current \in Nat /\ remaining \in Nat
  /\ buffer \in [0 .. BufferSize - 1 -> Contents \cup {Blank}]
  /\ readable \in 0 .. BufferSize
  /\ advance \in 0 .. BufferSize
  /\ search \in 0 .. BufferSize
  /\ candidate \in Address \cup {NoAddress}
  /\ header \in [size : Nat, crc : Nat]
  /\ result \in {Searching, NotFound, OutOfMemory} \cup {Found(a) : a \in Address}

(* What a table's header, and a table, must be, whatever the code checks.  *)
IsHeader(body) == body.kind = "header" /\ body.size \in MinTableSize .. MaxTableSize
IsTable(body) == IsHeader(body) /\ body.plausible

(* The Crc32 that c holds is the checksum of a body, over the size c holds. *)
IsCrcOf(c, body) == c.crc = Checksum(body, c.body.size)

(* A table that has been in memory since the scan began, whole and         *)
(* unchanged, in the range scanned and in pages reads of which never fail. *)
IsResident(a) ==
  LET c == mem[a]
  IN /\ a % TableAlignment = 0
     /\ held[a] = {c}
     /\ IsTable(c.body) /\ IsCrcOf(c, c.body)
     /\ a + c.body.size - 1 <= MaxAddress
     /\ \A b \in a .. a + c.body.size - 1 : PageBase(b) \in solid

Resident == {a \in 0 .. ScanSize - 1 : IsResident(a)}

(* RemainingBytes, an unsigned number, never wraps, no byte of the range is *)
(* counted twice, and reads start at page boundaries, which the rounding of *)
(* FaultOffset to the next page takes for granted.                         *)
RangeAccounted ==
  /\ remaining >= 0
  /\ current + remaining = ScanSize
  /\ current % PageSize = 0

(***************************************************************************)
(* Why no resident table is passed over.  While a chunk is being dealt     *)
(* with: what was read of it is still what memory holds, wherever nobody   *)
(* wrote; what was not read and is stepped over lies in pages that cannot  *)
(* be read for sure; and the scan moves on by whole pages of what is left. *)
(***************************************************************************)
InChunk == pc \in {"scan", "header", "body", "advance"}

ChunkInvariant ==
  /\ remaining % PageSize = 0
  /\ InChunk =>
       /\ remaining > 0
       /\ advance \in 1 .. BytesToRead
       /\ advance % PageSize = 0
       /\ readable <= advance
       /\ \A o \in readable .. advance - 1 : PageBase(current + o) \notin solid
  /\ pc \in {"scan", "header", "body"} =>
       /\ search <= readable
       /\ \A o \in 0 .. readable - 1 :
            held[current + o] = {mem[current + o]} => buffer[o] = mem[current + o]
  /\ pc \in {"header", "body"} => search > 0 /\ candidate = current + search - 1
  /\ pc # "done" => result = Searching

\* The address below which the scan is done.
Frontier ==
  CASE pc = "scan"               -> current + search
    [] pc \in {"header", "body"} -> candidate
    [] pc = "advance"            -> current + advance
    [] OTHER                     -> current

\* Nothing resident lies below the frontier, and a resident table under
\* examination has passed what has been examined of it.
FrontierInvariant ==
  \A a \in Resident :
    /\ pc # "done" => a >= Frontier
    /\ pc = "body" /\ a = candidate => header = HeaderOf(mem[a])
    /\ pc = "done" => result.status \in {"Found", "InsufficientResources"}
    /\ result.status = "Found" => result.address <= a

ScanInvariant == RangeAccounted /\ ChunkInvariant /\ FrontierInvariant

(***************************************************************************)
(* The scan never passes over a resident table, whatever pages around it   *)
(* cannot be read, wherever in them reads stop, and whatever else changes: *)
(* it reports not found only when there is none, and otherwise reports one *)
(* at or before the first.                                                 *)
(***************************************************************************)
NoTablePassedOver ==
  \A a \in Resident :
    /\ result # NotFound
    /\ result.status = "Found" => result.address <= a

(* No Crc32 that a has held, over the size that came with it, is also the  *)
(* checksum of another body that a has held.                               *)
ChecksumsTellApart(a) ==
  \A c, d \in held[a] : IsCrcOf(c, d.body) => d.body = c.body

(***************************************************************************)
(* What a report of a table at a is worth while a changes: the fields      *)
(* behind the header are plausible at that moment, and the bytes have the  *)
(* checksum announced by an acceptable header that a has held.  The header *)
(* is not validated again, so this header may be of other bytes, and then  *)
(* what is reported need not be a table at all; it is one as long as no    *)
(* Crc32 is by chance or intent that of other bytes.                       *)
(***************************************************************************)
ReportsOnlyTables ==
  [][result' # result /\ result'.status = "Found" =>
       LET a == result'.address
       IN /\ a % TableAlignment = 0 /\ a < ScanSize
          /\ mem[a].body.plausible
          /\ \E c \in held[a] : IsHeader(c.body) /\ IsCrcOf(c, mem[a].body)
          /\ ChecksumsTellApart(a) => IsTable(mem[a].body)]_vars

(* No address is examined twice, and candidates are examined in order: the *)
(* bytes read by one round and the bytes it steps over are never rescanned. *)
CandidatesAscend ==
  [][candidate' # candidate => candidate' > candidate]_vars

(* The scan comes to an end. *)
ScanTerminates == <>(pc = "done")

=============================================================================
