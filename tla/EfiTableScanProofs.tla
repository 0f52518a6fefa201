-------------------------- MODULE EfiTableScanProofs --------------------------
(***************************************************************************)
(* Proofs about Source/Entry.cpp: about EfiTableScan, for any sizes, any   *)
(* memory, any pages that cannot be read and any number of changes while   *)
(* the scan runs; and, at the end, about Crc32, for any messages.          *)
(***************************************************************************)
EXTENDS EfiTableScan, Crc32, PageArithmetic, WellFoundedInduction

IInv == TypeOK /\ ScanInvariant

\* A read within the address space succeeds, or stops in a page that is not
\* solid.
LEMMA ReadAnswerCases ==
  ASSUME NEW src \in Int, NEW len \in Nat \ {0}, NEW S, CanOffset(src, len - 1),
         NEW answer \in ReadAnswers(src, len, S)
  PROVE  \/ answer = Success(len)
         \/ \E k \in 0 .. len - 1 : /\ answer = Failure("MappingFailed", k, src + k)
                                    /\ PageBase(src + k) \notin S
  BY DEF ReadAnswers

\* A read of a stretch whose pages are all solid succeeds.
LEMMA SolidReadSucceeds ==
  ASSUME NEW src \in Int, NEW len \in Nat \ {0}, NEW S, CanOffset(src, len - 1),
         \A b \in src .. src + len - 1 : PageBase(b) \in S,
         NEW answer \in ReadAnswers(src, len, S)
  PROVE  answer.code = "Success"
  <1>1. ASSUME NEW k \in 0 .. len - 1, PageBase(src + k) \notin S PROVE FALSE
    <2>1. src + k \in src .. src + len - 1
      OBVIOUS
    <2> QED BY <1>1, <2>1
  <1> QED BY <1>1, ReadAnswerCases DEF Success

\* What the variables of the scan give, as numbers.
LEMMA ScanNumbers ==
  ASSUME TypeOK, RangeAccounted
  PROVE  /\ PageSize \in Nat \ {0} /\ MaxAddress \in Nat
         /\ BufferSize \in Nat \ {0} /\ BufferSize % PageSize = 0
         /\ ScanSize \in Nat /\ ScanSize <= MaxAddress + 1
         /\ current \in Nat /\ remaining \in Nat /\ current + remaining = ScanSize
         /\ current % PageSize = 0
         /\ readable \in Nat /\ advance \in Nat /\ search \in Nat
  BY GeometryAssumption, ScanAssumption DEF TypeOK, RangeAccounted

\* A round of the scan reads at least a page, and not past the end.
LEMMA ChunkSize ==
  ASSUME TypeOK, RangeAccounted, remaining % PageSize = 0, remaining # 0
  PROVE  /\ BytesToRead \in Nat \ {0}
         /\ BytesToRead <= remaining /\ BytesToRead <= BufferSize
         /\ BytesToRead % PageSize = 0
         /\ BytesToRead >= PageSize
         /\ CanOffset(current, BytesToRead - 1)
  <1>1. /\ BytesToRead \in Nat \ {0}
        /\ BytesToRead <= remaining /\ BytesToRead <= BufferSize
        /\ BytesToRead % PageSize = 0
    BY ScanNumbers DEF BytesToRead, StdMin
  <1>2. BytesToRead >= PageSize
    BY <1>1, ScanNumbers, PositiveMultiple
  <1>3. CanOffset(current, BytesToRead - 1)
    BY <1>1, ScanNumbers DEF CanOffset
  <1> QED BY <1>1, <1>2, <1>3

\* NextPageOffset is where the page after the offset's begins.
LEMMA NextPageOffsetIsNext ==
  ASSUME NEW k \in Nat
  PROVE  /\ NextPageOffset(k) = PageBase(k) + PageSize
         /\ NextPageOffset(k) \in Int /\ NextPageOffset(k) > k
         /\ NextPageOffset(k) % PageSize = 0
  <1>1. PageSize \in Nat \ {0}
    BY GeometryAssumption
  <1>2. PageOffset(k + PageSize) = PageOffset(k)
    <2>1. k \in Int
      OBVIOUS
    <2> QED BY <2>1, PageSizeIsPage, WholePagesOn
  <1>3. /\ PageBase(k) \in Int /\ PageOffset(PageBase(k)) = 0
        /\ PageOffset(k) \in 0 .. PageSize - 1 /\ k = PageBase(k) + PageOffset(k)
    BY PageBaseProperties DEF PageOffset
  <1>4. NextPageOffset(k) = PageBase(k) + PageSize
    BY <1>1, <1>2, <1>3 DEF NextPageOffset, PageOffset
  <1>5. PageOffset(PageBase(k) + PageSize) = 0
    BY <1>3, PageSizeIsPage, WholePagesOn
  <1> QED BY <1>1, <1>3, <1>4, <1>5 DEF PageOffset

\* After a read that stops at offset k the scan moves on past k, by whole
\* pages, and everything from k on that it steps over lies in k's page.
LEMMA AdvanceAfterFault ==
  ASSUME TypeOK, RangeAccounted, remaining % PageSize = 0, remaining # 0,
         NEW k \in 0 .. BytesToRead - 1, NEW answer,
         answer = Failure("MappingFailed", k, current + k)
  PROVE  /\ BytesToAdvance(answer) \in 1 .. BytesToRead
         /\ BytesToAdvance(answer) % PageSize = 0
         /\ k < BytesToAdvance(answer)
         /\ \A o \in k .. BytesToAdvance(answer) - 1 :
              PageBase(current + o) = PageBase(current + k)
         /\ k < PageSize => BytesToAdvance(answer) = PageSize
  <1>1. /\ BytesToRead \in Nat \ {0} /\ BytesToRead % PageSize = 0
        /\ BytesToRead >= PageSize
    BY ChunkSize
  <1>2. /\ PageSize \in Nat \ {0} /\ current \in Nat /\ current % PageSize = 0
    BY ScanNumbers
  <1>3. k \in Nat
    BY <1>1
  <1>4. /\ NextPageOffset(k) = PageBase(k) + PageSize
        /\ NextPageOffset(k) \in Int /\ NextPageOffset(k) > k
        /\ NextPageOffset(k) % PageSize = 0
    BY <1>3, NextPageOffsetIsNext
  <1>5. BytesToAdvance(answer) = StdMin(BytesToRead, NextPageOffset(k))
    <2>1. answer.code # "Success" /\ answer.fault = current + k
      BY DEF Failure
    <2>2. k < BytesToRead /\ current + k >= current /\ (current + k) - current = k
      BY <1>1, <1>2, <1>3
    <2> HIDE DEF BytesToRead
    <2> QED BY <2>1, <2>2 DEF BytesToAdvance
  <1>6. /\ BytesToAdvance(answer) \in 1 .. BytesToRead
        /\ BytesToAdvance(answer) % PageSize = 0
        /\ k < BytesToAdvance(answer)
        /\ BytesToAdvance(answer) <= NextPageOffset(k)
    BY <1>1, <1>3, <1>4, <1>5 DEF StdMin
  <1>7. /\ PageOffset(k) \in 0 .. PageSize - 1 /\ k = PageBase(k) + PageOffset(k)
        /\ PageBase(k) \in Int
    BY <1>3, PageBaseProperties
  <1>8. PageOffset(current + k) = PageOffset(k)
    <2>1. k \in Int /\ current \in Int
      BY <1>2, <1>3
    <2> QED BY <1>2, <2>1, WholePagesOn
  <1>9. ASSUME NEW o \in k .. BytesToAdvance(answer) - 1
        PROVE  PageBase(current + o) = PageBase(current + k)
    <2> DEFINE j == o - k
    <2>1. /\ j \in Int /\ current + o = (current + k) + j /\ current + k \in Int
          /\ 0 <= PageOffset(current + k) + j
          /\ PageOffset(current + k) + j < PageSize
      BY <1>1, <1>2, <1>3, <1>4, <1>6, <1>7, <1>8
    <2> HIDE DEF j
    <2> QED BY <2>1, SamePage
  <1>10. ASSUME k < PageSize PROVE BytesToAdvance(answer) = PageSize
    <2>1. k % PageSize = k
      BY <1>2, <1>3, <1>10
    <2>2. PageBase(k) = 0
      BY <1>3, <2>1 DEF PageBase
    <2> QED BY <1>1, <1>2, <1>4, <1>5, <2>2 DEF StdMin
  <1> QED BY <1>6, <1>9, <1>10

\* Where a resident table lies, what is there, and that reads of it succeed.
LEMMA ResidentTable ==
  ASSUME TypeOK, NEW a \in Resident
  PROVE  /\ a \in Address /\ a \in Int /\ 0 <= a /\ a < ScanSize
         /\ a % TableAlignment = 0 /\ held[a] = {mem[a]}
         /\ IsTable(mem[a].body) /\ IsCrcOf(mem[a], mem[a].body)
         /\ mem[a].body.size \in Nat \ {0}
         /\ PageBase(a) \in solid
         /\ \A n \in 1 .. mem[a].body.size : \A answer \in ReadAnswers(a, n, solid) :
              answer.code = "Success"
         /\ HeaderBytes \in 1 .. mem[a].body.size
  <1>1. /\ MaxAddress \in Nat /\ ScanSize \in Nat /\ ScanSize <= MaxAddress + 1
        /\ HeaderBytes \in Nat \ {0} /\ MinTableSize \in Nat /\ HeaderBytes <= MinTableSize
    BY GeometryAssumption, ScanAssumption
  <1>2. a \in 0 .. ScanSize - 1 /\ IsResident(a)
    BY DEF Resident
  <1>3. a \in Address /\ a \in Int /\ 0 <= a /\ a < ScanSize
    BY <1>1, <1>2 DEF Address
  <1>4. /\ a % TableAlignment = 0 /\ held[a] = {mem[a]}
        /\ IsTable(mem[a].body) /\ IsCrcOf(mem[a], mem[a].body)
        /\ a + mem[a].body.size - 1 <= MaxAddress
        /\ \A b \in a .. a + mem[a].body.size - 1 : PageBase(b) \in solid
    BY <1>2 DEF IsResident
  <1>5. mem[a] \in Contents /\ mem[a].body.size \in Nat
    BY <1>3, ScanAssumption DEF TypeOK
  <1>6. mem[a].body.size >= MinTableSize
    BY <1>1, <1>4 DEF IsTable, IsHeader
  <1>7. mem[a].body.size \in Nat \ {0} /\ HeaderBytes \in 1 .. mem[a].body.size
    BY <1>1, <1>5, <1>6
  <1>8. PageBase(a) \in solid
    BY <1>3, <1>4, <1>7
  <1>9. ASSUME NEW n \in 1 .. mem[a].body.size, NEW answer \in ReadAnswers(a, n, solid)
        PROVE  answer.code = "Success"
    <2>1. n \in Nat \ {0} /\ CanOffset(a, n - 1)
      BY <1>1, <1>3, <1>4, <1>7 DEF CanOffset
    <2>2. \A b \in a .. a + n - 1 : PageBase(b) \in solid
      BY <1>3, <1>4, <1>7
    <2> QED BY <1>3, <2>1, <2>2, SolidReadSucceeds
  <1> QED BY <1>3, <1>4, <1>7, <1>8, <1>9

\* What a content consists of; a header that is accepted is a table's.
LEMMA ContentIsTyped ==
  ASSUME NEW c \in Contents
  PROVE  /\ c.crc \in Nat /\ c.body.size \in Nat
         /\ HeaderAccepted(c.body) <=> IsHeader(c.body)
  <1>1. c.crc \in Nat /\ c.body.size \in Nat /\ c.body.kind \in Kinds
    BY ScanAssumption
  <1>2. MinTableSize \in Nat /\ MaxTableSize \in Nat
    BY ScanAssumption
  <1> QED BY <1>1, <1>2 DEF Kinds, HeaderAccepted, HasSignature, IsHeader

\* The invariant holds in every initial state.
LEMMA InitInvariant == Init => IInv
  <1> SUFFICES ASSUME Init PROVE IInv
    OBVIOUS
  <1>1. /\ PageSize \in Nat \ {0} /\ ScanSize \in Nat /\ BufferSize \in Nat \ {0}
        /\ MaxWrites \in Nat
        /\ Memories \subseteq [Address -> Contents] /\ SolidSets \subseteq SUBSET Pages
        /\ ScanSize % PageSize = 0
    BY GeometryAssumption, ScanAssumption
  <1>2. 0 % PageSize = 0
    BY <1>1
  <1>3. TypeOK
    <2>1. /\ mem \in [Address -> Contents] /\ held \in [Address -> SUBSET Contents]
          /\ \A a \in Address : mem[a] \in held[a]
      BY <1>1 DEF Init
    <2>2. NoHeader \in [size : Nat, crc : Nat]
      BY DEF NoHeader
    <2> QED BY <1>1, <2>1, <2>2 DEF Init, TypeOK
  <1>4. RangeAccounted
    BY <1>1, <1>2 DEF Init, RangeAccounted
  <1>5. ChunkInvariant
    BY <1>1 DEF Init, ChunkInvariant, InChunk
  <1>6. FrontierInvariant
    <2>1. \A a \in Resident : a >= 0
      BY <1>3, ResidentTable
    <2> QED BY <2>1 DEF Init, FrontierInvariant, Frontier, Searching
  <1> QED BY <1>3, <1>4, <1>5, <1>6 DEF IInv, ScanInvariant

\* The scan itself does not change what is resident.
LEMMA ScanKeepsResident ==
  ASSUME UNCHANGED memory
  PROVE  Resident' = Resident
  <1>1. mem' = mem /\ solid' = solid /\ held' = held
    BY DEF memory
  <1> QED BY <1>1 DEF Resident, IsResident, IsTable, IsHeader, IsCrcOf, PageBase

\* AllocateBuffer keeps the invariant.
LEMMA AllocateBufferKeeps == IInv /\ AllocateBuffer => IInv'
  <1> SUFFICES ASSUME IInv, AllocateBuffer PROVE IInv'
    OBVIOUS
  <1> USE DEF IInv, ScanInvariant
  <1>1. Resident' = Resident
    BY ScanKeepsResident DEF AllocateBuffer
  <1>2. /\ UNCHANGED <<mem, solid, held, writes, current, remaining, buffer,
                       readable, advance, search, candidate, header>>
        /\ pc = "allocate"
        /\ (pc' = "read" /\ result' = result) \/ (pc' = "done" /\ result' = OutOfMemory)
    BY DEF AllocateBuffer, memory, chunk, Finish
  <1>3. TypeOK'
    BY <1>2 DEF TypeOK
  <1>4. RangeAccounted' /\ ChunkInvariant'
    BY <1>2 DEF RangeAccounted, ChunkInvariant, InChunk
  <1>5. FrontierInvariant'
    BY <1>1, <1>2 DEF FrontierInvariant, Frontier, OutOfMemory
  <1> QED BY <1>3, <1>4, <1>5

\* ReadChunk keeps the invariant.
LEMMA ReadChunkKeeps == IInv /\ ReadChunk => IInv'
  <1> SUFFICES ASSUME IInv, ReadChunk PROVE IInv'
    OBVIOUS
  <1>a. TypeOK /\ RangeAccounted /\ ChunkInvariant /\ FrontierInvariant
    BY DEF IInv, ScanInvariant
  <1>1. Resident' = Resident
    BY ScanKeepsResident DEF ReadChunk
  <1>2. PICK answer \in ReadAnswers(current, BytesToRead, solid) :
          /\ buffer' = [o \in DOMAIN buffer |->
                          IF o < answer.bytes THEN mem[current + o] ELSE buffer[o]]
          /\ readable' = StdMin(answer.bytes, BytesToRead)
          /\ advance' = BytesToAdvance(answer)
          /\ pc' = IF answer.bytes >= SignatureSize THEN "scan" ELSE "advance"
    BY DEF ReadChunk
  <1>3. /\ UNCHANGED <<mem, solid, held, writes, current, remaining,
                       candidate, header, result>>
        /\ pc = "read" /\ remaining # 0 /\ search' = 0
    BY DEF ReadChunk, memory
  <1>4. /\ BytesToRead \in Nat \ {0}
        /\ BytesToRead <= remaining /\ BytesToRead <= BufferSize
        /\ BytesToRead % PageSize = 0 /\ BytesToRead >= PageSize
        /\ CanOffset(current, BytesToRead - 1)
    BY <1>a, <1>3, ChunkSize DEF ChunkInvariant
  <1>5. /\ current \in Nat /\ remaining \in Nat /\ current + remaining = ScanSize
        /\ ScanSize <= MaxAddress + 1 /\ MaxAddress \in Nat
        /\ PageSize \in Nat \ {0} /\ BufferSize \in Nat \ {0}
        /\ SignatureSize \in Nat \ {0} /\ SignatureSize <= PageSize
    BY <1>a, ScanNumbers, ScanAssumption
  <1> DEFINE r == readable'
             v == advance'
  <1>b. /\ readable' = r /\ advance' = v
        /\ r = StdMin(answer.bytes, BytesToRead) /\ v = BytesToAdvance(answer)
    BY <1>2
  <1> HIDE DEF r, v
  \* How much was read, how far the scan will move on, and what lies between.
  <1>6. /\ r \in Nat /\ r <= v /\ answer.bytes = r
        /\ v \in 1 .. BytesToRead /\ v % PageSize = 0
        /\ \A o \in r .. v - 1 : PageBase(current + o) \notin solid
        /\ r < SignatureSize =>
             \A o \in 0 .. v - 1 : PageBase(current + o) \notin solid
    <2>1. CASE answer = Success(BytesToRead)
      <3>1. answer.code = "Success" /\ answer.bytes = BytesToRead
        BY <2>1 DEF Success
      <3>2. v = BytesToRead
        BY <1>b, <1>2, <3>1 DEF BytesToAdvance
      <3>3. r = BytesToRead
        BY <1>b, <1>2, <1>4, <3>1 DEF StdMin
      <3> QED BY <1>4, <1>5, <3>1, <3>2, <3>3
    <2>2. CASE \E k \in 0 .. BytesToRead - 1 :
                 /\ answer = Failure("MappingFailed", k, current + k)
                 /\ PageBase(current + k) \notin solid
      <3>1. PICK k \in 0 .. BytesToRead - 1 :
                 /\ answer = Failure("MappingFailed", k, current + k)
                 /\ PageBase(current + k) \notin solid
        BY <2>2
      <3>2. answer.bytes = k /\ k \in Nat
        BY <1>4, <3>1 DEF Failure
      <3>3. r = k
        BY <1>b, <1>2, <1>4, <3>1, <3>2 DEF StdMin
      <3>4. remaining % PageSize = 0
        BY <1>a DEF ChunkInvariant
      <3>5. /\ v \in 1 .. BytesToRead
            /\ v % PageSize = 0
            /\ k < v
            /\ \A o \in k .. v - 1 : PageBase(current + o) = PageBase(current + k)
            /\ k < PageSize => v = PageSize
        BY <1>a, <1>b, <1>3, <3>1, <3>4, AdvanceAfterFault
      <3>6. ASSUME k < SignatureSize, NEW o \in 0 .. v - 1
            PROVE  PageBase(current + o) = PageBase(current + k)
        <4>1. k < PageSize
          BY <1>5, <3>2, <3>6
        <4>5. v = PageSize
          BY <3>5, <4>1
        <4>6. o \in 0 .. PageSize - 1
          BY <4>5
        <4>2. PageOffset(current) = 0 /\ current \in Int
          BY <1>5, <1>a DEF RangeAccounted, PageOffset
        <4>3. PageBase(current + o) = PageBase(current)
          BY <1>5, <4>2, <4>6, SamePage
        <4>4. PageBase(current + k) = PageBase(current)
          BY <1>5, <3>2, <4>1, <4>2, SamePage
        <4> QED BY <4>3, <4>4
      <3>7. v \in 1 .. BytesToRead /\ k < v
        BY <3>5
      <3>8. r \in Nat /\ r <= v /\ answer.bytes = r
        BY <1>4, <3>2, <3>3, <3>7
      <3>9. \A o \in r .. v - 1 : PageBase(current + o) \notin solid
        BY <3>1, <3>3, <3>5
      <3>10. r < SignatureSize =>
               \A o \in 0 .. v - 1 : PageBase(current + o) \notin solid
        BY <3>1, <3>3, <3>6
      <3> QED BY <3>5, <3>7, <3>8, <3>9, <3>10
    <2>3. current \in Int
      BY <1>5
    <2> QED BY <1>4, <2>1, <2>2, <2>3, ReadAnswerCases
  <1>7. /\ r \in Nat /\ v \in Nat /\ r <= v
        /\ v > 0 /\ BytesToRead \in Nat /\ v <= BytesToRead
        /\ BytesToRead <= BufferSize /\ BufferSize \in Nat
    <2>1. BytesToRead \in Nat /\ BytesToRead <= BufferSize
      BY <1>4
    <2>2. v \in 1 .. BytesToRead /\ r \in Nat /\ r <= v
      BY <1>6
    <2> QED BY <1>5, <2>1, <2>2
  <1>8. /\ DOMAIN buffer' = 0 .. BufferSize - 1
        /\ \A o \in 0 .. r - 1 : buffer'[o] = mem[current + o]
    <2>1. DOMAIN buffer = 0 .. BufferSize - 1
      BY <1>a DEF TypeOK
    <2>2. \A o \in 0 .. r - 1 : o \in 0 .. BufferSize - 1 /\ o < r
      BY <1>7
    <2> QED BY <1>b, <1>2, <1>6, <2>1, <2>2
  <1>9. TypeOK'
    <2>1. buffer' \in [0 .. BufferSize - 1 -> Contents \cup {Blank}]
      <3>1. ASSUME NEW o \in 0 .. BufferSize - 1, o < answer.bytes
            PROVE  mem[current + o] \in Contents
        <4>1. current + o \in Address
          BY <1>4, <1>5, <1>6, <1>7, <3>1 DEF Address, CanOffset
        <4> QED BY <1>a, <4>1 DEF TypeOK
      <3>2. buffer \in [0 .. BufferSize - 1 -> Contents \cup {Blank}]
        BY <1>a DEF TypeOK
      <3> QED BY <1>2, <3>1, <3>2
    <2>2. pc' \in {"scan", "advance"}
      BY <1>2
    <2>3. r \in 0 .. BufferSize /\ v \in 0 .. BufferSize /\ 0 \in 0 .. BufferSize
      BY <1>7
    <2> QED BY <1>a, <1>b, <1>3, <2>1, <2>2, <2>3 DEF TypeOK
  <1>10. RangeAccounted'
    BY <1>a, <1>3 DEF RangeAccounted
  <1>11. ChunkInvariant'
    <2>1. BytesToRead' = BytesToRead
      BY <1>3 DEF BytesToRead
    <2>2. \A o \in r .. v - 1 : PageBase(current' + o) \notin solid'
      BY <1>3, <1>6
    <2>3. \A o \in 0 .. r - 1 : buffer'[o] = mem'[current' + o]
      BY <1>3, <1>8
    <2>4. pc' \in {"scan", "advance"} /\ search' <= r /\ remaining' > 0
      BY <1>2, <1>3, <1>5, <1>7
    <2>5. remaining' % PageSize = 0 /\ (pc' # "done" => result' = Searching)
      BY <1>a, <1>3 DEF ChunkInvariant
    <2> QED BY <1>b, <1>6, <2>1, <2>2, <2>3, <2>4, <2>5
            DEF ChunkInvariant, InChunk, PageBase
  <1>12. FrontierInvariant'
    <2> SUFFICES ASSUME NEW a \in Resident
                 PROVE  /\ pc' # "done" /\ a >= Frontier'
                        /\ pc' # "body" /\ result'.status = "Found" => result'.address <= a
      BY <1>1, <1>2 DEF FrontierInvariant
    <2>1. a >= current /\ (result.status = "Found" => result.address <= a)
      BY <1>a, <1>3 DEF FrontierInvariant, Frontier
    <2>2. a \in Int /\ PageBase(a) \in solid
      BY <1>a, ResidentTable
    <2>3. CASE answer.bytes >= SignatureSize
      BY <1>2, <1>3, <1>5, <2>1, <2>2, <2>3 DEF Frontier
    <2>4. CASE ~(answer.bytes >= SignatureSize)
      <3>1. pc' = "advance" /\ r < SignatureSize
        BY <1>2, <1>5, <1>6, <2>4
      <3>2. a >= current + v
        <4>1. current \in Nat
          BY <1>5
        <4> SUFFICES ASSUME a < current + v PROVE FALSE
          BY <1>7, <2>2, <4>1
        <4> DEFINE o == a - current
        <4>2. o \in 0 .. v - 1 /\ current + o = a
          BY <1>7, <2>1, <2>2, <4>1
        <4> HIDE DEF o
        <4> QED BY <1>6, <2>2, <3>1, <4>2
      <3> QED BY <1>b, <1>3, <2>1, <3>1, <3>2 DEF Frontier
    <2> QED BY <2>3, <2>4
  <1> QED BY <1>9, <1>10, <1>11, <1>12 DEF IInv, ScanInvariant

\* EndOfRange keeps the invariant.
LEMMA EndOfRangeKeeps == IInv /\ EndOfRange => IInv'
  <1> SUFFICES ASSUME IInv, EndOfRange PROVE IInv'
    OBVIOUS
  <1>a. TypeOK /\ RangeAccounted /\ ChunkInvariant /\ FrontierInvariant
    BY DEF IInv, ScanInvariant
  <1>1. Resident' = Resident
    BY ScanKeepsResident DEF EndOfRange
  <1>2. /\ UNCHANGED <<mem, solid, held, writes, current, remaining, buffer,
                       readable, advance, search, candidate, header>>
        /\ pc = "read" /\ remaining = 0 /\ pc' = "done" /\ result' = NotFound
    BY DEF EndOfRange, memory, chunk, Finish
  <1>3. TypeOK'
    BY <1>a, <1>2 DEF TypeOK
  <1>4. RangeAccounted' /\ ChunkInvariant'
    BY <1>a, <1>2 DEF RangeAccounted, ChunkInvariant, InChunk
  <1>5. Resident = {}
    <2> SUFFICES ASSUME NEW a \in Resident PROVE FALSE
      OBVIOUS
    <2>1. a >= current
      BY <1>a, <1>2 DEF FrontierInvariant, Frontier
    <2>2. a \in Int /\ a < ScanSize
      BY <1>a, ResidentTable
    <2>3. current = ScanSize /\ current \in Nat
      BY <1>a, <1>2, ScanNumbers
    <2> QED BY <2>1, <2>2, <2>3
  <1>6. FrontierInvariant'
    BY <1>1, <1>5 DEF FrontierInvariant
  <1> QED BY <1>3, <1>4, <1>6 DEF IInv, ScanInvariant

\* A resident table the scan has not passed is not before the first match,
\* and if it is the first match it is worth reading.
LEMMA FirstMatch ==
  ASSUME IInv, pc = "scan", NEW a \in Resident,
         NEW o \in Matches, IsFirstMatch(o)
  PROVE  /\ a >= current + o
         /\ a = current + o => WorthReading(o)
  <1>a. TypeOK /\ RangeAccounted /\ ChunkInvariant /\ FrontierInvariant
    BY DEF IInv, ScanInvariant
  <1>1. /\ current \in Nat /\ readable \in Nat /\ search \in Nat /\ MaxAddress \in Nat
    BY <1>a, ScanNumbers
  <1>2. o \in search .. readable - 1 /\ o \in Nat
    BY <1>1 DEF Matches
  <1>3. a \in Int /\ a >= current + search /\ held[a] = {mem[a]} /\ a \in Address
        /\ a % TableAlignment = 0 /\ IsTable(mem[a].body)
    BY <1>a, ResidentTable DEF FrontierInvariant, Frontier
  <1> DEFINE p == a - current
  <1>4. p \in Int /\ current + p = a /\ p >= search
    BY <1>1, <1>3
  <1> HIDE DEF p
  <1>5. ASSUME p < readable
        PROVE  p \in Matches /\ buffer[p] = mem[a]
    <2>1. p \in search .. readable - 1 /\ p \in 0 .. readable - 1
      BY <1>1, <1>4, <1>5
    <2>2. buffer[p] = mem[a]
      BY <1>a, <1>3, <1>4, <2>1 DEF ChunkInvariant
    <2> QED BY <1>3, <2>1, <2>2 DEF Matches, StartsLikeSignature, IsTable, IsHeader
  <1>6. p >= o
    <2>1. CASE p < readable
      BY <1>5, <2>1 DEF IsFirstMatch
    <2>2. CASE ~(p < readable)
      BY <1>1, <1>2, <1>4, <2>2
    <2> QED BY <2>1, <2>2
  <1>7. a >= current + o
    BY <1>1, <1>2, <1>4, <1>6
  <1>8. ASSUME a = current + o PROVE WorthReading(o)
    <2>1. p = o /\ p < readable
      BY <1>1, <1>2, <1>4, <1>8
    <2>2. HasSignature(buffer[o].body)
      BY <1>3, <1>5, <2>1 DEF IsTable, IsHeader, HasSignature
    <2>3. CanOffset(current, o)
      BY <1>1, <1>2, <1>3, <1>8 DEF CanOffset, Address
    <2> QED BY <1>3, <1>8, <2>2, <2>3 DEF WorthReading
  <1> QED BY <1>7, <1>8

\* SkipMatch keeps the invariant.
LEMMA SkipMatchKeeps == IInv /\ SkipMatch => IInv'
  <1> SUFFICES ASSUME IInv, SkipMatch PROVE IInv'
    OBVIOUS
  <1>a. TypeOK /\ RangeAccounted /\ ChunkInvariant /\ FrontierInvariant
    BY DEF IInv, ScanInvariant
  <1>1. Resident' = Resident
    BY ScanKeepsResident DEF SkipMatch
  <1>2. PICK o \in Matches : IsFirstMatch(o) /\ ~WorthReading(o) /\ search' = o + 1
    BY DEF SkipMatch
  <1>3. /\ UNCHANGED <<pc, mem, solid, held, writes, current, remaining, buffer,
                       readable, advance, candidate, header, result>>
        /\ pc = "scan"
    BY DEF SkipMatch, memory, chunk
  <1>4. current \in Nat /\ readable \in 0 .. BufferSize /\ BufferSize \in Nat
        /\ readable \in Nat /\ search \in Nat
    BY <1>a, ScanNumbers DEF TypeOK
  <1>5. o \in Nat /\ o + 1 <= readable /\ o + 1 \in 0 .. BufferSize
    BY <1>4 DEF Matches
  <1>6. TypeOK'
    BY <1>a, <1>2, <1>3, <1>5 DEF TypeOK
  <1>7. RangeAccounted' /\ ChunkInvariant'
    BY <1>a, <1>2, <1>3, <1>5
       DEF RangeAccounted, ChunkInvariant, InChunk, BytesToRead, StdMin, PageBase
  <1>8. FrontierInvariant'
    <2> SUFFICES ASSUME NEW a \in Resident
                 PROVE  /\ a >= current + (o + 1)
                        /\ result.status = "Found" => result.address <= a
      BY <1>1, <1>2, <1>3 DEF FrontierInvariant, Frontier
    <2>1. a >= current + o /\ a # current + o
      BY <1>2, <1>3, FirstMatch
    <2>2. a \in Int
      BY <1>a, ResidentTable
    <2>3. result.status = "Found" => result.address <= a
      BY <1>a DEF FrontierInvariant
    <2> QED BY <1>4, <1>5, <2>1, <2>2, <2>3
  <1> QED BY <1>6, <1>7, <1>8 DEF IInv, ScanInvariant

\* TakeCandidate keeps the invariant.
LEMMA TakeCandidateKeeps == IInv /\ TakeCandidate => IInv'
  <1> SUFFICES ASSUME IInv, TakeCandidate PROVE IInv'
    OBVIOUS
  <1>a. TypeOK /\ RangeAccounted /\ ChunkInvariant /\ FrontierInvariant
    BY DEF IInv, ScanInvariant
  <1>1. Resident' = Resident
    BY ScanKeepsResident DEF TakeCandidate
  <1>2. PICK o \in Matches : /\ IsFirstMatch(o) /\ WorthReading(o)
                             /\ search' = o + 1 /\ candidate' = current + o
    BY DEF TakeCandidate
  <1>3. /\ UNCHANGED <<mem, solid, held, writes, current, remaining, buffer,
                       readable, advance, header, result>>
        /\ pc = "scan" /\ pc' = "header"
    BY DEF TakeCandidate, memory, chunk
  <1>4. current \in Nat /\ readable \in 0 .. BufferSize /\ BufferSize \in Nat
        /\ readable \in Nat /\ search \in Nat /\ MaxAddress \in Nat
    BY <1>a, ScanNumbers DEF TypeOK
  <1>5. o \in Nat /\ o + 1 <= readable /\ o + 1 \in 0 .. BufferSize
    BY <1>4 DEF Matches
  <1>6. current + o \in Address /\ current + o = (current + (o + 1)) - 1 /\ o + 1 > 0
    BY <1>2, <1>4, <1>5 DEF WorthReading, CanOffset, Address
  <1>7. TypeOK'
    BY <1>a, <1>2, <1>3, <1>5, <1>6 DEF TypeOK
  <1>8. RangeAccounted' /\ ChunkInvariant'
    BY <1>a, <1>2, <1>3, <1>5, <1>6
       DEF RangeAccounted, ChunkInvariant, InChunk, BytesToRead, StdMin, PageBase
  <1>9. FrontierInvariant'
    <2> SUFFICES ASSUME NEW a \in Resident
                 PROVE  /\ a >= current + o
                        /\ result.status = "Found" => result.address <= a
      BY <1>1, <1>2, <1>3 DEF FrontierInvariant, Frontier
    <2>1. a >= current + o
      BY <1>2, <1>3, FirstMatch
    <2>2. result.status = "Found" => result.address <= a
      BY <1>a DEF FrontierInvariant
    <2> QED BY <2>1, <2>2
  <1> QED BY <1>7, <1>8, <1>9 DEF IInv, ScanInvariant

\* EndOfBuffer keeps the invariant.
LEMMA EndOfBufferKeeps == IInv /\ EndOfBuffer => IInv'
  <1> SUFFICES ASSUME IInv, EndOfBuffer PROVE IInv'
    OBVIOUS
  <1>a. TypeOK /\ RangeAccounted /\ ChunkInvariant /\ FrontierInvariant
    BY DEF IInv, ScanInvariant
  <1>1. Resident' = Resident
    BY ScanKeepsResident DEF EndOfBuffer
  <1>2. /\ UNCHANGED <<mem, solid, held, writes, current, remaining, buffer,
                       readable, advance, search, candidate, header, result>>
        /\ pc = "scan" /\ Matches = {} /\ pc' = "advance"
    BY DEF EndOfBuffer, memory, chunk
  <1>3. TypeOK'
    BY <1>a, <1>2 DEF TypeOK
  <1>4. RangeAccounted' /\ ChunkInvariant'
    BY <1>a, <1>2 DEF RangeAccounted, ChunkInvariant, InChunk, BytesToRead, StdMin, PageBase
  <1>5. FrontierInvariant'
    <2> SUFFICES ASSUME NEW a \in Resident
                 PROVE  /\ a >= current + advance
                        /\ result.status = "Found" => result.address <= a
      BY <1>1, <1>2 DEF FrontierInvariant, Frontier
    <2>1. /\ current \in Nat /\ readable \in Nat /\ search \in Nat /\ advance \in Nat
      BY <1>a, ScanNumbers
    <2>2. /\ a \in Int /\ a >= current + search /\ held[a] = {mem[a]}
          /\ IsTable(mem[a].body) /\ PageBase(a) \in solid
      BY <1>a, <1>2, ResidentTable DEF FrontierInvariant, Frontier
    <2> DEFINE p == a - current
    <2>3. p \in Int /\ current + p = a /\ p >= search
      BY <2>1, <2>2
    <2> HIDE DEF p
    <2>4. ASSUME p < readable PROVE FALSE
      <3>1. p \in search .. readable - 1 /\ p \in 0 .. readable - 1
        BY <2>1, <2>3, <2>4
      <3>2. buffer[p] = mem[a]
        BY <1>a, <1>2, <2>2, <2>3, <3>1 DEF ChunkInvariant
      <3>3. p \in Matches
        BY <2>2, <3>1, <3>2 DEF Matches, StartsLikeSignature, IsTable, IsHeader
      <3> QED BY <1>2, <3>3
    <2>5. ASSUME ~(p < readable), p < advance PROVE FALSE
      <3>1. p \in readable .. advance - 1
        BY <2>1, <2>3, <2>5
      <3>2. PageBase(current + p) \notin solid
        BY <1>a, <1>2, <3>1 DEF ChunkInvariant, InChunk
      <3> QED BY <2>2, <2>3, <3>2
    <2>6. p >= advance
      BY <2>1, <2>3, <2>4, <2>5
    <2>7. result.status = "Found" => result.address <= a
      BY <1>a DEF FrontierInvariant
    <2> QED BY <2>1, <2>3, <2>6, <2>7
  <1> QED BY <1>3, <1>4, <1>5 DEF IInv, ScanInvariant

\* ReadHeader keeps the invariant.
LEMMA ReadHeaderKeeps == IInv /\ ReadHeader => IInv'
  <1> SUFFICES ASSUME IInv, ReadHeader PROVE IInv'
    OBVIOUS
  <1>a. TypeOK /\ RangeAccounted /\ ChunkInvariant /\ FrontierInvariant
    BY DEF IInv, ScanInvariant
  <1>1. Resident' = Resident
    BY ScanKeepsResident DEF ReadHeader
  <1>2. PICK answer \in ReadAnswers(candidate, HeaderBytes, solid) :
          IF answer.code = "Success" /\ HeaderAccepted(mem[candidate].body)
          THEN pc' = "body" /\ header' = HeaderOf(mem[candidate])
          ELSE pc' = "scan" /\ UNCHANGED header
    BY DEF ReadHeader
  <1>3. /\ UNCHANGED <<mem, solid, held, writes, current, remaining, buffer,
                       readable, advance, search, candidate, result>>
        /\ pc = "header"
    BY DEF ReadHeader, memory, chunk
  <1>4. current \in Nat /\ search \in Nat /\ candidate = (current + search) - 1
        /\ search > 0
    BY <1>a, <1>3, ScanNumbers DEF ChunkInvariant
  <1>5. candidate \in Address
    BY <1>a, <1>4 DEF TypeOK, NoAddress
  <1>6. TypeOK'
    <2>1. HeaderOf(mem[candidate]) \in [size : Nat, crc : Nat]
      BY <1>a, <1>5, ContentIsTyped DEF TypeOK, HeaderOf
    <2> QED BY <1>a, <1>2, <1>3, <2>1 DEF TypeOK
  <1>7. RangeAccounted' /\ ChunkInvariant'
    BY <1>a, <1>2, <1>3
       DEF RangeAccounted, ChunkInvariant, InChunk, BytesToRead, StdMin, PageBase
  <1>8. FrontierInvariant'
    <2> SUFFICES ASSUME NEW a \in Resident
                 PROVE  /\ pc' = "body" => a >= candidate /\ header' = HeaderOf(mem[candidate])
                        /\ pc' = "scan" => a >= current + search
                        /\ result.status = "Found" => result.address <= a
      BY <1>1, <1>2, <1>3 DEF FrontierInvariant, Frontier
    <2>1. a >= candidate /\ (result.status = "Found" => result.address <= a)
      BY <1>a, <1>3 DEF FrontierInvariant, Frontier
    <2>2. a \in Int
      BY <1>a, ResidentTable
    <2>3. ASSUME pc' = "scan" PROVE a # candidate
      <3> SUFFICES ASSUME a = candidate PROVE FALSE
        OBVIOUS
      <3>1. answer.code = "Success" /\ HeaderAccepted(mem[candidate].body)
        BY <1>a, <1>5, ResidentTable, ContentIsTyped DEF IsTable, TypeOK
      <3> QED BY <1>2, <2>3, <3>1
    <2> QED BY <1>2, <1>4, <2>1, <2>2, <2>3
  <1> QED BY <1>6, <1>7, <1>8 DEF IInv, ScanInvariant

\* ReadTable keeps the invariant.
LEMMA ReadTableKeeps == IInv /\ ReadTable => IInv'
  <1> SUFFICES ASSUME IInv, ReadTable PROVE IInv'
    OBVIOUS
  <1>a. TypeOK /\ RangeAccounted /\ ChunkInvariant /\ FrontierInvariant
    BY DEF IInv, ScanInvariant
  <1>1. Resident' = Resident
    BY ScanKeepsResident DEF ReadTable
  <1>2. PICK answer \in ReadAnswers(candidate, header.size, solid) :
          IF /\ answer.code = "Success"
             /\ ChecksumMatches(mem[candidate], header)
             /\ IsPlausible(mem[candidate].body)
          THEN pc' = "done" /\ result' = Found(candidate)
          ELSE pc' = "scan" /\ UNCHANGED result
    BY DEF ReadTable, Finish
  <1>3. /\ UNCHANGED <<mem, solid, held, writes, current, remaining, buffer,
                       readable, advance, search, candidate, header>>
        /\ pc = "body"
    BY DEF ReadTable, memory, chunk
  <1>4. current \in Nat /\ search \in Nat /\ candidate = (current + search) - 1
        /\ search > 0
    BY <1>a, <1>3, ScanNumbers DEF ChunkInvariant
  <1>5. candidate \in Address
    BY <1>a, <1>4 DEF TypeOK, NoAddress
  <1>6. TypeOK'
    BY <1>a, <1>2, <1>3, <1>5 DEF TypeOK
  <1>7. RangeAccounted' /\ ChunkInvariant'
    BY <1>a, <1>2, <1>3
       DEF RangeAccounted, ChunkInvariant, InChunk, BytesToRead, StdMin, PageBase
  <1>8. FrontierInvariant'
    <2> SUFFICES ASSUME NEW a \in Resident
                 PROVE  /\ pc' = "scan" => a >= current + search
                        /\ result'.status = "Found" => result'.address <= a
                        /\ pc' = "done" => result'.status = "Found"
      BY <1>1, <1>2, <1>3 DEF FrontierInvariant, Frontier
    <2>1. /\ a >= candidate /\ (result.status = "Found" => result.address <= a)
          /\ a = candidate => header = HeaderOf(mem[a])
      BY <1>a, <1>3 DEF FrontierInvariant, Frontier
    <2>2. a \in Int
      BY <1>a, ResidentTable
    <2>3. ASSUME pc' = "scan" PROVE a # candidate
      <3> SUFFICES ASSUME a = candidate PROVE FALSE
        OBVIOUS
      <3>1. header = HeaderOf(mem[a]) /\ IsTable(mem[a].body) /\ IsCrcOf(mem[a], mem[a].body)
            /\ mem[a].body.size \in Nat \ {0}
            /\ \A n \in 1 .. mem[a].body.size : \A r \in ReadAnswers(a, n, solid) :
                 r.code = "Success"
        BY <1>a, <2>1, ResidentTable
      <3>2. header.size = mem[a].body.size /\ header.crc = mem[a].crc
        BY <3>1 DEF HeaderOf
      <3>3. answer.code = "Success"
        BY <3>1, <3>2
      <3> QED BY <1>2, <2>3, <3>1, <3>2, <3>3
              DEF ChecksumMatches, IsCrcOf, IsTable, IsPlausible
    <2>4. Found(candidate).status = "Found" /\ Found(candidate).address = candidate
      BY DEF Found
    <2> QED BY <1>2, <1>4, <2>1, <2>2, <2>3, <2>4
  <1> QED BY <1>6, <1>7, <1>8 DEF IInv, ScanInvariant

\* Advance keeps the invariant.
LEMMA AdvanceKeeps == IInv /\ Advance => IInv'
  <1> SUFFICES ASSUME IInv, Advance PROVE IInv'
    OBVIOUS
  <1>a. TypeOK /\ RangeAccounted /\ ChunkInvariant /\ FrontierInvariant
    BY DEF IInv, ScanInvariant
  <1>1. Resident' = Resident
    BY ScanKeepsResident DEF Advance
  <1>2. /\ UNCHANGED <<mem, solid, held, writes, buffer, readable, advance,
                       search, candidate, header, result>>
        /\ pc = "advance" /\ pc' = "read"
        /\ current' = current + advance /\ remaining' = remaining - advance
    BY DEF Advance, memory
  <1>3. /\ current \in Nat /\ remaining \in Nat /\ advance \in Nat
        /\ current + remaining = ScanSize /\ ScanSize \in Nat
        /\ PageSize \in Nat \ {0}
    BY <1>a, ScanNumbers
  <1>4. advance <= remaining
    <2>1. remaining % PageSize = 0 /\ remaining # 0 /\ advance \in 1 .. BytesToRead
      BY <1>a, <1>2, <1>3 DEF ChunkInvariant, InChunk
    <2>2. BytesToRead \in Nat /\ BytesToRead <= remaining
      BY <1>a, <2>1, ChunkSize
    <2> QED BY <1>3, <2>1, <2>2
  <1>5. /\ current + advance \in Nat /\ remaining - advance \in Nat
        /\ (current + advance) + (remaining - advance) = ScanSize
    BY <1>3, <1>4
  <1>6. (current + advance) % PageSize = 0
    <2>1. current % PageSize = 0 /\ advance % PageSize = 0
      BY <1>a, <1>2 DEF RangeAccounted, ChunkInvariant, InChunk
    <2>2. current \in Int /\ advance \in Int
      BY <1>3
    <2>3. (current + advance) % PageSize = current % PageSize
      BY <1>3, <2>1, <2>2, RemainderOfSum
    <2> QED BY <2>1, <2>3
  <1>7. (remaining - advance) % PageSize = 0
    <2>1. remaining % PageSize = 0 /\ advance % PageSize = 0
      BY <1>a, <1>2 DEF ChunkInvariant, InChunk
    <2> DEFINE d == remaining - advance
    <2>2. d \in Int /\ d + advance = remaining /\ advance \in Int
      BY <1>3
    <2> HIDE DEF d
    <2>3. (d + advance) % PageSize = d % PageSize
      BY <1>3, <2>1, <2>2, RemainderOfSum
    <2>4. d % PageSize = 0
      BY <2>1, <2>2, <2>3
    <2> QED BY <2>4 DEF d
  <1>8. TypeOK'
    BY <1>a, <1>2, <1>5 DEF TypeOK
  <1>9. RangeAccounted' /\ ChunkInvariant'
    <2>1. result' = Searching
      BY <1>a, <1>2 DEF ChunkInvariant
    <2> QED BY <1>2, <1>5, <1>6, <1>7, <2>1 DEF RangeAccounted, ChunkInvariant, InChunk
  <1>10. FrontierInvariant'
    BY <1>a, <1>1, <1>2 DEF FrontierInvariant, Frontier
  <1> QED BY <1>8, <1>9, <1>10 DEF IInv, ScanInvariant

\* The numbers of a chunk that is being dealt with.
LEMMA ChunkNumbers ==
  ASSUME IInv, pc \in {"scan", "header", "body"}
  PROVE  /\ current \in Nat /\ search \in Nat /\ readable \in Nat /\ advance \in Nat
         /\ candidate \in Int
         /\ search <= readable /\ readable <= advance
         /\ current + readable <= ScanSize
         /\ pc # "scan" => candidate = current + search - 1
  <1>1. /\ TypeOK /\ RangeAccounted /\ ChunkInvariant
    BY DEF IInv, ScanInvariant
  <1>2. remaining \in Nat \ {0} /\ remaining % PageSize = 0
    BY <1>1, ScanNumbers DEF ChunkInvariant, InChunk
  <1>3. /\ advance \in 1 .. BytesToRead /\ readable <= advance /\ search <= readable
        /\ pc # "scan" => candidate = current + search - 1
    BY <1>1 DEF ChunkInvariant, InChunk
  <1>4. BytesToRead \in Nat /\ BytesToRead <= remaining
    BY <1>1, <1>2, ChunkSize
  <1>5. /\ current \in Nat /\ search \in Nat /\ readable \in Nat /\ advance \in Nat
        /\ current + remaining = ScanSize
    BY <1>1, ScanNumbers
  <1>6. candidate \in Int
    BY <1>1, GeometryAssumption DEF TypeOK, NoAddress, Address
  <1> QED BY <1>2, <1>3, <1>4, <1>5, <1>6

\* Overwrite keeps the invariant.
LEMMA OverwriteKeeps == IInv /\ Overwrite => IInv'
  <1> SUFFICES ASSUME IInv, Overwrite PROVE IInv'
    OBVIOUS
  <1>a. TypeOK /\ RangeAccounted /\ ChunkInvariant /\ FrontierInvariant
    BY DEF IInv, ScanInvariant
  <1>1. PICK a \in Address, c \in Contents : /\ mem' = [mem EXCEPT ![a] = c]
                                             /\ held' = [held EXCEPT ![a] = @ \cup {c}]
    BY DEF Overwrite
  <1>2. /\ UNCHANGED <<pc, solid, current, remaining, buffer, readable, advance,
                       search, candidate, header, result>>
        /\ writes' = writes + 1 /\ writes < MaxWrites
    BY DEF Overwrite, chunk
  <1>3. /\ mem \in [Address -> Contents] /\ held \in [Address -> SUBSET Contents]
        /\ \A b \in Address : mem[b] \in held[b]
    BY <1>a DEF TypeOK
  <1>4. TypeOK'
    <2>1. /\ mem' \in [Address -> Contents] /\ held' \in [Address -> SUBSET Contents]
          /\ \A b \in Address : mem'[b] \in held'[b]
      BY <1>1, <1>3
    <2>2. writes' \in 0 .. MaxWrites
      BY <1>a, <1>2, ScanAssumption DEF TypeOK
    <2> QED BY <1>a, <1>2, <2>1, <2>2 DEF TypeOK
  <1>5. ASSUME NEW b \in Address, held'[b] = {mem'[b]}
        PROVE  held[b] = {mem[b]} /\ mem'[b] = mem[b]
    BY <1>1, <1>3, <1>5
  <1>6. RangeAccounted'
    BY <1>a, <1>2 DEF RangeAccounted
  <1>7. ChunkInvariant'
    <2>1. ASSUME pc \in {"scan", "header", "body"}, NEW o \in 0 .. readable - 1,
                 held'[current + o] = {mem'[current + o]}
          PROVE  buffer[o] = mem'[current + o]
      <3>1. current + o \in Address
        BY <2>1, ChunkNumbers, GeometryAssumption, ScanAssumption DEF Address
      <3>2. held[current + o] = {mem[current + o]} /\ mem'[current + o] = mem[current + o]
        BY <1>5, <2>1, <3>1
      <3> QED BY <1>a, <2>1, <3>2 DEF ChunkInvariant
    <2> QED BY <1>a, <1>2, <2>1 DEF ChunkInvariant, InChunk, BytesToRead, StdMin, PageBase
  <1>8. ASSUME NEW b \in Resident' PROVE b \in Resident /\ mem'[b] = mem[b]
    <2>1. b \in 0 .. ScanSize - 1 /\ IsResident(b)'
      BY DEF Resident
    <2>2. held'[b] = {mem'[b]} /\ b \in Address
      BY <2>1, GeometryAssumption, ScanAssumption DEF IsResident, Address
    <2>3. held[b] = {mem[b]} /\ mem'[b] = mem[b]
      BY <1>5, <2>2
    <2>4. IsResident(b)
      BY <1>2, <2>1, <2>3 DEF IsResident, IsTable, IsHeader, IsCrcOf, PageBase
    <2> QED BY <2>1, <2>3, <2>4 DEF Resident
  <1>9. FrontierInvariant'
    BY <1>a, <1>2, <1>8 DEF FrontierInvariant, Frontier
  <1> QED BY <1>4, <1>6, <1>7, <1>9 DEF IInv, ScanInvariant

\* Every step keeps the invariant.
LEMMA StepInvariant == IInv /\ [Next]_vars => IInv'
  <1> SUFFICES ASSUME IInv, [Next]_vars PROVE IInv'
    OBVIOUS
  <1>1. CASE UNCHANGED vars
    <2>1. Resident' = Resident
      BY <1>1, ScanKeepsResident DEF vars
    <2>2. UNCHANGED <<pc, mem, solid, held, writes, current, remaining, buffer,
                      readable, advance, search, candidate, header, result>>
      BY <1>1 DEF vars, memory, chunk
    <2>3. TypeOK'
      BY <2>2 DEF IInv, TypeOK
    <2>4. ScanInvariant'
      BY <2>1, <2>2 DEF IInv, ScanInvariant, RangeAccounted, ChunkInvariant, InChunk,
           FrontierInvariant, Frontier, BytesToRead, StdMin, PageBase
    <2> QED BY <2>3, <2>4 DEF IInv
  <1>2. CASE ScanStep
    BY <1>2, AllocateBufferKeeps, ReadChunkKeeps, EndOfRangeKeeps, SkipMatchKeeps,
       TakeCandidateKeeps, EndOfBufferKeeps, ReadHeaderKeeps, ReadTableKeeps,
       AdvanceKeeps DEF ScanStep
  <1>3. CASE Overwrite
    BY <1>3, OverwriteKeeps
  <1> QED BY <1>1, <1>2, <1>3 DEF Next

-----------------------------------------------------------------------------

\* Every variable of the scan keeps its type.
THEOREM ScanTypeCorrect == SafetySpec => []TypeOK
  <1>1. SafetySpec => []IInv
    BY InitInvariant, StepInvariant, PTL DEF SafetySpec
  <1>2. IInv => TypeOK
    BY DEF IInv
  <1> QED BY <1>1, <1>2, PTL

\* RemainingBytes never wraps, no byte is counted twice, and every read starts
\* at a page.
THEOREM RangeIsAccounted == SafetySpec => []RangeAccounted
  <1>1. SafetySpec => []IInv
    BY InitInvariant, StepInvariant, PTL DEF SafetySpec
  <1>2. IInv => RangeAccounted
    BY DEF IInv, ScanInvariant
  <1> QED BY <1>1, <1>2, PTL

\* FindEfiSystemTable never passes over a table that has been in readable
\* memory since it began, whatever else is unreadable and whatever changes.
THEOREM TableIsNotPassedOver == SafetySpec => []NoTablePassedOver
  <1>1. SafetySpec => []IInv
    BY InitInvariant, StepInvariant, PTL DEF SafetySpec
  <1>2. IInv => NoTablePassedOver
    <2> SUFFICES ASSUME IInv, NEW a \in Resident
                 PROVE  /\ result # NotFound
                        /\ result.status = "Found" => result.address <= a
      BY DEF NoTablePassedOver
    <2>1. /\ pc = "done" => result.status \in {"Found", "InsufficientResources"}
          /\ result.status = "Found" => result.address <= a
          /\ pc # "done" => result = Searching
      BY DEF IInv, ScanInvariant, ChunkInvariant, FrontierInvariant
    <2>2. /\ NotFound.status \notin {"Found", "InsufficientResources"}
          /\ NotFound # Searching
      BY DEF NotFound, Searching
    <2> QED BY <2>1, <2>2
  <1> QED BY <1>1, <1>2, PTL

\* Why nothing is passed over: chunk by chunk, what was read of a chunk and how
\* far the scan has come in it account for every byte of the range.
THEOREM ScanIsAccounted == SafetySpec => []ScanInvariant
  <1>1. SafetySpec => []IInv
    BY InitInvariant, StepInvariant, PTL DEF SafetySpec
  <1>2. IInv => ScanInvariant
    BY DEF IInv
  <1> QED BY <1>1, <1>2, PTL

-----------------------------------------------------------------------------

\* The candidate examined last lies behind the scan, and one that is being
\* examined is in the range and aligned, and has held a table's header, of which
\* the size and the Crc32 were kept.
Examined ==
  /\ pc \in {"allocate", "read"} => candidate < current
  /\ pc = "scan" => candidate < current + search
  /\ pc = "advance" => candidate < current + advance
  /\ pc \in {"header", "body"} => candidate < ScanSize /\ candidate % TableAlignment = 0
  /\ pc = "body" => \E c \in held[candidate] : IsHeader(c.body) /\ header = HeaderOf(c)

\* A candidate that is being examined is an address.
LEMMA BeingExamined ==
  ASSUME IInv, pc \in {"header", "body"}
  PROVE  candidate \in Address
  <1>1. TypeOK /\ RangeAccounted /\ search > 0 /\ candidate = current + search - 1
    BY DEF IInv, ScanInvariant, ChunkInvariant
  <1>2. current \in Nat /\ search \in Nat
    BY <1>1, ScanNumbers
  <1> QED BY <1>1, <1>2 DEF TypeOK, NoAddress

\* A candidate that is taken lies ahead of every one before it.
LEMMA TakeCandidateAscends ==
  ASSUME IInv, Examined, TakeCandidate
  PROVE  candidate' > candidate /\ Examined'
  <1>1. PICK o \in Matches : IsFirstMatch(o) /\ WorthReading(o) /\ candidate' = current + o
    BY DEF TakeCandidate
  <1>2. pc = "scan" /\ pc' = "header" /\ UNCHANGED current
    BY DEF TakeCandidate, chunk
  <1>3. /\ current \in Nat /\ search \in Nat /\ readable \in Nat /\ candidate \in Int
        /\ current + readable <= ScanSize /\ candidate < current + search
    BY <1>2, ChunkNumbers DEF Examined
  <1>4. o \in Nat /\ o >= search /\ o < readable
    BY <1>3 DEF Matches
  <1>5. candidate' > candidate /\ candidate' < ScanSize
    BY <1>1, <1>3, <1>4, ScanAssumption
  <1>6. candidate' % TableAlignment = 0
    BY <1>1 DEF WorthReading
  <1> QED BY <1>2, <1>5, <1>6 DEF Examined

\* What is found has the checksum of a header the address has held, and is a table
\* if that Crc32 is no other body's.
LEMMA ReadTableFinds ==
  ASSUME IInv, Examined, ReadTable, result' # result
  PROVE  /\ result' = Found(candidate)
         /\ candidate % TableAlignment = 0 /\ candidate < ScanSize
         /\ mem[candidate].body.plausible
         /\ \E c \in held[candidate] : IsHeader(c.body) /\ IsCrcOf(c, mem[candidate].body)
         /\ ChecksumsTellApart(candidate) => IsTable(mem[candidate].body)
  <1>1. /\ pc = "body" /\ result' = Found(candidate)
        /\ ChecksumMatches(mem[candidate], header) /\ IsPlausible(mem[candidate].body)
    BY DEF ReadTable, Finish
  <1>2. candidate % TableAlignment = 0 /\ candidate < ScanSize
    BY <1>1 DEF Examined
  <1>3. mem[candidate] \in held[candidate]
    BY <1>1, BeingExamined DEF IInv, TypeOK
  <1>4. PICK c \in held[candidate] : IsHeader(c.body) /\ header = HeaderOf(c)
    BY <1>1 DEF Examined
  <1>5. IsCrcOf(c, mem[candidate].body)
    BY <1>1, <1>4 DEF ChecksumMatches, HeaderOf, IsCrcOf
  <1>6. ASSUME ChecksumsTellApart(candidate) PROVE IsTable(mem[candidate].body)
    <2>1. mem[candidate].body = c.body
      BY <1>3, <1>5, <1>6 DEF ChecksumsTellApart
    <2> QED BY <1>1, <1>4, <2>1 DEF IsTable, IsPlausible
  <1> QED BY <1>1, <1>2, <1>4, <1>5, <1>6 DEF IsPlausible

\* No step passes over an address that was not examined.
LEMMA ExaminedStays ==
  ASSUME IInv, Examined, [Next]_vars
  PROVE  Examined'
  <1>1. CASE AllocateBuffer \/ EndOfRange
    BY <1>1 DEF AllocateBuffer, EndOfRange, Finish, chunk, Examined
  <1>2. CASE ReadChunk
    <2>1. /\ candidate < current /\ UNCHANGED <<current, candidate>> /\ search' = 0
          /\ pc' \in {"scan", "advance"}
      BY <1>2 DEF Examined, ReadChunk
    <2>2. IInv'
      BY <1>2, ReadChunkKeeps
    <2>3. current \in Nat /\ candidate \in Int /\ advance' \in Nat
      BY <2>2, GeometryAssumption DEF IInv, TypeOK, NoAddress, Address
    <2>4. candidate < current
      BY <2>1
    <2>5. candidate < current + 0
      BY <2>3, <2>4
    <2>6. candidate < current + advance'
      <3>1. PICK n : n = advance'
        OBVIOUS
      <3>2. n \in Nat
        BY <2>3, <3>1
      <3>3. candidate < current + n
        BY <2>3, <2>4, <3>2
      <3> QED BY <3>1, <3>3
    <2> QED BY <2>1, <2>5, <2>6 DEF Examined
  <1>3. CASE SkipMatch
    <2>1. PICK o \in Matches : search' = o + 1
      BY <1>3 DEF SkipMatch
    <2>2. pc = "scan" /\ UNCHANGED <<pc, current, candidate>>
      BY <1>3 DEF SkipMatch, chunk
    <2>3. /\ current \in Nat /\ search \in Nat /\ readable \in Nat /\ candidate \in Int
          /\ candidate < current + search
      BY <2>2, ChunkNumbers DEF Examined
    <2>4. o \in Nat /\ o >= search
      BY <2>3 DEF Matches
    <2> QED BY <2>1, <2>2, <2>3, <2>4 DEF Examined
  <1>4. CASE TakeCandidate
    BY <1>4, TakeCandidateAscends
  <1>5. CASE EndOfBuffer
    <2>1. pc = "scan" /\ pc' = "advance" /\ UNCHANGED <<current, advance, candidate>>
      BY <1>5 DEF EndOfBuffer, chunk
    <2>2. /\ current \in Nat /\ search \in Nat /\ advance \in Nat /\ candidate \in Int
          /\ readable \in Nat /\ search <= readable /\ readable <= advance
          /\ candidate < current + search
      BY <2>1, ChunkNumbers DEF Examined
    <2>3. candidate < current + advance
      BY <2>2
    <2> QED BY <2>1, <2>3 DEF Examined
  <1>6. CASE ReadHeader
    <2>1. /\ pc = "header" /\ UNCHANGED <<current, search, candidate>>
          /\ \/ pc' = "scan"
             \/ /\ pc' = "body" /\ HeaderAccepted(mem[candidate].body)
                /\ header' = HeaderOf(mem[candidate])
          /\ held' = held
      BY <1>6 DEF ReadHeader, chunk, memory
    <2>2. candidate < current + search
      BY <2>1, ChunkNumbers
    <2>3. mem[candidate] \in held[candidate] /\ mem[candidate] \in Contents
      BY <2>1, BeingExamined DEF IInv, TypeOK
    <2>4. HeaderAccepted(mem[candidate].body) => IsHeader(mem[candidate].body)
      BY <2>3, ContentIsTyped
    <2> QED BY <2>1, <2>2, <2>3, <2>4 DEF Examined
  <1>7. CASE ReadTable
    <2>1. pc = "body" /\ pc' \in {"scan", "done"} /\ UNCHANGED <<current, search, candidate>>
      BY <1>7 DEF ReadTable, Finish, chunk
    <2>2. candidate < current + search
      BY <2>1, ChunkNumbers
    <2> QED BY <2>1, <2>2 DEF Examined
  <1>8. CASE Advance
    BY <1>8 DEF Advance, Examined
  <1>9. CASE Overwrite
    <2>1. PICK a \in Address, c \in Contents : held' = [held EXCEPT ![a] = @ \cup {c}]
      BY <1>9 DEF Overwrite
    <2>2. UNCHANGED <<pc, current, advance, search, candidate, header>>
      BY <1>9 DEF Overwrite, chunk
    <2>3. pc = "body" => held[candidate] \subseteq held'[candidate]
      BY <2>1, BeingExamined DEF IInv, TypeOK
    <2> QED BY <2>2, <2>3 DEF Examined
  <1>10. CASE UNCHANGED vars
    BY <1>10 DEF vars, chunk, memory, Examined
  <1> QED BY <1>1, <1>2, <1>3, <1>4, <1>5, <1>6, <1>7, <1>8, <1>9, <1>10
          DEF Next, ScanStep

\* So what has been passed was examined, throughout.
LEMMA ExaminedHolds == SafetySpec => [](IInv /\ Examined)
  <1>1. Init => Examined
    BY DEF Init, Examined, NoAddress
  <1>2. IInv /\ Examined /\ [Next]_vars => (IInv /\ Examined)'
    BY StepInvariant, ExaminedStays
  <1> QED BY <1>1, <1>2, InitInvariant, PTL DEF SafetySpec

\* No address is examined twice, and candidates are examined in order.
THEOREM CandidatesAreInOrder == SafetySpec => CandidatesAscend
  <1>1. IInv /\ Examined /\ [Next]_vars =>
          [candidate' # candidate => candidate' > candidate]_vars
    <2>1. ASSUME IInv, Examined, TakeCandidate
          PROVE  candidate' > candidate
      BY <2>1, TakeCandidateAscends
    <2>2. ASSUME Next, ~TakeCandidate
          PROVE  candidate' = candidate
      BY <2>2 DEF Next, ScanStep, AllocateBuffer, ReadChunk, EndOfRange, SkipMatch,
                  EndOfBuffer, ReadHeader, ReadTable, Advance, Overwrite
    <2> QED BY <2>1, <2>2
  <1> QED BY <1>1, ExaminedHolds, PTL DEF SafetySpec, CandidatesAscend

\* What a report is worth while others write: the fields behind the header are
\* plausible, the bytes have the checksum that an acceptable header of that address
\* announced, and they are a table unless some Crc32 is that of other bytes too.
THEOREM ReportsAreAnnounced == SafetySpec => ReportsOnlyTables
  <1> DEFINE Reported(a) ==
        /\ a % TableAlignment = 0 /\ a < ScanSize
        /\ mem[a].body.plausible
        /\ \E c \in held[a] : IsHeader(c.body) /\ IsCrcOf(c, mem[a].body)
        /\ ChecksumsTellApart(a) => IsTable(mem[a].body)
  <1>1. IInv /\ Examined /\ [Next]_vars =>
          [result' # result /\ result'.status = "Found" => Reported(result'.address)]_vars
    <2>1. ASSUME IInv, Examined, ReadTable, result' # result
          PROVE  Reported(result'.address)
      <3>1. result' = Found(candidate) /\ Reported(candidate)
        BY <2>1, ReadTableFinds
      <3>2. result'.address = candidate
        BY <3>1 DEF Found
      <3> HIDE DEF Reported
      <3> QED BY <3>1, <3>2
    <2>2. ASSUME Next, ~ReadTable, result' # result
          PROVE  result'.status # "Found"
      BY <2>2 DEF Next, ScanStep, AllocateBuffer, ReadChunk, EndOfRange, SkipMatch,
                  TakeCandidate, EndOfBuffer, ReadHeader, Advance, Overwrite, Finish,
                  OutOfMemory, NotFound
    <2> HIDE DEF Reported
    <2> QED BY <2>1, <2>2
  <1> QED BY <1>1, ExaminedHolds, PTL DEF SafetySpec, ReportsOnlyTables

-----------------------------------------------------------------------------

(***************************************************************************)
(* The checksum.  Its register and the bits of the message that have not   *)
(* been taken yet are one polynomial, here the set of the numbers of its   *)
(* bits, bit 0 the first of the message: what is Outstanding.  Taking a    *)
(* byte does not change it, and shifting the register is a step of the     *)
(* division by the generator (ShiftPending), which is linear.  So the      *)
(* register holds the remainder, and what two messages that differ in a    *)
(* burst differ in is a burst until the bytes are used up.                 *)
(***************************************************************************)
\* Induction over the natural numbers, for a set of them.
LEMMA NumbersInTurn ==
  ASSUME NEW F, 0 \in F, \A n \in Nat : n \in F => n + 1 \in F
  PROVE  Nat \subseteq F
  <1> DEFINE B == Nat \ F
             R == OpToRel(<, Nat)
  <1> SUFFICES ASSUME B # {} PROVE FALSE
    OBVIOUS
  <1>1. \E x \in B : \A y \in B : ~ (<<y, x>> \in R)
    <2>1. B \subseteq Nat
      OBVIOUS
    <2>2. IsWellFoundedOn(R, Nat)
      BY NatLessThanWellFounded
    <2> HIDE DEF R, B
    <2> QED BY <2>1, <2>2, WFMin
  <1>2. PICK x \in B : \A y \in B : ~ (<<y, x>> \in R)
    BY <1>1
  <1>3. x - 1 \in Nat /\ x - 1 < x /\ (x - 1) + 1 = x
    <2>1. x \in Nat /\ x # 0
      OBVIOUS
    <2> QED BY <2>1
  <1>4. x - 1 \notin F
    BY <1>3
  <1>5. <<x - 1, x>> \in R
    BY <1>3 DEF OpToRel
  <1> QED BY <1>2, <1>3, <1>4, <1>5

\* A set of numbers with an upper bound has a least and a greatest.
LEMMA LeastAndGreatest ==
  ASSUME NEW n \in Nat, NEW S, S \subseteq 0 .. n, S # {}
  PROVE  /\ Min(S) \in S /\ \A x \in S : Min(S) <= x
         /\ Max(S) \in S /\ \A x \in S : x <= Max(S)
  <1>1. ASSUME NEW T, T \subseteq Nat, T # {}
        PROVE  \E x \in T : \A y \in T : x <= y
    <2> DEFINE F == {k \in Nat : \A y \in T : k <= y}
    <2>1. CASE \A k \in Nat : k \in F => k + 1 \in F
      <3>1. 0 \in F
        BY <1>1
      <3> HIDE DEF F
      <3>2. Nat \subseteq F
        BY <2>1, <3>1, NumbersInTurn
      <3>3. PICK y \in T : TRUE
        BY <1>1
      <3>4. y \in Nat /\ y + 1 \in F
        BY <1>1, <3>2
      <3> QED BY <3>3, <3>4 DEF F
    <2>2. CASE \E k \in Nat : k \in F /\ k + 1 \notin F
      BY <1>1, <2>2
    <2> QED BY <2>1, <2>2
  <1>2. \E x \in S : \A y \in S : x <= y
    <2>1. S \subseteq Nat
      OBVIOUS
    <2> QED BY <1>1, <2>1
  <1>3. \E x \in S : \A y \in S : x >= y
    <2> DEFINE T == {n - x : x \in S}
    <2>1. T \subseteq Nat /\ T # {}
      <3>1. ASSUME NEW x \in S PROVE n - x \in Nat
        <4>1. x \in 0 .. n
          OBVIOUS
        <4> QED BY <4>1
      <3> QED BY <3>1
    <2>2. PICK t \in T : \A u \in T : t <= u
      BY <1>1, <2>1
    <2>3. PICK x \in S : t = n - x
      OBVIOUS
    <2>4. ASSUME NEW y \in S PROVE x >= y
      <3>1. n - x <= n - y
        BY <2>2, <2>3
      <3> QED BY <3>1
    <2> QED BY <2>4
  <1> QED BY <1>2, <1>3 DEF Min, Max

\* Bit i of the first n bytes of a message.
LEMMA BitOf ==
  ASSUME NEW m, NEW n \in Nat, NEW i
  PROVE  i \in BitsOf(m, n) <=>
           i \in 0 .. 8 * n - 1 /\ (i % 8) \in m[i \div 8 + 1]
  BY DEF BitsOf

\* The bits still to be dealt with once k bits have been shifted out of the register
\* r and a bytes of the first n of the message m have been taken into it.
Outstanding(r, k, m, a, n) ==
  {i \in Int : ~ (i - k \in r <=> (i \in BitsOf(m, n) /\ i >= 8 * a))}

\* Taking a byte changes nothing about them.
LEMMA TakePending ==
  ASSUME NEW r \in SUBSET Word, NEW a \in Nat, NEW n \in Nat, a < n,
         NEW m, m[a + 1] \in Byte
  PROVE  Outstanding(SymDiff(r, m[a + 1]), 8 * a, m, a + 1, n)
           = Outstanding(r, 8 * a, m, a, n)
  <1> DEFINE byte == m[a + 1]
  <1>1. byte \subseteq 0 .. 7
    BY DEF Byte
  <1>2. ASSUME NEW i \in Int
        PROVE  /\ i \in BitsOf(m, n) /\ i >= 8 * a /\ i < 8 * (a + 1)
                    <=> i - 8 * a \in byte
    <2>1. CASE i >= 8 * a /\ i < 8 * (a + 1)
      <3>1. i \div 8 = a /\ i % 8 = i - 8 * a
        BY <2>1
      <3>2. i \in 0 .. 8 * n - 1
        BY <2>1
      <3> QED BY <2>1, <3>1, <3>2, BitOf
    <2>2. CASE ~ (i >= 8 * a /\ i < 8 * (a + 1))
      <3>1. i - 8 * a \notin 0 .. 7
        BY <2>2
      <3> QED BY <1>1, <2>2, <3>1
    <2> QED BY <2>1, <2>2
  <1>3. ASSUME NEW i \in Int
        PROVE  i \in Outstanding(SymDiff(r, byte), 8 * a, m, a + 1, n)
                 <=> i \in Outstanding(r, 8 * a, m, a, n)
    <2> DEFINE in == i \in BitsOf(m, n)
               x == i - 8 * a
    <2>1. x \in SymDiff(r, byte) <=> ~ (x \in r <=> x \in byte)
      BY DEF SymDiff
    <2>2. /\ i >= 8 * a <=> i >= 8 * (a + 1) \/ (i >= 8 * a /\ i < 8 * (a + 1))
          /\ i >= 8 * (a + 1) => i >= 8 * a /\ ~ (i < 8 * (a + 1))
      OBVIOUS
    <2>3. in /\ i >= 8 * a /\ i < 8 * (a + 1) <=> x \in byte
      BY <1>2
    <2>4. /\ i \in Outstanding(SymDiff(r, byte), 8 * a, m, a + 1, n)
               <=> ~ (x \in SymDiff(r, byte) <=> (in /\ i >= 8 * (a + 1)))
          /\ i \in Outstanding(r, 8 * a, m, a, n) <=> ~ (x \in r <=> (in /\ i >= 8 * a))
      BY DEF Outstanding
    <2> HIDE DEF in, x, byte
    <2> QED BY <2>1, <2>2, <2>3, <2>4
  <1> QED BY <1>3 DEF Outstanding

\* What a shift makes of the bits pending when bit k is the first of them.
ShiftPending(P, k) ==
  SymDiff(P \ {k}, IF k \in P THEN {k + 1 + q : q \in Polynomial} ELSE {})

\* Bit i after the shift.
LEMMA AfterShift ==
  ASSUME NEW P, NEW k \in Int, NEW i \in Int
  PROVE  i \in ShiftPending(P, k) <=>
           ~ ((i \in P /\ i # k) <=> (k \in P /\ i - (k + 1) \in Polynomial))
  <1>1. (\E q \in Polynomial : i = k + 1 + q) <=> i - (k + 1) \in Polynomial
    <2>1. Polynomial \subseteq Int
      BY DEF Polynomial
    <2>2. ASSUME NEW q \in Polynomial, i = k + 1 + q
          PROVE  i - (k + 1) = q
      BY <2>1, <2>2
    <2>3. i = k + 1 + (i - (k + 1))
      OBVIOUS
    <2> QED BY <2>2, <2>3
  <1>2. i \in (IF k \in P THEN {k + 1 + q : q \in Polynomial} ELSE {})
          <=> k \in P /\ i - (k + 1) \in Polynomial
    BY <1>1
  <1> QED BY <1>2 DEF ShiftPending, SymDiff

\* Bit p of a register after the shift.
LEMMA ShiftedBit ==
  ASSUME NEW r \in SUBSET Word, NEW p \in Int
  PROVE  p \in Shifted(r) <=>
           ~ ((p + 1 \in r /\ p # -1) <=> (0 \in r /\ p \in Polynomial))
  <1>1. (\E q \in r \ {0} : p = q - 1) <=> p + 1 \in r /\ p # -1
    <2>1. r \subseteq Int
      BY DEF Word
    <2>2. ASSUME NEW q \in r \ {0}, p = q - 1
          PROVE  p + 1 = q /\ p # -1
      BY <2>1, <2>2
    <2>3. p = (p + 1) - 1 /\ (p # -1 => p + 1 # 0)
      OBVIOUS
    <2> QED BY <2>2, <2>3
  <1>2. p \in (IF 0 \in r THEN Polynomial ELSE {}) <=> 0 \in r /\ p \in Polynomial
    OBVIOUS
  <1> QED BY <1>1, <1>2 DEF Shifted, SymDiff

\* A register shifted is a register.
LEMMA ShiftedIsRegister ==
  ASSUME NEW r \in SUBSET Word
  PROVE  Shifted(r) \in SUBSET Word
  <1>1. {q - 1 : q \in r \ {0}} \subseteq Word
    BY DEF Word
  <1>2. Polynomial \subseteq Word
    BY DEF Polynomial, Word
  <1> QED BY <1>1, <1>2 DEF Shifted, SymDiff

\* Shifting the register is such a shift: bit k is in the register, not in a byte
\* that has not been taken.
LEMMA ShiftIsShift ==
  ASSUME NEW r \in SUBSET Word, NEW k \in Int, NEW a \in Nat, k < 8 * a, NEW n, NEW m
  PROVE  Outstanding(Shifted(r), k + 1, m, a, n)
           = ShiftPending(Outstanding(r, k, m, a, n), k)
  <1> DEFINE P == Outstanding(r, k, m, a, n)
             later(i) == i \in BitsOf(m, n) /\ i >= 8 * a
  <1>1. k \in P <=> 0 \in r
    <2>1. k - k = 0 /\ ~ (k >= 8 * a)
      OBVIOUS
    <2> QED BY <2>1 DEF Outstanding
  <1>2. ASSUME NEW i \in Int
        PROVE  i \in Outstanding(Shifted(r), k + 1, m, a, n) <=> i \in ShiftPending(P, k)
    <2> DEFINE p == i - (k + 1)
    <2>1. i \in Outstanding(Shifted(r), k + 1, m, a, n)
            <=> ~ (p \in Shifted(r) <=> later(i))
      BY DEF Outstanding
    <2>2. i \in P <=> ~ (p + 1 \in r <=> later(i))
      <3>1. p + 1 = i - k
        OBVIOUS
      <3> QED BY <3>1 DEF Outstanding
    <2>3. p \in Shifted(r) <=>
            ~ ((p + 1 \in r /\ p # -1) <=> (0 \in r /\ p \in Polynomial))
      BY ShiftedBit
    <2>4. i \in ShiftPending(P, k) <=>
            ~ ((i \in P /\ i # k) <=> (k \in P /\ p \in Polynomial))
      BY AfterShift
    <2>5. p = -1 <=> i = k
      OBVIOUS
    <2>6. i = k => ~ later(i)
      OBVIOUS
    <2> HIDE DEF p, later, P
    <2> QED BY <1>1, <2>1, <2>2, <2>3, <2>4, <2>5, <2>6
  <1>3. ShiftPending(P, k) \subseteq Int
    BY DEF ShiftPending, Outstanding, SymDiff, Polynomial
  <1> QED BY <1>2, <1>3 DEF Outstanding

\* Dividing the highest coefficient out of a remainder is the same step: the
\* coefficient of x^(top - i) is that of bit i.
Mirrors(P, R, top) ==
  /\ R \subseteq Int
  /\ \A i \in Int : i \in P <=> top - i \in R

\* 0xEDB88320 is the generator but for its highest coefficient, from bit 31 down.
LEMMA GeneratorIsPolynomial ==
  ASSUME NEW j \in Int
  PROVE  32 - j \in Generator <=> j = 0 \/ j - 1 \in Polynomial
  BY DEF Generator, Polynomial

\* One division against one shift.
LEMMA DividingIsShifting ==
  ASSUME NEW P, NEW R, NEW top \in Int, NEW k \in Int, Mirrors(P, R, top)
  PROVE  Mirrors(ShiftPending(P, k), DividedOut(R, top - k), top)
  <1> DEFINE e == top - k
  <1>1. k \in P <=> e \in R
    BY DEF Mirrors
  <1>2. ASSUME NEW i \in Int
        PROVE  i \in ShiftPending(P, k) <=> top - i \in DividedOut(R, e)
    <2> DEFINE j == i - k
    <2>1. i \in ShiftPending(P, k) <=>
            ~ ((i \in P /\ i # k) <=> (k \in P /\ j - 1 \in Polynomial))
      <3>1. j - 1 = i - (k + 1)
        OBVIOUS
      <3> QED BY <3>1, AfterShift
    <2>2. (\E g \in Generator : top - i = g + (e - 32)) <=> 32 - j \in Generator
      <3>1. Generator \subseteq Int
        BY DEF Generator
      <3>2. ASSUME NEW g \in Generator, top - i = g + (e - 32)
            PROVE  32 - j = g
        BY <3>1, <3>2
      <3>3. top - i = (32 - j) + (e - 32)
        OBVIOUS
      <3> QED BY <3>2, <3>3
    <2>3. top - i \in DividedOut(R, e) <=>
            ~ (top - i \in R <=> (e \in R /\ 32 - j \in Generator))
      <3>1. CASE e \in R
        <4>1. top - i \in {g + (e - 32) : g \in Generator} <=> 32 - j \in Generator
          BY <2>2
        <4> QED BY <3>1, <4>1 DEF DividedOut, SymDiff
      <3>2. CASE e \notin R
        BY <3>2 DEF DividedOut
      <3> QED BY <3>1, <3>2
    <2>4. i \in P <=> top - i \in R
      BY DEF Mirrors
    <2>5. 32 - j \in Generator <=> j = 0 \/ j - 1 \in Polynomial
      BY GeneratorIsPolynomial
    <2>6. (j = 0 <=> i = k) /\ (i = k => top - i = e)
      OBVIOUS
    <2>7. j = 0 => j - 1 \notin Polynomial
      BY DEF Polynomial
    <2> HIDE DEF j, e
    <2> QED BY <1>1, <2>1, <2>3, <2>4, <2>5, <2>6, <2>7
  <1>3. DividedOut(R, e) \subseteq Int
    <2>1. Generator \subseteq Int /\ e \in Int
      BY DEF Generator
    <2>2. {g + (e - 32) : g \in Generator} \subseteq Int
      BY <2>1
    <2>3. R \subseteq Int
      BY DEF Mirrors
    <2> QED BY <2>2, <2>3 DEF DividedOut, SymDiff
  <1> QED BY <1>2, <1>3 DEF Mirrors

\* The remainders of p down to that by which the coefficients above x^bottom are zero.
RestsFrom(p, bottom, top, rest) ==
  rest = [e \in bottom .. top |-> IF e = top THEN p ELSE DividedOut(rest[e + 1], e + 1)]

\* There are such remainders.
LEMMA RestsExist ==
  ASSUME NEW p, NEW top \in Int, 31 <= top
  PROVE  \E rest : RestsFrom(p, 31, top, rest)
  <1> DEFINE F == {n \in Nat : \E rest : RestsFrom(p, top - n, top, rest)}
  <1>1. 0 \in F
    <2> DEFINE rest == [e \in top .. top |-> p]
    <2>1. RestsFrom(p, top - 0, top, rest)
      <3>1. top - 0 = top /\ \A e \in top .. top : e = top
        OBVIOUS
      <3> QED BY <3>1 DEF RestsFrom
    <2> QED BY <2>1
  <1>2. ASSUME NEW n \in Nat, n \in F
        PROVE  n + 1 \in F
    <2>1. PICK rest : RestsFrom(p, top - n, top, rest)
      BY <1>2
    <2> DEFINE low == top - (n + 1)
               more == [e \in low .. top |->
                          IF e = low THEN DividedOut(rest[low + 1], low + 1)
                          ELSE rest[e]]
    <2>2. low \in Int /\ low < top /\ low + 1 = top - n
      OBVIOUS
    <2>3. ASSUME NEW e \in low .. top
          PROVE  more[e] = IF e = top THEN p ELSE DividedOut(more[e + 1], e + 1)
      <3>1. CASE e = low
        <4>1. low + 1 \in low .. top /\ low + 1 # low /\ e # top
          BY <2>2, <3>1
        <4>2. more[low + 1] = rest[low + 1]
          BY <4>1
        <4> QED BY <3>1, <4>1, <4>2
      <3>2. CASE e # low
        <4>1. e \in top - n .. top /\ (e # top => e + 1 \in low .. top /\ e + 1 # low)
          BY <2>2, <3>2
        <4>2. rest[e] = IF e = top THEN p ELSE DividedOut(rest[e + 1], e + 1)
          BY <2>1, <4>1 DEF RestsFrom
        <4>3. more[e] = rest[e] /\ (e # top => more[e + 1] = rest[e + 1])
          BY <3>2, <4>1
        <4> HIDE DEF more, low
        <4> QED BY <4>2, <4>3
      <3> QED BY <3>1, <3>2
    <2>4. more = [e \in low .. top |-> more[e]]
      OBVIOUS
    <2>5. RestsFrom(p, low, top, more)
      <3> HIDE DEF more, low
      <3> QED BY <2>3, <2>4 DEF RestsFrom
    <2>6. n + 1 \in Nat
      OBVIOUS
    <2> QED BY <2>5, <2>6
  <1> HIDE DEF F
  <1>3. top - 31 \in F
    BY <1>1, <1>2, NumbersInTurn
  <1>4. top - (top - 31) = 31
    OBVIOUS
  <1> QED BY <1>3, <1>4 DEF F

\* What Rests says is so, coefficient by coefficient.
LEMMA RestsAre ==
  ASSUME NEW p, NEW top \in Int, 31 <= top, NEW e \in 31 .. top
  PROVE  Rests(p, top)[e] =
           IF e = top THEN p ELSE DividedOut(Rests(p, top)[e + 1], e + 1)
  <1>1. Rests(p, top) = CHOOSE rest : RestsFrom(p, 31, top, rest)
    BY DEF Rests, RestsFrom
  <1>2. RestsFrom(p, 31, top, Rests(p, top))
    BY <1>1, RestsExist
  <1> HIDE DEF Rests
  <1> QED BY <1>2 DEF RestsFrom

\* A word's worth of bits from bit v on, bit k the first of those still to be dealt
\* with, is what is pending of a burst.
BurstPending(P, k, v) == /\ v \in Int /\ v >= k
                         /\ P # {} /\ P \subseteq v .. v + 31

\* And it stays one.
LEMMA BurstIsKept ==
  ASSUME NEW P, NEW k \in Int, NEW v, BurstPending(P, k, v)
  PROVE  \E w : BurstPending(ShiftPending(P, k), k + 1, w)
  <1>1. v \in Int /\ v >= k /\ P # {} /\ P \subseteq v .. v + 31 /\ P \subseteq Int
    BY DEF BurstPending
  <1>2. CASE k \notin P
    <2>1. ShiftPending(P, k) = P
      BY <1>2 DEF ShiftPending, SymDiff
    <2>2. CASE v = k
      <3>1. P \subseteq k + 1 .. k + 1 + 31
        BY <1>1, <1>2, <2>2
      <3>2. BurstPending(P, k + 1, k + 1)
        BY <1>1, <3>1 DEF BurstPending
      <3> QED BY <2>1, <3>2
    <2>3. CASE v # k
      <3>1. BurstPending(P, k + 1, v)
        BY <1>1, <2>3 DEF BurstPending
      <3> QED BY <2>1, <3>1
    <2> QED BY <2>2, <2>3
  <1>3. CASE k \in P
    <2>1. v = k
      BY <1>1, <1>3
    <2>2. ASSUME NEW i \in ShiftPending(P, k)
          PROVE  i \in k + 1 .. k + 1 + 31
      <3>1. CASE i \in P \ {k}
        BY <1>1, <2>1, <3>1
      <3>2. CASE i \in {k + 1 + q : q \in Polynomial}
        BY <3>2 DEF Polynomial
      <3> QED BY <1>3, <2>2, <3>1, <3>2 DEF ShiftPending, SymDiff
    <2>3. k + 32 \in ShiftPending(P, k)
      <3>1. k + 32 \notin P
        BY <1>1, <2>1
      <3>2. (k + 32) - (k + 1) = 31 /\ k + 32 \in Int
        OBVIOUS
      <3>3. 31 \in Polynomial
        BY DEF Polynomial
      <3> QED BY <1>3, <3>1, <3>2, <3>3, AfterShift
    <2>4. BurstPending(ShiftPending(P, k), k + 1, k + 1)
      BY <2>2, <2>3 DEF BurstPending
    <2> QED BY <2>4
  <1> QED BY <1>2, <1>3

\* The shift is linear.
LEMMA ShiftOfDifference ==
  ASSUME NEW P \in SUBSET Int, NEW Q \in SUBSET Int, NEW k \in Int
  PROVE  ShiftPending(SymDiff(P, Q), k)
           = SymDiff(ShiftPending(P, k), ShiftPending(Q, k))
  <1>1. ASSUME NEW i \in Int
        PROVE  i \in ShiftPending(SymDiff(P, Q), k)
                 <=> i \in SymDiff(ShiftPending(P, k), ShiftPending(Q, k))
    <2>1. \A x : x \in SymDiff(P, Q) <=> ~ (x \in P <=> x \in Q)
      BY DEF SymDiff
    <2>2. i \in SymDiff(ShiftPending(P, k), ShiftPending(Q, k))
            <=> ~ (i \in ShiftPending(P, k) <=> i \in ShiftPending(Q, k))
      BY DEF SymDiff
    <2> DEFINE D == SymDiff(P, Q)
               q == i - (k + 1) \in Polynomial
    <2>3. /\ i \in ShiftPending(D, k) <=> ~ ((i \in D /\ i # k) <=> (k \in D /\ q))
          /\ i \in ShiftPending(P, k) <=> ~ ((i \in P /\ i # k) <=> (k \in P /\ q))
          /\ i \in ShiftPending(Q, k) <=> ~ ((i \in Q /\ i # k) <=> (k \in Q /\ q))
      BY AfterShift
    <2>4. /\ i \in D <=> ~ (i \in P <=> i \in Q)
          /\ k \in D <=> ~ (k \in P <=> k \in Q)
      BY <2>1
    <2> HIDE DEF D, q
    <2>5. i \in ShiftPending(D, k) <=> i \in SymDiff(ShiftPending(P, k), ShiftPending(Q, k))
      BY <2>2, <2>3, <2>4
    <2> QED BY <2>5 DEF D
  <1>2. ASSUME NEW R \in SUBSET Int
        PROVE  ShiftPending(R, k) \subseteq Int
    <2>1. Polynomial \subseteq Int
      BY DEF Polynomial
    <2>2. {k + 1 + q : q \in Polynomial} \subseteq Int
      BY <2>1
    <2> QED BY <2>2 DEF ShiftPending, SymDiff
  <1>3. SymDiff(P, Q) \in SUBSET Int
    BY DEF SymDiff
  <1> DEFINE A == ShiftPending(P, k)
             B == ShiftPending(Q, k)
             C == ShiftPending(SymDiff(P, Q), k)
  <1>4. A \subseteq Int /\ B \subseteq Int /\ C \subseteq Int
    BY <1>2, <1>3
  <1>5. \A i \in Int : i \in C <=> i \in SymDiff(A, B)
    BY <1>1
  <1> HIDE DEF A, B, C
  <1>6. C = SymDiff(A, B)
    BY <1>4, <1>5 DEF SymDiff
  <1> QED BY <1>6 DEF A, B, C

\* The bits that have been shifted out of the registers.
Gone == 8 * (next - 2) + bit

\* What the register of a calculation holds, before it is inverted to be returned.
Register(c) == IF done THEN Word \ crc[c] ELSE crc[c]

\* What is pending for a calculation that stops after n bytes.
Left(c, n) == Outstanding(Register(c), Gone, message[c], next - 1, n)

CrcTypeOK ==
  /\ message \in Messages
  /\ next \in 1 .. Length + 1 /\ bit \in 0 .. 8 /\ done \in BOOLEAN
  /\ crc \in [Copies -> SUBSET Word]
  /\ bit < 8 => next >= 2
  /\ done => bit = 8 /\ next > Length

\* The remainder the calculation that stops after n bytes has come to.
Divided(c, n) ==
  Rests(Dividend(message[c], n), 8 * n + 31)[8 * n + 31 - Gone]

\* What is pending mirrors what is left to divide, for every number of bytes the
\* calculation may still stop after.
DividesOn ==
  \A c \in Copies : \A n \in next - 1 .. Length :
    Mirrors(Left(c, n), Divided(c, n), 8 * n + 31)

Changed(c, d) ==
  SymDiff(BitsOf(message[c], Length), BitsOf(message[d], Length))

Difference(c, d) == SymDiff(Left(c, Length), Left(d, Length))

IsBurst(changed) == changed # {} /\ Max(changed) - Min(changed) < 32

\* The difference of two messages that differ in a burst is a burst to the end.
BurstsArePending ==
  \A c, d \in Copies :
    IsBurst(Changed(c, d)) => \E v : BurstPending(Difference(c, d), Gone, v)

CrcInvariant == CrcTypeOK /\ DividesOn /\ BurstsArePending

\* The messages as MessagesAssumption of Crc32 has them.
LEMMA MessagesTyped ==
  ASSUME message \in Messages
  PROVE  /\ Length \in Nat
         /\ \A c \in Copies : Len(message[c]) = Length
         /\ \A c \in Copies : \A n \in 1 .. Length : message[c][n] \in Byte
  <1>1. SideBySide(message)
    BY MessagesAssumption
  <1>2. PICK c \in Copies : c = CHOOSE d \in Copies : TRUE
    BY <1>1 DEF SideBySide, Copies
  <1>3. Length = Len(message[c])
    BY <1>2 DEF Length
  <1>4. \A d \in Copies : message[d] \in Seq(Byte) /\ Len(message[d]) = Len(message[c])
    BY <1>1 DEF SideBySide, Copies
  <1>5. Length \in Nat
    BY <1>3, <1>4
  <1>6. ASSUME NEW d \in Copies, NEW n \in 1 .. Length
        PROVE  message[d][n] \in Byte
    <2>1. message[d] \in Seq(Byte) /\ n \in 1 .. Len(message[d])
      BY <1>3, <1>4
    <2> QED BY <2>1
  <1> QED BY <1>3, <1>4, <1>5, <1>6

\* The division begins with the dividend.
LEMMA NothingDivided ==
  ASSUME NEW c, NEW n \in Nat, Gone = 0
  PROVE  Divided(c, n) = Dividend(message[c], n)
  <1> PICK p : p = Dividend(message[c], n)
    OBVIOUS
  <1> PICK top : top = 8 * n + 31
    OBVIOUS
  <1>1. top \in Int /\ 31 <= top /\ top \in 31 .. top /\ top - 0 = top
    OBVIOUS
  <1>2. Divided(c, n) = Rests(p, top)[top - Gone]
    BY DEF Divided
  <1>3. Rests(p, top)[top] = p
    BY <1>1, RestsAre
  <1> QED BY <1>1, <1>2, <1>3

\* A calculation begins with the whole dividend, and messages that differ in a burst
\* differ in it.
LEMMA InitDivides ==
  ASSUME CrcInit
  PROVE  CrcInvariant
  <1>1. /\ message \in Messages /\ next = 1 /\ bit = 8 /\ done = FALSE
        /\ crc = [c \in Copies |-> Word]
    BY DEF CrcInit
  <1>2. Length \in Nat
    BY <1>1, MessagesTyped
  <1>3. CrcTypeOK
    <2>1. crc \in [Copies -> SUBSET Word]
      BY <1>1
    <2>2. next \in 1 .. Length + 1 /\ bit \in 0 .. 8 /\ ~ (bit < 8)
      BY <1>1, <1>2
    <2> QED BY <1>1, <2>1, <2>2 DEF CrcTypeOK
  <1>4. Gone = 0
    BY <1>1 DEF Gone
  <1>5. ASSUME NEW c \in Copies, NEW n \in Nat, NEW i \in Int
        PROVE  i \in Left(c, n) <=> ~ (i \in Word <=> i \in BitsOf(message[c], n))
    <2>1. Left(c, n) = Outstanding(Word, 0, message[c], 0, n)
      BY <1>1, <1>4 DEF Left, Register
    <2>2. i \in BitsOf(message[c], n) => i >= 8 * 0
      BY BitOf
    <2>3. i - 0 = i
      OBVIOUS
    <2> QED BY <2>1, <2>2, <2>3 DEF Outstanding
  <1>6. DividesOn
    <2> SUFFICES ASSUME NEW c \in Copies, NEW n \in 0 .. Length
                 PROVE  Mirrors(Left(c, n), Divided(c, n), 8 * n + 31)
      BY <1>1 DEF DividesOn
    <2> PICK top : top = 8 * n + 31
      OBVIOUS
    <2> DEFINE bits == BitsOf(message[c], n)
    <2>1. n \in Nat /\ top \in Int /\ 31 <= top /\ top \in 31 .. top
      BY <1>2
    <2>2. Divided(c, n) = Dividend(message[c], n)
      BY <1>4, <2>1, NothingDivided
    <2>3. ASSUME NEW i \in Int
          PROVE  i \in Left(c, n) <=> top - i \in Dividend(message[c], n)
      <3>1. bits \subseteq Int /\ Word \subseteq Int
        BY <2>1, BitOf DEF Word
      <3>2. ASSUME NEW S, S \subseteq Int
            PROVE  top - i \in {top - j : j \in S} <=> i \in S
        <4>1. \A j \in S : top - i = top - j => i = j
          BY <2>1, <3>2
        <4> QED BY <4>1
      <3>3. top - i \in {top - j : j \in bits} <=> i \in bits
        BY <3>1, <3>2
      <3>4. top - i \in {top - j : j \in Word} <=> i \in Word
        BY <3>1, <3>2
      <3>5. Dividend(message[c], n)
              = SymDiff({top - j : j \in bits}, {top - j : j \in Word})
        BY DEF Dividend
      <3>6. i \in Left(c, n) <=> ~ (i \in Word <=> i \in bits)
        BY <1>5, <2>1
      <3> HIDE DEF bits
      <3> QED BY <3>3, <3>4, <3>5, <3>6 DEF SymDiff
    <2>4. Dividend(message[c], n) \subseteq Int
      <3>1. bits \subseteq Int /\ Word \subseteq Int
        BY <2>1, BitOf DEF Word
      <3>2. {top - j : j \in bits} \subseteq Int /\ {top - j : j \in Word} \subseteq Int
        BY <2>1, <3>1
      <3> QED BY <3>2 DEF Dividend, SymDiff
    <2> QED BY <2>2, <2>3, <2>4 DEF Mirrors
  <1>7. BurstsArePending
    <2> SUFFICES ASSUME NEW c \in Copies, NEW d \in Copies, IsBurst(Changed(c, d))
                 PROVE  \E v : BurstPending(Difference(c, d), 0, v)
      BY <1>4 DEF BurstsArePending
    <2> DEFINE m == BitsOf(message[c], Length)
               w == BitsOf(message[d], Length)
               changed == Changed(c, d)
               difference == Difference(c, d)
    <2>1. m \subseteq 0 .. 8 * Length /\ w \subseteq 0 .. 8 * Length
      BY <1>2, BitOf
    <2>2. difference = changed
      <3>1. difference \subseteq Int /\ changed \subseteq Int
        BY <2>1 DEF Difference, Changed, Left, Outstanding, SymDiff
      <3>2. ASSUME NEW i \in Int
            PROVE  i \in difference <=> i \in changed
        <4>1. /\ i \in Left(c, Length) <=> ~ (i \in Word <=> i \in m)
              /\ i \in Left(d, Length) <=> ~ (i \in Word <=> i \in w)
          BY <1>2, <1>5
        <4>2. i \in changed <=> ~ (i \in m <=> i \in w)
          BY DEF Changed, SymDiff
        <4>3. i \in difference <=> ~ (i \in Left(c, Length) <=> i \in Left(d, Length))
          BY DEF Difference, SymDiff
        <4> HIDE DEF m, w, changed, difference
        <4> QED BY <4>1, <4>2, <4>3
      <3> HIDE DEF changed, difference
      <3> QED BY <3>1, <3>2
    <2>3. changed # {} /\ Max(changed) - Min(changed) < 32
      BY DEF IsBurst
    <2>4. changed \subseteq 0 .. 8 * Length /\ 8 * Length \in Nat
      BY <1>2, <2>1 DEF Changed, SymDiff
    <2> HIDE DEF changed, difference
    <2>5. /\ Min(changed) \in changed /\ \A x \in changed : Min(changed) <= x
          /\ Max(changed) \in changed /\ \A x \in changed : x <= Max(changed)
      BY <2>3, <2>4, LeastAndGreatest
    <2> DEFINE min == Min(changed)
               max == Max(changed)
    <2> HIDE DEF min, max
    <2>6. /\ min \in changed /\ \A x \in changed : min <= x
          /\ max \in changed /\ \A x \in changed : x <= max
          /\ max - min < 32
      BY <2>3, <2>5 DEF min, max
    <2>7. min \in Int /\ min >= 0 /\ max \in Int /\ changed \subseteq Int
      BY <2>4, <2>6
    <2>8. changed \subseteq min .. min + 31
      BY <2>6, <2>7
    <2>9. BurstPending(difference, 0, min)
      BY <2>2, <2>3, <2>7, <2>8 DEF BurstPending
    <2> QED BY <2>9 DEF difference
  <1> QED BY <1>3, <1>6, <1>7 DEF CrcInvariant

\* Taking a byte leaves the register and the rest of each message as they were
\* together.
LEMMA TakeByteDivides ==
  ASSUME CrcInvariant, TakeByte
  PROVE  CrcInvariant'
  <1>1. CrcTypeOK /\ DividesOn /\ BurstsArePending
    BY DEF CrcInvariant
  <1>2. /\ bit = 8 /\ next <= Length /\ bit' = 0 /\ next' = next + 1
        /\ message' = message /\ done' = done
        /\ crc' = [c \in Copies |-> SymDiff(crc[c], message[c][next])]
    BY DEF TakeByte
  <1>3. Copies' = Copies /\ Length' = Length
    BY <1>2 DEF Copies, Length
  <1>4. /\ message \in Messages /\ crc \in [Copies -> SUBSET Word]
        /\ next \in 1 .. Length + 1 /\ done = FALSE /\ done \in BOOLEAN
    BY <1>1, <1>2, MessagesTyped DEF CrcTypeOK
  <1>5. Length \in Nat /\ next \in Nat /\ next >= 1
    BY <1>4, MessagesTyped
  <1>6. ASSUME NEW c \in Copies
        PROVE  message[c][next] \in Byte /\ crc[c] \in SUBSET Word
    <2>1. next \in 1 .. Length
      BY <1>2, <1>5
    <2> QED BY <1>4, <2>1, MessagesTyped
  <1>7. CrcTypeOK'
    <2>1. ASSUME NEW c \in Copies
          PROVE  SymDiff(crc[c], message[c][next]) \in SUBSET Word
      <3>1. Byte \subseteq SUBSET Word
        BY DEF Byte, Word
      <3> QED BY <1>6, <3>1 DEF SymDiff
    <2>2. crc' \in [Copies' -> SUBSET Word]
      BY <1>2, <1>3, <2>1
    <2>3. /\ next' \in 1 .. Length' + 1 /\ bit' \in 0 .. 8 /\ next' >= 2
          /\ done' = FALSE
      BY <1>2, <1>3, <1>4, <1>5
    <2> QED BY <1>2, <1>4, <2>2, <2>3 DEF CrcTypeOK
  <1>8. Gone' = Gone /\ Gone = 8 * (next - 1) /\ Gone \in Int
    BY <1>2, <1>5 DEF Gone
  <1>9. ASSUME NEW c \in Copies, NEW n \in Nat, next - 1 < n
        PROVE  Left(c, n)' = Left(c, n)
    <2> DEFINE a == next - 1
               r == SymDiff(crc[c], message[c][next])
    <2>1. a \in Nat /\ a + 1 = next /\ next' - 1 = a + 1
      BY <1>2, <1>5
    <2>2. Left(c, n) = Outstanding(crc[c], 8 * a, message[c], a, n)
      BY <1>4, <1>8 DEF Left, Register
    <2>3. Left(c, n)' = Outstanding(r, 8 * a, message[c], a + 1, n)
      <3>1. Register(c)' = r
        BY <1>2, <1>4 DEF Register
      <3> QED BY <1>2, <1>8, <2>1, <3>1 DEF Left
    <2>4. message[c][a + 1] \in Byte /\ r = SymDiff(crc[c], message[c][a + 1])
      BY <1>6, <2>1
    <2> HIDE DEF a, r
    <2>5. a < n
      BY <1>9 DEF a
    <2> QED BY <1>6, <2>1, <2>2, <2>3, <2>4, <2>5, TakePending
  <1>10. DividesOn'
    <2> SUFFICES ASSUME NEW c \in Copies, NEW n \in next .. Length
                 PROVE  Mirrors(Left(c, n)', Divided(c, n)', 8 * n + 31)
      <3>1. next' - 1 = next
        BY <1>2, <1>5
      <3> QED BY <1>3, <3>1 DEF DividesOn
    <2>1. n \in Nat /\ next - 1 < n /\ n \in next - 1 .. Length
      BY <1>5
    <2>2. Divided(c, n)' = Divided(c, n)
      BY <1>2, <1>8 DEF Divided
    <2>3. Mirrors(Left(c, n), Divided(c, n), 8 * n + 31)
      BY <1>1, <2>1 DEF DividesOn
    <2> QED BY <1>9, <2>1, <2>2, <2>3
  <1>11. BurstsArePending'
    <2>1. ASSUME NEW c \in Copies, NEW d \in Copies
          PROVE  Difference(c, d)' = Difference(c, d) /\ Changed(c, d)' = Changed(c, d)
      <3>1. next - 1 < Length
        BY <1>2, <1>5
      <3>2. Left(c, Length)' = Left(c, Length) /\ Left(d, Length)' = Left(d, Length)
        BY <1>3, <1>5, <1>9, <3>1
      <3> QED BY <1>2, <1>3, <3>2 DEF Difference, Changed
    <2> QED BY <1>1, <1>3, <1>8, <2>1 DEF BurstsArePending
  <1> QED BY <1>7, <1>10, <1>11 DEF CrcInvariant

\* Shifting the register is a step of the division, for each message and for the
\* difference of two.
LEMMA ShiftBitDivides ==
  ASSUME CrcInvariant, ShiftBit
  PROVE  CrcInvariant'
  <1>1. CrcTypeOK /\ DividesOn /\ BurstsArePending
    BY DEF CrcInvariant
  <1>2. /\ bit < 8 /\ bit' = bit + 1 /\ next' = next
        /\ message' = message /\ done' = done
        /\ crc' = [c \in Copies |-> Shifted(crc[c])]
    BY DEF ShiftBit
  <1>3. Copies' = Copies /\ Length' = Length
    BY <1>2 DEF Copies, Length
  <1>4. /\ message \in Messages /\ crc \in [Copies -> SUBSET Word]
        /\ next \in 1 .. Length + 1 /\ next >= 2 /\ bit \in 0 .. 8
    BY <1>1, <1>2 DEF CrcTypeOK
  <1>5. Length \in Nat /\ next \in Nat /\ bit \in Int /\ next - 1 \in Nat
    BY <1>4, MessagesTyped
  <1>6. done = FALSE
    BY <1>1, <1>2, <1>5 DEF CrcTypeOK
  <1>7. CrcTypeOK'
    <2>1. ASSUME NEW c \in Copies
          PROVE  Shifted(crc[c]) \in SUBSET Word
      BY <1>4, ShiftedIsRegister
    <2>2. crc' \in [Copies' -> SUBSET Word]
      BY <1>2, <1>3, <2>1
    <2>3. bit' \in 0 .. 8
      BY <1>2, <1>4
    <2> QED BY <1>2, <1>3, <1>4, <1>6, <2>2, <2>3 DEF CrcTypeOK
  <1>8. Gone \in Int /\ Gone' = Gone + 1 /\ Gone < 8 * (next - 1)
    BY <1>2, <1>5 DEF Gone
  <1>9. ASSUME NEW c \in Copies, NEW n
        PROVE  Left(c, n)' = ShiftPending(Left(c, n), Gone)
    <2>1. Left(c, n) = Outstanding(crc[c], Gone, message[c], next - 1, n)
      BY <1>6 DEF Left, Register
    <2>2. Register(c)' = Shifted(crc[c])
      BY <1>2, <1>6 DEF Register
    <2>3. Left(c, n)' = Outstanding(Shifted(crc[c]), Gone + 1, message[c], next - 1, n)
      BY <1>2, <1>8, <2>2 DEF Left
    <2>4. crc[c] \in SUBSET Word
      BY <1>4
    <2> QED BY <1>5, <1>8, <2>1, <2>3, <2>4, ShiftIsShift
  <1>10. DividesOn'
    <2> SUFFICES ASSUME NEW c \in Copies, NEW n \in next - 1 .. Length
                 PROVE  Mirrors(Left(c, n)', Divided(c, n)', 8 * n + 31)
      BY <1>2, <1>3 DEF DividesOn
    <2> PICK p : p = Dividend(message[c], n)
      OBVIOUS
    <2> PICK top : top = 8 * n + 31
      OBVIOUS
    <2> PICK rests : rests = Rests(p, top)
      OBVIOUS
    <2>1. Divided(c, n) = rests[top - Gone] /\ Divided(c, n)' = rests[top - (Gone + 1)]
      <3>1. Divided(c, n)' = Rests(Dividend(message[c], n), 8 * n + 31)[8 * n + 31 - Gone']
        BY <1>2 DEF Divided
      <3> QED BY <1>8, <3>1 DEF Divided
    <2> PICK e : e = top - (Gone + 1)
      OBVIOUS
    <2>2. /\ top \in Int /\ 31 <= top /\ e \in 31 .. top /\ e # top
          /\ e + 1 = top - Gone
      BY <1>2, <1>4, <1>5 DEF Gone
    <2>3. rests[e] = DividedOut(rests[e + 1], e + 1)
      BY <2>2, RestsAre
    <2>4. Divided(c, n)' = DividedOut(Divided(c, n), top - Gone)
      BY <2>1, <2>2, <2>3
    <2>5. Mirrors(Left(c, n), Divided(c, n), top)
      BY <1>1 DEF DividesOn
    <2>6. Mirrors(ShiftPending(Left(c, n), Gone), DividedOut(Divided(c, n), top - Gone), top)
      BY <1>8, <2>2, <2>5, DividingIsShifting
    <2> QED BY <1>9, <2>4, <2>6
  <1>11. BurstsArePending'
    <2> SUFFICES ASSUME NEW c \in Copies, NEW d \in Copies, IsBurst(Changed(c, d)')
                 PROVE  \E v : BurstPending(Difference(c, d)', Gone', v)
      <3>1. \A c, d \in Copies : IsBurst(Changed(c, d)') <=> IsBurst(Changed(c, d))'
        BY DEF IsBurst
      <3> QED BY <1>3, <3>1 DEF BurstsArePending
    <2>1. Changed(c, d)' = Changed(c, d)
      BY <1>2, <1>3 DEF Changed
    <2>2. PICK v : BurstPending(Difference(c, d), Gone, v)
      BY <1>1, <2>1 DEF BurstsArePending
    <2>3. Difference(c, d)' = ShiftPending(Difference(c, d), Gone)
      <3>1. ASSUME NEW x \in Copies
            PROVE  /\ Left(x, Length) \in SUBSET Int
                   /\ Left(x, Length)' = ShiftPending(Left(x, Length), Gone)
        <4>1. Left(x, Length) \in SUBSET Int
          BY DEF Left, Outstanding
        <4> QED BY <1>3, <1>9, <4>1
      <3>2. Difference(c, d)' = SymDiff(ShiftPending(Left(c, Length), Gone),
                                            ShiftPending(Left(d, Length), Gone))
        BY <3>1 DEF Difference
      <3> QED BY <1>8, <3>1, <3>2, ShiftOfDifference DEF Difference
    <2> QED BY <1>8, <2>2, <2>3, BurstIsKept
  <1> QED BY <1>7, <1>10, <1>11 DEF CrcInvariant

\* Inverting the register to return it does not change what it holds.
LEMMA ReturnDivides ==
  ASSUME CrcInvariant, Return
  PROVE  CrcInvariant'
  <1>1. CrcTypeOK /\ DividesOn /\ BurstsArePending
    BY DEF CrcInvariant
  <1>2. /\ bit = 8 /\ next > Length /\ ~done /\ done' = TRUE
        /\ crc' = [c \in Copies |-> Word \ crc[c]]
        /\ message' = message /\ next' = next /\ bit' = bit
    BY DEF Return
  <1>3. Copies' = Copies /\ Length' = Length /\ Gone' = Gone
    BY <1>2 DEF Copies, Length, Gone
  <1>4. CrcTypeOK'
    <2>1. crc' \in [Copies' -> SUBSET Word]
      BY <1>2, <1>3
    <2> QED BY <1>1, <1>2, <1>3, <2>1 DEF CrcTypeOK
  <1>5. ASSUME NEW c \in Copies, NEW n
        PROVE  Left(c, n)' = Left(c, n)
    <2>1. crc[c] \in SUBSET Word
      BY <1>1 DEF CrcTypeOK
    <2>2. Register(c)' = crc[c] /\ Register(c) = crc[c]
      BY <1>2, <2>1 DEF Register
    <2> QED BY <1>2, <1>3, <2>2 DEF Left
  <1>6. DividesOn'
    <2>1. ASSUME NEW c \in Copies, NEW n \in next - 1 .. Length
          PROVE  Mirrors(Left(c, n)', Divided(c, n)', 8 * n + 31)
      <3>1. Divided(c, n)' = Divided(c, n)
        BY <1>2, <1>3 DEF Divided
      <3> QED BY <1>1, <1>5, <3>1 DEF DividesOn
    <2> QED BY <1>2, <1>3, <2>1 DEF DividesOn
  <1>7. BurstsArePending'
    <2>1. ASSUME NEW c \in Copies, NEW d \in Copies
          PROVE  Difference(c, d)' = Difference(c, d) /\ Changed(c, d)' = Changed(c, d)
      BY <1>2, <1>3, <1>5 DEF Difference, Changed
    <2> QED BY <1>1, <1>3, <2>1 DEF BurstsArePending
  <1> QED BY <1>4, <1>6, <1>7 DEF CrcInvariant

\* So the invariant holds throughout.
LEMMA CrcInvariantHolds == CrcSpec => []CrcInvariant
  <1>1. CrcInit => CrcInvariant
    BY InitDivides
  <1>2. CrcInvariant /\ [CrcNext]_crcVars => CrcInvariant'
    <2> SUFFICES ASSUME CrcInvariant, [CrcNext]_crcVars PROVE CrcInvariant'
      OBVIOUS
    <2>1. CASE TakeByte
      BY <2>1, TakeByteDivides
    <2>2. CASE ShiftBit
      BY <2>2, ShiftBitDivides
    <2>3. CASE Return
      BY <2>3, ReturnDivides
    <2>4. CASE UNCHANGED crcVars
      <3>1. UNCHANGED <<message, next, bit, crc, done>>
        BY <2>4 DEF crcVars
      <3>2. Copies' = Copies /\ Length' = Length /\ Gone' = Gone
        BY <3>1 DEF Copies, Length, Gone
      <3>3. ASSUME NEW c, NEW n
            PROVE  Left(c, n)' = Left(c, n) /\ Divided(c, n)' = Divided(c, n)
        BY <3>1, <3>2 DEF Left, Divided, Register
      <3>4. ASSUME NEW c, NEW d
            PROVE  Difference(c, d)' = Difference(c, d) /\ Changed(c, d)' = Changed(c, d)
        BY <3>1, <3>2, <3>3 DEF Difference, Changed
      <3>5. CrcTypeOK'
        BY <3>1, <3>2 DEF CrcInvariant, CrcTypeOK
      <3>6. DividesOn'
        BY <3>1, <3>2, <3>3 DEF CrcInvariant, DividesOn
      <3>7. BurstsArePending'
        BY <3>2, <3>4 DEF CrcInvariant, BurstsArePending
      <3> QED BY <3>5, <3>6, <3>7 DEF CrcInvariant
    <2> QED BY <2>1, <2>2, <2>3, <2>4 DEF CrcNext
  <1> QED BY <1>1, <1>2, PTL DEF CrcSpec

\* What the register holds at the end of a byte is all that is pending.
LEMMA RegisterIsLeft ==
  ASSUME CrcTypeOK, bit = 8, NEW c \in Copies, NEW p \in Int
  PROVE  /\ Gone = 8 * (next - 1) /\ next - 1 \in Nat
         /\ Register(c) \in SUBSET Word
         /\ p \in Register(c) <=> p + Gone \in Left(c, next - 1)
  <1>1. message \in Messages /\ next \in 1 .. Length + 1
    BY DEF CrcTypeOK
  <1>2. next \in Int /\ next - 1 \in Nat
    BY <1>1, MessagesTyped
  <1>3. Gone = 8 * (next - 1) /\ Gone \in Int
    BY <1>2 DEF Gone
  <1>4. crc[c] \in SUBSET Word
    BY DEF CrcTypeOK
  <1>5. Register(c) \in SUBSET Word
    BY <1>4 DEF Register
  <1>6. p \in Register(c) <=> p + Gone \in Left(c, next - 1)
    <2> DEFINE i == p + Gone
    <2>1. i \in Int /\ i - Gone = p
      BY <1>3
    <2>2. ~ (i \in BitsOf(message[c], next - 1) /\ i >= 8 * (next - 1))
      BY <1>2, <2>1, BitOf
    <2> HIDE DEF i
    <2>3. p \in Register(c) <=> i \in Left(c, next - 1)
      BY <2>1, <2>2 DEF Left, Outstanding
    <2> QED BY <2>3 DEF i
  <1> QED BY <1>2, <1>3, <1>5, <1>6

\* After each byte the register holds the remainder, by the generator of CRC-32, of
\* the bytes CalculateCrc32 has taken, and it returns the inverted remainder of them
\* all, whatever the message.
THEOREM ChecksumIsRemainder == CrcSpec => []IsRemainder
  <1>1. CrcInvariant => IsRemainder
    <2> SUFFICES ASSUME CrcInvariant, bit = 8, NEW c \in Copies
                 PROVE  LET remainder ==
                              {31 - e : e \in RemainderOf(message[c], next - 1)}
                        IN crc[c] = IF done THEN Word \ remainder ELSE remainder
      BY DEF IsRemainder
    <2> PICK n : n = next - 1
      OBVIOUS
    <2> PICK R : R = RemainderOf(message[c], n)
      OBVIOUS
    <2> DEFINE remainder == {31 - e : e \in R}
    <2>1. CrcTypeOK /\ DividesOn
      BY DEF CrcInvariant
    <2>2. /\ Gone = 8 * n /\ n \in Nat
          /\ Register(c) \in SUBSET Word
      BY <2>1, RegisterIsLeft
    <2>3. n \in next - 1 .. Length
      <3>1. next \in 1 .. Length + 1 /\ Length \in Nat
        BY <2>1, MessagesTyped DEF CrcTypeOK
      <3> QED BY <3>1
    <2>4. Divided(c, n) = R
      <3>1. 8 * n + 31 - Gone = 31
        BY <2>2
      <3> QED BY <3>1 DEF Divided, RemainderOf
    <2>5. Mirrors(Left(c, n), R, 8 * n + 31)
      BY <2>1, <2>3, <2>4 DEF DividesOn
    <2>6. ASSUME NEW p \in Int
          PROVE  p \in Register(c) <=> 31 - p \in R
      <3>1. p \in Register(c) <=> p + Gone \in Left(c, n)
        BY <2>1, RegisterIsLeft
      <3>2. p + Gone \in Int /\ (8 * n + 31) - (p + Gone) = 31 - p
        BY <2>2
      <3> QED BY <2>5, <3>1, <3>2 DEF Mirrors
    <2>7. R \subseteq Int
      BY <2>5 DEF Mirrors
    <2>8. Register(c) = remainder
      <3>1. ASSUME NEW p \in Int
            PROVE  p \in remainder <=> 31 - p \in R
        <4>1. ASSUME NEW e \in R, p = 31 - e PROVE 31 - p = e
          BY <2>7, <4>1
        <4>2. p = 31 - (31 - p)
          OBVIOUS
        <4> QED BY <4>1, <4>2
      <3>2. remainder \subseteq Int /\ Register(c) \subseteq Int
        BY <2>2, <2>7 DEF Word
      <3> HIDE DEF remainder
      <3> QED BY <2>6, <3>1, <3>2
    <2>9. crc[c] = IF done THEN Word \ Register(c) ELSE Register(c)
      <3>1. crc[c] \in SUBSET Word
        BY <2>1 DEF CrcTypeOK
      <3> QED BY <3>1 DEF Register
    <2> QED BY <2>8, <2>9
  <1> QED BY <1>1, CrcInvariantHolds, PTL

\* Two messages of one length that differ, and only within 32 consecutive bits, never
\* have the same CalculateCrc32, however long they are and wherever they differ.
THEOREM ChecksumsTellBursts == CrcSpec => []BurstsAreSeen
  <1>1. CrcInvariant => BurstsAreSeen
    <2> SUFFICES ASSUME CrcInvariant, done, NEW c \in Copies, NEW d \in Copies,
                        IsBurst(Changed(c, d)), crc[c] = crc[d]
                 PROVE  FALSE
      BY DEF BurstsAreSeen, IsBurst, Changed
    <2>1. CrcTypeOK /\ BurstsArePending
      BY DEF CrcInvariant
    <2>2. bit = 8 /\ next - 1 = Length
      <3>1. next \in 1 .. Length + 1 /\ Length \in Nat /\ bit = 8 /\ next > Length
        BY <2>1, MessagesTyped DEF CrcTypeOK
      <3> QED BY <3>1
    <2>3. Register(c) = Register(d)
      BY DEF Register
    <2>4. ASSUME NEW i \in Int, NEW x \in Copies
          PROVE  i \in Left(x, Length) <=> i - Gone \in Register(x)
      <3>1. Gone \in Int
        BY <2>1, <2>2, RegisterIsLeft
      <3>2. i - Gone \in Int /\ (i - Gone) + Gone = i
        BY <3>1
      <3> QED BY <2>1, <2>2, <3>2, RegisterIsLeft
    <2>5. PICK v : BurstPending(Difference(c, d), Gone, v)
      BY <2>1 DEF BurstsArePending
    <2>6. PICK i \in Difference(c, d) : i \in Int
      BY <2>5 DEF BurstPending
    <2>7. ~ (i \in Left(c, Length) <=> i \in Left(d, Length))
      BY <2>6 DEF Difference, SymDiff
    <2> QED BY <2>3, <2>4, <2>6, <2>7
  <1> QED BY <1>1, CrcInvariantHolds, PTL

=============================================================================
