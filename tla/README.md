# EfiInfo: models, checks and proofs

EfiInfo is a Windows kernel driver. When it is loaded it looks through the first
4 GiB of physical memory for the `EFI_SYSTEM_TABLE` that the firmware left there
and prints what it finds. It carries a small library for reading, writing and
translating memory. This directory holds TLA+ models of that code, the TLC
configurations that check them, and proofs about them that TLAPS checks.

## The system

| Component | Source | State it keeps | Operations |
|---|---|---|---|
| Value types | `Include/Memory/Address.hpp`, `MemoryRegion.hpp`, `MemoryView.hpp`, `MemoryError.hpp` | none (values) | `Offset`, `AlignDown`, `AlignUp`, `IsAligned`, `Create`, `Contains`, `Subregion`, `Subview` |
| `PhysicalMemoryReader` | `Source/Memory/Physical/PhysicalMemoryReader.cpp` | four relaxed atomic counters shared by all callers | `ReadInto` (and `ReadMapped` inside it), `Read`, `Statistics`, `ResetStatistics` |
| `PhysicalMemoryMapping` | `PhysicalMemoryMapping.cpp` | the address of one kernel mapping, its region and protection | `Map`, move, `View`, `Bytes`, `Reset` |
| `PhysicalMemoryWriter` | `PhysicalMemoryWriter.cpp`, `Detail/PhysicalPage.hpp` | none; holds one mapping per page written | `Write` to a view, `Write` to an address |
| `VirtualAddressTranslator` | `Source/Memory/Virtual/VirtualAddressTranslator.cpp` | none; the local state of one page walk | `Translate` |
| `VirtualMemoryReader`, `VirtualMemoryWriter` | `VirtualMemoryReader.cpp`, `VirtualMemoryWriter.cpp` | none; the local state of one transfer | `ReadInto`, `Read`, `Write` |
| Table scan | `Source/Entry.cpp` | the scan's position, its buffer, the candidate under examination | `FindEfiSystemTable`, `ScanBuffer`, `ReadEfiSystemTable` |
| Checksum | `Source/Entry.cpp` | none; the register of one computation | `CalculateCrc32` |
| Driver entry | `Source/Entry.cpp` | none | `DriverEntry`, `DriverUnload` |
| Kernel C++ runtime | `Source/CRT/Runtime.cpp` | a header in front of each allocation | `Allocate`, `Free`, operators `new` and `delete` |

Components interact by plain calls. `DriverEntry` runs the scan; the scan, the
translator and the virtual reader call `PhysicalMemoryReader`; the virtual writer
calls the translator and `PhysicalMemoryWriter`; reader and writer map pages
with `PhysicalMemoryMapping`; every vector and string comes from the runtime. The
driver uses only the scan, the reader, mappings and the runtime: the rest is library.

What is hard about it:

* **Partial failure.** `MmCopyMemory` may stop anywhere, a page may refuse to be
  mapped, and every layer adds its own count of bytes and its own idea of the
  address to blame to the error of the layer below. The scan then computes from
  that address which pages to skip, so a reader that is wrong by one page makes
  the driver miss the table.
* **Memory changes underneath.** Physical memory and page tables belong to the
  running system. A candidate is read three times (as part of a chunk, its
  header, the whole table), a page walk reads up to five entries, and a virtual
  transfer translates page after page, all without locks.
* **Boundaries.** Page boundaries, buffer boundaries, the end of the scanned
  range, the end of the address space, the edges of the canonical halves,
  unsigned subtraction, sizes that wrap.
* **Threads.** Reader and writer are `const` and thread-safe; the reader's counters
  are updated separately and reset while reads run; writers of one page are
  not kept apart; everybody shares the pool.
* **Ownership.** A mapping is unmapped by whichever object it has been moved to; a
  block of the pool is found again only by the bytes in front of what was handed out.

There is no persistence, no messaging and no lock, so crashes, lost messages and
deadlocks do not arise. What makes each component correct is stated
by the properties below; PROJECT.json lists every hazard at its line with the
properties that would notice it going wrong, and says of the few that none covers
why none does.

## Modules

`MemoryTypes` holds the address arithmetic, the shape of answers, and
`ReadAnswers(src, len, solid)` and `WriteAnswers(dst, len, solid)`: the answers a
physical read or write may give when the pages in `solid` never fail. `ReadContract`
and `WriteContract` are the abstract specifications of a reader and a writer shared
by threads, built on those two operators, and the components above them are checked
against every answer the operators allow, not against the code below again:

```
 EfiTableScan   VirtualAddressTranslator     VirtualMemoryTransfer
      |                   |                    |             |
      |    ReadAnswers    |                    |             |  WriteAnswers
      +---------+---------+--------------------+             |
                |                                            |
          ReadContract                                 WriteContract
                ^ refines                                    ^ refines
       PhysicalMemoryReader                        PhysicalMemoryWriter

       MappingContract  <= refined by =  PhysicalMemoryMapping
       PoolRuntime      Crc32            (each on its own)
```

**PhysicalMemoryReader.** One action per stretch of `ReadInto` and `ReadMapped`
that makes one kernel call or touches one counter: `Start` (the early returns),
`Copy` (`MmCopyMemory`, its count, the full return), `CountFailure`, `MapRefused`,
`MapPage` (map and `memcpy`), `CountPage`, `CountBytes` (also the destruction of
the mapping as `ReadMapped` returns), and `ResetStore` for each store of
`ResetStatistics`, which several `Resetters` may be in at once. `access` says for each page by which methods reads *never*
fail; any other read of the page may fail, at any byte. Byte *i* of the
destination holds the physical address it was filled from, so an answer that
vouches for the wrong byte is visible. The two `Offset` checks inside the loop
and the argument checks of `ReadMapped` cannot fail for the requests that get so
far; the model has those branches, and the proofs show that they are not taken.
The clamp at lines 71-74 never bites because `MmCopyMemory` does not report more
than it was asked for, and is not modelled. `NativeStatus` is not modelled: no
code reads it.

**PhysicalMemoryWriter.** `Call`, `Start` (what `ForEachPhysicalPageFragment`
settles first), `PageRefused` and `MapPage` for one fragment, `StoreByte` for one
byte of its `memcpy`, `EndCopy` (the `Write` of the view returns, and the views go) and
`EndFragment` (the mapping is destroyed, the total grows, the loop ends or goes on).
Nothing orders the stores of one `memcpy` or of two threads, so each is a step and any
byte of the fragment may be next. It goes where the code's pointer points, as far into
the view as into the source (`StoreAddress`), whatever the view's extent and whether or
not a page is mapped there; what keeps it in place are the checks before it, `Subview`'s
(`CanSubview`) and the one of sizes in the `Write` of a view (`FitsView`). The proofs
show that neither refuses a fragment. Memory remembers which byte of
which thread's request was stored last.

The `Write` that takes a view is modelled as the other one calls it; nothing else in
`src/` calls it. It stores all it is given or refuses it, so `PartialTransfer`
(`PhysicalPage.hpp:108-119`) is never returned and has no action.

**PhysicalMemoryMapping.** The objects are C++ objects in a few `Slots`, which are
constructed (`Map`, `MoveConstruct`), assigned (`MoveAssign`, also to
themselves) and destroyed in any order. What the kernel has mapped is kept apart
from what the objects say. `MappingContract` is the view of their users: mappings
are acquired, handed on and released.

**EfiTableScan.** `AllocateBuffer`, `ReadChunk`, `SkipMatch` and `TakeCandidate`
(the two ways an iteration of `ScanBuffer`'s loop goes), `EndOfBuffer`,
`ReadHeader`, `ReadTable`, `Advance`, `EndOfRange`; and `Overwrite`, by which
others write memory at any moment. Memory maps an address to what would be found
there if a table were looked for at it: a body (how far it looks like a table, the size
it claims, whether the fields behind the header are plausible, and a tag that tells
apart bodies that look alike) and a stored Crc32. This is finer than the code needs at
rest, and lets an address change independently of its neighbours. The bytes of one table
are one value, so a read is of one moment, and one that others' writes tear is left out;
a chunk is read at one moment as well, which for a table nobody writes makes no
difference. Of a header the scan keeps what the code uses of it later, its HeaderSize and
Crc32. `ChecksumMatches` compares that Crc32 with the checksum of the second read's
bytes over that size, and nothing looks at the signature, the reserved word or the size
in those bytes, as in the code. `Checksum` is a constant operator, about which nothing
is assumed: two bodies may have the same checksum, and a stored Crc32 may be that
of bytes that come later (TLC's contents have both). `held` remembers what each
address has held.

**Crc32.** `CalculateCrc32` bit by bit, at its real width. A register is the set of
its one bits, which makes `^` a symmetric difference and keeps 32-bit words within
TLC's reach. `RemainderOf` is the reference: polynomial division as CRC-32 is
defined, which shares nothing with the loop but the generator, written the other
way round.

**VirtualAddressTranslator.** `Translate` is the call with its early returns.
`EntryRefused`, `EntryMapsPage` and `EntryNamesTable` are the outcomes of
fetching one entry, in place of the code's four or five copies of the same
steps; `ChangeEntry` is the system changing an entry between two fetches. The
eight bytes of an entry are taken to be read together, as they are written. `Span`
is the size an entry of a level stands for; with `Fanout` 512 and pages of 4 KiB
it gives the shifts 12, 21, 30, 39 and 48 of the code, and the canonical bit count
is that of `Span(TopLevel + 1)`, whose halves `CanonicalAddresses` puts at the two ends of the
address space. `PhysicalOf` is the reference: what the
tables say about an address, written from a whole path of entries, independently
of the walk's actions.

**VirtualMemoryTransfer.** `VirtualMemoryReader::ReadInto` and
`VirtualMemoryWriter::Write` are the same loop but for the test of the permission and
for which physical operation they call; one module has both, and `req.kind` says
which. A round is a translation (`TranslationSucceeds`, `TranslationFails`) and a
physical transfer (`TransferSucceeds`, `TransferFails`), and `ChangeSpace` changes the
address space between any two of them. `during` remembers the address spaces of the
call. `Translate` is one step here: `AnswerIsBeforeOrAfter` is what says that it
answers as of one moment (but for the self-maps named below, whose walks this module
does not have). An absent page stands for every reason the
tables have not to map an address. `SpacesAssumption` says what tables can describe: a
large page is aligned and looks the same from each of its addresses, and
being canonical does not change within a page. A null directory
table base fails before anything happens and is not modelled. Nor is `PartialTransfer`
(`VirtualMemoryReader.cpp:70-81`, `VirtualMemoryWriter.cpp:84-95`): a physical read or
write that succeeds is never short.

**PoolRuntime.** `New` (the checks of `Allocate`), `PoolAllocates` and
`PoolExhausted` (`ExAllocatePool2`), `StoreHeader`, `Delete`, and `Fill`, by which an
owner writes all of what it was given. `std::size_t` holds at most `MaxSize`, and
every sum wraps there. `Delete` frees the block that the bytes in front of the
address name; when they name none the state is "corrupted". "stopped" is the
`__fastfail` of the operators that may not return `nullptr`.

**PageArithmetic** proves what the proofs need about `%`: quotient and
remainder exist and are unique, a page's base, two addresses of one page, the next
page. The `...Proofs` modules hold the theorems of the module they are named
after; the `MC...` modules define the values of constants for TLC.

## Properties and runs

| Run | Properties | What it shows |
|---|---|---|
| `ReaderLayouts.cfg` | `TypeOK`, `TransferInvariant`, `MappedCopyStaysInPage`, `ImplementsContract` | Every request (any start, any length up to one byte past the space, also the empty one) over three pages of two bytes, every one of the 64 assignments of sure methods to pages: the reader implements the contract, liveness included. |
| `ReaderThreads.cfg` | `StatisticsAccountForBytes`, `ResetDriftIsBounded` | Two threads with a call each that meet failing copies and a page nothing reads, and two resets at any moments, also at once. |
| `WriterRequests.cfg` | `TypeOK`, `WriteInvariant`, `ImplementsContract` | Every request over three pages of three bytes, every set of pages that are sure to be mapped, the bytes of a page stored in any order: the writer implements the contract, liveness included. |
| `WriterThreads.cfg` | `StoresStayInMapping`, `AnswersTellWhatChanged` | Two threads that write ranges which overlap, byte by byte, with mappings that may fail: where each byte goes, and what has changed in the end. |
| `MappingObjects.cfg` | `TypeOK`, `HeldOnce`, `UnmapsWhatIsMapped`, `ViewsAreBacked`, `ImplementsContract` | Three slots, three mappings, two of the three regions at one address: every sequence of operations on the objects. |
| `PoolThreads.cfg` | `TypeOK`, `AllocationsApart`, `EveryBlockHasOneOwner`, `OnlyOwnersWrite` | Two threads in a pool of 12 bytes with a `size_t` of four bits; sizes 0, small and next to the largest, alignments up to the largest power of two and one that is none. |
| `ScanEveryLayout.cfg` | `TypeOK`, `NoTablePassedOver`, `RangeAccounted`, `ScanInvariant`, `CandidatesAscend`, `ScanTerminates` | A short table or one longer than a page at every aligned address, decoys and a second table next to it, every set of pages that cannot be relied on, reads that stop at every byte of those. |
| `ScanChangingMemory.cfg` | `ReportsOnlyTables` | A table at any address and two writes at any moments, among them writes that replace the body between header and table reads by one that has the Crc32 read first, by chance or because that was stored for it. |
| `CrcMessages.cfg` | `IsRemainder`, `BurstsAreSeen` | Every message of one byte, messages of two, the customary "123456789"; and pairs of messages of six bytes that differ in one bit, two bits or all bits of any stretch of up to 32. |
| `TranslateAtRest.cfg` | `TypeOK`, `TranslationCoversRun`, `FetchFailureIsReal`, `ZeroIsNoTableBelowRoot` | Every content of two tables from six entries, tables that name themselves included, four and five levels, unreadable tables. |
| `TranslateWhileChanging.cfg` | `AnswerIsBeforeOrAfter` | A chain of five tables and two variants of it, three address widths, one entry changed between any two fetches. |
| `TransferAnySpace.cfg` | `TypeOK`, `BytesWereMapped`, `ReportsWhatWasTransferred`, `FaultPassesOverNothing`, `AnswersHaveReasons`, `CallReturns` | Reads and writes that start anywhere and end in their first, second, third or fourth page, six address spaces, up to two changes of space during the call, page walks and physical transfers that fail. |

The properties, in a sentence each:

* Reader. `ImplementsContract`: a failed read blames exactly the first byte it did
  not deliver, that byte lies in a page no method is sure to read, and every byte
  reported is the right one; every call is answered. `TransferInvariant`: between
  steps, the bytes transferred are the first of those asked for. `MappedCopyStaysInPage`:
  the fallback never reads past the page it mapped.
  `StatisticsAccountForBytes`: until a reset, the two byte counters equal the bytes of
  answered calls plus those of calls under way. `ResetDriftIsBounded`: resets that
  race with reads and with each other can leave more pages mapped than copies failed, by at most the
  number of threads.
* Writer. `ImplementsContract`: a call stores only bytes of its own request, each where
  it belongs, page after page, and reports exactly those stored; every call is
  answered. `WriteInvariant`: what that rests on between steps.
  `StoresStayInMapping`: every byte stored lands inside the view its thread was given and
  in the page that thread has mapped at that moment, and nothing else changes memory.
  `AnswersTellWhatChanged`: when no write is under way, memory has changed exactly
  where the answers say, though where two writes overlap, byte by byte either may
  have won.
* Mapping. `HeldOnce`: nothing is leaked, nothing has two holders.
  `UnmapsWhatIsMapped`: what is unmapped is mapped, and of that size. `ViewsAreBacked`:
  the bytes an object offers are mapped, and those it offers for writing may be
  written, whoever mapped them. `ImplementsContract`: each operation hands a mapping
  on or ends it; assigning an object to itself does nothing.
* Runtime. `AllocationsApart`: allocations are aligned, lie with their header in one
  block of the pool and share no byte. `EveryBlockHasOneOwner`: no block is lost
  and `delete` always frees the right one. `OnlyOwnersWrite`: what an allocation holds
  does not change by what others allocate, write or free.
* Scan. `NoTablePassedOver`: a valid table that stays unchanged, in pages that can be
  read, is found, or one before it. This is what the driver is for. It covers the
  step after a failed read, a signature cut off by a short read, tables that
  straddle two buffers, and everything others write elsewhere.
  `ReportsOnlyTables`: what is returned is plausible at that moment and has the checksum
  that an acceptable header announced, one that was at this address during the scan.
  More the code does not give. It does not look at the header again, so if that
  Crc32 was stored for other bytes, or happens to be theirs, those are reported whatever
  their signature, reserved word and size say; TLC reaches such reports. If
  no Crc32 the address has held is that of another body it has held, what is
  returned is a table.
  `RangeAccounted`: the unsigned `RemainingBytes` never wraps, and every read starts
  at a page, which the rounding of `FaultOffset` relies on. `ScanInvariant`: what was
  read, what is stepped over and how far the scan has come account for the range.
  `CandidatesAscend`: no address is examined twice. `ScanTerminates`: the scan ends.
* Checksum. `IsRemainder`: after every byte the register is the remainder that
  defines CRC-32. `BurstsAreSeen`: messages that differ in a word, wherever it is,
  have different checksums, which is what ties the second read of a table to the
  header of the first.
* Translator. `TranslationCoversRun`: every one of the `ContiguousBytes` after an address
  lies in one of the canonical halves and translates to the byte as far on, with the same
  permissions; the virtual reader and writer rely on it. `FetchFailureIsReal`: only a table that may be unreadable
  makes a walk fail to fetch, and only an address outside the canonical halves is refused
  as not canonical. `ZeroIsNoTableBelowRoot`: no entry leads to the page at
  0, also when only its masked bits are zero; the root alone may, because `Translate`
  tests it before the mask is applied.
  `AnswerIsBeforeOrAfter`: with one change during the walk the answer is the one
  before the change or the one after it. It is stated for walks that meet no
  entry twice: where an entry names a table above it (as Windows' own self-map
  does), one change met at two levels can give an answer that is neither, because
  the walk used the entry once before and once after.
* Transfer. `BytesWereMapped`: every byte comes from, or goes to, where its address
  was at some moment of the call, the bytes of one page all as of one moment, and what
  is written could be written then. No more can be said: the address space may have
  changed since. `ReportsWhatWasTransferred`: a call that succeeds transferred all; one
  that fails reports what it transferred, except that a page walk which fails in the
  middle of an entry adds the bytes of the entry it had read. `FaultPassesOverNothing`:
  a caller that goes on from the address blamed passes over nothing.
  `AnswersHaveReasons`: every failure has its reason in some address space of
  the call. One of the reasons is the top of the address space: the loop computes the
  address behind the last chunk before it looks whether anything is left, so a
  region that ends there, which `MemoryRegion::Create` accepts, is transferred
  whole and then reported as `AddressOverflow`. `CallReturns`: every call ends.

**Bounds.** Pages of two bytes (reader, two writers, transfer), three (one writer)
and four (scan, translator) have first, last and, with three or four, inner bytes, so
every alignment of a request to a page occurs. Three pages give a first, an inner and a
last page of a request. The scan reads chunks of two pages from a range of three, so that
the last chunk is shorter than the buffer, in a space of four, so that tables may end
beyond the range; `ScanChangingMemory` has one page a chunk and two in the range. In the
transfer's eight pages, two of which one large page may cover, a hole lies between the
canonical halves and the top of the space is mapped.
`MaxCalls`, `MaxResets`, `MaxWrites` and `MaxChanges` bound how often callers and
the environment act. Two writes are enough to break a table and put it back or to
replace header and body separately. One change of an entry is what
`AnswerIsBeforeOrAfter` is about; two changes of the address space put one before
and one after a translation, or bring a space back. With tables of two entries, four
levels of paging make the canonical
addresses 64 of the 256 modelled and five levels 128, half of them at each end, so
both have addresses that are not canonical. Three slots let a mapping be moved on
while both ends of the move hold others. A pool of 12 bytes holds two
allocations with their headers. The bytes of messages beyond
one are sampled: the loop treats all alike, and a burst moves through every
position of six bytes. All runs but `MappingObjects` set `CHECK_DEADLOCK FALSE`: a
caller makes finitely many calls, the scan ends, one translation, transfer or checksum
is made, the machine is stopped when memory cannot be had.

**Fairness.** A thread inside `ReadInto` or `Write`, and the thread that runs the scan or
a virtual transfer, keep running: the kernel calls they make return, and nothing
they wait for is held by another. That is `WF_vars(ReadStep(t))`, `WF_vars(WriteStep(t))`,
`WF_vars(ScanStep)` and `WF_vars(TransferStep)`. Nothing is assumed
of callers, of resets or of those who change memory, page tables or address spaces. The
other modules have no fairness: the translator is bounded by its levels and the
checksum by its message, and objects and allocations are used by callers who owe
nothing.

## Proofs

All constants are arbitrary within the named assumptions of the modules, which TLC
evaluates in their runs: `GeometryAssumption` (the space is a whole number of pages);
`ReaderAssumption`, `WriterAssumption`, `MappingAssumption`, `TranslatorAssumption`,
`TransferAssumption` (types); `MessagesAssumption` of `Crc32` (messages calculated side by
side are sequences of bytes of one length); `ScanAssumption` (also: range and buffer are whole
numbers of pages, the signature is not longer than a page, the header not longer
than the smallest table); `PoolAssumption` (also: an alignment leaves room for a header in
`size_t`); `SpacesAssumption` (above); and `PowersAssumption` of the
translator, because the provers know nothing of `^`: the powers `2 ^ bits` and
`Fanout ^ level` are positive, `Fanout ^ 0` is 1 and each next power `Fanout` times
the one before, `Fanout` is even, no address width is above the widest, and the
physical space of each and the virtual one are whole numbers of pages of every size,
and of what the tables of a level map. The last is what the processor promises:
no large page reaches over the end of an address space.

`PageArithmetic` holds the lemmas on `\div` and `%` that several proofs need: bases and
offsets of pages, rounding to a multiple, division in two steps (`DivideTwice`), and
that what lies within one block of a size stays within it and below any limit that
is a whole number of blocks (`SameBlock`, `BlockBelowLimit`).

* `PhysicalMemoryReaderProofs`: `TypeCorrect`, `TransferIsExact`, `CopyStaysInPage`,
  `ReaderImplementsContract`
  (`SafetySpec => Contract!SafetySpec`, the safety part of `ImplementsContract`).
  The inductive invariant is `TypeOK /\ TransferInvariant`. The contract alone is not
  inductive: that the answer's bytes are right needs the bytes already transferred to be
  right at every step (`Exact`), that the blamed page is one no method reads for
  sure needs to remember, between the copy and the mapping, that copying was not
  sure (`"copy" \notin access[...]`), and that a full page was consumed needs
  the cursor at a page start after a fallback. Each action has a lemma that it
  keeps the invariant; `CallBegins` maps `Call` to the contract's `Begin`, and
  `ReadStepRefines` maps every step of `ReadInto` to `Finish` or to a stutter.
  `DriftIsBounded`, for any finite set of threads, rests on `DriftInvariant`: outside
  the moment between the two stores of a reset, pages counted plus
  the threads between counting a failure and counting its page exceed the failures
  by at most the number of threads.
  `StatisticsAccount`, also for any finite set of threads, has the property for its
  invariant, with the fact that no store of a reset has happened
  (`StatisticsInvariant`). What takes the work is the sum over the threads. It is
  `SumFunction`, a recursive fold that takes out elements as `CHOOSE` gives them;
  `SumsExist`, `SumsAgree` and `TakeOut` show that it exists, is one, and may be
  unfolded at any element, by taking a smallest subset for which that
  fails (`SmallestException`), so that `SumOfUpdate` gives what one thread's step does
  to it.
* `PhysicalMemoryWriterProofs`: `TypeCorrect`, `WritesAreInOrder`, `StoresStay`,
  `WriterImplementsContract`, with the invariant `TypeOK /\ WriteInvariant`, which says
  which page and view a call has at each point; `StoredWithin` gets from it that the
  address of a byte stored is one of both, for `StoresStay`. The contract's `Store` needs to know that past its first fragment
  a call stands at the start of a page, so that whatever is stored next is in the
  first page not wholly written. `AnswersTell` assumes `MaxCalls = 1`, as the property
  does, and adds `Landed`: memory tells which bytes have been stored, and the threads
  tell where memory has changed.
* `PhysicalMemoryMappingProofs`: `TypeCorrect`, `MappingsAreHeldOnce`,
  `OnlyMappingsAreUnmapped`, `ViewsAreAlwaysBacked`, `MappingImplementsContract` (all of
  `ImplementsContract`: there is no liveness in it). The invariant says that
  objects describe their mappings as the kernel has them, that no two have one, and
  that none is without; the size given to `MmUnmapIoSpace` follows from the first.
* `PoolRuntimeProofs`: `TypeCorrect`, `AllocationsAreApart`, `BlocksHaveOneOwner`,
  `OnlyOwnersWriteThere`, for any width of `size_t`. The invariant has the blocks apart,
  what a call under way asked for and got, and `Owned`: allocations and calls each
  have a block of their own, in which an allocation lies with the header that names it.
  The arithmetic is in `RequestFits` and `Placement`: past `Fits` no sum wraps, and the
  aligned address leaves its header in front and its bytes behind inside the block.
* `EfiTableScanProofs`: `ScanTypeCorrect`, `RangeIsAccounted`, `ScanIsAccounted`,
  `TableIsNotPassedOver`, `CandidatesAreInOrder` and `ReportsAreAnnounced`. The inductive
  invariant is `TypeOK /\ ScanInvariant`:
  `RangeAccounted`; `ChunkInvariant` (what was read of the chunk is still what
  memory holds wherever nobody wrote, what is stepped over unread lies in pages that
  cannot be relied on, and the advance is a whole number of pages of what is left);
  and `FrontierInvariant` (no resident table lies below the point the scan has
  reached, and a resident table under examination agrees with the header read). The
  central lemma, `ResidentTable`, says that a resident table's reads all succeed
  and it starts in a page that is read for sure, so it cannot be in what is
  stepped over. `CandidatesAscend` and `ReportsOnlyTables` need `Examined` as well: the
  candidate lies behind the scan's position, and what was kept of its header is of an
  acceptable one that the address has held.
  The checksum is in the last part of this module (the names of `Crc32` are apart from
  those of `EfiTableScan`, so that both can be extended): `ChecksumIsRemainder` and
  `ChecksumsTellBursts`, for messages of any length. The invariant looks at the register
  and the bits not taken yet as one polynomial (`Outstanding`). Taking a byte does
  not change it (`TakePending`), and shifting the register is one step of the long
  division (`ShiftIsShift`, `DividingIsShifting`, which rest on 0xEDB88320 being the
  generator read backwards), so that at every moment it mirrors what `RemainderOf` has
  left to divide, whichever byte the message ends with (`DividesOn`). The shift is linear
  (`ShiftOfDifference`), so the difference of two messages goes through the same
  steps, and a burst stays one: what is shifted out comes in again 32 places behind, so
  that it is never empty and never longer than a word (`BurstIsKept`).
* `VirtualAddressTranslatorProofs`: `TypeCorrect`, `ZeroIsNeverNamed`,
  `FetchFailuresAreReal`, `AnswersAreBeforeOrAfter`, `TranslationsCoverRuns`.
  `TypeOK` is inductive by itself: that masking leaves a page the
  processor can address, at every level, is most of the work. The other two need to
  know which path the walk has taken. `Follows(tables)` says that
  the walk stands where the path of the address through these tables (`Walk`) leads at this
  level, and has come by no entry that ends it. The invariant, `WalkFollowsTables`, is
  that a walk without a change follows the tables as they are; and that with one
  change, it follows either the tables as they are, or those before the change, the
  changed entry being behind it (`ChangedBehind`): where no entry is met twice, such a
  walk will not come to that entry again, so what it finds from there on is what was
  there before too. `Walk` is a recursive function over at most five levels, which
  `WalkEquation` unfolds one at a time. `AnswerOfFollowedTables` then has an entry that
  ends a walk give the answer of the tables followed. `TranslationsCoverRuns` goes on from
  the answer of tables at rest (`AnswerIsOfTables`): the addresses of a run
  lie in one page of the entry's size, so their paths are one path (`RunIsTranslated`,
  by `SpansNest` and `SameWalk`) and in one canonical half (`PageIsCanonical`,
  `CanonicalMeans`).
* `VirtualMemoryTransferProofs`: `TypeCorrect`, `TransfersOnlyMapped`,
  `ReportsTransfers`, `NothingPassedOver`, `FailuresHaveReasons`. To the properties the
  invariant adds that the translation in use is that of some address space of the call,
  and that past its first chunk a call stands at the start of a page, so that one
  page's bytes come from one chunk.

TLC checks as invariants of runs the parts that carry these inductive invariants
(`TransferInvariant`, `WriteInvariant`, `ScanInvariant` and the properties
themselves).

Every safety property of the runs has a theorem. Three of the theorems have a hypothesis
besides the named assumptions: `DriftIsBounded` and `StatisticsAccount` that the threads
are finitely many, `AnswersTell` that each calls once, as its property does.

Only model-checked: liveness (`ScanTerminates`, `CallReturns`, the liveness parts of the
reader's and the writer's `ImplementsContract`), which is beyond the prover.

## Plan

Done, in this order: `MemoryTypes`, `ReadContract`, `PhysicalMemoryReader`,
`EfiTableScan`, `VirtualAddressTranslator`, `PhysicalMemoryWriter` with
`WriteContract`, `PhysicalMemoryMapping` with `MappingContract`, `PoolRuntime`,
`Crc32`, `VirtualMemoryTransfer`, and the proofs about all of these.

What is left: the walk itself under `VirtualMemoryTransfer`, in place of a `Translate` that
is one step. It is a refinement from the walk to that step, for tables without
self-maps; `AnswersAreBeforeOrAfter` is its central fact, and what is missing is that
the pages of tables make an address space as `SpacesAssumption` has them.

## Not modelled

* `DriverEntry`'s printing, `DriverUnload` and `DirectoryTableBase::Current` keep no
  state; umbrella headers and build files hold no logic.
* `AlignUp`, `Contains` and `Subregion` are called by no code of the repository.
* `Statistics` loads four relaxed counters one by one, and its result may be of four
  moments; nothing in the repository relates the four, so there is nothing to hold it to.
* `Read<Value>` and `Read(region)` add a length check that never fails, and the
  allocation of the vector, to `ReadInto`. That `operator new` stops the machine when
  the pool is exhausted is in `PoolRuntime`; what callers lose by it is not.
* The caching attribute of mappings and the aliasing it may cause are the processor's.
  `NativeStatus` is carried and read by nobody.
