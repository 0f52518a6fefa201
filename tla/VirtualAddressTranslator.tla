----------------------- MODULE VirtualAddressTranslator -----------------------
(***************************************************************************)
(* Memory::Virtual::VirtualAddressTranslator::Translate: the page walk of  *)
(* an x86-64 processor done in software.  Each level's entry is fetched by *)
(* a call of PhysicalMemoryReader, nothing locks the tables, and the       *)
(* system that owns them may change an entry between two fetches.          *)
(*                                                                         *)
(* A table is a page of Fanout entries.  An entry is its flags and the     *)
(* page-aligned address in it (bits 12 to 51); the eight bytes of an entry *)
(* are taken to be read together, as they are written.                     *)
(***************************************************************************)
EXTENDS MemoryTypes

CONSTANTS
  Fanout,              \* entries of a table: 512
  EntrySize,           \* sizeof(uint64_t)
  MinPhysicalBits,     \* 36
  MaxPhysicalBits,     \* 52
  Processors,          \* the processors considered: CR4.LA57, and CPUID's width
  SolidSets,           \* the sets of pages reads of which never fail considered
  Tables,              \* the initial page tables: entry address -> entry
  Entries,             \* the entries others store
  Addresses,           \* the virtual addresses translated
  Directories,         \* the values of CR3 translated with
  MaxChanges           \* bound: entries changed during a translation

Permissions == {"Writable", "UserAccessible", "Executable"}

Entry == [present : BOOLEAN, large : BOOLEAN,
          grants : SUBSET Permissions, address : Pages]

\* Where entries may lie: no physical address has more than MaxPhysicalBits.
EntryAddresses == {a \in 0 .. 2 ^ MaxPhysicalBits - 1 : a % EntrySize = 0}

ASSUME TranslatorAssumption ==
  /\ Fanout \in Nat \ {0} /\ EntrySize \in Nat \ {0}
  /\ Fanout * EntrySize = PageSize
  /\ MinPhysicalBits \in Nat /\ MaxPhysicalBits \in Nat
  /\ MinPhysicalBits <= MaxPhysicalBits
  /\ 2 ^ MaxPhysicalBits <= MaxAddress + 1
  /\ Processors \subseteq [fiveLevel : BOOLEAN, bits : Nat]
  /\ SolidSets \subseteq SUBSET Pages
  /\ Tables \subseteq [EntryAddresses -> Entry]
  /\ Entries \subseteq Entry
  /\ Addresses \subseteq Address /\ Directories \subseteq Address
  /\ MaxChanges \in Nat

\* What is used of the powers that widths and spans are: they are numbers, those
\* of two grow, no width of a physical address cuts a page of any size, and what
\* the tables of a level map fits the address space and can be halved.
ASSUME PowersAssumption ==
  /\ \A w \in MinPhysicalBits .. MaxPhysicalBits :
       /\ 2 ^ w \in Nat \ {0} /\ 2 ^ w <= 2 ^ MaxPhysicalBits
       /\ \A l \in 0 .. 2 : (2 ^ w) % (PageSize * Fanout ^ l) = 0
  /\ \A l \in 0 .. 5 : Fanout ^ l \in Nat \ {0}
  /\ Fanout ^ 0 = 1 /\ \A l \in 0 .. 4 : Fanout ^ (l + 1) = Fanout ^ l * Fanout
  /\ \A l \in 0 .. 5 : (MaxAddress + 1) % (PageSize * Fanout ^ l) = 0
  /\ Fanout % 2 = 0

VARIABLES
  processor,   \* what the processor says of itself
  solid,       \* the pages reads of which never fail
  entries,     \* the entry at each entry address
  before,      \* history: the entries when Translate was called
  changes,     \* entries changed since
  pc,          \* "idle", "walk" or "done"
  address,     \* Address
  directory,   \* DirectoryTable
  level,       \* the level whose entry is fetched next
  table,       \* Table
  granted,     \* the permissions every entry so far has granted
  answer       \* what Translate returned, or Walking

machine == <<processor, solid>>
call == <<pc, address, directory, level, table, granted, answer>>
vars == <<machine, entries, before, changes, call>>

Walking == [code |-> "Walking"]

-----------------------------------------------------------------------------

(* PhysicalAddressMask() keeps the address bits below this.                *)
PhysicalLimit ==
  2 ^ (IF processor.bits < MinPhysicalBits THEN MinPhysicalBits
       ELSE StdMin(processor.bits, MaxPhysicalBits))

(* Mutant: the width of the processor's addresses is not applied. *)
TableAddressUnmasked(a) == PageBase(a)

(* Value & PhysicalAddressMask *)
TableAddress(a) == PageBase(a) % PhysicalLimit

(* DirectoryTableBase::RootAddress: the bits of CR3 that name a table.     *)
RootAddress(d) == PageBase(d) % (2 ^ MaxPhysicalBits)

TopLevel == IF processor.fiveLevel THEN 5 ELSE 4

(* The addresses one entry of a level stands for; a page of that size.     *)
Span(l) == PageSize * Fanout ^ (l - 1)

(* Mutant: the bits of the levels above are left in. *)
IndexUnmasked(a, l) == a \div Span(l)

Index(a, l) == (a \div Span(l)) % Fanout

(* The bits above the canonical ones all equal the topmost of those.       *)
IsCanonical(a) ==
  LET canonical == Span(TopLevel + 1)
  IN IF (a \div (canonical \div 2)) % 2 = 0
     THEN a < canonical
     ELSE a >= MaxAddress + 1 - canonical

Error(code, bytes, l) ==
  [code |-> code, bytes |-> bytes, fault |-> address, level |-> l]

(* The base of the page an entry maps at a level. *)
MappedBase(e, l) == TableAddress(e.address) - (TableAddress(e.address) % Span(l))

(* Mutant: the bytes before the address are counted as still to come. *)
ContiguousBytesWholePage(a, l) == Span(l)

ContiguousBytes(a, l) == Span(l) - (a % Span(l))

Translation(a, e, l, g) ==
  [code |-> "Success", physical |-> MappedBase(e, l) + (a % Span(l)),
   contiguous |-> ContiguousBytes(a, l), size |-> Span(l), grants |-> g]

(* The entry ends the walk: a page of the last level, or a large one.      *)
MapsPage(e, l) == l = 1 \/ (l \in {2, 3} /\ e.large)

(* Mutant: the entry's own bits are looked at, not the masked address.     *)
NamesNoTableUnmasked(e) == PageBase(e.address) = 0

(* Advance: what the entry gives as the next table is no table. *)
NamesNoTable(e) == TableAddress(e.address) = 0

(* Mutant: the permissions of the last entry decide. *)
ApplyPermissionsLast(g, e) == e.grants

ApplyPermissions(g, e) == g \cap e.grants

-----------------------------------------------------------------------------

Init ==
  /\ processor \in Processors
  /\ solid \in SolidSets
  /\ entries \in Tables
  /\ before = entries
  /\ changes = 0
  /\ pc = "idle"
  /\ address = 0 /\ directory = 0
  /\ level = 0 /\ table = 0
  /\ granted = {}
  /\ answer = Walking

Return(a) == pc' = "done" /\ answer' = a

(* Translate is called: its early returns, or the start of the walk.       *)
Translate(a, d) ==
  /\ pc = "idle"
  /\ address' = a
  /\ directory' = d
  /\ before' = entries
  /\ changes' = 0
  /\ IF RootAddress(d) = 0
     THEN /\ Return([code |-> "InvalidDirectoryTableBase", bytes |-> 0,
                     fault |-> a, level |-> 0])
          /\ UNCHANGED <<level, table, granted>>
     ELSE IF ~IsCanonical(a)
     THEN /\ Return([code |-> "NonCanonicalAddress", bytes |-> 0,
                     fault |-> a, level |-> 0])
          /\ UNCHANGED <<level, table, granted>>
     ELSE /\ pc' = "walk"
          /\ level' = TopLevel
          /\ table' = TableAddress(RootAddress(d))
          /\ granted' = Permissions
          /\ UNCHANGED answer
  /\ UNCHANGED <<machine, entries>>

EntryAddress == table + Index(address, level) * EntrySize

(* LoadEntry fails: the entry cannot be reached, read or used. *)
EntryRefused ==
  /\ pc = "walk"
  /\ \/ /\ ~CanOffset(table, Index(address, level) * EntrySize)
        /\ Return(Error("AddressOverflow", 0, level))
     \/ \E read \in ReadAnswers(EntryAddress, EntrySize, solid) :
          /\ read.code # "Success"
          /\ Return(Error(read.code, read.bytes, level))
     \/ /\ ~entries[EntryAddress].present
        /\ Return(Error("PageNotPresent", 0, level))
  /\ UNCHANGED <<machine, entries, before, changes,
                 address, directory, level, table, granted>>

(* LoadEntry yields an entry: it was reached and read, and is present.     *)
EntryLoaded ==
  /\ CanOffset(table, Index(address, level) * EntrySize)
  /\ Success(EntrySize) \in ReadAnswers(EntryAddress, EntrySize, solid)
  /\ entries[EntryAddress].present

(* LoadEntry yields the entry of a page, and Translate returns. *)
EntryMapsPage ==
  LET entry == entries[EntryAddress]
  IN /\ pc = "walk"
     /\ EntryLoaded
     /\ MapsPage(entry, level)
     /\ granted' = ApplyPermissions(granted, entry)
     /\ Return(Translation(address, entry, level, granted'))
     /\ UNCHANGED <<machine, entries, before, changes,
                    address, directory, level, table>>

(* LoadEntry yields the entry of a table, and Advance goes down to it.     *)
EntryNamesTable ==
  LET entry == entries[EntryAddress]
  IN /\ pc = "walk"
     /\ EntryLoaded
     /\ ~MapsPage(entry, level)
     /\ granted' = ApplyPermissions(granted, entry)
     /\ IF entry.large
        THEN Return(Error("InvalidPageTableEntry", 0, level)) /\ UNCHANGED table
        ELSE /\ table' = TableAddress(entry.address)
             /\ IF NamesNoTable(entry)
                THEN Return(Error("InvalidPageTableEntry", 0, level))
                ELSE UNCHANGED <<pc, answer>>
     /\ level' = level - 1
     /\ UNCHANGED <<machine, entries, before, changes, address, directory>>

(* The owner of the page tables stores an entry. *)
ChangeEntry ==
  /\ pc = "walk"
  /\ changes < MaxChanges
  /\ \E a \in EntryAddresses : \E e \in Entries :
       /\ entries[a] # e
       /\ entries' = [entries EXCEPT ![a] = e]
  /\ changes' = changes + 1
  /\ UNCHANGED <<machine, before, call>>

Next ==
  \/ \E a \in Addresses : \E d \in Directories : Translate(a, d)
  \/ EntryRefused \/ EntryMapsPage \/ EntryNamesTable
  \/ ChangeEntry

SafetySpec == Init /\ [][Next]_vars

-----------------------------------------------------------------------------

TypeOK ==
  /\ processor \in Processors
  /\ solid \in SUBSET Pages
  /\ entries \in [EntryAddresses -> Entry]
  /\ before \in [EntryAddresses -> Entry]
  /\ changes \in 0 .. MaxChanges
  /\ pc \in {"idle", "walk", "done"}
  /\ address \in Address /\ directory \in Address
  /\ level \in 0 .. 5
  /\ pc = "walk" => level \in 1 .. TopLevel
  /\ table \in Pages /\ table < PhysicalLimit
  /\ granted \in SUBSET Permissions

(***************************************************************************)
(* What an address stands for, given the entries in m and no hurry:        *)
(* WalkAddresses(m, a) is where the entry of each level lies, were every   *)
(* entry above it a present entry naming a table; the walk stops at the    *)
(* highest level whose entry is anything else.                             *)
(***************************************************************************)
WalkAddresses(m, a) ==
  LET at[l \in 1 .. TopLevel] ==
        ((IF l = TopLevel THEN RootAddress(directory) ELSE m[at[l + 1]].address)
           % PhysicalLimit) + Index(a, l) * EntrySize
  IN at

Walk(m, a) == [l \in 1 .. TopLevel |-> m[WalkAddresses(m, a)[l]]]

Stops(e, l) == l = 1 \/ ~e.present \/ e.large \/ e.address % PhysicalLimit = 0

StopLevel(path) ==
  CHOOSE l \in DOMAIN path :
    Stops(path[l], l) /\ \A k \in DOMAIN path : k > l => ~Stops(path[k], k)

PhysicalOf(m, a) ==
  LET path == Walk(m, a)
      l == StopLevel(path)
      last == path[l]
  IN IF ~last.present
     THEN [code |-> "PageNotPresent", bytes |-> 0, fault |-> a, level |-> l]
     ELSE IF l > 3 \/ (l > 1 /\ ~last.large)
     THEN [code |-> "InvalidPageTableEntry", bytes |-> 0, fault |-> a, level |-> l]
     ELSE [code |-> "Success",
           physical |-> ((last.address % PhysicalLimit) \div Span(l)) * Span(l)
                          + (a % Span(l)),
           contiguous |-> (a \div Span(l) + 1) * Span(l) - a,
           size |-> Span(l),
           grants |-> {p \in Permissions :
                         \A k \in l .. TopLevel : p \in path[k].grants}]

(* The answers that the tables alone decide. *)
Walked == {"Success", "PageNotPresent", "InvalidPageTableEntry"}

(* The tables have no entry that serves this walk at two levels, as one    *)
(* that maps the tables themselves does.                                   *)
MeetsNoEntryTwice(m, a) ==
  LET at == WalkAddresses(m, a)
      visited == StopLevel(Walk(m, a)) .. TopLevel
  IN \A k, l \in visited : at[k] = at[l] => k = l

(* As long as no more than one entry changes during the walk, and the walk *)
(* meets no entry twice, its answer is what the tables said before the     *)
(* change or what they say after it, and never a mixture of the two.       *)
AnswerIsBeforeOrAfter ==
  pc = "done" /\ answer.code \in Walked
    /\ changes <= 1 /\ MeetsNoEntryTwice(before, address)
  => answer \in {PhysicalOf(before, address), PhysicalOf(entries, address)}

(* Of all that the tables could map, its lower half lies at the start of   *)
(* the address space and its upper half at the end.                        *)
CanonicalAddresses ==
  LET half == Span(TopLevel + 1) \div 2
  IN 0 .. half - 1 \cup MaxAddress + 1 - half .. MaxAddress

(* What VirtualMemoryReader and VirtualMemoryWriter rely on: a translation *)
(* answers for the ContiguousBytes that follow, all of them in one of the  *)
(* halves, each of which translates to the physical byte as far on, with   *)
(* the same permissions, and all of which the processor can address.       *)
TranslationCoversRun ==
  pc = "done" /\ answer.code = "Success" /\ changes = 0 =>
    \A i \in 0 .. answer.contiguous - 1 :
      LET next == PhysicalOf(entries, address + i)
      IN /\ address + i \in CanonicalAddresses
         /\ next.code = "Success"
         /\ next.physical = answer.physical + i
         /\ next.physical < PhysicalLimit
         /\ next.grants = answer.grants

(* The page at address 0 is walked as a table only if the root names it,   *)
(* which Translate tests before the processor's mask is applied: no entry  *)
(* leads there, though one may have address bits the processor lacks.      *)
ZeroIsNoTableBelowRoot ==
  pc = "walk" /\ table = 0 =>
    level = TopLevel /\ RootAddress(directory) # 0

(* A failed fetch is blamed on a level whose table is not sure to be read, *)
(* and on nothing else; an entry never straddles two pages, and its        *)
(* address never overflows.  No walk is refused for its address that the   *)
(* tables could translate.                                                 *)
FetchFailureIsReal ==
  pc = "done" /\ answer.code \notin Walked =>
    \/ answer.code = "InvalidDirectoryTableBase" /\ RootAddress(directory) = 0
    \/ answer.code = "NonCanonicalAddress" /\ address \notin CanonicalAddresses
    \/ answer.code = "MappingFailed" /\ table \notin solid

=============================================================================
