------------------------- MODULE VirtualMemoryTransfer -------------------------
(***************************************************************************)
(* Memory::Virtual::VirtualMemoryReader::ReadInto and VirtualMemoryWriter  *)
(* ::Write: the same loop, which translates the address it has reached and *)
(* reads or writes as much physical memory as that translation vouches     *)
(* for.  What it is composed with appears as the answers it may get: those *)
(* of VirtualAddressTranslator below, those of PhysicalMemoryReader and    *)
(* PhysicalMemoryWriter in MemoryTypes.  A successful one is never short,  *)
(* so the loop's PartialTransfer is never returned and is left out.        *)
(*                                                                         *)
(* The owner of the address space may change it at any time, in particular *)
(* between a translation and the transfer that uses it.                    *)
(***************************************************************************)
EXTENDS MemoryTypes

CONSTANTS
  LargeSize,      \* bytes a large page maps
  EntrySize,      \* sizeof(uint64_t), what a page walk reads at a time
  Canonical,      \* the virtual addresses that are canonical
  Spaces,         \* the address spaces considered: page -> page table entry
  SolidSets,      \* the sets of physical pages transfers of which never fail
  Requests,       \* the calls made: [kind, at : Address, len : Nat]
  MaxChanges      \* bound: changes of the address space

\* An entry, and the physical address it gives the page, or large page.
PageEntry == [present : BOOLEAN, large : BOOLEAN, writable : BOOLEAN, base : Pages]

ASSUME TransferAssumption ==
  /\ LargeSize \in Nat \ {0} /\ LargeSize % PageSize = 0
  /\ EntrySize \in Nat \ {0}
  /\ Canonical \subseteq Address
  /\ Spaces \subseteq [Pages -> PageEntry]
  /\ SolidSets \subseteq SUBSET Pages
  /\ Requests \subseteq [kind : {"read", "write"}, at : Address, len : Nat]
  /\ MaxChanges \in Nat

(* The base of what a large page would map around a. *)
LargeBase(a) == a - (a % LargeSize)

\* Address spaces as tables can describe them: a large page is found, with the
\* same entry, from every address it maps, and is aligned; and being canonical
\* does not change within a page of either size.
ASSUME SpacesAssumption ==
  /\ (MaxAddress + 1) % LargeSize = 0
  /\ \A m \in Spaces, a \in Address : m[PageBase(a)].large =>
       /\ m[PageBase(a)].base % LargeSize = 0
       /\ \A b \in Address :
            LargeBase(b) = LargeBase(a) => m[PageBase(b)] = m[PageBase(a)]
  /\ \A a, b \in Address :
       PageBase(a) = PageBase(b) \/ LargeBase(a) = LargeBase(b) =>
         (a \in Canonical <=> b \in Canonical)

VARIABLES
  space,         \* the address space
  solid,         \* the physical pages transfers of which never fail
  reliable,      \* the page tables can always be read
  during,        \* history: the address spaces there have been during the call
  changes,       \* changes of the address space
  pc,            \* "idle", "translate", "transfer" or "done"
  req,           \* the call
  total,         \* TotalBytesTransferred
  translation,   \* Translation
  place,         \* index of a byte transferred -> the physical address it was
                 \* read from or written to
  answer         \* what the call returned, or Pending

environment == <<solid, reliable>>
vars == <<space, environment, during, changes, pc, req, total, translation, place, answer>>

-----------------------------------------------------------------------------

Span(entry) == IF entry.large THEN LargeSize ELSE PageSize

(* What Translate finds for a present page: the physical address, and how  *)
(* many bytes from there on it vouches for.                                *)
Translated(m, a) ==
  LET entry == m[PageBase(a)]
  IN [physical |-> entry.base + (a % Span(entry)),
      contiguous |-> Span(entry) - (a % Span(entry)),
      writable |-> entry.writable]

NoTranslation == [physical |-> 0, contiguous |-> 0, writable |-> FALSE]

(* The errors of Translate: an address that is not canonical; a page that  *)
(* is absent, which stands for every reason the tables give not to map it; *)
(* and a page walk one of whose reads fails, an error that tells how much  *)
(* of an entry was read.                                                   *)
TranslationErrors(m, a) ==
  IF a \notin Canonical THEN {Failure("NonCanonicalAddress", 0, a)}
  ELSE (IF m[PageBase(a)].present THEN {} ELSE {Failure("PageNotPresent", 0, a)})
         \cup {Failure("MappingFailed", k, a) : k \in IF reliable THEN {} ELSE 0 .. EntrySize - 1}

(* Source and Destination.size() of the round at hand, or the other way    *)
(* round for a write.                                                      *)
Cursor == req.at + total
Remaining == req.len - total

(* Mutant: what the page holds before the address is transferred. *)
ChunkSizeFromBase == StdMin(Remaining, translation.physical % PageSize)

(* Mutant: nothing ends a chunk but the request. *)
ChunkSizeUnbounded == Remaining

ChunkSize == StdMin(Remaining, translation.contiguous)

(* PhysicalReader_.ReadInto or PhysicalWriter_.Write of the chunk.         *)
PhysicalAnswers ==
  IF req.kind = "read" THEN ReadAnswers(translation.physical, ChunkSize, solid)
                       ELSE WriteAnswers(translation.physical, ChunkSize, solid)

(* The bytes of the call that are transferred, with n more of this chunk.  *)
PlaceAfter(n) ==
  [i \in 0 .. total + n - 1 |->
     IF i < total THEN place[i] ELSE translation.physical + (i - total)]

-----------------------------------------------------------------------------

Init ==
  /\ space \in Spaces
  /\ solid \in SolidSets
  /\ reliable \in BOOLEAN
  /\ during = {space}
  /\ changes = 0
  /\ pc = "idle"
  /\ req = [kind |-> "read", at |-> 0, len |-> 0]
  /\ total = 0
  /\ translation = NoTranslation
  /\ place = [i \in {} |-> 0]
  /\ answer = Pending

Return(a) == pc' = "done" /\ answer' = a

(* ReadInto or Write is called. *)
Call(r) ==
  /\ pc = "idle"
  /\ req' = r
  /\ IF r.len = 0 THEN Return(Success(0))
                  ELSE pc' = "translate" /\ UNCHANGED answer
  /\ UNCHANGED <<space, environment, during, changes, total, translation, place>>

(* Mutant: only the error's own count is reported. *)
ErrorAfterUncounted(error) == Failure(error.code, error.bytes, Cursor)

(* An error in this round: the bytes of the rounds before are added to its *)
(* count, and the address of this round is blamed.                         *)
ErrorAfter(error) == Failure(error.code, total + error.bytes, Cursor)

(* Translate fails, and so does the call. *)
TranslationFails ==
  /\ pc = "translate"
  /\ \E error \in TranslationErrors(space, Cursor) : Return(ErrorAfter(error))
  /\ UNCHANGED <<space, environment, during, changes, req, total, translation, place>>

(* Mutant: the writer does not look at the translation's permissions. *)
MayTransferAlways(t) == TRUE

(* A write needs a page that is writable. *)
MayTransfer(t) == req.kind = "write" => t.writable

(* Translate answers; a write of a page that is not writable ends there.   *)
TranslationSucceeds ==
  LET found == Translated(space, Cursor)
  IN /\ pc = "translate"
     /\ Cursor \in Canonical /\ space[PageBase(Cursor)].present
     /\ IF MayTransfer(found)
        THEN /\ pc' = "transfer"
             /\ translation' = found
             /\ UNCHANGED answer
        ELSE /\ Return(Failure("AccessDenied", total, Cursor))
             /\ UNCHANGED translation
     /\ UNCHANGED <<space, environment, during, changes, req, total, place>>

(* The physical transfer stops short, having moved some bytes. *)
TransferFails ==
  /\ pc = "transfer"
  /\ \E error \in PhysicalAnswers :
       /\ error.code # "Success"
       /\ place' = PlaceAfter(error.bytes)
       /\ Return(ErrorAfter(error))
  /\ UNCHANGED <<space, environment, during, changes, req, total, translation>>

(* The chunk is transferred.  The address behind it is computed whether or *)
(* not anything is left to transfer there.                                 *)
TransferSucceeds ==
  LET n == total + ChunkSize
  IN /\ pc = "transfer"
     /\ Success(ChunkSize) \in PhysicalAnswers
     /\ place' = PlaceAfter(ChunkSize)
     /\ total' = n
     /\ translation' = NoTranslation
     /\ IF ~CanOffset(Cursor, ChunkSize)
        THEN Return(Failure("AddressOverflow", n, Cursor))
        ELSE IF n = req.len
        THEN Return(Success(n))
        ELSE pc' = "translate" /\ UNCHANGED answer
     /\ UNCHANGED <<space, environment, during, changes, req>>

(* The owner of the address space changes it. *)
ChangeSpace ==
  /\ pc \in {"translate", "transfer"}
  /\ changes < MaxChanges
  /\ space' \in Spaces \ {space}
  /\ during' = during \cup {space'}
  /\ changes' = changes + 1
  /\ UNCHANGED <<environment, pc, req, total, translation, place, answer>>

TransferStep ==
  TranslationFails \/ TranslationSucceeds \/ TransferFails \/ TransferSucceeds

Next == (\E r \in Requests : Call(r)) \/ TransferStep \/ ChangeSpace

\* The thread inside the call keeps running: what it calls returns.
Spec == Init /\ [][Next]_vars /\ WF_vars(TransferStep)

-----------------------------------------------------------------------------

TypeOK ==
  /\ space \in Spaces /\ during \subseteq Spaces
  /\ solid \in SolidSets /\ reliable \in BOOLEAN
  /\ changes \in 0 .. MaxChanges
  /\ pc \in {"idle", "translate", "transfer", "done"}
  /\ req \in [kind : {"read", "write"}, at : Address, len : Nat]
  /\ total \in 0 .. req.len
  /\ translation \in [physical : Address, contiguous : Nat, writable : BOOLEAN]
  /\ place \in [0 .. total - 1 -> Address] \/ pc = "done"
  /\ pc = "done" => answer.bytes \in Nat /\ answer.fault \in Address

Transferred == DOMAIN place

(* Each byte that is read or written is, at the physical address it comes  *)
(* from or goes to, a byte the virtual address stood for at some moment of *)
(* the call; the bytes of one page are from one moment; and what is        *)
(* written may be written, as of that moment.                              *)
BytesWereMapped ==
  \A p \in {PageBase(req.at + i) : i \in Transferred} :
    \E m \in during :
      /\ m[p].present
      /\ req.kind = "write" => m[p].writable
      /\ \A i \in Transferred :
           PageBase(req.at + i) = p =>
             /\ req.at + i \in Canonical
             /\ place[i] = m[p].base + ((req.at + i) % Span(m[p]))

(* A call reports the bytes it has transferred, and all of them when it    *)
(* succeeds.  Only a page walk that fails in the middle of an entry makes  *)
(* it report more, by less than an entry.                                  *)
ReportsWhatWasTransferred ==
  pc = "done" =>
    LET n == req.len
        reported == answer.bytes
    IN IF answer.code = "Success" THEN reported = n /\ Transferred = 0 .. n - 1
       ELSE \E excess \in 0 .. EntrySize - 1 :
              /\ Transferred = 0 .. reported - excess - 1
              /\ excess # 0 => answer.code = "MappingFailed" /\ ~reliable

(* The bytes the answer vouches for end in the run of memory that begins   *)
(* at the address blamed: to go on from there passes over nothing.         *)
FaultPassesOverNothing ==
  pc = "done" /\ answer.code # "Success" =>
    \E i \in 0 .. req.len - 1 :
      /\ answer.fault = req.at + i
      /\ 0 .. i - 1 \subseteq Transferred
      /\ \A j \in Transferred : j > i => place[j] = place[i] + (j - i)

(* A call fails for a reason: a page that at some moment of the call was   *)
(* absent, or not writable; memory that cannot be relied on, where the     *)
(* transfer stopped; or the top of the address space.  There even a call   *)
(* that transfers everything fails: a region that ends with the address    *)
(* space is legal, and no call for one succeeds.                           *)
AnswersHaveReasons ==
  pc = "done" =>
    LET stop == req.at + total
    IN CASE answer.code = "Success"             -> req.len = 0 \/ CanOffset(req.at, req.len)
         [] answer.code = "NonCanonicalAddress" -> stop \notin Canonical
         [] answer.code = "PageNotPresent"      -> \E m \in during : ~m[PageBase(stop)].present
         [] answer.code = "AccessDenied"        ->
              req.kind = "write" /\ \E m \in during : ~m[PageBase(stop)].writable
         [] answer.code = "AddressOverflow"     -> stop = MaxAddress + 1
         [] answer.code = "MappingFailed"       ->
              ~reliable \/ PageBase(translation.physical + (answer.bytes - total)) \notin solid

(* Every call returns, however often the address space changes. *)
CallReturns == (pc = "translate") ~> (pc = "done")

=============================================================================
