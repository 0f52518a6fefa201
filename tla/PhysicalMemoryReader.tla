------------------------- MODULE PhysicalMemoryReader -------------------------
(***************************************************************************)
(* Memory::Physical::PhysicalMemoryReader: ReadInto, which copies physical *)
(* memory with MmCopyMemory and, whenever that stops short, maps the page  *)
(* it stopped in and copies the rest of that page from the mapping; and    *)
(* the four relaxed atomic counters every reader keeps, which any number   *)
(* of callers may reset, also at the same time.                            *)
(*                                                                         *)
(* A step touches at most one counter or makes one kernel call, so threads *)
(* interleave between any two accesses to what they share.  The buffer of  *)
(* a call is its own; its byte i holds the physical address it was filled  *)
(* from.                                                                   *)
(***************************************************************************)
EXTENDS MemoryTypes, FiniteSets, Functions

CONSTANTS
  Threads,     \* threads calling ReadInto on one shared reader
  Requests,    \* the reads they make: [src : Address, len : Nat]
  Layouts,     \* the assignments page -> SUBSET {"copy", "map"} considered
  MaxCalls,    \* bound: calls of ReadInto a thread makes
  Resetters,   \* callers of ResetStatistics
  MaxResets    \* bound: calls of it each makes

ASSUME ReaderAssumption ==
  /\ Requests \subseteq [src : Address, len : Nat]
  /\ Layouts \subseteq [Pages -> SUBSET {"copy", "map"}]
  /\ MaxCalls \in Nat
  /\ MaxResets \in Nat

VARIABLES
  access,     \* page -> the ways of reading it that never fail
  pc,         \* thread -> where it is in ReadInto
  req,        \* thread -> Source and Destination.size() of the call
  total,      \* thread -> TotalBytesTransferred
  buffer,     \* thread -> Destination
  mapping,    \* thread -> base of the page ReadMapped holds mapped, or NoPage
  result,     \* thread -> the answer to its last call, or Pending
  calls,      \* thread -> calls made
  stats,      \* the four counters
  resetAt,    \* resetter -> the counter it stores next; 1 outside a call
  resets,     \* resetter -> calls of ResetStatistics begun
  returned    \* history: bytes reported by all calls answered so far

local == <<pc, req, total, buffer, mapping, result, calls, returned>>
vars == <<access, local, stats, resetAt, resets>>

NoPage == -1
Unset == -1

Counters == <<"BytesCopied", "CopyFailures", "PagesMapped", "BytesMapped">>
CounterNames == {Counters[i] : i \in 1 .. 4}

-----------------------------------------------------------------------------

(* The address the call has reached, and the bytes it still has to fill.   *)
Cursor(t) == req[t].src + total[t]
Remaining(t) == req[t].len - total[t]

(* Destination after n bytes from address a have been copied to offset at. *)
Filled(dest, at, n, a) ==
  [i \in DOMAIN dest |-> IF i \in at .. at + n - 1 THEN a + (i - at) ELSE dest[i]]

(* MmCopyMemory transfers everything, or stops at a byte of a page it is   *)
(* not certain to read.                                                    *)
CopyLengths(a, n) ==
  {n} \cup {k \in 0 .. n - 1 : "copy" \notin access[PageBase(a + k)]}

(* Mutant: only the byte that could not be copied is read by mapping.      *)
FallbackSizeOneByte(a, n) == 1

(* How much of the fallback page is read through the mapping.              *)
FallbackSize(a, n) == StdMin(n, PageSize - PageOffset(a))

(* Mutant: the whole page's bytes are expected at the mapping's start.     *)
MappedSourceAtPageBase(a) == PageBase(a)

(* Mutant: the offset is added to an address that has it already.          *)
MappedSourceOffsetTwice(a) == a + PageOffset(a)

(* Mapping->Bytes().data() + PageOffset, as a physical address.            *)
MappedSource(a) == PageBase(a) + PageOffset(a)

(* What ReadMapped finds wrong with its arguments before it maps.          *)
MapArgumentError(a, n) ==
  IF n > PageSize - PageOffset(a) THEN "InvalidRange"
  ELSE IF ~IsRegion(PageBase(a), PageSize) THEN "AddressOverflow"
  ELSE "Success"

MapArgumentFault(a, error) == IF error = "AddressOverflow" THEN PageBase(a) ELSE a

Count(counter, n) == stats' = [stats EXCEPT ![counter] = @ + n]

Goto(t, label) == pc' = [pc EXCEPT ![t] = label] /\ UNCHANGED <<result, returned>>

Return(t, answer) ==
  /\ pc' = [pc EXCEPT ![t] = "idle"]
  /\ result' = [result EXCEPT ![t] = answer]
  /\ returned' = returned + answer.bytes

-----------------------------------------------------------------------------

Init ==
  /\ access \in Layouts
  /\ pc = [t \in Threads |-> "idle"]
  /\ req = [t \in Threads |-> [src |-> 0, len |-> 0]]
  /\ total = [t \in Threads |-> 0]
  /\ buffer = [t \in Threads |-> [i \in {} |-> Unset]]
  /\ mapping = [t \in Threads |-> NoPage]
  /\ result = [t \in Threads |-> Success(0)]
  /\ calls = [t \in Threads |-> 0]
  /\ stats = [c \in CounterNames |-> 0]
  /\ resetAt = [r \in Resetters |-> 1]
  /\ resets = [r \in Resetters |-> 0]
  /\ returned = 0

(* A thread calls ReadInto(Source, Destination). *)
Call(t) ==
  /\ pc[t] = "idle"
  /\ calls[t] < MaxCalls
  /\ \E r \in Requests :
       /\ req' = [req EXCEPT ![t] = r]
       /\ buffer' = [buffer EXCEPT ![t] = [i \in 0 .. r.len - 1 |-> Unset]]
  /\ pc' = [pc EXCEPT ![t] = "start"]
  /\ total' = [total EXCEPT ![t] = 0]
  /\ result' = [result EXCEPT ![t] = Pending]
  /\ calls' = [calls EXCEPT ![t] = @ + 1]
  /\ UNCHANGED <<access, mapping, stats, resetAt, resets, returned>>

(* The early returns of ReadInto, before anything is transferred. *)
Start(t) ==
  /\ pc[t] = "start"
  /\ \/ /\ req[t].len = 0
        /\ Return(t, Success(0))
     \/ /\ req[t].len # 0
        /\ ~CanOffset(req[t].src, req[t].len - 1)
        /\ Return(t, Failure("AddressOverflow", 0, req[t].src))
     \/ /\ IsRegion(req[t].src, req[t].len)
        /\ Goto(t, "copy")
  /\ UNCHANGED <<access, req, total, buffer, mapping, calls, stats, resetAt, resets>>

(* One round of the loop: MmCopyMemory to the rest of the buffer, and the  *)
(* bytes it transferred counted.                                           *)
Copy(t) ==
  /\ pc[t] = "copy"
  /\ IF CanOffset(req[t].src, total[t])
     THEN \E n \in CopyLengths(Cursor(t), Remaining(t)) :
            /\ buffer' = [buffer EXCEPT ![t] = Filled(@, total[t], n, Cursor(t))]
            /\ total' = [total EXCEPT ![t] = @ + n]
            /\ Count("BytesCopied", n)
            /\ IF n = Remaining(t) THEN Return(t, Success(req[t].len))
                                   ELSE Goto(t, "failed")
     ELSE /\ Return(t, Failure("AddressOverflow", total[t], req[t].src))
          /\ UNCHANGED <<total, buffer, stats>>
  /\ UNCHANGED <<access, req, mapping, calls, resetAt, resets>>

(* The copy stopped short: it is counted, and the fallback address found.  *)
CountFailure(t) ==
  /\ pc[t] = "failed"
  /\ Count("CopyFailures", 1)
  /\ IF CanOffset(req[t].src, total[t])
     THEN Goto(t, "map")
     ELSE Return(t, Failure("AddressOverflow", total[t], req[t].src))
  /\ UNCHANGED <<access, req, total, buffer, mapping, calls, resetAt, resets>>

(* The size of the fallback read the thread is making. *)
Fragment(t) == FallbackSize(Cursor(t), Remaining(t))

(* ReadMapped refuses its arguments, or MmMapIoSpaceEx refuses the page.   *)
MapRefused(t) ==
  /\ pc[t] = "map"
  /\ LET error == MapArgumentError(Cursor(t), Fragment(t))
     IN IF error # "Success"
        THEN Return(t, Failure(error, total[t], MapArgumentFault(Cursor(t), error)))
        ELSE /\ "map" \notin access[PageBase(Cursor(t))]
             /\ Return(t, Failure("MappingFailed", total[t], Cursor(t)))
  /\ UNCHANGED <<access, req, total, buffer, mapping, calls, stats, resetAt, resets>>

(* The page is mapped and the fragment copied out of the mapping. *)
MapPage(t) ==
  /\ pc[t] = "map"
  /\ MapArgumentError(Cursor(t), Fragment(t)) = "Success"
  /\ mapping' = [mapping EXCEPT ![t] = PageBase(Cursor(t))]
  /\ buffer' = [buffer EXCEPT ![t] =
                  Filled(@, total[t], Fragment(t), MappedSource(Cursor(t)))]
  /\ Goto(t, "countPage")
  /\ UNCHANGED <<access, req, total, calls, stats, resetAt, resets>>

CountPage(t) ==
  /\ pc[t] = "countPage"
  /\ Count("PagesMapped", 1)
  /\ Goto(t, "countBytes")
  /\ UNCHANGED <<access, req, total, buffer, mapping, calls, resetAt, resets>>

(* Mutant: the whole page that was mapped is counted. *)
MappedBytesWholePage(t) == PageSize

(* What ReadMapped adds to BytesMapped. *)
MappedBytes(t) == Fragment(t)

(* The fragment is counted and the mapping destroyed as ReadMapped returns; *)
(* ReadInto adds the fragment and goes round, or has everything.           *)
CountBytes(t) ==
  /\ pc[t] = "countBytes"
  /\ Count("BytesMapped", MappedBytes(t))
  /\ mapping' = [mapping EXCEPT ![t] = NoPage]
  /\ total' = [total EXCEPT ![t] = @ + Fragment(t)]
  /\ IF Fragment(t) = Remaining(t) THEN Return(t, Success(req[t].len))
                                   ELSE Goto(t, "copy")
  /\ UNCHANGED <<access, req, buffer, calls, resetAt, resets>>

(* Mutant: ResetStatistics forgets PagesMapped. *)
ResetCounterForgetsPages(i) ==
  IF Counters[i] = "PagesMapped" THEN stats
  ELSE [stats EXCEPT ![Counters[i]] = 0]

(* The counters once the i-th store of ResetStatistics is done. *)
ResetCounter(i) == [stats EXCEPT ![Counters[i]] = 0]

(* One of the four stores of ResetStatistics, in the order it makes them.  *)
ResetStore(r) ==
  /\ resetAt[r] = 1 => resets[r] < MaxResets
  /\ stats' = ResetCounter(resetAt[r])
  /\ resetAt' = [resetAt EXCEPT ![r] = IF @ = 4 THEN 1 ELSE @ + 1]
  /\ resets' = [resets EXCEPT ![r] = IF resetAt[r] = 1 THEN @ + 1 ELSE @]
  /\ UNCHANGED <<access, local>>

(* A step of ReadInto, once it has been called. *)
ReadStep(t) ==
  \/ Start(t) \/ Copy(t) \/ CountFailure(t)
  \/ MapRefused(t) \/ MapPage(t) \/ CountPage(t) \/ CountBytes(t)

Next ==
  \/ \E t \in Threads : Call(t) \/ ReadStep(t)
  \/ \E r \in Resetters : ResetStore(r)

SafetySpec == Init /\ [][Next]_vars

\* A thread inside ReadInto keeps running: the kernel calls it makes return.
Spec == SafetySpec /\ \A t \in Threads : WF_vars(ReadStep(t))

-----------------------------------------------------------------------------

TypeOK ==
  /\ access \in Layouts
  /\ pc \in [Threads -> {"idle", "start", "copy", "failed", "map",
                         "countPage", "countBytes"}]
  /\ req \in [Threads -> [src : Address, len : Nat]]
  /\ total \in [Threads -> Nat]
  /\ DOMAIN buffer = Threads
  /\ \A t \in Threads :
       buffer[t] \in [0 .. req[t].len - 1 -> Address \cup {Unset}]
  /\ mapping \in [Threads -> Pages \cup {NoPage}]
  /\ result \in [Threads -> Answers]
  /\ calls \in [Threads -> 0 .. MaxCalls]
  /\ stats \in [CounterNames -> Nat]
  /\ resetAt \in [Resetters -> 1 .. 4]
  /\ resets \in [Resetters -> 0 .. MaxResets]
  /\ returned \in Nat

(***************************************************************************)
(* What holds of a call between any two of its steps: an answer vouches    *)
(* for the bytes it reports; until then Destination holds the first total  *)
(* bytes asked for, and in a fallback also the fragment read, the copy has *)
(* failed for a reason, and the page mapped is the one it failed in.  When *)
(* the loop comes back to MmCopyMemory it stands at the start of a page:   *)
(* a page is mapped at most once per call, and the rounds are bounded by   *)
(* the pages of the request.                                               *)
(***************************************************************************)
Exact(t, from, upto) ==
  \A i \in from .. upto - 1 : buffer[t][i] = req[t].src + i

CallInvariant(t) ==
  /\ (pc[t] = "idle") <=> (result[t] # Pending)
  /\ pc[t] = "idle" =>
       result[t].bytes <= req[t].len /\ Exact(t, 0, result[t].bytes)
  /\ pc[t] = "start" => total[t] = 0
  /\ pc[t] \notin {"idle", "start"} =>
       /\ IsRegion(req[t].src, req[t].len)
       /\ total[t] < req[t].len
       /\ Exact(t, 0, total[t])
  /\ pc[t] = "copy" /\ total[t] > 0 => Cursor(t) \in Pages
  /\ pc[t] \in {"failed", "map"} => "copy" \notin access[PageBase(Cursor(t))]
  /\ pc[t] \in {"countPage", "countBytes"} =>
       /\ mapping[t] = PageBase(Cursor(t))
       /\ Exact(t, total[t], total[t] + Fragment(t))

TransferInvariant == \A t \in Threads : CallInvariant(t)

(* The contract's view of a reader: nothing of a call shows until it is    *)
(* answered, and then only the bytes it reports.                           *)
Delivered(t) ==
  IF result[t] = Pending THEN [i \in {} |-> 0]
  ELSE [i \in 0 .. result[t].bytes - 1 |-> buffer[t][i]]

SolidPages == {p \in Pages : access[p] # {}}

Contract == INSTANCE ReadContract WITH
  solid <- SolidPages,
  request <- req,
  outcome <- result,
  data <- [t \in Threads |-> Delivered(t)]

(***************************************************************************)
(* However copies stop and mappings fail, every call is answered, and      *)
(* answered as ReadContract allows: a failure blames exactly the first     *)
(* byte not delivered, that byte is in a page no method reads for sure,    *)
(* and every byte reported as transferred is the right one.                *)
(***************************************************************************)
ImplementsContract == Contract!Spec

(* The copy out of a mapping reads only bytes of the page that is mapped   *)
(* (ReadMapped maps one page, whatever the fragment).                      *)
MappedCopyStaysInPage ==
  \A t \in Threads : pc[t] = "countPage" =>
    \A i \in total[t] .. total[t] + Fragment(t) - 1 :
      PageBase(buffer[t][i]) = mapping[t]

(* As long as nobody has reset them, BytesCopied and BytesMapped account   *)
(* between them for every byte that the calls answered so far reported and *)
(* the calls under way have transferred.                                   *)
StatisticsAccountForBytes ==
  (\A r \in Resetters : resets[r] = 0) =>
    stats.BytesCopied + stats.BytesMapped =
      returned + SumFunction([t \in Threads |->
                                IF result[t] = Pending THEN total[t] ELSE 0])

(* Resets that race with reads, and with each other, can leave PagesMapped *)
(* ahead of CopyFailures, though every mapping follows a failed copy, but  *)
(* only by the threads that were between the two: the drift does not       *)
(* accumulate.                                                             *)
ResetDriftIsBounded ==
  (\A r \in Resetters : resetAt[r] = 1) =>
    stats.PagesMapped <= stats.CopyFailures + Cardinality(Threads)

=============================================================================
