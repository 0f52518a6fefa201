------------------------- MODULE PhysicalMemoryWriter -------------------------
(***************************************************************************)
(* Memory::Physical::PhysicalMemoryWriter::Write and the loop it hands its *)
(* work to, Detail::ForEachPhysicalPageFragment: each page of the request  *)
(* is mapped, the part of the page asked for is written through a view of  *)
(* the mapping, by the Write that takes a view, and the mapping goes       *)
(* before the next page is mapped.  That Write stores all it is given or   *)
(* refuses it, so the loop's PartialTransfer is never returned and is left *)
(* out.                                                                    *)
(*                                                                         *)
(* Nothing orders the stores of one memcpy, and nothing keeps the threads  *)
(* of one machine from writing the same page: every byte stored is a step. *)
(* The i-th byte of what thread t writes is <<t, i>>.                      *)
(***************************************************************************)
EXTENDS MemoryTypes

CONSTANTS
  Threads,     \* threads that write
  Requests,    \* the writes they make: [dst : Address, len : Nat]
  Mappables,   \* the sets of pages that can always be mapped considered
  MaxCalls     \* bound: calls of Write a thread makes

ASSUME WriterAssumption ==
  /\ Requests \subseteq [dst : Address, len : Nat]
  /\ Mappables \subseteq SUBSET Pages
  /\ MaxCalls \in Nat

VARIABLES
  mappable,   \* the pages that can always be mapped
  memory,     \* physical address -> the byte stored there last
  pc,         \* thread -> where it is in Write
  req,        \* thread -> Destination and Source.size() of the call
  total,      \* thread -> TotalBytesTransferred
  mapping,    \* thread -> base of the page it holds mapped, or NoPage
  view,       \* thread -> FragmentView, once the page is mapped
  stored,     \* thread -> which bytes of Source have been stored
  result,     \* thread -> the answer to its last call, or Pending
  calls       \* thread -> calls made

call == <<pc, req, total, mapping, view, stored, result, calls>>
vars == <<mappable, memory, call>>

NoPage == -1
Untouched == <<>>

-----------------------------------------------------------------------------

(* CurrentAddress, and the bytes still to be written from there on.        *)
Cursor(t) == req[t].dst + total[t]
Remaining(t) == req[t].len - total[t]

(* Mutant: the fragment does not end with its page. *)
FragmentSizeWholePage(t) == StdMin(Remaining(t), PageSize)

FragmentSize(t) == StdMin(Remaining(t), PageSize - PageOffset(Cursor(t)))

(* The view of n bytes that starts offset bytes into another. *)
CanSubview(v, offset, n) == offset <= v.size /\ n <= v.size - offset

(* Mutant: the bytes are narrowed and the start is not. *)
SubviewAtStart(v, offset, n) == [at |-> v.at, size |-> n]

Subview(v, offset, n) == [at |-> v.at + offset, size |-> n]

(* PhysicalMemoryMapping::View() of a page mapped for writing.             *)
PageView(page) == [at |-> page, size |-> PageSize]

NoView == [at |-> 0, size |-> 0]

(* FragmentView, once Subview has agreed to it.                            *)
FragmentView(t) ==
  Subview(PageView(PageBase(Cursor(t))), PageOffset(Cursor(t)), FragmentSize(t))

(* Write of a view takes no more bytes than the view has.                  *)
FitsView(v, n) == n <= v.size

Return(t, answer) ==
  /\ pc' = [pc EXCEPT ![t] = "idle"]
  /\ result' = [result EXCEPT ![t] = answer]

-----------------------------------------------------------------------------

Init ==
  /\ mappable \in Mappables
  /\ memory = [a \in Address |-> Untouched]
  /\ pc = [t \in Threads |-> "idle"]
  /\ req = [t \in Threads |-> [dst |-> 0, len |-> 0]]
  /\ total = [t \in Threads |-> 0]
  /\ mapping = [t \in Threads |-> NoPage]
  /\ view = [t \in Threads |-> NoView]
  /\ stored = [t \in Threads |-> {}]
  /\ result = [t \in Threads |-> Success(0)]
  /\ calls = [t \in Threads |-> 0]

(* A thread calls Write(Destination, Source, Caching). *)
Call(t) ==
  /\ pc[t] = "idle"
  /\ calls[t] < MaxCalls
  /\ \E r \in Requests : req' = [req EXCEPT ![t] = r]
  /\ pc' = [pc EXCEPT ![t] = "start"]
  /\ total' = [total EXCEPT ![t] = 0]
  /\ stored' = [stored EXCEPT ![t] = {}]
  /\ result' = [result EXCEPT ![t] = Pending]
  /\ calls' = [calls EXCEPT ![t] = @ + 1]
  /\ UNCHANGED <<mappable, memory, mapping, view>>

(* What ForEachPhysicalPageFragment settles before the first page.         *)
Start(t) ==
  /\ pc[t] = "start"
  /\ \/ /\ req[t].len = 0
        /\ Return(t, Success(0))
     \/ /\ req[t].len # 0
        /\ ~CanOffset(req[t].dst, req[t].len - 1)
        /\ Return(t, Failure("AddressOverflow", 0, req[t].dst))
     \/ /\ IsRegion(req[t].dst, req[t].len)
        /\ pc' = [pc EXCEPT ![t] = "map"]
        /\ UNCHANGED result
  /\ UNCHANGED <<mappable, memory, req, total, mapping, view, stored, calls>>

(* Mutant: the bytes of the pages before are left out of the error.        *)
FragmentFailedUncounted(t, code, fault) == Failure(code, 0, fault)

(* A fragment's error, with the bytes of the fragments before it added.    *)
FragmentFailed(t, code, fault) == Failure(code, total[t], fault)

(* How a page can be refused: by MemoryRegion::Create, by MmMapIoSpaceEx,  *)
(* or, mapped already, by Subview or by Write of the view, which leave it  *)
(* to be unmapped again.                                                   *)
Refusals(t) ==
  LET page == PageBase(Cursor(t))
  IN IF ~IsRegion(page, PageSize)
     THEN {FragmentFailed(t, "AddressOverflow", page)}
     ELSE {FragmentFailed(t, "MappingFailed", Cursor(t)) : p \in {page} \ mappable}
            \cup (IF ~CanSubview(PageView(page), PageOffset(Cursor(t)), FragmentSize(t))
                  THEN {FragmentFailed(t, "InvalidRange", page)}
                  ELSE IF ~FitsView(FragmentView(t), FragmentSize(t))
                  THEN {FragmentFailed(t, "InvalidRange", FragmentView(t).at)}
                  ELSE {})

PageRefused(t) ==
  /\ pc[t] = "map"
  /\ \E error \in Refusals(t) : Return(t, error)
  /\ UNCHANGED <<mappable, memory, req, total, mapping, view, stored, calls>>

(* The page can be mapped, and the fragment written through a view of it.  *)
CanWriteFragment(t) ==
  LET page == PageBase(Cursor(t))
  IN /\ IsRegion(page, PageSize)
     /\ CanSubview(PageView(page), PageOffset(Cursor(t)), FragmentSize(t))
     /\ FitsView(FragmentView(t), FragmentSize(t))

(* Mutant: the mapping is a temporary, gone once the view has been taken. *)
MapPageForView(t) ==
  /\ pc[t] = "map"
  /\ CanWriteFragment(t)
  /\ view' = [view EXCEPT ![t] = FragmentView(t)]
  /\ pc' = [pc EXCEPT ![t] = "store"]
  /\ UNCHANGED <<mappable, memory, req, total, mapping, stored, result, calls>>

(* The page is mapped, the view of the fragment taken, and Write of the    *)
(* view begins its memcpy.                                                 *)
MapPage(t) ==
  /\ pc[t] = "map"
  /\ CanWriteFragment(t)
  /\ mapping' = [mapping EXCEPT ![t] = PageBase(Cursor(t))]
  /\ view' = [view EXCEPT ![t] = FragmentView(t)]
  /\ pc' = [pc EXCEPT ![t] = "store"]
  /\ UNCHANGED <<mappable, memory, req, total, stored, result, calls>>

(* The bytes of Source.subspan(SourceOffset, Fragment.Size). *)
FragmentBytes(t) == total[t] .. total[t] + FragmentSize(t) - 1

(* Where memcpy puts byte i: as far into the view as it is into the source. *)
StoreAddress(t, i) == view[t].at + (i - total[t])

(* memcpy stores another byte of the fragment through the view. *)
StoreByte(t) ==
  /\ pc[t] = "store"
  /\ \E i \in FragmentBytes(t) \ stored[t] :
       /\ memory' = [memory EXCEPT ![StoreAddress(t, i)] = <<t, i>>]
       /\ stored' = [stored EXCEPT ![t] = @ \cup {i}]
  /\ UNCHANGED <<mappable, pc, req, total, mapping, view, result, calls>>

(* memcpy is done, Write of the view returns, and the views are gone.      *)
EndCopy(t) ==
  /\ pc[t] = "store"
  /\ FragmentBytes(t) \subseteq stored[t]
  /\ view' = [view EXCEPT ![t] = NoView]
  /\ pc' = [pc EXCEPT ![t] = "unmap"]
  /\ UNCHANGED <<mappable, memory, req, total, mapping, stored, result, calls>>

(* The mapping is destroyed as the fragment's operation returns, and the   *)
(* loop goes on to the next page or ends.                                  *)
EndFragment(t) ==
  /\ pc[t] = "unmap"
  /\ mapping' = [mapping EXCEPT ![t] = NoPage]
  /\ total' = [total EXCEPT ![t] = @ + FragmentSize(t)]
  /\ IF FragmentSize(t) = Remaining(t)
     THEN Return(t, Success(total'[t]))
     ELSE pc' = [pc EXCEPT ![t] = "map"] /\ UNCHANGED result
  /\ UNCHANGED <<mappable, memory, req, view, stored, calls>>

(* A step of Write, once it has been called. *)
WriteStep(t) ==
  \/ Start(t) \/ PageRefused(t) \/ MapPage(t)
  \/ StoreByte(t) \/ EndCopy(t) \/ EndFragment(t)

Next == \E t \in Threads : Call(t) \/ WriteStep(t)

SafetySpec == Init /\ [][Next]_vars

\* A thread inside Write keeps running: the kernel calls it makes return.
Spec == SafetySpec /\ \A t \in Threads : WF_vars(WriteStep(t))

-----------------------------------------------------------------------------

TypeOK ==
  /\ mappable \in Mappables
  /\ memory \in [Address -> {Untouched} \cup (Threads \X Nat)]
  /\ pc \in [Threads -> {"idle", "start", "map", "store", "unmap"}]
  /\ req \in [Threads -> [dst : Address, len : Nat]]
  /\ total \in [Threads -> Nat]
  /\ mapping \in [Threads -> Pages \cup {NoPage}]
  /\ view \in [Threads -> [at : Address, size : 0 .. PageSize]]
  /\ stored \in [Threads -> SUBSET Nat]
  /\ result \in [Threads -> Answers]
  /\ calls \in [Threads -> 0 .. MaxCalls]

(***************************************************************************)
(* What holds of a call between any two of its steps.  While it runs, the  *)
(* bytes stored are the first total ones and some of the fragment at hand; *)
(* once answered, they are exactly the ones the answer reports.  Past the  *)
(* first fragment the call stands at the start of a page.  The fragment's  *)
(* page is mapped while it is stored, and no page otherwise.               *)
(***************************************************************************)
CallInvariant(t) ==
  /\ (pc[t] = "idle") <=> (result[t] # Pending)
  /\ pc[t] = "idle" =>
       result[t].bytes <= req[t].len /\ stored[t] = 0 .. result[t].bytes - 1
  /\ pc[t] = "start" => total[t] = 0
  /\ pc[t] \in {"map", "store", "unmap"} =>
       /\ IsRegion(req[t].dst, req[t].len)
       /\ total[t] < req[t].len
       /\ total[t] = 0 \/ PageOffset(Cursor(t)) = 0
  /\ pc[t] \in {"start", "map"} => stored[t] = 0 .. total[t] - 1
  /\ pc[t] = "store" =>
       /\ 0 .. total[t] - 1 \subseteq stored[t]
       /\ stored[t] \subseteq 0 .. total[t] + FragmentSize(t) - 1
  /\ pc[t] = "unmap" => stored[t] = 0 .. total[t] + FragmentSize(t) - 1
  /\ mapping[t] = IF pc[t] \in {"store", "unmap"} THEN PageBase(Cursor(t)) ELSE NoPage
  /\ view[t] = IF pc[t] = "store"
               THEN [at |-> Cursor(t), size |-> FragmentSize(t)] ELSE NoView

WriteInvariant == \A t \in Threads : CallInvariant(t)

Contract == INSTANCE WriteContract WITH
  solid <- mappable, request <- req, outcome <- result

(***************************************************************************)
(* However mappings fail and threads interleave, every call of Write is    *)
(* answered, stores only bytes of its own request, each where it belongs   *)
(* and page after page, and reports exactly the bytes it has stored.       *)
(***************************************************************************)
ImplementsContract == Contract!Spec

(* The addresses t has a view of and mapped.                               *)
MappedBytes(t) ==
  {a \in view[t].at .. view[t].at + view[t].size - 1 : PageBase(a) = mapping[t]}

(* Every byte of a memcpy lands inside the view it was given and inside    *)
(* the page its thread has mapped at that very moment, and nothing else    *)
(* changes memory: no store runs past the fragment or reaches a page whose *)
(* mapping is gone.                                                        *)
StoresStayInMapping ==
  [][/\ \A t \in Threads : \A i \in stored'[t] \ stored[t] :
          \E a \in MappedBytes(t) : memory' = [memory EXCEPT ![a] = <<t, i>>]
     /\ memory' # memory => \E t \in Threads : stored'[t] \ stored[t] # {}]_vars

(* When no call is under way, memory has changed exactly where the answers *)
(* say: each byte some answer reports as written holds a byte that a       *)
(* thread asked to have there, and every other byte is what it was.  (It   *)
(* speaks of threads that make one call each.)                             *)
AnswersTellWhatChanged ==
  (\A t \in Threads : pc[t] = "idle") =>
    \A a \in Address :
      LET writers == {t \in Threads :
                        a \in req[t].dst .. req[t].dst + result[t].bytes - 1}
      IN IF writers = {} THEN memory[a] = Untouched
         ELSE \E t \in writers : memory[a] = <<t, a - req[t].dst>>

=============================================================================
