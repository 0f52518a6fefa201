---------------------- MODULE PhysicalMemoryWriterProofs ----------------------
(***************************************************************************)
(* Proofs about PhysicalMemoryWriter, for any number of threads, any page  *)
(* size, any set of mappable pages and any writes.                         *)
(***************************************************************************)
EXTENDS PhysicalMemoryWriter, PageArithmetic

\* The inductive invariant.
IInv == TypeOK /\ WriteInvariant

-----------------------------------------------------------------------------

\* A fragment is not empty, is asked for, ends with its page at the latest,
\* and ends with it unless it is the last.
LEMMA FragmentBounds ==
  ASSUME NEW t \in Threads, Cursor(t) \in Int, Remaining(t) \in Nat \ {0}
  PROVE  /\ PageOffset(Cursor(t)) \in 0 .. PageSize - 1
         /\ FragmentSize(t) \in 1 .. Remaining(t)
         /\ FragmentSize(t) <= PageSize - PageOffset(Cursor(t))
         /\ FragmentSize(t) # Remaining(t) =>
              FragmentSize(t) = PageSize - PageOffset(Cursor(t))
  <1>1. PageSize \in Nat \ {0}
    BY GeometryAssumption
  <1>2. PageOffset(Cursor(t)) \in 0 .. PageSize - 1
    BY PageBaseProperties
  <1> QED BY <1>1, <1>2 DEF FragmentSize, StdMin

\* A call past its early returns stays in the address space.
LEMMA CallInSpace ==
  ASSUME IInv, NEW t \in Threads, pc[t] \in {"map", "store", "unmap"}
  PROVE  /\ req[t].dst \in Nat /\ req[t].len \in Nat /\ total[t] \in Nat
         /\ Cursor(t) = req[t].dst + total[t] /\ Cursor(t) \in Address
         /\ Remaining(t) = req[t].len - total[t] /\ Remaining(t) \in Nat \ {0}
         /\ \A i \in 0 .. req[t].len - 1 : req[t].dst + i \in Address
  <1>1. MaxAddress \in Nat
    BY GeometryAssumption
  <1>2. req[t].dst \in Address /\ req[t].len \in Nat /\ total[t] \in Nat
    BY DEF IInv, TypeOK
  <1>3. total[t] < req[t].len /\ req[t].len - 1 <= MaxAddress - req[t].dst
    BY DEF IInv, WriteInvariant, CallInvariant, IsRegion, CanOffset
  <1> QED BY <1>1, <1>2, <1>3 DEF Cursor, Remaining, Address

\* What the loop knows when it has a fragment at hand.
LEMMA FragmentInSpace ==
  ASSUME IInv, NEW t \in Threads, pc[t] \in {"map", "store", "unmap"}
  PROVE  /\ PageOffset(Cursor(t)) \in 0 .. PageSize - 1
         /\ PageBase(Cursor(t)) \in Pages
         /\ PageBase(Cursor(t)) + PageOffset(Cursor(t)) = Cursor(t)
         /\ FragmentSize(t) \in 1 .. Remaining(t)
         /\ FragmentSize(t) <= PageSize - PageOffset(Cursor(t))
         /\ FragmentSize(t) # Remaining(t) =>
              FragmentSize(t) = PageSize - PageOffset(Cursor(t))
         /\ IsRegion(PageBase(Cursor(t)), PageSize)
         /\ CanSubview(PageView(PageBase(Cursor(t))), PageOffset(Cursor(t)), FragmentSize(t))
         /\ FragmentView(t) = [at |-> Cursor(t), size |-> FragmentSize(t)]
         /\ FitsView(FragmentView(t), FragmentSize(t))
  <1>1. PageSize \in Nat \ {0} /\ MaxAddress \in Nat
    BY GeometryAssumption
  <1>2. Cursor(t) \in Address /\ Cursor(t) \in Int /\ Remaining(t) \in Nat \ {0}
    BY <1>1, CallInSpace DEF Address
  <1>3. /\ PageOffset(Cursor(t)) \in 0 .. PageSize - 1
        /\ FragmentSize(t) \in 1 .. Remaining(t)
        /\ FragmentSize(t) <= PageSize - PageOffset(Cursor(t))
        /\ FragmentSize(t) # Remaining(t) =>
             FragmentSize(t) = PageSize - PageOffset(Cursor(t))
    BY <1>2, FragmentBounds
  <1>4. PageBase(Cursor(t)) \in Int /\ Cursor(t) = PageBase(Cursor(t)) + PageOffset(Cursor(t))
    BY <1>2, PageBaseProperties
  <1>5. /\ PageBase(Cursor(t)) \in Pages
        /\ PageBase(Cursor(t)) + PageSize - 1 <= MaxAddress
    BY <1>2, PageInSpace
  <1>6. IsRegion(PageBase(Cursor(t)), PageSize)
    BY <1>1, <1>4, <1>5 DEF IsRegion, CanOffset
  <1>7. CanSubview(PageView(PageBase(Cursor(t))), PageOffset(Cursor(t)), FragmentSize(t))
    BY <1>1, <1>3 DEF CanSubview, PageView
  <1>8. FragmentView(t) = [at |-> Cursor(t), size |-> FragmentSize(t)]
    BY <1>4 DEF FragmentView, Subview, PageView
  <1>9. FitsView(FragmentView(t), FragmentSize(t))
    BY <1>3, <1>8 DEF FitsView
  <1> QED BY <1>3, <1>4, <1>5, <1>6, <1>7, <1>8, <1>9

\* Success and Failure are answers, and neither is Pending.
LEMMA AnswersAreAnswers ==
  ASSUME NEW n \in Nat, NEW a \in Address, NEW c \in ErrorCodes
  PROVE  /\ Success(n) \in Answers /\ Success(n) # Pending /\ Success(n).bytes = n
         /\ Failure(c, n, a) \in Answers /\ Failure(c, n, a) # Pending
         /\ Failure(c, n, a).bytes = n
         /\ Pending \in Answers
  <1>1. 0 \in Address /\ 0 \in Nat
    BY GeometryAssumption DEF Address
  <1>2. Success(n).code # Pending.code /\ Failure(c, n, a).code # Pending.code
    BY DEF Success, Failure, Pending, ErrorCodes
  <1> QED BY <1>1, <1>2 DEF Success, Failure, Pending, Answers, ErrorCodes

\* Steps that leave a thread's state alone leave what holds of it alone.
LEMMA OthersUndisturbed ==
  ASSUME NEW u \in Threads, CallInvariant(u),
         pc'[u] = pc[u], req'[u] = req[u], total'[u] = total[u],
         mapping'[u] = mapping[u], view'[u] = view[u],
         stored'[u] = stored[u], result'[u] = result[u]
  PROVE  CallInvariant(u)'
  BY DEF CallInvariant, Cursor, Remaining, FragmentSize

Labels == {"idle", "start", "map", "store", "unmap"}

\* Return keeps the types of what it changes.
LEMMA ReturnTyped ==
  ASSUME TypeOK, NEW t \in Threads, NEW answer \in Answers, Return(t, answer)
  PROVE  /\ pc' \in [Threads -> Labels] /\ result' \in [Threads -> Answers]
         /\ pc'[t] = "idle" /\ result'[t] = answer
         /\ \A u \in Threads \ {t} : pc'[u] = pc[u] /\ result'[u] = result[u]
  BY DEF TypeOK, Return, Labels

\* The address 0 is one, and a number.
LEMMA ZeroIsAddress == 0 \in Address /\ 0 \in Nat
  BY GeometryAssumption DEF Address

\* The invariant holds in every initial state.
LEMMA InitInvariant == Init => IInv
  <1> SUFFICES ASSUME Init PROVE IInv
    OBVIOUS
  <1>1. Success(0) \in Answers /\ Success(0) # Pending /\ Success(0).bytes = 0
    BY ZeroIsAddress DEF Success, Answers, Pending
  <1>2. 0 .. 0 - 1 = {} /\ 0 <= 0
    OBVIOUS
  <1>3. NoView \in [at : Address, size : 0 .. PageSize]
    BY ZeroIsAddress, GeometryAssumption DEF NoView
  <1>4. TypeOK
    BY <1>1, <1>3, ZeroIsAddress, WriterAssumption DEF Init, TypeOK
  <1>5. WriteInvariant
    BY <1>1, <1>2 DEF Init, WriteInvariant, CallInvariant
  <1> QED BY <1>4, <1>5 DEF IInv

\* Call keeps the invariant.
LEMMA CallKeeps ==
  ASSUME IInv, NEW t \in Threads, Call(t)
  PROVE  IInv'
  <1> USE DEF IInv
  <1>1. PICK r \in Requests : req' = [req EXCEPT ![t] = r]
    BY DEF Call
  <1>2. r \in [dst : Address, len : Nat]
    BY WriterAssumption
  <1>3. Pending \in Answers
    BY ZeroIsAddress DEF Pending, Answers
  <1>4. TypeOK'
    <2>1. req' \in [Threads -> [dst : Address, len : Nat]]
      BY <1>1, <1>2 DEF TypeOK
    <2>2. calls' \in [Threads -> 0 .. MaxCalls]
      BY WriterAssumption DEF TypeOK, Call
    <2> QED BY <1>3, <2>1, <2>2 DEF TypeOK, Call
  <1>5. CallInvariant(t)'
    <2>1. /\ pc'[t] = "start" /\ total'[t] = 0 /\ stored'[t] = {}
          /\ result'[t] = Pending /\ mapping'[t] = NoPage /\ view'[t] = NoView
      BY DEF TypeOK, Call, WriteInvariant, CallInvariant
    <2>2. 0 .. 0 - 1 = {}
      OBVIOUS
    <2> QED BY <2>1, <2>2 DEF CallInvariant
  <1>6. \A u \in Threads \ {t} : CallInvariant(u)'
    BY <1>1, OthersUndisturbed DEF TypeOK, Call, WriteInvariant
  <1> QED BY <1>4, <1>5, <1>6 DEF WriteInvariant

\* Start keeps the invariant.
LEMMA StartKeeps ==
  ASSUME IInv, NEW t \in Threads, Start(t)
  PROVE  IInv'
  <1> USE DEF IInv
  <1>1. req[t].dst \in Address /\ req[t].len \in Nat /\ pc[t] = "start"
    BY DEF TypeOK, Start
  <1>2. /\ total[t] = 0 /\ mapping[t] = NoPage /\ view[t] = NoView /\ result[t] = Pending
        /\ stored[t] = 0 .. 0 - 1
    BY <1>1 DEF WriteInvariant, CallInvariant
  <1>3. /\ Success(0) \in Answers /\ Success(0) # Pending /\ Success(0).bytes = 0
        /\ Failure("AddressOverflow", 0, req[t].dst) \in Answers
        /\ Failure("AddressOverflow", 0, req[t].dst) # Pending
        /\ Failure("AddressOverflow", 0, req[t].dst).bytes = 0
    BY <1>1, ZeroIsAddress, AnswersAreAnswers DEF ErrorCodes
  <1>4. PICK answer \in {Success(0), Failure("AddressOverflow", 0, req[t].dst)} :
          \/ Return(t, answer)
          \/ /\ IsRegion(req[t].dst, req[t].len)
             /\ pc' = [pc EXCEPT ![t] = "map"] /\ UNCHANGED result
    BY DEF Start
  <1>5. answer \in Answers /\ answer # Pending /\ answer.bytes = 0
    BY <1>3
  <1>6. \/ /\ pc'[t] = "idle" /\ result'[t] = answer
        \/ /\ pc'[t] = "map" /\ result'[t] = Pending
           /\ IsRegion(req[t].dst, req[t].len)
    BY <1>2, <1>4 DEF TypeOK, Return
  <1>7. /\ pc' \in [Threads -> Labels] /\ result' \in [Threads -> Answers]
        /\ \A u \in Threads \ {t} : pc'[u] = pc[u] /\ result'[u] = result[u]
    <2>1. CASE Return(t, answer)
      BY <1>5, <2>1, ReturnTyped
    <2>2. CASE pc' = [pc EXCEPT ![t] = "map"] /\ UNCHANGED result
      BY <2>2 DEF TypeOK, Labels
    <2> QED BY <1>4, <2>1, <2>2
  <1>8. UNCHANGED <<mappable, memory, req, total, mapping, view, stored, calls>>
    BY DEF Start
  <1>9. TypeOK'
    BY <1>7, <1>8 DEF TypeOK, Labels
  <1>10. CallInvariant(t)'
    <2>1. CASE pc'[t] = "idle" /\ result'[t] = answer
      <3>1. result'[t].bytes = 0 /\ result'[t] # Pending
        BY <1>5, <2>1
      <3>2. 0 <= req[t].len
        BY <1>1
      <3> QED BY <1>2, <1>8, <2>1, <3>1, <3>2 DEF CallInvariant
    <2>2. CASE pc'[t] = "map" /\ result'[t] = Pending /\ IsRegion(req[t].dst, req[t].len)
      <3>1. req[t].len # 0 /\ 0 < req[t].len
        BY <1>1, <2>2 DEF IsRegion
      <3> QED BY <1>1, <1>2, <1>8, <2>2, <3>1 DEF CallInvariant
    <2> QED BY <1>6, <2>1, <2>2
  <1>11. \A u \in Threads \ {t} : CallInvariant(u)'
    BY <1>7, <1>8, OthersUndisturbed DEF WriteInvariant
  <1> QED BY <1>9, <1>10, <1>11 DEF WriteInvariant

\* A page is refused only because it cannot be mapped.
LEMMA RefusedToMap ==
  ASSUME IInv, NEW t \in Threads, PageRefused(t)
  PROVE  /\ PageBase(Cursor(t)) \notin mappable
         /\ Return(t, Failure("MappingFailed", total[t], Cursor(t)))
  <1>1. pc[t] = "map"
    BY DEF PageRefused
  <1>2. /\ IsRegion(PageBase(Cursor(t)), PageSize)
        /\ CanSubview(PageView(PageBase(Cursor(t))), PageOffset(Cursor(t)), FragmentSize(t))
        /\ FitsView(FragmentView(t), FragmentSize(t))
    BY <1>1, FragmentInSpace
  <1>3. Refusals(t) = {Failure("MappingFailed", total[t], Cursor(t)) :
                         p \in {PageBase(Cursor(t))} \ mappable}
    BY <1>2 DEF Refusals, FragmentFailed
  <1> QED BY <1>3 DEF PageRefused

\* PageRefused keeps the invariant.
LEMMA PageRefusedKeeps ==
  ASSUME IInv, NEW t \in Threads, PageRefused(t)
  PROVE  IInv'
  <1> DEFINE answer == Failure("MappingFailed", total[t], Cursor(t))
  <1>1. pc[t] = "map" /\ UNCHANGED <<mappable, memory, req, total, mapping, view, stored, calls>>
    BY DEF PageRefused
  <1>2. Return(t, answer)
    BY RefusedToMap
  <1>3. /\ Cursor(t) \in Address /\ total[t] \in Nat /\ req[t].len \in Nat
        /\ total[t] < req[t].len /\ stored[t] = 0 .. total[t] - 1
    BY <1>1, CallInSpace DEF IInv, WriteInvariant, CallInvariant
  <1>4. answer \in Answers /\ answer # Pending /\ answer.bytes = total[t]
    BY <1>3, AnswersAreAnswers DEF ErrorCodes
  <1> HIDE DEF answer
  <1>5. /\ pc' \in [Threads -> Labels] /\ result' \in [Threads -> Answers]
        /\ pc'[t] = "idle" /\ result'[t] = answer
        /\ \A u \in Threads \ {t} : pc'[u] = pc[u] /\ result'[u] = result[u]
    BY <1>2, <1>4, ReturnTyped DEF IInv
  <1>6. TypeOK'
    BY <1>1, <1>5 DEF IInv, TypeOK, Labels
  <1>7. CallInvariant(t)'
    <2>1. mapping[t] = NoPage /\ view[t] = NoView
      BY <1>1 DEF IInv, WriteInvariant, CallInvariant
    <2> QED BY <1>1, <1>3, <1>4, <1>5, <2>1 DEF CallInvariant
  <1>8. \A u \in Threads \ {t} : CallInvariant(u)'
    BY <1>1, <1>5, OthersUndisturbed DEF IInv, WriteInvariant
  <1> QED BY <1>6, <1>7, <1>8 DEF IInv, WriteInvariant

\* MapPage keeps the invariant.
LEMMA MapPageKeeps ==
  ASSUME IInv, NEW t \in Threads, MapPage(t)
  PROVE  IInv'
  <1>1. pc[t] = "map" /\ UNCHANGED <<mappable, memory, req, total, stored, result, calls>>
    BY DEF MapPage
  <1>2. /\ Cursor(t) \in Address /\ PageBase(Cursor(t)) \in Pages
        /\ PageBase(Cursor(t)) + PageOffset(Cursor(t)) = Cursor(t)
        /\ PageOffset(Cursor(t)) \in 0 .. PageSize - 1
        /\ FragmentSize(t) \in 1 .. Remaining(t) /\ Remaining(t) \in Nat
        /\ FragmentSize(t) <= PageSize - PageOffset(Cursor(t))
        /\ total[t] \in Nat
    BY <1>1, CallInSpace, FragmentInSpace
  <1>3. FragmentView(t) = [at |-> Cursor(t), size |-> FragmentSize(t)]
    BY <1>1, FragmentInSpace
  <1>4. FragmentSize(t) \in 0 .. PageSize
    BY <1>2, GeometryAssumption
  <1>5. /\ pc'[t] = "store" /\ mapping'[t] = PageBase(Cursor(t))
        /\ view'[t] = [at |-> Cursor(t), size |-> FragmentSize(t)]
        /\ \A u \in Threads \ {t} :
             pc'[u] = pc[u] /\ mapping'[u] = mapping[u] /\ view'[u] = view[u]
    BY <1>3 DEF MapPage, IInv, TypeOK
  <1>6. TypeOK'
    <2>1. view' \in [Threads -> [at : Address, size : 0 .. PageSize]]
      BY <1>2, <1>3, <1>4 DEF MapPage, IInv, TypeOK
    <2>2. /\ mapping' \in [Threads -> Pages \cup {NoPage}]
          /\ pc' \in [Threads -> Labels]
      BY <1>2 DEF MapPage, IInv, TypeOK, Labels
    <2> QED BY <1>1, <2>1, <2>2 DEF IInv, TypeOK, Labels
  <1>7. CallInvariant(t)'
    <2>1. CallInvariant(t)
      BY DEF IInv, WriteInvariant
    <2>2. /\ stored[t] = 0 .. total[t] - 1
          /\ IsRegion(req[t].dst, req[t].len) /\ total[t] < req[t].len
          /\ total[t] = 0 \/ PageOffset(Cursor(t)) = 0
          /\ result[t] = result'[t] /\ result[t] # Pending <=> FALSE
      BY <1>1, <2>1 DEF CallInvariant
    <2>3. stored[t] \subseteq 0 .. total[t] + FragmentSize(t) - 1
      BY <1>2, <2>2
    <2>4. (Cursor(t))' = Cursor(t) /\ (FragmentSize(t))' = FragmentSize(t)
      BY <1>1 DEF Cursor, FragmentSize, Remaining
    <2> QED BY <1>1, <1>5, <2>2, <2>3, <2>4 DEF CallInvariant
  <1>8. \A u \in Threads \ {t} : CallInvariant(u)'
    BY <1>1, <1>5, OthersUndisturbed DEF IInv, WriteInvariant
  <1> QED BY <1>6, <1>7, <1>8 DEF IInv, WriteInvariant

\* The next byte goes where it belongs, inside the page that is mapped.
LEMMA BytePlace ==
  ASSUME IInv, NEW t \in Threads, pc[t] = "store", NEW i \in FragmentBytes(t)
  PROVE  /\ StoreAddress(t, i) = req[t].dst + i
         /\ req[t].dst + i \in Address
         /\ i \in Nat /\ i < req[t].len /\ i >= total[t]
  <1>1. /\ req[t].dst \in Nat /\ req[t].len \in Nat /\ total[t] \in Nat
        /\ Cursor(t) = req[t].dst + total[t]
        /\ Remaining(t) = req[t].len - total[t]
        /\ \A k \in 0 .. req[t].len - 1 : req[t].dst + k \in Address
    BY CallInSpace
  <1>2. FragmentSize(t) \in 1 .. Remaining(t)
    BY FragmentInSpace
  <1>3. i \in total[t] .. total[t] + FragmentSize(t) - 1
    BY DEF FragmentBytes
  <1>4. view[t] = [at |-> Cursor(t), size |-> FragmentSize(t)]
    BY DEF IInv, WriteInvariant, CallInvariant
  <1>5. view[t].at = Cursor(t)
    BY <1>4
  <1> QED BY <1>1, <1>2, <1>3, <1>5 DEF StoreAddress

\* It lies in the view of the fragment, and in the page that is mapped.
LEMMA StoredWithin ==
  ASSUME IInv, NEW t \in Threads, pc[t] = "store", NEW i \in FragmentBytes(t)
  PROVE  req[t].dst + i \in MappedBytes(t)
  <1>1. /\ req[t].dst \in Nat /\ total[t] \in Nat /\ Cursor(t) = req[t].dst + total[t]
        /\ Remaining(t) \in Nat
    BY CallInSpace
  <1>2. /\ FragmentSize(t) \in 1 .. Remaining(t)
        /\ FragmentSize(t) <= PageSize - PageOffset(Cursor(t))
        /\ PageOffset(Cursor(t)) \in 0 .. PageSize - 1
    BY FragmentInSpace
  <1>3. view[t] = [at |-> Cursor(t), size |-> FragmentSize(t)]
        /\ mapping[t] = PageBase(Cursor(t))
    BY DEF IInv, WriteInvariant, CallInvariant
  <1> PICK k : k = i - total[t]
    OBVIOUS
  <1>4. k \in 0 .. FragmentSize(t) - 1 /\ Cursor(t) + k = req[t].dst + i
    <2>1. i \in total[t] .. total[t] + FragmentSize(t) - 1
      BY DEF FragmentBytes
    <2> QED BY <1>1, <1>2, <2>1
  <1>5. Cursor(t) \in Int /\ k \in Int /\ PageSize \in Nat
    BY <1>1, <1>2, <1>4, GeometryAssumption
  <1>6. PageBase(Cursor(t) + k) = PageBase(Cursor(t))
    BY <1>2, <1>4, <1>5, SamePage
  <1>7. Cursor(t) + k \in view[t].at .. view[t].at + view[t].size - 1
    BY <1>2, <1>3, <1>4, <1>5
  <1> QED BY <1>3, <1>4, <1>6, <1>7 DEF MappedBytes

\* What memcpy does to memory.
LEMMA StoreStores ==
  ASSUME IInv, NEW t \in Threads, StoreByte(t)
  PROVE  \E i \in FragmentBytes(t) \ stored[t] :
           /\ memory' = [memory EXCEPT ![req[t].dst + i] = <<t, i>>]
           /\ stored' = [stored EXCEPT ![t] = @ \cup {i}]
  <1>1. PICK i \in FragmentBytes(t) \ stored[t] :
          /\ memory' = [memory EXCEPT ![StoreAddress(t, i)] = <<t, i>>]
          /\ stored' = [stored EXCEPT ![t] = @ \cup {i}]
    BY DEF StoreByte
  <1>2. StoreAddress(t, i) = req[t].dst + i
    BY BytePlace DEF StoreByte
  <1> QED BY <1>1, <1>2

\* StoreByte keeps the invariant.
LEMMA StoreByteKeeps ==
  ASSUME IInv, NEW t \in Threads, StoreByte(t)
  PROVE  IInv'
  <1>1. /\ pc[t] = "store"
        /\ UNCHANGED <<mappable, pc, req, total, mapping, view, result, calls>>
    BY DEF StoreByte
  <1>2. PICK i \in FragmentBytes(t) \ stored[t] :
          /\ memory' = [memory EXCEPT ![req[t].dst + i] = <<t, i>>]
          /\ stored' = [stored EXCEPT ![t] = @ \cup {i}]
    BY StoreStores
  <1>3. req[t].dst + i \in Address /\ i \in Nat /\ total[t] \in Nat /\ i >= total[t]
    BY <1>1, BytePlace, CallInSpace
  <1>4. stored'[t] = stored[t] \cup {i}
    BY <1>2 DEF IInv, TypeOK
  <1>5. TypeOK'
    <2>1. memory' \in [Address -> {Untouched} \cup (Threads \X Nat)]
      BY <1>2, <1>3 DEF IInv, TypeOK
    <2>2. stored' \in [Threads -> SUBSET Nat]
      BY <1>2, <1>3 DEF IInv, TypeOK
    <2> QED BY <1>1, <2>1, <2>2 DEF IInv, TypeOK
  <1>6. CallInvariant(t)'
    <2>1. CallInvariant(t)
      BY DEF IInv, WriteInvariant
    <2>2. /\ 0 .. total[t] - 1 \subseteq stored'[t]
          /\ stored'[t] \subseteq 0 .. total[t] + FragmentSize(t) - 1
      <3>1. i \in total[t] .. total[t] + FragmentSize(t) - 1
        BY DEF FragmentBytes
      <3>2. FragmentSize(t) \in Int
        BY <1>1, CallInSpace, FragmentInSpace
      <3>3. i \in 0 .. total[t] + FragmentSize(t) - 1
        BY <1>3, <3>1, <3>2
      <3> QED BY <1>1, <1>4, <2>1, <3>3 DEF CallInvariant
    <2>3. (Cursor(t))' = Cursor(t) /\ (FragmentSize(t))' = FragmentSize(t)
      BY <1>1 DEF Cursor, FragmentSize, Remaining
    <2> QED BY <1>1, <2>1, <2>2, <2>3 DEF CallInvariant
  <1>7. \A u \in Threads \ {t} : CallInvariant(u)'
    BY <1>1, <1>2, OthersUndisturbed DEF IInv, TypeOK, WriteInvariant
  <1> QED BY <1>5, <1>6, <1>7 DEF IInv, WriteInvariant

\* EndCopy keeps the invariant: the bytes up to the fragment's end are stored.
LEMMA EndCopyKeeps ==
  ASSUME IInv, NEW t \in Threads, EndCopy(t)
  PROVE  IInv'
  <1>1. /\ pc[t] = "store"
        /\ UNCHANGED <<mappable, memory, req, total, mapping, stored, result, calls>>
    BY DEF EndCopy
  <1>2. stored[t] = 0 .. total[t] + FragmentSize(t) - 1
    <2>1. total[t] \in Nat /\ FragmentSize(t) \in Nat \ {0}
      BY <1>1, CallInSpace, FragmentInSpace
    <2>2. /\ 0 .. total[t] - 1 \subseteq stored[t]
          /\ stored[t] \subseteq 0 .. total[t] + FragmentSize(t) - 1
      BY <1>1 DEF IInv, WriteInvariant, CallInvariant
    <2>3. total[t] .. total[t] + FragmentSize(t) - 1 \subseteq stored[t]
      BY DEF EndCopy, FragmentBytes
    <2>4. 0 .. total[t] + FragmentSize(t) - 1 =
            (0 .. total[t] - 1) \cup (total[t] .. total[t] + FragmentSize(t) - 1)
      BY <2>1
    <2> QED BY <2>2, <2>3, <2>4
  <1>3. /\ pc'[t] = "unmap" /\ view'[t] = NoView
        /\ \A u \in Threads \ {t} : pc'[u] = pc[u] /\ view'[u] = view[u]
    BY DEF EndCopy, IInv, TypeOK
  <1>4. TypeOK'
    <2>1. NoView \in [at : Address, size : 0 .. PageSize]
      BY ZeroIsAddress, GeometryAssumption DEF NoView
    <2>2. /\ view' \in [Threads -> [at : Address, size : 0 .. PageSize]]
          /\ pc' \in [Threads -> Labels]
      BY <2>1 DEF EndCopy, IInv, TypeOK, Labels
    <2> QED BY <1>1, <2>2 DEF IInv, TypeOK, Labels
  <1>5. CallInvariant(t)'
    <2>1. CallInvariant(t)
      BY DEF IInv, WriteInvariant
    <2>2. (Cursor(t))' = Cursor(t) /\ (FragmentSize(t))' = FragmentSize(t)
      BY <1>1 DEF Cursor, FragmentSize, Remaining
    <2> QED BY <1>1, <1>2, <1>3, <2>1, <2>2 DEF CallInvariant
  <1>6. \A u \in Threads \ {t} : CallInvariant(u)'
    BY <1>1, <1>3, OthersUndisturbed DEF IInv, WriteInvariant
  <1> QED BY <1>4, <1>5, <1>6 DEF IInv, WriteInvariant

\* A call that goes on after a fragment does so at the start of a page.
LEMMA EndFragmentEnds ==
  ASSUME IInv, NEW t \in Threads, EndFragment(t)
  PROVE  /\ total'[t] = total[t] + FragmentSize(t)
         /\ total[t] + FragmentSize(t) \in Nat
         /\ FragmentSize(t) = Remaining(t) => total[t] + FragmentSize(t) = req[t].len
         /\ FragmentSize(t) # Remaining(t) =>
              /\ total[t] + FragmentSize(t) < req[t].len
              /\ PageOffset(req[t].dst + (total[t] + FragmentSize(t))) = 0
  <1>1. pc[t] = "unmap"
    BY DEF EndFragment
  <1>2. /\ req[t].dst \in Nat /\ req[t].len \in Nat /\ total[t] \in Nat
        /\ Cursor(t) = req[t].dst + total[t]
        /\ Remaining(t) = req[t].len - total[t]
    BY <1>1, CallInSpace
  <1>3. /\ FragmentSize(t) \in 1 .. Remaining(t)
        /\ FragmentSize(t) # Remaining(t) =>
             FragmentSize(t) = PageSize - PageOffset(Cursor(t))
    BY <1>1, FragmentInSpace
  <1>4. total'[t] = total[t] + FragmentSize(t)
    BY DEF EndFragment, IInv, TypeOK
  <1>5. ASSUME FragmentSize(t) # Remaining(t)
        PROVE  PageOffset(req[t].dst + (total[t] + FragmentSize(t))) = 0
    <2>1. Cursor(t) \in Int
      BY <1>2
    <2>2. (Cursor(t) + (PageSize - PageOffset(Cursor(t)))) % PageSize = 0
      BY <2>1, NextPageStart
    <2>3. Cursor(t) + FragmentSize(t) = req[t].dst + (total[t] + FragmentSize(t))
      BY <1>2, <1>3
    <2>4. (Cursor(t) + FragmentSize(t)) % PageSize = 0
      BY <1>3, <1>5, <2>2
    <2> QED BY <2>3, <2>4 DEF PageOffset
  <1> QED BY <1>2, <1>3, <1>4, <1>5

\* EndFragment keeps the invariant.
LEMMA EndFragmentKeeps ==
  ASSUME IInv, NEW t \in Threads, EndFragment(t)
  PROVE  IInv'
  <1> DEFINE done == total[t] + FragmentSize(t)
             last == FragmentSize(t) = Remaining(t)
  <1>1. /\ pc[t] = "unmap" /\ UNCHANGED <<mappable, memory, req, view, stored, calls>>
        /\ req[t].len \in Nat
    BY DEF EndFragment, IInv, TypeOK
  <1>2. /\ stored[t] = 0 .. done - 1 /\ total'[t] = done /\ done \in Nat
        /\ last => done = req[t].len
        /\ ~last => done < req[t].len /\ PageOffset(req[t].dst + done) = 0
    <2>1. total'[t] = done
      BY EndFragmentEnds
    <2>4. stored[t] = 0 .. done - 1
      <3>1. stored[t] = 0 .. total[t] + FragmentSize(t) - 1
        BY DEF EndFragment, IInv, WriteInvariant, CallInvariant
      <3>2. total[t] \in Int /\ FragmentSize(t) \in Int
        BY CallInSpace, FragmentInSpace DEF EndFragment
      <3> QED BY <3>1, <3>2
    <2>5. done \in Nat
      BY EndFragmentEnds
    <2>2. last => done = req[t].len
      BY EndFragmentEnds
    <2>3. ASSUME ~last PROVE done < req[t].len /\ PageOffset(req[t].dst + done) = 0
      BY <2>3, EndFragmentEnds
    <2> QED BY <2>1, <2>2, <2>3, <2>4, <2>5
  <1>3. /\ total' = [total EXCEPT ![t] = done]
        /\ mapping' = [mapping EXCEPT ![t] = NoPage]
        /\ IF last THEN Return(t, Success(done))
           ELSE pc' = [pc EXCEPT ![t] = "map"] /\ UNCHANGED result
    BY <1>2 DEF EndFragment
  <1> HIDE DEF done, last
  <1>4. Success(done) \in Answers /\ Success(done) # Pending /\ Success(done).bytes = done
    BY <1>2, ZeroIsAddress, AnswersAreAnswers DEF ErrorCodes
  <1>5. /\ IsRegion(req[t].dst, req[t].len) /\ result[t] = Pending
    BY <1>1 DEF IInv, WriteInvariant, CallInvariant
  <1>6. /\ pc' \in [Threads -> Labels] /\ result' \in [Threads -> Answers]
        /\ \A u \in Threads \ {t} : pc'[u] = pc[u] /\ result'[u] = result[u]
        /\ last => pc'[t] = "idle" /\ result'[t] = Success(done)
        /\ ~last => pc'[t] = "map" /\ result'[t] = Pending
    <2>1. CASE last
      BY <1>3, <1>4, <2>1, ReturnTyped DEF IInv
    <2>2. CASE ~last
      BY <1>3, <1>5, <2>2 DEF IInv, TypeOK, Labels
    <2> QED BY <2>1, <2>2
  <1>7. view[t] = NoView
    BY <1>1 DEF IInv, WriteInvariant, CallInvariant
  <1>8. /\ mapping'[t] = NoPage /\ view'[t] = NoView
        /\ \A u \in Threads \ {t} : /\ total'[u] = total[u]
                                   /\ mapping'[u] = mapping[u] /\ view'[u] = view[u]
    BY <1>1, <1>3, <1>7 DEF IInv, TypeOK
  <1>9. TypeOK'
    <2>1. total' \in [Threads -> Nat]
      BY <1>2, <1>3 DEF IInv, TypeOK
    <2>2. mapping' \in [Threads -> Pages \cup {NoPage}]
      BY <1>3 DEF IInv, TypeOK
    <2> QED BY <1>1, <1>6, <2>1, <2>2 DEF IInv, TypeOK, Labels
  <1>10. CallInvariant(t)'
    <2>1. CASE last
      <3>1. result'[t].bytes = done /\ result'[t] # Pending /\ done <= req[t].len
        BY <1>1, <1>2, <1>4, <1>6, <2>1
      <3> QED BY <1>1, <1>2, <1>6, <1>8, <2>1, <3>1 DEF CallInvariant
    <2>2. CASE ~last
      <3>1. (Cursor(t))' = req[t].dst + done
        BY <1>1, <1>2 DEF Cursor
      <3>2. PageOffset((Cursor(t))') = 0
        BY <1>2, <2>2, <3>1
      <3> QED BY <1>1, <1>2, <1>5, <1>6, <1>8, <2>2, <3>2
              DEF CallInvariant, IsRegion, CanOffset, PageOffset
    <2> QED BY <2>1, <2>2
  <1>11. \A u \in Threads \ {t} : CallInvariant(u)'
    BY <1>1, <1>6, <1>8, OthersUndisturbed DEF IInv, WriteInvariant
  <1> QED BY <1>9, <1>10, <1>11 DEF IInv, WriteInvariant

\* Every step keeps the invariant.
LEMMA StepInvariant == IInv /\ [Next]_vars => IInv'
  <1> SUFFICES ASSUME IInv, [Next]_vars PROVE IInv'
    OBVIOUS
  <1>1. ASSUME NEW t \in Threads, Call(t) \/ WriteStep(t) PROVE IInv'
    BY <1>1, CallKeeps, StartKeeps, PageRefusedKeeps, MapPageKeeps, StoreByteKeeps,
       EndCopyKeeps, EndFragmentKeeps DEF WriteStep
  <1>2. CASE UNCHANGED vars
    <2>1. \A t \in Threads : CallInvariant(t)'
      BY <1>2, OthersUndisturbed DEF vars, call, IInv, WriteInvariant
    <2> QED BY <1>2, <2>1 DEF vars, call, IInv, TypeOK, WriteInvariant
  <1> QED BY <1>1, <1>2 DEF Next

\* So it holds throughout.
LEMMA InvariantHolds == SafetySpec => []IInv
  BY InitInvariant, StepInvariant, PTL DEF SafetySpec

-----------------------------------------------------------------------------

\* The writer's state keeps its types, memory and views included: every store
\* of every thread lands in the address space.
THEOREM TypeCorrect == SafetySpec => []TypeOK
  <1>1. IInv => TypeOK
    BY DEF IInv
  <1> QED BY <1>1, InvariantHolds, PTL

\* Between any two steps of a call, what has been stored is what the loop's
\* total and the fragment at hand say, and, answered, what the answer says.
THEOREM WritesAreInOrder == SafetySpec => []WriteInvariant
  <1>1. IInv => WriteInvariant
    BY DEF IInv
  <1> QED BY <1>1, InvariantHolds, PTL

\* Every byte stored lands in the view its thread was given and in the page its
\* thread has mapped at that moment, and nothing else changes memory.
THEOREM StoresStay == SafetySpec => StoresStayInMapping
  <1> DEFINE Kept ==
        /\ \A t \in Threads : \A i \in stored'[t] \ stored[t] :
             \E a \in MappedBytes(t) : memory' = [memory EXCEPT ![a] = <<t, i>>]
        /\ memory' # memory => \E t \in Threads : stored'[t] \ stored[t] # {}
  <1>1. ASSUME IInv, NEW t \in Threads, StoreByte(t) PROVE Kept
    <2>1. PICK i \in FragmentBytes(t) \ stored[t] :
            /\ memory' = [memory EXCEPT ![req[t].dst + i] = <<t, i>>]
            /\ stored' = [stored EXCEPT ![t] = @ \cup {i}]
      BY <1>1, StoreStores
    <2>2. stored'[t] \ stored[t] = {i} /\ \A u \in Threads \ {t} : stored'[u] = stored[u]
      BY <1>1, <2>1 DEF IInv, TypeOK
    <2>3. req[t].dst + i \in MappedBytes(t)
      BY <1>1, StoredWithin DEF StoreByte
    <2> QED BY <2>1, <2>2, <2>3
  <1>2. ASSUME IInv, NEW t \in Threads, Call(t) \/ (WriteStep(t) /\ ~StoreByte(t)) PROVE Kept
    <2>1. memory' = memory /\ (stored' = stored \/ stored' = [stored EXCEPT ![t] = {}])
      BY <1>2 DEF Call, WriteStep, Start, PageRefused, MapPage, EndCopy, EndFragment
    <2>2. \A u \in Threads : stored'[u] \ stored[u] = {}
      BY <1>2, <2>1 DEF IInv, TypeOK
    <2> QED BY <2>1, <2>2
  <1>3. IInv /\ [Next]_vars => [Kept]_vars
    <2> HIDE DEF Kept
    <2> QED BY <1>1, <1>2 DEF Next
  <1> QED BY <1>3, InvariantHolds, PTL DEF SafetySpec, StoresStayInMapping

-----------------------------------------------------------------------------

\* A call begins a write.
LEMMA CallBegins ==
  ASSUME IInv, NEW t \in Threads, Call(t)
  PROVE  Contract!Begin(t)
  <1>1. result[t] # Pending
    BY DEF IInv, WriteInvariant, CallInvariant, Call
  <1> QED BY <1>1 DEF Call, Contract!Begin, Contract!Pending, Pending

\* A store is one the contract allows: the byte is of the first page that is
\* not wholly written, since the bytes left are those after the last fragment.
LEMMA StoreByteStores ==
  ASSUME IInv, NEW t \in Threads, StoreByte(t)
  PROVE  Contract!Store(t)
  <1>1. /\ pc[t] = "store" /\ UNCHANGED <<mappable, req, result>>
    BY DEF StoreByte
  <1>2. PICK i \in FragmentBytes(t) \ stored[t] :
          /\ memory' = [memory EXCEPT ![req[t].dst + i] = <<t, i>>]
          /\ stored' = [stored EXCEPT ![t] = @ \cup {i}]
    BY StoreStores
  <1>3. /\ req[t].dst \in Nat /\ req[t].len \in Nat /\ total[t] \in Nat
        /\ Cursor(t) = req[t].dst + total[t]
        /\ Remaining(t) = req[t].len - total[t]
    BY <1>1, CallInSpace
  <1>4. /\ FragmentSize(t) \in 1 .. Remaining(t)
        /\ FragmentSize(t) <= PageSize - PageOffset(Cursor(t))
        /\ PageOffset(Cursor(t)) \in 0 .. PageSize - 1
    BY <1>1, FragmentInSpace
  <1>5. i \in total[t] .. total[t] + FragmentSize(t) - 1
    BY DEF FragmentBytes
  <1>6. i \in 0 .. req[t].len - 1
    BY <1>3, <1>4, <1>5
  <1>7. PageBase(req[t].dst + i) = PageBase(Cursor(t))
    <2>1. Cursor(t) \in Int /\ i - total[t] \in Int
      BY <1>3, <1>5
    <2>2. 0 <= PageOffset(Cursor(t)) + (i - total[t])
          /\ PageOffset(Cursor(t)) + (i - total[t]) < PageSize
      BY <1>3, <1>4, <1>5, GeometryAssumption
    <2>3. PageBase(Cursor(t) + (i - total[t])) = PageBase(Cursor(t))
      BY <2>1, <2>2, SamePage
    <2>4. Cursor(t) + (i - total[t]) = req[t].dst + i
      BY <1>3, <1>5
    <2> QED BY <2>3, <2>4
  <1>8. ASSUME NEW j \in (0 .. req[t].len - 1) \ stored[t]
        PROVE  PageBase(req[t].dst + i) <= PageBase(req[t].dst + j)
    <2>1. 0 .. total[t] - 1 \subseteq stored[t]
      BY <1>1 DEF IInv, WriteInvariant, CallInvariant
    <2>2. j >= total[t] /\ j \in Int
      BY <1>3, <2>1
    <2>3. Cursor(t) \in Int /\ j - total[t] \in Nat
      BY <1>3, <2>2
    <2>4. PageBase(Cursor(t)) <= PageBase(Cursor(t) + (j - total[t]))
      BY <2>3, PagesAscend
    <2>5. Cursor(t) + (j - total[t]) = req[t].dst + j
      BY <1>3, <2>2
    <2> QED BY <1>7, <2>4, <2>5
  <1>9. result[t] = Pending /\ IsRegion(req[t].dst, req[t].len)
    BY <1>1 DEF IInv, WriteInvariant, CallInvariant
  <1>10. \A a : Contract!PageBase(a) = PageBase(a)
    BY DEF Contract!PageBase, PageBase
  <1>11. Contract!IsRegion(req[t].dst, req[t].len)
    BY <1>9 DEF Contract!IsRegion, Contract!CanOffset, IsRegion, CanOffset
  <1>12. result[t] = Contract!Pending
    BY <1>9 DEF Contract!Pending, Pending
  <1>13. i \in (0 .. req[t].len - 1) \ stored[t]
    BY <1>2, <1>6
  <1> QED BY <1>1, <1>2, <1>8, <1>10, <1>11, <1>12, <1>13 DEF Contract!Store

\* A call that is answered has stored what its answer reports.
LEMMA AnswerFinishes ==
  ASSUME IInv, IInv', NEW t \in Threads, NEW answer, Return(t, answer),
         result[t] = Pending, UNCHANGED <<mappable, memory, req, stored>>,
         answer \in Contract!WriteAnswers(req[t].dst, req[t].len, mappable)
  PROVE  Contract!Finish(t)
  <1>1. pc'[t] = "idle" /\ result'[t] = answer /\ result' = [result EXCEPT ![t] = answer]
    BY DEF Return, IInv, TypeOK
  <1>2. stored'[t] = 0 .. answer.bytes - 1
    BY <1>1 DEF IInv, WriteInvariant, CallInvariant
  <1>3. stored[t] = 0 .. answer.bytes - 1
    BY <1>2
  <1>4. result[t] = Contract!Pending
    BY DEF Contract!Pending, Pending
  <1> QED BY <1>1, <1>3, <1>4 DEF Contract!Finish

\* What the contract allows to answer.
LEMMA AllowedAnswers ==
  ASSUME NEW dst \in Address, NEW len \in Nat, NEW solid
  PROVE  /\ len = 0 => Success(0) \in Contract!WriteAnswers(dst, len, solid)
         /\ len # 0 /\ ~CanOffset(dst, len - 1) =>
              Failure("AddressOverflow", 0, dst) \in Contract!WriteAnswers(dst, len, solid)
         /\ IsRegion(dst, len) =>
              Success(len) \in Contract!WriteAnswers(dst, len, solid)
         /\ IsRegion(dst, len) =>
              \A k \in 0 .. len - 1 :
                /\ k = 0 \/ PageOffset(dst + k) = 0
                /\ PageBase(dst + k) \notin solid
                => Failure("MappingFailed", k, dst + k)
                     \in Contract!WriteAnswers(dst, len, solid)
  BY DEF Contract!WriteAnswers, Contract!Success, Contract!Failure, Contract!CanOffset,
         Contract!PageBase, Contract!PageOffset, Success, Failure, CanOffset, PageBase,
         PageOffset, IsRegion

\* A step of a write stores a byte, ends the write, or is not seen.
LEMMA WriteStepRefines ==
  ASSUME IInv, IInv', NEW t \in Threads, WriteStep(t)
  PROVE  Contract!Store(t) \/ Contract!Finish(t) \/ UNCHANGED Contract!contractVars
  <1>1. /\ pc[t] # "idle" /\ result[t] = Pending
        /\ req[t].dst \in Address /\ req[t].len \in Nat
    BY DEF IInv, TypeOK, WriteInvariant, CallInvariant, WriteStep, Start, PageRefused,
           MapPage, StoreByte, EndCopy, EndFragment
  <1>2. ASSUME UNCHANGED <<mappable, memory, req, stored, result>>
        PROVE  UNCHANGED Contract!contractVars
    BY <1>2 DEF Contract!contractVars
  <1>3. ASSUME NEW answer, Return(t, answer), UNCHANGED <<mappable, memory, req, stored>>,
               answer \in Contract!WriteAnswers(req[t].dst, req[t].len, mappable)
        PROVE  Contract!Finish(t)
    BY <1>1, <1>3, AnswerFinishes
  <1>4. CASE Start(t)
    BY <1>1, <1>2, <1>3, <1>4, AllowedAnswers DEF Start
  <1>5. CASE PageRefused(t)
    <2>1. pc[t] = "map" /\ UNCHANGED <<mappable, memory, req, stored>>
      BY <1>5 DEF PageRefused
    <2>2. /\ PageBase(Cursor(t)) \notin mappable
          /\ Return(t, Failure("MappingFailed", total[t], Cursor(t)))
      BY <1>5, RefusedToMap
    <2>3. /\ total[t] \in 0 .. req[t].len - 1 /\ Cursor(t) = req[t].dst + total[t]
          /\ total[t] = 0 \/ PageOffset(Cursor(t)) = 0
          /\ IsRegion(req[t].dst, req[t].len)
      <3>1. /\ total[t] < req[t].len /\ IsRegion(req[t].dst, req[t].len)
            /\ total[t] = 0 \/ PageOffset(Cursor(t)) = 0
        BY <2>1 DEF IInv, WriteInvariant, CallInvariant
      <3>2. total[t] \in Nat /\ req[t].len \in Nat /\ Cursor(t) = req[t].dst + total[t]
        BY <2>1, CallInSpace
      <3> QED BY <3>1, <3>2
    <2>4. Failure("MappingFailed", total[t], Cursor(t))
            \in Contract!WriteAnswers(req[t].dst, req[t].len, mappable)
      BY <1>1, <2>2, <2>3, AllowedAnswers
    <2> QED BY <1>3, <2>1, <2>2, <2>4
  <1>6. CASE MapPage(t)
    BY <1>2, <1>6 DEF MapPage
  <1>7. CASE StoreByte(t)
    BY <1>7, StoreByteStores
  <1>8. CASE EndCopy(t)
    BY <1>2, <1>8 DEF EndCopy
  <1>9. CASE EndFragment(t)
    <2>1. IsRegion(req[t].dst, req[t].len) /\ UNCHANGED <<mappable, memory, req, stored>>
      BY <1>9 DEF IInv, WriteInvariant, CallInvariant, EndFragment
    <2>2. CASE FragmentSize(t) = Remaining(t)
      <3>1. total'[t] = total[t] + FragmentSize(t)
            /\ total[t] + FragmentSize(t) = req[t].len
        BY <1>9, <2>2, EndFragmentEnds
      <3>2. total'[t] = req[t].len
        BY <3>1
      <3>3. Return(t, Success(req[t].len))
        BY <1>9, <2>2, <3>2 DEF EndFragment
      <3> QED BY <1>1, <1>3, <2>1, <3>3, AllowedAnswers
    <2>3. CASE FragmentSize(t) # Remaining(t)
      BY <1>2, <1>9, <2>1, <2>3 DEF EndFragment
    <2> QED BY <2>2, <2>3
  <1> QED BY <1>4, <1>5, <1>6, <1>7, <1>8, <1>9 DEF WriteStep

\* Whatever threads call it and however mappings fail, a shared writer stores
\* and answers as WriteContract allows (that it answers is left to TLC).
THEOREM WriterImplementsContract == SafetySpec => Contract!SafetySpec
  <1>1. Init => Contract!Init
    <2> SUFFICES ASSUME Init PROVE Contract!Init
      OBVIOUS
    <2>1. mappable \in SUBSET Contract!Pages
      BY WriterAssumption DEF Init, Pages, Address, Contract!Pages, Contract!Address
    <2> QED BY <2>1 DEF Init, Contract!Init, Contract!Address, Address, Untouched,
                        Contract!Untouched, Success, Contract!Success
  <1>2. IInv /\ IInv' /\ [Next]_vars => [Contract!Next]_(Contract!contractVars)
    <2> SUFFICES ASSUME IInv, IInv', [Next]_vars
                 PROVE  [Contract!Next]_(Contract!contractVars)
      OBVIOUS
    <2>1. ASSUME NEW t \in Threads, Call(t) PROVE Contract!Next
      BY <2>1, CallBegins DEF Contract!Next
    <2>2. ASSUME NEW t \in Threads, WriteStep(t)
          PROVE  Contract!Next \/ UNCHANGED Contract!contractVars
      BY <2>2, WriteStepRefines DEF Contract!Next
    <2>3. UNCHANGED vars => UNCHANGED Contract!contractVars
      BY DEF vars, call, Contract!contractVars
    <2> QED BY <2>1, <2>2, <2>3 DEF Next
  <1> QED BY <1>1, <1>2, InvariantHolds, PTL DEF SafetySpec, Contract!SafetySpec

-----------------------------------------------------------------------------

\* Memory tells which bytes have been stored, and, as long as no thread calls
\* twice, the threads tell where memory has changed.
Landed ==
  /\ \A a \in Address :
       memory[a] # Untouched =>
         \E t \in Threads : \E i \in stored[t] :
           memory[a] = <<t, i>> /\ a = req[t].dst + i
  /\ \A t \in Threads : \A i \in stored[t] :
       req[t].dst + i \in Address /\ memory[req[t].dst + i] # Untouched
  /\ \A t \in Threads : calls[t] = 0 => pc[t] = "idle" /\ stored[t] = {}

\* Storing a byte leaves what was stored where it landed.
LEMMA StoreLands ==
  ASSUME IInv, Landed, NEW t \in Threads, StoreByte(t)
  PROVE  Landed'
  <1>1. PICK i \in FragmentBytes(t) \ stored[t] :
          /\ memory' = [memory EXCEPT ![req[t].dst + i] = <<t, i>>]
          /\ stored' = [stored EXCEPT ![t] = @ \cup {i}]
    BY StoreStores
  <1>2. pc[t] = "store" /\ pc' = pc /\ req' = req /\ calls' = calls
    BY DEF StoreByte
  <1>3. req[t].dst + i \in Address
    BY <1>1, <1>2, BytePlace
  <1> DEFINE at == req[t].dst + i
  <1>4. /\ memory'[at] = <<t, i>>
        /\ \A a \in Address \ {at} : memory'[a] = memory[a]
        /\ stored'[t] = stored[t] \cup {i}
        /\ \A u \in Threads \ {t} : stored'[u] = stored[u]
    BY <1>1, <1>3 DEF IInv, TypeOK
  <1>5. <<t, i>> # Untouched
    BY DEF Untouched
  <1>6. calls[t] # 0
    BY <1>2 DEF Landed
  <1>7. ASSUME NEW a \in Address, memory'[a] # Untouched
        PROVE  \E u \in Threads : \E k \in stored'[u] :
                 memory'[a] = <<u, k>> /\ a = req'[u].dst + k
    <2>1. CASE a = at
      BY <1>2, <1>4, <2>1
    <2>2. CASE a # at
      <3>1. PICK u \in Threads : \E k \in stored[u] :
              memory[a] = <<u, k>> /\ a = req[u].dst + k
        BY <1>4, <1>7, <2>2 DEF Landed
      <3> QED BY <1>2, <1>4, <2>2, <3>1
    <2> QED BY <2>1, <2>2
  <1>8. ASSUME NEW u \in Threads, NEW k \in stored'[u]
        PROVE  req'[u].dst + k \in Address /\ memory'[req'[u].dst + k] # Untouched
    <2>1. CASE req[u].dst + k = at
      BY <1>2, <1>3, <1>4, <1>5, <2>1
    <2>2. CASE req[u].dst + k # at
      <3>1. k \in stored[u]
        BY <1>4, <2>2
      <3> QED BY <1>1, <1>2, <2>2, <3>1 DEF Landed, IInv, TypeOK
    <2> QED BY <2>1, <2>2
  <1>9. \A u \in Threads : calls'[u] = 0 => pc'[u] = "idle" /\ stored'[u] = {}
    BY <1>2, <1>4, <1>6 DEF Landed
  <1> QED BY <1>7, <1>8, <1>9 DEF Landed

\* Steps that store nothing leave what has landed alone.
LEMMA LandedStays ==
  ASSUME Landed, memory' = memory,
         \A t \in Threads :
           /\ stored'[t] = stored[t] /\ req'[t] = req[t]
           /\ calls'[t] = 0 => calls[t] = 0 /\ pc'[t] = pc[t]
  PROVE  Landed'
  BY DEF Landed

\* And so does every step, when each thread writes once.
LEMMA LandedKept ==
  ASSUME MaxCalls = 1, IInv, Landed, [Next]_vars
  PROVE  Landed'
  <1>1. ASSUME NEW t \in Threads, Call(t) PROVE Landed'
    <2>1. calls[t] = 0
      BY <1>1 DEF Call, IInv, TypeOK
    <2>2. /\ memory' = memory /\ calls'[t] # 0
          /\ stored[t] = {} /\ stored'[t] = {}
          /\ \A u \in Threads \ {t} :
               /\ stored'[u] = stored[u] /\ req'[u] = req[u]
               /\ calls'[u] = calls[u] /\ pc'[u] = pc[u]
      BY <1>1, <2>1 DEF Call, IInv, TypeOK, Landed
    <2> QED BY <2>2 DEF Landed
  <1>2. ASSUME NEW t \in Threads, WriteStep(t), ~StoreByte(t) PROVE Landed'
    <2>1. UNCHANGED <<memory, req, stored, calls>> /\ pc[t] # "idle"
      BY <1>2 DEF WriteStep, Start, PageRefused, MapPage, EndCopy, EndFragment
    <2>2. \A u \in Threads \ {t} : pc'[u] = pc[u]
      BY <1>2 DEF WriteStep, Start, PageRefused, MapPage, EndCopy, EndFragment, Return,
                  IInv, TypeOK
    <2>3. calls[t] # 0
      BY <2>1 DEF Landed
    <2> QED BY <2>1, <2>2, <2>3, LandedStays
  <1>3. ASSUME NEW t \in Threads, StoreByte(t) PROVE Landed'
    BY <1>3, StoreLands
  <1>4. CASE UNCHANGED vars
    BY <1>4 DEF vars, call, Landed
  <1> QED BY <1>1, <1>2, <1>3, <1>4 DEF Next

\* When each thread writes once and no write is under way, the answers say
\* exactly where memory has changed: a byte that some answer counts is the
\* byte some thread wanted there, and every other byte is what it was.
THEOREM AnswersTell ==
  ASSUME MaxCalls = 1
  PROVE  SafetySpec => []AnswersTellWhatChanged
  <1>1. Init => Landed
    BY DEF Init, Landed
  <1>2. IInv /\ Landed => AnswersTellWhatChanged
    <2> SUFFICES ASSUME IInv, Landed, \A t \in Threads : pc[t] = "idle",
                        NEW a \in Address
                 PROVE  LET writers == {t \in Threads :
                                          a \in req[t].dst .. req[t].dst + result[t].bytes - 1}
                        IN IF writers = {} THEN memory[a] = Untouched
                           ELSE \E t \in writers : memory[a] = <<t, a - req[t].dst>>
      BY DEF AnswersTellWhatChanged
    <2> DEFINE writers == {t \in Threads :
                             a \in req[t].dst .. req[t].dst + result[t].bytes - 1}
    <2>1. a \in Int /\ \A t \in Threads : req[t].dst \in Nat /\ result[t].bytes \in Nat
      BY GeometryAssumption DEF IInv, TypeOK, Address, Answers
    <2>2. \A t \in Threads : stored[t] = 0 .. result[t].bytes - 1
      BY DEF IInv, WriteInvariant, CallInvariant
    <2>3. ASSUME memory[a] # Untouched
          PROVE  \E t \in writers : memory[a] = <<t, a - req[t].dst>>
      <3>1. PICK t \in Threads : \E i \in stored[t] :
              memory[a] = <<t, i>> /\ a = req[t].dst + i
        BY <2>3 DEF Landed
      <3>2. PICK i \in 0 .. result[t].bytes - 1 : memory[a] = <<t, i>> /\ a = req[t].dst + i
        BY <2>2, <3>1
      <3>3. i = a - req[t].dst /\ t \in writers
        BY <2>1, <3>2
      <3> QED BY <3>2, <3>3
    <2>4. ASSUME NEW t \in writers
          PROVE  memory[a] # Untouched
      <3>1. a - req[t].dst \in 0 .. result[t].bytes - 1
        BY <2>1
      <3>2. a - req[t].dst \in stored[t]
        BY <2>2, <3>1
      <3>3. memory[req[t].dst + (a - req[t].dst)] # Untouched
        BY <3>2 DEF Landed
      <3>4. req[t].dst + (a - req[t].dst) = a
        BY <2>1
      <3> QED BY <3>3, <3>4
    <2> QED BY <2>3, <2>4
  <1>3. IInv /\ Landed /\ [Next]_vars => Landed'
    BY LandedKept
  <1> QED BY <1>1, <1>2, <1>3, InvariantHolds, PTL DEF SafetySpec

=============================================================================
