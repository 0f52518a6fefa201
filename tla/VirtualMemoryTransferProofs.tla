---------------------- MODULE VirtualMemoryTransferProofs ----------------------
(***************************************************************************)
(* Proofs about VirtualMemoryTransfer, for any sizes of pages and large    *)
(* pages, any address spaces, any number of changes of them and any calls. *)
(***************************************************************************)
EXTENDS VirtualMemoryTransfer, PageArithmetic

\* Where a call under way stands: it has something left to transfer, in the
\* address space, and past its first chunk it is at the start of a page.
Underway ==
  pc \in {"translate", "transfer"} =>
    /\ total < req.len
    /\ Cursor \in Address
    /\ total = 0 \/ PageOffset(Cursor) = 0
    /\ Transferred = 0 .. total - 1

Fresh == pc = "idle" => total = 0 /\ Transferred = {}

\* The translation in use is what one of the address spaces of the call says.
FoundIn(m) ==
  /\ m[PageBase(Cursor)].present
  /\ req.kind = "write" => m[PageBase(Cursor)].writable
  /\ translation = Translated(m, Cursor)

Vouched ==
  /\ space \in during
  /\ pc = "transfer" => Cursor \in Canonical /\ \E m \in during : FoundIn(m)

\* What holds of a call that has returned.
Answered == ReportsWhatWasTransferred /\ FaultPassesOverNothing /\ AnswersHaveReasons

\* The inductive invariant.
IInv == TypeOK /\ Underway /\ Fresh /\ Vouched /\ BytesWereMapped /\ Answered

-----------------------------------------------------------------------------

\* The entry of a page of a space, and the span of its answer.
LEMMA SpaceIsTyped ==
  ASSUME NEW m \in Spaces, NEW a \in Address
  PROVE  /\ m[PageBase(a)] \in PageEntry
         /\ Span(m[PageBase(a)]) \in Nat \ {0}
         /\ Span(m[PageBase(a)]) % PageSize = 0
         /\ (MaxAddress + 1) % Span(m[PageBase(a)]) = 0
         /\ m[PageBase(a)].base \in Address
         /\ m[PageBase(a)].base % Span(m[PageBase(a)]) = 0
  <1>1. PageBase(a) \in Pages
    BY PageInSpace
  <1>2. m[PageBase(a)] \in PageEntry
    BY <1>1, TransferAssumption
  <1>3. m[PageBase(a)].base \in Address /\ m[PageBase(a)].base % PageSize = 0
    BY <1>2 DEF PageEntry, Pages
  <1>4. CASE m[PageBase(a)].large
    BY <1>2, <1>3, <1>4, TransferAssumption, SpacesAssumption DEF Span
  <1>5. CASE ~m[PageBase(a)].large
    <2>1. Span(m[PageBase(a)]) = PageSize
      BY <1>5 DEF Span
    <2> QED BY <1>2, <1>3, <2>1, PageSizeIsPage, GeometryAssumption
  <1> QED BY <1>4, <1>5

\* What one entry says of an address, it says of the rest of its page or
\* large page, and the physical addresses follow on.
LEMMA BlockIsMapped ==
  ASSUME NEW m \in Spaces, NEW a \in Address, NEW k \in Nat,
         (a % Span(m[PageBase(a)])) + k < Span(m[PageBase(a)])
  PROVE  /\ a + k \in Address
         /\ m[PageBase(a + k)] = m[PageBase(a)]
         /\ a \in Canonical => a + k \in Canonical
         /\ Translated(m, a).physical + k =
              m[PageBase(a)].base + ((a + k) % Span(m[PageBase(a)]))
         /\ Translated(m, a).physical + k \in Address
  <1> DEFINE e == m[PageBase(a)]
             s == Span(e)
             r == a % s
             rk == (a + k) % s
  <1>1. /\ s \in Nat \ {0} /\ (MaxAddress + 1) % s = 0
        /\ e.base \in Address /\ e.base % s = 0
    BY SpaceIsTyped
  <1>2. a \in Int /\ a >= 0 /\ MaxAddress \in Nat
    BY GeometryAssumption DEF Address
  <1> HIDE DEF s
  <1>3. r \in 0 .. s - 1
    BY <1>1, <1>2, DivideWithRemainder
  <1>4. r + k < s
    BY DEF s
  <1>5. rk = r + k
    <2>1. 0 <= r + k /\ k \in Int
      BY <1>3
    <2> QED BY <1>1, <1>2, <1>4, <2>1, RemainderWithinPage
  <1>6. a + k \in Address
    <2>1. a - r + s <= MaxAddress + 1
      BY <1>1, BlockInSpace
    <2> QED BY <1>1, <1>2, <1>3, <1>4, <2>1 DEF Address
  <1>7. m[PageBase(a + k)] = e /\ (a \in Canonical => a + k \in Canonical)
    <2>1. CASE e.large
      <3>1. s = LargeSize
        BY <2>1 DEF s, Span
      <3>2. LargeBase(a + k) = LargeBase(a)
        BY <1>2, <1>3, <1>5, <3>1 DEF LargeBase
      <3> QED BY <1>6, <2>1, <3>2, SpacesAssumption
    <2>2. CASE ~e.large
      <3>1. s = PageSize
        BY <2>2 DEF s, Span
      <3>2. PageBase(a + k) = PageBase(a)
        BY <1>2, <1>3, <1>5, <3>1 DEF PageBase
      <3> QED BY <1>6, <3>2, SpacesAssumption
    <2> QED BY <2>1, <2>2
  <1>8. Translated(m, a).physical = e.base + r
    BY DEF Translated, s
  <1>9. e.base + (r + k) \in Address
    <2>1. e.base - (e.base % s) + s <= MaxAddress + 1
      BY <1>1, BlockInSpace
    <2>2. e.base + s <= MaxAddress + 1 /\ e.base \in Int /\ e.base >= 0
      BY <1>1, <1>2, <2>1 DEF Address
    <2> QED BY <1>1, <1>2, <1>3, <1>4, <2>2 DEF Address
  <1>10. Translated(m, a).physical + k = e.base + (r + k)
    <2>1. e.base \in Int
      BY <1>1, <1>2 DEF Address
    <2> HIDE DEF e, r
    <2> QED BY <1>3, <1>8, <2>1
  <1> QED BY <1>5, <1>6, <1>7, <1>9, <1>10 DEF s

\* A translation is typed, and vouches for a byte at least, up to a boundary
\* of pages.
LEMMA TranslationIsTyped ==
  ASSUME NEW m \in Spaces, NEW a \in Address
  PROVE  /\ Translated(m, a) \in [physical : Address, contiguous : Nat, writable : BOOLEAN]
         /\ Translated(m, a).contiguous \in Nat \ {0}
         /\ (a % Span(m[PageBase(a)])) + Translated(m, a).contiguous = Span(m[PageBase(a)])
         /\ PageOffset(a + Translated(m, a).contiguous) = 0
         /\ a + Translated(m, a).contiguous <= MaxAddress + 1
  <1> DEFINE e == m[PageBase(a)]
             s == Span(e)
             r == a % s
  <1>1. /\ s \in Nat \ {0} /\ (MaxAddress + 1) % s = 0 /\ s % PageSize = 0
        /\ e \in PageEntry
    BY SpaceIsTyped
  <1>2. a \in Int /\ MaxAddress \in Nat /\ PageSize \in Nat \ {0}
    BY GeometryAssumption DEF Address
  <1> HIDE DEF s
  <1>3. r \in 0 .. s - 1
    BY <1>1, <1>2, DivideWithRemainder
  <1>4. /\ Translated(m, a).contiguous = s - r /\ Translated(m, a).physical = e.base + r
        /\ Translated(m, a).writable = e.writable
        /\ Translated(m, a) = [physical |-> e.base + r, contiguous |-> s - r,
                               writable |-> e.writable]
    BY DEF Translated, s
  <1>5. s - r \in Nat \ {0} /\ r + (s - r) = s
    BY <1>1, <1>3
  <1>6. e.base + r \in Address
    <2>1. r + 0 < s
      BY <1>1, <1>3
    <2>2. Translated(m, a).physical + 0 \in Address
      BY <2>1, BlockIsMapped DEF s
    <2>3. e.base \in Int /\ r \in Int
      BY <1>1, <1>2, <1>3 DEF PageEntry, Pages, Address
    <2> QED BY <1>4, <2>2, <2>3
  <1>7. (a + (s - r)) % PageSize = 0
    <2>1. (a + (s - r)) % s = 0
      BY <1>1, <1>2, BlockEnd
    <2>2. a + (s - r) \in Int
      BY <1>2, <1>5
    <2> DEFINE n == a + (s - r)
    <2> HIDE DEF n
    <2>3. n \in Int /\ n % s = 0
      BY <2>1, <2>2 DEF n
    <2>4. n % PageSize = 0
      BY <1>1, <1>2, <2>3, MultipleOfMultiple
    <2> QED BY <2>4 DEF n
  <1>8. a + (s - r) <= MaxAddress + 1
    <2>1. a - r + s <= MaxAddress + 1
      BY <1>1, BlockInSpace
    <2> QED BY <1>1, <1>2, <1>3, <2>1
  <1>9. e.writable \in BOOLEAN
    BY <1>1 DEF PageEntry
  <1>10. Translated(m, a) \in [physical : Address, contiguous : Nat, writable : BOOLEAN]
    BY <1>4, <1>5, <1>6, <1>9
  <1>11. r + Translated(m, a).contiguous = s /\ Translated(m, a).contiguous \in Nat \ {0}
    BY <1>4, <1>5
  <1>12. PageOffset(a + Translated(m, a).contiguous) = 0
    BY <1>4, <1>7 DEF PageOffset
  <1>13. a + Translated(m, a).contiguous <= MaxAddress + 1
    BY <1>4, <1>8
  <1> QED BY <1>10, <1>11, <1>12, <1>13 DEF s

-----------------------------------------------------------------------------

\* A call under way has a natural number of bytes left.
LEMMA LeftToTransfer ==
  ASSUME TypeOK, Underway, pc \in {"translate", "transfer"}
  PROVE  /\ req.at \in Nat /\ req.len \in Nat /\ total \in Nat /\ total < req.len
         /\ Cursor = req.at + total /\ Cursor \in Address
         /\ Remaining = req.len - total /\ Remaining \in Nat \ {0}
         /\ MaxAddress \in Nat
  <1>1. MaxAddress \in Nat
    BY GeometryAssumption
  <1>2. req.at \in Address /\ req.len \in Nat /\ total \in 0 .. req.len
    BY DEF TypeOK
  <1> QED BY <1>1, <1>2 DEF Underway, Cursor, Remaining, Address

\* A chunk is not empty and ends the call, or at a boundary of pages.
LEMMA ChunkBounds ==
  ASSUME IInv, pc = "transfer"
  PROVE  /\ ChunkSize \in 1 .. Remaining
         /\ ChunkSize # Remaining => PageOffset(Cursor + ChunkSize) = 0
         /\ Cursor + ChunkSize <= MaxAddress + 1
  <1>1. PICK m \in during : FoundIn(m)
    BY DEF IInv, Vouched
  <1>2. m \in Spaces /\ translation = Translated(m, Cursor)
    BY <1>1 DEF IInv, TypeOK, FoundIn
  <1>3. /\ Cursor \in Address /\ Cursor \in Int
        /\ Remaining \in Nat \ {0} /\ MaxAddress \in Nat
    BY LeftToTransfer DEF IInv, Address
  <1>4. /\ translation.contiguous \in Nat \ {0}
        /\ PageOffset(Cursor + translation.contiguous) = 0
        /\ Cursor + translation.contiguous <= MaxAddress + 1
    BY <1>2, <1>3, TranslationIsTyped
  <1>5. CASE Remaining <= translation.contiguous
    <2>1. ChunkSize = Remaining
      BY <1>5 DEF ChunkSize, StdMin
    <2> QED BY <1>3, <1>4, <1>5, <2>1
  <1>6. CASE ~(Remaining <= translation.contiguous)
    <2>1. ChunkSize = translation.contiguous
      BY <1>6 DEF ChunkSize, StdMin
    <2> QED BY <1>3, <1>4, <1>6, <2>1
  <1> QED BY <1>5, <1>6

\* What a translation says of the first byte of its chunk, the address space
\* it is from says of every byte of it.
LEMMA ChunkIsMapped ==
  ASSUME IInv, pc = "transfer"
  PROVE  \E m \in during :
           /\ FoundIn(m)
           /\ \A k \in 0 .. ChunkSize - 1 :
                /\ Cursor + k \in Canonical
                /\ m[PageBase(Cursor + k)] = m[PageBase(Cursor)]
                /\ translation.physical + k =
                     m[PageBase(Cursor)].base + ((Cursor + k) % Span(m[PageBase(Cursor)]))
                /\ translation.physical + k \in Address
  <1>1. PICK m \in during : FoundIn(m)
    BY DEF IInv, Vouched
  <1>2. m \in Spaces /\ translation = Translated(m, Cursor) /\ Cursor \in Canonical
    BY <1>1 DEF IInv, TypeOK, FoundIn, Vouched
  <1>3. Cursor \in Address /\ Remaining \in Nat \ {0}
    BY LeftToTransfer DEF IInv
  <1>4. /\ translation.contiguous \in Nat \ {0}
        /\ (Cursor % Span(m[PageBase(Cursor)])) + translation.contiguous
             = Span(m[PageBase(Cursor)])
    BY <1>2, <1>3, TranslationIsTyped
  <1>5. ChunkSize <= translation.contiguous /\ ChunkSize \in Nat
    BY <1>3, <1>4 DEF ChunkSize, StdMin
  <1>6. ASSUME NEW k \in 0 .. ChunkSize - 1
        PROVE  (Cursor % Span(m[PageBase(Cursor)])) + k < Span(m[PageBase(Cursor)])
    <2> DEFINE s == Span(m[PageBase(Cursor)])
               r == Cursor % s
    <2>1. s \in Nat \ {0} /\ Cursor \in Int
      BY <1>2, <1>3, SpaceIsTyped, GeometryAssumption DEF Address
    <2>2. r \in 0 .. s - 1
      BY <2>1, DivideWithRemainder
    <2>3. r + translation.contiguous = s
      BY <1>4
    <2> HIDE DEF r, s
    <2>4. r + k < s
      BY <1>4, <1>5, <2>1, <2>2, <2>3
    <2> QED BY <2>4 DEF r, s
  <1>7. ASSUME NEW k \in 0 .. ChunkSize - 1
        PROVE  /\ Cursor + k \in Canonical
               /\ m[PageBase(Cursor + k)] = m[PageBase(Cursor)]
               /\ translation.physical + k =
                    m[PageBase(Cursor)].base + ((Cursor + k) % Span(m[PageBase(Cursor)]))
               /\ translation.physical + k \in Address
    <2>1. k \in Nat
      BY <1>5
    <2> QED BY <1>2, <1>3, <1>6, <2>1, BlockIsMapped
  <1> QED BY <1>1, <1>7

\* The physical reader and writer are never asked for what is no region, so
\* they fail only in memory that cannot be relied on.
LEMMA PhysicalErrors ==
  ASSUME IInv, pc = "transfer", NEW error \in PhysicalAnswers, error.code # "Success"
  PROVE  /\ error.code = "MappingFailed" /\ error.bytes \in 0 .. ChunkSize - 1
         /\ PageBase(translation.physical + error.bytes) \notin solid
  <1>1. ChunkSize \in Nat \ {0}
    BY LeftToTransfer, ChunkBounds DEF IInv
  <1>2. CanOffset(translation.physical, ChunkSize - 1)
    <2>1. ChunkSize - 1 \in 0 .. ChunkSize - 1
      BY <1>1
    <2>2. translation.physical + (ChunkSize - 1) \in Address
      BY <2>1, ChunkIsMapped
    <2>3. translation.physical \in Int /\ MaxAddress \in Nat
      BY GeometryAssumption DEF IInv, TypeOK, Address
    <2> QED BY <1>1, <2>2, <2>3 DEF CanOffset, Address
  <1>3. Success(ChunkSize).code = "Success"
    BY DEF Success
  <1>4. PICK k \in 0 .. ChunkSize - 1 :
          /\ error = Failure("MappingFailed", k, translation.physical + k)
          /\ PageBase(translation.physical + k) \notin solid
    BY <1>1, <1>2, <1>3 DEF PhysicalAnswers, ReadAnswers, WriteAnswers
  <1>5. error.code = "MappingFailed" /\ error.bytes = k
    BY <1>4 DEF Failure
  <1> QED BY <1>4, <1>5

\* Transferring n bytes of a chunk transfers bytes that were mapped, and adds
\* to no page that was transferred in part before.
LEMMA PlacesAreMapped ==
  ASSUME IInv, pc = "transfer", NEW n \in 0 .. ChunkSize, place' = PlaceAfter(n),
         req' = req, during' = during
  PROVE  /\ place' \in [0 .. (total + n) - 1 -> Address]
         /\ Transferred' = 0 .. (total + n) - 1
         /\ BytesWereMapped'
  <1>1. /\ req.at \in Nat /\ req.len \in Nat /\ total \in Nat
        /\ Cursor = req.at + total /\ Cursor \in Address
        /\ total = 0 \/ PageOffset(Cursor) = 0
        /\ Transferred = 0 .. total - 1
        /\ ChunkSize \in Nat \ {0}
    BY LeftToTransfer, ChunkBounds DEF IInv, Underway
  <1>2. PICK m \in during :
          /\ FoundIn(m)
          /\ \A k \in 0 .. ChunkSize - 1 :
               /\ Cursor + k \in Canonical
               /\ m[PageBase(Cursor + k)] = m[PageBase(Cursor)]
               /\ translation.physical + k =
                    m[PageBase(Cursor)].base + ((Cursor + k) % Span(m[PageBase(Cursor)]))
               /\ translation.physical + k \in Address
    BY ChunkIsMapped
  <1>3. place \in [0 .. total - 1 -> Address]
    BY DEF IInv, TypeOK
  <1>4. total + n - 1 = (total + n) - 1
    BY <1>1
  <1>5. place' = [i \in 0 .. (total + n) - 1 |->
                    IF i < total THEN place[i] ELSE translation.physical + (i - total)]
    BY <1>4 DEF PlaceAfter
  <1>6. ASSUME NEW i \in 0 .. (total + n) - 1
        PROVE  /\ i < total => i \in 0 .. total - 1
               /\ i >= total => i - total \in 0 .. ChunkSize - 1
               /\ i >= total => Cursor + (i - total) = req.at + i
               /\ i \in Nat
    BY <1>1
  <1>7. place' \in [0 .. (total + n) - 1 -> Address]
    <2>1. ASSUME NEW i \in 0 .. (total + n) - 1
          PROVE  (IF i < total THEN place[i] ELSE translation.physical + (i - total)) \in Address
      BY <1>1, <1>2, <1>3, <1>6
    <2> QED BY <1>5, <2>1
  <1>8. Transferred' = 0 .. (total + n) - 1
    BY <1>7 DEF Transferred
  <1>9. ASSUME NEW i \in 0 .. (total + n) - 1, i >= total
        PROVE  /\ req.at + i \in Canonical
               /\ m[PageBase(req.at + i)] = m[PageBase(Cursor)]
               /\ place'[i] = m[PageBase(Cursor)].base
                                + ((req.at + i) % Span(m[PageBase(Cursor)]))
    <2>1. i - total \in 0 .. ChunkSize - 1 /\ Cursor + (i - total) = req.at + i
      BY <1>6, <1>9
    <2>2. place'[i] = translation.physical + (i - total)
      BY <1>1, <1>5, <1>6, <1>9
    <2> QED BY <1>2, <2>1, <2>2
  <1>10. ASSUME NEW i \in 0 .. (total + n) - 1, NEW j \in 0 .. (total + n) - 1,
                i >= total, j < total
         PROVE  PageBase(req.at + i) # PageBase(req.at + j)
    <2>1. total > 0 /\ PageOffset(Cursor) = 0 /\ i - total \in Nat /\ j \in Nat
      BY <1>1, <1>6, <1>10
    <2>2. Cursor \in Int
      BY <1>1
    <2>3. PageBase(Cursor) = Cursor
      BY <2>1, <2>2, PageBaseProperties DEF PageOffset
    <2>4. Cursor <= PageBase(req.at + i)
      <3>1. PageBase(Cursor) <= PageBase(Cursor + (i - total))
        BY <2>1, <2>2, PagesAscend
      <3> QED BY <1>6, <1>10, <2>3, <3>1
    <2>5. PageBase(req.at + j) <= req.at + j /\ PageBase(req.at + j) \in Int
      <3>1. req.at + j \in Int
        BY <1>1, <2>1
      <3>2. /\ PageBase(req.at + j) \in Int
            /\ PageOffset(req.at + j) \in 0 .. PageSize - 1
            /\ req.at + j = PageBase(req.at + j) + PageOffset(req.at + j)
        BY <3>1, PageBaseProperties
      <3> QED BY <3>1, <3>2, GeometryAssumption
    <2> QED BY <1>1, <1>10, <2>1, <2>4, <2>5
  <1>11. BytesWereMapped'
    <2> SUFFICES ASSUME NEW i \in 0 .. (total + n) - 1
                 PROVE  \E h \in during :
                          /\ h[PageBase(req.at + i)].present
                          /\ req.kind = "write" => h[PageBase(req.at + i)].writable
                          /\ \A j \in 0 .. (total + n) - 1 :
                               PageBase(req.at + j) = PageBase(req.at + i) =>
                                 /\ req.at + j \in Canonical
                                 /\ place'[j] = h[PageBase(req.at + i)].base
                                      + ((req.at + j) % Span(h[PageBase(req.at + i)]))
      BY <1>8 DEF BytesWereMapped
    <2>1. CASE i >= total
      <3>1. m[PageBase(req.at + i)] = m[PageBase(Cursor)]
        BY <1>9, <2>1
      <3>2. ASSUME NEW j \in 0 .. (total + n) - 1,
                   PageBase(req.at + j) = PageBase(req.at + i)
            PROVE  j >= total
        BY <1>1, <1>6, <1>10, <2>1, <3>2
      <3> QED BY <1>2, <1>9, <3>1, <3>2 DEF FoundIn
    <2>2. CASE ~(i >= total)
      <3>1. i \in 0 .. total - 1
        BY <1>1, <1>6, <2>2
      <3>2. PICK h \in during :
              /\ h[PageBase(req.at + i)].present
              /\ req.kind = "write" => h[PageBase(req.at + i)].writable
              /\ \A j \in 0 .. total - 1 :
                   PageBase(req.at + j) = PageBase(req.at + i) =>
                     /\ req.at + j \in Canonical
                     /\ place[j] = h[PageBase(req.at + i)].base
                          + ((req.at + j) % Span(h[PageBase(req.at + i)]))
        BY <1>1, <3>1 DEF IInv, BytesWereMapped
      <3>3. ASSUME NEW j \in 0 .. (total + n) - 1,
                   PageBase(req.at + j) = PageBase(req.at + i)
            PROVE  j \in 0 .. total - 1 /\ place'[j] = place[j]
        <4>1. j < total
          BY <1>1, <1>6, <1>10, <2>2, <3>3
        <4> QED BY <1>5, <1>6, <4>1
      <3> QED BY <3>2, <3>3
    <2> QED BY <2>1, <2>2
  <1> QED BY <1>7, <1>8, <1>11

-----------------------------------------------------------------------------

\* The fields of an answer.
LEMMA FailureFields ==
  ASSUME NEW c, NEW n, NEW a
  PROVE  /\ Failure(c, n, a).code = c /\ Failure(c, n, a).bytes = n
         /\ Failure(c, n, a).fault = a
         /\ Success(n).code = "Success" /\ Success(n).bytes = n /\ Success(n).fault = 0
  BY DEF Failure, Success

\* Until a call returns there is nothing to say of its answer.
LEMMA NotAnswered ==
  ASSUME pc' # "done"
  PROVE  Answered'
  BY DEF Answered, ReportsWhatWasTransferred, FaultPassesOverNothing, AnswersHaveReasons

\* A step that transfers nothing, and loses none of the address spaces there
\* have been, leaves the bytes transferred mapped.
LEMMA StillMapped ==
  ASSUME BytesWereMapped, place' = place, req' = req, during \subseteq during'
  PROVE  BytesWereMapped'
  <1>1. Transferred' = Transferred
    BY DEF Transferred
  <1>2. ASSUME NEW i \in Transferred
        PROVE  \E m \in during' :
                 /\ m[PageBase(req.at + i)].present
                 /\ req.kind = "write" => m[PageBase(req.at + i)].writable
                 /\ \A j \in Transferred :
                      PageBase(req.at + j) = PageBase(req.at + i) =>
                        /\ req.at + j \in Canonical
                        /\ place[j] = m[PageBase(req.at + i)].base
                             + ((req.at + j) % Span(m[PageBase(req.at + i)]))
    BY DEF BytesWereMapped
  <1> QED BY <1>1, <1>2 DEF BytesWereMapped

\* The invariant holds in every initial state.
LEMMA InitInvariant == Init => IInv
  <1> SUFFICES ASSUME Init PROVE IInv
    OBVIOUS
  <1>1. 0 \in Address /\ 0 .. 0 - 1 = {} /\ 0 \in 0 .. MaxChanges
    BY GeometryAssumption, TransferAssumption DEF Address
  <1>2. DOMAIN place = {} /\ total = 0 /\ pc = "idle"
    BY DEF Init
  <1>3. place \in [0 .. total - 1 -> Address]
    BY <1>1 DEF Init
  <1>4. TypeOK
    BY <1>1, <1>3 DEF Init, TypeOK, NoTranslation
  <1>5. Underway /\ Fresh /\ Vouched
    BY <1>2 DEF Init, Underway, Fresh, Vouched, Transferred
  <1>6. BytesWereMapped
    BY <1>2 DEF BytesWereMapped, Transferred
  <1>7. Answered
    BY <1>2 DEF Answered, ReportsWhatWasTransferred, FaultPassesOverNothing,
                AnswersHaveReasons
  <1> QED BY <1>4, <1>5, <1>6, <1>7 DEF IInv

\* Call keeps the invariant.
LEMMA CallKeeps ==
  ASSUME IInv, NEW r \in Requests, Call(r)
  PROVE  IInv'
  <1>1. /\ pc = "idle" /\ total = 0 /\ Transferred = {} /\ req' = r
        /\ r \in [kind : {"read", "write"}, at : Address, len : Nat]
        /\ UNCHANGED <<space, environment, during, changes, total, translation, place>>
    BY TransferAssumption DEF Call, IInv, Fresh
  <1>2. 0 .. 0 - 1 = {} /\ 0 \in Address /\ 0 \in Nat
    BY GeometryAssumption DEF Address
  <1>3. BytesWereMapped' /\ Transferred' = {}
    BY <1>1 DEF BytesWereMapped, Transferred
  <1>4. CASE r.len = 0
    <2>1. pc' = "done" /\ answer' = Success(0)
      BY <1>4 DEF Call, Return
    <2>2. answer'.code = "Success" /\ answer'.bytes = 0 /\ answer'.fault = 0
      BY <2>1, FailureFields
    <2>3. TypeOK'
      BY <1>1, <1>2, <1>4, <2>1, <2>2 DEF IInv, TypeOK, environment
    <2>4. Answered'
      BY <1>1, <1>2, <1>3, <1>4, <2>1, <2>2
         DEF Answered, ReportsWhatWasTransferred, FaultPassesOverNothing, AnswersHaveReasons
    <2> QED BY <1>1, <1>3, <2>1, <2>3, <2>4 DEF IInv, Underway, Fresh, Vouched
  <1>5. CASE r.len # 0
    <2>1. pc' = "translate"
      BY <1>5 DEF Call
    <2>2. TypeOK'
      BY <1>1, <2>1 DEF IInv, TypeOK, environment
    <2>3. Underway'
      <3>1. r.at \in Address /\ r.at \in Int /\ r.len \in Nat
        BY <1>1, GeometryAssumption DEF Address
      <3>2. r.at + 0 = r.at /\ 0 < r.len
        BY <1>5, <3>1
      <3>3. Cursor' = r.at
        BY <1>1, <3>2 DEF Cursor
      <3> QED BY <1>1, <1>2, <1>3, <3>1, <3>2, <3>3 DEF Underway
    <2> QED BY <1>1, <1>3, <2>1, <2>2, <2>3, NotAnswered DEF IInv, Fresh, Vouched
  <1> QED BY <1>4, <1>5

\* A call that returns before its chunk, with an error that blames its cursor
\* and has a reason, is answered as it must be.
LEMMA AnsweredAtCursor ==
  ASSUME IInv, pc \in {"translate", "transfer"}, NEW c, NEW n \in Nat,
         pc' = "done", answer' = Failure(c, n, Cursor),
         UNCHANGED <<space, environment, during, changes, req, total, translation>>,
         0 .. total - 1 \subseteq Transferred',
         \A j \in Transferred' : j > total => place'[j] = place'[total] + (j - total),
         \E excess \in 0 .. EntrySize - 1 :
           /\ Transferred' = 0 .. n - excess - 1
           /\ excess # 0 => c = "MappingFailed" /\ ~reliable,
         \/ c = "NonCanonicalAddress" /\ Cursor \notin Canonical
         \/ c = "PageNotPresent" /\ \E m \in during : ~m[PageBase(Cursor)].present
         \/ /\ c = "AccessDenied" /\ req.kind = "write"
            /\ \E m \in during : ~m[PageBase(Cursor)].writable
         \/ /\ c = "MappingFailed"
            /\ ~reliable \/ PageBase(translation.physical + (n - total)) \notin solid,
         BytesWereMapped'
  PROVE  IInv'
  <1>1. answer'.code = c /\ answer'.bytes = n /\ answer'.fault = Cursor
    BY FailureFields
  <1>2. /\ req.at \in Nat /\ req.len \in Nat /\ total \in Nat /\ total < req.len
        /\ Cursor = req.at + total /\ Cursor \in Address
    BY LeftToTransfer DEF IInv
  <1>3. c \in {"NonCanonicalAddress", "PageNotPresent", "AccessDenied", "MappingFailed"}
    OBVIOUS
  <1>4. TypeOK'
    BY <1>1, <1>2 DEF IInv, TypeOK, environment
  <1>5. Underway' /\ Fresh' /\ Vouched'
    BY DEF IInv, Underway, Fresh, Vouched
  <1>6. ReportsWhatWasTransferred'
    BY <1>1, <1>3 DEF ReportsWhatWasTransferred, environment
  <1>7. FaultPassesOverNothing'
    <2>1. total \in 0 .. req.len - 1
      BY <1>2
    <2> QED BY <1>1, <1>2, <2>1 DEF FaultPassesOverNothing
  <1>8. AnswersHaveReasons'
    <2>1. (req.at + total)' = Cursor
      BY <1>2
    <2> QED BY <1>1, <1>2, <2>1 DEF AnswersHaveReasons, environment
  <1> QED BY <1>4, <1>5, <1>6, <1>7, <1>8 DEF IInv, Answered

\* TranslationFails keeps the invariant.
LEMMA TranslationFailsKeeps ==
  ASSUME IInv, TranslationFails
  PROVE  IInv'
  <1>1. /\ pc = "translate"
        /\ UNCHANGED <<space, environment, during, changes, req, total, translation, place>>
    BY DEF TranslationFails
  <1>2. /\ total \in Nat /\ Cursor \in Address /\ space \in Spaces /\ space \in during
        /\ Transferred = 0 .. total - 1 /\ Transferred' = Transferred
    BY <1>1, LeftToTransfer DEF IInv, TypeOK, Underway, Vouched, Transferred
  <1>3. PICK error \in TranslationErrors(space, Cursor) : Return(ErrorAfter(error))
    BY DEF TranslationFails
  <1>4. PICK c \in {"NonCanonicalAddress", "PageNotPresent", "MappingFailed"}, k \in Nat :
          /\ error = Failure(c, k, Cursor)
          /\ k = 0 \/ (c = "MappingFailed" /\ ~reliable /\ k \in 0 .. EntrySize - 1)
          /\ \/ c = "NonCanonicalAddress" /\ Cursor \notin Canonical
             \/ c = "PageNotPresent" /\ ~space[PageBase(Cursor)].present
             \/ c = "MappingFailed" /\ ~reliable
    <2>1. CASE Cursor \notin Canonical
      BY <2>1 DEF TranslationErrors
    <2>2. CASE Cursor \in Canonical
      <3>1. \/ /\ error = Failure("PageNotPresent", 0, Cursor)
               /\ ~space[PageBase(Cursor)].present
            \/ \E k \in 0 .. EntrySize - 1 :
                 error = Failure("MappingFailed", k, Cursor) /\ ~reliable
        BY <2>2 DEF TranslationErrors
      <3>2. 0 .. EntrySize - 1 \subseteq Nat
        BY TransferAssumption
      <3> QED BY <3>1, <3>2
    <2> QED BY <2>1, <2>2
  <1>5. error.code = c /\ error.bytes = k
    BY <1>4, FailureFields
  <1>6. pc' = "done" /\ answer' = Failure(c, total + k, Cursor) /\ total + k \in Nat
    BY <1>2, <1>3, <1>5 DEF Return, ErrorAfter
  <1>7. \E excess \in 0 .. EntrySize - 1 :
          /\ Transferred' = 0 .. (total + k) - excess - 1
          /\ excess # 0 => c = "MappingFailed" /\ ~reliable
    <2>1. k \in 0 .. EntrySize - 1
      BY <1>4, TransferAssumption
    <2>2. (total + k) - k - 1 = total - 1
      BY <1>2
    <2> QED BY <1>2, <1>4, <2>1, <2>2
  <1>8. 0 .. total - 1 \subseteq Transferred' /\ \A j \in Transferred' : ~(j > total)
    BY <1>2
  <1>9. BytesWereMapped'
    BY <1>1, StillMapped DEF IInv
  <1>10. \/ c = "NonCanonicalAddress" /\ Cursor \notin Canonical
         \/ c = "PageNotPresent" /\ \E m \in during : ~m[PageBase(Cursor)].present
         \/ c = "MappingFailed" /\ ~reliable
    BY <1>2, <1>4
  <1> QED BY <1>1, <1>6, <1>7, <1>8, <1>9, <1>10, AnsweredAtCursor

\* TranslationSucceeds keeps the invariant.
LEMMA TranslationSucceedsKeeps ==
  ASSUME IInv, TranslationSucceeds
  PROVE  IInv'
  <1> DEFINE found == Translated(space, Cursor)
  <1>1. /\ pc = "translate" /\ Cursor \in Canonical /\ space[PageBase(Cursor)].present
        /\ UNCHANGED <<space, environment, during, changes, req, total, place>>
    BY DEF TranslationSucceeds
  <1>2. /\ total \in Nat /\ Cursor \in Address /\ space \in Spaces /\ space \in during
        /\ Transferred = 0 .. total - 1 /\ Transferred' = Transferred
    BY <1>1, LeftToTransfer DEF IInv, TypeOK, Underway, Vouched, Transferred
  <1>3. found.writable = space[PageBase(Cursor)].writable
    BY DEF Translated
  <1>4. BytesWereMapped'
    BY <1>1, StillMapped DEF IInv
  <1>5. CASE MayTransfer(found)
    <2>1. pc' = "transfer" /\ translation' = found
      BY <1>5 DEF TranslationSucceeds
    <2>2. found \in [physical : Address, contiguous : Nat, writable : BOOLEAN]
      BY <1>2, TranslationIsTyped
    <2>3. TypeOK'
      BY <1>1, <2>1, <2>2 DEF IInv, TypeOK, environment
    <2>4. Cursor' = Cursor
      BY <1>1 DEF Cursor
    <2>5. Underway'
      BY <1>1, <1>2, <2>4 DEF IInv, Underway
    <2>6. FoundIn(space)'
      BY <1>1, <1>3, <1>5, <2>1, <2>4 DEF FoundIn, MayTransfer
    <2>7. Vouched'
      BY <1>1, <1>2, <2>4, <2>6 DEF Vouched
    <2> QED BY <1>4, <2>1, <2>3, <2>5, <2>7, NotAnswered DEF IInv, Fresh
  <1>6. CASE ~MayTransfer(found)
    <2>1. /\ pc' = "done" /\ answer' = Failure("AccessDenied", total, Cursor)
          /\ translation' = translation
      BY <1>6 DEF TranslationSucceeds, Return
    <2>2. req.kind = "write" /\ ~space[PageBase(Cursor)].writable
      BY <1>3, <1>6 DEF MayTransfer
    <2>3. /\ 0 \in 0 .. EntrySize - 1
          /\ Transferred' = 0 .. total - 0 - 1
      BY <1>2, TransferAssumption
    <2>4. 0 .. total - 1 \subseteq Transferred' /\ \A j \in Transferred' : ~(j > total)
      BY <1>2
    <2> QED BY <1>1, <1>2, <1>4, <2>1, <2>2, <2>3, <2>4, AnsweredAtCursor
  <1> QED BY <1>5, <1>6

\* TransferFails keeps the invariant.
LEMMA TransferFailsKeeps ==
  ASSUME IInv, TransferFails
  PROVE  IInv'
  <1>1. /\ pc = "transfer"
        /\ UNCHANGED <<space, environment, during, changes, req, total, translation>>
    BY DEF TransferFails
  <1>2. PICK error \in PhysicalAnswers :
          /\ error.code # "Success"
          /\ place' = PlaceAfter(error.bytes)
          /\ Return(ErrorAfter(error))
    BY DEF TransferFails
  <1> DEFINE n == error.bytes
  <1>3. /\ error.code = "MappingFailed" /\ n \in 0 .. ChunkSize - 1
        /\ PageBase(translation.physical + n) \notin solid
    BY <1>1, <1>2, PhysicalErrors
  <1>4. pc' = "done" /\ answer' = Failure("MappingFailed", total + n, Cursor)
    BY <1>2, <1>3 DEF Return, ErrorAfter
  <1> HIDE DEF n
  <1>5. total \in Nat /\ ChunkSize \in Nat /\ n \in Nat /\ n \in 0 .. ChunkSize
    BY <1>1, <1>3, LeftToTransfer, ChunkBounds DEF IInv
  <1>6. place' = PlaceAfter(n)
    BY <1>2 DEF n
  <1>7. Transferred' = 0 .. (total + n) - 1 /\ BytesWereMapped'
    BY <1>1, <1>5, <1>6, PlacesAreMapped
  <1>8. \A j \in Transferred' : j > total => place'[j] = place'[total] + (j - total)
    <2>1. translation.physical \in Int
      BY GeometryAssumption DEF IInv, TypeOK, Address
    <2>2. \A j \in 0 .. (total + n) - 1 :
            j \in 0 .. total + n - 1 /\ (j > total => total \in 0 .. total + n - 1)
      BY <1>5
    <2>3. ASSUME NEW j \in Transferred', j > total
          PROVE  place'[j] = place'[total] + (j - total)
      <3>1. j \in 0 .. total + n - 1 /\ total \in 0 .. total + n - 1
        BY <1>7, <2>2, <2>3
      <3>2. /\ place'[j] = translation.physical + (j - total)
            /\ place'[total] = translation.physical + (total - total)
        BY <1>5, <1>6, <2>3, <3>1 DEF PlaceAfter
      <3>3. translation.physical + (total - total) = translation.physical
        BY <1>5, <2>1
      <3> QED BY <3>2, <3>3
    <2> QED BY <2>3
  <1>9. /\ 0 \in 0 .. EntrySize - 1
        /\ Transferred' = 0 .. (total + n) - 0 - 1
        /\ 0 .. total - 1 \subseteq Transferred'
    BY <1>5, <1>7, TransferAssumption
  <1>10. (total + n) - total = n /\ total + n \in Nat
    BY <1>5
  <1>11. PageBase(translation.physical + ((total + n) - total)) \notin solid
    BY <1>3, <1>10 DEF n
  <1> QED BY <1>1, <1>4, <1>7, <1>8, <1>9, <1>10, <1>11, AnsweredAtCursor

\* TransferSucceeds keeps the invariant.
LEMMA TransferSucceedsKeeps ==
  ASSUME IInv, TransferSucceeds
  PROVE  IInv'
  <1> DEFINE n == total + ChunkSize
  <1>1. /\ pc = "transfer" /\ place' = PlaceAfter(ChunkSize) /\ total' = n
        /\ translation' = NoTranslation
        /\ UNCHANGED <<space, environment, during, changes, req>>
    BY DEF TransferSucceeds
  <1>2. /\ req.at \in Nat /\ req.len \in Nat /\ total \in Nat /\ total < req.len
        /\ Cursor = req.at + total /\ Cursor \in Address
        /\ Remaining = req.len - total /\ MaxAddress \in Nat
    BY <1>1, LeftToTransfer DEF IInv
  <1>3. /\ ChunkSize \in 1 .. Remaining
        /\ ChunkSize # Remaining => PageOffset(Cursor + ChunkSize) = 0
        /\ Cursor + ChunkSize <= MaxAddress + 1
    BY <1>1, ChunkBounds
  <1>4. /\ n \in Nat /\ n \in 1 .. req.len /\ Cursor + ChunkSize = req.at + n
        /\ ChunkSize \in Nat /\ ChunkSize \in 0 .. ChunkSize
        /\ n = req.len <=> ChunkSize = Remaining
    BY <1>2, <1>3
  <1>5. /\ place' \in [0 .. n - 1 -> Address]
        /\ Transferred' = 0 .. n - 1
        /\ BytesWereMapped'
    BY <1>1, <1>4, PlacesAreMapped
  <1>6. NoTranslation \in [physical : Address, contiguous : Nat, writable : BOOLEAN]
    BY <1>2 DEF NoTranslation, Address
  <1>7. \/ /\ ~CanOffset(Cursor, ChunkSize)
           /\ pc' = "done" /\ answer' = Failure("AddressOverflow", n, Cursor)
        \/ /\ CanOffset(Cursor, ChunkSize) /\ n = req.len
           /\ pc' = "done" /\ answer' = Success(n)
        \/ /\ CanOffset(Cursor, ChunkSize) /\ n # req.len
           /\ pc' = "translate"
    BY DEF TransferSucceeds, Return
  <1>8. (req.at + total)' = req.at + n
    BY <1>1
  <1>9. CASE /\ ~CanOffset(Cursor, ChunkSize)
             /\ pc' = "done" /\ answer' = Failure("AddressOverflow", n, Cursor)
    <2>1. answer'.code = "AddressOverflow" /\ answer'.bytes = n /\ answer'.fault = Cursor
      BY <1>9, FailureFields
    <2>2. TypeOK'
      <3>1. n \in 0 .. req.len
        BY <1>4
      <3> HIDE DEF n
      <3> QED BY <1>1, <1>2, <1>4, <1>5, <1>6, <1>9, <2>1, <3>1 DEF IInv, TypeOK, environment
    <2>3. ReportsWhatWasTransferred'
      <3>1. 0 \in 0 .. EntrySize - 1 /\ n - 0 - 1 = n - 1
        BY <1>4, TransferAssumption
      <3> HIDE DEF n
      <3> QED BY <1>5, <2>1, <3>1 DEF ReportsWhatWasTransferred
    <2>4. FaultPassesOverNothing'
      <3>1. total \in 0 .. req.len - 1 /\ 0 .. total - 1 \subseteq 0 .. n - 1
        BY <1>2, <1>4
      <3>2. ASSUME NEW j \in 0 .. n - 1, j > total
            PROVE  place'[j] = place'[total] + (j - total)
        <4>1. j \in 0 .. total + ChunkSize - 1 /\ total \in 0 .. total + ChunkSize - 1
          BY <1>2, <1>3, <1>4, <3>2
        <4>2. /\ place'[j] = translation.physical + (j - total)
              /\ place'[total] = translation.physical + (total - total)
          BY <1>1, <1>2, <3>2, <4>1 DEF PlaceAfter
        <4>3. translation.physical + (total - total) = translation.physical
          BY <1>2 DEF IInv, TypeOK, Address
        <4> QED BY <4>2, <4>3
      <3> HIDE DEF n
      <3> QED BY <1>1, <1>2, <1>5, <2>1, <3>1, <3>2 DEF FaultPassesOverNothing
    <2>5. AnswersHaveReasons'
      <3>1. req.at + n = MaxAddress + 1
        <4>1. ~(ChunkSize <= MaxAddress - Cursor) /\ Cursor \in Int /\ ChunkSize \in Int
          BY <1>2, <1>4, <1>9 DEF CanOffset
        <4>2. Cursor + ChunkSize = MaxAddress + 1
          BY <1>2, <1>3, <4>1
        <4> QED BY <1>4, <4>2
      <3>2. (req.at + total)' = MaxAddress + 1
        BY <1>8, <3>1
      <3> QED BY <2>1, <3>2 DEF AnswersHaveReasons
    <2> QED BY <1>1, <1>5, <1>9, <2>2, <2>3, <2>4, <2>5
            DEF IInv, Underway, Fresh, Vouched, Answered
  <1>10. CASE /\ CanOffset(Cursor, ChunkSize) /\ n = req.len
              /\ pc' = "done" /\ answer' = Success(n)
    <2>1. answer'.code = "Success" /\ answer'.bytes = n /\ answer'.fault = 0
      BY <1>10, FailureFields
    <2>2. TypeOK'
      <3>1. n \in 0 .. req.len /\ 0 \in Address
        BY <1>2, <1>4 DEF Address
      <3> HIDE DEF n
      <3> QED BY <1>1, <1>2, <1>4, <1>5, <1>6, <1>10, <2>1, <3>1 DEF IInv, TypeOK, environment
    <2>3. ReportsWhatWasTransferred' /\ FaultPassesOverNothing'
      <3> HIDE DEF n
      <3> QED BY <1>1, <1>5, <1>10, <2>1
              DEF ReportsWhatWasTransferred, FaultPassesOverNothing
    <2>4. AnswersHaveReasons'
      <3>1. CanOffset(req.at, req.len)
        BY <1>2, <1>3, <1>4, <1>10 DEF CanOffset, Address
      <3>2. CanOffset(req.at, req.len)'
        BY <1>1, <3>1 DEF CanOffset
      <3> QED BY <2>1, <3>2 DEF AnswersHaveReasons
    <2> QED BY <1>1, <1>5, <1>10, <2>2, <2>3, <2>4
            DEF IInv, Underway, Fresh, Vouched, Answered
  <1>11. CASE /\ CanOffset(Cursor, ChunkSize) /\ n # req.len /\ pc' = "translate"
    <2>1. TypeOK'
      <3>1. n \in 0 .. req.len
        BY <1>4
      <3> HIDE DEF n
      <3> QED BY <1>1, <1>5, <1>6, <1>11, <3>1 DEF IInv, TypeOK, environment
    <2>2. Underway'
      <3>1. n < req.len /\ req.at + n \in Address
        BY <1>2, <1>3, <1>4, <1>11 DEF CanOffset, Address
      <3>2. PageOffset(req.at + n) = 0
        BY <1>3, <1>4, <1>11
      <3>3. Cursor' = req.at + n
        BY <1>8 DEF Cursor
      <3> HIDE DEF n
      <3>4. PageOffset(Cursor') = 0
        BY <3>2, <3>3
      <3> QED BY <1>1, <1>5, <3>1, <3>3, <3>4 DEF Underway, PageOffset
    <2> QED BY <1>1, <1>5, <1>11, <2>1, <2>2, NotAnswered DEF IInv, Fresh, Vouched
  <1> QED BY <1>7, <1>9, <1>10, <1>11

\* ChangeSpace keeps the invariant.
LEMMA ChangeSpaceKeeps ==
  ASSUME IInv, ChangeSpace
  PROVE  IInv'
  <1>1. /\ pc \in {"translate", "transfer"} /\ changes < MaxChanges
        /\ space' \in Spaces /\ during' = during \cup {space'} /\ changes' = changes + 1
        /\ UNCHANGED <<environment, pc, req, total, translation, place, answer>>
    BY DEF ChangeSpace
  <1>2. changes' \in 0 .. MaxChanges
    BY <1>1, TransferAssumption DEF IInv, TypeOK
  <1>3. TypeOK'
    BY <1>1, <1>2 DEF IInv, TypeOK, environment
  <1>4. Cursor' = Cursor /\ Transferred' = Transferred
    BY <1>1 DEF Cursor, Transferred
  <1>5. Underway' /\ Fresh'
    BY <1>1, <1>4 DEF IInv, Underway, Fresh
  <1>6. Vouched'
    <2>1. \A m : FoundIn(m) => FoundIn(m)'
      BY <1>1, <1>4 DEF FoundIn
    <2> QED BY <1>1, <1>4, <2>1 DEF IInv, Vouched
  <1>7. BytesWereMapped'
    BY <1>1, StillMapped DEF IInv
  <1>8. pc' # "done"
    BY <1>1
  <1> QED BY <1>3, <1>5, <1>6, <1>7, <1>8, NotAnswered DEF IInv

\* Every step keeps the invariant.
LEMMA StepInvariant == IInv /\ [Next]_vars => IInv'
  <1> SUFFICES ASSUME IInv, [Next]_vars PROVE IInv'
    OBVIOUS
  <1>1. ASSUME NEW r \in Requests, Call(r) PROVE IInv'
    BY <1>1, CallKeeps
  <1>2. CASE TransferStep
    BY <1>2, TranslationFailsKeeps, TranslationSucceedsKeeps, TransferFailsKeeps,
       TransferSucceedsKeeps DEF TransferStep
  <1>3. CASE ChangeSpace
    BY <1>3, ChangeSpaceKeeps
  <1>4. CASE UNCHANGED vars
    <2>1. TypeOK' /\ Underway' /\ Fresh' /\ Vouched'
      BY <1>4 DEF vars, environment, IInv, TypeOK, Underway, Fresh, Vouched, Cursor,
                  Transferred, FoundIn
    <2>2. BytesWereMapped'
      BY <1>4, StillMapped DEF vars, IInv
    <2>3. Answered'
      BY <1>4 DEF vars, environment, IInv, Answered, ReportsWhatWasTransferred,
                  FaultPassesOverNothing, AnswersHaveReasons, Transferred
    <2> QED BY <2>1, <2>2, <2>3 DEF IInv
  <1> QED BY <1>1, <1>2, <1>3, <1>4 DEF Next

\* So it holds throughout.
LEMMA InvariantHolds == Spec => []IInv
  BY InitInvariant, StepInvariant, PTL DEF Spec

-----------------------------------------------------------------------------

\* The state of a call keeps its types: every physical address it transfers
\* from or to lies in the physical address space.
THEOREM TypeCorrect == Spec => []TypeOK
  <1>1. IInv => TypeOK
    BY DEF IInv
  <1> QED BY <1>1, InvariantHolds, PTL

\* However often the address space changes, a byte is transferred only where
\* some address space of the call had its address, and written only where
\* that address space let it be written.
THEOREM TransfersOnlyMapped == Spec => []BytesWereMapped
  <1>1. IInv => BytesWereMapped
    BY DEF IInv
  <1> QED BY <1>1, InvariantHolds, PTL

\* A call reports what it transferred, but for a page walk that failed in the
\* middle of an entry.
THEOREM ReportsTransfers == Spec => []ReportsWhatWasTransferred
  <1>1. IInv => ReportsWhatWasTransferred
    BY DEF IInv, Answered
  <1> QED BY <1>1, InvariantHolds, PTL

\* To go on from the address a failed call blames passes over no byte.
THEOREM NothingPassedOver == Spec => []FaultPassesOverNothing
  <1>1. IInv => FaultPassesOverNothing
    BY DEF IInv, Answered
  <1> QED BY <1>1, InvariantHolds, PTL

\* A call fails only for a reason that was there while it ran, and no call
\* for a region that ends with the address space succeeds.
THEOREM FailuresHaveReasons == Spec => []AnswersHaveReasons
  <1>1. IInv => AnswersHaveReasons
    BY DEF IInv, Answered
  <1> QED BY <1>1, InvariantHolds, PTL

=============================================================================
