---------------------- MODULE PhysicalMemoryReaderProofs ----------------------
(***************************************************************************)
(* Proofs about PhysicalMemoryReader, for any number of threads, any page  *)
(* size, any memory and any reads.                                         *)
(***************************************************************************)
EXTENDS PhysicalMemoryReader, PageArithmetic, FiniteSetTheorems

IInv == TypeOK /\ TransferInvariant

\* What the fallback of an address reads is not empty, fits in its page and
\* is asked for.
LEMMA FragmentBounds ==
  ASSUME NEW a \in Int, NEW n \in Nat \ {0}
  PROVE  /\ FallbackSize(a, n) \in 1 .. n
         /\ FallbackSize(a, n) + PageOffset(a) <= PageSize
         /\ FallbackSize(a, n) # n => FallbackSize(a, n) = PageSize - PageOffset(a)
  <1>1. PageSize \in Nat \ {0}
    BY GeometryAssumption
  <1>2. PageOffset(a) \in 0 .. PageSize - 1
    BY PageBaseProperties
  <1> QED BY <1>1, <1>2 DEF FallbackSize, StdMin

\* ReadMapped never refuses the arguments ReadInto gives it.
LEMMA MapArgumentsAccepted ==
  ASSUME NEW a \in Address, NEW n \in Nat \ {0}
  PROVE  MapArgumentError(a, FallbackSize(a, n)) = "Success"
  <1>1. PageSize \in Nat \ {0} /\ MaxAddress \in Nat
    BY GeometryAssumption
  <1>2. a \in Int
    BY <1>1 DEF Address
  <1>3. PageOffset(a) \in 0 .. PageSize - 1
    BY <1>2, PageBaseProperties
  <1>4. FallbackSize(a, n) + PageOffset(a) <= PageSize /\ FallbackSize(a, n) \in Int
    BY <1>2, FragmentBounds
  <1>5. PageBase(a) \in Int /\ PageBase(a) + PageSize - 1 <= MaxAddress
    BY <1>1, PageInSpace DEF Pages, Address
  <1>6. IsRegion(PageBase(a), PageSize)
    BY <1>1, <1>5 DEF IsRegion, CanOffset
  <1> QED BY <1>1, <1>3, <1>4, <1>6 DEF MapArgumentError

\* A call in progress stays in the address space.
LEMMA CursorInSpace ==
  ASSUME TypeOK, TransferInvariant, NEW t \in Threads,
         pc[t] \notin {"idle", "start"}
  PROVE  /\ Cursor(t) \in Address
         /\ Remaining(t) \in Nat \ {0}
         /\ \A i \in 0 .. req[t].len - 1 : req[t].src + i \in Address
         /\ CanOffset(req[t].src, total[t])
  <1>1. MaxAddress \in Nat
    BY GeometryAssumption
  <1>2. req[t].src \in Int /\ 0 <= req[t].src /\ req[t].len \in Nat /\ total[t] \in Nat
    BY <1>1 DEF TypeOK, Address
  <1>3. total[t] < req[t].len /\ IsRegion(req[t].src, req[t].len)
    BY DEF TransferInvariant, CallInvariant
  <1>4. req[t].len - 1 <= MaxAddress - req[t].src
    BY <1>3 DEF IsRegion, CanOffset
  <1> QED BY <1>1, <1>2, <1>3, <1>4 DEF Cursor, Remaining, Address, CanOffset

\* Steps that leave a thread's state alone leave what holds of it alone.
LEMMA OthersUndisturbed ==
  ASSUME NEW u \in Threads, CallInvariant(u),
         access' = access,
         pc'[u] = pc[u], req'[u] = req[u], total'[u] = total[u],
         buffer'[u] = buffer[u], mapping'[u] = mapping[u],
         result'[u] = result[u]
  PROVE  CallInvariant(u)'
  BY DEF CallInvariant, Exact, IsRegion, CanOffset, Cursor, Fragment,
         Remaining, PageBase, FallbackSize, PageOffset, Pages, Address

\* Success and Failure are answers, and neither is Pending.
LEMMA AnswersAreAnswers ==
  ASSUME NEW n \in Nat, NEW a \in Address, NEW c \in ErrorCodes
  PROVE  /\ Success(n) \in Answers /\ Success(n) # Pending /\ Success(n).bytes = n
         /\ Failure(c, n, a) \in Answers /\ Failure(c, n, a) # Pending
         /\ Failure(c, n, a).bytes = n
         /\ Pending \in Answers
  <1>1. 0 \in Address /\ 0 \in Nat
    BY GeometryAssumption DEF Address
  <1>2. Success(n).code # Pending.code /\ Failure(c, n, a).code # Pending.code
    BY DEF Success, Failure, Pending, ErrorCodes
  <1> QED BY <1>1, <1>2 DEF Success, Failure, Pending, Answers, ErrorCodes

\* The invariant holds in every initial state.
LEMMA InitInvariant == Init => IInv
  <1> SUFFICES ASSUME Init PROVE IInv
    OBVIOUS
  <1>1. 0 \in Address /\ 0 \in Nat /\ MaxAddress \in Nat
    BY GeometryAssumption DEF Address
  <1>2. Success(0) \in Answers /\ Success(0) # Pending /\ Success(0).bytes = 0
    BY <1>1 DEF Success, Answers, Pending
  <1>3. TypeOK
    BY <1>1, <1>2, ReaderAssumption DEF Init, TypeOK, CounterNames
  <1>4. TransferInvariant
    BY <1>1, <1>2 DEF Init, TransferInvariant, CallInvariant, Exact
  <1> QED BY <1>3, <1>4 DEF IInv

\* Filling a stretch of a buffer keeps its domain and the rest of it.
LEMMA FilledProperties ==
  ASSUME NEW S, NEW len \in Nat, NEW dest \in [0 .. len - 1 -> S],
         NEW at \in Nat, NEW n \in Nat, NEW a \in Int, at + n <= len,
         \A i \in at .. at + n - 1 : a + (i - at) \in S
  PROVE  /\ Filled(dest, at, n, a) \in [0 .. len - 1 -> S]
         /\ \A i \in at .. at + n - 1 : Filled(dest, at, n, a)[i] = a + (i - at)
         /\ \A i \in 0 .. at - 1 : Filled(dest, at, n, a)[i] = dest[i]
  BY DEF Filled

Labels == {"idle", "start", "copy", "failed", "map", "countPage", "countBytes"}

\* Returning an answer, or going on, keeps what is returned well typed.
LEMMA ReturnTyped ==
  ASSUME TypeOK, NEW t \in Threads, NEW answer \in Answers, Return(t, answer)
  PROVE  pc' \in [Threads -> Labels] /\ result' \in [Threads -> Answers]
         /\ returned' \in Nat
  <1>1. answer.bytes \in Nat
    BY DEF Answers
  <1>2. /\ pc \in [Threads -> Labels]
        /\ result \in [Threads -> Answers]
        /\ returned \in Nat
    BY DEF TypeOK, Labels
  <1>3. "idle" \in Labels
    BY DEF Labels
  <1> QED BY <1>1, <1>2, <1>3 DEF Return

\* Goto keeps the types of what it changes.
LEMMA GotoTyped ==
  ASSUME TypeOK, NEW t \in Threads, NEW label \in Labels, Goto(t, label)
  PROVE  pc' \in [Threads -> Labels] /\ result' \in [Threads -> Answers]
         /\ returned' \in Nat
  BY DEF TypeOK, Goto, Labels

\* Counting keeps the counters natural numbers.
LEMMA CountTyped ==
  ASSUME TypeOK, NEW counter \in CounterNames, NEW n \in Nat, Count(counter, n)
  PROVE  stats' \in [CounterNames -> Nat]
  <1>1. stats \in [CounterNames -> Nat]
    BY DEF TypeOK
  <1>2. stats[counter] + n \in Nat
    BY <1>1
  <1> QED BY <1>1, <1>2 DEF Count

\* The counters, by number and by name.
LEMMA CountersNamed ==
  {"BytesCopied", "CopyFailures", "PagesMapped", "BytesMapped"} = CounterNames
  <1>1. /\ Counters[1] = "BytesCopied" /\ Counters[2] = "CopyFailures"
        /\ Counters[3] = "PagesMapped" /\ Counters[4] = "BytesMapped"
    BY DEF Counters
  <1>2. 1 .. 4 = {1, 2, 3, 4}
    OBVIOUS
  <1>3. CounterNames = {Counters[i] : i \in {1, 2, 3, 4}}
    BY <1>2 DEF CounterNames
  <1> QED BY <1>1, <1>3

\* Call keeps the invariant.
LEMMA CallKeeps ==
  ASSUME IInv, NEW t \in Threads, Call(t)
  PROVE  IInv'
  <1> USE DEF IInv
  <1>1. PICK r \in Requests :
          /\ req' = [req EXCEPT ![t] = r]
          /\ buffer' = [buffer EXCEPT ![t] = [i \in 0 .. r.len - 1 |-> Unset]]
    BY DEF Call
  <1>2. r \in [src : Address, len : Nat]
    BY ReaderAssumption
  <1>3. Pending \in Answers
    BY GeometryAssumption DEF Pending, Answers, Address
  <1>4. TypeOK'
    <2>1. pc' \in [Threads -> {"idle", "start", "copy", "failed", "map",
                               "countPage", "countBytes"}]
      BY DEF TypeOK, Call
    <2>2. req' \in [Threads -> [src : Address, len : Nat]]
      BY <1>1, <1>2 DEF TypeOK
    <2>3. DOMAIN buffer' = Threads
      BY <1>1 DEF TypeOK
    <2>4. \A u \in Threads :
            buffer'[u] \in [0 .. req'[u].len - 1 -> Address \cup {Unset}]
      BY <1>1, <1>2 DEF TypeOK
    <2>5. result' \in [Threads -> Answers] /\ total' \in [Threads -> Nat]
      BY <1>3 DEF TypeOK, Call
    <2>6. calls' \in [Threads -> 0 .. MaxCalls]
      BY ReaderAssumption DEF TypeOK, Call
    <2> QED BY <2>1, <2>2, <2>3, <2>4, <2>5, <2>6 DEF TypeOK, Call
  <1>5. CallInvariant(t)'
    BY <1>1 DEF TypeOK, Call, CallInvariant
  <1>6. \A u \in Threads \ {t} : CallInvariant(u)'
    BY <1>1, OthersUndisturbed DEF TypeOK, Call, TransferInvariant
  <1> QED BY <1>4, <1>5, <1>6 DEF TransferInvariant

\* Start keeps the invariant.
LEMMA StartKeeps ==
  ASSUME IInv, NEW t \in Threads, Start(t)
  PROVE  IInv'
  <1> USE DEF IInv
  <1>1. 0 \in Nat /\ req[t].src \in Address /\ req[t].len \in Nat /\ pc[t] = "start"
    BY DEF TypeOK, Start
  <1>2. total[t] = 0
    BY <1>1 DEF TransferInvariant, CallInvariant
  <1>3. /\ Success(0) \in Answers /\ Success(0) # Pending /\ Success(0).bytes = 0
        /\ Failure("AddressOverflow", 0, req[t].src) \in Answers
        /\ Failure("AddressOverflow", 0, req[t].src) # Pending
        /\ Failure("AddressOverflow", 0, req[t].src).bytes = 0
    BY <1>1, AnswersAreAnswers DEF ErrorCodes
  <1>4. TypeOK'
    <2>1. /\ pc' \in [Threads -> Labels]
          /\ result' \in [Threads -> Answers]
          /\ returned' \in Nat
      BY <1>3, ReturnTyped, GotoTyped DEF Start, Labels
    <2> QED BY <2>1 DEF TypeOK, Start, Labels
  <1>5. CallInvariant(t)'
    <2>1. CASE Goto(t, "copy") /\ IsRegion(req[t].src, req[t].len)
      BY <1>1, <1>2, <2>1 DEF TypeOK, Start, Goto, CallInvariant, TransferInvariant,
           Exact, IsRegion
    <2>2. CASE Return(t, Success(0))
      BY <1>1, <1>3, <2>2 DEF TypeOK, Start, Return, CallInvariant, Exact
    <2>3. CASE Return(t, Failure("AddressOverflow", 0, req[t].src))
      BY <1>1, <1>3, <2>3 DEF TypeOK, Start, Return, CallInvariant, Exact
    <2> QED BY <2>1, <2>2, <2>3 DEF Start
  <1>6. \A u \in Threads \ {t} : CallInvariant(u)'
    BY OthersUndisturbed DEF TypeOK, Start, Return, Goto, TransferInvariant
  <1> QED BY <1>4, <1>5, <1>6 DEF TransferInvariant

\* Copy keeps the invariant.
LEMMA CopyKeeps ==
  ASSUME IInv, NEW t \in Threads, Copy(t)
  PROVE  IInv'
  <1> USE DEF IInv
  <1>1. /\ req[t].src \in Int /\ req[t].len \in Nat /\ total[t] \in Nat
        /\ pc[t] = "copy" /\ result[t] = Pending
    BY GeometryAssumption DEF TypeOK, Copy, Address, TransferInvariant, CallInvariant
  <1>2. /\ Cursor(t) \in Address
        /\ Remaining(t) \in Nat \ {0}
        /\ \A i \in 0 .. req[t].len - 1 : req[t].src + i \in Address
        /\ CanOffset(req[t].src, total[t])
    BY <1>1, CursorInSpace
  <1>3. PICK n \in CopyLengths(Cursor(t), Remaining(t)) :
          /\ buffer' = [buffer EXCEPT ![t] = Filled(@, total[t], n, Cursor(t))]
          /\ total' = [total EXCEPT ![t] = @ + n]
          /\ Count("BytesCopied", n)
          /\ IF n = Remaining(t) THEN Return(t, Success(req[t].len))
                                 ELSE Goto(t, "failed")
    BY <1>2 DEF Copy
  <1>4. /\ n \in 0 .. Remaining(t)
        /\ n < Remaining(t) => "copy" \notin access[PageBase(Cursor(t) + n)]
    BY <1>2, <1>3 DEF CopyLengths
  <1>5. /\ n \in Nat /\ total[t] + n <= req[t].len
        /\ Cursor(t) = req[t].src + total[t]
        /\ Remaining(t) = req[t].len - total[t]
    BY <1>1, <1>2, <1>4 DEF Remaining, Cursor
  <1>6. /\ buffer'[t] \in [0 .. req[t].len - 1 -> Address \cup {Unset}]
        /\ \A i \in 0 .. total[t] + n - 1 : buffer'[t][i] = req[t].src + i
    <2>1. buffer[t] \in [0 .. req[t].len - 1 -> Address \cup {Unset}]
      BY DEF TypeOK
    <2>2. \A i \in total[t] .. total[t] + n - 1 :
            Cursor(t) + (i - total[t]) \in Address \cup {Unset}
      BY <1>1, <1>2, <1>4, <1>5
    <2>3. \A i \in 0 .. total[t] - 1 : buffer[t][i] = req[t].src + i
      BY <1>1 DEF TransferInvariant, CallInvariant, Exact
    <2>4. buffer'[t] = Filled(buffer[t], total[t], n, Cursor(t))
      BY <1>3 DEF TypeOK
    <2>5. Cursor(t) \in Int
      BY <1>1 DEF Cursor
    <2> HIDE DEF IInv
    <2>6. buffer'[t] = [i \in 0 .. req[t].len - 1 |->
                          IF i \in total[t] .. total[t] + n - 1
                          THEN Cursor(t) + (i - total[t]) ELSE buffer[t][i]]
      BY <2>1, <2>4 DEF Filled
    <2>7. buffer'[t] \in [0 .. req[t].len - 1 -> Address \cup {Unset}]
      BY <2>1, <2>2, <2>6
    <2>8. ASSUME NEW i \in 0 .. total[t] + n - 1
          PROVE  buffer'[t][i] = req[t].src + i
      <3>1. i \in 0 .. req[t].len - 1
        BY <1>1, <1>5
      <3>2. CASE i \in total[t] .. total[t] + n - 1
        BY <1>1, <1>5, <2>6, <3>1, <3>2
      <3>3. CASE i \notin total[t] .. total[t] + n - 1
        <4>1. i \in 0 .. total[t] - 1
          BY <1>1, <1>5, <3>3
        <4> QED BY <2>3, <2>6, <3>1, <3>3, <4>1
      <3> QED BY <3>2, <3>3
    <2> QED BY <2>7, <2>8
  <1>7. TypeOK'
    <2>1. Success(req[t].len) \in Answers
      BY <1>1, <1>2, AnswersAreAnswers DEF ErrorCodes
    <2>2. stats' \in [CounterNames -> Nat]
      BY <1>3, <1>5, CountTyped, CountersNamed
    <2>3. total' \in [Threads -> Nat]
      BY <1>3, <1>5 DEF TypeOK
    <2>4. /\ pc' \in [Threads -> Labels]
          /\ result' \in [Threads -> Answers]
          /\ returned' \in Nat
      BY <1>3, <2>1, ReturnTyped, GotoTyped DEF Labels
    <2>5. /\ DOMAIN buffer' = Threads
          /\ \A u \in Threads :
               buffer'[u] \in [0 .. req'[u].len - 1 -> Address \cup {Unset}]
      BY <1>3, <1>6 DEF TypeOK, Copy
    <2> QED BY <2>2, <2>3, <2>4, <2>5 DEF TypeOK, Copy, Labels
  <1>8. CallInvariant(t)'
    <2>1. CASE n = Remaining(t)
      <3>1. Success(req[t].len) # Pending /\ Success(req[t].len).bytes = req[t].len
        BY DEF Success, Pending
      <3>2. /\ pc'[t] = "idle" /\ result'[t] = Success(req[t].len)
            /\ req' = req
        BY <1>3, <2>1 DEF TypeOK, Return, Copy
      <3> QED BY <1>1, <1>5, <1>6, <2>1, <3>1, <3>2 DEF CallInvariant, Exact
    <2>2. CASE n # Remaining(t)
      <3>1. /\ pc'[t] = "failed" /\ result'[t] = Pending
            /\ req' = req /\ access' = access /\ total'[t] = total[t] + n
        BY <1>1, <1>3, <2>2 DEF TypeOK, Goto, Copy
      <3>2. Cursor(t)' = Cursor(t) + n
        BY <1>1, <1>4, <1>5, <3>1 DEF Cursor
      <3>3. "copy" \notin access[PageBase(Cursor(t) + n)]
        BY <1>2, <1>4, <2>2
      <3>4. IsRegion(req[t].src, req[t].len)
        BY <1>1 DEF TransferInvariant, CallInvariant
      <3>5. ("copy" \notin access[PageBase(Cursor(t))])'
        BY <3>1, <3>2, <3>3 DEF PageBase
      <3> QED BY <1>1, <1>4, <1>5, <1>6, <2>2, <3>1, <3>4, <3>5
              DEF CallInvariant, Exact, IsRegion, CanOffset
    <2> QED BY <2>1, <2>2
  <1>9. \A u \in Threads \ {t} : CallInvariant(u)'
    BY <1>3, OthersUndisturbed DEF TypeOK, Copy, Return, Goto, TransferInvariant
  <1> QED BY <1>7, <1>8, <1>9 DEF TransferInvariant

\* CountFailure keeps the invariant.
LEMMA CountFailureKeeps ==
  ASSUME IInv, NEW t \in Threads, CountFailure(t)
  PROVE  IInv'
  <1> USE DEF IInv
  <1>1. pc[t] = "failed" /\ CanOffset(req[t].src, total[t])
    BY CursorInSpace DEF CountFailure
  <1>2. Goto(t, "map") /\ Count("CopyFailures", 1)
    BY <1>1 DEF CountFailure
  <1>3. TypeOK'
    <2>1. stats' \in [CounterNames -> Nat]
      BY <1>2, CountTyped, CountersNamed
    <2>2. /\ pc' \in [Threads -> Labels]
          /\ result' \in [Threads -> Answers]
          /\ returned' \in Nat
      BY <1>2, GotoTyped DEF Labels
    <2> QED BY <2>1, <2>2 DEF TypeOK, CountFailure, Labels
  <1>4. CallInvariant(t)'
    BY <1>1, <1>2 DEF TypeOK, CountFailure, Goto, TransferInvariant, CallInvariant,
         Exact, IsRegion, CanOffset, Cursor, PageBase
  <1>5. \A u \in Threads \ {t} : CallInvariant(u)'
    BY <1>2, OthersUndisturbed DEF TypeOK, CountFailure, Goto, TransferInvariant
  <1> QED BY <1>3, <1>4, <1>5 DEF TransferInvariant

\* MapRefused keeps the invariant.
LEMMA MapRefusedKeeps ==
  ASSUME IInv, NEW t \in Threads, MapRefused(t)
  PROVE  IInv'
  <1> USE DEF IInv
  <1>1. pc[t] = "map" /\ total[t] \in Nat
    BY DEF MapRefused, TypeOK
  <1>2. Cursor(t) \in Address /\ Remaining(t) \in Nat \ {0}
    BY <1>1, CursorInSpace
  <1>3. Return(t, Failure("MappingFailed", total[t], Cursor(t)))
    BY <1>2, MapArgumentsAccepted DEF MapRefused, Fragment
  <1>4. /\ Failure("MappingFailed", total[t], Cursor(t)) \in Answers
        /\ Failure("MappingFailed", total[t], Cursor(t)) # Pending
        /\ Failure("MappingFailed", total[t], Cursor(t)).bytes = total[t]
    BY <1>1, <1>2, AnswersAreAnswers DEF ErrorCodes
  <1>5. TypeOK'
    <2>1. /\ pc' \in [Threads -> Labels]
          /\ result' \in [Threads -> Answers]
          /\ returned' \in Nat
      BY <1>3, <1>4, ReturnTyped
    <2> QED BY <2>1 DEF TypeOK, MapRefused, Labels
  <1>6. CallInvariant(t)'
    <2>1. /\ pc'[t] = "idle"
          /\ result'[t] = Failure("MappingFailed", total[t], Cursor(t))
          /\ req' = req /\ buffer' = buffer
      BY <1>3 DEF TypeOK, Return, MapRefused
    <2>2. total[t] < req[t].len /\ Exact(t, 0, total[t]) /\ req[t].len \in Nat
      BY <1>1 DEF TypeOK, TransferInvariant, CallInvariant
    <2> QED BY <1>1, <1>4, <2>1, <2>2 DEF CallInvariant, Exact
  <1>7. \A u \in Threads \ {t} : CallInvariant(u)'
    BY <1>3, OthersUndisturbed DEF TypeOK, MapRefused, Return, TransferInvariant
  <1> QED BY <1>5, <1>6, <1>7 DEF TransferInvariant

\* A fragment of a call in progress: it fits in what is left of the request
\* and of the page.
LEMMA FragmentFits ==
  ASSUME TypeOK, TransferInvariant, NEW t \in Threads,
         pc[t] \notin {"idle", "start"}
  PROVE  /\ Fragment(t) \in 1 .. Remaining(t)
         /\ total[t] + Fragment(t) <= req[t].len
         /\ Fragment(t) + PageOffset(Cursor(t)) <= PageSize
         /\ Fragment(t) # Remaining(t) => (Cursor(t) + Fragment(t)) % PageSize = 0
         /\ Cursor(t) = req[t].src + total[t]
         /\ Remaining(t) = req[t].len - total[t]
  <1>1. /\ req[t].src \in Int /\ req[t].len \in Nat /\ total[t] \in Nat
    BY GeometryAssumption DEF TypeOK, Address
  <1>2. Cursor(t) \in Int /\ Remaining(t) \in Nat \ {0}
    BY <1>1, CursorInSpace DEF Cursor
  <1>3. /\ Fragment(t) \in 1 .. Remaining(t)
        /\ Fragment(t) + PageOffset(Cursor(t)) <= PageSize
        /\ Fragment(t) # Remaining(t) =>
             Fragment(t) = PageSize - PageOffset(Cursor(t))
    BY <1>2, FragmentBounds DEF Fragment
  <1>4. (Cursor(t) + (PageSize - PageOffset(Cursor(t)))) % PageSize = 0
    BY <1>2, NextPageStart
  <1>5. Cursor(t) = req[t].src + total[t] /\ Remaining(t) = req[t].len - total[t]
    BY DEF Cursor, Remaining
  <1> QED BY <1>1, <1>2, <1>3, <1>4, <1>5

\* MapPage keeps the invariant.
LEMMA MapPageKeeps ==
  ASSUME IInv, NEW t \in Threads, MapPage(t)
  PROVE  IInv'
  <1> USE DEF IInv
  <1>1. /\ pc[t] = "map" /\ result[t] = Pending
        /\ req[t].src \in Int /\ req[t].len \in Nat /\ total[t] \in Nat
    BY GeometryAssumption DEF TypeOK, MapPage, Address, TransferInvariant, CallInvariant
  <1>2. /\ Cursor(t) \in Address /\ Cursor(t) \in Int
        /\ \A i \in 0 .. req[t].len - 1 : req[t].src + i \in Address
    BY <1>1, CursorInSpace DEF Cursor
  <1>3. /\ Fragment(t) \in Nat
        /\ total[t] + Fragment(t) <= req[t].len
        /\ Cursor(t) = req[t].src + total[t]
    BY <1>1, FragmentFits, CursorInSpace
  <1>4. MappedSource(Cursor(t)) = Cursor(t)
    BY <1>2, PageBaseProperties DEF MappedSource
  <1>5. /\ mapping' = [mapping EXCEPT ![t] = PageBase(Cursor(t))]
        /\ buffer' = [buffer EXCEPT ![t] =
                        Filled(@, total[t], Fragment(t), Cursor(t))]
        /\ Goto(t, "countPage")
    BY <1>4 DEF MapPage
  <1>6. /\ buffer[t] \in [0 .. req[t].len - 1 -> Address \cup {Unset}]
        /\ \A i \in 0 .. total[t] - 1 : buffer[t][i] = req[t].src + i
    BY <1>1 DEF TypeOK, TransferInvariant, CallInvariant, Exact
  <1>7. buffer'[t] = [i \in 0 .. req[t].len - 1 |->
                        IF i \in total[t] .. total[t] + Fragment(t) - 1
                        THEN Cursor(t) + (i - total[t]) ELSE buffer[t][i]]
    <2>1. buffer'[t] = Filled(buffer[t], total[t], Fragment(t), Cursor(t))
      BY <1>5 DEF TypeOK
    <2> QED BY <1>6, <2>1 DEF Filled
  <1>8. buffer'[t] \in [0 .. req[t].len - 1 -> Address \cup {Unset}]
    <2>1. \A i \in total[t] .. total[t] + Fragment(t) - 1 :
            Cursor(t) + (i - total[t]) \in Address
      BY <1>1, <1>2, <1>3
    <2> QED BY <1>6, <1>7, <2>1
  <1>9. /\ \A i \in 0 .. total[t] - 1 : buffer'[t][i] = req[t].src + i
        /\ \A i \in total[t] .. total[t] + Fragment(t) - 1 :
             buffer'[t][i] = req[t].src + i
    <2>1. ASSUME NEW i \in 0 .. total[t] - 1
          PROVE  buffer'[t][i] = req[t].src + i
      <3>1. i \in 0 .. req[t].len - 1 /\ i \notin total[t] .. total[t] + Fragment(t) - 1
        BY <1>1, <1>3
      <3> QED BY <1>6, <1>7, <3>1
    <2>2. ASSUME NEW i \in total[t] .. total[t] + Fragment(t) - 1
          PROVE  buffer'[t][i] = req[t].src + i
      <3>1. i \in 0 .. req[t].len - 1
        BY <1>1, <1>3
      <3>2. buffer'[t][i] = Cursor(t) + (i - total[t])
        BY <1>7, <3>1
      <3> QED BY <1>1, <1>3, <3>2
    <2> QED BY <2>1, <2>2
  <1>10. TypeOK'
    <2>1. /\ pc' \in [Threads -> Labels]
          /\ result' \in [Threads -> Answers]
          /\ returned' \in Nat
      BY <1>5, GotoTyped DEF Labels
    <2>2. mapping' \in [Threads -> Pages \cup {NoPage}]
      BY <1>2, <1>5, PageInSpace DEF TypeOK
    <2>3. /\ DOMAIN buffer' = Threads
          /\ \A u \in Threads :
               buffer'[u] \in [0 .. req'[u].len - 1 -> Address \cup {Unset}]
      BY <1>5, <1>8 DEF TypeOK, MapPage
    <2> QED BY <2>1, <2>2, <2>3 DEF TypeOK, MapPage, Labels
  <1>11. CallInvariant(t)'
    <2>1. /\ pc'[t] = "countPage" /\ result'[t] = Pending
          /\ req' = req /\ total' = total
          /\ mapping'[t] = PageBase(Cursor(t))
      BY <1>1, <1>5 DEF TypeOK, Goto, MapPage
    <2>2. Cursor(t)' = Cursor(t) /\ Fragment(t)' = Fragment(t)
      BY <2>1 DEF Cursor, Fragment, Remaining
    <2>3. IsRegion(req[t].src, req[t].len) /\ total[t] < req[t].len
      BY <1>1 DEF TransferInvariant, CallInvariant
    <2>4. (PageBase(Cursor(t)))' = PageBase(Cursor(t))
      BY <2>2 DEF PageBase
    <2>5. Exact(t, 0, total[t])' /\ Exact(t, total[t], total[t] + Fragment(t))'
      <3>1. \A i \in 0 .. total'[t] - 1 : buffer'[t][i] = req'[t].src + i
        BY <1>9, <2>1
      <3>2. \A i \in total'[t] .. total'[t] + (Fragment(t))' - 1 :
              buffer'[t][i] = req'[t].src + i
        BY <1>9, <2>1, <2>2
      <3> QED BY <1>1, <1>3, <2>1, <2>2, <3>1, <3>2 DEF Exact
    <2>6. IsRegion(req[t].src, req[t].len)' /\ (total[t] < req[t].len)'
      BY <2>1, <2>3 DEF IsRegion, CanOffset
    <2>7. (result[t] # Pending)' = FALSE
      BY <2>1 DEF Pending
    <2> QED BY <2>1, <2>4, <2>5, <2>6, <2>7 DEF CallInvariant
  <1>12. \A u \in Threads \ {t} : CallInvariant(u)'
    BY <1>5, OthersUndisturbed DEF TypeOK, MapPage, Goto, TransferInvariant
  <1> QED BY <1>10, <1>11, <1>12 DEF TransferInvariant

\* CountPage keeps the invariant.
LEMMA CountPageKeeps ==
  ASSUME IInv, NEW t \in Threads, CountPage(t)
  PROVE  IInv'
  <1> USE DEF IInv
  <1>1. pc[t] = "countPage" /\ Goto(t, "countBytes") /\ Count("PagesMapped", 1)
    BY DEF CountPage
  <1>2. TypeOK'
    <2>1. stats' \in [CounterNames -> Nat]
      BY <1>1, CountTyped, CountersNamed
    <2>2. /\ pc' \in [Threads -> Labels]
          /\ result' \in [Threads -> Answers]
          /\ returned' \in Nat
      BY <1>1, GotoTyped DEF Labels
    <2> QED BY <2>1, <2>2 DEF TypeOK, CountPage, Labels
  <1>3. CallInvariant(t)'
    <2>1. /\ pc'[t] = "countBytes" /\ result' = result
          /\ req' = req /\ total' = total /\ mapping' = mapping /\ buffer' = buffer
      BY <1>1 DEF TypeOK, Goto, CountPage
    <2>2. Cursor(t)' = Cursor(t) /\ Fragment(t)' = Fragment(t)
      BY <2>1 DEF Cursor, Fragment, Remaining
    <2>3. (PageBase(Cursor(t)))' = PageBase(Cursor(t))
      BY <2>2 DEF PageBase
    <2> QED BY <1>1, <2>1, <2>2, <2>3
            DEF TransferInvariant, CallInvariant, Exact, IsRegion, CanOffset
  <1>4. \A u \in Threads \ {t} : CallInvariant(u)'
    BY <1>1, OthersUndisturbed DEF TypeOK, CountPage, Goto, TransferInvariant
  <1> QED BY <1>2, <1>3, <1>4 DEF TransferInvariant

\* CountBytes keeps the invariant.
LEMMA CountBytesKeeps ==
  ASSUME IInv, NEW t \in Threads, CountBytes(t)
  PROVE  IInv'
  <1> USE DEF IInv
  <1>1. /\ pc[t] = "countBytes" /\ result[t] = Pending
        /\ req[t].src \in Int /\ req[t].len \in Nat /\ total[t] \in Nat
    BY GeometryAssumption DEF TypeOK, CountBytes, Address, TransferInvariant, CallInvariant
  <1>2. /\ Fragment(t) \in 1 .. Remaining(t) /\ Fragment(t) \in Nat
        /\ total[t] + Fragment(t) <= req[t].len
        /\ Fragment(t) # Remaining(t) => (Cursor(t) + Fragment(t)) % PageSize = 0
        /\ Cursor(t) = req[t].src + total[t]
        /\ Remaining(t) = req[t].len - total[t]
    BY <1>1, FragmentFits
  <1>3. \A i \in 0 .. total[t] + Fragment(t) - 1 : buffer[t][i] = req[t].src + i
    <2>1. Exact(t, 0, total[t]) /\ Exact(t, total[t], total[t] + Fragment(t))
      BY <1>1 DEF TransferInvariant, CallInvariant
    <2> QED BY <1>1, <1>2, <2>1 DEF Exact
  <1>4. /\ Count("BytesMapped", Fragment(t))
        /\ total' = [total EXCEPT ![t] = @ + Fragment(t)]
        /\ IF Fragment(t) = Remaining(t) THEN Return(t, Success(req[t].len))
                                         ELSE Goto(t, "copy")
    BY DEF CountBytes, MappedBytes
  <1>5. /\ Success(req[t].len) \in Answers /\ Success(req[t].len) # Pending
        /\ Success(req[t].len).bytes = req[t].len
    BY <1>1, CursorInSpace, AnswersAreAnswers DEF ErrorCodes
  <1>6. TypeOK'
    <2>1. stats' \in [CounterNames -> Nat]
      BY <1>2, <1>4, CountTyped, CountersNamed
    <2>2. /\ pc' \in [Threads -> Labels]
          /\ result' \in [Threads -> Answers]
          /\ returned' \in Nat
      BY <1>4, <1>5, ReturnTyped, GotoTyped DEF Labels
    <2>3. total' \in [Threads -> Nat]
      BY <1>2, <1>4 DEF TypeOK
    <2>4. mapping' \in [Threads -> Pages \cup {NoPage}]
      BY DEF TypeOK, CountBytes
    <2> QED BY <2>1, <2>2, <2>3, <2>4 DEF TypeOK, CountBytes, Labels
  <1>7. CallInvariant(t)'
    <2>1. CASE Fragment(t) = Remaining(t)
      <3>1. /\ pc'[t] = "idle" /\ result'[t] = Success(req[t].len)
            /\ req' = req /\ buffer' = buffer
        BY <1>4, <2>1 DEF TypeOK, Return, CountBytes
      <3> QED BY <1>1, <1>2, <1>3, <1>5, <2>1, <3>1 DEF CallInvariant, Exact
    <2>2. CASE Fragment(t) # Remaining(t)
      <3>1. /\ pc'[t] = "copy" /\ result'[t] = Pending
            /\ req' = req /\ buffer' = buffer /\ total'[t] = total[t] + Fragment(t)
        BY <1>1, <1>4, <2>2 DEF TypeOK, Goto, CountBytes
      <3>2. Cursor(t)' = Cursor(t) + Fragment(t)
        BY <1>1, <1>2, <3>1 DEF Cursor
      <3>3. IsRegion(req[t].src, req[t].len)
        BY <1>1 DEF TransferInvariant, CallInvariant
      <3>4. total'[t] < req[t].len
        BY <1>1, <1>2, <2>2, <3>1
      <3>5. Cursor(t)' \in Address
        <4>1. \A i \in 0 .. req[t].len - 1 : req[t].src + i \in Address
          BY <1>1, CursorInSpace
        <4>2. Cursor(t)' = req[t].src + total'[t] /\ total'[t] \in 0 .. req[t].len - 1
          BY <1>1, <1>2, <3>1, <3>2, <3>4
        <4> QED BY <4>1, <4>2
      <3>6. Cursor(t)' \in Pages
        BY <1>2, <2>2, <3>2, <3>5 DEF Pages
      <3> QED BY <1>1, <1>2, <1>3, <3>1, <3>3, <3>4, <3>6
              DEF CallInvariant, Exact, IsRegion, CanOffset, Pages, Address
    <2> QED BY <2>1, <2>2
  <1>8. \A u \in Threads \ {t} : CallInvariant(u)'
    BY <1>4, OthersUndisturbed DEF TypeOK, CountBytes, Return, Goto, TransferInvariant
  <1> QED BY <1>6, <1>7, <1>8 DEF TransferInvariant

\* ResetStore keeps the invariant.
LEMMA ResetStoreKeeps ==
  ASSUME IInv, NEW r \in Resetters, ResetStore(r)
  PROVE  IInv'
  <1> USE DEF IInv
  <1>1. UNCHANGED <<access, pc, req, total, buffer, mapping, result, calls, returned>>
    BY DEF ResetStore, local
  <1>2. stats' \in [CounterNames -> Nat] /\ resetAt' \in [Resetters -> 1 .. 4]
    <2>1. stats' = [stats EXCEPT ![Counters[resetAt[r]]] = 0]
      BY DEF ResetStore, ResetCounter
    <2>2. stats' \in [CounterNames -> Nat]
      BY <2>1 DEF TypeOK
    <2>3. resetAt' \in [Resetters -> 1 .. 4]
      <3>1. resetAt[r] \in 1 .. 4 /\ resetAt \in [Resetters -> 1 .. 4]
        BY DEF TypeOK
      <3>2. (IF resetAt[r] = 4 THEN 1 ELSE resetAt[r] + 1) \in 1 .. 4
        BY <3>1
      <3> QED BY <3>1, <3>2 DEF ResetStore
    <2> QED BY <2>2, <2>3
  <1>3. resets' \in [Resetters -> 0 .. MaxResets]
    <2>1. resetAt[r] = 1 => resets[r] + 1 \in 0 .. MaxResets
      BY ReaderAssumption DEF TypeOK, ResetStore
    <2> QED BY <2>1 DEF TypeOK, ResetStore
  <1>4. TypeOK'
    BY <1>1, <1>2, <1>3 DEF TypeOK
  <1>5. \A u \in Threads : CallInvariant(u)'
    BY <1>1, OthersUndisturbed DEF TransferInvariant
  <1> QED BY <1>4, <1>5 DEF TransferInvariant

\* Every step keeps the invariant.
LEMMA StepInvariant == IInv /\ [Next]_vars => IInv'
  <1> SUFFICES ASSUME IInv, [Next]_vars PROVE IInv'
    OBVIOUS
  <1>1. CASE UNCHANGED vars
    <2>1. UNCHANGED <<access, pc, req, total, buffer, mapping, result, calls,
                      returned, stats, resetAt, resets>>
      BY <1>1 DEF vars, local
    <2>2. \A u \in Threads : CallInvariant(u)'
      BY <2>1, OthersUndisturbed DEF IInv, TransferInvariant
    <2> QED BY <2>1, <2>2 DEF IInv, TypeOK, TransferInvariant
  <1>2. ASSUME NEW t \in Threads, Call(t) PROVE IInv'
    BY <1>2, CallKeeps
  <1>3. ASSUME NEW t \in Threads, ReadStep(t) PROVE IInv'
    BY <1>3, StartKeeps, CopyKeeps, CountFailureKeeps, MapRefusedKeeps,
       MapPageKeeps, CountPageKeeps, CountBytesKeeps DEF ReadStep
  <1>4. ASSUME NEW r \in Resetters, ResetStore(r) PROVE IInv'
    BY <1>4, ResetStoreKeeps
  <1> QED BY <1>1, <1>2, <1>3, <1>4 DEF Next

\* Every variable of the reader keeps its type, for any number of threads.
THEOREM TypeCorrect == SafetySpec => []TypeOK
  <1>1. SafetySpec => []IInv
    BY InitInvariant, StepInvariant, PTL DEF SafetySpec
  <1>2. IInv => TypeOK
    BY DEF IInv
  <1> QED BY <1>1, <1>2, PTL

\* Between any two steps of a call of ReadInto, the bytes it has transferred
\* are the first of those asked for, and an answer vouches only for those.
THEOREM TransferIsExact == SafetySpec => []TransferInvariant
  <1>1. SafetySpec => []IInv
    BY InitInvariant, StepInvariant, PTL DEF SafetySpec
  <1>2. IInv => TransferInvariant
    BY DEF IInv
  <1> QED BY <1>1, <1>2, PTL

\* The copy out of a mapping never leaves the one page that is mapped.
THEOREM CopyStaysInPage == SafetySpec => []MappedCopyStaysInPage
  <1>1. SafetySpec => []IInv
    BY InitInvariant, StepInvariant, PTL DEF SafetySpec
  <1>2. IInv => MappedCopyStaysInPage
    <2> SUFFICES ASSUME IInv, NEW t \in Threads, pc[t] = "countPage",
                        NEW i \in total[t] .. total[t] + Fragment(t) - 1
                 PROVE  PageBase(buffer[t][i]) = mapping[t]
      BY DEF MappedCopyStaysInPage
    <2>1. /\ req[t].src \in Int /\ total[t] \in Nat /\ req[t].len \in Nat
      BY GeometryAssumption DEF IInv, TypeOK, Address
    <2>2. /\ Fragment(t) \in 1 .. Remaining(t) /\ Fragment(t) \in Nat
          /\ Fragment(t) + PageOffset(Cursor(t)) <= PageSize
          /\ Cursor(t) = req[t].src + total[t] /\ Cursor(t) \in Int
          /\ Remaining(t) = req[t].len - total[t]
      BY <2>1, FragmentFits DEF IInv
    <2>3. buffer[t][i] = req[t].src + i /\ mapping[t] = PageBase(Cursor(t))
      <3>1. /\ mapping[t] = PageBase(Cursor(t))
            /\ Exact(t, total[t], total[t] + Fragment(t))
        BY DEF IInv, TransferInvariant, CallInvariant
      <3> QED BY <2>1, <2>2, <3>1 DEF Exact
    <2> DEFINE k == i - total[t]
    <2>4. k \in Int /\ 0 <= k /\ k < Fragment(t) /\ req[t].src + i = Cursor(t) + k
      BY <2>1, <2>2
    <2>5. PageSize \in Nat /\ PageOffset(Cursor(t)) \in 0 .. PageSize - 1
      BY <2>2, GeometryAssumption, PageBaseProperties
    <2> HIDE DEF k
    <2>6. 0 <= PageOffset(Cursor(t)) + k /\ PageOffset(Cursor(t)) + k < PageSize
      BY <2>2, <2>4, <2>5
    <2>7. PageBase(Cursor(t) + k) = PageBase(Cursor(t))
      BY <2>2, <2>4, <2>6, SamePage
    <2> QED BY <2>3, <2>4, <2>7
  <1> QED BY <1>1, <1>2, PTL

-----------------------------------------------------------------------------
(***************************************************************************)
(* The reader implements its contract: the start and the answer of a call  *)
(* are the contract's steps, and everything in between is invisible.       *)
(***************************************************************************)

\* A step inside a call shows nothing.
LEMMA QuietStep ==
  ASSUME TypeOK, NEW t \in Threads, result[t] = Pending,
         result' = result, req' = req, access' = access,
         \A u \in Threads \ {t} : buffer'[u] = buffer[u]
  PROVE  UNCHANGED Contract!contractVars
  <1>1. SolidPages' = SolidPages
    BY DEF SolidPages, Pages, Address
  <1>2. \A u \in Threads : Delivered(u)' = Delivered(u)
    BY DEF Delivered, Pending
  <1>3. [u \in Threads |-> Delivered(u)]' = [u \in Threads |-> Delivered(u)]
    BY <1>2
  <1> QED BY <1>1, <1>3 DEF Contract!contractVars

\* A step that answers a call with an answer the contract allows finishes it.
LEMMA AnswerStep ==
  ASSUME TypeOK, NEW t \in Threads, NEW answer, CallInvariant(t)',
         result[t] = Pending, answer # Pending, Return(t, answer),
         answer \in Contract!ReadAnswers(req[t].src, req[t].len, SolidPages),
         req' = req, access' = access,
         \A u \in Threads \ {t} : buffer'[u] = buffer[u]
  PROVE  Contract!Finish(t)
  <1>1. SolidPages' = SolidPages
    BY DEF SolidPages, Pages, Address
  <1>2. /\ result' = [result EXCEPT ![t] = answer]
        /\ pc'[t] = "idle" /\ result'[t] = answer
    BY DEF Return, TypeOK
  <1>3. \A u \in Threads \ {t} : Delivered(u)' = Delivered(u)
    BY <1>2 DEF Delivered, Pending, TypeOK
  <1>4. \A i \in 0 .. answer.bytes - 1 : buffer'[t][i] = req[t].src + i
    BY <1>2 DEF CallInvariant, Exact
  <1>5. Delivered(t)' = [i \in 0 .. answer.bytes - 1 |-> buffer'[t][i]]
    BY <1>2 DEF Delivered, Pending
  <1>6. Delivered(t)' = [i \in 0 .. answer.bytes - 1 |-> req[t].src + i]
    BY <1>4, <1>5
  <1>7. [u \in Threads |-> Delivered(u)]' =
          [[u \in Threads |-> Delivered(u)] EXCEPT ![t] =
             [i \in 0 .. answer.bytes - 1 |-> req[t].src + i]]
    BY <1>3, <1>6
  <1>8. result[t] = Contract!Pending
    BY DEF Pending, Contract!Pending
  <1> QED BY <1>1, <1>2, <1>7, <1>8 DEF Contract!Finish

\* Calling ReadInto is the beginning of a call.
LEMMA CallBegins ==
  ASSUME IInv, NEW t \in Threads, Call(t)
  PROVE  Contract!Begin(t)
  <1>1. result[t] # Pending
    BY DEF IInv, TransferInvariant, CallInvariant, Call
  <1>2. PICK r \in Requests :
          /\ req' = [req EXCEPT ![t] = r]
          /\ buffer' = [buffer EXCEPT ![t] = [i \in 0 .. r.len - 1 |-> Unset]]
    BY DEF Call
  <1>3. result' = [result EXCEPT ![t] = Pending] /\ result'[t] = Pending
    BY DEF Call, IInv, TypeOK
  <1>4. \A u \in Threads \ {t} : Delivered(u)' = Delivered(u)
    BY <1>2, <1>3 DEF Delivered, Pending, IInv, TypeOK
  <1>5. Delivered(t)' = Contract!NoBytes
    BY <1>3 DEF Delivered, Pending, Contract!NoBytes
  <1>6. [u \in Threads |-> Delivered(u)]' =
          [[u \in Threads |-> Delivered(u)] EXCEPT ![t] = Contract!NoBytes]
    BY <1>4, <1>5
  <1>7. SolidPages' = SolidPages
    BY DEF SolidPages, Pages, Address, Call
  <1> QED BY <1>1, <1>2, <1>3, <1>6, <1>7
          DEF Contract!Begin, Contract!Pending, Pending

\* What the contract allows to answer.
LEMMA AllowedAnswers ==
  ASSUME NEW src \in Address, NEW len \in Nat, NEW solid
  PROVE  /\ len = 0 => Success(0) \in Contract!ReadAnswers(src, len, solid)
         /\ len # 0 /\ ~CanOffset(src, len - 1) =>
              Failure("AddressOverflow", 0, src) \in Contract!ReadAnswers(src, len, solid)
         /\ IsRegion(src, len) =>
              Success(len) \in Contract!ReadAnswers(src, len, solid)
         /\ IsRegion(src, len) =>
              \A k \in 0 .. len - 1 : PageBase(src + k) \notin solid =>
                Failure("MappingFailed", k, src + k)
                  \in Contract!ReadAnswers(src, len, solid)
  BY DEF Contract!ReadAnswers, Contract!Success, Contract!Failure, Contract!CanOffset,
         Contract!PageBase, Success, Failure, CanOffset, PageBase, IsRegion

\* Every step of a call is the answer to it, or invisible.
LEMMA ReadStepRefines ==
  ASSUME IInv, IInv', NEW t \in Threads, ReadStep(t)
  PROVE  Contract!Finish(t) \/ UNCHANGED Contract!contractVars
  <1>1. /\ pc[t] # "idle" /\ result[t] = Pending
        /\ req[t].src \in Address /\ req[t].len \in Nat /\ total[t] \in Nat
    BY DEF IInv, TypeOK, TransferInvariant, CallInvariant, ReadStep, Start, Copy,
           CountFailure, MapRefused, MapPage, CountPage, CountBytes
  <1>2. TypeOK /\ CallInvariant(t)'
    BY DEF IInv, TransferInvariant
  <1>3. /\ req' = req /\ access' = access
        /\ \A u \in Threads \ {t} : buffer'[u] = buffer[u]
    <2>1. DOMAIN buffer = Threads
      BY <1>2 DEF TypeOK
    <2> QED BY <2>1 DEF ReadStep, Start, Copy, CountFailure, MapRefused,
                        MapPage, CountPage, CountBytes
  <1>4. ASSUME NEW label, Goto(t, label)
        PROVE  UNCHANGED Contract!contractVars
    BY <1>1, <1>2, <1>3, <1>4, QuietStep DEF Goto
  <1>5. ASSUME NEW answer, answer # Pending, Return(t, answer),
               answer \in Contract!ReadAnswers(req[t].src, req[t].len, SolidPages)
        PROVE  Contract!Finish(t)
    BY <1>1, <1>2, <1>3, <1>5, AnswerStep
  <1>6. CASE Start(t)
    <2>1. Success(0) # Pending /\ Failure("AddressOverflow", 0, req[t].src) # Pending
      BY <1>1, AnswersAreAnswers DEF ErrorCodes
    <2> QED BY <1>1, <1>4, <1>5, <1>6, <2>1, AllowedAnswers DEF Start
  <1>7. pc[t] # "start" => /\ IsRegion(req[t].src, req[t].len)
                           /\ total[t] < req[t].len
                           /\ Cursor(t) \in Address
                           /\ Remaining(t) \in Nat \ {0}
                           /\ CanOffset(req[t].src, total[t])
    BY <1>1, CursorInSpace DEF IInv, TransferInvariant, CallInvariant
  <1>8. /\ Success(req[t].len) # Pending
        /\ IsRegion(req[t].src, req[t].len) =>
             Success(req[t].len)
               \in Contract!ReadAnswers(req[t].src, req[t].len, SolidPages)
    BY <1>1, AllowedAnswers DEF Success, Pending
  <1>9. CASE Copy(t)
    BY <1>4, <1>5, <1>7, <1>8, <1>9 DEF Copy
  <1>10. CASE CountFailure(t)
    BY <1>4, <1>7, <1>10 DEF CountFailure
  <1>11. CASE MapRefused(t)
    <2>1. pc[t] = "map"
      BY <1>11 DEF MapRefused
    <2>2. /\ Return(t, Failure("MappingFailed", total[t], Cursor(t)))
          /\ "map" \notin access[PageBase(Cursor(t))]
      BY <1>7, <1>11, <2>1, MapArgumentsAccepted DEF MapRefused, Fragment
    <2>3. "copy" \notin access[PageBase(Cursor(t))]
      BY <2>1 DEF IInv, TransferInvariant, CallInvariant
    <2>4. access \in [Pages -> SUBSET {"copy", "map"}]
      BY <1>2, ReaderAssumption DEF TypeOK
    <2>5. PageBase(Cursor(t)) \in Pages
      BY <1>7, <2>1, PageInSpace
    <2>6. access[PageBase(Cursor(t))] = {}
      BY <2>2, <2>3, <2>4, <2>5
    <2>7. PageBase(req[t].src + total[t]) \notin SolidPages
      BY <2>6 DEF SolidPages, Cursor
    <2>8. total[t] \in 0 .. req[t].len - 1
      BY <1>1, <1>7, <2>1
    <2>9. Failure("MappingFailed", total[t], Cursor(t))
            \in Contract!ReadAnswers(req[t].src, req[t].len, SolidPages)
      BY <1>1, <1>7, <2>1, <2>7, <2>8, AllowedAnswers DEF Cursor
    <2>10. Failure("MappingFailed", total[t], Cursor(t)) # Pending
      BY DEF Failure, Pending
    <2> QED BY <1>5, <2>2, <2>9, <2>10
  <1>12. CASE MapPage(t)
    BY <1>4, <1>12 DEF MapPage
  <1>13. CASE CountPage(t)
    BY <1>4, <1>13 DEF CountPage
  <1>14. CASE CountBytes(t)
    BY <1>4, <1>5, <1>7, <1>8, <1>14 DEF CountBytes
  <1> QED BY <1>6, <1>9, <1>10, <1>11, <1>12, <1>13, <1>14 DEF ReadStep

\* Whatever threads call it and however reads fail, a shared reader answers
\* every call as ReadContract allows (that it does answer is left to TLC).
THEOREM ReaderImplementsContract == SafetySpec => Contract!SafetySpec
  <1>1. SafetySpec => []IInv
    BY InitInvariant, StepInvariant, PTL DEF SafetySpec
  <1>2. Init => Contract!Init
    <2> SUFFICES ASSUME Init PROVE Contract!Init
      OBVIOUS
    <2>1. Success(0).bytes = 0 /\ Success(0) # Pending /\ Success(0) = Contract!Success(0)
      BY DEF Success, Pending, Contract!Success
    <2>2. \A t \in Threads : Delivered(t) = Contract!NoBytes
      BY <2>1 DEF Init, Delivered, Contract!NoBytes
    <2>3. SolidPages \in SUBSET Contract!Pages
      BY DEF SolidPages, Pages, Address, Contract!Pages, Contract!Address
    <2> QED BY <2>1, <2>2, <2>3 DEF Init, Contract!Init
  <1>3. IInv /\ IInv' /\ [Next]_vars => [Contract!Next]_(Contract!contractVars)
    <2> SUFFICES ASSUME IInv, IInv', [Next]_vars
                 PROVE  [Contract!Next]_(Contract!contractVars)
      OBVIOUS
    <2>1. CASE UNCHANGED <<access, req, buffer, result>>
      <3>1. SolidPages' = SolidPages
        BY <2>1 DEF SolidPages, Pages, Address
      <3>2. [u \in Threads |-> Delivered(u)]' = [u \in Threads |-> Delivered(u)]
        BY <2>1 DEF Delivered, Pending
      <3> QED BY <2>1, <3>1, <3>2 DEF Contract!contractVars
    <2>2. ASSUME NEW t \in Threads, Call(t) PROVE Contract!Next
      BY <2>2, CallBegins DEF Contract!Next
    <2>3. ASSUME NEW t \in Threads, ReadStep(t)
          PROVE  Contract!Next \/ UNCHANGED Contract!contractVars
      BY <2>3, ReadStepRefines DEF Contract!Next
    <2>4. UNCHANGED vars \/ (\E r \in Resetters : ResetStore(r))
            => UNCHANGED <<access, req, buffer, result>>
      BY DEF vars, local, ResetStore
    <2> QED BY <2>1, <2>2, <2>3, <2>4 DEF Next
  <1> QED BY <1>1, <1>2, <1>3, PTL DEF SafetySpec, Contract!SafetySpec

-----------------------------------------------------------------------------

\* The threads whose failed copy is counted and whose mapping is not yet.
Between == {t \in Threads : pc[t] \in {"map", "countPage"}}

\* Except when a reset has cleared CopyFailures and not yet PagesMapped, the
\* pages counted are at most the failures counted and one for each thread that
\* has no page to count.
DriftInvariant ==
  (\A r \in Resetters : resetAt[r] # 3) =>
    stats.PagesMapped + Cardinality(Between) <= stats.CopyFailures + Cardinality(Threads)

\* The counters, in the order ResetStatistics stores them.
LEMMA CounterStores ==
  /\ {"BytesCopied", "CopyFailures", "PagesMapped", "BytesMapped"} \subseteq CounterNames
  /\ Counters[1] = "BytesCopied" /\ Counters[2] = "CopyFailures"
  /\ Counters[3] = "PagesMapped" /\ Counters[4] = "BytesMapped"
  BY DEF CounterNames, Counters

\* The counts that the invariant compares are numbers.
LEMMA DriftNumbers ==
  ASSUME IsFiniteSet(Threads), TypeOK
  PROVE  /\ IsFiniteSet(Between)
         /\ Cardinality(Between) \in Nat /\ Cardinality(Threads) \in Nat
         /\ Cardinality(Between) <= Cardinality(Threads)
         /\ stats.PagesMapped \in Nat /\ stats.CopyFailures \in Nat
  <1>1. Between \in SUBSET Threads
    BY DEF Between
  <1>2. /\ IsFiniteSet(Between) /\ Cardinality(Between) <= Cardinality(Threads)
    BY <1>1, FS_Subset
  <1>3. stats.PagesMapped \in Nat /\ stats.CopyFailures \in Nat
    BY CounterStores DEF TypeOK
  <1> QED BY <1>2, <1>3, FS_CardinalityType

\* Who is between the two counters, after a step of one thread.
LEMMA BetweenAfter ==
  ASSUME TypeOK, NEW t \in Threads, NEW l, pc' = [pc EXCEPT ![t] = l]
  PROVE  Between' = IF l \in {"map", "countPage"} THEN Between \cup {t} ELSE Between \ {t}
  BY DEF TypeOK, Between

\* Every step keeps the bound of the drift.
LEMMA DriftStays ==
  ASSUME IsFiniteSet(Threads), IInv, DriftInvariant, [Next]_vars
  PROVE  DriftInvariant'
  <1>1. TypeOK
    BY DEF IInv
  <1> DEFINE n == Cardinality(Threads)
             between == Cardinality(Between)
             mapped == stats.PagesMapped
             failures == stats.CopyFailures
  <1>2. /\ between \in Nat /\ n \in Nat /\ between <= n
        /\ mapped \in Nat /\ failures \in Nat
    BY <1>1, DriftNumbers
  <1>3. \A t \in Threads :
          /\ Cardinality(Between \cup {t}) = IF t \in Between THEN between ELSE between + 1
          /\ Cardinality(Between \ {t}) = IF t \in Between THEN between - 1 ELSE between
    BY <1>1, DriftNumbers, FS_AddElement, FS_RemoveElement
  <1>4. ASSUME UNCHANGED <<resetAt, stats, Between>> PROVE DriftInvariant'
    BY <1>4 DEF DriftInvariant
  <1>5. ASSUME NEW t \in Threads, Call(t) PROVE DriftInvariant'
    <2>1. /\ pc[t] = "idle" /\ pc' = [pc EXCEPT ![t] = "start"]
          /\ UNCHANGED <<resetAt, stats>>
      BY <1>5 DEF Call
    <2>2. Between' = Between
      BY <1>1, <2>1, BetweenAfter DEF Between
    <2> QED BY <1>4, <2>1, <2>2
  <1>6. ASSUME NEW t \in Threads, Start(t) PROVE DriftInvariant'
    <2>1. PICK l \in {"idle", "copy"} : pc' = [pc EXCEPT ![t] = l]
      BY <1>6 DEF Start, Return, Goto
    <2>2. pc[t] = "start" /\ Between' = Between \ {t} /\ UNCHANGED <<resetAt, stats>>
      BY <1>1, <1>6, <2>1, BetweenAfter DEF Start
    <2> QED BY <1>4, <2>2 DEF Between
  <1>7. ASSUME NEW t \in Threads, Copy(t) PROVE DriftInvariant'
    <2>1. PICK l \in {"idle", "failed"} : pc' = [pc EXCEPT ![t] = l]
      BY <1>7 DEF Copy, Return, Goto
    <2>2. pc[t] = "copy" /\ Between' = Between \ {t} /\ UNCHANGED resetAt
      BY <1>1, <1>7, <2>1, BetweenAfter DEF Copy
    <2>3. stats'.PagesMapped = mapped /\ stats'.CopyFailures = failures
      BY <1>1, <1>7, CounterStores DEF Copy, Count, TypeOK
    <2> QED BY <2>2, <2>3 DEF Between, DriftInvariant
  <1>8. ASSUME NEW t \in Threads, CountFailure(t) PROVE DriftInvariant'
    <2>1. PICK l \in {"idle", "map"} : pc' = [pc EXCEPT ![t] = l]
      BY <1>8 DEF CountFailure, Return, Goto
    <2>2. pc[t] = "failed" /\ t \notin Between /\ UNCHANGED resetAt
      BY <1>8 DEF CountFailure, Between
    <2>3. stats'.PagesMapped = mapped /\ stats'.CopyFailures = failures + 1
      BY <1>1, <1>8, CounterStores DEF CountFailure, Count, TypeOK
    <2>4. Cardinality(Between') \in {between, between + 1}
      BY <1>1, <1>3, <2>1, <2>2, BetweenAfter
    <2> QED BY <1>2, <2>2, <2>3, <2>4 DEF DriftInvariant
  <1>9. ASSUME NEW t \in Threads, MapRefused(t) PROVE DriftInvariant'
    <2>1. pc' = [pc EXCEPT ![t] = "idle"] /\ pc[t] = "map" /\ UNCHANGED <<resetAt, stats>>
      BY <1>9 DEF MapRefused, Return
    <2>2. Cardinality(Between') = between - 1
      BY <1>1, <1>3, <2>1, BetweenAfter DEF Between
    <2> QED BY <1>2, <2>1, <2>2 DEF DriftInvariant
  <1>10. ASSUME NEW t \in Threads, MapPage(t) PROVE DriftInvariant'
    <2>1. /\ pc' = [pc EXCEPT ![t] = "countPage"] /\ pc[t] = "map"
          /\ UNCHANGED <<resetAt, stats>>
      BY <1>10 DEF MapPage, Goto
    <2>2. Between' = Between
      BY <1>1, <2>1, BetweenAfter DEF Between
    <2> QED BY <1>4, <2>1, <2>2
  <1>11. ASSUME NEW t \in Threads, CountPage(t) PROVE DriftInvariant'
    <2>1. /\ pc' = [pc EXCEPT ![t] = "countBytes"] /\ pc[t] = "countPage"
          /\ UNCHANGED resetAt
      BY <1>11 DEF CountPage, Goto
    <2>2. stats'.PagesMapped = mapped + 1 /\ stats'.CopyFailures = failures
      BY <1>1, <1>11, CounterStores DEF CountPage, Count, TypeOK
    <2>3. Cardinality(Between') = between - 1
      BY <1>1, <1>3, <2>1, BetweenAfter DEF Between
    <2> QED BY <1>2, <2>1, <2>2, <2>3 DEF DriftInvariant
  <1>12. ASSUME NEW t \in Threads, CountBytes(t) PROVE DriftInvariant'
    <2>1. PICK l \in {"idle", "copy"} : pc' = [pc EXCEPT ![t] = l]
      BY <1>12 DEF CountBytes, Return, Goto
    <2>2. pc[t] = "countBytes" /\ Between' = Between \ {t} /\ UNCHANGED resetAt
      BY <1>1, <1>12, <2>1, BetweenAfter DEF CountBytes
    <2>3. stats'.PagesMapped = mapped /\ stats'.CopyFailures = failures
      BY <1>1, <1>12, CounterStores DEF CountBytes, Count, TypeOK
    <2> QED BY <2>2, <2>3 DEF Between, DriftInvariant
  <1>13. ASSUME NEW r \in Resetters, ResetStore(r) PROVE DriftInvariant'
    <2>1. /\ stats' = [stats EXCEPT ![Counters[resetAt[r]]] = 0] /\ Between' = Between
          /\ resetAt[r] \in 1 .. 4
          /\ resetAt'[r] = IF resetAt[r] = 4 THEN 1 ELSE resetAt[r] + 1
          /\ \A u \in Resetters \ {r} : resetAt'[u] = resetAt[u]
      BY <1>1, <1>13 DEF ResetStore, ResetCounter, local, Between, TypeOK
    <2>2. CASE resetAt[r] \in {1, 4}
      <3>1. stats'.PagesMapped = mapped /\ stats'.CopyFailures = failures
        BY <1>1, <2>1, <2>2, CounterStores DEF TypeOK
      <3> QED BY <2>1, <2>2, <3>1 DEF DriftInvariant
    <2>3. CASE resetAt[r] = 2
      BY <2>1, <2>3 DEF DriftInvariant
    <2>4. CASE resetAt[r] = 3
      <3>1. stats'.PagesMapped = 0 /\ stats'.CopyFailures = failures
        BY <1>1, <2>1, <2>4, CounterStores DEF TypeOK
      <3> QED BY <1>2, <2>1, <3>1 DEF DriftInvariant
    <2> QED BY <2>1, <2>2, <2>3, <2>4
  <1>14. CASE UNCHANGED vars
    BY <1>4, <1>14 DEF vars, local, Between
  <1> QED BY <1>5, <1>6, <1>7, <1>8, <1>9, <1>10, <1>11, <1>12, <1>13, <1>14
          DEF Next, ReadStep

\* However often the counters are reset while any number of threads read, they
\* never show more pages mapped than copies failed and threads there are.
THEOREM DriftIsBounded ==
  ASSUME IsFiniteSet(Threads)
  PROVE  SafetySpec => []ResetDriftIsBounded
  <1>1. Init => DriftInvariant
    <2> SUFFICES ASSUME Init PROVE DriftInvariant
      OBVIOUS
    <2>1. IInv
      BY InitInvariant
    <2>2. stats.PagesMapped = 0 /\ stats.CopyFailures = 0
      BY CounterStores DEF Init
    <2>3. /\ Cardinality(Between) \in Nat /\ Cardinality(Threads) \in Nat
          /\ Cardinality(Between) <= Cardinality(Threads)
      BY <2>1, DriftNumbers DEF IInv
    <2> QED BY <2>2, <2>3 DEF DriftInvariant
  <1>2. IInv /\ DriftInvariant /\ [Next]_vars => DriftInvariant'
    BY DriftStays
  <1>3. IInv /\ DriftInvariant => ResetDriftIsBounded
    <2> SUFFICES ASSUME IInv, DriftInvariant, \A r \in Resetters : resetAt[r] = 1
                 PROVE  stats.PagesMapped <= stats.CopyFailures + Cardinality(Threads)
      BY DEF ResetDriftIsBounded
    <2>1. /\ stats.PagesMapped + Cardinality(Between)
               <= stats.CopyFailures + Cardinality(Threads)
      BY DEF DriftInvariant
    <2> QED BY <2>1, DriftNumbers DEF IInv
  <1> QED BY <1>1, <1>2, <1>3, InitInvariant, StepInvariant, PTL DEF SafetySpec

-----------------------------------------------------------------------------

\* What a property passes to a finite set from its strict subsets holds of all of
\* them: a smallest exception has no place.
LEMMA SmallestException ==
  ASSUME NEW D, IsFiniteSet(D), NEW F,
         \A T \in SUBSET D : (\A U \in SUBSET T : U # T => U \in F) => T \in F
  PROVE  SUBSET D \subseteq F
  <1> DEFINE R == StrictSubsetOrdering(D)
             B == (SUBSET D) \ F
  <1>1. IsWellFoundedOn(R, SUBSET D)
    BY FS_StrictSubsetOrderingWellFounded, FS_FiniteSubsetsOfFinite
  <1>2. SUFFICES ASSUME B # {} PROVE FALSE
    OBVIOUS
  <1>3. \E x \in B : \A y \in B : ~ (<<y, x>> \in R)
    <2>1. B \subseteq SUBSET D
      OBVIOUS
    <2> HIDE DEF R, B
    <2> QED BY <1>1, <1>2, <2>1, WFMin
  <1>4. PICK T \in B : \A y \in B : ~ (<<y, T>> \in R)
    BY <1>3
  <1>5. ASSUME NEW U \in SUBSET T, U # T
        PROVE  U \in F
    <2>1. U \in SUBSET D /\ <<U, T>> \in R
      BY <1>5 DEF StrictSubsetOrdering
    <2> QED BY <1>4, <2>1
  <1> QED BY <1>4, <1>5

\* SumFunction takes out of each set the element that CHOOSE takes.
Chosen(s) == CHOOSE x \in s : TRUE

\* The sums of f over the subsets of S, one from another.
SumsOver(f, S, sum) ==
  sum = [s \in SUBSET S |-> IF s = {} THEN 0 ELSE f[Chosen(s)] + sum[s \ {Chosen(s)}]]

Sums(f) == CHOOSE sum : SumsOver(f, DOMAIN f, sum)

\* SumFunction is the last of these sums.
LEMMA SumFunctionIsSum ==
  ASSUME NEW f
  PROVE  SumFunction(f) = Sums(f)[DOMAIN f]
  BY DEF SumFunction, SumFunctionOnSet, FoldFunctionOnSet, MapThenFoldSet, Sums, SumsOver,
         Chosen

\* What is taken out of a set is an element of it.
LEMMA ChosenIsElement ==
  ASSUME NEW s, s # {}
  PROVE  Chosen(s) \in s
  BY DEF Chosen

\* There is only one sum over a finite set.
LEMMA SumsAgree ==
  ASSUME NEW D, IsFiniteSet(D), NEW f, NEW S \in SUBSET D, NEW T \in SUBSET D,
         NEW sum, SumsOver(f, S, sum), NEW tum, SumsOver(f, T, tum),
         NEW s, s \subseteq S, s \subseteq T
  PROVE  sum[s] = tum[s]
  <1> DEFINE F == {u \in SUBSET D : u \subseteq S /\ u \subseteq T => sum[u] = tum[u]}
  <1>1. ASSUME NEW u \in SUBSET D, \A v \in SUBSET u : v # u => v \in F
        PROVE  u \in F
    <2> SUFFICES ASSUME u \subseteq S, u \subseteq T PROVE sum[u] = tum[u]
      OBVIOUS
    <2> DEFINE c == Chosen(u)
               rest == u \ {c}
    <2>1. sum[u] = IF u = {} THEN 0 ELSE f[c] + sum[rest]
      BY DEF SumsOver
    <2>2. tum[u] = IF u = {} THEN 0 ELSE f[c] + tum[rest]
      BY DEF SumsOver
    <2>3. CASE u = {}
      BY <2>1, <2>2, <2>3
    <2>4. CASE u # {}
      <3>1. c \in u
        BY <2>4, ChosenIsElement
      <3> HIDE DEF c
      <3>2. rest \in SUBSET u /\ rest # u
        BY <3>1
      <3>3. sum[rest] = tum[rest]
        BY <1>1, <3>2
      <3> QED BY <2>1, <2>2, <2>4, <3>3
    <2> QED BY <2>3, <2>4
  <1> HIDE DEF F
  <1>2. SUBSET D \subseteq F
    BY <1>1, SmallestException
  <1>3. s \in F
    BY <1>2
  <1> QED BY <1>3 DEF F

\* And there is one.
LEMMA SumsExist ==
  ASSUME NEW D, IsFiniteSet(D), NEW f
  PROVE  \E sum : SumsOver(f, D, sum)
  <1> DEFINE F == {S \in SUBSET D : \E sum : SumsOver(f, S, sum)}
             Sum(S) == CHOOSE sum : SumsOver(f, S, sum)
  <1>1. ASSUME NEW S \in SUBSET D, \A T \in SUBSET S : T # S => T \in F
        PROVE  S \in F
    <2> DEFINE Rest(s) == s \ {Chosen(s)}
               sum == [s \in SUBSET S |->
                         IF s = {} THEN 0 ELSE f[Chosen(s)] + Sum(Rest(s))[Rest(s)]]
    <2>1. ASSUME NEW T \in SUBSET S, T # S
          PROVE  SumsOver(f, T, Sum(T))
      BY <1>1, <2>1
    <2>2. ASSUME NEW s \in SUBSET S, s # {}
          PROVE  Rest(s) \in SUBSET S /\ Rest(s) # S /\ Rest(s) \subseteq s
      BY <2>2, ChosenIsElement
    <2> HIDE DEF Sum, Rest
    <2>3. ASSUME NEW T \in SUBSET S, T # S
          PROVE  sum[T] = Sum(T)[T]
      <3>1. Sum(T)[T] = IF T = {} THEN 0 ELSE f[Chosen(T)] + Sum(T)[Rest(T)]
        BY <2>1, <2>3 DEF SumsOver, Rest
      <3>2. CASE T = {}
        BY <3>1, <3>2
      <3>3. CASE T # {}
        <4> DEFINE U == Rest(T)
        <4>1. U \in SUBSET S /\ U # S /\ U \subseteq T
          BY <2>2, <3>3
        <4>2. SumsOver(f, T, Sum(T)) /\ SumsOver(f, U, Sum(U))
          BY <2>1, <2>3, <4>1
        <4>3. T \in SUBSET D /\ U \in SUBSET D /\ U \subseteq U
          BY <4>1
        <4> HIDE DEF U
        <4>4. Sum(T)[U] = Sum(U)[U]
          BY <4>1, <4>2, <4>3, SumsAgree
        <4> QED BY <3>1, <3>3, <4>4 DEF U
      <3> QED BY <3>2, <3>3
    <2>4. SumsOver(f, S, sum)
      <3>1. ASSUME NEW s \in SUBSET S
            PROVE  sum[s] = IF s = {} THEN 0 ELSE f[Chosen(s)] + sum[Rest(s)]
        <4>1. s # {} => sum[Rest(s)] = Sum(Rest(s))[Rest(s)]
          BY <2>2, <2>3
        <4> QED BY <4>1
      <3>2. sum = [s \in SUBSET S |-> sum[s]]
        OBVIOUS
      <3> HIDE DEF sum
      <3> QED BY <3>1, <3>2 DEF SumsOver, Rest
    <2> QED BY <2>4
  <1> HIDE DEF F
  <1>2. SUBSET D \subseteq F
    BY <1>1, SmallestException
  <1>3. D \in F
    BY <1>2
  <1> QED BY <1>3 DEF F

\* The sums over the subsets of D, from any of which any element may be taken out.
AddsUp(f, D, sum) ==
  /\ sum \in [SUBSET D -> Int]
  /\ sum[{}] = 0
  /\ \A s \in SUBSET D : \A x \in s : sum[s] = f[x] + sum[s \ {x}]

\* What is added first does not matter.
LEMMA TakeOut ==
  ASSUME NEW D, IsFiniteSet(D), NEW f \in [D -> Int]
  PROVE  AddsUp(f, D, Sums(f))
  <1> DEFINE sum == Sums(f)
  <1>1. SumsOver(f, D, sum)
    <2>1. \E g : SumsOver(f, DOMAIN f, g)
      BY SumsExist
    <2>2. SumsOver(f, DOMAIN f, sum)
      BY <2>1 DEF Sums
    <2> QED BY <2>2
  <1> HIDE DEF sum
  <1>2. sum = [s \in SUBSET D |->
                 IF s = {} THEN 0 ELSE f[Chosen(s)] + sum[s \ {Chosen(s)}]]
    BY <1>1 DEF SumsOver
  <1>3. sum[{}] = 0
    BY <1>2
  <1>4. ASSUME NEW s \in SUBSET D, s # {}
        PROVE  /\ Chosen(s) \in s
               /\ sum[s] = f[Chosen(s)] + sum[s \ {Chosen(s)}]
    BY <1>2, <1>4, ChosenIsElement
  <1> DEFINE F == {s \in SUBSET D :
                     sum[s] \in Int /\ \A x \in s : sum[s] = f[x] + sum[s \ {x}]}
  <1>5. ASSUME NEW s \in SUBSET D, \A u \in SUBSET s : u # s => u \in F
        PROVE  s \in F
    <2>1. CASE s = {}
      BY <1>3, <2>1
    <2>2. CASE s # {}
      <3> PICK c : c = Chosen(s)
        OBVIOUS
      <3>1. c \in s /\ sum[s] = f[c] + sum[s \ {c}]
        BY <1>4, <2>2
      <3>2. ASSUME NEW x \in s
            PROVE  s \ {x} \in F
        BY <1>5
      <3>3. sum[s] \in Int
        BY <3>1, <3>2
      <3>4. ASSUME NEW x \in s, x # c
            PROVE  sum[s] = f[x] + sum[s \ {x}]
        <4> DEFINE both == (s \ {x}) \ {c}
        <4>1. sum[s \ {x}] = f[c] + sum[both]
          BY <3>1, <3>2, <3>4
        <4>2. sum[s \ {c}] = f[x] + sum[both]
          <5>1. (s \ {c}) \ {x} = both
            OBVIOUS
          <5>2. s \ {c} \in F /\ x \in s \ {c}
            BY <3>1, <3>2, <3>4
          <5> HIDE DEF both
          <5> QED BY <5>1, <5>2
        <4>3. both \in F
          BY <1>5, <3>4
        <4>4. sum[both] \in Int /\ f[x] \in Int /\ f[c] \in Int
          BY <3>1, <4>3
        <4> HIDE DEF both
        <4> QED BY <3>1, <4>1, <4>2, <4>4
      <3> QED BY <3>1, <3>3, <3>4
    <2> QED BY <2>1, <2>2
  <1> HIDE DEF F
  <1>6. SUBSET D \subseteq F
    BY <1>5, SmallestException
  <1>7. \A s \in SUBSET D : sum[s] \in Int /\ \A x \in s : sum[s] = f[x] + sum[s \ {x}]
    BY <1>6 DEF F
  <1>8. DOMAIN sum = SUBSET D /\ sum = [s \in SUBSET D |-> sum[s]]
    BY <1>2
  <1>9. sum \in [SUBSET D -> Int]
    BY <1>7, <1>8
  <1> QED BY <1>3, <1>7, <1>9 DEF sum, AddsUp

\* The sum of numbers is a number, that of zeros is zero, and it changes as far as
\* one of them does.
LEMMA SumIsNumber ==
  ASSUME NEW D, IsFiniteSet(D), NEW f \in [D -> Int]
  PROVE  /\ SumFunction(f) \in Int
         /\ (\A x \in D : f[x] = 0) => SumFunction(f) = 0
  <1> DEFINE sum == Sums(f)
  <1>1. SumFunction(f) = sum[D]
    BY SumFunctionIsSum
  <1>2. AddsUp(f, D, sum)
    BY TakeOut
  <1> HIDE DEF sum
  <1>3. ASSUME \A x \in D : f[x] = 0
        PROVE  sum[D] = 0
    <2> DEFINE F == {s \in SUBSET D : sum[s] = 0}
    <2>1. ASSUME NEW s \in SUBSET D, \A u \in SUBSET s : u # s => u \in F
          PROVE  s \in F
      <3>1. CASE s = {}
        BY <1>2, <3>1 DEF AddsUp
      <3>2. CASE s # {}
        <4> PICK x \in s : TRUE
          BY <3>2
        <4>1. s \ {x} \in F
          BY <2>1
        <4> QED BY <1>2, <1>3, <4>1 DEF AddsUp
      <3> QED BY <3>1, <3>2
    <2> HIDE DEF F
    <2>2. SUBSET D \subseteq F
      BY <2>1, SmallestException
    <2>3. D \in F
      BY <2>2
    <2> QED BY <2>3 DEF F
  <1> QED BY <1>1, <1>2, <1>3 DEF AddsUp

\* A sum changes by as much as the one number that changes.
LEMMA SumOfUpdate ==
  ASSUME NEW D, IsFiniteSet(D), NEW f \in [D -> Int], NEW t \in D, NEW v \in Int
  PROVE  SumFunction([f EXCEPT ![t] = v]) = SumFunction(f) - f[t] + v
  <1> DEFINE g == [f EXCEPT ![t] = v]
             sum == Sums(f)
             tum == Sums(g)
  <1>1. g \in [D -> Int] /\ g[t] = v /\ \A x \in D : x # t => g[x] = f[x]
    OBVIOUS
  <1> HIDE DEF g
  <1>2. SumFunction(f) = sum[D] /\ SumFunction(g) = tum[D]
    BY <1>1, SumFunctionIsSum
  <1>3. AddsUp(f, D, sum)
    BY TakeOut
  <1>4. AddsUp(g, D, tum)
    BY <1>1, TakeOut
  <1> HIDE DEF sum, tum
  <1> DEFINE F == {s \in SUBSET D : t \notin s => sum[s] = tum[s]}
  <1>5. ASSUME NEW s \in SUBSET D, \A u \in SUBSET s : u # s => u \in F
        PROVE  s \in F
    <2> SUFFICES ASSUME t \notin s PROVE sum[s] = tum[s]
      OBVIOUS
    <2>1. CASE s = {}
      BY <1>3, <1>4, <2>1 DEF AddsUp
    <2>2. CASE s # {}
      <3> PICK x \in s : TRUE
        BY <2>2
      <3>1. s \ {x} \in F /\ t \notin s \ {x} /\ f[x] = g[x]
        BY <1>1, <1>5
      <3> QED BY <1>3, <1>4, <3>1 DEF AddsUp
    <2> QED BY <2>1, <2>2
  <1> HIDE DEF F
  <1>6. SUBSET D \subseteq F
    BY <1>5, SmallestException
  <1>7. D \ {t} \in F
    BY <1>6
  <1> PICK rest : rest = D \ {t}
    OBVIOUS
  <1>8. sum[rest] = tum[rest] /\ sum[rest] \in Int
    BY <1>3, <1>7 DEF F, AddsUp
  <1>9. sum[D] = f[t] + sum[rest] /\ tum[D] = v + tum[rest] /\ f[t] \in Int
    BY <1>1, <1>3, <1>4 DEF AddsUp
  <1>10. tum[D] = sum[D] - f[t] + v
    BY <1>8, <1>9
  <1> QED BY <1>2, <1>10 DEF g

-----------------------------------------------------------------------------

\* The bytes that calls under way have transferred, thread by thread.
UnderWay == [t \in Threads |-> IF result[t] = Pending THEN total[t] ELSE 0]

\* StatisticsAccountForBytes, and that the counters are touched by no reset before
\* one is counted.
StatisticsInvariant ==
  (\A r \in Resetters : resets[r] = 0) =>
    /\ \A r \in Resetters : resetAt[r] = 1
    /\ stats.BytesCopied + stats.BytesMapped = returned + SumFunction(UnderWay)

\* A step of a thread whose counters keep up with what it transfers and reports
\* keeps the account.
LEMMA AccountStays ==
  ASSUME IsFiniteSet(Threads), TypeOK, StatisticsInvariant, NEW t \in Threads,
         NEW held \in Nat, UnderWay' = [UnderWay EXCEPT ![t] = held],
         NEW n \in Nat,
         stats'.BytesCopied + stats'.BytesMapped = stats.BytesCopied + stats.BytesMapped + n,
         NEW reported \in Nat, returned' = returned + reported,
         UNCHANGED <<resets, resetAt>>,
         reported + held = UnderWay[t] + n
  PROVE  StatisticsInvariant'
  <1>1. UnderWay \in [Threads -> Nat] /\ UnderWay \in [Threads -> Int]
    BY DEF UnderWay, TypeOK
  <1>2. stats.BytesCopied \in Nat /\ stats.BytesMapped \in Nat /\ returned \in Nat
    BY CounterStores DEF TypeOK
  <1> DEFINE sum == SumFunction(UnderWay)
  <1>3. sum \in Int
    BY <1>1, SumIsNumber
  <1>4. SumFunction(UnderWay') = sum - UnderWay[t] + held
    <2>1. held \in Int
      OBVIOUS
    <2> QED BY <1>1, <2>1, SumOfUpdate
  <1>5. UnderWay[t] \in Nat
    BY <1>1
  <1> HIDE DEF sum
  <1> SUFFICES ASSUME \A r \in Resetters : resets[r] = 0
               PROVE  stats'.BytesCopied + stats'.BytesMapped
                        = returned' + SumFunction(UnderWay')
    BY DEF StatisticsInvariant
  <1>6. stats.BytesCopied + stats.BytesMapped = returned + sum
    BY DEF StatisticsInvariant, sum
  <1> QED BY <1>2, <1>3, <1>4, <1>5, <1>6

\* What a thread holds after a step of it.
LEMMA UnderWayAfter ==
  ASSUME TypeOK, NEW t \in Threads,
         NEW n, total' = [total EXCEPT ![t] = n],
         NEW r, result' = [result EXCEPT ![t] = r]
  PROVE  UnderWay' = [UnderWay EXCEPT ![t] = IF r = Pending THEN n ELSE 0]
  BY DEF TypeOK, UnderWay

\* A thread within ReadInto adds n to what it transferred and to one of the two
\* counters of bytes, and answers, if it does, with what it transferred.
Accounted(t, n) ==
  /\ pc[t] # "idle" /\ UNCHANGED <<resets, resetAt>>
  /\ \/ total' = [total EXCEPT ![t] = @ + n]
     \/ n = 0 /\ UNCHANGED total
  /\ \/ stats' = [stats EXCEPT !["BytesCopied"] = @ + n]
     \/ stats' = [stats EXCEPT !["BytesMapped"] = @ + n]
     \/ n = 0 /\ stats'.BytesCopied = stats.BytesCopied
              /\ stats'.BytesMapped = stats.BytesMapped
  /\ \/ UNCHANGED <<result, returned>>
     \/ \E answer : /\ answer.bytes = total[t] + n /\ answer # Pending
                    /\ Return(t, answer)

\* A step that adds to BytesCopied what its read adds to its own keeps the account.
LEMMA AccountOfStep ==
  ASSUME IsFiniteSet(Threads), IInv, StatisticsInvariant, NEW t \in Threads,
         NEW n \in Nat, Accounted(t, n)
  PROVE  StatisticsInvariant'
  <1>1. TypeOK /\ result[t] = Pending /\ UNCHANGED <<resets, resetAt>>
    BY DEF IInv, TransferInvariant, CallInvariant, Accounted
  <1>2. total[t] \in Nat /\ UnderWay[t] = total[t] /\ returned \in Nat
        /\ total \in [Threads -> Nat] /\ result \in [Threads -> Answers]
    BY <1>1 DEF TypeOK, UnderWay
  <1>3. total' = [total EXCEPT ![t] = total[t] + n]
    <2>1. UNCHANGED total /\ n = 0 => total' = [total EXCEPT ![t] = total[t] + n]
      BY <1>2
    <2> QED BY <2>1 DEF Accounted
  <1>4. stats'.BytesCopied + stats'.BytesMapped = stats.BytesCopied + stats.BytesMapped + n
    <2>1. /\ DOMAIN stats = CounterNames
          /\ stats.BytesCopied \in Nat /\ stats.BytesMapped \in Nat
      BY <1>1, CounterStores DEF TypeOK
    <2>2. CASE stats' = [stats EXCEPT !["BytesCopied"] = @ + n]
      BY <2>1, <2>2, CounterStores
    <2>3. CASE stats' = [stats EXCEPT !["BytesMapped"] = @ + n]
      BY <2>1, <2>3, CounterStores
    <2>4. CASE n = 0 /\ stats'.BytesCopied = stats.BytesCopied
                     /\ stats'.BytesMapped = stats.BytesMapped
      BY <2>1, <2>4
    <2> QED BY <2>2, <2>3, <2>4 DEF Accounted
  <1>5. CASE UNCHANGED <<result, returned>>
    <2>1. result' = [result EXCEPT ![t] = Pending]
      BY <1>1, <1>2, <1>5
    <2>2. UnderWay' = [UnderWay EXCEPT ![t] = total[t] + n]
      BY <1>1, <1>3, <2>1, UnderWayAfter
    <2> DEFINE held == total[t] + n
               reported == 0
    <2>3. held \in Nat /\ reported \in Nat /\ UnderWay' = [UnderWay EXCEPT ![t] = held]
          /\ returned' = returned + reported /\ reported + held = UnderWay[t] + n
      BY <1>2, <1>5, <2>2
    <2> HIDE DEF held, reported
    <2> QED BY <1>1, <1>4, <2>3, AccountStays
  <1>6. ASSUME NEW answer, answer.bytes = total[t] + n, answer # Pending, Return(t, answer)
        PROVE  StatisticsInvariant'
    <2>1. result' = [result EXCEPT ![t] = answer] /\ returned' = returned + (total[t] + n)
      BY <1>6 DEF Return
    <2>2. UnderWay' = [UnderWay EXCEPT ![t] = 0]
      BY <1>1, <1>3, <1>6, <2>1, UnderWayAfter
    <2> DEFINE held == 0
               reported == total[t] + n
    <2>3. held \in Nat /\ reported \in Nat /\ UnderWay' = [UnderWay EXCEPT ![t] = held]
          /\ returned' = returned + reported /\ reported + held = UnderWay[t] + n
      BY <1>2, <2>1, <2>2
    <2> HIDE DEF held, reported
    <2> QED BY <1>1, <1>4, <2>3, AccountStays
  <1> QED BY <1>5, <1>6 DEF Accounted

\* Every step of the reader keeps the account.
LEMMA StatisticsStay ==
  ASSUME IsFiniteSet(Threads), IInv, StatisticsInvariant, [Next]_vars
  PROVE  StatisticsInvariant'
  <1>1. TypeOK /\ TransferInvariant
    BY DEF IInv
  <1>2. ASSUME UNCHANGED <<resets, resetAt, stats, returned, total, result>>
        PROVE  StatisticsInvariant'
    BY <1>2 DEF StatisticsInvariant, UnderWay
  <1>3. ASSUME NEW t \in Threads, Call(t) PROVE StatisticsInvariant'
    <2>1. /\ pc[t] = "idle" /\ total' = [total EXCEPT ![t] = 0]
          /\ result' = [result EXCEPT ![t] = Pending]
          /\ UNCHANGED <<resets, resetAt, stats, returned>>
      BY <1>3 DEF Call
    <2>2. UnderWay' = [UnderWay EXCEPT ![t] = 0]
      BY <1>1, <2>1, UnderWayAfter
    <2>3. UnderWay[t] = 0
      BY <1>1, <2>1 DEF TransferInvariant, CallInvariant, UnderWay
    <2>4. returned \in Nat /\ stats.BytesCopied \in Nat /\ stats.BytesMapped \in Nat
      BY <1>1, CounterStores DEF TypeOK
    <2> DEFINE zero == 0
    <2>5. zero \in Nat /\ UnderWay' = [UnderWay EXCEPT ![t] = zero]
          /\ returned' = returned + zero /\ zero + zero = UnderWay[t] + zero
          /\ stats'.BytesCopied + stats'.BytesMapped
               = stats.BytesCopied + stats.BytesMapped + zero
      BY <2>1, <2>2, <2>3, <2>4
    <2> HIDE DEF zero
    <2> QED BY <1>1, <2>1, <2>5, AccountStays
  <1>4. ASSUME NEW t \in Threads, pc[t] # "idle", Start(t) PROVE StatisticsInvariant'
    <2>1. total[t] = 0 /\ UNCHANGED <<resets, resetAt, stats, total>>
      BY <1>1, <1>4 DEF Start, TransferInvariant, CallInvariant
    <2>2. \/ UNCHANGED <<result, returned>>
          \/ \E answer : /\ answer.bytes = total[t] + 0 /\ answer # Pending
                         /\ Return(t, answer)
      BY <1>4, <2>1 DEF Start, Goto, Success, Failure, Pending
    <2>3. Accounted(t, 0)
      BY <1>4, <2>1, <2>2 DEF Accounted
    <2> QED BY <2>3, AccountOfStep
  <1>5. ASSUME NEW t \in Threads, pc[t] # "idle", Copy(t) PROVE StatisticsInvariant'
    <2>1. CanOffset(req[t].src, total[t]) /\ Remaining(t) \in Nat /\ total[t] \in Nat
          /\ req[t].len \in Nat
      BY <1>1, <1>5, CursorInSpace DEF Copy, TypeOK
    <2>2. PICK n \in CopyLengths(Cursor(t), Remaining(t)) :
            /\ total' = [total EXCEPT ![t] = @ + n]
            /\ Count("BytesCopied", n)
            /\ IF n = Remaining(t) THEN Return(t, Success(req[t].len))
                                   ELSE Goto(t, "failed")
      BY <1>5, <2>1 DEF Copy
    <2>3. n \in Nat
      BY <2>1 DEF CopyLengths
    <2>4. \/ UNCHANGED <<result, returned>>
          \/ \E answer : /\ answer.bytes = total[t] + n /\ answer # Pending
                         /\ Return(t, answer)
      <3>1. n = Remaining(t) => req[t].len = total[t] + n
        BY <2>1 DEF Remaining
      <3> QED BY <2>2, <3>1 DEF Goto, Success, Pending
    <2>5. UNCHANGED <<resets, resetAt>>
      BY <1>5 DEF Copy
    <2>6. Accounted(t, n)
      BY <1>5, <2>2, <2>4, <2>5 DEF Accounted, Count
    <2> QED BY <2>3, <2>6, AccountOfStep
  <1>6. ASSUME NEW t \in Threads, pc[t] # "idle",
               CountFailure(t) \/ MapRefused(t) \/ MapPage(t) \/ CountPage(t)
        PROVE  StatisticsInvariant'
    <2>1. UNCHANGED <<resets, resetAt, total>>
      BY <1>6 DEF CountFailure, MapRefused, MapPage, CountPage
    <2>2. stats'.BytesCopied = stats.BytesCopied /\ stats'.BytesMapped = stats.BytesMapped
      BY <1>1, <1>6, CounterStores DEF CountFailure, MapRefused, MapPage, CountPage, Count,
                                       TypeOK
    <2>3. \/ UNCHANGED <<result, returned>>
          \/ \E answer : /\ answer.bytes = total[t] + 0 /\ answer # Pending
                         /\ Return(t, answer)
      <3>1. total[t] \in Nat
        BY <1>1 DEF TypeOK
      <3>2. \/ UNCHANGED <<result, returned>>
            \/ \E c, a : c # "Pending" /\ Return(t, Failure(c, total[t], a))
        BY <1>6 DEF CountFailure, MapRefused, MapPage, CountPage, Goto, MapArgumentError
      <3>3. ASSUME NEW c, NEW a, c # "Pending", Return(t, Failure(c, total[t], a))
            PROVE  \E answer : /\ answer.bytes = total[t] + 0 /\ answer # Pending
                               /\ Return(t, answer)
        <4>1. /\ Failure(c, total[t], a).bytes = total[t] + 0
              /\ Failure(c, total[t], a) # Pending
          BY <3>1, <3>3 DEF Failure, Pending
        <4> QED BY <3>3, <4>1
      <3> QED BY <3>2, <3>3
    <2>4. Accounted(t, 0)
      BY <1>6, <2>1, <2>2, <2>3 DEF Accounted
    <2> QED BY <2>4, AccountOfStep
  <1>7. ASSUME NEW t \in Threads, pc[t] # "idle", CountBytes(t) PROVE StatisticsInvariant'
    <2>1. Remaining(t) \in Nat \ {0} /\ total[t] \in Nat /\ req[t].len \in Nat
          /\ Cursor(t) \in Int
      <3>1. pc[t] = "countBytes"
        BY <1>7 DEF CountBytes
      <3>2. Remaining(t) \in Nat \ {0} /\ Cursor(t) \in Address
        BY <1>1, <3>1, CursorInSpace
      <3> QED BY <1>1, <3>2, GeometryAssumption DEF TypeOK, Address
    <2>2. Fragment(t) \in Nat
      <3>1. FallbackSize(Cursor(t), Remaining(t)) \in 1 .. Remaining(t)
        BY <2>1, FragmentBounds
      <3> QED BY <2>1, <3>1 DEF Fragment
    <2>3. \/ UNCHANGED <<result, returned>>
          \/ \E answer : /\ answer.bytes = total[t] + Fragment(t) /\ answer # Pending
                         /\ Return(t, answer)
      <3>1. Fragment(t) = Remaining(t) => req[t].len = total[t] + Fragment(t)
        BY <2>1, <2>2 DEF Remaining
      <3> QED BY <1>7, <3>1 DEF CountBytes, Goto, Success, Pending
    <2>4. /\ total' = [total EXCEPT ![t] = @ + Fragment(t)]
          /\ stats' = [stats EXCEPT !["BytesMapped"] = @ + Fragment(t)]
          /\ UNCHANGED <<resets, resetAt>>
      BY <1>7 DEF CountBytes, Count, MappedBytes
    <2>5. Accounted(t, Fragment(t))
      BY <1>7, <2>3, <2>4 DEF Accounted
    <2> QED BY <2>2, <2>5, AccountOfStep
  <1>8. ASSUME NEW r \in Resetters, ResetStore(r) PROVE StatisticsInvariant'
    <2>1. /\ resets[r] \in Nat
          /\ resets'[r] = IF resetAt[r] = 1 THEN resets[r] + 1 ELSE resets[r]
          /\ \A u \in Resetters \ {r} : resets'[u] = resets[u]
      BY <1>1, <1>8, ReaderAssumption DEF ResetStore, TypeOK
    <2>2. (\A u \in Resetters : resets[u] = 0) => resetAt[r] = 1
      BY DEF StatisticsInvariant
    <2>3. ~ \A u \in Resetters : resets'[u] = 0
      BY <2>1, <2>2
    <2> QED BY <2>3 DEF StatisticsInvariant
  <1>9. CASE UNCHANGED vars
    BY <1>2, <1>9 DEF vars, local
  <1>10. ASSUME NEW t \in Threads, ReadStep(t) PROVE pc[t] # "idle"
    BY <1>10 DEF ReadStep, Start, Copy, CountFailure, MapRefused, MapPage, CountPage,
                 CountBytes
  <1> QED BY <1>3, <1>4, <1>5, <1>6, <1>7, <1>8, <1>9, <1>10 DEF Next, ReadStep

\* Until the counters are reset, the two of bytes account between them for what the
\* calls answered so far reported and what those under way have transferred, however
\* many threads read.
THEOREM StatisticsAccount ==
  ASSUME IsFiniteSet(Threads)
  PROVE  SafetySpec => []StatisticsAccountForBytes
  <1>1. Init => StatisticsInvariant
    <2> SUFFICES ASSUME Init PROVE StatisticsInvariant
      OBVIOUS
    <2>1. UnderWay \in [Threads -> Int] /\ \A t \in Threads : UnderWay[t] = 0
      BY DEF Init, UnderWay
    <2>2. SumFunction(UnderWay) = 0
      BY <2>1, SumIsNumber
    <2>3. (\A r \in Resetters : resetAt[r] = 1) /\ returned = 0
          /\ stats.BytesCopied = 0 /\ stats.BytesMapped = 0
      BY CounterStores DEF Init
    <2> QED BY <2>2, <2>3 DEF StatisticsInvariant
  <1>2. IInv /\ StatisticsInvariant /\ [Next]_vars => StatisticsInvariant'
    BY StatisticsStay
  <1>3. StatisticsInvariant => StatisticsAccountForBytes
    BY DEF StatisticsInvariant, StatisticsAccountForBytes, UnderWay
  <1> QED BY <1>1, <1>2, <1>3, InitInvariant, StepInvariant, PTL DEF SafetySpec

=============================================================================
