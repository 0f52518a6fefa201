--------------------------- MODULE PoolRuntimeProofs ---------------------------
(***************************************************************************)
(* Proofs about PoolRuntime, for any number of threads, any heap and any   *)
(* width of std::size_t.                                                   *)
(***************************************************************************)
EXTENDS PoolRuntime, TLAPS

Block(b) == Extent(b, blocks[b])

\* The allocation at p has block b: its header names it and both are in it.
Owns(p, b) == HeaderNames(p, b) /\ Footprint(p) \subseteq Block(b)

BlocksApart ==
  /\ \A b \in DOMAIN blocks : Block(b) \subseteq Heap
  /\ \A b, c \in DOMAIN blocks : b # c => Block(b) \cap Block(c) = {}

\* A call that has gone to the pool asks for what can be had, and holds the
\* block it got until it returns.
Requested ==
  \A t \in Threads : pc[t] # "idle" =>
    /\ want[t].size \in Sizes /\ want[t].alignment \in Alignments
    /\ IsPowerOfTwo(Alignment(want[t].alignment))
    /\ Fits(want[t].size, want[t].alignment)
    /\ pc[t] = "header" =>
         /\ base[t] \in DOMAIN blocks
         /\ blocks[base[t]] = AllocationSize(want[t].size, want[t].alignment)

\* Each allocation and each call at work has a block, no two have the same,
\* and every block is one's.
Owned ==
  /\ \A p \in DOMAIN live : \E b \in DOMAIN blocks : Owns(p, b)
  /\ \A b \in DOMAIN blocks : \A p, q \in DOMAIN live : Owns(p, b) /\ Owns(q, b) => p = q
  /\ \A t, u \in Threads :
       pc[t] = "header" /\ pc[u] = "header" /\ base[t] = base[u] => t = u
  /\ \A t \in Threads : pc[t] = "header" => \A p \in DOMAIN live : ~Owns(p, base[t])
  /\ \A b \in DOMAIN blocks :
       \/ \E t \in Threads : pc[t] = "header" /\ base[t] = b
       \/ \E p \in DOMAIN live : Owns(p, b)

Aligned == \A p \in DOMAIN live : p % live[p].alignment = 0

\* The inductive invariant.
IInv ==
  TypeOK /\ BlocksApart /\ Requested /\ Owned /\ Aligned /\ state # "corrupted"

-----------------------------------------------------------------------------

\* The constants as numbers.
LEMMA Widths ==
  /\ MaxSize \in Nat /\ HeaderSize \in Nat \ {0}
  /\ MinAlignment \in Nat \ {0} /\ MinAlignment <= MaxSize
  /\ Heap \subseteq 1 .. MaxSize
  /\ \A x \in Heap : x \in Int
  BY PoolAssumption

\* Arithmetic that stays in the width is not wrapped.
LEMMA NoWrap ==
  ASSUME NEW n \in 0 .. MaxSize
  PROVE  Wrap(n) = n
  <1>1. MaxSize \in Nat
    BY Widths
  <1>2. n \in 0 .. (MaxSize + 1) - 1 /\ MaxSize + 1 \in Nat \ {0}
    BY <1>1
  <1> DEFINE w == MaxSize + 1
  <1>3. w \in Nat \ {0} /\ n \in 0 .. w - 1
    BY <1>2
  <1> HIDE DEF w
  <1>4. n % w = n
    BY <1>3
  <1> QED BY <1>4 DEF Wrap, w

\* A size that passes the test leaves room for header and alignment.
LEMMA RequestFits ==
  ASSUME NEW n \in Sizes, NEW a \in Alignments, IsPowerOfTwo(Alignment(a)), Fits(n, a)
  PROVE  /\ Alignment(a) \in 1 .. MaxSize
         /\ Size(n) \in 1 .. MaxSize
         /\ AllocationSize(n, a) = Size(n) + HeaderSize + (Alignment(a) - 1)
         /\ AllocationSize(n, a) \in 1 .. MaxSize
  <1> DEFINE al == Alignment(a)
             sz == Size(n)
  <1>1. MaxSize \in Nat /\ HeaderSize \in Nat \ {0} /\ a \in 1 .. MaxSize
    BY PoolAssumption
  <1>2. al \in Alignments \cup {MinAlignment} /\ al \in 1 .. MaxSize
    BY <1>1, Widths DEF Alignment
  <1>3. al + HeaderSize - 1 <= MaxSize
    BY <1>2, PoolAssumption
  <1>4. sz \in Nat \ {0}
    BY PoolAssumption DEF Size
  <1> HIDE DEF al, sz
  <1>5. MaxSize - HeaderSize - (al - 1) \in 0 .. MaxSize
    BY <1>1, <1>2, <1>3
  <1>6. sz <= MaxSize - HeaderSize - (al - 1)
    BY <1>5, NoWrap DEF Fits, al, sz
  <1>7. sz + HeaderSize + (al - 1) \in 1 .. MaxSize /\ sz \in 1 .. MaxSize
    BY <1>1, <1>2, <1>4, <1>6
  <1>8. sz + HeaderSize + (al - 1) = sz + HeaderSize + al - 1
    BY <1>1, <1>2, <1>4
  <1>9. Wrap(sz + HeaderSize + al - 1) = sz + HeaderSize + (al - 1)
    BY <1>7, <1>8, NoWrap
  <1> QED BY <1>2, <1>7, <1>9 DEF AllocationSize, al, sz

\* Rounding down to a multiple.
LEMMA RoundedDown ==
  ASSUME NEW x \in Nat, NEW d \in Nat \ {0}
  PROVE  /\ x - (x % d) \in Nat /\ x - (x % d) <= x /\ x - (x % d) >= x - d + 1
         /\ (x - (x % d)) % d = 0
  <1> DEFINE q == x \div d
             r == x % d
  <1>1. q \in Nat /\ r \in 0 .. d - 1 /\ x = q * d + r
    OBVIOUS
  <1>2. x - r = q * d
    BY <1>1
  <1> HIDE DEF q, r
  <1>3. q * d \in Nat /\ (q * d) % d = 0
    BY <1>1
  <1> QED BY <1>1, <1>2, <1>3 DEF r

\* Where in its block an allocation lies.
LEMMA Placement ==
  ASSUME NEW b \in Heap, NEW n \in Sizes, NEW a \in Alignments,
         IsPowerOfTwo(Alignment(a)), Fits(n, a),
         Extent(b, AllocationSize(n, a)) \subseteq Heap
  PROVE  /\ AlignedAddress(b, a) % Alignment(a) = 0
         /\ AlignedAddress(b, a) \in Heap
         /\ HeaderBytes(AlignedAddress(b, a)) \subseteq Extent(b, AllocationSize(n, a))
         /\ Extent(AlignedAddress(b, a), Size(n)) \subseteq Extent(b, AllocationSize(n, a))
         /\ AlignedAddress(b, a) \in Extent(AlignedAddress(b, a), Size(n))
  <1> DEFINE al == Alignment(a)
             sz == Size(n)
             all == AllocationSize(n, a)
             top == b + HeaderSize + al - 1
             p == top - (top % al)
  <1>1. /\ MaxSize \in Nat /\ HeaderSize \in Nat \ {0} /\ b \in 1 .. MaxSize
        /\ al \in 1 .. MaxSize /\ sz \in 1 .. MaxSize
        /\ all = sz + HeaderSize + (al - 1)
    BY Widths, RequestFits
  <1> HIDE DEF al, sz, all
  <1>2. b + all - 1 \in Extent(b, all)
    BY <1>1 DEF Extent
  <1>3. b + all - 1 <= MaxSize
    <2>1. b + all - 1 \in Heap
      BY <1>2 DEF all
    <2>2. b + all - 1 \in 1 .. MaxSize
      BY <2>1, Widths
    <2> HIDE DEF all
    <2> QED BY <1>1, <2>2
  <1>4. top \in 0 .. MaxSize /\ top = b + HeaderSize + (al - 1)
    BY <1>1, <1>3
  <1>5. AlignedAddress(b, a) = p
    BY <1>4, NoWrap DEF AlignedAddress, al
  <1>6. p \in Nat /\ p <= top /\ p >= top - al + 1 /\ p % al = 0
    <2>1. top \in Nat /\ al \in Nat \ {0}
      BY <1>1, <1>4
    <2> HIDE DEF top
    <2> QED BY <2>1, RoundedDown
  <1> HIDE DEF p
  <1>7. p >= b + HeaderSize /\ p <= b + HeaderSize + (al - 1)
    BY <1>1, <1>4, <1>6
  <1>8. HeaderBytes(p) \subseteq Extent(b, all)
    BY <1>1, <1>6, <1>7 DEF HeaderBytes, Extent
  <1>9. Extent(p, sz) \subseteq Extent(b, all) /\ p \in Extent(p, sz)
    BY <1>1, <1>6, <1>7 DEF Extent
  <1>10. p \in Heap
    BY <1>9 DEF all
  <1> QED BY <1>5, <1>6, <1>8, <1>9, <1>10 DEF al, sz, all

\* A header names one block at most.
LEMMA NamesOne ==
  ASSUME NEW p, NEW b, NEW c, HeaderNames(p, b), HeaderNames(p, c)
  PROVE  b = c
  <1>1. 0 \in 0 .. HeaderSize - 1
    BY Widths
  <1>2. memory[p - HeaderSize + 0] = <<b, 0>> /\ memory[p - HeaderSize + 0] = <<c, 0>>
    BY <1>1 DEF HeaderNames
  <1> QED BY <1>2

\* An allocation that is live owns the block that its header names.
LEMMA NamedIsOwned ==
  ASSUME IInv, NEW p \in DOMAIN live, NEW b, HeaderNames(p, b)
  PROVE  b \in DOMAIN blocks /\ Owns(p, b)
  <1>1. PICK c \in DOMAIN blocks : Owns(p, c)
    BY DEF IInv, Owned
  <1> QED BY <1>1, NamesOne DEF Owns

\* The header of an allocation holds as long as its bytes do.
LEMMA HeaderStays ==
  ASSUME NEW p \in Int, NEW b, HeaderNames(p, b),
         \A x \in HeaderBytes(p) \cap Heap : memory'[x] = memory[x]
  PROVE  HeaderNames(p, b)'
  <1>1. ASSUME NEW i \in 0 .. HeaderSize - 1
        PROVE  p - HeaderSize + i \in HeaderBytes(p)
    BY Widths DEF HeaderBytes, Extent
  <1> QED BY <1>1 DEF HeaderNames

\* After a step too, a header names one block.
LEMMA NamesOneNext ==
  ASSUME NEW p, NEW b, NEW c, HeaderNames(p, b)', HeaderNames(p, c)'
  PROVE  b = c
  <1>1. 0 \in 0 .. HeaderSize - 1
    BY Widths
  <1>2. memory'[p - HeaderSize + 0] = <<b, 0>> /\ memory'[p - HeaderSize + 0] = <<c, 0>>
    BY <1>1 DEF HeaderNames
  <1> QED BY <1>2

\* An allocation whose header is not written keeps its block and no other.
LEMMA OwnershipStays ==
  ASSUME NEW p \in DOMAIN live, p \in Int, NEW b \in DOMAIN blocks, Owns(p, b),
         live'[p] = live[p], blocks'[b] = blocks[b],
         \A x \in HeaderBytes(p) \cap Heap : memory'[x] = memory[x]
  PROVE  Owns(p, b)' /\ \A c : Owns(p, c)' => c = b
  <1>1. HeaderNames(p, b)'
    BY HeaderStays DEF Owns
  <1>2. Footprint(p)' \subseteq Block(b)'
    BY DEF Owns, Footprint, HeaderBytes, Extent, Block
  <1>3. ASSUME NEW c, Owns(p, c)'
        PROVE  c = b
    BY <1>1, <1>3, NamesOneNext DEF Owns
  <1> QED BY <1>1, <1>2, <1>3 DEF Owns

\* What is live has an address, and its first byte is its own.
LEMMA LiveAddress ==
  ASSUME TypeOK, NEW p \in DOMAIN live
  PROVE  /\ p \in Int /\ p \in Heap
         /\ p \in Footprint(p)
         /\ HeaderBytes(p) \subseteq Footprint(p)
         /\ Extent(p, live[p].size) \subseteq Footprint(p)
  <1>1. p \in Int /\ p \in Heap
    BY Widths DEF TypeOK
  <1>2. live[p].size \in 1 .. MaxSize
    BY DEF TypeOK
  <1>3. p \in Extent(p, live[p].size)
    BY <1>1, <1>2, Widths DEF Extent
  <1> QED BY <1>1, <1>3 DEF Footprint

\* Two allocations have two blocks, and share no byte.
LEMMA ApartByBlocks ==
  ASSUME BlocksApart, NEW p, NEW q, NEW b \in DOMAIN blocks, NEW c \in DOMAIN blocks,
         Owns(p, b), Owns(q, c), b # c
  PROVE  Footprint(p) \cap Footprint(q) = {}
  BY DEF BlocksApart, Owns

-----------------------------------------------------------------------------

\* What Allocate does before it has a block disturbs nothing in the pool.
LEMMA PoolUntouched ==
  ASSUME IInv, UNCHANGED <<blocks, memory, live, base>>,
         \A u \in Threads : pc'[u] = "header" <=> pc[u] = "header"
  PROVE  BlocksApart' /\ Owned' /\ Aligned'
  <1>1. BlocksApart' /\ Aligned'
    BY DEF IInv, BlocksApart, Aligned, Block, Extent
  <1>2. \A p, b : Owns(p, b)' <=> Owns(p, b)
    BY DEF Owns, HeaderNames, Footprint, HeaderBytes, Block, Extent
  <1>3. Owned
    BY DEF IInv
  <1>4. Owned'
    BY <1>2, <1>3 DEF Owned
  <1> QED BY <1>1, <1>4

\* ReturnNull keeps the invariant.
LEMMA ReturnNullKeeps ==
  ASSUME IInv, NEW t \in Threads, NEW nothrow \in BOOLEAN, ReturnNull(t, nothrow),
         pc[t] # "header", state = "running", UNCHANGED <<blocks, memory, live, base>>
  PROVE  IInv'
  <1>1. /\ pc' = [pc EXCEPT ![t] = "idle"] /\ want' = [want EXCEPT ![t] = NoRequest]
        /\ state' \in {"running", "stopped"}
    BY DEF ReturnNull
  <1>2. TypeOK
    BY DEF IInv
  <1>3. TypeOK'
    <2>1. want' \in [Threads -> [size : Sizes \cup {0}, alignment : Alignments \cup {1},
                                 nothrow : BOOLEAN]]
      BY <1>1, <1>2 DEF TypeOK, NoRequest
    <2>2. pc' \in [Threads -> {"idle", "pool", "header"}]
      BY <1>1, <1>2 DEF TypeOK
    <2> QED BY <1>1, <1>2, <2>1, <2>2 DEF TypeOK
  <1>4. \A u \in Threads : pc'[u] = IF u = t THEN "idle" ELSE pc[u]
    BY <1>1, <1>2 DEF TypeOK
  <1>5. BlocksApart' /\ Owned' /\ Aligned'
    BY <1>4, PoolUntouched
  <1>6. \A u \in Threads : pc'[u] # "idle" => pc[u] # "idle" /\ pc'[u] = pc[u] /\ want'[u] = want[u]
    BY <1>1, <1>2, <1>4 DEF TypeOK
  <1>7. Requested'
    BY <1>6 DEF IInv, Requested
  <1> QED BY <1>1, <1>3, <1>5, <1>7 DEF IInv

\* New keeps the invariant.
LEMMA NewKeeps ==
  ASSUME IInv, NEW t \in Threads, NEW n \in Sizes, NEW a \in Alignments,
         NEW nothrow \in BOOLEAN, New(t, n, a, nothrow)
  PROVE  IInv'
  <1>1. CASE IsPowerOfTwo(Alignment(a)) /\ Fits(n, a)
    <2>1. /\ pc' = [pc EXCEPT ![t] = "pool"] /\ pc[t] = "idle"
          /\ want' = [want EXCEPT ![t] = [size |-> n, alignment |-> a, nothrow |-> nothrow]]
          /\ UNCHANGED <<blocks, memory, live, base, state>>
      BY <1>1 DEF New
    <2>2. TypeOK
      BY DEF IInv
    <2>3. TypeOK'
      <3>1. want' \in [Threads -> [size : Sizes \cup {0}, alignment : Alignments \cup {1},
                                   nothrow : BOOLEAN]]
        BY <2>1, <2>2 DEF TypeOK
      <3>2. pc' \in [Threads -> {"idle", "pool", "header"}]
        BY <2>1, <2>2 DEF TypeOK
      <3> QED BY <2>1, <2>2, <3>1, <3>2 DEF TypeOK
    <2>4. /\ \A u \in Threads : pc'[u] = IF u = t THEN "pool" ELSE pc[u]
          /\ \A u \in Threads : u # t => want'[u] = want[u]
          /\ want'[t].size = n /\ want'[t].alignment = a
      BY <2>1, <2>2 DEF TypeOK
    <2>5. BlocksApart' /\ Owned' /\ Aligned'
      BY <2>1, <2>4, PoolUntouched
    <2>6. Requested'
      <3> SUFFICES ASSUME NEW u \in Threads, pc'[u] # "idle"
                   PROVE  /\ want'[u].size \in Sizes /\ want'[u].alignment \in Alignments
                          /\ IsPowerOfTwo(Alignment(want'[u].alignment))
                          /\ Fits(want'[u].size, want'[u].alignment)
                          /\ pc'[u] = "header" =>
                               /\ base'[u] \in DOMAIN blocks'
                               /\ blocks'[base'[u]]
                                    = AllocationSize(want'[u].size, want'[u].alignment)
        BY DEF Requested
      <3>1. CASE u = t
        BY <1>1, <2>4, <3>1
      <3>2. CASE u # t
        BY <2>1, <2>4, <3>2 DEF IInv, Requested
      <3> QED BY <3>1, <3>2
    <2> QED BY <2>1, <2>3, <2>5, <2>6 DEF IInv
  <1>2. CASE ~(IsPowerOfTwo(Alignment(a)) /\ Fits(n, a))
    BY <1>2, ReturnNullKeeps DEF New
  <1> QED BY <1>1, <1>2

\* PoolExhausted keeps the invariant.
LEMMA PoolExhaustedKeeps ==
  ASSUME IInv, NEW t \in Threads, PoolExhausted(t)
  PROVE  IInv'
  <1>1. want[t].nothrow \in BOOLEAN
    BY DEF IInv, TypeOK
  <1> QED BY <1>1, ReturnNullKeeps DEF PoolExhausted

\* What a block the pool allocates is.
LEMMA NewBlock ==
  ASSUME IInv, NEW t \in Threads, PoolAllocates(t)
  PROVE  LET n == AllocationSize(want[t].size, want[t].alignment)
         IN  \E b \in Heap :
               /\ n \in 1 .. MaxSize /\ b \notin DOMAIN blocks
               /\ Extent(b, n) \subseteq Heap
               /\ \A c \in DOMAIN blocks : Extent(b, n) \cap Block(c) = {}
               /\ DOMAIN blocks' = DOMAIN blocks \cup {b} /\ blocks'[b] = n
               /\ \A c \in DOMAIN blocks : blocks'[c] = blocks[c]
               /\ memory' = [x \in Heap |-> IF x \in Extent(b, n) THEN Zero ELSE memory[x]]
               /\ base' = [base EXCEPT ![t] = b]
  <1> DEFINE n == AllocationSize(want[t].size, want[t].alignment)
  <1>1. n \in 1 .. MaxSize
    BY RequestFits DEF IInv, Requested, PoolAllocates
  <1>2. PICK b \in Heap :
          /\ Extent(b, n) \subseteq Heap
          /\ \A c \in DOMAIN blocks : Extent(b, n) \cap Extent(c, blocks[c]) = {}
          /\ blocks' = [c \in DOMAIN blocks \cup {b} |-> IF c = b THEN n ELSE blocks[c]]
          /\ memory' = [x \in Heap |-> IF x \in Extent(b, n) THEN Zero ELSE memory[x]]
          /\ base' = [base EXCEPT ![t] = b]
    BY DEF PoolAllocates
  <1> HIDE DEF n
  <1>3. b \notin DOMAIN blocks
    <2> SUFFICES ASSUME b \in DOMAIN blocks PROVE FALSE
      OBVIOUS
    <2>1. b \in Int /\ MaxSize \in Nat
      BY Widths
    <2>2. blocks[b] \in 1 .. MaxSize
      BY DEF IInv, TypeOK
    <2>3. b \in Extent(b, n) /\ b \in Extent(b, blocks[b])
      BY <1>1, <2>1, <2>2 DEF Extent
    <2> QED BY <1>2, <2>3
  <1>4. \A c \in DOMAIN blocks : blocks'[c] = blocks[c]
    BY <1>2, <1>3
  <1> QED BY <1>1, <1>2, <1>3, <1>4 DEF Block, n

\* PoolAllocates keeps the invariant.
LEMMA PoolAllocatesKeeps ==
  ASSUME IInv, NEW t \in Threads, PoolAllocates(t)
  PROVE  IInv'
  <1> DEFINE n == AllocationSize(want[t].size, want[t].alignment)
  <1>1. PICK b \in Heap :
          /\ n \in 1 .. MaxSize /\ b \notin DOMAIN blocks
          /\ Extent(b, n) \subseteq Heap
          /\ \A c \in DOMAIN blocks : Extent(b, n) \cap Block(c) = {}
          /\ DOMAIN blocks' = DOMAIN blocks \cup {b} /\ blocks'[b] = n
          /\ \A c \in DOMAIN blocks : blocks'[c] = blocks[c]
          /\ memory' = [x \in Heap |-> IF x \in Extent(b, n) THEN Zero ELSE memory[x]]
          /\ base' = [base EXCEPT ![t] = b]
    BY NewBlock
  <1>2. /\ pc[t] = "pool" /\ pc' = [pc EXCEPT ![t] = "header"]
        /\ UNCHANGED <<live, want, state>>
    BY DEF PoolAllocates
  <1>3. TypeOK /\ BlocksApart /\ Requested /\ Owned
    BY DEF IInv
  <1> HIDE DEF n
  <1>4. TypeOK'
    <2>1. memory' \in [Heap -> {Zero, Data} \cup (Heap \X (0 .. HeaderSize - 1))]
      BY <1>1, <1>3 DEF TypeOK
    <2>2. pc' \in [Threads -> {"idle", "pool", "header"}]
      BY <1>2, <1>3 DEF TypeOK
    <2>3. base' \in [Threads -> Heap \cup {0}]
      BY <1>1, <1>3 DEF TypeOK
    <2>4. DOMAIN blocks' \subseteq Heap /\ \A c \in DOMAIN blocks' : blocks'[c] \in 1 .. MaxSize
      BY <1>1, <1>3 DEF TypeOK
    <2> QED BY <1>2, <1>3, <2>1, <2>2, <2>3, <2>4 DEF TypeOK
  <1>5. /\ pc'[t] = "header" /\ \A u \in Threads \ {t} : pc'[u] = pc[u]
        /\ base'[t] = b /\ \A u \in Threads \ {t} : base'[u] = base[u]
    BY <1>1, <1>2, <1>3 DEF TypeOK
  <1>6. /\ Block(b)' = Extent(b, n)
        /\ \A c \in DOMAIN blocks : Block(c)' = Block(c)
    BY <1>1 DEF Block, Extent
  <1>7. BlocksApart'
    <2>1. \A c \in DOMAIN blocks' : Block(c)' \subseteq Heap
      BY <1>1, <1>3, <1>6 DEF BlocksApart
    <2>2. \A c, d \in DOMAIN blocks' : c # d => Block(c)' \cap Block(d)' = {}
      BY <1>1, <1>3, <1>6 DEF BlocksApart
    <2> QED BY <2>1, <2>2 DEF BlocksApart
  <1>8. Requested'
    <2> SUFFICES ASSUME NEW u \in Threads, pc'[u] # "idle"
                 PROVE  /\ want'[u].size \in Sizes /\ want'[u].alignment \in Alignments
                        /\ IsPowerOfTwo(Alignment(want'[u].alignment))
                        /\ Fits(want'[u].size, want'[u].alignment)
                        /\ pc'[u] = "header" =>
                             /\ base'[u] \in DOMAIN blocks'
                             /\ blocks'[base'[u]]
                                  = AllocationSize(want'[u].size, want'[u].alignment)
      BY DEF Requested
    <2>1. CASE u = t
      BY <1>1, <1>2, <1>3, <1>5, <2>1 DEF Requested, n
    <2>2. CASE u # t
      BY <1>1, <1>2, <1>3, <1>5, <2>2 DEF Requested
    <2> QED BY <2>1, <2>2
  <1>9. ASSUME NEW p \in DOMAIN live, NEW c \in DOMAIN blocks, Owns(p, c)
        PROVE  Owns(p, c)' /\ \A d : Owns(p, d)' => d = c
    <2>1. p \in Int /\ HeaderBytes(p) \subseteq Block(c)
      BY <1>3, <1>9, LiveAddress DEF Owns, Footprint
    <2>2. \A x \in HeaderBytes(p) \cap Heap : memory'[x] = memory[x]
      BY <1>1, <2>1
    <2> QED BY <1>1, <1>2, <1>9, <2>1, <2>2, OwnershipStays
  <1>10. \A p \in DOMAIN live' : \E c \in DOMAIN blocks : Owns(p, c) /\ Owns(p, c)'
    BY <1>2, <1>3, <1>9 DEF Owned
  <1>11. Owned'
    <2>1. \A p \in DOMAIN live' : \E c \in DOMAIN blocks' : Owns(p, c)'
      BY <1>1, <1>10
    <2>2. ASSUME NEW c, NEW p \in DOMAIN live', NEW q \in DOMAIN live',
                 Owns(p, c)', Owns(q, c)'
          PROVE  p = q
      BY <1>2, <1>3, <1>9, <1>10, <2>2 DEF Owned
    <2>3. \A u, v \in Threads :
            pc'[u] = "header" /\ pc'[v] = "header" /\ base'[u] = base'[v] => u = v
      BY <1>1, <1>3, <1>5 DEF Requested, Owned
    <2>4. ASSUME NEW u \in Threads, pc'[u] = "header", NEW p \in DOMAIN live', Owns(p, base[u])'
          PROVE  FALSE
      <3>1. PICK c \in DOMAIN blocks : Owns(p, c) /\ Owns(p, c)'
        BY <1>10, <2>4
      <3>2. base'[u] = c
        BY <1>2, <1>9, <2>4, <3>1
      <3> QED BY <1>1, <1>2, <1>3, <1>5, <2>4, <3>1, <3>2 DEF Owned
    <2>5. \A c \in DOMAIN blocks' :
            \/ \E u \in Threads : pc'[u] = "header" /\ base'[u] = c
            \/ \E p \in DOMAIN live' : Owns(p, c)'
      <3> SUFFICES ASSUME NEW c \in DOMAIN blocks'
                   PROVE  \/ \E u \in Threads : pc'[u] = "header" /\ base'[u] = c
                          \/ \E p \in DOMAIN live' : Owns(p, c)'
        OBVIOUS
      <3>1. CASE c = b
        BY <1>5, <3>1
      <3>2. CASE c \in DOMAIN blocks
        <4>1. ASSUME NEW u \in Threads, pc[u] = "header", base[u] = c
              PROVE  pc'[u] = "header" /\ base'[u] = c
          BY <1>2, <1>5, <4>1
        <4> QED BY <1>2, <1>3, <1>9, <3>2, <4>1 DEF Owned
      <3> QED BY <1>1, <3>1, <3>2
    <2> QED BY <2>1, <2>2, <2>3, <2>4, <2>5 DEF Owned
  <1>12. Aligned' /\ state' # "corrupted"
    BY <1>2 DEF IInv, Aligned
  <1> QED BY <1>4, <1>7, <1>8, <1>11, <1>12 DEF IInv

\* Where a call that has a block puts its header and its allocation.
LEMMA HeaderPlace ==
  ASSUME IInv, NEW t \in Threads, pc[t] = "header", NEW p,
         p = AlignedAddress(base[t], want[t].alignment)
  PROVE  /\ base[t] \in DOMAIN blocks
         /\ p \in Heap /\ p % Alignment(want[t].alignment) = 0
         /\ Alignment(want[t].alignment) \in 1 .. MaxSize
         /\ Size(want[t].size) \in 1 .. MaxSize
         /\ HeaderBytes(p) \subseteq Block(base[t])
         /\ Extent(p, Size(want[t].size)) \subseteq Block(base[t])
         /\ p \notin DOMAIN live
         /\ \A q \in DOMAIN live : Footprint(q) \cap Block(base[t]) = {}
  <1> DEFINE b == base[t]
             n == want[t].size
             a == want[t].alignment
  <1>1. /\ b \in DOMAIN blocks /\ b \in Heap
        /\ n \in Sizes /\ a \in Alignments
        /\ IsPowerOfTwo(Alignment(a)) /\ Fits(n, a)
        /\ blocks[b] = AllocationSize(n, a)
    BY DEF IInv, Requested, TypeOK
  <1>2. Block(b) = Extent(b, AllocationSize(n, a)) /\ Block(b) \subseteq Heap
    BY <1>1 DEF Block, IInv, BlocksApart
  <1> HIDE DEF b, n, a
  <1>3. Alignment(a) \in 1 .. MaxSize /\ Size(n) \in 1 .. MaxSize
    BY <1>1, RequestFits
  <1>4. p = AlignedAddress(b, a)
    BY DEF a, b
  <1>5. /\ p \in Heap /\ p % Alignment(a) = 0
        /\ HeaderBytes(p) \subseteq Block(b) /\ Extent(p, Size(n)) \subseteq Block(b)
        /\ p \in Extent(p, Size(n))
    BY <1>1, <1>2, <1>4, Placement
  <1>6. ASSUME NEW q \in DOMAIN live
        PROVE  Footprint(q) \cap Block(b) = {}
    <2>1. PICK c \in DOMAIN blocks : Owns(q, c)
      BY DEF IInv, Owned
    <2>2. c # b
      BY <2>1 DEF IInv, Owned, b
    <2> QED BY <1>1, <2>1, <2>2 DEF IInv, BlocksApart, Owns
  <1>7. p \notin DOMAIN live
    BY <1>5, <1>6, LiveAddress DEF IInv
  <1> QED BY <1>1, <1>3, <1>5, <1>6, <1>7 DEF a, b, n

\* The header that is written names the block.
LEMMA HeaderNamesBlock ==
  ASSUME NEW p \in Heap, NEW b, HeaderBytes(p) \subseteq Heap,
         memory' = [x \in Heap |->
                      IF x \in HeaderBytes(p) THEN <<b, x - (p - HeaderSize)>> ELSE memory[x]]
  PROVE  HeaderNames(p, b)'
  <1> SUFFICES ASSUME NEW i \in 0 .. HeaderSize - 1
               PROVE  p - HeaderSize + i \in Heap /\ memory'[p - HeaderSize + i] = <<b, i>>
    BY DEF HeaderNames
  <1>1. p \in Int /\ HeaderSize \in Nat \ {0} /\ i \in Int
    BY Widths
  <1> DEFINE h == p - HeaderSize
  <1>2. h \in Int
    BY <1>1
  <1>3. h + i \in HeaderBytes(p)
    BY <1>1 DEF HeaderBytes, Extent
  <1> HIDE DEF h
  <1>4. (h + i) - h = i
    BY <1>1, <1>2
  <1>5. memory'[h + i] = <<b, (h + i) - h>>
    BY <1>3 DEF h
  <1> QED BY <1>3, <1>4, <1>5 DEF h

\* StoreHeader keeps the invariant.
LEMMA StoreHeaderKeeps ==
  ASSUME IInv, NEW t \in Threads, StoreHeader(t)
  PROVE  IInv'
  <1>0. PICK b, p, entry :
          /\ b = base[t] /\ p = AlignedAddress(base[t], want[t].alignment)
          /\ entry = [size |-> Size(want[t].size),
                      alignment |-> Alignment(want[t].alignment)]
    OBVIOUS
  <1>1. /\ pc[t] = "header" /\ pc' = [pc EXCEPT ![t] = "idle"]
        /\ memory' = [x \in Heap |->
                        IF x \in HeaderBytes(p) THEN <<b, x - (p - HeaderSize)>> ELSE memory[x]]
        /\ live' = [q \in DOMAIN live \cup {p} |-> IF q = p THEN entry ELSE live[q]]
        /\ base' = [base EXCEPT ![t] = 0] /\ want' = [want EXCEPT ![t] = NoRequest]
        /\ UNCHANGED <<blocks, state>>
    BY <1>0 DEF StoreHeader
  <1>2. /\ b \in DOMAIN blocks /\ b \in Heap
        /\ p \in Heap /\ p % entry.alignment = 0
        /\ entry \in [size : 1 .. MaxSize, alignment : 1 .. MaxSize]
        /\ HeaderBytes(p) \subseteq Block(b)
        /\ Extent(p, entry.size) \subseteq Block(b)
        /\ p \notin DOMAIN live
        /\ \A q \in DOMAIN live : Footprint(q) \cap Block(b) = {}
    BY <1>0, <1>1, HeaderPlace DEF IInv, TypeOK
  <1>3. TypeOK /\ BlocksApart /\ Requested /\ Owned /\ Aligned
    BY DEF IInv
  <1>4. Block(b) \subseteq Heap /\ HeaderBytes(p) \subseteq Heap
    BY <1>2, <1>3 DEF BlocksApart
  <1>5. TypeOK'
    <2>1. ASSUME NEW x \in HeaderBytes(p)
          PROVE  x - (p - HeaderSize) \in 0 .. HeaderSize - 1
      BY <1>2, Widths DEF HeaderBytes, Extent
    <2>2. memory' \in [Heap -> {Zero, Data} \cup (Heap \X (0 .. HeaderSize - 1))]
      BY <1>1, <1>2, <1>3, <2>1 DEF TypeOK
    <2>3. pc' \in [Threads -> {"idle", "pool", "header"}] /\ base' \in [Threads -> Heap \cup {0}]
      BY <1>1, <1>3 DEF TypeOK
    <2>4. want' \in [Threads -> [size : Sizes \cup {0}, alignment : Alignments \cup {1},
                                 nothrow : BOOLEAN]]
      BY <1>1, <1>3 DEF TypeOK, NoRequest
    <2>5. /\ DOMAIN live' \subseteq Heap
          /\ \A q \in DOMAIN live' : live'[q] \in [size : 1 .. MaxSize, alignment : 1 .. MaxSize]
      BY <1>1, <1>2, <1>3 DEF TypeOK
    <2> QED BY <1>1, <1>3, <2>2, <2>3, <2>4, <2>5 DEF TypeOK
  <1>6. /\ \A u \in Threads : pc'[u] = IF u = t THEN "idle" ELSE pc[u]
        /\ \A u \in Threads \ {t} : base'[u] = base[u] /\ want'[u] = want[u]
    BY <1>1, <1>3 DEF TypeOK
  <1>7. BlocksApart'
    BY <1>1, <1>3 DEF BlocksApart, Block, Extent
  <1>8. Requested'
    BY <1>1, <1>3, <1>6 DEF Requested
  <1>9. Aligned'
    BY <1>1, <1>2, <1>3 DEF Aligned
  <1>10. \A q \in DOMAIN live : live'[q] = live[q]
    BY <1>1, <1>2
  <1>11. ASSUME NEW q \in DOMAIN live, NEW c \in DOMAIN blocks, Owns(q, c)
         PROVE  Owns(q, c)' /\ \A d : Owns(q, d)' => d = c
    <2>1. q \in Int /\ HeaderBytes(q) \subseteq Footprint(q)
      BY <1>3, LiveAddress
    <2>2. \A x \in HeaderBytes(q) \cap Heap : memory'[x] = memory[x]
      BY <1>1, <1>2, <2>1
    <2> QED BY <1>1, <1>10, <1>11, <2>1, <2>2, OwnershipStays
  <1>12. Owns(p, b)' /\ \A d : Owns(p, d)' => d = b
    <2>1. HeaderNames(p, b)'
      BY <1>1, <1>2, <1>4, HeaderNamesBlock
    <2>2. live'[p] = entry
      BY <1>1
    <2>3. Footprint(p)' \subseteq Block(b)'
      BY <1>1, <1>2, <2>2 DEF Footprint, HeaderBytes, Extent, Block
    <2>4. \A d : Owns(p, d)' => d = b
      BY <2>1, NamesOneNext DEF Owns
    <2> QED BY <2>1, <2>3, <2>4 DEF Owns
  <1>13. \A q \in DOMAIN live : \E c \in DOMAIN blocks : c # b /\ Owns(q, c) /\ Owns(q, c)'
    BY <1>0, <1>1, <1>3, <1>11 DEF Owned
  <1>14. Owned'
    <2>1. \A q \in DOMAIN live' : \E c \in DOMAIN blocks' : Owns(q, c)'
      BY <1>1, <1>2, <1>12, <1>13
    <2>2. ASSUME NEW c, NEW q \in DOMAIN live', NEW r \in DOMAIN live',
                 Owns(q, c)', Owns(r, c)'
          PROVE  q = r
      <3>1. CASE q = p \/ r = p
        BY <1>1, <1>11, <1>12, <1>13, <2>2, <3>1
      <3>2. CASE q \in DOMAIN live /\ r \in DOMAIN live
        BY <1>3, <1>11, <1>13, <2>2, <3>2 DEF Owned
      <3> QED BY <1>1, <3>1, <3>2
    <2>3. \A u, v \in Threads :
            pc'[u] = "header" /\ pc'[v] = "header" /\ base'[u] = base'[v] => u = v
      BY <1>3, <1>6 DEF Owned
    <2>4. ASSUME NEW u \in Threads, pc'[u] = "header", NEW q \in DOMAIN live', Owns(q, base[u])'
          PROVE  FALSE
      <3>1. u # t /\ pc[u] = "header" /\ base'[u] = base[u] /\ base[u] # b
        BY <1>0, <1>1, <1>3, <1>6, <2>4 DEF Owned
      <3>2. q # p
        BY <1>12, <2>4, <3>1
      <3>3. q \in DOMAIN live
        BY <1>1, <3>2
      <3>4. Owns(q, base[u])
        BY <1>11, <1>13, <2>4, <3>1, <3>3
      <3> QED BY <1>3, <3>1, <3>3, <3>4 DEF Owned
    <2>5. ASSUME NEW c \in DOMAIN blocks'
          PROVE  \/ \E u \in Threads : pc'[u] = "header" /\ base'[u] = c
                 \/ \E q \in DOMAIN live' : Owns(q, c)'
      <3>1. CASE c = b
        BY <1>1, <1>12, <3>1
      <3>2. CASE \E u \in Threads : pc[u] = "header" /\ base[u] = c /\ c # b
        BY <1>0, <1>6, <3>2
      <3>3. CASE \E q \in DOMAIN live : Owns(q, c)
        BY <1>1, <1>11, <3>3
      <3> QED BY <1>1, <1>3, <3>1, <3>2, <3>3 DEF Owned
    <2> QED BY <2>1, <2>2, <2>3, <2>4, <2>5 DEF Owned
  <1> QED BY <1>1, <1>5, <1>7, <1>8, <1>9, <1>14 DEF IInv

\* An owner's writes end where the allocation ends.
LEMMA FillKeeps ==
  ASSUME IInv, NEW p \in DOMAIN live, Fill(p)
  PROVE  IInv'
  <1>1. /\ memory' = [x \in Heap |->
                        IF x \in Extent(p, live[p].size) THEN Data ELSE memory[x]]
        /\ UNCHANGED <<blocks, live, pc, want, base, state>>
    BY DEF Fill
  <1>2. TypeOK /\ BlocksApart /\ Requested /\ Owned /\ Aligned
    BY DEF IInv
  <1>3. TypeOK'
    <2>1. memory' \in [Heap -> {Zero, Data} \cup (Heap \X (0 .. HeaderSize - 1))]
      BY <1>1, <1>2 DEF TypeOK
    <2> QED BY <1>1, <1>2, <2>1 DEF TypeOK
  <1>4. BlocksApart' /\ Requested' /\ Aligned'
    <2>1. BlocksApart' /\ Aligned'
      BY <1>1, <1>2 DEF BlocksApart, Aligned, Block, Extent
    <2>2. Requested'
      BY <1>1, <1>2 DEF Requested
    <2> QED BY <2>1, <2>2
  <1>5. PICK b \in DOMAIN blocks : Owns(p, b)
    BY <1>2 DEF Owned
  <1>6. ASSUME NEW q \in DOMAIN live, NEW c \in DOMAIN blocks, Owns(q, c)
        PROVE  Owns(q, c)' /\ \A d : Owns(q, d)' => d = c
    <2>1. q \in Int /\ HeaderBytes(q) \subseteq Footprint(q)
      BY <1>2, LiveAddress
    <2>2. Extent(p, live[p].size) \subseteq Footprint(p)
      BY <1>2, LiveAddress
    <2>3. HeaderBytes(q) \cap Extent(p, live[p].size) = {}
      <3>1. CASE q = p
        <4>1. live[p].size \in Int
          BY <1>2 DEF TypeOK
        <4> QED BY <2>1, <3>1, <4>1, Widths DEF HeaderBytes, Extent
      <3>2. CASE q # p
        <4>1. b # c
          BY <1>2, <1>5, <1>6, <3>2 DEF Owned
        <4> QED BY <1>2, <1>5, <1>6, <2>1, <2>2, <4>1, ApartByBlocks
      <3> QED BY <3>1, <3>2
    <2>4. \A x \in HeaderBytes(q) \cap Heap : memory'[x] = memory[x]
      BY <1>1, <2>3
    <2> QED BY <1>1, <1>6, <2>1, <2>4, OwnershipStays
  <1>7. \A q \in DOMAIN live : \E c \in DOMAIN blocks : Owns(q, c) /\ Owns(q, c)'
    BY <1>2, <1>6 DEF Owned
  <1>8. \A q \in DOMAIN live : \A c : Owns(q, c)' <=> Owns(q, c) /\ c \in DOMAIN blocks
    BY <1>6, <1>7
  <1>9. Owned'
    BY <1>1, <1>2, <1>7, <1>8 DEF Owned
  <1> QED BY <1>1, <1>3, <1>4, <1>9 DEF IInv

\* The header of a live allocation makes delete free the allocation's block.
LEMMA DeleteFrees ==
  ASSUME IInv, NEW p \in DOMAIN live, Delete(p)
  PROVE  \E b \in DOMAIN blocks :
           /\ Owns(p, b)
           /\ live' = Restrict(live, DOMAIN live \ {p})
           /\ blocks' = Restrict(blocks, DOMAIN blocks \ {b})
           /\ memory' = [x \in Heap |-> IF x \in Block(b) THEN Zero ELSE memory[x]]
           /\ UNCHANGED <<pc, want, base, state>>
  <1>1. PICK b \in DOMAIN blocks : Owns(p, b)
    BY DEF IInv, Owned
  <1> DEFINE freed == {c \in DOMAIN blocks : HeaderNames(p, c)}
  <1>2. freed = {b}
    BY <1>1, NamesOne DEF Owns
  <1>3. /\ live' = Restrict(live, DOMAIN live \ {p})
        /\ blocks' = Restrict(blocks, DOMAIN blocks \ freed)
        /\ memory' = [x \in Heap |->
                        IF \E c \in freed : x \in Extent(c, blocks[c]) THEN Zero ELSE memory[x]]
        /\ state' = IF freed = {} THEN "corrupted" ELSE state
        /\ UNCHANGED <<pc, want, base>>
    BY DEF Delete
  <1> HIDE DEF freed
  <1>4. memory' = [x \in Heap |-> IF x \in Block(b) THEN Zero ELSE memory[x]]
    BY <1>2, <1>3 DEF Block
  <1>5. state' = state
    BY <1>2, <1>3
  <1> QED BY <1>1, <1>2, <1>3, <1>4, <1>5

\* Delete keeps the invariant.
LEMMA DeleteKeeps ==
  ASSUME IInv, NEW p \in DOMAIN live, Delete(p)
  PROVE  IInv'
  <1>1. PICK b \in DOMAIN blocks :
          /\ Owns(p, b)
          /\ live' = Restrict(live, DOMAIN live \ {p})
          /\ blocks' = Restrict(blocks, DOMAIN blocks \ {b})
          /\ memory' = [x \in Heap |-> IF x \in Block(b) THEN Zero ELSE memory[x]]
          /\ UNCHANGED <<pc, want, base, state>>
    BY DeleteFrees
  <1>2. TypeOK /\ BlocksApart /\ Requested /\ Owned /\ Aligned
    BY DEF IInv
  <1>3. /\ DOMAIN live' = DOMAIN live \ {p} /\ \A q \in DOMAIN live' : live'[q] = live[q]
        /\ DOMAIN blocks' = DOMAIN blocks \ {b}
        /\ \A c \in DOMAIN blocks' : blocks'[c] = blocks[c]
    BY <1>1 DEF Restrict
  <1>4. TypeOK'
    <2>1. memory' \in [Heap -> {Zero, Data} \cup (Heap \X (0 .. HeaderSize - 1))]
      BY <1>1, <1>2 DEF TypeOK
    <2> QED BY <1>1, <1>2, <1>3, <2>1 DEF TypeOK
  <1>5. BlocksApart'
    BY <1>2, <1>3 DEF BlocksApart, Block, Extent
  <1>6. ASSUME NEW u \in Threads, pc[u] = "header"
        PROVE  base[u] \in DOMAIN blocks' /\ blocks'[base[u]] = blocks[base[u]]
    <2>1. base[u] # b
      BY <1>1, <1>2, <1>6 DEF Owned
    <2>2. base[u] \in DOMAIN blocks
      BY <1>2, <1>6 DEF Requested
    <2> QED BY <1>3, <2>1, <2>2
  <1>7. Requested'
    BY <1>1, <1>2, <1>6 DEF Requested
  <1>8. Aligned'
    BY <1>2, <1>3 DEF Aligned
  <1>9. ASSUME NEW q \in DOMAIN live', NEW c \in DOMAIN blocks, Owns(q, c)
        PROVE  c \in DOMAIN blocks' /\ Owns(q, c)' /\ \A d : Owns(q, d)' => d = c
    <2>1. q \in DOMAIN live /\ q # p
      BY <1>3
    <2>2. c # b
      BY <1>1, <1>2, <1>9, <2>1 DEF Owned
    <2>3. q \in Int /\ HeaderBytes(q) \subseteq Block(c)
      BY <1>2, <1>9, <2>1, LiveAddress DEF Owns, Footprint
    <2>4. \A x \in HeaderBytes(q) \cap Heap : memory'[x] = memory[x]
      BY <1>1, <1>2, <2>2, <2>3 DEF BlocksApart
    <2>5. c \in DOMAIN blocks'
      BY <1>3, <2>2
    <2> QED BY <1>3, <1>9, <2>1, <2>3, <2>4, <2>5, OwnershipStays
  <1>10. \A q \in DOMAIN live' : \E c \in DOMAIN blocks' : Owns(q, c) /\ Owns(q, c)'
    BY <1>2, <1>3, <1>9 DEF Owned
  <1>11. \A q \in DOMAIN live' : \A c : Owns(q, c)' => Owns(q, c) /\ c \in DOMAIN blocks
    BY <1>3, <1>9, <1>10
  <1>12. Owned'
    <2>1. \A q \in DOMAIN live' : \E c \in DOMAIN blocks' : Owns(q, c)'
      BY <1>10
    <2>2. ASSUME NEW c, NEW q \in DOMAIN live', NEW r \in DOMAIN live',
                 Owns(q, c)', Owns(r, c)'
          PROVE  q = r
      BY <1>2, <1>3, <1>11, <2>2 DEF Owned
    <2>3. \A u, v \in Threads :
            pc'[u] = "header" /\ pc'[v] = "header" /\ base'[u] = base'[v] => u = v
      BY <1>1, <1>2 DEF Owned
    <2>4. ASSUME NEW u \in Threads, pc'[u] = "header", NEW q \in DOMAIN live', Owns(q, base[u])'
          PROVE  FALSE
      BY <1>1, <1>2, <1>3, <1>11, <2>4 DEF Owned
    <2>5. ASSUME NEW c \in DOMAIN blocks'
          PROVE  \/ \E u \in Threads : pc'[u] = "header" /\ base'[u] = c
                 \/ \E q \in DOMAIN live' : Owns(q, c)'
      <3>1. c \in DOMAIN blocks /\ c # b
        BY <1>3
      <3>2. ASSUME NEW q \in DOMAIN live, Owns(q, c)
            PROVE  q \in DOMAIN live' /\ Owns(q, c)'
        <4>1. q # p
          BY <1>1, <3>1, <3>2, NamesOne DEF Owns
        <4> QED BY <1>3, <1>9, <3>1, <3>2, <4>1
      <3> QED BY <1>1, <1>2, <3>1, <3>2 DEF Owned
    <2> QED BY <2>1, <2>2, <2>3, <2>4, <2>5 DEF Owned
  <1>13. state' # "corrupted"
    BY <1>1 DEF IInv
  <1> QED BY <1>4, <1>5, <1>7, <1>8, <1>12, <1>13 DEF IInv

-----------------------------------------------------------------------------

\* The invariant holds in every initial state.
LEMMA InitInvariant == Init => IInv
  <1> SUFFICES ASSUME Init PROVE IInv
    OBVIOUS
  <1>1. TypeOK
    BY DEF Init, TypeOK, NoRequest
  <1>2. DOMAIN blocks = {} /\ DOMAIN live = {} /\ \A t \in Threads : pc[t] = "idle"
    BY DEF Init
  <1> QED BY <1>1, <1>2 DEF Init, IInv, BlocksApart, Requested, Owned, Aligned

\* Every step keeps the invariant.
LEMMA StepInvariant == IInv /\ [Next]_vars => IInv'
  <1> SUFFICES ASSUME IInv, [Next]_vars PROVE IInv'
    OBVIOUS
  <1>1. ASSUME NEW t \in Threads, NEW n \in Sizes, NEW a \in Alignments,
               NEW nothrow \in BOOLEAN, New(t, n, a, nothrow)
        PROVE  IInv'
    BY <1>1, NewKeeps
  <1>2. ASSUME NEW t \in Threads, PoolAllocates(t) PROVE IInv'
    BY <1>2, PoolAllocatesKeeps
  <1>3. ASSUME NEW t \in Threads, PoolExhausted(t) PROVE IInv'
    BY <1>3, PoolExhaustedKeeps
  <1>4. ASSUME NEW t \in Threads, StoreHeader(t) PROVE IInv'
    BY <1>4, StoreHeaderKeeps
  <1>5. ASSUME NEW p \in DOMAIN live, Fill(p) PROVE IInv'
    BY <1>5, FillKeeps
  <1>6. ASSUME NEW p \in DOMAIN live, Delete(p) PROVE IInv'
    BY <1>6, DeleteKeeps
  <1>7. CASE UNCHANGED vars
    <2>1. UNCHANGED <<blocks, memory, live, pc, want, base, state>>
      BY <1>7 DEF vars
    <2>2. TypeOK'
      BY <2>1 DEF IInv, TypeOK
    <2>3. BlocksApart' /\ Owned' /\ Aligned'
      BY <2>1, PoolUntouched
    <2>4. Requested'
      BY <2>1 DEF IInv, Requested
    <2> QED BY <2>1, <2>2, <2>3, <2>4 DEF IInv
  <1> QED BY <1>1, <1>2, <1>3, <1>4, <1>5, <1>6, <1>7 DEF Next

\* So it holds throughout.
LEMMA InvariantHolds == Spec => []IInv
  BY InitInvariant, StepInvariant, PTL DEF Spec

\* Every variable keeps its type: a block and an allocation are addresses of
\* the heap, and no size of either is 0, whatever size_t's width is.
THEOREM TypeCorrect == Spec => []TypeOK
  <1>1. IInv => TypeOK
    BY DEF IInv
  <1> QED BY <1>1, InvariantHolds, PTL

\* What Allocate returns is aligned as asked, lies with its header in a block
\* of its own and shares no byte with what else is allocated.
THEOREM AllocationsAreApart == Spec => []AllocationsApart
  <1>1. IInv => AllocationsApart
    <2> SUFFICES ASSUME IInv PROVE AllocationsApart
      OBVIOUS
    <2>1. TypeOK /\ BlocksApart /\ Owned /\ Aligned
      BY DEF IInv
    <2>2. ASSUME NEW p \in DOMAIN live
          PROVE  \E b \in DOMAIN blocks : Footprint(p) \subseteq Extent(b, blocks[b])
      BY <2>1 DEF Owned, Owns, Block
    <2>3. ASSUME NEW p \in DOMAIN live, NEW q \in DOMAIN live, p # q
          PROVE  Footprint(p) \cap Footprint(q) = {}
      <3>1. PICK b \in DOMAIN blocks : Owns(p, b)
        BY <2>1 DEF Owned
      <3>2. PICK c \in DOMAIN blocks : Owns(q, c)
        BY <2>1 DEF Owned
      <3>3. b # c
        BY <2>1, <2>3, <3>1, <3>2 DEF Owned
      <3> QED BY <2>1, <3>1, <3>2, <3>3, ApartByBlocks
    <2> QED BY <2>1, <2>2, <2>3 DEF AllocationsApart, Aligned
  <1> QED BY <1>1, InvariantHolds, PTL

\* No block is lost and none is freed for another: the header next to what its
\* owner writes keeps naming the one block that delete has to free.
THEOREM BlocksHaveOneOwner == Spec => []EveryBlockHasOneOwner
  <1>1. IInv => EveryBlockHasOneOwner
    <2> SUFFICES ASSUME IInv PROVE EveryBlockHasOneOwner
      OBVIOUS
    <2>1. TypeOK /\ Owned /\ state # "corrupted"
      BY DEF IInv
    <2>2. ASSUME NEW b \in DOMAIN blocks
          PROVE  LET named == {p \in DOMAIN live : HeaderNames(p, b)}
                     held == {t \in Threads : pc[t] = "header" /\ base[t] = b}
                 IN \/ held = {} /\ \E p \in named : named = {p} /\ p \in Extent(b, blocks[b])
                    \/ named = {} /\ \E t \in held : held = {t}
      <3> DEFINE named == {p \in DOMAIN live : HeaderNames(p, b)}
                 held == {t \in Threads : pc[t] = "header" /\ base[t] = b}
      <3>1. \A p \in named : Owns(p, b)
        BY NamedIsOwned
      <3>2. CASE \E t \in Threads : pc[t] = "header" /\ base[t] = b
        <4>1. named = {}
          BY <2>1, <3>1, <3>2 DEF Owned
        <4>2. \E t \in held : held = {t}
          BY <2>1, <3>2 DEF Owned
        <4> QED BY <4>1, <4>2
      <3>3. ASSUME NEW p \in DOMAIN live, Owns(p, b)
            PROVE  held = {} /\ named = {p} /\ p \in Extent(b, blocks[b])
        <4>1. held = {}
          BY <2>1, <3>3 DEF Owned
        <4>2. named = {p}
          BY <2>1, <3>1, <3>3 DEF Owned, Owns
        <4>3. p \in Extent(b, blocks[b])
          BY <2>1, <3>3, LiveAddress DEF Owns, Block
        <4> QED BY <4>1, <4>2, <4>3
      <3>4. \/ \E t \in Threads : pc[t] = "header" /\ base[t] = b
            \/ \E p \in DOMAIN live : Owns(p, b)
        BY <2>1 DEF Owned
      <3> QED BY <3>2, <3>3, <3>4
    <2>3. \A p \in DOMAIN live : \E b \in DOMAIN blocks : HeaderNames(p, b)
      BY <2>1 DEF Owned, Owns
    <2> QED BY <2>1, <2>2, <2>3 DEF EveryBlockHasOneOwner
  <1> QED BY <1>1, InvariantHolds, PTL

\* What an allocation holds is changed by its owner alone.
THEOREM OnlyOwnersWriteThere == Spec => OnlyOwnersWrite
  <1> DEFINE Changed(p) == \E x \in Heap \cap Extent(p, live[p].size) : memory'[x] # memory[x]
  <1>1. ASSUME IInv, Next, NEW p \in DOMAIN live \cap DOMAIN live', Changed(p)
        PROVE  Fill(p)
    <2>1. TypeOK /\ BlocksApart /\ Owned
      BY <1>1 DEF IInv
    <2>2. PICK b \in DOMAIN blocks : Owns(p, b)
      BY <1>1, <2>1 DEF Owned
    <2>3. PICK x \in Heap : /\ x \in Extent(p, live[p].size) /\ memory'[x] # memory[x]
                            /\ x \in Footprint(p) /\ x \in Block(b)
      BY <1>1, <2>1, <2>2, LiveAddress DEF Owns
    <2>4. ASSUME NEW t \in Threads, NEW n \in Sizes, NEW a \in Alignments,
                 NEW nothrow \in BOOLEAN, New(t, n, a, nothrow)
          PROVE  FALSE
      BY <2>3, <2>4 DEF New
    <2>5. ASSUME NEW t \in Threads, PoolAllocates(t) PROVE FALSE
      BY <1>1, <2>2, <2>3, <2>5, NewBlock
    <2>6. ASSUME NEW t \in Threads, PoolExhausted(t) PROVE FALSE
      BY <2>3, <2>6 DEF PoolExhausted
    <2>7. ASSUME NEW t \in Threads, StoreHeader(t) PROVE FALSE
      <3>1. PICK h : h = AlignedAddress(base[t], want[t].alignment)
        OBVIOUS
      <3>2. x \in HeaderBytes(h)
        BY <2>3, <2>7, <3>1 DEF StoreHeader
      <3>3. x \in Block(base[t]) /\ Footprint(p) \cap Block(base[t]) = {}
        BY <1>1, <2>7, <3>1, <3>2, HeaderPlace DEF StoreHeader
      <3> QED BY <2>3, <3>3
    <2>8. ASSUME NEW q \in DOMAIN live, Fill(q) PROVE q = p
      <3>1. PICK c \in DOMAIN blocks : Owns(q, c)
        BY <2>1 DEF Owned
      <3>2. x \in Footprint(q)
        BY <2>3, <2>8 DEF Fill, Footprint
      <3> QED BY <1>1, <2>1, <2>2, <2>3, <3>1, <3>2, ApartByBlocks DEF Owned
    <2>9. ASSUME NEW q \in DOMAIN live, Delete(q) PROVE FALSE
      <3>1. PICK c \in DOMAIN blocks :
              /\ Owns(q, c)
              /\ live' = Restrict(live, DOMAIN live \ {q})
              /\ memory' = [y \in Heap |-> IF y \in Block(c) THEN Zero ELSE memory[y]]
        BY <1>1, <2>9, DeleteFrees
      <3>2. p # q
        BY <1>1, <3>1 DEF Restrict
      <3>3. b # c
        BY <1>1, <2>1, <2>2, <3>1, <3>2 DEF Owned
      <3> QED BY <2>1, <2>3, <3>1, <3>3 DEF BlocksApart
    <2> QED BY <1>1, <2>4, <2>5, <2>6, <2>7, <2>8, <2>9 DEF Next
  <1>2. IInv /\ [Next]_vars =>
          [\A p \in DOMAIN live \cap DOMAIN live' : Changed(p) => Fill(p)]_vars
    BY <1>1
  <1> QED BY <1>2, InvariantHolds, PTL DEF Spec, OnlyOwnersWrite

=============================================================================
