------------------------------ MODULE PoolRuntime ------------------------------
(***************************************************************************)
(* CRT/Runtime.cpp: operator new and operator delete of the driver, over   *)
(* the kernel's pool.  An allocation asks the pool for room for a header   *)
(* and for alignment, returns the first suitably aligned address behind    *)
(* the header, and keeps in the header, right in front of that address,    *)
(* where the pool's block begins; delete has nothing else to go by.        *)
(*                                                                         *)
(* Memory is bytes.  The owner of an allocation may write all of it, at    *)
(* any time; threads allocate and free between any two steps of another.   *)
(* Arithmetic on std::size_t wraps at MaxSize + 1.                         *)
(***************************************************************************)
EXTENDS Integers, Functions

CONSTANTS
  Threads,
  Heap,           \* the addresses the pool hands out, a range without 0
  MaxSize,        \* numeric_limits<size_t>::max()
  HeaderSize,     \* sizeof(AllocationHeader)
  MinAlignment,   \* alignof(std::max_align_t)
  Sizes,          \* the sizes asked for
  Alignments      \* the alignments asked for

(* Value != 0 && (Value & (Value - 1)) == 0 *)
IsPowerOfTwo(v) == \E k \in 0 .. v : v = 2 ^ k

\* A power of two that size_t holds leaves room for a header above it.
ASSUME PoolAssumption ==
  /\ MaxSize \in Nat /\ HeaderSize \in Nat \ {0}
  /\ MinAlignment \in Nat \ {0} /\ IsPowerOfTwo(MinAlignment)
  /\ Heap \subseteq 1 .. MaxSize
  /\ Sizes \subseteq 0 .. MaxSize
  /\ Alignments \subseteq 1 .. MaxSize
  /\ \A a \in Alignments \cup {MinAlignment} :
       IsPowerOfTwo(a) => a + HeaderSize - 1 <= MaxSize

VARIABLES
  blocks,    \* blocks of the pool in use: base -> size
  memory,    \* what each byte of the heap holds
  live,      \* allocations that have been returned: address -> size, alignment
  pc,        \* thread -> where it is in Allocate
  want,      \* thread -> the size and alignment it asks for, and whether
             \* nullptr is an answer
  base,      \* thread -> Allocation
  state      \* "running", "stopped" by __fastfail, or "corrupted": the pool
             \* was given something that is no block of its own

vars == <<blocks, memory, live, pc, want, base, state>>

\* A byte of a block nobody has written, and a byte of an allocation's owner;
\* the i-th byte of a header that holds b is <<b, i>>.
Zero == <<>>
Data == <<"data">>

NoRequest == [size |-> 0, alignment |-> 1, nothrow |-> FALSE]

-----------------------------------------------------------------------------

Wrap(n) == n % (MaxSize + 1)

Extent(p, n) == p .. p + n - 1

(* Allocate raises Alignment to that of std::max_align_t. *)
Alignment(a) == IF a < MinAlignment THEN MinAlignment ELSE a

Size(n) == IF n = 0 THEN 1 ELSE n

(* Mutant: the room lost to alignment is left out of the test.             *)
FitsHeaderOnly(n, a) == Size(n) <= Wrap(MaxSize - HeaderSize)

(* The size with header and alignment added does not wrap. *)
Fits(n, a) == Size(n) <= Wrap(MaxSize - HeaderSize - (Alignment(a) - 1))

(* Mutant: no room is left to align in. *)
AllocationSizeUnaligned(n, a) == Wrap(Size(n) + HeaderSize)

AllocationSize(n, a) == Wrap(Size(n) + HeaderSize + Alignment(a) - 1)

(* Mutant: the block's base is aligned, not the first address behind the   *)
(* header.                                                                 *)
AlignedAddressOfBase(b, a) ==
  LET top == Wrap(b + Alignment(a) - 1) IN top - (top % Alignment(a))

(* (FirstAddress + Alignment - 1) & ~(Alignment - 1)                       *)
AlignedAddress(b, a) ==
  LET top == Wrap(b + HeaderSize + Alignment(a) - 1) IN top - (top % Alignment(a))

(* The header of an allocation: the bytes in front of it. *)
HeaderBytes(p) == Extent(p - HeaderSize, HeaderSize)

(* The blocks a header can be read to name. *)
HeaderNames(p, b) ==
  \A i \in 0 .. HeaderSize - 1 :
    p - HeaderSize + i \in Heap /\ memory[p - HeaderSize + i] = <<b, i>>

-----------------------------------------------------------------------------

Init ==
  /\ blocks = [b \in {} |-> 0]
  /\ memory = [a \in Heap |-> Zero]
  /\ live = [p \in {} |-> [size |-> 0, alignment |-> 0]]
  /\ pc = [t \in Threads |-> "idle"]
  /\ want = [t \in Threads |-> NoRequest]
  /\ base = [t \in Threads |-> 0]
  /\ state = "running"

(* Allocate has returned nullptr: AllocateOrFail stops the machine, the    *)
(* nothrow operators hand nullptr to their caller.                         *)
ReturnNull(t, nothrow) ==
  /\ pc' = [pc EXCEPT ![t] = "idle"]
  /\ want' = [want EXCEPT ![t] = NoRequest]
  /\ state' = IF nothrow THEN state ELSE "stopped"

(* One of the operators new is called: Allocate refuses the alignment or   *)
(* the size, or goes to the pool.                                          *)
New(t, n, a, nothrow) ==
  /\ state = "running"
  /\ pc[t] = "idle"
  /\ IF IsPowerOfTwo(Alignment(a)) /\ Fits(n, a)
     THEN /\ pc' = [pc EXCEPT ![t] = "pool"]
          /\ want' = [want EXCEPT ![t] = [size |-> n, alignment |-> a, nothrow |-> nothrow]]
          /\ UNCHANGED state
     ELSE ReturnNull(t, nothrow)
  /\ UNCHANGED <<blocks, memory, live, base>>

(* ExAllocatePool2 finds a block, no byte of which is in use, and clears   *)
(* it.                                                                     *)
PoolAllocates(t) ==
  LET n == AllocationSize(want[t].size, want[t].alignment)
  IN /\ state = "running"
     /\ pc[t] = "pool"
     /\ \E b \in Heap :
          /\ Extent(b, n) \subseteq Heap
          /\ \A c \in DOMAIN blocks : Extent(b, n) \cap Extent(c, blocks[c]) = {}
          /\ blocks' = [c \in DOMAIN blocks \cup {b} |-> IF c = b THEN n ELSE blocks[c]]
          /\ memory' = [x \in Heap |-> IF x \in Extent(b, n) THEN Zero ELSE memory[x]]
          /\ base' = [base EXCEPT ![t] = b]
     /\ pc' = [pc EXCEPT ![t] = "header"]
     /\ UNCHANGED <<live, want, state>>

(* ExAllocatePool2 has no memory. *)
PoolExhausted(t) ==
  /\ state = "running"
  /\ pc[t] = "pool"
  /\ ReturnNull(t, want[t].nothrow)
  /\ UNCHANGED <<blocks, memory, live, base>>

(* The header is written and the aligned address returned. *)
StoreHeader(t) ==
  LET p == AlignedAddress(base[t], want[t].alignment)
  IN /\ state = "running"
     /\ pc[t] = "header"
     /\ memory' = [x \in Heap |->
                     IF x \in HeaderBytes(p) THEN <<base[t], x - (p - HeaderSize)>>
                                             ELSE memory[x]]
     /\ live' = [q \in DOMAIN live \cup {p} |->
                   IF q = p THEN [size |-> Size(want[t].size),
                                  alignment |-> Alignment(want[t].alignment)]
                   ELSE live[q]]
     /\ pc' = [pc EXCEPT ![t] = "idle"]
     /\ base' = [base EXCEPT ![t] = 0]
     /\ want' = [want EXCEPT ![t] = NoRequest]
     /\ UNCHANGED <<blocks, state>>

(* The owner of an allocation writes it. *)
Fill(p) ==
  /\ state = "running"
  /\ p \in DOMAIN live
  /\ memory' = [x \in Heap |->
                  IF x \in Extent(p, live[p].size) THEN Data ELSE memory[x]]
  /\ UNCHANGED <<blocks, live, pc, want, base, state>>

(* One of the operators delete is called with an allocation.  Free passes  *)
(* the pool what the header names; a header that is no longer what         *)
(* Allocate stored, or names no block, gives the pool anything.            *)
Delete(p) ==
  /\ state = "running"
  /\ p \in DOMAIN live
  /\ live' = Restrict(live, DOMAIN live \ {p})
  /\ LET freed == {b \in DOMAIN blocks : HeaderNames(p, b)}
     IN /\ blocks' = Restrict(blocks, DOMAIN blocks \ freed)
        /\ memory' = [x \in Heap |->
                        IF \E b \in freed : x \in Extent(b, blocks[b]) THEN Zero ELSE memory[x]]
        /\ state' = IF freed = {} THEN "corrupted" ELSE state
  /\ UNCHANGED <<pc, want, base>>

Next ==
  \/ \E t \in Threads :
       \/ \E n \in Sizes, a \in Alignments, nothrow \in BOOLEAN : New(t, n, a, nothrow)
       \/ PoolAllocates(t) \/ PoolExhausted(t) \/ StoreHeader(t)
  \/ \E p \in DOMAIN live : Fill(p) \/ Delete(p)

Spec == Init /\ [][Next]_vars

-----------------------------------------------------------------------------

TypeOK ==
  /\ DOMAIN blocks \subseteq Heap
  /\ \A b \in DOMAIN blocks : blocks[b] \in 1 .. MaxSize
  /\ memory \in [Heap -> {Zero, Data} \cup (Heap \X (0 .. HeaderSize - 1))]
  /\ DOMAIN live \subseteq Heap
  /\ \A p \in DOMAIN live : live[p] \in [size : 1 .. MaxSize, alignment : 1 .. MaxSize]
  /\ pc \in [Threads -> {"idle", "pool", "header"}]
  /\ want \in [Threads -> [size : Sizes \cup {0}, alignment : Alignments \cup {1},
                           nothrow : BOOLEAN]]
  /\ base \in [Threads -> Heap \cup {0}]
  /\ state \in {"running", "stopped", "corrupted"}

Footprint(p) == HeaderBytes(p) \cup Extent(p, live[p].size)

(* Every allocation has the alignment asked for, lies with its header in   *)
(* one block of the pool, and shares no byte of either with another; two   *)
(* allocations of no bytes are still two addresses.                        *)
AllocationsApart ==
  /\ \A p \in DOMAIN live :
       /\ p % live[p].alignment = 0
       /\ \E b \in DOMAIN blocks : Footprint(p) \subseteq Extent(b, blocks[b])
  /\ \A p, q \in DOMAIN live : p # q => Footprint(p) \cap Footprint(q) = {}

(* Each block of the pool belongs to one allocation, whose header names    *)
(* it, or to one call of Allocate that has not returned, and each          *)
(* allocation has one: no block is lost, and delete always gives the pool  *)
(* the block of what is deleted, though the block's base is kept nowhere   *)
(* but in memory its owner writes next to.                                 *)
EveryBlockHasOneOwner ==
  /\ \A b \in DOMAIN blocks :
       LET named == {p \in DOMAIN live : HeaderNames(p, b)}
           held == {t \in Threads : pc[t] = "header" /\ base[t] = b}
       IN \/ held = {} /\ \E p \in named : named = {p} /\ p \in Extent(b, blocks[b])
          \/ named = {} /\ \E t \in held : held = {t}
  /\ \A p \in DOMAIN live : \E b \in DOMAIN blocks : HeaderNames(p, b)
  /\ state # "corrupted"

(* What an allocation holds changes only by its owner's writes, whatever   *)
(* other threads allocate, write and free, until it is deleted.            *)
OnlyOwnersWrite ==
  [][\A p \in DOMAIN live \cap DOMAIN live' :
       (\E x \in Heap \cap Extent(p, live[p].size) : memory'[x] # memory[x]) => Fill(p)]_vars

=============================================================================
