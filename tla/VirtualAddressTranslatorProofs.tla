-------------------- MODULE VirtualAddressTranslatorProofs --------------------
(***************************************************************************)
(* Proofs about VirtualAddressTranslator, for any page tables, any number  *)
(* of changes to them, any processors and any pages that cannot be read.   *)
(***************************************************************************)
EXTENDS VirtualAddressTranslator, PageArithmetic

\* The constants, as numbers.
LEMMA Numbers ==
  /\ PageSize \in Nat \ {0} /\ MaxAddress \in Nat
  /\ Fanout \in Nat \ {0} /\ EntrySize \in Nat \ {0}
  /\ Fanout * EntrySize = PageSize
  /\ 2 ^ MaxPhysicalBits \in Nat \ {0}
  /\ 2 ^ MaxPhysicalBits <= MaxAddress + 1
  /\ (2 ^ MaxPhysicalBits) % PageSize = 0
  <1>1. MaxPhysicalBits \in MinPhysicalBits .. MaxPhysicalBits
    BY TranslatorAssumption
  <1> QED BY <1>1, GeometryAssumption, TranslatorAssumption, PowersAssumption

\* The processor's physical addresses are a whole number of pages of each size.
LEMMA LimitIsPages ==
  ASSUME processor \in Processors
  PROVE  /\ PhysicalLimit \in Nat \ {0}
         /\ PhysicalLimit % PageSize = 0
         /\ PhysicalLimit <= 2 ^ MaxPhysicalBits
         /\ \A l \in 1 .. 3 : PhysicalLimit % Span(l) = 0
  <1> DEFINE width == IF processor.bits < MinPhysicalBits THEN MinPhysicalBits
                      ELSE StdMin(processor.bits, MaxPhysicalBits)
  <1>1. width \in MinPhysicalBits .. MaxPhysicalBits
    BY TranslatorAssumption DEF StdMin
  <1>2. PhysicalLimit = 2 ^ width
    BY DEF PhysicalLimit
  <1> HIDE DEF width
  <1>3. \A l \in 0 .. 2 : (2 ^ width) % (PageSize * Fanout ^ l) = 0
    BY <1>1, PowersAssumption
  <1>4. (2 ^ width) % PageSize = 0
    <2>1. PageSize * Fanout ^ 0 = PageSize
      BY Numbers, PowersAssumption
    <2> QED BY <1>3, <2>1
  <1>5. ASSUME NEW l \in 1 .. 3
        PROVE  PhysicalLimit % Span(l) = 0
    <2>1. l - 1 \in 0 .. 2
      OBVIOUS
    <2> QED BY <1>2, <1>3, <2>1 DEF Span
  <1> QED BY <1>1, <1>2, <1>4, <1>5, PowersAssumption

\* A mask of whole pages makes of a page a page.
LEMMA MaskedPage ==
  ASSUME NEW n \in Nat, NEW limit \in Nat \ {0},
         n % PageSize = 0, limit % PageSize = 0
  PROVE  n % limit \in 0 .. limit - 1 /\ n % limit <= n /\ (n % limit) % PageSize = 0
  <1> DEFINE q == n \div limit
             r == n % limit
             k == n \div PageSize
             c == limit \div PageSize
  <1>1. PageSize \in Nat \ {0}
    BY Numbers
  <1>2. q \in Nat /\ r \in 0 .. limit - 1 /\ n = q * limit + r
    OBVIOUS
  <1>3. k \in Int /\ n = k * PageSize + (n % PageSize)
    BY <1>1, DivideWithRemainder
  <1>4. c \in Int /\ limit = c * PageSize + (limit % PageSize)
    BY <1>1, DivideWithRemainder
  <1>5. n = k * PageSize /\ limit = c * PageSize
    BY <1>1, <1>3, <1>4
  <1> HIDE DEF q, r, k, c
  <1>6. r <= n
    <2>1. q * limit \in Nat
      BY <1>2
    <2> QED BY <1>2, <2>1
  <1>7. r = (k - q * c) * PageSize + 0
    BY <1>1, <1>2, <1>3, <1>4, <1>5
  <1>8. r % PageSize = 0
    <2>1. k - q * c \in Int /\ 0 \in 0 .. PageSize - 1 /\ r \in Int
      BY <1>1, <1>2, <1>3, <1>4
    <2> QED BY <1>1, <1>7, <2>1, RemainderIsUnique
  <1> QED BY <1>2, <1>6, <1>8 DEF r

\* A page below a limit of whole pages ends below it.
LEMMA PageBelowLimit ==
  ASSUME NEW page \in Nat, NEW limit \in Nat,
         page % PageSize = 0, limit % PageSize = 0, page < limit
  PROVE  page + PageSize <= limit
  <1> DEFINE k == page \div PageSize
             c == limit \div PageSize
  <1>1. PageSize \in Nat \ {0}
    BY Numbers
  <1>2. k \in Int /\ page = k * PageSize + (page % PageSize)
    BY <1>1, DivideWithRemainder
  <1>3. c \in Int /\ limit = c * PageSize + (limit % PageSize)
    BY <1>1, DivideWithRemainder
  <1>4. page = k * PageSize /\ limit = c * PageSize
    BY <1>1, <1>2, <1>3
  <1> HIDE DEF k, c
  <1>5. limit - page = (c - k) * PageSize + 0 /\ limit - page \in Nat \ {0}
    BY <1>1, <1>2, <1>3, <1>4
  <1>6. (limit - page) % PageSize = 0
    <2>1. c - k \in Int /\ 0 \in 0 .. PageSize - 1
      BY <1>1, <1>2, <1>3
    <2> DEFINE n == limit - page
               m == c - k
    <2>2. n = m * PageSize + 0 /\ n \in Int /\ m \in Int
      BY <1>5, <2>1
    <2> HIDE DEF n, m
    <2>3. n % PageSize = 0
      BY <1>1, <2>1, <2>2, RemainderIsUnique
    <2> QED BY <2>3 DEF n
  <1>7. limit - page >= PageSize
    BY <1>1, <1>5, <1>6, PositiveMultiple
  <1> QED BY <1>1, <1>7

\* The address in an entry or in CR3, once masked, is a page the processor has.
LEMMA TableIsPage ==
  ASSUME processor \in Processors, NEW a \in Address
  PROVE  TableAddress(a) \in Pages /\ TableAddress(a) < PhysicalLimit
  <1>1. PageBase(a) \in Pages
    BY PageInSpace
  <1>2. PageBase(a) \in Nat /\ PageBase(a) % PageSize = 0 /\ PageBase(a) <= MaxAddress
    BY <1>1, Numbers DEF Pages, Address
  <1>3. PhysicalLimit \in Nat \ {0} /\ PhysicalLimit % PageSize = 0
    BY LimitIsPages
  <1> DEFINE n == PageBase(a)
             masked == n % PhysicalLimit
  <1>4. /\ masked \in 0 .. PhysicalLimit - 1 /\ masked <= n /\ masked % PageSize = 0
    BY <1>2, <1>3, MaskedPage
  <1>5. TableAddress(a) = masked
    BY DEF TableAddress
  <1> HIDE DEF n, masked
  <1>6. masked \in Address /\ masked < PhysicalLimit
    BY <1>2, <1>3, <1>4, Numbers DEF Address, n
  <1> QED BY <1>4, <1>5, <1>6 DEF Pages

\* What CR3 names as a table is a page.
LEMMA RootIsPage ==
  ASSUME NEW d \in Address
  PROVE  RootAddress(d) \in Pages
  <1>1. PageBase(d) \in Pages
    BY PageInSpace
  <1>2. PageBase(d) \in Nat /\ PageBase(d) % PageSize = 0 /\ PageBase(d) <= MaxAddress
    BY <1>1, Numbers DEF Pages, Address
  <1> DEFINE n == PageBase(d)
             limit == 2 ^ MaxPhysicalBits
             masked == n % limit
  <1>3. limit \in Nat \ {0} /\ limit % PageSize = 0
    BY Numbers
  <1> HIDE DEF limit
  <1>4. masked \in 0 .. limit - 1 /\ masked <= n /\ masked % PageSize = 0
    BY <1>2, <1>3, MaskedPage
  <1>5. RootAddress(d) = masked
    BY DEF RootAddress, limit
  <1> HIDE DEF n, masked
  <1> QED BY <1>2, <1>3, <1>4, <1>5, Numbers DEF Pages, Address, n

\* An index selects an entry of the table.
LEMMA IndexIsSlot ==
  ASSUME NEW a \in Address, NEW l \in 1 .. 5
  PROVE  Index(a, l) \in 0 .. Fanout - 1
  <1>1. PageSize \in Nat \ {0} /\ Fanout \in Nat \ {0} /\ a \in Int
    BY Numbers DEF Address
  <1>2. l - 1 \in 0 .. 5
    OBVIOUS
  <1> DEFINE f == Fanout ^ (l - 1)
             s == PageSize * f
  <1>3. f \in Nat \ {0}
    BY <1>2, PowersAssumption
  <1> HIDE DEF f
  <1>4. s \in Nat \ {0}
    BY <1>1, <1>3
  <1> HIDE DEF s
  <1>5. a \div s \in Int
    BY <1>1, <1>4
  <1>6. (a \div s) % Fanout \in 0 .. Fanout - 1
    BY <1>1, <1>5
  <1> QED BY <1>6 DEF Index, Span, s, f

\* The entry of a table lies in it, whole, and below every address that is too
\* large.
LEMMA EntryInTable ==
  ASSUME processor \in Processors, NEW place \in Pages, place < PhysicalLimit,
         NEW slot \in 0 .. Fanout - 1
  PROVE  /\ CanOffset(place, slot * EntrySize)
         /\ place + slot * EntrySize \in EntryAddresses
         /\ place + slot * EntrySize \in Int
         /\ CanOffset(place + slot * EntrySize, EntrySize - 1)
         /\ \A i \in 0 .. EntrySize - 1 :
              PageBase(place + slot * EntrySize + i) = place
  <1> DEFINE offset == slot * EntrySize
             limit == 2 ^ MaxPhysicalBits
  <1>1. /\ place \in Nat /\ place % PageSize = 0 /\ slot \in Nat /\ slot + 1 <= Fanout
        /\ PageSize \in Nat \ {0} /\ EntrySize \in Nat \ {0} /\ Fanout \in Nat \ {0}
        /\ MaxAddress \in Nat
    BY Numbers DEF Pages, Address
  <1>2. offset \in Nat /\ offset + EntrySize <= PageSize
    <2>1. offset + EntrySize = (slot + 1) * EntrySize
      BY <1>1
    <2>2. (slot + 1) * EntrySize <= Fanout * EntrySize
      BY <1>1
    <2>3. offset \in Nat
      BY <1>1
    <2> HIDE DEF offset
    <2> QED BY <2>1, <2>2, <2>3, Numbers
  <1>3. /\ limit \in Nat /\ limit <= MaxAddress + 1
        /\ place + PageSize <= limit
    <2>1. PhysicalLimit \in Nat /\ PhysicalLimit % PageSize = 0 /\ PhysicalLimit <= limit
      BY LimitIsPages
    <2>2. place + PageSize <= PhysicalLimit
      BY <1>1, <2>1, PageBelowLimit
    <2>3. limit \in Nat /\ limit <= MaxAddress + 1
      BY Numbers
    <2> HIDE DEF limit
    <2> QED BY <1>1, <2>1, <2>2, <2>3
  <1>4. (place + offset) % EntrySize = 0
    <2>1. PageSize = Fanout * EntrySize + 0 /\ 0 \in 0 .. EntrySize - 1
      BY <1>1, Numbers
    <2>2. PageSize % EntrySize = 0
      BY <1>1, <2>1, RemainderIsUnique
    <2>3. place % EntrySize = 0
      <3>1. place \in Int
        BY <1>1
      <3> QED BY <1>1, <2>2, <3>1, MultipleOfMultiple
    <2> DEFINE k == place \div EntrySize
    <2>4. k \in Int /\ place = k * EntrySize + (place % EntrySize)
      BY <1>1, DivideWithRemainder
    <2>5. place = k * EntrySize
      BY <1>1, <2>3, <2>4
    <2> HIDE DEF k
    <2>6. place + offset = (k + slot) * EntrySize + 0 /\ k + slot \in Int
      BY <1>1, <2>4, <2>5
    <2>7. place + offset \in Int
      BY <1>1, <1>2
    <2> QED BY <1>1, <2>1, <2>6, <2>7, RemainderIsUnique
  <1> HIDE DEF offset, limit
  <1>5. place + offset \in 0 .. limit - 1 /\ place + offset \in Int
    BY <1>1, <1>2, <1>3
  <1>6. CanOffset(place, offset) /\ CanOffset(place + offset, EntrySize - 1)
    BY <1>1, <1>2, <1>3 DEF CanOffset
  <1>7. ASSUME NEW i \in 0 .. EntrySize - 1
        PROVE  PageBase(place + offset + i) = place
    <2>1. offset + i \in Int /\ offset + i < PageSize /\ 0 <= offset + i
      BY <1>1, <1>2
    <2>2. PageOffset(place) = 0 /\ PageBase(place) = place
      BY <1>1, PageBaseProperties DEF PageOffset
    <2>3. PageBase(place + (offset + i)) = place
      <3>1. 0 <= PageOffset(place) + (offset + i) /\ PageOffset(place) + (offset + i) < PageSize
        BY <2>1, <2>2
      <3>2. place \in Int
        BY <1>1
      <3> QED BY <2>1, <2>2, <3>1, <3>2, SamePage
    <2>4. place + (offset + i) = place + offset + i
      BY <1>1, <1>2
    <2> QED BY <2>3, <2>4
  <1> QED BY <1>4, <1>5, <1>6, <1>7 DEF EntryAddresses, offset, limit

-----------------------------------------------------------------------------

\* Where the walk stands, its entry is an entry.
LEMMA EntryIsThere ==
  ASSUME TypeOK, pc = "walk"
  PROVE  /\ CanOffset(table, Index(address, level) * EntrySize)
         /\ EntryAddress \in EntryAddresses /\ EntryAddress \in Int
         /\ CanOffset(EntryAddress, EntrySize - 1)
         /\ \A i \in 0 .. EntrySize - 1 : PageBase(EntryAddress + i) = table
         /\ entries[EntryAddress] \in Entry
  <1>1. TopLevel <= 5 /\ TopLevel \in Int
    BY DEF TopLevel
  <1>2. level \in 1 .. 5
    BY <1>1 DEF TypeOK
  <1>3. Index(address, level) \in 0 .. Fanout - 1
    BY <1>2, IndexIsSlot DEF TypeOK
  <1>4. processor \in Processors /\ table \in Pages /\ table < PhysicalLimit
    BY DEF TypeOK
  <1>5. entries \in [EntryAddresses -> Entry]
    BY DEF TypeOK
  <1> QED BY <1>3, <1>4, <1>5, EntryInTable DEF EntryAddress

\* The types are right in every initial state.
LEMMA InitTypeOK == Init => TypeOK
  <1> SUFFICES ASSUME Init PROVE TypeOK
    OBVIOUS
  <1>1. processor \in Processors
    BY DEF Init
  <1>2. 0 \in Address /\ 0 \in Pages /\ 0 < PhysicalLimit
    <2>1. PhysicalLimit \in Nat \ {0}
      BY <1>1, LimitIsPages
    <2>2. 0 \in Address
      BY Numbers DEF Address
    <2>3. PageBase(0) \in Pages /\ PageBase(0) <= 0
      <3>1. PageBase(0) \in Int /\ PageOffset(0) \in 0 .. PageSize - 1
            /\ 0 = PageBase(0) + PageOffset(0)
        BY PageBaseProperties
      <3>2. PageBase(0) <= 0
        BY <3>1, Numbers
      <3> QED BY <2>2, <3>2, PageInSpace
    <2>4. 0 \in Pages
      BY <2>3, Numbers DEF Pages, Address
    <2> QED BY <2>1, <2>2, <2>4
  <1>3. solid \in SUBSET Pages /\ entries \in [EntryAddresses -> Entry]
    BY TranslatorAssumption DEF Init
  <1> QED BY <1>1, <1>2, <1>3, TranslatorAssumption DEF Init, TypeOK

\* Every step keeps the types.
LEMMA StepTypeOK == TypeOK /\ [Next]_vars => TypeOK'
  <1> SUFFICES ASSUME TypeOK, [Next]_vars PROVE TypeOK'
    OBVIOUS
  <1>1. ASSUME NEW a \in Addresses, NEW d \in Directories, Translate(a, d) PROVE TypeOK'
    <2>1. /\ pc' \in {"walk", "done"} /\ address' = a /\ directory' = d
          /\ before' = entries /\ changes' = 0
          /\ UNCHANGED <<processor, solid, entries>>
      BY <1>1 DEF Translate, Return, machine
    <2>2. a \in Address /\ d \in Address /\ MaxChanges \in Nat
      BY TranslatorAssumption
    <2>3. CASE UNCHANGED <<level, table, granted>> /\ pc' = "done"
      BY <2>1, <2>2, <2>3 DEF TypeOK, PhysicalLimit, TopLevel
    <2>4. CASE /\ pc' = "walk" /\ level' = TopLevel /\ granted' = Permissions
               /\ table' = TableAddress(RootAddress(d))
      <3>1. table' \in Pages /\ table' < PhysicalLimit
        BY <2>2, <2>4, RootIsPage, TableIsPage DEF TypeOK, Pages
      <3>2. TopLevel \in 1 .. 5
        BY DEF TopLevel
      <3>3. PhysicalLimit' = PhysicalLimit /\ TopLevel' = TopLevel
        BY <2>1 DEF PhysicalLimit, TopLevel
      <3>4. level' \in 0 .. 5 /\ level' \in 1 .. TopLevel
        BY <2>4, <3>2
      <3> QED BY <2>1, <2>2, <2>4, <3>1, <3>3, <3>4 DEF TypeOK
    <2> QED BY <1>1, <2>3, <2>4 DEF Translate, Return
  <1>2. ASSUME EntryRefused \/ EntryMapsPage PROVE TypeOK'
    <2>1. /\ pc = "walk" /\ pc' = "done"
          /\ UNCHANGED <<processor, solid, entries, before, changes,
                         address, directory, level, table>>
      BY <1>2 DEF EntryRefused, EntryMapsPage, Return, machine
    <2>2. granted' \in SUBSET Permissions
      BY <1>2 DEF EntryRefused, EntryMapsPage, ApplyPermissions, TypeOK
    <2> QED BY <2>1, <2>2 DEF TypeOK, PhysicalLimit, TopLevel
  <1>3. ASSUME EntryNamesTable PROVE TypeOK'
    <2>1. /\ pc = "walk" /\ ~MapsPage(entries[EntryAddress], level)
          /\ level' = level - 1
          /\ UNCHANGED <<processor, solid, entries, before, changes, address, directory>>
          /\ granted' = ApplyPermissions(granted, entries[EntryAddress])
      BY <1>3 DEF EntryNamesTable, machine
    <2>2. /\ pc' \in {"walk", "done"}
          /\ \/ table' = table
             \/ table' = TableAddress(entries[EntryAddress].address)
      BY <1>3, <2>1 DEF EntryNamesTable, Return
    <2>3. entries[EntryAddress].address \in Address
      BY <2>1, EntryIsThere DEF Entry, Pages
    <2>4. table' \in Pages /\ table' < PhysicalLimit
      BY <2>2, <2>3, TableIsPage DEF TypeOK
    <2>5. level' \in 1 .. TopLevel /\ level' \in 0 .. 5
      <3>1. level \in 1 .. TopLevel /\ level # 1 /\ TopLevel \in 1 .. 5
        BY <2>1 DEF TypeOK, MapsPage, TopLevel
      <3> QED BY <2>1, <3>1
    <2>6. PhysicalLimit' = PhysicalLimit /\ TopLevel' = TopLevel
      BY <2>1 DEF PhysicalLimit, TopLevel
    <2>7. granted' \in SUBSET Permissions
      BY <2>1 DEF TypeOK, ApplyPermissions
    <2> QED BY <2>1, <2>2, <2>4, <2>5, <2>6, <2>7 DEF TypeOK
  <1>4. CASE ChangeEntry
    <2>1. /\ UNCHANGED <<processor, solid, before, pc, address, directory, level,
                         table, granted>>
          /\ changes' = changes + 1 /\ changes < MaxChanges
      BY <1>4 DEF ChangeEntry, machine, call
    <2>2. entries' \in [EntryAddresses -> Entry]
      BY <1>4, TranslatorAssumption DEF ChangeEntry, TypeOK
    <2>3. changes' \in 0 .. MaxChanges
      BY <2>1, TranslatorAssumption DEF TypeOK
    <2> QED BY <2>1, <2>2, <2>3 DEF TypeOK, PhysicalLimit, TopLevel
  <1>5. CASE UNCHANGED vars
    BY <1>5 DEF vars, machine, call, TypeOK, PhysicalLimit, TopLevel
  <1> QED BY <1>1, <1>2, <1>3, <1>4, <1>5 DEF Next

\* Every variable of the walk keeps its type: in particular every table it goes
\* down to is a page that the processor can address, whatever the entries hold.
THEOREM TypeCorrect == SafetySpec => []TypeOK
  BY InitTypeOK, StepTypeOK, PTL DEF SafetySpec

\* No entry, however many bits its address has, leads to the page at 0.
THEOREM ZeroIsNeverNamed == SafetySpec => []ZeroIsNoTableBelowRoot
  <1>1. Init => ZeroIsNoTableBelowRoot
    BY DEF Init, ZeroIsNoTableBelowRoot
  <1>2. ZeroIsNoTableBelowRoot /\ [Next]_vars => ZeroIsNoTableBelowRoot'
    <2> SUFFICES ASSUME ZeroIsNoTableBelowRoot, [Next]_vars, pc' = "walk", table' = 0
                 PROVE  level' = TopLevel' /\ RootAddress(directory') # 0
      BY DEF ZeroIsNoTableBelowRoot, RootAddress
    <2>1. ASSUME NEW a \in Addresses, NEW d \in Directories, Translate(a, d)
          PROVE  level' = TopLevel' /\ RootAddress(directory') # 0
      BY <2>1 DEF Translate, Return, machine, TopLevel
    <2>2. ~EntryRefused /\ ~EntryMapsPage
      BY DEF EntryRefused, EntryMapsPage, Return
    <2>3. ~EntryNamesTable
      BY DEF EntryNamesTable, NamesNoTable, Return
    <2>4. CASE ChangeEntry \/ UNCHANGED vars
      BY <2>4 DEF ChangeEntry, vars, machine, call, ZeroIsNoTableBelowRoot, TopLevel
    <2> QED BY <2>1, <2>2, <2>3, <2>4 DEF Next
  <1> QED BY <1>1, <1>2, PTL DEF SafetySpec

-----------------------------------------------------------------------------

\* A walk's addresses are what the recursion says.
LEMMA WalkEquation ==
  ASSUME NEW m, NEW a
  PROVE  WalkAddresses(m, a) =
           [l \in 1 .. TopLevel |->
              ((IF l = TopLevel THEN RootAddress(directory)
                ELSE m[WalkAddresses(m, a)[l + 1]].address) % PhysicalLimit)
                + Index(a, l) * EntrySize]
  <1> DEFINE Root(l) == (RootAddress(directory) % PhysicalLimit) + Index(a, l) * EntrySize
             Down(b, l) == (m[b].address % PhysicalLimit) + Index(a, l) * EntrySize
             Equation(f) == f = [l \in 1 .. TopLevel |->
                                   ((IF l = TopLevel THEN RootAddress(directory)
                                     ELSE m[f[l + 1]].address) % PhysicalLimit)
                                     + Index(a, l) * EntrySize]
             b4 == IF TopLevel = 4 THEN Root(4) ELSE Down(Root(5), 4)
             b3 == Down(b4, 3)
             b2 == Down(b3, 2)
             b1 == Down(b2, 1)
             w == [l \in 1 .. TopLevel |->
                     IF l = 5 THEN Root(5) ELSE IF l = 4 THEN b4
                     ELSE IF l = 3 THEN b3 ELSE IF l = 2 THEN b2 ELSE b1]
  <1>1. TopLevel \in {4, 5}
    BY DEF TopLevel
  <1>2. Equation(w)
    <2>1. ASSUME NEW l \in 1 .. TopLevel
          PROVE  w[l] = ((IF l = TopLevel THEN RootAddress(directory)
                          ELSE m[w[l + 1]].address) % PhysicalLimit) + Index(a, l) * EntrySize
      <3>1. /\ TopLevel = 5 => w[5] = Root(5)
            /\ w[4] = b4 /\ w[3] = b3 /\ w[2] = b2 /\ w[1] = b1
        <4> HIDE DEF b4, b3, b2, b1, Root
        <4> QED BY <1>1
      <3>2. l = TopLevel \/ (l \in {1, 2, 3, 4} /\ l + 1 \in {2, 3, 4, 5})
        BY <1>1
      <3>3. CASE l = TopLevel
        <4> HIDE DEF w
        <4> QED BY <1>1, <3>1, <3>3
      <3>4. CASE l # TopLevel
        <4>1. w[l] = Down(w[l + 1], l)
          <5> HIDE DEF w, Down
          <5>1. CASE l = 1
            BY <1>1, <3>1, <5>1 DEF b1
          <5>2. CASE l = 2
            BY <1>1, <3>1, <5>2 DEF b2
          <5>3. CASE l = 3
            BY <1>1, <3>1, <5>3 DEF b3
          <5>4. CASE l = 4
            BY <1>1, <3>1, <3>4, <5>4 DEF b4
          <5> QED BY <3>2, <3>4, <5>1, <5>2, <5>3, <5>4
        <4> HIDE DEF w
        <4> QED BY <3>4, <4>1
      <3> QED BY <3>3, <3>4
    <2>2. w = [l \in 1 .. TopLevel |-> w[l]]
      <3> HIDE DEF b4, b3, b2, b1, Root
      <3> QED OBVIOUS
    <2> HIDE DEF w
    <2> QED BY <2>1, <2>2
  <1>3. WalkAddresses(m, a) = CHOOSE f : Equation(f)
    BY DEF WalkAddresses
  <1> HIDE DEF Equation, w
  <1>4. Equation(CHOOSE f : Equation(f))
    BY <1>2
  <1> QED BY <1>3, <1>4 DEF Equation

\* Level by level: the root leads to the top one, each entry to the one below.
LEMMA WalkLevels ==
  ASSUME NEW m, NEW a
  PROVE  /\ WalkAddresses(m, a)[TopLevel] =
              (RootAddress(directory) % PhysicalLimit) + Index(a, TopLevel) * EntrySize
         /\ \A l \in 1 .. TopLevel - 1 :
              WalkAddresses(m, a)[l] =
                (m[WalkAddresses(m, a)[l + 1]].address % PhysicalLimit)
                  + Index(a, l) * EntrySize
  <1> DEFINE at == WalkAddresses(m, a)
  <1>1. TopLevel \in {4, 5}
    BY DEF TopLevel
  <1>2. at = [l \in 1 .. TopLevel |->
                ((IF l = TopLevel THEN RootAddress(directory)
                  ELSE m[at[l + 1]].address) % PhysicalLimit) + Index(a, l) * EntrySize]
    BY WalkEquation
  <1> HIDE DEF at
  <1>3. ASSUME NEW l \in 1 .. TopLevel - 1
        PROVE  at[l] = (m[at[l + 1]].address % PhysicalLimit) + Index(a, l) * EntrySize
    <2>1. l \in 1 .. TopLevel /\ l # TopLevel
      BY <1>1
    <2> QED BY <1>2, <2>1
  <1>4. at[TopLevel] = (RootAddress(directory) % PhysicalLimit)
                         + Index(a, TopLevel) * EntrySize
    BY <1>1, <1>2
  <1> QED BY <1>3, <1>4 DEF at

(***************************************************************************)
(* What this rests on: the walk has come down, through entries that do not *)
(* stop it, to where the tables in m lead at this level, with the          *)
(* permissions those entries leave.                                        *)
(***************************************************************************)
Follows(m) ==
  LET at == WalkAddresses(m, address)
  IN /\ EntryAddress = at[level]
     /\ \A k \in level + 1 .. TopLevel : ~Stops(m[at[k]], k)
     /\ granted = {p \in Permissions :
                     \A k \in level + 1 .. TopLevel : p \in m[at[k]].grants}

(* What changed is an entry the walk had passed. *)
ChangedBehind ==
  \E k \in level + 1 .. TopLevel : \A a \in EntryAddresses :
    a # WalkAddresses(before, address)[k] => entries[a] = before[a]

(* Until an entry changes, and after one changed that the walk has not     *)
(* passed, it follows the tables as they are; after one changed that it    *)
(* has passed, the tables as they were, and will not meet the change.      *)
WalkFollowsTables ==
  pc = "walk" =>
    /\ IsCanonical(address)
    /\ changes = 0 => (entries = before /\ Follows(entries))
    /\ changes <= 1 /\ MeetsNoEntryTwice(before, address)
       => Follows(entries) \/ (Follows(before) /\ ChangedBehind)

(* While nothing changes, the answer is what the tables say. *)
AnswerIsOfTables ==
  pc = "done" /\ answer.code \in Walked /\ changes = 0 =>
    IsCanonical(address) /\ answer = PhysicalOf(entries, address)


\* What holds at the top level and goes from each level to the one below holds
\* at all levels.
LEMMA DownTheLevels ==
  ASSUME NEW S, NEW l \in 1 .. TopLevel, TopLevel \in S,
         \A k \in l .. TopLevel - 1 : k + 1 \in S => k \in S
  PROVE  l .. TopLevel \subseteq S
  <1>1. TopLevel \in {4, 5} /\ l \in {1, 2, 3, 4, 5}
    BY DEF TopLevel
  <1>2. 5 <= TopLevel => 5 \in S
    BY <1>1
  <1>3. l <= 4 => 4 \in S
    BY <1>1, <1>2
  <1>4. l <= 3 => 3 \in S
    BY <1>1, <1>3
  <1>5. l <= 2 => 2 \in S
    BY <1>1, <1>4
  <1>6. l <= 1 => 1 \in S
    BY <1>1, <1>5
  <1> QED BY <1>1, <1>2, <1>3, <1>4, <1>5, <1>6

\* To mask a page is to drop the bits above the processor's.
LEMMA MaskingPages ==
  ASSUME NEW page \in Pages
  PROVE  TableAddress(page) = page % PhysicalLimit
  <1>1. page \in Int /\ page % PageSize = 0
    BY Numbers DEF Pages, Address
  <1> QED BY <1>1, PageBaseProperties DEF TableAddress

\* The entry of each level lies where entries lie.
LEMMA WalkStaysInTables ==
  ASSUME processor \in Processors, directory \in Address,
         NEW m \in [EntryAddresses -> Entry], NEW a \in Address
  PROVE  \A l \in 1 .. TopLevel : /\ WalkAddresses(m, a)[l] \in EntryAddresses
                                  /\ m[WalkAddresses(m, a)[l]] \in Entry
  <1> DEFINE at == WalkAddresses(m, a)
             S == {l \in 1 .. TopLevel : at[l] \in EntryAddresses}
  <1>1. TopLevel \in {4, 5} /\ 1 \in 1 .. TopLevel
    BY DEF TopLevel
  <1>2. ASSUME NEW l \in 1 .. TopLevel, NEW page \in Pages
        PROVE  (page % PhysicalLimit) + Index(a, l) * EntrySize \in EntryAddresses
    <2>1. l \in 1 .. 5
      BY <1>1
    <2>2. Index(a, l) \in 0 .. Fanout - 1
      BY <2>1, IndexIsSlot
    <2>3. page \in Address
      BY DEF Pages
    <2>4. TableAddress(page) \in Pages /\ TableAddress(page) < PhysicalLimit
      BY <2>3, TableIsPage
    <2>5. TableAddress(page) + Index(a, l) * EntrySize \in EntryAddresses
      BY <2>2, <2>4, EntryInTable
    <2> QED BY <2>5, MaskingPages
  <1>3. TopLevel \in S
    <2>1. at[TopLevel] = (RootAddress(directory) % PhysicalLimit)
                           + Index(a, TopLevel) * EntrySize
      BY WalkLevels
    <2> HIDE DEF at
    <2> QED BY <1>1, <1>2, <2>1, RootIsPage
  <1>4. ASSUME NEW k \in 1 .. TopLevel - 1, k + 1 \in S
        PROVE  k \in S
    <2>1. k \in 1 .. TopLevel /\ k # TopLevel
      BY <1>1
    <2>2. at[k] = (m[at[k + 1]].address % PhysicalLimit) + Index(a, k) * EntrySize
      BY <1>1, <2>1, WalkLevels
    <2> HIDE DEF at
    <2>3. m[at[k + 1]].address \in Pages
      BY <1>4 DEF Entry
    <2> QED BY <1>2, <2>1, <2>2, <2>3
  <1> HIDE DEF S
  <1>5. 1 .. TopLevel \subseteq S
    BY <1>1, <1>3, <1>4, DownTheLevels
  <1> QED BY <1>5 DEF S

\* Walks whose indices and entries agree above a level agree down to it.
LEMMA SameWalk ==
  ASSUME NEW m, NEW n, NEW a, NEW b, NEW l \in 1 .. TopLevel,
         \A k \in l .. TopLevel : Index(a, k) = Index(b, k),
         \A k \in l + 1 .. TopLevel :
           m[WalkAddresses(m, a)[k]] = n[WalkAddresses(m, a)[k]]
  PROVE  \A k \in l .. TopLevel : WalkAddresses(n, b)[k] = WalkAddresses(m, a)[k]
  <1> DEFINE at == WalkAddresses(m, a)
             bt == WalkAddresses(n, b)
             S == {k \in l .. TopLevel : bt[k] = at[k]}
  <1>1. TopLevel \in {4, 5} /\ TopLevel \in 1 .. TopLevel /\ TopLevel \in l .. TopLevel
    BY DEF TopLevel
  <1>2. bt[TopLevel] = at[TopLevel]
    <2>1. at[TopLevel] = (RootAddress(directory) % PhysicalLimit)
                           + Index(a, TopLevel) * EntrySize
      BY WalkLevels
    <2>2. bt[TopLevel] = (RootAddress(directory) % PhysicalLimit)
                           + Index(b, TopLevel) * EntrySize
      BY WalkLevels
    <2> HIDE DEF at, bt
    <2> QED BY <1>1, <2>1, <2>2
  <1>3. ASSUME NEW k \in l .. TopLevel - 1, bt[k + 1] = at[k + 1]
        PROVE  bt[k] = at[k]
    <2>1. k \in 1 .. TopLevel /\ k # TopLevel /\ k \in l .. TopLevel
          /\ k + 1 \in l + 1 .. TopLevel
      BY <1>1
    <2>2. at[k] = (m[at[k + 1]].address % PhysicalLimit) + Index(a, k) * EntrySize
      BY <1>1, <2>1, WalkLevels
    <2>3. bt[k] = (n[bt[k + 1]].address % PhysicalLimit) + Index(b, k) * EntrySize
      BY <1>1, <2>1, WalkLevels
    <2>4. m[at[k + 1]] = n[at[k + 1]]
      BY <2>1
    <2> HIDE DEF at, bt
    <2> QED BY <1>3, <2>1, <2>2, <2>3, <2>4
  <1> HIDE DEF at, bt
  <1>4. TopLevel \in S
    BY <1>1, <1>2
  <1>5. \A k \in l .. TopLevel - 1 : k + 1 \in S => k \in S
    BY <1>1, <1>3
  <1> HIDE DEF S
  <1>6. l .. TopLevel \subseteq S
    BY <1>4, <1>5, DownTheLevels
  <1> QED BY <1>6 DEF S, at, bt

\* A walk stops at the one level that stops it and below none that does.
LEMMA StopLevelIs ==
  ASSUME NEW path, DOMAIN path \subseteq Int, NEW l \in DOMAIN path, Stops(path[l], l),
         \A k \in DOMAIN path : k > l => ~Stops(path[k], k)
  PROVE  StopLevel(path) = l
  <1> DEFINE P(k) == /\ Stops(path[k], k)
                     /\ \A j \in DOMAIN path : j > k => ~Stops(path[j], j)
  <1>1. P(l)
    OBVIOUS
  <1>2. \A k \in DOMAIN path : P(k) => k = l
    <2> HIDE DEF Stops
    <2> QED OBVIOUS
  <1>3. StopLevel(path) = CHOOSE k \in DOMAIN path : P(k)
    BY DEF StopLevel
  <1> HIDE DEF P
  <1> QED BY <1>1, <1>2, <1>3

\* Some level stops it: the last one, if no other does.
LEMMA StopLevelExists ==
  ASSUME NEW m, NEW a
  PROVE  /\ StopLevel(Walk(m, a)) \in 1 .. TopLevel
         /\ Stops(m[WalkAddresses(m, a)[StopLevel(Walk(m, a))]], StopLevel(Walk(m, a)))
         /\ \A k \in StopLevel(Walk(m, a)) + 1 .. TopLevel :
              ~Stops(m[WalkAddresses(m, a)[k]], k)
  <1> DEFINE path == Walk(m, a)
             S(k) == Stops(path[k], k)
  <1>1. TopLevel \in {4, 5}
    BY DEF TopLevel
  <1>2. DOMAIN path = 1 .. TopLevel
        /\ \A k \in 1 .. TopLevel : path[k] = m[WalkAddresses(m, a)[k]]
    BY DEF Walk
  <1>3. S(1)
    BY DEF Stops
  <1> HIDE DEF path, S
  <1>4. PICK l \in 1 .. TopLevel : S(l) /\ \A k \in 1 .. TopLevel : k > l => ~S(k)
    <2>1. CASE TopLevel = 5 /\ S(5)
      BY <2>1
    <2>2. CASE ~(TopLevel = 5 /\ S(5)) /\ S(4)
      BY <1>1, <2>2
    <2>3. CASE ~(TopLevel = 5 /\ S(5)) /\ ~S(4) /\ S(3)
      BY <1>1, <2>3
    <2>4. CASE ~(TopLevel = 5 /\ S(5)) /\ ~S(4) /\ ~S(3) /\ S(2)
      BY <1>1, <2>4
    <2>5. CASE ~(TopLevel = 5 /\ S(5)) /\ ~S(4) /\ ~S(3) /\ ~S(2)
      BY <1>1, <1>3, <2>5
    <2> QED BY <2>1, <2>2, <2>3, <2>4, <2>5
  <1>5. StopLevel(path) = l
    BY <1>1, <1>2, <1>4, StopLevelIs DEF S
  <1>6. \A k \in l + 1 .. TopLevel : k \in 1 .. TopLevel /\ k > l
    BY <1>1
  <1> QED BY <1>2, <1>4, <1>5, <1>6 DEF path, S

-----------------------------------------------------------------------------

\* A page of any size is at least one byte.
LEMMA SpanIsPositive ==
  ASSUME NEW l \in 1 .. 6
  PROVE  Span(l) \in Nat \ {0}
  <1> DEFINE f == Fanout ^ (l - 1)
  <1>1. l - 1 \in 0 .. 5
    OBVIOUS
  <1>2. f \in Nat \ {0} /\ PageSize \in Nat \ {0}
    BY <1>1, PowersAssumption, Numbers
  <1> HIDE DEF f
  <1>3. PageSize * f \in Nat \ {0}
    BY <1>2
  <1> QED BY <1>3 DEF Span, f

\* What the tables say of an address is said at the level that stops its walk.
LEMMA OutcomeAtLevel ==
  ASSUME NEW m, NEW a, NEW l \in 1 .. TopLevel, NEW e, e = m[WalkAddresses(m, a)[l]],
         Stops(e, l),
         \A k \in l + 1 .. TopLevel : ~Stops(m[WalkAddresses(m, a)[k]], k)
  PROVE  PhysicalOf(m, a) =
           IF ~e.present
           THEN [code |-> "PageNotPresent", bytes |-> 0, fault |-> a, level |-> l]
           ELSE IF l > 3 \/ (l > 1 /\ ~e.large)
           THEN [code |-> "InvalidPageTableEntry", bytes |-> 0, fault |-> a, level |-> l]
           ELSE [code |-> "Success",
                 physical |-> ((e.address % PhysicalLimit) \div Span(l)) * Span(l)
                                + (a % Span(l)),
                 contiguous |-> (a \div Span(l) + 1) * Span(l) - a,
                 size |-> Span(l),
                 grants |-> {p \in Permissions : \A k \in l .. TopLevel :
                               p \in m[WalkAddresses(m, a)[k]].grants}]
  <1> DEFINE at == WalkAddresses(m, a)
             path == Walk(m, a)
  <1>1. TopLevel \in {4, 5}
    BY DEF TopLevel
  <1>2. path = [k \in 1 .. TopLevel |-> m[at[k]]]
    BY DEF Walk
  <1> HIDE DEF at, path
  <1>3. StopLevel(path) = l
    <2>1. DOMAIN path \subseteq Int /\ l \in DOMAIN path /\ path[l] = e
      BY <1>1, <1>2 DEF at
    <2>2. \A k \in DOMAIN path : k > l => ~Stops(path[k], k)
      BY <1>1, <1>2 DEF at
    <2> QED BY <2>1, <2>2, StopLevelIs
  <1>4. path[l] = e
    BY <1>2 DEF at
  <1>5. {p \in Permissions : \A k \in l .. TopLevel : p \in path[k].grants}
          = {p \in Permissions : \A k \in l .. TopLevel : p \in m[at[k]].grants}
    <2>1. \A k \in l .. TopLevel : path[k] = m[at[k]]
      BY <1>1, <1>2
    <2> QED BY <2>1
  <1> QED BY <1>3, <1>4, <1>5 DEF PhysicalOf, path, at

\* The parts of a block: where it starts, and what of it is left.
LEMMA BlockParts ==
  ASSUME NEW n \in Int, NEW s \in Nat \ {0}
  PROVE  /\ (n \div s) * s = n - (n % s)
         /\ (n \div s + 1) * s - n = s - (n % s)
  <1> DEFINE q == n \div s
             r == n % s
  <1>1. q \in Int /\ r \in Int /\ n = q * s + r
    BY DivideWithRemainder
  <1> HIDE DEF q, r
  <1>2. q * s = n - r /\ (q + 1) * s - n = s - r
    BY <1>1
  <1> QED BY <1>2 DEF q, r

\* A walk that has followed some tables, and finds in its next entry what they
\* have there, answers what they say.
LEMMA AnswerOfFollowedTables ==
  ASSUME TypeOK, NEW m \in [EntryAddresses -> Entry], pc = "walk", Follows(m),
         m[EntryAddress] = entries[EntryAddress],
         EntryRefused \/ EntryMapsPage \/ EntryNamesTable,
         pc' = "done", answer'.code \in Walked
  PROVE  answer' = PhysicalOf(m, address)
  <1> DEFINE at == WalkAddresses(m, address)
             e == entries[EntryAddress]
  <1>1. /\ TopLevel \in {4, 5} /\ level \in 1 .. TopLevel /\ level \in 1 .. 5
        /\ address \in Int
    BY Numbers DEF TypeOK, TopLevel, Address
  <1>2. e \in Entry /\ e = m[at[level]] /\ EntryAddress = at[level]
    BY EntryIsThere DEF Follows
  <1>3. \A k \in level + 1 .. TopLevel : ~Stops(m[at[k]], k)
    BY DEF Follows
  <1>4. granted = {p \in Permissions :
                     \A k \in level + 1 .. TopLevel : p \in m[at[k]].grants}
    BY DEF Follows
  <1>5. Span(level) \in Nat \ {0}
    BY <1>1, SpanIsPositive
  <1>6. TableAddress(e.address) = e.address % PhysicalLimit
        /\ TableAddress(e.address) \in Int
    <2>1. e.address \in Pages
      BY <1>2 DEF Entry
    <2>2. TableAddress(e.address) \in Pages
      BY <2>1, TableIsPage DEF Pages, TypeOK
    <2> QED BY <2>1, <2>2, MaskingPages, Numbers DEF Pages, Address
  <1> HIDE DEF at, e
  <1>7. CASE EntryRefused
    <2>1. answer' = Error("PageNotPresent", 0, level) /\ ~e.present
      <3>1. ASSUME NEW read \in ReadAnswers(EntryAddress, EntrySize, solid),
                   read.code # "Success", answer' = Error(read.code, read.bytes, level)
            PROVE  FALSE
        <4>1. EntrySize # 0 /\ CanOffset(EntryAddress, EntrySize - 1)
          BY EntryIsThere, Numbers
        <4>2. read.code = "MappingFailed"
          BY <3>1, <4>1 DEF ReadAnswers, Success, Failure
        <4> QED BY <3>1, <4>2 DEF Error, Walked
      <3> QED BY <1>7, <3>1, EntryIsThere DEF EntryRefused, Return, e
    <2>2. Stops(e, level)
      BY <2>1 DEF Stops
    <2> QED BY <1>1, <1>2, <1>3, <2>1, <2>2, OutcomeAtLevel DEF Error, at
  <1>8. CASE EntryMapsPage
    <2>1. /\ e.present /\ MapsPage(e, level)
          /\ answer' = Translation(address, e, level, granted \cap e.grants)
      BY <1>8 DEF EntryMapsPage, EntryLoaded, ApplyPermissions, Return, e
    <2>2. Stops(e, level) /\ ~(level > 3 \/ (level > 1 /\ ~e.large))
      BY <1>1, <2>1 DEF Stops, MapsPage
    <2>3. granted \cap e.grants = {p \in Permissions : \A k \in level .. TopLevel :
                                     p \in m[at[k]].grants}
      <3>1. \A k : k \in level .. TopLevel <=> k = level \/ k \in level + 1 .. TopLevel
        BY <1>1
      <3> QED BY <1>2, <1>4, <3>1
    <2>4. /\ MappedBase(e, level) =
               ((e.address % PhysicalLimit) \div Span(level)) * Span(level)
          /\ ContiguousBytes(address, level) =
               (address \div Span(level) + 1) * Span(level) - address
      BY <1>1, <1>5, <1>6, BlockParts DEF MappedBase, ContiguousBytes
    <2>5. PhysicalOf(m, address) =
            [code |-> "Success",
             physical |-> ((e.address % PhysicalLimit) \div Span(level)) * Span(level)
                            + (address % Span(level)),
             contiguous |-> (address \div Span(level) + 1) * Span(level) - address,
             size |-> Span(level),
             grants |-> {p \in Permissions : \A k \in level .. TopLevel :
                           p \in m[WalkAddresses(m, address)[k]].grants}]
      BY <1>1, <1>2, <1>3, <2>1, <2>2, OutcomeAtLevel DEF at
    <2> QED BY <2>1, <2>3, <2>4, <2>5 DEF Translation, at
  <1>9. CASE EntryNamesTable
    <2>1. /\ e.present /\ ~MapsPage(e, level)
          /\ answer' = Error("InvalidPageTableEntry", 0, level)
          /\ e.large \/ NamesNoTable(e)
      BY <1>9 DEF EntryNamesTable, EntryLoaded, Return, e
    <2>2. Stops(e, level) /\ (level > 3 \/ (level > 1 /\ ~e.large))
      BY <1>1, <1>6, <2>1 DEF Stops, MapsPage, NamesNoTable
    <2> QED BY <1>1, <1>2, <1>3, <2>1, <2>2, OutcomeAtLevel DEF Error, at
  <1> QED BY <1>7, <1>8, <1>9

\* A walk that goes down a level goes on following the tables it followed, when
\* it found in its entry what they have there.
LEMMA GoesOnFollowing ==
  ASSUME TypeOK, NEW m \in [EntryAddresses -> Entry], pc = "walk", Follows(m),
         m[EntryAddress] = entries[EntryAddress], EntryNamesTable, pc' = "walk"
  PROVE  Follows(m)'
  <1> DEFINE at == WalkAddresses(m, address)
             e == entries[EntryAddress]
  <1>1. TopLevel \in {4, 5} /\ level \in 1 .. TopLevel
    BY DEF TypeOK, TopLevel
  <1>2. /\ e \in Entry /\ e.present /\ ~MapsPage(e, level) /\ ~e.large
        /\ ~NamesNoTable(e)
        /\ table' = TableAddress(e.address) /\ level' = level - 1
        /\ granted' = granted \cap e.grants
        /\ UNCHANGED <<processor, directory, address>>
    BY EntryIsThere DEF EntryNamesTable, EntryLoaded, Return, ApplyPermissions, machine
  <1>3. e = m[at[level]] /\ EntryAddress = at[level]
    BY DEF Follows
  <1>4. WalkAddresses(m, address)' = at /\ TopLevel' = TopLevel
        /\ PhysicalLimit' = PhysicalLimit
    BY <1>2 DEF WalkAddresses, TopLevel, PhysicalLimit, RootAddress
  <1>5. level \in 2 .. TopLevel
    BY <1>1, <1>2 DEF MapsPage
  <1>6. TableAddress(e.address) = e.address % PhysicalLimit
    BY <1>2, MaskingPages DEF Entry
  <1>7. at[level - 1] = (m[at[level]].address % PhysicalLimit)
                          + Index(address, level - 1) * EntrySize
    <2>1. level - 1 \in 1 .. TopLevel - 1 /\ (level - 1) + 1 = level
      BY <1>1, <1>5
    <2> QED BY <2>1, WalkLevels
  <1>8. ~Stops(e, level)
    BY <1>2, <1>5, <1>6 DEF Stops, NamesNoTable
  <1>9. \A k : k \in level' + 1 .. TopLevel' <=> k = level \/ k \in level + 1 .. TopLevel
    BY <1>1, <1>2, <1>4
  <1>10. \A k \in level + 1 .. TopLevel : ~Stops(m[at[k]], k)
    BY DEF Follows
  <1>11. granted = {p \in Permissions :
                      \A k \in level + 1 .. TopLevel : p \in m[at[k]].grants}
    BY DEF Follows
  <1> HIDE DEF at, e
  <1>12. EntryAddress' = at[level']
    BY <1>2, <1>3, <1>6, <1>7 DEF EntryAddress, Index, Span
  <1>13. \A k \in level' + 1 .. TopLevel' : ~Stops(m[at[k]], k)'
    <2>1. \A k \in level' + 1 .. TopLevel' : ~Stops(m[at[k]], k)
      BY <1>3, <1>8, <1>9, <1>10
    <2> QED BY <1>2, <1>4, <2>1 DEF Stops, at
  <1>14. granted' = {p \in Permissions :
                       \A k \in level' + 1 .. TopLevel' : p \in m[at[k]].grants}
    BY <1>2, <1>3, <1>9, <1>11
  <1> QED BY <1>4, <1>12, <1>13, <1>14 DEF Follows, at

\* What a walk that met no change behind it meets next is as it was.
LEMMA MeetsNoChange ==
  ASSUME TypeOK, pc = "walk", Follows(before), ChangedBehind,
         MeetsNoEntryTwice(before, address)
  PROVE  before[EntryAddress] = entries[EntryAddress]
  <1> DEFINE at == WalkAddresses(before, address)
             stop == StopLevel(Walk(before, address))
  <1>1. TopLevel \in {4, 5} /\ level \in 1 .. TopLevel
    BY DEF TypeOK, TopLevel
  <1>2. EntryAddress = at[level]
        /\ \A k \in level + 1 .. TopLevel : ~Stops(before[at[k]], k)
    BY DEF Follows
  <1>3. stop \in 1 .. TopLevel /\ Stops(before[at[stop]], stop)
    BY StopLevelExists
  <1>4. \A k, l \in stop .. TopLevel : at[k] = at[l] => k = l
    BY DEF MeetsNoEntryTwice
  <1>5. PICK k \in level + 1 .. TopLevel : \A a \in EntryAddresses :
               a # at[k] => entries[a] = before[a]
    BY DEF ChangedBehind
  <1>6. EntryAddress \in EntryAddresses
    BY EntryIsThere
  <1> HIDE DEF at, stop
  <1>7. stop <= level
    BY <1>1, <1>2, <1>3
  <1>8. at[k] # at[level]
    BY <1>1, <1>3, <1>4, <1>5, <1>7
  <1> QED BY <1>2, <1>5, <1>6, <1>8

\* The root leads to the top level of the walk under way.
LEMMA RootOfCall ==
  WalkAddresses(entries, address)[TopLevel] =
    (RootAddress(directory) % PhysicalLimit) + Index(address, TopLevel) * EntrySize
  BY WalkLevels

\* Every step of a walk leaves it following the tables.
LEMMA StepWalkFollows ==
  TypeOK /\ TypeOK' /\ WalkFollowsTables /\ [Next]_vars => WalkFollowsTables'
  <1> SUFFICES ASSUME TypeOK, TypeOK', WalkFollowsTables, [Next]_vars, pc' = "walk"
               PROVE  WalkFollowsTables'
    BY DEF WalkFollowsTables
  <1> DEFINE Goal ==
        /\ IsCanonical(address)'
        /\ changes' = 0 => (entries' = before' /\ Follows(entries)')
        /\ changes' <= 1 /\ MeetsNoEntryTwice(before, address)'
           => Follows(entries)' \/ (Follows(before)' /\ ChangedBehind')
  <1> SUFFICES Goal
    BY DEF WalkFollowsTables
  <1>1. ASSUME NEW a \in Addresses, NEW d \in Directories, Translate(a, d)
        PROVE  Goal
    <2>1. /\ address' = a /\ directory' = d /\ changes' = 0
          /\ before' = entries /\ entries' = entries /\ processor' = processor
          /\ IsCanonical(a) /\ level' = TopLevel /\ granted' = Permissions
          /\ table' = TableAddress(RootAddress(d))
      BY <1>1 DEF Translate, Return, machine
    <2>2. IsCanonical(address)'
      BY <2>1 DEF IsCanonical, Span, TopLevel
    <2>3. a \in Address /\ d \in Address
      BY TranslatorAssumption
    <2>4. TopLevel' = TopLevel /\ PhysicalLimit' = PhysicalLimit /\ TopLevel \in {4, 5}
      BY <2>1 DEF TopLevel, PhysicalLimit
    <2>5. Follows(entries)'
      <3> PICK at : at = WalkAddresses(entries, address)'
        OBVIOUS
      <3>1. at[TopLevel] = (RootAddress(directory') % PhysicalLimit)
                             + Index(address', TopLevel) * EntrySize
        <4>1. (WalkAddresses(entries, address)[TopLevel] =
                 (RootAddress(directory) % PhysicalLimit)
                   + Index(address, TopLevel) * EntrySize)'
          BY RootOfCall, PTL
        <4> QED BY <2>4, <4>1 DEF RootAddress, Index, Span
      <3>2. table' = RootAddress(directory') % PhysicalLimit
        BY <2>1, <2>3, RootIsPage, MaskingPages
      <3>3. EntryAddress' = at[level']
        BY <2>1, <3>1, <3>2 DEF EntryAddress, Index, Span
      <3>4. \A k : k \notin level' + 1 .. TopLevel'
        BY <2>1, <2>4
      <3>5. granted' = {p \in Permissions : \A k \in level' + 1 .. TopLevel' :
                          p \in entries'[at[k]].grants}
        BY <2>1, <3>4
      <3> QED BY <3>3, <3>4, <3>5 DEF Follows
    <2> QED BY <2>1, <2>2, <2>5
  <1>2. ~EntryRefused /\ ~EntryMapsPage
    BY DEF EntryRefused, EntryMapsPage, Return
  <1>3. CASE EntryNamesTable
    <2>1. /\ pc = "walk" /\ level' = level - 1
          /\ UNCHANGED <<processor, entries, before, changes, address, directory>>
      BY <1>3 DEF EntryNamesTable, machine
    <2>2. IsCanonical(address)'
      BY <2>1 DEF WalkFollowsTables, IsCanonical, Span, TopLevel
    <2>3. /\ TopLevel' = TopLevel /\ TopLevel \in {4, 5} /\ level \in 1 .. TopLevel
          /\ entries \in [EntryAddresses -> Entry] /\ before \in [EntryAddresses -> Entry]
      BY <2>1 DEF TypeOK, TopLevel
    <2>4. Follows(entries) => Follows(entries)'
      BY <1>3, <2>1, <2>3, GoesOnFollowing
    <2>5. MeetsNoEntryTwice(before, address)' = MeetsNoEntryTwice(before, address)
      BY <2>1 DEF MeetsNoEntryTwice, Walk, WalkAddresses, StopLevel, Stops,
                  TopLevel, PhysicalLimit, RootAddress
    <2>6. Follows(before) /\ ChangedBehind /\ MeetsNoEntryTwice(before, address)
          => Follows(before)'
      BY <1>3, <2>1, <2>3, GoesOnFollowing, MeetsNoChange
    <2>7. ChangedBehind => ChangedBehind'
      <3>1. WalkAddresses(before, address)' = WalkAddresses(before, address)
        BY <2>1 DEF WalkAddresses, TopLevel, PhysicalLimit, RootAddress
      <3>2. \A k \in level + 1 .. TopLevel : k \in level' + 1 .. TopLevel'
        BY <2>1, <2>3
      <3> QED BY <2>1, <3>1, <3>2 DEF ChangedBehind
    <2> QED BY <2>1, <2>2, <2>4, <2>5, <2>6, <2>7 DEF WalkFollowsTables
  <1>4. CASE ChangeEntry
    <2>1. /\ pc = "walk" /\ changes' = changes + 1 /\ changes \in Nat
          /\ UNCHANGED <<processor, before, address, directory, level, table, granted>>
      BY <1>4, TranslatorAssumption DEF ChangeEntry, machine, call, TypeOK
    <2>2. PICK x \in EntryAddresses, e \in Entries : entries' = [entries EXCEPT ![x] = e]
      BY <1>4 DEF ChangeEntry
    <2>3. /\ TopLevel' = TopLevel /\ PhysicalLimit' = PhysicalLimit /\ TopLevel \in {4, 5}
          /\ level \in 1 .. TopLevel
          /\ entries \in [EntryAddresses -> Entry]
      BY <2>1 DEF TypeOK, TopLevel, PhysicalLimit
    <2>4. IsCanonical(address)'
      BY <2>1 DEF WalkFollowsTables, IsCanonical, Span, TopLevel
    <2>5. CASE changes # 0
      <3>1. changes' \notin {0, 1} /\ ~(changes' <= 1)
        BY <2>1, <2>5
      <3> QED BY <2>4, <3>1
    <2>6. CASE changes = 0
      <3> DEFINE at == WalkAddresses(entries, address)
      <3>1. entries = before /\ Follows(entries)
        BY <2>1, <2>6 DEF WalkFollowsTables
      <3>2. WalkAddresses(before, address)' = at
        BY <2>1, <3>1 DEF WalkAddresses, TopLevel, PhysicalLimit, RootAddress
      <3>3. CASE \E k \in level + 1 .. TopLevel : x = at[k]
        <4>1. Follows(before)'
          BY <2>1, <2>3, <3>1, <3>2 DEF Follows, EntryAddress, Index, Span, Stops
        <4>2. ChangedBehind'
          BY <2>1, <2>2, <2>3, <3>1, <3>2, <3>3 DEF ChangedBehind
        <4> QED BY <2>1, <2>4, <2>6, <4>1, <4>2
      <3>4. CASE \A k \in level + 1 .. TopLevel : x # at[k]
        <4>1. \A k \in 1 .. TopLevel : at[k] \in EntryAddresses
          BY <2>3, WalkStaysInTables DEF TypeOK
        <4>2. \A k \in level + 1 .. TopLevel : entries[at[k]] = entries'[at[k]]
          BY <2>2, <2>3, <3>4, <4>1
        <4> PICK m : m = entries'
          OBVIOUS
        <4> PICK bt : bt = WalkAddresses(m, address)
          OBVIOUS
        <4>4. WalkAddresses(entries, address)' = bt
          BY <2>1 DEF WalkAddresses, TopLevel, PhysicalLimit, RootAddress
        <4>5. \A k \in level .. TopLevel : bt[k] = at[k]
          <5>1. \A k \in level .. TopLevel : WalkAddresses(m, address)[k] = at[k]
            BY <2>3, <4>2, SameWalk
          <5> QED BY <5>1
        <4>6. /\ EntryAddress = at[level]
              /\ \A k \in level + 1 .. TopLevel : ~Stops(entries[at[k]], k)
              /\ granted = {p \in Permissions : \A k \in level + 1 .. TopLevel :
                              p \in entries[at[k]].grants}
          BY <3>1 DEF Follows
        <4>7. \A k \in level + 1 .. TopLevel : k \in level .. TopLevel
          BY <2>3
        <4>8. level \in level .. TopLevel
          BY <2>3
        <4> HIDE DEF at
        <4>9. EntryAddress' = bt[level']
          BY <2>1, <4>5, <4>6, <4>8 DEF EntryAddress, Index, Span
        <4>10. \A k \in level' + 1 .. TopLevel' : ~Stops(entries[bt[k]], k)'
          BY <2>1, <2>3, <4>2, <4>5, <4>6, <4>7 DEF Stops
        <4>11. granted' = {p \in Permissions : \A k \in level' + 1 .. TopLevel' :
                             p \in entries'[bt[k]].grants}
          BY <2>1, <2>3, <4>2, <4>5, <4>6, <4>7
        <4>12. Follows(entries)'
          BY <4>4, <4>9, <4>10, <4>11 DEF Follows
        <4> QED BY <2>1, <2>4, <2>6, <4>12
      <3> QED BY <3>3, <3>4
    <2> QED BY <2>5, <2>6
  <1>5. CASE UNCHANGED vars
    <2>1. /\ pc = "walk" /\ UNCHANGED <<processor, entries, before, changes>>
          /\ UNCHANGED <<address, directory, level, table, granted>>
      BY <1>5 DEF vars, machine, call
    <2>2. /\ TopLevel' = TopLevel /\ PhysicalLimit' = PhysicalLimit
          /\ IsCanonical(address)' = IsCanonical(address)
          /\ EntryAddress' = EntryAddress
      BY <2>1 DEF TopLevel, PhysicalLimit, IsCanonical, EntryAddress, Index, Span
    <2>3. /\ WalkAddresses(entries, address)' = WalkAddresses(entries, address)
          /\ WalkAddresses(before, address)' = WalkAddresses(before, address)
      BY <2>1 DEF WalkAddresses, TopLevel, PhysicalLimit, RootAddress
    <2>4. MeetsNoEntryTwice(before, address)' = MeetsNoEntryTwice(before, address)
      BY <2>1 DEF MeetsNoEntryTwice, Walk, WalkAddresses, StopLevel, Stops,
                  TopLevel, PhysicalLimit, RootAddress
    <2>5. /\ Follows(entries)' = Follows(entries) /\ Follows(before)' = Follows(before)
          /\ ChangedBehind' = ChangedBehind
      BY <2>1, <2>2, <2>3 DEF Follows, ChangedBehind, Stops
    <2> QED BY <2>1, <2>2, <2>4, <2>5 DEF WalkFollowsTables
  <1> QED BY <1>1, <1>2, <1>3, <1>4, <1>5 DEF Next

\* What the tables say depends on the tables, the processor and the root.
LEMMA SameSaying ==
  ASSUME NEW m, NEW a, UNCHANGED <<processor, directory>>
  PROVE  PhysicalOf(m, a)' = PhysicalOf(m, a)
         /\ MeetsNoEntryTwice(m, a)' = MeetsNoEntryTwice(m, a)
         /\ IsCanonical(a)' = IsCanonical(a)
  <1>1. /\ TopLevel' = TopLevel /\ PhysicalLimit' = PhysicalLimit
        /\ WalkAddresses(m, a)' = WalkAddresses(m, a)
    BY DEF WalkAddresses, TopLevel, PhysicalLimit, RootAddress
  <1>2. Walk(m, a)' = Walk(m, a)
    BY <1>1 DEF Walk
  <1>3. \A path : StopLevel(path)' = StopLevel(path)
    BY <1>1 DEF StopLevel, Stops
  <1>4. PhysicalOf(m, a)' = PhysicalOf(m, a)
    BY <1>1, <1>2, <1>3 DEF PhysicalOf, Span
  <1>5. MeetsNoEntryTwice(m, a)' = MeetsNoEntryTwice(m, a)
    BY <1>1, <1>2, <1>3 DEF MeetsNoEntryTwice
  <1>6. IsCanonical(a)' = IsCanonical(a)
    BY <1>1 DEF IsCanonical, Span
  <1> QED BY <1>4, <1>5, <1>6

\* An answer given where both tables are followed is what they say.
LEMMA StepAnswers ==
  TypeOK /\ WalkFollowsTables /\ AnswerIsBeforeOrAfter /\ AnswerIsOfTables
    /\ [Next]_vars
  => AnswerIsBeforeOrAfter' /\ AnswerIsOfTables'
  <1> SUFFICES ASSUME TypeOK, WalkFollowsTables, AnswerIsBeforeOrAfter, AnswerIsOfTables,
                      [Next]_vars, pc' = "done", answer'.code \in Walked
               PROVE  /\ changes' <= 1 /\ MeetsNoEntryTwice(before, address)'
                         => answer' \in {PhysicalOf(before, address)',
                                         PhysicalOf(entries, address)'}
                      /\ changes' = 0 => /\ IsCanonical(address)'
                                         /\ answer' = PhysicalOf(entries, address)'
    BY DEF AnswerIsBeforeOrAfter, AnswerIsOfTables
  <1>1. ~\E a \in Addresses, d \in Directories : Translate(a, d)
    BY DEF Translate, Return, Walked
  <1>2. ~ChangeEntry
    BY DEF ChangeEntry, call
  <1>3. UNCHANGED <<processor, directory, address, entries, before, changes>>
    BY <1>1, <1>2 DEF Next, EntryRefused, EntryMapsPage, EntryNamesTable, vars, machine, call
  <1>4. /\ PhysicalOf(entries, address)' = PhysicalOf(entries, address)
        /\ PhysicalOf(before, address)' = PhysicalOf(before, address)
        /\ MeetsNoEntryTwice(before, address)' = MeetsNoEntryTwice(before, address)
        /\ IsCanonical(address)' = IsCanonical(address)
    BY <1>3, SameSaying
  <1>5. CASE EntryRefused \/ EntryMapsPage \/ EntryNamesTable
    <2>1. pc = "walk"
      BY <1>5 DEF EntryRefused, EntryMapsPage, EntryNamesTable
    <2>2. entries \in [EntryAddresses -> Entry] /\ before \in [EntryAddresses -> Entry]
      BY DEF TypeOK
    <2>3. Follows(entries) => answer' = PhysicalOf(entries, address)
      BY <1>5, <2>1, <2>2, AnswerOfFollowedTables
    <2>4. Follows(before) /\ ChangedBehind /\ MeetsNoEntryTwice(before, address)
          => answer' = PhysicalOf(before, address)
      BY <1>5, <2>1, <2>2, AnswerOfFollowedTables, MeetsNoChange
    <2> QED BY <1>3, <1>4, <2>1, <2>3, <2>4 DEF WalkFollowsTables
  <1>6. CASE UNCHANGED vars
    BY <1>3, <1>4, <1>6 DEF vars, call, AnswerIsBeforeOrAfter, AnswerIsOfTables
  <1> QED BY <1>1, <1>2, <1>5, <1>6 DEF Next

\* So walks follow the tables, and answers are theirs.
LEMMA WalksFollow ==
  SafetySpec => [](WalkFollowsTables /\ AnswerIsBeforeOrAfter /\ AnswerIsOfTables)
  <1>1. Init => WalkFollowsTables /\ AnswerIsBeforeOrAfter /\ AnswerIsOfTables
    BY DEF Init, WalkFollowsTables, AnswerIsBeforeOrAfter, AnswerIsOfTables
  <1> QED BY <1>1, StepWalkFollows, StepAnswers, TypeCorrect, PTL DEF SafetySpec

\* While a walk is under way at most one entry changes, and the walk meets no
\* entry twice: then its answer is what the tables said before the change or what
\* they say after it.
THEOREM AnswersAreBeforeOrAfter == SafetySpec => []AnswerIsBeforeOrAfter
  BY WalksFollow, PTL

-----------------------------------------------------------------------------

\* An entry of a level stands for as many addresses as a whole table below it.
LEMMA SpanOfTable ==
  ASSUME NEW l \in 1 .. 5
  PROVE  Span(l + 1) = Span(l) * Fanout
  <1> DEFINE k == l - 1
  <1>1. k \in 0 .. 4 /\ (l + 1) - 1 = k + 1
    OBVIOUS
  <1>2. Span(l) = PageSize * Fanout ^ k /\ Span(l + 1) = PageSize * Fanout ^ (k + 1)
    BY <1>1 DEF Span
  <1> HIDE DEF k
  <1> DEFINE f == Fanout ^ k
  <1>3. Fanout ^ (k + 1) = f * Fanout
    BY <1>1, PowersAssumption
  <1>4. f \in Nat
    <2>1. k \in 0 .. 5
      BY <1>1
    <2> QED BY <2>1, PowersAssumption
  <1> HIDE DEF f
  <1>5. PageSize * (f * Fanout) = (PageSize * f) * Fanout
    BY <1>4, Numbers
  <1> QED BY <1>2, <1>3, <1>5 DEF f

\* Each size of page is a whole number of pages of each smaller size.
LEMMA SpansNest ==
  ASSUME NEW l \in 1 .. 6, NEW k \in l .. 6
  PROVE  Span(k) % Span(l) = 0
  <1> DEFINE s == Span(l)
             N(j) == Span(j) % s = 0
  <1>1. s \in Nat \ {0}
    BY SpanIsPositive
  <1>2. N(l)
    <2>1. s = 1 * s + 0 /\ 0 \in 0 .. s - 1
      BY <1>1
    <2> HIDE DEF s
    <2>2. s % s = 0
      BY <1>1, <2>1, RemainderIsUnique
    <2> QED BY <2>2 DEF s
  <1>3. ASSUME NEW j \in l .. 5, N(j)
        PROVE  N(j + 1)
    <2> DEFINE t == Span(j)
               u == Span(j + 1)
    <2>1. j \in 1 .. 5 /\ j \in 1 .. 6 /\ j + 1 \in 1 .. 6
      OBVIOUS
    <2>2. t \in Nat \ {0} /\ u \in Nat \ {0} /\ u = t * Fanout
      BY <2>1, SpanIsPositive, SpanOfTable
    <2>3. t % s = 0
      BY <1>3
    <2> HIDE DEF s, t, u
    <2>4. u = Fanout * t + 0 /\ 0 \in 0 .. t - 1 /\ Fanout \in Int
      BY <2>2, Numbers
    <2>5. u % t = 0
      BY <2>2, <2>4, RemainderIsUnique
    <2>6. u % s = 0
      <3>1. u \in Int
        BY <2>2
      <3> QED BY <1>1, <2>2, <2>3, <2>5, <3>1, MultipleOfMultiple
    <2> QED BY <2>6 DEF u
  <1> HIDE DEF N
  <1>4. l <= 1 => N(1)
    BY <1>2
  <1>5. l <= 2 => N(2)
    BY <1>2, <1>3, <1>4
  <1>6. l <= 3 => N(3)
    BY <1>2, <1>3, <1>5
  <1>7. l <= 4 => N(4)
    BY <1>2, <1>3, <1>6
  <1>8. l <= 5 => N(5)
    BY <1>2, <1>3, <1>7
  <1>9. l <= 6 => N(6)
    BY <1>2, <1>3, <1>8
  <1>10. k \in {1, 2, 3, 4, 5, 6}
    OBVIOUS
  <1>11. N(k)
    BY <1>4, <1>5, <1>6, <1>7, <1>8, <1>9, <1>10
  <1> QED BY <1>11 DEF N, s

\* What the tables map can be halved, and each half is a whole number of the spans of
\* the highest table's entries.
LEMMA HalfOfTables ==
  /\ Span(TopLevel + 1) \in Nat \ {0}
  /\ Span(TopLevel + 1) \div 2 \in Nat \ {0}
  /\ Span(TopLevel + 1) = (Span(TopLevel + 1) \div 2) * 2
  /\ (Span(TopLevel + 1) \div 2) % Span(TopLevel) = 0
  <1> DEFINE top == Span(TopLevel)
             canonical == Span(TopLevel + 1)
             f == Fanout \div 2
             h == f * top
  <1>1. TopLevel \in 1 .. 5 /\ TopLevel + 1 \in 1 .. 6 /\ TopLevel \in 1 .. 6
    BY DEF TopLevel
  <1>2. top \in Nat \ {0} /\ canonical \in Nat \ {0}
    BY <1>1, SpanIsPositive
  <1>3. f \in Nat \ {0} /\ Fanout = 2 * f
    BY Numbers, PowersAssumption
  <1>4. canonical = top * Fanout
    BY <1>1, SpanOfTable
  <1> HIDE DEF top, canonical, f
  <1>5. h \in Nat \ {0}
    BY <1>2, <1>3
  <1>6. canonical = h * 2 + 0
    BY <1>2, <1>3, <1>4
  <1>7. h % top = 0
    <2>1. h = f * top + 0 /\ 0 \in 0 .. top - 1 /\ f \in Int /\ h \in Int
      BY <1>2, <1>3, <1>5
    <2> QED BY <1>2, <2>1, RemainderIsUnique
  <1> HIDE DEF h
  <1>8. canonical \div 2 = h
    BY <1>2, <1>5, <1>6, QuotientIsUnique
  <1> QED BY <1>2, <1>5, <1>6, <1>7, <1>8 DEF top, canonical

\* The canonical addresses are those of the two halves of what the tables map, the
\* lower at the start of the address space and the upper at its end.
LEMMA CanonicalMeans ==
  ASSUME NEW a \in Address
  PROVE  IsCanonical(a) <=> a \in CanonicalAddresses
  <1> DEFINE canonical == Span(TopLevel + 1)
             half == canonical \div 2
             n == MaxAddress + 1
             k == n \div canonical
             q == a \div half
  <1>1. canonical \in Nat \ {0} /\ half \in Nat \ {0} /\ canonical = half * 2
    BY HalfOfTables
  <1>2. a \in Nat /\ MaxAddress \in Nat /\ n \in Nat \ {0} /\ a < n
    BY Numbers DEF Address
  <1>3. n % canonical = 0
    <2>1. TopLevel \in 0 .. 5 /\ (TopLevel + 1) - 1 = TopLevel
      BY DEF TopLevel
    <2> QED BY <2>1, PowersAssumption DEF Span
  <1>4. IsCanonical(a) <=> IF q % 2 = 0 THEN a < canonical ELSE a >= n - canonical
    BY <1>1, <1>2 DEF IsCanonical
  <1>5. a \in CanonicalAddresses <=> a < half \/ a >= n - half
    BY <1>1, <1>2 DEF CanonicalAddresses
  <1> HIDE DEF canonical, n
  <1>6. k \in Int /\ n = k * canonical
    BY <1>1, <1>2, <1>3, DivideWithRemainder
  <1> HIDE DEF k, half
  <1>7. n = (k * 2) * half
    BY <1>1, <1>6
  <1> DEFINE m == k * 2
  <1>8. m \in Int /\ n = m * half /\ (m - 2) % 2 = 0 /\ (m - 1) % 2 = 1
    BY <1>6, <1>7
  <1> HIDE DEF m
  <1>9. a < half => q = 0
    BY <1>1, <1>2, QuotientIsUnique
  <1>10. half <= a /\ a < canonical => q = 1
    <2>1. ASSUME half <= a, a < canonical
          PROVE  q = 1
      <3>1. a = 1 * half + (a - half) /\ a - half \in 0 .. half - 1
        BY <1>1, <1>2, <2>1
      <3> QED BY <1>1, <1>2, <3>1, QuotientIsUnique
    <2> QED BY <2>1
  <1>11. n - canonical <= a /\ a < n - half => q = m - 2
    <2>1. ASSUME n - canonical <= a, a < n - half
          PROVE  q = m - 2
      <3>1. (m - 2) * half = n - canonical
        BY <1>1, <1>8
      <3>2. a = (m - 2) * half + (a - (n - canonical)) /\ a - (n - canonical) \in 0 .. half - 1
        BY <1>1, <1>2, <2>1, <3>1
      <3> QED BY <1>1, <1>2, <1>8, <3>2, QuotientIsUnique
    <2> QED BY <2>1
  <1>12. n - half <= a => q = m - 1
    <2>1. ASSUME n - half <= a
          PROVE  q = m - 1
      <3>1. (m - 1) * half = n - half
        BY <1>1, <1>8
      <3>2. a = (m - 1) * half + (a - (n - half)) /\ a - (n - half) \in 0 .. half - 1
        BY <1>1, <1>2, <2>1, <3>1
      <3> QED BY <1>1, <1>2, <1>8, <3>2, QuotientIsUnique
    <2> QED BY <2>1
  <1> HIDE DEF q
  <1>13. IsCanonical(a) => a \in CanonicalAddresses
    BY <1>1, <1>2, <1>4, <1>5, <1>8, <1>10, <1>11
  <1>14. a \in CanonicalAddresses => IsCanonical(a)
    BY <1>1, <1>2, <1>4, <1>5, <1>8, <1>9, <1>12
  <1> QED BY <1>13, <1>14

\* What has the same quotient as a number below the divisor is below it as well.
LEMMA SameQuotientBelow ==
  ASSUME NEW a \in Nat, NEW i \in Nat, NEW t \in Nat \ {0}, (a + i) \div t = a \div t
  PROVE  a < t => a + i < t
  <1> SUFFICES ASSUME a < t PROVE a + i < t
    OBVIOUS
  <1> DEFINE b == a + i
  <1>1. a = 0 * t + a /\ a \in 0 .. t - 1
    OBVIOUS
  <1>2. a \div t = 0
    BY <1>1, QuotientIsUnique
  <1>3. b \in Int /\ b \div t = 0
    BY <1>2
  <1> HIDE DEF b
  <1>4. b % t \in 0 .. t - 1 /\ b = (b \div t) * t + (b % t)
    BY <1>3, DivideWithRemainder
  <1>5. b < t
    BY <1>3, <1>4
  <1> QED BY <1>5 DEF b

\* What follows a canonical address in its page, of any size, lies in the same half
\* of the address space, and is canonical.
LEMMA PageIsCanonical ==
  ASSUME NEW a \in Address, IsCanonical(a), NEW l \in 1 .. TopLevel, NEW i \in Nat,
         (a % Span(l)) + i < Span(l)
  PROVE  IsCanonical(a + i) /\ a + i \in Address
  <1> DEFINE s == Span(l)
             top == Span(TopLevel)
             canonical == Span(TopLevel + 1)
             half == canonical \div 2
             n == MaxAddress + 1
  <1>1. TopLevel \in {4, 5} /\ l \in 1 .. 6 /\ TopLevel \in l .. 6
        /\ TopLevel + 1 \in l .. 6 /\ TopLevel \in 1 .. 5
        /\ TopLevel + 1 \in 1 .. 6 /\ TopLevel \in 1 .. 6
    BY DEF TopLevel
  <1>2. a \in Nat /\ MaxAddress \in Nat
    BY Numbers DEF Address
  <1>3. s \in Nat \ {0} /\ top \in Nat \ {0} /\ canonical \in Nat \ {0}
    BY <1>1, SpanIsPositive
  <1>4. half \in Nat \ {0} /\ half % top = 0
    BY HalfOfTables
  <1>5. n \in Nat \ {0} /\ n % s = 0
    <2>1. l - 1 \in 0 .. 5
      BY <1>1
    <2> QED BY <1>2, <2>1, PowersAssumption DEF Span
  <1>6. top % s = 0 /\ canonical % s = 0
    BY <1>1, SpansNest
  <1> DEFINE r == a % s
  <1>7. r + i < s
    OBVIOUS
  <1> HIDE DEF s, top, canonical, n
  <1>8. r \in 0 .. s - 1 /\ r + i < s
    BY <1>2, <1>3, <1>7, DivideWithRemainder
  <1> HIDE DEF half
  <1>9. half \in Int /\ half % top = 0 /\ top % s = 0
    BY <1>4, <1>6
  <1>10. half % s = 0
    BY <1>3, <1>9, MultipleOfMultiple
  <1>11. (a + i) \div half = a \div half /\ (a + i) \div canonical = a \div canonical
         /\ (a + i) \div n = a \div n
    <2>1. a \in Int /\ i \in Int /\ 0 <= (a % s) + i /\ (a % s) + i < s
      BY <1>2, <1>8
    <2> QED BY <1>3, <1>4, <1>5, <1>6, <1>10, <2>1, SameBlock
  <1>12. /\ a < canonical => a + i < canonical
         /\ a < n => a + i < n
    BY <1>2, <1>3, <1>5, <1>11, SameQuotientBelow
  <1>13. a >= MaxAddress + 1 - canonical => a + i >= MaxAddress + 1 - canonical
    BY <1>2, <1>3
  <1>14. IF (a \div half) % 2 = 0 THEN a < canonical
         ELSE a >= MaxAddress + 1 - canonical
    BY DEF IsCanonical, canonical, half
  <1>15. IF ((a + i) \div half) % 2 = 0 THEN a + i < canonical
         ELSE a + i >= MaxAddress + 1 - canonical
    BY <1>11, <1>12, <1>13, <1>14
  <1>16. a + i \in Address
    BY <1>2, <1>12 DEF Address, n
  <1> QED BY <1>15, <1>16 DEF IsCanonical, canonical, half

\* The addresses of a page of any size have the same index at its level and above.
LEMMA IndexWithinPage ==
  ASSUME NEW a \in Nat, NEW i \in Nat, NEW l \in 1 .. 6, NEW k \in l .. 6,
         (a % Span(l)) + i < Span(l)
  PROVE  Index(a + i, k) = Index(a, k)
  <1> DEFINE s == Span(l)
             t == Span(k)
  <1>1. s \in Nat \ {0} /\ t \in Nat \ {0}
    BY SpanIsPositive
  <1>2. t % s = 0
    BY SpansNest
  <1>3. (a % s) + i < s
    OBVIOUS
  <1> HIDE DEF s, t
  <1>4. a \in Int /\ i \in Int /\ 0 <= (a % s) + i
    BY <1>1, DivideWithRemainder
  <1>5. (a + i) \div t = a \div t
    BY <1>1, <1>2, <1>3, <1>4, SameBlock
  <1> QED BY <1>5 DEF Index, t

\* What follows a translated address, to the end of its page, is translated alike.
LEMMA RunIsTranslated ==
  ASSUME processor \in Processors, directory \in Address,
         NEW m \in [EntryAddresses -> Entry], NEW a \in Address, IsCanonical(a),
         PhysicalOf(m, a).code = "Success",
         NEW i \in 0 .. PhysicalOf(m, a).contiguous - 1
  PROVE  /\ a + i \in CanonicalAddresses
         /\ PhysicalOf(m, a + i).code = "Success"
         /\ PhysicalOf(m, a + i).physical = PhysicalOf(m, a).physical + i
         /\ PhysicalOf(m, a + i).physical < PhysicalLimit
         /\ PhysicalOf(m, a + i).grants = PhysicalOf(m, a).grants
  <1> DEFINE at == WalkAddresses(m, a)
             bt == WalkAddresses(m, a + i)
             l == StopLevel(Walk(m, a))
             e == m[at[l]]
             s == Span(l)
  <1>1. TopLevel \in {4, 5} /\ a \in Nat
    BY Numbers DEF TopLevel, Address
  <1>2. l \in 1 .. TopLevel /\ Stops(e, l)
        /\ \A k \in l + 1 .. TopLevel : ~Stops(m[at[k]], k)
    BY StopLevelExists
  <1>3. e \in Entry
    BY <1>2, WalkStaysInTables
  <1> HIDE DEF l, e
  <1>4. PhysicalOf(m, a) =
          IF ~e.present
          THEN [code |-> "PageNotPresent", bytes |-> 0, fault |-> a, level |-> l]
          ELSE IF l > 3 \/ (l > 1 /\ ~e.large)
          THEN [code |-> "InvalidPageTableEntry", bytes |-> 0, fault |-> a, level |-> l]
          ELSE [code |-> "Success",
                physical |-> ((e.address % PhysicalLimit) \div s) * s + (a % s),
                contiguous |-> (a \div s + 1) * s - a,
                size |-> s,
                grants |-> {p \in Permissions : \A k \in l .. TopLevel :
                              p \in m[at[k]].grants}]
    BY <1>2, OutcomeAtLevel DEF e
  <1>5. e.present /\ ~(l > 3 \/ (l > 1 /\ ~e.large))
    BY <1>4
  <1>6. l \in 1 .. 3 /\ l \in 1 .. 6
    BY <1>1, <1>2, <1>5
  <1>7. s \in Nat \ {0}
    BY <1>6, SpanIsPositive
  <1>8. PhysicalOf(m, a) =
          [code |-> "Success",
           physical |-> ((e.address % PhysicalLimit) \div s) * s + (a % s),
           contiguous |-> (a \div s + 1) * s - a,
           size |-> s,
           grants |-> {p \in Permissions : \A k \in l .. TopLevel : p \in m[at[k]].grants}]
    BY <1>4, <1>5
  <1>9. i \in Nat /\ (a % s) + i < s /\ a % s \in 0 .. s - 1
    <2> HIDE DEF s
    <2>1. PhysicalOf(m, a).contiguous = s - (a % s)
      <3>1. PhysicalOf(m, a).contiguous = (a \div s + 1) * s - a
        BY <1>8
      <3>2. a \in Int
        BY <1>1
      <3>3. (a \div s + 1) * s - a = s - (a % s)
        BY <1>7, <3>2, BlockParts
      <3> QED BY <3>1, <3>3
    <2>2. a % s \in 0 .. s - 1
      BY <1>1, <1>7, DivideWithRemainder
    <2> QED BY <1>7, <2>1, <2>2
  <1>10. a + i \in CanonicalAddresses
    BY <1>2, <1>9, PageIsCanonical, CanonicalMeans
  <1>11. \A k \in l .. TopLevel : bt[k] = at[k]
    <2>1. ASSUME NEW k \in l .. TopLevel
          PROVE  Index(a, k) = Index(a + i, k)
      <3>1. k \in l .. 6
        BY <1>1, <1>2
      <3> QED BY <1>1, <1>6, <1>9, <3>1, IndexWithinPage
    <2> QED BY <1>2, <2>1, SameWalk
  <1>12. PhysicalOf(m, a + i) =
           [code |-> "Success",
            physical |-> ((e.address % PhysicalLimit) \div s) * s + ((a + i) % s),
            contiguous |-> ((a + i) \div s + 1) * s - (a + i),
            size |-> s,
            grants |-> {p \in Permissions : \A k \in l .. TopLevel : p \in m[bt[k]].grants}]
    <2>1. e = m[bt[l]]
      BY <1>1, <1>2, <1>11 DEF e
    <2>2. \A k \in l + 1 .. TopLevel : ~Stops(m[bt[k]], k)
      <3>1. \A k \in l + 1 .. TopLevel : k \in l .. TopLevel
        BY <1>1, <1>2
      <3> QED BY <1>2, <1>11, <3>1
    <2> DEFINE b == a + i
    <2> HIDE DEF b
    <2>3. e = m[WalkAddresses(m, b)[l]]
          /\ \A k \in l + 1 .. TopLevel : ~Stops(m[WalkAddresses(m, b)[k]], k)
      BY <2>1, <2>2 DEF b
    <2>4. PhysicalOf(m, b) =
            [code |-> "Success",
             physical |-> ((e.address % PhysicalLimit) \div s) * s + (b % s),
             contiguous |-> (b \div s + 1) * s - b,
             size |-> s,
             grants |-> {p \in Permissions : \A k \in l .. TopLevel :
                           p \in m[WalkAddresses(m, b)[k]].grants}]
      BY <1>2, <1>5, <2>3, OutcomeAtLevel
    <2> QED BY <2>4 DEF b
  <1>13. (a + i) % s = (a % s) + i
    <2>1. a \in Int /\ i \in Int /\ 0 <= (a % s) + i
      BY <1>1, <1>9
    <2> QED BY <1>7, <1>9, <2>1, RemainderWithinPage
  <1> DEFINE n == e.address % PhysicalLimit
             base == (n \div s) * s
  <1>14. n \in Nat /\ n < PhysicalLimit /\ PhysicalLimit \in Nat \ {0}
    <2>1. PhysicalLimit \in Nat \ {0}
      BY LimitIsPages
    <2>2. e.address \in Int
      BY <1>3, Numbers DEF Entry, Pages, Address
    <2> DEFINE v == e.address
    <2>3. v \in Int
      BY <2>2
    <2> HIDE DEF v
    <2>4. v % PhysicalLimit \in 0 .. PhysicalLimit - 1
      BY <2>1, <2>3, DivideWithRemainder
    <2> QED BY <2>1, <2>4 DEF v
  <1>15. PhysicalLimit % s = 0
    BY <1>6, LimitIsPages
  <1> HIDE DEF n, s, at, bt
  <1>16. base = n - (n % s) /\ base \in Int
    <2>1. n \in Int /\ n \div s \in Int /\ n % s \in Int
      BY <1>7, <1>14, DivideWithRemainder
    <2> QED BY <1>7, <2>1, BlockParts
  <1>17. n - (n % s) + s <= PhysicalLimit
    BY <1>7, <1>14, <1>15, BlockBelowLimit
  <1> HIDE DEF base
  <1>18. base + ((a + i) % s) = base + (a % s) + i
         /\ base + ((a + i) % s) < PhysicalLimit
    BY <1>7, <1>9, <1>13, <1>14, <1>16, <1>17
  <1>19. {p \in Permissions : \A k \in l .. TopLevel : p \in m[bt[k]].grants}
           = {p \in Permissions : \A k \in l .. TopLevel : p \in m[at[k]].grants}
    BY <1>11
  <1> QED BY <1>8, <1>10, <1>12, <1>18, <1>19 DEF base, n

\* An answer holds for the ContiguousBytes that follow the address: each of them
\* translates to the physical byte as far on, which the processor can address, with
\* the same permissions.
THEOREM TranslationsCoverRuns == SafetySpec => []TranslationCoversRun
  <1>1. TypeOK /\ AnswerIsOfTables => TranslationCoversRun
    <2> SUFFICES ASSUME TypeOK, AnswerIsOfTables, pc = "done", answer.code = "Success",
                        changes = 0, NEW i \in 0 .. answer.contiguous - 1
                 PROVE  LET next == PhysicalOf(entries, address + i)
                        IN /\ address + i \in CanonicalAddresses
                           /\ next.code = "Success"
                           /\ next.physical = answer.physical + i
                           /\ next.physical < PhysicalLimit
                           /\ next.grants = answer.grants
      BY DEF TranslationCoversRun
    <2>1. IsCanonical(address) /\ answer = PhysicalOf(entries, address)
      BY DEF AnswerIsOfTables, Walked
    <2>2. /\ processor \in Processors /\ directory \in Address /\ address \in Address
          /\ entries \in [EntryAddresses -> Entry]
      BY DEF TypeOK
    <2> QED BY <2>1, <2>2, RunIsTranslated
  <1> QED BY <1>1, TypeCorrect, WalksFollow, PTL

\* A fetch fails only for a table that is not sure to be read: an entry never
\* straddles two pages and its address never overflows.
THEOREM FetchFailuresAreReal == SafetySpec => []FetchFailureIsReal
  <1>1. Init => FetchFailureIsReal
    BY DEF Init, FetchFailureIsReal
  <1>2. TypeOK /\ FetchFailureIsReal /\ [Next]_vars => FetchFailureIsReal'
    <2> DEFINE Real(a, page, pages) ==
                 \/ a.code = "InvalidDirectoryTableBase" /\ RootAddress(directory') = 0
                 \/ a.code = "NonCanonicalAddress" /\ address' \notin CanonicalAddresses'
                 \/ a.code = "MappingFailed" /\ page \notin pages
    <2> SUFFICES ASSUME TypeOK, FetchFailureIsReal, [Next]_vars,
                        pc' = "done", answer'.code \notin Walked
                 PROVE  Real(answer', table', solid')
      BY DEF FetchFailureIsReal
    <2>1. ASSUME NEW a \in Addresses, NEW d \in Directories, Translate(a, d)
          PROVE  Real(answer', table', solid')
      <3>1. /\ address' = a /\ directory' = d /\ a \in Address
            /\ CanonicalAddresses' = CanonicalAddresses
        BY <2>1, TranslatorAssumption
           DEF Translate, machine, CanonicalAddresses, Span, TopLevel
      <3>2. ~IsCanonical(a) => a \notin CanonicalAddresses
        BY <3>1, CanonicalMeans
      <3>3. RootAddress(d)' = RootAddress(d)
        BY DEF RootAddress
      <3> QED BY <2>1, <3>1, <3>2, <3>3 DEF Translate, Return
    <2>2. CASE EntryRefused
      <3>1. pc = "walk" /\ UNCHANGED <<table, solid>>
        BY <2>2 DEF EntryRefused, machine
      <3>2. CASE answer' = Error("PageNotPresent", 0, level)
        BY <3>2 DEF Error, Walked
      <3>3. ASSUME NEW read \in ReadAnswers(EntryAddress, EntrySize, solid),
                   read.code # "Success", answer' = Error(read.code, read.bytes, level)
            PROVE  Real(answer', table', solid')
        <4>1. EntrySize # 0 /\ CanOffset(EntryAddress, EntrySize - 1)
          BY <3>1, EntryIsThere, Numbers
        <4>2. PICK k \in 0 .. EntrySize - 1 :
                /\ read = Failure("MappingFailed", k, EntryAddress + k)
                /\ PageBase(EntryAddress + k) \notin solid
          BY <3>3, <4>1 DEF ReadAnswers, Success
        <4>3. read.code = "MappingFailed" /\ table \notin solid
          BY <3>1, <4>2, EntryIsThere DEF Failure
        <4> QED BY <3>1, <3>3, <4>3 DEF Error
      <3> QED BY <2>2, <3>1, <3>2, <3>3, EntryIsThere DEF EntryRefused, Return
    <2>3. CASE EntryMapsPage
      BY <2>3 DEF EntryMapsPage, Return, Translation, Walked
    <2>4. CASE EntryNamesTable
      BY <2>4 DEF EntryNamesTable, Return, Error, Walked
    <2>5. CASE ChangeEntry \/ UNCHANGED vars
      <3>1. UNCHANGED <<machine, call>>
        BY <2>5 DEF ChangeEntry, vars
      <3>2. /\ CanonicalAddresses' = CanonicalAddresses
            /\ RootAddress(directory') = RootAddress(directory)
        BY <3>1 DEF machine, call, CanonicalAddresses, Span, TopLevel
      <3> QED BY <3>1, <3>2 DEF machine, call, FetchFailureIsReal, Walked
    <2> QED BY <2>1, <2>2, <2>3, <2>4, <2>5 DEF Next
  <1> QED BY <1>1, <1>2, TypeCorrect, PTL DEF SafetySpec

=============================================================================
