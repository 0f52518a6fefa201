---------------------------- MODULE PageArithmetic ----------------------------
(***************************************************************************)
(* Facts about pages: the arithmetic behind Address::AlignDown, the offset *)
(* of an address in its page and the rounding to the next page, for every  *)
(* page size.  The proofs about the reader and the scan rest on them.      *)
(***************************************************************************)
EXTENDS MemoryTypes, TLAPS

\* A remainder lies below what it is the remainder of, and the quotient
\* makes up for the rest.
LEMMA DivideWithRemainder ==
  ASSUME NEW a \in Int, NEW p \in Nat \ {0}
  PROVE  /\ a % p \in 0 .. p - 1
         /\ a \div p \in Int
         /\ a = (a \div p) * p + (a % p)
  OBVIOUS

\* Whatever is written as a multiple and less than one more is divided so.
LEMMA RemainderIsUnique ==
  ASSUME NEW a \in Int, NEW p \in Nat \ {0}, NEW q \in Int,
         NEW r \in 0 .. p - 1, a = q * p + r
  PROVE  a % p = r
  OBVIOUS

\* Moving within a page moves the remainder as far.
LEMMA RemainderWithinPage ==
  ASSUME NEW a \in Int, NEW p \in Nat \ {0}, NEW k \in Int,
         0 <= (a % p) + k, (a % p) + k < p
  PROVE  (a + k) % p = (a % p) + k
  <1> DEFINE q == a \div p
             r == a % p
  <1>1. q \in Int /\ r \in 0 .. p - 1 /\ a = q * p + r
    BY DivideWithRemainder
  <1>2. r + k \in 0 .. p - 1
    BY <1>1
  <1> HIDE DEF q, r
  <1>3. a + k = q * p + (r + k)
    BY <1>1
  <1>4. (a + k) % p = r + k
    BY <1>1, <1>2, <1>3, RemainderIsUnique
  <1> QED BY <1>4 DEF r

\* Moving by multiples of a page does not change the remainder.
LEMMA RemainderOfSum ==
  ASSUME NEW a \in Int, NEW b \in Int, NEW p \in Nat \ {0}, b % p = 0
  PROVE  (a + b) % p = a % p
  <1> DEFINE q == a \div p
             r == a % p
             c == b \div p
  <1>1. q \in Int /\ r \in 0 .. p - 1 /\ a = q * p + r
    BY DivideWithRemainder
  <1>2. c \in Int /\ b = c * p
    BY DivideWithRemainder
  <1> HIDE DEF q, r, c
  <1>3. a + b = (q + c) * p + r
    BY <1>1, <1>2
  <1>4. (a + b) % p = r
    BY <1>1, <1>2, <1>3, RemainderIsUnique
  <1> QED BY <1>4 DEF r

\* PageBase is the start of the page, at or below the address and less than
\* a page away; a page start is its own base.
LEMMA PageBaseProperties ==
  ASSUME NEW a \in Int
  PROVE  /\ PageOffset(a) \in 0 .. PageSize - 1
         /\ PageBase(a) \in Int
         /\ a = PageBase(a) + PageOffset(a)
         /\ PageBase(a) % PageSize = 0
         /\ a % PageSize = 0 => PageBase(a) = a
  <1>1. PageSize \in Nat \ {0}
    BY GeometryAssumption
  <1>2. a % PageSize \in 0 .. PageSize - 1
    BY <1>1, DivideWithRemainder
  <1> DEFINE k == 0 - (a % PageSize)
  <1>3. k \in Int /\ (a % PageSize) + k = 0
    BY <1>2
  <1>4. a + k = PageBase(a)
    BY <1>2 DEF PageBase
  <1> HIDE DEF k
  <1>5. (a + k) % PageSize = 0
    BY <1>1, <1>3, RemainderWithinPage
  <1> QED BY <1>1, <1>2, <1>4, <1>5 DEF PageBase, PageOffset

\* The addresses of a page have the same base.
LEMMA SamePage ==
  ASSUME NEW a \in Int, NEW k \in Int,
         0 <= PageOffset(a) + k, PageOffset(a) + k < PageSize
  PROVE  PageBase(a + k) = PageBase(a)
  <1>1. PageSize \in Nat \ {0}
    BY GeometryAssumption
  <1>2. a % PageSize \in Int
    BY <1>1, DivideWithRemainder
  <1>3. (a + k) % PageSize = (a % PageSize) + k
    BY <1>1, RemainderWithinPage DEF PageOffset
  <1> QED BY <1>2, <1>3 DEF PageBase

\* Moving by whole pages keeps the place in the page.
LEMMA WholePagesOn ==
  ASSUME NEW a \in Int, NEW b \in Int, b % PageSize = 0
  PROVE  PageOffset(a + b) = PageOffset(a) /\ PageOffset(b + a) = PageOffset(a)
  <1>1. PageSize \in Nat \ {0}
    BY GeometryAssumption
  <1>2. (a + b) % PageSize = a % PageSize
    BY <1>1, RemainderOfSum
  <1>3. b + a = a + b
    OBVIOUS
  <1> QED BY <1>2, <1>3 DEF PageOffset

\* A page is a whole page.
LEMMA PageSizeIsPage == PageSize \in Int /\ PageSize % PageSize = 0
  <1>1. PageSize \in Nat \ {0}
    BY GeometryAssumption
  <1>2. PageSize = 1 * PageSize + 0 /\ 0 \in 0 .. PageSize - 1
    BY <1>1
  <1> QED BY <1>1, <1>2, RemainderIsUnique

\* The page after an address's starts PageSize bytes after its base.
LEMMA NextPageStart ==
  ASSUME NEW a \in Int
  PROVE  (a + (PageSize - PageOffset(a))) % PageSize = 0
  <1>1. PageSize \in Nat \ {0}
    BY GeometryAssumption
  <1>2. PageSize % PageSize = 0
    BY PageSizeIsPage
  <1>3. (PageBase(a) + PageSize) % PageSize = 0
    BY <1>1, <1>2, PageBaseProperties, RemainderOfSum
  <1>4. a + (PageSize - PageOffset(a)) = PageBase(a) + PageSize
    BY <1>1, PageBaseProperties
  <1> QED BY <1>3, <1>4

\* A block of any size that divides the address space lies in it whole.
LEMMA BlockInSpace ==
  ASSUME NEW a \in Address, NEW p \in Nat \ {0}, (MaxAddress + 1) % p = 0
  PROVE  a - (a % p) >= 0 /\ a - (a % p) + p <= MaxAddress + 1
  <1>1. MaxAddress \in Nat
    BY GeometryAssumption
  <1>2. a \in Int /\ 0 <= a /\ a <= MaxAddress
    BY <1>1 DEF Address
  <1> DEFINE q == a \div p
             r == a % p
             m == (MaxAddress + 1) \div p
  <1>3. q \in Int /\ r \in 0 .. p - 1 /\ a = q * p + r
    BY <1>2, DivideWithRemainder
  <1>4. m \in Int /\ MaxAddress + 1 = m * p
    BY <1>1, DivideWithRemainder
  <1>5. a - (a % p) = q * p
    BY <1>3
  <1> HIDE DEF q, r, m
  <1>6. q >= 0
    <2>1. q <= -1 => q * p <= - p
      BY <1>3
    <2> QED BY <1>2, <1>3, <2>1
  <1>7. q + 1 <= m
    <2>1. m <= q => m * p <= q * p
      BY <1>3, <1>4
    <2> QED BY <1>1, <1>2, <1>3, <1>4, <2>1
  <1>8. q * p >= 0 /\ (q + 1) * p <= m * p
    BY <1>3, <1>4, <1>6, <1>7
  <1>9. q * p >= 0 /\ q * p + p <= MaxAddress + 1
    BY <1>1, <1>3, <1>4, <1>8
  <1> QED BY <1>5, <1>9

\* Every page lies in the address space whole.
LEMMA PageInSpace ==
  ASSUME NEW a \in Address
  PROVE  /\ PageBase(a) \in Pages
         /\ PageBase(a) + PageSize - 1 <= MaxAddress
  <1>1. PageSize \in Nat \ {0} /\ MaxAddress \in Nat
    BY GeometryAssumption
  <1>2. a \in Int
    BY <1>1 DEF Address
  <1>3. PageBase(a) % PageSize = 0 /\ PageBase(a) \in Int
    BY <1>2, PageBaseProperties
  <1>4. PageBase(a) >= 0 /\ PageBase(a) + PageSize <= MaxAddress + 1
    BY <1>1, GeometryAssumption, BlockInSpace DEF PageBase
  <1> QED BY <1>1, <1>3, <1>4 DEF Pages, Address

\* A multiple of a multiple is a multiple.
LEMMA MultipleOfMultiple ==
  ASSUME NEW n \in Int, NEW s \in Nat \ {0}, NEW p \in Nat \ {0}, n % s = 0, s % p = 0
  PROVE  n % p = 0
  <1> DEFINE q == n \div s
             c == s \div p
  <1>1. q \in Int /\ n = q * s
    BY DivideWithRemainder
  <1>2. c \in Int /\ s = c * p
    BY DivideWithRemainder
  <1> HIDE DEF q, c
  <1>3. q * c \in Int /\ n = (q * c) * p + 0
    BY <1>1, <1>2
  <1>4. 0 \in 0 .. p - 1
    OBVIOUS
  <1> DEFINE d == q * c
  <1>5. d \in Int /\ n = d * p + 0
    BY <1>3
  <1> HIDE DEF d
  <1> QED BY <1>4, <1>5, RemainderIsUnique

\* Going on to the end of a block of any size ends at a multiple of it.
LEMMA BlockEnd ==
  ASSUME NEW a \in Int, NEW s \in Nat \ {0}
  PROVE  (a + (s - (a % s))) % s = 0
  <1> DEFINE q == a \div s
             r == a % s
  <1>1. q \in Int /\ r \in 0 .. s - 1 /\ a = q * s + r
    BY DivideWithRemainder
  <1> HIDE DEF q, r
  <1>2. a + (s - r) = (q + 1) * s + 0 /\ 0 \in 0 .. s - 1 /\ q + 1 \in Int
    BY <1>1
  <1> DEFINE n == a + (s - r)
             d == q + 1
  <1>3. n \in Int /\ d \in Int /\ n = d * s + 0
    BY <1>1, <1>2
  <1> HIDE DEF n, d
  <1>4. n % s = 0
    BY <1>2, <1>3, RemainderIsUnique
  <1> QED BY <1>4 DEF n, r

\* Going on from an address never leads to an earlier page.
LEMMA PagesAscend ==
  ASSUME NEW a \in Int, NEW k \in Nat
  PROVE  PageBase(a) <= PageBase(a + k)
  <1>1. PageSize \in Nat \ {0}
    BY GeometryAssumption
  <1>2. /\ PageOffset(a) \in 0 .. PageSize - 1
        /\ PageBase(a) \in Int /\ a = PageBase(a) + PageOffset(a)
    BY PageBaseProperties
  <1>3. /\ PageOffset(a + k) \in 0 .. PageSize - 1
        /\ PageBase(a + k) \in Int /\ a + k = PageBase(a + k) + PageOffset(a + k)
    <2>1. a + k \in Int
      OBVIOUS
    <2> QED BY <2>1, PageBaseProperties
  <1>4. CASE PageOffset(a) + k < PageSize
    BY <1>2, <1>4, SamePage
  <1>5. CASE PageOffset(a) + k >= PageSize
    BY <1>1, <1>2, <1>3, <1>5
  <1> QED BY <1>1, <1>2, <1>4, <1>5

\* A positive multiple of a page is a page at least.
LEMMA PositiveMultiple ==
  ASSUME NEW n \in Nat \ {0}, NEW p \in Nat \ {0}, n % p = 0
  PROVE  n >= p
  <1>1. n < p => n % p = n
    OBVIOUS
  <1> QED BY <1>1

\* Whatever is written as a multiple and less than one more has that quotient.
LEMMA QuotientIsUnique ==
  ASSUME NEW a \in Int, NEW p \in Nat \ {0}, NEW q \in Int,
         NEW r \in 0 .. p - 1, a = q * p + r
  PROVE  a \div p = q
  <1> DEFINE b == a \div p
             s == a % p
  <1>1. b \in Int /\ s \in 0 .. p - 1 /\ a = b * p + s
    BY DivideWithRemainder
  <1> HIDE DEF b, s
  <1>2. b < q => FALSE
    <2>1. b + 1 <= q => (b + 1) * p <= q * p
      BY <1>1
    <2> QED BY <1>1, <2>1
  <1>3. q < b => FALSE
    <2>1. q + 1 <= b => (q + 1) * p <= b * p
      BY <1>1
    <2> QED BY <1>1, <2>1
  <1>4. b = q
    BY <1>1, <1>2, <1>3
  <1> QED BY <1>4 DEF b

\* To divide by a multiple of a number is to divide twice.
LEMMA DivideTwice ==
  ASSUME NEW a \in Int, NEW s \in Nat \ {0}, NEW c \in Nat \ {0}
  PROVE  a \div (c * s) = (a \div s) \div c
  <1> DEFINE q == a \div s
             r == a % s
             Q == q \div c
             R == q % c
  <1>1. q \in Int /\ r \in 0 .. s - 1 /\ a = q * s + r
    BY DivideWithRemainder
  <1>2. Q \in Int /\ R \in 0 .. c - 1 /\ q = Q * c + R
    BY <1>1, DivideWithRemainder
  <1> HIDE DEF q, r, Q, R
  <1> DEFINE t == c * s
             u == R * s + r
  <1>3. t \in Nat \ {0}
    BY DEF t
  <1>4. u \in 0 .. t - 1
    <2>1. R * s \in Nat /\ (R + 1) * s <= c * s
      BY <1>2
    <2>2. (R + 1) * s = R * s + s
      BY <1>2
    <2> QED BY <1>1, <1>2, <2>1, <2>2
  <1>5. a = Q * t + u
    BY <1>1, <1>2
  <1> HIDE DEF t, u
  <1>6. a \div t = Q
    BY <1>2, <1>3, <1>4, <1>5, QuotientIsUnique
  <1> QED BY <1>6 DEF t, Q, q

\* The addresses of a block of any size lie in one block of each size it divides.
LEMMA SameBlock ==
  ASSUME NEW a \in Int, NEW i \in Int, NEW s \in Nat \ {0}, NEW t \in Nat \ {0},
         0 <= (a % s) + i, (a % s) + i < s, t % s = 0
  PROVE  (a + i) \div t = a \div t
  <1> DEFINE q == a \div s
             r == a % s
             c == t \div s
  <1>1. q \in Int /\ r \in 0 .. s - 1 /\ a = q * s + r
    BY DivideWithRemainder
  <1>2. c \in Int /\ t = c * s
    BY DivideWithRemainder
  <1>3. 0 <= r + i /\ r + i < s
    OBVIOUS
  <1> HIDE DEF q, r, c
  <1>4. c \in Nat \ {0}
    <2>1. c <= 0 => c * s <= 0
      BY <1>2
    <2> QED BY <1>2, <2>1
  <1>5. a + i = q * s + (r + i) /\ r + i \in 0 .. s - 1
    BY <1>1, <1>3
  <1>6. (a + i) \div s = q
    <2> DEFINE b == a + i
               u == r + i
    <2>1. b \in Int /\ u \in 0 .. s - 1 /\ b = q * s + u
      BY <1>5
    <2> HIDE DEF b, u
    <2>2. b \div s = q
      BY <1>1, <2>1, QuotientIsUnique
    <2> QED BY <2>2 DEF b
  <1>7. (a + i) \div (c * s) = q \div c
    <2> DEFINE b == a + i
    <2>1. b \in Int /\ b \div s = q
      BY <1>6
    <2> HIDE DEF b
    <2>2. b \div (c * s) = q \div c
      BY <1>4, <2>1, DivideTwice
    <2> QED BY <2>2 DEF b
  <1>8. a \div (c * s) = q \div c
    BY <1>4, DivideTwice DEF q
  <1> QED BY <1>2, <1>7, <1>8

\* A block that starts below a limit of whole blocks ends below it.
LEMMA BlockBelowLimit ==
  ASSUME NEW n \in Nat, NEW s \in Nat \ {0}, NEW limit \in Nat,
         n < limit, limit % s = 0
  PROVE  n - (n % s) + s <= limit
  <1> DEFINE q == n \div s
             r == n % s
             m == limit \div s
  <1>1. q \in Int /\ r \in 0 .. s - 1 /\ n = q * s + r
    BY DivideWithRemainder
  <1>2. m \in Int /\ limit = m * s
    BY DivideWithRemainder
  <1> HIDE DEF q, r, m
  <1>3. m <= q => m * s <= q * s
    BY <1>1, <1>2
  <1>4. q + 1 <= m
    BY <1>1, <1>2, <1>3
  <1>5. (q + 1) * s <= m * s
    BY <1>1, <1>2, <1>4
  <1>6. n - r + s <= limit
    BY <1>1, <1>2, <1>5
  <1> QED BY <1>6 DEF r

=============================================================================
