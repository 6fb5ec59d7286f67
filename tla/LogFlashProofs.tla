--------------------------- MODULE LogFlashProofs ---------------------------
(***************************************************************************)
(* What the flash log (LogFlash) keeps, for every geometry, any client and *)
(* any number of resets.  InvType gives the types and the protocol between *)
(* client, capsule and flash.  InvStore says what is stored where:         *)
(*   - every page is well formed: its entries follow one another and no    *)
(*     payload lies where a length is looked for;                          *)
(*   - the pages that a recovery accepts are the last ones written, and    *)
(*     their headers tell their place (the window);                        *)
(*   - every entry of the history log is whole at its entry ID, between    *)
(*     the cursors, in the page buffer or on flash;                        *)
(*   - during a recovery, the cursors found so far are the least and the   *)
(*     greatest of the accepted pages scanned;                             *)
(*   - an append under way has a number that no entry and no erase has     *)
(*     reached.                                                            *)
(* InvCache says where the reader and the read cache are until a reset or  *)
(* an erase that fails: the buffers are labelled with the pages they hold, *)
(* a page that changes on flash is not cached, and while the log is in its *)
(* first lap the reader is never within an entry.                          *)
(* InvRead says, for a linear log, that the lengths on its pages are those *)
(* of the entries of the history, that these are numbered in the order of  *)
(* their IDs, and that the read cursor splits them at the reader's place.  *)
(* The scan of a page is a recursive function; what it computes is taken   *)
(* from the set of the offsets it passes and the least of them that ends   *)
(* it, so that no induction over the page is needed.                       *)
(***************************************************************************)
EXTENDS LogFlash, FiniteSetTheorems, WellFoundedInduction, TLAPS

(* Pages and offsets *)

LEMMA Sizes == PageSize \in Nat /\ PageSize > 2 /\ NumPages \in Nat /\ NumPages > 0
  BY GeometryAssumption DEF PAGE_HEADER_SIZE, ENTRY_HEADER_SIZE

LEMMA Monotone ==
  ASSUME NEW d \in Nat, d > 0, NEW j \in Int, NEW k \in Int, j < k
  PROVE  j * d + d <= k * d
<1>1. PICK n \in Nat : k = j + 1 + n
  <2>1. k - j - 1 \in Nat /\ k = j + 1 + (k - j - 1)
    OBVIOUS
  <2> QED
    BY <2>1
<1>2. k * d = j * d + d + n * d
  BY <1>1
<1>3. n * d >= 0
  OBVIOUS
<1>4. j * d \in Int /\ n * d \in Int /\ k * d \in Int
  OBVIOUS
<1> QED
  BY <1>2, <1>3, <1>4

LEMMA Division ==
  ASSUME NEW d \in Nat, d > 0, NEW x \in Int
  PROVE  x \div d \in Int /\ x % d \in 0..(d - 1) /\ x = (x \div d) * d + (x % d)
  OBVIOUS

LEMMA DivisionUnique ==
  ASSUME NEW d \in Nat, d > 0, NEW k \in Int, NEW o \in 0..(d - 1)
  PROVE  (k * d + o) \div d = k /\ (k * d + o) % d = o
<1>1. PICK x \in Int : x = k * d + o
  OBVIOUS
<1>2. PICK q \in Int, r \in 0..(d - 1) : q = x \div d /\ r = x % d /\ x = q * d + r
  BY Division
<1>3. ~(q < k)
  BY <1>1, <1>2, Monotone
<1>4. ~(k < q)
  BY <1>1, <1>2, Monotone
<1> QED
  BY <1>1, <1>2, <1>3, <1>4

(* A position is a page number and an offset                                *)
LEMMA Position ==
  ASSUME NEW x \in Nat
  PROVE  /\ x \div PageSize \in Nat /\ x % PageSize \in Offsets
         /\ x = (x \div PageSize) * PageSize + (x % PageSize)
         /\ (x \div PageSize) * PageSize \in Nat
<1>1. x \div PageSize \in Int /\ x % PageSize \in 0..(PageSize - 1)
      /\ x = (x \div PageSize) * PageSize + (x % PageSize)
  BY Sizes, Division
<1>2. ~(x \div PageSize < 0)
  <2>1. ASSUME x \div PageSize < 0 PROVE FALSE
    <3>1. (x \div PageSize) * PageSize + PageSize <= 0 * PageSize
      BY <1>1, <2>1, Sizes, Monotone
    <3>2. 0 * PageSize = 0
      BY Sizes
    <3> QED
      BY <1>1, <3>1, <3>2, Sizes
  <2> QED
    BY <2>1
<1>3. (x \div PageSize) * PageSize \in Nat
  BY <1>1, <1>2, Sizes
<1> QED
  BY <1>1, <1>2, <1>3 DEF Offsets

LEMMA PositionUnique ==
  ASSUME NEW k \in Int, NEW o \in Offsets
  PROVE  (k * PageSize + o) \div PageSize = k /\ (k * PageSize + o) % PageSize = o
  BY Sizes, DivisionUnique DEF Offsets

(* A later page begins after the end of this one                            *)
LEMMA PageAfter ==
  ASSUME NEW j \in Int, NEW k \in Int
  PROVE  /\ j * PageSize \in Int /\ (j + 1) * PageSize = j * PageSize + PageSize
         /\ j < k => j * PageSize + PageSize <= k * PageSize
         /\ j <= k => j * PageSize <= k * PageSize
  <1>1. j * PageSize \in Int /\ (j + 1) * PageSize = j * PageSize + PageSize
    BY Sizes
  <1>2. j < k => j * PageSize + PageSize <= k * PageSize
    BY Sizes, Monotone
  <1> QED
    BY <1>1, <1>2, Sizes

(* The pages of the flash are the page numbers modulo NumPages              *)
LEMMA Modulo ==
  ASSUME NEW k \in Int
  PROVE  /\ k % NumPages \in Logicals /\ (k + NumPages) % NumPages = k % NumPages
         /\ (k - NumPages) % NumPages = k % NumPages
         /\ k \in Logicals => k % NumPages = k
<1>1. PICK q \in Int, r \in 0..(NumPages - 1) :
        q = k \div NumPages /\ r = k % NumPages /\ k = q * NumPages + r
  BY Sizes, Division
<1>2. k + NumPages = (q + 1) * NumPages + r /\ k - NumPages = (q - 1) * NumPages + r
  BY <1>1, Sizes
<1>3. (k + NumPages) % NumPages = r /\ (k - NumPages) % NumPages = r
  BY <1>2, Sizes, DivisionUnique
<1>4. k \in Logicals => k % NumPages = k
  <2>1. 0 * NumPages + k = k
    BY Sizes
  <2> QED
    BY <2>1, Sizes, DivisionUnique DEF Logicals
<1> QED
  BY <1>1, <1>3, <1>4 DEF Logicals

LEMMA Congruent ==
  ASSUME NEW j \in Int, NEW k \in Int, j % NumPages = k % NumPages, j < k
  PROVE  j + NumPages <= k
<1>1. PICK q \in Int, r \in 0..(NumPages - 1) :
        r = j % NumPages /\ j = q * NumPages + r
  BY Sizes, Division
<1>2. PICK t \in Int : k = t * NumPages + r
  <2>1. PICK t \in Int : t = k \div NumPages
    BY Sizes, Division
  <2>2. k = t * NumPages + (k % NumPages)
    BY <2>1, Sizes, Division
  <2> QED
    BY <1>1, <2>2
<1>3. q < t
  <2>1. ASSUME ~(q < t) PROVE FALSE
    <3>1. t * NumPages <= q * NumPages
      <4>1. CASE t = q
        BY <4>1, Sizes
      <4>2. CASE t < q
        BY <4>2, Sizes, Monotone
      <4> QED
        BY <2>1, <4>1, <4>2
    <3>2. PICK a \in Int, b \in Int : a = t * NumPages /\ b = q * NumPages
      BY Sizes
    <3>3. j = b + r /\ k = a + r /\ a <= b
      BY <1>1, <1>2, <3>1, <3>2
    <3> QED
      BY <3>3
  <2> QED
    BY <2>1
<1>4. q * NumPages + NumPages <= t * NumPages
  BY <1>3, Sizes, Monotone
<1>5. t * NumPages \in Int /\ q * NumPages \in Int
  BY Sizes
<1> QED
  BY <1>1, <1>2, <1>4, <1>5, Sizes

LEMMA VolumeType == Volume \in Nat /\ Volume > 0 /\ Volume >= PageSize
<1>1. (NumPages - 1) * PageSize >= 0 /\ NumPages * PageSize = (NumPages - 1) * PageSize + PageSize
  BY Sizes
<1> QED
  BY <1>1, Sizes DEF Volume

(* Position k * PageSize + o within its lap                                 *)
LEMMA Lap ==
  ASSUME NEW k \in Nat, NEW o \in Offsets
  PROVE  (k * PageSize + o) % Volume = (k % NumPages) * PageSize + o
<1>1. PICK q \in Int, r \in 0..(NumPages - 1) :
        q = k \div NumPages /\ r = k % NumPages /\ k = q * NumPages + r
  BY Sizes, Division
<1>2. k * PageSize + o = q * Volume + (r * PageSize + o)
  BY <1>1, Sizes DEF Volume, Offsets
<1>3. r * PageSize + o \in 0..(Volume - 1)
  <2>1. r * PageSize + PageSize <= NumPages * PageSize
    BY <1>1, Sizes, PageAfter
  <2>2. r * PageSize >= 0 /\ r * PageSize \in Int
    BY <1>1, Sizes
  <2> QED
    BY <2>1, <2>2, Sizes, VolumeType DEF Volume, Offsets
<1>4. (q * Volume + (r * PageSize + o)) % Volume = r * PageSize + o
  BY <1>3, VolumeType, DivisionUnique
<1> QED
  BY <1>1, <1>2, <1>4

LEMMA LogicalPage ==
  ASSUME NEW k \in Nat, NEW o \in Offsets
  PROVE  logical_page_of_pos(k * PageSize + o) = k % NumPages
<1>1. k % NumPages \in Int
  BY Modulo DEF Logicals
<1> QED
  BY <1>1, Lap, PositionUnique DEF logical_page_of_pos

LEMMA LogicalPageOf ==
  ASSUME NEW x \in Nat
  PROVE  /\ logical_page_of_pos(x) = (x \div PageSize) % NumPages
         /\ logical_page_of_pos(x) \in Logicals
<1>1. x \div PageSize \in Nat /\ x % PageSize \in Offsets
      /\ x = (x \div PageSize) * PageSize + (x % PageSize)
  BY Position
<1>2. logical_page_of_pos((x \div PageSize) * PageSize + (x % PageSize)) = (x \div PageSize) % NumPages
  BY <1>1, LogicalPage
<1> QED
  BY <1>1, <1>2, Modulo

LEMMA RoundUpAt ==
  ASSUME NEW k \in Nat, NEW n \in 1..PageSize
  PROVE  RoundUp(k * PageSize + n) = k * PageSize + PageSize
<1>1. k * PageSize \in Int
  BY Sizes
<1>2. PageSize - n \in Offsets
  BY Sizes DEF Offsets
<1>3. -(k * PageSize + n) = (-k - 1) * PageSize + (PageSize - n)
  BY Sizes
<1>4. (-(k * PageSize + n)) % PageSize = PageSize - n
  <2>1. ((-k - 1) * PageSize + (PageSize - n)) % PageSize = PageSize - n
    BY <1>2, PositionUnique
  <2> QED
    BY <1>3, <2>1
<1> QED
  BY <1>1, <1>4, Sizes DEF RoundUp

(* A valid header names its page                                            *)
LEMMA ValidHeaderAt ==
  ASSUME NEW page \in Pages, NEW p \in Logicals, ValidHeader(page, p), page[0].val \in Nat
  PROVE  \E k \in Nat : page[0].val = k * PageSize /\ k % NumPages = p
<1>1. PICK v \in Nat : v = page[0].val
  OBVIOUS
<1>2. v % Volume = p * PageSize
  BY <1>1 DEF ValidHeader
<1>3. PICK k \in Nat, o \in Offsets : v = k * PageSize + o
  BY Position
<1>4. (k % NumPages) * PageSize + o = p * PageSize
  BY <1>2, <1>3, Lap
<1>5. k % NumPages \in Int /\ p \in Int /\ 0 \in Offsets
  BY Modulo, Sizes DEF Logicals, Offsets
<1>6. p * PageSize + 0 = p * PageSize
  BY <1>5, Sizes
<1>7. k % NumPages = p /\ o = 0
  BY <1>4, <1>5, <1>6, PositionUnique
<1>8. v = k * PageSize
  BY <1>3, <1>7, Sizes
<1> QED
  BY <1>1, <1>7, <1>8

LEMMA HeaderIsValid ==
  ASSUME NEW page, NEW k \in Nat, page[0] = Header(k * PageSize)
  PROVE  ValidHeader(page, k % NumPages) /\ page[0].val = k * PageSize
<1>1. 0 \in Offsets /\ k * PageSize + 0 = k * PageSize
      /\ (k % NumPages) * PageSize + 0 = (k % NumPages) * PageSize
  BY Modulo, Sizes DEF Offsets, Logicals
<1>2. (k * PageSize) % Volume = (k % NumPages) * PageSize
  BY <1>1, Lap
<1> QED
  BY <1>2 DEF ValidHeader, Header

-----------------------------------------------------------------------------
(* Where the entries of a page end *)

LEMMA HasLeast ==
  ASSUME NEW T, T \subseteq Nat, T # {}
  PROVE  \E x \in T : \A y \in T : x <= y
<1>1. PICK R : R = {ss \in Nat \X Nat : ss[1] < ss[2]}
  OBVIOUS
<1>2. IsWellFoundedOn(R, Nat)
  BY <1>1, NatLessThanWellFounded DEF OpToRel
<1>3. PICK x \in T : \A y \in T : ~ (<<y, x>> \in R)
  BY <1>2, WFMin
<1>4. ASSUME NEW y \in T PROVE x <= y
  <2>1. x \in Nat /\ y \in Nat
    OBVIOUS
  <2>2. y < x => <<y, x>> \in R
    BY <1>1, <2>1
  <2>3. ~(y < x)
    BY <1>3, <2>2
  <2> QED
    BY <2>1, <2>3
<1> QED
  BY <1>4

(* Induction, for a set of numbers                                          *)
LEMMA SetInduction ==
  ASSUME NEW T, 0 \in T, \A n \in Nat : n \in T => n + 1 \in T
  PROVE  \A n \in Nat : n \in T
<1>1. SUFFICES ASSUME Nat \ T # {} PROVE FALSE
  OBVIOUS
<1>2. PICK x \in Nat \ T : \A y \in Nat \ T : x <= y
  BY <1>1, HasLeast
<1>3. x - 1 \in Nat /\ x - 1 \in T
  <2>1. x # 0
    BY <1>2
  <2>2. x - 1 \in Nat /\ ~(x <= x - 1)
    BY <1>2, <2>1
  <2> QED
    BY <1>2, <2>2
<1>4. (x - 1) + 1 \in T /\ (x - 1) + 1 = x
  BY <1>2, <1>3
<1> QED
  BY <1>2, <1>4

LEMMA CellFields ==
  ASSUME NEW page \in Pages, NEW o \in Offsets
  PROVE  /\ page[o].len \in Int /\ page[o].val \in Nat
         /\ page[o].len > 0 => page[o].len \in Lens
<1>1. page[o] \in Cells
  BY DEF Pages
<1>2. CASE page[o] \in {PAD, ZERO}
  BY <1>2 DEF PAD, ZERO
<1>3. CASE page[o] \in {Data(t) : t \in 1..MaxEntries}
  <2>1. PICK t \in 1..MaxEntries : page[o] = Data(t)
    BY <1>3
  <2> QED
    BY <2>1, ClientAssumption DEF Data
<1>4. CASE page[o] \in [len : Lens, val : 1..MaxEntries]
  <2>1. page[o].len \in Lens /\ page[o].val \in 1..MaxEntries
    BY <1>4
  <2>2. page[o].len \in Nat \ {0}
    BY <2>1, ClientAssumption
  <2>3. page[o].val \in Nat
    BY <2>1, ClientAssumption
  <2> QED
    BY <2>1, <2>2, <2>3
<1>5. CASE page[o] \in [len : {Header(0).len}, val : Nat]
  BY <1>5 DEF Header
<1> QED
  BY <1>1, <1>2, <1>3, <1>4, <1>5 DEF Cells

(* One step of the walk from offset o, where f is the walk from later ones  *)
WalkFrom(page, f, o) ==
  IF o = PageSize \/ page[o].len <= 0 THEN o
  ELSE IF o + 1 + page[o].len > PageSize THEN o
  ELSE f[o + 1 + page[o].len]

WalkOf(page, f) == f = [o \in 1..PageSize |-> WalkFrom(page, f, o)]

LEMMA WalkExists ==
  ASSUME NEW page \in Pages
  PROVE  \E f : WalkOf(page, f)
<1> DEFINE Upto(n, f) == f = [o \in (PageSize - n)..PageSize |-> WalkFrom(page, f, o)]
           T == {n \in Nat : n < PageSize => \E f : Upto(n, f)}
<1>1. 0 \in T
  <2>1. [o \in (PageSize - 0)..PageSize |-> WalkFrom(page, <<>>, o)]
         = [o \in (PageSize - 0)..PageSize |-> o]
    BY Sizes DEF WalkFrom
  <2>2. PICK f : f = [o \in (PageSize - 0)..PageSize |-> o]
    OBVIOUS
  <2>3. [o \in (PageSize - 0)..PageSize |-> WalkFrom(page, f, o)]
         = [o \in (PageSize - 0)..PageSize |-> o]
    BY Sizes DEF WalkFrom
  <2>4. Upto(0, f)
    BY <2>2, <2>3
  <2> QED
    BY <2>4
<1>2. ASSUME NEW n \in Nat, n \in T PROVE n + 1 \in T
  <2>1. SUFFICES ASSUME n + 1 < PageSize PROVE \E g : Upto(n + 1, g)
    OBVIOUS
  <2>2. PICK f : Upto(n, f)
    BY <1>2, <2>1, Sizes
  <2>3. PICK g : g = [o \in (PageSize - (n + 1))..PageSize |->
                        IF o = PageSize - (n + 1) THEN WalkFrom(page, f, o) ELSE f[o]]
    OBVIOUS
  <2>4. ASSUME NEW o \in (PageSize - (n + 1))..PageSize
        PROVE  g[o] = WalkFrom(page, g, o)
    <3>1. WalkFrom(page, g, o) = WalkFrom(page, f, o)
      <4>1. CASE o = PageSize
        BY <4>1 DEF WalkFrom
      <4>2. CASE o # PageSize
        <5>1. o \in Offsets /\ o \in Int /\ page[o].len \in Int
          BY <2>1, <4>2, Sizes, CellFields DEF Offsets
        <5>2. page[o].len > 0 /\ o + 1 + page[o].len <= PageSize =>
                /\ o + 1 + page[o].len \in (PageSize - (n + 1))..PageSize
                /\ o + 1 + page[o].len # PageSize - (n + 1)
          BY <5>1, <2>1, Sizes
        <5>3. page[o].len > 0 /\ o + 1 + page[o].len <= PageSize =>
                g[o + 1 + page[o].len] = f[o + 1 + page[o].len]
          BY <5>2, <2>3
        <5> QED
          BY <5>1, <5>3, Sizes DEF WalkFrom
      <4> QED
        BY <4>1, <4>2
    <3>2. CASE o = PageSize - (n + 1)
      BY <2>3, <3>1, <3>2
    <3>3. CASE o # PageSize - (n + 1)
      <4>1. o \in (PageSize - n)..PageSize
        BY <3>3, <2>1, Sizes
      <4>2. f[o] = WalkFrom(page, f, o)
        BY <4>1, <2>2
      <4> QED
        BY <2>3, <3>1, <3>3, <4>2
    <3> QED
      BY <3>2, <3>3
  <2>5. g = [o \in (PageSize - (n + 1))..PageSize |-> g[o]]
    BY <2>3
  <2>6. Upto(n + 1, g)
    BY <2>4, <2>5
  <2> QED
    BY <2>6
<1> HIDE DEF T
<1>3. PageSize - 1 \in Nat /\ PageSize - 1 \in T
  BY <1>1, <1>2, SetInduction, Sizes
<1> USE DEF T
<1>4. PICK f : Upto(PageSize - 1, f)
  BY <1>3, Sizes
<1>5. PageSize - (PageSize - 1) = 1
  BY Sizes
<1> QED
  BY <1>4, <1>5 DEF WalkOf

LEMMA WalkedLenIs ==
  ASSUME NEW page \in Pages
  PROVE  \E f : WalkOf(page, f) /\ WalkedLen(page) = f[1]
<1> DEFINE W == CHOOSE f : WalkOf(page, f)
<1>1. WalkOf(page, W)
  BY WalkExists
<1>2. WalkedLen(page) = W[1]
  BY DEF WalkedLen, WalkOf, WalkFrom, PAGE_HEADER_SIZE, ENTRY_HEADER_SIZE
<1> QED
  BY <1>1, <1>2

LEMMA WalkedLenType ==
  ASSUME NEW page \in Pages
  PROVE  WalkedLen(page) \in 1..PageSize
<1>1. PICK f : WalkOf(page, f) /\ WalkedLen(page) = f[1]
  BY WalkedLenIs
<1> DEFINE T == {n \in Nat : \A k \in Nat : k <= n /\ k < PageSize => f[PageSize - k] \in 1..PageSize}
<1>2. ASSUME NEW o \in 1..PageSize
      PROVE  f[o] = WalkFrom(page, f, o)
  BY <1>1, <1>2 DEF WalkOf
<1>3. 0 \in T
  <2>1. f[PageSize] = PageSize
    BY <1>2, Sizes DEF WalkFrom
  <2> QED
    BY <2>1, Sizes
<1>4. ASSUME NEW n \in Nat, n \in T PROVE n + 1 \in T
  <2>1. SUFFICES ASSUME n + 1 < PageSize PROVE f[PageSize - (n + 1)] \in 1..PageSize
    BY <1>4
  <2>2. PICK o \in 1..(PageSize - 1) : o = PageSize - (n + 1)
    BY <2>1, Sizes
  <2>3. page[o].len \in Int
    BY CellFields, Sizes DEF Offsets
  <2>4. page[o].len > 0 /\ o + 1 + page[o].len <= PageSize => f[o + 1 + page[o].len] \in 1..PageSize
    <3>1. SUFFICES ASSUME page[o].len > 0, o + 1 + page[o].len <= PageSize
                   PROVE  f[o + 1 + page[o].len] \in 1..PageSize
      OBVIOUS
    <3>2. PICK k \in Nat : k = PageSize - (o + 1 + page[o].len)
      BY <2>3, <3>1, Sizes
    <3>3. k <= n /\ k < PageSize /\ PageSize - k = o + 1 + page[o].len
      BY <2>2, <2>3, <3>1, <3>2, Sizes
    <3> QED
      BY <1>4, <3>3
  <2>5. f[o] = WalkFrom(page, f, o)
    BY <1>2, Sizes
  <2> QED
    BY <2>2, <2>3, <2>4, <2>5, Sizes DEF WalkFrom
<1> HIDE DEF T
<1>5. PageSize - 1 \in Nat /\ PageSize - 1 \in T
  BY <1>3, <1>4, SetInduction, Sizes
<1> USE DEF T
<1>6. f[PageSize - (PageSize - 1)] \in 1..PageSize
  BY <1>5, Sizes
<1>7. PageSize - (PageSize - 1) = 1
  BY Sizes
<1> QED
  BY <1>1, <1>6, <1>7

(* Pages with a header nowhere but at their start                           *)
Sheets == {page \in Pages : \A i \in Offsets : i > 0 => page[i].len # Header(0).len}

LEMMA CellTypes ==
  /\ PAD \in Cells /\ ZERO \in Cells
  /\ \A id \in Nat : Header(id) \in Cells
  /\ \A t \in 1..MaxEntries : Data(t) \in Cells
  /\ \A n \in Lens, t \in 1..MaxEntries : [len |-> n, val |-> t] \in Cells
<1>1. \A id \in Nat : Header(id) \in [len : {Header(0).len}, val : Nat]
  BY DEF Header
<1> QED
  BY <1>1 DEF Cells

LEMMA ErasedType == Erased \in Sheets
<1>1. Erased \in Pages
  BY CellTypes DEF Erased, Pages
<1> QED
  BY <1>1 DEF Sheets, Erased, PAD, Header

LEMMA FreshType ==
  ASSUME NEW id \in Nat
  PROVE  Fresh(id) \in Sheets
<1>1. Fresh(id) \in Pages
  BY CellTypes DEF Fresh, Pages
<1>2. \A i \in Offsets : i > 0 => Fresh(id)[i] = ZERO
  BY Sizes DEF Fresh, Offsets
<1> QED
  BY <1>1, <1>2 DEF Sheets, ZERO, Header

LEMMA PaddedType ==
  ASSUME NEW page \in Sheets, NEW o
  PROVE  PaddedFrom(page, o) \in Sheets
<1>1. PaddedFrom(page, o) \in Pages
  BY CellTypes DEF PaddedFrom, Pages, Sheets
<1>2. \A i \in Offsets : PaddedFrom(page, o)[i] \in {PAD, page[i]}
  BY DEF PaddedFrom
<1> QED
  BY <1>1, <1>2 DEF Sheets, PAD, Header

LEMMA WithEntryType ==
  ASSUME NEW page \in Sheets, NEW o, NEW b, b.len \in Lens, b.tag \in 1..MaxEntries
  PROVE  WithEntry(page, o, b) \in Sheets
<1>0. page \in Pages /\ \A i \in Offsets : page[i] \in Cells
  BY DEF Sheets, Pages
<1>1. \A i \in Offsets : WithEntry(page, o, b)[i] \in {[len |-> b.len, val |-> b.tag], Data(b.tag), page[i]}
  BY DEF WithEntry
<1>2. WithEntry(page, o, b) \in Pages
  <2>1. WithEntry(page, o, b) = [i \in Offsets |-> WithEntry(page, o, b)[i]]
    BY DEF WithEntry
  <2>2. \A i \in Offsets : WithEntry(page, o, b)[i] \in Cells
    BY <1>0, <1>1, CellTypes
  <2> QED
    BY <2>1, <2>2 DEF Pages
<1>3. b.len # Header(0).len
  BY ClientAssumption DEF Header
<1> QED
  BY <1>1, <1>2, <1>3 DEF Sheets, Data, Header

LEMMA LabelOf ==
  ASSUME NEW x \in Int
  PROVE  logical_page_of_pos(x) \in Logicals
<1>1. PICK y \in Nat : y = x % Volume /\ y < Volume
  <2>1. x % Volume \in 0..(Volume - 1)
    BY VolumeType, Division
  <2> QED
    BY <2>1, VolumeType
<1>2. PICK k \in Nat, o \in Offsets : y = k * PageSize + o /\ k = y \div PageSize
  BY Position
<1>3. ~(k >= NumPages)
  <2>1. ASSUME k >= NumPages PROVE FALSE
    <3>1. NumPages * PageSize <= k * PageSize
      BY <2>1, Sizes, PageAfter
    <3>2. k * PageSize \in Int
      BY Sizes
    <3> QED
      BY <1>1, <1>2, <3>1, <3>2, VolumeType, Sizes DEF Volume, Offsets
  <2> QED
    BY <2>1
<1>4. logical_page_of_pos(x) = k
  BY <1>1, <1>2 DEF logical_page_of_pos
<1> QED
  BY <1>3, <1>4, Sizes DEF Logicals

LEMMA RoundUpType ==
  ASSUME NEW x \in Nat
  PROVE  RoundUp(x) \in Nat /\ x <= RoundUp(x)
<1>1. (-x) % PageSize \in 0..(PageSize - 1)
  BY Sizes, Division
<1> QED
  BY <1>1, Sizes DEF RoundUp
-----------------------------------------------------------------------------
(* The capsule's record *)

Labels == Logicals \cup {NONE}
IOs    == {NoIO} \cup [op : {"read", "write", "erase"}, page : Logicals]
Errs   == {"Ok", "FAIL", "SIZE", "END", "RESERVE"}
AllRequests ==
  {NoOp} \cup [op : {"read"}, len : ReadLens]
  \cup [op : {"append"}, len : Lens, tag : 1..MaxEntries]
  \cup [op : {"seek"}, at : Nat, before : Nat] \cup [op : {"sync", "erase"}]
Rams ==
  [state : States, next : (0..NumPages) \cup {NONE}, walking : BOOLEAN,
   recOldest : Nat \cup {NONE}, recNewest : Nat,
   oldest : Nat, rd : Nat, app : Nat, lost : BOOLEAN,
   pbuf : Sheets, pbPage : Labels, rbuf : Sheets, rbPage : Labels, rbHere : BOOLEAN,
   flushing : BOOLEAN, err : Errs, got : Nat,
   req : AllRequests, pending : BOOLEAN, deferred : BOOLEAN, io : IOs]

LEMMA RequestFields ==
  ASSUME NEW o \in AllRequests
  PROVE  /\ o.op \in {"none", "read", "append", "seek", "sync", "erase"}
         /\ o.op = "none" => o = NoOp
         /\ o.op = "append" => o.len \in Lens /\ o.tag \in 1..MaxEntries
         /\ o.op = "seek" => o.at \in Nat /\ o.before \in Nat
<1>1. CASE o = NoOp
  BY <1>1 DEF NoOp
<1>2. CASE o \in [op : {"read"}, len : ReadLens]
  BY <1>2
<1>3. CASE o \in [op : {"append"}, len : Lens, tag : 1..MaxEntries]
  BY <1>3
<1>4. CASE o \in [op : {"seek"}, at : Nat, before : Nat]
  BY <1>4
<1>5. CASE o \in [op : {"sync", "erase"}]
  BY <1>5
<1> QED
  BY <1>1, <1>2, <1>3, <1>4, <1>5 DEF AllRequests

LEMMA IOFields ==
  /\ NoIO \in IOs /\ NoIO.op = "none"
  /\ \A io \in IOs : io # NoIO => io.op \in {"read", "write", "erase"} /\ io.page \in Logicals
  /\ \A io \in IOs : io.op = "none" => io = NoIO
  /\ \A op \in {"read", "write", "erase"}, p \in Logicals :
       [op |-> op, page |-> p] \in IOs /\ [op |-> op, page |-> p] # NoIO
<1>1. \A io \in [op : {"read", "write", "erase"}, page : Logicals] :
         io.op \in {"read", "write", "erase"} /\ io.page \in Logicals
  OBVIOUS
<1>2. \A op \in {"read", "write", "erase"}, p \in Logicals :
        [op |-> op, page |-> p].op # "none"
  OBVIOUS
<1> QED
  BY <1>1, <1>2 DEF IOs, NoIO

(* Nothing is under way                                                     *)
Quiet(l) == l.io = NoIO /\ ~l.deferred
Busy(l)  == (l.io = NoIO /\ l.deferred) \/ (l.io # NoIO /\ ~l.deferred)

SameStore(m, l) == m.oldest = l.oldest /\ m.app = l.app /\ m.pbuf = l.pbuf
SameScan(m, l)  == /\ m.next = l.next /\ m.walking = l.walking
                   /\ m.recOldest = l.recOldest /\ m.recNewest = l.recNewest
SameCache(m, l) == m.rbuf = l.rbuf /\ m.rbPage = l.rbPage /\ m.rbHere = l.rbHere
SameTask(m, l)  == /\ m.state = l.state /\ m.req = l.req
                   /\ m.flushing = l.flushing /\ m.pending = l.pending

LEMMA FinishFields ==
  ASSUME NEW l \in Rams, NEW e \in Errs, NEW t \in Nat
  PROVE  LET m == Finish(l, e, t) IN
         /\ m \in Rams /\ m.deferred /\ m.io = l.io /\ m.err = e /\ m.got = t
         /\ SameStore(m, l) /\ SameScan(m, l) /\ SameCache(m, l) /\ SameTask(m, l)
         /\ m.rd = l.rd /\ m.pbPage = l.pbPage /\ m.lost = l.lost
  BY DEF Finish, Rams, SameStore, SameScan, SameCache, SameTask

(* A read of the page of the read cursor is under way                       *)
Fetches(m, l, p) ==
  /\ l.rbHere /\ ~m.rbHere /\ m.rbPage = NONE /\ m.rbuf = l.rbuf
  /\ ~m.deferred /\ m.io = [op |-> "read", page |-> p]
Answers(m, l) == m.deferred /\ m.io = NoIO /\ SameCache(m, l)
SameButCache(m, l) ==
  SameStore(m, l) /\ SameScan(m, l) /\ SameTask(m, l) /\ m.pbPage = l.pbPage /\ m.lost = l.lost

LEMMA FinishAnswers ==
  ASSUME NEW l \in Rams, Quiet(l), NEW e \in Errs, NEW t \in Nat
  PROVE  LET m == Finish(l, e, t) IN
         /\ m \in Rams /\ Answers(m, l) /\ SameButCache(m, l)
         /\ m.err = e /\ m.got = t /\ m.rd = l.rd
  BY FinishFields DEF Answers, SameButCache, Quiet

LEMMA StartReadPage ==
  ASSUME NEW l \in Rams, NEW p \in Logicals, Quiet(l)
  PROVE  LET m == start_read_page(l, p) IN
         /\ m \in Rams /\ SameButCache(m, l) /\ m.rd = l.rd
         /\ Fetches(m, l, p) \/ (Answers(m, l) /\ m.err = "RESERVE" /\ ~l.rbHere)
<1> DEFINE m == start_read_page(l, p)
<1>1. CASE l.rbHere
  <2>0. PICK i \in IOs : i = [op |-> "read", page |-> p]
    BY IOFields
  <2>1. NONE \in Labels
    BY DEF Labels
  <2>2. m = [l EXCEPT !.rbHere = FALSE, !.rbPage = NONE, !.io = i]
    BY <1>1, <2>0 DEF start_read_page
  <2>3. m \in Rams /\ m.io = i /\ m.rbPage = NONE /\ ~m.rbHere /\ m.rbuf = l.rbuf
        /\ ~m.deferred /\ m.rd = l.rd /\ SameButCache(m, l)
    BY <2>1, <2>2 DEF Rams, SameStore, SameScan, SameTask, SameButCache, Quiet
  <2>4. Fetches(m, l, p)
    BY <1>1, <2>0, <2>3 DEF Fetches
  <2> QED
    BY <2>3, <2>4
<1>2. CASE ~l.rbHere
  <2>1. "RESERVE" \in Errs /\ 0 \in Nat
    BY DEF Errs
  <2>2. m = Finish(l, "RESERVE", 0)
    BY <1>2 DEF start_read_page
  <2> QED
    BY <1>2, <2>1, <2>2, FinishFields DEF Answers, SameButCache, Quiet
<1> QED
  BY <1>1, <1>2
(* Lengths are found at entries, in front of payload any number is          *)
LEMMA LenAtType ==
  ASSUME NEW l \in Rams, NEW pos \in Nat, NEW g \in Garbage
  PROVE  /\ CellAt(l, pos).len \in Int /\ CellAt(l, pos).val \in Nat /\ LenAt(l, pos, g) \in Int
         /\ pos % PageSize > 0 => LenAt(l, pos, g) >= -1 /\ CellAt(l, pos).len >= -2
<1>1. PICK page \in Sheets, o \in Offsets :
        CellAt(l, pos) = page[o] /\ o = pos % PageSize
  <2>1. l.pbuf \in Sheets /\ l.rbuf \in Sheets
    BY DEF Rams
  <2>2. pos % PageSize \in Offsets
    BY Position
  <2> QED
    BY <2>1, <2>2 DEF CellAt
<1>2. page \in Pages
  BY DEF Sheets
<1>3. page[o].len \in Int /\ page[o].val \in Nat
  BY <1>2, CellFields
<1>4. o > 0 => page[o].len >= -2
  <2>1. SUFFICES ASSUME o > 0 PROVE page[o].len >= -2
    OBVIOUS
  <2>2. page[o] \in Cells /\ page[o].len # -3
    BY <1>2, <2>1 DEF Pages, Sheets, Header
  <2>3. CASE page[o].len > 0
    BY <1>3, <2>3
  <2>4. CASE page[o] \in {PAD, ZERO}
    BY <2>4 DEF PAD, ZERO
  <2>5. CASE page[o] \in {Data(t) : t \in 1..MaxEntries}
    BY <2>5 DEF Data
  <2>6. CASE page[o] \in [len : Lens, val : 1..MaxEntries]
    <3>1. page[o].len \in Lens
      BY <2>6
    <3>2. page[o].len \in Nat
      BY <3>1, ClientAssumption
    <3> QED
      BY <3>2
  <2>7. CASE page[o] \in [len : {Header(0).len}, val : Nat]
    BY <2>2, <2>7 DEF Header
  <2> QED
    BY <2>2, <2>4, <2>5, <2>6, <2>7 DEF Cells
<1>5. g \in Int /\ g >= -1
  BY Sizes DEF Garbage
<1>6. LenAt(l, pos, g) = IF page[o].len = -2 THEN g ELSE page[o].len
  BY <1>1 DEF LenAt, Data
<1> QED
  BY <1>1, <1>3, <1>4, <1>5, <1>6

LEMMA PayloadType ==
  ASSUME NEW l \in Rams, NEW pos \in Nat, NEW len
  PROVE  PayloadAt(l, pos, len) \in Nat
<1>1. 0 \in Garbage
  BY Sizes DEF Garbage
<1>2. CellAt(l, pos).val \in Nat
  BY <1>1, LenAtType
<1> QED
  BY <1>2 DEF PayloadAt

(* The three outcomes of deliver_current_entry                              *)
Fails(m, l) == Answers(m, l) /\ m.err \notin {"Ok", "END"} /\ m.rd = l.rd
Delivers(m, l, len) ==
  /\ Answers(m, l) /\ m.err = "Ok" /\ len \in 1..MaxEntry
  /\ m.rd = l.rd + 1 + len /\ m.got = PayloadAt(l, l.rd + 1, len)
Refetches(m, l, len) ==
  /\ Fetches(m, l, logical_page_of_pos(l.rd)) /\ m.rd = l.rd /\ len \in 1..MaxEntry
  /\ ~Cached(l, l.rd + 1) \/ ((l.rd + 1) % PageSize) + len > PageSize

LEMMA DeliverOutcome ==
  ASSUME NEW l \in Rams, Quiet(l), NEW g \in Garbage,
         l.rd % PageSize > 0, LenAt(l, l.rd, g) # PAD.len
  PROVE  LET m == deliver_current_entry(l, g)
             len == LenAt(l, l.rd, g)
         IN /\ m \in Rams /\ SameButCache(m, l)
            /\ Fails(m, l) \/ Delivers(m, l, len) \/ Refetches(m, l, len)
<1> DEFINE m   == deliver_current_entry(l, g)
           len == LenAt(l, l.rd, g)
           pos == l.rd + 1
<1>0. l.rd \in Nat /\ pos \in Nat /\ "FAIL" \in Errs /\ "SIZE" \in Errs /\ "Ok" \in Errs /\ 0 \in Nat
  BY DEF Rams, Errs
<1>1. len \in Int /\ len >= 0
  <2>1. len \in Int /\ len >= -1 /\ len # -1
    BY <1>0, LenAtType DEF PAD
  <2> HIDE DEF len
  <2> QED
    BY <2>1
<1>2. MaxEntry \in Int
  BY Sizes DEF MaxEntry, PAGE_HEADER_SIZE, ENTRY_HEADER_SIZE
<1>3. CASE len = 0 \/ len > MaxEntry
  <2>1. m = Finish(l, "FAIL", 0)
    BY <1>3 DEF deliver_current_entry
  <2> HIDE DEF m, len
  <2>2. Answers(m, l) /\ m.err = "FAIL" /\ m.rd = l.rd /\ m \in Rams /\ SameButCache(m, l)
    BY <1>0, <2>1, FinishAnswers
  <2>3. Fails(m, l)
    BY <2>2 DEF Fails
  <2> QED
    BY <2>2, <2>3 DEF m
<1>4. CASE ~(len = 0 \/ len > MaxEntry) /\ len > l.req.len
  <2>1. m = Finish(l, "SIZE", 0)
    BY <1>4 DEF deliver_current_entry
  <2> HIDE DEF m, len
  <2>2. Answers(m, l) /\ m.err = "SIZE" /\ m.rd = l.rd /\ m \in Rams /\ SameButCache(m, l)
    BY <1>0, <2>1, FinishAnswers
  <2>3. Fails(m, l)
    BY <2>2 DEF Fails
  <2> QED
    BY <2>2, <2>3 DEF m
<1>5. CASE /\ ~(len = 0 \/ len > MaxEntry) /\ ~(len > l.req.len)
           /\ ~Cached(l, pos) \/ (pos % PageSize) + len > PageSize
  <2>0. len \in 1..MaxEntry
    BY <1>1, <1>2, <1>5
  <2>1. m = start_read_page(l, logical_page_of_pos(l.rd))
    BY <1>5 DEF deliver_current_entry, ENTRY_HEADER_SIZE
  <2>2. logical_page_of_pos(l.rd) \in Logicals
    BY <1>0, LogicalPageOf
  <2>3. /\ m \in Rams /\ SameButCache(m, l) /\ m.rd = l.rd
        /\ Fetches(m, l, logical_page_of_pos(l.rd)) \/ (Answers(m, l) /\ m.err = "RESERVE")
    BY <2>1, <2>2, StartReadPage
  <2> HIDE DEF m, len, pos
  <2>4. Fails(m, l) \/ Refetches(m, l, len)
    BY <1>5, <2>0, <2>3 DEF Fails, Refetches, pos
  <2> QED
    BY <2>3, <2>4 DEF m, len
<1>6. CASE ~(len = 0 \/ len > MaxEntry) /\ ~(len > l.req.len)
           /\ ~(~Cached(l, pos) \/ (pos % PageSize) + len > PageSize)
  <2>0. len \in 1..MaxEntry
    BY <1>1, <1>2, <1>6
  <2>1. m = Finish([l EXCEPT !.rd = pos + len], "Ok", PayloadAt(l, pos, len))
    BY <1>6 DEF deliver_current_entry, ENTRY_HEADER_SIZE
  <2>2. PICK k \in Rams : k = [l EXCEPT !.rd = pos + len]
    <3>1. pos + len \in Nat
      BY <1>0, <2>0
    <3> HIDE DEF pos, len
    <3> QED
      BY <3>1 DEF Rams
  <2>3. k.io = l.io /\ k.deferred = l.deferred /\ SameCache(k, l) /\ SameButCache(k, l) /\ k.rd = pos + len
    <3> HIDE DEF pos, len
    <3> QED
      BY <2>2 DEF Rams, SameCache, SameButCache, SameStore, SameScan, SameTask
  <2>4. PayloadAt(l, pos, len) \in Nat
    BY <1>0, PayloadType
  <2> HIDE DEF m, len, pos
  <2>5. m \in Rams /\ Answers(m, k) /\ m.err = "Ok" /\ m.got = PayloadAt(l, pos, len)
        /\ SameButCache(m, k) /\ m.rd = k.rd
    <3>1. Quiet(k)
      BY <2>3 DEF Quiet
    <3>2. m = Finish(k, "Ok", PayloadAt(l, pos, len))
      BY <2>1, <2>2
    <3> QED
      BY <1>0, <2>4, <3>1, <3>2, FinishAnswers
  <2>6. SameButCache(m, l) /\ Answers(m, l)
    BY <2>3, <2>5 DEF SameButCache, SameStore, SameScan, SameTask, SameCache, Answers
  <2>7. Delivers(m, l, len)
    BY <2>0, <2>3, <2>5, <2>6 DEF Delivers, pos
  <2> QED
    BY <2>5, <2>6, <2>7 DEF m, len
<1> QED
  BY <1>3, <1>4, <1>5, <1>6

Places(l) == {l.rd} \cup {e \in l.rd..(l.app + PageSize) : e % PageSize = PAGE_HEADER_SIZE}
Skipped(l, g, e) ==
  e < l.app /\ (e % PageSize = 0 \/ (Cached(l, e) /\ LenAt(l, e, g) = PAD.len))

(* Where the read pointer stops: the first place that is not skipped        *)
Stop(l, g, e) ==
  e \in Places(l) /\ ~Skipped(l, g, e) /\ \A f \in Places(l) : f < e => Skipped(l, g, f)

LEMMA StopExists ==
  ASSUME NEW l \in Rams, NEW g \in Garbage
  PROVE  (\E e : Stop(l, g, e)) /\ Places(l) \subseteq Nat
<1>0. l.rd \in Nat /\ l.app \in Nat
  BY DEF Rams
<1>1. Places(l) \subseteq Nat
  BY <1>0, Sizes DEF Places
<1>2. \E e \in Places(l) : ~Skipped(l, g, e)
  <2>1. CASE l.rd >= l.app
    <3>1. l.rd \in Places(l) /\ ~(l.rd < l.app)
      BY <1>0, <2>1 DEF Places
    <3> QED
      BY <3>1 DEF Skipped
  <2>2. CASE l.rd < l.app
    <3>1. PICK k \in Nat, o \in Offsets : l.app = k * PageSize + o /\ k * PageSize \in Nat
      BY <1>0, Position
    <3>2. CASE o <= 1
      <4>0. 1 \in Offsets /\ k \in Int /\ k + 1 \in Int
        BY Sizes DEF Offsets
      <4>1. PICK e \in Nat : e = k * PageSize + 1
        BY <3>1
      <4>2. e % PageSize = 1
        BY <4>0, <4>1, PositionUnique
      <4>3. e \in l.rd..(l.app + PageSize) /\ ~(e < l.app)
        BY <1>0, <2>2, <3>1, <3>2, <4>1, Sizes DEF Offsets
      <4>4. e \in Places(l)
        BY <4>2, <4>3 DEF Places, PAGE_HEADER_SIZE
      <4> QED
        BY <4>3, <4>4 DEF Skipped
    <3>3. CASE o > 1
      <4>0. 1 \in Offsets /\ k \in Int /\ k + 1 \in Int
        BY Sizes DEF Offsets
      <4>1. PICK e \in Nat : e = (k + 1) * PageSize + 1
        BY <3>1, Sizes
      <4>2. e % PageSize = 1
        BY <4>0, <4>1, PositionUnique
      <4>3. (k + 1) * PageSize = k * PageSize + PageSize
        BY Sizes
      <4>4. e \in l.rd..(l.app + PageSize) /\ ~(e < l.app)
        BY <1>0, <2>2, <3>1, <3>3, <4>1, <4>3, Sizes DEF Offsets
      <4>5. e \in Places(l)
        BY <4>2, <4>4 DEF Places, PAGE_HEADER_SIZE
      <4> QED
        BY <4>4, <4>5 DEF Skipped
    <3> QED
      BY <3>2, <3>3 DEF Offsets
  <2> QED
    BY <1>0, <2>1, <2>2
<1>3. PICK T : T = {e \in Places(l) : ~Skipped(l, g, e)}
  OBVIOUS
<1>4. T \subseteq Nat /\ T # {}
  BY <1>1, <1>2, <1>3
<1>5. PICK x \in T : \A y \in T : x <= y
  BY <1>4, HasLeast
<1>6. Stop(l, g, x)
  <2>1. \A f \in Places(l) : f < x => f \notin T
    BY <1>1, <1>4, <1>5
  <2> QED
    BY <1>3, <1>5, <2>1 DEF Stop
<1> QED
  BY <1>1, <1>6

LEMMA AdvanceOutcome ==
  ASSUME NEW l \in Rams, Quiet(l), NEW g \in Garbage
  PROVE  LET m == advance_read_pointer_then_deliver(l, g) IN
         /\ m \in Rams /\ SameButCache(m, l)
         /\ \E e \in Nat :
              LET n   == [l EXCEPT !.rd = e]
                  len == LenAt(n, e, g)
              IN /\ Stop(l, g, e) /\ n \in Rams
                 /\ \/ e >= l.app /\ Answers(m, n) /\ m.err = "END" /\ m.rd = e
                    \/ e < l.app /\ Fails(m, n)
                    \/ /\ e < l.app /\ ~Cached(n, e) /\ m.rd = e
                       /\ Fetches(m, n, logical_page_of_pos(e))
                    \/ /\ e < l.app /\ Cached(n, e) /\ e % PageSize > 0 /\ len # PAD.len
                       /\ Delivers(m, n, len) \/ Refetches(m, n, len)
<1> DEFINE m == advance_read_pointer_then_deliver(l, g)
           e == CHOOSE x \in Places(l) :
                  ~Skipped(l, g, x) /\ \A f \in Places(l) : f < x => Skipped(l, g, f)
           n == [l EXCEPT !.rd = e]
           len == LenAt(n, e, g)
<1>1. Stop(l, g, e) /\ e \in Nat
  <2>1. \E x \in Places(l) : ~Skipped(l, g, x) /\ \A f \in Places(l) : f < x => Skipped(l, g, f)
    BY StopExists DEF Stop
  <2>2. Stop(l, g, e)
    BY <2>1 DEF Stop
  <2> QED
    BY <2>2, StopExists DEF Stop
<1>2. m = IF n.rd >= n.app THEN Finish(n, "END", 0)
          ELSE IF Cached(n, n.rd) THEN deliver_current_entry(n, g)
          ELSE start_read_page(n, logical_page_of_pos(n.rd))
  BY DEF advance_read_pointer_then_deliver, Places, Skipped
<1> HIDE DEF e, m
<1>3. n \in Rams /\ n.rd = e /\ n.app = l.app /\ SameButCache(n, l) /\ SameCache(n, l) /\ Quiet(n)
  BY <1>1 DEF Rams, SameCache, SameButCache, SameStore, SameScan, SameTask, Quiet
<1> HIDE DEF n
<1>4. ASSUME NEW k, SameButCache(k, n) PROVE SameButCache(k, l)
  BY <1>3, <1>4 DEF SameButCache, SameStore, SameScan, SameTask
<1>5. l.app \in Nat /\ l.rd \in Nat /\ "END" \in Errs /\ 0 \in Nat
  BY DEF Rams, Errs
<1>6. CASE e >= l.app
  <2>1. m = Finish(n, "END", 0)
    BY <1>2, <1>3, <1>6
  <2>2. m \in Rams /\ Answers(m, n) /\ m.err = "END" /\ m.rd = e /\ SameButCache(m, n)
    BY <1>3, <1>5, <2>1, FinishFields DEF Answers, SameButCache, Quiet
  <2> QED
    BY <1>1, <1>3, <1>4, <1>6, <2>2 DEF m, n
<1>7. CASE e < l.app /\ Cached(n, e)
  <2>1. m = deliver_current_entry(n, g)
    BY <1>1, <1>2, <1>3, <1>5, <1>7
  <2>2. e % PageSize > 0
    <3>1. e % PageSize # 0
      BY <1>1, <1>7 DEF Stop, Skipped
    <3>2. e % PageSize \in Offsets
      BY <1>1, Position
    <3> QED
      BY <3>1, <3>2, Sizes DEF Offsets
  <2>3. Cached(l, e) /\ LenAt(l, e, g) = LenAt(n, e, g)
    BY <1>3, <1>7 DEF Cached, LenAt, CellAt, SameCache, SameButCache, SameStore
  <2>4. LenAt(n, e, g) # PAD.len
    BY <1>1, <1>7, <2>3 DEF Stop, Skipped
  <2>5. /\ m \in Rams /\ SameButCache(m, n)
        /\ Fails(m, n) \/ Delivers(m, n, len) \/ Refetches(m, n, len)
    BY <1>3, <2>1, <2>2, <2>4, DeliverOutcome
  <2> QED
    BY <1>1, <1>3, <1>4, <1>7, <2>2, <2>4, <2>5 DEF m, n
<1>8. CASE e < l.app /\ ~Cached(n, e)
  <2>1. m = start_read_page(n, logical_page_of_pos(e))
    BY <1>1, <1>2, <1>3, <1>5, <1>8
  <2>2. logical_page_of_pos(e) \in Logicals
    BY <1>1, LogicalPageOf
  <2>3. /\ m \in Rams /\ SameButCache(m, n) /\ m.rd = e
        /\ Fetches(m, n, logical_page_of_pos(e)) \/ (Answers(m, n) /\ m.err = "RESERVE")
    BY <1>3, <2>1, <2>2, StartReadPage
  <2>4. Fetches(m, n, logical_page_of_pos(e)) \/ Fails(m, n)
    BY <1>3, <2>3 DEF Fails
  <2> QED
    BY <1>1, <1>3, <1>4, <1>8, <2>3, <2>4 DEF m, n
<1> QED
  BY <1>1, <1>5, <1>6, <1>7, <1>8
-----------------------------------------------------------------------------
(* What appending, flushing and erasing do to the record *)

LEMMA AppendFields ==
  ASSUME NEW l \in Rams, l.req.op = "append"
  PROVE  LET m == append_to_pagebuffer(l) IN
         /\ m \in Rams /\ m.deferred /\ m.io = l.io
         /\ m.err = "Ok" /\ m.got = 0 /\ m.rd = l.rd /\ m.oldest = l.oldest
         /\ SameScan(m, l) /\ SameCache(m, l) /\ SameTask(m, l)
         /\ m.pbuf = WithEntry(l.pbuf, l.app % PageSize, l.req)
         /\ m.app = l.app + 1 + l.req.len
         /\ m.pbPage = logical_page_of_pos(l.app + l.req.len)
<1>1. l.app \in Nat /\ l.pbuf \in Sheets /\ l.req \in AllRequests /\ l.oldest \in Nat
  BY DEF Rams
<1>2. l.req.len \in Lens /\ l.req.tag \in 1..MaxEntries
  BY <1>1, RequestFields
<1>3. l.req.len \in Nat
  BY <1>2, ClientAssumption
<1>4. PICK end \in Nat : end = l.app + 1 + l.req.len /\ end - 1 = l.app + l.req.len
  BY <1>1, <1>3
<1>5. PICK b \in Sheets : b = WithEntry(l.pbuf, l.app % PageSize, l.req)
  BY <1>1, <1>2, WithEntryType
<1>6. PICK p \in Labels : p = logical_page_of_pos(end - 1)
  <2>1. end - 1 \in Int
    OBVIOUS
  <2> QED
    BY <2>1, LabelOf DEF Labels
<1>7. PICK t \in BOOLEAN : t = (l.oldest # PAGE_HEADER_SIZE)
  OBVIOUS
<1>8. PICK k : k = [l EXCEPT !.pbuf = b, !.app = end, !.pbPage = p, !.lost = t]
  OBVIOUS
<1>9. append_to_pagebuffer(l) = Finish(k, "Ok", 0)
  BY <1>4, <1>5, <1>6, <1>7, <1>8 DEF append_to_pagebuffer, ENTRY_HEADER_SIZE
<1>10. /\ k \in Rams /\ k.io = l.io /\ k.rd = l.rd /\ k.oldest = l.oldest
       /\ SameScan(k, l) /\ SameCache(k, l) /\ SameTask(k, l)
       /\ k.pbuf = b /\ k.app = end /\ k.pbPage = p
  BY <1>8 DEF Rams, SameScan, SameCache, SameTask
<1>11. "Ok" \in Errs /\ 0 \in Nat
  BY DEF Errs
<1>12. PICK m : m = Finish(k, "Ok", 0)
  OBVIOUS
<1>13. /\ m \in Rams /\ m.deferred /\ m.io = k.io /\ m.err = "Ok" /\ m.got = 0
       /\ SameStore(m, k) /\ SameScan(m, k) /\ SameCache(m, k) /\ SameTask(m, k)
       /\ m.rd = k.rd /\ m.pbPage = k.pbPage
  BY <1>10, <1>11, <1>12, FinishFields
<1>14. m = append_to_pagebuffer(l)
  BY <1>9, <1>12
<1>15. /\ SameScan(m, l) /\ SameCache(m, l) /\ SameTask(m, l)
       /\ m.pbuf = b /\ m.app = end /\ m.pbPage = p /\ m.oldest = l.oldest /\ m.rd = l.rd /\ m.io = l.io
  BY <1>10, <1>13 DEF SameStore, SameScan, SameCache, SameTask
<1> QED
  BY <1>4, <1>5, <1>6, <1>13, <1>14, <1>15

(* The page that ends at padPtr is written over the page of one lap before  *)
Overwrites(l, id) ==
  RoundUp(l.app) > Volume /\ id \div PageSize = (RoundUp(l.app) - Volume - PageSize) \div PageSize

LEMMA FlushFields ==
  ASSUME NEW l \in Rams
  PROVE  LET m == flush_pagebuffer(l)
             padPtr == RoundUp(l.app)
         IN /\ m \in Rams /\ m.deferred = l.deferred
            /\ m.io = [op |-> "write", page |-> logical_page_of_pos(padPtr - PageSize)]
            /\ m.io.page \in Logicals /\ m.io # NoIO
            /\ SameScan(m, l) /\ SameTask(m, l) /\ m.app = l.app /\ m.pbPage = l.pbPage
            /\ m.rbuf = l.rbuf /\ m.rbHere = l.rbHere
            /\ m.pbuf = IF padPtr = l.app THEN l.pbuf ELSE PaddedFrom(l.pbuf, l.app % PageSize)
            /\ m.oldest = IF Overwrites(l, l.oldest) THEN l.oldest + PageSize ELSE l.oldest
            /\ padPtr <= Volume => m.rd = l.rd /\ m.rbPage = l.rbPage
            /\ padPtr > Volume =>
                 m.rbPage = IF l.rbPage = logical_page_of_pos(padPtr - Volume - PageSize)
                            THEN NONE ELSE l.rbPage
<1> DEFINE padPtr == RoundUp(l.app)
           over   == padPtr - Volume - PageSize
<1>1. l.app \in Nat /\ l.pbuf \in Sheets /\ l.oldest \in Nat /\ l.rd \in Nat /\ l.rbPage \in Labels
  BY DEF Rams
<1>2. padPtr \in Nat /\ padPtr - PageSize \in Int /\ over \in Int
  BY <1>1, RoundUpType, Sizes, VolumeType
<1>3. PICK i \in IOs : /\ i = [op |-> "write", page |-> logical_page_of_pos(padPtr - PageSize)]
                       /\ i # NoIO /\ i.page \in Logicals
  <2>1. PICK p \in Logicals : p = logical_page_of_pos(padPtr - PageSize)
    BY <1>2, LabelOf
  <2>2. [op |-> "write", page |-> p] \in IOs /\ [op |-> "write", page |-> p] # NoIO
    BY IOFields
  <2> QED
    BY <2>1, <2>2
<1> HIDE DEF padPtr, over
<1>4. PICK b \in Sheets : b = IF padPtr = l.app THEN l.pbuf ELSE PaddedFrom(l.pbuf, l.app % PageSize)
  BY <1>1, PaddedType
<1>5. PICK k : k = IF padPtr = l.app THEN l ELSE [l EXCEPT !.pbuf = PaddedFrom(@, l.app % PageSize)]
  OBVIOUS
<1>6. k \in Rams /\ k = [l EXCEPT !.pbuf = b]
  <2>1. k = [l EXCEPT !.pbuf = b]
    BY <1>4, <1>5 DEF Rams
  <2> QED
    BY <2>1 DEF Rams
<1>7. flush_pagebuffer(l) = [LeaveOverwritten(k, padPtr) EXCEPT !.io = i]
  BY <1>3, <1>5 DEF flush_pagebuffer, padPtr
<1>8. CASE padPtr <= Volume
  <2>1. flush_pagebuffer(l) = [k EXCEPT !.io = i]
    BY <1>7, <1>8 DEF LeaveOverwritten
  <2>2. PICK m : m = [k EXCEPT !.io = i]
    OBVIOUS
  <2>3. m = flush_pagebuffer(l)
    BY <2>1, <2>2
  <2>4. /\ m \in Rams /\ m.deferred = l.deferred /\ m.io = i
        /\ SameScan(m, l) /\ SameTask(m, l) /\ m.app = l.app /\ m.pbPage = l.pbPage
        /\ m.rbuf = l.rbuf /\ m.rbHere = l.rbHere /\ m.pbuf = b
        /\ m.oldest = l.oldest /\ m.rd = l.rd /\ m.rbPage = l.rbPage
    BY <1>6, <2>2 DEF Rams, SameScan, SameTask
  <2>5. ~(padPtr > Volume)
    BY <1>2, <1>8, VolumeType
  <2> QED
    BY <1>3, <1>4, <2>3, <2>4, <2>5 DEF Overwrites, padPtr
<1>9. CASE ~(padPtr <= Volume)
  <2>1. PICK r \in Nat : r = IF k.rd \div PageSize = over \div PageSize
                             THEN k.rd + PageSize + PAGE_HEADER_SIZE - (k.rd % PageSize) ELSE k.rd
    <3>1. k.rd \in Nat
      BY <1>6 DEF Rams
    <3>2. k.rd % PageSize \in Offsets
      BY <3>1, Position
    <3>3. k.rd + PageSize + PAGE_HEADER_SIZE - (k.rd % PageSize) \in Nat
      BY <3>1, <3>2, Sizes DEF Offsets, PAGE_HEADER_SIZE
    <3> QED
      BY <3>1, <3>3
  <2>2. k.oldest = l.oldest /\ k.rbPage = l.rbPage /\ k.oldest \in Nat
    BY <1>6 DEF Rams
  <2>3. PICK d \in Nat : d = IF k.oldest \div PageSize = over \div PageSize
                             THEN k.oldest + PageSize ELSE k.oldest
    BY <2>2, Sizes
  <2>4. PICK c \in Labels : c = IF k.rbPage = logical_page_of_pos(over) THEN NONE ELSE k.rbPage
    BY <1>1, <2>2 DEF Labels
  <2>5. PICK n : n = [k EXCEPT !.rd = r, !.oldest = d, !.rbPage = c]
    OBVIOUS
  <2>6. LeaveOverwritten(k, padPtr) = n
    BY <1>9, <2>1, <2>3, <2>4, <2>5 DEF LeaveOverwritten, over
  <2>7. PICK m : m = [n EXCEPT !.io = i]
    OBVIOUS
  <2>8. m = flush_pagebuffer(l)
    BY <1>7, <2>6, <2>7
  <2>9. /\ m \in Rams /\ m.deferred = l.deferred /\ m.io = i
        /\ SameScan(m, l) /\ SameTask(m, l) /\ m.app = l.app /\ m.pbPage = l.pbPage
        /\ m.rbuf = l.rbuf /\ m.rbHere = l.rbHere /\ m.pbuf = b
        /\ m.oldest = d /\ m.rbPage = c
    BY <1>6, <2>5, <2>7 DEF Rams, SameScan, SameTask
  <2>10. padPtr > Volume
    BY <1>2, <1>9, VolumeType
  <2> QED
    BY <1>3, <1>4, <1>9, <2>2, <2>3, <2>4, <2>8, <2>9, <2>10 DEF Overwrites, padPtr, over
<1> QED
  BY <1>8, <1>9

LEMMA EraseFields ==
  ASSUME NEW l \in Rams
  PROVE  LET m == erase_oldest_page(l)
             p == logical_page_of_pos(l.oldest)
         IN /\ m \in Rams /\ m.deferred = l.deferred /\ m.io = [op |-> "erase", page |-> p]
            /\ m.io.page \in Logicals /\ m.io # NoIO
            /\ SameStore(m, l) /\ SameScan(m, l) /\ SameTask(m, l) /\ m.rd = l.rd
            /\ m.rbuf = l.rbuf /\ m.rbHere = l.rbHere
            /\ m.rbPage = IF l.rbPage = p THEN NONE ELSE l.rbPage
            /\ m.pbPage = IF l.pbPage = p THEN NONE ELSE l.pbPage
<1>1. l.oldest \in Nat /\ l.rbPage \in Labels /\ l.pbPage \in Labels
  BY DEF Rams
<1>2. PICK p \in Logicals : p = logical_page_of_pos(l.oldest)
  BY <1>1, LabelOf
<1>3. PICK i \in IOs : i = [op |-> "erase", page |-> p] /\ i # NoIO /\ i.page = p
  BY IOFields
<1>4. PICK c \in Labels, d \in Labels : /\ c = IF l.rbPage = p THEN NONE ELSE l.rbPage
                                        /\ d = IF l.pbPage = p THEN NONE ELSE l.pbPage
  BY <1>1 DEF Labels
<1>5. PICK m : m = [l EXCEPT !.rbPage = c, !.pbPage = d, !.io = i]
  OBVIOUS
<1>6. m = erase_oldest_page(l)
  BY <1>2, <1>3, <1>4, <1>5 DEF erase_oldest_page
<1>7. /\ m \in Rams /\ m.deferred = l.deferred /\ m.io = i /\ m.rbPage = c /\ m.pbPage = d
      /\ SameStore(m, l) /\ SameScan(m, l) /\ SameTask(m, l) /\ m.rd = l.rd
      /\ m.rbuf = l.rbuf /\ m.rbHere = l.rbHere
  BY <1>5 DEF Rams, SameStore, SameScan, SameTask
<1> QED
  BY <1>2, <1>3, <1>4, <1>6, <1>7
(* The record with request o being served                                   *)
Task(l, o, s) == [l EXCEPT !.req = o, !.state = s]

LEMMA TaskFields ==
  ASSUME NEW l \in Rams, NEW o \in AllRequests, NEW s \in States
  PROVE  LET m == Task(l, o, s) IN
         /\ m \in Rams /\ m.req = o /\ m.state = s
         /\ SameStore(m, l) /\ SameScan(m, l) /\ SameCache(m, l)
         /\ m.rd = l.rd /\ m.pbPage = l.pbPage /\ m.lost = l.lost
         /\ m.io = l.io /\ m.deferred = l.deferred
         /\ m.flushing = l.flushing /\ m.pending = l.pending
  BY DEF Task, Rams, SameStore, SameScan, SameCache

LEMMA StateNames ==
  /\ "NotReady" \in States /\ "Reconstructing" \in States /\ "Idle" \in States
  /\ "Reading" \in States /\ "Seeking" \in States /\ "Appending" \in States
  /\ "Syncing" \in States /\ "Erasing" \in States
  BY DEF States

LEMMA StartRead ==
  ASSUME NEW l \in Rams, NEW o \in AllRequests, o.op = "read", NEW g
  PROVE  start(l, o, g) = advance_read_pointer_then_deliver(Task(l, o, "Reading"), g)
  BY DEF start, Task

LEMMA StartSeek ==
  ASSUME NEW l \in Rams, NEW o \in AllRequests, o.op = "seek", NEW g
  PROVE  LET m == start(l, o, g) IN
         /\ m \in Rams /\ m.req = o /\ m.state = "Seeking" /\ m.deferred /\ m.io = l.io
         /\ SameStore(m, l) /\ SameScan(m, l) /\ SameCache(m, l) /\ m.rd = o.at /\ m.pbPage = l.pbPage
<1>1. o.at \in Nat
  BY RequestFields
<1>2. PICK k : k = [[l EXCEPT !.req = o] EXCEPT !.rd = o.at, !.state = "Seeking"]
  OBVIOUS
<1>3. /\ k \in Rams /\ k.req = o /\ k.state = "Seeking" /\ k.io = l.io /\ k.rd = o.at /\ k.pbPage = l.pbPage
      /\ SameStore(k, l) /\ SameScan(k, l) /\ SameCache(k, l)
  BY <1>1, <1>2, StateNames DEF Rams, SameStore, SameScan, SameCache
<1>4. [l EXCEPT !.req = o].req = o
  BY DEF Rams
<1>5. start(l, o, g) = start_seek([l EXCEPT !.req = o])
  BY DEF start
<1>6. start(l, o, g) = Finish(k, "Ok", 0)
  BY <1>2, <1>4, <1>5 DEF start_seek
<1>7. PICK m : m = Finish(k, "Ok", 0)
  OBVIOUS
<1>8. "Ok" \in Errs /\ 0 \in Nat
  BY DEF Errs
<1>9. /\ m \in Rams /\ m.deferred /\ m.io = k.io
      /\ SameStore(m, k) /\ SameScan(m, k) /\ SameCache(m, k) /\ SameTask(m, k)
      /\ m.rd = k.rd /\ m.pbPage = k.pbPage
  BY <1>3, <1>7, <1>8, FinishFields
<1>10. m = start(l, o, g)
  BY <1>6, <1>7
<1>11. /\ SameStore(m, l) /\ SameScan(m, l) /\ SameCache(m, l) /\ m.rd = o.at /\ m.pbPage = l.pbPage
       /\ m.req = o /\ m.state = "Seeking" /\ m.io = l.io
  BY <1>3, <1>9 DEF SameStore, SameScan, SameCache, SameTask
<1> QED
  BY <1>9, <1>10, <1>11

Fits(l, o) == l.app % PageSize # 0 /\ 1 + o.len <= PageSize - (l.app % PageSize)

LEMMA StartAppend ==
  ASSUME NEW l \in Rams, NEW o \in AllRequests, o.op = "append", NEW g
  PROVE  /\ Fits(l, o) => start(l, o, g) = append_to_pagebuffer(Task(l, o, "Appending"))
         /\ ~Fits(l, o) => \E f \in Rams :
              /\ start(l, o, g) = flush_pagebuffer(f)
              /\ SameStore(f, l) /\ SameScan(f, l) /\ SameCache(f, l)
              /\ f.rd = l.rd /\ f.pbPage = l.pbPage /\ f.io = l.io /\ f.deferred = l.deferred
              /\ f.req = o /\ f.state = "Appending" /\ f.flushing
<1> DEFINE k == [l EXCEPT !.req = o]
<1>1. start(l, o, g) = start_append(k)
  BY DEF start
<1>2. k.app = l.app /\ k.req = o
  BY DEF Rams
<1>3. [k EXCEPT !.state = "Appending"] = Task(l, o, "Appending")
  BY DEF Task
<1> HIDE DEF k
<1>4. start_append(k) = IF Fits(l, o) THEN append_to_pagebuffer(Task(l, o, "Appending"))
                        ELSE flush_pagebuffer([Task(l, o, "Appending") EXCEPT !.flushing = TRUE])
  BY <1>2, <1>3 DEF start_append, Fits, ENTRY_HEADER_SIZE
<1>5. PICK f : f = [Task(l, o, "Appending") EXCEPT !.flushing = TRUE]
  OBVIOUS
<1>6. PICK t : t = Task(l, o, "Appending")
  OBVIOUS
<1>7. /\ t \in Rams /\ t.req = o /\ t.state = "Appending"
      /\ SameStore(t, l) /\ SameScan(t, l) /\ SameCache(t, l)
      /\ t.rd = l.rd /\ t.pbPage = l.pbPage /\ t.io = l.io /\ t.deferred = l.deferred
  <2>1. "Appending" \in States
    BY StateNames
  <2> QED
    BY <1>6, <2>1, TaskFields
<1>8. f = [t EXCEPT !.flushing = TRUE]
  BY <1>5, <1>6
<1>9. /\ f \in Rams /\ f.req = t.req /\ f.state = t.state /\ f.flushing
      /\ SameStore(f, t) /\ SameScan(f, t) /\ SameCache(f, t)
      /\ f.rd = t.rd /\ f.pbPage = t.pbPage /\ f.io = t.io /\ f.deferred = t.deferred
  BY <1>7, <1>8 DEF Rams, SameStore, SameScan, SameCache
<1>10. /\ SameStore(f, l) /\ SameScan(f, l) /\ SameCache(f, l)
       /\ f.rd = l.rd /\ f.pbPage = l.pbPage /\ f.io = l.io /\ f.deferred = l.deferred
       /\ f.req = o /\ f.state = "Appending"
  BY <1>7, <1>9 DEF SameStore, SameScan, SameCache
<1> QED
  BY <1>1, <1>4, <1>5, <1>9, <1>10

LEMMA StartSync ==
  ASSUME NEW l \in Rams, NEW o \in AllRequests, o.op = "sync", NEW g
  PROVE  /\ l.app % PageSize = 1 => start(l, o, g) = Finish(Task(l, o, "Syncing"), "Ok", 0)
         /\ l.app % PageSize # 1 => start(l, o, g) = flush_pagebuffer(Task(l, o, "Syncing"))
<1> DEFINE k == [l EXCEPT !.req = o]
<1>1. start(l, o, g) = start_sync(k)
  BY DEF start
<1>2. k.app = l.app /\ k.req = o
  BY DEF Rams
<1>3. [k EXCEPT !.state = "Syncing"] = Task(l, o, "Syncing")
  BY DEF Task
<1> HIDE DEF k
<1> QED
  BY <1>1, <1>2, <1>3 DEF start_sync, PAGE_HEADER_SIZE

LEMMA StartErase ==
  ASSUME NEW l \in Rams, NEW o \in AllRequests, o.op = "erase", NEW g
  PROVE  \/ /\ start(l, o, g) = Finish(Task(l, o, "Erasing"), "Ok", 0)
            /\ l.oldest = l.app /\ ~l.lost
         \/ start(l, o, g) = erase_oldest_page(Task(l, o, "Erasing"))
<1> DEFINE k == [l EXCEPT !.req = o]
<1>1. start(l, o, g) = start_erase(k)
  BY DEF start
<1>2. k.app = l.app /\ k.oldest = l.oldest /\ k.lost = l.lost
  BY DEF Rams
<1>3. [k EXCEPT !.state = "Erasing"] = Task(l, o, "Erasing")
  BY DEF Task
<1> HIDE DEF k
<1> QED
  BY <1>1, <1>2, <1>3 DEF start_erase

(* The page buffer that begins after a full or padded one                   *)
LEMMA NextPageFields ==
  ASSUME NEW l \in Rams
  PROVE  LET m == reset_pagebuffer(l) IN
         /\ m \in Rams /\ m.io = l.io /\ m.deferred = l.deferred /\ m.oldest = l.oldest /\ m.rd = l.rd
         /\ SameScan(m, l) /\ SameCache(m, l) /\ SameTask(m, l)
         /\ IF ~Circular /\ l.app + PageSize > Volume
            THEN m = l
            ELSE /\ m.pbuf = Fresh(RoundUp(l.app)) /\ m.app = RoundUp(l.app) + 1
                 /\ m.pbPage = logical_page_of_pos(RoundUp(l.app))
<1>1. CASE ~Circular /\ l.app + PageSize > Volume
  BY <1>1 DEF reset_pagebuffer, SameScan, SameCache, SameTask
<1>2. CASE ~(~Circular /\ l.app + PageSize > Volume)
  <2>1. PICK id \in Nat : id = RoundUp(l.app)
    BY RoundUpType DEF Rams
  <2>2. PICK b \in Sheets : b = Fresh(id)
    BY FreshType
  <2>3. PICK p \in Labels : p = logical_page_of_pos(id)
    BY LabelOf DEF Labels
  <2>4. PICK a \in Nat : a = id + 1
    OBVIOUS
  <2>5. PICK m : m = [l EXCEPT !.pbuf = b, !.app = a, !.pbPage = p]
    OBVIOUS
  <2>6. m = reset_pagebuffer(l)
    BY <1>2, <2>1, <2>2, <2>3, <2>4, <2>5 DEF reset_pagebuffer, PAGE_HEADER_SIZE
  <2>7. /\ m \in Rams /\ m.io = l.io /\ m.deferred = l.deferred /\ m.oldest = l.oldest /\ m.rd = l.rd
        /\ SameScan(m, l) /\ SameCache(m, l) /\ SameTask(m, l)
        /\ m.pbuf = b /\ m.app = a /\ m.pbPage = p
    BY <2>5 DEF Rams, SameScan, SameCache, SameTask
  <2> QED
    BY <1>2, <2>1, <2>2, <2>3, <2>4, <2>6, <2>7
<1> QED
  BY <1>1, <1>2

LEMMA EmptyFields ==
  ASSUME NEW l \in Rams
  PROVE  LET m == reset_state_empty(l) IN
         /\ m \in Rams /\ m.io = l.io /\ m.deferred = l.deferred
         /\ SameScan(m, l) /\ SameTask(m, l) /\ m.rbuf = l.rbuf /\ m.rbHere = l.rbHere
         /\ m.oldest = 1 /\ m.rd = 1 /\ m.app = 1 /\ m.pbuf = Fresh(1) /\ m.pbPage = 0 /\ m.rbPage = NONE
<1>1. 0 \in Labels /\ NONE \in Labels /\ 1 \in Nat
  BY Sizes DEF Labels, Logicals
<1>2. PICK b \in Sheets : b = Fresh(1)
  BY FreshType
<1>3. reset_state_empty(l) = [l EXCEPT !.oldest = 1, !.rd = 1, !.app = 1, !.lost = FALSE,
                                       !.pbuf = b, !.pbPage = 0, !.rbPage = NONE]
  BY <1>2 DEF reset_state_empty, PAGE_HEADER_SIZE
<1>4. PICK m : m = reset_state_empty(l)
  OBVIOUS
<1>5. /\ m \in Rams /\ m.io = l.io /\ m.deferred = l.deferred
      /\ SameScan(m, l) /\ SameTask(m, l) /\ m.rbuf = l.rbuf /\ m.rbHere = l.rbHere
      /\ m.oldest = 1 /\ m.rd = 1 /\ m.app = 1 /\ m.pbuf = b /\ m.pbPage = 0 /\ m.rbPage = NONE
  BY <1>1, <1>3, <1>4 DEF Rams, SameScan, SameTask
<1> QED
  BY <1>2, <1>4, <1>5

LEMMA ScanFields ==
  ASSUME NEW l \in Rams, NEW p \in Logicals, NEW page \in Sheets, NEW ok \in BOOLEAN
  PROVE  LET m     == ScanPage(l, p, page, ok)
             id    == page[0].val
             valid == ok /\ ValidHeader(page, p)
         IN /\ m \in Rams /\ m.deferred /\ m.io = l.io /\ SameStore(m, l) /\ SameTask(m, l)
            /\ m.walking = l.walking /\ m.next = p + 1 /\ id \in Nat
            /\ m.recOldest = IF valid /\ (l.recOldest = NONE \/ id < l.recOldest) THEN id ELSE l.recOldest
            /\ m.recNewest = IF valid /\ id > l.recNewest THEN id ELSE l.recNewest
            /\ m.rbuf = page /\ m.rbHere /\ m.rbPage = IF ok THEN p ELSE NONE
            /\ m.pbPage = l.pbPage
<1>1. PICK id \in Nat : id = page[0].val
  <2>1. 0 \in Offsets /\ page \in Pages
    BY Sizes DEF Offsets, Sheets
  <2> QED
    BY <2>1, CellFields
<1>2. PICK c \in Labels : c = IF ok THEN p ELSE NONE
  BY DEF Labels
<1>3. l.recOldest \in Nat \cup {NONE} /\ l.recNewest \in Nat
  BY DEF Rams
<1>4. PICK a \in Nat \cup {NONE}, b \in Nat :
        /\ a = IF (ok /\ ValidHeader(page, p)) /\ (l.recOldest = NONE \/ id < l.recOldest)
               THEN id ELSE l.recOldest
        /\ b = IF (ok /\ ValidHeader(page, p)) /\ id > l.recNewest THEN id ELSE l.recNewest
  BY <1>3
<1>5. PICK n \in (0..NumPages) \cup {NONE} : n = p + 1
  BY Sizes DEF Logicals
<1>6. PICK m : m = [l EXCEPT !.rbuf = page, !.rbPage = c, !.rbHere = TRUE, !.recOldest = a,
                             !.recNewest = b, !.next = n, !.deferred = TRUE]
  OBVIOUS
<1>7. m = ScanPage(l, p, page, ok)
  BY <1>1, <1>2, <1>4, <1>5, <1>6 DEF ScanPage
<1>8. /\ m \in Rams /\ m.deferred /\ m.io = l.io /\ SameStore(m, l) /\ SameTask(m, l)
      /\ m.walking = l.walking /\ m.next = n /\ m.recOldest = a /\ m.recNewest = b
      /\ m.rbuf = page /\ m.rbHere /\ m.rbPage = c /\ m.pbPage = l.pbPage
  BY <1>6 DEF Rams, SameStore, SameTask
<1> QED
  BY <1>1, <1>2, <1>4, <1>5, <1>7, <1>8

LEMMA WalkFields ==
  ASSUME NEW l \in Rams, NEW page \in Sheets, NEW ok \in BOOLEAN, l.recOldest # NONE
  PROVE  LET m   == WalkLastPage(l, page, ok)
             len == IF ok THEN WalkedLen(page) ELSE 1
             new == l.recNewest
         IN /\ m \in Rams /\ m.io = l.io /\ m.deferred = l.deferred
            /\ SameScan(m, l) /\ SameTask(m, l) /\ m.rbHere = l.rbHere
            /\ m.oldest = l.recOldest + 1 /\ m.rd = l.recOldest + 1
            /\ len < PageSize => m.app = new + len /\ m.pbuf = page
            /\ ~(len < PageSize) => m.app = new + PageSize + 1 /\ m.pbuf = Fresh(new + PageSize)
<1>1. l.recOldest \in Nat /\ l.recNewest \in Nat
  BY DEF Rams
<1>2. PICK len \in Nat : len = IF ok THEN WalkedLen(page) ELSE 1
  BY WalkedLenType, Sizes DEF Sheets
<1>3. PICK d \in Nat : d = l.recOldest + 1
  BY <1>1
<1>4. PICK t \in BOOLEAN : t = (l.recOldest # 0)
  OBVIOUS
<1>5. PICK p \in Labels, q \in Labels : /\ p = logical_page_of_pos(l.recNewest)
                                        /\ q = logical_page_of_pos(l.recNewest + PageSize)
  <2>1. l.recNewest \in Int /\ l.recNewest + PageSize \in Int
    BY <1>1, Sizes
  <2> QED
    BY <2>1, LabelOf DEF Labels
<1>6. PICK n : n = [l EXCEPT !.oldest = d, !.rd = d, !.lost = t, !.rbuf = page, !.rbPage = p]
  OBVIOUS
<1>7. /\ n \in Rams /\ n.io = l.io /\ n.deferred = l.deferred /\ SameScan(n, l) /\ SameTask(n, l)
      /\ n.rbHere = l.rbHere /\ n.oldest = d /\ n.rd = d
  BY <1>6 DEF Rams, SameScan, SameTask
<1>8. CASE len < PageSize
  <2>1. PICK a \in Nat : a = l.recNewest + len
    BY <1>1
  <2>2. PICK m : m = [n EXCEPT !.app = a, !.pbuf = page, !.pbPage = p]
    OBVIOUS
  <2>3. m = WalkLastPage(l, page, ok)
    BY <1>2, <1>3, <1>4, <1>5, <1>6, <1>8, <2>1, <2>2 DEF WalkLastPage, PAGE_HEADER_SIZE
  <2>4. /\ m \in Rams /\ m.io = n.io /\ m.deferred = n.deferred /\ SameScan(m, n) /\ SameTask(m, n)
        /\ m.rbHere = n.rbHere /\ m.oldest = n.oldest /\ m.rd = n.rd /\ m.app = a /\ m.pbuf = page
    BY <1>7, <2>2 DEF Rams, SameScan, SameTask
  <2>5. SameScan(m, l) /\ SameTask(m, l)
    BY <1>7, <2>4 DEF SameScan, SameTask
  <2> QED
    BY <1>2, <1>3, <1>7, <1>8, <2>1, <2>3, <2>4, <2>5
<1>9. CASE ~(len < PageSize)
  <2>1. PICK a \in Nat : a = l.recNewest + PageSize + 1
    BY <1>1, Sizes
  <2>2. PICK b \in Sheets : b = Fresh(l.recNewest + PageSize)
    <3>1. l.recNewest + PageSize \in Nat
      BY <1>1, Sizes
    <3> QED
      BY <3>1, FreshType
  <2>3. PICK m : m = [n EXCEPT !.app = a, !.pbuf = b, !.pbPage = q]
    OBVIOUS
  <2>4. m = WalkLastPage(l, page, ok)
    BY <1>2, <1>3, <1>4, <1>5, <1>6, <1>9, <2>1, <2>2, <2>3 DEF WalkLastPage, PAGE_HEADER_SIZE
  <2>5. /\ m \in Rams /\ m.io = n.io /\ m.deferred = n.deferred /\ SameScan(m, n) /\ SameTask(m, n)
        /\ m.rbHere = n.rbHere /\ m.oldest = n.oldest /\ m.rd = n.rd /\ m.app = a /\ m.pbuf = b
    BY <1>7, <2>3 DEF Rams, SameScan, SameTask
  <2>6. SameScan(m, l) /\ SameTask(m, l)
    BY <1>7, <2>5 DEF SameScan, SameTask
  <2> QED
    BY <1>2, <1>3, <1>7, <1>9, <2>1, <2>2, <2>4, <2>5, <2>6
<1> QED
  BY <1>8, <1>9
-----------------------------------------------------------------------------
(* Types and control *)

Working(l) == l.state \notin {"NotReady", "Idle"}

Serves(s, op) ==
  \/ s = "Reading" /\ op = "read"
  \/ s = "Appending" /\ op = "append"
  \/ s = "Seeking" /\ op = "seek"
  \/ s = "Syncing" /\ op = "sync"
  \/ s = "Erasing" /\ op = "erase"

Control(l, ow) ==
  /\ l.io # NoIO => ~l.deferred
  /\ Working(l) => ow # NoOp /\ ow = l.req /\ (l.io # NoIO \/ l.deferred)
  /\ ~Working(l) => l.io = NoIO /\ ~l.deferred
  /\ Working(l) /\ l.state # "Reconstructing" => Serves(l.state, ow.op)
  /\ l.io.op = "read" => l.state \in {"Reconstructing", "Reading"}
  /\ l.io.op = "write" => l.state \in {"Appending", "Syncing"}
  /\ l.io.op = "erase" => l.state = "Erasing"
  /\ l.state = "Reconstructing" => l.next \in 0..NumPages
  /\ l.walking => l.state = "Reconstructing" /\ l.recOldest # NONE

InvType ==
  /\ flash \in [Logicals -> Sheets] /\ ram \in Rams /\ owed \in AllRequests
  /\ count \in 0..MaxEntries /\ resets \in 0..MaxResets
  /\ Control(ram, owed)

(* A request is being served: its answer is due, or the flash works         *)
Served(m, o) ==
  /\ m \in Rams /\ m.req = o /\ Serves(m.state, o.op) /\ ~m.walking
  /\ \/ m.io = NoIO /\ m.deferred
     \/ m.io # NoIO /\ ~m.deferred /\ \/ m.io.op = "read" /\ m.state = "Reading"
                                      \/ m.io.op = "write" /\ m.state \in {"Appending", "Syncing"}
                                      \/ m.io.op = "erase" /\ m.state = "Erasing"

LEMMA ServedControl ==
  ASSUME NEW m, NEW o \in AllRequests, Served(m, o)
  PROVE  Control(m, o) /\ Working(m) /\ m.state # "Reconstructing"
<1>1. o # NoOp
  BY RequestFields DEF Served, Serves, NoOp
<1>2. NoIO.op = "none"
  BY IOFields
<1>3. m.state \in {"Reading", "Appending", "Seeking", "Syncing", "Erasing"}
  BY DEF Served, Serves
<1> QED
  BY <1>1, <1>2, <1>3 DEF Served, Control, Working

LEMMA QuietTask ==
  ASSUME NEW l \in Rams, Quiet(l), ~l.walking, NEW o \in AllRequests, NEW s \in States
  PROVE  LET t == Task(l, o, s) IN
         t \in Rams /\ Quiet(t) /\ ~t.walking /\ t.state = s /\ t.req = o /\ SameScan(t, l)
<1>1. PICK t : t = Task(l, o, s)
  OBVIOUS
<1>2. /\ t \in Rams /\ t.state = s /\ t.req = o /\ SameScan(t, l)
      /\ t.io = l.io /\ t.deferred = l.deferred
  BY <1>1, TaskFields
<1>3. Quiet(t) /\ ~t.walking
  BY <1>2 DEF Quiet, SameScan
<1> QED
  BY <1>1, <1>2, <1>3

LEMMA FlushIO ==
  ASSUME NEW l \in Rams, ~l.deferred
  PROVE  LET m == flush_pagebuffer(l) IN
         m \in Rams /\ ~m.deferred /\ m.io.op = "write" /\ m.io # NoIO /\ SameScan(m, l) /\ SameTask(m, l)
<1>1. PICK m : m = flush_pagebuffer(l)
  OBVIOUS
<1>2. /\ m \in Rams /\ m.deferred = l.deferred /\ m.io # NoIO /\ SameScan(m, l) /\ SameTask(m, l)
      /\ m.io = [op |-> "write", page |-> logical_page_of_pos(RoundUp(l.app) - PageSize)]
  BY <1>1, FlushFields
<1>3. ~m.deferred /\ m.io.op = "write"
  BY <1>2
<1> QED
  BY <1>1, <1>2, <1>3

LEMMA EraseIO ==
  ASSUME NEW l \in Rams, ~l.deferred
  PROVE  LET m == erase_oldest_page(l) IN
         m \in Rams /\ ~m.deferred /\ m.io.op = "erase" /\ m.io # NoIO /\ SameScan(m, l) /\ SameTask(m, l)
<1>1. PICK m : m = erase_oldest_page(l)
  OBVIOUS
<1>2. /\ m \in Rams /\ m.deferred = l.deferred /\ m.io # NoIO /\ SameScan(m, l) /\ SameTask(m, l)
      /\ m.io = [op |-> "erase", page |-> logical_page_of_pos(l.oldest)]
  BY <1>1, EraseFields
<1>3. ~m.deferred /\ m.io.op = "erase"
  BY <1>2
<1> QED
  BY <1>1, <1>2, <1>3

LEMMA AdvanceServes ==
  ASSUME NEW l \in Rams, Quiet(l), ~l.walking, NEW g \in Garbage, l.state = "Reading", l.req.op = "read"
  PROVE  Served(advance_read_pointer_then_deliver(l, g), l.req)
<1>1. PICK m : m = advance_read_pointer_then_deliver(l, g)
  OBVIOUS
<1>2. /\ m \in Rams /\ SameButCache(m, l)
      /\ \/ m.deferred /\ m.io = NoIO
         \/ ~m.deferred /\ \E p \in Logicals : m.io = [op |-> "read", page |-> p]
  <2>1. PICK e \in Nat :
              LET n   == [l EXCEPT !.rd = e]
                  len == LenAt(n, e, g)
              IN /\ Stop(l, g, e) /\ n \in Rams
                 /\ \/ e >= l.app /\ Answers(m, n) /\ m.err = "END" /\ m.rd = e
                    \/ e < l.app /\ Fails(m, n)
                    \/ /\ e < l.app /\ ~Cached(n, e) /\ m.rd = e
                       /\ Fetches(m, n, logical_page_of_pos(e))
                    \/ /\ e < l.app /\ Cached(n, e) /\ e % PageSize > 0 /\ len # PAD.len
                       /\ Delivers(m, n, len) \/ Refetches(m, n, len)
    BY <1>1, AdvanceOutcome
  <2>2. PICK n \in Rams : n = [l EXCEPT !.rd = e]
    BY <2>1
  <2>3. n.rd = e
    BY <2>2 DEF Rams
  <2>4. Answers(m, n) \/ Fetches(m, n, logical_page_of_pos(e))
    BY <2>1, <2>2, <2>3 DEF Fails, Delivers, Refetches
  <2>5. logical_page_of_pos(e) \in Logicals
    BY LogicalPageOf
  <2> QED
    BY <1>1, <2>4, <2>5, AdvanceOutcome DEF Answers, Fetches
<1>3. m.state = "Reading" /\ m.req = l.req /\ ~m.walking
  BY <1>2 DEF SameButCache, SameTask, SameScan
<1>4. \/ m.deferred /\ m.io = NoIO
      \/ ~m.deferred /\ m.io # NoIO /\ m.io.op = "read"
  <2>1. ASSUME NEW p \in Logicals, m.io = [op |-> "read", page |-> p]
        PROVE  m.io # NoIO /\ m.io.op = "read"
    BY <2>1, IOFields
  <2> QED
    BY <1>2, <2>1
<1> QED
  BY <1>1, <1>2, <1>3, <1>4 DEF Served, Serves

LEMMA StartServes ==
  ASSUME NEW l \in Rams, Quiet(l), ~l.walking, NEW o \in AllRequests, o # NoOp, NEW g \in Garbage
  PROVE  Served(start(l, o, g), o) /\ SameScan(start(l, o, g), l)
<1>1. o.op \in {"read", "append", "seek", "sync", "erase"}
  BY RequestFields
<1>2. PICK m : m = start(l, o, g)
  OBVIOUS
<1>3. CASE o.op = "read"
  <2>1. PICK t : t = Task(l, o, "Reading")
    OBVIOUS
  <2>2. t \in Rams /\ Quiet(t) /\ ~t.walking /\ t.state = "Reading" /\ t.req = o /\ SameScan(t, l)
    <3>1. "Reading" \in States
      BY StateNames
    <3> QED
      BY <2>1, <3>1, QuietTask
  <2>3. m = advance_read_pointer_then_deliver(t, g)
    BY <1>2, <1>3, <2>1, StartRead
  <2>4. Served(m, o)
    BY <1>3, <2>2, <2>3, AdvanceServes
  <2>5. SameButCache(m, t)
    BY <2>2, <2>3, AdvanceOutcome
  <2>6. SameScan(m, l)
    BY <2>2, <2>5 DEF SameButCache, SameScan
  <2> QED
    BY <1>2, <2>4, <2>6
<1>4. CASE o.op = "seek"
  <2>1. /\ m \in Rams /\ m.req = o /\ m.state = "Seeking" /\ m.deferred /\ m.io = l.io /\ SameScan(m, l)
    BY <1>2, <1>4, StartSeek
  <2>2. Served(m, o)
    BY <1>4, <2>1 DEF Served, Serves, Quiet, SameScan
  <2> QED
    BY <1>2, <2>1, <2>2
<1>5. CASE o.op = "append" /\ Fits(l, o)
  <2>1. PICK t : t = Task(l, o, "Appending")
    OBVIOUS
  <2>2. t \in Rams /\ Quiet(t) /\ ~t.walking /\ t.state = "Appending" /\ t.req = o /\ SameScan(t, l)
    <3>1. "Appending" \in States
      BY StateNames
    <3> QED
      BY <2>1, <3>1, QuietTask
  <2>3. m = append_to_pagebuffer(t)
    BY <1>2, <1>5, <2>1, StartAppend
  <2>4. m \in Rams /\ m.deferred /\ m.io = t.io /\ SameScan(m, t) /\ SameTask(m, t)
    BY <1>5, <2>2, <2>3, AppendFields
  <2>5. Served(m, o) /\ SameScan(m, l)
    BY <1>5, <2>2, <2>4 DEF Served, Serves, Quiet, SameScan, SameTask
  <2> QED
    BY <1>2, <2>5
<1>6. CASE o.op = "append" /\ ~Fits(l, o)
  <2>1. PICK f \in Rams :
              /\ m = flush_pagebuffer(f)
              /\ SameStore(f, l) /\ SameScan(f, l) /\ SameCache(f, l)
              /\ f.rd = l.rd /\ f.pbPage = l.pbPage /\ f.io = l.io /\ f.deferred = l.deferred
              /\ f.req = o /\ f.state = "Appending" /\ f.flushing
    BY <1>2, <1>6, StartAppend
  <2>2. m \in Rams /\ ~m.deferred /\ m.io.op = "write" /\ m.io # NoIO /\ SameScan(m, f) /\ SameTask(m, f)
    BY <2>1, FlushIO DEF Quiet
  <2>3. Served(m, o) /\ SameScan(m, l)
    BY <1>6, <2>1, <2>2 DEF Served, Serves, SameScan, SameTask
  <2> QED
    BY <1>2, <2>3
<1>7. CASE o.op = "sync"
  <2>1. PICK t : t = Task(l, o, "Syncing")
    OBVIOUS
  <2>2. t \in Rams /\ Quiet(t) /\ ~t.walking /\ t.state = "Syncing" /\ t.req = o /\ SameScan(t, l)
    <3>1. "Syncing" \in States
      BY StateNames
    <3> QED
      BY <2>1, <3>1, QuietTask
  <2>3. CASE l.app % PageSize = 1
    <3>1. m = Finish(t, "Ok", 0)
      BY <1>2, <1>7, <2>1, <2>3, StartSync
    <3>2. "Ok" \in Errs /\ 0 \in Nat
      BY DEF Errs
    <3>3. m \in Rams /\ Answers(m, t) /\ SameButCache(m, t)
      BY <2>2, <3>1, <3>2, FinishAnswers
    <3>4. Served(m, o) /\ SameScan(m, l)
      BY <1>7, <2>2, <3>3 DEF Served, Serves, Answers, SameButCache, SameScan, SameTask
    <3> QED
      BY <1>2, <3>4
  <2>4. CASE l.app % PageSize # 1
    <3>1. m = flush_pagebuffer(t)
      BY <1>2, <1>7, <2>1, <2>4, StartSync
    <3>2. m \in Rams /\ ~m.deferred /\ m.io.op = "write" /\ m.io # NoIO /\ SameScan(m, t) /\ SameTask(m, t)
      BY <2>2, <3>1, FlushIO DEF Quiet
    <3>3. Served(m, o) /\ SameScan(m, l)
      BY <1>7, <2>2, <3>2 DEF Served, Serves, SameScan, SameTask
    <3> QED
      BY <1>2, <3>3
  <2> QED
    BY <2>3, <2>4
<1>8. CASE o.op = "erase"
  <2>1. PICK t : t = Task(l, o, "Erasing")
    OBVIOUS
  <2>2. t \in Rams /\ Quiet(t) /\ ~t.walking /\ t.state = "Erasing" /\ t.req = o /\ SameScan(t, l)
    <3>1. "Erasing" \in States
      BY StateNames
    <3> QED
      BY <2>1, <3>1, QuietTask
  <2>3. CASE m = Finish(t, "Ok", 0)
    <3>2. "Ok" \in Errs /\ 0 \in Nat
      BY DEF Errs
    <3>3. m \in Rams /\ Answers(m, t) /\ SameButCache(m, t)
      BY <2>2, <2>3, <3>2, FinishAnswers
    <3>4. Served(m, o) /\ SameScan(m, l)
      BY <1>8, <2>2, <3>3 DEF Served, Serves, Answers, SameButCache, SameScan, SameTask
    <3> QED
      BY <1>2, <3>4
  <2>4. CASE m = erase_oldest_page(t)
    <3>2. m \in Rams /\ ~m.deferred /\ m.io.op = "erase" /\ m.io # NoIO /\ SameScan(m, t) /\ SameTask(m, t)
      BY <2>2, <2>4, EraseIO DEF Quiet
    <3>3. Served(m, o) /\ SameScan(m, l)
      BY <1>8, <2>2, <3>2 DEF Served, Serves, SameScan, SameTask
    <3> QED
      BY <1>2, <3>3
  <2> QED
    BY <1>2, <1>8, <2>1, <2>3, <2>4, StartErase
<1> QED
  BY <1>1, <1>3, <1>4, <1>5, <1>6, <1>7, <1>8
LEMMA HereFields ==
  ASSUME NEW m \in Rams
  PROVE  LET k == [m EXCEPT !.rbHere = TRUE] IN
         /\ k \in Rams /\ k.rbHere /\ k.rbuf = m.rbuf /\ k.rbPage = m.rbPage
         /\ SameStore(k, m) /\ SameScan(k, m) /\ SameTask(k, m)
         /\ k.rd = m.rd /\ k.pbPage = m.pbPage /\ k.lost = m.lost
         /\ k.io = m.io /\ k.deferred = m.deferred
  BY DEF Rams, SameStore, SameScan, SameTask

LEMMA RefusalFields ==
  ASSUME NEW m \in Rams, NEW o
  PROVE  LET k == AfterRefusal(m, o) IN
         /\ k \in Rams /\ SameStore(k, m) /\ SameScan(k, m) /\ SameTask(k, m) /\ SameCache(k, m)
         /\ k.pbPage = m.pbPage /\ k.lost = m.lost /\ k.io = m.io /\ k.deferred = m.deferred
         /\ k.rd = IF o.op = "read" THEN m.oldest ELSE m.rd
<1>1. CASE o.op = "read"
  BY <1>1 DEF AfterRefusal, Rams, SameStore, SameScan, SameTask, SameCache
<1>2. CASE o.op # "read"
  BY <1>2 DEF AfterRefusal, SameStore, SameScan, SameTask, SameCache
<1> QED
  BY <1>1, <1>2

(* The record with which finish_reconstruct starts the queued request       *)
Ready(m, l) ==
  /\ m \in Rams /\ m.state = "Idle" /\ ~m.walking /\ m.req = l.req
  /\ m.io = l.io /\ m.deferred = l.deferred
  /\ SameStore(m, l) /\ SameCache(m, l) /\ m.rd = l.rd /\ m.pbPage = l.pbPage

LEMMA FinishReconstruct ==
  ASSUME NEW l \in Rams, finish_reconstruct(l)
  PROVE  /\ UNCHANGED <<owed, count, resets, erased>>
         /\ \E m, r :
              /\ Ready(m, l)
              /\ \/ Refuses(m, m.req) /\ r = AfterRefusal(m, m.req)
                 \/ ~Refuses(m, m.req) /\ \E g \in Garbage : r = start(m, m.req, g)
              /\ Become([r EXCEPT !.rbHere = TRUE],
                        {e \in log : m.oldest <= e.id /\ e.id < m.app})
<1>1. PICK m : m = [l EXCEPT !.state = "Idle", !.walking = FALSE, !.pending = FALSE]
  OBVIOUS
<1>2. Ready(m, l)
  BY <1>1, StateNames DEF Ready, Rams, SameStore, SameCache
<1>3. /\ IF Refuses(m, m.req)
         THEN Become([AfterRefusal(m, m.req) EXCEPT !.rbHere = TRUE],
                     {e \in log : m.oldest <= e.id /\ e.id < m.app})
         ELSE \E g \in Garbage : Become([start(m, m.req, g) EXCEPT !.rbHere = TRUE],
                                        {e \in log : m.oldest <= e.id /\ e.id < m.app})
      /\ Waiting
  BY <1>1 DEF finish_reconstruct
<1>4. UNCHANGED <<owed, count, resets, erased>>
  BY <1>3 DEF Waiting
<1>5. CASE Refuses(m, m.req)
  BY <1>2, <1>3, <1>4, <1>5
<1>6. CASE ~Refuses(m, m.req)
  BY <1>2, <1>3, <1>4, <1>6
<1> QED
  BY <1>5, <1>6

LEMMA BecomeRam ==
  ASSUME NEW l, NEW kept, Become(l, kept)
  PROVE  ram' = l
  BY DEF Become

LEMMA FinishReconstructType ==
  ASSUME NEW l \in Rams, Quiet(l), l.req = owed, owed \in AllRequests, owed # NoOp,
         finish_reconstruct(l)
  PROVE  ram' \in Rams /\ Control(ram', owed) /\ ram'.rbHere /\ UNCHANGED <<owed, count, resets>>
<1>1. PICK m, r :
              /\ Ready(m, l)
              /\ \/ Refuses(m, m.req) /\ r = AfterRefusal(m, m.req)
                 \/ ~Refuses(m, m.req) /\ \E g \in Garbage : r = start(m, m.req, g)
              /\ Become([r EXCEPT !.rbHere = TRUE],
                        {e \in log : m.oldest <= e.id /\ e.id < m.app})
  BY FinishReconstruct
<1>2. UNCHANGED <<owed, count, resets>>
  BY FinishReconstruct
<1>3. ram' = [r EXCEPT !.rbHere = TRUE]
  BY <1>1, BecomeRam
<1>4. m \in Rams /\ Quiet(m) /\ ~m.walking /\ m.req = owed /\ m.state = "Idle"
  BY <1>1 DEF Ready, Quiet
<1>5. CASE r = AfterRefusal(m, m.req)
  <2>1. /\ r \in Rams /\ SameScan(r, m) /\ SameTask(r, m) /\ r.io = m.io /\ r.deferred = m.deferred
    BY <1>4, <1>5, RefusalFields
  <2>2. PICK k : k = [r EXCEPT !.rbHere = TRUE]
    OBVIOUS
  <2>3. k \in Rams /\ k.rbHere /\ SameScan(k, r) /\ SameTask(k, r) /\ k.io = r.io /\ k.deferred = r.deferred
    BY <2>1, <2>2, HereFields
  <2>4. k.state = "Idle" /\ ~k.walking /\ k.io = NoIO /\ ~k.deferred
    BY <1>4, <2>1, <2>3 DEF SameScan, SameTask, Quiet
  <2>5. Control(k, owed)
    BY <2>4, IOFields DEF Control, Working
  <2> QED
    BY <1>2, <1>3, <2>2, <2>3, <2>5
<1>6. ASSUME NEW g \in Garbage, r = start(m, m.req, g)
      PROVE  ram' \in Rams /\ Control(ram', owed) /\ ram'.rbHere
  <2>1. Served(r, owed)
    BY <1>4, <1>6, StartServes
  <2>2. PICK k : k = [r EXCEPT !.rbHere = TRUE]
    OBVIOUS
  <2>3. r \in Rams
    BY <2>1 DEF Served
  <2>4. k \in Rams /\ k.rbHere /\ SameScan(k, r) /\ SameTask(k, r) /\ k.io = r.io /\ k.deferred = r.deferred
    BY <2>2, <2>3, HereFields
  <2>5. Served(k, owed)
    BY <2>1, <2>4 DEF Served, SameScan, SameTask
  <2>6. Control(k, owed)
    BY <2>5, ServedControl
  <2> QED
    BY <1>3, <2>2, <2>4, <2>6
<1> QED
  BY <1>1, <1>2, <1>5, <1>6

LEMMA BootFields ==
  /\ Boot \in Rams /\ Boot.state = "NotReady" /\ Quiet(Boot) /\ ~Boot.walking
  /\ Boot.rbPage = NONE /\ Boot.pbPage = NONE
<1>1. Fresh(0) \in Sheets
  BY FreshType
<1>2. NONE \in Labels /\ NoIO \in IOs /\ NoOp \in AllRequests /\ "Ok" \in Errs /\ 1 \in Nat /\ 0 \in Nat
  BY IOFields DEF Labels, AllRequests, Errs
<1>3. Boot \in Rams
  BY <1>1, <1>2, StateNames DEF Boot, Rams, PAGE_HEADER_SIZE
<1> QED
  BY <1>3 DEF Boot, Quiet

LEMMA BootControl == Control(Boot, NoOp)
  BY BootFields, IOFields DEF Control, Working, Quiet

LEMMA InitType == Init => InvType
<1> SUFFICES ASSUME Init PROVE InvType
  OBVIOUS
<1>1. flash \in [Logicals -> Sheets]
  BY ErasedType DEF Init
<1>2. NoOp \in AllRequests
  BY DEF AllRequests
<1>3. count \in 0..MaxEntries /\ resets \in 0..MaxResets
  BY ClientAssumption DEF Init
<1> QED
  BY <1>1, <1>2, <1>3, BootFields, BootControl DEF Init, InvType

LEMMA RequestTypes ==
  ASSUME InvType, NEW o \in Requests, o.op = "append" => count < MaxEntries
  PROVE  o \in AllRequests /\ o # NoOp /\ (o.op = "append" => o.tag = count + 1)
<1>1. ram.oldest \in Nat /\ ram.app \in Nat /\ count \in Nat /\ MaxEntries \in Nat /\ count <= MaxEntries
  BY ClientAssumption DEF InvType, Rams
<1>2. CASE o \in [op : {"read"}, len : ReadLens]
  <2>1. o.op = "read" /\ o \in AllRequests
    BY <1>2 DEF AllRequests
  <2> QED
    BY <2>1 DEF NoOp
<1>3. CASE o \in [op : {"append"}, len : Lens, tag : {count + 1}]
  <2>1. o.op = "append" /\ o.len \in Lens /\ o.tag = count + 1
        /\ o = [op |-> o.op, len |-> o.len, tag |-> o.tag]
    BY <1>3
  <2>2. o.tag \in 1..MaxEntries
    BY <1>1, <2>1
  <2>3. o \in [op : {"append"}, len : Lens, tag : 1..MaxEntries]
    BY <2>1, <2>2
  <2>4. o \in AllRequests
    BY <2>3 DEF AllRequests
  <2> QED
    BY <2>1, <2>4 DEF NoOp
<1>4. CASE o \in {[op |-> "seek", at |-> ram.oldest, before |-> 0],
                  [op |-> "seek", at |-> ram.app, before |-> count],
                  [op |-> "sync"], [op |-> "erase"]}
  <2>1. CASE o = [op |-> "seek", at |-> ram.oldest, before |-> 0]
    <3>1. o \in [op : {"seek"}, at : Nat, before : Nat] /\ o.op = "seek"
      BY <1>1, <2>1
    <3> QED
      BY <3>1 DEF AllRequests, NoOp
  <2>2. CASE o = [op |-> "seek", at |-> ram.app, before |-> count]
    <3>1. o \in [op : {"seek"}, at : Nat, before : Nat] /\ o.op = "seek"
      BY <1>1, <2>2
    <3> QED
      BY <3>1 DEF AllRequests, NoOp
  <2>3. CASE o = [op |-> "sync"]
    <3>1. o \in [op : {"sync", "erase"}] /\ o.op = "sync"
      BY <2>3
    <3> QED
      BY <3>1 DEF AllRequests, NoOp
  <2>4. CASE o = [op |-> "erase"]
    <3>1. o \in [op : {"sync", "erase"}] /\ o.op = "erase"
      BY <2>4
    <3> QED
      BY <3>1 DEF AllRequests, NoOp
  <2> QED
    BY <1>4, <2>1, <2>2, <2>3, <2>4
<1> QED
  BY <1>2, <1>3, <1>4 DEF Requests
(* The first call: the recovery begins and the request is queued            *)
Begin(l, o) == [l EXCEPT !.state = "Reconstructing", !.next = 0, !.recOldest = NONE,
                         !.recNewest = 0, !.deferred = TRUE, !.req = o, !.pending = TRUE]

LEMMA BeginFields ==
  ASSUME NEW l \in Rams, NEW o \in AllRequests
  PROVE  LET m == Begin(l, o) IN
         /\ m \in Rams /\ m.state = "Reconstructing" /\ m.next = 0 /\ m.recOldest = NONE /\ m.recNewest = 0
         /\ m.deferred /\ m.req = o /\ m.io = l.io /\ m.walking = l.walking
         /\ SameStore(m, l) /\ SameCache(m, l) /\ m.pbPage = l.pbPage
<1>1. 0 \in (0..NumPages) \cup {NONE} /\ NONE \in Nat \cup {NONE} /\ 0 \in Nat /\ TRUE \in BOOLEAN
  BY Sizes
<1> QED
  BY <1>1, StateNames DEF Begin, Rams, SameStore, SameCache

(* The answer to the client leaves the capsule idle                         *)
Idled(l) == [l EXCEPT !.state = "Idle", !.flushing = FALSE, !.deferred = FALSE, !.io = NoIO]

LEMMA IdledFields ==
  ASSUME NEW l \in Rams
  PROVE  LET m == Idled(l) IN
         /\ m \in Rams /\ m.state = "Idle" /\ Quiet(m) /\ SameStore(m, l) /\ SameScan(m, l)
         /\ SameCache(m, l) /\ m.rd = l.rd /\ m.pbPage = l.pbPage /\ m.lost = l.lost
<1>1. NoIO \in IOs
  BY IOFields
<1> QED
  BY <1>1, StateNames DEF Idled, Rams, Quiet, SameStore, SameScan, SameCache

LEMMA CallbackType ==
  ASSUME NEW l \in Rams, ~l.walking, NEW kept, Callback(l, kept)
  PROVE  /\ ram' = Idled(l) /\ ram' \in Rams /\ owed' = NoOp /\ Control(ram', NoOp) /\ log' = kept
         /\ UNCHANGED <<count, resets>>
<1>1. ram' = Idled(l) /\ owed' = NoOp /\ log' = kept /\ UNCHANGED <<count, resets>>
  BY DEF Callback, Idled
<1>2. PICK m : m = Idled(l)
  OBVIOUS
<1>3. m \in Rams /\ m.state = "Idle" /\ Quiet(m) /\ SameScan(m, l)
  BY <1>2, IdledFields
<1>4. ~m.walking
  BY <1>3 DEF SameScan
<1>5. Control(m, NoOp)
  BY <1>3, <1>4, IOFields DEF Control, Working, Quiet
<1> QED
  BY <1>1, <1>2, <1>3, <1>5

LEMMA NoOpType == NoOp \in AllRequests
  BY DEF AllRequests

LEMMA CallType ==
  ASSUME InvType, NEW o \in Requests, Call(o)
  PROVE  InvType'
<1>1. o \in AllRequests /\ o # NoOp /\ (o.op = "append" => o.tag = count + 1 /\ count < MaxEntries)
  BY RequestTypes DEF Call
<1>2. UNCHANGED <<flash, resets>> /\ count' = IF o.op = "append" /\ owed' = o THEN o.tag ELSE count
  BY DEF Call
<1>3. count' \in 0..MaxEntries
  BY <1>1, <1>2, ClientAssumption DEF InvType
<1>4. ram \in Rams /\ Control(ram, owed) /\ owed = NoOp
  BY DEF InvType, Call
<1>5. CASE /\ ram.state = "NotReady" /\ owed' = o
           /\ Become(Begin(ram, o), log)
  <2>1. Quiet(ram) /\ ~ram.walking
    BY <1>4, <1>5 DEF Control, Working, Quiet
  <2>2. PICK m : m = Begin(ram, o)
    OBVIOUS
  <2>3. /\ m \in Rams /\ m.state = "Reconstructing" /\ m.next = 0 /\ m.deferred
        /\ m.req = o /\ m.io = ram.io /\ m.walking = ram.walking
    BY <1>1, <1>4, <2>2, BeginFields
  <2>4. Control(m, o)
    BY <1>1, <2>1, <2>3, IOFields, Sizes DEF Control, Working, Quiet
  <2>5. ram' = m
    BY <1>5, <2>2, BecomeRam
  <2> QED
    BY <1>1, <1>2, <1>3, <1>5, <2>3, <2>4, <2>5 DEF InvType
<1>6. CASE /\ ram.state = "Idle" /\ owed' = owed
           /\ Become(AfterRefusal(ram, o), log)
  <2>2. PICK m : m = AfterRefusal(ram, o)
    OBVIOUS
  <2>3. m \in Rams /\ SameScan(m, ram) /\ SameTask(m, ram) /\ m.io = ram.io /\ m.deferred = ram.deferred
    BY <1>4, <2>2, RefusalFields
  <2>4. Control(m, owed)
    BY <1>4, <1>6, <2>3 DEF Control, Working, SameScan, SameTask
  <2>5. ram' = m
    BY <1>6, <2>2, BecomeRam
  <2> QED
    BY <1>2, <1>3, <1>6, <2>3, <2>4, <2>5 DEF InvType
<1>7. ASSUME ram.state = "Idle", owed' = o, NEW g \in Garbage, Become(start(ram, o, g), log)
      PROVE  InvType'
  <2>1. Quiet(ram) /\ ~ram.walking
    BY <1>4, <1>7 DEF Control, Working, Quiet
  <2>2. PICK m : m = start(ram, o, g)
    OBVIOUS
  <2>3. Served(m, o)
    BY <1>1, <1>4, <2>1, <2>2, StartServes
  <2>4. m \in Rams /\ Control(m, o)
    BY <1>1, <2>3, ServedControl DEF Served
  <2>5. ram' = m
    BY <1>7, <2>2, BecomeRam
  <2> QED
    BY <1>1, <1>2, <1>3, <1>7, <2>4, <2>5 DEF InvType
<1> QED
  BY <1>5, <1>6, <1>7 DEF Call, Begin

(* A deferred call or a completion begins with the flag or the request to
   the flash taken back                                                     *)
Taken(l) == [l EXCEPT !.deferred = FALSE]
Completed(l) == [l EXCEPT !.io = NoIO]

LEMMA TakenFields ==
  ASSUME NEW l \in Rams
  PROVE  LET m == Taken(l) IN
         /\ m \in Rams /\ ~m.deferred /\ m.io = l.io /\ SameStore(m, l) /\ SameScan(m, l)
         /\ SameTask(m, l) /\ SameCache(m, l) /\ m.rd = l.rd /\ m.pbPage = l.pbPage
         /\ m.err = l.err /\ m.got = l.got
  BY DEF Taken, Rams, SameStore, SameScan, SameTask, SameCache

LEMMA CompletedFields ==
  ASSUME NEW l \in Rams
  PROVE  LET m == Completed(l) IN
         /\ m \in Rams /\ m.io = NoIO /\ m.deferred = l.deferred /\ SameStore(m, l) /\ SameScan(m, l)
         /\ SameTask(m, l) /\ SameCache(m, l) /\ m.rd = l.rd /\ m.pbPage = l.pbPage
<1>1. NoIO \in IOs
  BY IOFields
<1> QED
  BY <1>1 DEF Completed, Rams, SameStore, SameScan, SameTask, SameCache

LEMMA WalkingFields ==
  ASSUME NEW l \in Rams
  PROVE  LET m == [l EXCEPT !.walking = TRUE] IN
         /\ m \in Rams /\ m.walking /\ m.io = l.io /\ m.deferred = l.deferred /\ SameStore(m, l)
         /\ SameTask(m, l) /\ SameCache(m, l) /\ m.pbPage = l.pbPage
         /\ m.next = l.next /\ m.recOldest = l.recOldest /\ m.recNewest = l.recNewest
  BY DEF Rams, SameStore, SameTask, SameCache

LEMMA DeferredType ==
  ASSUME InvType, handle_deferred_call
  PROVE  InvType'
<1>1. ram \in Rams /\ Control(ram, owed) /\ ram.deferred /\ UNCHANGED flash /\ owed \in AllRequests
  BY DEF InvType, handle_deferred_call
<1>2. PICK l : l = Taken(ram)
  OBVIOUS
<1>3. l \in Rams /\ ~l.deferred /\ l.io = ram.io /\ SameScan(l, ram) /\ SameTask(l, ram)
  BY <1>1, <1>2, TakenFields
<1>4. Working(ram) /\ ram.io = NoIO /\ owed # NoOp /\ owed = ram.req
  BY <1>1 DEF Control
<1>5. Quiet(l) /\ l.req = owed /\ l.state = ram.state
  BY <1>3, <1>4 DEF Quiet, SameTask
<1>6. CASE l.state = "Reconstructing" /\ drive_reconstruct(l)
  <2>0. l.next \in 0..NumPages
    BY <1>1, <1>3, <1>5, <1>6 DEF Control, SameScan
  <2>1. CASE l.next < NumPages /\ Become(start_read_page(l, l.next), log) /\ Waiting
    <3>1. l.next \in Logicals
      BY <2>0, <2>1, Sizes DEF Logicals
    <3>2. PICK m : m = start_read_page(l, l.next)
      OBVIOUS
    <3>3. m \in Rams /\ SameButCache(m, l) /\ (Fetches(m, l, l.next) \/ Answers(m, l))
      BY <1>3, <1>5, <3>1, <3>2, StartReadPage
    <3>4. m.state = "Reconstructing" /\ m.req = owed /\ m.next = l.next
          /\ m.walking = l.walking /\ m.recOldest = l.recOldest
      BY <1>5, <1>6, <3>3 DEF SameButCache, SameTask, SameScan
    <3>5. \/ m.io = NoIO /\ m.deferred
          \/ m.io # NoIO /\ m.io.op = "read" /\ ~m.deferred
      <4>1. [op |-> "read", page |-> l.next] # NoIO
        BY <3>1, IOFields
      <4> QED
        BY <3>3, <4>1 DEF Fetches, Answers
    <3>6. l.walking => l.recOldest # NONE
      BY <1>1, <1>3 DEF Control, SameScan
    <3>7. Control(m, owed)
      BY <1>4, <2>0, <3>4, <3>5, <3>6, IOFields DEF Control, Working
    <3> QED
      BY <1>1, <2>1, <3>2, <3>3, <3>7, BecomeRam DEF InvType, Waiting
  <2>2. CASE /\ l.next = NumPages /\ l.recOldest # NONE
             /\ Become(start_read_page([l EXCEPT !.walking = TRUE],
                                       logical_page_of_pos(l.recNewest)), log)
             /\ Waiting
    <3>1. PICK p \in Logicals : p = logical_page_of_pos(l.recNewest)
      <4>1. l.recNewest \in Int
        BY <1>3 DEF Rams
      <4> QED
        BY <4>1, LabelOf
    <3>2. PICK k : k = [l EXCEPT !.walking = TRUE]
      OBVIOUS
    <3>3. /\ k \in Rams /\ k.walking /\ k.io = l.io /\ k.deferred = l.deferred
          /\ SameTask(k, l) /\ k.next = l.next /\ k.recOldest = l.recOldest
      BY <1>3, <3>2, WalkingFields
    <3>4. Quiet(k)
      BY <1>5, <3>3 DEF Quiet
    <3>5. PICK m : m = start_read_page(k, p)
      OBVIOUS
    <3>6. m \in Rams /\ SameButCache(m, k) /\ (Fetches(m, k, p) \/ Answers(m, k))
      BY <3>3, <3>4, <3>5, StartReadPage
    <3>7. m.state = "Reconstructing" /\ m.req = owed /\ m.next = l.next
          /\ m.walking /\ m.recOldest = l.recOldest
      BY <1>5, <1>6, <3>3, <3>6 DEF SameButCache, SameTask, SameScan
    <3>8. \/ m.io = NoIO /\ m.deferred
          \/ m.io # NoIO /\ m.io.op = "read" /\ ~m.deferred
      <4>1. [op |-> "read", page |-> p] # NoIO
        BY IOFields
      <4> QED
        BY <3>6, <4>1 DEF Fetches, Answers
    <3>9. Control(m, owed)
      BY <1>4, <2>0, <2>2, <3>7, <3>8, IOFields DEF Control, Working
    <3>10. ram' = m
      BY <2>2, <3>1, <3>2, <3>5, BecomeRam
    <3> QED
      BY <1>1, <2>2, <3>6, <3>9, <3>10 DEF InvType, Waiting
  <2>3. CASE finish_reconstruct(reset_state_empty(l))
    <3>1. PICK k : k = reset_state_empty(l)
      OBVIOUS
    <3>2. k \in Rams /\ k.io = l.io /\ k.deferred = l.deferred /\ SameTask(k, l)
      BY <1>3, <3>1, EmptyFields
    <3>3. Quiet(k) /\ k.req = owed
      BY <1>5, <3>2 DEF Quiet, SameTask
    <3>4. ram' \in Rams /\ Control(ram', owed) /\ UNCHANGED <<owed, count, resets>>
      BY <1>1, <1>4, <2>3, <3>1, <3>2, <3>3, FinishReconstructType
    <3> QED
      BY <1>1, <3>4 DEF InvType
  <2> QED
    BY <1>6, <2>1, <2>2, <2>3 DEF drive_reconstruct
<1>7. CASE l.state # "Reconstructing" /\ Callback(l, log)
  <2>1. ~l.walking
    BY <1>1, <1>3, <1>5, <1>7 DEF Control, SameScan
  <2>2. ram' \in Rams /\ owed' = NoOp /\ Control(ram', NoOp) /\ UNCHANGED <<count, resets>>
    BY <1>3, <1>7, <2>1, CallbackType
  <2> QED
    BY <1>1, <2>2, NoOpType DEF InvType
<1> QED
  BY <1>2, <1>6, <1>7 DEF handle_deferred_call, Taken
(* The read buffer is back with the page                                    *)
Fetched(l, page, p) == [l EXCEPT !.rbuf = page, !.rbHere = TRUE, !.rbPage = p]

LEMMA FetchedFields ==
  ASSUME NEW l \in Rams, NEW page \in Sheets, NEW p \in Labels
  PROVE  LET m == Fetched(l, page, p) IN
         /\ m \in Rams /\ m.rbuf = page /\ m.rbHere /\ m.rbPage = p
         /\ m.io = l.io /\ m.deferred = l.deferred
         /\ SameStore(m, l) /\ SameScan(m, l) /\ SameTask(m, l) /\ m.rd = l.rd /\ m.pbPage = l.pbPage
  BY DEF Fetched, Rams, SameStore, SameScan, SameTask

(* What a read gives: the page on flash, or the buffer as it was            *)
PageRead(ok) == IF ok THEN flash[ram.io.page] ELSE ram.rbuf

LEMMA PageReadType ==
  ASSUME InvType, ram.io.op = "read", NEW ok \in BOOLEAN
  PROVE  PageRead(ok) \in Sheets /\ ram.io.page \in Logicals /\ ram.io # NoIO
<1>1. ram.io \in IOs /\ ram.rbuf \in Sheets
  BY DEF InvType, Rams
<1>2. ram.io # NoIO
  BY IOFields
<1>3. ram.io.page \in Logicals
  BY <1>1, <1>2, IOFields
<1>4. flash[ram.io.page] \in Sheets
  BY <1>3 DEF InvType
<1> QED
  BY <1>1, <1>2, <1>3, <1>4 DEF PageRead

LEMMA ReadType ==
  ASSUME InvType, NEW ok \in BOOLEAN, read_complete(ok)
  PROVE  InvType'
<1>1. /\ ram \in Rams /\ Control(ram, owed) /\ ram.io.op = "read" /\ UNCHANGED flash
      /\ owed \in AllRequests
  BY DEF InvType, read_complete
<1>2. PICK l : l = Completed(ram)
  OBVIOUS
<1>3. /\ l \in Rams /\ l.io = NoIO /\ l.deferred = ram.deferred /\ SameScan(l, ram) /\ SameTask(l, ram)
      /\ l.rd = ram.rd
  BY <1>1, <1>2, CompletedFields
<1>4. PICK p \in Logicals, page \in Sheets : p = ram.io.page /\ page = PageRead(ok)
  BY <1>1, PageReadType
<1>5. Working(ram) /\ ~ram.deferred /\ owed # NoOp /\ owed = ram.req
  BY <1>1, PageReadType DEF Control, Working
<1>6. Quiet(l) /\ l.req = owed /\ l.state = ram.state
  BY <1>3, <1>5 DEF Quiet, SameTask
<1>7. CASE l.state = "Reconstructing" /\ ~l.walking /\ Become(ScanPage(l, p, page, ok), log) /\ Waiting
  <2>1. PICK m : m = ScanPage(l, p, page, ok)
    OBVIOUS
  <2>2. /\ m \in Rams /\ m.deferred /\ m.io = l.io /\ SameTask(m, l)
        /\ m.walking = l.walking /\ m.next = p + 1
    BY <1>3, <2>1, ScanFields
  <2>3. m.next \in 0..NumPages
    BY <2>2, Sizes DEF Logicals
  <2>4. m.state = "Reconstructing" /\ m.req = owed /\ ~m.walking /\ m.io = NoIO
    BY <1>3, <1>6, <1>7, <2>2 DEF SameTask
  <2>5. Control(m, owed)
    BY <1>5, <2>2, <2>3, <2>4, IOFields DEF Control, Working
  <2> QED
    BY <1>1, <1>7, <2>1, <2>2, <2>5, BecomeRam DEF InvType, Waiting
<1>8. CASE l.state = "Reconstructing" /\ l.walking /\ finish_reconstruct(WalkLastPage(l, page, ok))
  <2>1. l.recOldest # NONE
    BY <1>1, <1>3, <1>8 DEF Control, SameScan
  <2>2. PICK k : k = WalkLastPage(l, page, ok)
    OBVIOUS
  <2>3. k \in Rams /\ k.io = l.io /\ k.deferred = l.deferred /\ SameTask(k, l)
    BY <1>3, <2>1, <2>2, WalkFields
  <2>4. Quiet(k) /\ k.req = owed
    BY <1>6, <2>3 DEF Quiet, SameTask
  <2>5. ram' \in Rams /\ Control(ram', owed) /\ UNCHANGED <<owed, count, resets>>
    BY <1>1, <1>5, <1>8, <2>2, <2>3, <2>4, FinishReconstructType
  <2> QED
    BY <1>1, <2>5 DEF InvType
<1>9. ASSUME l.state = "Reading", Waiting, NEW g \in Garbage,
             LET m == [l EXCEPT !.rbuf = page, !.rbHere = TRUE,
                                !.rbPage = IF ok THEN logical_page_of_pos(l.rd) ELSE NONE]
             IN Become(IF ok THEN advance_read_pointer_then_deliver(m, g)
                       ELSE Finish(m, "FAIL", 0), log)
      PROVE  InvType'
  <2>1. PICK c \in Labels : c = IF ok THEN logical_page_of_pos(l.rd) ELSE NONE
    <3>1. l.rd \in Int
      BY <1>3 DEF Rams
    <3> QED
      BY <3>1, LabelOf DEF Labels
  <2>2. PICK m : m = Fetched(l, page, c)
    OBVIOUS
  <2>3. m \in Rams /\ m.io = l.io /\ m.deferred = l.deferred /\ SameScan(m, l) /\ SameTask(m, l)
    BY <1>3, <2>2, FetchedFields
  <2>4. Quiet(m) /\ m.req = owed /\ m.state = "Reading" /\ ~m.walking
    <3>1. ~ram.walking
      BY <1>1, <1>6, <1>9 DEF Control
    <3> QED
      BY <1>3, <1>6, <1>9, <2>3, <3>1 DEF Quiet, SameTask, SameScan
  <2>5. owed.op = "read"
    BY <1>1, <1>5, <1>6, <1>9 DEF Control, Serves
  <2>6. ram' = IF ok THEN advance_read_pointer_then_deliver(m, g) ELSE Finish(m, "FAIL", 0)
    BY <1>9, <2>1, <2>2, BecomeRam DEF Fetched
  <2>7. CASE ok
    <3>1. Served(ram', owed)
      BY <2>3, <2>4, <2>5, <2>6, <2>7, AdvanceServes
    <3>2. ram' \in Rams /\ Control(ram', owed)
      BY <1>1, <3>1, ServedControl DEF Served
    <3> QED
      BY <1>1, <1>9, <3>2 DEF InvType, Waiting
  <2>8. CASE ~ok
    <3>1. "FAIL" \in Errs /\ 0 \in Nat
      BY DEF Errs
    <3>2. PICK k : k = Finish(m, "FAIL", 0)
      OBVIOUS
    <3>3. k \in Rams /\ Answers(k, m) /\ SameButCache(k, m)
      BY <2>3, <2>4, <3>1, <3>2, FinishAnswers
    <3>4. Served(k, owed)
      BY <2>4, <2>5, <3>3 DEF Served, Serves, Answers, SameButCache, SameScan, SameTask
    <3>5. Control(k, owed)
      BY <1>1, <3>4, ServedControl
    <3> QED
      BY <1>1, <1>9, <2>6, <2>8, <3>2, <3>3, <3>5 DEF InvType, Waiting
  <2> QED
    BY <2>7, <2>8
<1> QED
  BY <1>2, <1>4, <1>7, <1>8, <1>9 DEF read_complete, Completed, PageRead

LEMMA FailedFields ==
  ASSUME NEW l \in Rams, NEW t \in BOOLEAN
  PROVE  LET m == [l EXCEPT !.err = "FAIL", !.got = 0, !.lost = t] IN
         /\ m \in Rams /\ SameStore(m, l) /\ SameScan(m, l) /\ SameCache(m, l)
         /\ m.rd = l.rd /\ m.pbPage = l.pbPage /\ SameTask(m, l) /\ m.io = l.io /\ m.deferred = l.deferred
<1>1. "FAIL" \in Errs /\ 0 \in Nat
  BY DEF Errs
<1> QED
  BY <1>1 DEF Rams, SameStore, SameScan, SameCache, SameTask

LEMMA OutcomeFields ==
  ASSUME NEW l \in Rams, NEW e \in Errs
  PROVE  LET m == [l EXCEPT !.err = e, !.got = 0] IN
         /\ m \in Rams /\ SameStore(m, l) /\ SameScan(m, l) /\ SameCache(m, l)
         /\ m.rd = l.rd /\ m.pbPage = l.pbPage /\ SameTask(m, l) /\ m.io = l.io /\ m.deferred = l.deferred
  BY DEF Rams, SameStore, SameScan, SameCache, SameTask

LEMMA UnflushedFields ==
  ASSUME NEW l \in Rams
  PROVE  LET m == [l EXCEPT !.flushing = FALSE] IN
         /\ m \in Rams /\ SameStore(m, l) /\ SameScan(m, l) /\ SameCache(m, l)
         /\ m.rd = l.rd /\ m.pbPage = l.pbPage /\ m.state = l.state /\ m.req = l.req
         /\ m.io = l.io /\ m.deferred = l.deferred
  BY DEF Rams, SameStore, SameScan, SameCache

LEMMA WriteTaken ==
  ASSUME InvType, ram.io.op = "write"
  PROVE  /\ ram.io.page \in Logicals /\ Quiet(Completed(ram)) /\ ~ram.walking /\ Working(ram)
         /\ owed # NoOp /\ owed = ram.req
<1>1. ram \in Rams /\ ram.io \in IOs /\ Control(ram, owed)
  BY DEF InvType, Rams
<1>2. ram.io # NoIO /\ ram.io.page \in Logicals
  BY <1>1, IOFields
<1>3. ~ram.deferred /\ Working(ram) /\ owed # NoOp /\ owed = ram.req /\ ~ram.walking
  BY <1>1, <1>2 DEF Control, Working
<1> QED
  BY <1>1, <1>2, <1>3, CompletedFields DEF Quiet

LEMMA WriteType ==
  ASSUME InvType, NEW ok \in BOOLEAN, write_complete(ok)
  PROVE  InvType'
<1>1. ram \in Rams /\ Control(ram, owed) /\ ram.io.op = "write" /\ owed \in AllRequests
      /\ ram.pbuf \in Sheets
  BY DEF InvType, write_complete, Rams
<1>2. PICK l : l = Completed(ram)
  OBVIOUS
<1>3. l \in Rams /\ SameScan(l, ram) /\ SameTask(l, ram) /\ SameStore(l, ram) /\ l.io = NoIO
  BY <1>1, <1>2, CompletedFields
<1>4. ram.io.page \in Logicals /\ Quiet(l) /\ ~ram.walking /\ Working(ram) /\ owed # NoOp /\ owed = ram.req
  BY <1>1, <1>2, WriteTaken
<1>5. ~l.walking /\ l.req = owed /\ l.state = ram.state
  BY <1>3, <1>4 DEF SameScan, SameTask
<1>6. ASSUME NEW k \in Rams, ~k.walking, Callback(k, log), flash' \in [Logicals -> Sheets]
      PROVE  InvType'
  <2>1. ram' \in Rams /\ owed' = NoOp /\ Control(ram', NoOp) /\ UNCHANGED <<count, resets>>
    BY <1>6, CallbackType
  <2> QED
    BY <1>6, <2>1, NoOpType DEF InvType
<1>7. CASE /\ Callback([l EXCEPT !.err = "FAIL", !.got = 0, !.lost = IF l.flushing THEN FALSE ELSE @], log)
           /\ UNCHANGED flash
  <2>1. PICK t \in BOOLEAN : t = IF l.flushing THEN FALSE ELSE l.lost
    BY <1>3 DEF Rams
  <2>2. PICK k : k = [l EXCEPT !.err = "FAIL", !.got = 0, !.lost = t]
    OBVIOUS
  <2>3. k \in Rams /\ SameScan(k, l)
    BY <1>3, <2>2, FailedFields
  <2>4. Callback(k, log)
    BY <1>7, <2>1, <2>2
  <2>5. flash' \in [Logicals -> Sheets] /\ ~k.walking
    BY <1>5, <1>7, <2>3 DEF InvType, SameScan
  <2> QED
    BY <1>6, <2>3, <2>4, <2>5
<1>8. CASE flash' = [flash EXCEPT ![ram.io.page] = ram.pbuf] /\
           (\/ /\ l.state = "Appending"
              /\ Become(append_to_pagebuffer([reset_pagebuffer(l) EXCEPT !.flushing = FALSE]), log)
              /\ Waiting
           \/ /\ l.state = "Syncing"
              /\ Callback([IF l.app % PageSize = 0 THEN reset_pagebuffer(l) ELSE l
                           EXCEPT !.err = "Ok", !.got = 0], log))
  <2>1. flash' \in [Logicals -> Sheets]
    BY <1>1, <1>4, <1>8 DEF InvType
  <2>2. PICK r \in Rams : /\ r = reset_pagebuffer(l) /\ SameScan(r, l) /\ SameTask(r, l)
                          /\ r.io = l.io /\ r.deferred = l.deferred
    BY <1>3, NextPageFields
  <2>3. CASE /\ l.state = "Appending" /\ Waiting
             /\ Become(append_to_pagebuffer([reset_pagebuffer(l) EXCEPT !.flushing = FALSE]), log)
    <3>1. PICK k : k = [r EXCEPT !.flushing = FALSE]
      OBVIOUS
    <3>2. k \in Rams /\ SameScan(k, r) /\ k.state = r.state /\ k.req = r.req /\ k.io = r.io
      BY <2>2, <3>1, UnflushedFields
    <3>3. owed.op = "append"
      BY <1>1, <1>4, <1>5, <2>3 DEF Control, Serves
    <3>4. k.req = owed /\ k.state = "Appending" /\ ~k.walking /\ k.io = NoIO
      BY <1>3, <1>5, <2>2, <2>3, <3>2 DEF SameScan, SameTask
    <3>5. PICK m : m = append_to_pagebuffer(k)
      OBVIOUS
    <3>6. m \in Rams /\ m.deferred /\ m.io = k.io /\ SameScan(m, k) /\ SameTask(m, k)
      BY <3>2, <3>3, <3>4, <3>5, AppendFields
    <3>7. Served(m, owed)
      BY <3>3, <3>4, <3>6 DEF Served, Serves, SameScan, SameTask
    <3>8. Control(m, owed) /\ ram' = m
      BY <1>1, <2>2, <2>3, <3>1, <3>5, <3>7, ServedControl, BecomeRam
    <3> QED
      BY <1>1, <2>1, <2>3, <3>6, <3>8 DEF InvType, Waiting
  <2>4. CASE Callback([IF l.app % PageSize = 0 THEN reset_pagebuffer(l) ELSE l
                       EXCEPT !.err = "Ok", !.got = 0], log)
    <3>1. PICK k : k = IF l.app % PageSize = 0 THEN r ELSE l
      OBVIOUS
    <3>2. k \in Rams /\ ~k.walking
      BY <1>3, <1>5, <2>2, <3>1 DEF SameScan
    <3>3. PICK m : m = [k EXCEPT !.err = "Ok", !.got = 0]
      OBVIOUS
    <3>4. "Ok" \in Errs
      BY DEF Errs
    <3>5. m \in Rams /\ SameScan(m, k)
      BY <3>2, <3>3, <3>4, OutcomeFields
    <3>6. ~m.walking /\ Callback(m, log)
      BY <2>2, <2>4, <3>1, <3>2, <3>3, <3>5 DEF SameScan
    <3> QED
      BY <1>6, <2>1, <3>5, <3>6
  <2> QED
    BY <1>8, <2>3, <2>4
<1> QED
  BY <1>2, <1>7, <1>8 DEF write_complete, Completed

LEMMA EraseTaken ==
  ASSUME InvType, ram.io.op = "erase"
  PROVE  /\ ram.io.page \in Logicals /\ Quiet(Completed(ram)) /\ ~ram.walking /\ Working(ram)
         /\ owed # NoOp /\ owed = ram.req /\ ram.state = "Erasing"
<1>1. ram \in Rams /\ ram.io \in IOs /\ Control(ram, owed)
  BY DEF InvType, Rams
<1>2. ram.io # NoIO /\ ram.io.page \in Logicals
  BY <1>1, IOFields
<1>3. ~ram.deferred /\ Working(ram) /\ owed # NoOp /\ owed = ram.req /\ ~ram.walking /\ ram.state = "Erasing"
  BY <1>1, <1>2 DEF Control, Working
<1> QED
  BY <1>1, <1>2, <1>3, CompletedFields DEF Quiet

LEMMA OldestFields ==
  ASSUME NEW l \in Rams
  PROVE  LET m == [l EXCEPT !.oldest = @ + PageSize] IN
         /\ m \in Rams /\ m.oldest = l.oldest + PageSize /\ m.app = l.app /\ m.pbuf = l.pbuf
         /\ SameScan(m, l) /\ SameCache(m, l) /\ m.rd = l.rd /\ m.pbPage = l.pbPage /\ SameTask(m, l)
         /\ m.io = l.io /\ m.deferred = l.deferred
<1>1. PICK d \in Nat : d = l.oldest + PageSize
  BY Sizes DEF Rams
<1>2. [l EXCEPT !.oldest = @ + PageSize] = [l EXCEPT !.oldest = d]
  BY <1>1
<1> QED
  BY <1>1, <1>2 DEF Rams, SameScan, SameCache, SameTask

LEMMA EraseType ==
  ASSUME InvType, NEW ok \in BOOLEAN, erase_complete(ok)
  PROVE  InvType'
<1>1. ram \in Rams /\ Control(ram, owed) /\ ram.io.op = "erase" /\ owed \in AllRequests
  BY DEF InvType, erase_complete
<1>2. PICK l : l = Completed(ram)
  OBVIOUS
<1>3. l \in Rams /\ SameScan(l, ram) /\ SameTask(l, ram) /\ l.io = NoIO
  BY <1>1, <1>2, CompletedFields
<1>4. /\ ram.io.page \in Logicals /\ Quiet(l) /\ ~ram.walking /\ Working(ram)
      /\ owed # NoOp /\ owed = ram.req /\ ram.state = "Erasing"
  BY <1>1, <1>2, EraseTaken
<1>5. ~l.walking /\ l.req = owed /\ l.state = "Erasing" /\ owed.op = "erase"
  BY <1>1, <1>3, <1>4 DEF SameScan, SameTask, Control, Serves
<1>6. ASSUME NEW k \in Rams, NEW kept, ~k.walking, Callback(k, kept), flash' \in [Logicals -> Sheets]
      PROVE  InvType'
  <2>1. ram' \in Rams /\ owed' = NoOp /\ Control(ram', NoOp) /\ UNCHANGED <<count, resets>>
    BY <1>6, CallbackType
  <2> QED
    BY <1>6, <2>1, NoOpType DEF InvType
<1>7. "FAIL" \in Errs /\ "Ok" \in Errs
  BY DEF Errs
<1>8. CASE Callback([l EXCEPT !.err = "FAIL", !.got = 0], log) /\ UNCHANGED flash
  <2>1. PICK k : k = [l EXCEPT !.err = "FAIL", !.got = 0]
    OBVIOUS
  <2>2. k \in Rams /\ SameScan(k, l)
    BY <1>3, <1>7, <2>1, OutcomeFields
  <2>3. ~k.walking /\ flash' \in [Logicals -> Sheets]
    BY <1>5, <1>8, <2>2 DEF SameScan, InvType
  <2> QED
    BY <1>6, <1>8, <2>1, <2>2, <2>3
<1>9. CASE /\ flash' = [flash EXCEPT ![ram.io.page] = Erased]
           /\ Callback([reset_state_empty(l) EXCEPT !.err = "Ok", !.got = 0], {})
  <2>1. flash' \in [Logicals -> Sheets]
    BY <1>4, <1>9, ErasedType DEF InvType
  <2>2. PICK r \in Rams : r = reset_state_empty(l) /\ SameScan(r, l)
    BY <1>3, EmptyFields
  <2>3. PICK k : k = [r EXCEPT !.err = "Ok", !.got = 0]
    OBVIOUS
  <2>4. k \in Rams /\ SameScan(k, r)
    BY <1>7, <2>2, <2>3, OutcomeFields
  <2>5. ~k.walking
    BY <1>5, <2>2, <2>4 DEF SameScan
  <2> QED
    BY <1>6, <1>9, <2>1, <2>2, <2>3, <2>4, <2>5
<1>10. ASSUME flash' = [flash EXCEPT ![ram.io.page] = Erased], NEW kept, Waiting,
              Become(erase_oldest_page([l EXCEPT !.oldest = @ + PageSize]), kept)
       PROVE  InvType'
  <2>1. flash' \in [Logicals -> Sheets]
    BY <1>4, <1>10, ErasedType DEF InvType
  <2>2. PICK r : r = [l EXCEPT !.oldest = @ + PageSize]
    OBVIOUS
  <2>3. r \in Rams /\ SameScan(r, l) /\ SameTask(r, l) /\ r.deferred = l.deferred
    BY <1>3, <2>2, OldestFields
  <2>4. PICK m : m = erase_oldest_page(r)
    OBVIOUS
  <2>5. ~r.deferred
    BY <1>4, <2>3 DEF Quiet
  <2>6. m \in Rams /\ ~m.deferred /\ m.io.op = "erase" /\ m.io # NoIO /\ SameScan(m, r) /\ SameTask(m, r)
    BY <2>3, <2>4, <2>5, EraseIO
  <2>7. Served(m, owed)
    BY <1>5, <2>3, <2>6 DEF Served, Serves, SameScan, SameTask
  <2>8. Control(m, owed)
    BY <1>1, <2>7, ServedControl
  <2>9. ram' = m
    BY <1>10, <2>2, <2>4, BecomeRam
  <2> QED
    BY <1>1, <1>10, <2>1, <2>6, <2>8, <2>9 DEF InvType, Waiting
<1> QED
  BY <1>2, <1>8, <1>9, <1>10 DEF erase_complete, Completed

LEMMA ResetType ==
  ASSUME InvType, Reset
  PROVE  InvType'
<1>1. ram' = Boot /\ owed' = NoOp /\ UNCHANGED count /\ resets' = resets + 1 /\ resets < MaxResets
  BY DEF Reset
<1>2. resets' \in 0..MaxResets
  BY <1>1, ClientAssumption DEF InvType
<1>3. flash' \in [Logicals -> Sheets]
  <2>1. CASE UNCHANGED flash
    BY <2>1 DEF InvType
  <2>2. CASE ram.io.op = "write" /\ flash' = [flash EXCEPT ![ram.io.page] = ram.pbuf]
    BY <2>2, WriteTaken DEF InvType, Rams
  <2>3. CASE ram.io.op = "erase" /\ flash' = [flash EXCEPT ![ram.io.page] = Erased]
    BY <2>3, EraseTaken, ErasedType DEF InvType
  <2> QED
    BY <2>1, <2>2, <2>3 DEF Reset
<1> QED
  BY <1>1, <1>2, <1>3, BootFields, BootControl, NoOpType DEF InvType

LEMMA InvTypeHolds == Spec => []InvType
<1>1. InvType /\ [Next]_vars => InvType'
  <2>1. SUFFICES ASSUME InvType, [Next]_vars PROVE InvType'
    OBVIOUS
  <2>2. CASE UNCHANGED vars
    BY <2>1, <2>2 DEF vars, InvType
  <2>3. CASE Next
    <3>1. ASSUME NEW o \in Requests, Call(o) PROVE InvType'
      BY <2>1, <3>1, CallType
    <3>2. CASE handle_deferred_call
      BY <2>1, <3>2, DeferredType
    <3>3. ASSUME NEW ok \in BOOLEAN, FlashDone(ok) PROVE InvType'
      BY <2>1, <3>3, ReadType, WriteType, EraseType DEF FlashDone
    <3>4. CASE Reset
      BY <2>1, <3>4, ResetType
    <3> QED
      BY <2>3, <3>1, <3>2, <3>3, <3>4 DEF Next
  <2> QED
    BY <2>1, <2>2, <2>3
<1> QED
  BY InitType, <1>1, PTL DEF Spec

(* logging_flash.rs, all entries of the capsule: whatever the geometry, the
   client, the faults and the resets, pages and cursors keep their types, the
   flash has at most one operation and then no callback is due, and the
   client waits exactly while the capsule works for it or has dropped its
   request.                                                                 *)
THEOREM TypeCorrect == Spec => []TypeOK
<1>1. InvType => TypeOK
  <2>1. SUFFICES ASSUME InvType PROVE TypeOK
    OBVIOUS
  <2>2. /\ ram.state \in States /\ ram.oldest \in Nat /\ ram.rd \in Nat /\ ram.app \in Nat
        /\ ram.pbuf \in Sheets /\ ram.rbuf \in Sheets /\ ram.pbPage \in Labels /\ ram.rbPage \in Labels
        /\ ram.io \in IOs
    BY <2>1 DEF InvType, Rams
  <2>3. \A p \in Logicals : flash[p] \in Pages
    BY <2>1 DEF InvType, Sheets
  <2>4. ram.pbuf \in Pages /\ ram.rbuf \in Pages
    BY <2>2 DEF Sheets
  <2>5. ram.io # NoIO => ~ram.deferred /\ ram.io.page \in Logicals
    BY <2>1, <2>2, IOFields DEF InvType, Control
  <2>6. ram.state \notin {"NotReady", "Idle"} => owed # NoOp /\ (ram.io # NoIO \/ ram.deferred)
    BY <2>1 DEF InvType, Control, Working
  <2>7. count \in 0..MaxEntries /\ resets \in 0..MaxResets
    BY <2>1 DEF InvType
  <2> QED
    BY <2>2, <2>3, <2>4, <2>5, <2>6, <2>7 DEF TypeOK, Labels
<1> QED
  BY InvTypeHolds, <1>1, PTL
-----------------------------------------------------------------------------
(* Pages whose entries follow each other *)

(* The entries of the page fill it from offset 1 to n: a cell is payload, or
   the length of an entry that ends where the next one begins; padding or
   zeros follow.                                                            *)
WellFormed(page, n) ==
  /\ n \in 1..PageSize
  /\ n > 1 => page[1].len # Data(0).len
  /\ \A o \in 1..(n - 1) :
       \/ page[o].len = Data(0).len
       \/ /\ page[o].len >= 1 /\ o + 1 + page[o].len <= n
          /\ o + 1 + page[o].len < n => page[o + 1 + page[o].len].len # Data(0).len
  /\ \A o \in n..(PageSize - 1) : page[o] \in {PAD, ZERO}

(* All payload in the page is of entries after number n                     *)
After(page, n) == \A o \in Offsets : page[o].len = Data(0).len => page[o].val > n

LEMMA WellFormedWalk ==
  ASSUME NEW page \in Pages, NEW n, WellFormed(page, n)
  PROVE  WalkedLen(page) = n
<1>0. n \in 1..PageSize /\ n \in Nat
  BY Sizes DEF WellFormed
<1>1. PICK f : WalkOf(page, f) /\ WalkedLen(page) = f[1]
  BY WalkedLenIs
<1>2. ASSUME NEW o \in 1..PageSize
      PROVE  f[o] = WalkFrom(page, f, o)
  BY <1>1, <1>2 DEF WalkOf
<1> DEFINE Begins(o) == o = n \/ page[o].len # -2
           T == {k \in Nat : \A j \in Nat : j <= k /\ j < n /\ Begins(n - j) => f[n - j] = n}
<1>3. 0 \in T
  <2>1. f[n] = n
    <3>1. CASE n = PageSize
      BY <1>0, <1>2, <3>1 DEF WalkFrom
    <3>2. CASE n # PageSize
      <4>1. page[n] \in {PAD, ZERO}
        BY <1>0, <3>2, Sizes DEF WellFormed
      <4>2. page[n].len <= 0
        BY <4>1 DEF PAD, ZERO
      <4> QED
        BY <1>0, <1>2, <4>2 DEF WalkFrom
    <3> QED
      BY <3>1, <3>2
  <2>2. ASSUME NEW j \in Nat, j <= 0 PROVE n - j = n
    BY <1>0, <2>2
  <2> QED
    BY <2>1, <2>2
<1>4. ASSUME NEW k \in Nat, k \in T PROVE k + 1 \in T
  <2>1. SUFFICES ASSUME k + 1 < n, Begins(n - (k + 1)) PROVE f[n - (k + 1)] = n
    <3>1. ASSUME NEW j \in Nat, j <= k + 1 PROVE j <= k \/ j = k + 1
      BY <3>1
    <3> QED
      BY <1>4, <3>1
  <2>2. PICK o \in 1..(n - 1) : o = n - (k + 1)
    BY <1>0, <2>1
  <2>3. o \in Offsets /\ o # n /\ page[o].len \in Int
    BY <1>0, <2>2, Sizes, CellFields DEF Offsets
  <2>4. page[o].len # -2
    BY <2>1, <2>2, <2>3
  <2>5. /\ page[o].len >= 1 /\ o + 1 + page[o].len <= n
        /\ o + 1 + page[o].len < n => page[o + 1 + page[o].len].len # -2
    BY <2>4 DEF WellFormed, Data
  <2>6. PICK j \in Nat : n - j = o + 1 + page[o].len /\ j <= k /\ j < n
    <3>1. PICK z \in Int : z = page[o].len /\ z >= 1 /\ o + 1 + z <= n
      BY <2>3, <2>5
    <3>2. PICK j \in Nat : j = n - (o + 1 + z)
      BY <1>0, <2>2, <3>1
    <3>3. n - j = o + 1 + z /\ j <= k /\ j < n
      BY <1>0, <2>2, <3>1, <3>2
    <3> QED
      BY <3>1, <3>3
  <2>7. Begins(n - j)
    BY <1>0, <2>3, <2>5, <2>6
  <2>8. f[o + 1 + page[o].len] = n
    BY <1>4, <2>6, <2>7
  <2>9. f[o] = WalkFrom(page, f, o)
    BY <1>0, <1>2, <2>2, Sizes
  <2> QED
    BY <1>0, <2>2, <2>3, <2>5, <2>8, <2>9, Sizes DEF WalkFrom
<1> HIDE DEF T
<1>5. n - 1 \in Nat /\ n - 1 \in T
  BY <1>0, <1>3, <1>4, SetInduction
<1> USE DEF T
<1>6. Begins(n - (n - 1))
  BY <1>0 DEF WellFormed, Data
<1>7. f[n - (n - 1)] = n /\ n - (n - 1) = 1
  BY <1>0, <1>5, <1>6
<1> QED
  BY <1>1, <1>7

LEMMA BlankWellFormed ==
  ASSUME NEW page, \A o \in 1..(PageSize - 1) : page[o] \in {PAD, ZERO}
  PROVE  WellFormed(page, 1)
  BY Sizes DEF WellFormed

LEMMA FreshCells ==
  ASSUME NEW id \in Nat, NEW n
  PROVE  WellFormed(Fresh(id), 1) /\ After(Fresh(id), n) /\ Fresh(id)[0] = Header(id)
<1>1. \A o \in 1..(PageSize - 1) : Fresh(id)[o] = ZERO
  BY Sizes DEF Fresh, Offsets
<1>2. Fresh(id)[0] = Header(id)
  BY Sizes DEF Fresh, Offsets
<1>3. \A o \in Offsets : Fresh(id)[o].len # Data(0).len
  BY DEF Fresh, ZERO, Header, Data
<1> QED
  BY <1>1, <1>2, <1>3, BlankWellFormed DEF After

LEMMA ErasedCells ==
  ASSUME NEW n, NEW p
  PROVE  WellFormed(Erased, 1) /\ After(Erased, n) /\ ~ValidHeader(Erased, p)
<1>1. \A o \in Offsets : Erased[o] = PAD
  BY DEF Erased
<1>2. \A o \in 1..(PageSize - 1) : Erased[o] = PAD
  BY <1>1, Sizes DEF Offsets
<1>3. Erased[0] = PAD
  BY <1>1, Sizes DEF Offsets
<1> QED
  BY <1>1, <1>2, <1>3, BlankWellFormed DEF After, PAD, Data, ValidHeader, Header

LEMMA PaddedCells ==
  ASSUME NEW page \in Sheets, NEW n, WellFormed(page, n), NEW t
  PROVE  LET q == PaddedFrom(page, n) IN
         /\ WellFormed(q, n) /\ q[0] = page[0] /\ q = PaddedFrom(q, n)
         /\ After(page, t) => After(q, t)
         /\ \A o \in 0..(n - 1) : q[o] = page[o]
<1>0. n \in 1..PageSize
  BY DEF WellFormed
<1>1. PICK q : q = PaddedFrom(page, n)
  OBVIOUS
<1>2. \A o \in Offsets : q[o] = IF o >= n THEN PAD ELSE page[o]
  BY <1>1 DEF PaddedFrom
<1>3. \A o \in 0..(n - 1) : q[o] = page[o]
  BY <1>0, <1>2, Sizes DEF Offsets
<1>4. \A o \in n..(PageSize - 1) : q[o] = PAD
  BY <1>0, <1>2, Sizes DEF Offsets
<1>5. WellFormed(q, n)
  <2>1. n > 1 => q[1].len # Data(0).len
    BY <1>0, <1>3 DEF WellFormed
  <2>2. ASSUME NEW o \in 1..(n - 1)
        PROVE  \/ q[o].len = Data(0).len
               \/ /\ q[o].len >= 1 /\ o + 1 + q[o].len <= n
                  /\ o + 1 + q[o].len < n => q[o + 1 + q[o].len].len # Data(0).len
    <3>1. q[o] = page[o] /\ o \in Offsets
      BY <1>0, <1>3, Sizes DEF Offsets
    <3>2. page[o].len \in Int
      BY <3>1, CellFields DEF Sheets
    <3>3. page[o].len >= 1 /\ o + 1 + page[o].len < n => q[o + 1 + page[o].len] = page[o + 1 + page[o].len]
      BY <1>0, <1>3, <3>2
    <3> QED
      BY <3>1, <3>2, <3>3 DEF WellFormed
  <2> QED
    BY <1>0, <1>4, <2>1, <2>2 DEF WellFormed
<1>6. q[0] = page[0]
  BY <1>0, <1>3
<1>7. q = PaddedFrom(q, n)
  <2>1. PaddedFrom(q, n) = [o \in Offsets |-> IF o >= n THEN PAD ELSE q[o]]
    BY DEF PaddedFrom
  <2>2. q = [o \in Offsets |-> q[o]]
    BY <1>1 DEF PaddedFrom
  <2>3. \A o \in Offsets : q[o] = IF o >= n THEN PAD ELSE q[o]
    BY <1>2
  <2> QED
    BY <2>1, <2>2, <2>3
<1>8. After(page, t) => After(q, t)
  BY <1>2 DEF After, PAD, Data
<1> QED
  BY <1>1, <1>3, <1>5, <1>6, <1>7, <1>8

LEMMA WithEntryCells ==
  ASSUME NEW page \in Sheets, NEW n, WellFormed(page, n), NEW b,
         b.len \in Nat, b.len > 0, n + 1 + b.len <= PageSize, NEW t, b.tag > t
  PROVE  LET q == WithEntry(page, n, b) IN
         /\ WellFormed(q, n + 1 + b.len) /\ q[0] = page[0]
         /\ After(page, t) => After(q, t)
         /\ \A o \in 0..(n - 1) : q[o] = page[o]
         /\ q[n] = [len |-> b.len, val |-> b.tag]
         /\ \A i \in 1..b.len : q[n + i] = Data(b.tag)
<1>0. n \in 1..PageSize /\ n \in Nat /\ n < PageSize
  BY Sizes DEF WellFormed
<1>1. PICK q : q = WithEntry(page, n, b)
  OBVIOUS
<1>2. \A o \in Offsets : q[o] = IF o = n THEN [len |-> b.len, val |-> b.tag]
                     ELSE IF o \in (n + 1)..(n + b.len) THEN Data(b.tag)
                     ELSE page[o]
  BY <1>1 DEF WithEntry
<1>3. \A o \in 0..(n - 1) : q[o] = page[o]
  BY <1>0, <1>2, Sizes DEF Offsets
<1>4. q[n] = [len |-> b.len, val |-> b.tag]
  BY <1>0, <1>2, Sizes DEF Offsets
<1>5. \A o \in (n + 1)..(n + b.len) : q[o] = Data(b.tag)
  BY <1>0, <1>2, Sizes DEF Offsets
<1>6. \A o \in (n + 1 + b.len)..(PageSize - 1) : q[o] = page[o]
  BY <1>0, <1>2, Sizes DEF Offsets
<1>7. PICK z \in Nat : z = n + 1 + b.len
  BY <1>0
<1>8. WellFormed(q, z)
  <2>1. z \in 1..PageSize
    BY <1>0, <1>7, Sizes
  <2>2. q[1].len # -2
    <3>1. CASE n = 1
      BY <1>4, <3>1
    <3>2. CASE n > 1
      BY <1>0, <1>3, <3>2 DEF WellFormed, Data
    <3> QED
      BY <1>0, <3>1, <3>2
  <2>3. ASSUME NEW o \in 1..(z - 1)
        PROVE  \/ q[o].len = -2
               \/ /\ q[o].len >= 1 /\ o + 1 + q[o].len <= z
                  /\ o + 1 + q[o].len < z => q[o + 1 + q[o].len].len # -2
    <3>1. CASE o < n
      <4>1. q[o] = page[o] /\ o \in Offsets /\ o \in 1..(n - 1)
        BY <1>0, <1>3, <3>1, Sizes DEF Offsets
      <4>2. page[o].len \in Int
        BY <4>1, CellFields DEF Sheets
      <4>3. \/ page[o].len = -2
            \/ /\ page[o].len >= 1 /\ o + 1 + page[o].len <= n
               /\ o + 1 + page[o].len < n => page[o + 1 + page[o].len].len # -2
        BY <4>1 DEF WellFormed, Data
      <4>4. page[o].len >= 1 /\ o + 1 + page[o].len < n => q[o + 1 + page[o].len] = page[o + 1 + page[o].len]
        BY <1>0, <1>3, <4>2
      <4>5. q[n].len # -2
        BY <1>4
      <4>6. page[o].len >= 1 /\ o + 1 + page[o].len <= n => o + 1 + page[o].len <= z
        BY <1>0, <1>7, <4>2
      <4>7. page[o].len >= 1 /\ o + 1 + page[o].len <= n =>
              o + 1 + page[o].len < n \/ o + 1 + page[o].len = n
        BY <1>0, <4>2
      <4> QED
        BY <4>1, <4>3, <4>4, <4>5, <4>6, <4>7
    <3>2. CASE o = n
      <4>1. q[o].len = b.len /\ o + 1 + b.len = z
        BY <1>4, <1>7, <3>2
      <4> QED
        BY <4>1, <1>7
    <3>3. CASE o > n
      <4>1. o \in (n + 1)..(n + b.len)
        BY <1>0, <1>7, <3>3
      <4> QED
        BY <1>5, <4>1 DEF Data
    <3> QED
      BY <1>0, <3>1, <3>2, <3>3
  <2>4. \A o \in z..(PageSize - 1) : q[o] \in {PAD, ZERO}
    <3>1. \A o \in z..(PageSize - 1) : o \in n..(PageSize - 1) /\ q[o] = page[o]
      BY <1>0, <1>6, <1>7
    <3> QED
      BY <3>1 DEF WellFormed
  <2> QED
    BY <2>1, <2>2, <2>3, <2>4 DEF WellFormed, Data
<1>9. After(page, t) => After(q, t)
  <2>1. \A o \in Offsets : q[o].len = -2 => q[o] = Data(b.tag) \/ q[o] = page[o]
    BY <1>2
  <2> QED
    BY <2>1 DEF After, Data
<1>10. \A i \in 1..b.len : q[n + i] = Data(b.tag)
  <2>1. \A i \in 1..b.len : n + i \in (n + 1)..(n + b.len)
    BY <1>0
  <2> QED
    BY <1>5, <2>1
<1> QED
  BY <1>0, <1>1, <1>3, <1>4, <1>7, <1>8, <1>9, <1>10
(* Where page number k begins                                               *)
Base(k) == k * PageSize

LEMMA BaseFacts ==
  ASSUME NEW j \in Int, NEW k \in Int
  PROVE  /\ Base(j) \in Int /\ Base(j + 1) = Base(j) + PageSize
         /\ j \in Nat => Base(j) \in Nat
         /\ j < k => Base(j) + PageSize <= Base(k)
         /\ j <= k => Base(j) <= Base(k)
         /\ Base(j - NumPages) = Base(j) - Volume /\ Base(j + NumPages) = Base(j) + Volume
         /\ Base(0) = 0 /\ Base(NumPages) = Volume
<1>1. Base(j) \in Int /\ Base(j + 1) = Base(j) + PageSize
  BY PageAfter DEF Base
<1>2. j \in Nat => Base(j) \in Nat
  BY Sizes DEF Base
<1>3. Base(j - NumPages) = Base(j) - Volume /\ Base(j + NumPages) = Base(j) + Volume
  BY Sizes DEF Base, Volume
<1>4. Base(0) = 0 /\ Base(NumPages) = Volume
  BY Sizes DEF Base, Volume
<1>5. (j < k => Base(j) + PageSize <= Base(k)) /\ (j <= k => Base(j) <= Base(k))
  BY PageAfter DEF Base
<1> QED
  BY <1>1, <1>2, <1>3, <1>4, <1>5

LEMMA BaseOrder ==
  ASSUME NEW j \in Int, NEW k \in Int, NEW a \in Nat, Base(j) <= Base(k) + a, a < PageSize
  PROVE  j <= k
<1>1. ~(k < j)
  <2>1. ASSUME k < j PROVE FALSE
    <3>1. Base(k) + PageSize <= Base(j) /\ Base(k) \in Int /\ Base(j) \in Int
      BY <2>1, BaseFacts
    <3> QED
      BY <3>1, Sizes
  <2> QED
    BY <2>1
<1> QED
  BY <1>1

LEMMA PageOf ==
  ASSUME NEW k \in Nat, NEW o \in Offsets
  PROVE  /\ (Base(k) + o) \div PageSize = k /\ (Base(k) + o) % PageSize = o
         /\ logical_page_of_pos(Base(k) + o) = k % NumPages
<1>1. k \in Int
  OBVIOUS
<1> QED
  BY <1>1, PositionUnique, LogicalPage DEF Base

(* The append cursor is in page Last, after Used of its cells; the oldest
   entry is the first one of page First                                     *)
Rec(l)   == l.state \notin {"NotReady", "Reconstructing"}
Last(l)  == (l.app - 1) \div PageSize
First(l) == l.oldest \div PageSize
Used(l)  == l.app - Base(Last(l))

LEMMA AppIs ==
  ASSUME NEW l, NEW k \in Nat, NEW n \in 1..PageSize, l.app = Base(k) + n
  PROVE  /\ Last(l) = k /\ Used(l) = n /\ RoundUp(l.app) = Base(k) + PageSize
         /\ l.app % PageSize = IF n = PageSize THEN 0 ELSE n
<1>1. n - 1 \in Offsets /\ Base(k) \in Int
  BY BaseFacts, Sizes DEF Offsets
<1>2. l.app - 1 = Base(k) + (n - 1)
  BY <1>1
<1>3. Last(l) = k
  BY <1>1, <1>2, PageOf DEF Last
<1>4. Used(l) = n
  BY <1>1, <1>3 DEF Used
<1>5. RoundUp(l.app) = Base(k) + PageSize
  BY RoundUpAt DEF Base
<1>6. CASE n = PageSize
  <2>1. l.app = Base(k + 1) + 0 /\ 0 \in Offsets /\ k + 1 \in Nat
    BY <1>1, <1>6, BaseFacts, Sizes DEF Offsets
  <2>2. l.app % PageSize = 0
    BY <2>1, PageOf
  <2> QED
    BY <1>3, <1>4, <1>5, <1>6, <2>2
<1>7. CASE n # PageSize
  <2>1. n \in Offsets
    BY <1>7, Sizes DEF Offsets
  <2>2. l.app % PageSize = n
    BY <2>1, PageOf
  <2> QED
    BY <1>3, <1>4, <1>5, <1>7, <2>2
<1> QED
  BY <1>6, <1>7

LEMMA AppAt ==
  ASSUME NEW l \in Rams, l.app >= 1
  PROVE  /\ Last(l) \in Nat /\ Used(l) \in 1..PageSize /\ l.app = Base(Last(l)) + Used(l)
         /\ RoundUp(l.app) = Base(Last(l)) + PageSize
         /\ l.app % PageSize = IF Used(l) = PageSize THEN 0 ELSE Used(l)
<1>1. l.app - 1 \in Nat
  BY DEF Rams
<1>2. PICK k \in Nat, o \in Offsets : l.app - 1 = Base(k) + o /\ k = (l.app - 1) \div PageSize
  BY <1>1, Position DEF Base
<1>3. Base(k) \in Int /\ l.app \in Nat
  BY BaseFacts DEF Rams
<1>4. o + 1 \in 1..PageSize /\ l.app = Base(k) + (o + 1)
  BY <1>2, <1>3, Sizes DEF Offsets
<1> QED
  BY <1>4, AppIs

LEMMA OldestIs ==
  ASSUME NEW l, NEW k \in Nat, l.oldest = Base(k) + 1
  PROVE  First(l) = k /\ l.oldest % PageSize = 1 /\ logical_page_of_pos(l.oldest) = k % NumPages
<1>1. 1 \in Offsets
  BY Sizes DEF Offsets
<1> QED
  BY <1>1, PageOf DEF First

LEMMA OldestAt ==
  ASSUME NEW l \in Rams, l.oldest % PageSize = 1
  PROVE  /\ First(l) \in Nat /\ l.oldest = Base(First(l)) + 1
         /\ logical_page_of_pos(l.oldest) = First(l) % NumPages
<1>1. l.oldest \in Nat
  BY DEF Rams
<1>2. First(l) \in Nat /\ l.oldest = Base(First(l)) + 1
  BY <1>1, Position DEF Base, First
<1> QED
  BY <1>2, OldestIs

(* Entries are whole within their page                                      *)
EntryOK(e) ==
  /\ e.id \in Nat /\ e.len \in Nat /\ e.len > 0 /\ e.tag \in Nat
  /\ e.id % PageSize >= 1 /\ (e.id % PageSize) + e.len < PageSize

Off(e) == e.id % PageSize

LEMMA EntryAt ==
  ASSUME NEW e, EntryOK(e)
  PROVE  /\ PageNo(e) \in Nat /\ Off(e) \in 1..(PageSize - 1) /\ Off(e) + e.len < PageSize
         /\ e.id = Base(PageNo(e)) + Off(e) /\ Base(PageNo(e)) \in Int
         /\ \A page : InPage(page, e) <=>
              /\ page[Off(e)] = [len |-> e.len, val |-> e.tag]
              /\ \A i \in 1..e.len : page[Off(e) + i] = Data(e.tag)
<1>1. /\ PageNo(e) \in Nat /\ Off(e) \in Offsets /\ e.id = Base(PageNo(e)) + Off(e)
  BY Position DEF EntryOK, PageNo, Off, Base
<1>2. Off(e) \in 1..(PageSize - 1) /\ Off(e) + e.len < PageSize
  BY <1>1, Sizes DEF EntryOK, Off, Offsets
<1>3. Base(PageNo(e)) \in Int
  BY <1>1, BaseFacts
<1>4. ASSUME NEW i \in 1..e.len PROVE (e.id + i) % PageSize = Off(e) + i
  <2>1. Off(e) + i \in Offsets
    BY <1>2, Sizes DEF EntryOK, Offsets
  <2>2. e.id + i = Base(PageNo(e)) + (Off(e) + i)
    BY <1>1, <1>2, <1>3
  <2> QED
    BY <1>1, <2>1, <2>2, PageOf
<1>5. ASSUME NEW page
      PROVE  InPage(page, e) <=>
               /\ page[Off(e)] = [len |-> e.len, val |-> e.tag]
               /\ \A i \in 1..e.len : page[Off(e) + i] = Data(e.tag)
  BY <1>4 DEF InPage, Off
<1> QED
  BY <1>1, <1>2, <1>3, <1>5

LEMMA SameCells ==
  ASSUME NEW e, EntryOK(e), NEW page, NEW q, NEW n \in Nat,
         Off(e) + e.len < n, \A o \in 0..(n - 1) : q[o] = page[o], InPage(page, e)
  PROVE  InPage(q, e)
<1>1. Off(e) \in 1..(PageSize - 1) /\ e.len \in Nat /\ e.len > 0
  BY EntryAt DEF EntryOK
<1>2. page[Off(e)] = [len |-> e.len, val |-> e.tag] /\ \A i \in 1..e.len : page[Off(e) + i] = Data(e.tag)
  BY EntryAt
<1>3. Off(e) \in 0..(n - 1) /\ \A i \in 1..e.len : Off(e) + i \in 0..(n - 1)
  BY <1>1
<1>4. q[Off(e)] = page[Off(e)] /\ \A i \in 1..e.len : q[Off(e) + i] = page[Off(e) + i]
  BY <1>3
<1> QED
  BY <1>2, <1>4, EntryAt

(* An entry that is in a page is before the end of the page's entries       *)
LEMMA EntryWithin ==
  ASSUME NEW e, EntryOK(e), NEW page, NEW n, WellFormed(page, n), InPage(page, e)
  PROVE  Off(e) + e.len < n
<1>1. Off(e) \in 1..(PageSize - 1) /\ Off(e) + e.len < PageSize /\ e.len \in Nat /\ e.len > 0
  BY EntryAt DEF EntryOK
<1>2. page[Off(e) + e.len] = Data(e.tag)
  <2>1. e.len \in 1..e.len
    BY <1>1
  <2> QED
    BY <2>1, EntryAt
<1>3. n \in 1..PageSize
  BY DEF WellFormed
<1>4. ~(Off(e) + e.len \in n..(PageSize - 1))
  BY <1>2 DEF WellFormed, PAD, ZERO, Data
<1>5. PICK x \in Int : x = Off(e) + e.len /\ x < PageSize
  BY <1>1
<1>6. ~(x \in n..(PageSize - 1))
  BY <1>4, <1>5
<1>7. x < n
  BY <1>3, <1>5, <1>6, Sizes
<1> QED
  BY <1>5, <1>7

LEMMA HeaderOf ==
  ASSUME NEW page \in Sheets, NEW p \in Logicals, ValidHeader(page, p)
  PROVE  \E k \in Nat : page[0] = Header(Base(k)) /\ page[0].val = Base(k) /\ k % NumPages = p
<1>1. page \in Pages /\ 0 \in Offsets
  BY Sizes DEF Sheets, Offsets
<1>2. page[0].val \in Nat /\ page[0] \in Cells
  BY <1>1, CellFields DEF Pages
<1>3. PICK k \in Nat : page[0].val = Base(k) /\ k % NumPages = p
  BY <1>1, <1>2, ValidHeaderAt DEF Base
<1>4. page[0].len = -3
  BY DEF ValidHeader, Header
<1>5. page[0] \in [len : {Header(0).len}, val : Nat]
  <2>1. CASE page[0] \in {PAD, ZERO}
    BY <1>4, <2>1 DEF PAD, ZERO
  <2>2. CASE page[0] \in {Data(t) : t \in 1..MaxEntries}
    BY <1>4, <2>2 DEF Data
  <2>3. CASE page[0] \in [len : Lens, val : 1..MaxEntries]
    <3>1. page[0].len \in Lens
      BY <2>3
    <3>2. page[0].len \in Nat
      BY <3>1, ClientAssumption
    <3> QED
      BY <1>4, <3>2
  <2> QED
    BY <1>2, <2>1, <2>2, <2>3 DEF Cells
<1>6. page[0] = [len |-> -3, val |-> page[0].val]
  BY <1>4, <1>5
<1> QED
  BY <1>3, <1>6 DEF Header

LEMMA HeaderAt ==
  ASSUME NEW page, NEW k \in Nat, page[0] = Header(Base(k))
  PROVE  ValidHeader(page, k % NumPages) /\ page[0].val = Base(k)
  BY HeaderIsValid DEF Base

LEMMA FreshLogHeader ==
  ASSUME NEW page \in Sheets, page[0] = Header(PAGE_HEADER_SIZE), NEW p \in Logicals
  PROVE  ~ValidHeader(page, p)
<1>1. SUFFICES ASSUME ValidHeader(page, p) PROVE FALSE
  OBVIOUS
<1>2. PICK k \in Nat : page[0].val = Base(k)
  BY <1>1, HeaderOf
<1>3. Base(k) = 1
  BY <1>2 DEF Header, PAGE_HEADER_SIZE
<1>4. Base(0) = 0 /\ (k = 0 \/ Base(0) + PageSize <= Base(k))
  <2>1. 0 \in Int /\ k \in Int /\ (k = 0 \/ 0 < k)
    OBVIOUS
  <2> QED
    BY <2>1, BaseFacts
<1>5. k = 0 => Base(k) = Base(0)
  OBVIOUS
<1> QED
  BY <1>3, <1>4, <1>5, Sizes
-----------------------------------------------------------------------------
(* The log on flash and in the page buffer *)

Flashes == [Logicals -> Sheets]

OnFlash(fl, e) ==
  LET page == fl[PageNo(e) % NumPages]
  IN InPage(page, e) /\ (PageNo(e) > 0 => page[0] = Header(Base(PageNo(e))))

(* Pages on flash are well formed; one that a recovery accepts has entries,
   all from after the last erase                                            *)
FlashForm(fl, er) ==
  \A p \in Logicals : \E n \in 1..PageSize :
    WellFormed(fl[p], n) /\ (ValidHeader(fl[p], p) => n > 1 /\ After(fl[p], er))

(* The accepted pages are of one lap                                        *)
Window(fl) ==
  \A p, q \in Logicals : ValidHeader(fl[p], p) /\ ValidHeader(fl[q], q) =>
    fl[p][0].val < fl[q][0].val + Volume

Cursors(l) ==
  /\ l.app >= 1 /\ l.oldest % PageSize = 1
  /\ First(l) <= Last(l) /\ Last(l) <= First(l) + NumPages

Buffer(l, er) ==
  /\ WellFormed(l.pbuf, Used(l)) /\ After(l.pbuf, er)
  /\ \/ l.pbuf[0] = Header(Base(Last(l)))
     \/ Last(l) = 0 /\ l.pbuf[0] = Header(PAGE_HEADER_SIZE)

(* The accepted pages are between the cursors, but for the one that the next
   write overwrites                                                         *)
Placed(l, fl) ==
  \A p \in Logicals : ValidHeader(fl[p], p) =>
    /\ fl[p][0].val + 1 < l.app
    /\ Base(First(l)) <= fl[p][0].val \/ (fl[p][0].val = Base(Last(l) - NumPages) /\ Used(l) > 1)
    /\ fl[p][0].val = Base(Last(l)) => Last(l) < First(l) + NumPages

Entries(l, fl, lg, sf) ==
  \A e \in lg :
    /\ First(l) <= PageNo(e) /\ e.id + e.len < l.app
    /\ PageNo(e) # Last(l) \/ e \in sf => OnFlash(fl, e)
    /\ PageNo(e) = Last(l) => InPage(l.pbuf, e)

Good(l, fl, lg, sf, er) ==
  Cursors(l) /\ Buffer(l, er) /\ Placed(l, fl) /\ Entries(l, fl, lg, sf)

LEMMA HeaderVal ==
  ASSUME NEW fl \in Flashes, NEW p \in Logicals
  PROVE  fl[p] \in Sheets /\ fl[p] \in Pages /\ fl[p][0].val \in Nat
<1>1. fl[p] \in Sheets /\ fl[p] \in Pages /\ 0 \in Offsets
  BY Sizes DEF Flashes, Sheets, Offsets
<1> QED
  BY <1>1, CellFields

LEMMA SameGood ==
  ASSUME NEW m, NEW l, NEW fl, NEW lg, NEW sf, NEW er, SameStore(m, l), Good(l, fl, lg, sf, er)
  PROVE  Good(m, fl, lg, sf, er)
<1>1. Last(m) = Last(l) /\ Used(m) = Used(l) /\ First(m) = First(l)
  BY DEF SameStore, Last, Used, First
<1>2. Cursors(m) /\ Buffer(m, er)
  BY <1>1 DEF Good, Cursors, Buffer, SameStore
<1>3. Placed(m, fl)
  BY <1>1 DEF Good, Placed, SameStore
<1>4. Entries(m, fl, lg, sf)
  BY <1>1 DEF Good, Entries, SameStore
<1> QED
  BY <1>2, <1>3, <1>4 DEF Good

(* The entry that append_to_pagebuffer adds                                 *)
NewEntry(l) == [tag |-> l.req.tag, len |-> l.req.len, id |-> l.app]

LEMMA GoodAppend ==
  ASSUME NEW l \in Rams, NEW fl \in Flashes, NEW lg, NEW sf, NEW er, Good(l, fl, lg, sf, er),
         \A e \in lg : EntryOK(e), l.req.op = "append", l.req.tag > er, NewEntry(l) \notin sf,
         Used(l) + 1 + l.req.len <= PageSize
  PROVE  /\ Good(append_to_pagebuffer(l), fl, lg \cup {NewEntry(l)}, sf, er)
         /\ EntryOK(NewEntry(l)) /\ PageNo(NewEntry(l)) = Last(l)
<1> DEFINE m == append_to_pagebuffer(l)
           b == l.req
           n == Used(l)
           k == Last(l)
           x == NewEntry(l)
<1>1. b.len \in Nat /\ b.len > 0 /\ b.tag \in Nat /\ b \in AllRequests
  <2>1. b \in AllRequests
    BY DEF Rams
  <2>2. b.len \in Lens /\ b.tag \in 1..MaxEntries
    BY <2>1, RequestFields
  <2>3. b.len \in Nat \ {0}
    BY <2>2, ClientAssumption
  <2>4. b.tag \in Nat
    BY <2>2, ClientAssumption
  <2> QED
    BY <2>1, <2>3, <2>4
<1>2. /\ m.app = l.app + 1 + b.len /\ m.oldest = l.oldest
      /\ m.pbuf = WithEntry(l.pbuf, l.app % PageSize, b) /\ m \in Rams
  BY AppendFields
<1>3. l.app >= 1 /\ l.app \in Nat /\ l.pbuf \in Sheets
  BY DEF Good, Cursors, Rams
<1>4. /\ k \in Nat /\ n \in 1..PageSize /\ l.app = Base(k) + n
      /\ l.app % PageSize = IF n = PageSize THEN 0 ELSE n
  BY <1>3, AppAt
<1>5. n \in Nat /\ n < PageSize /\ l.app % PageSize = n /\ n \in Offsets /\ n \in 1..(PageSize - 1)
  BY <1>1, <1>4, Sizes DEF Offsets
<1>0. n + 1 + b.len <= PageSize /\ b.tag > er
  OBVIOUS
<1> HIDE DEF m, b, n, k
<1>6. Base(k) \in Int /\ m.app = Base(k) + (n + 1 + b.len) /\ n + 1 + b.len \in 1..PageSize
  <2>1. Base(k) \in Int
    BY <1>4, BaseFacts
  <2>2. PICK y \in Nat : y = b.len /\ y > 0 /\ n + 1 + y <= PageSize
    BY <1>0, <1>1
  <2>3. n + 1 + y \in 1..PageSize
    BY <1>5, <2>2, Sizes
  <2>4. m.app = Base(k) + (n + 1 + y)
    BY <1>2, <1>4, <1>5, <2>1, <2>2
  <2> QED
    BY <2>1, <2>2, <2>3, <2>4
<1>7. Last(m) = k /\ Used(m) = n + 1 + b.len /\ First(m) = First(l)
  BY <1>2, <1>4, <1>6, AppIs DEF First
<1>8. WellFormed(l.pbuf, n) /\ After(l.pbuf, er)
  BY DEF Good, Buffer, n
<1>9. PICK q : q = WithEntry(l.pbuf, n, b) /\ q = m.pbuf
  BY <1>2, <1>5
<1>10. /\ WellFormed(q, n + 1 + b.len) /\ q[0] = l.pbuf[0] /\ After(q, er)
       /\ \A o \in 0..(n - 1) : q[o] = l.pbuf[o]
       /\ q[n] = [len |-> b.len, val |-> b.tag]
       /\ \A i \in 1..b.len : q[n + i] = Data(b.tag)
  <2>1. LET z == WithEntry(l.pbuf, n, b) IN
         /\ WellFormed(z, n + 1 + b.len) /\ z[0] = l.pbuf[0]
         /\ After(l.pbuf, er) => After(z, er)
         /\ \A o \in 0..(n - 1) : z[o] = l.pbuf[o]
         /\ z[n] = [len |-> b.len, val |-> b.tag]
         /\ \A i \in 1..b.len : z[n + i] = Data(b.tag)
    BY <1>0, <1>1, <1>3, <1>8, WithEntryCells
  <2> QED
    BY <1>8, <1>9, <2>1
<1>11. Cursors(m)
  BY <1>1, <1>2, <1>3, <1>7 DEF Good, Cursors, k
<1>12. Buffer(m, er)
  BY <1>7, <1>9, <1>10 DEF Good, Buffer, k
<1>13. Placed(m, fl)
  <2>1. ASSUME NEW p \in Logicals, ValidHeader(fl[p], p)
        PROVE  /\ fl[p][0].val + 1 < m.app
               /\ Base(First(m)) <= fl[p][0].val
                  \/ (fl[p][0].val = Base(Last(m) - NumPages) /\ Used(m) > 1)
               /\ fl[p][0].val = Base(Last(m)) => Last(m) < First(m) + NumPages
    <3>1. /\ fl[p][0].val + 1 < l.app
          /\ Base(First(l)) <= fl[p][0].val \/ (fl[p][0].val = Base(k - NumPages))
          /\ fl[p][0].val = Base(k) => k < First(l) + NumPages
      BY <2>1 DEF Good, Placed, k
    <3>2. Used(m) > 1 /\ l.app < m.app /\ m.app \in Nat
      BY <1>1, <1>2, <1>3, <1>5, <1>7
    <3>3. fl[p][0].val + 1 < m.app
      <4>1. PICK y \in Nat : y = fl[p][0].val
        BY HeaderVal
      <4> QED
        BY <1>3, <3>1, <3>2, <4>1
    <3> QED
      BY <1>7, <3>1, <3>2, <3>3
  <2> QED
    BY <2>1 DEF Placed
<1>14. x = [tag |-> b.tag, len |-> b.len, id |-> l.app]
  BY DEF NewEntry, b
<1>15. EntryOK(x) /\ PageNo(x) = k /\ Off(x) = n
  <2>1. l.app \div PageSize = k /\ l.app % PageSize = n
    BY <1>4, <1>5, PageOf
  <2>2. PageNo(x) = k /\ Off(x) = n
    BY <1>14, <2>1 DEF PageNo, Off
  <2>3. n >= 1 /\ n + b.len < PageSize
    BY <1>0, <1>1, <1>5, <1>6, Sizes
  <2>4. EntryOK(x)
    BY <1>1, <1>3, <1>14, <2>1, <2>3 DEF EntryOK
  <2> QED
    BY <2>2, <2>4
<1> HIDE DEF x
<1>16. InPage(q, x)
  BY <1>10, <1>14, <1>15, EntryAt
<1>17. Entries(m, fl, lg \cup {x}, sf)
  <2>1. ASSUME NEW e \in lg
        PROVE  /\ First(m) <= PageNo(e) /\ e.id + e.len < m.app
               /\ PageNo(e) # Last(m) \/ e \in sf => OnFlash(fl, e)
               /\ PageNo(e) = Last(m) => InPage(m.pbuf, e)
    <3>1. /\ First(l) <= PageNo(e) /\ e.id + e.len < l.app /\ EntryOK(e)
          /\ PageNo(e) # k \/ e \in sf => OnFlash(fl, e)
          /\ PageNo(e) = k => InPage(l.pbuf, e)
      BY <2>1 DEF Good, Entries, k
    <3>2. e.id \in Nat /\ e.len \in Nat
      BY <3>1 DEF EntryOK
    <3>3. e.id + e.len < m.app
      BY <1>1, <1>2, <1>3, <3>1, <3>2
    <3>4. PageNo(e) = k => InPage(q, e)
      <4>1. SUFFICES ASSUME PageNo(e) = k PROVE InPage(q, e)
        OBVIOUS
      <4>2. e.id = Base(k) + Off(e) /\ Off(e) \in 1..(PageSize - 1)
        BY <3>1, <4>1, EntryAt
      <4>3. Off(e) + e.len < n
        BY <1>4, <1>5, <1>6, <3>1, <3>2, <4>2
      <4> QED
        BY <1>5, <1>10, <3>1, <4>1, <4>3, SameCells
    <3> QED
      BY <1>7, <1>9, <3>1, <3>3, <3>4
  <2>2. /\ First(m) <= PageNo(x) /\ x.id + x.len < m.app /\ PageNo(x) = Last(m) /\ x \notin sf
        /\ InPage(m.pbuf, x)
    <3>1. First(l) <= k
      BY DEF Good, Cursors, k
    <3>2. x.id + x.len < m.app
      BY <1>1, <1>2, <1>3, <1>14
    <3>3. x \notin sf
      BY DEF x
    <3> QED
      BY <1>7, <1>9, <1>15, <1>16, <3>1, <3>2, <3>3
  <2> QED
    BY <2>1, <2>2 DEF Entries
<1> QED
  BY <1>11, <1>12, <1>13, <1>15, <1>17 DEF Good, m, x, k
LEMMA BaseNext ==
  ASSUME NEW j \in Nat
  PROVE  j + 1 \in Nat /\ Base(j + 1) = Base(j) + PageSize /\ Base(j) \in Nat /\ Base(j + 1) \in Nat
<1>1. j \in Int /\ j + 1 \in Nat /\ j + 1 \in Int
  OBVIOUS
<1> QED
  BY <1>1, BaseFacts

LEMMA GoodPosition ==
  ASSUME NEW l \in Rams, NEW fl, NEW lg, NEW sf, NEW er, Good(l, fl, lg, sf, er)
  PROVE  /\ l.app >= 1 /\ l.app \in Nat /\ l.oldest \in Nat /\ l.pbuf \in Sheets
         /\ Last(l) \in Nat /\ Used(l) \in 1..PageSize /\ l.app = Base(Last(l)) + Used(l)
         /\ RoundUp(l.app) = Base(Last(l)) + PageSize
         /\ l.app % PageSize = IF Used(l) = PageSize THEN 0 ELSE Used(l)
         /\ First(l) \in Nat /\ l.oldest = Base(First(l)) + 1 /\ First(l) <= Last(l)
         /\ Last(l) <= First(l) + NumPages
         /\ logical_page_of_pos(l.oldest) = First(l) % NumPages
         /\ Base(Last(l)) \in Nat /\ Base(First(l)) \in Nat
<1>1. l.app >= 1 /\ l.oldest % PageSize = 1 /\ First(l) <= Last(l) /\ Last(l) <= First(l) + NumPages
  BY DEF Good, Cursors
<1>2. l.app \in Nat /\ l.oldest \in Nat /\ l.pbuf \in Sheets
  BY DEF Rams
<1>3. Last(l) \in Nat /\ First(l) \in Nat
  BY <1>1, AppAt, OldestAt
<1>4. Base(Last(l)) \in Nat /\ Base(First(l)) \in Nat
  BY <1>3, BaseFacts
<1> QED
  BY <1>1, <1>2, <1>3, <1>4, AppAt, OldestAt

(* The page that a flush writes, and what it leaves of the log              *)
LEMMA FlushPages ==
  ASSUME NEW l \in Rams, NEW fl, NEW lg, NEW sf, NEW er, Good(l, fl, lg, sf, er)
  PROVE  /\ logical_page_of_pos(RoundUp(l.app) - PageSize) = Last(l) % NumPages
         /\ RoundUp(l.app) \div PageSize = Last(l) + 1
         /\ RoundUp(l.app) > Volume <=> Last(l) >= NumPages
         /\ Last(l) >= NumPages =>
              logical_page_of_pos(RoundUp(l.app) - Volume - PageSize) = Last(l) % NumPages
         /\ Overwrites(l, l.oldest) <=> First(l) = Last(l) - NumPages
<1> DEFINE k == Last(l)
<1>1. k \in Nat /\ RoundUp(l.app) = Base(k) + PageSize /\ Base(k) \in Nat /\ First(l) \in Nat
  BY GoodPosition
<1>2. 0 \in Offsets
  BY Sizes DEF Offsets
<1> HIDE DEF k
<1>3. /\ RoundUp(l.app) - PageSize = Base(k) + 0 /\ RoundUp(l.app) = Base(k + 1) + 0
      /\ Base(k + 1) = Base(k) + PageSize
  <2>1. Base(k + 1) = Base(k) + PageSize
    BY <1>1, BaseFacts
  <2> QED
    BY <1>1, <2>1, Sizes
<1>4. logical_page_of_pos(RoundUp(l.app) - PageSize) = k % NumPages
  BY <1>1, <1>2, <1>3, PageOf
<1>5. RoundUp(l.app) \div PageSize = k + 1
  <2>1. k + 1 \in Nat
    BY <1>1
  <2> QED
    BY <1>2, <1>3, <2>1, PageOf
<1>6. RoundUp(l.app) > Volume <=> k >= NumPages
  <2>1. Base(NumPages) = Volume /\ NumPages \in Int /\ Volume \in Nat
    BY BaseFacts, Sizes, VolumeType
  <2>2. k >= NumPages => Base(NumPages) <= Base(k)
    BY <1>1, <2>1, BaseFacts
  <2>3. ~(k >= NumPages) => Base(k) + PageSize <= Base(NumPages)
    BY <1>1, <2>1, BaseFacts
  <2> QED
    BY <1>1, <2>1, <2>2, <2>3, Sizes
<1>7. k >= NumPages =>
        /\ logical_page_of_pos(RoundUp(l.app) - Volume - PageSize) = k % NumPages
        /\ (RoundUp(l.app) - Volume - PageSize) \div PageSize = k - NumPages
  <2>1. SUFFICES ASSUME k >= NumPages
                 PROVE /\ logical_page_of_pos(RoundUp(l.app) - Volume - PageSize) = k % NumPages
                       /\ (RoundUp(l.app) - Volume - PageSize) \div PageSize = k - NumPages
    OBVIOUS
  <2>2. k - NumPages \in Nat
    BY <1>1, <2>1, Sizes
  <2>3. Base(k - NumPages) = Base(k) - Volume
    BY <1>1, BaseFacts
  <2>4. RoundUp(l.app) - Volume - PageSize = Base(k - NumPages) + 0
    BY <1>1, <2>3, VolumeType, Sizes
  <2>5. (k - NumPages) % NumPages = k % NumPages
    BY <1>1, Modulo
  <2> QED
    BY <1>2, <2>2, <2>4, <2>5, PageOf
<1>8. Overwrites(l, l.oldest) <=> First(l) = k - NumPages
  <2>1. First(l) = l.oldest \div PageSize
    BY DEF First
  <2>2. First(l) = k - NumPages => k >= NumPages
    BY <1>1, Sizes
  <2> QED
    BY <1>6, <1>7, <2>1, <2>2 DEF Overwrites
<1> QED
  BY <1>4, <1>5, <1>6, <1>7, <1>8 DEF k

LEMMA GoodFlush ==
  ASSUME NEW l \in Rams, NEW fl \in Flashes, NEW lg, NEW sf, NEW er, Good(l, fl, lg, sf, er),
         \A e \in lg : EntryOK(e), Used(l) > 1
  PROVE  LET m == flush_pagebuffer(l) IN
         /\ Good(m, fl, {e \in lg : PageNo(e) # Last(l) - NumPages}, sf, er)
         /\ m.pbuf = PaddedFrom(m.pbuf, Used(l)) /\ m.io.page = Last(l) % NumPages
         /\ Last(m) < First(m) + NumPages /\ Last(m) = Last(l) /\ Used(m) = Used(l)
<1>1. PICK m : m = flush_pagebuffer(l)
  OBVIOUS
<1>2. /\ m \in Rams /\ m.app = l.app
      /\ m.io = [op |-> "write", page |-> logical_page_of_pos(RoundUp(l.app) - PageSize)]
      /\ m.pbuf = IF RoundUp(l.app) = l.app THEN l.pbuf ELSE PaddedFrom(l.pbuf, l.app % PageSize)
      /\ m.oldest = IF Overwrites(l, l.oldest) THEN l.oldest + PageSize ELSE l.oldest
  BY <1>1, FlushFields
<1>3. /\ l.app \in Nat /\ l.oldest \in Nat /\ l.pbuf \in Sheets
      /\ Last(l) \in Nat /\ Used(l) \in 1..PageSize /\ l.app = Base(Last(l)) + Used(l)
      /\ RoundUp(l.app) = Base(Last(l)) + PageSize
      /\ l.app % PageSize = IF Used(l) = PageSize THEN 0 ELSE Used(l)
      /\ First(l) \in Nat /\ l.oldest = Base(First(l)) + 1 /\ First(l) <= Last(l)
      /\ Last(l) <= First(l) + NumPages /\ Base(Last(l)) \in Nat /\ Base(First(l)) \in Nat
  BY GoodPosition
<1>0. /\ Last(l) \in Nat /\ First(l) \in Nat /\ NumPages \in Nat /\ NumPages > 0
      /\ First(l) <= Last(l) /\ Last(l) <= First(l) + NumPages
  BY <1>3, Sizes
<1>4. Last(m) = Last(l) /\ Used(m) = Used(l)
  BY <1>2 DEF Last, Used
<1>5. m.io.page = Last(l) % NumPages
  BY <1>2, FlushPages
<1>6. /\ First(m) = IF First(l) = Last(l) - NumPages THEN First(l) + 1 ELSE First(l)
      /\ m.oldest % PageSize = 1 /\ First(m) \in Nat
  <2>1. CASE First(l) = Last(l) - NumPages
    <3>1. m.oldest = l.oldest + PageSize
      BY <1>2, <2>1, FlushPages
    <3>2. Base(First(l) + 1) = Base(First(l)) + PageSize /\ First(l) + 1 \in Nat
      BY <1>0, BaseNext
    <3>4. m.oldest = Base(First(l) + 1) + 1
      BY <1>3, <3>1, <3>2, Sizes
    <3> QED
      BY <2>1, <3>2, <3>4, OldestIs
  <2>2. CASE First(l) # Last(l) - NumPages
    <3>1. m.oldest = l.oldest
      BY <1>2, <2>2, FlushPages
    <3>2. m.oldest = Base(First(l)) + 1
      BY <1>3, <3>1
    <3> QED
      BY <1>3, <2>2, <3>2, OldestIs
  <2> QED
    BY <2>1, <2>2
<1>7. First(m) <= Last(l) /\ Last(l) < First(m) + NumPages /\ First(l) <= First(m)
  BY <1>0, <1>6
<1>8. m.pbuf = PaddedFrom(l.pbuf, Used(l)) \/ (m.pbuf = l.pbuf /\ Used(l) = PageSize)
  <2>1. CASE Used(l) = PageSize
    BY <1>2, <1>3, <2>1
  <2>2. CASE Used(l) # PageSize
    <3>1. RoundUp(l.app) # l.app /\ l.app % PageSize = Used(l)
      BY <1>3, <2>2, Sizes
    <3> QED
      BY <1>2, <3>1
  <2> QED
    BY <2>1, <2>2
<1>9. WellFormed(l.pbuf, Used(l)) /\ After(l.pbuf, er)
  BY DEF Good, Buffer
<1>10. /\ WellFormed(m.pbuf, Used(l)) /\ m.pbuf[0] = l.pbuf[0] /\ m.pbuf = PaddedFrom(m.pbuf, Used(l))
       /\ After(m.pbuf, er) /\ \A o \in 0..(Used(l) - 1) : m.pbuf[o] = l.pbuf[o]
  <2>1. CASE m.pbuf = PaddedFrom(l.pbuf, Used(l))
    <3>1. LET q == PaddedFrom(l.pbuf, Used(l)) IN
          /\ WellFormed(q, Used(l)) /\ q[0] = l.pbuf[0] /\ q = PaddedFrom(q, Used(l))
          /\ After(l.pbuf, er) => After(q, er) /\ \A o \in 0..(Used(l) - 1) : q[o] = l.pbuf[o]
      BY <1>3, <1>9, PaddedCells
    <3> QED
      BY <1>9, <2>1, <3>1
  <2>2. CASE m.pbuf = l.pbuf /\ Used(l) = PageSize
    <3>1. PaddedFrom(l.pbuf, PageSize) = l.pbuf
      <4>1. l.pbuf = [i \in Offsets |-> l.pbuf[i]]
        BY <1>3 DEF Sheets, Pages
      <4>2. \A i \in Offsets : ~(i >= PageSize)
        BY Sizes DEF Offsets
      <4> QED
        BY <4>1, <4>2 DEF PaddedFrom
    <3> QED
      BY <1>9, <2>2, <3>1
  <2> QED
    BY <1>8, <2>1, <2>2
<1>11. Cursors(m)
  BY <1>2, <1>3, <1>4, <1>6, <1>7, Sizes DEF Good, Cursors
<1>12. Buffer(m, er)
  BY <1>4, <1>10 DEF Good, Buffer
<1>13. Placed(m, fl)
  <2>1. ASSUME NEW p \in Logicals, ValidHeader(fl[p], p)
        PROVE  /\ fl[p][0].val + 1 < m.app
               /\ Base(First(m)) <= fl[p][0].val
                  \/ (fl[p][0].val = Base(Last(m) - NumPages) /\ Used(m) > 1)
               /\ fl[p][0].val = Base(Last(m)) => Last(m) < First(m) + NumPages
    <3>1. /\ fl[p][0].val + 1 < l.app
          /\ Base(First(l)) <= fl[p][0].val \/ fl[p][0].val = Base(Last(l) - NumPages)
      BY <2>1 DEF Good, Placed
    <3>2. PICK j \in Nat : fl[p][0].val = Base(j)
      BY <2>1, HeaderVal, HeaderOf
    <3>3. Base(First(l)) <= Base(j) => First(l) <= j
      <4>1. Base(First(l)) <= Base(j) => Base(First(l)) <= Base(j) + 0
        BY BaseFacts
      <4>2. 0 \in Nat /\ 0 < PageSize /\ First(l) \in Int /\ j \in Int
        BY <1>0, Sizes
      <4> QED
        BY <4>1, <4>2, BaseOrder
    <3>4. Base(First(m)) <= Base(j) \/ Base(j) = Base(Last(l) - NumPages)
      <4>1. CASE Base(j) = Base(Last(l) - NumPages)
        BY <4>1
      <4>2. CASE First(l) <= j /\ First(l) # Last(l) - NumPages
        BY <1>3, <1>6, <4>2, BaseFacts
      <4>3. CASE First(l) <= j /\ First(l) = Last(l) - NumPages
        <5>1. CASE First(l) = j
          BY <4>3, <5>1
        <5>2. CASE First(l) < j
          <6>1. First(m) <= j
            BY <1>3, <1>6, <4>3, <5>2
          <6> QED
            BY <1>6, <6>1, BaseFacts
        <5> QED
          BY <1>0, <4>3, <5>1, <5>2
      <4> QED
        BY <3>1, <3>2, <3>3, <4>1, <4>2, <4>3
    <3> QED
      BY <1>2, <1>4, <1>7, <3>1, <3>2, <3>4
  <2> QED
    BY <2>1 DEF Placed
<1>14. Entries(m, fl, {e \in lg : PageNo(e) # Last(l) - NumPages}, sf)
  <2>1. ASSUME NEW e \in lg, PageNo(e) # Last(l) - NumPages
        PROVE  /\ First(m) <= PageNo(e) /\ e.id + e.len < m.app
               /\ PageNo(e) # Last(m) \/ e \in sf => OnFlash(fl, e)
               /\ PageNo(e) = Last(m) => InPage(m.pbuf, e)
    <3>1. /\ First(l) <= PageNo(e) /\ e.id + e.len < l.app /\ EntryOK(e)
          /\ PageNo(e) # Last(l) \/ e \in sf => OnFlash(fl, e)
          /\ PageNo(e) = Last(l) => InPage(l.pbuf, e)
      BY <2>1 DEF Good, Entries
    <3>2. e.id \in Nat /\ e.len \in Nat /\ PageNo(e) \in Nat
      BY <3>1, EntryAt DEF EntryOK
    <3>3. First(m) <= PageNo(e)
      BY <1>0, <1>6, <2>1, <3>1, <3>2
    <3>4. PageNo(e) = Last(l) => InPage(m.pbuf, e)
      <4>1. SUFFICES ASSUME PageNo(e) = Last(l) PROVE InPage(m.pbuf, e)
        OBVIOUS
      <4>2. e.id = Base(Last(l)) + Off(e) /\ Off(e) \in 1..(PageSize - 1)
        BY <3>1, <4>1, EntryAt
      <4>3. Off(e) + e.len < Used(l) /\ Used(l) \in Nat
        BY <1>3, <3>1, <3>2, <4>2
      <4> QED
        BY <1>10, <3>1, <4>1, <4>3, SameCells
    <3> QED
      BY <1>2, <1>4, <3>1, <3>3, <3>4
  <2> QED
    BY <2>1 DEF Entries
<1> QED
  BY <1>1, <1>4, <1>5, <1>7, <1>10, <1>11, <1>12, <1>13, <1>14 DEF Good
(* Order of two page numbers from that of their places, and back            *)
LEMMA BaseLeq ==
  ASSUME NEW j \in Int, NEW k \in Int
  PROVE  /\ Base(j) <= Base(k) <=> j <= k
         /\ Base(j) = Base(k) <=> j = k
         /\ Base(j) < Base(k) <=> j < k
         /\ Base(j) \in Int /\ Base(k) \in Int
<1>1. Base(j) \in Int /\ Base(k) \in Int
  BY BaseFacts
<1>2. (j < k => Base(j) + PageSize <= Base(k)) /\ (k < j => Base(k) + PageSize <= Base(j))
  BY BaseFacts
<1> QED
  BY <1>1, <1>2, Sizes

LEMMA FlashWith ==
  ASSUME NEW fl \in Flashes, NEW p0 \in Logicals, NEW page \in Sheets
  PROVE  LET fn == [fl EXCEPT ![p0] = page] IN
         fn \in Flashes /\ fn[p0] = page /\ \A p \in Logicals : p # p0 => fn[p] = fl[p]
  BY DEF Flashes

LEMMA WrittenPage ==
  ASSUME NEW l \in Rams, NEW fl \in Flashes, NEW lg, NEW sf, NEW er, Good(l, fl, lg, sf, er)
  PROVE  LET p0 == Last(l) % NumPages IN
         /\ p0 \in Logicals
         /\ ValidHeader(l.pbuf, p0) => l.pbuf[0].val = Base(Last(l))
<1> DEFINE p0 == Last(l) % NumPages
<1>1. Last(l) \in Nat /\ l.pbuf \in Sheets
  BY GoodPosition
<1>2. p0 \in Logicals
  BY <1>1, Modulo
<1>3. ASSUME ValidHeader(l.pbuf, p0) PROVE l.pbuf[0].val = Base(Last(l))
  <2>1. CASE l.pbuf[0] = Header(Base(Last(l)))
    BY <1>1, <2>1, HeaderAt
  <2>2. CASE l.pbuf[0] = Header(PAGE_HEADER_SIZE)
    BY <1>1, <1>2, <1>3, <2>2, FreshLogHeader
  <2> QED
    BY <2>1, <2>2 DEF Good, Buffer
<1> QED
  BY <1>2, <1>3

LEMMA GoodWrite ==
  ASSUME NEW l \in Rams, NEW fl \in Flashes, NEW lg, NEW sf, NEW er, Good(l, fl, lg, sf, er),
         FlashForm(fl, er), Window(fl), \A e \in lg : EntryOK(e),
         Used(l) > 1, Last(l) < First(l) + NumPages
  PROVE  LET fn == [fl EXCEPT ![Last(l) % NumPages] = l.pbuf] IN
         /\ fn \in Flashes /\ Good(l, fn, lg, lg, er) /\ FlashForm(fn, er) /\ Window(fn)
         /\ \A e \in lg : OnFlash(fn, e)
         /\ \A p \in Logicals : ValidHeader(fn[p], p) => Base(First(l)) <= fn[p][0].val
<1> DEFINE k  == Last(l)
           p0 == Last(l) % NumPages
           fn == [fl EXCEPT ![p0] = l.pbuf]
<1>1. /\ k \in Nat /\ First(l) \in Nat /\ First(l) <= k /\ k < First(l) + NumPages /\ l.pbuf \in Sheets
      /\ l.app = Base(k) + Used(l) /\ Used(l) \in 1..PageSize /\ l.app \in Nat
      /\ Base(k) \in Nat /\ Base(First(l)) \in Nat
  BY GoodPosition
<1>2. p0 \in Logicals /\ (ValidHeader(l.pbuf, p0) => l.pbuf[0].val = Base(k))
  BY WrittenPage
<1>3. fn \in Flashes /\ fn[p0] = l.pbuf /\ \A p \in Logicals : p # p0 => fn[p] = fl[p]
  BY <1>1, <1>2, FlashWith
<1>4. WellFormed(l.pbuf, Used(l)) /\ After(l.pbuf, er)
  BY DEF Good, Buffer
<1> HIDE DEF fn
<1>5. FlashForm(fn, er)
  <2>1. ASSUME NEW p \in Logicals
        PROVE  \E n \in 1..PageSize :
                 WellFormed(fn[p], n) /\ (ValidHeader(fn[p], p) => n > 1 /\ After(fn[p], er))
    <3>1. CASE p = p0
      BY <1>1, <1>3, <1>4, <3>1
    <3>2. CASE p # p0
      <4>1. fn[p] = fl[p]
        BY <1>3, <3>2
      <4> QED
        BY <4>1 DEF FlashForm
    <3> QED
      BY <3>1, <3>2
  <2> QED
    BY <2>1 DEF FlashForm
(* Every accepted page other than the written one is from First on          *)
<1>6. ASSUME NEW p \in Logicals, p # p0, ValidHeader(fl[p], p)
      PROVE  \E j \in Nat : fl[p][0].val = Base(j) /\ First(l) <= j /\ j < k
  <2>1. PICK j \in Nat : fl[p][0].val = Base(j) /\ j % NumPages = p
    BY <1>6, HeaderVal, HeaderOf
  <2>2. /\ fl[p][0].val + 1 < l.app
        /\ Base(First(l)) <= fl[p][0].val \/ fl[p][0].val = Base(k - NumPages)
    BY <1>6 DEF Good, Placed
  <2>3. k - NumPages \in Int /\ j \in Int /\ k \in Int /\ First(l) \in Int
    BY <1>1, Sizes
  <2>9. (k - NumPages) % NumPages = p0
    BY <2>3, Modulo
  <2>4. j # k - NumPages /\ j # k
    BY <1>6, <2>1, <2>9
  <2>5. Base(First(l)) <= Base(j)
    BY <2>1, <2>2, <2>3, <2>4, BaseLeq
  <2>6. First(l) <= j
    BY <2>3, <2>5, BaseLeq
  <2>7. ~(k < j)
    <3>1. k < j => Base(k) + PageSize <= Base(j)
      BY <2>3, BaseFacts
    <3>2. Base(j) \in Int
      BY <2>3, BaseLeq
    <3> QED
      BY <1>1, <2>1, <2>2, <3>1, <3>2, Sizes
  <2>8. j < k
    BY <2>3, <2>4, <2>7
  <2> QED
    BY <2>1, <2>6, <2>8
<1>7. ASSUME NEW p \in Logicals, ValidHeader(fn[p], p)
      PROVE  \E j \in Nat : fn[p][0].val = Base(j) /\ First(l) <= j /\ j <= k
  <2>1. CASE p = p0
    BY <1>1, <1>2, <1>3, <1>7, <2>1
  <2>2. CASE p # p0
    <3>1. fn[p] = fl[p]
      BY <1>3, <2>2
    <3>2. PICK j \in Nat : fl[p][0].val = Base(j) /\ First(l) <= j /\ j < k
      BY <1>6, <1>7, <2>2, <3>1
    <3>3. j <= k
      BY <1>1, <3>2
    <3> QED
      BY <3>1, <3>2, <3>3
  <2> QED
    BY <2>1, <2>2
<1>8. ASSUME NEW p \in Logicals, ValidHeader(fn[p], p)
      PROVE  /\ Base(First(l)) <= fn[p][0].val /\ fn[p][0].val + 1 < l.app
             /\ fn[p][0].val \in Nat /\ fn[p][0].val <= Base(k)
  <2>1. PICK j \in Nat : fn[p][0].val = Base(j) /\ First(l) <= j /\ j <= k
    BY <1>7, <1>8
  <2>2. Base(First(l)) <= Base(j) /\ Base(j) <= Base(k)
    BY <1>1, <2>1, BaseLeq
  <2>3. Base(j) \in Nat
    BY BaseNext
  <2> QED
    BY <1>1, <2>1, <2>2, <2>3
<1>9. Window(fn)
  <2>1. ASSUME NEW p \in Logicals, NEW q \in Logicals, ValidHeader(fn[p], p), ValidHeader(fn[q], q)
        PROVE  fn[p][0].val < fn[q][0].val + Volume
    <3>1. PICK j \in Nat : fn[p][0].val = Base(j) /\ First(l) <= j /\ j <= k
      BY <1>7, <2>1
    <3>2. PICK i \in Nat : fn[q][0].val = Base(i) /\ First(l) <= i /\ i <= k
      BY <1>7, <2>1
    <3>3. j < i + NumPages /\ i + NumPages \in Int
      BY <1>1, <3>1, <3>2, Sizes
    <3>4. Base(j) < Base(i + NumPages)
      BY <3>3, BaseLeq
    <3>5. Base(i + NumPages) = Base(i) + Volume
      BY BaseFacts
    <3> QED
      BY <3>1, <3>2, <3>4, <3>5
  <2> QED
    BY <2>1 DEF Window
<1>10. ASSUME NEW e \in lg PROVE OnFlash(fn, e)
  <2>1. /\ First(l) <= PageNo(e) /\ e.id + e.len < l.app /\ EntryOK(e)
        /\ PageNo(e) # k => OnFlash(fl, e)
        /\ PageNo(e) = k => InPage(l.pbuf, e)
    BY <1>10 DEF Good, Entries
  <2>2. PageNo(e) \in Nat /\ e.id = Base(PageNo(e)) + Off(e) /\ Off(e) \in 1..(PageSize - 1)
    BY <2>1, EntryAt
  <2>3. CASE PageNo(e) = k
    <3>1. fn[PageNo(e) % NumPages] = l.pbuf
      BY <1>3, <2>3
    <3>2. k > 0 => l.pbuf[0] = Header(Base(k))
      BY <1>1 DEF Good, Buffer
    <3> QED
      BY <2>1, <2>3, <3>1, <3>2 DEF OnFlash
  <2>4. CASE PageNo(e) # k
    <3>1. ~(k < PageNo(e))
      <4>1. k < PageNo(e) => Base(k) + PageSize <= Base(PageNo(e))
        BY <1>1, <2>2, BaseFacts
      <4>2. Base(PageNo(e)) \in Nat /\ e.len \in Nat
        BY <2>1, <2>2, BaseNext DEF EntryOK
      <4> QED
        BY <1>1, <2>1, <2>2, <4>1, <4>2, Sizes
    <3>2. PageNo(e) < k
      BY <1>1, <2>2, <2>4, <3>1
    <3>3. PageNo(e) % NumPages # p0
      <4>1. PageNo(e) % NumPages = k % NumPages => PageNo(e) + NumPages <= k
        BY <1>1, <2>2, <3>2, Congruent
      <4>2. ~(PageNo(e) + NumPages <= k)
        BY <1>1, <2>1, <2>2, Sizes
      <4> QED
        BY <4>1, <4>2
    <3>4. PageNo(e) % NumPages \in Logicals
      BY <2>2, Modulo
    <3>5. fn[PageNo(e) % NumPages] = fl[PageNo(e) % NumPages]
      BY <1>3, <3>3, <3>4
    <3> QED
      BY <2>1, <2>4, <3>5 DEF OnFlash
  <2> QED
    BY <2>3, <2>4
<1>11. Placed(l, fn)
  BY <1>1, <1>8 DEF Placed
<1>12. Entries(l, fn, lg, lg)
  BY <1>10 DEF Good, Entries
<1>13. Good(l, fn, lg, lg, er)
  BY <1>11, <1>12 DEF Good
<1> QED
  BY <1>3, <1>5, <1>8, <1>9, <1>10, <1>13 DEF fn

LEMMA GoodNextPage ==
  ASSUME NEW l \in Rams, NEW m \in Rams, NEW fl \in Flashes, NEW lg, NEW er, Good(l, fl, lg, lg, er),
         \A e \in lg : EntryOK(e), \A p \in Logicals : ValidHeader(fl[p], p) => Base(First(l)) <= fl[p][0].val,
         Last(l) < First(l) + NumPages,
         m.oldest = l.oldest, m.pbuf = Fresh(RoundUp(l.app)), m.app = RoundUp(l.app) + 1
  PROVE  Good(m, fl, lg, lg, er) /\ Last(m) = Last(l) + 1 /\ Used(m) = 1
<1> DEFINE k == Last(l)
<1>1. /\ k \in Nat /\ First(l) \in Nat /\ First(l) <= k /\ k < First(l) + NumPages
      /\ l.app = Base(k) + Used(l) /\ Used(l) \in 1..PageSize /\ l.app \in Nat
      /\ Base(k) \in Nat /\ RoundUp(l.app) = Base(k) + PageSize /\ l.oldest % PageSize = 1
  BY GoodPosition DEF Good, Cursors
<1>2. k + 1 \in Nat /\ Base(k + 1) = Base(k) + PageSize /\ Base(k + 1) \in Nat
  BY <1>1, BaseNext
<1> HIDE DEF k
<1>3. m.app = Base(k + 1) + 1 /\ 1 \in 1..PageSize /\ m.pbuf = Fresh(Base(k + 1))
  BY <1>1, <1>2, Sizes
<1>4. Last(m) = k + 1 /\ Used(m) = 1 /\ First(m) = First(l)
  BY <1>2, <1>3, AppIs DEF First
<1>5. Cursors(m)
  <2>1. m.app >= 1 /\ m.oldest % PageSize = 1
    BY <1>1, <1>2, <1>3
  <2>2. First(l) <= k + 1 /\ k + 1 <= First(l) + NumPages
    BY <1>1, Sizes
  <2> QED
    BY <1>4, <2>1, <2>2 DEF Cursors
<1>6. Buffer(m, er)
  BY <1>2, <1>3, <1>4, FreshCells DEF Buffer
<1>7. Placed(m, fl)
  <2>1. ASSUME NEW p \in Logicals, ValidHeader(fl[p], p)
        PROVE  /\ fl[p][0].val + 1 < m.app /\ Base(First(m)) <= fl[p][0].val /\ fl[p][0].val # Base(k + 1)
    <3>1. fl[p][0].val + 1 < l.app /\ Base(First(l)) <= fl[p][0].val
      BY <2>1 DEF Good, Placed
    <3>2. PICK v \in Nat : v = fl[p][0].val
      BY HeaderVal
    <3>3. v + 1 < Base(k + 1) + 1 /\ v # Base(k + 1)
      BY <1>1, <1>2, <3>1, <3>2, Sizes
    <3> QED
      BY <1>3, <1>4, <3>1, <3>2, <3>3
  <2> QED
    BY <1>4, <2>1 DEF Placed
<1>8. Entries(m, fl, lg, lg)
  <2>1. ASSUME NEW e \in lg
        PROVE  First(m) <= PageNo(e) /\ e.id + e.len < m.app /\ OnFlash(fl, e) /\ PageNo(e) # Last(m)
    <3>1. First(l) <= PageNo(e) /\ e.id + e.len < l.app /\ OnFlash(fl, e) /\ EntryOK(e)
      BY <2>1 DEF Good, Entries
    <3>2. PageNo(e) \in Nat /\ e.id = Base(PageNo(e)) + Off(e) /\ Off(e) \in 1..(PageSize - 1) /\ e.len \in Nat
      BY <3>1, EntryAt DEF EntryOK
    <3>3. e.id + e.len < m.app
      BY <1>1, <1>2, <1>3, <3>1, <3>2, Sizes DEF EntryOK
    <3>4. PageNo(e) # k + 1
      <4>1. ASSUME PageNo(e) = k + 1 PROVE FALSE
        <5>1. e.id = Base(k + 1) + Off(e)
          BY <3>2, <4>1
        <5> QED
          BY <1>1, <1>2, <3>1, <3>2, <5>1, Sizes
      <4> QED
        BY <4>1
    <3> QED
      BY <1>4, <3>1, <3>3, <3>4
  <2> QED
    BY <2>1 DEF Entries
<1> QED
  BY <1>4, <1>5, <1>6, <1>7, <1>8 DEF Good, k
LEMMA EntryPlace ==
  ASSUME NEW l \in Rams, NEW fl, NEW lg, NEW sf, NEW er, Good(l, fl, lg, sf, er),
         NEW e \in lg, EntryOK(e)
  PROVE  /\ PageNo(e) \in Nat /\ First(l) <= PageNo(e) /\ PageNo(e) <= Last(l)
         /\ Off(e) + e.len < PageSize /\ Off(e) \in 1..(PageSize - 1)
         /\ e.id = Base(PageNo(e)) + Off(e) /\ Base(PageNo(e)) \in Nat
         /\ PageNo(e) = Last(l) => Used(l) > 1
<1>1. /\ Last(l) \in Nat /\ Used(l) \in 1..PageSize /\ l.app = Base(Last(l)) + Used(l)
      /\ Base(Last(l)) \in Nat
  BY GoodPosition
<1>2. First(l) <= PageNo(e) /\ e.id + e.len < l.app
  BY DEF Good, Entries
<1>3. /\ PageNo(e) \in Nat /\ e.id = Base(PageNo(e)) + Off(e) /\ Off(e) \in 1..(PageSize - 1)
      /\ Off(e) + e.len < PageSize
  BY EntryAt
<1>4. Base(PageNo(e)) \in Nat /\ e.len \in Nat
  BY <1>3, BaseNext DEF EntryOK
<1>5. ~(Last(l) < PageNo(e))
  <2>1. Last(l) < PageNo(e) => Base(Last(l)) + PageSize <= Base(PageNo(e))
    BY <1>1, <1>3, BaseFacts
  <2> QED
    BY <1>1, <1>2, <1>3, <1>4, <2>1, Sizes
<1>6. PageNo(e) = Last(l) => Used(l) > 1
  <2>1. SUFFICES ASSUME PageNo(e) = Last(l) PROVE Used(l) > 1
    OBVIOUS
  <2>2. e.id = Base(Last(l)) + Off(e)
    BY <1>3, <2>1
  <2> QED
    BY <1>1, <1>2, <1>3, <1>4, <2>2
<1> QED
  BY <1>1, <1>2, <1>3, <1>4, <1>5, <1>6

(* The flash without its oldest page                                        *)
Without(l, fl) == [fl EXCEPT ![First(l) % NumPages] = Erased]

LEMMA WithoutPage ==
  ASSUME NEW l \in Rams, NEW fl \in Flashes, NEW lg, NEW sf, NEW er, Good(l, fl, lg, sf, er)
  PROVE  /\ First(l) % NumPages \in Logicals /\ Without(l, fl) \in Flashes
         /\ \A p \in Logicals : p # First(l) % NumPages => Without(l, fl)[p] = fl[p]
         /\ \A p \in Logicals : ValidHeader(Without(l, fl)[p], p) =>
              p # First(l) % NumPages /\ Without(l, fl)[p] = fl[p] /\ ValidHeader(fl[p], p)
<1>1. First(l) \in Nat
  BY GoodPosition
<1>2. First(l) % NumPages \in Logicals
  BY <1>1, Modulo
<1>3. /\ Without(l, fl) \in Flashes /\ Without(l, fl)[First(l) % NumPages] = Erased
      /\ \A p \in Logicals : p # First(l) % NumPages => Without(l, fl)[p] = fl[p]
  BY <1>2, ErasedType, FlashWith DEF Without
<1>4. \A p : ~ValidHeader(Erased, p)
  BY ErasedCells
<1> QED
  BY <1>2, <1>3, <1>4

LEMMA WithoutForm ==
  ASSUME NEW l \in Rams, NEW fl \in Flashes, NEW lg, NEW sf, NEW er, Good(l, fl, lg, sf, er),
         FlashForm(fl, er), Window(fl)
  PROVE  FlashForm(Without(l, fl), er) /\ Window(Without(l, fl))
<1> DEFINE fn == Without(l, fl)
<1>1. /\ \A p \in Logicals : p # First(l) % NumPages => fn[p] = fl[p]
      /\ \A p \in Logicals : ValidHeader(fn[p], p) =>
              p # First(l) % NumPages /\ fn[p] = fl[p] /\ ValidHeader(fl[p], p)
      /\ First(l) % NumPages \in Logicals
  BY WithoutPage
<1>2. fn[First(l) % NumPages] = Erased
  BY <1>1 DEF Without, Flashes
<1> HIDE DEF fn
<1>3. ASSUME NEW p \in Logicals
      PROVE  \E n \in 1..PageSize :
               WellFormed(fn[p], n) /\ (ValidHeader(fn[p], p) => n > 1 /\ After(fn[p], er))
  <2>1. CASE p # First(l) % NumPages
    BY <1>1, <2>1 DEF FlashForm
  <2>2. CASE p = First(l) % NumPages
    <3>1. WellFormed(fn[p], 1) /\ ~ValidHeader(fn[p], p)
      BY <1>2, <2>2, ErasedCells
    <3> QED
      BY <3>1 DEF WellFormed
  <2> QED
    BY <2>1, <2>2
<1>4. FlashForm(fn, er)
  BY <1>3 DEF FlashForm
<1>5. Window(fn)
  BY <1>1 DEF Window
<1> QED
  BY <1>4, <1>5 DEF fn

LEMMA WithoutEntry ==
  ASSUME NEW l \in Rams, NEW fl \in Flashes, NEW lg, NEW sf, NEW er, Good(l, fl, lg, sf, er),
         NEW e \in lg, EntryOK(e), PageNo(e) # First(l), PageNo(e) # Last(l) \/ e \in sf
  PROVE  OnFlash(Without(l, fl), e)
<1> DEFINE k == PageNo(e)
<1>1. k \in Nat /\ First(l) <= k /\ k <= Last(l)
  BY EntryPlace
<1>2. First(l) \in Nat /\ Last(l) \in Nat /\ Last(l) <= First(l) + NumPages
  BY GoodPosition
<1>3. OnFlash(fl, e)
  BY DEF Good, Entries
<1>4. First(l) < k
  BY <1>1, <1>2
<1>5. k % NumPages # First(l) % NumPages
  <2>1. SUFFICES ASSUME k % NumPages = First(l) % NumPages PROVE FALSE
    OBVIOUS
  <2>2. First(l) + NumPages <= k
    BY <1>1, <1>2, <1>4, <2>1, Congruent
  <2>3. k = First(l) + NumPages /\ k = Last(l) /\ k > 0
    BY <1>1, <1>2, <2>2, Sizes
  <2>4. fl[k % NumPages][0] = Header(Base(k))
    BY <1>3, <2>3 DEF OnFlash
  <2>5. ValidHeader(fl[k % NumPages], k % NumPages) /\ fl[k % NumPages][0].val = Base(k)
    BY <1>1, <2>4, HeaderAt
  <2>6. k % NumPages \in Logicals
    BY <1>1, Modulo
  <2>7. Last(l) < First(l) + NumPages
    BY <2>3, <2>5, <2>6 DEF Good, Placed
  <2> QED
    BY <1>2, <2>3, <2>7, Sizes
<1>6. k % NumPages \in Logicals
  BY <1>1, Modulo
<1>7. Without(l, fl)[k % NumPages] = fl[k % NumPages]
  BY <1>5, <1>6, WithoutPage
<1> QED
  BY <1>3, <1>7 DEF OnFlash

LEMMA GoodErase ==
  ASSUME NEW l \in Rams, NEW m \in Rams, NEW fl \in Flashes, NEW lg, NEW sf, NEW er,
         Good(l, fl, lg, sf, er), \A e \in lg : EntryOK(e), l.oldest + PageSize < l.app,
         m.oldest = l.oldest + PageSize, m.app = l.app, m.pbuf = l.pbuf
  PROVE  /\ Good(m, Without(l, fl), {e \in lg : PageNo(e) # First(l)}, sf, er)
         /\ First(m) = First(l) + 1
<1> DEFINE k == Last(l)
           f == First(l)
           fn == Without(l, fl)
           kept == {e \in lg : PageNo(e) # f}
<1>1. /\ k \in Nat /\ f \in Nat /\ f <= k /\ k <= f + NumPages /\ l.oldest = Base(f) + 1
      /\ l.app = Base(k) + Used(l) /\ Used(l) \in 1..PageSize /\ l.app \in Nat /\ l.app >= 1
      /\ Base(k) \in Nat /\ Base(f) \in Nat
  BY GoodPosition
<1>2. f + 1 \in Nat /\ Base(f + 1) = Base(f) + PageSize
  BY <1>1, BaseNext
<1>3. m.oldest = Base(f + 1) + 1
  BY <1>1, <1>2, Sizes
<1>4. First(m) = f + 1 /\ m.oldest % PageSize = 1
  BY <1>2, <1>3, OldestIs
<1>5. Last(m) = k /\ Used(m) = Used(l)
  BY DEF Last, Used
<1>0. l.oldest + PageSize < l.app /\ m.app = l.app
  OBVIOUS
<1> HIDE DEF k, f
<1>6. f + 1 <= k
  <2>1. k # f
    <3>1. SUFFICES ASSUME k = f PROVE FALSE
      OBVIOUS
    <3>2. l.app = Base(f) + Used(l)
      BY <1>1, <3>1
    <3> QED
      BY <1>0, <1>1, <3>2, Sizes
  <2> QED
    BY <1>1, <2>1
<1>7. Cursors(m)
  <2>1. m.app >= 1 /\ k <= f + 1 + NumPages
    BY <1>0, <1>1, Sizes
  <2> QED
    BY <1>4, <1>5, <1>6, <2>1 DEF Cursors
<1>8. Buffer(m, er)
  BY <1>5 DEF Good, Buffer, k
<1>9. Placed(m, fn)
  <2>1. ASSUME NEW p \in Logicals, ValidHeader(fn[p], p)
        PROVE  /\ fn[p][0].val + 1 < m.app
               /\ Base(f + 1) <= fn[p][0].val \/ (fn[p][0].val = Base(k - NumPages) /\ Used(l) > 1)
               /\ fn[p][0].val = Base(k) => k < f + 1 + NumPages
    <3>1. p # f % NumPages /\ fn[p] = fl[p] /\ ValidHeader(fl[p], p)
      BY <2>1, WithoutPage DEF f
    <3>2. /\ fl[p][0].val + 1 < l.app
          /\ Base(f) <= fl[p][0].val \/ (fl[p][0].val = Base(k - NumPages) /\ Used(l) > 1)
          /\ fl[p][0].val = Base(k) => k < f + NumPages
      BY <3>1 DEF Good, Placed, k, f
    <3>3. PICK j \in Nat : fl[p][0].val = Base(j) /\ j % NumPages = p
      BY <3>1, HeaderVal, HeaderOf
    <3>4. j # f
      BY <3>1, <3>3
    <3>5. Base(f) <= Base(j) => Base(f + 1) <= Base(j)
      <4>1. SUFFICES ASSUME Base(f) <= Base(j) PROVE Base(f + 1) <= Base(j)
        OBVIOUS
      <4>2. f <= j
        BY <1>1, <4>1, BaseLeq
      <4>3. f + 1 <= j
        BY <1>1, <3>4, <4>2
      <4> QED
        BY <1>2, <4>3, BaseLeq
    <3>6. k < f + NumPages => k < f + 1 + NumPages
      BY <1>1, Sizes
    <3> QED
      BY <1>0, <3>1, <3>2, <3>3, <3>5, <3>6
  <2> QED
    BY <1>4, <1>5, <2>1 DEF Placed
<1>10. Entries(m, fn, kept, sf)
  <2>1. ASSUME NEW e \in kept
        PROVE  /\ f + 1 <= PageNo(e) /\ e.id + e.len < m.app
               /\ PageNo(e) # k \/ e \in sf => OnFlash(fn, e)
               /\ PageNo(e) = k => InPage(m.pbuf, e)
    <3>1. EntryOK(e) /\ PageNo(e) # f /\ e \in lg
      BY <2>1
    <3>2. PageNo(e) \in Nat /\ f <= PageNo(e)
      BY <3>1, EntryPlace DEF f
    <3>3. f + 1 <= PageNo(e)
      BY <1>1, <3>1, <3>2
    <3>4. PageNo(e) # k \/ e \in sf => OnFlash(fn, e)
      BY <3>1, WithoutEntry DEF f, k
    <3>5. e.id + e.len < l.app /\ (PageNo(e) = k => InPage(l.pbuf, e))
      BY <3>1 DEF Good, Entries, k
    <3> QED
      BY <1>0, <3>3, <3>4, <3>5
  <2> QED
    BY <1>4, <1>5, <2>1 DEF Entries
<1> QED
  BY <1>4, <1>7, <1>8, <1>9, <1>10 DEF Good, f

(* No page that a recovery would accept                                     *)
Clear(fl) == \A p \in Logicals : ~ValidHeader(fl[p], p)

LEMMA ClearForm ==
  ASSUME NEW fl, Clear(fl), NEW a, FlashForm(fl, a), NEW b
  PROVE  FlashForm(fl, b) /\ Window(fl)
  BY DEF Clear, FlashForm, Window

LEMMA EmptyGood ==
  ASSUME NEW m \in Rams, NEW fl, Clear(fl), NEW sf, NEW er, m.oldest = 1, m.app = 1, m.pbuf = Fresh(1)
  PROVE  Good(m, fl, {}, sf, er) /\ Last(m) = 0 /\ Used(m) = 1 /\ First(m) = 0
<1>1. Base(0) = 0 /\ 1 \in 1..PageSize /\ 1 \in Nat /\ 0 \in Nat
  BY Sizes DEF Base
<1>2. m.app = Base(0) + 1 /\ m.oldest = Base(0) + 1
  BY <1>1
<1>3. Last(m) = 0 /\ Used(m) = 1
  BY <1>1, <1>2, AppIs
<1>4. First(m) = 0 /\ m.oldest % PageSize = 1
  BY <1>1, <1>2, OldestIs
<1>5. Cursors(m)
  BY <1>3, <1>4, Sizes DEF Cursors
<1>6. Buffer(m, er)
  BY <1>1, <1>3, FreshCells DEF Buffer, PAGE_HEADER_SIZE
<1>7. Placed(m, fl) /\ Entries(m, fl, {}, sf)
  BY DEF Placed, Entries, Clear
<1> QED
  BY <1>3, <1>4, <1>5, <1>6, <1>7 DEF Good

LEMMA LastErased ==
  ASSUME NEW l \in Rams, NEW fl \in Flashes, NEW lg, NEW sf, NEW er, Good(l, fl, lg, sf, er),
         l.oldest + PageSize >= l.app
  PROVE  Clear(Without(l, fl))
<1> DEFINE k == Last(l)
           f == First(l)
           fn == Without(l, fl)
<1>1. /\ k \in Nat /\ f \in Nat /\ f <= k /\ l.oldest = Base(f) + 1
      /\ l.app = Base(k) + Used(l) /\ Used(l) \in 1..PageSize /\ l.app \in Nat
      /\ Base(k) \in Nat /\ Base(f) \in Nat
  BY GoodPosition
<1>2. f + 1 \in Nat /\ Base(f + 1) = Base(f) + PageSize
  BY <1>1, BaseNext
<1>0. l.oldest + PageSize >= l.app
  OBVIOUS
<1>3. SUFFICES ASSUME NEW p \in Logicals, ValidHeader(fn[p], p) PROVE FALSE
  BY DEF Clear
<1>4. p # f % NumPages /\ fn[p] = fl[p] /\ ValidHeader(fl[p], p)
  BY <1>3, WithoutPage
<1>5. /\ fl[p][0].val + 1 < l.app
      /\ Base(f) <= fl[p][0].val \/ (fl[p][0].val = Base(k - NumPages) /\ Used(l) > 1)
  BY <1>4 DEF Good, Placed
<1>6. PICK j \in Nat : fl[p][0].val = Base(j) /\ j % NumPages = p
  BY <1>4, HeaderVal, HeaderOf
<1> HIDE DEF k, f, fn
<1>7. Base(j) \in Nat
  BY BaseNext
<1>8. Base(j) < Base(f + 1)
  BY <1>0, <1>1, <1>2, <1>5, <1>6, <1>7, Sizes
<1>9. j < f + 1 /\ j # f
  BY <1>2, <1>4, <1>6, <1>8, BaseLeq
<1>10. j < f
  BY <1>1, <1>9
<1>11. Base(j) < Base(f)
  BY <1>1, <1>10, BaseLeq
<1>12. Base(j) = Base(k - NumPages) /\ Used(l) > 1
  BY <1>1, <1>5, <1>6, <1>7, <1>11
<1>13. k - NumPages \in Int
  BY <1>1, Sizes
<1>14. j = k - NumPages
  BY <1>12, <1>13, BaseLeq
<1>15. k = f
  <2>1. ~(f < k)
    <3>1. f < k => Base(f) + PageSize <= Base(k)
      BY <1>1, BaseFacts
    <3> QED
      BY <1>0, <1>1, <1>12, <3>1, Sizes
  <2> QED
    BY <1>1, <2>1
<1>16. j % NumPages = f % NumPages
  <2>1. (k - NumPages) % NumPages = k % NumPages
    BY <1>1, Modulo
  <2> QED
    BY <1>14, <1>15, <2>1
<1> QED
  BY <1>4, <1>6, <1>16

LEMMA NothingToErase ==
  ASSUME NEW l \in Rams, NEW fl \in Flashes, NEW lg, NEW sf, NEW er, Good(l, fl, lg, sf, er),
         l.oldest = l.app, NEW t
  PROVE  Clear(fl) /\ Good(l, fl, lg, sf, t)
<1> DEFINE k == Last(l)
           f == First(l)
<1>1. /\ k \in Nat /\ f \in Nat /\ f <= k /\ l.oldest = Base(f) + 1
      /\ l.app = Base(k) + Used(l) /\ Used(l) \in 1..PageSize /\ l.app \in Nat
      /\ Base(k) \in Nat /\ Base(f) \in Nat /\ l.pbuf \in Sheets
  BY GoodPosition
<1>2. Base(f) <= Base(k)
  BY <1>1, BaseLeq
<1>3. Base(f) = Base(k) /\ Used(l) = 1
  <2>1. Base(f) + 1 = Base(k) + Used(l)
    BY <1>1
  <2>2. PICK a \in Nat, b \in Nat, n \in Nat : a = Base(f) /\ b = Base(k) /\ n = Used(l)
    BY <1>1
  <2> QED
    BY <1>1, <1>2, <2>1, <2>2
<1>4. Clear(fl)
  <2>1. SUFFICES ASSUME NEW p \in Logicals, ValidHeader(fl[p], p) PROVE FALSE
    BY DEF Clear
  <2>2. fl[p][0].val + 1 < l.app /\ Base(f) <= fl[p][0].val
    BY <1>3, <2>1 DEF Good, Placed
  <2>3. PICK v \in Nat : v = fl[p][0].val
    BY HeaderVal
  <2> QED
    BY <1>1, <1>3, <2>2, <2>3
<1>5. After(l.pbuf, t)
  <2>1. SUFFICES ASSUME NEW o \in Offsets, l.pbuf[o].len = Data(0).len PROVE FALSE
    BY DEF After
  <2>2. WellFormed(l.pbuf, 1) /\ (l.pbuf[0] = Header(Base(Last(l))) \/ l.pbuf[0] = Header(PAGE_HEADER_SIZE))
    BY <1>3 DEF Good, Buffer
  <2>3. o = 0 \/ o \in 1..(PageSize - 1)
    BY Sizes DEF Offsets
  <2>4. o \in 1..(PageSize - 1) => l.pbuf[o] \in {PAD, ZERO}
    BY <2>2 DEF WellFormed
  <2>5. o # 0
    BY <2>1, <2>2 DEF Header, Data
  <2> QED
    BY <2>1, <2>3, <2>4, <2>5 DEF PAD, ZERO, Data
<1> QED
  BY <1>4, <1>5 DEF Good, Buffer
(* Pages o and n of the log are on flash and every other one is between them *)
Spans(fl, o, n) ==
  /\ o \in Nat /\ n \in Nat
  /\ ValidHeader(fl[o % NumPages], o % NumPages) /\ fl[o % NumPages][0] = Header(Base(o))
  /\ ValidHeader(fl[n % NumPages], n % NumPages) /\ fl[n % NumPages][0] = Header(Base(n))
  /\ \A p \in Logicals : ValidHeader(fl[p], p) => Base(o) <= fl[p][0].val /\ fl[p][0].val <= Base(n)

LEMMA SpanOrder ==
  ASSUME NEW fl \in Flashes, NEW o, NEW n, Spans(fl, o, n), Window(fl)
  PROVE  /\ o \in Nat /\ n \in Nat /\ o <= n /\ n < o + NumPages
         /\ o % NumPages \in Logicals /\ n % NumPages \in Logicals
         /\ \A p \in Logicals : ValidHeader(fl[p], p) =>
              \E j \in Nat : fl[p][0].val = Base(j) /\ o <= j /\ j <= n
<1>1. o \in Nat /\ n \in Nat
  BY DEF Spans
<1>2. o % NumPages \in Logicals /\ n % NumPages \in Logicals
  BY <1>1, Modulo
<1>3. ASSUME NEW p \in Logicals, ValidHeader(fl[p], p)
      PROVE  \E j \in Nat : fl[p][0].val = Base(j) /\ o <= j /\ j <= n
  <2>1. PICK j \in Nat : fl[p][0].val = Base(j)
    BY <1>3, HeaderVal, HeaderOf
  <2>2. Base(o) <= Base(j) /\ Base(j) <= Base(n)
    BY <1>3, <2>1 DEF Spans
  <2>3. o <= j /\ j <= n
    BY <1>1, <2>2, BaseLeq
  <2> QED
    BY <2>1, <2>3
<1>4. fl[o % NumPages][0].val = Base(o) /\ fl[n % NumPages][0].val = Base(n)
  BY <1>1, HeaderAt DEF Spans
<1>5. Base(o) <= Base(n) /\ Base(n) < Base(o) + Volume
  BY <1>2, <1>4 DEF Spans, Window
<1>6. o <= n
  BY <1>1, <1>5, BaseLeq
<1>7. Base(o + NumPages) = Base(o) + Volume /\ o + NumPages \in Int
  BY <1>1, Sizes, BaseFacts
<1>8. n < o + NumPages
  BY <1>1, <1>5, <1>7, BaseLeq
<1> QED
  BY <1>1, <1>2, <1>3, <1>6, <1>8

(* What WalkLastPage makes of the pages from o to n                         *)
Walked(m, fl, o, n) ==
  LET page == fl[n % NumPages]
      len  == WalkedLen(page)
  IN /\ m.oldest = Base(o) + 1
     /\ len < PageSize => m.app = Base(n) + len /\ m.pbuf = page
     /\ ~(len < PageSize) => m.app = Base(n) + PageSize + 1 /\ m.pbuf = Fresh(Base(n) + PageSize)

(* The newest page has entries, and the cursors go after the last of them   *)
LEMMA WalkedEnd ==
  ASSUME NEW m \in Rams, NEW fl \in Flashes, NEW er, FlashForm(fl, er), Window(fl),
         NEW o, NEW n, Spans(fl, o, n), Walked(m, fl, o, n)
  PROVE  \E z \in 2..PageSize :
           /\ WellFormed(fl[n % NumPages], z) /\ After(fl[n % NumPages], er)
           /\ z < PageSize => /\ m.app = Base(n) + z /\ m.pbuf = fl[n % NumPages]
                              /\ Last(m) = n /\ Used(m) = z
           /\ z = PageSize => /\ m.app = Base(n + 1) + 1 /\ m.pbuf = Fresh(Base(n + 1))
                              /\ Last(m) = n + 1 /\ Used(m) = 1
<1>1. n \in Nat /\ n % NumPages \in Logicals /\ n + 1 \in Nat /\ Base(n + 1) = Base(n) + PageSize
  BY SpanOrder, BaseNext
<1>2. PICK z \in 1..PageSize : WellFormed(fl[n % NumPages], z) /\ z > 1 /\ After(fl[n % NumPages], er)
  BY <1>1 DEF FlashForm, Spans
<1>3. WalkedLen(fl[n % NumPages]) = z
  BY <1>1, <1>2, WellFormedWalk, HeaderVal
<1>4. z \in 2..PageSize
  BY <1>2, Sizes
<1>5. z < PageSize => m.app = Base(n) + z /\ m.pbuf = fl[n % NumPages]
  BY <1>3 DEF Walked
<1>6. z = PageSize => m.app = Base(n + 1) + 1 /\ m.pbuf = Fresh(Base(n + 1))
  BY <1>1, <1>3, Sizes DEF Walked
<1>7. z < PageSize => Last(m) = n /\ Used(m) = z
  BY <1>1, <1>5, AppIs
<1>8. z = PageSize => Last(m) = n + 1 /\ Used(m) = 1
  <2>1. 1 \in 1..PageSize
    BY Sizes
  <2> QED
    BY <1>1, <1>6, <2>1, AppIs
<1> QED
  BY <1>2, <1>4, <1>5, <1>6, <1>7, <1>8

Kept(m, lg) == {e \in lg : m.oldest <= e.id /\ e.id < m.app}

LEMMA GoodRecovery ==
  ASSUME NEW m \in Rams, NEW fl \in Flashes, NEW lg, NEW sf, NEW er, FlashForm(fl, er), Window(fl),
         \A e \in lg : EntryOK(e) /\ OnFlash(fl, e),
         NEW o, NEW n, Spans(fl, o, n), Walked(m, fl, o, n)
  PROVE  /\ Good(m, fl, Kept(m, lg), sf, er)
         /\ Used(m) > 1 => Last(m) < First(m) + NumPages
         /\ \A e \in lg : PageNo(e) > 0 => e \in Kept(m, lg)
<1>1. /\ o \in Nat /\ n \in Nat /\ o <= n /\ n < o + NumPages
      /\ o % NumPages \in Logicals /\ n % NumPages \in Logicals
      /\ \A p \in Logicals : ValidHeader(fl[p], p) =>
           \E j \in Nat : fl[p][0].val = Base(j) /\ o <= j /\ j <= n
  BY SpanOrder
<1>2. PICK z \in 2..PageSize :
           /\ WellFormed(fl[n % NumPages], z) /\ After(fl[n % NumPages], er)
           /\ z < PageSize => /\ m.app = Base(n) + z /\ m.pbuf = fl[n % NumPages]
                              /\ Last(m) = n /\ Used(m) = z
           /\ z = PageSize => /\ m.app = Base(n + 1) + 1 /\ m.pbuf = Fresh(Base(n + 1))
                              /\ Last(m) = n + 1 /\ Used(m) = 1
  BY WalkedEnd
<1>3. First(m) = o /\ m.oldest % PageSize = 1 /\ m.oldest = Base(o) + 1
  BY <1>1, OldestIs DEF Walked
<1>4. /\ n + 1 \in Nat /\ Base(n + 1) = Base(n) + PageSize /\ Base(n) \in Nat /\ Base(o) \in Nat
      /\ Base(n + 1) \in Nat
  BY <1>1, BaseNext
<1>5. z < PageSize \/ z = PageSize
  BY <1>2, Sizes
<1>6. /\ m.app \in Nat /\ Base(n) + z <= m.app /\ Base(n) + 1 < m.app /\ m.app <= Base(n) + PageSize + 1
      /\ m.app >= 1
  BY <1>2, <1>4, <1>5, Sizes
<1>7. Cursors(m)
  <2>1. o <= n + 1 /\ n + 1 <= o + NumPages /\ n <= o + NumPages
    BY <1>1, Sizes
  <2>2. o <= Last(m) /\ Last(m) <= o + NumPages
    BY <1>1, <1>2, <1>5, <2>1
  <2> QED
    BY <1>3, <1>6, <2>2 DEF Cursors
<1>8. Buffer(m, er)
  BY <1>2, <1>4, <1>5, FreshCells DEF Buffer, Spans
<1>9. Placed(m, fl)
  <2>1. ASSUME NEW p \in Logicals, ValidHeader(fl[p], p)
        PROVE  /\ fl[p][0].val + 1 < m.app /\ Base(o) <= fl[p][0].val
               /\ fl[p][0].val = Base(Last(m)) => Last(m) < o + NumPages
    <3>1. PICK j \in Nat : fl[p][0].val = Base(j) /\ o <= j /\ j <= n
      BY <1>1, <2>1
    <3>2. Base(o) <= Base(j) /\ Base(j) <= Base(n) /\ Base(j) \in Nat
      BY <1>1, <3>1, BaseLeq, BaseNext
    <3>3. Base(j) + 1 < m.app
      BY <1>4, <1>6, <3>2
    <3>4. Base(j) # Base(n + 1)
      BY <1>4, <3>2, Sizes
    <3> QED
      BY <1>1, <1>2, <1>5, <3>1, <3>2, <3>3, <3>4
  <2> QED
    BY <1>3, <2>1 DEF Placed
(* An entry on flash before the append cursor is in an accepted page        *)
<1>10. ASSUME NEW e \in lg, e.id < m.app
       PROVE  /\ PageNo(e) \in Nat /\ PageNo(e) <= n /\ e.id + e.len < m.app
              /\ PageNo(e) = Last(m) => InPage(m.pbuf, e)
  <2>1. EntryOK(e) /\ OnFlash(fl, e)
    OBVIOUS
  <2>2. /\ PageNo(e) \in Nat /\ e.id = Base(PageNo(e)) + Off(e) /\ Off(e) \in 1..(PageSize - 1)
        /\ Off(e) + e.len < PageSize
    BY <2>1, EntryAt
  <2>3. Base(PageNo(e)) \in Nat /\ e.len \in Nat
    BY <2>1, <2>2, BaseNext DEF EntryOK
  <2>4. PageNo(e) <= n
    <3>1. n < PageNo(e) => Base(n) + PageSize <= Base(PageNo(e))
      BY <1>1, <2>2, BaseFacts
    <3>2. ~(n < PageNo(e))
      BY <1>4, <1>6, <1>10, <2>2, <2>3, <3>1, Sizes
    <3> QED
      BY <1>1, <2>2, <3>2
  <2>5. PageNo(e) = n => InPage(fl[n % NumPages], e) /\ e.id + e.len < m.app
    <3>1. SUFFICES ASSUME PageNo(e) = n PROVE InPage(fl[n % NumPages], e) /\ e.id + e.len < m.app
      OBVIOUS
    <3>2. InPage(fl[n % NumPages], e)
      BY <2>1, <3>1 DEF OnFlash
    <3>3. Off(e) + e.len < z
      BY <1>2, <2>1, <3>2, EntryWithin
    <3>4. e.id = Base(n) + Off(e)
      BY <2>2, <3>1
    <3> QED
      BY <1>2, <1>4, <1>6, <2>2, <2>3, <3>2, <3>3, <3>4
  <2>6. PageNo(e) < n => e.id + e.len < m.app
    <3>1. PageNo(e) < n => Base(PageNo(e)) + PageSize <= Base(n)
      BY <1>1, <2>2, BaseFacts
    <3> QED
      BY <1>4, <1>6, <2>2, <2>3, <3>1, Sizes
  <2>7. e.id + e.len < m.app
    BY <1>1, <2>2, <2>4, <2>5, <2>6
  <2>8. PageNo(e) = Last(m) => InPage(m.pbuf, e)
    <3>1. PageNo(e) # n + 1
      BY <1>1, <2>2, <2>4
    <3> QED
      BY <1>2, <1>5, <2>5, <3>1
  <2> QED
    BY <2>2, <2>4, <2>7, <2>8
<1>11. Entries(m, fl, Kept(m, lg), sf)
  <2>1. ASSUME NEW e \in Kept(m, lg)
        PROVE  /\ o <= PageNo(e) /\ e.id + e.len < m.app /\ OnFlash(fl, e)
               /\ PageNo(e) = Last(m) => InPage(m.pbuf, e)
    <3>1. e \in lg /\ Base(o) + 1 <= e.id /\ e.id < m.app
      BY <1>3, <2>1 DEF Kept
    <3>2. /\ PageNo(e) \in Nat /\ e.id + e.len < m.app /\ OnFlash(fl, e) /\ EntryOK(e)
          /\ PageNo(e) = Last(m) => InPage(m.pbuf, e)
      BY <1>10, <3>1
    <3>3. e.id = Base(PageNo(e)) + Off(e) /\ Off(e) \in 1..(PageSize - 1)
      BY <3>2, EntryAt
    <3>4. ~(PageNo(e) < o)
      <4>1. PageNo(e) < o => Base(PageNo(e)) + PageSize <= Base(o)
        BY <1>1, <3>2, BaseFacts
      <4>2. Base(PageNo(e)) \in Nat
        BY <3>2, BaseNext
      <4> QED
        BY <1>4, <3>1, <3>3, <4>1, <4>2, Sizes
    <3> QED
      BY <1>1, <3>2, <3>4
  <2> QED
    BY <1>3, <2>1 DEF Entries
<1>12. ASSUME NEW e \in lg, PageNo(e) > 0 PROVE e \in Kept(m, lg)
  <2>1. EntryOK(e) /\ OnFlash(fl, e)
    OBVIOUS
  <2>2. /\ PageNo(e) \in Nat /\ e.id = Base(PageNo(e)) + Off(e) /\ Off(e) \in 1..(PageSize - 1)
        /\ Off(e) + e.len < PageSize
    BY <2>1, EntryAt
  <2>3. Base(PageNo(e)) \in Nat /\ e.len \in Nat /\ PageNo(e) % NumPages \in Logicals
    BY <2>1, <2>2, BaseNext, Modulo DEF EntryOK
  <2>4. /\ ValidHeader(fl[PageNo(e) % NumPages], PageNo(e) % NumPages)
        /\ fl[PageNo(e) % NumPages][0].val = Base(PageNo(e))
    BY <1>12, <2>1, <2>2, HeaderAt DEF OnFlash
  <2>5. Base(o) <= Base(PageNo(e)) /\ Base(PageNo(e)) <= Base(n)
    BY <2>3, <2>4 DEF Spans
  <2>6. m.oldest <= e.id
    BY <1>3, <1>4, <2>2, <2>3, <2>5
  <2>7. PageNo(e) <= n
    BY <1>1, <2>2, <2>5, BaseLeq
  <2>8. PageNo(e) = n => e.id < m.app
    <3>1. SUFFICES ASSUME PageNo(e) = n PROVE e.id < m.app
      OBVIOUS
    <3>2. InPage(fl[n % NumPages], e)
      BY <2>1, <3>1 DEF OnFlash
    <3>3. Off(e) + e.len < z
      BY <1>2, <2>1, <3>2, EntryWithin
    <3>4. e.id = Base(n) + Off(e)
      BY <2>2, <3>1
    <3> QED
      BY <1>2, <1>4, <1>6, <2>2, <2>3, <3>3, <3>4
  <2>9. PageNo(e) < n => e.id < m.app
    <3>1. PageNo(e) < n => Base(PageNo(e)) + PageSize <= Base(n)
      BY <1>1, <2>2, BaseFacts
    <3> QED
      BY <1>4, <1>6, <2>2, <2>3, <3>1, Sizes
  <2>10. e.id < m.app
    BY <1>1, <2>2, <2>7, <2>8, <2>9
  <2> QED
    BY <2>6, <2>10 DEF Kept
<1>13. Used(m) > 1 => Last(m) < First(m) + NumPages
  BY <1>1, <1>2, <1>3, <1>5
<1> QED
  BY <1>7, <1>8, <1>9, <1>11, <1>12, <1>13 DEF Good
-----------------------------------------------------------------------------
(* The store as requests start *)

LEMMA AppendRequest ==
  ASSUME NEW o \in AllRequests, o.op = "append"
  PROVE  o.len \in Nat /\ o.len > 0 /\ o.tag \in Nat /\ o.tag \in 1..MaxEntries
<1>1. o.len \in Lens /\ o.tag \in 1..MaxEntries
  BY RequestFields
<1>2. o.len \in Nat \ {0}
  BY <1>1, ClientAssumption
<1>3. o.tag \in Nat
  BY <1>1, ClientAssumption
<1> QED
  BY <1>1, <1>2, <1>3

(* A write under way is of the append page, which is not empty and whose old
   entries have been left; an append that waits for it has a page to go on in *)
Writing(l) ==
  l.io.op = "write" =>
    /\ l.pbuf = PaddedFrom(l.pbuf, Used(l)) /\ Used(l) > 1
    /\ l.io.page = Last(l) % NumPages /\ Last(l) < First(l) + NumPages
    /\ l.state = "Appending" => /\ Circular \/ l.app + PageSize <= Volume
                                /\ l.req.len <= PageSize - 2

(* An erase is of the oldest page, and is answered at once if there is none *)
Erasing(l) ==
  /\ l.io.op = "erase" => l.io.page = First(l) % NumPages
  /\ l.state = "Erasing" /\ l.deferred => l.oldest = l.app

(* The entries that Become leaves of kept                                   *)
BecomeLog(l, kept) ==
  {e \in kept : ~(l.io.op = "write" /\ PageNo(e) = (RoundUp(l.app) \div PageSize) - 1 - NumPages)}
  \cup (IF l.state = "Appending" /\ l.deferred
        THEN {[tag |-> l.req.tag, len |-> l.req.len, id |-> l.app - l.req.len - ENTRY_HEADER_SIZE]}
        ELSE {})

LEMMA BecomeIs ==
  ASSUME NEW l, NEW kept, Become(l, kept)
  PROVE  ram' = l /\ log' = BecomeLog(l, kept)
  BY DEF Become, BecomeLog

LEMMA BecomeSame ==
  ASSUME NEW l, NEW kept, l.io.op # "write", ~(l.state = "Appending" /\ l.deferred)
  PROVE  BecomeLog(l, kept) = kept
  BY DEF BecomeLog

LEMMA BecomeOf ==
  ASSUME NEW l, NEW m, NEW kept, m.io = l.io, m.state = l.state, m.deferred = l.deferred,
         m.app = l.app, m.req = l.req
  PROVE  BecomeLog(m, kept) = BecomeLog(l, kept)
  BY DEF BecomeLog

(* What a request leaves of the entries lg of l                             *)
Started(l, m, o, fl, lg, sf, er) ==
  LET new == BecomeLog(m, lg) IN
  /\ Good(m, fl, new, sf, er) /\ Writing(m) /\ Erasing(m)
  /\ \A e \in new : EntryOK(e) /\ (e \in lg \/ (o.op = "append" /\ m.deferred /\ e.tag = o.tag))
  /\ \A e \in lg : e \in new \/ (Used(l) > 1 /\ PageNo(e) = Last(l) - NumPages)

LEMMA StartedSame ==
  ASSUME NEW l, NEW m, NEW o, NEW fl, NEW lg, NEW sf, NEW er, Good(l, fl, lg, sf, er), SameStore(m, l),
         \A e \in lg : EntryOK(e), m.io.op # "write", ~(m.state = "Appending" /\ m.deferred),
         Erasing(m)
  PROVE  Started(l, m, o, fl, lg, sf, er)
<1>1. BecomeLog(m, lg) = lg
  BY BecomeSame
<1>2. Good(m, fl, lg, sf, er)
  BY SameGood
<1> QED
  BY <1>1, <1>2 DEF Started, Writing

LEMMA StartedAppend ==
  ASSUME NEW l \in Rams, NEW t \in Rams, NEW fl \in Flashes, NEW lg, NEW sf, NEW er,
         Good(l, fl, lg, sf, er), SameStore(t, l), \A e \in lg : EntryOK(e),
         t.req.op = "append", t.state = "Appending", t.io = NoIO,
         t.req.tag > er, \A e \in sf : e.tag < t.req.tag, Used(t) + 1 + t.req.len <= PageSize
  PROVE  Started(l, append_to_pagebuffer(t), t.req, fl, lg, sf, er)
<1>1. PICK m : m = append_to_pagebuffer(t)
  OBVIOUS
<1>2. m \in Rams /\ m.deferred /\ m.io = NoIO /\ m.state = "Appending" /\ m.req = t.req
      /\ m.app = t.app + 1 + t.req.len
  BY <1>1, AppendFields DEF SameTask
<1>3. Good(t, fl, lg, sf, er)
  BY SameGood
<1>4. t.req.len \in Nat /\ t.app \in Nat /\ t.req.tag \in Nat
  <2>1. t.req \in AllRequests /\ t.app \in Nat
    BY DEF Rams
  <2> QED
    BY <2>1, AppendRequest
<1>5. NewEntry(t) \notin sf
  BY <1>4 DEF NewEntry
<1>6. /\ Good(m, fl, lg \cup {NewEntry(t)}, sf, er)
      /\ EntryOK(NewEntry(t))
  BY <1>1, <1>3, <1>5, GoodAppend
<1>7. m.app - m.req.len - 1 = t.app
  BY <1>2, <1>4
<1>8. NoIO.op # "write" /\ NoIO.op # "erase"
  BY IOFields
<1>9. BecomeLog(m, lg) = lg \cup {NewEntry(t)}
  BY <1>2, <1>7, <1>8 DEF BecomeLog, NewEntry, ENTRY_HEADER_SIZE
<1>10. Writing(m) /\ Erasing(m)
  BY <1>2, <1>8 DEF Writing, Erasing
<1>11. NewEntry(t).tag = t.req.tag
  BY DEF NewEntry
<1> QED
  BY <1>1, <1>2, <1>6, <1>9, <1>10, <1>11 DEF Started

LEMMA StartedFlush ==
  ASSUME NEW l \in Rams, NEW f \in Rams, NEW o, NEW fl \in Flashes, NEW lg, NEW sf, NEW er,
         Good(l, fl, lg, sf, er), SameStore(f, l), \A e \in lg : EntryOK(e), Used(l) > 1, ~f.deferred,
         f.state \in {"Appending", "Syncing"},
         f.state = "Appending" => /\ Circular \/ l.app + PageSize <= Volume
                                  /\ f.req.len <= PageSize - 2
  PROVE  Started(l, flush_pagebuffer(f), o, fl, lg, sf, er)
<1>1. PICK m : m = flush_pagebuffer(f)
  OBVIOUS
<1>2. Good(f, fl, lg, sf, er)
  BY SameGood
<1>3. Last(f) = Last(l) /\ Used(f) = Used(l)
  BY DEF SameStore, Last, Used
<1>4. /\ Good(m, fl, {e \in lg : PageNo(e) # Last(l) - NumPages}, sf, er)
      /\ m.pbuf = PaddedFrom(m.pbuf, Used(l)) /\ m.io.page = Last(l) % NumPages
      /\ Last(m) < First(m) + NumPages /\ Last(m) = Last(l) /\ Used(m) = Used(l)
  BY <1>1, <1>2, <1>3, GoodFlush
<1>5. /\ ~m.deferred /\ m.io.op = "write" /\ m.state = f.state /\ m.req = f.req /\ m.app = l.app
  BY <1>1, FlushFields, FlushIO DEF SameTask, SameStore
<1>6. (RoundUp(m.app) \div PageSize) - 1 - NumPages = Last(l) - NumPages
  <2>1. RoundUp(l.app) \div PageSize = Last(l) + 1
    BY FlushPages
  <2>2. Last(l) \in Nat
    BY GoodPosition
  <2> QED
    BY <1>5, <2>1, <2>2, Sizes
<1>7. BecomeLog(m, lg) = {e \in lg : PageNo(e) # Last(l) - NumPages}
  BY <1>5, <1>6 DEF BecomeLog
<1>8. Writing(m)
  BY <1>4, <1>5 DEF Writing
<1>9. Erasing(m)
  BY <1>5 DEF Erasing
<1> QED
  BY <1>1, <1>4, <1>7, <1>8, <1>9 DEF Started

(* A request that does not fit has entries before it in the page, and room
   for a page after that one                                                *)
LEMMA NotFitting ==
  ASSUME NEW l \in Rams, NEW fl, NEW lg, NEW sf, NEW er, Good(l, fl, lg, sf, er),
         NEW o \in AllRequests, o.op = "append", ~Refuses(l, o)
  PROVE  /\ o.len \in Nat /\ o.len > 0 /\ o.tag \in Nat /\ o.len <= PageSize - 2
         /\ Fits(l, o) => Used(l) + 1 + o.len <= PageSize
         /\ ~Fits(l, o) => Used(l) > 1 /\ (Circular \/ l.app + PageSize <= Volume)
<1>1. o.len \in Nat /\ o.len > 0 /\ o.tag \in Nat
  BY AppendRequest
<1>2. o.len <= PageSize - 2 /\ (Circular \/ l.app + 1 + o.len <= Volume)
  <2>1. ~(o.len > MaxEntry) /\ (Circular \/ ~(l.app + 1 + o.len > Volume))
    BY DEF Refuses, ENTRY_HEADER_SIZE
  <2>2. l.app \in Nat
    BY GoodPosition
  <2> QED
    BY <1>1, <2>1, <2>2, VolumeType, Sizes DEF MaxEntry, PAGE_HEADER_SIZE, ENTRY_HEADER_SIZE
<1>3. /\ Last(l) \in Nat /\ Used(l) \in 1..PageSize /\ l.app = Base(Last(l)) + Used(l) /\ l.app \in Nat
      /\ l.app % PageSize = IF Used(l) = PageSize THEN 0 ELSE Used(l)
  BY GoodPosition
<1>4. Fits(l, o) <=> Used(l) # PageSize /\ 1 + o.len <= PageSize - Used(l)
  BY <1>1, <1>3, Sizes DEF Fits
<1>5. PICK n \in Nat, y \in Nat : n = Used(l) /\ y = o.len
  BY <1>1, <1>3
<1>6. Fits(l, o) => n + 1 + y <= PageSize
  BY <1>3, <1>4, <1>5, Sizes
<1>7. ~Fits(l, o) => n > 1 /\ n + 1 + y > PageSize
  BY <1>2, <1>3, <1>4, <1>5, Sizes
<1>8. ASSUME ~Fits(l, o), ~Circular PROVE l.app + PageSize <= Volume
  <2> DEFINE k == Last(l)
  <2>1. k + 1 \in Nat /\ k + 2 \in Int /\ NumPages \in Int /\ Base(k) \in Nat
        /\ Base(k + 1) = Base(k) + PageSize
    BY <1>3, BaseNext, Sizes
  <2>2. Base(k + 2) = Base(k + 1) + PageSize
    <3>1. k + 1 + 1 = k + 2
      BY <1>3
    <3> QED
      BY <2>1, <3>1, BaseNext
  <2>3. Base(NumPages) = Volume
    BY <2>1, BaseFacts
  <2> HIDE DEF k
  <2>4. Base(k + 1) < Base(NumPages)
    <3>1. l.app + 1 + y <= Volume /\ l.app = Base(k) + n
      BY <1>2, <1>3, <1>5, <1>8 DEF k
    <3> QED
      BY <1>7, <1>8, <2>1, <2>3, <3>1, VolumeType, Sizes
  <2>5. k + 1 < NumPages
    BY <2>1, <2>4, BaseLeq
  <2>6. Base(k + 2) <= Base(NumPages)
    <3>1. k + 2 <= NumPages
      <4>1. k \in Nat
        BY <1>3 DEF k
      <4> QED
        BY <2>5, <4>1, Sizes
    <3> QED
      BY <2>1, <3>1, BaseLeq
  <2>7. l.app = Base(k) + n /\ n <= PageSize
    BY <1>3, <1>5 DEF k
  <2> QED
    BY <2>1, <2>2, <2>3, <2>6, <2>7, VolumeType, Sizes
<1> QED
  BY <1>1, <1>2, <1>5, <1>6, <1>7, <1>8

LEMMA StartGood ==
  ASSUME NEW l \in Rams, Quiet(l), NEW o \in AllRequests, o # NoOp, NEW g \in Garbage,
         NEW fl \in Flashes, NEW lg, NEW sf, NEW er, Good(l, fl, lg, sf, er),
         \A e \in lg : EntryOK(e), ~Refuses(l, o),
         o.op = "append" => o.tag > er /\ \A e \in sf : e.tag < o.tag
  PROVE  Started(l, start(l, o, g), o, fl, lg, sf, er)
<1>1. o.op \in {"read", "append", "seek", "sync", "erase"}
  BY RequestFields
<1>2. PICK m : m = start(l, o, g)
  OBVIOUS
<1>3. l.io = NoIO /\ NoIO.op = "none" /\ ~l.deferred
  BY IOFields DEF Quiet
<1>4. CASE o.op = "read"
  <2>1. PICK t : t = Task(l, o, "Reading")
    OBVIOUS
  <2>2. t \in Rams /\ t.state = "Reading" /\ SameStore(t, l) /\ Quiet(t)
    <3>1. "Reading" \in States
      BY StateNames
    <3> QED
      BY <1>3, <2>1, <3>1, TaskFields DEF Quiet
  <2>3. m = advance_read_pointer_then_deliver(t, g)
    BY <1>2, <1>4, <2>1, StartRead
  <2>4. SameButCache(m, t) /\ \E n, p : Answers(m, n) \/ Fetches(m, n, p)
    <3>1. SameButCache(m, t) /\ \E n, p, len : Answers(m, n) \/ Fails(m, n) \/ Fetches(m, n, p)
                                               \/ Delivers(m, n, len) \/ Refetches(m, n, len)
      BY <2>2, <2>3, AdvanceOutcome
    <3> QED
      BY <3>1 DEF Fails, Delivers, Refetches
  <2>5. SameStore(m, l) /\ m.state = "Reading"
    BY <2>2, <2>4 DEF SameButCache, SameStore, SameTask
  <2>6. m.io.op \in {"read", "none"}
    BY <1>3, <2>4 DEF Answers, Fetches
  <2>7. Erasing(m)
    BY <2>5, <2>6 DEF Erasing
  <2> QED
    BY <1>2, <2>5, <2>6, <2>7, StartedSame
<1>5. CASE o.op = "seek"
  <2>1. m.state = "Seeking" /\ m.io = l.io /\ SameStore(m, l)
    BY <1>2, <1>5, StartSeek
  <2>2. Erasing(m)
    BY <1>3, <2>1 DEF Erasing
  <2> QED
    BY <1>2, <1>3, <2>1, <2>2, StartedSame
<1>6. CASE o.op = "append" /\ Fits(l, o)
  <2>1. PICK t : t = Task(l, o, "Appending")
    OBVIOUS
  <2>2. t \in Rams /\ t.state = "Appending" /\ t.req = o /\ SameStore(t, l) /\ t.io = NoIO
    <3>1. "Appending" \in States
      BY StateNames
    <3> QED
      BY <1>3, <2>1, <3>1, TaskFields
  <2>3. m = append_to_pagebuffer(t)
    BY <1>2, <1>6, <2>1, StartAppend
  <2>4. Used(t) = Used(l) /\ Used(l) + 1 + o.len <= PageSize
    <3>1. Used(l) + 1 + o.len <= PageSize
      BY <1>6, NotFitting
    <3> QED
      BY <2>2, <3>1 DEF SameStore, Used, Last
  <2>5. t.req.op = "append" /\ t.req.tag > er /\ (\A e \in sf : e.tag < t.req.tag)
        /\ Used(t) + 1 + t.req.len <= PageSize
    BY <1>6, <2>2, <2>4
  <2>6. Started(l, append_to_pagebuffer(t), t.req, fl, lg, sf, er)
    BY <2>2, <2>5, StartedAppend
  <2> QED
    BY <1>2, <2>2, <2>3, <2>6
<1>7. CASE o.op = "append" /\ ~Fits(l, o)
  <2>1. PICK f \in Rams :
              /\ m = flush_pagebuffer(f)
              /\ SameStore(f, l) /\ f.deferred = l.deferred
              /\ f.req = o /\ f.state = "Appending"
    BY <1>2, <1>7, StartAppend
  <2>2. Used(l) > 1 /\ (Circular \/ l.app + PageSize <= Volume) /\ o.len <= PageSize - 2
    BY <1>7, NotFitting
  <2> QED
    BY <1>2, <1>3, <2>1, <2>2, StartedFlush
<1>8. CASE o.op = "sync" /\ l.app % PageSize = 1
  <2>1. PICK t : t = Task(l, o, "Syncing")
    OBVIOUS
  <2>2. t \in Rams /\ t.state = "Syncing" /\ SameStore(t, l) /\ t.io = NoIO
    <3>1. "Syncing" \in States
      BY StateNames
    <3> QED
      BY <1>3, <2>1, <3>1, TaskFields
  <2>3. m = Finish(t, "Ok", 0)
    BY <1>2, <1>8, <2>1, StartSync
  <2>4. m.io = NoIO /\ SameStore(m, t) /\ m.state = "Syncing"
    <3>1. "Ok" \in Errs /\ 0 \in Nat
      BY DEF Errs
    <3> QED
      BY <2>2, <2>3, <3>1, FinishFields DEF SameTask
  <2>5. SameStore(m, l) /\ Erasing(m)
    BY <1>3, <2>2, <2>4 DEF SameStore, Erasing
  <2> QED
    BY <1>2, <1>3, <2>4, <2>5, StartedSame
<1>9. CASE o.op = "sync" /\ l.app % PageSize # 1
  <2>1. PICK t : t = Task(l, o, "Syncing")
    OBVIOUS
  <2>2. t \in Rams /\ t.state = "Syncing" /\ SameStore(t, l) /\ ~t.deferred
    <3>1. "Syncing" \in States
      BY StateNames
    <3> QED
      BY <1>3, <2>1, <3>1, TaskFields
  <2>3. m = flush_pagebuffer(t)
    BY <1>2, <1>9, <2>1, StartSync
  <2>4. Used(l) > 1
    <3>1. Used(l) \in 1..PageSize /\ l.app % PageSize = IF Used(l) = PageSize THEN 0 ELSE Used(l)
      BY GoodPosition
    <3> QED
      BY <1>9, <3>1, Sizes
  <2> QED
    BY <1>2, <2>2, <2>3, <2>4, StartedFlush
<1>10. CASE o.op = "erase"
  <2>1. PICK t : t = Task(l, o, "Erasing")
    OBVIOUS
  <2>2. t \in Rams /\ t.state = "Erasing" /\ SameStore(t, l) /\ t.io = NoIO /\ ~t.deferred
    <3>1. "Erasing" \in States
      BY StateNames
    <3> QED
      BY <1>3, <2>1, <3>1, TaskFields
  <2>3. CASE m = Finish(t, "Ok", 0) /\ l.oldest = l.app
    <3>1. m.io = NoIO /\ SameStore(m, t) /\ m.state = "Erasing"
      <4>1. "Ok" \in Errs /\ 0 \in Nat
        BY DEF Errs
      <4> QED
        BY <2>2, <2>3, <4>1, FinishFields DEF SameTask
    <3>2. SameStore(m, l) /\ Erasing(m)
      BY <1>3, <2>2, <2>3, <3>1 DEF SameStore, Erasing
    <3> QED
      BY <1>2, <1>3, <3>1, <3>2, StartedSame
  <2>4. CASE m = erase_oldest_page(t)
    <3>1. /\ m.io = [op |-> "erase", page |-> logical_page_of_pos(t.oldest)] /\ SameStore(m, t)
          /\ m.state = "Erasing" /\ ~m.deferred
      BY <2>2, <2>4, EraseFields DEF SameTask
    <3>2. l.oldest % PageSize = 1
      BY DEF Good, Cursors
    <3>3. logical_page_of_pos(l.oldest) = First(l) % NumPages
      BY <3>2, OldestAt
    <3>4. SameStore(m, l) /\ First(m) = First(l) /\ m.io.page = First(l) % NumPages /\ m.io.op = "erase"
      BY <2>2, <3>1, <3>3 DEF SameStore, First
    <3>5. Erasing(m)
      BY <3>1, <3>4 DEF Erasing
    <3> QED
      BY <1>2, <3>1, <3>4, <3>5, StartedSame
  <2> QED
    BY <1>2, <1>10, <2>1, <2>3, <2>4, StartErase
<1> QED
  BY <1>1, <1>4, <1>5, <1>6, <1>7, <1>8, <1>9, <1>10
-----------------------------------------------------------------------------
(* The invariant of the store *)

(* While the flash is scanned: the accepted pages seen so far               *)
Scanned(l, fl) ==
  l.state = "Reconstructing" =>
    /\ \A p \in Logicals : p < l.next /\ ValidHeader(fl[p], p) =>
         l.recOldest # NONE /\ l.recOldest <= fl[p][0].val /\ fl[p][0].val <= l.recNewest
    /\ l.recOldest # NONE =>
         /\ \E p \in Logicals : ValidHeader(fl[p], p) /\ fl[p][0].val = l.recOldest
         /\ \E p \in Logicals : ValidHeader(fl[p], p) /\ fl[p][0].val = l.recNewest
    /\ l.recOldest = NONE => l.recNewest = 0
    /\ l.walking => l.next = NumPages
    /\ l.io.op = "read" => l.io.page = IF l.walking THEN logical_page_of_pos(l.recNewest) ELSE l.next

(* Entries have the numbers of appends that were accepted; an append that has
   not been carried out has the last one                                    *)
Numbers(l, ow, lg, sf, er, ct) ==
  /\ er \in Nat /\ er <= ct
  /\ \A e \in lg \cup sf : e.tag \in Nat /\ e.tag <= ct
  /\ ow.op = "append" /\ (l.state = "Reconstructing" \/ l.io.op = "write") =>
       ow.tag = ct /\ er < ct /\ \A e \in lg \cup sf : e.tag < ct

Store(l, ow, fl, lg, sf, er, ct) ==
  /\ FlashForm(fl, er) /\ Window(fl) /\ \A e \in lg : EntryOK(e)
  /\ Rec(l) => Good(l, fl, lg, sf, er) /\ Writing(l) /\ Erasing(l)
  /\ ~Rec(l) => \A e \in lg : OnFlash(fl, e)
  /\ Scanned(l, fl)
  /\ Numbers(l, ow, lg, sf, er, ct)

(* The recovery has read all it asked for, or had nothing to find           *)
Intact == resets = 0 \/ {"scan", "walk"} \cap Faults = {}

InvStore ==
  Intact => /\ Store(ram, owed, flash, log, safe, erased, count)
            /\ resets = 0 /\ ~Rec(ram) => Clear(flash)

LEMMA InitStore == Init => InvStore
<1>1. SUFFICES ASSUME Init PROVE Store(ram, owed, flash, log, safe, erased, count) /\ Clear(flash)
  BY DEF InvStore
<1>2. \A p \in Logicals : flash[p] = Erased
  BY <1>1 DEF Init
<1>3. Clear(flash)
  BY <1>2, ErasedCells DEF Clear
<1>4. FlashForm(flash, erased)
  <2>1. ASSUME NEW p \in Logicals
        PROVE  \E n \in 1..PageSize :
                 WellFormed(flash[p], n) /\ (ValidHeader(flash[p], p) => n > 1 /\ After(flash[p], erased))
    <3>1. WellFormed(flash[p], 1) /\ ~ValidHeader(flash[p], p)
      BY <1>2, ErasedCells
    <3> QED
      BY <3>1 DEF WellFormed
  <2> QED
    BY <2>1 DEF FlashForm
<1>5. Window(flash)
  BY <1>3, <1>4, ClearForm
<1>6. ram.state = "NotReady"
  BY <1>1, BootFields DEF Init
<1>7. ~Rec(ram) /\ Scanned(ram, flash)
  BY <1>6 DEF Rec, Scanned
<1>8. Numbers(ram, owed, log, safe, erased, count)
  BY <1>1 DEF Init, Numbers, NoOp
<1>9. \A e \in log : EntryOK(e) /\ OnFlash(flash, e)
  BY <1>1 DEF Init
<1> QED
  BY <1>3, <1>4, <1>5, <1>7, <1>8, <1>9 DEF Store

(* Records that agree on what the predicates are about                      *)
LEMMA SameWork ==
  ASSUME NEW m, NEW l, SameStore(m, l), SameTask(m, l), m.io = l.io, m.deferred = l.deferred
  PROVE  (Writing(l) => Writing(m)) /\ (Erasing(l) => Erasing(m)) /\ (Rec(m) <=> Rec(l))
<1>1. Last(m) = Last(l) /\ Used(m) = Used(l) /\ First(m) = First(l) /\ m.app = l.app
      /\ m.oldest = l.oldest /\ m.pbuf = l.pbuf /\ m.state = l.state /\ m.req = l.req
  BY DEF SameStore, SameTask, Last, Used, First
<1> QED
  BY <1>1 DEF Writing, Erasing, Rec

LEMMA IdleWork ==
  ASSUME NEW m, m.io = NoIO, ~m.deferred
  PROVE  Writing(m) /\ Erasing(m)
<1>1. NoIO.op = "none"
  BY IOFields
<1> QED
  BY <1>1 DEF Writing, Erasing

LEMMA FinishGood ==
  ASSUME NEW l \in Rams, Quiet(l), l.req = owed, owed \in AllRequests, owed # NoOp,
         flash \in Flashes, finish_reconstruct(l), Good(l, flash, Kept(l, log), safe, erased),
         Used(l) > 1 => Last(l) < First(l) + NumPages, \A e \in log : EntryOK(e),
         \A e \in log : PageNo(e) > 0 => e \in Kept(l, log),
         ram.state = "Reconstructing", Numbers(ram, owed, log, safe, erased, count)
  PROVE  /\ Rec(ram') /\ Good(ram', flash, log', safe, erased) /\ Writing(ram') /\ Erasing(ram')
         /\ \A e \in log' : EntryOK(e) /\ (e \in log \/ (owed.op = "append" /\ e.tag = count))
         /\ ram'.io.op = "write" => log' \subseteq log
         /\ \A e \in log \ log' : PageNo(e) = 0
         /\ ram'.state # "Reconstructing"
<1>1. PICK m, r :
              /\ Ready(m, l)
              /\ \/ Refuses(m, m.req) /\ r = AfterRefusal(m, m.req)
                 \/ ~Refuses(m, m.req) /\ \E g \in Garbage : r = start(m, m.req, g)
              /\ Become([r EXCEPT !.rbHere = TRUE],
                        {e \in log : m.oldest <= e.id /\ e.id < m.app})
  BY FinishReconstruct
<1>2. m \in Rams /\ Quiet(m) /\ ~m.walking /\ m.req = owed /\ m.state = "Idle" /\ SameStore(m, l)
  BY <1>1 DEF Ready, Quiet
<1>3. Kept(m, log) = Kept(l, log) /\ Last(m) = Last(l) /\ Used(m) = Used(l) /\ First(m) = First(l)
  BY <1>2 DEF Kept, SameStore, Last, Used, First
<1>4. {e \in log : m.oldest <= e.id /\ e.id < m.app} = Kept(m, log)
  BY DEF Kept
<1>5. Good(m, flash, Kept(m, log), safe, erased)
  BY <1>2, <1>3, SameGood
<1>6. PICK k : k = [r EXCEPT !.rbHere = TRUE]
  OBVIOUS
<1>7. ram' = k /\ log' = BecomeLog(k, Kept(m, log))
  BY <1>1, <1>4, <1>6, BecomeIs
<1>8. \A e \in Kept(m, log) : e \in log /\ EntryOK(e)
  BY DEF Kept
<1>9. \A e \in log : PageNo(e) \in Nat
  BY EntryAt
<1>10. CASE r = AfterRefusal(m, m.req)
  <2>1. /\ r \in Rams /\ SameStore(r, m) /\ SameTask(r, m) /\ r.io = m.io /\ r.deferred = m.deferred
    BY <1>2, <1>10, RefusalFields
  <2>2. k \in Rams /\ SameStore(k, r) /\ SameTask(k, r) /\ k.io = r.io /\ k.deferred = r.deferred
    BY <1>6, <2>1, HereFields
  <2>3. k.state = "Idle" /\ k.io = NoIO /\ ~k.deferred /\ SameStore(k, m)
    BY <1>2, <2>1, <2>2 DEF SameTask, Quiet, SameStore
  <2>4. k.io.op = "none"
    BY <2>3, IOFields
  <2>5. log' = Kept(m, log)
    BY <1>7, <2>3, <2>4, BecomeSame
  <2>6. Good(k, flash, Kept(m, log), safe, erased)
    BY <1>5, <2>3, SameGood
  <2>7. Writing(k) /\ Erasing(k) /\ Rec(k)
    BY <2>3, IdleWork DEF Rec
  <2>8. \A e \in log \ log' : PageNo(e) = 0
    BY <1>3, <1>9, <2>5
  <2> QED
    BY <1>7, <1>8, <2>3, <2>4, <2>5, <2>6, <2>7, <2>8
<1>11. ASSUME ~Refuses(m, m.req), NEW g \in Garbage, r = start(m, m.req, g)
       PROVE  /\ Rec(ram') /\ Good(ram', flash, log', safe, erased) /\ Writing(ram') /\ Erasing(ram')
              /\ \A e \in log' : EntryOK(e) /\ (e \in log \/ (owed.op = "append" /\ e.tag = count))
              /\ ram'.io.op = "write" => log' \subseteq log
              /\ \A e \in log \ log' : PageNo(e) = 0
              /\ ram'.state # "Reconstructing"
  <2>1. owed.op = "append" => owed.tag = count /\ owed.tag > erased /\ \A e \in safe : e.tag < owed.tag
    <3>1. SUFFICES ASSUME owed.op = "append" PROVE owed.tag = count /\ owed.tag > erased /\ \A e \in safe : e.tag < owed.tag
      OBVIOUS
    <3>2. owed.tag = count /\ erased < count /\ (\A e \in log \cup safe : e.tag < count) /\ erased \in Nat
      BY <3>1 DEF Numbers
    <3>3. owed.tag \in Nat
      BY <3>1, AppendRequest
    <3> QED
      BY <3>2, <3>3
  <2>2. Started(m, r, owed, flash, Kept(m, log), safe, erased)
    BY <1>2, <1>5, <1>8, <1>11, <2>1, StartGood
  <2>3. Served(r, owed)
    BY <1>2, <1>11, StartServes
  <2>4. r \in Rams
    BY <2>3 DEF Served
  <2>5. k \in Rams /\ SameStore(k, r) /\ SameTask(k, r) /\ k.io = r.io /\ k.deferred = r.deferred
    BY <1>6, <2>4, HereFields
  <2>6. log' = BecomeLog(r, Kept(m, log))
    <3>1. BecomeLog(k, Kept(m, log)) = BecomeLog(r, Kept(m, log))
      BY <2>5, BecomeOf DEF SameStore, SameTask
    <3> QED
      BY <1>7, <3>1
  <2>7. Good(r, flash, log', safe, erased) /\ Writing(r) /\ Erasing(r)
    BY <2>2, <2>6 DEF Started
  <2>8. Good(k, flash, log', safe, erased) /\ Writing(k) /\ Erasing(k)
    BY <2>5, <2>7, SameGood, SameWork
  <2>9. k.state # "Reconstructing" /\ k.state # "NotReady" /\ Rec(k)
    BY <2>3, <2>5 DEF Served, Serves, SameTask, Rec
  <2>10. ASSUME NEW e \in log'
         PROVE  EntryOK(e) /\ (e \in log \/ (owed.op = "append" /\ r.deferred /\ e.tag = count))
    BY <1>8, <2>1, <2>2, <2>6, <2>10 DEF Started
  <2>11. r.io.op = "write" => ~r.deferred
    BY <2>3, IOFields DEF Served
  <2>12. ram'.io.op = "write" => log' \subseteq log
    BY <1>7, <2>5, <2>10, <2>11
  <2>13. ASSUME NEW e \in log, e \notin log' PROVE PageNo(e) = 0
    <3>1. SUFFICES ASSUME PageNo(e) # 0 PROVE FALSE
      OBVIOUS
    <3>2. PageNo(e) \in Nat /\ PageNo(e) > 0
      BY <1>9, <3>1
    <3>3. e \in Kept(m, log)
      BY <1>3, <3>2
    <3>4. Used(m) > 1 /\ PageNo(e) = Last(m) - NumPages
      BY <2>2, <2>6, <2>13, <3>3 DEF Started
    <3>5. First(m) <= PageNo(e)
      BY <1>5, <3>3 DEF Good, Entries
    <3>6. Last(m) < First(m) + NumPages /\ First(m) \in Nat /\ Last(m) \in Nat
      BY <1>2, <1>3, <1>5, <3>4, GoodPosition
    <3> QED
      BY <3>4, <3>5, <3>6, Sizes
  <2> QED
    BY <1>7, <2>8, <2>9, <2>10, <2>12, <2>13
<1> QED
  BY <1>1, <1>10, <1>11
LEMMA StoreThen ==
  ASSUME Store(ram', owed', flash', log', safe', erased', count'),
         resets' = 0 /\ ~Rec(ram') => Clear(flash')
  PROVE  InvStore'
  BY DEF InvStore

LEMMA CallStore ==
  ASSUME InvType, InvStore, Intact, NEW o \in Requests, Call(o)
  PROVE  InvStore'
<1>1. /\ o \in AllRequests /\ o # NoOp /\ (o.op = "append" => o.tag = count + 1)
      /\ count \in Nat
  BY RequestTypes, ClientAssumption DEF Call, InvType
<1>2. /\ UNCHANGED <<flash, safe, erased, resets>>
      /\ count' = IF o.op = "append" /\ owed' = o THEN o.tag ELSE count
  BY DEF Call
<1>3. ram \in Rams /\ Control(ram, owed) /\ owed = NoOp /\ flash \in Flashes
  BY DEF InvType, Call, Flashes
<1>4. /\ Store(ram, owed, flash, log, safe, erased, count)
      /\ resets = 0 /\ ~Rec(ram) => Clear(flash)
  BY DEF InvStore
<1>5. /\ FlashForm(flash, erased) /\ Window(flash) /\ \A e \in log : EntryOK(e)
      /\ erased \in Nat /\ erased <= count /\ \A e \in log \cup safe : e.tag \in Nat /\ e.tag <= count
  BY <1>4 DEF Store, Numbers
<1>6. NoOp.op = "none"
  BY DEF NoOp
<1>7. CASE /\ ram.state = "NotReady" /\ owed' = o
           /\ Become(Begin(ram, o), log)
  <2>1. Quiet(ram) /\ ~ram.walking
    BY <1>3, <1>7 DEF Control, Working, Quiet
  <2>2. PICK m : m = Begin(ram, o)
    OBVIOUS
  <2>3. /\ m \in Rams /\ m.state = "Reconstructing" /\ m.next = 0 /\ m.recOldest = NONE /\ m.recNewest = 0
        /\ m.req = o /\ m.io = ram.io /\ m.walking = ram.walking
    BY <1>1, <1>3, <2>2, BeginFields
  <2>4. m.io = NoIO /\ m.io.op = "none"
    BY <2>1, <2>3, IOFields DEF Quiet
  <2>5. ram' = m /\ log' = log
    BY <1>7, <2>2, <2>3, <2>4, BecomeIs, BecomeSame
  <2>6. ~Rec(m) /\ ~Rec(ram)
    BY <1>7, <2>3 DEF Rec
  <2>7. \A e \in log : OnFlash(flash, e)
    BY <1>4, <2>6 DEF Store
  <2>8. Scanned(m, flash)
    BY <2>1, <2>3, <2>4, Sizes DEF Scanned, Logicals
  <2>9. Numbers(m, o, log, safe, erased, count')
    <3>1. CASE o.op = "append"
      <4>1. count' = count + 1 /\ o.tag = count'
        BY <1>1, <1>2, <1>7, <3>1
      <4>2. erased < count' /\ erased <= count' /\ \A e \in log \cup safe : e.tag < count' /\ e.tag <= count'
        BY <1>1, <1>5, <4>1
      <4> QED
        BY <1>5, <4>1, <4>2 DEF Numbers
    <3>2. CASE o.op # "append"
      BY <1>2, <1>5, <3>2 DEF Numbers
    <3> QED
      BY <3>1, <3>2
  <2>10. Store(m, o, flash, log, safe, erased, count')
    BY <1>5, <2>6, <2>7, <2>8, <2>9 DEF Store
  <2> QED
    BY <1>2, <1>4, <1>7, <2>5, <2>6, <2>10, StoreThen
<1>8. CASE /\ ram.state = "Idle" /\ owed' = owed
           /\ Become(AfterRefusal(ram, o), log)
  <2>1. Quiet(ram)
    BY <1>3, <1>8 DEF Control, Working, Quiet
  <2>2. PICK m : m = AfterRefusal(ram, o)
    OBVIOUS
  <2>3. m \in Rams /\ SameStore(m, ram) /\ SameTask(m, ram) /\ m.io = ram.io /\ m.deferred = ram.deferred
    BY <1>3, <2>2, RefusalFields
  <2>4. m.io = NoIO /\ m.io.op = "none" /\ ~m.deferred /\ m.state = "Idle"
    BY <1>8, <2>1, <2>3, IOFields DEF Quiet, SameTask
  <2>5. ram' = m /\ log' = log
    BY <1>8, <2>2, <2>4, BecomeIs, BecomeSame
  <2>6. Rec(m) /\ Rec(ram)
    BY <1>8, <2>4 DEF Rec
  <2>7. Good(m, flash, log, safe, erased) /\ Writing(m) /\ Erasing(m)
    BY <1>4, <2>3, <2>4, <2>6, SameGood, IdleWork DEF Store
  <2>8. count' = count
    BY <1>1, <1>2, <1>3, <1>8
  <2>9. Numbers(m, owed, log, safe, erased, count) /\ Scanned(m, flash)
    BY <1>3, <1>5, <1>6, <2>4 DEF Numbers, Scanned
  <2>10. Store(m, owed, flash, log, safe, erased, count)
    BY <1>5, <2>6, <2>7, <2>9 DEF Store
  <2> QED
    BY <1>2, <1>8, <2>5, <2>6, <2>8, <2>10, StoreThen
<1>9. ASSUME ram.state = "Idle", ~Refuses(ram, o), owed' = o, NEW g \in Garbage, Become(start(ram, o, g), log)
      PROVE  InvStore'
  <2>1. Quiet(ram) /\ ~ram.walking
    BY <1>3, <1>9 DEF Control, Working, Quiet
  <2>2. PICK m : m = start(ram, o, g)
    OBVIOUS
  <2>3. Served(m, o)
    BY <1>1, <1>3, <2>1, <2>2, StartServes
  <2>4. Rec(ram) /\ Good(ram, flash, log, safe, erased)
    BY <1>4, <1>9 DEF Rec, Store
  <2>5. o.op = "append" => count' = o.tag /\ o.tag = count + 1
    BY <1>1, <1>2, <1>9
  <2>6. o.op # "append" => count' = count
    BY <1>2
  <2>7. o.op = "append" => o.tag > erased /\ \A e \in log \cup safe : e.tag < o.tag /\ e.tag <= o.tag
    BY <1>1, <1>5, <2>5
  <2>8. Started(ram, m, o, flash, log, safe, erased)
    BY <1>1, <1>3, <1>5, <1>9, <2>1, <2>2, <2>4, <2>7, StartGood
  <2>9. ram' = m /\ log' = BecomeLog(m, log)
    BY <1>9, <2>2, BecomeIs
  <2>10. Rec(m) /\ m.state # "Reconstructing" /\ (m.io.op = "write" => ~m.deferred)
    BY <2>3, IOFields DEF Served, Serves, Rec
  <2>11. /\ Good(m, flash, log', safe, erased) /\ Writing(m) /\ Erasing(m)
         /\ \A e \in log' : EntryOK(e) /\ (e \in log \/ (o.op = "append" /\ m.deferred /\ e.tag = o.tag))
    BY <2>8, <2>9 DEF Started
  <2>12. Numbers(m, o, log', safe, erased, count')
    <3>1. CASE o.op = "append"
      <4>1. o.tag \in Nat
        BY <1>1, <3>1, AppendRequest
      <4>2. erased <= o.tag /\ erased < o.tag
        BY <1>5, <2>7, <3>1, <4>1
      <4>3. \A e \in log' \cup safe : e.tag \in Nat /\ e.tag <= o.tag
        BY <1>5, <2>7, <2>11, <3>1, <4>1
      <4>4. m.io.op = "write" => \A e \in log' \cup safe : e.tag < o.tag
        BY <2>7, <2>10, <2>11, <3>1
      <4> QED
        BY <1>5, <2>5, <2>10, <3>1, <4>2, <4>3, <4>4 DEF Numbers
    <3>2. CASE o.op # "append"
      BY <1>5, <2>6, <2>11, <3>2 DEF Numbers
    <3> QED
      BY <3>1, <3>2
  <2>13. Scanned(m, flash)
    BY <2>10 DEF Scanned
  <2>14. Store(m, o, flash, log', safe, erased, count')
    BY <1>5, <2>10, <2>11, <2>12, <2>13 DEF Store
  <2> QED
    BY <1>2, <1>9, <2>9, <2>10, <2>14, StoreThen
<1> QED
  BY <1>7, <1>8, <1>9 DEF Call, Begin

(* The request that is answered leaves the store as it is                   *)
LEMMA CallbackStore ==
  ASSUME NEW l \in Rams, NEW kept, Callback(l, kept), NEW fl \in Flashes, NEW sf,
         Good(l, fl, kept, sf, erased'), FlashForm(fl, erased'), Window(fl), \A e \in kept : EntryOK(e),
         erased \in Nat, erased <= count, count \in Nat,
         \A e \in kept \cup sf : e.tag \in Nat /\ e.tag <= count
  PROVE  Store(ram', owed', fl, log', sf, erased', count') /\ Rec(ram')
<1>1. /\ ram' = Idled(l) /\ log' = kept /\ owed' = NoOp /\ count' = count
      /\ erased' = IF owed.op = "erase" /\ l.err = "Ok" THEN count ELSE erased
  BY DEF Callback, Idled
<1>2. ram'.state = "Idle" /\ Quiet(ram') /\ SameStore(ram', l)
  BY <1>1, IdledFields
<1>3. Rec(ram') /\ ram'.io = NoIO /\ ~ram'.deferred /\ ram'.io.op = "none"
  BY <1>2, IOFields DEF Rec, Quiet
<1>4. Good(ram', fl, kept, sf, erased')
  BY <1>2, SameGood
<1>5. Writing(ram') /\ Erasing(ram')
  BY <1>3, IdleWork
<1>6. Scanned(ram', fl)
  BY <1>2 DEF Scanned
<1>7. erased' \in Nat /\ erased' <= count
  BY <1>1
<1>8. Numbers(ram', NoOp, kept, sf, erased', count)
  <2>1. NoOp.op # "append"
    BY DEF NoOp
  <2> QED
    BY <1>7, <2>1 DEF Numbers
<1> QED
  BY <1>1, <1>3, <1>4, <1>5, <1>6, <1>8 DEF Store
(* What RecoversWritten says of a step                                      *)
KeepsWritten == ram.state = "Reconstructing" /\ Rec(ram') => \A e \in log \ log' : PageNo(e) = 0

LEMMA RecoveryStore ==
  ASSUME InvType, Store(ram, owed, flash, log, safe, erased, count), ram.state = "Reconstructing",
         UNCHANGED <<flash, safe>>, NEW l \in Rams, Quiet(l), l.req = owed,
         finish_reconstruct(l), Good(l, flash, Kept(l, log), safe, erased),
         Used(l) > 1 => Last(l) < First(l) + NumPages,
         \A e \in log : PageNo(e) > 0 => e \in Kept(l, log)
  PROVE  InvStore' /\ KeepsWritten
<1>1. owed \in AllRequests /\ owed # NoOp /\ flash \in Flashes /\ count \in Nat
  BY ClientAssumption DEF InvType, Control, Working, Flashes
<1>2. /\ FlashForm(flash, erased) /\ Window(flash) /\ \A e \in log : EntryOK(e)
      /\ Numbers(ram, owed, log, safe, erased, count)
  BY DEF Store
<1>3. /\ Rec(ram') /\ Good(ram', flash, log', safe, erased) /\ Writing(ram') /\ Erasing(ram')
      /\ \A e \in log' : EntryOK(e) /\ (e \in log \/ (owed.op = "append" /\ e.tag = count))
      /\ ram'.io.op = "write" => log' \subseteq log
      /\ \A e \in log \ log' : PageNo(e) = 0
      /\ ram'.state # "Reconstructing"
  BY <1>1, <1>2, FinishGood
<1>4. UNCHANGED <<owed, count, erased, resets>>
  BY FinishReconstruct
<1>5. Numbers(ram', owed, log', safe, erased, count)
  <2>1. \A e \in log' \cup safe : e.tag \in Nat /\ e.tag <= count
    BY <1>1, <1>2, <1>3 DEF Numbers
  <2>2. owed.op = "append" /\ ram'.io.op = "write" =>
          owed.tag = count /\ erased < count /\ \A e \in log' \cup safe : e.tag < count
    BY <1>2, <1>3 DEF Numbers
  <2> QED
    BY <1>2, <1>3, <2>1, <2>2 DEF Numbers
<1>6. Scanned(ram', flash)
  BY <1>3 DEF Scanned
<1>7. Store(ram', owed, flash, log', safe, erased, count)
  BY <1>2, <1>3, <1>5, <1>6 DEF Store
<1> QED
  BY <1>3, <1>4, <1>7, StoreThen DEF KeepsWritten

(* A step of the scan                                                       *)
LEMMA ScanStore ==
  ASSUME InvType, Store(ram, owed, flash, log, safe, erased, count), resets = 0 => Clear(flash),
         ram.state = "Reconstructing", UNCHANGED <<flash, safe>>, Waiting,
         NEW m, m.state = "Reconstructing", m.io.op # "write", Scanned(m, flash), Become(m, log)
  PROVE  InvStore' /\ KeepsWritten
<1>1. ram' = m /\ log' = log
  BY BecomeIs, BecomeSame
<1>2. ~Rec(m) /\ ~Rec(ram)
  BY DEF Rec
<1>3. UNCHANGED <<owed, count, erased, resets>>
  BY DEF Waiting
<1>4. Numbers(m, owed, log, safe, erased, count)
  BY DEF Store, Numbers
<1>5. Store(m, owed, flash, log, safe, erased, count)
  BY <1>2, <1>4 DEF Store
<1> QED
  BY <1>1, <1>2, <1>3, <1>5, StoreThen DEF KeepsWritten

LEMMA DeferredStore ==
  ASSUME InvType, InvStore, Intact, handle_deferred_call
  PROVE  InvStore' /\ KeepsWritten
<1>1. /\ ram \in Rams /\ Control(ram, owed) /\ flash \in Flashes /\ ram.deferred
      /\ UNCHANGED <<flash, safe>> /\ count \in Nat
  BY ClientAssumption DEF InvType, handle_deferred_call, Flashes
<1>2. /\ Store(ram, owed, flash, log, safe, erased, count)
      /\ resets = 0 /\ ~Rec(ram) => Clear(flash)
  BY DEF InvStore
<1>3. PICK l : l = Taken(ram)
  OBVIOUS
<1>4. /\ l \in Rams /\ ~l.deferred /\ l.io = ram.io /\ SameStore(l, ram) /\ SameScan(l, ram)
      /\ SameTask(l, ram) /\ l.err = ram.err
  BY <1>1, <1>3, TakenFields
<1>5. Quiet(l) /\ l.req = owed /\ Working(ram)
  BY <1>1, <1>4 DEF Quiet, Control, SameTask
<1>6. IF l.state = "Reconstructing" THEN drive_reconstruct(l) ELSE Callback(l, log)
  BY <1>3 DEF handle_deferred_call, Taken
<1>7. CASE ram.state = "Reconstructing"
  <2>1. drive_reconstruct(l) /\ l.state = "Reconstructing"
    BY <1>4, <1>6, <1>7 DEF SameTask
  <2>2. Scanned(ram, flash) /\ ~Rec(ram) /\ \A e \in log : EntryOK(e) /\ OnFlash(flash, e)
    BY <1>2, <1>7 DEF Store, Rec
  <2>3. l.next \in 0..NumPages /\ l.recNewest \in Nat
    BY <1>1, <1>4, <1>7 DEF Control, SameScan, Rams
  <2>4. CASE l.next < NumPages /\ Become(start_read_page(l, l.next), log) /\ Waiting
    <3>1. PICK m : m = start_read_page(l, l.next)
      OBVIOUS
    <3>2. l.next \in Logicals /\ ~l.walking
      BY <1>4, <1>7, <2>2, <2>3, <2>4, Sizes DEF Scanned, SameScan, Logicals
    <3>3. SameButCache(m, l) /\ (Fetches(m, l, l.next) \/ Answers(m, l))
      BY <1>4, <1>5, <3>1, <3>2, StartReadPage
    <3>4. /\ m.state = "Reconstructing" /\ SameScan(m, ram)
          /\ (m.io.op = "read" /\ m.io.page = l.next) \/ m.io = NoIO
      BY <1>4, <2>1, <3>3 DEF SameButCache, SameScan, SameTask, Fetches, Answers
    <3>5. NoIO.op = "none"
      BY IOFields
    <3>6. Scanned(m, flash)
      BY <1>4, <1>7, <2>2, <3>2, <3>4, <3>5 DEF Scanned, SameScan
    <3> QED
      BY <1>1, <1>2, <1>7, <2>2, <2>4, <3>1, <3>4, <3>5, <3>6, ScanStore
  <2>5. CASE /\ l.next = NumPages /\ l.recOldest # NONE
             /\ Become(start_read_page([l EXCEPT !.walking = TRUE],
                                       logical_page_of_pos(l.recNewest)), log)
             /\ Waiting
    <3>1. PICK n : n = [l EXCEPT !.walking = TRUE]
      OBVIOUS
    <3>2. /\ n \in Rams /\ n.walking /\ n.io = l.io /\ n.deferred = l.deferred /\ SameTask(n, l)
          /\ n.next = l.next /\ n.recOldest = l.recOldest /\ n.recNewest = l.recNewest
      BY <1>4, <3>1, WalkingFields
    <3>3. PICK p : p = logical_page_of_pos(l.recNewest)
      OBVIOUS
    <3>4. p \in Logicals /\ Quiet(n)
      BY <1>5, <2>3, <3>2, <3>3, LabelOf DEF Quiet
    <3>5. PICK m : m = start_read_page(n, p)
      OBVIOUS
    <3>6. SameButCache(m, n) /\ (Fetches(m, n, p) \/ Answers(m, n))
      BY <3>2, <3>4, <3>5, StartReadPage
    <3>7. /\ m.state = "Reconstructing" /\ m.walking /\ m.next = NumPages /\ m.recOldest = ram.recOldest
          /\ m.recNewest = ram.recNewest /\ ram.next = NumPages /\ ram.recOldest # NONE
          /\ (m.io.op = "read" /\ m.io.page = p) \/ m.io = NoIO
      BY <1>4, <2>1, <2>5, <3>2, <3>6 DEF SameButCache, SameScan, SameTask, Fetches, Answers
    <3>8. NoIO.op = "none" /\ ram.recNewest = l.recNewest
      BY <1>4, IOFields DEF SameScan
    <3>9. Scanned(m, flash)
      BY <1>7, <2>2, <3>3, <3>7, <3>8 DEF Scanned
    <3> QED
      BY <1>1, <1>2, <1>7, <2>2, <2>5, <3>1, <3>3, <3>5, <3>7, <3>8, <3>9, ScanStore
  <2>6. CASE l.next = NumPages /\ l.recOldest = NONE /\ finish_reconstruct(reset_state_empty(l))
    <3>1. Clear(flash)
      <4>1. ram.next = NumPages /\ ram.recOldest = NONE
        BY <1>4, <2>6 DEF SameScan
      <4>2. \A p \in Logicals : p < NumPages
        BY Sizes DEF Logicals
      <4> QED
        BY <1>7, <2>2, <4>1, <4>2 DEF Clear, Scanned
    <3>2. PICK m : m = reset_state_empty(l)
      OBVIOUS
    <3>3. /\ m \in Rams /\ m.io = l.io /\ m.deferred = l.deferred /\ SameTask(m, l)
          /\ m.oldest = 1 /\ m.app = 1 /\ m.pbuf = Fresh(1)
      BY <1>4, <3>2, EmptyFields
    <3>4. Good(m, flash, {}, safe, erased) /\ Used(m) = 1
      BY <3>1, <3>3, EmptyGood
    <3>5. Kept(m, log) = {}
      <4>1. \A e \in log : e.id \in Nat
        BY <2>2 DEF EntryOK
      <4> QED
        BY <3>3, <4>1 DEF Kept
    <3>6. \A e \in log : ~(PageNo(e) > 0)
      <4>1. SUFFICES ASSUME NEW e \in log, PageNo(e) > 0 PROVE FALSE
        OBVIOUS
      <4>2. PageNo(e) \in Nat
        BY <2>2, EntryAt
      <4>3. ValidHeader(flash[PageNo(e) % NumPages], PageNo(e) % NumPages)
        BY <2>2, <4>1, <4>2, HeaderAt DEF OnFlash
      <4>4. PageNo(e) % NumPages \in Logicals
        BY <4>2, Modulo
      <4> QED
        BY <3>1, <4>3, <4>4 DEF Clear
    <3>7. Quiet(m) /\ m.req = owed
      BY <1>5, <3>3 DEF Quiet, SameTask
    <3> QED
      BY <1>1, <1>2, <1>7, <2>6, <3>2, <3>3, <3>4, <3>5, <3>6, <3>7, RecoveryStore
  <2> QED
    BY <2>1, <2>4, <2>5, <2>6 DEF drive_reconstruct
<1>8. CASE ram.state # "Reconstructing"
  <2>1. Callback(l, log) /\ Rec(ram)
    BY <1>4, <1>5, <1>6, <1>8 DEF SameTask, Working, Rec
  <2>2. /\ Good(ram, flash, log, safe, erased) /\ Erasing(ram) /\ FlashForm(flash, erased) /\ Window(flash)
        /\ (\A e \in log : EntryOK(e)) /\ erased \in Nat /\ erased <= count
        /\ \A e \in log \cup safe : e.tag \in Nat /\ e.tag <= count
    BY <1>2, <2>1 DEF Store, Numbers
  <2>3. /\ erased' = IF owed.op = "erase" /\ l.err = "Ok" THEN count ELSE erased
        /\ resets' = resets
    BY <2>1 DEF Callback
  <2>4. Good(ram, flash, log, safe, erased') /\ FlashForm(flash, erased')
    <3>1. CASE owed.op = "erase"
      <4>1. ram.state = "Erasing"
        BY <1>1, <1>5, <1>8, <3>1 DEF Control, Serves
      <4>2. ram.oldest = ram.app
        BY <1>1, <2>2, <4>1 DEF Erasing
      <4>3. Clear(flash) /\ Good(ram, flash, log, safe, erased')
        BY <1>1, <2>2, <4>2, NothingToErase
      <4> QED
        BY <2>2, <4>3, ClearForm
    <3>2. CASE owed.op # "erase"
      BY <2>2, <2>3, <3>2
    <3> QED
      BY <3>1, <3>2
  <2>5. Good(l, flash, log, safe, erased')
    BY <1>4, <2>4, SameGood
  <2>6. Store(ram', owed', flash, log', safe, erased', count') /\ Rec(ram')
    BY <1>1, <1>4, <2>1, <2>2, <2>4, <2>5, CallbackStore
  <2> QED
    BY <1>1, <1>8, <2>6, StoreThen DEF KeepsWritten
<1> QED
  BY <1>7, <1>8
(* The scan of page p takes it into account                                 *)
LEMMA ScanOne ==
  ASSUME NEW fl \in Flashes, NEW l \in Rams, l.state = "Reconstructing", Scanned(l, fl), ~l.walking,
         NEW p \in Logicals, p = l.next, NEW ok \in BOOLEAN, NEW page \in Sheets,
         ok => page = fl[p], ~ok => Clear(fl),
         NEW m \in Rams, m.state = "Reconstructing", m.io.op # "read", m.walking = l.walking, m.next = p + 1,
         LET id    == page[0].val
             valid == ok /\ ValidHeader(page, p)
         IN /\ m.recOldest = IF valid /\ (l.recOldest = NONE \/ id < l.recOldest) THEN id ELSE l.recOldest
            /\ m.recNewest = IF valid /\ id > l.recNewest THEN id ELSE l.recNewest
  PROVE  Scanned(m, fl)
<1>1. l.recOldest \in Nat \cup {NONE} /\ l.recNewest \in Nat /\ NONE = -1
  BY DEF Rams, NONE
<1>2. \A q \in Logicals : q \in Nat /\ fl[q][0].val \in Nat
  BY HeaderVal DEF Logicals
<1>3. \A q \in Logicals : q < p + 1 <=> q < l.next \/ q = p
  BY <1>2
<1>4. /\ \A q \in Logicals : q < l.next /\ ValidHeader(fl[q], q) =>
           l.recOldest # NONE /\ l.recOldest <= fl[q][0].val /\ fl[q][0].val <= l.recNewest
      /\ l.recOldest # NONE =>
           /\ \E q \in Logicals : ValidHeader(fl[q], q) /\ fl[q][0].val = l.recOldest
           /\ \E q \in Logicals : ValidHeader(fl[q], q) /\ fl[q][0].val = l.recNewest
      /\ l.recOldest = NONE => l.recNewest = 0
  BY DEF Scanned
<1>5. CASE ok /\ ValidHeader(fl[p], p)
  <2>1. PICK v \in Nat : v = fl[p][0].val
    BY <1>2
  <2>2. /\ m.recOldest = IF l.recOldest = NONE \/ v < l.recOldest THEN v ELSE l.recOldest
        /\ m.recNewest = IF v > l.recNewest THEN v ELSE l.recNewest
    BY <1>5, <2>1
  <2>3. m.recOldest # NONE /\ m.recOldest \in Nat /\ m.recNewest \in Nat
    BY <1>1, <2>2
  <2>4. m.recOldest <= v /\ v <= m.recNewest /\ l.recNewest <= m.recNewest
        /\ (l.recOldest # NONE => m.recOldest <= l.recOldest)
    BY <1>1, <2>2
  <2>5. ASSUME NEW q \in Logicals, q < m.next, ValidHeader(fl[q], q)
        PROVE  m.recOldest <= fl[q][0].val /\ fl[q][0].val <= m.recNewest
    <3>1. PICK w \in Nat : w = fl[q][0].val
      BY <1>2
    <3>2. CASE q = p
      BY <2>1, <2>4, <3>2
    <3>3. CASE q < l.next
      <4>1. l.recOldest # NONE /\ l.recOldest <= w /\ w <= l.recNewest
        BY <1>4, <2>5, <3>1, <3>3
      <4> QED
        BY <1>1, <2>3, <2>4, <3>1, <4>1
    <3> QED
      BY <1>3, <2>5, <3>2, <3>3
  <2>6. \E q \in Logicals : ValidHeader(fl[q], q) /\ fl[q][0].val = m.recOldest
    BY <1>4, <1>5, <2>1, <2>2
  <2>7. \E q \in Logicals : ValidHeader(fl[q], q) /\ fl[q][0].val = m.recNewest
    <3>1. l.recOldest = NONE => m.recNewest = v
      BY <1>4, <2>2, <2>1
    <3> QED
      BY <1>4, <1>5, <2>1, <2>2, <3>1
  <2> QED
    BY <2>3, <2>5, <2>6, <2>7 DEF Scanned
<1>6. CASE ~(ok /\ ValidHeader(fl[p], p))
  <2>1. m.recOldest = l.recOldest /\ m.recNewest = l.recNewest
    BY <1>6
  <2>2. ~ValidHeader(fl[p], p)
    BY <1>6 DEF Clear
  <2> QED
    BY <1>3, <1>4, <2>1, <2>2 DEF Scanned
<1> QED
  BY <1>5, <1>6

LEMMA ScannedSpans ==
  ASSUME NEW fl \in Flashes, NEW l \in Rams, l.state = "Reconstructing", Scanned(l, fl), l.walking,
         l.recOldest # NONE
  PROVE  \E o, n \in Nat : /\ Spans(fl, o, n) /\ l.recOldest = Base(o) /\ l.recNewest = Base(n)
                           /\ logical_page_of_pos(l.recNewest) = n % NumPages
<1>1. PICK p \in Logicals : ValidHeader(fl[p], p) /\ fl[p][0].val = l.recOldest
  BY DEF Scanned
<1>2. PICK q \in Logicals : ValidHeader(fl[q], q) /\ fl[q][0].val = l.recNewest
  BY DEF Scanned
<1>3. PICK o \in Nat : fl[p][0] = Header(Base(o)) /\ fl[p][0].val = Base(o) /\ o % NumPages = p
  BY <1>1, HeaderVal, HeaderOf
<1>4. PICK n \in Nat : fl[q][0] = Header(Base(n)) /\ fl[q][0].val = Base(n) /\ n % NumPages = q
  BY <1>2, HeaderVal, HeaderOf
<1>5. \A r \in Logicals : ValidHeader(fl[r], r) => Base(o) <= fl[r][0].val /\ fl[r][0].val <= Base(n)
  <2>1. l.next = NumPages /\ \A r \in Logicals : r < NumPages
    BY Sizes DEF Scanned, Logicals
  <2> QED
    BY <1>1, <1>2, <1>3, <1>4, <2>1 DEF Scanned
<1>6. Spans(fl, o, n)
  BY <1>1, <1>2, <1>3, <1>4, <1>5 DEF Spans
<1>7. logical_page_of_pos(Base(n)) = n % NumPages
  <2>1. 0 \in Offsets /\ Base(n) + 0 = Base(n)
    BY Sizes, BaseNext DEF Offsets
  <2> QED
    BY <2>1, PageOf
<1> QED
  BY <1>1, <1>2, <1>3, <1>4, <1>6, <1>7

LEMMA ReadStore ==
  ASSUME InvType, InvStore, Intact, NEW ok \in BOOLEAN, read_complete(ok)
  PROVE  InvStore' /\ KeepsWritten
<1>1. /\ ram \in Rams /\ Control(ram, owed) /\ flash \in Flashes /\ ram.io.op = "read"
      /\ UNCHANGED <<flash, safe>>
  BY DEF InvType, read_complete, Flashes
<1>2. /\ Store(ram, owed, flash, log, safe, erased, count)
      /\ resets = 0 /\ ~Rec(ram) => Clear(flash)
  BY DEF InvStore
<1>3. PageRead(ok) \in Sheets /\ ram.io.page \in Logicals /\ ram.io # NoIO
  BY <1>1, PageReadType
<1>4. PICK l : l = Completed(ram)
  OBVIOUS
<1>5. /\ l \in Rams /\ l.io = NoIO /\ l.deferred = ram.deferred /\ SameStore(l, ram) /\ SameScan(l, ram)
      /\ SameTask(l, ram) /\ l.rd = ram.rd
  BY <1>1, <1>4, CompletedFields
<1>6. Quiet(l) /\ l.req = owed /\ l.state = ram.state /\ Working(ram)
  BY <1>1, <1>3, <1>5 DEF Quiet, Control, SameTask
<1>7. PICK page \in Sheets : page = PageRead(ok) /\ (ok => page = flash[ram.io.page])
  BY <1>3 DEF PageRead
<1>8. NoIO.op = "none"
  BY IOFields
<1>9. ("scan" \in Faults \/ "walk" \in Faults) /\ ~Rec(ram) => Clear(flash)
  BY <1>2 DEF Intact
<1>10. CASE /\ l.state = "Reconstructing" /\ ~l.walking /\ Reports(ok, "scan")
            /\ Become(ScanPage(l, ram.io.page, page, ok), log) /\ Waiting
  <2>1. PICK m : m = ScanPage(l, ram.io.page, page, ok)
    OBVIOUS
  <2>2. LET id    == page[0].val
            valid == ok /\ ValidHeader(page, ram.io.page)
        IN /\ m \in Rams /\ m.io = l.io /\ SameTask(m, l)
           /\ m.walking = l.walking /\ m.next = ram.io.page + 1
           /\ m.recOldest = IF valid /\ (l.recOldest = NONE \/ id < l.recOldest) THEN id ELSE l.recOldest
           /\ m.recNewest = IF valid /\ id > l.recNewest THEN id ELSE l.recNewest
    BY <1>3, <1>5, <2>1, ScanFields
  <2>3. m.state = "Reconstructing" /\ m.io.op = "none"
    BY <1>5, <1>8, <1>10, <2>2 DEF SameTask
  <2>4. Scanned(ram, flash) /\ ~Rec(ram) /\ ram.state = "Reconstructing" /\ ~ram.walking
    BY <1>2, <1>5, <1>6, <1>10 DEF Store, Rec, SameScan
  <2>5. ram.io.page = l.next /\ Scanned(l, flash)
    BY <1>1, <1>5, <1>8, <1>10, <2>4 DEF Scanned, SameScan
  <2>6. ~ok => Clear(flash)
    BY <1>9, <1>10, <2>4 DEF Reports
  <2>7. Scanned(m, flash)
    BY <1>1, <1>3, <1>5, <1>7, <1>10, <2>2, <2>3, <2>5, <2>6, ScanOne
  <2> QED
    BY <1>1, <1>2, <1>10, <2>1, <2>3, <2>4, <2>7, ScanStore
<1>11. CASE /\ l.state = "Reconstructing" /\ l.walking /\ Reports(ok, "walk")
            /\ finish_reconstruct(WalkLastPage(l, page, ok))
  <2>1. Scanned(ram, flash) /\ ~Rec(ram) /\ ram.state = "Reconstructing" /\ ram.walking
    BY <1>2, <1>5, <1>6, <1>11 DEF Store, Rec, SameScan
  <2>2. ram.recOldest # NONE /\ l.recOldest = ram.recOldest /\ l.recNewest = ram.recNewest
    BY <1>1, <1>5, <2>1 DEF Control, SameScan
  <2>3. PICK o \in Nat, n \in Nat : /\ Spans(flash, o, n) /\ ram.recOldest = Base(o) /\ ram.recNewest = Base(n)
                                    /\ logical_page_of_pos(ram.recNewest) = n % NumPages
    BY <1>1, <2>1, <2>2, ScannedSpans
  <2>4. ok /\ page = flash[n % NumPages]
    <3>1. ~Clear(flash)
      <4>1. n % NumPages \in Logicals
        BY Modulo
      <4> QED
        BY <2>3, <4>1 DEF Spans, Clear
    <3>2. ok
      BY <1>9, <1>11, <2>1, <3>1 DEF Reports
    <3>3. ram.io.page = n % NumPages
      BY <1>1, <2>1, <2>3 DEF Scanned
    <3> QED
      BY <1>7, <3>2, <3>3
  <2>5. PICK m : m = WalkLastPage(l, page, ok)
    OBVIOUS
  <2>6. LET len == WalkedLen(page)
        IN /\ m \in Rams /\ m.io = l.io /\ m.deferred = l.deferred /\ SameTask(m, l)
           /\ m.oldest = l.recOldest + 1
           /\ len < PageSize => m.app = l.recNewest + len /\ m.pbuf = page
           /\ ~(len < PageSize) => m.app = l.recNewest + PageSize + 1 /\ m.pbuf = Fresh(l.recNewest + PageSize)
    BY <1>5, <2>2, <2>4, <2>5, WalkFields
  <2>7. Walked(m, flash, o, n)
    BY <2>2, <2>3, <2>4, <2>6 DEF Walked
  <2>8. /\ FlashForm(flash, erased) /\ Window(flash) /\ \A e \in log : EntryOK(e) /\ OnFlash(flash, e)
    BY <1>2, <2>1 DEF Store
  <2>9. /\ Good(m, flash, Kept(m, log), safe, erased)
        /\ Used(m) > 1 => Last(m) < First(m) + NumPages
        /\ \A e \in log : PageNo(e) > 0 => e \in Kept(m, log)
    BY <1>1, <2>3, <2>6, <2>7, <2>8, GoodRecovery
  <2>10. Quiet(m) /\ m.req = owed
    BY <1>6, <2>6 DEF Quiet, SameTask
  <2> QED
    BY <1>1, <1>2, <1>11, <2>1, <2>5, <2>6, <2>9, <2>10, RecoveryStore
<1>12. ASSUME l.state = "Reading", NEW g \in Garbage, Waiting, NEW p \in Labels,
              Become(IF ok THEN advance_read_pointer_then_deliver(Fetched(l, page, p), g)
                     ELSE Finish(Fetched(l, page, p), "FAIL", 0), log)
       PROVE  InvStore' /\ KeepsWritten
  <2>1. PICK n : n = Fetched(l, page, p)
    OBVIOUS
  <2>2. /\ n \in Rams /\ n.io = l.io /\ n.deferred = l.deferred
        /\ SameStore(n, l) /\ SameTask(n, l)
    BY <1>5, <1>12, <2>1, FetchedFields
  <2>3. Quiet(n)
    BY <1>6, <2>2 DEF Quiet
  <2>4. PICK m : m = IF ok THEN advance_read_pointer_then_deliver(n, g) ELSE Finish(n, "FAIL", 0)
    OBVIOUS
  <2>5. SameStore(m, n) /\ SameTask(m, n) /\ m.io.op # "write" /\ m.io.op # "erase"
    <3>1. CASE ok
      <4>1. SameButCache(m, n) /\ \E k, q, len : Answers(m, k) \/ Fails(m, k) \/ Fetches(m, k, q)
                                                 \/ Delivers(m, k, len) \/ Refetches(m, k, len)
        BY <2>2, <2>3, <2>4, <3>1, AdvanceOutcome
      <4>2. \E k, q : Answers(m, k) \/ Fetches(m, k, q)
        BY <4>1 DEF Fails, Delivers, Refetches
      <4> QED
        BY <1>8, <4>1, <4>2 DEF SameButCache, Answers, Fetches
    <3>2. CASE ~ok
      <4>1. "FAIL" \in Errs /\ 0 \in Nat
        BY DEF Errs
      <4>2. m = Finish(n, "FAIL", 0)
        BY <2>4, <3>2
      <4>3. Answers(m, n) /\ SameButCache(m, n)
        BY <2>2, <2>3, <4>1, <4>2, FinishAnswers
      <4> QED
        BY <1>8, <4>3 DEF Answers, SameButCache
    <3> QED
      BY <3>1, <3>2
  <2>6. m.state = "Reading" /\ SameStore(m, ram)
    BY <1>5, <1>12, <2>2, <2>5 DEF SameTask, SameStore
  <2>7. ram' = m /\ log' = log
    BY <1>12, <2>1, <2>4, <2>5, <2>6, BecomeIs, BecomeSame
  <2>8. UNCHANGED <<owed, count, erased, resets>>
    BY <1>12 DEF Waiting
  <2>9. Rec(ram) /\ Rec(m) /\ ram.state # "Reconstructing"
    BY <1>6, <1>12, <2>6 DEF Rec
  <2>10. /\ Good(ram, flash, log, safe, erased) /\ FlashForm(flash, erased) /\ Window(flash)
         /\ (\A e \in log : EntryOK(e)) /\ Numbers(ram, owed, log, safe, erased, count)
    BY <1>2, <2>9 DEF Store
  <2>11. Good(m, flash, log, safe, erased)
    BY <2>6, <2>10, SameGood
  <2>12. Writing(m) /\ Erasing(m) /\ Scanned(m, flash) /\ Numbers(m, owed, log, safe, erased, count)
    BY <2>5, <2>6, <2>10 DEF Writing, Erasing, Scanned, Numbers
  <2>13. Store(m, owed, flash, log, safe, erased, count)
    BY <2>9, <2>10, <2>11, <2>12 DEF Store
  <2> QED
    BY <1>1, <2>7, <2>8, <2>9, <2>13, StoreThen DEF KeepsWritten
<1>13. ASSUME l.state = "Reading", NEW g \in Garbage, Waiting,
              LET m == [l EXCEPT !.rbuf = page, !.rbHere = TRUE,
                                 !.rbPage = IF ok THEN logical_page_of_pos(l.rd) ELSE NONE]
              IN Become(IF ok THEN advance_read_pointer_then_deliver(m, g) ELSE Finish(m, "FAIL", 0), log)
       PROVE  InvStore' /\ KeepsWritten
  <2>1. PICK p : p = IF ok THEN logical_page_of_pos(l.rd) ELSE NONE
    OBVIOUS
  <2>2. p \in Labels
    <3>1. l.rd \in Int
      BY <1>5 DEF Rams
    <3> QED
      BY <2>1, <3>1, LabelOf DEF Labels
  <2> QED
    BY <1>12, <1>13, <2>1, <2>2 DEF Fetched
<1> QED
  BY <1>4, <1>7, <1>10, <1>11, <1>13 DEF read_complete, Completed, PageRead
LEMMA WriteStore ==
  ASSUME InvType, InvStore, Intact, NEW ok \in BOOLEAN, write_complete(ok)
  PROVE  InvStore' /\ Rec(ram)
<1>1. /\ ram \in Rams /\ Control(ram, owed) /\ flash \in Flashes /\ ram.io.op = "write"
      /\ owed \in AllRequests /\ count \in Nat
  BY ClientAssumption DEF InvType, write_complete, Flashes
<1>2. ram.state \in {"Appending", "Syncing"} /\ Rec(ram)
  BY <1>1 DEF Control, Rec
<1>3. /\ FlashForm(flash, erased) /\ Window(flash) /\ (\A e \in log : EntryOK(e))
      /\ Good(ram, flash, log, safe, erased) /\ Writing(ram)
      /\ Numbers(ram, owed, log, safe, erased, count)
  BY <1>2 DEF InvStore, Store
<1>4. /\ erased \in Nat /\ erased <= count
      /\ \A e \in log \cup safe : e.tag \in Nat /\ e.tag <= count
  BY <1>3 DEF Numbers
<1>5. PICK l : l = Completed(ram)
  OBVIOUS
<1>6. l \in Rams /\ SameTask(l, ram) /\ SameStore(l, ram) /\ l.io = NoIO
  BY <1>1, <1>5, CompletedFields
<1>7. owed = ram.req /\ l.req = owed /\ l.state = ram.state
  BY <1>1, <1>6, WriteTaken DEF SameTask
<1>8. CASE /\ Callback([l EXCEPT !.err = "FAIL", !.got = 0, !.lost = IF l.flushing THEN FALSE ELSE @], log)
           /\ UNCHANGED <<flash, safe>>
  <2>1. PICK t \in BOOLEAN : t = IF l.flushing THEN FALSE ELSE l.lost
    BY <1>6 DEF Rams
  <2>2. PICK k : k = [l EXCEPT !.err = "FAIL", !.got = 0, !.lost = t]
    OBVIOUS
  <2>3. k \in Rams /\ SameStore(k, l)
    BY <1>6, <2>2, FailedFields
  <2>4. Callback(k, log)
    BY <1>8, <2>1, <2>2
  <2>5. erased' = erased
    BY <1>1, <1>2, <2>4 DEF Callback, Control, Working, Serves
  <2>6. SameStore(k, ram)
    BY <1>6, <2>3 DEF SameStore
  <2>7. Good(k, flash, log, safe, erased')
    BY <1>3, <2>5, <2>6, SameGood
  <2>8. Store(ram', owed', flash, log', safe, erased', count') /\ Rec(ram')
    BY <1>1, <1>3, <1>4, <2>3, <2>4, <2>5, <2>7, CallbackStore
  <2> QED
    BY <1>2, <1>8, <2>8, StoreThen
<1>9. CASE flash' = [flash EXCEPT ![ram.io.page] = ram.pbuf] /\ safe' = log /\
           (\/ /\ l.state = "Appending"
              /\ Become(append_to_pagebuffer([reset_pagebuffer(l) EXCEPT !.flushing = FALSE]), log)
              /\ Waiting
           \/ /\ l.state = "Syncing"
              /\ Callback([IF l.app % PageSize = 0 THEN reset_pagebuffer(l) ELSE l
                           EXCEPT !.err = "Ok", !.got = 0], log))
  <2>1. /\ ram.io.page = Last(ram) % NumPages /\ Used(ram) > 1 /\ Last(ram) < First(ram) + NumPages
        /\ ram.state = "Appending" => /\ Circular \/ ram.app + PageSize <= Volume
                                      /\ ram.req.len <= PageSize - 2
    BY <1>1, <1>3 DEF Writing
  <2>2. flash' = [flash EXCEPT ![Last(ram) % NumPages] = ram.pbuf]
    BY <1>9, <2>1
  <2>3. /\ flash' \in Flashes /\ Good(ram, flash', log, log, erased)
        /\ FlashForm(flash', erased) /\ Window(flash')
        /\ \A p \in Logicals : ValidHeader(flash'[p], p) => Base(First(ram)) <= flash'[p][0].val
    BY <1>1, <1>3, <2>1, <2>2, GoodWrite
  <2>4. PICK r : r = reset_pagebuffer(l)
    OBVIOUS
  <2>5. /\ r \in Rams /\ r.io = l.io /\ SameTask(r, l) /\ r.oldest = l.oldest
        /\ IF ~Circular /\ l.app + PageSize > Volume
           THEN r = l
           ELSE r.pbuf = Fresh(RoundUp(l.app)) /\ r.app = RoundUp(l.app) + 1
    BY <1>6, <2>4, NextPageFields
  <2>6. Good(l, flash', log, log, erased) /\ l.app = ram.app /\ l.oldest = ram.oldest
    BY <1>6, <2>3, SameGood DEF SameStore
  <2>7. ASSUME r.pbuf = Fresh(RoundUp(l.app)), r.app = RoundUp(l.app) + 1
        PROVE  Good(r, flash', log, log, erased) /\ Used(r) = 1
    BY <1>1, <1>3, <2>1, <2>3, <2>5, <2>6, <2>7, GoodNextPage
  <2>8. CASE /\ l.state = "Appending" /\ Waiting
             /\ Become(append_to_pagebuffer([reset_pagebuffer(l) EXCEPT !.flushing = FALSE]), log)
    <3>1. ram.req.len <= PageSize - 2 /\ (Circular \/ ram.app + PageSize <= Volume)
          /\ ram.app \in Nat /\ owed.op = "append"
      BY <1>1, <1>2, <1>7, <2>1, <2>8 DEF Rams, Control, Working, Serves
    <3>2. r.pbuf = Fresh(RoundUp(l.app)) /\ r.app = RoundUp(l.app) + 1
      <4>1. ~(~Circular /\ l.app + PageSize > Volume)
        BY <2>6, <3>1, VolumeType, Sizes
      <4> QED
        BY <2>5, <4>1
    <3>3. Good(r, flash', log, log, erased) /\ Used(r) = 1
      BY <2>7, <3>2
    <3>4. PICK k : k = [r EXCEPT !.flushing = FALSE]
      OBVIOUS
    <3>5. k \in Rams /\ SameStore(k, r) /\ k.state = r.state /\ k.req = r.req /\ k.io = r.io
      BY <2>5, <3>4, UnflushedFields
    <3>6. k.req = owed /\ k.state = "Appending" /\ k.io = NoIO
      BY <1>6, <1>7, <2>5, <2>8, <3>5 DEF SameTask
    <3>7. owed.tag = count /\ erased < count /\ \A e \in log \cup safe : e.tag < count
      BY <1>1, <1>3, <3>1 DEF Numbers
    <3>8. owed.len \in Nat /\ owed.tag \in Nat
      BY <1>1, <3>1, AppendRequest
    <3>9. k.req.tag > erased /\ \A e \in log : e.tag < k.req.tag
      BY <1>4, <3>6, <3>7, <3>8
    <3>10. Used(k) + 1 + k.req.len <= PageSize
      <4>1. Used(k) = 1
        BY <3>3, <3>5 DEF Used, Last, SameStore
      <4>2. 1 + 1 + owed.len <= PageSize
        BY <1>7, <3>1, <3>8, Sizes
      <4> QED
        BY <3>6, <4>1, <4>2
    <3>11. PICK m : m = append_to_pagebuffer(k)
      OBVIOUS
    <3>12. k.req.op = "append"
      BY <3>1, <3>6
    <3>13. Started(r, m, k.req, flash', log, log, erased)
      BY <1>3, <2>3, <2>5, <3>3, <3>5, <3>6, <3>9, <3>10, <3>11, <3>12, StartedAppend
    <3>14. m \in Rams /\ m.io = NoIO /\ m.state = "Appending"
      BY <3>5, <3>6, <3>11, <3>12, AppendFields DEF SameTask
    <3>15. ram' = m /\ log' = BecomeLog(m, log)
      BY <2>4, <2>8, <3>4, <3>11, BecomeIs
    <3>16. /\ Good(m, flash', log', log, erased) /\ Writing(m) /\ Erasing(m)
           /\ \A e \in log' : EntryOK(e) /\ (e \in log \/ e.tag = owed.tag)
      BY <3>6, <3>13, <3>15 DEF Started
    <3>17. m.io.op = "none"
      BY <3>14, IOFields
    <3>18. Numbers(m, owed, log', log, erased, count)
      <4>1. \A e \in log' \cup log : e.tag \in Nat /\ e.tag <= count
        BY <1>1, <1>4, <3>7, <3>16
      <4> QED
        BY <1>4, <3>14, <3>17, <4>1 DEF Numbers
    <3>19. Rec(m) /\ Scanned(m, flash')
      BY <3>14 DEF Rec, Scanned
    <3>20. Store(m, owed, flash', log', log, erased, count)
      BY <2>3, <3>16, <3>18, <3>19 DEF Store
    <3>21. UNCHANGED <<owed, count, erased, resets>>
      BY <2>8 DEF Waiting
    <3> QED
      BY <1>2, <1>9, <3>15, <3>19, <3>20, <3>21, StoreThen
  <2>9. CASE Callback([IF l.app % PageSize = 0 THEN reset_pagebuffer(l) ELSE l
                       EXCEPT !.err = "Ok", !.got = 0], log)
    <3>1. PICK k : k = IF l.app % PageSize = 0 THEN r ELSE l
      OBVIOUS
    <3>2. k \in Rams /\ Good(k, flash', log, log, erased)
      <4>1. r \in Rams /\ Good(r, flash', log, log, erased)
        BY <2>5, <2>6, <2>7
      <4> QED
        BY <1>6, <2>6, <3>1, <4>1
    <3>3. PICK m : m = [k EXCEPT !.err = "Ok", !.got = 0]
      OBVIOUS
    <3>4. "Ok" \in Errs
      BY DEF Errs
    <3>5. m \in Rams /\ SameStore(m, k)
      BY <3>2, <3>3, <3>4, OutcomeFields
    <3>6. Callback(m, log)
      BY <2>4, <2>9, <3>1, <3>3
    <3>7. erased' = erased /\ owed.op # "erase"
      BY <1>1, <1>2, <3>6 DEF Callback, Control, Working, Serves
    <3>8. Good(m, flash', log, log, erased')
      BY <3>2, <3>5, <3>7, SameGood
    <3>9. \A e \in log \cup log : e.tag \in Nat /\ e.tag <= count
      BY <1>4
    <3>10. Store(ram', owed', flash', log', log, erased', count') /\ Rec(ram')
      BY <1>1, <1>3, <1>4, <2>3, <3>5, <3>6, <3>7, <3>8, <3>9, CallbackStore
    <3> QED
      BY <1>2, <1>9, <3>10, StoreThen
  <2> QED
    BY <1>9, <2>8, <2>9
<1> QED
  BY <1>5, <1>8, <1>9 DEF write_complete, Completed

LEMMA EraseStore ==
  ASSUME InvType, InvStore, Intact, NEW ok \in BOOLEAN, erase_complete(ok)
  PROVE  InvStore' /\ Rec(ram)
<1>1. /\ ram \in Rams /\ Control(ram, owed) /\ flash \in Flashes /\ ram.io.op = "erase"
      /\ owed \in AllRequests /\ count \in Nat /\ UNCHANGED safe
  BY ClientAssumption DEF InvType, erase_complete, Flashes
<1>2. ram.state = "Erasing" /\ Rec(ram) /\ owed.op = "erase"
  BY <1>1 DEF Control, Rec, Working, Serves
<1>3. /\ FlashForm(flash, erased) /\ Window(flash) /\ (\A e \in log : EntryOK(e))
      /\ Good(ram, flash, log, safe, erased) /\ Erasing(ram)
      /\ erased \in Nat /\ erased <= count
      /\ \A e \in log \cup safe : e.tag \in Nat /\ e.tag <= count
  BY <1>2 DEF InvStore, Store, Numbers
<1>4. PICK l : l = Completed(ram)
  OBVIOUS
<1>5. l \in Rams /\ SameTask(l, ram) /\ SameStore(l, ram) /\ l.io = NoIO /\ l.deferred = ram.deferred
  BY <1>1, <1>4, CompletedFields
<1>6. Quiet(l) /\ l.state = "Erasing" /\ l.oldest = ram.oldest /\ l.app = ram.app
  BY <1>1, <1>2, <1>4, <1>5, EraseTaken DEF SameTask, SameStore
<1>7. Good(l, flash, log, safe, erased) /\ First(l) = First(ram)
  BY <1>3, <1>5, <1>6, SameGood DEF First
<1>8. "FAIL" \in Errs /\ "Ok" \in Errs
  BY DEF Errs
<1>9. [flash EXCEPT ![ram.io.page] = Erased] = Without(l, flash)
  BY <1>1, <1>3, <1>7 DEF Erasing, Without
<1>10. CASE Callback([l EXCEPT !.err = "FAIL", !.got = 0], log) /\ UNCHANGED flash
  <2>1. PICK k : k = [l EXCEPT !.err = "FAIL", !.got = 0]
    OBVIOUS
  <2>2. k \in Rams /\ SameStore(k, l)
    BY <1>5, <1>8, <2>1, OutcomeFields
  <2>3. k.err = "FAIL"
    BY <1>5, <2>1 DEF Rams
  <2>4. erased' = erased /\ Callback(k, log)
    BY <1>10, <2>1, <2>3 DEF Callback
  <2>5. Good(k, flash, log, safe, erased')
    BY <1>7, <2>2, <2>4, SameGood
  <2>6. Store(ram', owed', flash, log', safe, erased', count') /\ Rec(ram')
    BY <1>1, <1>3, <2>2, <2>4, <2>5, CallbackStore
  <2> QED
    BY <1>1, <1>2, <1>10, <2>6, StoreThen
<1>11. CASE /\ flash' = [flash EXCEPT ![ram.io.page] = Erased] /\ ErasedAll(l)
            /\ Callback([reset_state_empty(l) EXCEPT !.err = "Ok", !.got = 0], {})
  <2>1. flash' = Without(l, flash) /\ flash' \in Flashes
    <3>1. flash' = Without(l, flash)
      BY <1>9, <1>11
    <3>2. Without(l, flash) \in Flashes
      BY <1>1, <1>5, <1>7, WithoutPage
    <3> QED
      BY <3>1, <3>2
  <2>2. Clear(flash')
    BY <1>1, <1>5, <1>7, <1>11, <2>1, LastErased DEF ErasedAll
  <2>3. FlashForm(flash', erased)
    BY <1>1, <1>3, <1>5, <1>7, <2>1, WithoutForm
  <2>4. FlashForm(flash', erased') /\ Window(flash')
    BY <2>2, <2>3, ClearForm
  <2>5. PICK r \in Rams : r = reset_state_empty(l) /\ r.oldest = 1 /\ r.app = 1 /\ r.pbuf = Fresh(1)
    BY <1>5, EmptyFields
  <2>6. PICK k : k = [r EXCEPT !.err = "Ok", !.got = 0]
    OBVIOUS
  <2>7. k \in Rams /\ SameStore(k, r)
    BY <1>8, <2>5, <2>6, OutcomeFields
  <2>8. Good(k, flash', {}, safe, erased')
    BY <2>2, <2>5, <2>7, EmptyGood DEF SameStore
  <2>9. Callback(k, {})
    BY <1>11, <2>5, <2>6
  <2>10. \A e \in {} \cup safe : e.tag \in Nat /\ e.tag <= count
    BY <1>3
  <2>11. Store(ram', owed', flash', log', safe, erased', count') /\ Rec(ram')
    BY <1>1, <1>3, <2>1, <2>4, <2>7, <2>8, <2>9, <2>10, CallbackStore
  <2> QED
    BY <1>1, <1>2, <2>11, StoreThen
<1>12. ASSUME flash' = [flash EXCEPT ![ram.io.page] = Erased], ~ErasedAll(l), Waiting,
              Become(erase_oldest_page([l EXCEPT !.oldest = @ + PageSize]),
                     {e \in log : PageNo(e) # l.oldest \div PageSize})
       PROVE  InvStore'
  <2>1. flash' = Without(l, flash) /\ flash' \in Flashes
    <3>1. flash' = Without(l, flash)
      BY <1>9, <1>12
    <3>2. Without(l, flash) \in Flashes
      BY <1>1, <1>5, <1>7, WithoutPage
    <3> QED
      BY <3>1, <3>2
  <2>2. FlashForm(flash', erased) /\ Window(flash')
    BY <1>1, <1>3, <1>5, <1>7, <2>1, WithoutForm
  <2>3. l.oldest + PageSize < l.app
    <3>1. l.oldest \in Nat /\ l.app \in Nat
      BY <1>5 DEF Rams
    <3> QED
      BY <1>12, <3>1, Sizes DEF ErasedAll
  <2>4. PICK r : r = [l EXCEPT !.oldest = @ + PageSize]
    OBVIOUS
  <2>5. /\ r \in Rams /\ r.oldest = l.oldest + PageSize /\ r.app = l.app /\ r.pbuf = l.pbuf
        /\ SameTask(r, l) /\ r.deferred = l.deferred
    BY <1>5, <2>4, OldestFields
  <2>6. PICK kept : kept = {e \in log : PageNo(e) # First(l)}
    OBVIOUS
  <2>7. Good(r, flash', kept, safe, erased)
    BY <1>1, <1>3, <1>5, <1>7, <2>1, <2>3, <2>5, <2>6, GoodErase
  <2>8. PICK m : m = erase_oldest_page(r)
    OBVIOUS
  <2>9. /\ m \in Rams /\ m.deferred = r.deferred /\ SameStore(m, r) /\ SameTask(m, r)
        /\ m.io = [op |-> "erase", page |-> logical_page_of_pos(r.oldest)]
    BY <2>5, <2>8, EraseFields
  <2>10. m.state = "Erasing" /\ ~m.deferred /\ m.io.op = "erase" /\ m.io.page = logical_page_of_pos(r.oldest)
    BY <1>6, <2>5, <2>9 DEF SameTask, Quiet
  <2>11. Good(m, flash', kept, safe, erased) /\ First(m) = First(r)
    BY <2>7, <2>9, SameGood DEF SameStore, First
  <2>12. logical_page_of_pos(r.oldest) = First(r) % NumPages
    <3>1. r.oldest % PageSize = 1
      BY <2>7 DEF Good, Cursors
    <3> QED
      BY <2>5, <3>1, OldestAt
  <2>13. Erasing(m) /\ Writing(m) /\ Rec(m) /\ Scanned(m, flash')
    BY <2>10, <2>11, <2>12 DEF Erasing, Writing, Rec, Scanned
  <2>14. ram' = m /\ log' = kept
    <3>1. kept = {e \in log : PageNo(e) # l.oldest \div PageSize}
      BY <2>6 DEF First
    <3> QED
      BY <1>12, <2>4, <2>8, <2>10, <3>1, BecomeIs, BecomeSame
  <2>15. /\ \A e \in kept : EntryOK(e)
         /\ Numbers(m, owed, kept, safe, erased, count)
    BY <1>2, <1>3, <2>6, <2>10 DEF Numbers
  <2>16. Store(m, owed, flash', kept, safe, erased, count)
    BY <2>2, <2>11, <2>13, <2>15 DEF Store
  <2>17. UNCHANGED <<owed, count, erased, resets>>
    BY <1>12 DEF Waiting
  <2> QED
    BY <1>1, <2>13, <2>14, <2>16, <2>17, StoreThen
<1> QED
  BY <1>2, <1>4, <1>10, <1>11, <1>12 DEF erase_complete, Completed

LEMMA ResetStore ==
  ASSUME InvType, InvStore, Intact, Reset
  PROVE  InvStore' /\ ~Rec(ram')
<1>1. /\ ram' = Boot /\ owed' = NoOp /\ UNCHANGED <<count, erased>> /\ resets' = resets + 1 /\ safe' = log'
      /\ resets \in Nat
  BY ClientAssumption DEF Reset, InvType
<1>2. /\ ram \in Rams /\ Control(ram, owed) /\ flash \in Flashes /\ count \in Nat
  BY ClientAssumption DEF InvType, Flashes
<1>3. /\ FlashForm(flash, erased) /\ Window(flash) /\ (\A e \in log : EntryOK(e))
      /\ Rec(ram) => Good(ram, flash, log, safe, erased) /\ Writing(ram) /\ Erasing(ram)
      /\ ~Rec(ram) => \A e \in log : OnFlash(flash, e)
      /\ erased \in Nat /\ erased <= count
      /\ \A e \in log \cup safe : e.tag \in Nat /\ e.tag <= count
  BY DEF InvStore, Store, Numbers
<1>4. /\ FlashForm(flash', erased) /\ Window(flash') /\ log' \subseteq log
      /\ \A e \in log' : OnFlash(flash', e)
  <2>1. CASE UNCHANGED flash /\ log' = log \cap safe
    <3>1. \A e \in log' : OnFlash(flash, e)
      BY <1>3, <2>1 DEF Good, Entries
    <3> QED
      BY <1>3, <2>1, <3>1
  <2>2. CASE /\ ram.io.op = "write" /\ log' = log
             /\ flash' = [flash EXCEPT ![ram.io.page] = ram.pbuf]
    <3>1. Rec(ram)
      BY <1>2, <2>2 DEF Control, Rec
    <3>2. /\ ram.io.page = Last(ram) % NumPages /\ Used(ram) > 1 /\ Last(ram) < First(ram) + NumPages
      BY <1>3, <2>2, <3>1 DEF Writing
    <3>3. flash' = [flash EXCEPT ![Last(ram) % NumPages] = ram.pbuf]
      BY <2>2, <3>2
    <3>4. FlashForm(flash', erased) /\ Window(flash') /\ \A e \in log : OnFlash(flash', e)
      BY <1>2, <1>3, <3>1, <3>2, <3>3, GoodWrite
    <3> QED
      BY <2>2, <3>4
  <2>3. CASE /\ ram.io.op = "erase" /\ flash' = [flash EXCEPT ![ram.io.page] = Erased]
             /\ log' = {e \in log \cap safe : PageNo(e) # ram.oldest \div PageSize}
    <3>1. Rec(ram)
      BY <1>2, <2>3 DEF Control, Rec
    <3>2. flash' = Without(ram, flash)
      BY <1>3, <2>3, <3>1 DEF Erasing, Without
    <3>3. FlashForm(flash', erased) /\ Window(flash')
      BY <1>2, <1>3, <3>1, <3>2, WithoutForm
    <3>4. ASSUME NEW e \in log' PROVE OnFlash(flash', e)
      <4>1. e \in log /\ e \in safe /\ PageNo(e) # First(ram) /\ EntryOK(e)
        BY <1>3, <2>3, <3>4 DEF First
      <4> QED
        BY <1>2, <1>3, <3>1, <3>2, <4>1, WithoutEntry
    <3> QED
      BY <2>3, <3>3, <3>4
  <2> QED
    BY <2>1, <2>2, <2>3 DEF Reset
<1>5. ram'.state = "NotReady"
  BY <1>1, BootFields
<1>6. ~Rec(ram') /\ Scanned(ram', flash')
  BY <1>5 DEF Rec, Scanned
<1>7. NoOp.op # "append"
  BY DEF NoOp
<1>8. Numbers(ram', NoOp, log', log', erased, count)
  BY <1>3, <1>4, <1>7 DEF Numbers
<1>9. Store(ram', NoOp, flash', log', log', erased, count)
  BY <1>3, <1>4, <1>6, <1>8 DEF Store
<1>10. resets' # 0
  BY <1>1
<1> QED
  BY <1>1, <1>6, <1>9, <1>10, StoreThen
LEMMA StoreStep ==
  ASSUME InvType, InvStore, [Next]_vars
  PROVE  InvStore' /\ (Intact => (ram.state = "Reconstructing" /\ Rec(ram') =>
                                    \A e \in log \ log' : PageNo(e) = 0))
<1>1. CASE UNCHANGED vars
  <2>1. UNCHANGED <<ram, owed, flash, log, safe, erased, count, resets>>
    BY <1>1 DEF vars
  <2> QED
    BY <2>1 DEF InvStore, Intact
<1>2. CASE Next
  <2>1. Intact' => Intact
    <3>1. resets' = resets \/ (resets' = resets + 1 /\ resets \in Nat)
      <4>1. ASSUME NEW o \in Requests, Call(o) PROVE resets' = resets
        BY <4>1 DEF Call
      <4>2. CASE handle_deferred_call
        <5>1. ASSUME NEW l, finish_reconstruct(l) PROVE resets' = resets
          BY <5>1 DEF finish_reconstruct, Waiting
        <5>2. PICK l : l = Taken(ram)
          OBVIOUS
        <5>3. drive_reconstruct(l) \/ Callback(l, log)
          BY <4>2, <5>2 DEF handle_deferred_call, Taken
        <5>4. ASSUME drive_reconstruct(l) PROVE resets' = resets
          BY <5>1, <5>4 DEF drive_reconstruct, Waiting
        <5> QED
          BY <5>3, <5>4 DEF Callback
      <4>3. ASSUME NEW ok \in BOOLEAN, read_complete(ok) PROVE resets' = resets
        <5>1. ASSUME NEW l, finish_reconstruct(l) PROVE resets' = resets
          BY <5>1 DEF finish_reconstruct, Waiting
        <5> QED
          BY <4>3, <5>1 DEF read_complete, Waiting
      <4>4. ASSUME NEW ok \in BOOLEAN, write_complete(ok) PROVE resets' = resets
        BY <4>4 DEF write_complete, Waiting, Callback
      <4>5. ASSUME NEW ok \in BOOLEAN, erase_complete(ok) PROVE resets' = resets
        BY <4>5 DEF erase_complete, Waiting, Callback
      <4>6. CASE Reset
        BY <4>6, ClientAssumption DEF Reset, InvType
      <4> QED
        BY <1>2, <4>1, <4>2, <4>3, <4>4, <4>5, <4>6 DEF Next, FlashDone
    <3> QED
      BY <3>1 DEF Intact
  <2>2. ASSUME ~Intact PROVE InvStore'
    BY <2>1, <2>2 DEF InvStore
  <2>3. ASSUME Intact PROVE InvStore' /\ KeepsWritten
    <3>1. ASSUME NEW o \in Requests, Call(o) PROVE InvStore' /\ KeepsWritten
      <4>1. ram.state # "Reconstructing"
        BY <3>1 DEF Call
      <4> QED
        BY <2>3, <3>1, <4>1, CallStore DEF KeepsWritten
    <3>2. CASE handle_deferred_call
      BY <2>3, <3>2, DeferredStore
    <3>3. ASSUME NEW ok \in BOOLEAN, FlashDone(ok) PROVE InvStore' /\ KeepsWritten
      <4>1. CASE read_complete(ok)
        BY <2>3, <4>1, ReadStore
      <4>2. CASE write_complete(ok) \/ erase_complete(ok)
        <5>1. InvStore' /\ Rec(ram)
          BY <2>3, <4>2, WriteStore, EraseStore
        <5> QED
          BY <5>1 DEF KeepsWritten, Rec
      <4> QED
        BY <3>3, <4>1, <4>2 DEF FlashDone
    <3>4. CASE Reset
      BY <2>3, <3>4, ResetStore DEF KeepsWritten
    <3> QED
      BY <1>2, <3>1, <3>2, <3>3, <3>4 DEF Next
  <2> QED
    BY <2>2, <2>3 DEF KeepsWritten
<1> QED
  BY <1>1, <1>2

LEMMA InvStoreHolds == Spec => []InvStore
<1>1. InvType /\ InvStore /\ [Next]_vars => InvStore'
  BY StoreStep
<1> QED
  BY InvTypeHolds, InitStore, <1>1, PTL DEF Spec

(* append, flush_pagebuffer and the recovery: as long as no read of the
   recovery has failed after a reset, every entry that was appended and not
   overwritten, erased or cut off is whole and at its entry ID, in the page
   buffer or on flash, whatever writes and erases failed, for every geometry
   and any number of resets.                                                *)
THEOREM EntriesStored == Spec => [](Intact => StoredAtPlace)
<1>1. InvStore => (Intact => StoredAtPlace)
  <2>1. SUFFICES ASSUME InvStore, Intact PROVE StoredAtPlace
    OBVIOUS
  <2>2. Store(ram, owed, flash, log, safe, erased, count)
    BY <2>1 DEF InvStore
  <2>3. Recovered <=> Rec(ram)
    BY DEF Recovered, Rec
  <2>4. AppendPage = Last(ram)
    BY DEF AppendPage, Last
  <2>5. \A e \in log : Rec(ram) /\ PageNo(e) = Last(ram) => InPage(ram.pbuf, e)
    BY <2>2 DEF Store, Good, Entries
  <2>6. \A e \in log : ~(Rec(ram) /\ PageNo(e) = Last(ram)) => OnFlash(flash, e)
    BY <2>2 DEF Store, Good, Entries
  <2> QED
    BY <2>3, <2>4, <2>5, <2>6 DEF StoredAtPlace, OnFlash, Base
<1> QED
  BY InvStoreHolds, <1>1, PTL

(* erase_complete, erase_oldest_page: after an erase that succeeded no page
   that a recovery accepts has an entry from before it, for every geometry,
   also when an earlier erase failed half-way or was cut off by a reset.    *)
THEOREM EraseReachesFlash == Spec => [](Intact => ErasedFromFlash)
<1>1. InvStore => (Intact => ErasedFromFlash)
  <2>1. SUFFICES ASSUME InvStore, Intact PROVE ErasedFromFlash
    OBVIOUS
  <2>2. FlashForm(flash, erased)
    BY <2>1 DEF InvStore, Store
  <2> QED
    BY <2>2 DEF ErasedFromFlash, FlashForm, After
<1> QED
  BY InvStoreHolds, <1>1, PTL

(* drive_reconstruct, handle_reconstruct_read: if the reads of the recovery
   do not fail, it finds every entry that had been written to flash, but for
   those of the first page of a fresh log.                                  *)
THEOREM RecoveryKeepsWritten ==
  ASSUME {"scan", "walk"} \cap Faults = {}
  PROVE  Spec => RecoversWritten
<1>1. InvType /\ InvStore /\ [Next]_vars => [Recovers => \A e \in log \ log' : PageNo(e) = 0]_vars
  <2>1. SUFFICES ASSUME InvType, InvStore, [Next]_vars, Recovers
                 PROVE \A e \in log \ log' : PageNo(e) = 0
    OBVIOUS
  <2>2. Intact
    BY DEF Intact
  <2>3. ram.state = "Reconstructing" /\ Rec(ram')
    BY <2>1 DEF Recovers, Recovered, Rec
  <2> QED
    BY <2>1, <2>2, <2>3, StoreStep
<1> QED
  BY InvTypeHolds, InvStoreHolds, <1>1, PTL DEF Spec, RecoversWritten
-----------------------------------------------------------------------------
(* The read cache and the reader *)

(* The read cache holds what is on flash                                    *)
Coherent(l, fl) == l.rbPage \notin {NONE, l.pbPage} => l.rbuf = fl[l.rbPage]

(* Page number j of the log in its first lap                                *)
PageAt(l, fl, j) == IF j = Last(l) THEN l.pbuf ELSE fl[j]

(* In the first lap, pos is at an entry, a header or padding and not within
   an entry                                                                 *)
AtEntry(l, fl, pos) ==
  Last(l) < NumPages =>
    /\ pos <= l.app
    /\ pos < l.app /\ pos % PageSize # 0 =>
         PageAt(l, fl, pos \div PageSize)[pos % PageSize].len # Data(0).len

(* In the first lap the page being appended to is not in the read cache     *)
Settled(l, fl) ==
  /\ Coherent(l, fl) /\ AtEntry(l, fl, l.rd)
  /\ Last(l) < NumPages => l.rbPage < Last(l)

(* The page buffer is labelled with its page until that is erased, and a page
   that changes on flash is not in the read cache                           *)
Cache(l, fl) ==
  /\ Settled(l, fl)
  /\ l.io.op # "erase" => l.pbPage = Last(l) % NumPages
  /\ l.io.op \in {"write", "erase"} => l.rbPage # l.io.page
  /\ l.state = "Reading" /\ l.io.op = "read" =>
       /\ l.rbPage = NONE /\ l.io.page = logical_page_of_pos(l.rd)
       /\ Last(l) < NumPages => l.io.page < Last(l)

(* Pages are well formed, in the page buffer and on flash                   *)
Formed(l, fl) ==
  /\ l.app >= 1 /\ WellFormed(l.pbuf, Used(l))
  /\ \A p \in Logicals : \E n \in 1..PageSize : WellFormed(fl[p], n)

LEMMA GoodFormed ==
  ASSUME NEW l, NEW fl, NEW lg, NEW sf, NEW er, Good(l, fl, lg, sf, er), FlashForm(fl, er)
  PROVE  Formed(l, fl)
  BY DEF Good, Cursors, Buffer, FlashForm, Formed

LEMMA PlaceOf ==
  ASSUME NEW pos \in Nat
  PROVE  \E j \in Nat, o \in Offsets :
           /\ pos = Base(j) + o /\ pos \div PageSize = j /\ pos % PageSize = o
           /\ logical_page_of_pos(pos) = j % NumPages /\ Base(j) \in Nat
<1>1. PICK j \in Int, o \in 0..(PageSize - 1) :
         j = pos \div PageSize /\ o = pos % PageSize /\ pos = j * PageSize + o
  <2>1. pos \in Int /\ PageSize \in Nat /\ PageSize > 0
    BY Sizes
  <2> QED
    BY <2>1, Division
<1>2. Base(j) \in Int /\ pos = Base(j) + o /\ o \in Offsets
  BY <1>1, BaseFacts DEF Base, Offsets
<1>3. j >= 0
  <2>1. SUFFICES ASSUME j < 0 PROVE FALSE
    BY <1>1
  <2>2. 0 \in Int /\ Base(0) = 0
    BY BaseFacts
  <2>3. Base(j) + PageSize <= Base(0)
    BY <1>1, <2>1, <2>2, BaseFacts
  <2> QED
    BY <1>1, <1>2, <2>2, <2>3, Sizes
<1>4. j \in Nat
  BY <1>1, <1>3
<1>5. logical_page_of_pos(pos) = j % NumPages /\ Base(j) \in Nat
  BY <1>2, <1>4, PageOf, BaseNext
<1>6. pos \div PageSize = j /\ pos % PageSize = o
  BY <1>1
<1> QED
  BY <1>2, <1>4, <1>5, <1>6

(* Where a place before the append cursor is, and one after it is not       *)
LEMMA Before ==
  ASSUME NEW l \in Rams, l.app >= 1, NEW j \in Nat, NEW o \in Offsets
  PROVE  /\ Base(j) + o < l.app => j <= Last(l) /\ (j = Last(l) => o < Used(l))
         /\ j < Last(l) => Base(j) + PageSize < l.app /\ Base(j) + o < l.app
         /\ j = Last(l) /\ o < Used(l) => Base(j) + o < l.app
         /\ j <= Last(l) /\ Last(l) < NumPages => j \in Logicals /\ j % NumPages = j
<1>1. PICK k \in Nat, n \in 1..PageSize : k = Last(l) /\ n = Used(l) /\ l.app = Base(k) + n
  BY AppAt
<1>2. Base(k) \in Nat /\ Base(j) \in Nat /\ o \in Nat /\ o < PageSize /\ PageSize \in Nat
  BY BaseNext, Sizes DEF Offsets
<1>3. k < j => Base(k) + PageSize <= Base(j)
  BY BaseFacts
<1>4. j < k => Base(j) + PageSize <= Base(k)
  BY BaseFacts
<1>5. Base(j) + o < l.app => j <= k /\ (j = k => o < n)
  BY <1>1, <1>2, <1>3
<1>6. j < k => Base(j) + PageSize < l.app /\ Base(j) + o < l.app
  BY <1>1, <1>2, <1>4
<1>7. j = k /\ o < n => Base(j) + o < l.app
  BY <1>1, <1>2
<1>8. j <= k /\ k < NumPages => j \in Logicals
  BY Sizes DEF Logicals
<1>9. j \in Logicals => j % NumPages = j
  BY Modulo
<1> QED
  BY <1>1, <1>5, <1>6, <1>7, <1>8, <1>9

LEMMA DataLen == Data(0).len = -2 /\ PAD.len = -1 /\ ZERO.len = 0
  BY DEF Data, PAD, ZERO

(* A place in a well-formed page that is not payload                        *)
LEMMA FormedCell ==
  ASSUME NEW page \in Sheets, NEW n, WellFormed(page, n), NEW o \in Offsets, o > 0
  PROVE  /\ page[1].len # Data(0).len
         /\ o >= n => page[o].len # Data(0).len /\ page[o].len <= 0
         /\ o < n /\ page[o].len # Data(0).len =>
              /\ page[o].len \in Nat /\ page[o].len >= 1 /\ o + 1 + page[o].len <= n
              /\ o + 1 + page[o].len < n => page[o + 1 + page[o].len].len # Data(0).len
<1>1. n \in 1..PageSize /\ n \in Nat /\ o \in Nat /\ o < PageSize /\ 1 \in Nat /\ 1 < PageSize
  BY Sizes DEF WellFormed, Offsets
<1>2. \A i \in n..(PageSize - 1) : page[i].len # Data(0).len /\ page[i].len <= 0
  BY DataLen DEF WellFormed
<1>3. page[1].len # Data(0).len
  <2>1. CASE n > 1
    BY <2>1 DEF WellFormed
  <2>2. CASE n = 1
    BY <1>1, <1>2, <2>2, Sizes
  <2> QED
    BY <1>1, <2>1, <2>2
<1>4. o >= n => o \in n..(PageSize - 1)
  BY <1>1, Sizes
<1>5. o < n => o \in 1..(n - 1)
  BY <1>1
<1>6. page[o].len \in Int
  BY CellFields DEF Sheets, Pages
<1>7. ASSUME o < n, page[o].len # Data(0).len
      PROVE  /\ page[o].len >= 1 /\ o + 1 + page[o].len <= n
             /\ o + 1 + page[o].len < n => page[o + 1 + page[o].len].len # Data(0).len
  BY <1>5, <1>7 DEF WellFormed
<1>8. page[o].len >= 1 => page[o].len \in Nat
  BY <1>6
<1> QED
  BY <1>2, <1>3, <1>4, <1>7, <1>8

(* A page of the first lap is well formed                                   *)
LEMMA PageFormed ==
  ASSUME NEW l \in Rams, NEW fl \in Flashes, Formed(l, fl), Last(l) < NumPages, NEW j \in Nat, j <= Last(l)
  PROVE  /\ PageAt(l, fl, j) \in Sheets
         /\ \E n \in 1..PageSize : WellFormed(PageAt(l, fl, j), n) /\ (j = Last(l) => n = Used(l))
<1>1. CASE j = Last(l)
  <2>1. PageAt(l, fl, j) = l.pbuf /\ l.pbuf \in Sheets /\ WellFormed(l.pbuf, Used(l))
    BY <1>1 DEF PageAt, Rams, Formed
  <2>2. Used(l) \in 1..PageSize
    BY <2>1 DEF WellFormed
  <2> QED
    BY <2>1, <2>2
<1>2. CASE j # Last(l)
  <2>1. 0 \in Offsets /\ l.app >= 1
    BY Sizes DEF Offsets, Formed
  <2>2. j \in Logicals
    BY <2>1, Before
  <2> QED
    BY <1>2, <2>2 DEF PageAt, Formed, Flashes
<1> QED
  BY <1>1, <1>2

(* What is cached of the first lap is what the log has there                *)
LEMMA CachedCell ==
  ASSUME NEW l \in Rams, NEW fl, l.app >= 1, Last(l) < NumPages, Coherent(l, fl),
         l.pbPage = Last(l) % NumPages, NEW j \in Nat, NEW o \in Offsets, Base(j) + o < l.app
  PROVE  /\ Cached(l, Base(j) + o) => CellAt(l, Base(j) + o) = PageAt(l, fl, j)[o]
         /\ j = Last(l) => Cached(l, Base(j) + o)
         /\ logical_page_of_pos(Base(j) + o) = j
<1>1. j <= Last(l) /\ Last(l) \in Nat
  BY Before, AppAt
<1>2. j \in Logicals /\ j % NumPages = j
  BY <1>1, Before
<1>3. Last(l) % NumPages = Last(l)
  <2>1. 0 \in Offsets /\ Last(l) <= Last(l)
    BY <1>1, Sizes DEF Offsets
  <2> QED
    BY <1>1, <2>1, Before
<1>4. logical_page_of_pos(Base(j) + o) = j /\ (Base(j) + o) % PageSize = o
  BY <1>2, PageOf
<1>5. j # NONE
  BY DEF NONE
<1>6. l.pbPage = Last(l)
  BY <1>3
<1>7. CASE j = Last(l)
  BY <1>4, <1>6, <1>7 DEF Cached, CellAt, PageAt
<1>8. CASE j # Last(l)
  <2>1. Cached(l, Base(j) + o) => j = l.rbPage
    BY <1>4, <1>6, <1>8 DEF Cached
  <2>2. j = l.rbPage => l.rbuf = fl[j]
    BY <1>5, <1>6, <1>8 DEF Coherent
  <2> QED
    BY <1>4, <1>6, <1>8, <2>1, <2>2 DEF CellAt, PageAt
<1> QED
  BY <1>4, <1>7, <1>8

(* The first place of a page is not within an entry                         *)
LEMMA PageStart ==
  ASSUME NEW l \in Rams, NEW fl \in Flashes, Formed(l, fl), NEW pos \in Nat, pos % PageSize = 1, pos <= l.app
  PROVE  AtEntry(l, fl, pos)
<1>1. SUFFICES ASSUME Last(l) < NumPages, pos < l.app
               PROVE  PageAt(l, fl, pos \div PageSize)[pos % PageSize].len # Data(0).len
  BY DEF AtEntry
<1>2. PICK j \in Nat, o \in Offsets : pos = Base(j) + o /\ pos \div PageSize = j /\ pos % PageSize = o
  BY PlaceOf
<1>3. j <= Last(l)
  BY <1>1, <1>2, Before DEF Formed
<1>4. PICK n \in 1..PageSize : WellFormed(PageAt(l, fl, j), n)
  BY <1>1, <1>3, PageFormed
<1>5. PageAt(l, fl, j) \in Sheets
  BY <1>1, <1>3, PageFormed
<1>6. PageAt(l, fl, j)[1].len # Data(0).len
  BY <1>2, <1>4, <1>5, FormedCell
<1> QED
  BY <1>2, <1>6

(* A length that is found at an entry                                       *)
LEMMA EntryLen ==
  ASSUME NEW l \in Rams, NEW fl \in Flashes, Formed(l, fl), Last(l) < NumPages, Coherent(l, fl),
         l.pbPage = Last(l) % NumPages, NEW g,
         NEW j \in Nat, NEW o \in Offsets, o > 0, Base(j) + o < l.app, AtEntry(l, fl, Base(j) + o),
         Cached(l, Base(j) + o)
  PROVE  /\ LenAt(l, Base(j) + o, g) = PageAt(l, fl, j)[o].len
         /\ j <= Last(l) /\ PageAt(l, fl, j)[o].len # Data(0).len
<1>1. l.app >= 1
  BY DEF Formed
<1>2. j <= Last(l) /\ CellAt(l, Base(j) + o) = PageAt(l, fl, j)[o]
  BY <1>1, Before, CachedCell
<1>3. (Base(j) + o) \div PageSize = j /\ (Base(j) + o) % PageSize = o
  BY PageOf
<1>4. o # 0
  BY DEF Offsets
<1>5. PageAt(l, fl, j)[o].len # Data(0).len
  BY <1>3, <1>4 DEF AtEntry
<1> QED
  BY <1>2, <1>5 DEF LenAt

(* advance_read_pointer_then_deliver does not pass the append cursor        *)
LEMMA StopBefore ==
  ASSUME NEW l \in Rams, NEW fl \in Flashes, Formed(l, fl), Coherent(l, fl),
         l.pbPage = Last(l) % NumPages, AtEntry(l, fl, l.rd), NEW g \in Garbage, NEW e \in Nat, Stop(l, g, e)
  PROVE  AtEntry(l, fl, e)
<1>1. /\ e = l.rd \/ (e % PageSize = 1 /\ e > l.rd /\ e <= l.app + PageSize)
      /\ \A f \in Places(l) : f < e => Skipped(l, g, f)
  <2>1. l.rd \in Nat
    BY DEF Rams
  <2> QED
    BY <2>1 DEF Stop, Places, PAGE_HEADER_SIZE
<1>2. CASE e = l.rd
  BY <1>2
<1>3. ASSUME Last(l) < NumPages, e > l.rd, e % PageSize = 1 PROVE e <= l.app
  <2>1. SUFFICES ASSUME e > l.app PROVE FALSE
    BY <1>3 DEF Rams
  <2>2. PICK k \in Nat, n \in 1..PageSize : /\ k = Last(l) /\ n = Used(l) /\ l.app = Base(k) + n
                                            /\ Base(k) \in Nat
    BY AppAt, BaseNext DEF Formed
  <2>3. WellFormed(l.pbuf, n) /\ l.pbuf \in Sheets /\ PageAt(l, fl, k) = l.pbuf /\ l.app >= 1
    BY <2>2 DEF Formed, Rams, PageAt
  <2>4. ASSUME NEW o \in Offsets, o > 0, Base(k) + o \in Places(l), AtEntry(l, fl, Base(k) + o),
               Base(k) + o < e
        PROVE  ~(Base(k) + o < l.app)
    <3>1. SUFFICES ASSUME Base(k) + o < l.app PROVE FALSE
      OBVIOUS
    <3>2. Cached(l, Base(k) + o)
      BY <1>3, <2>2, <2>3, <2>4, <3>1, CachedCell
    <3>3. LenAt(l, Base(k) + o, g) = l.pbuf[o].len /\ l.pbuf[o].len # Data(0).len
      BY <1>3, <2>2, <2>3, <2>4, <3>1, <3>2, EntryLen
    <3>4. o < n
      BY <2>2, <2>3, <2>4, <3>1, Before
    <3>5. l.pbuf[o].len >= 1
      BY <2>3, <2>4, <3>3, <3>4, FormedCell
    <3>6. (Base(k) + o) % PageSize = o
      BY <2>2, <2>4, PageOf
    <3>7. o # 0 /\ PAD.len = -1
      BY <2>4, DataLen DEF Offsets
    <3>8. ~Skipped(l, g, Base(k) + o)
      BY <3>3, <3>5, <3>6, <3>7 DEF Skipped
    <3> QED
      BY <1>1, <2>4, <3>8
  <2>5. l.rd \in Nat /\ l.rd \in Places(l) /\ l.rd < l.app
    <3>1. l.rd \in Nat /\ l.rd \in Places(l)
      BY DEF Places, Rams
    <3>2. Skipped(l, g, l.rd)
      BY <1>1, <1>3, <3>1
    <3> QED
      BY <3>1, <3>2 DEF Skipped
  <2>6. 1 \in Offsets /\ (Base(k) + 1) % PageSize = 1
    <3>1. 1 \in Offsets
      BY Sizes DEF Offsets
    <3> QED
      BY <2>2, <3>1, PageOf
  <2>7. PICK x \in Nat : x = Base(k) + 1 /\ x <= l.app /\ x < e
    BY <2>1, <2>2
  <2>8. CASE l.rd <= x
    <3>1. x \in Places(l)
      <4>1. x \in l.rd..(l.app + PageSize)
        BY <2>2, <2>5, <2>7, <2>8, Sizes DEF Rams
      <4> QED
        BY <2>6, <2>7, <4>1 DEF Places, PAGE_HEADER_SIZE
    <3>2. AtEntry(l, fl, x)
      BY <2>6, <2>7, PageStart
    <3>3. ~(x < l.app)
      BY <2>4, <2>6, <2>7, <3>1, <3>2
    <3>4. Skipped(l, g, x)
      BY <1>1, <2>7, <3>1
    <3> QED
      BY <3>3, <3>4 DEF Skipped
  <2>9. CASE ~(l.rd <= x)
    <3>1. PICK o \in Nat : o = l.rd - Base(k)
      <4>1. l.rd - Base(k) \in Nat
        BY <2>2, <2>5, <2>7, <2>9
      <4> QED
        BY <4>1
    <3>2. o \in Offsets /\ o > 0 /\ l.rd = Base(k) + o
      BY <2>2, <2>5, <2>7, <2>9, <3>1, Sizes DEF Offsets
    <3> QED
      BY <1>3, <2>4, <2>5, <3>2
  <2> QED
    BY <2>8, <2>9
<1>4. ASSUME Last(l) < NumPages, e > l.rd, e % PageSize = 1 PROVE AtEntry(l, fl, e)
  BY <1>3, <1>4, PageStart
<1>5. CASE ~(Last(l) < NumPages)
  BY <1>5 DEF AtEntry
<1> QED
  BY <1>1, <1>2, <1>4, <1>5

LEMMA SameEntry ==
  ASSUME NEW m, NEW l, SameStore(m, l), NEW fl, NEW pos
  PROVE  (AtEntry(l, fl, pos) => AtEntry(m, fl, pos)) /\ Last(m) = Last(l)
<1>1. Last(m) = Last(l) /\ m.app = l.app /\ m.pbuf = l.pbuf
  BY DEF SameStore, Last
<1> QED
  BY <1>1 DEF AtEntry, PageAt

(* Records that agree on the buffers and the read cursor                    *)
LEMMA SameSettled ==
  ASSUME NEW m, NEW l, NEW fl, Settled(l, fl), SameStore(m, l), m.rbPage = l.rbPage, m.rbuf = l.rbuf,
         m.pbPage = l.pbPage, m.rd = l.rd
  PROVE  Settled(m, fl)
  BY SameEntry DEF Settled, Coherent

LEMMA QuietCache ==
  ASSUME NEW m, NEW fl, Settled(m, fl), m.io = NoIO, m.pbPage = Last(m) % NumPages
  PROVE  Cache(m, fl)
<1>1. NoIO.op = "none"
  BY IOFields
<1> QED
  BY <1>1 DEF Cache

(* The reader's record at place e                                           *)
LEMMA MovedFields ==
  ASSUME NEW l \in Rams, NEW e, NEW g
  PROVE  LET n == [l EXCEPT !.rd = e] IN
         /\ n.rd = e /\ SameStore(n, l) /\ SameCache(n, l) /\ n.pbPage = l.pbPage /\ n.io = l.io
         /\ \A x : Cached(n, x) <=> Cached(l, x)
         /\ \A x : CellAt(n, x) = CellAt(l, x) /\ LenAt(n, x, g) = LenAt(l, x, g)
<1>1. PICK n : n = [l EXCEPT !.rd = e]
  OBVIOUS
<1>2. /\ n.rd = e /\ SameStore(n, l) /\ SameCache(n, l) /\ n.pbPage = l.pbPage /\ n.io = l.io
  BY <1>1 DEF Rams, SameStore, SameCache
<1>3. /\ \A x : Cached(n, x) <=> Cached(l, x)
      /\ \A x : CellAt(n, x) = CellAt(l, x)
  BY <1>2 DEF SameCache, SameStore, Cached, CellAt
<1>4. \A x : LenAt(n, x, g) = LenAt(l, x, g)
  BY <1>3 DEF LenAt
<1> QED
  BY <1>1, <1>2, <1>3, <1>4

(* An entry that is delivered ends in its page, at an entry or at padding   *)
LEMMA EntryEnds ==
  ASSUME NEW l \in Rams, NEW fl \in Flashes, Formed(l, fl), Last(l) < NumPages, Coherent(l, fl),
         l.pbPage = Last(l) % NumPages, NEW g,
         NEW e \in Nat, e % PageSize > 0, e < l.app, AtEntry(l, fl, e), Cached(l, e),
         LenAt(l, e, g) \in 1..MaxEntry
  PROVE  /\ AtEntry(l, fl, e + 1 + LenAt(l, e, g))
         /\ Cached(l, e + 1) /\ ((e + 1) % PageSize) + LenAt(l, e, g) <= PageSize
<1>1. PICK j \in Nat, o \in Offsets :
         /\ e = Base(j) + o /\ e % PageSize = o /\ logical_page_of_pos(e) = j % NumPages /\ Base(j) \in Nat
  BY PlaceOf
<1>2. PICK page : page = PageAt(l, fl, j)
  OBVIOUS
<1>3. o > 0 /\ LenAt(l, e, g) = page[o].len /\ j <= Last(l) /\ page[o].len # Data(0).len
  BY <1>1, <1>2, EntryLen
<1>4. PICK len \in Nat : len = LenAt(l, e, g) /\ len >= 1 /\ len = page[o].len
  BY <1>3, Sizes DEF MaxEntry, PAGE_HEADER_SIZE, ENTRY_HEADER_SIZE
<1>5. PICK n \in 1..PageSize : WellFormed(page, n) /\ (j = Last(l) => n = Used(l))
  BY <1>2, <1>3, PageFormed
<1>6. page \in Sheets
  BY <1>2, <1>3, PageFormed
<1>7. ~(o >= n)
  <2>1. o >= n => page[o].len <= 0
    BY <1>3, <1>5, <1>6, FormedCell
  <2> QED
    BY <1>4, <2>1
<1>8. o < n
  BY <1>7 DEF Offsets
<1>9. o + 1 + len <= n /\ (o + 1 + len < n => page[o + 1 + len].len # Data(0).len)
  <2>1. /\ o + 1 + page[o].len <= n
        /\ o + 1 + page[o].len < n => page[o + 1 + page[o].len].len # Data(0).len
    BY <1>3, <1>5, <1>6, <1>8, FormedCell
  <2> QED
    BY <1>4, <2>1
<1>10. PICK i \in Nat : i = o + 1 + len /\ i <= n /\ i <= PageSize /\ o + 1 < i
  BY <1>4, <1>9, Sizes DEF Offsets
<1>11. o + 1 \in Offsets /\ e + 1 = Base(j) + (o + 1) /\ o \in Nat
  BY <1>1, <1>10, Sizes DEF Offsets
<1>12. (e + 1) % PageSize = o + 1 /\ logical_page_of_pos(e + 1) = j % NumPages
  BY <1>11, PageOf
<1>13. Cached(l, e + 1)
  BY <1>1, <1>12 DEF Cached
<1>14. ((e + 1) % PageSize) + len <= PageSize
  BY <1>4, <1>10, <1>11, <1>12
<1>15. e + 1 + len = Base(j) + i
  BY <1>1, <1>4, <1>10 DEF Offsets
<1>16. PICK k \in Nat, u \in 1..PageSize : k = Last(l) /\ u = Used(l) /\ l.app = Base(k) + u /\ Base(k) \in Nat
  BY AppAt, BaseNext DEF Formed
<1>17. Base(j) + i <= l.app
  <2>1. CASE j = k
    BY <1>5, <1>10, <1>16, <2>1
  <2>2. CASE j < k
    <3>1. Base(j) + PageSize <= Base(k)
      BY <1>16, <2>2, BaseFacts
    <3> QED
      BY <1>1, <1>10, <1>16, <3>1, Sizes
  <2> QED
    BY <1>3, <1>16, <2>1, <2>2
<1>18. ASSUME Base(j) + i < l.app, (Base(j) + i) % PageSize # 0
       PROVE  PageAt(l, fl, (Base(j) + i) \div PageSize)[(Base(j) + i) % PageSize].len # Data(0).len
  <2>1. i # PageSize
    <3>1. SUFFICES ASSUME i = PageSize PROVE FALSE
      OBVIOUS
    <3>2. Base(j) + i = Base(j + 1) + 0 /\ j + 1 \in Nat
      BY <3>1, BaseNext
    <3>3. 0 \in Offsets
      BY Sizes DEF Offsets
    <3> QED
      BY <1>18, <3>2, <3>3, PageOf
  <2>2. i \in Offsets /\ i > 0
    BY <1>10, <2>1, Sizes DEF Offsets
  <2>3. (Base(j) + i) \div PageSize = j /\ (Base(j) + i) % PageSize = i
    BY <2>2, PageOf
  <2>4. page[i].len # Data(0).len
    <3>1. i >= n => page[i].len # Data(0).len
      BY <1>5, <1>6, <2>2, FormedCell
    <3>2. i < n => page[i].len # Data(0).len
      BY <1>9, <1>10
    <3> QED
      BY <1>10, <3>1, <3>2
  <2> QED
    BY <1>2, <2>3, <2>4
<1>19. AtEntry(l, fl, Base(j) + i)
  BY <1>17, <1>18 DEF AtEntry
<1> QED
  BY <1>4, <1>13, <1>14, <1>15, <1>19

(* advance_read_pointer_then_deliver keeps the cache coherent               *)
LEMMA AdvanceCache ==
  ASSUME NEW l \in Rams, Quiet(l), NEW g \in Garbage, NEW fl \in Flashes, Formed(l, fl), Settled(l, fl),
         l.pbPage = Last(l) % NumPages
  PROVE  Cache(advance_read_pointer_then_deliver(l, g), fl)
<1>1. PICK m : m = advance_read_pointer_then_deliver(l, g)
  OBVIOUS
<1>2. SameButCache(m, l) /\ m \in Rams
  BY <1>1, AdvanceOutcome
<1>3. PICK e \in Nat :
         LET n   == [l EXCEPT !.rd = e]
             len == LenAt(n, e, g)
         IN /\ Stop(l, g, e) /\ n \in Rams
            /\ \/ e >= l.app /\ Answers(m, n) /\ m.err = "END" /\ m.rd = e
               \/ e < l.app /\ Fails(m, n)
               \/ /\ e < l.app /\ ~Cached(n, e) /\ m.rd = e
                  /\ Fetches(m, n, logical_page_of_pos(e))
               \/ /\ e < l.app /\ Cached(n, e) /\ e % PageSize > 0 /\ len # PAD.len
                  /\ Delivers(m, n, len) \/ Refetches(m, n, len)
  BY <1>1, AdvanceOutcome
<1>4. PICK n : n = [l EXCEPT !.rd = e]
  OBVIOUS
<1>5. /\ n.rd = e /\ SameCache(n, l) /\ n.pbPage = l.pbPage
      /\ \A x : (Cached(n, x) <=> Cached(l, x)) /\ LenAt(n, x, g) = LenAt(l, x, g)
  BY <1>4, MovedFields
<1>6. PICK len : len = LenAt(l, e, g)
  OBVIOUS
<1>7. /\ Stop(l, g, e)
      /\ \/ Answers(m, n) /\ m.rd = e
         \/ e < l.app /\ ~Cached(l, e) /\ m.rd = e /\ Fetches(m, n, logical_page_of_pos(e))
         \/ /\ e < l.app /\ Cached(l, e) /\ e % PageSize > 0
            /\ Delivers(m, n, len) \/ Refetches(m, n, len)
  BY <1>3, <1>4, <1>5, <1>6 DEF Fails
<1>8. /\ Coherent(l, fl) /\ AtEntry(l, fl, l.rd) /\ (Last(l) < NumPages => l.rbPage < Last(l))
  BY DEF Settled
<1>9. AtEntry(l, fl, e)
  BY <1>7, <1>8, StopBefore
<1>10. SameStore(m, l) /\ m.pbPage = l.pbPage /\ Last(m) = Last(l)
  BY <1>2, SameEntry DEF SameButCache
<1>11. NoIO.op = "none" /\ Last(l) \in Nat
  BY IOFields, AppAt DEF Formed
<1>12. ASSUME Answers(m, n), AtEntry(l, fl, m.rd) PROVE Cache(m, fl)
  <2>1. m.rbPage = l.rbPage /\ m.rbuf = l.rbuf /\ m.io = NoIO
    BY <1>5, <1>12 DEF Answers, SameCache
  <2>2. Settled(m, fl)
    BY <1>8, <1>10, <1>12, <2>1, SameEntry DEF Settled, Coherent
  <2> QED
    BY <1>10, <2>1, <2>2, QuietCache
<1>13. ASSUME Fetches(m, n, logical_page_of_pos(e)), m.rd = e,
              Last(l) < NumPages => logical_page_of_pos(e) < Last(l)
       PROVE  Cache(m, fl)
  <2>1. m.rbPage = NONE /\ m.io.op = "read" /\ m.io.page = logical_page_of_pos(e)
    BY <1>13 DEF Fetches
  <2>2. NONE < Last(l)
    BY <1>11 DEF NONE
  <2>3. Settled(m, fl)
    BY <1>9, <1>10, <1>13, <2>1, <2>2, SameEntry DEF Settled, Coherent
  <2> QED
    BY <1>10, <1>13, <2>1, <2>3 DEF Cache
<1>14. CASE Answers(m, n) /\ m.rd = e
  BY <1>1, <1>9, <1>12, <1>14
<1>15. CASE e < l.app /\ ~Cached(l, e) /\ m.rd = e /\ Fetches(m, n, logical_page_of_pos(e))
  <2>1. ASSUME Last(l) < NumPages PROVE logical_page_of_pos(e) < Last(l)
    <3>1. PICK j \in Nat, o \in Offsets : e = Base(j) + o
      BY PlaceOf
    <3>2. j <= Last(l)
      BY <1>15, <3>1, Before DEF Formed
    <3>3. logical_page_of_pos(e) = j /\ (j = Last(l) => Cached(l, e))
      BY <1>8, <1>15, <2>1, <3>1, CachedCell DEF Formed
    <3> QED
      BY <1>11, <1>15, <3>2, <3>3
  <2> QED
    BY <1>1, <1>13, <1>15, <2>1
<1>16. CASE e < l.app /\ Cached(l, e) /\ e % PageSize > 0 /\ Delivers(m, n, len)
  <2>1. Answers(m, n) /\ len \in 1..MaxEntry /\ m.rd = e + 1 + len
    BY <1>5, <1>16 DEF Delivers
  <2>2. Last(l) < NumPages => AtEntry(l, fl, e + 1 + len)
    BY <1>6, <1>8, <1>9, <1>16, <2>1, EntryEnds
  <2>3. AtEntry(l, fl, m.rd)
    BY <2>1, <2>2 DEF AtEntry
  <2> QED
    BY <1>1, <1>12, <2>1, <2>3
<1>17. CASE e < l.app /\ Cached(l, e) /\ e % PageSize > 0 /\ Refetches(m, n, len)
  <2>1. /\ Fetches(m, n, logical_page_of_pos(e)) /\ m.rd = e /\ len \in 1..MaxEntry
        /\ ~Cached(l, e + 1) \/ ((e + 1) % PageSize) + len > PageSize
    BY <1>5, <1>17 DEF Refetches
  <2>2. ASSUME Last(l) < NumPages PROVE FALSE
    <3>1. Cached(l, e + 1) /\ ((e + 1) % PageSize) + len <= PageSize
      BY <1>6, <1>8, <1>9, <1>17, <2>1, <2>2, EntryEnds
    <3>2. len \in Int /\ (e + 1) % PageSize \in Int
      BY <2>1, Sizes
    <3> QED
      BY <2>1, <3>1, <3>2, Sizes
  <2> QED
    BY <1>1, <1>13, <2>1, <2>2
<1> QED
  BY <1>1, <1>7, <1>14, <1>15, <1>16, <1>17

(* The page buffer may grow under the reader                                *)
LEMMA GrownEntry ==
  ASSUME NEW l \in Rams, NEW m \in Rams, NEW fl, l.app >= 1, Last(m) = Last(l), l.app <= m.app,
         \A o \in 0..(Used(l) - 1) : m.pbuf[o] = l.pbuf[o],
         l.app < m.app => m.pbuf[Used(l)].len # Data(0).len,
         NEW pos \in Nat, AtEntry(l, fl, pos)
  PROVE  AtEntry(m, fl, pos)
<1>1. SUFFICES ASSUME Last(l) < NumPages
               PROVE  /\ pos <= m.app
                      /\ pos < m.app /\ pos % PageSize # 0 =>
                           PageAt(m, fl, pos \div PageSize)[pos % PageSize].len # Data(0).len
  BY DEF AtEntry
<1>2. pos <= l.app /\ l.app \in Nat /\ m.app \in Nat
  BY <1>1 DEF AtEntry, Rams
<1>3. ASSUME pos < m.app, pos % PageSize # 0
      PROVE  PageAt(m, fl, pos \div PageSize)[pos % PageSize].len # Data(0).len
  <2>1. PICK j \in Nat, o \in Offsets :
           pos = Base(j) + o /\ pos \div PageSize = j /\ pos % PageSize = o /\ Base(j) \in Nat
    BY PlaceOf
  <2>2. PICK k \in Nat, n \in 1..PageSize : /\ k = Last(l) /\ n = Used(l) /\ l.app = Base(k) + n
                                            /\ l.app % PageSize = IF n = PageSize THEN 0 ELSE n
    BY AppAt
  <2>3. CASE pos < l.app
    <3>1. PageAt(l, fl, j)[o].len # Data(0).len
      BY <1>1, <1>3, <2>1, <2>3 DEF AtEntry
    <3>2. j = k => o < n /\ o \in 0..(n - 1)
      <4>1. j = k => o < n
        BY <2>1, <2>2, <2>3, Before
      <4> QED
        BY <4>1 DEF Offsets
    <3>3. PageAt(m, fl, j)[o] = PageAt(l, fl, j)[o]
      BY <2>2, <3>2 DEF PageAt
    <3> QED
      BY <2>1, <3>1, <3>3
  <2>4. CASE pos = l.app
    <3>1. n # PageSize
      BY <1>3, <2>2, <2>4
    <3>2. n \in Offsets
      BY <2>2, <3>1, Sizes DEF Offsets
    <3>3. j = k /\ o = n
      BY <2>1, <2>2, <2>4, <3>2, PageOf
    <3> QED
      BY <1>3, <2>1, <2>2, <2>4, <3>3 DEF PageAt
  <2> QED
    BY <1>2, <2>3, <2>4
<1> QED
  BY <1>2, <1>3

LEMMA AppendCache ==
  ASSUME NEW l \in Rams, NEW fl, Formed(l, fl), Settled(l, fl), l.pbPage = Last(l) % NumPages,
         l.io = NoIO, l.req.op = "append", Used(l) + 1 + l.req.len <= PageSize
  PROVE  Cache(append_to_pagebuffer(l), fl)
<1>1. PICK m : m = append_to_pagebuffer(l)
  OBVIOUS
<1>2. /\ m \in Rams /\ m.io = l.io /\ m.rd = l.rd /\ SameCache(m, l)
      /\ m.pbuf = WithEntry(l.pbuf, l.app % PageSize, l.req)
      /\ m.app = l.app + 1 + l.req.len
      /\ m.pbPage = logical_page_of_pos(l.app + l.req.len)
  BY <1>1, AppendFields
<1>3. PICK y \in Nat : y = l.req.len /\ y > 0 /\ l.req.tag > 0
  <2>1. l.req \in AllRequests
    BY DEF Rams
  <2> QED
    BY <2>1, AppendRequest
<1>4. PICK k \in Nat, n \in 1..PageSize : /\ k = Last(l) /\ n = Used(l) /\ l.app = Base(k) + n
                                          /\ l.app % PageSize = IF n = PageSize THEN 0 ELSE n
                                          /\ Base(k) \in Nat
  BY AppAt, BaseNext DEF Formed
<1>5. n + 1 + y <= PageSize /\ l.app % PageSize = n /\ l.app \in Nat
  BY <1>3, <1>4, Sizes DEF Rams
<1>6. n + 1 + y \in 1..PageSize /\ n + y \in Offsets /\ m.app = Base(k) + (n + 1 + y)
      /\ l.app + y = Base(k) + (n + y)
  BY <1>2, <1>3, <1>4, <1>5, Sizes DEF Offsets
<1>7. Last(m) = k
  BY <1>6, AppIs
<1>8. m.pbPage = k % NumPages
  BY <1>2, <1>3, <1>6, PageOf
<1>9. PICK q : q = WithEntry(l.pbuf, n, l.req) /\ q = m.pbuf
  BY <1>2, <1>5
<1>10. (\A o \in 0..(n - 1) : q[o] = l.pbuf[o]) /\ q[n] = [len |-> l.req.len, val |-> l.req.tag]
  <2>1. WellFormed(l.pbuf, n) /\ l.pbuf \in Sheets
    BY <1>4 DEF Formed, Rams
  <2>2. l.req.len \in Nat /\ l.req.len > 0 /\ n + 1 + l.req.len <= PageSize
    BY <1>3, <1>5
  <2>3. LET z == WithEntry(l.pbuf, n, l.req) IN
        (\A o \in 0..(n - 1) : z[o] = l.pbuf[o]) /\ z[n] = [len |-> l.req.len, val |-> l.req.tag]
    BY <1>3, <2>1, <2>2, WithEntryCells
  <2> QED
    BY <1>9, <2>3
<1>11. m.pbuf[n].len # Data(0).len
  <2>1. m.pbuf[n].len = y
    BY <1>3, <1>9, <1>10
  <2> QED
    BY <1>3, <2>1, DataLen
<1>12. l.app <= m.app /\ l.rd \in Nat /\ l.app >= 1
  BY <1>2, <1>3, <1>5 DEF Rams, Formed
<1>13. AtEntry(m, fl, m.rd)
  BY <1>2, <1>4, <1>7, <1>9, <1>10, <1>11, <1>12, GrownEntry DEF Settled
<1>14. Settled(m, fl)
  BY <1>2, <1>4, <1>7, <1>8, <1>13 DEF Settled, Coherent, SameCache
<1> QED
  BY <1>1, <1>2, <1>7, <1>8, <1>14, QuietCache

LEMMA FlushCache ==
  ASSUME NEW l \in Rams, NEW fl, Formed(l, fl), NEW lg, NEW sf, NEW er, Good(l, fl, lg, sf, er),
         Settled(l, fl), l.pbPage = Last(l) % NumPages
  PROVE  Cache(flush_pagebuffer(l), fl)
<1>1. PICK m : m = flush_pagebuffer(l)
  OBVIOUS
<1>2. PICK padPtr : padPtr = RoundUp(l.app)
  OBVIOUS
<1>3. /\ m \in Rams
      /\ m.io = [op |-> "write", page |-> logical_page_of_pos(padPtr - PageSize)]
      /\ m.app = l.app /\ m.pbPage = l.pbPage
      /\ m.rbuf = l.rbuf
      /\ m.pbuf = IF padPtr = l.app THEN l.pbuf ELSE PaddedFrom(l.pbuf, l.app % PageSize)
      /\ padPtr <= Volume => m.rd = l.rd /\ m.rbPage = l.rbPage
      /\ padPtr > Volume =>
           m.rbPage = IF l.rbPage = logical_page_of_pos(padPtr - Volume - PageSize)
                      THEN NONE ELSE l.rbPage
  BY <1>1, <1>2, FlushFields
<1>4. /\ logical_page_of_pos(padPtr - PageSize) = Last(l) % NumPages
      /\ padPtr > Volume <=> Last(l) >= NumPages
      /\ Last(l) >= NumPages =>
           logical_page_of_pos(padPtr - Volume - PageSize) = Last(l) % NumPages
  BY <1>2, FlushPages
<1>5. PICK k \in Nat, n \in 1..PageSize : /\ k = Last(l) /\ n = Used(l) /\ l.app = Base(k) + n
                                          /\ l.app % PageSize = IF n = PageSize THEN 0 ELSE n
                                          /\ Base(k) \in Nat /\ padPtr = Base(k) + PageSize
  BY <1>2, AppAt, BaseNext DEF Formed
<1>6. Last(m) = k /\ l.app <= m.app /\ ~(l.app < m.app) /\ l.app >= 1 /\ l.rd \in Nat
  BY <1>3, <1>5 DEF Last, Formed, Rams
<1>7. \A o \in 0..(n - 1) : m.pbuf[o] = l.pbuf[o]
  <2>1. CASE padPtr = l.app
    BY <1>3, <2>1
  <2>2. CASE padPtr # l.app
    <3>1. l.app % PageSize = n
      BY <1>5, <2>2
    <3>2. WellFormed(l.pbuf, n) /\ l.pbuf \in Sheets
      BY <1>5 DEF Formed, Rams
    <3>3. LET q == PaddedFrom(l.pbuf, n) IN \A o \in 0..(n - 1) : q[o] = l.pbuf[o]
      BY <3>2, PaddedCells
    <3> QED
      BY <1>3, <2>2, <3>1, <3>3
  <2> QED
    BY <2>1, <2>2
<1>8. CASE k < NumPages
  <2>1. m.rd = l.rd /\ m.rbPage = l.rbPage
    <3>1. ~(padPtr > Volume) /\ padPtr \in Nat
      BY <1>4, <1>5, <1>8, Sizes
    <3> QED
      BY <1>3, <3>1, VolumeType
  <2>2. AtEntry(m, fl, m.rd)
    BY <1>5, <1>6, <1>7, <2>1, <1>3, GrownEntry DEF Settled
  <2>3. Settled(m, fl)
    BY <1>3, <1>5, <1>6, <2>1, <2>2 DEF Settled, Coherent
  <2>4. m.rbPage # k % NumPages
    <3>1. k \in Logicals /\ m.rbPage < k
      BY <1>5, <1>8, <2>1, Sizes DEF Settled, Logicals
    <3>2. k % NumPages = k
      BY <3>1, Modulo
    <3>3. m.rbPage \in Int
      BY <1>3 DEF Rams, Labels, Logicals, NONE
    <3> QED
      BY <3>1, <3>2, <3>3
  <2> QED
    BY <1>1, <1>3, <1>4, <1>5, <1>6, <2>3, <2>4 DEF Cache
<1>9. CASE ~(k < NumPages)
  <2>1. padPtr > Volume /\ k >= NumPages
    BY <1>4, <1>5, <1>9, Sizes
  <2>2. m.rbPage = IF l.rbPage = k % NumPages THEN NONE ELSE l.rbPage
    BY <1>3, <1>4, <1>5, <2>1
  <2>3. Settled(m, fl)
    BY <1>3, <1>6, <1>9, <2>2 DEF Settled, Coherent, AtEntry
  <2>4. m.rbPage # k % NumPages
    <3>1. NONE # k % NumPages
      <4>1. k % NumPages \in Logicals
        BY Modulo
      <4> QED
        BY <4>1 DEF NONE, Logicals
    <3> QED
      BY <2>2, <3>1
  <2> QED
    BY <1>1, <1>3, <1>4, <1>5, <1>6, <2>3, <2>4 DEF Cache
<1> QED
  BY <1>5, <1>8, <1>9

LEMMA EraseCache ==
  ASSUME NEW l \in Rams, NEW fl, l.app >= 1, Settled(l, fl), l.state = "Erasing"
  PROVE  Cache(erase_oldest_page(l), fl)
<1>1. PICK m : m = erase_oldest_page(l)
  OBVIOUS
<1>2. PICK p : p = logical_page_of_pos(l.oldest)
  OBVIOUS
<1>3. /\ m \in Rams /\ m.io = [op |-> "erase", page |-> p]
      /\ SameStore(m, l) /\ SameTask(m, l) /\ m.rd = l.rd /\ m.rbuf = l.rbuf
      /\ m.rbPage = IF l.rbPage = p THEN NONE ELSE l.rbPage
      /\ m.pbPage = IF l.pbPage = p THEN NONE ELSE l.pbPage
  BY <1>1, <1>2, EraseFields
<1>4. p \in Logicals /\ NONE \notin Logicals
  BY <1>2, LabelOf DEF Rams, Logicals, NONE
<1>5. m.rbPage # p
  BY <1>3, <1>4
<1>6. Last(m) = Last(l) /\ Last(l) \in Nat /\ AtEntry(m, fl, m.rd)
  BY <1>3, AppAt, SameEntry DEF Settled
<1>7. NONE < Last(l)
  BY <1>6 DEF NONE
<1>8. Coherent(m, fl)
  BY <1>3, <1>5 DEF Settled, Coherent
<1>9. Settled(m, fl)
  BY <1>3, <1>6, <1>7, <1>8 DEF Settled
<1>10. m.io.op = "erase" /\ m.io.page = p /\ m.state = "Erasing"
  BY <1>3 DEF SameTask
<1> QED
  BY <1>1, <1>5, <1>9, <1>10 DEF Cache

LEMMA EmptyCache ==
  ASSUME NEW m \in Rams, NEW fl, m.app = 1, m.rd = 1, m.pbPage = 0, m.rbPage = NONE, m.io = NoIO
  PROVE  Cache(m, fl)
<1>1. Last(m) = 0
  <2>1. 0 \in Nat /\ 1 \in 1..PageSize /\ Base(0) = 0
    BY Sizes, BaseFacts
  <2> QED
    BY <2>1, AppIs
<1>2. 0 % NumPages = 0
  <2>1. 0 \in Logicals
    BY Sizes DEF Logicals
  <2> QED
    BY <2>1, Modulo
<1>3. Settled(m, fl)
  BY <1>1, Sizes DEF Settled, Coherent, AtEntry, NONE
<1> QED
  BY <1>1, <1>2, <1>3, QuietCache

LEMMA StartCache ==
  ASSUME NEW l \in Rams, Quiet(l), NEW o \in AllRequests, o # NoOp, NEW g \in Garbage, NEW fl \in Flashes,
         NEW lg, NEW sf, NEW er, Good(l, fl, lg, sf, er), FlashForm(fl, er), Cache(l, fl), ~Refuses(l, o),
         o.op = "seek" => AtEntry(l, fl, o.at)
  PROVE  Cache(start(l, o, g), fl)
<1>1. o.op \in {"read", "append", "seek", "sync", "erase"}
  BY RequestFields
<1>2. PICK m : m = start(l, o, g)
  OBVIOUS
<1>3. l.io = NoIO /\ NoIO.op = "none" /\ ~l.deferred
  BY IOFields DEF Quiet
<1>4. Formed(l, fl) /\ Settled(l, fl) /\ l.pbPage = Last(l) % NumPages
  BY <1>3, GoodFormed DEF Cache
<1>5. ASSUME NEW s \in States
      PROVE  LET t == Task(l, o, s) IN
             /\ t \in Rams /\ t.state = s /\ t.req = o /\ Quiet(t) /\ t.io = NoIO
             /\ Formed(t, fl) /\ Settled(t, fl) /\ t.pbPage = Last(t) % NumPages
             /\ Good(t, fl, lg, sf, er) /\ Used(t) = Used(l)
  <2>1. PICK t : t = Task(l, o, s)
    OBVIOUS
  <2>2. /\ t \in Rams /\ t.req = o /\ t.state = s /\ SameStore(t, l) /\ SameCache(t, l)
        /\ t.rd = l.rd /\ t.pbPage = l.pbPage /\ t.io = l.io /\ t.deferred = l.deferred
    BY <1>5, <2>1, TaskFields
  <2>3. Good(t, fl, lg, sf, er) /\ Last(t) = Last(l)
    BY <2>2, SameGood, SameEntry
  <2>4. Formed(t, fl)
    BY <2>3, GoodFormed
  <2>5. Settled(t, fl)
    BY <1>4, <2>2, SameSettled DEF SameCache
  <2>6. Quiet(t) /\ t.io = NoIO
    BY <1>3, <2>2 DEF Quiet
  <2>7. Used(t) = Used(l)
    BY <2>2, <2>3 DEF Used, SameStore
  <2> QED
    BY <1>4, <2>1, <2>2, <2>3, <2>4, <2>5, <2>6, <2>7
<1>6. CASE o.op = "read"
  <2>1. "Reading" \in States
    BY StateNames
  <2>2. PICK t : t = Task(l, o, "Reading")
    OBVIOUS
  <2>3. t \in Rams /\ Quiet(t) /\ Formed(t, fl) /\ Settled(t, fl) /\ t.pbPage = Last(t) % NumPages
    BY <1>5, <2>1, <2>2
  <2>4. m = advance_read_pointer_then_deliver(t, g)
    BY <1>2, <1>6, <2>2, StartRead
  <2> QED
    BY <1>2, <2>3, <2>4, AdvanceCache
<1>7. CASE o.op = "seek"
  <2>1. /\ m.io = l.io /\ SameStore(m, l) /\ SameCache(m, l) /\ m.rd = o.at /\ m.pbPage = l.pbPage
    BY <1>2, <1>7, StartSeek
  <2>2. Last(m) = Last(l) /\ AtEntry(m, fl, m.rd)
    BY <1>7, <2>1, SameEntry
  <2>3. Settled(m, fl)
    BY <1>4, <2>1, <2>2 DEF Settled, Coherent, SameCache
  <2> QED
    BY <1>2, <1>3, <1>4, <2>1, <2>2, <2>3, QuietCache
<1>8. CASE o.op = "append" /\ Fits(l, o)
  <2>1. "Appending" \in States
    BY StateNames
  <2>2. PICK t : t = Task(l, o, "Appending")
    OBVIOUS
  <2>3. /\ t \in Rams /\ t.req = o /\ t.io = NoIO /\ Formed(t, fl) /\ Settled(t, fl)
        /\ t.pbPage = Last(t) % NumPages /\ Used(t) = Used(l)
    BY <1>5, <2>1, <2>2
  <2>4. m = append_to_pagebuffer(t)
    BY <1>2, <1>8, <2>2, StartAppend
  <2>5. Used(l) + 1 + o.len <= PageSize
    BY <1>8, NotFitting
  <2>6. t.req.op = "append" /\ Used(t) + 1 + t.req.len <= PageSize
    BY <1>8, <2>3, <2>5
  <2> QED
    BY <1>2, <2>3, <2>4, <2>6, AppendCache
<1>9. CASE o.op = "append" /\ ~Fits(l, o)
  <2>1. PICK f \in Rams :
              /\ m = flush_pagebuffer(f)
              /\ SameStore(f, l) /\ SameCache(f, l) /\ f.rd = l.rd /\ f.pbPage = l.pbPage
    BY <1>2, <1>9, StartAppend
  <2>2. Good(f, fl, lg, sf, er) /\ Last(f) = Last(l) /\ Settled(f, fl)
    BY <1>4, <2>1, SameGood, SameEntry, SameSettled DEF SameCache
  <2>3. Formed(f, fl)
    BY <2>2, GoodFormed
  <2> QED
    BY <1>2, <1>4, <2>1, <2>2, <2>3, FlushCache
<1>10. CASE o.op = "sync"
  <2>1. "Syncing" \in States
    BY StateNames
  <2>2. PICK t : t = Task(l, o, "Syncing")
    OBVIOUS
  <2>3. /\ t \in Rams /\ t.io = NoIO /\ Quiet(t) /\ Formed(t, fl) /\ Settled(t, fl)
        /\ t.pbPage = Last(t) % NumPages /\ Good(t, fl, lg, sf, er)
    BY <1>5, <2>1, <2>2
  <2>4. CASE m = Finish(t, "Ok", 0)
    <3>1. "Ok" \in Errs /\ 0 \in Nat
      BY DEF Errs
    <3>2. /\ m.io = t.io /\ SameStore(m, t) /\ SameCache(m, t) /\ m.rd = t.rd /\ m.pbPage = t.pbPage
      BY <2>3, <2>4, <3>1, FinishFields
    <3>3. Settled(m, fl) /\ Last(m) = Last(t)
      BY <2>3, <3>2, SameSettled, SameEntry DEF SameCache
    <3> QED
      BY <1>2, <2>3, <3>2, <3>3, QuietCache
  <2>5. CASE m = flush_pagebuffer(t)
    BY <1>2, <2>3, <2>5, FlushCache
  <2> QED
    BY <1>2, <1>10, <2>2, <2>4, <2>5, StartSync
<1>11. CASE o.op = "erase"
  <2>1. "Erasing" \in States
    BY StateNames
  <2>2. PICK t : t = Task(l, o, "Erasing")
    OBVIOUS
  <2>3. /\ t \in Rams /\ t.state = "Erasing" /\ t.io = NoIO /\ Formed(t, fl) /\ Settled(t, fl)
        /\ t.pbPage = Last(t) % NumPages
    BY <1>5, <2>1, <2>2
  <2>4. CASE m = Finish(t, "Ok", 0)
    <3>1. "Ok" \in Errs /\ 0 \in Nat
      BY DEF Errs
    <3>2. /\ m.io = t.io /\ SameStore(m, t) /\ SameCache(m, t) /\ m.rd = t.rd /\ m.pbPage = t.pbPage
      BY <2>3, <2>4, <3>1, FinishFields
    <3>3. Settled(m, fl) /\ Last(m) = Last(t)
      BY <2>3, <3>2, SameSettled, SameEntry DEF SameCache
    <3> QED
      BY <1>2, <2>3, <3>2, <3>3, QuietCache
  <2>5. CASE m = erase_oldest_page(t)
    BY <1>2, <2>3, <2>5, EraseCache DEF Formed
  <2> QED
    BY <1>2, <1>11, <2>2, <2>4, <2>5, StartErase
<1> QED
  BY <1>1, <1>6, <1>7, <1>8, <1>9, <1>10, <1>11

LEMMA OldestEntry ==
  ASSUME NEW l \in Rams, NEW fl \in Flashes, NEW lg, NEW sf, NEW er,
         Good(l, fl, lg, sf, er), FlashForm(fl, er)
  PROVE  AtEntry(l, fl, l.oldest)
<1>1. /\ l.oldest \in Nat /\ l.oldest = Base(First(l)) + 1 /\ First(l) \in Nat /\ Last(l) \in Nat
      /\ First(l) <= Last(l) /\ l.app = Base(Last(l)) + Used(l) /\ Used(l) \in 1..PageSize
  BY GoodPosition
<1>2. Base(First(l)) <= Base(Last(l)) /\ Base(First(l)) \in Nat /\ Base(Last(l)) \in Nat
  BY <1>1, BaseFacts
<1>3. l.oldest <= l.app
  BY <1>1, <1>2, Sizes
<1>4. l.oldest % PageSize = 1
  BY DEF Good, Cursors
<1> QED
  BY <1>1, <1>3, <1>4, GoodFormed, PageStart

(* The record is taken over when the request is refused or its flash
   operation is over                                                        *)
LEMMA RefusalCache ==
  ASSUME NEW l \in Rams, Quiet(l), NEW o, NEW fl \in Flashes, NEW lg, NEW sf, NEW er,
         Good(l, fl, lg, sf, er), FlashForm(fl, er), Cache(l, fl)
  PROVE  Cache(AfterRefusal(l, o), fl)
<1>1. PICK m : m = AfterRefusal(l, o)
  OBVIOUS
<1>2. /\ SameStore(m, l) /\ SameCache(m, l) /\ m.pbPage = l.pbPage /\ m.io = l.io
      /\ m.rd = IF o.op = "read" THEN l.oldest ELSE l.rd
  BY <1>1, RefusalFields
<1>3. l.io = NoIO /\ NoIO.op = "none" /\ Formed(l, fl)
  BY IOFields, GoodFormed DEF Quiet
<1>4. AtEntry(l, fl, l.oldest)
  BY OldestEntry
<1>5. Settled(l, fl) /\ l.pbPage = Last(l) % NumPages
  BY <1>3 DEF Cache
<1>6. Last(m) = Last(l) /\ AtEntry(m, fl, m.rd)
  BY <1>2, <1>4, <1>5, SameEntry DEF Settled
<1>7. Settled(m, fl)
  BY <1>2, <1>5, <1>6 DEF Settled, Coherent, SameCache
<1> QED
  BY <1>1, <1>2, <1>3, <1>5, <1>6, <1>7, QuietCache

LEMMA IdledCache ==
  ASSUME NEW l \in Rams, NEW fl, Settled(l, fl), l.pbPage = Last(l) % NumPages
  PROVE  Cache(Idled(l), fl)
<1>1. PICK m : m = Idled(l)
  OBVIOUS
<1>2. /\ SameStore(m, l) /\ SameCache(m, l) /\ m.rd = l.rd /\ m.pbPage = l.pbPage /\ m.io = NoIO
  BY <1>1, IdledFields DEF Quiet
<1>3. Settled(m, fl) /\ Last(m) = Last(l)
  BY <1>2, SameSettled, SameEntry DEF SameCache
<1> QED
  BY <1>1, <1>2, <1>3, QuietCache

InvCache ==
  resets = 0 /\ ~halfErased => Coherent(ram, flash) /\ (Rec(ram) => Cache(ram, flash))

(* Only a reset counts as one                                               *)
LEMMA OnlyResets ==
  ASSUME Next, ~Reset
  PROVE  resets' = resets
<1>1. (\E o \in Requests : Call(o)) => resets' = resets
  BY DEF Call
<1>2. handle_deferred_call => resets' = resets
  BY DEF handle_deferred_call, drive_reconstruct, finish_reconstruct, Callback, Waiting
<1>3. (\E ok \in BOOLEAN : FlashDone(ok)) => resets' = resets
  BY DEF FlashDone, read_complete, write_complete, erase_complete, finish_reconstruct, Callback, Waiting
<1> QED
  BY <1>1, <1>2, <1>3 DEF Next

(* What is known of the state before a step in which the cache matters      *)
LEMMA CacheBefore ==
  ASSUME InvType, InvStore, InvCache, Next, resets' = 0, ~halfErased'
  PROVE  /\ resets = 0 /\ ~halfErased /\ Intact
         /\ Store(ram, owed, flash, log, safe, erased, count) /\ (~Rec(ram) => Clear(flash))
         /\ Coherent(ram, flash) /\ (Rec(ram) => Cache(ram, flash))
         /\ ram \in Rams /\ flash \in Flashes /\ Control(ram, owed) /\ owed \in AllRequests
<1>1. ~Reset
  <2>1. SUFFICES ASSUME Reset PROVE FALSE
    OBVIOUS
  <2>2. resets' = resets + 1 /\ resets \in Nat
    BY <2>1, ClientAssumption DEF Reset, InvType
  <2> QED
    BY <2>2
<1>2. resets = 0
  BY <1>1, OnlyResets
<1>3. ~halfErased
  <2>1. (\E o \in Requests : Call(o)) => halfErased' = halfErased
    BY DEF Call
  <2>2. handle_deferred_call => halfErased' = halfErased
    BY DEF handle_deferred_call
  <2>3. (\E ok \in BOOLEAN : FlashDone(ok)) => halfErased' = halfErased \/ halfErased' = TRUE
    BY DEF FlashDone, read_complete, write_complete, erase_complete
  <2> QED
    BY <1>1, <2>1, <2>2, <2>3 DEF Next
<1>4. Intact
  BY <1>2 DEF Intact
<1> QED
  BY <1>2, <1>3, <1>4 DEF InvStore, InvCache, InvType, Flashes

(* The page buffer has been written; the page is not in the read cache      *)
LEMMA WrittenSettled ==
  ASSUME NEW l \in Rams, NEW fl, Formed(l, fl), Settled(l, fl), l.pbPage = Last(l) % NumPages,
         l.rbPage # Last(l) % NumPages, NEW fn,
         \A p \in Logicals : p # Last(l) % NumPages => fn[p] = fl[p]
  PROVE  Settled(l, fn)
<1>1. l.rbPage \in Logicals \cup {NONE}
  BY DEF Rams, Labels
<1>2. Coherent(l, fn)
  BY <1>1 DEF Settled, Coherent
<1>3. ASSUME Last(l) < NumPages, l.rd < l.app
      PROVE  PageAt(l, fn, l.rd \div PageSize) = PageAt(l, fl, l.rd \div PageSize)
  <2>1. l.rd \in Nat /\ l.app >= 1 /\ Last(l) \in Nat
    BY AppAt DEF Rams, Formed
  <2>2. PICK j \in Nat, o \in Offsets : l.rd = Base(j) + o /\ l.rd \div PageSize = j
    BY <2>1, PlaceOf
  <2>3. j <= Last(l)
    BY <1>3, <2>1, <2>2, Before
  <2>4. j \in Logicals /\ Last(l) % NumPages = Last(l)
    BY <1>3, <2>1, <2>3, <2>2, Before
  <2>5. j # Last(l) => fn[j] = fl[j]
    BY <2>4
  <2> QED
    BY <2>2, <2>5 DEF PageAt
<1>4. AtEntry(l, fn, l.rd)
  BY <1>3 DEF Settled, AtEntry
<1> QED
  BY <1>2, <1>4 DEF Settled

(* The page buffer has started the next page                                *)
LEMMA NextSettled ==
  ASSUME NEW l \in Rams, NEW fn, Formed(l, fn), Settled(l, fn), l.pbPage = Last(l) % NumPages,
         l.rbPage # Last(l) % NumPages, fn[Last(l) % NumPages] = l.pbuf,
         NEW r \in Rams, SameCache(r, l), r.rd = l.rd, r.app = RoundUp(l.app) + 1,
         r.pbPage = logical_page_of_pos(RoundUp(l.app))
  PROVE  Settled(r, fn) /\ r.pbPage = Last(r) % NumPages
<1>1. PICK k \in Nat, n \in 1..PageSize : /\ k = Last(l) /\ n = Used(l) /\ l.app = Base(k) + n
                                          /\ l.app % PageSize = (IF n = PageSize THEN 0 ELSE n)
                                          /\ Base(k) \in Nat /\ RoundUp(l.app) = Base(k) + PageSize
  BY AppAt, BaseNext DEF Formed
<1>2. k + 1 \in Nat /\ Base(k + 1) = Base(k) + PageSize /\ Base(k + 1) \in Nat
  BY BaseNext
<1>3. RoundUp(l.app) = Base(k + 1) + 0 /\ r.app = Base(k + 1) + 1 /\ 0 \in Offsets /\ 1 \in 1..PageSize
  BY <1>1, <1>2, Sizes DEF Offsets
<1>4. Last(r) = k + 1 /\ r.pbPage = (k + 1) % NumPages
  BY <1>2, <1>3, AppIs, PageOf
<1>5. Coherent(r, fn)
  BY DEF Settled, Coherent, SameCache
<1>6. k + 1 < NumPages => k < NumPages /\ r.rbPage < k + 1
  <2>1. k + 1 < NumPages => k < NumPages
    BY Sizes
  <2>2. k < NumPages => r.rbPage < k
    BY <1>1 DEF Settled, SameCache
  <2>3. r.rbPage \in Int
    BY DEF Rams, Labels, Logicals, NONE
  <2> QED
    BY <2>1, <2>2, <2>3
<1>7. ASSUME k + 1 < NumPages PROVE AtEntry(r, fn, r.rd)
  <2>1. k < NumPages /\ l.rd <= l.app /\ l.rd \in Nat /\ l.app \in Nat /\ l.app >= 1
    BY <1>1, <1>6, <1>7 DEF Settled, AtEntry, Rams, Formed
  <2>2. r.rd <= r.app
    BY <1>1, <1>2, <1>3, <2>1, Sizes
  <2>3. ASSUME l.rd % PageSize # 0
        PROVE  PageAt(r, fn, l.rd \div PageSize)[l.rd % PageSize].len # Data(0).len
    <3>1. PICK j \in Nat, o \in Offsets :
             l.rd = Base(j) + o /\ l.rd \div PageSize = j /\ l.rd % PageSize = o /\ Base(j) \in Nat
      BY <2>1, PlaceOf
    <3>2. CASE l.rd < l.app
      <4>1. j <= k
        BY <1>1, <2>1, <3>1, <3>2, Before
      <4>2. PageAt(l, fn, j)[o].len # Data(0).len
        BY <1>1, <2>1, <2>3, <3>1, <3>2 DEF Settled, AtEntry
      <4>3. PageAt(r, fn, j) = PageAt(l, fn, j)
        <5>1. j # k + 1 /\ k % NumPages = k
          BY <1>1, <2>1, <3>1, <4>1, Before
        <5> QED
          BY <1>1, <1>4, <5>1 DEF PageAt
      <4> QED
        BY <3>1, <4>2, <4>3
    <3>3. CASE l.rd = l.app
      <4>1. n # PageSize
        BY <1>1, <2>3, <3>3
      <4>2. n \in Offsets /\ n > 0
        BY <1>1, <4>1, Sizes DEF Offsets
      <4>3. j = k /\ o = n
        BY <1>1, <3>1, <3>3, <4>2, PageOf
      <4>4. k # k + 1 /\ k % NumPages = k
        <5>1. k \in Logicals
          BY <2>1, Sizes DEF Logicals
        <5> QED
          BY <5>1, Modulo
      <4>5. PageAt(r, fn, j) = l.pbuf
        BY <1>1, <1>4, <4>3, <4>4 DEF PageAt
      <4>6. l.pbuf \in Sheets /\ WellFormed(l.pbuf, n)
        BY <1>1 DEF Rams, Formed
      <4>7. l.pbuf[n].len # Data(0).len
        BY <4>2, <4>6, FormedCell
      <4> QED
        BY <3>1, <4>3, <4>5, <4>7
    <3> QED
      BY <2>1, <3>2, <3>3
  <2> QED
    BY <2>2, <2>3 DEF AtEntry
<1>8. AtEntry(r, fn, r.rd)
  BY <1>4, <1>7 DEF AtEntry
<1> QED
  BY <1>4, <1>5, <1>6, <1>8 DEF Settled

(* The state in which the cache matters, and what holds after a step of it  *)
Known ==
  /\ InvType /\ Store(ram, owed, flash, log, safe, erased, count) /\ (~Rec(ram) => Clear(flash))
  /\ Coherent(ram, flash) /\ (Rec(ram) => Cache(ram, flash))
  /\ ram \in Rams /\ flash \in Flashes /\ Control(ram, owed) /\ owed \in AllRequests
CacheAfter == Coherent(ram', flash') /\ (Rec(ram') => Cache(ram', flash'))

LEMMA CachedAfter ==
  ASSUME NEW m, ram' = m, Cache(m, flash')
  PROVE  CacheAfter
  BY DEF CacheAfter, Cache, Settled

LEMMA SameCached ==
  ASSUME NEW m, NEW l, NEW fl, Cache(l, fl), SameStore(m, l), m.rbPage = l.rbPage, m.rbuf = l.rbuf,
         m.pbPage = l.pbPage, m.rd = l.rd, m.io = l.io, m.state = l.state
  PROVE  Cache(m, fl)
<1>1. Settled(m, fl) /\ Last(m) = Last(l)
  BY SameSettled, SameEntry DEF Cache
<1> QED
  BY <1>1 DEF Cache

LEMMA CallCache ==
  ASSUME Known, NEW o \in Requests, Call(o)
  PROVE  CacheAfter
<1>1. o \in AllRequests /\ o # NoOp
  BY RequestTypes DEF Call, Known
<1>2. ram \in Rams /\ Control(ram, owed) /\ flash \in Flashes /\ flash' = flash /\ Coherent(ram, flash)
  BY DEF Known, Call
<1>3. CASE ram.state = "NotReady" /\ Become(Begin(ram, o), log)
  <2>1. PICK m : m = Begin(ram, o)
    OBVIOUS
  <2>2. m.state = "Reconstructing" /\ SameCache(m, ram) /\ m.pbPage = ram.pbPage
    BY <1>1, <1>2, <2>1, BeginFields
  <2>3. ram' = m
    BY <1>3, <2>1, BecomeIs
  <2> QED
    BY <1>2, <2>2, <2>3 DEF CacheAfter, Coherent, SameCache, Rec
<1>4. ASSUME ram.state = "Idle"
      PROVE  /\ Quiet(ram) /\ Cache(ram, flash) /\ Good(ram, flash, log, safe, erased)
             /\ FlashForm(flash, erased)
  <2>1. Rec(ram) /\ Quiet(ram)
    BY <1>2, <1>4 DEF Rec, Control, Working, Quiet
  <2> QED
    BY <2>1 DEF Known, Store
<1>5. CASE ram.state = "Idle" /\ Become(AfterRefusal(ram, o), log)
  <2>1. Cache(AfterRefusal(ram, o), flash)
    BY <1>2, <1>4, <1>5, RefusalCache
  <2>2. ram' = AfterRefusal(ram, o)
    BY <1>5, BecomeIs
  <2> QED
    BY <1>2, <2>1, <2>2, CachedAfter
<1>6. ASSUME ram.state = "Idle", ~Refuses(ram, o), NEW g \in Garbage, Become(start(ram, o, g), log)
      PROVE  CacheAfter
  <2>1. o.op = "seek" => o.at = ram.oldest \/ o.at = ram.app
    BY DEF Requests
  <2>2. AtEntry(ram, flash, ram.oldest)
    BY <1>2, <1>4, <1>6, OldestEntry
  <2>3. AtEntry(ram, flash, ram.app)
    BY <1>2 DEF AtEntry, Rams
  <2>4. o.op = "seek" => AtEntry(ram, flash, o.at)
    BY <2>1, <2>2, <2>3
  <2>5. Cache(start(ram, o, g), flash)
    BY <1>1, <1>2, <1>4, <1>6, <2>4, StartCache
  <2>6. ram' = start(ram, o, g)
    BY <1>6, BecomeIs
  <2> QED
    BY <1>2, <2>5, <2>6, CachedAfter
<1> QED
  BY <1>3, <1>5, <1>6 DEF Call, Begin

(* The recovery that has found no page                                      *)
LEMMA NewLogCache ==
  ASSUME NEW l \in Rams, Quiet(l), l.req \in AllRequests, l.req # NoOp,
         l.oldest = 1, l.app = 1, l.rd = 1, l.pbuf = Fresh(1), l.pbPage = 0, l.rbPage = NONE,
         NEW fl \in Flashes, Clear(fl), NEW er, FlashForm(fl, er), finish_reconstruct(l)
  PROVE  Cache(ram', fl)
<1>1. PICK m, r :
              /\ Ready(m, l)
              /\ \/ Refuses(m, m.req) /\ r = AfterRefusal(m, m.req)
                 \/ ~Refuses(m, m.req) /\ \E g \in Garbage : r = start(m, m.req, g)
              /\ Become([r EXCEPT !.rbHere = TRUE],
                        {e \in log : m.oldest <= e.id /\ e.id < m.app})
  BY FinishReconstruct
<1>2. /\ m \in Rams /\ m.req = l.req /\ m.io = NoIO /\ ~m.deferred /\ ~m.walking /\ m.oldest = 1 /\ m.app = 1
      /\ m.pbuf = Fresh(1) /\ m.rd = 1 /\ m.pbPage = 0 /\ m.rbPage = NONE
  BY <1>1 DEF Ready, Quiet, SameStore, SameCache
<1>3. Quiet(m) /\ Cache(m, fl)
  BY <1>2, EmptyCache DEF Quiet
<1>4. Good(m, fl, {}, {}, er)
  BY <1>2, EmptyGood
<1>5. ASSUME ~Refuses(m, m.req), m.req.op = "seek" PROVE AtEntry(m, fl, m.req.at)
  <2>1. PICK a \in Nat : a = m.req.at
    BY <1>2, <1>5, RequestFields
  <2>2. 1 <= a /\ a <= 1
    BY <1>2, <1>5, <2>1 DEF Refuses
  <2> QED
    BY <1>2, <2>1, <2>2 DEF AtEntry
<1>6. Cache(r, fl) /\ r \in Rams
  <2>1. CASE r = AfterRefusal(m, m.req)
    BY <1>2, <1>3, <1>4, <2>1, RefusalCache, RefusalFields
  <2>2. ASSUME ~Refuses(m, m.req), NEW g \in Garbage, r = start(m, m.req, g)
        PROVE  Cache(r, fl) /\ r \in Rams
    <3>1. Cache(r, fl)
      BY <1>2, <1>3, <1>4, <1>5, <2>2, StartCache
    <3>2. Served(r, m.req)
      BY <1>2, <1>3, <2>2, StartServes
    <3> QED
      BY <3>1, <3>2 DEF Served
  <2> QED
    BY <1>1, <2>1, <2>2
<1>7. PICK k : k = [r EXCEPT !.rbHere = TRUE]
  OBVIOUS
<1>8. /\ k.rbuf = r.rbuf /\ k.rbPage = r.rbPage /\ SameStore(k, r) /\ k.state = r.state
      /\ k.rd = r.rd /\ k.pbPage = r.pbPage /\ k.io = r.io
  BY <1>6, <1>7, HereFields DEF SameTask
<1>9. ram' = k
  BY <1>1, <1>7, BecomeIs
<1> QED
  BY <1>6, <1>8, <1>9, SameCached

(* A page is asked for                                                      *)
LEMMA AskedCoherent ==
  ASSUME NEW l \in Rams, Quiet(l), NEW p \in Logicals, NEW fl, Coherent(l, fl)
  PROVE  /\ Coherent(start_read_page(l, p), fl) /\ start_read_page(l, p).state = l.state
<1>1. PICK m : m = start_read_page(l, p)
  OBVIOUS
<1>2. SameButCache(m, l) /\ (Fetches(m, l, p) \/ Answers(m, l))
  BY <1>1, StartReadPage
<1>3. Coherent(m, fl)
  BY <1>2 DEF SameButCache, Fetches, Answers, SameCache, Coherent
<1> QED
  BY <1>1, <1>2, <1>3 DEF SameButCache, SameTask

LEMMA DeferredCache ==
  ASSUME Known, handle_deferred_call
  PROVE  CacheAfter
<1>1. /\ ram \in Rams /\ Control(ram, owed) /\ flash \in Flashes /\ ram.deferred /\ flash' = flash
      /\ Coherent(ram, flash) /\ owed \in AllRequests
  BY DEF Known, handle_deferred_call
<1>2. PICK l : l = Taken(ram)
  OBVIOUS
<1>3. /\ l \in Rams /\ ~l.deferred /\ l.io = ram.io /\ SameStore(l, ram) /\ SameScan(l, ram)
      /\ SameTask(l, ram) /\ SameCache(l, ram) /\ l.rd = ram.rd /\ l.pbPage = ram.pbPage
  BY <1>1, <1>2, TakenFields
<1>4. Quiet(l) /\ l.req = owed /\ Working(ram) /\ l.state = ram.state /\ owed # NoOp
  BY <1>1, <1>3 DEF Quiet, Control, SameTask
<1>5. IF l.state = "Reconstructing" THEN drive_reconstruct(l) ELSE Callback(l, log)
  BY <1>2 DEF handle_deferred_call, Taken
<1>6. Coherent(l, flash)
  BY <1>1, <1>3 DEF Coherent, SameCache
<1>7. CASE ram.state = "Reconstructing"
  <2>1. l.state = "Reconstructing" /\ drive_reconstruct(l) /\ ~Rec(ram) /\ Clear(flash)
    BY <1>4, <1>5, <1>7 DEF Known, Rec
  <2>2. l.next \in 0..NumPages /\ l.recNewest \in Nat
    BY <1>1, <1>3, <1>7 DEF Control, SameScan, Rams
  <2>3. CASE l.next < NumPages /\ Become(start_read_page(l, l.next), log)
    <3>1. l.next \in Logicals
      BY <2>2, <2>3, Sizes DEF Logicals
    <3>2. Coherent(start_read_page(l, l.next), flash) /\ start_read_page(l, l.next).state = "Reconstructing"
      BY <1>3, <1>4, <1>6, <2>1, <3>1, AskedCoherent
    <3>3. ram' = start_read_page(l, l.next)
      BY <2>3, BecomeIs
    <3> QED
      BY <1>1, <3>2, <3>3 DEF CacheAfter, Rec
  <2>4. CASE Become(start_read_page([l EXCEPT !.walking = TRUE],
                                    logical_page_of_pos(l.recNewest)), log)
    <3>1. PICK n : n = [l EXCEPT !.walking = TRUE]
      OBVIOUS
    <3>2. /\ n \in Rams /\ n.io = l.io /\ n.deferred = l.deferred /\ SameTask(n, l) /\ SameCache(n, l)
          /\ n.pbPage = l.pbPage
      BY <1>3, <3>1, WalkingFields
    <3>3. PICK p \in Logicals : p = logical_page_of_pos(l.recNewest)
      BY <2>2, LabelOf
    <3>4. Quiet(n) /\ Coherent(n, flash) /\ n.state = "Reconstructing"
      BY <1>4, <1>6, <2>1, <3>2 DEF Quiet, Coherent, SameCache, SameTask
    <3>5. Coherent(start_read_page(n, p), flash) /\ start_read_page(n, p).state = "Reconstructing"
      BY <3>2, <3>4, AskedCoherent
    <3>6. ram' = start_read_page(n, p)
      BY <2>4, <3>1, <3>3, BecomeIs
    <3> QED
      BY <1>1, <3>5, <3>6 DEF CacheAfter, Rec
  <2>5. CASE finish_reconstruct(reset_state_empty(l))
    <3>1. PICK m : m = reset_state_empty(l)
      OBVIOUS
    <3>2. /\ m \in Rams /\ m.io = l.io /\ m.deferred = l.deferred /\ SameTask(m, l) /\ m.oldest = 1
          /\ m.rd = 1 /\ m.app = 1 /\ m.pbuf = Fresh(1) /\ m.pbPage = 0 /\ m.rbPage = NONE
      BY <1>3, <3>1, EmptyFields
    <3>3. Quiet(m) /\ m.req = owed
      BY <1>4, <3>2 DEF Quiet, SameTask
    <3>4. FlashForm(flash, erased)
      BY DEF Known, Store
    <3>5. Cache(ram', flash)
      BY <1>1, <1>4, <2>1, <2>5, <3>1, <3>2, <3>3, <3>4, NewLogCache
    <3> QED
      BY <1>1, <3>5, CachedAfter
  <2> QED
    BY <2>1, <2>3, <2>4, <2>5 DEF drive_reconstruct
<1>8. CASE ram.state # "Reconstructing"
  <2>1. Callback(l, log) /\ Rec(ram) /\ Cache(ram, flash)
    BY <1>4, <1>5, <1>8 DEF Working, Rec, Known
  <2>2. ram.io.op # "erase"
    BY <1>3, <1>4, IOFields DEF Quiet
  <2>3. Settled(ram, flash) /\ ram.pbPage = Last(ram) % NumPages
    BY <2>1, <2>2 DEF Cache
  <2>4. Settled(l, flash) /\ l.pbPage = Last(l) % NumPages
    BY <1>3, <2>3, SameSettled, SameEntry DEF SameCache
  <2>5. ram' = Idled(l)
    BY <2>1 DEF Callback, Idled
  <2>6. Cache(Idled(l), flash)
    BY <1>3, <2>4, IdledCache
  <2> QED
    BY <1>1, <2>5, <2>6, CachedAfter
<1> QED
  BY <1>7, <1>8

LEMMA ReadCache ==
  ASSUME Known, NEW ok \in BOOLEAN, read_complete(ok)
  PROVE  CacheAfter
<1>1. /\ ram \in Rams /\ Control(ram, owed) /\ flash \in Flashes /\ ram.io.op = "read" /\ flash' = flash
      /\ InvType
  BY DEF Known, read_complete
<1>2. PageRead(ok) \in Sheets /\ ram.io.page \in Logicals /\ ram.io # NoIO
  BY <1>1, PageReadType
<1>3. PICK l : l = Completed(ram)
  OBVIOUS
<1>4. /\ l \in Rams /\ l.io = NoIO /\ l.deferred = ram.deferred /\ SameStore(l, ram) /\ SameScan(l, ram)
      /\ SameTask(l, ram) /\ SameCache(l, ram) /\ l.rd = ram.rd /\ l.pbPage = ram.pbPage
  BY <1>1, <1>3, CompletedFields
<1>5. Quiet(l) /\ l.state = ram.state
  BY <1>1, <1>2, <1>4 DEF Quiet, Control, SameTask
<1>6. PICK page \in Sheets : page = PageRead(ok) /\ (ok => page = flash[ram.io.page])
  BY <1>2 DEF PageRead
<1>7. CASE l.state = "Reconstructing" /\ Become(ScanPage(l, ram.io.page, page, ok), log)
  <2>1. PICK m : m = ScanPage(l, ram.io.page, page, ok)
    OBVIOUS
  <2>2. SameTask(m, l) /\ m.rbuf = page /\ m.rbPage = IF ok THEN ram.io.page ELSE NONE
    BY <1>2, <1>4, <2>1, ScanFields
  <2>3. Coherent(m, flash) /\ ~Rec(m)
    BY <1>6, <1>7, <2>2 DEF Coherent, SameTask, Rec
  <2>4. ram' = m
    BY <1>7, <2>1, BecomeIs
  <2> QED
    BY <1>1, <2>3, <2>4 DEF CacheAfter
<1>8. CASE l.state = "Reconstructing" /\ l.walking
  <2>1. ram.state = "Reconstructing" /\ ram.walking /\ ~Rec(ram)
    BY <1>4, <1>5, <1>8 DEF SameScan, Rec
  <2>2. ram.recOldest # NONE /\ Scanned(ram, flash) /\ Clear(flash)
    BY <1>1, <2>1 DEF Control, Known, Store
  <2>3. \E p \in Logicals : ValidHeader(flash[p], p)
    BY <2>1, <2>2 DEF Scanned
  <2> QED
    BY <2>2, <2>3 DEF Clear
<1>9. ASSUME l.state = "Reading", NEW g \in Garbage, NEW p \in Labels,
             p = IF ok THEN logical_page_of_pos(l.rd) ELSE NONE,
             Become(IF ok THEN advance_read_pointer_then_deliver(Fetched(l, page, p), g)
                    ELSE Finish(Fetched(l, page, p), "FAIL", 0), log)
      PROVE  CacheAfter
  <2>1. PICK n : n = Fetched(l, page, p)
    OBVIOUS
  <2>2. /\ n \in Rams /\ n.io = l.io /\ n.deferred = l.deferred /\ n.rbuf = page /\ n.rbPage = p
        /\ SameStore(n, l) /\ SameTask(n, l) /\ n.rd = l.rd /\ n.pbPage = l.pbPage
    BY <1>4, <1>9, <2>1, FetchedFields
  <2>3. Quiet(n) /\ SameStore(n, ram) /\ n.rd = ram.rd
    BY <1>4, <1>5, <2>2 DEF Quiet, SameStore
  <2>4. Rec(ram) /\ ram.state = "Reading"
    BY <1>5, <1>9 DEF Rec
  <2>5. /\ Cache(ram, flash) /\ Good(ram, flash, log, safe, erased) /\ FlashForm(flash, erased)
    BY <2>4 DEF Known, Store
  <2>6. /\ Settled(ram, flash) /\ ram.pbPage = Last(ram) % NumPages
        /\ ram.io.page = logical_page_of_pos(ram.rd)
        /\ Last(ram) < NumPages => ram.io.page < Last(ram)
    BY <1>1, <2>4, <2>5 DEF Cache
  <2>7. Last(n) = Last(ram) /\ AtEntry(n, flash, n.rd)
    BY <2>3, <2>6, SameEntry DEF Settled
  <2>8. n.pbPage = Last(n) % NumPages /\ Good(n, flash, log, safe, erased)
    BY <1>4, <2>2, <2>3, <2>5, <2>6, <2>7, SameGood
  <2>9. Formed(n, flash)
    BY <2>5, <2>8, GoodFormed
  <2>10. p = IF ok THEN ram.io.page ELSE NONE
    BY <1>4, <1>9, <2>6
  <2>11. Coherent(n, flash)
    BY <1>6, <2>2, <2>10 DEF Coherent
  <2>12. Last(n) < NumPages => n.rbPage < Last(n)
    <3>1. Last(n) \in Nat
      BY <2>2, <2>9, AppAt DEF Formed
    <3>2. NONE < Last(n)
      BY <3>1 DEF NONE
    <3> QED
      BY <2>2, <2>6, <2>7, <2>10, <3>2
  <2>13. Settled(n, flash)
    BY <2>7, <2>11, <2>12 DEF Settled
  <2>14. PICK m : m = IF ok THEN advance_read_pointer_then_deliver(n, g) ELSE Finish(n, "FAIL", 0)
    OBVIOUS
  <2>15. Cache(m, flash)
    <3>1. CASE ok
      <4>1. Cache(advance_read_pointer_then_deliver(n, g), flash)
        BY <1>1, <2>2, <2>3, <2>8, <2>9, <2>13, AdvanceCache
      <4> QED
        BY <2>14, <3>1, <4>1
    <3>2. CASE ~ok
      <4>1. "FAIL" \in Errs /\ 0 \in Nat
        BY DEF Errs
      <4>2. m = Finish(n, "FAIL", 0)
        BY <2>14, <3>2
      <4>3. /\ m.io = n.io /\ SameStore(m, n) /\ SameCache(m, n) /\ m.rd = n.rd /\ m.pbPage = n.pbPage
        BY <2>2, <4>1, <4>2, FinishFields
      <4>4. Settled(m, flash) /\ Last(m) = Last(n) /\ m.io = NoIO
        BY <2>3, <2>13, <4>3, SameSettled, SameEntry DEF SameCache, Quiet
      <4> QED
        BY <2>8, <4>3, <4>4, QuietCache
    <3> QED
      BY <3>1, <3>2
  <2>16. ram' = m
    BY <1>9, <2>1, <2>14, BecomeIs
  <2> QED
    BY <1>1, <2>15, <2>16, CachedAfter
<1>10. ASSUME l.state = "Reading", NEW g \in Garbage,
              LET m == [l EXCEPT !.rbuf = page, !.rbHere = TRUE,
                                 !.rbPage = IF ok THEN logical_page_of_pos(l.rd) ELSE NONE]
              IN Become(IF ok THEN advance_read_pointer_then_deliver(m, g) ELSE Finish(m, "FAIL", 0), log)
       PROVE  CacheAfter
  <2>1. PICK p : p = IF ok THEN logical_page_of_pos(l.rd) ELSE NONE
    OBVIOUS
  <2>2. p \in Labels
    <3>1. l.rd \in Int
      BY <1>4 DEF Rams
    <3> QED
      BY <2>1, <3>1, LabelOf DEF Labels
  <2> QED
    BY <1>9, <1>10, <2>1, <2>2 DEF Fetched
<1> QED
  BY <1>3, <1>6, <1>7, <1>8, <1>10 DEF read_complete, Completed, PageRead

LEMMA WriteCache ==
  ASSUME Known, NEW ok \in BOOLEAN, write_complete(ok)
  PROVE  CacheAfter
<1>1. /\ ram \in Rams /\ Control(ram, owed) /\ flash \in Flashes /\ ram.io.op = "write"
      /\ owed \in AllRequests /\ InvType
  BY DEF Known, write_complete
<1>2. ram.state \in {"Appending", "Syncing"} /\ Rec(ram)
  BY <1>1 DEF Control, Rec
<1>3. /\ FlashForm(flash, erased) /\ Window(flash) /\ (\A e \in log : EntryOK(e))
      /\ Good(ram, flash, log, safe, erased) /\ Writing(ram) /\ Cache(ram, flash)
  BY <1>2 DEF Known, Store
<1>4. /\ ram.io.page = Last(ram) % NumPages /\ Used(ram) > 1 /\ Last(ram) < First(ram) + NumPages
      /\ ram.state = "Appending" => /\ Circular \/ ram.app + PageSize <= Volume
                                    /\ ram.req.len <= PageSize - 2
  BY <1>1, <1>3 DEF Writing
<1>5. Settled(ram, flash) /\ ram.pbPage = Last(ram) % NumPages /\ ram.rbPage # Last(ram) % NumPages
  BY <1>1, <1>3, <1>4 DEF Cache
<1>6. PICK l : l = Completed(ram)
  OBVIOUS
<1>7. /\ l \in Rams /\ SameTask(l, ram) /\ SameStore(l, ram) /\ l.io = NoIO
      /\ SameCache(l, ram) /\ l.rd = ram.rd /\ l.pbPage = ram.pbPage
  BY <1>1, <1>6, CompletedFields
<1>8. owed = ram.req /\ l.req = owed /\ l.state = ram.state /\ l.app = ram.app /\ l.oldest = ram.oldest
      /\ Last(l) = Last(ram) /\ l.pbuf = ram.pbuf /\ l.rbPage = ram.rbPage
  BY <1>1, <1>7, WriteTaken, SameEntry DEF SameTask, SameStore, SameCache
<1>9. Settled(l, flash) /\ l.pbPage = Last(l) % NumPages /\ l.rbPage # Last(l) % NumPages
  BY <1>5, <1>7, <1>8, SameSettled DEF SameCache
<1>10. CASE /\ Callback([l EXCEPT !.err = "FAIL", !.got = 0, !.lost = IF l.flushing THEN FALSE ELSE @], log)
            /\ UNCHANGED <<flash, safe>>
  <2>1. PICK t \in BOOLEAN : t = IF l.flushing THEN FALSE ELSE l.lost
    BY <1>7 DEF Rams
  <2>2. PICK k : k = [l EXCEPT !.err = "FAIL", !.got = 0, !.lost = t]
    OBVIOUS
  <2>3. k \in Rams /\ SameStore(k, l) /\ SameCache(k, l) /\ k.rd = l.rd /\ k.pbPage = l.pbPage
    BY <1>7, <2>2, FailedFields
  <2>4. Settled(k, flash) /\ k.pbPage = Last(k) % NumPages
    BY <1>9, <2>3, SameSettled, SameEntry DEF SameCache
  <2>5. ram' = Idled(k)
    BY <1>10, <2>1, <2>2 DEF Callback, Idled
  <2>6. Cache(Idled(k), flash)
    BY <2>3, <2>4, IdledCache
  <2> QED
    BY <1>10, <2>5, <2>6, CachedAfter
<1>11. CASE flash' = [flash EXCEPT ![ram.io.page] = ram.pbuf] /\
           (\/ /\ l.state = "Appending"
               /\ Become(append_to_pagebuffer([reset_pagebuffer(l) EXCEPT !.flushing = FALSE]), log)
            \/ /\ l.state = "Syncing"
               /\ Callback([IF l.app % PageSize = 0 THEN reset_pagebuffer(l) ELSE l
                            EXCEPT !.err = "Ok", !.got = 0], log))
  <2>1. flash' = [flash EXCEPT ![Last(ram) % NumPages] = ram.pbuf]
    BY <1>4, <1>11
  <2>2. /\ flash' \in Flashes /\ Good(ram, flash', log, log, erased) /\ FlashForm(flash', erased)
        /\ \A p \in Logicals : ValidHeader(flash'[p], p) => Base(First(ram)) <= flash'[p][0].val
    BY <1>1, <1>3, <1>4, <2>1, GoodWrite
  <2>3. Good(l, flash', log, log, erased)
    BY <1>7, <2>2, SameGood
  <2>4. Formed(l, flash') /\ Formed(l, flash)
    <3>1. Good(l, flash, log, safe, erased)
      BY <1>3, <1>7, SameGood
    <3> QED
      BY <1>3, <2>2, <2>3, <3>1, GoodFormed
  <2>5. /\ \A p \in Logicals : p # Last(l) % NumPages => flash'[p] = flash[p]
        /\ flash'[Last(l) % NumPages] = l.pbuf
    <3>1. Last(ram) \in Int
      BY <1>1, <1>3, GoodPosition
    <3>2. Last(ram) % NumPages \in Logicals
      BY <3>1, Modulo
    <3> QED
      BY <1>1, <1>8, <2>1, <3>2 DEF Flashes
  <2>6. Settled(l, flash')
    BY <1>7, <1>9, <2>4, <2>5, WrittenSettled
  <2>7. PICK r : r = reset_pagebuffer(l)
    OBVIOUS
  <2>8. /\ r \in Rams /\ r.io = l.io /\ SameTask(r, l) /\ r.oldest = l.oldest /\ r.rd = l.rd /\ SameCache(r, l)
        /\ IF ~Circular /\ l.app + PageSize > Volume
           THEN r = l
           ELSE /\ r.pbuf = Fresh(RoundUp(l.app)) /\ r.app = RoundUp(l.app) + 1
                /\ r.pbPage = logical_page_of_pos(RoundUp(l.app))
    BY <1>7, <2>7, NextPageFields
  <2>9. Settled(r, flash') /\ r.pbPage = Last(r) % NumPages
    <3>1. CASE r = l
      BY <1>9, <2>6, <3>1
    <3>2. CASE r.app = RoundUp(l.app) + 1 /\ r.pbPage = logical_page_of_pos(RoundUp(l.app))
      BY <1>7, <1>9, <2>4, <2>5, <2>6, <2>8, <3>2, NextSettled
    <3> QED
      BY <2>8, <3>1, <3>2
  <2>10. CASE /\ l.state = "Appending"
              /\ Become(append_to_pagebuffer([reset_pagebuffer(l) EXCEPT !.flushing = FALSE]), log)
    <3>1. ram.req.len <= PageSize - 2 /\ (Circular \/ ram.app + PageSize <= Volume)
          /\ ram.app \in Nat /\ owed.op = "append"
      BY <1>1, <1>2, <1>4, <1>8, <2>10 DEF Rams, Control, Working, Serves
    <3>2. r.pbuf = Fresh(RoundUp(l.app)) /\ r.app = RoundUp(l.app) + 1
      <4>1. ~(~Circular /\ l.app + PageSize > Volume)
        BY <1>8, <3>1, VolumeType, Sizes
      <4> QED
        BY <2>8, <4>1
    <3>3. Good(r, flash', log, log, erased) /\ Used(r) = 1
      <4>1. First(l) = First(ram)
        BY <1>8 DEF First
      <4> QED
        BY <1>3, <1>4, <1>7, <1>8, <2>2, <2>3, <2>8, <3>2, <4>1, GoodNextPage
    <3>4. PICK k : k = [r EXCEPT !.flushing = FALSE]
      OBVIOUS
    <3>5. /\ k \in Rams /\ SameStore(k, r) /\ k.state = r.state /\ k.req = r.req /\ k.io = r.io
          /\ SameCache(k, r) /\ k.rd = r.rd /\ k.pbPage = r.pbPage
      BY <2>8, <3>4, UnflushedFields
    <3>6. k.req = owed /\ k.io = NoIO
      BY <1>7, <1>8, <2>8, <3>5 DEF SameTask
    <3>7. Settled(k, flash') /\ k.pbPage = Last(k) % NumPages
      BY <2>9, <3>5, SameSettled, SameEntry DEF SameCache
    <3>8. Formed(k, flash')
      <4>1. Good(k, flash', log, log, erased)
        BY <3>3, <3>5, SameGood
      <4> QED
        BY <2>2, <4>1, GoodFormed
    <3>9. owed.len \in Nat
      BY <1>1, <3>1, AppendRequest
    <3>10. Used(k) + 1 + k.req.len <= PageSize
      <4>1. Used(k) = 1
        BY <3>3, <3>5 DEF Used, Last, SameStore
      <4>2. 1 + 1 + owed.len <= PageSize
        BY <1>8, <3>1, <3>9, Sizes
      <4> QED
        BY <3>6, <4>1, <4>2
    <3>11. k.req.op = "append"
      BY <3>1, <3>6
    <3>12. Cache(append_to_pagebuffer(k), flash')
      BY <3>5, <3>6, <3>7, <3>8, <3>10, <3>11, AppendCache
    <3>13. ram' = append_to_pagebuffer(k)
      BY <2>7, <2>10, <3>4, BecomeIs
    <3> QED
      BY <3>12, <3>13, CachedAfter
  <2>11. CASE Callback([IF l.app % PageSize = 0 THEN reset_pagebuffer(l) ELSE l
                        EXCEPT !.err = "Ok", !.got = 0], log)
    <3>1. PICK k : k = IF l.app % PageSize = 0 THEN r ELSE l
      OBVIOUS
    <3>2. k \in Rams /\ Settled(k, flash') /\ k.pbPage = Last(k) % NumPages
      BY <1>7, <1>9, <2>6, <2>8, <2>9, <3>1
    <3>3. PICK m : m = [k EXCEPT !.err = "Ok", !.got = 0]
      OBVIOUS
    <3>4. "Ok" \in Errs
      BY DEF Errs
    <3>5. m \in Rams /\ SameStore(m, k) /\ SameCache(m, k) /\ m.rd = k.rd /\ m.pbPage = k.pbPage
      BY <3>2, <3>3, <3>4, OutcomeFields
    <3>6. Settled(m, flash') /\ m.pbPage = Last(m) % NumPages
      BY <3>2, <3>5, SameSettled, SameEntry DEF SameCache
    <3>7. ram' = Idled(m)
      BY <2>7, <2>11, <3>1, <3>3 DEF Callback, Idled
    <3>8. Cache(Idled(m), flash')
      BY <3>5, <3>6, IdledCache
    <3> QED
      BY <3>7, <3>8, CachedAfter
  <2> QED
    BY <1>11, <2>10, <2>11
<1> QED
  BY <1>6, <1>10, <1>11 DEF write_complete, Completed

(* Padding is no payload: a page that is erased leaves the reader at an entry *)
LEMMA ErasedSettled ==
  ASSUME NEW l \in Rams, l.app >= 1, NEW fl, Settled(l, fl), NEW q \in Logicals, l.rbPage # q,
         NEW fn, fn[q] = Erased, \A p \in Logicals : p # q => fn[p] = fl[p],
         NEW r \in Rams, r.app = l.app, r.pbuf = l.pbuf, r.rd = l.rd, SameCache(r, l), r.pbPage = l.pbPage
  PROVE  Settled(r, fn)
<1>1. Last(r) = Last(l) /\ r.rbPage = l.rbPage /\ r.rbuf = l.rbuf
  BY DEF Last, SameCache
<1>2. l.rbPage \in Logicals \cup {NONE}
  BY DEF Rams, Labels
<1>3. Coherent(r, fn)
  BY <1>1, <1>2 DEF Settled, Coherent
<1>4. ASSUME Last(l) < NumPages, l.rd < l.app, l.rd % PageSize # 0
      PROVE  PageAt(r, fn, l.rd \div PageSize)[l.rd % PageSize].len # Data(0).len
  <2>1. l.rd \in Nat
    BY DEF Rams
  <2>2. PICK j \in Nat, o \in Offsets : l.rd = Base(j) + o /\ l.rd \div PageSize = j /\ l.rd % PageSize = o
    BY <2>1, PlaceOf
  <2>3. j <= Last(l)
    BY <1>4, <2>2, Before
  <2>4. j \in Logicals
    BY <1>4, <2>3, <2>2, Before
  <2>5. PageAt(l, fl, j)[o].len # Data(0).len
    BY <1>4, <2>2 DEF Settled, AtEntry
  <2>6. Erased[o].len # Data(0).len
    BY DataLen DEF Erased
  <2>7. PageAt(r, fn, j)[o].len # Data(0).len
    <3>1. CASE j = Last(l) \/ j # q
      BY <1>1, <2>4, <2>5, <3>1 DEF PageAt
    <3>2. CASE j # Last(l) /\ j = q
      BY <1>1, <2>6, <3>2 DEF PageAt
    <3> QED
      BY <3>1, <3>2
  <2> QED
    BY <2>2, <2>7
<1>5. AtEntry(r, fn, r.rd)
  BY <1>1, <1>4 DEF Settled, AtEntry
<1> QED
  BY <1>1, <1>3, <1>5 DEF Settled

LEMMA EraseDoneCache ==
  ASSUME Known, NEW ok \in BOOLEAN, erase_complete(ok), ~halfErased'
  PROVE  CacheAfter
<1>1. /\ ram \in Rams /\ Control(ram, owed) /\ flash \in Flashes /\ ram.io.op = "erase" /\ InvType
  BY DEF Known, erase_complete
<1>2. ram.state = "Erasing" /\ Rec(ram) /\ ram.io.page \in Logicals
  BY <1>1, EraseTaken DEF Rec
<1>3. Good(ram, flash, log, safe, erased) /\ Cache(ram, flash)
  BY <1>2 DEF Known, Store
<1>4. Settled(ram, flash) /\ ram.rbPage # ram.io.page /\ ram.app >= 1
  BY <1>1, <1>3, GoodPosition DEF Cache
<1>5. PICK l : l = Completed(ram)
  OBVIOUS
<1>6. /\ l \in Rams /\ SameTask(l, ram) /\ SameStore(l, ram) /\ l.io = NoIO
      /\ SameCache(l, ram) /\ l.rd = ram.rd /\ l.pbPage = ram.pbPage
  BY <1>1, <1>5, CompletedFields
<1>7. CASE Callback([reset_state_empty(l) EXCEPT !.err = "Ok", !.got = 0], {})
  <2>1. PICK r : r = reset_state_empty(l)
    OBVIOUS
  <2>2. /\ r \in Rams /\ r.io = NoIO /\ r.rd = 1 /\ r.app = 1 /\ r.pbPage = 0 /\ r.rbPage = NONE
    BY <1>6, <2>1, EmptyFields
  <2>3. PICK k : k = [r EXCEPT !.err = "Ok", !.got = 0]
    OBVIOUS
  <2>4. "Ok" \in Errs
    BY DEF Errs
  <2>5. k \in Rams /\ SameStore(k, r) /\ SameCache(k, r) /\ k.rd = r.rd /\ k.pbPage = r.pbPage
    BY <2>2, <2>3, <2>4, OutcomeFields
  <2>6. PICK m : m = Idled(k)
    OBVIOUS
  <2>7. m \in Rams /\ SameStore(m, k) /\ SameCache(m, k) /\ m.rd = k.rd /\ m.pbPage = k.pbPage /\ m.io = NoIO
    BY <2>5, <2>6, IdledFields DEF Quiet
  <2>8. Cache(m, flash')
    BY <2>2, <2>5, <2>7, EmptyCache DEF SameStore, SameCache
  <2>9. ram' = m
    BY <1>7, <2>1, <2>3, <2>6 DEF Callback, Idled
  <2> QED
    BY <2>8, <2>9, CachedAfter
<1>8. CASE /\ flash' = [flash EXCEPT ![ram.io.page] = Erased]
           /\ Become(erase_oldest_page([l EXCEPT !.oldest = @ + PageSize]),
                     {e \in log : PageNo(e) # l.oldest \div PageSize})
  <2>1. PICK r : r = [l EXCEPT !.oldest = @ + PageSize]
    OBVIOUS
  <2>2. /\ r \in Rams /\ r.app = l.app /\ r.pbuf = l.pbuf
        /\ SameTask(r, l) /\ SameCache(r, l) /\ r.rd = l.rd /\ r.pbPage = l.pbPage
    BY <1>6, <2>1, OldestFields
  <2>3. /\ r.app = ram.app /\ r.pbuf = ram.pbuf /\ r.rd = ram.rd /\ SameCache(r, ram)
        /\ r.pbPage = ram.pbPage /\ r.state = "Erasing"
    BY <1>2, <1>6, <2>2 DEF SameStore, SameCache, SameTask
  <2>4. /\ flash'[ram.io.page] = Erased
        /\ \A p \in Logicals : p # ram.io.page => flash'[p] = flash[p]
    BY <1>1, <1>2, <1>8 DEF Flashes
  <2>5. Settled(r, flash')
    BY <1>1, <1>2, <1>4, <2>2, <2>3, <2>4, ErasedSettled
  <2>6. Cache(erase_oldest_page(r), flash')
    BY <1>4, <2>2, <2>3, <2>5, EraseCache
  <2>7. ram' = erase_oldest_page(r)
    BY <1>8, <2>1, BecomeIs
  <2> QED
    BY <2>6, <2>7, CachedAfter
<1> QED
  BY <1>5, <1>7, <1>8 DEF erase_complete, Completed

LEMMA CacheStep ==
  ASSUME InvType, InvStore, InvCache, [Next]_vars
  PROVE  InvCache'
<1>1. CASE UNCHANGED vars
  <2>1. UNCHANGED <<ram, flash, resets, halfErased>>
    BY <1>1 DEF vars
  <2> QED
    BY <2>1 DEF InvCache
<1>2. CASE Next
  <2>1. SUFFICES ASSUME resets' = 0, ~halfErased' PROVE CacheAfter
    BY DEF InvCache, CacheAfter
  <2>2. Known /\ resets = 0
    BY <1>2, <2>1, CacheBefore DEF Known
  <2>3. ASSUME NEW o \in Requests, Call(o) PROVE CacheAfter
    BY <2>2, <2>3, CallCache
  <2>4. CASE handle_deferred_call
    BY <2>2, <2>4, DeferredCache
  <2>5. ASSUME NEW ok \in BOOLEAN, FlashDone(ok) PROVE CacheAfter
    BY <2>1, <2>2, <2>5, ReadCache, WriteCache, EraseDoneCache DEF FlashDone
  <2>6. CASE Reset
    BY <2>1, <2>2, <2>6 DEF Reset
  <2> QED
    BY <1>2, <2>3, <2>4, <2>5, <2>6 DEF Next
<1> QED
  BY <1>1, <1>2

LEMMA InvCacheHolds == Spec => []InvCache
<1>1. Init => InvCache
  BY BootFields DEF Init, InvCache, Coherent, Rec
<1>2. InvType /\ InvStore /\ InvCache /\ [Next]_vars => InvCache'
  BY CacheStep
<1> QED
  BY InvTypeHolds, InvStoreHolds, <1>1, <1>2, PTL DEF Spec

(* flush_pagebuffer, erase_oldest_page, advance_read_pointer_then_deliver:
   until a recovery from a reset or an erase that failed, what a read takes
   from the read cache is what is on flash, for every geometry, linear or
   circular, and whatever reads and writes failed.                          *)
THEOREM CacheIsFlash == Spec => []CacheCoherent
<1>1. InvCache => CacheCoherent
  BY DEF InvCache, Coherent, CacheCoherent
<1> QED
  BY InvCacheHolds, <1>1, PTL
-----------------------------------------------------------------------------
(* Reading forward *)

(* Every length on a page of the log is that of an entry of the history     *)
Listed(l, fl, lg) ==
  \A j \in 0..Last(l), o \in Offsets :
    o > 0 /\ PageAt(l, fl, j)[o].len >= 1 => \E e \in lg : e.id = Base(j) + o

(* Later entries have greater IDs                                           *)
Ordered(lg) == \A e, f \in lg : e.id < f.id => e.tag < f.tag

(* The entries before pos are those up to number t                          *)
Split(lg, pos, t) == \A e \in lg : e.id < pos <=> e.tag <= t

(* The log is in its first lap and its pages hold its history               *)
Linear(l, fl, lg) ==
  Last(l) < NumPages /\ l.oldest = 1 /\ Listed(l, fl, lg) /\ Ordered(lg)

(* A read that is over has found the first entry after number lr, or that
   there is none                                                            *)
Found(l, lg, lr) ==
  /\ l.err = "Ok" => /\ l.got > lr /\ \E e \in lg : e.tag = l.got
                     /\ \A e \in lg : e.tag > lr => e.tag >= l.got
  /\ l.err = "END" => \A e \in lg : e.tag <= lr

(* Number of the last entry before the read cursor                          *)
Passed(l, lr) ==
  IF l.state = "Reading" /\ l.deferred /\ l.err = "Ok" THEN l.got
  ELSE IF l.state = "Seeking" THEN l.req.before
  ELSE lr

Forward(l, fl, lg, lr) ==
  /\ Linear(l, fl, lg) /\ Split(lg, l.rd, Passed(l, lr))
  /\ l.state = "Reading" /\ l.deferred => Found(l, lg, lr)
  /\ l.state = "Seeking" => l.err = "Ok"

(* Pages are being erased                                                   *)
Emptying(l) == l.state = "Erasing" /\ ~l.deferred

Reads(l, ow, fl, lg, lr, ct) ==
  /\ lr \in Nat /\ lr <= ct
  /\ ow.op = "seek" => ow.before <= ct
  /\ l.io.op = "write" /\ ow.op = "append" => lr < ct
  /\ ~Rec(l) => lr = 0 /\ lg = {}
  /\ Rec(l) /\ ~Emptying(l) => Forward(l, fl, lg, lr)

InvRead ==
  ~Circular /\ resets = 0 /\ ~halfErased => Reads(ram, owed, flash, log, lastRead, count)

(* The entries are whole, each on its page                                  *)
Stored(l, fl, lg) ==
  \A e \in lg :
    /\ EntryOK(e) /\ PageNo(e) <= Last(l) /\ e.id + e.len < l.app
    /\ InPage(PageAt(l, fl, PageNo(e)), e)

LEMMA GoodStored ==
  ASSUME NEW l \in Rams, NEW fl, NEW lg, NEW sf, NEW er, Good(l, fl, lg, sf, er),
         \A e \in lg : EntryOK(e), Last(l) < NumPages
  PROVE  Stored(l, fl, lg)
<1>1. SUFFICES ASSUME NEW e \in lg
               PROVE  PageNo(e) <= Last(l) /\ e.id + e.len < l.app /\ InPage(PageAt(l, fl, PageNo(e)), e)
  BY DEF Stored
<1>2. EntryOK(e) /\ l.app >= 1 /\ l.app \in Nat
  BY DEF Good, Cursors, Rams
<1>3. PICK j \in Nat, o \in Offsets : e.id = Base(j) + o /\ j = PageNo(e)
  <2>1. Off(e) \in 1..(PageSize - 1)
    BY <1>2, EntryAt
  <2>2. Off(e) \in Offsets
    BY <2>1, Sizes DEF Offsets
  <2> QED
    BY <1>2, <2>2, EntryAt
<1>4. e.id + e.len < l.app
  BY DEF Good, Entries
<1>5. e.id < l.app
  BY <1>2, <1>4 DEF EntryOK
<1>6. j <= Last(l)
  BY <1>2, <1>3, <1>5, Before
<1>7. j % NumPages = j
  BY <1>2, <1>6, Before
<1>8. InPage(PageAt(l, fl, j), e)
  <2>1. j # Last(l) => OnFlash(fl, e)
    BY <1>3 DEF Good, Entries
  <2>2. j = Last(l) => InPage(l.pbuf, e)
    BY <1>3 DEF Good, Entries
  <2> QED
    BY <1>3, <1>7, <2>1, <2>2 DEF PageAt, OnFlash
<1> QED
  BY <1>3, <1>4, <1>6, <1>8

(* Where an entry is                                                        *)
LEMMA StoredCell ==
  ASSUME NEW l \in Rams, NEW fl, NEW lg, Stored(l, fl, lg), NEW e \in lg
  PROVE  \E j \in Nat, o \in Offsets :
           /\ j = PageNo(e) /\ j <= Last(l) /\ o > 0 /\ e.id = Base(j) + o /\ e.id + e.len < l.app
           /\ Base(j) \in Nat /\ e.id \in Nat /\ e.len \in Nat /\ e.len > 0 /\ e.tag \in Nat
           /\ o + e.len < PageSize
           /\ PageAt(l, fl, j)[o] = [len |-> e.len, val |-> e.tag]
           /\ \A i \in 1..e.len : PageAt(l, fl, j)[o + i] = Data(e.tag)
<1>1. EntryOK(e) /\ PageNo(e) <= Last(l) /\ e.id + e.len < l.app /\ InPage(PageAt(l, fl, PageNo(e)), e)
  BY DEF Stored
<1>2. PICK j \in Nat, o \in Offsets : j = PageNo(e) /\ o = Off(e) /\ o > 0
  <2>1. Off(e) \in 1..(PageSize - 1) /\ PageNo(e) \in Nat
    BY <1>1, EntryAt
  <2>2. Off(e) \in Offsets /\ Off(e) > 0
    BY <2>1, Sizes DEF Offsets
  <2> QED
    BY <2>1, <2>2
<1>3. e.id = Base(j) + o /\ o + e.len < PageSize
  BY <1>1, <1>2, EntryAt
<1>4. /\ PageAt(l, fl, j)[o] = [len |-> e.len, val |-> e.tag]
      /\ \A i \in 1..e.len : PageAt(l, fl, j)[o + i] = Data(e.tag)
  BY <1>1, <1>2, EntryAt
<1>5. Base(j) \in Nat /\ e.id \in Nat /\ e.len \in Nat /\ e.len > 0 /\ e.tag \in Nat
  BY <1>1, BaseNext DEF EntryOK
<1> QED
  BY <1>1, <1>2, <1>3, <1>4, <1>5

(* advance_read_pointer_then_deliver skips no entry                         *)
LEMMA NoneSkipped ==
  ASSUME NEW l \in Rams, NEW fl \in Flashes, Formed(l, fl), Settled(l, fl), l.pbPage = Last(l) % NumPages,
         Last(l) < NumPages, NEW lg, Stored(l, fl, lg), NEW g \in Garbage, NEW e \in Nat, Stop(l, g, e),
         NEW x \in lg, l.rd <= x.id
  PROVE  e <= x.id
<1>0. x.id \in Nat
  BY DEF Stored, EntryOK
<1>1. SUFFICES ASSUME x.id < e PROVE FALSE
  BY <1>0
<1>2. PICK j \in Nat, o \in Offsets :
         /\ j <= Last(l) /\ o > 0 /\ x.id = Base(j) + o /\ x.id + x.len < l.app
         /\ Base(j) \in Nat /\ x.id \in Nat /\ x.len \in Nat /\ x.len > 0
         /\ PageAt(l, fl, j)[o] = [len |-> x.len, val |-> x.tag]
  BY StoredCell
<1>3. l.rd \in Nat /\ l.app \in Nat /\ l.app >= 1 /\ o \in Nat /\ o < PageSize /\ PageSize \in Nat
  BY Sizes DEF Rams, Formed, Offsets
<1>4. 1 \in Offsets /\ (Base(j) + 1) % PageSize = 1
  <2>1. 1 \in Offsets
    BY Sizes DEF Offsets
  <2> QED
    BY <2>1, PageOf
<1>5. PICK i \in Nat : /\ i \in Offsets /\ i > 0 /\ i <= o /\ Base(j) + i \in Places(l)
                       /\ AtEntry(l, fl, Base(j) + i) /\ Base(j) + i <= x.id
  <2>1. CASE l.rd <= Base(j) + 1
    <3>1. PICK y \in Nat : y = Base(j) + 1 /\ y <= x.id /\ y <= l.app /\ l.rd <= y /\ y <= l.app + PageSize
      BY <1>2, <1>3, <2>1
    <3>2. y \in Places(l)
      <4>1. y \in l.rd..(l.app + PageSize)
        BY <1>3, <3>1
      <4> QED
        BY <1>4, <3>1, <4>1 DEF Places, PAGE_HEADER_SIZE
    <3>3. AtEntry(l, fl, y)
      BY <1>4, <3>1, PageStart
    <3> QED
      BY <1>2, <1>3, <1>4, <3>1, <3>2, <3>3
  <2>2. CASE ~(l.rd <= Base(j) + 1)
    <3>1. PICK i \in Nat : i = l.rd - Base(j)
      <4>1. l.rd - Base(j) \in Nat
        BY <1>2, <1>3, <2>2
      <4> QED
        BY <4>1
    <3>2. i \in Offsets /\ i > 0 /\ i <= o /\ l.rd = Base(j) + i
      BY <1>2, <1>3, <2>2, <3>1 DEF Offsets
    <3>3. l.rd \in Places(l) /\ AtEntry(l, fl, l.rd)
      BY DEF Places, Settled
    <3> QED
      BY <3>2, <3>3
  <2> QED
    BY <2>1, <2>2
<1>6. PICK f \in Nat : f = Base(j) + i /\ f < e /\ f < l.app /\ f % PageSize = i
  <2>1. (Base(j) + i) % PageSize = i
    BY <1>5, PageOf
  <2>2. Base(j) + i < e /\ Base(j) + i < l.app
    BY <1>1, <1>2, <1>3, <1>5
  <2> QED
    BY <1>2, <2>1, <2>2
<1>7. Skipped(l, g, f)
  BY <1>5, <1>6 DEF Stop
<1>8. Cached(l, f) /\ LenAt(l, f, g) = -1
  <2>1. f % PageSize # 0
    BY <1>5, <1>6
  <2> QED
    BY <1>7, <2>1, DataLen DEF Skipped
<1>9. PageAt(l, fl, j)[i].len = -1 /\ PageAt(l, fl, j)[i].len # Data(0).len
  <2>1. Coherent(l, fl)
    BY DEF Settled
  <2> QED
    BY <1>5, <1>6, <1>8, <2>1, EntryLen
<1>10. PICK n \in 1..PageSize : WellFormed(PageAt(l, fl, j), n)
  BY <1>2, PageFormed
<1>11. PageAt(l, fl, j) \in Sheets
  BY <1>2, PageFormed
<1>12. ~(i < n)
  <2>1. i < n => PageAt(l, fl, j)[i].len >= 1
    BY <1>5, <1>9, <1>10, <1>11, FormedCell
  <2> QED
    BY <1>9, <2>1
<1>13. o >= n
  BY <1>3, <1>5, <1>10, <1>12, Sizes
<1>14. PageAt(l, fl, j)[o].len <= 0
  BY <1>2, <1>10, <1>11, <1>13, FormedCell
<1>15. PageAt(l, fl, j)[o].len = x.len
  BY <1>2
<1> QED
  BY <1>2, <1>14, <1>15

(* What deliver_current_entry delivers is the entry at its place            *)
LEMMA EntryDelivered ==
  ASSUME NEW l \in Rams, NEW fl \in Flashes, Formed(l, fl), Settled(l, fl), l.pbPage = Last(l) % NumPages,
         NEW lg, Stored(l, fl, lg), Linear(l, fl, lg), NEW g,
         NEW e \in Nat, e % PageSize > 0, e < l.app, AtEntry(l, fl, e), Cached(l, e),
         LenAt(l, e, g) \in 1..MaxEntry
  PROVE  \E x \in lg :
           /\ x.id = e /\ PayloadAt(l, e + 1, LenAt(l, e, g)) = x.tag
           /\ \A f \in lg : f.id < e + 1 + LenAt(l, e, g) <=> f.tag <= x.tag
           /\ \A f \in lg : f.id >= e => f.tag >= x.tag
<1>1. PICK j \in Nat, o \in Offsets :
         /\ e = Base(j) + o /\ e % PageSize = o /\ logical_page_of_pos(e) = j % NumPages /\ Base(j) \in Nat
  BY PlaceOf
<1>2. Last(l) < NumPages /\ Listed(l, fl, lg) /\ Ordered(lg) /\ Coherent(l, fl)
  BY DEF Linear, Settled
<1>3. PICK page : page = PageAt(l, fl, j)
  OBVIOUS
<1>4. o > 0 /\ LenAt(l, e, g) = page[o].len /\ j <= Last(l)
  BY <1>1, <1>2, <1>3, EntryLen
<1>5. PICK len \in Nat : len = LenAt(l, e, g) /\ len >= 1 /\ len = page[o].len
  BY <1>4, Sizes DEF MaxEntry, PAGE_HEADER_SIZE, ENTRY_HEADER_SIZE
<1>6. PICK x \in lg : x.id = e
  <2>1. Last(l) \in Nat
    BY AppAt DEF Formed
  <2>2. j \in 0..Last(l)
    BY <1>4, <2>1
  <2> QED
    BY <1>1, <1>2, <1>3, <1>4, <1>5, <2>2 DEF Listed
<1>7. ASSUME NEW f \in lg, NEW i \in Offsets, f.id = Base(j) + i
      PROVE  /\ page[i] = [len |-> f.len, val |-> f.tag] /\ i + f.len < PageSize /\ f.len \in Nat
             /\ \A k \in 1..f.len : page[i + k] = Data(f.tag)
             /\ f.len > 0 /\ f.id + f.len < l.app
  <2>1. PICK jf \in Nat, of \in Offsets :
           /\ f.id = Base(jf) + of /\ f.id + f.len < l.app /\ f.len \in Nat /\ f.len > 0
           /\ of + f.len < PageSize
           /\ PageAt(l, fl, jf)[of] = [len |-> f.len, val |-> f.tag]
           /\ \A k \in 1..f.len : PageAt(l, fl, jf)[of + k] = Data(f.tag)
    BY StoredCell
  <2>2. jf = j /\ of = i
    <3>1. (Base(jf) + of) \div PageSize = jf /\ (Base(jf) + of) % PageSize = of
      BY PageOf
    <3>2. (Base(j) + i) \div PageSize = j /\ (Base(j) + i) % PageSize = i
      BY PageOf
    <3> QED
      BY <1>7, <2>1, <3>1, <3>2
  <2> QED
    BY <1>3, <2>1, <2>2
<1>8. /\ page[o] = [len |-> x.len, val |-> x.tag] /\ o + x.len < PageSize /\ x.len \in Nat
      /\ \A k \in 1..x.len : page[o + k] = Data(x.tag)
      /\ x.id + x.len < l.app
  BY <1>1, <1>6, <1>7
<1>9. x.len = len
  BY <1>5, <1>8
<1>10. ASSUME NEW i \in 1..len
       PROVE  CellAt(l, e + i) = Data(x.tag) /\ o + i \in Offsets /\ page[o + i] = Data(x.tag)
  <2>1. o \in Nat /\ l.app \in Nat /\ l.app >= 1
    BY DEF Offsets, Rams, Formed
  <2>2. o + i \in Offsets /\ e + i = Base(j) + (o + i) /\ e + i < l.app
    BY <1>1, <1>6, <1>8, <1>9, <2>1, Sizes DEF Offsets
  <2>3. logical_page_of_pos(Base(j) + (o + i)) = j % NumPages
    BY <2>2, PageOf
  <2>4. Cached(l, Base(j) + (o + i))
    BY <1>1, <2>3 DEF Cached
  <2>5. CellAt(l, Base(j) + (o + i)) = page[o + i]
    BY <1>2, <1>3, <2>1, <2>2, <2>4, CachedCell
  <2> QED
    BY <1>8, <1>9, <2>2, <2>5
<1>11. PayloadAt(l, e + 1, len) = x.tag
  <2>1. 1 \in 1..len
    BY <1>5
  <2>2. CellAt(l, e + 1) = Data(x.tag)
    BY <1>10, <2>1
  <2>3. ASSUME NEW i \in (e + 1)..(e + 1 + len - 1) PROVE CellAt(l, i) = Data(x.tag)
    <3>1. i - e \in 1..len /\ e + (i - e) = i
      BY <1>5
    <3> QED
      BY <1>10, <3>1
  <2>4. Data(x.tag).len = Data(0).len /\ Data(x.tag).val = x.tag
    BY DEF Data
  <2> QED
    BY <2>2, <2>3, <2>4 DEF PayloadAt
<1>12. ASSUME NEW f \in lg PROVE f.id \in Nat /\ f.tag \in Nat
  BY DEF Stored, EntryOK
<1>13. ASSUME NEW f \in lg, f.id > e PROVE ~(f.id < e + 1 + len)
  <2>1. SUFFICES ASSUME f.id < e + 1 + len PROVE FALSE
    OBVIOUS
  <2>2. PICK i \in 1..len : f.id = e + i
    <3>1. f.id - e \in 1..len /\ f.id = e + (f.id - e)
      BY <1>12, <1>13, <2>1, <1>5
    <3> QED
      BY <3>1
  <2>3. o + i \in Offsets /\ page[o + i] = Data(x.tag)
    BY <1>10
  <2>4. f.id = Base(j) + (o + i)
    BY <1>1, <2>2 DEF Offsets
  <2>5. page[o + i] = [len |-> f.len, val |-> f.tag] /\ f.len \in Nat
    BY <1>7, <2>3, <2>4
  <2>6. Data(x.tag).len = -2
    BY DEF Data
  <2>7. page[o + i].len = -2 /\ page[o + i].len = f.len
    BY <2>3, <2>5, <2>6
  <2> QED
    BY <2>5, <2>7
<1>14. ASSUME NEW f \in lg, f.id = e PROVE f.tag = x.tag
  <2>1. page[o] = [len |-> f.len, val |-> f.tag]
    BY <1>1, <1>7, <1>14
  <2> QED
    BY <1>8, <2>1
<1>15. ASSUME NEW f \in lg
       PROVE  (f.id < e + 1 + len <=> f.tag <= x.tag) /\ (f.id >= e => f.tag >= x.tag)
  <2>1. f.id \in Nat /\ f.tag \in Nat /\ x.tag \in Nat
    BY <1>12
  <2>2. CASE f.id < e
    <3>1. f.tag < x.tag
      BY <1>2, <1>6, <2>2 DEF Ordered
    <3> QED
      BY <1>5, <2>1, <2>2, <3>1
  <2>3. CASE f.id = e
    BY <1>5, <1>14, <2>1, <2>3
  <2>4. CASE f.id > e
    <3>1. x.tag < f.tag
      BY <1>2, <1>6, <2>4 DEF Ordered
    <3> QED
      BY <1>5, <1>13, <2>1, <2>4, <3>1
  <2> QED
    BY <2>1, <2>2, <2>3, <2>4
<1> QED
  BY <1>5, <1>6, <1>11, <1>15

(* advance_read_pointer_then_deliver reads the entry after those passed     *)
LEMMA AdvanceForward ==
  ASSUME NEW l \in Rams, Quiet(l), NEW g \in Garbage, NEW fl \in Flashes, Formed(l, fl), Settled(l, fl),
         l.pbPage = Last(l) % NumPages, NEW lg, Stored(l, fl, lg), Linear(l, fl, lg),
         NEW lr \in Nat, Split(lg, l.rd, lr), l.state = "Reading"
  PROVE  LET m == advance_read_pointer_then_deliver(l, g) IN
         /\ m.state = "Reading" /\ SameStore(m, l) /\ Split(lg, m.rd, Passed(m, lr))
         /\ m.deferred => Found(m, lg, lr)
<1>1. PICK m : m = advance_read_pointer_then_deliver(l, g)
  OBVIOUS
<1>2. SameStore(m, l) /\ m.state = "Reading"
  BY <1>1, AdvanceOutcome DEF SameButCache, SameTask
<1>3. PICK e \in Nat :
         LET n   == [l EXCEPT !.rd = e]
             len == LenAt(n, e, g)
         IN /\ Stop(l, g, e) /\ n \in Rams
            /\ \/ e >= l.app /\ Answers(m, n) /\ m.err = "END" /\ m.rd = e
               \/ e < l.app /\ Fails(m, n)
               \/ /\ e < l.app /\ ~Cached(n, e) /\ m.rd = e
                  /\ Fetches(m, n, logical_page_of_pos(e))
               \/ /\ e < l.app /\ Cached(n, e) /\ e % PageSize > 0 /\ len # PAD.len
                  /\ Delivers(m, n, len) \/ Refetches(m, n, len)
  BY <1>1, AdvanceOutcome
<1>4. PICK n : n = [l EXCEPT !.rd = e]
  OBVIOUS
<1>5. /\ n.rd = e /\ \A x : CellAt(n, x) = CellAt(l, x)
      /\ \A x : (Cached(n, x) <=> Cached(l, x)) /\ LenAt(n, x, g) = LenAt(l, x, g)
  BY <1>4, MovedFields
<1>6. PICK len : len = LenAt(l, e, g)
  OBVIOUS
<1>7. /\ Stop(l, g, e)
      /\ \/ e >= l.app /\ m.err = "END" /\ m.rd = e
         \/ Fails(m, n)
         \/ m.rd = e /\ ~m.deferred
         \/ e < l.app /\ Cached(l, e) /\ e % PageSize > 0 /\ Delivers(m, n, len)
         \/ Refetches(m, n, len)
  BY <1>3, <1>4, <1>5, <1>6 DEF Fetches
<1>8. Last(l) < NumPages
  BY DEF Linear
<1>9. e >= l.rd
  BY <1>7 DEF Stop, Places, Rams
<1>10. Split(lg, e, lr)
  <2>1. ASSUME NEW x \in lg PROVE x.id < e <=> x.id < l.rd
    <3>1. x.id \in Nat /\ l.rd \in Nat
      BY DEF Stored, EntryOK, Rams
    <3>2. l.rd <= x.id => e <= x.id
      BY <1>7, <1>8, NoneSkipped
    <3> QED
      BY <1>9, <3>1, <3>2
  <2> QED
    BY <2>1 DEF Split
<1>11. AtEntry(l, fl, e)
  BY <1>7, StopBefore DEF Settled
<1>12. ASSUME m.rd = e, m.err = "END" \/ ~m.deferred \/ m.err \notin {"Ok", "END"},
              m.err = "END" => e >= l.app
       PROVE  Split(lg, m.rd, Passed(m, lr)) /\ (m.deferred => Found(m, lg, lr))
  <2>1. Passed(m, lr) = lr
    BY <1>2, <1>12 DEF Passed
  <2>2. ASSUME e >= l.app, NEW x \in lg PROVE x.tag <= lr
    <3>1. x.id \in Nat /\ x.len \in Nat /\ x.id + x.len < l.app /\ l.app \in Nat
      BY DEF Stored, EntryOK, Rams
    <3>2. x.id < e
      BY <2>2, <3>1
    <3> QED
      BY <1>10, <3>2 DEF Split
  <2> QED
    BY <1>10, <1>12, <2>1, <2>2 DEF Found
<1>13. CASE e >= l.app /\ m.err = "END" /\ m.rd = e
  BY <1>1, <1>2, <1>12, <1>13
<1>14. CASE Fails(m, n) \/ Refetches(m, n, len) \/ (m.rd = e /\ ~m.deferred)
  <2>1. m.rd = e /\ (~m.deferred \/ m.err \notin {"Ok", "END"})
    BY <1>5, <1>14 DEF Fails, Refetches, Fetches
  <2>2. CASE m.err = "END" /\ ~m.deferred
    <3>1. Passed(m, lr) = lr
      BY <1>2, <2>2 DEF Passed
    <3> QED
      BY <1>1, <1>2, <1>10, <2>1, <2>2, <3>1
  <2>3. CASE m.err # "END"
    BY <1>1, <1>2, <1>12, <2>1, <2>3
  <2> QED
    BY <2>1, <2>2, <2>3
<1>15. CASE e < l.app /\ Cached(l, e) /\ e % PageSize > 0 /\ Delivers(m, n, len)
  <2>1. /\ m.deferred /\ m.err = "Ok" /\ len \in 1..MaxEntry /\ m.rd = e + 1 + len
        /\ m.got = PayloadAt(n, e + 1, len)
    BY <1>5, <1>15 DEF Delivers, Answers
  <2>2. PICK x \in lg :
           /\ x.id = e /\ PayloadAt(l, e + 1, len) = x.tag
           /\ \A f \in lg : f.id < e + 1 + len <=> f.tag <= x.tag
           /\ \A f \in lg : f.id >= e => f.tag >= x.tag
    BY <1>6, <1>11, <1>15, <2>1, EntryDelivered
  <2>3. m.got = x.tag
    <3>1. PayloadAt(n, e + 1, len) = PayloadAt(l, e + 1, len)
      BY <1>5 DEF PayloadAt
    <3> QED
      BY <2>1, <2>2, <3>1
  <2>4. Passed(m, lr) = x.tag
    BY <1>2, <2>1, <2>3 DEF Passed
  <2>5. Split(lg, m.rd, x.tag)
    BY <2>1, <2>2 DEF Split
  <2>6. \A f \in lg : f.id \in Nat /\ f.tag \in Nat
    BY DEF Stored, EntryOK
  <2>7. x.tag > lr /\ \A f \in lg : f.tag > lr => f.tag >= x.tag
    <3>1. ASSUME NEW f \in lg PROVE f.tag > lr <=> f.id >= e
      BY <1>10, <2>6, <3>1 DEF Split
    <3> QED
      BY <2>2, <3>1
  <2>8. Found(m, lg, lr)
    BY <2>1, <2>2, <2>3, <2>7 DEF Found
  <2> QED
    BY <1>1, <1>2, <2>4, <2>5, <2>8
<1> QED
  BY <1>7, <1>13, <1>14, <1>15

LEMMA SameLinear ==
  ASSUME NEW m, NEW l, NEW fl, NEW lg, SameStore(m, l), Linear(l, fl, lg)
  PROVE  Linear(m, fl, lg)
<1>1. Last(m) = Last(l) /\ m.oldest = l.oldest /\ m.pbuf = l.pbuf
  BY DEF SameStore, Last
<1>2. \A j : PageAt(m, fl, j) = PageAt(l, fl, j)
  BY <1>1 DEF PageAt
<1> QED
  BY <1>1, <1>2 DEF Linear, Listed

(* The page buffer changes where there is no entry, or there is a new one   *)
LEMMA GrownListed ==
  ASSUME NEW m, NEW l, NEW fl, NEW lg, NEW lh, Last(m) = Last(l), Listed(l, fl, lg), lg \subseteq lh,
         \A o \in Offsets : o > 0 /\ m.pbuf[o].len >= 1 =>
           m.pbuf[o] = l.pbuf[o] \/ \E e \in lh : e.id = Base(Last(l)) + o
  PROVE  Listed(m, fl, lh)
<1>1. SUFFICES ASSUME NEW j \in 0..Last(l), NEW o \in Offsets, o > 0, PageAt(m, fl, j)[o].len >= 1
               PROVE  \E e \in lh : e.id = Base(j) + o
  BY DEF Listed
<1>2. CASE PageAt(m, fl, j)[o] = PageAt(l, fl, j)[o]
  BY <1>1, <1>2 DEF Listed
<1>3. CASE PageAt(m, fl, j)[o] # PageAt(l, fl, j)[o]
  <2>1. j = Last(l) /\ PageAt(m, fl, j) = m.pbuf /\ m.pbuf[o] # l.pbuf[o]
    BY <1>3 DEF PageAt
  <2> QED
    BY <1>1, <2>1
<1> QED
  BY <1>2, <1>3

LEMMA AppendLinear ==
  ASSUME NEW l \in Rams, NEW fl, Formed(l, fl), NEW lg, Stored(l, fl, lg), Linear(l, fl, lg),
         l.req.op = "append", Used(l) + 1 + l.req.len <= PageSize, \A e \in lg : e.tag < l.req.tag
  PROVE  /\ Linear(append_to_pagebuffer(l), fl, lg \cup {NewEntry(l)})
         /\ \A pos \in Nat, t \in Nat : Split(lg, pos, t) /\ pos <= l.app /\ t < l.req.tag =>
              Split(lg \cup {NewEntry(l)}, pos, t)
<1>1. PICK m : m = append_to_pagebuffer(l)
  OBVIOUS
<1>2. PICK x : x = NewEntry(l)
  OBVIOUS
<1>3. /\ m \in Rams /\ m.oldest = l.oldest
      /\ m.pbuf = WithEntry(l.pbuf, l.app % PageSize, l.req)
      /\ m.app = l.app + 1 + l.req.len
  BY <1>1, AppendFields
<1>4. PICK y \in Nat : y = l.req.len /\ y > 0 /\ l.req.tag > 0 /\ l.req.tag \in Nat
  <2>1. l.req \in AllRequests
    BY DEF Rams
  <2> QED
    BY <2>1, AppendRequest
<1>5. PICK k \in Nat, n \in 1..PageSize : /\ k = Last(l) /\ n = Used(l) /\ l.app = Base(k) + n
                                          /\ l.app % PageSize = IF n = PageSize THEN 0 ELSE n
                                          /\ Base(k) \in Nat
  BY AppAt, BaseNext DEF Formed
<1>6. n + 1 + y <= PageSize /\ l.app % PageSize = n /\ l.app \in Nat
  BY <1>4, <1>5, Sizes DEF Rams
<1>7. n + 1 + y \in 1..PageSize /\ m.app = Base(k) + (n + 1 + y)
  BY <1>3, <1>4, <1>5, <1>6, Sizes
<1>8. Last(m) = k
  BY <1>7, AppIs
<1>9. x.id = l.app /\ x.tag = l.req.tag
  BY <1>2 DEF NewEntry
<1>10. WellFormed(l.pbuf, n) /\ l.pbuf \in Sheets
  BY <1>5 DEF Formed, Rams
<1>11. ASSUME NEW o \in Offsets, o > 0, m.pbuf[o].len >= 1
       PROVE  m.pbuf[o] = l.pbuf[o] \/ \E e \in lg \cup {x} : e.id = Base(Last(l)) + o
  <2>1. m.pbuf[o] = IF o = n THEN [len |-> l.req.len, val |-> l.req.tag]
                    ELSE IF o \in (n + 1)..(n + l.req.len) THEN Data(l.req.tag)
                    ELSE l.pbuf[o]
    BY <1>3, <1>6 DEF WithEntry
  <2>2. CASE o = n
    BY <1>5, <1>9, <2>2
  <2>3. CASE o # n /\ o \in (n + 1)..(n + l.req.len)
    <3>1. m.pbuf[o].len = -2
      BY <2>1, <2>3 DEF Data
    <3> QED
      BY <1>11, <3>1
  <2>4. CASE o # n /\ ~(o \in (n + 1)..(n + l.req.len))
    BY <2>1, <2>4
  <2> QED
    BY <2>2, <2>3, <2>4
<1>12. Listed(m, fl, lg \cup {x})
  <2>1. Listed(l, fl, lg) /\ lg \subseteq lg \cup {x} /\ Last(m) = Last(l)
    BY <1>5, <1>8 DEF Linear
  <2> QED
    BY <1>11, <2>1, GrownListed
<1>13. ASSUME NEW e \in lg PROVE e.id \in Nat /\ e.id < l.app /\ e.tag \in Nat
  <2>1. e.id \in Nat /\ e.len \in Nat /\ e.id + e.len < l.app /\ e.tag \in Nat
    BY DEF Stored, EntryOK
  <2> QED
    BY <1>6, <2>1
<1>14. Ordered(lg \cup {x})
  <2>1. SUFFICES ASSUME NEW e \in lg \cup {x}, NEW f \in lg \cup {x}, e.id < f.id PROVE e.tag < f.tag
    BY DEF Ordered
  <2>2. CASE e \in lg /\ f \in lg
    BY <2>1, <2>2 DEF Linear, Ordered
  <2>3. CASE e \in lg /\ f = x
    BY <1>9, <2>3
  <2>4. CASE e = x /\ f \in lg
    BY <1>6, <1>9, <1>13, <2>1, <2>4
  <2>5. CASE e = x /\ f = x
    BY <1>6, <1>9, <2>1, <2>5
  <2> QED
    BY <2>2, <2>3, <2>4, <2>5
<1>15. Linear(m, fl, lg \cup {x})
  BY <1>3, <1>5, <1>8, <1>12, <1>14 DEF Linear
<1>16. ASSUME NEW pos \in Nat, NEW t \in Nat, Split(lg, pos, t), pos <= l.app, t < l.req.tag
       PROVE  Split(lg \cup {x}, pos, t)
  <2>1. ~(x.id < pos) /\ ~(x.tag <= t)
    BY <1>4, <1>6, <1>9, <1>16
  <2> QED
    BY <1>16, <2>1 DEF Split
<1> QED
  BY <1>1, <1>2, <1>15, <1>16

LEMMA FlushLinear ==
  ASSUME NEW l \in Rams, NEW fl, NEW lg, NEW sf, NEW er, Good(l, fl, lg, sf, er),
         \A e \in lg : EntryOK(e), Linear(l, fl, lg), ~l.deferred
  PROVE  LET m == flush_pagebuffer(l) IN
         Linear(m, fl, lg) /\ m.rd = l.rd /\ BecomeLog(m, lg) = lg
<1>1. PICK m : m = flush_pagebuffer(l)
  OBVIOUS
<1>2. /\ m \in Rams /\ m.app = l.app /\ m.deferred = l.deferred
      /\ m.pbuf = IF RoundUp(l.app) = l.app THEN l.pbuf ELSE PaddedFrom(l.pbuf, l.app % PageSize)
      /\ m.oldest = IF Overwrites(l, l.oldest) THEN l.oldest + PageSize ELSE l.oldest
      /\ RoundUp(l.app) <= Volume => m.rd = l.rd
  BY <1>1, FlushFields
<1>3. /\ Last(l) \in Nat /\ RoundUp(l.app) = Base(Last(l)) + PageSize /\ First(l) \in Nat
      /\ Base(Last(l)) \in Nat
  BY GoodPosition
<1>4. Last(l) < NumPages /\ l.oldest = 1 /\ Listed(l, fl, lg) /\ Ordered(lg)
  BY DEF Linear
<1>5. /\ RoundUp(l.app) \div PageSize = Last(l) + 1
      /\ RoundUp(l.app) > Volume <=> Last(l) >= NumPages
      /\ Overwrites(l, l.oldest) <=> First(l) = Last(l) - NumPages
  BY FlushPages
<1>6. ~Overwrites(l, l.oldest) /\ RoundUp(l.app) <= Volume
  <2>1. ~(RoundUp(l.app) > Volume) /\ First(l) # Last(l) - NumPages
    BY <1>3, <1>4, <1>5, Sizes
  <2> QED
    BY <1>3, <1>5, <2>1, VolumeType, Sizes
<1>7. m.rd = l.rd /\ m.oldest = l.oldest /\ Last(m) = Last(l)
  BY <1>2, <1>6 DEF Last
<1>8. ASSUME NEW o \in Offsets, o > 0, m.pbuf[o].len >= 1
      PROVE  m.pbuf[o] = l.pbuf[o] \/ \E e \in lg : e.id = Base(Last(l)) + o
  <2>1. m.pbuf[o] = PAD \/ m.pbuf[o] = l.pbuf[o]
    BY <1>2 DEF PaddedFrom
  <2>2. PAD.len = -1
    BY DataLen
  <2> QED
    BY <1>8, <2>1, <2>2
<1>9. Listed(m, fl, lg)
  BY <1>4, <1>7, <1>8, GrownListed
<1>10. Linear(m, fl, lg)
  BY <1>4, <1>7, <1>9 DEF Linear
<1>11. (RoundUp(m.app) \div PageSize) - 1 - NumPages = Last(l) - NumPages
  BY <1>2, <1>3, <1>5, Sizes
<1>12. ASSUME NEW e \in lg PROVE PageNo(e) # Last(l) - NumPages
  <2>1. PageNo(e) \in Nat
    BY EntryAt
  <2> QED
    BY <1>3, <1>4, <2>1, Sizes
<1>13. BecomeLog(m, lg) = lg
  BY <1>2, <1>11, <1>12 DEF BecomeLog
<1> QED
  BY <1>1, <1>7, <1>10, <1>13

(* A record that keeps the store and the read cursor, when nothing is read
   or sought                                                                *)
LEMMA SameForward ==
  ASSUME NEW m, NEW l, NEW fl, NEW lg, NEW lr, SameStore(m, l), m.rd = l.rd, Linear(l, fl, lg),
         Split(lg, l.rd, lr), m.state \notin {"Reading", "Seeking"}
  PROVE  Forward(m, fl, lg, lr)
<1>1. Passed(m, lr) = lr
  BY DEF Passed
<1> QED
  BY <1>1, SameLinear DEF Forward

LEMMA AdvanceIO ==
  ASSUME NEW l \in Rams, Quiet(l), NEW g \in Garbage
  PROVE  advance_read_pointer_then_deliver(l, g).io.op \in {"none", "read"}
<1>1. PICK m : m = advance_read_pointer_then_deliver(l, g)
  OBVIOUS
<1>2. \E n, p, len : Answers(m, n) \/ Fails(m, n) \/ Fetches(m, n, p)
                     \/ Delivers(m, n, len) \/ Refetches(m, n, len)
  BY <1>1, AdvanceOutcome
<1>3. NoIO.op = "none"
  BY IOFields
<1> QED
  BY <1>1, <1>2, <1>3 DEF Answers, Fails, Delivers, Refetches, Fetches

LEMMA SeekOk ==
  ASSUME NEW l \in Rams, NEW o \in AllRequests, o.op = "seek", NEW g
  PROVE  start(l, o, g).err = "Ok"
<1>1. PICK t : t = [[l EXCEPT !.req = o] EXCEPT !.rd = o.at, !.state = "Seeking"]
  OBVIOUS
<1>2. "Ok" \in Errs /\ 0 \in Nat /\ o.at \in Nat /\ "Seeking" \in States
  BY RequestFields, StateNames DEF Errs
<1>3. t \in Rams
  BY <1>1, <1>2 DEF Rams
<1>4. start(l, o, g) = Finish(t, "Ok", 0)
  <2>1. PICK k : k = [l EXCEPT !.req = o]
    OBVIOUS
  <2>2. k.req = o
    BY <2>1 DEF Rams
  <2>3. start(l, o, g) = start_seek(k)
    BY <2>1 DEF start
  <2> QED
    BY <1>1, <2>1, <2>2, <2>3 DEF start_seek
<1> QED
  BY <1>2, <1>3, <1>4, FinishFields

LEMMA FinishForward ==
  ASSUME NEW l \in Rams, NEW fl, NEW lg, NEW lr, Linear(l, fl, lg), Split(lg, l.rd, lr), l.io = NoIO,
         l.state \in {"Syncing", "Erasing"}
  PROVE  LET m == Finish(l, "Ok", 0) IN Forward(m, fl, BecomeLog(m, lg), lr)
<1>1. PICK m : m = Finish(l, "Ok", 0)
  OBVIOUS
<1>2. "Ok" \in Errs /\ 0 \in Nat /\ NoIO.op = "none"
  BY IOFields DEF Errs
<1>3. SameStore(m, l) /\ m.rd = l.rd /\ m.io = NoIO /\ m.state = l.state
  BY <1>1, <1>2, FinishFields DEF SameTask
<1>4. BecomeLog(m, lg) = lg
  BY <1>2, <1>3, BecomeSame
<1> QED
  BY <1>1, <1>3, <1>4, SameForward

LEMMA FlushForward ==
  ASSUME NEW l \in Rams, NEW fl, NEW lg, NEW sf, NEW er, NEW lr, Good(l, fl, lg, sf, er),
         \A e \in lg : EntryOK(e), Linear(l, fl, lg), Split(lg, l.rd, lr), ~l.deferred,
         l.state \in {"Appending", "Syncing"}
  PROVE  LET m == flush_pagebuffer(l) IN Forward(m, fl, BecomeLog(m, lg), lr)
<1>1. PICK m : m = flush_pagebuffer(l)
  OBVIOUS
<1>2. m.state = l.state
  BY <1>1, FlushFields DEF SameTask
<1>3. Linear(m, fl, lg) /\ m.rd = l.rd /\ BecomeLog(m, lg) = lg
  BY <1>1, FlushLinear
<1>4. SameStore(m, m)
  BY DEF SameStore
<1> QED
  BY <1>1, <1>2, <1>3, <1>4, SameForward

LEMMA AppendForward ==
  ASSUME NEW l \in Rams, NEW fl, NEW lg, NEW lr \in Nat, Formed(l, fl), Stored(l, fl, lg), Linear(l, fl, lg),
         l.rd <= l.app, Split(lg, l.rd, lr), l.io = NoIO, l.state = "Appending", l.req.op = "append",
         Used(l) + 1 + l.req.len <= PageSize, lr < l.req.tag, \A e \in lg : e.tag < l.req.tag
  PROVE  LET m == append_to_pagebuffer(l) IN Forward(m, fl, BecomeLog(m, lg), lr)
<1>1. PICK m : m = append_to_pagebuffer(l)
  OBVIOUS
<1>2. PICK lh : lh = lg \cup {NewEntry(l)}
  OBVIOUS
<1>3. /\ m \in Rams /\ m.deferred /\ m.io = NoIO /\ m.rd = l.rd /\ m.req = l.req /\ m.state = "Appending"
      /\ m.app = l.app + 1 + l.req.len
  BY <1>1, AppendFields DEF SameTask
<1>4. l.rd \in Nat /\ l.app \in Nat
  BY DEF Rams
<1>5. Linear(m, fl, lh) /\ Split(lh, l.rd, lr)
  BY <1>1, <1>2, <1>4, AppendLinear
<1>6. BecomeLog(m, lg) = lh
  <2>1. l.req.len \in Nat
    <3>1. l.req \in AllRequests
      BY DEF Rams
    <3> QED
      BY <3>1, AppendRequest
  <2>2. m.app - m.req.len - 1 = l.app
    BY <1>3, <1>4, <2>1
  <2>3. NoIO.op # "write"
    BY IOFields
  <2> QED
    BY <1>2, <1>3, <2>2, <2>3 DEF BecomeLog, NewEntry, ENTRY_HEADER_SIZE
<1>7. SameStore(m, m)
  BY DEF SameStore
<1>8. Forward(m, fl, lh, lr)
  BY <1>3, <1>5, <1>7, SameForward
<1> QED
  BY <1>1, <1>6, <1>8

(* A request that is started keeps the reader's place                       *)
LEMMA StartForward ==
  ASSUME NEW l \in Rams, Quiet(l), NEW o \in AllRequests, o # NoOp, NEW g \in Garbage, NEW fl \in Flashes,
         NEW lg, NEW sf, NEW er, Good(l, fl, lg, sf, er), FlashForm(fl, er), \A e \in lg : EntryOK(e),
         Cache(l, fl), ~Refuses(l, o), Linear(l, fl, lg), NEW lr \in Nat, Split(lg, l.rd, lr),
         o.op = "append" => lr < o.tag /\ \A e \in lg : e.tag < o.tag,
         o.op = "seek" => Split(lg, o.at, o.before)
  PROVE  LET m == start(l, o, g) IN
         ~Emptying(m) => Forward(m, fl, BecomeLog(m, lg), lr)
<1>1. o.op \in {"read", "append", "seek", "sync", "erase"}
  BY RequestFields
<1>2. PICK m : m = start(l, o, g)
  OBVIOUS
<1>3. l.io = NoIO /\ NoIO.op = "none" /\ ~l.deferred
  BY IOFields DEF Quiet
<1>4. Formed(l, fl) /\ Settled(l, fl) /\ l.pbPage = Last(l) % NumPages
  BY <1>3, GoodFormed DEF Cache
<1>5. ASSUME NEW s \in States
      PROVE  LET t == Task(l, o, s) IN
             /\ t \in Rams /\ t.state = s /\ t.req = o /\ Quiet(t) /\ t.io = NoIO /\ ~t.deferred
             /\ Formed(t, fl) /\ Settled(t, fl) /\ t.pbPage = Last(t) % NumPages
             /\ Good(t, fl, lg, sf, er) /\ Used(t) = Used(l) /\ t.app = l.app
             /\ Linear(t, fl, lg) /\ Stored(t, fl, lg) /\ t.rd = l.rd
  <2>1. PICK t : t = Task(l, o, s)
    OBVIOUS
  <2>2. /\ t \in Rams /\ t.req = o /\ t.state = s /\ SameStore(t, l) /\ SameCache(t, l)
        /\ t.rd = l.rd /\ t.pbPage = l.pbPage /\ t.io = l.io /\ t.deferred = l.deferred
    BY <1>5, <2>1, TaskFields
  <2>3. Good(t, fl, lg, sf, er) /\ Last(t) = Last(l) /\ Linear(t, fl, lg)
    BY <2>2, SameGood, SameEntry, SameLinear
  <2>4. Formed(t, fl)
    BY <2>3, GoodFormed
  <2>5. Settled(t, fl)
    BY <1>4, <2>2, SameSettled DEF SameCache
  <2>6. Quiet(t) /\ t.io = NoIO /\ ~t.deferred
    BY <1>3, <2>2 DEF Quiet
  <2>7. Used(t) = Used(l) /\ t.app = l.app
    BY <2>2, <2>3 DEF Used, SameStore
  <2>8. Stored(t, fl, lg)
    <3>1. Last(t) < NumPages
      BY <2>3 DEF Linear
    <3> QED
      BY <2>2, <2>3, <3>1, GoodStored
  <2> QED
    BY <1>4, <2>1, <2>2, <2>3, <2>4, <2>5, <2>6, <2>7, <2>8
<1>6. CASE o.op = "read"
  <2>1. "Reading" \in States
    BY StateNames
  <2>2. PICK t : t = Task(l, o, "Reading")
    OBVIOUS
  <2>3. /\ t \in Rams /\ Quiet(t) /\ Formed(t, fl) /\ Settled(t, fl) /\ t.pbPage = Last(t) % NumPages
        /\ t.state = "Reading" /\ Linear(t, fl, lg) /\ Stored(t, fl, lg) /\ t.rd = l.rd
    BY <1>5, <2>1, <2>2
  <2>4. m = advance_read_pointer_then_deliver(t, g)
    BY <1>2, <1>6, <2>2, StartRead
  <2>5. /\ m.state = "Reading" /\ SameStore(m, t) /\ Split(lg, m.rd, Passed(m, lr))
        /\ m.deferred => Found(m, lg, lr)
    BY <2>3, <2>4, AdvanceForward
  <2>6. Forward(m, fl, lg, lr)
    BY <2>3, <2>5, SameLinear DEF Forward
  <2>7. m.io.op # "write"
    BY <2>3, <2>4, AdvanceIO
  <2>8. BecomeLog(m, lg) = lg
    BY <2>5, <2>7, BecomeSame
  <2> QED
    BY <1>2, <2>6, <2>8
<1>7. CASE o.op = "seek"
  <2>1. /\ m.io = l.io /\ SameStore(m, l) /\ m.rd = o.at /\ m.state = "Seeking" /\ m.req = o
    BY <1>2, <1>7, StartSeek
  <2>2. BecomeLog(m, lg) = lg
    BY <1>3, <2>1, BecomeSame
  <2>3. Passed(m, lr) = o.before /\ m.err = "Ok"
    BY <1>2, <1>7, <2>1, SeekOk DEF Passed
  <2>4. Forward(m, fl, lg, lr)
    BY <1>7, <2>1, <2>3, SameLinear DEF Forward
  <2> QED
    BY <1>2, <2>2, <2>4
<1>8. CASE o.op = "append" /\ Fits(l, o)
  <2>1. "Appending" \in States
    BY StateNames
  <2>2. PICK t : t = Task(l, o, "Appending")
    OBVIOUS
  <2>3. /\ t \in Rams /\ t.req = o /\ t.io = NoIO /\ Formed(t, fl) /\ t.state = "Appending"
        /\ Used(t) = Used(l) /\ t.app = l.app /\ Linear(t, fl, lg) /\ Stored(t, fl, lg) /\ t.rd = l.rd
        /\ t.rd <= t.app
    BY <1>5, <2>1, <2>2 DEF Settled, AtEntry, Linear
  <2>4. m = append_to_pagebuffer(t)
    BY <1>2, <1>8, <2>2, StartAppend
  <2>5. Used(l) + 1 + o.len <= PageSize
    BY <1>8, NotFitting
  <2>6. t.req.op = "append" /\ Used(t) + 1 + t.req.len <= PageSize
    BY <1>8, <2>3, <2>5
  <2>7. Forward(m, fl, BecomeLog(m, lg), lr)
    BY <1>8, <2>3, <2>4, <2>6, AppendForward
  <2> QED
    BY <1>2, <2>7
<1>9. CASE o.op = "append" /\ ~Fits(l, o)
  <2>1. PICK f \in Rams :
              /\ m = flush_pagebuffer(f)
              /\ SameStore(f, l) /\ f.rd = l.rd /\ f.state = "Appending" /\ f.deferred = l.deferred
    BY <1>2, <1>9, StartAppend
  <2>2. Good(f, fl, lg, sf, er) /\ Linear(f, fl, lg) /\ ~f.deferred
    BY <1>3, <2>1, SameGood, SameLinear
  <2>3. Forward(m, fl, BecomeLog(m, lg), lr)
    BY <2>1, <2>2, FlushForward
  <2> QED
    BY <1>2, <2>3
<1>10. CASE o.op = "sync"
  <2>1. "Syncing" \in States
    BY StateNames
  <2>2. PICK t : t = Task(l, o, "Syncing")
    OBVIOUS
  <2>3. /\ t \in Rams /\ t.io = NoIO /\ ~t.deferred /\ t.state = "Syncing" /\ t.rd = l.rd
        /\ Good(t, fl, lg, sf, er) /\ Linear(t, fl, lg)
    BY <1>5, <2>1, <2>2
  <2>4. CASE m = Finish(t, "Ok", 0)
    BY <1>2, <2>3, <2>4, FinishForward
  <2>5. CASE m = flush_pagebuffer(t)
    BY <1>2, <2>3, <2>5, FlushForward
  <2> QED
    BY <1>2, <1>10, <2>2, <2>4, <2>5, StartSync
<1>11. CASE o.op = "erase"
  <2>1. "Erasing" \in States
    BY StateNames
  <2>2. PICK t : t = Task(l, o, "Erasing")
    OBVIOUS
  <2>3. /\ t \in Rams /\ t.io = NoIO /\ ~t.deferred /\ t.state = "Erasing" /\ t.rd = l.rd
        /\ Linear(t, fl, lg)
    BY <1>5, <2>1, <2>2
  <2>4. CASE m = Finish(t, "Ok", 0)
    BY <1>2, <2>3, <2>4, FinishForward
  <2>5. CASE m = erase_oldest_page(t)
    <3>1. ~m.deferred /\ m.state = "Erasing"
      BY <2>3, <2>5, EraseFields DEF SameTask
    <3> QED
      BY <1>2, <3>1 DEF Emptying
  <2> QED
    BY <1>2, <1>11, <2>2, <2>4, <2>5, StartErase
<1> QED
  BY <1>1, <1>6, <1>7, <1>8, <1>9, <1>10, <1>11

(* A log without entries                                                    *)
LEMMA EmptyLinear ==
  ASSUME NEW l, NEW fl, l.oldest = 1, l.app = 1, l.pbuf = Fresh(1)
  PROVE  Linear(l, fl, {}) /\ \A pos, t : Split({}, pos, t)
<1>1. Last(l) = 0
  <2>1. 0 \in Nat /\ 1 \in 1..PageSize /\ Base(0) = 0
    BY Sizes, BaseFacts
  <2> QED
    BY <2>1, AppIs
<1>2. ASSUME NEW o \in Offsets, o > 0 PROVE ~(l.pbuf[o].len >= 1)
  <2>1. l.pbuf[o] = ZERO
    BY <1>2 DEF Fresh
  <2> QED
    BY <2>1, DataLen
<1>3. Listed(l, fl, {})
  <2>1. \A j \in 0..Last(l) : PageAt(l, fl, j) = l.pbuf
    BY <1>1 DEF PageAt
  <2> QED
    BY <1>2, <2>1 DEF Listed
<1> QED
  BY <1>1, <1>3, Sizes DEF Linear, Ordered, Split

(* The page buffer has been written to flash                                *)
LEMMA WrittenLinear ==
  ASSUME NEW l \in Rams, l.app >= 1, NEW fl, NEW fn, NEW lg, Linear(l, fl, lg),
         \A p \in Logicals : p # Last(l) % NumPages => fn[p] = fl[p]
  PROVE  Linear(l, fn, lg)
<1>1. Last(l) < NumPages /\ Last(l) \in Nat
  BY AppAt DEF Linear
<1>2. Last(l) % NumPages = Last(l)
  <2>1. Last(l) \in Logicals
    BY <1>1, Sizes DEF Logicals
  <2> QED
    BY <1>1, <2>1, Modulo
<1>3. ASSUME NEW j \in 0..Last(l) PROVE PageAt(l, fn, j) = PageAt(l, fl, j)
  <2>1. j \in Logicals
    BY <1>1, Sizes DEF Logicals
  <2> QED
    BY <1>2, <2>1 DEF PageAt
<1> QED
  BY <1>3 DEF Linear, Listed

(* The page buffer has started the next page                                *)
LEMMA NextLinear ==
  ASSUME NEW l \in Rams, l.app >= 1, NEW fn, NEW lg, Linear(l, fn, lg), fn[Last(l) % NumPages] = l.pbuf,
         l.app + PageSize <= Volume, NEW r, r.oldest = l.oldest, r.app = RoundUp(l.app) + 1,
         r.pbuf = Fresh(RoundUp(l.app))
  PROVE  Linear(r, fn, lg)
<1>1. PICK k \in Nat, n \in 1..PageSize : /\ k = Last(l) /\ n = Used(l) /\ l.app = Base(k) + n
                                          /\ Base(k) \in Nat /\ RoundUp(l.app) = Base(k) + PageSize
  BY AppAt, BaseNext
<1>2. k + 1 \in Nat /\ Base(k + 1) = Base(k) + PageSize /\ Base(k + 1) \in Nat
  BY BaseNext
<1>3. Last(r) = k + 1
  <2>1. r.app = Base(k + 1) + 1 /\ 1 \in 1..PageSize
    BY <1>1, <1>2, Sizes
  <2> QED
    BY <1>2, <2>1, AppIs
<1>4. k < NumPages /\ Listed(l, fn, lg)
  BY <1>1 DEF Linear
<1>5. k + 1 < NumPages
  <2>1. NumPages \in Nat /\ Base(NumPages) = Volume
    BY <1>1, BaseFacts, Sizes
  <2>2. Base(k + 1) < Base(NumPages)
    BY <1>1, <1>2, <2>1, VolumeType, Sizes
  <2> QED
    BY <1>2, <2>1, <2>2, BaseLeq
<1>6. k % NumPages = k
  <2>1. k \in Logicals
    BY <1>4, Sizes DEF Logicals
  <2> QED
    BY <2>1, Modulo
<1>7. ASSUME NEW j \in 0..(k + 1), NEW o \in Offsets, o > 0, PageAt(r, fn, j)[o].len >= 1
      PROVE  j \in 0..k /\ PageAt(r, fn, j) = PageAt(l, fn, j)
  <2>1. j # k + 1
    <3>1. SUFFICES ASSUME j = k + 1 PROVE FALSE
      OBVIOUS
    <3>2. PageAt(r, fn, j)[o] = ZERO
      BY <1>3, <1>7, <3>1 DEF PageAt, Fresh
    <3> QED
      BY <1>7, <3>2, DataLen
  <2> QED
    BY <1>1, <1>3, <1>6, <2>1 DEF PageAt
<1>8. Listed(r, fn, lg)
  BY <1>1, <1>3, <1>4, <1>7 DEF Listed
<1> QED
  BY <1>3, <1>5, <1>8 DEF Linear

LEMMA HereOutcome ==
  ASSUME NEW m \in Rams
  PROVE  LET k == [m EXCEPT !.rbHere = TRUE] IN k.err = m.err /\ k.got = m.got
  BY DEF Rams

(* Records that agree on what the reader sees                               *)
LEMMA ForwardOf ==
  ASSUME NEW m, NEW l, NEW fl, NEW lg, NEW lr, Forward(l, fl, lg, lr), SameStore(m, l), m.rd = l.rd,
         m.state = l.state, m.deferred = l.deferred, m.err = l.err, m.got = l.got, m.req = l.req
  PROVE  Forward(m, fl, lg, lr)
<1>1. Passed(m, lr) = Passed(l, lr) /\ (Found(l, lg, lr) => Found(m, lg, lr))
  BY DEF Passed, Found
<1> QED
  BY <1>1, SameLinear DEF Forward

(* Entries have positive numbers and IDs                                    *)
LEMMA Positive ==
  ASSUME NEW l \in Rams, NEW fl \in Flashes, Formed(l, fl), NEW lg, Stored(l, fl, lg), Last(l) < NumPages,
         NEW e \in lg
  PROVE  e.id \in Nat /\ e.id > 0 /\ e.tag \in Nat /\ e.tag > 0
<1>1. PICK j \in Nat, o \in Offsets :
         /\ j <= Last(l) /\ o > 0 /\ e.id = Base(j) + o /\ Base(j) \in Nat
         /\ e.id \in Nat /\ e.len \in Nat /\ e.len > 0 /\ e.tag \in Nat
         /\ PageAt(l, fl, j)[o] = [len |-> e.len, val |-> e.tag]
  BY StoredCell
<1>2. e.id > 0
  BY <1>1 DEF Offsets
<1>3. PICK c : c = PageAt(l, fl, j)[o]
  OBVIOUS
<1>4. c \in Cells /\ c.len = e.len /\ c.val = e.tag
  <2>1. PageAt(l, fl, j) \in Sheets
    BY <1>1, PageFormed
  <2> QED
    BY <1>1, <1>3, <2>1 DEF Sheets, Pages
<1>5. c \in [len : Lens, val : 1..MaxEntries]
  <2>1. ~(c \in {PAD, ZERO})
    BY <1>1, <1>4, DataLen
  <2>2. ~(c \in {Data(t) : t \in 1..MaxEntries})
    BY <1>1, <1>4 DEF Data
  <2>3. ~(c \in [len : {Header(0).len}, val : Nat])
    BY <1>1, <1>4 DEF Header
  <2> QED
    BY <1>4, <2>1, <2>2, <2>3 DEF Cells
<1>6. c.val \in 1..MaxEntries
  BY <1>5
<1>7. e.tag > 0
  BY <1>4, <1>6, ClientAssumption
<1> QED
  BY <1>1, <1>2, <1>7

(* The state in which the reader's place is known, and what holds after a
   step of it                                                               *)
KnownPlace == Known /\ ~Circular /\ Reads(ram, owed, flash, log, lastRead, count)
PlaceAfter == Reads(ram', owed', flash', log', lastRead', count')

LEMMA CallReads ==
  ASSUME KnownPlace, NEW o \in Requests, Call(o)
  PROVE  PlaceAfter
<1>1. o \in AllRequests /\ o # NoOp /\ (o.op = "append" => o.tag = count + 1)
  BY RequestTypes DEF Call, KnownPlace, Known
<1>2. /\ ram \in Rams /\ Control(ram, owed) /\ flash \in Flashes /\ flash' = flash /\ lastRead' = lastRead
      /\ owed = NoOp /\ Numbers(ram, owed, log, safe, erased, count)
      /\ count' = IF o.op = "append" /\ owed' = o THEN o.tag ELSE count
  BY DEF KnownPlace, Known, Call, Store
<1>3. lastRead \in Nat /\ lastRead <= count /\ count \in Nat
  BY ClientAssumption DEF KnownPlace, Known, Reads, InvType
<1>4. lastRead <= count' /\ (o.op = "append" /\ owed' = o => lastRead < count')
  BY <1>1, <1>2, <1>3
<1>5. o.op = "seek" => o.before <= count'
  <2>1. o.op = "seek" => o.before = 0 \/ o.before = count
    BY DEF Requests
  <2>2. o.op = "seek" => count' = count
    BY <1>2
  <2> QED
    BY <1>3, <2>1, <2>2
<1>6. NoOp.op = "none"
  BY DEF NoOp
<1>7. CASE ram.state = "NotReady" /\ Become(Begin(ram, o), log) /\ owed' = o
  <2>1. PICK m : m = Begin(ram, o)
    OBVIOUS
  <2>2. m.state = "Reconstructing" /\ m.io = ram.io
    BY <1>1, <1>2, <2>1, BeginFields
  <2>3. ram.io = NoIO /\ NoIO.op = "none"
    BY <1>2, <1>7, IOFields DEF Control, Working
  <2>4. ram' = m /\ log' = BecomeLog(m, log)
    BY <1>7, <2>1, BecomeIs
  <2>5. BecomeLog(m, log) = log
    BY <2>2, <2>3, BecomeSame
  <2>6. lastRead = 0 /\ log = {}
    BY <1>7 DEF KnownPlace, Reads, Rec
  <2> QED
    BY <1>2, <1>3, <1>4, <1>5, <1>7, <2>2, <2>3, <2>4, <2>5, <2>6 DEF PlaceAfter, Reads, Rec
<1>8. ASSUME ram.state = "Idle"
      PROVE  /\ Quiet(ram) /\ Cache(ram, flash) /\ Good(ram, flash, log, safe, erased)
             /\ FlashForm(flash, erased) /\ (\A e \in log : EntryOK(e))
             /\ Linear(ram, flash, log) /\ Split(log, ram.rd, lastRead)
             /\ Settled(ram, flash) /\ Last(ram) < NumPages
             /\ Stored(ram, flash, log) /\ Formed(ram, flash)
  <2>1. Rec(ram) /\ Quiet(ram) /\ ~Emptying(ram)
    BY <1>2, <1>8 DEF Rec, Control, Working, Quiet, Emptying
  <2>2. Forward(ram, flash, log, lastRead) /\ Passed(ram, lastRead) = lastRead
    BY <1>8, <2>1 DEF KnownPlace, Reads, Passed
  <2>3. /\ Cache(ram, flash) /\ Good(ram, flash, log, safe, erased)
        /\ FlashForm(flash, erased) /\ (\A e \in log : EntryOK(e))
    BY <2>1 DEF KnownPlace, Known, Store
  <2>4. Linear(ram, flash, log) /\ Split(log, ram.rd, lastRead) /\ Last(ram) < NumPages
    BY <2>2 DEF Forward, Linear
  <2> QED
    BY <1>2, <2>1, <2>3, <2>4, GoodStored, GoodFormed DEF Cache
<1>9. CASE ram.state = "Idle" /\ Refuses(ram, o) /\ Become(AfterRefusal(ram, o), log) /\ owed' = owed
  <2>1. o.op # "read"
    <3>1. SUFFICES ASSUME o.op = "read" PROVE FALSE
      OBVIOUS
    <3>2. ram.rd > ram.app
      BY <1>9, <3>1 DEF Refuses
    <3>3. ram.rd <= ram.app /\ ram.rd \in Nat /\ ram.app \in Nat
      BY <1>2, <1>8, <1>9 DEF Settled, AtEntry, Rams
    <3> QED
      BY <3>2, <3>3
  <2>2. PICK m : m = AfterRefusal(ram, o)
    OBVIOUS
  <2>3. SameStore(m, ram) /\ m.rd = ram.rd /\ m.state = "Idle" /\ m.io = NoIO /\ NoIO.op = "none"
    BY <1>2, <1>8, <1>9, <2>1, <2>2, RefusalFields, IOFields DEF SameTask, Quiet
  <2>4. ram' = m /\ log' = BecomeLog(m, log)
    BY <1>9, <2>2, BecomeIs
  <2>5. BecomeLog(m, log) = log
    BY <2>3, BecomeSame
  <2>6. Forward(m, flash, log, lastRead)
    BY <1>8, <1>9, <2>3, SameForward
  <2>7. owed'.op = "none" /\ Rec(m)
    BY <1>2, <1>6, <1>9, <2>3 DEF Rec
  <2> QED
    BY <1>2, <1>3, <1>4, <2>3, <2>4, <2>5, <2>6, <2>7 DEF PlaceAfter, Reads
<1>10. ASSUME ram.state = "Idle", ~Refuses(ram, o), NEW g \in Garbage, Become(start(ram, o, g), log), owed' = o
       PROVE  PlaceAfter
  <2>1. \A e \in log : e.tag \in Nat /\ e.tag <= count
    BY <1>2 DEF Numbers
  <2>2. o.op = "append" => lastRead < o.tag /\ \A e \in log : e.tag < o.tag
    BY <1>1, <1>3, <2>1
  <2>3. Split(log, ram.oldest, 0)
    <3>1. ASSUME NEW e \in log PROVE ~(e.id < ram.oldest) /\ ~(e.tag <= 0)
      <4>1. e.id \in Nat /\ e.id > 0 /\ e.tag \in Nat /\ e.tag > 0
        BY <1>2, <1>8, <1>10, Positive
      <4>2. ram.oldest = 1
        BY <1>8, <1>10 DEF Linear
      <4> QED
        BY <4>1, <4>2
    <3> QED
      BY <3>1 DEF Split
  <2>4. Split(log, ram.app, count)
    <3>1. ASSUME NEW e \in log PROVE e.id < ram.app /\ e.tag <= count
      <4>1. e.id \in Nat /\ e.len \in Nat /\ e.id + e.len < ram.app /\ ram.app \in Nat
        BY <1>2, <1>8, <1>10 DEF Stored, EntryOK, Rams
      <4> QED
        BY <2>1, <4>1
    <3> QED
      BY <3>1 DEF Split
  <2>5. o.op = "seek" => (o.at = ram.oldest /\ o.before = 0) \/ (o.at = ram.app /\ o.before = count)
    BY DEF Requests
  <2>6. o.op = "seek" => Split(log, o.at, o.before)
    BY <2>3, <2>4, <2>5
  <2>7. PICK m : m = start(ram, o, g)
    OBVIOUS
  <2>8. ~Emptying(m) => Forward(m, flash, BecomeLog(m, log), lastRead)
    BY <1>1, <1>2, <1>3, <1>8, <1>10, <2>2, <2>6, <2>7, StartForward
  <2>9. ram' = m /\ log' = BecomeLog(m, log)
    BY <1>10, <2>7, BecomeIs
  <2>10. Rec(m)
    <3>1. ~ram.walking
      BY <1>2, <1>10 DEF Control
    <3>2. Served(m, o)
      BY <1>1, <1>2, <1>8, <1>10, <2>7, <3>1, StartServes
    <3> QED
      BY <3>2 DEF Served, Serves, Rec
  <2> QED
    BY <1>2, <1>3, <1>4, <1>5, <1>10, <2>8, <2>9, <2>10 DEF PlaceAfter, Reads
<1> QED
  BY <1>7, <1>9, <1>10 DEF Call, Begin

(* A new log is started and the queued request with it                      *)
LEMMA NewLogReads ==
  ASSUME NEW l \in Rams, Quiet(l), l.req \in AllRequests, l.req # NoOp,
         l.oldest = 1, l.app = 1, l.rd = 1, l.pbuf = Fresh(1), l.pbPage = 0, l.rbPage = NONE,
         NEW fl \in Flashes, Clear(fl), NEW er, FlashForm(fl, er), log = {}, finish_reconstruct(l)
  PROVE  Rec(ram') /\ (~Emptying(ram') => Forward(ram', fl, log', 0))
<1>1. PICK m, r :
              /\ Ready(m, l)
              /\ \/ Refuses(m, m.req) /\ r = AfterRefusal(m, m.req)
                 \/ ~Refuses(m, m.req) /\ \E g \in Garbage : r = start(m, m.req, g)
              /\ Become([r EXCEPT !.rbHere = TRUE],
                        {e \in log : m.oldest <= e.id /\ e.id < m.app})
  BY FinishReconstruct
<1>2. /\ m \in Rams /\ m.req = l.req /\ m.io = NoIO /\ ~m.deferred /\ ~m.walking /\ m.oldest = 1 /\ m.app = 1
      /\ m.pbuf = Fresh(1) /\ m.rd = 1 /\ m.pbPage = 0 /\ m.rbPage = NONE /\ m.state = "Idle"
  BY <1>1 DEF Ready, Quiet, SameStore, SameCache
<1>3. Quiet(m) /\ Cache(m, fl)
  BY <1>2, EmptyCache DEF Quiet
<1>4. Good(m, fl, {}, {}, er) /\ Linear(m, fl, {}) /\ \A pos, t : Split({}, pos, t)
  BY <1>2, EmptyGood, EmptyLinear
<1>5. /\ r \in Rams /\ Rec(r) /\ (~Emptying(r) => Forward(r, fl, BecomeLog(r, {}), 0))
  <2>1. CASE r = AfterRefusal(m, m.req)
    <3>1. r \in Rams /\ SameStore(r, m) /\ r.rd = m.rd /\ r.state = "Idle" /\ r.io = NoIO /\ ~r.deferred
      BY <1>2, <2>1, RefusalFields DEF SameTask
    <3>2. BecomeLog(r, {}) = {}
      BY <3>1, BecomeSame, IOFields
    <3>3. Forward(r, fl, {}, 0)
      BY <1>4, <3>1, SameForward
    <3> QED
      BY <3>1, <3>2, <3>3 DEF Rec
  <2>2. ASSUME ~Refuses(m, m.req), NEW g \in Garbage, r = start(m, m.req, g)
        PROVE  r \in Rams /\ Rec(r) /\ (~Emptying(r) => Forward(r, fl, BecomeLog(r, {}), 0))
    <3>1. Served(r, m.req)
      BY <1>2, <1>3, <2>2, StartServes
    <3>2. r \in Rams /\ Rec(r)
      BY <3>1 DEF Served, Serves, Rec
    <3>3. m.req.op = "append" => 0 < m.req.tag
      <4>1. m.req.op = "append" => m.req.tag \in 1..MaxEntries /\ m.req.tag \in Nat
        BY <1>2, AppendRequest
      <4> QED
        BY <4>1, ClientAssumption
    <3>4. ~Emptying(r) => Forward(r, fl, BecomeLog(r, {}), 0)
      BY <1>2, <1>3, <1>4, <2>2, <3>3, StartForward
    <3> QED
      BY <3>2, <3>4
  <2> QED
    BY <1>1, <2>1, <2>2
<1>6. PICK k : k = [r EXCEPT !.rbHere = TRUE]
  OBVIOUS
<1>7. /\ SameStore(k, r) /\ k.state = r.state /\ k.req = r.req /\ k.app = r.app
      /\ k.rd = r.rd /\ k.io = r.io /\ k.deferred = r.deferred
  BY <1>5, <1>6, HereFields DEF SameTask, SameStore
<1>8. k.err = r.err /\ k.got = r.got
  BY <1>5, <1>6, HereOutcome
<1>9. ram' = k /\ log' = BecomeLog(r, {})
  <2>1. ram' = k /\ log' = BecomeLog(k, {})
    BY <1>1, <1>6, BecomeIs
  <2> QED
    BY <1>7, <2>1, BecomeOf
<1> QED
  BY <1>5, <1>7, <1>8, <1>9, ForwardOf DEF Rec, Emptying

(* fire_client_callback after a deferred call                               *)
LEMMA AnswerReads ==
  ASSUME KnownPlace, handle_deferred_call, ram.state # "Reconstructing"
  PROVE  PlaceAfter
<1>1. /\ ram \in Rams /\ Control(ram, owed) /\ ram.deferred /\ flash' = flash /\ owed \in AllRequests
      /\ Numbers(ram, owed, log, safe, erased, count)
  BY DEF KnownPlace, Known, Store, handle_deferred_call
<1>2. PICK l : l = Taken(ram)
  OBVIOUS
<1>3. /\ l \in Rams /\ SameStore(l, ram) /\ SameTask(l, ram) /\ l.rd = ram.rd /\ l.err = ram.err /\ l.got = ram.got
  BY <1>1, <1>2, TakenFields
<1>4. l.req = owed /\ Working(ram) /\ l.state = ram.state /\ owed # NoOp /\ Serves(ram.state, owed.op)
  BY <1>1, <1>3 DEF Control, SameTask
<1>5. Callback(l, log) /\ Rec(ram) /\ ~Emptying(ram)
  BY <1>1, <1>2, <1>4 DEF handle_deferred_call, Taken, Working, Rec, Emptying
<1>6. Forward(ram, flash, log, lastRead) /\ lastRead \in Nat /\ lastRead <= count /\ (owed.op = "seek" => owed.before <= count)
  BY <1>5 DEF KnownPlace, Reads
<1>7. /\ Linear(ram, flash, log) /\ Split(log, ram.rd, Passed(ram, lastRead))
      /\ ram.state = "Reading" => Found(ram, log, lastRead)
      /\ ram.state = "Seeking" => ram.err = "Ok"
  BY <1>1, <1>6 DEF Forward
<1>8. lastRead' = Passed(ram, lastRead)
  <2>1. lastRead' = CASE owed.op = "read" /\ l.err = "Ok" -> l.got
                      [] owed.op = "seek" /\ l.err = "Ok" -> owed.before
                      [] OTHER -> lastRead
    BY <1>5 DEF Callback
  <2>2. ram.req = owed
    BY <1>3, <1>4 DEF SameTask
  <2>3. CASE ram.state = "Reading"
    BY <1>1, <1>3, <1>4, <2>1, <2>3 DEF Serves, Passed
  <2>4. CASE ram.state = "Seeking"
    BY <1>3, <1>4, <1>7, <2>1, <2>2, <2>4 DEF Serves, Passed
  <2>5. CASE ram.state \notin {"Reading", "Seeking"}
    BY <1>4, <2>1, <2>5 DEF Serves, Passed
  <2> QED
    BY <2>3, <2>4, <2>5
<1>9. lastRead' \in Nat /\ lastRead' <= count
  <2>1. CASE ram.state = "Reading" /\ ram.err = "Ok"
    <3>1. \E e \in log : e.tag = ram.got
      BY <1>7, <2>1 DEF Found
    <3>2. \A e \in log : e.tag \in Nat /\ e.tag <= count
      BY <1>1 DEF Numbers
    <3> QED
      BY <1>1, <1>8, <2>1, <3>1, <3>2 DEF Passed
  <2>2. CASE ram.state = "Seeking"
    <3>1. owed.op = "seek" /\ ram.req = owed
      BY <1>3, <1>4, <2>2 DEF Serves, SameTask
    <3>2. owed.before \in Nat
      BY <1>1, <3>1, RequestFields
    <3> QED
      BY <1>6, <1>8, <2>2, <3>1, <3>2 DEF Passed
  <2>3. CASE ram.state # "Seeking" /\ ~(ram.state = "Reading" /\ ram.err = "Ok")
    BY <1>6, <1>8, <2>3 DEF Passed
  <2> QED
    BY <2>1, <2>2, <2>3
<1>10. PICK m : m = Idled(l)
  OBVIOUS
<1>11. m.state = "Idle" /\ SameStore(m, ram) /\ m.rd = ram.rd /\ m.io = NoIO
  BY <1>3, <1>10, IdledFields DEF Quiet, SameStore
<1>12. Forward(m, flash, log, lastRead')
  BY <1>7, <1>8, <1>11, SameForward
<1>13. ram' = m /\ log' = log /\ owed' = NoOp /\ count' = count /\ NoOp.op = "none" /\ NoIO.op = "none"
  BY <1>5, <1>10, IOFields DEF Callback, Idled, NoOp
<1> QED
  BY <1>1, <1>9, <1>11, <1>12, <1>13 DEF PlaceAfter, Reads, Rec

LEMMA DeferredReads ==
  ASSUME KnownPlace, handle_deferred_call
  PROVE  PlaceAfter
<1>1. /\ ram \in Rams /\ Control(ram, owed) /\ flash \in Flashes /\ ram.deferred /\ flash' = flash
      /\ owed \in AllRequests /\ Numbers(ram, owed, log, safe, erased, count) /\ FlashForm(flash, erased)
  BY DEF KnownPlace, Known, Store, handle_deferred_call
<1>2. PICK l : l = Taken(ram)
  OBVIOUS
<1>3. /\ l \in Rams /\ ~l.deferred /\ l.io = ram.io /\ SameStore(l, ram) /\ SameScan(l, ram)
      /\ SameTask(l, ram) /\ SameCache(l, ram) /\ l.rd = ram.rd /\ l.pbPage = ram.pbPage
  BY <1>1, <1>2, TakenFields
<1>4. Quiet(l) /\ l.req = owed /\ Working(ram) /\ l.state = ram.state /\ owed # NoOp
  BY <1>1, <1>3 DEF Quiet, Control, SameTask
<1>5. ASSUME ram.state = "Reconstructing" PROVE PlaceAfter
  <2>1. l.state = "Reconstructing" /\ drive_reconstruct(l) /\ ~Rec(ram) /\ Clear(flash)
    BY <1>2, <1>4, <1>5 DEF handle_deferred_call, Taken, KnownPlace, Known, Rec
  <2>2. l.next \in 0..NumPages /\ l.recNewest \in Nat
    BY <1>1, <1>3, <1>5 DEF Control, SameScan, Rams
  <2>3. lastRead = 0 /\ log = {} /\ lastRead <= count /\ (owed.op = "seek" => owed.before <= count)
    BY <2>1 DEF KnownPlace, Reads
  <2>4. owed.op = "append" => 0 < count
    <3>1. owed.op = "append" => erased \in Nat /\ erased < count
      BY <1>1, <1>5 DEF Numbers
    <3>2. count \in Nat
      BY ClientAssumption DEF KnownPlace, Known, InvType
    <3> QED
      BY <3>1, <3>2
  <2>5. UNCHANGED <<owed, count, lastRead>>
    BY <2>1 DEF drive_reconstruct, finish_reconstruct, Waiting
  <2>6. ASSUME NEW n \in Rams, Quiet(n), n.state = "Reconstructing", NEW p \in Logicals,
               Become(start_read_page(n, p), log)
        PROVE  PlaceAfter
    <3>1. PICK m : m = start_read_page(n, p)
      OBVIOUS
    <3>2. SameButCache(m, n) /\ (Fetches(m, n, p) \/ Answers(m, n))
      BY <2>6, <3>1, StartReadPage
    <3>3. m.state = "Reconstructing" /\ m.io.op # "write"
      BY <2>6, <3>2, IOFields DEF SameButCache, SameTask, Fetches, Answers
    <3>4. ram' = m /\ log' = BecomeLog(m, log)
      BY <2>6, <3>1, BecomeIs
    <3>5. log' = {}
      BY <2>3, <3>3, <3>4, BecomeSame
    <3> QED
      BY <2>3, <2>5, <3>3, <3>4, <3>5 DEF PlaceAfter, Reads, Rec
  <2>7. CASE l.next < NumPages /\ Become(start_read_page(l, l.next), log)
    <3>1. l.next \in Logicals
      BY <2>2, <2>7, Sizes DEF Logicals
    <3> QED
      BY <1>3, <1>4, <2>1, <2>6, <2>7, <3>1
  <2>8. CASE Become(start_read_page([l EXCEPT !.walking = TRUE],
                                    logical_page_of_pos(l.recNewest)), log)
    <3>1. PICK n : n = [l EXCEPT !.walking = TRUE]
      OBVIOUS
    <3>2. n \in Rams /\ Quiet(n) /\ n.state = "Reconstructing"
      BY <1>3, <1>4, <2>1, <3>1, WalkingFields DEF Quiet, SameTask
    <3>3. PICK p \in Logicals : p = logical_page_of_pos(l.recNewest)
      BY <2>2, LabelOf
    <3> QED
      BY <2>6, <2>8, <3>1, <3>2, <3>3
  <2>9. CASE finish_reconstruct(reset_state_empty(l))
    <3>1. PICK m : m = reset_state_empty(l)
      OBVIOUS
    <3>2. /\ m \in Rams /\ m.io = l.io /\ m.deferred = l.deferred /\ SameTask(m, l) /\ m.oldest = 1
          /\ m.rd = 1 /\ m.app = 1 /\ m.pbuf = Fresh(1) /\ m.pbPage = 0 /\ m.rbPage = NONE
      BY <1>3, <3>1, EmptyFields
    <3>3. Quiet(m) /\ m.req = owed
      BY <1>4, <3>2 DEF Quiet, SameTask
    <3>4. Rec(ram') /\ (~Emptying(ram') => Forward(ram', flash, log', 0))
      BY <1>1, <1>4, <2>1, <2>3, <2>9, <3>1, <3>2, <3>3, NewLogReads
    <3> QED
      BY <1>1, <2>3, <2>4, <2>5, <3>4 DEF PlaceAfter, Reads
  <2> QED
    BY <2>1, <2>7, <2>8, <2>9 DEF drive_reconstruct
<1> QED
  BY <1>5, AnswerReads

LEMMA ReadReads ==
  ASSUME KnownPlace, NEW ok \in BOOLEAN, read_complete(ok)
  PROVE  PlaceAfter
<1>1. /\ ram \in Rams /\ Control(ram, owed) /\ flash \in Flashes /\ ram.io.op = "read" /\ flash' = flash
      /\ InvType
  BY DEF KnownPlace, Known, read_complete
<1>2. PageRead(ok) \in Sheets /\ ram.io.page \in Logicals /\ ram.io # NoIO
  BY <1>1, PageReadType
<1>3. PICK l : l = Completed(ram)
  OBVIOUS
<1>4. /\ l \in Rams /\ l.io = NoIO /\ l.deferred = ram.deferred /\ SameStore(l, ram) /\ SameScan(l, ram)
      /\ SameTask(l, ram) /\ SameCache(l, ram) /\ l.rd = ram.rd /\ l.pbPage = ram.pbPage
  BY <1>1, <1>3, CompletedFields
<1>5. Quiet(l) /\ l.state = ram.state /\ ~ram.deferred
  BY <1>1, <1>2, <1>4 DEF Quiet, Control, SameTask
<1>6. PICK page \in Sheets : page = PageRead(ok) /\ (ok => page = flash[ram.io.page])
  BY <1>2 DEF PageRead
<1>7. lastRead \in Nat /\ lastRead <= count /\ (owed.op = "seek" => owed.before <= count)
  BY DEF KnownPlace, Reads
<1>8. NoIO.op = "none"
  BY IOFields
<1>9. CASE l.state = "Reconstructing" /\ Become(ScanPage(l, ram.io.page, page, ok), log) /\ Waiting
  <2>1. PICK m : m = ScanPage(l, ram.io.page, page, ok)
    OBVIOUS
  <2>2. SameTask(m, l) /\ m.io = l.io
    BY <1>2, <1>4, <2>1, ScanFields
  <2>3. m.state = "Reconstructing" /\ m.io.op = "none"
    BY <1>4, <1>8, <1>9, <2>2 DEF SameTask
  <2>4. lastRead = 0 /\ log = {}
    BY <1>5, <1>9 DEF KnownPlace, Reads, Rec
  <2>5. ram' = m /\ log' = BecomeLog(m, log)
    BY <1>9, <2>1, BecomeIs
  <2>6. log' = {}
    BY <2>3, <2>4, <2>5, BecomeSame
  <2> QED
    BY <1>7, <1>9, <2>3, <2>4, <2>5, <2>6 DEF PlaceAfter, Reads, Rec, Waiting
<1>10. CASE l.state = "Reconstructing" /\ l.walking
  <2>1. ram.state = "Reconstructing" /\ ram.walking /\ ~Rec(ram)
    BY <1>4, <1>5, <1>10 DEF SameScan, Rec
  <2>2. ram.recOldest # NONE /\ Scanned(ram, flash) /\ Clear(flash)
    BY <1>1, <2>1 DEF Control, KnownPlace, Known, Store
  <2>3. \E p \in Logicals : ValidHeader(flash[p], p)
    BY <2>1, <2>2 DEF Scanned
  <2> QED
    BY <2>2, <2>3 DEF Clear
<1>11. ASSUME l.state = "Reading", NEW g \in Garbage, NEW p \in Labels,
              p = IF ok THEN logical_page_of_pos(l.rd) ELSE NONE, Waiting,
              Become(IF ok THEN advance_read_pointer_then_deliver(Fetched(l, page, p), g)
                     ELSE Finish(Fetched(l, page, p), "FAIL", 0), log)
       PROVE  PlaceAfter
  <2>1. PICK n : n = Fetched(l, page, p)
    OBVIOUS
  <2>2. /\ n \in Rams /\ n.io = l.io /\ n.deferred = l.deferred /\ n.rbuf = page /\ n.rbPage = p
        /\ SameStore(n, l) /\ SameTask(n, l) /\ n.rd = l.rd /\ n.pbPage = l.pbPage
    BY <1>4, <1>11, <2>1, FetchedFields
  <2>3. Quiet(n) /\ SameStore(n, ram) /\ n.rd = ram.rd /\ n.state = "Reading"
    BY <1>4, <1>5, <1>11, <2>2 DEF Quiet, SameStore, SameTask
  <2>4. Rec(ram) /\ ram.state = "Reading" /\ ~Emptying(ram)
    BY <1>5, <1>11 DEF Rec, Emptying
  <2>5. /\ Cache(ram, flash) /\ Good(ram, flash, log, safe, erased) /\ FlashForm(flash, erased)
        /\ \A e \in log : EntryOK(e)
    BY <2>4 DEF KnownPlace, Known, Store
  <2>6. /\ Settled(ram, flash) /\ ram.pbPage = Last(ram) % NumPages
        /\ ram.io.page = logical_page_of_pos(ram.rd)
        /\ Last(ram) < NumPages => ram.io.page < Last(ram)
    BY <1>1, <2>4, <2>5 DEF Cache
  <2>7. Last(n) = Last(ram) /\ AtEntry(n, flash, n.rd)
    BY <2>3, <2>6, SameEntry DEF Settled
  <2>8. n.pbPage = Last(n) % NumPages /\ Good(n, flash, log, safe, erased)
    BY <1>4, <2>2, <2>3, <2>5, <2>6, <2>7, SameGood
  <2>9. Formed(n, flash)
    BY <2>5, <2>8, GoodFormed
  <2>10. p = IF ok THEN ram.io.page ELSE NONE
    BY <1>4, <1>11, <2>6
  <2>11. Coherent(n, flash)
    BY <1>6, <2>2, <2>10 DEF Coherent
  <2>12. Last(n) < NumPages => n.rbPage < Last(n)
    <3>1. Last(n) \in Nat
      BY <2>2, <2>9, AppAt DEF Formed
    <3>2. NONE < Last(n)
      BY <3>1 DEF NONE
    <3> QED
      BY <2>2, <2>6, <2>7, <2>10, <3>2
  <2>13. Settled(n, flash)
    BY <2>7, <2>11, <2>12 DEF Settled
  <2>14. Linear(ram, flash, log) /\ Split(log, ram.rd, lastRead)
    BY <1>5, <2>4 DEF KnownPlace, Reads, Forward, Passed
  <2>15. Linear(n, flash, log) /\ Split(log, n.rd, lastRead) /\ Last(n) < NumPages
    BY <2>3, <2>14, SameLinear DEF Linear
  <2>16. Stored(n, flash, log)
    BY <2>2, <2>5, <2>8, <2>15, GoodStored
  <2>17. PICK m : m = IF ok THEN advance_read_pointer_then_deliver(n, g) ELSE Finish(n, "FAIL", 0)
    OBVIOUS
  <2>18. /\ m.state = "Reading" /\ SameStore(m, n) /\ Split(log, m.rd, Passed(m, lastRead))
         /\ (m.deferred => Found(m, log, lastRead)) /\ m.io.op # "write"
    <3>1. CASE ok
      <4>1. m = advance_read_pointer_then_deliver(n, g)
        BY <2>17, <3>1
      <4>2. /\ m.state = "Reading" /\ SameStore(m, n) /\ Split(log, m.rd, Passed(m, lastRead))
            /\ m.deferred => Found(m, log, lastRead)
        BY <1>1, <1>7, <2>2, <2>3, <2>8, <2>9, <2>13, <2>15, <2>16, <4>1, AdvanceForward
      <4>3. m.io.op # "write"
        BY <2>2, <2>3, <4>1, AdvanceIO
      <4> QED
        BY <4>2, <4>3
    <3>2. CASE ~ok
      <4>1. "FAIL" \in Errs /\ 0 \in Nat
        BY DEF Errs
      <4>2. m = Finish(n, "FAIL", 0)
        BY <2>17, <3>2
      <4>3. /\ m.io = n.io /\ SameStore(m, n) /\ SameTask(m, n) /\ m.rd = n.rd /\ m.err = "FAIL"
        BY <2>2, <4>1, <4>2, FinishFields
      <4>4. m.state = "Reading" /\ m.io.op = "none" /\ Passed(m, lastRead) = lastRead /\ Found(m, log, lastRead)
        BY <1>8, <2>3, <4>3 DEF SameTask, Quiet, Passed, Found
      <4> QED
        BY <2>15, <4>3, <4>4
    <3> QED
      BY <3>1, <3>2
  <2>19. ram' = m /\ log' = BecomeLog(m, log)
    BY <1>11, <2>1, <2>17, BecomeIs
  <2>20. log' = log
    BY <2>18, <2>19, BecomeSame
  <2>21. Forward(m, flash, log, lastRead)
    BY <2>15, <2>18, SameLinear DEF Forward
  <2> QED
    BY <1>1, <1>7, <1>11, <2>18, <2>19, <2>20, <2>21 DEF PlaceAfter, Reads, Rec, Waiting
<1>12. ASSUME l.state = "Reading", NEW g \in Garbage, Waiting,
              LET m == [l EXCEPT !.rbuf = page, !.rbHere = TRUE,
                                 !.rbPage = IF ok THEN logical_page_of_pos(l.rd) ELSE NONE]
              IN Become(IF ok THEN advance_read_pointer_then_deliver(m, g) ELSE Finish(m, "FAIL", 0), log)
       PROVE  PlaceAfter
  <2>1. PICK p : p = IF ok THEN logical_page_of_pos(l.rd) ELSE NONE
    OBVIOUS
  <2>2. p \in Labels
    <3>1. l.rd \in Int
      BY <1>4 DEF Rams
    <3> QED
      BY <2>1, <3>1, LabelOf DEF Labels
  <2> QED
    BY <1>11, <1>12, <2>1, <2>2 DEF Fetched
<1> QED
  BY <1>3, <1>6, <1>9, <1>10, <1>12 DEF read_complete, Completed, PageRead

(* fire_client_callback after the flash has written or erased               *)
LEMMA CallbackReads ==
  ASSUME KnownPlace, NEW k \in Rams, NEW lg, Callback(k, lg), owed.op \notin {"read", "seek"},
         Linear(k, flash', lg), Split(lg, k.rd, lastRead)
  PROVE  PlaceAfter
<1>1. lastRead' = lastRead /\ count' = count /\ owed' = NoOp /\ log' = lg /\ ram' = Idled(k)
  BY DEF Callback, Idled
<1>2. PICK m : m = Idled(k)
  OBVIOUS
<1>3. m.state = "Idle" /\ SameStore(m, k) /\ m.rd = k.rd /\ m.io = NoIO
  BY <1>2, IdledFields DEF Quiet
<1>4. Forward(m, flash', lg, lastRead)
  BY <1>3, SameForward
<1>5. lastRead \in Nat /\ lastRead <= count /\ NoOp.op = "none" /\ NoIO.op = "none"
  BY IOFields DEF KnownPlace, Reads, NoOp
<1> QED
  BY <1>1, <1>2, <1>3, <1>4, <1>5 DEF PlaceAfter, Reads, Rec

LEMMA WriteReads ==
  ASSUME KnownPlace, NEW ok \in BOOLEAN, write_complete(ok)
  PROVE  PlaceAfter
<1>1. /\ ram \in Rams /\ Control(ram, owed) /\ flash \in Flashes /\ ram.io.op = "write"
      /\ owed \in AllRequests /\ InvType /\ ~Circular
  BY DEF KnownPlace, Known, write_complete
<1>2. ram.state \in {"Appending", "Syncing"} /\ Rec(ram) /\ ~Emptying(ram)
  BY <1>1 DEF Control, Rec, Emptying
<1>3. /\ FlashForm(flash, erased) /\ Window(flash) /\ (\A e \in log : EntryOK(e))
      /\ Good(ram, flash, log, safe, erased) /\ Writing(ram) /\ Cache(ram, flash)
      /\ Numbers(ram, owed, log, safe, erased, count)
  BY <1>2 DEF KnownPlace, Known, Store
<1>4. /\ ram.io.page = Last(ram) % NumPages /\ Used(ram) > 1 /\ Last(ram) < First(ram) + NumPages
      /\ ram.state = "Appending" => /\ ram.app + PageSize <= Volume
                                    /\ ram.req.len <= PageSize - 2
  BY <1>1, <1>3 DEF Writing
<1>5. PICK l : l = Completed(ram)
  OBVIOUS
<1>6. l \in Rams /\ SameTask(l, ram) /\ SameStore(l, ram) /\ l.io = NoIO /\ l.rd = ram.rd
  BY <1>1, <1>5, CompletedFields
<1>7. owed = ram.req /\ l.req = owed /\ l.state = ram.state /\ l.app = ram.app /\ l.oldest = ram.oldest
      /\ Last(l) = Last(ram) /\ l.pbuf = ram.pbuf
  BY <1>1, <1>6, WriteTaken, SameEntry DEF SameTask, SameStore
<1>8. owed.op \notin {"read", "seek"} /\ (ram.state = "Appending" => owed.op = "append")
  BY <1>1, <1>2 DEF Control, Working, Serves
<1>9. /\ Linear(ram, flash, log) /\ Split(log, ram.rd, lastRead) /\ lastRead \in Nat /\ lastRead <= count
      /\ owed.op = "append" => lastRead < count
  <2>1. Forward(ram, flash, log, lastRead) /\ Passed(ram, lastRead) = lastRead
    BY <1>2 DEF KnownPlace, Reads, Passed
  <2> QED
    BY <1>1, <2>1 DEF KnownPlace, Reads, Forward
<1>10. Linear(l, flash, log) /\ Split(log, l.rd, lastRead) /\ l.app >= 1 /\ l.app \in Nat
  BY <1>1, <1>3, <1>6, <1>7, <1>9, SameLinear, GoodPosition
<1>11. CASE /\ Callback([l EXCEPT !.err = "FAIL", !.got = 0, !.lost = IF l.flushing THEN FALSE ELSE @], log)
            /\ UNCHANGED <<flash, safe>>
  <2>1. PICK t \in BOOLEAN : t = IF l.flushing THEN FALSE ELSE l.lost
    BY <1>6 DEF Rams
  <2>2. PICK k : k = [l EXCEPT !.err = "FAIL", !.got = 0, !.lost = t]
    OBVIOUS
  <2>3. k \in Rams /\ SameStore(k, l) /\ k.rd = l.rd
    BY <1>6, <2>2, FailedFields
  <2>4. Linear(k, flash', log) /\ Split(log, k.rd, lastRead)
    BY <1>10, <1>11, <2>3, SameLinear
  <2>5. Callback(k, log)
    BY <1>11, <2>1, <2>2
  <2> QED
    BY <1>8, <2>3, <2>4, <2>5, CallbackReads
<1>12. CASE flash' = [flash EXCEPT ![ram.io.page] = ram.pbuf] /\
           (\/ /\ l.state = "Appending"
               /\ Become(append_to_pagebuffer([reset_pagebuffer(l) EXCEPT !.flushing = FALSE]), log)
               /\ Waiting
            \/ /\ l.state = "Syncing"
               /\ Callback([IF l.app % PageSize = 0 THEN reset_pagebuffer(l) ELSE l
                            EXCEPT !.err = "Ok", !.got = 0], log))
  <2>1. flash' = [flash EXCEPT ![Last(ram) % NumPages] = ram.pbuf]
    BY <1>4, <1>12
  <2>2. /\ flash' \in Flashes /\ Good(ram, flash', log, log, erased) /\ FlashForm(flash', erased)
        /\ \A p \in Logicals : ValidHeader(flash'[p], p) => Base(First(ram)) <= flash'[p][0].val
    BY <1>1, <1>3, <1>4, <2>1, GoodWrite
  <2>3. Good(l, flash', log, log, erased)
    BY <1>6, <2>2, SameGood
  <2>4. /\ \A p \in Logicals : p # Last(l) % NumPages => flash'[p] = flash[p]
        /\ flash'[Last(l) % NumPages] = l.pbuf
    <3>1. Last(ram) \in Int
      BY <1>1, <1>3, GoodPosition
    <3>2. Last(ram) % NumPages \in Logicals
      BY <3>1, Modulo
    <3> QED
      BY <1>1, <1>7, <2>1, <3>2 DEF Flashes
  <2>5. Linear(l, flash', log)
    BY <1>6, <1>10, <2>4, WrittenLinear
  <2>6. PICK r : r = reset_pagebuffer(l)
    OBVIOUS
  <2>7. /\ r \in Rams /\ r.io = l.io /\ SameTask(r, l) /\ r.oldest = l.oldest /\ r.rd = l.rd
        /\ IF ~Circular /\ l.app + PageSize > Volume
           THEN r = l
           ELSE r.pbuf = Fresh(RoundUp(l.app)) /\ r.app = RoundUp(l.app) + 1
    BY <1>6, <2>6, NextPageFields
  <2>8. Linear(r, flash', log)
    <3>1. CASE r = l
      BY <2>5, <3>1
    <3>2. CASE r # l
      <4>1. l.app + PageSize <= Volume
        BY <1>1, <1>10, <2>7, <3>2, VolumeType, Sizes
      <4>2. r.pbuf = Fresh(RoundUp(l.app)) /\ r.app = RoundUp(l.app) + 1
        BY <2>7, <3>2
      <4> QED
        BY <1>6, <1>10, <2>4, <2>5, <2>7, <4>1, <4>2, NextLinear
    <3> QED
      BY <3>1, <3>2
  <2>9. CASE /\ l.state = "Appending"
             /\ Become(append_to_pagebuffer([reset_pagebuffer(l) EXCEPT !.flushing = FALSE]), log)
             /\ Waiting
    <3>1. ram.req.len <= PageSize - 2 /\ ram.app + PageSize <= Volume /\ owed.op = "append"
      BY <1>4, <1>7, <1>8, <2>9
    <3>2. r.pbuf = Fresh(RoundUp(l.app)) /\ r.app = RoundUp(l.app) + 1
      <4>1. ~(~Circular /\ l.app + PageSize > Volume)
        BY <1>7, <1>10, <3>1, VolumeType, Sizes
      <4> QED
        BY <2>7, <4>1
    <3>3. Good(r, flash', log, log, erased) /\ Used(r) = 1
      <4>1. First(l) = First(ram)
        BY <1>7 DEF First
      <4> QED
        BY <1>3, <1>4, <1>6, <1>7, <2>2, <2>3, <2>7, <3>2, <4>1, GoodNextPage
    <3>4. r.rd <= r.app
      <4>1. Last(ram) < NumPages
        BY <1>9 DEF Linear
      <4>2. l.rd <= l.app /\ l.rd \in Nat
        BY <1>3, <1>6, <1>7, <4>1 DEF Cache, Settled, AtEntry, Rams
      <4>3. PICK b \in Nat, n \in Nat : l.app = b + n /\ n <= PageSize /\ RoundUp(l.app) = b + PageSize
        <5>1. /\ Last(l) \in Nat /\ Used(l) \in 1..PageSize /\ l.app = Base(Last(l)) + Used(l)
              /\ RoundUp(l.app) = Base(Last(l)) + PageSize
          BY <1>6, <2>3, GoodPosition
        <5>2. Base(Last(l)) \in Nat
          BY <5>1, BaseNext
        <5>3. Used(l) \in Nat /\ Used(l) <= PageSize
          BY <5>1, Sizes
        <5> QED
          BY <5>1, <5>2, <5>3
      <4> QED
        BY <2>7, <3>2, <4>2, <4>3, Sizes
    <3>5. PICK k : k = [r EXCEPT !.flushing = FALSE]
      OBVIOUS
    <3>6. /\ k \in Rams /\ SameStore(k, r) /\ k.state = r.state /\ k.req = r.req /\ k.io = r.io /\ k.rd = r.rd
      BY <2>7, <3>5, UnflushedFields
    <3>7. k.req = owed /\ k.io = NoIO /\ k.state = "Appending" /\ k.app = r.app
      BY <1>6, <1>7, <2>7, <2>9, <3>6 DEF SameTask, SameStore
    <3>8. Good(k, flash', log, log, erased) /\ Linear(k, flash', log) /\ Split(log, k.rd, lastRead)
      BY <1>10, <2>7, <2>8, <3>3, <3>6, SameGood, SameLinear
    <3>9. Formed(k, flash') /\ Stored(k, flash', log)
      <4>1. Last(k) < NumPages
        BY <3>8 DEF Linear
      <4> QED
        BY <1>3, <2>2, <3>6, <3>8, <4>1, GoodFormed, GoodStored
    <3>10. owed.len \in Nat
      BY <1>1, <3>1, AppendRequest
    <3>11. Used(k) + 1 + k.req.len <= PageSize
      <4>1. Used(k) = 1
        BY <3>3, <3>6 DEF Used, Last, SameStore
      <4>2. 1 + 1 + owed.len <= PageSize
        BY <1>7, <3>1, <3>10, Sizes
      <4> QED
        BY <3>7, <4>1, <4>2
    <3>12. k.req.op = "append" /\ lastRead < k.req.tag /\ (\A e \in log : e.tag < k.req.tag) /\ k.rd <= k.app
      <4>1. owed.tag = count /\ \A e \in log : e.tag < count
        BY <1>1, <1>3, <3>1 DEF Numbers
      <4> QED
        BY <1>9, <3>1, <3>4, <3>6, <3>7, <4>1
    <3>13. PICK m : m = append_to_pagebuffer(k)
      OBVIOUS
    <3>14. Forward(m, flash', BecomeLog(m, log), lastRead)
      BY <1>9, <3>6, <3>7, <3>8, <3>9, <3>11, <3>12, <3>13, AppendForward
    <3>15. ram' = m /\ log' = BecomeLog(m, log)
      BY <2>6, <2>9, <3>5, <3>13, BecomeIs
    <3>16. m.state = "Appending"
      BY <3>6, <3>7, <3>13 DEF append_to_pagebuffer, Finish, Rams
    <3> QED
      BY <1>8, <1>9, <2>9, <3>14, <3>15, <3>16 DEF PlaceAfter, Reads, Rec, Waiting
  <2>10. CASE Callback([IF l.app % PageSize = 0 THEN reset_pagebuffer(l) ELSE l
                        EXCEPT !.err = "Ok", !.got = 0], log)
    <3>1. PICK k : k = IF l.app % PageSize = 0 THEN r ELSE l
      OBVIOUS
    <3>2. k \in Rams /\ Linear(k, flash', log) /\ k.rd = l.rd
      BY <1>6, <2>5, <2>7, <2>8, <3>1
    <3>3. PICK m : m = [k EXCEPT !.err = "Ok", !.got = 0]
      OBVIOUS
    <3>4. "Ok" \in Errs
      BY DEF Errs
    <3>5. m \in Rams /\ SameStore(m, k) /\ m.rd = k.rd
      BY <3>2, <3>3, <3>4, OutcomeFields
    <3>6. Linear(m, flash', log) /\ Split(log, m.rd, lastRead)
      BY <1>10, <3>2, <3>5, SameLinear
    <3>7. Callback(m, log)
      BY <2>6, <2>10, <3>1, <3>3
    <3> QED
      BY <1>8, <3>5, <3>6, <3>7, CallbackReads
  <2> QED
    BY <1>12, <2>9, <2>10
<1> QED
  BY <1>5, <1>11, <1>12 DEF write_complete, Completed

LEMMA EraseReads ==
  ASSUME KnownPlace, NEW ok \in BOOLEAN, erase_complete(ok), ~halfErased'
  PROVE  PlaceAfter
<1>1. /\ ram \in Rams /\ Control(ram, owed) /\ ram.io.op = "erase" /\ InvType
  BY DEF KnownPlace, Known, erase_complete
<1>2. ram.state = "Erasing" /\ Quiet(Completed(ram)) /\ owed.op = "erase"
  BY <1>1, EraseTaken DEF Control, Working, Serves
<1>3. PICK l : l = Completed(ram)
  OBVIOUS
<1>4. l \in Rams /\ SameTask(l, ram) /\ Quiet(l)
  BY <1>1, <1>2, <1>3, CompletedFields
<1>5. lastRead \in Nat /\ lastRead <= count
  BY DEF KnownPlace, Reads
<1>6. CASE Callback([reset_state_empty(l) EXCEPT !.err = "Ok", !.got = 0], {})
  <2>1. PICK r : r = reset_state_empty(l)
    OBVIOUS
  <2>2. r \in Rams /\ r.oldest = 1 /\ r.app = 1 /\ r.pbuf = Fresh(1)
    BY <1>4, <2>1, EmptyFields
  <2>3. PICK k : k = [r EXCEPT !.err = "Ok", !.got = 0]
    OBVIOUS
  <2>4. "Ok" \in Errs
    BY DEF Errs
  <2>5. k \in Rams /\ SameStore(k, r)
    BY <2>2, <2>3, <2>4, OutcomeFields
  <2>6. Linear(k, flash', {}) /\ Split({}, k.rd, lastRead)
    BY <2>2, <2>5, EmptyLinear DEF SameStore
  <2>7. Callback(k, {})
    BY <1>6, <2>1, <2>3
  <2> QED
    BY <1>2, <2>5, <2>6, <2>7, CallbackReads
<1>7. CASE /\ Become(erase_oldest_page([l EXCEPT !.oldest = @ + PageSize]),
                     {e \in log : PageNo(e) # l.oldest \div PageSize})
           /\ Waiting
  <2>1. PICK r : r = [l EXCEPT !.oldest = @ + PageSize]
    OBVIOUS
  <2>2. r \in Rams /\ SameTask(r, l) /\ r.deferred = l.deferred
    BY <1>4, <2>1, OldestFields
  <2>3. PICK m : m = erase_oldest_page(r)
    OBVIOUS
  <2>4. SameTask(m, r) /\ m.deferred = r.deferred /\ m.io.op = "erase"
    <3>1. PICK p : p = logical_page_of_pos(r.oldest)
      OBVIOUS
    <3>2. SameTask(m, r) /\ m.deferred = r.deferred /\ m.io = [op |-> "erase", page |-> p]
      BY <2>2, <2>3, <3>1, EraseFields
    <3> QED
      BY <3>2
  <2>5. m.state = "Erasing" /\ ~m.deferred
    BY <1>2, <1>4, <2>2, <2>4 DEF SameTask, Quiet
  <2>6. ram' = m
    BY <1>7, <2>1, <2>3, BecomeIs
  <2> QED
    BY <1>2, <1>5, <1>7, <2>4, <2>5, <2>6 DEF PlaceAfter, Reads, Rec, Emptying, Waiting
<1> QED
  BY <1>3, <1>6, <1>7 DEF erase_complete, Completed

LEMMA ReadStep ==
  ASSUME InvType, InvStore, InvCache, InvRead, [Next]_vars
  PROVE  InvRead'
<1>1. CASE UNCHANGED vars
  <2>1. UNCHANGED <<ram, flash, resets, halfErased, owed, log, lastRead, count>>
    BY <1>1 DEF vars
  <2> QED
    BY <2>1 DEF InvRead
<1>2. CASE Next
  <2>1. SUFFICES ASSUME ~Circular, resets' = 0, ~halfErased' PROVE PlaceAfter
    BY DEF InvRead, PlaceAfter
  <2>2. KnownPlace /\ resets = 0
    <3>1. Known /\ resets = 0 /\ ~halfErased
      BY <1>2, <2>1, CacheBefore DEF Known
    <3> QED
      BY <2>1, <3>1 DEF KnownPlace, InvRead
  <2>3. ASSUME NEW o \in Requests, Call(o) PROVE PlaceAfter
    BY <2>2, <2>3, CallReads
  <2>4. CASE handle_deferred_call
    BY <2>2, <2>4, DeferredReads
  <2>5. ASSUME NEW ok \in BOOLEAN, FlashDone(ok) PROVE PlaceAfter
    BY <2>1, <2>2, <2>5, ReadReads, WriteReads, EraseReads DEF FlashDone
  <2>6. CASE Reset
    BY <2>1, <2>2, <2>6 DEF Reset
  <2> QED
    BY <1>2, <2>3, <2>4, <2>5, <2>6 DEF Next
<1> QED
  BY <1>1, <1>2

LEMMA InvReadHolds == Spec => []InvRead
<1>1. Init => InvRead
  <2>1. SUFFICES ASSUME Init PROVE InvRead
    OBVIOUS
  <2>2. ram.state = "NotReady" /\ ram.io = NoIO
    BY <2>1 DEF Init, Boot
  <2>3. NoIO.op = "none" /\ NoOp.op = "none"
    BY IOFields DEF NoOp
  <2> QED
    BY <2>1, <2>2, <2>3 DEF Init, InvRead, Reads, Rec
<1>2. InvType /\ InvStore /\ InvCache /\ InvRead /\ [Next]_vars => InvRead'
  BY ReadStep
<1> QED
  BY InvTypeHolds, InvStoreHolds, InvCacheHolds, <1>1, <1>2, PTL DEF Spec

(* A read is answered by the deferred call, once it is over                 *)
LEMMA ReadAnswered ==
  ASSUME Known, Next, ~Reset, Answered("read")
  PROVE  /\ handle_deferred_call /\ ram.state = "Reading" /\ ram.deferred
         /\ answer'.err = ram.err /\ answer'.tag = ram.got
<1>1. owed.op = "read" /\ owed # NoOp /\ owed' = NoOp /\ owed' # owed
  BY DEF Answered, NoOp
<1>2. Control(ram, owed) /\ ram \in Rams /\ InvType
  BY DEF Known
<1>3. ~(\E o \in Requests : Call(o))
  BY <1>1 DEF Call
<1>4. ASSUME NEW ok \in BOOLEAN PROVE ~FlashDone(ok)
  <2>1. ~read_complete(ok)
    BY <1>1 DEF read_complete, finish_reconstruct, Waiting
  <2>2. ~write_complete(ok)
    <3>1. ram.io.op = "write" => ram.state \in {"Appending", "Syncing"} /\ owed.op \in {"append", "sync"}
      BY <1>2 DEF Control, Working, Serves
    <3> QED
      BY <1>1, <3>1 DEF write_complete
  <2>3. ~erase_complete(ok)
    <3>1. ram.io.op = "erase" => ram.state = "Erasing" /\ owed.op = "erase"
      BY <1>2 DEF Control, Working, Serves
    <3> QED
      BY <1>1, <3>1 DEF erase_complete
  <2> QED
    BY <2>1, <2>2, <2>3 DEF FlashDone
<1>5. handle_deferred_call
  BY <1>3, <1>4 DEF Next
<1>6. PICK l : l = Taken(ram)
  OBVIOUS
<1>7. l.state = ram.state /\ l.err = ram.err /\ l.got = ram.got
  BY <1>2, <1>6, TakenFields DEF SameTask
<1>8. ram.deferred /\ IF l.state = "Reconstructing" THEN drive_reconstruct(l) ELSE Callback(l, log)
  BY <1>5, <1>6 DEF handle_deferred_call, Taken
<1>9. ram.state # "Reconstructing"
  BY <1>1, <1>7, <1>8 DEF drive_reconstruct, finish_reconstruct, Waiting
<1>10. ram.state = "Reading"
  <2>1. Working(ram)
    BY <1>2, <1>8 DEF Control
  <2> QED
    BY <1>1, <1>2, <1>9, <2>1 DEF Control, Serves
<1>11. answer' = [op |-> owed.op, err |-> l.err, tag |-> l.got]
  BY <1>7, <1>8, <1>9 DEF Callback
<1> QED
  BY <1>5, <1>7, <1>8, <1>10, <1>11

(* The entry read is the first one after the reader's place                 *)
LEMMA AnswerIsNext ==
  ASSUME InvType, InvStore, InvCache, InvRead, Next, ~Circular, resets' = 0, ~halfErased', Answered("read")
  PROVE  /\ answer'.err = "Ok" => Unread # {} /\ answer'.tag = Min(Unread)
         /\ answer'.err = "END" => Unread = {}
<1>1. Known /\ resets = 0 /\ ~halfErased
  BY CacheBefore DEF Known
<1>2. ~Reset
  BY <1>1 DEF Reset
<1>3. ram.state = "Reading" /\ ram.deferred /\ answer'.err = ram.err /\ answer'.tag = ram.got
  BY <1>1, <1>2, ReadAnswered
<1>4. lastRead \in Nat /\ Found(ram, log, lastRead)
  <2>1. Reads(ram, owed, flash, log, lastRead, count) /\ Rec(ram) /\ ~Emptying(ram)
    BY <1>1, <1>3 DEF InvRead, Rec, Emptying
  <2> QED
    BY <1>3, <2>1 DEF Reads, Forward
<1>5. \A e \in log : e.tag \in Nat
  BY <1>1 DEF Known, Store, Numbers
<1>6. \A t : t \in Unread <=> \E e \in log : e.tag = t /\ e.tag > lastRead
  BY DEF Unread
<1>7. ASSUME ram.err = "Ok" PROVE Unread # {} /\ ram.got = Min(Unread)
  <2>1. /\ ram.got > lastRead /\ (\E e \in log : e.tag = ram.got)
        /\ \A e \in log : e.tag > lastRead => e.tag >= ram.got
    BY <1>4, <1>7 DEF Found
  <2>2. ram.got \in Unread
    BY <1>6, <2>1
  <2>3. \A t \in Unread : t \in Nat /\ ram.got <= t
    BY <1>5, <1>6, <2>1, <2>2
  <2>4. ram.got \in Nat
    BY <2>2, <2>3
  <2>5. ASSUME NEW x \in Unread, \A y \in Unread : x <= y PROVE x = ram.got
    BY <2>2, <2>3, <2>4, <2>5
  <2>6. \A y \in Unread : ram.got <= y
    BY <2>3
  <2> QED
    BY <2>2, <2>5, <2>6 DEF Min
<1>8. ASSUME ram.err = "END" PROVE Unread = {}
  <2>1. \A e \in log : e.tag <= lastRead
    BY <1>4, <1>8 DEF Found
  <2>2. \A t : t \notin Unread
    BY <1>4, <1>5, <1>6, <2>1
  <2> QED
    BY <2>2
<1> QED
  BY <1>3, <1>7, <1>8

(* Without a failed erase in the instance none is remembered                *)
LEMMA ErasesSucceed ==
  ASSUME "erase" \notin Faults
  PROVE  Spec => [](~halfErased)
<1>1. Init => ~halfErased
  BY DEF Init
<1>2. ~halfErased /\ [Next]_vars => ~halfErased'
  <2>1. SUFFICES ASSUME ~halfErased, [Next]_vars PROVE ~halfErased'
    OBVIOUS
  <2>2. CASE UNCHANGED vars
    BY <2>1, <2>2 DEF vars
  <2>3. CASE \E o \in Requests : Call(o)
    BY <2>1, <2>3 DEF Call
  <2>4. CASE handle_deferred_call
    BY <2>1, <2>4 DEF handle_deferred_call
  <2>5. ASSUME NEW ok \in BOOLEAN, FlashDone(ok) PROVE ~halfErased'
    <3>1. read_complete(ok) => halfErased' = halfErased
      BY DEF read_complete
    <3>2. write_complete(ok) => halfErased' = halfErased
      BY DEF write_complete
    <3>3. erase_complete(ok) => halfErased' = halfErased
      BY DEF erase_complete, Reports
    <3> QED
      BY <2>1, <2>5, <3>1, <3>2, <3>3 DEF FlashDone
  <2>6. CASE Reset
    BY <2>1, <2>6 DEF Reset
  <2> QED
    BY <2>1, <2>2, <2>3, <2>4, <2>5, <2>6 DEF Next
<1> QED
  BY <1>1, <1>2, PTL DEF Spec

(* advance_read_pointer_then_deliver, deliver_current_entry: on a linear log
   of any geometry, until the first reset and with no failed erase but whatever
   reads and writes failed, a read that succeeds returns the first entry
   appended after the reader's place, wherever it is stored, and END is reported
   only when there is none.                                                 *)
THEOREM ReadsForward ==
  ASSUME ~Circular, "erase" \notin Faults
  PROVE  Spec => ReadNext
<1>1. /\ InvType /\ InvStore /\ InvCache /\ InvRead /\ ~halfErased'
      => ([Next]_vars =>
          [resets = 0 /\ Answered("read") =>
             /\ answer'.err = "Ok" => Unread # {} /\ answer'.tag = Min(Unread)
             /\ answer'.err = "END" => Unread = {}]_vars)
  <2>1. SUFFICES ASSUME InvType, InvStore, InvCache, InvRead, ~halfErased', Next,
                        resets = 0, Answered("read")
                 PROVE  /\ answer'.err = "Ok" => Unread # {} /\ answer'.tag = Min(Unread)
                        /\ answer'.err = "END" => Unread = {}
    OBVIOUS
  <2>2. ~Reset
    BY <2>1 DEF Reset, Answered, NoAnswer
  <2>3. resets' = 0
    BY <2>1, <2>2, OnlyResets
  <2> QED
    BY <2>1, <2>3, AnswerIsNext
<1> QED
  BY InvTypeHolds, InvStoreHolds, InvCacheHolds, InvReadHolds, ErasesSucceed, <1>1, PTL DEF Spec, ReadNext
=============================================================================
