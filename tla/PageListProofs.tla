---------------------------- MODULE PageListProofs ----------------------------
(***************************************************************************)
(* Whatever the page size and whatever areas are marked, the pages of a    *)
(* PageList cover the file without a gap (PagesTile), and SetInit on it    *)
(* does what PageMap says (SetInitMatchesMap).  The first follows from how *)
(* neighbours fit together, the second from where each page begins.        *)
(*                                                                         *)
(* The walk of GetUninitPages and the reading of a stat file carry a value *)
(* along; what they come to (UninitPagesAreWanted, ReopenKeepsPages) is    *)
(* shown by the first turn at which it would be wrong (LeastExists).       *)
(***************************************************************************)
EXTENDS PageList, SequenceTheorems, WellFoundedInduction, TLAPS

\* The parts of PagesTile, for any list of pages.
NoneEmpty(ps) == \A k \in 1..Len(ps) : 0 < ps[k].bytes /\ ps[k].bytes <= PageSize

Linked(ps) == \A k \in 1..Len(ps) - 1 : /\ ps[k].bytes = PageSize
                                        /\ ps[k + 1].offset = NextOf(ps[k])

Tiles(ps) == /\ ps \in Seq(PageType)
             /\ ps # <<>> => ps[1].offset = 0
             /\ NoneEmpty(ps)
             /\ Linked(ps)

\* How many pages it takes to hold n bytes.
LEMMA PageCountBounds ==
  ASSUME NEW n \in Nat
  PROVE  /\ PageCount(n) \in Nat
         /\ n > 0 => PageCount(n) > 0
         /\ n <= PageCount(n) * PageSize
         /\ PageCount(n) * PageSize < n + PageSize
  BY PageSizeAssumption, Z3 DEF PageCount

\* The pages Init and Resize make: linked, none empty, the first one at `from`.
LEMMA NewPagesTile ==
  ASSUME NEW from \in Nat, NEW to \in Nat, from <= to, NEW is_init \in BOOLEAN
  PROVE  /\ NewPages(from, to, is_init) \in Seq(PageType)
         /\ NoneEmpty(NewPages(from, to, is_init))
         /\ Linked(NewPages(from, to, is_init))
         /\ Len(NewPages(from, to, is_init)) > 0
              => NewPages(from, to, is_init)[1].offset = from
         /\ Len(NewPages(from, to, is_init)) = PageCount(to - from)
<1> DEFINE n     == PageCount(to - from)
           at(j) == from + (j - 1) * PageSize
           new   == NewPages(from, to, is_init)
<1>1. n \in Nat /\ n * PageSize < (to - from) + PageSize
  BY PageCountBounds
<1>2. ASSUME NEW j \in 1..n
      PROVE  /\ at(j) \in Nat
             /\ at(j) < to
             /\ at(j + 1) = at(j) + PageSize
             /\ j < n => at(j) + PageSize < to
  <2>1. (j - 1) * PageSize >= 0 /\ (j - 1) * PageSize <= (n - 1) * PageSize
    BY <1>1, PageSizeAssumption
  <2>2. (n - 1) * PageSize = n * PageSize - PageSize /\ j * PageSize = (j - 1) * PageSize + PageSize
    BY <1>1, PageSizeAssumption
  <2>3. j < n => j * PageSize <= (n - 1) * PageSize
    BY <1>1, PageSizeAssumption
  <2> QED
    BY <1>1, <2>1, <2>2, <2>3, PageSizeAssumption
<1>3. new = [j \in 1..n |-> Page(at(j), IF at(j) + PageSize < to THEN PageSize ELSE to - at(j), is_init)]
  BY DEF NewPages
<1>4. \A j \in 1..n : new[j] \in PageType
  BY <1>2, <1>3, PageSizeAssumption DEF Page, PageType
<1>5. new \in Seq(PageType) /\ Len(new) = n
  BY <1>1, <1>3, <1>4
<1> HIDE DEF n, at
<1>6. NoneEmpty(new)
  <2> SUFFICES ASSUME NEW k \in 1..n
               PROVE  0 < new[k].bytes /\ new[k].bytes <= PageSize
    BY <1>5 DEF NoneEmpty
  <2>1. new[k].bytes = IF at(k) + PageSize < to THEN PageSize ELSE to - at(k)
    BY <1>3 DEF Page
  <2> QED
    BY <1>2, <2>1, PageSizeAssumption
<1>7. Linked(new)
  <2> SUFFICES ASSUME NEW k \in 1..n - 1
               PROVE  new[k].bytes = PageSize /\ new[k + 1].offset = NextOf(new[k])
    BY <1>5 DEF Linked
  <2>1. k \in 1..n /\ k + 1 \in 1..n /\ k < n
    BY <1>1
  <2>2. new[k] = Page(at(k), PageSize, is_init)
    BY <1>2, <1>3, <2>1
  <2>3. new[k + 1].offset = at(k + 1)
    BY <1>3, <2>1 DEF Page
  <2> QED
    BY <1>2, <2>1, <2>2, <2>3 DEF Page, NextOf
<1>8. Len(new) > 0 => new[1].offset = from
  <2> SUFFICES ASSUME n > 0 PROVE new[1].offset = from
    BY <1>5
  <2>1. 1 \in 1..n /\ new[1].offset = at(1)
    BY <1>1, <1>3 DEF Page
  <2>2. (1 - 1) * PageSize = 0
    BY PageSizeAssumption
  <2> QED
    BY <2>1, <2>2 DEF at
<1> QED
  BY <1>5, <1>6, <1>7, <1>8 DEF n

\* A list that starts at 0 and is followed by linked pages that begin where it
\* ends is again a list without a gap.
LEMMA ConcatTiles ==
  ASSUME NEW ps, Tiles(ps), ps # <<>>,
         NEW new \in Seq(PageType), NoneEmpty(new), Linked(new),
         new # <<>> => new[1].offset = NextOf(ps[Len(ps)]) /\ ps[Len(ps)].bytes = PageSize
  PROVE  Tiles(ps \o new)
<1> DEFINE n   == Len(ps)
           all == ps \o new
<1>1. /\ ps \in Seq(PageType) /\ n \in Nat \ {0}
      /\ Len(new) \in Nat
      /\ all \in Seq(PageType)
      /\ Len(all) = n + Len(new)
      /\ \A k \in 1..n : all[k] = ps[k]
      /\ \A k \in n + 1..n + Len(new) : all[k] = new[k - n]
  BY DEF Tiles
<1>2. NoneEmpty(all)
  <2> SUFFICES ASSUME NEW k \in 1..Len(all)
               PROVE  0 < all[k].bytes /\ all[k].bytes <= PageSize
    BY DEF NoneEmpty
  <2>1. CASE k <= n
    BY <1>1, <2>1 DEF Tiles, NoneEmpty
  <2>2. CASE k > n
    <3>1. k - n \in 1..Len(new) /\ all[k] = new[k - n]
      BY <1>1, <2>2
    <3> QED
      BY <3>1 DEF NoneEmpty
  <2> QED
    BY <1>1, <2>1, <2>2
<1>3. Linked(all)
  <2> SUFFICES ASSUME NEW k \in 1..Len(all) - 1
               PROVE  all[k].bytes = PageSize /\ all[k + 1].offset = NextOf(all[k])
    BY DEF Linked
  <2>1. CASE k < n
    <3>1. k \in 1..n - 1 /\ all[k] = ps[k] /\ all[k + 1] = ps[k + 1]
      BY <1>1, <2>1
    <3> QED
      BY <3>1 DEF Tiles, Linked
  <2>2. CASE k = n
    <3>1. new # <<>> /\ all[k] = ps[n] /\ all[k + 1] = new[1]
      BY <1>1, <2>2
    <3> QED
      BY <3>1
  <2>3. CASE k > n
    <3>1. k - n \in 1..Len(new) - 1 /\ all[k] = new[k - n] /\ all[k + 1] = new[(k - n) + 1]
      BY <1>1, <2>3
    <3> QED
      BY <3>1 DEF Linked
  <2> QED
    BY <1>1, <2>1, <2>2, <2>3
<1>4. all # <<>> /\ all[1].offset = 0
  BY <1>1 DEF Tiles
<1> QED
  BY <1>1, <1>2, <1>3, <1>4 DEF Tiles

\* Filling up the last page keeps a list without a gap, and moves only its end.
LEMMA LastPageTiles ==
  ASSUME NEW ps, Tiles(ps), ps # <<>>,
         NEW bytes \in Nat, 0 < bytes, bytes <= PageSize, NEW is_init \in BOOLEAN
  PROVE  Tiles([ps EXCEPT ![Len(ps)] = Page(ps[Len(ps)].offset, bytes, is_init)])
<1> DEFINE n    == Len(ps)
           last == Page(ps[n].offset, bytes, is_init)
           all  == [ps EXCEPT ![n] = last]
<1>1. ps \in Seq(PageType) /\ n \in Nat \ {0} /\ ps[n] \in PageType
  BY DEF Tiles
<1>2. last \in PageType
  BY <1>1 DEF Page, PageType
<1>3. /\ all \in Seq(PageType) /\ Len(all) = n
      /\ all[n] = last
      /\ \A k \in 1..n - 1 : all[k] = ps[k]
  BY <1>1, <1>2
<1>4. NoneEmpty(all)
  BY <1>1, <1>3 DEF NoneEmpty, Tiles, Page
<1>5. Linked(all)
  <2> SUFFICES ASSUME NEW k \in 1..n - 1
               PROVE  all[k].bytes = PageSize /\ all[k + 1].offset = NextOf(all[k])
    BY <1>3 DEF Linked
  <2>1. all[k] = ps[k] /\ ps[k].bytes = PageSize /\ ps[k + 1].offset = NextOf(ps[k])
    BY <1>3 DEF Tiles, Linked
  <2>2. all[k + 1].offset = ps[k + 1].offset
    BY <1>1, <1>3 DEF Page
  <2> QED
    BY <2>1, <2>2
<1>6. all # <<>> /\ all[1].offset = 0
  BY <1>1, <1>3 DEF Tiles, Page
<1> QED
  BY <1>3, <1>4, <1>5, <1>6 DEF Tiles

\* Resize to a larger size.
LEMMA GrownTiles ==
  ASSUME NEW ps, Tiles(ps), ps # <<>>, NEW size \in Nat, Size(ps) < size,
         NEW is_init \in BOOLEAN
  PROVE  Tiles(Grown(ps, size, is_init))
<1> DEFINE n     == Len(ps)
           p     == ps[n]
           upto  == IF size - p.offset > PageSize THEN p.offset + PageSize ELSE size
           first == IF p.bytes < PageSize
                    THEN [ps EXCEPT ![n] = Page(p.offset, upto - p.offset, is_init)]
                    ELSE ps
           from  == NextOf(first[n])
           new   == NewPages(from, size, is_init)
<1>1. /\ ps \in Seq(PageType) /\ n \in Nat \ {0} /\ p \in PageType
      /\ 0 < p.bytes /\ p.bytes <= PageSize
      /\ Size(ps) = p.offset + p.bytes
  BY DEF Tiles, NoneEmpty, Size, Last, NextOf
<1>2. /\ Tiles(first) /\ Len(first) = n /\ first # <<>>
      /\ from \in Nat /\ from <= size
      /\ from < size => first[n].bytes = PageSize
  <2>1. CASE p.bytes < PageSize
    <3>1. upto - p.offset \in Nat /\ 0 < upto - p.offset /\ upto - p.offset <= PageSize
      BY <1>1, PageSizeAssumption DEF PageType
    <3>2. first = [ps EXCEPT ![n] = Page(p.offset, upto - p.offset, is_init)]
      BY <2>1
    <3>3. Tiles(first)
      BY <3>1, <3>2, LastPageTiles
    <3>4. Len(first) = n /\ first[n] = Page(p.offset, upto - p.offset, is_init)
      BY <1>1, <3>2
    <3>5. from = upto /\ first[n].bytes = upto - p.offset
      <4>1. upto \in Int /\ p.offset \in Int
        BY <1>1, PageSizeAssumption DEF PageType
      <4> HIDE DEF first, upto, p
      <4> QED
        BY <3>4, <4>1 DEF Page, NextOf
    <3> QED
      BY <1>1, <3>3, <3>4, <3>5, PageSizeAssumption DEF PageType
  <2>2. CASE ~(p.bytes < PageSize)
    BY <1>1, <2>2, PageSizeAssumption DEF NextOf, PageType
  <2> QED
    BY <2>1, <2>2
<1>3. Grown(ps, size, is_init) = first \o new
  BY DEF Grown
<1> HIDE DEF first
<1>4. /\ new \in Seq(PageType) /\ NoneEmpty(new) /\ Linked(new)
      /\ Len(new) > 0 => new[1].offset = from
      /\ Len(new) = PageCount(size - from)
  BY <1>2, NewPagesTile
<1>5. new # <<>> => from < size
  BY <1>2, <1>4, PageSizeAssumption DEF PageCount
<1>6. new # <<>> => new[1].offset = from /\ first[n].bytes = PageSize
  BY <1>2, <1>4, <1>5
<1> HIDE DEF new
<1>7. Tiles(first \o new)
  BY <1>2, <1>4, <1>6, ConcatTiles
<1> QED
  BY <1>3, <1>7

\* Setting flags changes no offset and no length.
LEMMA FlagTiles ==
  ASSUME NEW ps, Tiles(ps), NEW start \in Nat, NEW len \in Nat, NEW is_init \in BOOLEAN
  PROVE  Tiles(Flag(ps, start, len, is_init))
<1> DEFINE all == Flag(ps, start, len, is_init)
<1>1. ps \in Seq(PageType) /\ Len(ps) \in Nat
  BY DEF Tiles
<1>2. /\ all \in Seq(PageType) /\ Len(all) = Len(ps)
      /\ \A k \in 1..Len(ps) : all[k].offset = ps[k].offset /\ all[k].bytes = ps[k].bytes
  <2>1. \A k \in 1..Len(ps) : ps[k] \in PageType
    BY <1>1
  <2>2. /\ Len(all) = Len(ps) /\ DOMAIN all = 1..Len(ps)
        /\ \A k \in 1..Len(ps) : all[k] \in PageType /\ all[k].offset = ps[k].offset
                                                   /\ all[k].bytes = ps[k].bytes
    BY <1>1, <2>1 DEF Flag, Page, PageType
  <2> QED
    BY <1>1, <2>2 DEF Flag
<1> HIDE DEF all
<1>3. NoneEmpty(all)
  BY <1>1, <1>2 DEF Tiles, NoneEmpty
<1>4. Linked(all)
  BY <1>1, <1>2 DEF Tiles, Linked, NextOf
<1>5. all # <<>> => all[1].offset = 0
  BY <1>1, <1>2 DEF Tiles
<1> QED
  BY <1>2, <1>3, <1>4, <1>5 DEF Tiles, all

LEMMA InitPagesTile ==
  ASSUME NEW size \in Nat, NEW is_init \in BOOLEAN
  PROVE  Tiles(InitPages(size, is_init))
<1>1. 0 \in Nat /\ 0 <= size
  OBVIOUS
<1>2. /\ InitPages(size, is_init) \in Seq(PageType)
      /\ NoneEmpty(InitPages(size, is_init))
      /\ Linked(InitPages(size, is_init))
      /\ Len(InitPages(size, is_init)) > 0 => InitPages(size, is_init)[1].offset = 0
  BY <1>1, NewPagesTile DEF InitPages
<1>3. InitPages(size, is_init) # <<>> => Len(InitPages(size, is_init)) > 0
  BY <1>2
<1> QED
  BY <1>2, <1>3 DEF Tiles

LEMMA SetInitTiles ==
  ASSUME NEW ps, Tiles(ps), NEW start \in Nat, NEW len \in Nat, NEW is_init \in BOOLEAN
  PROVE  Tiles(SetInit(ps, start, len, is_init))
<1> DEFINE size == start + len
           grown == IF Size(ps) < size THEN Resize(ps, size, FALSE) ELSE ps
<1>1. Size(ps) \in Nat /\ (Size(ps) # 0 => ps # <<>>)
  <2>1. ps # <<>> => ps[Len(ps)] \in PageType
    BY DEF Tiles
  <2> QED
    BY <2>1 DEF Size, Last, NextOf, PageType
<1>2. Tiles(grown)
  <2> DEFINE no == FALSE
  <2>0. no \in BOOLEAN /\ size \in Nat
    OBVIOUS
  <2>1. CASE Size(ps) < size /\ Size(ps) = 0
    <3>1. grown = InitPages(size, no)
      BY <2>1 DEF Resize
    <3>2. Tiles(InitPages(size, no))
      BY <2>0, InitPagesTile
    <3> QED
      BY <3>1, <3>2
  <2>2. CASE Size(ps) < size /\ Size(ps) # 0
    <3>1. grown = Grown(ps, size, no)
      BY <2>2 DEF Resize
    <3>2. ps # <<>> /\ Size(ps) < size
      BY <1>1, <2>2
    <3>3. Tiles(Grown(ps, size, no))
      <4> HIDE DEF no
      <4> QED
        BY <2>0, <3>2, GrownTiles
    <3> QED
      BY <3>1, <3>3
  <2>3. CASE ~(Size(ps) < size)
    BY <2>3
  <2> QED
    BY <2>1, <2>2, <2>3
<1>3. SetInit(ps, start, len, is_init) = Flag(grown, start, len, is_init)
  BY DEF SetInit
<1> QED
  BY <1>2, <1>3, FlagTiles

-----------------------------------------------------------------------------
(* What the list means: page k of the file is the entry k + 1 of the list.  *)
(* (That an entry's offset follows from its place would take an induction   *)
(* along the list; as an invariant of its own it takes none.)               *)

Numbered(ps) == \A k \in 1..Len(ps) : ps[k].offset = (k - 1) * PageSize

Even(ps) == Tiles(ps) /\ Numbered(ps)

LEMMA Multiples ==
  ASSUME NEW j \in Int, NEW k \in Int
  PROVE  /\ j * PageSize \in Int
         /\ (j + 1) * PageSize = j * PageSize + PageSize
         /\ j < k => j * PageSize + PageSize <= k * PageSize
         /\ j <= k => j * PageSize <= k * PageSize
<1>1. PageSize \in Nat /\ PageSize > 0
  BY PageSizeAssumption
<1>2. j * PageSize \in Int /\ (j + 1) * PageSize = j * PageSize + PageSize
  BY <1>1
<1>3. ASSUME j < k PROVE j * PageSize + PageSize <= k * PageSize
  <2>1. (k - (j + 1)) * PageSize >= 0
    BY <1>1, <1>3
  <2>2. (k - (j + 1)) * PageSize = k * PageSize - (j + 1) * PageSize
    BY <1>1
  <2> QED
    BY <1>1, <1>2, <2>1, <2>2
<1>4. j <= k => j * PageSize <= k * PageSize
  BY <1>1, <1>2, <1>3
<1> QED
  BY <1>2, <1>3, <1>4

\* The entries are the pages of a file of that size.
LEMMA EvenMeans ==
  ASSUME NEW ps, Even(ps)
  PROVE  /\ Size(ps) \in Nat
         /\ \A k \in Nat : k \in PagesOf(Size(ps)) <=> k < Len(ps)
         /\ \A k \in Nat : k < Len(ps) => /\ NextOf(ps[k + 1]) = PageEnd(Size(ps), k)
                                          /\ ps[k + 1].offset = k * PageSize
         /\ \A k \in 1..Len(ps) : ps[k].bytes \in Nat /\ 0 < ps[k].bytes
<1> DEFINE n == Len(ps)
<1>1. /\ ps \in Seq(PageType) /\ n \in Nat
      /\ \A k \in 1..n : /\ ps[k] \in PageType /\ ps[k].offset = (k - 1) * PageSize
                         /\ ps[k].bytes \in Nat /\ 0 < ps[k].bytes /\ ps[k].bytes <= PageSize
      /\ \A k \in 1..n - 1 : ps[k].bytes = PageSize
  <2>1. ps \in Seq(PageType) /\ n \in Nat
    BY DEF Even, Tiles
  <2>2. ASSUME NEW k \in 1..n PROVE ps[k] \in PageType /\ ps[k].bytes \in Nat
    <3>1. ps[k] \in PageType
      BY <2>1
    <3> QED
      BY <3>1 DEF PageType
  <2> QED
    BY <2>1, <2>2 DEF Even, Tiles, NoneEmpty, Linked, Numbered
<1>2. CASE n = 0
  <2>1. Size(ps) = 0
    BY <1>1, <1>2 DEF Size
  <2>2. \A k \in Nat : ~(k * PageSize < 0)
    BY PageSizeAssumption
  <2> QED
    BY <1>2, <2>1, <2>2 DEF PagesOf
<1>3. CASE n > 0
  <2> DEFINE low  == (n - 1) * PageSize
             high == n * PageSize
             size == low + ps[n].bytes
  <2>1. Size(ps) = size /\ n \in 1..n
    BY <1>1, <1>3 DEF Size, Last, NextOf
  <2>2. low \in Nat /\ low + PageSize = high
    BY <1>1, <1>3, PageSizeAssumption
  <2>3. size \in Nat /\ low < size /\ size <= high
    <3> HIDE DEF low, high
    <3> QED
      BY <1>1, <2>1, <2>2, PageSizeAssumption
  <2>4. ASSUME NEW k \in Nat
        PROVE  /\ k * PageSize \in Nat /\ k <= k * PageSize
               /\ k < n => k * PageSize <= low
               /\ k >= n => high <= k * PageSize
               /\ k < n - 1 => k * PageSize + PageSize <= low
               /\ (k + 1) * PageSize = k * PageSize + PageSize
    <3>1. k * PageSize \in Nat /\ k <= k * PageSize
      BY PageSizeAssumption
    <3>2. k < n => k * PageSize <= low
      BY <1>1, Multiples
    <3>3. k >= n => high <= k * PageSize
      BY <1>1, Multiples
    <3>4. k < n - 1 => k * PageSize + PageSize <= low
      BY <1>1, Multiples
    <3>5. (k + 1) * PageSize = k * PageSize + PageSize
      BY Multiples
    <3> QED
      BY <3>1, <3>2, <3>3, <3>4, <3>5
  <2> HIDE DEF size
  <2>5. ASSUME NEW k \in Nat PROVE k \in PagesOf(size) <=> k < n
    <3> HIDE DEF low, high
    <3> DEFINE at == k * PageSize
    <3>1. k \in PagesOf(size) <=> k \in 0..size /\ at < size
      BY DEF PagesOf
    <3>2. at \in Nat /\ k <= at /\ (k < n => at <= low) /\ (k >= n => high <= at)
      BY <2>4
    <3> HIDE DEF at
    <3> QED
      BY <1>1, <2>2, <2>3, <3>1, <3>2, PageSizeAssumption
  <2>6. ASSUME NEW k \in Nat, k < n
        PROVE  NextOf(ps[k + 1]) = PageEnd(size, k) /\ ps[k + 1].offset = k * PageSize
    <3>1. ps[k + 1].offset = k * PageSize /\ k + 1 \in 1..n /\ ps[k + 1].bytes \in Nat
      BY <1>1, <2>6
    <3>2. CASE k = n - 1
      <4>1. NextOf(ps[k + 1]) = size
        BY <1>1, <3>1, <3>2 DEF NextOf, size
      <4>2. ~((k + 1) * PageSize < size)
        <5>1. k + 1 = n
          BY <1>1, <3>2
        <5>2. (k + 1) * PageSize = high
          BY <5>1
        <5> HIDE DEF low, high
        <5> QED
          BY <2>2, <2>3, <5>2, PageSizeAssumption
      <4> QED
        BY <3>1, <4>1, <4>2 DEF PageEnd
    <3>3. CASE k < n - 1
      <4>1. ps[k + 1].bytes = PageSize
        BY <1>1, <3>1, <3>3
      <4>2. NextOf(ps[k + 1]) = (k + 1) * PageSize
        BY <2>4, <3>1, <4>1 DEF NextOf
      <4>3. (k + 1) * PageSize < size
        BY <2>2, <2>3, <2>4, <3>3, PageSizeAssumption
      <4> QED
        BY <3>1, <4>2, <4>3 DEF PageEnd
    <3> QED
      BY <1>1, <2>6, <3>2, <3>3
  <2> QED
    BY <1>1, <2>1, <2>3, <2>5, <2>6
<1> QED
  BY <1>1, <1>2, <1>3

\* New pages carry one flag, go on with the numbers, and end where they should.
LEMMA NewPagesMean ==
  ASSUME NEW from \in Nat, NEW to \in Nat, from <= to, NEW is_init \in BOOLEAN
  PROVE  /\ Len(NewPages(from, to, is_init)) \in Nat
         /\ \A j \in 1..Len(NewPages(from, to, is_init)) :
              /\ NewPages(from, to, is_init)[j].offset = from + (j - 1) * PageSize
              /\ NewPages(from, to, is_init)[j].init = is_init
         /\ IF NewPages(from, to, is_init) = <<>> THEN from = to
            ELSE NextOf(Last(NewPages(from, to, is_init))) = to
<1> DEFINE n   == PageCount(to - from)
           new == NewPages(from, to, is_init)
<1>1. n \in Nat /\ (to - from > 0 => n > 0) /\ to - from <= n * PageSize
  BY PageCountBounds
<1>2. /\ Len(new) = n /\ new \in Seq(PageType)
      /\ \A j \in 1..n : new[j] = Page(from + (j - 1) * PageSize,
                                       IF from + (j - 1) * PageSize + PageSize < to THEN PageSize
                                       ELSE to - (from + (j - 1) * PageSize), is_init)
  BY NewPagesTile DEF NewPages
<1>3. CASE n = 0
  <2>1. new = <<>> /\ from = to
    BY <1>1, <1>2, <1>3
  <2> QED
    BY <1>2, <1>3, <2>1
<1>4. CASE n # 0
  <2>1. (n - 1) * PageSize \in Int /\ (n - 1) * PageSize + PageSize = n * PageSize
    BY <1>1, PageSizeAssumption
  <2>2. new[n].offset = from + (n - 1) * PageSize /\ new[n].bytes = to - (from + (n - 1) * PageSize)
    <3>1. n \in 1..n /\ ~(from + (n - 1) * PageSize + PageSize < to)
      BY <1>1, <1>4, <2>1, PageSizeAssumption
    <3> QED
      BY <1>2, <3>1 DEF Page
  <2>3. NextOf(Last(new)) = to /\ new # <<>>
    BY <1>1, <1>2, <1>4, <2>1, <2>2 DEF NextOf, Last
  <2> QED
    BY <1>1, <1>2, <2>3 DEF Page
<1> QED
  BY <1>1, <1>3, <1>4

\* The list a file begins with.
LEMMA InitPagesMean ==
  ASSUME NEW size \in Nat, NEW is_init \in BOOLEAN
  PROVE  /\ Even(InitPages(size, is_init)) /\ Size(InitPages(size, is_init)) = size
         /\ \A k \in 1..Len(InitPages(size, is_init)) : InitPages(size, is_init)[k].init = is_init
<1> DEFINE new == NewPages(0, size, is_init)
<1>1. InitPages(size, is_init) = new /\ Tiles(new)
  BY InitPagesTile DEF InitPages
<1> 0 \in Nat /\ 0 <= size
  OBVIOUS
<1>2. /\ Len(new) \in Nat
      /\ \A j \in 1..Len(new) : new[j].offset = 0 + (j - 1) * PageSize /\ new[j].init = is_init
      /\ IF new = <<>> THEN 0 = size ELSE NextOf(Last(new)) = size
  BY NewPagesMean
<1> HIDE DEF new
<1>3. Numbered(new)
  <2> SUFFICES ASSUME NEW k \in 1..Len(new) PROVE new[k].offset = (k - 1) * PageSize
    BY DEF Numbered
  <2>1. (k - 1) * PageSize \in Int
    BY <1>2, PageSizeAssumption
  <2> QED
    BY <1>2, <2>1
<1>4. Size(new) = size
  BY <1>2 DEF Size
<1> QED
  BY <1>1, <1>2, <1>3, <1>4 DEF Even

\* A list that grows keeps the flags of its full pages; all else is not loaded.
LEMMA GrownMeans ==
  ASSUME NEW ps, Even(ps), ps # <<>>, NEW size \in Nat, Size(ps) < size, NEW no \in BOOLEAN, no = FALSE
  PROVE  /\ Even(Grown(ps, size, no)) /\ Size(Grown(ps, size, no)) = size
         /\ \A k \in 1..Len(Grown(ps, size, no)) :
              Grown(ps, size, no)[k].init = (k <= Len(ps) /\ ps[k].bytes = PageSize /\ ps[k].init)
<1> DEFINE n     == Len(ps)
           p     == ps[n]
           upto  == IF size - p.offset > PageSize THEN p.offset + PageSize ELSE size
           first == IF p.bytes < PageSize
                    THEN [ps EXCEPT ![n] = Page(p.offset, upto - p.offset, no)]
                    ELSE ps
           from  == NextOf(first[n])
           new   == NewPages(from, size, no)
           all   == Grown(ps, size, no)
<1>1. /\ ps \in Seq(PageType) /\ n \in Nat \ {0} /\ p \in PageType /\ n \in 1..n
      /\ \A k \in 1..n : ps[k].offset = (k - 1) * PageSize /\ ps[k] \in PageType
      /\ 0 < p.bytes /\ p.bytes <= PageSize
      /\ \A k \in 1..n - 1 : ps[k].bytes = PageSize
      /\ Size(ps) = p.offset + p.bytes
  BY DEF Even, Tiles, NoneEmpty, Linked, Numbered, Size, Last, NextOf
<1>2. p.offset \in Nat /\ p.bytes \in Nat /\ p.init \in BOOLEAN /\ upto \in Nat
      /\ upto - p.offset \in Nat /\ 0 < upto - p.offset /\ upto - p.offset <= PageSize /\ upto <= size
      /\ (upto < size => upto - p.offset = PageSize)
  BY <1>1, PageSizeAssumption DEF PageType
<1>3. all = first \o new /\ Tiles(all)
  BY GrownTiles DEF Even, Grown
<1>4. /\ first \in Seq(PageType) /\ Len(first) = n
      /\ \A k \in 1..n : first[k].offset = ps[k].offset
      /\ \A k \in 1..n - 1 : first[k] = ps[k]
      /\ IF p.bytes < PageSize THEN from = upto /\ first[n].init = FALSE
         ELSE from = p.offset + PageSize /\ first[n].init = p.init
  <2>1. CASE p.bytes < PageSize
    <3> DEFINE q == Page(p.offset, upto - p.offset, no)
    <3> HIDE DEF upto
    <3>1. q \in PageType /\ q.offset = p.offset /\ q.init = FALSE /\ NextOf(q) = upto
      BY <1>2 DEF Page, PageType, NextOf
    <3>2. first = [ps EXCEPT ![n] = q]
      BY <2>1
    <3> HIDE DEF q
    <3>3. /\ first \in Seq(PageType) /\ Len(first) = n /\ first[n] = q
          /\ \A k \in 1..n - 1 : first[k] = ps[k]
      BY <1>1, <3>1, <3>2
    <3> HIDE DEF first
    <3>4. \A k \in 1..n : k = n \/ k \in 1..n - 1
      BY <1>1
    <3> QED
      BY <2>1, <3>1, <3>3, <3>4
  <2>2. CASE ~(p.bytes < PageSize)
    <3>1. first = ps /\ p.bytes = PageSize
      BY <1>1, <1>2, <2>2, PageSizeAssumption
    <3> QED
      BY <1>1, <2>2, <3>1 DEF NextOf
  <2> QED
    BY <2>1, <2>2
<1>5. from \in Nat /\ from <= size /\ (from < size => from = n * PageSize)
  <2> DEFINE high == n * PageSize
  <2>1. p.offset + PageSize = high
    <3>1. (n - 1) * PageSize + PageSize = n * PageSize /\ p.offset = (n - 1) * PageSize
      BY <1>1, PageSizeAssumption
    <3> QED
      BY <3>1
  <2>2. p.bytes = PageSize \/ p.bytes < PageSize
    BY <1>1, <1>2, PageSizeAssumption
  <2>3. Size(ps) \in Nat /\ PageSize \in Nat
    BY <1>1, <1>2, PageSizeAssumption
  <2>4. Size(ps) = p.offset + p.bytes
    BY <1>1
  <2> HIDE DEF n, p, upto, first, from, high, new, all
  <2>5. CASE p.bytes = PageSize
    <3>1. from = high /\ from = Size(ps)
      BY <1>2, <1>4, <2>1, <2>3, <2>4, <2>5
    <3> QED
      BY <2>3, <3>1 DEF high
  <2>6. CASE p.bytes < PageSize
    <3>1. from = upto
      BY <1>4, <2>6
    <3>2. upto < size => upto = high
      BY <1>2, <2>1, <2>3
    <3> QED
      BY <1>2, <3>1, <3>2 DEF high
  <2> QED
    BY <2>2, <2>5, <2>6
<1> HIDE DEF first, from, upto, all
<1>6. /\ new \in Seq(PageType) /\ Len(new) \in Nat
      /\ \A j \in 1..Len(new) : new[j].offset = from + (j - 1) * PageSize /\ new[j].init = FALSE
      /\ IF new = <<>> THEN from = size ELSE NextOf(Last(new)) = size
      /\ Len(new) = PageCount(size - from)
  <2>1. from \in Nat /\ from <= size
    BY <1>5
  <2>2. new \in Seq(PageType) /\ Len(new) = PageCount(size - from)
    BY <2>1, NewPagesTile
  <2>3. /\ Len(new) \in Nat
        /\ \A j \in 1..Len(new) : new[j].offset = from + (j - 1) * PageSize /\ new[j].init = no
        /\ IF new = <<>> THEN from = size ELSE NextOf(Last(new)) = size
    BY <2>1, NewPagesMean
  <2> QED
    BY <2>2, <2>3
<1>7. new # <<>> => from < size
  <2>1. PageCount(0) = 0
    BY PageSizeAssumption DEF PageCount
  <2>2. from = size => Len(new) = 0
    BY <1>6, <2>1
  <2> HIDE DEF new
  <2> QED
    BY <1>5, <1>6, <2>2
<1> HIDE DEF new
<1>8. /\ Len(all) = n + Len(new)
      /\ \A k \in 1..n : all[k] = first[k]
      /\ \A k \in n + 1..n + Len(new) : all[k] = new[k - n]
  <2>1. first \in Seq(PageType) /\ Len(first) = n /\ n \in Nat
    BY <1>1, <1>4
  <2>2. new \in Seq(PageType) /\ Len(new) \in Nat /\ all = first \o new
    BY <1>3, <1>6
  <2>3. /\ Len(first \o new) = Len(first) + Len(new)
        /\ \A k \in 1..Len(first) + Len(new) :
             (first \o new)[k] = IF k <= Len(first) THEN first[k] ELSE new[k - Len(first)]
    BY <2>1, <2>2, ConcatProperties
  <2> HIDE DEF n
  <2>4. Len(all) = n + Len(new)
    BY <2>1, <2>2, <2>3
  <2>5. ASSUME NEW k \in 1..n PROVE all[k] = first[k]
    <3>1. k \in 1..n + Len(new) /\ k <= n
      BY <2>1, <2>2
    <3> QED
      BY <2>1, <2>2, <2>3, <3>1
  <2>6. ASSUME NEW k \in n + 1..n + Len(new) PROVE all[k] = new[k - n]
    <3>1. k \in 1..n + Len(new) /\ ~(k <= n)
      BY <2>1, <2>2
    <3> QED
      BY <2>1, <2>2, <2>3, <3>1
  <2> QED
    BY <2>4, <2>5, <2>6
<1>9. Numbered(all)
  <2> SUFFICES ASSUME NEW k \in 1..n + Len(new) PROVE all[k].offset = (k - 1) * PageSize
    BY <1>8 DEF Numbered
  <2>1. CASE k <= n
    <3>1. k \in 1..n
      BY <1>1, <1>6, <2>1
    <3> QED
      BY <1>1, <1>4, <1>8, <3>1
  <2>2. CASE k > n
    <3>1. k - n \in 1..Len(new) /\ all[k] = new[k - n] /\ new # <<>>
      BY <1>1, <1>6, <1>8, <2>2
    <3>2. all[k].offset = n * PageSize + ((k - n) - 1) * PageSize
      BY <1>5, <1>6, <1>7, <3>1
    <3>3. n * PageSize + ((k - n) - 1) * PageSize = (k - 1) * PageSize
      BY <1>1, <2>2, PageSizeAssumption
    <3> QED
      BY <3>2, <3>3
  <2> QED
    BY <1>1, <2>1, <2>2
<1>10. Size(all) = size
  <2>1. all # <<>> /\ Last(all) = IF new = <<>> THEN first[n] ELSE Last(new)
    <3>1. new = <<>> => Len(all) = n
      BY <1>1, <1>8
    <3>2. new # <<>> => Len(all) - n = Len(new) /\ Len(all) \in n + 1..n + Len(new)
      BY <1>1, <1>6, <1>8
    <3> QED
      BY <1>1, <1>3, <1>8, <3>1, <3>2 DEF Tiles, Last
  <2> QED
    BY <1>6, <2>1 DEF Size, from
<1>11. ASSUME NEW k \in 1..n + Len(new)
       PROVE  all[k].init = (k <= n /\ ps[k].bytes = PageSize /\ ps[k].init)
  <2>1. CASE k < n
    <3>1. k \in 1..n - 1 /\ k \in 1..n
      BY <1>1, <2>1
    <3>2. all[k] = ps[k] /\ ps[k].bytes = PageSize /\ ps[k].init \in BOOLEAN
      BY <1>1, <1>4, <1>8, <3>1 DEF PageType
    <3> QED
      BY <3>1, <3>2
  <2>2. CASE k = n
    <3>1. all[k] = first[n] /\ (p.bytes = PageSize <=> ~(p.bytes < PageSize))
      BY <1>1, <1>2, <1>8, <2>2, PageSizeAssumption
    <3>2. ps[k] = p /\ k <= n
      BY <1>1, <2>2
    <3> HIDE DEF n, p
    <3>3. CASE p.bytes < PageSize
      BY <1>4, <3>1, <3>2, <3>3
    <3>4. CASE p.bytes = PageSize
      BY <1>2, <1>4, <3>1, <3>2, <3>4
    <3> QED
      BY <3>1, <3>3, <3>4
  <2>3. CASE k > n
    <3>1. k - n \in 1..Len(new) /\ all[k] = new[k - n] /\ ~(k <= n)
      BY <1>1, <1>6, <1>8, <2>3
    <3> QED
      BY <1>6, <3>1
  <2> QED
    BY <1>1, <1>6, <2>1, <2>2, <2>3
<1> QED
  BY <1>3, <1>8, <1>9, <1>10, <1>11 DEF Even, all

LEMMA LoadedMeans ==
  ASSUME NEW ps, ps \in Seq(PageType)
  PROVE  /\ MapOf(ps) = Map(Size(ps), MapOf(ps).loaded)
         /\ \A k : k \in MapOf(ps).loaded <=> k \in Nat /\ k < Len(ps) /\ ps[k + 1].init
BY DEF MapOf, Map

\* The pages that are loaded once the walk has flagged the area.
FlaggedPages(ps, start, len, is_init) ==
  IF is_init THEN MapOf(ps).loaded \cup Touched(Size(ps), start, len)
             ELSE MapOf(ps).loaded \ Touched(Size(ps), start, len)

\* The walk of SetInit flags the pages that overlap the area, and no others.
LEMMA FlagMeans ==
  ASSUME NEW ps, Even(ps), NEW start \in Nat, NEW len \in Nat, NEW is_init \in BOOLEAN
  PROVE  /\ Even(Flag(ps, start, len, is_init))
         /\ MapOf(Flag(ps, start, len, is_init)) =
              Map(Size(ps), FlaggedPages(ps, start, len, is_init))
<1> DEFINE f      == Flag(ps, start, len, is_init)
           out(k) == EndOf(ps[k]) < start \/ start + len <= ps[k].offset
<1>1. ps \in Seq(PageType) /\ Len(ps) \in Nat /\ Tiles(f) /\ f \in Seq(PageType)
  BY FlagTiles DEF Even, Tiles
<1>2. /\ Len(f) = Len(ps)
      /\ \A k \in 1..Len(ps) : f[k].offset = ps[k].offset /\ f[k].bytes = ps[k].bytes
                             /\ f[k].init = IF out(k) THEN ps[k].init ELSE is_init
  BY <1>1 DEF Flag, Page
<1> HIDE DEF f
<1>3. Even(f)
  BY <1>1, <1>2 DEF Even, Numbered
<1>4. Size(f) = Size(ps)
  <2>1. Len(ps) > 0 => Len(ps) \in 1..Len(ps)
    BY <1>1
  <2>2. f = <<>> <=> ps = <<>>
    BY <1>1, <1>2
  <2> QED
    BY <1>1, <1>2, <2>1, <2>2 DEF Size, Last, NextOf
<1>5. ASSUME NEW k \in Nat, k < Len(ps)
      PROVE  k \in Touched(Size(ps), start, len) <=> ~out(k + 1)
  <2>1. /\ k \in PagesOf(Size(ps)) /\ NextOf(ps[k + 1]) = PageEnd(Size(ps), k)
        /\ ps[k + 1].offset = k * PageSize /\ k + 1 \in 1..Len(ps)
        /\ ps[k + 1].bytes \in Nat /\ 0 < ps[k + 1].bytes
    BY <1>1, <1>5, EvenMeans
  <2> DEFINE at == k * PageSize
             p  == ps[k + 1]
  <2>2. k \in Touched(Size(ps), start, len) <=> at < start + len /\ start < NextOf(p)
    BY <2>1 DEF Touched
  <2>3. p.offset = at /\ at \in Nat /\ p.bytes \in Nat /\ 0 < p.bytes
    BY <2>1, PageSizeAssumption
  <2> HIDE DEF at, p
  <2>4. out(k + 1) <=> EndOf(p) < start \/ start + len <= p.offset
    BY DEF p
  <2> QED
    BY <2>2, <2>3, <2>4 DEF EndOf, NextOf
<1>6. ASSUME NEW k
      PROVE  k \in MapOf(f).loaded <=>
               IF is_init THEN k \in MapOf(ps).loaded \/ k \in Touched(Size(ps), start, len)
                          ELSE k \in MapOf(ps).loaded /\ k \notin Touched(Size(ps), start, len)
  <2>1. /\ k \in MapOf(ps).loaded <=> k \in Nat /\ k < Len(ps) /\ ps[k + 1].init
        /\ k \in MapOf(f).loaded <=> k \in Nat /\ k < Len(ps) /\ f[k + 1].init
    BY <1>1, <1>2, LoadedMeans
  <2>2. k \in Touched(Size(ps), start, len) => k \in Nat /\ k < Len(ps)
    BY EvenMeans DEF Touched, PagesOf
  <2>3. CASE k \in Nat /\ k < Len(ps)
    <3>1. k + 1 \in 1..Len(ps)
      BY <1>1, <2>3
    <3> HIDE DEF out
    <3> QED
      BY <1>2, <1>5, <2>1, <2>3, <3>1
  <2> QED
    BY <2>1, <2>2, <2>3
<1>7. MapOf(f).loaded = IF is_init THEN MapOf(ps).loaded \cup Touched(Size(ps), start, len)
                                   ELSE MapOf(ps).loaded \ Touched(Size(ps), start, len)
  BY <1>6
<1> QED
  BY <1>1, <1>3, <1>4, <1>7, LoadedMeans DEF f, FlaggedPages

\* What SetInit does to a list that is too short for the area.
LEMMA ResizeMeans ==
  ASSUME NEW ps, Even(ps), NEW size \in Nat, Size(ps) < size
  PROVE  Even(Resize(ps, size, FALSE)) /\ MapOf(Resize(ps, size, FALSE)) = Resized(MapOf(ps), size)
<1> DEFINE no  == FALSE
           all == Resize(ps, size, no)
<1>1. no \in BOOLEAN /\ no = FALSE
  OBVIOUS
<1> HIDE DEF no
<1>2. ps \in Seq(PageType) /\ Len(ps) \in Nat /\ Size(ps) \in Nat
  BY EvenMeans DEF Even, Tiles
<1>3. Even(all) /\ Size(all) = size /\ \A k : k \in MapOf(all).loaded <=>
        k \in Nat /\ k < Len(all) /\ k < Len(ps) /\ ps[k + 1].bytes = PageSize /\ ps[k + 1].init
  <2>1. CASE Size(ps) = 0
    <3>1. all = InitPages(size, no)
      BY <2>1 DEF Resize
    <3>2. Even(all) /\ Size(all) = size /\ \A k \in 1..Len(all) : all[k].init = FALSE
      BY <1>1, <3>1, InitPagesMean
    <3>3. ~(0 < Len(ps))
      <4>1. 0 \in PagesOf(0) <=> 0 < Len(ps)
        BY <2>1, EvenMeans
      <4>2. 0 \notin PagesOf(0)
        BY PageSizeAssumption DEF PagesOf
      <4> QED
        BY <4>1, <4>2
    <3>4. all \in Seq(PageType) /\ Len(all) \in Nat
      BY <3>2 DEF Even, Tiles
    <3> HIDE DEF all
    <3>5. ASSUME NEW k PROVE k \notin MapOf(all).loaded /\ ~(k \in Nat /\ k < Len(ps))
      <4>1. k \in MapOf(all).loaded <=> k \in Nat /\ k < Len(all) /\ all[k + 1].init
        BY <3>4, LoadedMeans
      <4>2. k \in Nat /\ k < Len(all) => k + 1 \in 1..Len(all)
        BY <3>4
      <4>3. k \in Nat => ~(k < Len(ps))
        BY <1>2, <3>3
      <4> QED
        BY <3>2, <4>1, <4>2, <4>3
    <3> QED
      BY <3>2, <3>5
  <2>2. CASE Size(ps) # 0
    <3>1. all = Grown(ps, size, no) /\ ps # <<>>
      BY <2>2 DEF Resize, Size
    <3> DEFINE more == Grown(ps, size, no)
    <3>0. /\ Even(more) /\ Size(more) = size
          /\ \A k \in 1..Len(more) :
               more[k].init = (k <= Len(ps) /\ ps[k].bytes = PageSize /\ ps[k].init)
      BY <1>1, <3>1, GrownMeans
    <3>5. all = more
      BY <3>1
    <3> HIDE DEF all, more
    <3>2. /\ Even(all) /\ Size(all) = size
          /\ \A k \in 1..Len(all) :
               all[k].init = (k <= Len(ps) /\ ps[k].bytes = PageSize /\ ps[k].init)
      BY <3>0, <3>5
    <3>3. all \in Seq(PageType) /\ Len(all) \in Nat
      BY <3>2 DEF Even, Tiles
    <3> HIDE DEF all
    <3>4. ASSUME NEW k
          PROVE  k \in MapOf(all).loaded <=>
                   k \in Nat /\ k < Len(all) /\ k < Len(ps) /\ ps[k + 1].bytes = PageSize /\ ps[k + 1].init
      <4>1. k \in MapOf(all).loaded <=> k \in Nat /\ k < Len(all) /\ all[k + 1].init
        BY <3>3, LoadedMeans
      <4>2. k \in Nat /\ k < Len(all) => k + 1 \in 1..Len(all) /\ (k + 1 <= Len(ps) <=> k < Len(ps))
        BY <1>2, <3>3
      <4> QED
        BY <3>2, <4>1, <4>2
    <3> QED
      BY <3>2, <3>4
  <2> QED
    BY <2>1, <2>2
<1> HIDE DEF all
<1>4. ASSUME NEW k \in Nat, k < Len(ps)
      PROVE  k < Len(all) /\ (ps[k + 1].bytes = PageSize <=> (k + 1) * PageSize <= Size(ps))
  <2>1. /\ k \in PagesOf(Size(ps)) /\ NextOf(ps[k + 1]) = PageEnd(Size(ps), k)
        /\ ps[k + 1].offset = k * PageSize /\ k + 1 \in 1..Len(ps)
        /\ ps[k + 1].bytes \in Nat
    BY <1>2, <1>4, EvenMeans
  <2>2. k \in PagesOf(size)
    BY <1>2, <2>1, PageSizeAssumption DEF PagesOf
  <2>3. k < Len(all)
    BY <1>3, <2>2, EvenMeans
  <2> DEFINE at   == k * PageSize
             next == (k + 1) * PageSize
             p    == ps[k + 1]
  <2>4. at \in Int /\ next = at + PageSize /\ PageSize \in Nat
    BY Multiples, PageSizeAssumption
  <2>5. NextOf(p) = IF next < Size(ps) THEN next ELSE Size(ps)
    BY <2>1 DEF PageEnd
  <2>6. p.offset = at /\ p.bytes \in Nat
    BY <2>1
  <2>7. p.offset + p.bytes = NextOf(p)
    BY DEF NextOf
  <2>8. p.bytes <= PageSize
    BY <2>1 DEF Even, Tiles, NoneEmpty
  <2> HIDE DEF at, next, p
  <2>9. p.bytes = PageSize <=> next <= Size(ps)
    BY <1>2, <2>4, <2>5, <2>6, <2>7, <2>8
  <2> QED
    BY <2>3, <2>9 DEF next, p
<1>5. MapOf(all) = Resized(MapOf(ps), size)
  <2>1. MapOf(ps).size = Size(ps)
    BY DEF MapOf, Map
  <2>2. \A k : k \in MapOf(ps).loaded <=> k \in Nat /\ k < Len(ps) /\ ps[k + 1].init
    BY <1>2, LoadedMeans
  <2>3. MapOf(all).loaded = {k \in MapOf(ps).loaded : (k + 1) * PageSize <= Size(ps)}
    BY <1>3, <1>4, <2>2
  <2>4. MapOf(all) = Map(size, MapOf(all).loaded)
    BY <1>3, LoadedMeans DEF Even, Tiles
  <2> QED
    BY <2>1, <2>3, <2>4 DEF Resized
<1> QED
  BY <1>3, <1>5 DEF all, no

LEMMA SetInitMeans ==
  ASSUME NEW ps, Even(ps), NEW start \in Nat, NEW len \in Nat, NEW is_init \in BOOLEAN
  PROVE  /\ Even(SetInit(ps, start, len, is_init))
         /\ MapOf(SetInit(ps, start, len, is_init)) = Marked(MapOf(ps), start, len, is_init)
<1> DEFINE size  == start + len
           grown == IF Size(ps) < size THEN Resize(ps, size, FALSE) ELSE ps
           m     == IF Size(ps) < size THEN Resized(MapOf(ps), size) ELSE MapOf(ps)
<1>0. size \in Nat /\ Size(ps) \in Nat
  BY EvenMeans
<1>1. Even(grown) /\ MapOf(grown) = m
  <2>1. CASE Size(ps) < size
    <3>1. Even(Resize(ps, size, FALSE)) /\ MapOf(Resize(ps, size, FALSE)) = Resized(MapOf(ps), size)
      BY <1>0, <2>1, ResizeMeans
    <3>2. grown = Resize(ps, size, FALSE) /\ m = Resized(MapOf(ps), size)
      BY <2>1
    <3> HIDE DEF grown, m
    <3> QED
      BY <3>1, <3>2
  <2>2. CASE ~(Size(ps) < size)
    BY <2>2
  <2> QED
    BY <2>1, <2>2
<1>2. SetInit(ps, start, len, is_init) = Flag(grown, start, len, is_init)
  BY DEF SetInit
<1>3. MapOf(ps).size = Size(ps)
  BY DEF MapOf, Map
<1>4. Marked(MapOf(ps), start, len, is_init) =
        Map(m.size, IF is_init THEN m.loaded \cup Touched(m.size, start, len)
                               ELSE m.loaded \ Touched(m.size, start, len))
  BY <1>3 DEF Marked
<1> HIDE DEF grown, m
<1>5. m.size = Size(grown) /\ m.loaded = MapOf(grown).loaded
  BY <1>1 DEF MapOf, Map
<1>6. \A g : Even(g) =>
        /\ Even(Flag(g, start, len, is_init))
        /\ MapOf(Flag(g, start, len, is_init)) =
             Map(Size(g), FlaggedPages(g, start, len, is_init))
  <2> TAKE g
  <2> HAVE Even(g)
  <2> QED
    BY FlagMeans
<1>7. /\ Even(Flag(grown, start, len, is_init))
      /\ MapOf(Flag(grown, start, len, is_init)) =
           Map(Size(grown), FlaggedPages(grown, start, len, is_init))
  BY <1>1, <1>6
<1> QED
  BY <1>2, <1>4, <1>5, <1>7 DEF FlaggedPages

-----------------------------------------------------------------------------
(* The two walks along a list, GetUninitPages and the replay of a stat file, *)
(* are recursive functions.  What they compute is shown by induction along   *)
(* the list, each time as the absence of a least counterexample.             *)

\* A set of numbers that is not empty has a least one: what stands in for an induction.
LEMMA LeastExists ==
  ASSUME NEW S, S \subseteq Nat, S # {}
  PROVE  \E n \in S : \A m \in S : n <= m
<1> DEFINE Less == OpToRel(<, Nat)
<1>1. IsWellFoundedOn(Less, Nat)
  BY NatLessThanWellFounded
<1>2. \A m, n : m \in Nat /\ n \in Nat /\ m < n => <<m, n>> \in Less
  BY DEF OpToRel
<1> HIDE DEF Less
<1>3. PICK n \in S : \A m \in S : ~ (<<m, n>> \in Less)
  BY <1>1, WFMin
<1>4. ASSUME NEW m \in S PROVE n <= m
  <2>1. ~(m < n)
    BY <1>2, <1>3
  <2> QED
    BY <2>1
<1> QED
  BY <1>4

LEMMA UninitWalkSteps ==
  ASSUME NEW ps, NEW start, Len(ps) \in Nat
  PROVE  UninitWalk(ps, start) =
           [n \in 0..Len(ps) |-> IF n = 0 THEN <<>>
                                 ELSE Walked(UninitWalk(ps, start)[n - 1], ps[n], start)]
<1> DEFINE Step(f, n) == IF n = 0 THEN <<>> ELSE Walked(f[n - 1], ps[n], start)
           Good       == {n \in Nat : \E f : f = [k \in 0..n |-> Step(f, k)]}
<1>1. Len(ps) \in Good
  <2> SUFFICES ASSUME Len(ps) \notin Good PROVE FALSE
    OBVIOUS
  <2>1. PICK n \in Nat \ Good : \A m \in Nat \ Good : n <= m
    BY LeastExists
  <2>2. CASE n = 0
    <3> DEFINE f == [k \in 0..0 |-> <<>>]
    <3>1. f = [k \in 0..0 |-> Step(f, k)]
      OBVIOUS
    <3> QED
      BY <2>1, <2>2, <3>1
  <2>3. CASE n # 0
    <3>1. n - 1 \in Good
      <4>1. n - 1 \in Nat /\ ~(n <= n - 1)
        BY <2>1, <2>3
      <4> HIDE DEF Good
      <4> QED
        BY <2>1, <4>1
    <3>2. PICK f : f = [k \in 0..n - 1 |-> Step(f, k)]
      BY <3>1
    <3> DEFINE g == [k \in 0..n |-> IF k = n THEN Walked(f[n - 1], ps[n], start) ELSE f[k]]
    <3>3. \A k \in 0..n - 1 : f[k] = Step(f, k)
      BY <3>2
    <3>4. \A k \in 0..n - 1 : g[k] = f[k]
      BY <2>1
    <3>5. ASSUME NEW k \in 0..n PROVE g[k] = Step(g, k)
      <4>1. CASE k = n
        <5>1. g[k] = Walked(f[n - 1], ps[n], start) /\ g[n - 1] = f[n - 1]
          BY <2>1, <2>3, <3>4, <4>1
        <5> QED
          BY <2>3, <4>1, <5>1
      <4>2. CASE k # n
        <5>1. k \in 0..n - 1 /\ (k # 0 => k - 1 \in 0..n - 1)
          BY <2>1, <4>2
        <5>2. g[k] = Step(f, k) /\ (k # 0 => g[k - 1] = f[k - 1])
          BY <3>3, <3>4, <5>1
        <5> QED
          BY <5>2
      <4> QED
        BY <4>1, <4>2
    <3>6. g = [k \in 0..n |-> Step(g, k)]
      BY <3>5
    <3> QED
      BY <2>1, <3>6
  <2> QED
    BY <2>2, <2>3
<1>2. \E f : f = [k \in 0..Len(ps) |-> Step(f, k)]
  BY <1>1
<1> QED
  BY <1>2 DEF UninitWalk

\* The pages GetUninitPages is to find: not loaded, and ending behind start.
Due(ps, start) ==
  {k \in 0..Len(ps) : k < Len(ps) /\ start <= EndOf(ps[k + 1]) /\ ~ps[k + 1].init}

\* The area p is a run of such pages among the first n, which goes as far to the left as it can.
IsRun(ps, start, n, p) ==
  \E a, b \in Nat : /\ a <= b /\ b < n
                    /\ p.offset = ps[a + 1].offset /\ NextOf(p) = NextOf(ps[b + 1])
                    /\ a..b \subseteq Due(ps, start) /\ a - 1 \notin Due(ps, start)

\* What the walk has in its list after n pages.
Areas(ps, start, n, list) ==
  /\ list \in Seq(PageType)
  /\ \A i \in 1..Len(list) : IsRun(ps, start, n, list[i])
  /\ \A i \in 1..Len(list) - 1 : NextOf(list[i]) < list[i + 1].offset
  /\ \A k \in Due(ps, start) : k < n =>
        \E i \in 1..Len(list) : /\ list[i].offset <= ps[k + 1].offset
                                /\ ps[k + 1].offset < NextOf(list[i])
  /\ n > 0 /\ n - 1 \in Due(ps, start) => list # <<>> /\ NextOf(list[Len(list)]) = NextOf(ps[n])

\* Where the pages of a list are.
LEMMA PagesMeet ==
  ASSUME NEW ps, Even(ps)
  PROVE  /\ ps \in Seq(PageType) /\ Len(ps) \in Nat
         /\ \A k \in 1..Len(ps) : /\ ps[k] \in PageType /\ 0 < ps[k].bytes
                                  /\ ps[k].offset = (k - 1) * PageSize
                                  /\ ps[k].offset \in Nat /\ ps[k].bytes \in Nat
         /\ \A k \in 1..Len(ps) - 1 : NextOf(ps[k]) = ps[k + 1].offset
         /\ \A j, k \in 1..Len(ps) : /\ j <= k => ps[j].offset <= ps[k].offset
                                     /\ j < k => NextOf(ps[j]) <= ps[k].offset
                                     /\ j <= k => NextOf(ps[j]) <= NextOf(ps[k])
<1>1. /\ ps \in Seq(PageType) /\ Len(ps) \in Nat
      /\ \A k \in 1..Len(ps) : /\ 0 < ps[k].bytes /\ ps[k].bytes <= PageSize
                               /\ ps[k].offset = (k - 1) * PageSize
      /\ \A k \in 1..Len(ps) - 1 : NextOf(ps[k]) = ps[k + 1].offset
  BY DEF Even, Tiles, NoneEmpty, Numbered, Linked
<1>2. \A k \in 1..Len(ps) : ps[k] \in PageType /\ ps[k].offset \in Nat /\ ps[k].bytes \in Nat
  <2> TAKE k \in 1..Len(ps)
  <2>1. ps[k] \in PageType
    BY <1>1
  <2> QED
    BY <2>1 DEF PageType
<1>3. ASSUME NEW j \in 1..Len(ps), NEW k \in 1..Len(ps)
      PROVE  /\ j <= k => ps[j].offset <= ps[k].offset
             /\ j < k => NextOf(ps[j]) <= ps[k].offset
             /\ j <= k => NextOf(ps[j]) <= NextOf(ps[k])
  <2> DEFINE at == (j - 1) * PageSize
             to == (k - 1) * PageSize
  <2>1. j - 1 \in Int /\ k - 1 \in Int /\ PageSize \in Nat
    BY <1>1, PageSizeAssumption
  <2>2. at \in Int /\ to \in Int /\ (j < k => at + PageSize <= to) /\ (j = k => at = to)
    BY <2>1, Multiples
  <2>3. ps[j].offset = at /\ ps[k].offset = to /\ NextOf(ps[j]) = at + ps[j].bytes
        /\ NextOf(ps[k]) = to + ps[k].bytes
    BY <1>1 DEF NextOf
  <2>4. ps[j].bytes <= PageSize /\ ps[j].bytes \in Nat /\ ps[k].bytes \in Nat
    BY <1>1, <1>2
  <2> HIDE DEF at, to
  <2>0. j \in Nat /\ k \in Nat
    OBVIOUS
  <2>5. j = k \/ j < k \/ j > k
    BY <2>0
  <2>6. CASE j = k
    BY <2>2, <2>3, <2>4, <2>6
  <2>7. CASE j < k
    <3>1. at + PageSize <= to
      BY <2>2, <2>7
    <3>2. at + ps[j].bytes <= to /\ at <= to /\ to <= to + ps[k].bytes
      BY <2>1, <2>2, <2>4, <3>1
    <3>3. at + ps[j].bytes <= to + ps[k].bytes
      BY <2>2, <2>4, <3>2
    <3> QED
      BY <2>3, <3>2, <3>3
  <2>8. CASE j > k
    BY <2>0, <2>8
  <2> QED
    BY <2>5, <2>6, <2>7, <2>8
<1> QED
  BY <1>1, <1>2, <1>3

\* The walk joins a page to the area it continues, and begins a new area elsewhere.
LEMMA WalkKeepsAreas ==
  ASSUME NEW ps, Even(ps), NEW start \in Nat, NEW n \in 1..Len(ps), NEW list,
         Areas(ps, start, n - 1, list)
  PROVE  Areas(ps, start, n, Walked(list, ps[n], start))
<1> DEFINE p   == ps[n]
           due == Due(ps, start)
           l   == Len(list)
           new == Walked(list, p, start)
<1>1. /\ list \in Seq(PageType) /\ l \in Nat /\ n \in Nat /\ n > 0
      /\ p \in PageType /\ p.offset \in Nat /\ p.bytes \in Nat /\ 0 < p.bytes
      /\ Len(ps) \in Nat
      /\ \A i \in 1..l : list[i] \in PageType /\ list[i].offset \in Nat /\ list[i].bytes \in Nat
  <2>1. list \in Seq(PageType) /\ l \in Nat
    BY DEF Areas
  <2>2. \A i \in 1..l : list[i] \in PageType /\ list[i].offset \in Nat /\ list[i].bytes \in Nat
    <3> TAKE i \in 1..l
    <3>1. list[i] \in PageType
      BY <2>1
    <3> QED
      BY <3>1 DEF PageType
  <2>3. Len(ps) \in Nat
    BY PagesMeet
  <2> QED
    BY <2>1, <2>2, <2>3, PagesMeet
<1>2. n - 1 \in due <=> start <= EndOf(p) /\ ~p.init
  BY <1>1 DEF Due
<1>3. \A k \in due : k \in Nat /\ k < Len(ps)
  BY <1>1 DEF Due
<1>4. /\ \A i \in 1..l : \E a, b \in Nat :
            /\ a <= b /\ b < n - 1
            /\ list[i].offset = ps[a + 1].offset /\ NextOf(list[i]) = NextOf(ps[b + 1])
            /\ a..b \subseteq due /\ a - 1 \notin due
      /\ \A i \in 1..l - 1 : NextOf(list[i]) < list[i + 1].offset
      /\ \A k \in due : k < n - 1 =>
            \E i \in 1..l : list[i].offset <= ps[k + 1].offset /\ ps[k + 1].offset < NextOf(list[i])
      /\ n - 1 > 0 /\ n - 2 \in due => list # <<>> /\ NextOf(list[l]) = NextOf(ps[n - 1])
  <2>1. n - 1 - 1 = n - 2
    BY <1>1
  <2> QED
    BY <1>1, <2>1 DEF Areas, IsRun
<1>5. ASSUME NEW q, q.offset \in Nat, q.bytes \in Nat, NEW a \in Nat, NEW b \in Nat,
             a <= b, b < n, q.offset = ps[a + 1].offset, NextOf(q) = NextOf(ps[b + 1]),
             a..b \subseteq due, a - 1 \notin due
      PROVE  IsRun(ps, start, n, q)
  BY <1>5 DEF IsRun
<1> HIDE DEF due
<1>6. CASE n - 1 \notin due
  <2>1. new = list
    BY <1>2, <1>6 DEF Walked
  <2>2. \A i \in 1..l : IsRun(ps, start, n, list[i])
    <3> SUFFICES ASSUME NEW i \in 1..l PROVE IsRun(ps, start, n, list[i])
      OBVIOUS
    <3>1. PICK a \in Nat, b \in Nat :
            /\ a <= b /\ b < n - 1
            /\ list[i].offset = ps[a + 1].offset /\ NextOf(list[i]) = NextOf(ps[b + 1])
            /\ a..b \subseteq due /\ a - 1 \notin due
      BY <1>4
    <3>2. b < n
      BY <1>1, <3>1
    <3> QED
      BY <1>1, <1>5, <3>1, <3>2
  <2>3. \A k \in due : k < n => k < n - 1
    BY <1>1, <1>3, <1>6
  <2> QED
    BY <1>1, <1>4, <1>6, <2>1, <2>2, <2>3 DEF Areas, due
<1>7. CASE n - 1 \in due /\ list # <<>> /\ NextOf(list[l]) = p.offset
  <2>1. /\ new = [list EXCEPT ![l] = Page(list[l].offset, list[l].bytes + p.bytes, FALSE)]
        /\ l \in 1..l
    BY <1>1, <1>2, <1>7 DEF Walked, AddUninit, Last
  <2>2. /\ new \in Seq(PageType) /\ Len(new) = l
        /\ \A i \in 1..l : i # l => new[i] = list[i]
        /\ new[l].offset = list[l].offset /\ new[l].bytes = list[l].bytes + p.bytes
    <3>0. list[l].offset \in Nat /\ list[l].bytes + p.bytes \in Nat
      <4>1. list[l].offset \in Nat /\ list[l].bytes \in Nat
        BY <1>1, <2>1
      <4> QED
        BY <1>1, <4>1
    <3>1. Page(list[l].offset, list[l].bytes + p.bytes, FALSE) \in PageType
      BY <3>0 DEF Page, PageType
    <3> QED
      BY <1>1, <2>1, <3>1 DEF Page
  <2> HIDE DEF new
  <2>3. NextOf(new[l]) = NextOf(p)
    <3>1. list[l].offset \in Nat /\ list[l].bytes \in Nat
      BY <1>1, <2>1
    <3>2. p.offset \in Nat /\ p.bytes \in Nat
      BY <1>1
    <3>3. list[l].offset + list[l].bytes = p.offset
      BY <1>7 DEF NextOf
    <3>4. new[l].offset = list[l].offset /\ new[l].bytes = list[l].bytes + p.bytes
      BY <2>2
    <3> HIDE DEF p, l
    <3> QED
      BY <3>1, <3>2, <3>3, <3>4 DEF NextOf
  <2>4. PICK a \in Nat, b \in Nat :
          /\ a <= b /\ b < n - 1
          /\ list[l].offset = ps[a + 1].offset /\ NextOf(list[l]) = NextOf(ps[b + 1])
          /\ a..b \subseteq due /\ a - 1 \notin due
    BY <1>4, <2>1
  <2>5. b = n - 2
    <3>1. b + 1 \in 1..Len(ps) - 1 /\ b + 2 \in 1..Len(ps) /\ b + 1 + 1 = b + 2
      BY <1>1, <2>4
    <3>2. NextOf(ps[b + 1]) = ps[b + 2].offset
      BY <3>1, PagesMeet
    <3>3. ps[b + 2].offset = p.offset
      BY <1>7, <2>4, <3>2
    <3>4. CASE b + 2 < n
      <4>1. NextOf(ps[b + 2]) <= p.offset /\ 0 < ps[b + 2].bytes /\ ps[b + 2].bytes \in Nat
        BY <3>1, <3>4, PagesMeet
      <4> QED
        BY <1>1, <3>3, <4>1 DEF NextOf
    <3> QED
      BY <1>1, <2>4, <3>4
  <2>6. IsRun(ps, start, n, new[l])
    <3>1. a..n - 1 \subseteq due
      <4> SUFFICES ASSUME NEW k \in a..n - 1 PROVE k \in due
        OBVIOUS
      <4>1. k = n - 1 \/ k \in a..b
        BY <1>1, <2>4, <2>5
      <4> QED
        BY <1>7, <2>4, <4>1
    <3>2. n - 1 \in Nat /\ a <= n - 1 /\ n - 1 < n /\ ps[(n - 1) + 1] = p
      BY <1>1, <2>4, <2>5
    <3>3. new[l].offset \in Nat /\ new[l].bytes \in Nat
      <4>1. list[l].offset \in Nat /\ list[l].bytes \in Nat
        BY <1>1, <2>1
      <4> QED
        BY <1>1, <2>2, <4>1
    <3> QED
      BY <1>5, <2>2, <2>3, <2>4, <3>1, <3>2, <3>3
  <2>7. \A i \in 1..l : IsRun(ps, start, n, new[i])
    <3> SUFFICES ASSUME NEW i \in 1..l, i # l PROVE IsRun(ps, start, n, new[i])
      BY <2>6
    <3>1. PICK c \in Nat, d \in Nat :
            /\ c <= d /\ d < n - 1
            /\ list[i].offset = ps[c + 1].offset /\ NextOf(list[i]) = NextOf(ps[d + 1])
            /\ c..d \subseteq due /\ c - 1 \notin due
      BY <1>4
    <3>2. d < n
      BY <1>1, <3>1
    <3> QED
      BY <1>1, <1>5, <2>2, <3>1, <3>2
  <2>8. \A i \in 1..l - 1 : NextOf(new[i]) < new[i + 1].offset
    <3> SUFFICES ASSUME NEW i \in 1..l - 1 PROVE NextOf(new[i]) < new[i + 1].offset
      OBVIOUS
    <3>1. i \in 1..l /\ i # l /\ i + 1 \in 1..l /\ new[i] = list[i]
      BY <1>1, <2>2
    <3>2. new[i + 1].offset = list[i + 1].offset
      BY <2>2, <3>1
    <3> QED
      BY <1>4, <3>1, <3>2
  <2>9. ASSUME NEW k \in due, k < n
        PROVE  \E i \in 1..l : new[i].offset <= ps[k + 1].offset /\ ps[k + 1].offset < NextOf(new[i])
    <3>1. CASE k = n - 1
      <4>1. ps[k + 1] = p /\ a + 1 \in 1..Len(ps) /\ a + 1 <= n
        <5>1. k + 1 = n
          BY <1>1, <3>1
        <5>2. a + 1 <= n /\ a + 1 \in Nat
          BY <1>1, <2>4
        <5>3. n <= Len(ps) /\ Len(ps) \in Nat /\ 1 <= a + 1
          BY <1>1, <2>4
        <5>4. a + 1 \in 1..Len(ps)
          BY <1>1, <5>2, <5>3
        <5> QED
          BY <5>1, <5>2, <5>4
      <4>2. ps[a + 1].offset <= p.offset
        BY <4>1, PagesMeet
      <4>3. p.offset < NextOf(p)
        BY <1>1 DEF NextOf
      <4> QED
        BY <2>1, <2>2, <2>3, <2>4, <4>1, <4>2, <4>3
    <3>2. CASE k # n - 1
      <4>1. k < n - 1
        BY <1>1, <1>3, <2>9, <3>2
      <4>2. PICK i \in 1..l : list[i].offset <= ps[k + 1].offset /\ ps[k + 1].offset < NextOf(list[i])
        BY <1>4, <4>1
      <4>3. new[i].offset = list[i].offset
        BY <2>2
      <4>4. CASE i = l
        <5>1. NextOf(list[l]) < NextOf(p) /\ k + 1 \in 1..Len(ps)
          <6>1. NextOf(list[l]) < NextOf(p)
            <7>1. NextOf(list[l]) = p.offset
              BY <1>7
            <7>2. p.offset \in Nat /\ p.bytes \in Nat /\ 0 < p.bytes
              BY <1>1
            <7> HIDE DEF p
            <7> QED
              BY <7>1, <7>2 DEF NextOf
          <6>2. k + 1 \in 1..Len(ps)
            BY <1>3, <2>9
          <6> QED
            BY <6>1, <6>2
        <5>2. ps[k + 1].offset \in Nat
          BY <5>1, PagesMeet
        <5>3. NextOf(list[l]) \in Nat /\ NextOf(p) \in Nat
          <6>1. list[l].offset \in Nat /\ list[l].bytes \in Nat
            BY <1>1, <2>1
          <6>2. p.offset \in Nat /\ p.bytes \in Nat
            BY <1>1
          <6>0. \A x : x.offset \in Nat /\ x.bytes \in Nat => NextOf(x) \in Nat
            BY DEF NextOf
          <6> HIDE DEF p, l
          <6>3. NextOf(list[l]) \in Nat
            BY <6>0, <6>1
          <6>4. NextOf(p) \in Nat
            BY <6>0, <6>2
          <6> QED
            BY <6>3, <6>4
        <5>4. ps[k + 1].offset < NextOf(new[l])
          BY <2>3, <4>2, <4>4, <5>1, <5>2, <5>3
        <5> QED
          BY <2>1, <4>2, <4>3, <4>4, <5>4
      <4>5. CASE i # l
        BY <2>2, <4>2, <4>5
      <4> QED
        BY <4>4, <4>5
    <3> QED
      BY <3>1, <3>2
  <2>10. new # <<>> /\ NextOf(new[Len(new)]) = NextOf(p)
    <3>1. Len(new) = l /\ Len(new) # 0
      <4>1. l # 0
        BY <2>1
      <4>2. Len(new) = l
        BY <2>2
      <4> QED
        BY <4>1, <4>2
    <3>2. NextOf(new[Len(new)]) = NextOf(p)
      BY <2>3, <3>1
    <3> QED
      BY <3>1, <3>2
  <2> QED
    BY <2>2, <2>7, <2>8, <2>9, <2>10 DEF Areas, new, due
<1>8. CASE n - 1 \in due /\ ~(list # <<>> /\ NextOf(list[l]) = p.offset)
  <2> DEFINE q == Page(p.offset, p.bytes, FALSE)
  <2>1. new = Append(list, q)
    BY <1>1, <1>2, <1>8 DEF Walked, AddUninit, Last
  <2>2. q \in PageType /\ q.offset = p.offset /\ q.bytes = p.bytes /\ NextOf(q) = NextOf(p)
    BY <1>1 DEF PageType, Page, NextOf
  <2> HIDE DEF q
  <2>3. /\ new \in Seq(PageType) /\ Len(new) = l + 1 /\ new[l + 1] = q
        /\ \A i \in 1..l : new[i] = list[i]
    BY <1>1, <2>1, <2>2
  <2> HIDE DEF new
  <2>4. n - 2 \notin due
    <3> SUFFICES ASSUME n - 2 \in due PROVE FALSE
      OBVIOUS
    <3>1. n - 1 > 0 /\ n - 1 \in 1..Len(ps) - 1 /\ (n - 1) + 1 = n
      BY <1>1, <1>3
    <3>2. list # <<>> /\ NextOf(list[l]) = NextOf(ps[n - 1])
      BY <1>4, <3>1
    <3>3. NextOf(ps[n - 1]) = ps[(n - 1) + 1].offset
      BY <3>1, PagesMeet
    <3> QED
      BY <1>8, <3>1, <3>2, <3>3
  <2>5. IsRun(ps, start, n, q)
    <3>1. n - 1 \in Nat /\ n - 1 < n /\ ps[(n - 1) + 1] = p /\ (n - 1) - 1 = n - 2
      BY <1>1
    <3>2. (n - 1)..(n - 1) \subseteq due
      BY <1>1, <1>8
    <3> DEFINE c == n - 1
    <3>3. c \in Nat /\ c <= c /\ c < n /\ ps[c + 1] = p /\ c..c \subseteq due /\ c - 1 \notin due
      BY <2>4, <3>1, <3>2
    <3>4. q.offset \in Nat /\ q.bytes \in Nat
      BY <1>1, <2>2
    <3> HIDE DEF c
    <3>5. q.offset = ps[c + 1].offset /\ NextOf(q) = NextOf(ps[c + 1])
      BY <2>2, <3>3
    <3> QED
      BY <1>5, <3>3, <3>4, <3>5
  <2>6. ASSUME NEW i \in 1..l PROVE IsRun(ps, start, n, list[i]) /\ NextOf(list[i]) <= p.offset
    <3>1. PICK c \in Nat, d \in Nat :
            /\ c <= d /\ d < n - 1
            /\ list[i].offset = ps[c + 1].offset /\ NextOf(list[i]) = NextOf(ps[d + 1])
            /\ c..d \subseteq due /\ c - 1 \notin due
      BY <1>4
    <3>2. d < n /\ d + 1 \in 1..Len(ps) /\ d + 1 < n
      <4>0. d \in Nat /\ n \in Nat /\ d < n - 1
        BY <1>1, <3>1
      <4>1. d < n /\ d + 1 < n /\ 1 <= d + 1 /\ d + 1 \in Nat
        BY <4>0
      <4>2. n <= Len(ps) /\ Len(ps) \in Nat
        BY <1>1
      <4>3. d + 1 \in 1..Len(ps)
        BY <1>1, <4>1, <4>2
      <4> QED
        BY <4>1, <4>3
    <3>3. NextOf(ps[d + 1]) <= p.offset
      BY <3>2, PagesMeet
    <3> QED
      BY <1>1, <1>5, <3>1, <3>2, <3>3
  <2>7. \A i \in 1..l + 1 : IsRun(ps, start, n, new[i])
    <3> SUFFICES ASSUME NEW i \in 1..l + 1 PROVE IsRun(ps, start, n, new[i])
      OBVIOUS
    <3>1. i \in 1..l \/ i = l + 1
      BY <1>1
    <3>2. CASE i \in 1..l
      <4>1. new[i] = list[i] /\ IsRun(ps, start, n, list[i])
        BY <2>3, <2>6, <3>2
      <4> QED
        BY <4>1
    <3>3. CASE i = l + 1
      <4>1. new[i] = q
        BY <2>3, <3>3
      <4> QED
        BY <2>5, <4>1
    <3> QED
      BY <3>1, <3>2, <3>3
  <2>8. ASSUME NEW i \in 1..l PROVE NextOf(new[i]) < new[i + 1].offset
    <3>1. CASE i = l
      <4>1. NextOf(list[l]) # p.offset /\ NextOf(list[l]) <= p.offset /\ NextOf(list[l]) \in Nat
        BY <1>1, <1>8, <2>6, <3>1 DEF NextOf
      <4> QED
        BY <1>1, <2>2, <2>3, <3>1, <4>1
    <3>2. CASE i # l
      <4>1. i \in 1..l - 1 /\ i + 1 \in 1..l
        BY <1>1, <3>2
      <4> QED
        BY <1>4, <2>3, <4>1
    <3> QED
      BY <3>1, <3>2
  <2>9. ASSUME NEW k \in due, k < n
        PROVE  \E i \in 1..l + 1 : new[i].offset <= ps[k + 1].offset /\ ps[k + 1].offset < NextOf(new[i])
    <3>1. CASE k = n - 1
      <4>1. ps[k + 1] = p /\ l + 1 \in 1..l + 1
        BY <1>1, <3>1
      <4>2. p.offset <= p.offset /\ p.offset < NextOf(p)
        BY <1>1 DEF NextOf
      <4> QED
        BY <2>2, <2>3, <4>1, <4>2
    <3>2. CASE k # n - 1
      <4>1. k < n - 1
        BY <1>1, <1>3, <2>9, <3>2
      <4>2. PICK i \in 1..l : list[i].offset <= ps[k + 1].offset /\ ps[k + 1].offset < NextOf(list[i])
        BY <1>4, <4>1
      <4> QED
        BY <1>1, <2>3, <4>2
    <3> QED
      BY <3>1, <3>2
  <2>10. new # <<>> /\ NextOf(new[Len(new)]) = NextOf(p)
    BY <1>1, <2>2, <2>3
  <2>11. Len(new) - 1 = l
    BY <1>1, <2>3
  <2> QED
    BY <2>3, <2>7, <2>8, <2>9, <2>10, <2>11 DEF Areas, new, due
<1> QED
  BY <1>6, <1>7, <1>8

LEMMA WalkFindsAreas ==
  ASSUME NEW ps, Even(ps), NEW start \in Nat
  PROVE  Areas(ps, start, Len(ps), GetUninitPages(ps, start))
<1> DEFINE walk == UninitWalk(ps, start)
           Bad  == {n \in 0..Len(ps) : ~Areas(ps, start, n, walk[n])}
<1>1. ps \in Seq(PageType) /\ Len(ps) \in Nat
  BY PagesMeet
<1>2. walk = [n \in 0..Len(ps) |-> IF n = 0 THEN <<>> ELSE Walked(walk[n - 1], ps[n], start)]
  BY <1>1, UninitWalkSteps
<1> HIDE DEF walk
<1>3. Bad = {}
  <2> SUFFICES ASSUME Bad # {} PROVE FALSE
    OBVIOUS
  <2>1. PICK n \in Bad : \A m \in Bad : n <= m
    <3>1. Bad \subseteq Nat
      BY <1>1
    <3> HIDE DEF Bad
    <3> QED
      BY <3>1, LeastExists
  <2>2. n \in Nat /\ n <= Len(ps) /\ ~Areas(ps, start, n, walk[n])
    BY <1>1
  <2>3. CASE n = 0
    <3>1. walk[n] = <<>>
      BY <1>1, <1>2, <2>3
    <3>2. Areas(ps, start, 0, <<>>)
      <4>1. <<>> \in Seq(PageType) /\ Len(<<>>) = 0
        OBVIOUS
      <4>2. \A k \in Due(ps, start) : ~(k < 0)
        BY <1>1 DEF Due
      <4> QED
        BY <4>1, <4>2 DEF Areas
    <3> QED
      BY <2>2, <2>3, <3>1, <3>2
  <2>4. CASE n # 0
    <3>1. n \in 1..Len(ps) /\ n - 1 \in 0..Len(ps) /\ n - 1 \notin Bad
      BY <1>1, <2>1, <2>2, <2>4
    <3>2. Areas(ps, start, n - 1, walk[n - 1])
      BY <3>1
    <3>3. walk[n] = Walked(walk[n - 1], ps[n], start)
      BY <1>2, <3>1, <2>4
    <3> QED
      BY <2>2, <3>1, <3>2, <3>3, WalkKeepsAreas
  <2> QED
    BY <2>3, <2>4
<1>4. Len(ps) \in 0..Len(ps)
  BY <1>1
<1> QED
  BY <1>3, <1>4 DEF GetUninitPages, walk

\* The walk's pages are those PageMap calls unloaded.
LEMMA DueIsUnloaded ==
  ASSUME NEW ps, Even(ps), NEW start \in Nat
  PROVE  Unloaded(MapOf(ps), start) = Due(ps, start)
<1>1. ps \in Seq(PageType) /\ Len(ps) \in Nat /\ Size(ps) \in Nat /\ MapOf(ps).size = Size(ps)
  BY PagesMeet, EvenMeans DEF MapOf, Map
<1>2. ASSUME NEW k
      PROVE  k \in Unloaded(MapOf(ps), start) <=> k \in Due(ps, start)
  <2>1. k \in PagesOf(Size(ps)) <=> k \in Nat /\ k < Len(ps)
    BY EvenMeans DEF PagesOf
  <2>2. k \in Due(ps, start) <=> k \in Nat /\ k < Len(ps) /\ start <= EndOf(ps[k + 1]) /\ ~ps[k + 1].init
    BY <1>1 DEF Due
  <2>3. CASE k \in Nat /\ k < Len(ps)
    <3>1. /\ NextOf(ps[k + 1]) = PageEnd(Size(ps), k) /\ k + 1 \in 1..Len(ps)
      BY <1>1, <2>3, EvenMeans
    <3>2. ps[k + 1].offset \in Nat /\ ps[k + 1].bytes \in Nat /\ 0 < ps[k + 1].bytes
      BY <3>1, PagesMeet
    <3>3. start < PageEnd(Size(ps), k) <=> start <= EndOf(ps[k + 1])
      BY <3>1, <3>2 DEF EndOf, NextOf
    <3>4. k \in MapOf(ps).loaded <=> ps[k + 1].init
      BY <1>1, <2>3, LoadedMeans
    <3> QED
      BY <1>1, <2>1, <2>2, <2>3, <3>3, <3>4 DEF Unloaded
  <2> QED
    BY <1>1, <2>1, <2>2, <2>3 DEF Unloaded
<1> QED
  BY <1>2

\* What Load downloads are the areas of GetUninitPages that begin in front of its end.
LEMMA UninitMeans ==
  ASSUME NEW ps, Even(ps), Size(ps) <= MaxSize, NEW start \in Nat, NEW len \in Nat
  PROVE  LET list == GetUninitPages(ps, start)
             upto == {i \in 1..Len(list) : list[i].offset < start + len}
         IN  /\ UNION {PagesIn(list[i]) : i \in upto} = Wanted(MapOf(ps), start, len)
             /\ \A i \in 1..Len(list) - 1 : NextOf(list[i]) < list[i + 1].offset
<1> DEFINE list == GetUninitPages(ps, start)
           upto == {i \in 1..Len(list) : list[i].offset < start + len}
           due  == Due(ps, start)
<1>1. Areas(ps, start, Len(ps), list)
  BY WalkFindsAreas
<1>2. ps \in Seq(PageType) /\ Len(ps) \in Nat /\ Size(ps) \in Nat
  BY PagesMeet, EvenMeans
<1>3. ASSUME NEW k
      PROVE  k \in Wanted(MapOf(ps), start, len) <=>
               k \in due /\ \E j \in due : j <= k /\ j..k \subseteq due /\ j * PageSize < start + len
  BY DueIsUnloaded DEF Wanted
<1> HIDE DEF list, due
<1>4. \A k \in due : k \in Nat /\ k < Len(ps)
  BY <1>2 DEF due, Due
<1>5. ASSUME NEW k \in Nat, k < Len(ps)
      PROVE  /\ k + 1 \in 1..Len(ps) /\ ps[k + 1].offset = k * PageSize /\ k * PageSize \in Nat
             /\ NextOf(ps[k + 1]) <= k * PageSize + PageSize
             /\ k \in 0..MaxSize
  <2>1. k + 1 \in 1..Len(ps) /\ ps[k + 1].offset = k * PageSize /\ k \in PagesOf(Size(ps))
    BY <1>2, <1>5, EvenMeans
  <2>2. ps[k + 1].bytes <= PageSize /\ ps[k + 1].bytes \in Nat /\ k * PageSize \in Nat
    BY <2>1, PagesMeet, PageSizeAssumption DEF Even, Tiles, NoneEmpty
  <2>3. k \in 0..Size(ps)
    BY <2>1 DEF PagesOf
  <2> QED
    BY <1>2, <2>1, <2>2, <2>3, PageSizeAssumption, MaxSizeAssumption DEF NextOf
<1>6. ASSUME NEW k, NEW i \in upto, k \in PagesIn(list[i])
      PROVE  k \in Wanted(MapOf(ps), start, len)
  <2>1. PICK a \in Nat, b \in Nat :
          /\ a <= b /\ b < Len(ps)
          /\ list[i].offset = ps[a + 1].offset /\ NextOf(list[i]) = NextOf(ps[b + 1])
          /\ a..b \subseteq due /\ a - 1 \notin due
    BY <1>1 DEF Areas, IsRun, due
  <2> DEFINE from == a * PageSize
             at   == k * PageSize
             last == b * PageSize
  <2>2. k \in Nat /\ list[i].offset <= at /\ at < NextOf(list[i])
    BY <1>6, MaxSizeAssumption DEF PagesIn
  <2>3. list[i].offset = from /\ from \in Nat /\ NextOf(ps[b + 1]) <= last + PageSize /\ last \in Nat
    BY <1>2, <1>5, <2>1
  <2>4. /\ k < a => at + PageSize <= from
        /\ b < k => last + PageSize <= at
        /\ at \in Int /\ PageSize \in Nat /\ PageSize > 0
    BY <2>1, <2>2, Multiples, PageSizeAssumption
  <2>5. NextOf(list[i]) = NextOf(ps[b + 1]) /\ NextOf(ps[b + 1]) \in Nat
    <3> HIDE DEF from, at, last, upto
    <3>1. b + 1 \in 1..Len(ps)
      BY <1>5, <2>1
    <3>2. ps[b + 1].offset \in Nat /\ ps[b + 1].bytes \in Nat
      BY <3>1, PagesMeet
    <3>3. NextOf(ps[b + 1]) \in Nat
      BY <3>2 DEF NextOf
    <3> QED
      BY <2>1, <3>3
  <2>6. from < start + len
    BY <2>3
  <2> HIDE DEF from, at, last
  <2>7. a <= k /\ k <= b
    BY <2>1, <2>2, <2>3, <2>4, <2>5
  <2>8. a..k \subseteq due /\ a \in due /\ k \in due
    BY <2>1, <2>2, <2>7
  <2> QED
    BY <1>3, <2>6, <2>7, <2>8 DEF from
<1>7. ASSUME NEW k \in Wanted(MapOf(ps), start, len)
      PROVE  \E i \in upto : k \in PagesIn(list[i])
  <2>1. k \in due
    BY <1>3
  <2>2. PICK j \in due : j <= k /\ j..k \subseteq due /\ j * PageSize < start + len
    BY <1>3
  <2>3. k \in Nat /\ k < Len(ps) /\ j \in Nat
    BY <1>4, <2>1
  <2>4. PICK i \in 1..Len(list) : list[i].offset <= ps[k + 1].offset /\ ps[k + 1].offset < NextOf(list[i])
    BY <1>1, <2>1, <2>3 DEF Areas, due
  <2>5. PICK a \in Nat, b \in Nat :
          /\ a <= b /\ b < Len(ps)
          /\ list[i].offset = ps[a + 1].offset /\ NextOf(list[i]) = NextOf(ps[b + 1])
          /\ a..b \subseteq due /\ a - 1 \notin due
    BY <1>1 DEF Areas, IsRun, due
  <2>6. a < Len(ps)
    BY <1>2, <2>5
  <2> DEFINE from == a * PageSize
             at   == k * PageSize
             lead == j * PageSize
  <2>7. ps[k + 1].offset = at /\ list[i].offset = from /\ from \in Nat /\ at \in Nat /\ k \in 0..MaxSize
    BY <1>5, <2>3, <2>5, <2>6
  <2>8. /\ k < a => at + PageSize <= from
        /\ a <= j => from <= lead
        /\ lead \in Int /\ PageSize \in Nat /\ PageSize > 0
    BY <2>3, <2>5, Multiples, PageSizeAssumption
  <2>9. k \in PagesIn(list[i])
    BY <2>4, <2>7 DEF PagesIn
  <2>10. lead < start + len
    BY <2>2
  <2> HIDE DEF from, at, lead
  <2>11. a <= k
    BY <2>3, <2>4, <2>5, <2>7, <2>8
  <2>12. a <= j
    <3> SUFFICES ASSUME j < a PROVE FALSE
      BY <2>3, <2>5
    <3>1. a - 1 \in j..k
      BY <2>3, <2>5, <2>11
    <3> QED
      BY <2>2, <2>5, <3>1
  <2>13. list[i].offset < start + len
    BY <2>7, <2>8, <2>10, <2>12
  <2> QED
    BY <2>9, <2>13
<1>8. UNION {PagesIn(list[i]) : i \in upto} = Wanted(MapOf(ps), start, len)
  BY <1>6, <1>7
<1>9. \A i \in 1..Len(list) - 1 : NextOf(list[i]) < list[i + 1].offset
  BY <1>1 DEF Areas
<1> QED
  BY <1>8, <1>9 DEF list

LEMMA ReplaySteps ==
  ASSUME NEW lines, Len(lines) \in Nat
  PROVE  Replay(lines) =
           [n \in 0..Len(lines) |-> IF n = 0 THEN <<>>
                           ELSE ReplayLine(Replay(lines)[n - 1], lines[n])]
<1> DEFINE Step(f, n) == IF n = 0 THEN <<>> ELSE ReplayLine(f[n - 1], lines[n])
           Good       == {n \in Nat : \E f : f = [k \in 0..n |-> Step(f, k)]}
<1>1. Len(lines) \in Good
  <2> SUFFICES ASSUME Len(lines) \notin Good PROVE FALSE
    OBVIOUS
  <2>1. PICK n \in Nat \ Good : \A m \in Nat \ Good : n <= m
    BY LeastExists
  <2>2. CASE n = 0
    <3> DEFINE f == [k \in 0..0 |-> <<>>]
    <3>1. f = [k \in 0..0 |-> Step(f, k)]
      OBVIOUS
    <3> QED
      BY <2>1, <2>2, <3>1
  <2>3. CASE n # 0
    <3>1. n - 1 \in Good
      <4>1. n - 1 \in Nat /\ ~(n <= n - 1)
        BY <2>1, <2>3
      <4> HIDE DEF Good
      <4> QED
        BY <2>1, <4>1
    <3>2. PICK f : f = [k \in 0..n - 1 |-> Step(f, k)]
      BY <3>1
    <3> DEFINE g == [k \in 0..n |-> IF k = n THEN ReplayLine(f[n - 1], lines[n]) ELSE f[k]]
    <3>3. \A k \in 0..n - 1 : f[k] = Step(f, k)
      BY <3>2
    <3>4. \A k \in 0..n - 1 : g[k] = f[k]
      BY <2>1
    <3>5. ASSUME NEW k \in 0..n PROVE g[k] = Step(g, k)
      <4>1. CASE k = n
        <5>1. g[k] = ReplayLine(f[n - 1], lines[n]) /\ g[n - 1] = f[n - 1]
          BY <2>1, <2>3, <3>4, <4>1
        <5> QED
          BY <2>3, <4>1, <5>1
      <4>2. CASE k # n
        <5>1. k \in 0..n - 1 /\ (k # 0 => k - 1 \in 0..n - 1)
          BY <2>1, <4>2
        <5>2. g[k] = Step(f, k) /\ (k # 0 => g[k - 1] = f[k - 1])
          BY <3>3, <3>4, <5>1
        <5> QED
          BY <5>2
      <4> QED
        BY <4>1, <4>2
    <3>6. g = [k \in 0..n |-> Step(g, k)]
      BY <3>5
    <3> QED
      BY <2>1, <3>6
  <2> QED
    BY <2>2, <2>3
<1>2. \E f : f = [k \in 0..Len(lines) |-> Step(f, k)]
  BY <1>1
<1> QED
  BY <1>2 DEF Replay

\* The first n pages of a list.
First(ps, n) == [k \in 1..n |-> ps[k]]

\* A line that begins where the list ends adds its page, and flags no other.
LEMMA LineAddsPage ==
  ASSUME NEW ps, Even(ps), NEW n \in 1..Len(ps)
  PROVE  ReplayLine(First(ps, n - 1), ps[n]) = First(ps, n)
<1> DEFINE q     == First(ps, n - 1)
           p     == ps[n]
           size  == p.offset + p.bytes
           grown == Resize(q, size, FALSE)
<1>1. /\ n \in Nat /\ n > 0 /\ Len(ps) \in Nat /\ n - 1 \in Nat
      /\ p.offset \in Nat /\ p.bytes \in Nat /\ 0 < p.bytes /\ p.bytes <= PageSize
      /\ p = Page(p.offset, p.bytes, p.init) /\ p.offset = (n - 1) * PageSize
  <2>1. p \in PageType /\ p.bytes <= PageSize
    BY PagesMeet DEF Even, Tiles, NoneEmpty
  <2>2. p = Page(p.offset, p.bytes, p.init)
    BY <2>1 DEF PageType, Page
  <2> QED
    BY <2>1, <2>2, PagesMeet
<1>2. q \in Seq(PageType) /\ Len(q) = n - 1 /\ \A k \in 1..n - 1 : q[k] = ps[k]
  <2>1. \A k \in 1..n - 1 : ps[k] \in PageType
    BY <1>1, PagesMeet
  <2> QED
    BY <1>1, <2>1 DEF First
<1>3. Size(q) = p.offset /\ (Size(q) = 0 <=> n = 1)
  <2>1. CASE n = 1
    <3>1. q = <<>>
      BY <1>2, <2>1
    <3>2. (1 - 1) * PageSize = 0
      BY PageSizeAssumption
    <3> QED
      BY <1>1, <2>1, <3>1, <3>2 DEF Size
  <2>2. CASE n # 1
    <3>1. n - 1 \in 1..Len(ps) - 1 /\ n - 1 \in 1..n - 1 /\ (n - 1) + 1 = n
      BY <1>1, <2>2
    <3>2. NextOf(ps[n - 1]) = p.offset
      BY <3>1, PagesMeet
    <3>3. Size(q) = p.offset
      BY <1>2, <3>1, <3>2 DEF Size, Last
    <3>4. p.offset # 0
      BY <1>1, <2>2, PageSizeAssumption
    <3> QED
      BY <2>2, <3>3, <3>4
  <2> QED
    BY <2>1, <2>2
<1>4. size \in Nat /\ p.offset < size /\ Size(q) < size /\ size = p.offset + p.bytes
  BY <1>1, <1>3
<1> DEFINE new == NewPages(p.offset, size, FALSE)
<1>5. new \in Seq(PageType) /\ Len(new) = 1 /\ new[1] = Page(p.offset, p.bytes, FALSE)
  <2> DEFINE count == PageCount(p.bytes)
  <2>1. size - p.offset = p.bytes /\ p.offset + (1 - 1) * PageSize = p.offset
    BY <1>1, PageSizeAssumption
  <2>2. count = 1
    <3>1. count \in Nat /\ count > 0 /\ count * PageSize < p.bytes + PageSize
      BY <1>1, PageCountBounds
    <3> HIDE DEF count
    <3>2. 2 <= count => 2 * PageSize <= count * PageSize
      BY <3>1, Multiples
    <3> DEFINE many == count * PageSize
    <3>3. many \in Int /\ 2 * PageSize = PageSize + PageSize
      BY <3>1, PageSizeAssumption
    <3> HIDE DEF many
    <3>4. ~(2 <= count)
      <4>1. many < p.bytes + PageSize /\ (2 <= count => PageSize + PageSize <= many)
        BY <3>1, <3>2, <3>3 DEF many
      <4> QED
        BY <1>1, <3>3, <4>1, PageSizeAssumption
    <3> QED
      BY <3>1, <3>4
  <2>3. ~(p.offset + PageSize < size)
    BY <1>1, PageSizeAssumption
  <2>4. new \in Seq(PageType) /\ Len(new) = PageCount(size - p.offset)
    <3>1. p.offset <= size /\ size \in Nat /\ p.offset \in Nat
      BY <1>1, <1>4
    <3> DEFINE no == FALSE
    <3>2. no \in BOOLEAN
      OBVIOUS
    <3> HIDE DEF no, size, p
    <3>3. NewPages(p.offset, size, no) \in Seq(PageType)
          /\ Len(NewPages(p.offset, size, no)) = PageCount(size - p.offset)
      BY <3>1, <3>2, NewPagesTile
    <3> QED
      BY <3>3 DEF no
  <2> HIDE DEF size
  <2>5. new[1] = LET at == p.offset + (1 - 1) * PageSize
                 IN  Page(at, IF at + PageSize < size THEN PageSize ELSE size - at, FALSE)
    <3>1. 1 \in 1..PageCount(size - p.offset)
      BY <2>1, <2>2
    <3> QED
      BY <3>1 DEF NewPages
  <2> HIDE DEF p, new
  <2> QED
    BY <2>1, <2>2, <2>3, <2>4, <2>5
<1> HIDE DEF q, size, new
<1>6. /\ Len(grown) = n /\ grown[n] = Page(p.offset, p.bytes, FALSE)
      /\ \A k \in 1..n - 1 : grown[k] = ps[k]
  <2>1. CASE n = 1
    <3>1. grown = NewPages(0, size, FALSE) /\ p.offset = 0
      BY <1>3, <2>1 DEF Resize, InitPages
    <3>2. grown = new
      BY <3>1 DEF new
    <3> HIDE DEF grown
    <3>3. \A k \in 1..n - 1 : FALSE
      BY <2>1
    <3>4. Len(grown) = n /\ grown[n] = Page(p.offset, p.bytes, FALSE)
      BY <1>5, <2>1, <3>2
    <3> QED
      BY <3>3, <3>4
  <2>2. CASE n # 1
    <3>1. n - 1 \in 1..Len(ps) - 1 /\ n - 1 \in 1..n - 1
      BY <1>1, <2>2
    <3>2. ps[n - 1].bytes = PageSize /\ q[n - 1] = ps[n - 1] /\ Len(q) = n - 1
      BY <1>2, <3>1 DEF Even, Tiles, Linked
    <3>3. NextOf(q[n - 1]) = p.offset
      BY <1>1, <3>1, <3>2, PagesMeet
    <3>4. ~(PageSize < PageSize)
      BY PageSizeAssumption
    <3>5. grown = Grown(q, size, FALSE)
      BY <1>3, <1>4, <2>2 DEF Resize
    <3> HIDE DEF grown
    <3>6. grown = q \o new
      BY <3>2, <3>3, <3>4, <3>5 DEF Grown, new
    <3>7. /\ Len(q \o new) = Len(q) + Len(new)
          /\ \A k \in 1..Len(q) + Len(new) :
               (q \o new)[k] = IF k <= Len(q) THEN q[k] ELSE new[k - Len(q)]
      BY <1>2, <1>5, ConcatProperties
    <3>8. Len(q) = n - 1 /\ Len(new) = 1 /\ (n - 1) + 1 = n
      BY <1>1, <1>2, <1>5
    <3>9. Len(grown) = n
      BY <3>6, <3>7, <3>8
    <3>10. grown[n] = new[1]
      <4>0. n \in Nat /\ n > 0
        BY <1>1
      <4>1. n \in 1..n /\ ~(n <= n - 1) /\ n - (n - 1) = 1
        BY <4>0
      <4> QED
        BY <3>6, <3>7, <3>8, <4>1
    <3>11. ASSUME NEW k \in 1..n - 1 PROVE grown[k] = q[k]
      <4>1. k \in 1..n /\ k <= n - 1
        BY <1>1
      <4> QED
        BY <3>6, <3>7, <3>8, <4>1
    <3> QED
      BY <1>2, <1>5, <3>9, <3>10, <3>11
  <2> QED
    BY <2>1, <2>2
<1>7. ReplayLine(q, p) = Flag(grown, p.offset, p.bytes, p.init)
  <2>1. Size(q) < p.offset + p.bytes /\ size = p.offset + p.bytes
    BY <1>4
  <2> HIDE DEF p
  <2> QED
    BY <2>1 DEF ReplayLine, SetInit
<1> HIDE DEF grown
<1>8. ASSUME NEW k \in 1..n - 1
      PROVE  EndOf(ps[k]) < p.offset /\ ps[k] = Page(ps[k].offset, ps[k].bytes, ps[k].init)
  <2>1. k \in 1..Len(ps) /\ k < n
    BY <1>1
  <2>2. /\ NextOf(ps[k]) <= p.offset /\ ps[k] \in PageType /\ 0 < ps[k].bytes
        /\ ps[k].offset \in Nat /\ ps[k].bytes \in Nat
    BY <2>1, PagesMeet
  <2> QED
    BY <1>1, <2>2 DEF EndOf, NextOf, PageType, Page
<1>9. ~(EndOf(grown[n]) < p.offset) /\ ~(p.offset + p.bytes <= grown[n].offset)
  BY <1>1, <1>6 DEF EndOf, Page
<1>10. Flag(grown, p.offset, p.bytes, p.init) = [k \in 1..n |-> ps[k]]
  <2> DEFINE flag(k) == Page(grown[k].offset, grown[k].bytes,
                             IF EndOf(grown[k]) < p.offset \/ p.offset + p.bytes <= grown[k].offset
                             THEN grown[k].init ELSE p.init)
  <2>1. Flag(grown, p.offset, p.bytes, p.init) = [k \in 1..n |-> flag(k)]
    BY <1>6 DEF Flag
  <2>2. ASSUME NEW k \in 1..n PROVE flag(k) = ps[k]
    <3>1. k \in 1..n - 1 \/ k = n
      BY <1>1
    <3>2. CASE k \in 1..n - 1
      BY <1>6, <1>8, <3>2
    <3>3. CASE k = n
      <4>1. grown[k].offset = p.offset /\ grown[k].bytes = p.bytes
        BY <1>6, <3>3 DEF Page
      <4> QED
        BY <1>1, <1>9, <3>3, <4>1
    <3> QED
      BY <3>1, <3>2, <3>3
  <2> HIDE DEF flag
  <2> QED
    BY <2>1, <2>2
<1> QED
  BY <1>7, <1>10 DEF First, q

\* Line by line, the replay builds the list that was written.
LEMMA ReplayMeans ==
  ASSUME NEW ps, Even(ps)
  PROVE  Replayed(ps) = ps
<1> DEFINE replay == Replay(ps)
           Bad    == {n \in 0..Len(ps) : replay[n] # First(ps, n)}
<1>1. ps \in Seq(PageType) /\ Len(ps) \in Nat
  BY PagesMeet
<1>2. replay = [n \in 0..Len(ps) |-> IF n = 0 THEN <<>> ELSE ReplayLine(replay[n - 1], ps[n])]
  BY <1>1, ReplaySteps
<1> HIDE DEF replay
<1>3. Bad = {}
  <2> SUFFICES ASSUME Bad # {} PROVE FALSE
    OBVIOUS
  <2>1. PICK n \in Bad : \A m \in Bad : n <= m
    <3>1. Bad \subseteq Nat
      BY <1>1
    <3> HIDE DEF Bad
    <3> QED
      BY <3>1, LeastExists
  <2>2. n \in Nat /\ n <= Len(ps) /\ replay[n] # First(ps, n)
    BY <1>1
  <2>3. CASE n = 0
    <3>1. replay[n] = <<>>
      BY <1>1, <1>2, <2>3
    <3>2. First(ps, 0) = <<>>
      BY DEF First
    <3> QED
      BY <2>2, <2>3, <3>1, <3>2
  <2>4. CASE n # 0
    <3>1. n \in 1..Len(ps) /\ n - 1 \in 0..Len(ps) /\ n - 1 \notin Bad
      BY <1>1, <2>1, <2>2, <2>4
    <3>2. replay[n - 1] = First(ps, n - 1)
      BY <3>1
    <3>3. replay[n] = ReplayLine(replay[n - 1], ps[n])
      BY <1>2, <3>1, <2>4
    <3>4. ReplayLine(First(ps, n - 1), ps[n]) = First(ps, n)
      BY <3>1, LineAddsPage
    <3> QED
      BY <2>2, <3>2, <3>3, <3>4
  <2> QED
    BY <2>3, <2>4
<1>4. replay[Len(ps)] = First(ps, Len(ps))
  <2>1. Len(ps) \in 0..Len(ps)
    BY <1>1
  <2> QED
    BY <1>3, <2>1
<1>5. First(ps, Len(ps)) = ps
  BY <1>1 DEF First
<1> QED
  BY <1>4, <1>5 DEF Replayed, replay

-----------------------------------------------------------------------------
(* The theorems                                                             *)

(* For every page size and every sequence of calls, the list has its type    *)
(* and covers the file from byte 0 without a gap: TypeOK and PagesTile.      *)
THEOREM PagesAlwaysTile == Spec => [](TypeOK /\ PagesTile)
<1>1. Init => Tiles(pages)
  <2> SUFFICES ASSUME NEW n \in 0..MaxSize, NEW no \in BOOLEAN, pages = InitPages(n, no)
               PROVE  Tiles(pages)
    BY DEF Init
  <2> QED
    BY InitPagesTile, MaxSizeAssumption
<1>2. Tiles(pages) /\ [Next]_pages => Tiles(pages)'
  <2> SUFFICES ASSUME Tiles(pages), [Next]_pages PROVE Tiles(pages')
    OBVIOUS
  <2>1. ASSUME NEW n \in 0..MaxSize, NEW is_init \in BOOLEAN, DoInit(n, is_init)
        PROVE  Tiles(pages')
    BY <2>1, InitPagesTile, MaxSizeAssumption DEF DoInit
  <2>2. ASSUME NEW start \in 0..MaxSize, NEW len \in 0..MaxSize, NEW is_init \in BOOLEAN,
               DoSetInit(start, len, is_init)
        PROVE  Tiles(pages')
    BY <2>2, SetInitTiles, MaxSizeAssumption DEF DoSetInit
  <2>3. CASE UNCHANGED pages
    BY <2>3
  <2> QED
    BY <2>1, <2>2, <2>3 DEF Next
<1>3. Tiles(pages) => TypeOK /\ PagesTile
  BY DEF Tiles, TypeOK, PagesTile, NoneEmpty, Linked
<1> QED
  BY <1>1, <1>2, <1>3, PTL DEF Spec

LEMMA AlwaysEven == Spec => []Even(pages)
<1>1. Init => Even(pages)
  <2> SUFFICES ASSUME NEW n \in 0..MaxSize, NEW no \in BOOLEAN, pages = InitPages(n, no)
               PROVE  Even(pages)
    BY DEF Init
  <2> QED
    BY InitPagesMean, MaxSizeAssumption
<1>2. Even(pages) /\ [Next]_pages => Even(pages)'
  <2> SUFFICES ASSUME Even(pages), [Next]_pages PROVE Even(pages')
    OBVIOUS
  <2>1. ASSUME NEW n \in 0..MaxSize, NEW is_init \in BOOLEAN, DoInit(n, is_init)
        PROVE  Even(pages')
    BY <2>1, InitPagesMean, MaxSizeAssumption DEF DoInit
  <2>2. ASSUME NEW start \in 0..MaxSize, NEW len \in 0..MaxSize, NEW is_init \in BOOLEAN,
               DoSetInit(start, len, is_init)
        PROVE  Even(pages')
    BY <2>2, SetInitMeans, MaxSizeAssumption DEF DoSetInit
  <2>3. CASE UNCHANGED pages
    BY <2>3
  <2> QED
    BY <2>1, <2>2, <2>3 DEF Next
<1> QED
  BY <1>1, <1>2, PTL DEF Spec

(* For every page size and every list the code can build, SetInit does to    *)
(* the file exactly what PageMap says, on which FdEntity is built: it grows  *)
(* the file, drops the page that was grown, and flags the pages that overlap *)
(* the area (fdcache.cpp:224-334).                                           *)
THEOREM SetInitIsMarked == Spec => []SetInitMatchesMap
<1>1. Even(pages) => SetInitMatchesMap
  BY SetInitMeans, MaxSizeAssumption DEF SetInitMatchesMap
<1> QED
  BY <1>1, AlwaysEven, PTL

LEMMA AlwaysSmall == Spec => [](Size(pages) <= MaxSize)
<1>1. Init => Size(pages) <= MaxSize
  <2> SUFFICES ASSUME NEW n \in 0..MaxSize, NEW no \in BOOLEAN, pages = InitPages(n, no)
               PROVE  Size(pages) <= MaxSize
    BY DEF Init
  <2>1. Size(InitPages(n, no)) = n
    BY InitPagesMean, MaxSizeAssumption
  <2> QED
    BY <2>1, MaxSizeAssumption
<1>2. Even(pages) /\ Size(pages) <= MaxSize /\ [Next]_pages => (Size(pages) <= MaxSize)'
  <2> SUFFICES ASSUME Even(pages), Size(pages) <= MaxSize, [Next]_pages
               PROVE  Size(pages') <= MaxSize
    OBVIOUS
  <2>1. ASSUME NEW n \in 0..MaxSize, NEW is_init \in BOOLEAN, DoInit(n, is_init)
        PROVE  Size(pages') <= MaxSize
    <3>1. Size(InitPages(n, is_init)) = n
      BY InitPagesMean, MaxSizeAssumption
    <3> QED
      BY <2>1, <3>1, MaxSizeAssumption DEF DoInit
  <2>2. ASSUME NEW start \in 0..MaxSize, NEW len \in 0..MaxSize, NEW is_init \in BOOLEAN,
               start + len <= MaxSize, DoSetInit(start, len, is_init)
        PROVE  Size(pages') <= MaxSize
    <3> DEFINE next == SetInit(pages, start, len, is_init)
    <3>1. MapOf(next) = Marked(MapOf(pages), start, len, is_init)
      BY SetInitMeans, MaxSizeAssumption
    <3>2. Marked(MapOf(pages), start, len, is_init).size =
            IF Size(pages) < start + len THEN start + len ELSE Size(pages)
      BY DEF Marked, Resized, MapOf, Map
    <3>3. MapOf(next).size = Size(next)
      BY DEF MapOf, Map
    <3>4. Size(next) = IF Size(pages) < start + len THEN start + len ELSE Size(pages)
      BY <3>1, <3>2, <3>3
    <3> HIDE DEF next
    <3>5. Size(next) <= MaxSize
      BY <2>2, <3>4
    <3> QED
      BY <2>2, <3>5 DEF DoSetInit, next
  <2>3. CASE UNCHANGED pages
    BY <2>3
  <2> QED
    BY <2>1, <2>2, <2>3 DEF Next
<1> QED
  BY <1>1, <1>2, AlwaysEven, PTL DEF Spec

(* For every page size and every list the code can build, the areas that     *)
(* GetUninitPages merges and Load downloads hold exactly the missing pages,  *)
(* and no two of them touch (fdcache.cpp:350-369, 783-801).                  *)
THEOREM LoadsWhatIsMissing == Spec => []UninitPagesAreWanted
<1>1. Even(pages) /\ Size(pages) <= MaxSize => UninitPagesAreWanted
  <2> SUFFICES ASSUME Even(pages), Size(pages) <= MaxSize,
                      NEW start \in 0..MaxSize, NEW len \in 0..MaxSize
               PROVE  LET list == GetUninitPages(pages, start)
                          upto == {i \in 1..Len(list) : list[i].offset < start + len}
                      IN  /\ UNION {PagesIn(list[i]) : i \in upto} = Wanted(MapOf(pages), start, len)
                          /\ \A i \in 1..Len(list) - 1 : NextOf(list[i]) < list[i + 1].offset
    BY DEF UninitPagesAreWanted
  <2>1. start \in Nat /\ len \in Nat
    BY MaxSizeAssumption
  <2> QED
    BY <2>1, UninitMeans
<1> QED
  BY <1>1, AlwaysEven, AlwaysSmall, PTL

(* Every list the code can build comes back from the stat file as it was:    *)
(* each line, replayed as a SetInit, adds its page and flags no other, and   *)
(* the total agrees (fdcache.cpp:371-475).                                   *)
THEOREM ReopensUnchanged == Spec => []ReopenKeepsPages
<1>1. Even(pages) => ReopenKeepsPages
  BY ReplayMeans DEF ReopenKeepsPages, Deserialized, Serialized
<1> QED
  BY <1>1, AlwaysEven, PTL

==============================================================================
