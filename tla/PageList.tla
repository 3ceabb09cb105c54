------------------------------- MODULE PageList -------------------------------
(***************************************************************************)
(* PageList (fdcache.cpp:190-475): which areas of an open file's local copy*)
(* hold the object's bytes.  The list is kept by growing its last page,    *)
(* appending pages and flipping flags; nothing in the code checks that the *)
(* pages still cover the file without a gap, which every user relies on.   *)
(*                                                                         *)
(* The state is one list.  Its steps are the calls FdEntity makes: Init    *)
(* (Open, SetAllStatus) and SetInit (Load, Write, Read).  A round trip       *)
(* through the cache stat file (Serialize on Close, then on Open) is no    *)
(* step of its own: ReopenKeepsPages says it changes nothing.              *)
(***************************************************************************)
EXTENDS PageMap, Sequences, SequencesExt

CONSTANT MaxSize                     \* bounds the sizes the steps ask for

ASSUME MaxSizeAssumption == MaxSize \in Nat

VARIABLE pages

Page(offset, bytes, is_init) == [offset |-> offset, bytes |-> bytes, init |-> is_init]

PageType == [offset : Nat, bytes : Nat, init : BOOLEAN]

NextOf(p) == p.offset + p.bytes
EndOf(p)  == IF 0 < p.bytes THEN p.offset + p.bytes - 1 ELSE 0

Size(ps) == IF ps = <<>> THEN 0 ELSE NextOf(Last(ps))

PageCount(n) == (n + PageSize - 1) \div PageSize

\* Pages that cover the bytes from `from` to `to`, all but the last one full.
NewPages(from, to, is_init) ==
  [j \in 1..PageCount(to - from) |->
     LET at == from + (j - 1) * PageSize
     IN  Page(at, IF at + PageSize < to THEN PageSize ELSE to - at, is_init)]

InitPages(size, is_init) == NewPages(0, size, is_init)

\* Bug: the last page keeps its length when the file grows past it.
GrownNoLast(ps, size, is_init) == ps \o NewPages(Size(ps), size, is_init)

\* The file grows: the last page is filled up first and takes the new flag.
Grown(ps, size, is_init) ==
  LET n     == Len(ps)
      p     == ps[n]
      upto  == IF size - p.offset > PageSize THEN p.offset + PageSize ELSE size
      first == IF p.bytes < PageSize
               THEN [ps EXCEPT ![n] = Page(p.offset, upto - p.offset, is_init)]
               ELSE ps
  IN  first \o NewPages(NextOf(first[n]), size, is_init)

\* The file shrinks: the last page that starts below the new size is cut.
\* (Pages behind it stay; no caller of Resize asks for less.)
Shrunk(ps, size) ==
  LET below == {k \in 1..Len(ps) : ps[k].offset < size}
  IN  IF below = {} THEN ps
      ELSE LET k == CHOOSE k \in below : \A j \in below : j <= k
           IN  [ps EXCEPT ![k].bytes = size - ps[k].offset]

Resize(ps, size, is_init) ==
  IF Size(ps) = 0 THEN InitPages(size, is_init)
  ELSE IF Size(ps) < size THEN Grown(ps, size, is_init)
  ELSE IF size < Size(ps) THEN Shrunk(ps, size)
  ELSE ps

\* Bug: a page that only ends inside the area is not marked.
FlagExact(ps, start, len, is_init) ==
  [k \in 1..Len(ps) |->
     LET out == ps[k].offset < start \/ start + len <= ps[k].offset
     IN  Page(ps[k].offset, ps[k].bytes, IF out THEN ps[k].init ELSE is_init)]

\* The walk of SetInit: every page that overlaps the area takes the flag.
Flag(ps, start, len, is_init) ==
  [k \in 1..Len(ps) |->
     LET out == EndOf(ps[k]) < start \/ start + len <= ps[k].offset
     IN  Page(ps[k].offset, ps[k].bytes, IF out THEN ps[k].init ELSE is_init)]

SetInit(ps, start, len, is_init) ==
  Flag(IF Size(ps) < start + len THEN Resize(ps, start + len, FALSE) ELSE ps,
       start, len, is_init)

\* Bug: an area is merged into the one before it without looking at the gap.
AddUninitBlind(list, p) ==
  IF list = <<>> THEN <<p>>
  ELSE [list EXCEPT ![Len(list)].bytes = @ + p.bytes]

\* A page is merged into the last area of the list when it begins where that
\* area ends, else it begins an area.
AddUninit(list, p) ==
  IF list # <<>> /\ NextOf(Last(list)) = p.offset
  THEN [list EXCEPT ![Len(list)] = Page(@.offset, @.bytes + p.bytes, FALSE)]
  ELSE Append(list, Page(p.offset, p.bytes, FALSE))

\* One page of the walk of GetUninitPages.
Walked(list, p, start) == IF start <= EndOf(p) /\ ~p.init THEN AddUninit(list, p) ELSE list

\* The list after each page.
UninitWalk(ps, start) ==
  LET list[n \in 0..Len(ps)] == IF n = 0 THEN <<>> ELSE Walked(list[n - 1], ps[n], start)
  IN  list

GetUninitPages(ps, start) == UninitWalk(ps, start)[Len(ps)]

\* Serialize to the stat file: a line with the size, then one line per page.
Serialized(ps) == [total |-> Size(ps), lines |-> ps]

\* Bug: the flag at the end of a line is not read, every area counts as loaded.
ReplayLineLoaded(ps, line) == SetInit(ps, line.offset, line.bytes, TRUE)

\* Serialize from the stat file: each line is replayed as a SetInit.
ReplayLine(ps, line) == SetInit(ps, line.offset, line.bytes, line.init)

\* The list after each line.
Replay(lines) ==
  LET ps[n \in 0..Len(lines)] == IF n = 0 THEN <<>> ELSE ReplayLine(ps[n - 1], lines[n])
  IN  ps

Replayed(lines) == Replay(lines)[Len(lines)]

\* The result counts only when it adds up to the total on the first line.
Deserialized(file) ==
  IF Size(Replayed(file.lines)) = file.total THEN Replayed(file.lines) ELSE <<>>

-----------------------------------------------------------------------------

Init == \E n \in 0..MaxSize : pages = InitPages(n, FALSE)

\* FdEntity::Open (is_init = false) and FdEntity::SetAllStatus.
DoInit(n, is_init) == pages' = InitPages(n, is_init)

\* Load and Write mark with true, a forced Read with false.
DoSetInit(start, len, is_init) == pages' = SetInit(pages, start, len, is_init)

Next ==
  \/ \E n \in 0..MaxSize, is_init \in BOOLEAN : DoInit(n, is_init)
  \/ \E start \in 0..MaxSize, len \in 0..MaxSize, is_init \in BOOLEAN :
        start + len <= MaxSize /\ DoSetInit(start, len, is_init)

Spec == Init /\ [][Next]_pages

-----------------------------------------------------------------------------

TypeOK == pages \in Seq(PageType)

(* The pages cover the file from byte 0 without a gap or an overlap, every   *)
(* page but the last is full and no page is empty.  Everything that reads    *)
(* the list (Size, the search for areas to download, the stat file) relies   *)
(* on it; only the arithmetic of Resize and Init keeps it.                   *)
PagesTile ==
  /\ pages # <<>> => pages[1].offset = 0
  /\ \A k \in 1..Len(pages) : 0 < pages[k].bytes /\ pages[k].bytes <= PageSize
  /\ \A k \in 1..Len(pages) - 1 : /\ pages[k].bytes = PageSize
                                  /\ pages[k + 1].offset = NextOf(pages[k])

\* What the list means.
MapOf(ps) == Map(Size(ps), {k \in 0..Len(ps) : k < Len(ps) /\ ps[k + 1].init})

(* At every list the code can build, SetInit on it does to the file what     *)
(* PageMap says: the areas it touches get the flag, the grown last page      *)
(* loses it, and no other page changes.                                      *)
SetInitMatchesMap ==
  \A start \in 0..MaxSize, len \in 0..MaxSize, is_init \in BOOLEAN :
    MapOf(SetInit(pages, start, len, is_init)) = Marked(MapOf(pages), start, len, is_init)

\* The pages that lie in the area p.
PagesIn(p) == {k \in 0..MaxSize : p.offset <= k * PageSize /\ k * PageSize < NextOf(p)}

(* The areas Load takes from GetUninitPages hold exactly the pages that are  *)
(* missing: it downloads every byte it needs and none that is already there, *)
(* and no two areas of the list touch, so that each is one request.          *)
UninitPagesAreWanted ==
  \A start \in 0..MaxSize, len \in 0..MaxSize :
    LET list == GetUninitPages(pages, start)
        upto == {i \in 1..Len(list) : list[i].offset < start + len}
    IN  /\ UNION {PagesIn(list[i]) : i \in upto} = Wanted(MapOf(pages), start, len)
        /\ \A i \in 1..Len(list) - 1 : NextOf(list[i]) < list[i + 1].offset

(* A list written to the stat file and replayed from it, line by line with   *)
(* SetInit, is the same list: closing and opening a file forgets no area     *)
(* and declares none loaded. It is about a stat file that held no longer     *)
(* text before; CacheFile has the case where the older text has a tail.      *)
ReopenKeepsPages == Deserialized(Serialized(pages)) = pages

==============================================================================
