------------------------------- MODULE PageMap -------------------------------
(***************************************************************************)
(* What a PageList (fdcache.h:50, fdcache.cpp:190) means, without the list:*)
(* the size of the file and the set of pages whose bytes are in the local  *)
(* file.  Pages are numbered from 0; page k covers the bytes from          *)
(* k * PageSize up to the next page or the end of the file.                *)
(*                                                                         *)
(* PageList.tla is the list the code keeps, and is shown to compute the    *)
(* same thing; FdEntity.tla is built on this view of it.                   *)
(***************************************************************************)
EXTENDS Integers

CONSTANT PageSize                    \* FdManager::page_size

ASSUME PageSizeAssumption == PageSize \in Nat \ {0}

PageOf(i) == i \div PageSize         \* the page that holds byte i

\* The pages of a file of n bytes.
PagesOf(n) == {k \in 0..n : k * PageSize < n}

\* The byte behind page k of a file of n bytes.
PageEnd(n, k) == IF (k + 1) * PageSize < n THEN (k + 1) * PageSize ELSE n

Map(size, loaded) == [size |-> size, loaded |-> loaded]

\* PageList::Init: nothing (or everything) of a file of n bytes is loaded.
BlankMap(n, is_init) == Map(n, IF is_init THEN PagesOf(n) ELSE {})

\* PageList::Resize(n, false) with n above the size: a last page that was not
\* full grows to n or to a whole page, and the grown page counts as not loaded.
Resized(m, n) ==
  Map(n, {k \in m.loaded : (k + 1) * PageSize <= m.size})

\* PageList::SetInit: the file grows to cover the area, and every page that
\* overlaps it gets the flag.
Touched(n, start, len) ==
  {k \in PagesOf(n) : k * PageSize < start + len /\ start < PageEnd(n, k)}

Marked(m, start, len, is_init) ==
  LET grown   == IF m.size < start + len THEN Resized(m, start + len) ELSE m
      touched == Touched(grown.size, start, len)
  IN  Map(grown.size, IF is_init THEN grown.loaded \cup touched
                                 ELSE grown.loaded \ touched)

\* The pages the walk of GetUninitPages(list, start) picks: not loaded, and
\* ending behind start.
Unloaded(m, start) ==
  {k \in PagesOf(m.size) : start < PageEnd(m.size, k) /\ k \notin m.loaded}

\* Bug: only pages that begin in front of the end of the area are downloaded,
\* counted from the start of the file instead of from start.
WantedByLen(m, start, len) == {k \in Unloaded(m, start) : k * PageSize < len}

\* What Load(start, len) downloads.  GetUninitPages merges neighbours into one
\* area, and an area that begins in front of start + len is downloaded whole: so
\* a page comes along when unloaded pages lead up to it from one that begins there.
Wanted(m, start, len) ==
  LET un == Unloaded(m, start)
  IN  {k \in un : \E j \in un : /\ j <= k /\ j..k \subseteq un
                                /\ j * PageSize < start + len}

\* Load downloads one area after the other and stops at the first it cannot get.
\* What it got are whole areas, and all of the areas in front of them.  The
\* server (external) refuses a range that begins behind the end of the object.
Fetched(wanted, got, object_size) ==
  /\ got \subseteq wanted
  /\ \A k \in got : k - 1 \notin wanted => k * PageSize < object_size
  /\ \A k \in got, j \in wanted : j < k \/ k..j \subseteq wanted => j \in got

\* The area behind those.
FailedArea(wanted, got) ==
  {k \in wanted \ got : \A j \in wanted \ got : j <= k => j..k \subseteq wanted}

==============================================================================
