--------------------------- MODULE CacheFileProofs ---------------------------
(***************************************************************************)
(* LoadedIsStored and UploadsWholeFiles for every page size, every bound on*)
(* sizes and any values of bytes.  Two things make them inductive.  One is *)
(* what the two files on the disk say of each other while nothing is open  *)
(* (StatHolds): a list in the stat file that is about as many bytes as the *)
(* cache file has, vouches only for pages that hold the object's bytes.    *)
(* The other is the shape of the lists (Gapless): behind a loaded page all *)
(* pages are loaded but perhaps the last, whose flag the tail of an older  *)
(* stat text can turn off; that page still holds what it held.             *)
(***************************************************************************)
EXTENDS CacheFile, TLAPS

LastPage(list) == PageOf(list.size - 1)

\* The pages a list speaks for: the loaded ones, and the last page with them.
Vouched(list) == IF list.loaded = {} THEN {} ELSE list.loaded \cup {LastPage(list)}

\* Pages are loaded up to the end of the file, and written from its start.
Gapless(list) == \A k \in list.loaded, j \in PagesOf(list.size) : k <= j => j \in Vouched(list)

AllButLast(list) == PagesOf(list.size) \subseteq list.loaded \cup {LastPage(list)}

\* The bytes in the pages that `list` speaks for are the object's.
Stored(list) ==
  \A i \in Offsets : (i < list.size /\ PageOf(i) \in Vouched(list)) => disk.data[i] = object.data[i]

StatHolds == stat.list.size = disk.size => Stored(stat.list)

HolesAreStored ==
  \A i \in Offsets : (i < map.size /\ PageOf(i) \notin map.loaded) => disk.data[i] = object.data[i]

\* A process that dies leaves the stat file behind: it must hold in a session too,
\* unless the session has excuses (Crash) or has cut the file since.  A file that
\* was written to differs from the object, but not where it has holes.
IInv ==
  /\ TypeOK
  /\ IsOpen => disk.size = map.size
  /\ Gapless(map)
  /\ Gapless(stat.list)
  /\ (IsOpen /\ ~is_modify /\ ~outdated) => Stored(map)
  /\ is_modify => mode = "file" /\ AllButLast(map)
  /\ (is_modify /\ ~outdated) => HolesAreStored
  /\ (named /\ ~outdated /\ ~is_modify /\ ~emptied) => StatHolds
  /\ ~IsOpen => ~is_modify /\ ~emptied

-----------------------------------------------------------------------------
(* Types                                                                    *)

LEMMA FileType ==
  ASSUME NEW n \in 0..MaxSize, NEW d, \A i \in Offsets : i < n => d[i] \in Byte
  PROVE  /\ File(n, d) \in Files /\ File(n, d).size = n
         /\ \A i \in Offsets : File(n, d).data[i] = IF i < n THEN d[i] ELSE Zero
BY CacheAssumption DEF File, Files

LEMMA BlankMapType ==
  ASSUME NEW n \in 0..MaxSize
  PROVE  /\ BlankMap(n, FALSE) \in Maps
         /\ BlankMap(n, FALSE).size = n /\ BlankMap(n, FALSE).loaded = {}
BY DEF BlankMap, Map, Maps

LEMMA WantedType ==
  ASSUME NEW m \in Maps, NEW start \in Nat, NEW len \in Nat
  PROVE  Wanted(m, start, len) \subseteq 0..MaxSize
<1>1. m.size \in 0..MaxSize
  BY DEF Maps
<1>2. PagesOf(m.size) \subseteq 0..MaxSize
  BY <1>1, CacheAssumption DEF PagesOf
<1> QED
  BY <1>2 DEF Wanted, Unloaded

LEMMA MarkedType ==
  ASSUME NEW m \in Maps, NEW start \in Nat, NEW len \in Nat, start + len <= MaxSize
  PROVE  /\ Marked(m, start, len, TRUE) \in Maps
         /\ Marked(m, start, len, TRUE).size = IF m.size < start + len THEN start + len ELSE m.size
<1> DEFINE grown == IF m.size < start + len THEN Resized(m, start + len) ELSE m
           now   == grown.loaded \cup Touched(grown.size, start, len)
<1>1. grown \in Maps /\ grown.size = IF m.size < start + len THEN start + len ELSE m.size
  BY CacheAssumption DEF Resized, Map, Maps
<1>2. Touched(grown.size, start, len) \subseteq 0..MaxSize
  <2>1. PagesOf(grown.size) \subseteq 0..MaxSize
    BY <1>1, CacheAssumption DEF PagesOf, Maps
  <2> QED
    BY <2>1 DEF Touched
<1>3. Marked(m, start, len, TRUE) = [size |-> grown.size, loaded |-> now]
  BY DEF Marked, Map
<1>4. Marked(m, start, len, TRUE).size = grown.size
  BY DEF Marked, Map
<1>5. now \subseteq 0..MaxSize /\ grown.size \in 0..MaxSize
  <2>1. grown.loaded \subseteq 0..MaxSize /\ grown.size \in 0..MaxSize
    BY <1>1 DEF Maps
  <2> QED
    BY <2>1, <1>2
<1> HIDE DEF grown, now
<1>6. [size |-> grown.size, loaded |-> now] \in Maps
  BY <1>5 DEF Maps
<1>7. Marked(m, start, len, TRUE) \in Maps
  BY <1>3, <1>6
<1>8. Marked(m, start, len, TRUE).size = IF m.size < start + len THEN start + len ELSE m.size
  BY <1>1, <1>4
<1> QED
  BY <1>7, <1>8

\* The tail of an older text changes no size, and no flag but one.
LEMMA ReadingsType ==
  ASSUME NEW m \in Maps, NEW list \in Readings(m)
  PROVE  list = NoList \/ (list \in Maps /\ list.size = m.size)
<1>1. CASE list \in {m, NoList}
  BY <1>1
<1>2. CASE list \in Reflagged(m) /\ m.size # 0
  <2> DEFINE last == PageOf(m.size - 1)
  <2>1. m.size - 1 \in 0..MaxSize /\ m.size - 1 \in Nat /\ m.loaded \subseteq 0..MaxSize
    BY <1>2, CacheAssumption DEF Maps
  <2>2. last \in 0..MaxSize
    <3>1. last = (m.size - 1) \div PageSize
      BY DEF PageOf
    <3>2. \A n \in Nat : n \div PageSize \in 0..n
      BY PageSizeAssumption
    <3> QED
      BY <2>1, <3>1, <3>2, CacheAssumption
  <2>3. list = Map(m.size, m.loaded \cup {last}) \/ list = Map(m.size, m.loaded \ {last})
    BY <1>2 DEF Reflagged
  <2> HIDE DEF last
  <2> QED
    BY <2>1, <2>2, <2>3 DEF Map, Maps
<1>3. CASE list \in Reflagged(m) /\ m.size = 0
  BY <1>3 DEF Reflagged
<1> QED
  BY <1>1, <1>2, <1>3 DEF Readings

LEMMA TypeStep == TypeOK /\ [Next]_vars => TypeOK'
<1> SUFFICES ASSUME TypeOK, [Next]_vars PROVE TypeOK'
  OBVIOUS
<1> USE CacheAssumption
<1>0. BlankMap(0, FALSE) \in Maps
  <2>1. 0 \in 0..MaxSize
    OBVIOUS
  <2> QED
    BY <2>1, BlankMapType
<1>1. ASSUME NEW size \in 0..MaxSize, Open(size), mode' \in {"file", "truncate"} PROVE TypeOK'
  <2>1. \A d \in [Offsets -> Byte] : File(size, d) \in Files
    BY FileType DEF Offsets
  <2>2. Holes \in [Offsets -> Byte] /\ disk.data \in [Offsets -> Byte]
    BY DEF TypeOK, Holes, Files
  <2>3. disk' \in Files
    BY <1>1, <2>1, <2>2 DEF Open, TypeOK
  <2>4. map' \in Maps
    <3>1. CASE named /\ Fits(size)
      BY <1>1, <3>1 DEF Open, Fits, TypeOK, NoList, Map, Maps
    <3>2. CASE ~(named /\ Fits(size))
      BY <1>1, <3>2, BlankMapType DEF Open
    <3> QED
      BY <3>1, <3>2
  <2> QED
    BY <1>1, <2>3, <2>4 DEF Open, TypeOK
<1>2. ASSUME NEW trunc \in BOOLEAN, OpenFile(trunc) PROVE TypeOK'
  <2>1. object.size \in 0..MaxSize /\ 0 \in 0..MaxSize
    BY DEF TypeOK, Files
  <2> QED
    BY <1>1, <1>2, <2>1 DEF OpenFile
<1>3. ASSUME NEW size \in 0..MaxSize, Truncate(size) PROVE TypeOK'
  BY <1>1, <1>3 DEF Truncate
<1>4. ASSUME NEW start \in 0..MaxSize, NEW len \in 1..MaxSize, Load(start, len) PROVE TypeOK'
  <2>1. PICK got \in SUBSET Wanted(map, start, len) :
          /\ map' = Map(map.size, map.loaded \cup got)
          /\ \E bytes : disk' = File(disk.size, [i \in Offsets |->
                            IF PageOf(i) \in bytes THEN object.data[i] ELSE disk.data[i]])
    BY <1>4 DEF Load
  <2>2. disk' \in Files
    BY <2>1, FileType DEF TypeOK, Files
  <2>3. map' \in Maps
    <3>1. got \subseteq 0..MaxSize
      BY <2>1, WantedType DEF TypeOK
    <3> QED
      BY <2>1, <3>1 DEF TypeOK, Map, Maps
  <2> QED
    BY <1>4, <2>2, <2>3 DEF Load, TypeOK
<1>5. ASSUME NEW start \in 0..MaxSize, NEW len \in 1..MaxSize, NEW byte \in Byte \ {Zero},
             start + len <= MaxSize, Write(start, len, byte)
      PROVE  TypeOK'
  <2>1. map' \in Maps
    <3>1. start \in Nat /\ len \in Nat
      OBVIOUS
    <3> QED
      BY <1>5, <3>1, MarkedType DEF Write, TypeOK
  <2>2. disk' \in Files
    <3> DEFINE n == IF disk.size < start + len THEN start + len ELSE disk.size
               d == [i \in Offsets |-> IF start <= i /\ i < start + len THEN byte ELSE disk.data[i]]
    <3>1. n \in 0..MaxSize /\ d \in [Offsets -> Byte]
      BY <1>5 DEF TypeOK, Files
    <3>2. disk' = File(n, d)
      BY <1>5 DEF Write
    <3> HIDE DEF n, d
    <3> QED
      BY <3>1, <3>2, FileType
  <2> QED
    BY <1>5, <2>1, <2>2 DEF Write, TypeOK
<1>6. ASSUME NEW ok \in BOOLEAN, Flush(ok) PROVE TypeOK'
  <2>1. LocalFile \in Files
    BY FileType DEF LocalFile, TypeOK, Maps, Files
  <2> QED
    BY <1>6, <2>1 DEF Flush, TypeOK
<1>7. CASE Close
  <2>1. PICK list \in Readings(map) :
          stat' = [list |-> list, text |-> IF map.size < stat.text THEN stat.text ELSE map.size]
    BY <1>7 DEF Close
  <2>2. list \in Maps \cup {NoList}
    BY <2>1, ReadingsType DEF TypeOK
  <2>3. map.size \in 0..MaxSize /\ stat.text \in 0..MaxSize
    BY DEF TypeOK, Maps
  <2>4. stat' \in [list : Maps \cup {NoList}, text : 0..MaxSize]
    BY <2>1, <2>2, <2>3
  <2>5. outdated' \in BOOLEAN
    BY <1>7, Zenon DEF Close
  <2> QED
    BY <1>7, <1>0, <2>4, <2>5 DEF Close, TypeOK
<1>8. CASE Crash
  <2>1. outdated' \in BOOLEAN
    BY <1>8, Zenon DEF Crash
  <2> QED
    BY <1>8, <1>0, <2>1 DEF Crash, TypeOK
<1>9. ASSUME NEW n \in 0..MaxSize, NEW byte \in Byte \ {Zero}, Replace(n, byte) PROVE TypeOK'
  BY <1>9, FileType DEF Replace, TypeOK
<1>10. CASE DropCache
  BY <1>10 DEF DropCache, TypeOK
<1>11. CASE DropStat
  <2>1. stat' \in [list : Maps \cup {NoList}, text : 0..MaxSize]
    <3>1. 0 \in 0..MaxSize
      OBVIOUS
    <3> QED
      BY <1>0, <1>11, <3>1 DEF DropStat, EmptyStat
  <2> QED
    BY <1>11, <2>1 DEF DropStat, TypeOK
<1>12. CASE UNCHANGED vars
  BY <1>12 DEF vars, TypeOK
<1>13. ASSUME NEW ok \in BOOLEAN, ChmodNoCopy(ok) PROVE TypeOK'
  <2>1. LocalFile \in Files
    BY FileType DEF LocalFile, TypeOK, Maps, Files
  <2>2. outdated' \in BOOLEAN /\ emptied' \in BOOLEAN
    BY <1>13, Zenon DEF ChmodNoCopy, TypeOK
  <2> QED
    BY <1>13, <2>1, <2>2 DEF ChmodNoCopy, TypeOK
<1>14. CASE RenameNoCopy
  <2>1. outdated' \in BOOLEAN
    BY <1>14, Zenon DEF RenameNoCopy
  <2> QED
    BY <1>14, <2>1 DEF RenameNoCopy, TypeOK
<1>15. ASSUME NEW size \in 0..MaxSize, TruncateUnseen(size) PROVE TypeOK'
  <2>1. File(size, Holes) \in Files
    BY FileType DEF Holes
  <2>2. outdated' \in BOOLEAN
    BY <1>15, Zenon DEF TruncateUnseen, TypeOK
  <2> QED
    BY <1>15, <2>1, <2>2 DEF TruncateUnseen, TypeOK
<1> QED
  BY <1>2, <1>3, <1>4, <1>5, <1>6, <1>7, <1>8, <1>9, <1>10, <1>11, <1>12, <1>13, <1>14, <1>15 DEF Next

-----------------------------------------------------------------------------
(* Pages                                                                    *)

LEMMA PageOfBounds ==
  ASSUME NEW i \in Nat
  PROVE  PageOf(i) \in Nat /\ PageOf(i) * PageSize <= i /\ i < (PageOf(i) + 1) * PageSize
BY PageSizeAssumption DEF PageOf

\* Multiples of the page size are in the order of their factors.
LEMMA PageOrder ==
  ASSUME NEW j \in Nat, NEW k \in Nat
  PROVE  /\ j * PageSize \in Nat /\ j <= j * PageSize
         /\ j <= k => j * PageSize <= k * PageSize
         /\ j < k => (j + 1) * PageSize <= k * PageSize
         /\ (j + 1) * PageSize = j * PageSize + PageSize
BY PageSizeAssumption

LEMMA PageOfInFile ==
  ASSUME NEW n \in Nat, NEW i \in 0..n - 1
  PROVE  PageOf(i) \in PagesOf(n)
<1>1. i \in Nat /\ PageOf(i) \in Nat /\ PageOf(i) * PageSize <= i
  BY PageOfBounds
<1>2. PageOf(i) <= PageOf(i) * PageSize /\ PageOf(i) * PageSize \in Nat
  BY <1>1, PageOrder
<1> QED
  BY <1>1, <1>2 DEF PagesOf

\* The last page is a page, and no page is behind it.
LEMMA LastPageIsLast ==
  ASSUME NEW n \in Nat, NEW k \in PagesOf(n)
  PROVE  PageOf(n - 1) \in PagesOf(n) /\ k \in Nat /\ k <= PageOf(n - 1)
<1> DEFINE last == PageOf(n - 1)
<1>1. k \in Nat /\ k * PageSize < n /\ k * PageSize \in Nat
  BY PageOrder DEF PagesOf
<1>2. n - 1 \in 0..n - 1 /\ n - 1 \in Nat
  BY <1>1
<1>3. last \in PagesOf(n)
  BY <1>2, PageOfInFile
<1>4. last \in Nat /\ n - 1 < (last + 1) * PageSize
  BY <1>2, PageOfBounds
<1> HIDE DEF last
<1>5. ASSUME last < k PROVE FALSE
  <2>1. (last + 1) * PageSize <= k * PageSize
    BY <1>1, <1>4, <1>5, PageOrder
  <2>2. (last + 1) * PageSize \in Nat
    BY <1>4, PageOrder
  <2> QED
    BY <1>1, <1>4, <2>1, <2>2
<1>6. k <= last
  BY <1>1, <1>4, <1>5
<1> QED
  BY <1>1, <1>3, <1>6 DEF last

\* The pages of a file have an order, and so do their ends.
LEMMA PagesInOrder ==
  ASSUME NEW n \in Nat, NEW j \in PagesOf(n), NEW k \in PagesOf(n), j <= k
  PROVE  j \in Nat /\ k \in Nat /\ j..k \subseteq PagesOf(n)
         /\ PageEnd(n, j) <= PageEnd(n, k) /\ k * PageSize < PageEnd(n, k)
<1>1. j \in Nat /\ k \in Nat /\ k * PageSize < n
  BY DEF PagesOf
<1>2. (j + 1) * PageSize <= (k + 1) * PageSize /\ (k + 1) * PageSize = k * PageSize + PageSize
  BY <1>1, PageOrder
<1>3. j..k \subseteq PagesOf(n)
  <2> SUFFICES ASSUME NEW l \in j..k PROVE l \in PagesOf(n)
    OBVIOUS
  <2>1. l \in Nat /\ l * PageSize <= k * PageSize /\ l <= l * PageSize /\ l * PageSize \in Nat
    BY <1>1, PageOrder
  <2> QED
    BY <1>1, <2>1, PageOrder DEF PagesOf
<1>4. (j + 1) * PageSize \in Nat /\ (k + 1) * PageSize \in Nat /\ k * PageSize \in Nat
  BY <1>1, PageOrder
<1> QED
  BY <1>1, <1>2, <1>3, <1>4, PageSizeAssumption DEF PageEnd

\* A page that begins in front of the end of the area of a Load is loaded then.
LEMMA NothingWanted ==
  ASSUME NEW m \in Maps, NEW len \in Nat, Wanted(m, 0, len) = {},
         NEW k \in PagesOf(m.size), k * PageSize < len
  PROVE  k \in m.loaded
<1> SUFFICES ASSUME k \notin m.loaded PROVE k \in Wanted(m, 0, len)
  OBVIOUS
<1>0. m.size \in Nat
  BY CacheAssumption DEF Maps
<1>1. k \in Nat /\ k * PageSize \in Nat /\ k * PageSize < m.size
  BY PageOrder DEF PagesOf
<1>2. 0 < PageEnd(m.size, k)
  BY <1>0, <1>1, PageOrder, PagesInOrder DEF PageEnd
<1>3. k \in Unloaded(m, 0) /\ k..k \subseteq Unloaded(m, 0) /\ k * PageSize < 0 + len
  BY <1>1, <1>2 DEF Unloaded
<1> QED
  BY <1>1, <1>3 DEF Wanted

\* What a Load wants goes on up to the next page that is loaded.
LEMMA WantedGoesOn ==
  ASSUME NEW m \in Maps, NEW start \in Nat, NEW len \in Nat,
         NEW j \in Wanted(m, start, len), NEW k \in PagesOf(m.size), j <= k,
         \A l \in j..k : l \notin m.loaded
  PROVE  j \in Nat /\ k \in Nat /\ j..k \subseteq Wanted(m, start, len)
<1> DEFINE un == Unloaded(m, start)
<1>0. m.size \in Nat
  BY CacheAssumption DEF Maps
<1>1. j \in PagesOf(m.size) /\ start < PageEnd(m.size, j) /\ j \in Nat /\ k \in Nat
  BY DEF Wanted, Unloaded, PagesOf
<1>2. PICK i \in un : i <= j /\ i..j \subseteq un /\ i * PageSize < start + len
  BY DEF Wanted
<1>3. i \in Nat
  BY <1>2 DEF Unloaded, PagesOf
<1>4. \A l \in j..k : l \in un
  <2> SUFFICES ASSUME NEW l \in j..k PROVE l \in un
    OBVIOUS
  <2>1. l \in PagesOf(m.size) /\ j <= l
    BY <1>0, <1>1, PagesInOrder
  <2>2. PageEnd(m.size, j) <= PageEnd(m.size, l)
    BY <1>0, <1>1, <2>1, PagesInOrder
  <2>3. PageEnd(m.size, j) \in Int /\ PageEnd(m.size, l) \in Int
    BY <1>0, <1>1, PageSizeAssumption DEF PageEnd
  <2> QED
    BY <1>1, <2>1, <2>2, <2>3 DEF Unloaded
<1>5. \A l \in j..k : l \in Wanted(m, start, len)
  <2> SUFFICES ASSUME NEW l \in j..k PROVE l \in Wanted(m, start, len)
    OBVIOUS
  <2>1. i..l \subseteq un /\ i <= l /\ l \in un
    BY <1>1, <1>2, <1>3, <1>4
  <2> QED
    BY <1>2, <2>1 DEF Wanted
<1> QED
  BY <1>1, <1>5

\* And what it gets, as Load stops only between two areas.
LEMMA FetchedGoesOn ==
  ASSUME NEW m \in Maps, NEW start \in Nat, NEW len \in Nat, NEW size,
         NEW got, Fetched(Wanted(m, start, len), got, size),
         NEW j \in got, NEW k \in PagesOf(m.size), j <= k, \A l \in j..k : l \notin m.loaded
  PROVE  k \in got
<1>1. j \in Wanted(m, start, len)
  BY DEF Fetched
<1>2. j \in Nat /\ k \in Nat /\ j..k \subseteq Wanted(m, start, len)
  BY <1>1, WantedGoesOn
<1> QED
  BY <1>2 DEF Fetched

-----------------------------------------------------------------------------
(* What becomes of the shape of a list                                      *)

LEMMA WholeIsGapless ==
  ASSUME NEW list, AllButLast(list)
  PROVE  Gapless(list)
BY DEF AllButLast, Gapless, Vouched

\* A Load leaves no gap, and speaks for no page that it did not get.
LEMMA LoadKeepsGapless ==
  ASSUME NEW m \in Maps, Gapless(m), NEW start \in Nat, NEW len \in Nat, NEW size,
         NEW got, Fetched(Wanted(m, start, len), got, size)
  PROVE  LET now == Map(m.size, m.loaded \cup got)
         IN  Gapless(now) /\ Vouched(now) \subseteq Vouched(m) \cup got
<1> DEFINE now == Map(m.size, m.loaded \cup got)
<1>0. m.size \in Nat /\ m.loaded \subseteq Nat
  BY CacheAssumption DEF Maps
<1>1. now.size = m.size /\ now.loaded = m.loaded \cup got /\ LastPage(now) = LastPage(m)
  BY DEF Map, LastPage
<1>2. got \subseteq PagesOf(m.size) /\ got \subseteq Nat
  BY DEF Fetched, Wanted, Unloaded, PagesOf
<1> HIDE DEF now
<1>3. Gapless(now)
  <2> SUFFICES ASSUME NEW k \in now.loaded, NEW j \in PagesOf(m.size), k <= j,
                      j \notin m.loaded, j \notin got
               PROVE  j = LastPage(m)
    BY <1>1 DEF Gapless, Vouched
  <2>1. k \in Nat /\ j \in Nat
    <3>1. now.loaded \subseteq Nat
      BY <1>0, <1>1, <1>2
    <3>2. j \in Nat
      BY DEF PagesOf
    <3> QED
      BY <3>1, <3>2
  <2>2. ASSUME NEW l \in k..j, l \in m.loaded PROVE j = LastPage(m)
    <3>1. j \in Vouched(m)
      BY <2>1, <2>2 DEF Gapless
    <3> QED
      BY <3>1 DEF Vouched
  <2>3. CASE k \in got /\ \A l \in k..j : l \notin m.loaded
    BY <2>3, FetchedGoesOn
  <2>4. CASE k \in m.loaded
    <3>1. k \in k..j
      BY <2>1
    <3> QED
      BY <2>2, <2>4, <3>1
  <2> QED
    BY <1>1, <2>2, <2>3, <2>4
<1>4. Vouched(now) \subseteq Vouched(m) \cup got
  <2>1. CASE m.loaded # {}
    BY <1>1, <2>1 DEF Vouched
  <2>2. CASE m.loaded = {} /\ got = {}
    BY <1>1, <2>2 DEF Vouched
  <2>3. CASE m.loaded = {} /\ got # {}
    <3>1. PICK k : k \in got
      BY <2>3
    <3>2. LastPage(m) \in PagesOf(m.size) /\ k <= LastPage(m)
      BY <1>0, <1>2, <3>1, LastPageIsLast DEF LastPage
    <3>3. LastPage(m) \in got
      BY <2>3, <3>1, <3>2, FetchedGoesOn
    <3> QED
      BY <1>1, <3>3 DEF Vouched
  <2> QED
    BY <2>1, <2>2, <2>3
<1> QED
  BY <1>3, <1>4 DEF now

\* A careful write leaves no hole but a last page that it neither reached nor moved.
LEMMA WriteFills ==
  ASSUME NEW m \in Maps, Gapless(m), NEW start \in 0..m.size, NEW len \in Nat \ {0},
         start = 0 => m.size = 0 \/ 0 \in m.loaded, Wanted(m, 0, start) = {}
  PROVE  LET now == Marked(m, start, len, TRUE)
         IN  /\ AllButLast(now)
             /\ \A k \in PagesOf(now.size) \ now.loaded :
                  /\ now.size = m.size /\ k \notin Touched(m.size, start, len)
                  /\ k \notin m.loaded /\ k \in Vouched(m)
<1> DEFINE now   == Marked(m, start, len, TRUE)
           n     == IF m.size < start + len THEN start + len ELSE m.size
           grown == IF m.size < start + len THEN Resized(m, start + len) ELSE m
<1>0. m.size \in Nat /\ start \in Nat /\ len \in Nat /\ m.loaded \subseteq Nat
  BY CacheAssumption DEF Maps
<1>1. now.size = n /\ now.loaded = grown.loaded \cup Touched(n, start, len)
  BY DEF Marked, Map, Resized
<1>2. ASSUME NEW k \in PagesOf(m.size), k * PageSize < start PROVE k \in m.loaded
  BY <1>0, <1>2, NothingWanted
<1>3. ASSUME NEW k \in PagesOf(m.size) PROVE k \in m.loaded \/ (k \in Vouched(m) /\ k = LastPage(m))
  <2>1. k \in Nat /\ k * PageSize \in Nat /\ k * PageSize < m.size
    BY PageOrder DEF PagesOf
  <2>2. 0 \in PagesOf(m.size) /\ 0 * PageSize = 0
    BY <1>0, <2>1, PageSizeAssumption DEF PagesOf
  <2>3. 0 \in m.loaded
    BY <1>0, <1>2, <2>1, <2>2
  <2>4. k \in Vouched(m)
    BY <2>1, <2>3 DEF Gapless
  <2> QED
    BY <2>4 DEF Vouched
<1>4. CASE m.size < start + len
  <2>1. n = start + len /\ n \in Nat /\ grown.loaded = {k \in m.loaded : (k + 1) * PageSize <= m.size}
    BY <1>0, <1>4 DEF Resized, Map
  <2>2. ASSUME NEW k \in PagesOf(n), k \notin Touched(n, start, len) PROVE k \in grown.loaded
    <3>1. k \in Nat /\ k * PageSize < n /\ k * PageSize \in Nat /\ k <= k * PageSize
          /\ (k + 1) * PageSize = k * PageSize + PageSize
      BY PageOrder DEF PagesOf
    <3>2. ~(start < PageEnd(n, k))
      BY <2>1, <2>2, <3>1 DEF Touched
    <3>3. (k + 1) * PageSize <= start
      BY <1>0, <2>1, <3>1, <3>2, PageSizeAssumption DEF PageEnd
    <3>4. k * PageSize < start /\ (k + 1) * PageSize <= m.size /\ k * PageSize < m.size
      BY <1>0, <3>1, <3>3, PageSizeAssumption
    <3>5. k \in PagesOf(m.size)
      BY <1>0, <3>1, <3>4 DEF PagesOf
    <3>6. k \in m.loaded
      BY <1>2, <3>4, <3>5
    <3> QED
      BY <2>1, <3>4, <3>6
  <2>3. PagesOf(now.size) \subseteq now.loaded
    BY <1>1, <2>2
  <2> HIDE DEF now
  <2> QED
    BY <2>3 DEF AllButLast, now
<1>5. CASE ~(m.size < start + len)
  <2>1. n = m.size /\ grown = m
    BY <1>0, <1>5
  <2>2. now.size = m.size /\ now.loaded = m.loaded \cup Touched(m.size, start, len)
    BY <1>1, <2>1
  <2> HIDE DEF now
  <2>3. AllButLast(now)
    BY <1>3, <2>2 DEF AllButLast, LastPage
  <2> QED
    BY <1>3, <2>2, <2>3 DEF now
<1> QED
  BY <1>4, <1>5

\* The tail of an older text makes no gap, and a list that it does not add to
\* speaks for no page that the written one did not.
LEMMA ReadingsShape ==
  ASSUME NEW m \in Maps, Gapless(m), NEW list \in Readings(m)
  PROVE  Gapless(list) /\ (list.loaded \subseteq m.loaded => Vouched(list) \subseteq Vouched(m))
<1>0. m.size \in Nat
  BY CacheAssumption DEF Maps
<1>1. CASE list = m
  BY <1>1
<1>2. CASE list = NoList
  BY <1>2 DEF NoList, Map, Gapless, Vouched
<1>3. CASE list \in Reflagged(m) /\ m.size # 0
  <2> DEFINE last == LastPage(m)
  <2>1. list.size = m.size /\ LastPage(list) = last
        /\ (list.loaded = m.loaded \cup {last} \/ list.loaded = m.loaded \ {last})
    BY <1>3 DEF Reflagged, Map, LastPage
  <2>2. Gapless(list)
    <3> SUFFICES ASSUME NEW k \in list.loaded, NEW j \in PagesOf(m.size), k <= j, j # last
                 PROVE  j \in list.loaded
      BY <2>1 DEF Gapless, Vouched
    <3>1. j \in Nat /\ last \in PagesOf(m.size) /\ last \in Nat /\ j <= last
      BY <1>0, LastPageIsLast DEF LastPage, PagesOf
    <3>2. k # last
      BY <3>1
    <3>3. k \in m.loaded
      BY <2>1, <3>2
    <3>4. j \in Vouched(m)
      BY <3>3 DEF Gapless
    <3>5. j \in m.loaded
      BY <3>4 DEF Vouched
    <3> QED
      BY <2>1, <3>5
  <2>3. list.loaded \subseteq m.loaded => Vouched(list) \subseteq Vouched(m)
    BY <2>1 DEF Vouched
  <2> QED
    BY <2>2, <2>3
<1>4. CASE list \in Reflagged(m) /\ m.size = 0
  BY <1>4 DEF Reflagged
<1> QED
  BY <1>1, <1>2, <1>3, <1>4 DEF Readings

-----------------------------------------------------------------------------
(* The invariant                                                            *)

LEMMA InitEstablishes == Init => IInv
<1> SUFFICES ASSUME Init PROVE IInv
  OBVIOUS
<1>1. 0 \in 0..MaxSize /\ Holes \in [Offsets -> Byte]
  BY CacheAssumption DEF Holes
<1>2. object \in Files
  <2>1. PICK n \in 0..MaxSize, b \in Byte : object = File(n, [i \in Offsets |-> b])
    BY DEF Init
  <2> QED
    BY <2>1, FileType
<1>3. disk \in Files /\ disk.size = 0
  BY <1>1, FileType DEF Init
<1>4. map \in Maps /\ map.size = 0 /\ map.loaded = {}
  BY <1>1, BlankMapType DEF Init
<1>5. stat \in [list : Maps \cup {NoList}, text : 0..MaxSize] /\ stat.list = map
  BY <1>1, <1>4 DEF Init, EmptyStat
<1>6. TypeOK
  BY <1>2, <1>3, <1>4, <1>5 DEF Init, TypeOK
<1>7. Gapless(map) /\ Gapless(stat.list)
  BY <1>4, <1>5 DEF Gapless
<1>8. StatHolds
  BY <1>4, <1>5 DEF StatHolds, Stored, Vouched
<1> QED
  BY <1>4, <1>6, <1>7, <1>8 DEF Init, IInv, IsOpen

\* A file that fits is taken with its pages; one that does not begins without any.
LEMMA OpenStep ==
  ASSUME IInv, NEW size \in 0..MaxSize, Open(size), mode' \in {"file", "truncate"}
  PROVE  /\ disk'.size = map'.size
         /\ Gapless(map)' /\ Gapless(stat.list)'
         /\ ~outdated' => Stored(map)'
         /\ ~is_modify'
         /\ (named' /\ ~outdated' /\ ~is_modify' /\ ~emptied') => StatHolds'
<1>0. ~is_modify' /\ stat' = stat /\ Gapless(stat.list)'
  BY DEF Open, IInv
<1>1. CASE named /\ Fits(size)
  <2>1. map' = stat.list /\ disk' = disk /\ object' = object /\ stat' = stat
    BY <1>1 DEF Open
  <2>2. outdated' = outdated /\ ~is_modify /\ ~emptied
    BY <1>1 DEF Open, IInv
  <2>3. stat.list.size = disk.size
    BY <1>1 DEF Fits
  <2>4. ~outdated => Stored(stat.list)
    BY <1>1, <2>2, <2>3 DEF IInv, StatHolds
  <2>5. ~outdated' => Stored(map)' /\ StatHolds'
    BY <2>1, <2>2, <2>4 DEF StatHolds, Stored
  <2>6. Gapless(map)'
    BY <2>1 DEF IInv
  <2> QED
    BY <1>0, <2>1, <2>3, <2>5, <2>6
<1>2. CASE ~(named /\ Fits(size))
  <2>1. map' = BlankMap(size, FALSE) /\ emptied' = (stat.list.loaded # {})
    BY <1>2 DEF Open
  <2>2. map'.size = size /\ map'.loaded = {}
    BY <2>1, BlankMapType
  <2>3. disk'.size = size
    <3>1. PICK d : disk' = File(size, d)
      BY <1>2, Zenon DEF Open
    <3> QED
      BY <3>1 DEF File
  <2>4. ~emptied' => StatHolds'
    BY <1>0, <2>1 DEF StatHolds, Stored, Vouched
  <2>5. Gapless(map)' /\ Stored(map)'
    BY <2>2 DEF Gapless, Stored, Vouched
  <2> QED
    BY <1>0, <2>2, <2>3, <2>4, <2>5
<1> QED
  BY <1>1, <1>2

\* An upload that reached the bucket leaves an object that is the local file.
LEMMA LocalFileIsStored ==
  ASSUME IInv, IsOpen, object' = LocalFile, UNCHANGED <<disk, named, stat, mode, map>>
  PROVE  Stored(map)' /\ HolesAreStored' /\ StatHolds'
<1>1. \A i \in Offsets : i < map.size => object'.data[i] = disk.data[i]
  BY DEF LocalFile, File
<1>2. disk.size = map.size
  BY DEF IInv
<1> QED
  BY <1>1, <1>2 DEF Stored, HolesAreStored, StatHolds

LEMMA StepKeeps == IInv /\ [Next]_vars => IInv'
<1> SUFFICES ASSUME IInv, [Next]_vars PROVE IInv'
  OBVIOUS
<1>0. TypeOK /\ TypeOK'
  BY TypeStep DEF IInv
<1>1. ASSUME NEW trunc \in BOOLEAN, OpenFile(trunc) PROVE IInv'
  <2>1. (IF trunc THEN 0 ELSE object.size) \in 0..MaxSize
    BY <1>0, CacheAssumption DEF TypeOK, Files
  <2> QED
    BY <1>0, <1>1, <2>1, OpenStep DEF OpenFile, IInv, IsOpen
<1>2. ASSUME NEW size \in 0..MaxSize, Truncate(size) PROVE IInv'
  BY <1>0, <1>2, OpenStep DEF Truncate, IInv, IsOpen
<1>3. ASSUME NEW start \in 0..MaxSize, NEW len \in 1..MaxSize, Load(start, len) PROVE IInv'
  <2>1. PICK got, bytes :
          /\ Fetched(Wanted(map, start, len), got, object.size)
          /\ map' = Map(map.size, map.loaded \cup got)
          /\ got \subseteq bytes
          /\ disk' = File(disk.size, [i \in Offsets |->
                            IF PageOf(i) \in bytes THEN object.data[i] ELSE disk.data[i]])
    BY <1>3, Zenon DEF Load
  <2>2. disk'.size = disk.size /\ map'.size = map.size /\ map'.loaded = map.loaded \cup got
        /\ UNCHANGED <<object, named, stat, mode, is_modify, emptied, outdated>>
    BY <1>3, <2>1 DEF Load, File, Map
  <2>3. \A i \in Offsets : i < disk.size =>
          disk'.data[i] = (IF PageOf(i) \in bytes THEN object.data[i] ELSE disk.data[i])
    BY <2>1 DEF File
  <2>4. IsOpen /\ disk.size = map.size
    BY <1>3 DEF Load, IInv
  <2>5. Gapless(map') /\ Vouched(map') \subseteq Vouched(map) \cup got
    <3>1. map \in Maps /\ start \in Nat /\ len \in Nat /\ Gapless(map)
      BY <1>0 DEF TypeOK, IInv
    <3> QED
      BY <2>1, <3>1, LoadKeepsGapless
  <2>6. ASSUME Stored(map) PROVE Stored(map)'
    <3> SUFFICES ASSUME NEW i \in Offsets, i < map.size, PageOf(i) \in Vouched(map')
                 PROVE  disk'.data[i] = object.data[i]
      BY <2>2 DEF Stored
    <3>1. PageOf(i) \in Vouched(map) \/ PageOf(i) \in bytes
      BY <2>1, <2>5
    <3> QED
      BY <2>3, <2>4, <2>6, <3>1 DEF Stored
  <2>7. ASSUME HolesAreStored PROVE HolesAreStored'
    BY <2>2, <2>3, <2>4, <2>7 DEF HolesAreStored
  <2>8. ASSUME StatHolds PROVE StatHolds'
    BY <2>2, <2>3, <2>8 DEF StatHolds, Stored
  <2>9. ASSUME AllButLast(map) PROVE AllButLast(map)'
    BY <2>2, <2>9 DEF AllButLast, LastPage
  <2>10. Gapless(map)' /\ Gapless(stat.list)' /\ IsOpen'
    BY <2>2, <2>4, <2>5 DEF IInv, IsOpen
  <2> QED
    BY <1>0, <2>2, <2>4, <2>6, <2>7, <2>8, <2>9, <2>10 DEF IInv
<1>4. ASSUME NEW start \in 0..MaxSize, NEW len \in 1..MaxSize, NEW byte \in Byte \ {Zero},
             start + len <= MaxSize, Write(start, len, byte)
      PROVE  IInv'
  <2>1. disk'.size = IF disk.size < start + len THEN start + len ELSE disk.size
    BY <1>4 DEF Write, File
  <2>2. map'.size = IF map.size < start + len THEN start + len ELSE map.size
    <3>1. start \in Nat /\ len \in Nat
      OBVIOUS
    <3> QED
      BY <1>0, <1>4, <3>1, MarkedType DEF Write, TypeOK
  <2>3. UNCHANGED <<object, named, stat, mode, emptied, outdated>> /\ is_modify' = TRUE
        /\ mode = "file" /\ disk.size = map.size /\ IsOpen
    BY <1>4 DEF Write, IInv, IsOpen
  <2>4. /\ AllButLast(map')
        /\ \A k \in PagesOf(map'.size) \ map'.loaded :
             /\ map'.size = map.size /\ k \notin Touched(map.size, start, len)
             /\ k \notin map.loaded /\ k \in Vouched(map)
    <3>1. map \in Maps /\ start \in 0..map.size /\ len \in Nat \ {0} /\ Gapless(map)
      BY <1>0, <1>4 DEF Write, TypeOK, IInv, Maps
    <3>2. (start = 0 => map.size = 0 \/ 0 \in map.loaded) /\ Wanted(map, 0, start) = {}
          /\ map' = Marked(map, start, len, TRUE)
      BY <1>4 DEF Write
    <3> QED
      BY <3>1, <3>2, WriteFills
  <2>5. AllButLast(map)' /\ Gapless(map)' /\ Gapless(stat.list)'
    BY <2>3, <2>4, WholeIsGapless DEF IInv, AllButLast, LastPage
  <2>6. ASSUME ~outdated PROVE HolesAreStored'
    <3> SUFFICES ASSUME NEW i \in Offsets, i < map'.size, PageOf(i) \notin map'.loaded
                 PROVE  disk'.data[i] = object.data[i]
      BY <2>3 DEF HolesAreStored
    <3>1. i \in Nat /\ i \in 0..map'.size - 1 /\ map'.size \in Nat
      BY <1>0 DEF Offsets, TypeOK, Maps
    <3>2. PageOf(i) \in PagesOf(map'.size) \ map'.loaded
      BY <3>1, PageOfInFile
    <3>3. map'.size = map.size /\ PageOf(i) \notin Touched(map.size, start, len)
          /\ PageOf(i) \notin map.loaded /\ PageOf(i) \in Vouched(map) /\ i < map.size
      BY <2>4, <3>2
    <3>4. disk.data[i] = object.data[i]
      BY <2>3, <2>6, <3>3 DEF IInv, Stored, HolesAreStored
    <3>5. ~(start <= i /\ i < start + len)
      <4>1. PageOf(i) \in Nat /\ PageOf(i) * PageSize <= i /\ i < (PageOf(i) + 1) * PageSize
            /\ PageOf(i) * PageSize \in Nat /\ (PageOf(i) + 1) * PageSize \in Nat
        BY <3>1, PageOfBounds, PageOrder
      <4>2. i < PageEnd(map.size, PageOf(i))
        BY <3>3, <4>1 DEF PageEnd
      <4>3. PageEnd(map.size, PageOf(i)) \in Nat
        BY <3>1, <3>3, <4>1 DEF PageEnd
      <4>4. PageOf(i) \in PagesOf(map.size)
        BY <3>2, <3>3
      <4>5. ASSUME start <= i, i < start + len PROVE FALSE
        <5>1. PageOf(i) * PageSize < start + len /\ start < PageEnd(map.size, PageOf(i))
          BY <3>1, <4>1, <4>2, <4>3, <4>5
        <5> QED
          BY <3>3, <4>4, <5>1 DEF Touched
      <4> QED
        BY <4>5
    <3>6. disk'.data[i] = IF start <= i /\ i < start + len THEN byte ELSE disk.data[i]
      <4>1. i < disk'.size
        BY <2>1, <2>2, <2>3, <3>1
      <4> QED
        BY <1>4, <4>1 DEF Write, File
    <3> QED
      BY <3>4, <3>5, <3>6
  <2> QED
    BY <1>0, <2>1, <2>2, <2>3, <2>5, <2>6 DEF IInv, IsOpen
<1>5. ASSUME NEW ok \in BOOLEAN, Flush(ok) PROVE IInv'
  <2>1. IsOpen /\ UNCHANGED <<disk, named, stat, mode, map>> /\ (is_modify' => is_modify)
    BY <1>5 DEF Flush, IInv, IsOpen
  <2>2. CASE object' = LocalFile
    <3>1. Stored(map)' /\ HolesAreStored' /\ StatHolds'
      BY <2>1, <2>2, LocalFileIsStored
    <3> QED
      BY <1>0, <2>1, <3>1 DEF IInv, IsOpen, AllButLast, LastPage
  <2>3. CASE object' = object /\ ~ok
    <3>1. UNCHANGED <<is_modify, emptied, outdated>>
      BY <1>5, <2>3 DEF Flush
    <3>2. (Stored(map) <=> Stored(map)') /\ (HolesAreStored <=> HolesAreStored')
          /\ (StatHolds <=> StatHolds')
      BY <2>1, <2>3 DEF Stored, HolesAreStored, StatHolds
    <3> QED
      BY <1>0, <2>1, <2>3, <3>1, <3>2 DEF IInv, IsOpen, AllButLast, LastPage
  <2> QED
    BY <1>5, <2>2, <2>3 DEF Flush
<1>6. CASE Close
  <2>1. PICK list \in Readings(map) :
          /\ stat'.list = list
          /\ outdated' = (outdated \/ is_modify \/ ~(list.loaded \subseteq map.loaded))
    BY <1>6 DEF Close
  <2>2. UNCHANGED <<object, disk, named>> /\ ~is_modify' /\ ~emptied' /\ mode' = "closed"
        /\ map' = BlankMap(0, FALSE)
    BY <1>6 DEF Close
  <2>3. Gapless(list) /\ (list.loaded \subseteq map.loaded => Vouched(list) \subseteq Vouched(map))
    <3>1. map \in Maps /\ Gapless(map)
      BY <1>0 DEF TypeOK, IInv
    <3> QED
      BY <2>1, <3>1, ReadingsShape
  <2>4. ASSUME ~outdated', stat'.list.size = disk'.size PROVE Stored(list)
    <3>1. ~outdated /\ ~is_modify /\ list.loaded \subseteq map.loaded
      BY <2>1, <2>4
    <3>2. list.size = map.size
      <4>1. disk.size \in Nat /\ NoList.size = -1
        BY <1>0 DEF TypeOK, Files, NoList, Map
      <4>2. list # NoList
        BY <2>1, <2>2, <2>4, <4>1
      <4> QED
        BY <1>0, <2>1, <4>2, ReadingsType DEF TypeOK
    <3>3. Stored(map)
      BY <1>6, <3>1 DEF IInv, Close
    <3> QED
      BY <2>3, <3>1, <3>2, <3>3 DEF Stored
  <2>5. ~outdated' => StatHolds'
    BY <2>1, <2>2, <2>4 DEF StatHolds, Stored
  <2>6. Gapless(map)' /\ Gapless(stat.list)'
    <3>1. map'.loaded = {}
      BY <2>2 DEF BlankMap, Map
    <3> QED
      BY <2>1, <2>3, <3>1 DEF Gapless
  <2> QED
    BY <1>0, <2>2, <2>5, <2>6 DEF IInv, IsOpen
<1>7. CASE Crash
  <2>1. UNCHANGED <<object, disk, named, stat>> /\ mode' = "closed" /\ ~is_modify' /\ ~emptied'
        /\ map' = BlankMap(0, FALSE)
    BY <1>7 DEF Crash
  <2>2. ~outdated' => ~outdated /\ ~is_modify /\ (~emptied \/ disk.size # stat.list.size)
    BY <1>7 DEF Crash
  <2>3. named' /\ ~outdated' => StatHolds'
    BY <2>1, <2>2 DEF IInv, StatHolds, Stored
  <2>4. Gapless(map)' /\ Gapless(stat.list)'
    <3>1. map'.loaded = {} /\ stat' = stat
      BY <2>1 DEF BlankMap, Map
    <3> QED
      BY <3>1 DEF Gapless, IInv
  <2> QED
    BY <1>0, <2>1, <2>3, <2>4 DEF IInv, IsOpen
<1>8. ASSUME NEW n \in 0..MaxSize, NEW byte \in Byte \ {Zero}, Replace(n, byte) PROVE IInv'
  BY <1>0, <1>8 DEF Replace, IInv, IsOpen, AllButLast, LastPage
<1>9. CASE DropCache
  <2>1. UNCHANGED <<object, disk, stat, mode, map, is_modify, emptied, outdated>> /\ ~named'
    BY <1>9 DEF DropCache
  <2>2. (Stored(map) <=> Stored(map)') /\ (HolesAreStored <=> HolesAreStored')
    BY <2>1 DEF Stored, HolesAreStored
  <2> QED
    BY <1>0, <2>1, <2>2 DEF IInv, IsOpen, AllButLast, LastPage
<1>10. CASE DropStat
  <2>1. stat'.list.loaded = {} /\ UNCHANGED <<object, disk, named, mode, map, is_modify, emptied, outdated>>
    BY <1>10 DEF DropStat, EmptyStat, BlankMap, Map
  <2>2. (Stored(map) <=> Stored(map)') /\ (HolesAreStored <=> HolesAreStored')
    BY <2>1 DEF Stored, HolesAreStored
  <2>3. StatHolds' /\ Gapless(stat.list)'
    BY <2>1 DEF StatHolds, Stored, Vouched, Gapless
  <2> QED
    BY <1>0, <2>1, <2>2, <2>3 DEF IInv, IsOpen, AllButLast, LastPage
<1>11. CASE UNCHANGED vars
  <2>1. UNCHANGED <<object, disk, named, stat, mode, map, is_modify, emptied, outdated>>
    BY <1>11 DEF vars
  <2>2. (Stored(map) <=> Stored(map)') /\ (HolesAreStored <=> HolesAreStored')
        /\ (StatHolds <=> StatHolds')
    BY <2>1 DEF Stored, HolesAreStored, StatHolds
  <2> QED
    BY <1>0, <2>1, <2>2 DEF IInv, IsOpen, AllButLast, LastPage
<1>12. ASSUME NEW ok \in BOOLEAN, ChmodNoCopy(ok) PROVE IInv'
  <2>1. IsOpen /\ ~is_modify' /\ UNCHANGED <<disk, named, stat, mode, map>>
    BY <1>12 DEF ChmodNoCopy, IsOpen
  <2>2. CASE object' = LocalFile
    <3>1. Stored(map)' /\ StatHolds'
      BY <2>1, <2>2, LocalFileIsStored
    <3> QED
      BY <1>0, <2>1, <3>1 DEF IInv, IsOpen
  <2>3. CASE object' = object /\ ~ok
    <3>1. emptied' = emptied /\ (~outdated' => ~outdated /\ ~is_modify)
      BY <1>12, <2>3 DEF ChmodNoCopy
    <3>2. (Stored(map) <=> Stored(map)') /\ (StatHolds <=> StatHolds')
      BY <2>1, <2>3 DEF Stored, StatHolds
    <3> QED
      BY <1>0, <2>1, <2>3, <3>1, <3>2 DEF IInv, IsOpen
  <2> QED
    BY <1>12, <2>2, <2>3 DEF ChmodNoCopy
<1>13. CASE RenameNoCopy
  <2>1. UNCHANGED <<object, disk, named, stat, mode, map, emptied>> /\ ~is_modify'
        /\ (~outdated' => ~outdated /\ ~is_modify)
    BY <1>13 DEF RenameNoCopy
  <2>2. (Stored(map) <=> Stored(map)') /\ (StatHolds <=> StatHolds')
    BY <2>1 DEF Stored, StatHolds
  <2> QED
    BY <1>0, <2>1, <2>2 DEF IInv, IsOpen
<1>14. ASSUME NEW size \in 0..MaxSize, TruncateUnseen(size) PROVE IInv'
  BY <1>0, <1>14 DEF TruncateUnseen, IInv, IsOpen, AllButLast, LastPage
<1> QED
  BY <1>1, <1>2, <1>3, <1>4, <1>5, <1>6, <1>7, <1>8, <1>9, <1>10, <1>11, <1>12, <1>13, <1>14 DEF Next

(* Whatever the order of sessions, crashes, lost files and failed uploads,   *)
(* an open takes no page for loaded that does not hold the object's bytes,   *)
(* but for the excuses LoadedIsStored names (FdEntity::Open, Close).         *)
THEOREM ReopenedPagesAreStored == Spec => []LoadedIsStored
<1>1. IInv => LoadedIsStored
  BY DEF IInv, LoadedIsStored, Stored, Vouched
<1> QED
  BY <1>1, InitEstablishes, StepKeeps, PTL DEF Spec

(* The sizes and pages of both files stay in the bounds of the model.        *)
THEOREM CacheTypes == Spec => []TypeOK
<1>1. IInv => TypeOK
  BY DEF IInv
<1> QED
  BY <1>1, InitEstablishes, StepKeeps, PTL DEF Spec

(* RowFlush uploads no hole of a cache file: what it stores was downloaded or*)
(* written, also after crashes, lost files and stat files whose last flag is *)
(* wrong (fdcache.cpp:861-927, 389).  A truncate that did not see the object *)
(* uploads another file (ossfs.cpp:1939), of which this says nothing.        *)
THEOREM UploadsAreWhole == Spec => UploadsWholeFiles
<1>1. ASSUME IInv, NEW ok \in BOOLEAN, Flush(ok) \/ ChmodNoCopy(ok)
      PROVE  /\ PagesOf(map.size) \ map.loaded \subseteq {PageOf(map.size - 1)}
             /\ ~outdated => \A i \in Offsets :
                  (i < map.size /\ PageOf(i) \notin map.loaded) => disk.data[i] = object.data[i]
  <2>1. CASE is_modify
    BY <1>1, <2>1 DEF IInv, AllButLast, LastPage, HolesAreStored
  <2>2. CASE Wanted(map, 0, map.size) = {}
    <3>1. map \in Maps /\ map.size \in Nat
      BY <1>1 DEF IInv, TypeOK, Maps
    <3>2. \A k \in PagesOf(map.size) : k * PageSize < map.size
      BY DEF PagesOf
    <3>3. PagesOf(map.size) \subseteq map.loaded
      BY <2>2, <3>1, <3>2, NothingWanted
    <3>4. ASSUME NEW i \in Offsets, i < map.size PROVE PageOf(i) \in map.loaded
      <4>1. i \in 0..map.size - 1
        BY <3>1, <3>4 DEF Offsets
      <4> QED
        BY <3>1, <3>3, <4>1, PageOfInFile
    <3> QED
      BY <3>3, <3>4
  <2> QED
    BY <1>1, <2>1, <2>2 DEF Flush, ChmodNoCopy
<1>2. IInv /\ [Next]_vars => [\A ok \in BOOLEAN : Flush(ok) \/ ChmodNoCopy(ok) =>
         /\ PagesOf(map.size) \ map.loaded \subseteq {PageOf(map.size - 1)}
         /\ ~outdated => \A i \in Offsets :
              (i < map.size /\ PageOf(i) \notin map.loaded) => disk.data[i] = object.data[i]]_vars
  BY <1>1
<1> QED
  BY <1>2, InitEstablishes, StepKeeps, PTL DEF Spec, UploadsWholeFiles

==============================================================================
