---------------------------- MODULE FdEntityProofs ----------------------------
(***************************************************************************)
(* FdEntity implements BufferedFile, for every page size, size of files,   *)
(* set of bytes and number of threads and handles, as long as processes    *)
(* write carefully.  Three facts carry it.                                 *)
(*                                                                         *)
(* Load downloads up to the last page that is missing, so that the loaded  *)
(* pages are always the last ones of the file (LoadedIsTail).  A write     *)
(* begins with a Load from the start of the file, and then nothing is left *)
(* to be loaded (CallsHold, DirtyFileIsWhole).  And the local file is a    *)
(* hole where neither the object nor a write has put a byte (HolesBehind), *)
(* so that the upload of a truncate that did not see the object can lose   *)
(* bytes but put no others in their place.                                 *)
(***************************************************************************)
EXTENDS FdEntity, FiniteSetTheorems, TLAPS

RefsCover == Cardinality(Busy) <= refcnt

AreasFit == \A t \in Threads : req[t].start + req[t].len <= MaxSize

\* A page is loaded only if all pages behind it are.
IsTail(m) ==
  /\ m.loaded \subseteq PagesOf(m.size)
  /\ \A k \in m.loaded, j \in PagesOf(m.size) : k <= j => j \in m.loaded

LoadedIsTail == IsTail(map)

CallsHold ==
  \A t \in Threads :
    /\ pc[t] = "write" => req[t].start <= map.size
    /\ pc[t] \in {"write", "upload"} => Loaded(map)
    /\ pc[t] = "truncate" => req[t].start = 0 /\ (map.size = req[t].len \/ Loaded(map))

HolesBehind ==
  \A i \in Offsets :
    /\ i >= object.size => object.data[i] = Zero
    /\ i >= map.size => disk[i] = Zero
    /\ PageOf(i) \notin map.loaded => disk[i] \in {Zero, object.data[i]}

\* A truncate that did not see the object is the only one: it found no open file.
OneUnseen == \A t, u \in Threads : pc[t] = "unseen" /\ pc[u] = "unseen" => t = u

TypeInv == TypeOK /\ RefsCover /\ AreasFit

IInv == /\ TypeInv /\ LoadedIsTail /\ CallsHold /\ ReadSeesLoaded /\ DirtyFileIsWhole
        /\ HolesBehind /\ OneUnseen

-----------------------------------------------------------------------------
(* Pages                                                                    *)

LEMMA PageOfBounds ==
  ASSUME NEW i \in Nat
  PROVE  PageOf(i) \in Nat /\ PageOf(i) * PageSize <= i /\ i < (PageOf(i) + 1) * PageSize
BY PageSizeAssumption DEF PageOf

\* Multiples of the page size are in the order of their factors.
LEMMA PageOrder ==
  ASSUME NEW j \in Nat, NEW k \in Nat
  PROVE  /\ j * PageSize \in Nat /\ j <= j * PageSize
         /\ j <= k => j * PageSize <= k * PageSize
         /\ j < k => (j + 1) * PageSize <= k * PageSize
         /\ (j + 1) * PageSize = j * PageSize + PageSize
BY PageSizeAssumption

LEMMA PageOfInFile ==
  ASSUME NEW n \in Nat, NEW i \in 0..n - 1
  PROVE  PageOf(i) \in PagesOf(n)
<1>1. i \in Nat /\ PageOf(i) \in Nat /\ PageOf(i) * PageSize <= i
  BY PageOfBounds
<1>2. PageOf(i) <= PageOf(i) * PageSize /\ PageOf(i) * PageSize \in Nat
  BY <1>1, PageOrder
<1> QED
  BY <1>1, <1>2 DEF PagesOf

\* The pages of a file have an order, and so do their ends.
LEMMA PagesInOrder ==
  ASSUME NEW n \in Nat, NEW j \in PagesOf(n), NEW k \in PagesOf(n), j <= k
  PROVE  j \in Nat /\ k \in Nat /\ j..k \subseteq PagesOf(n)
         /\ PageEnd(n, j) <= PageEnd(n, k) /\ k * PageSize < PageEnd(n, k)
<1>1. j \in Nat /\ k \in Nat /\ k * PageSize < n
  BY DEF PagesOf
<1>2. (j + 1) * PageSize <= (k + 1) * PageSize /\ (k + 1) * PageSize = k * PageSize + PageSize
  BY <1>1, PageOrder
<1>3. j..k \subseteq PagesOf(n)
  <2> SUFFICES ASSUME NEW l \in j..k PROVE l \in PagesOf(n)
    OBVIOUS
  <2>1. l \in Nat /\ l * PageSize <= k * PageSize /\ l <= l * PageSize /\ l * PageSize \in Nat
    BY <1>1, PageOrder
  <2> QED
    BY <1>1, <2>1, PageOrder DEF PagesOf
<1>4. (j + 1) * PageSize \in Nat /\ (k + 1) * PageSize \in Nat /\ k * PageSize \in Nat
  BY <1>1, PageOrder
<1> QED
  BY <1>1, <1>2, <1>3, <1>4, PageSizeAssumption DEF PageEnd

LEMMA PagesType ==
  ASSUME NEW n \in 0..MaxSize
  PROVE  PagesOf(n) \subseteq 0..MaxSize
BY FileAssumption DEF PagesOf

-----------------------------------------------------------------------------
(* What a Load does to the list of pages                                    *)

Maps == [size : 0..MaxSize, loaded : SUBSET (0..MaxSize)]

\* Where the loaded pages are a tail, what a Load wants leads up to that tail.
LEMMA WantedIsOneArea ==
  ASSUME NEW m \in Maps, IsTail(m), NEW start \in Nat, NEW len \in Nat,
         NEW j \in Wanted(m, start, len), NEW k \in PagesOf(m.size), j <= k, k \notin m.loaded
  PROVE  k \in Wanted(m, start, len) /\ j..k \subseteq Wanted(m, start, len)
<1> DEFINE un == Unloaded(m, start)
<1>0. m.size \in Nat
  BY FileAssumption DEF Maps
<1>1. j \in PagesOf(m.size) /\ j \notin m.loaded /\ start < PageEnd(m.size, j) /\ j \in Nat /\ k \in Nat
  BY DEF Wanted, Unloaded, PagesOf
<1>2. PICK i \in un : i <= j /\ i..j \subseteq un /\ i * PageSize < start + len
  BY DEF Wanted
<1>3. i \in Nat /\ i \in PagesOf(m.size)
  BY <1>2 DEF Unloaded, PagesOf
<1>4. \A l \in j..k : l \in un
  <2> SUFFICES ASSUME NEW l \in j..k PROVE l \in un
    OBVIOUS
  <2>1. l \in PagesOf(m.size) /\ PageEnd(m.size, j) <= PageEnd(m.size, l)
    <3>1. l \in PagesOf(m.size) /\ j <= l
      BY <1>0, <1>1, PagesInOrder
    <3> QED
      BY <1>0, <1>1, <3>1, PagesInOrder
  <2>2. l \notin m.loaded
    BY <1>1, <2>1 DEF IsTail
  <2>3. PageEnd(m.size, j) \in Int /\ PageEnd(m.size, l) \in Int
    BY <1>0, <1>1, PageSizeAssumption DEF PageEnd
  <2> QED
    BY <1>1, <2>1, <2>2, <2>3 DEF Unloaded
<1>5. \A l \in j..k : l \in Wanted(m, start, len)
  <2> SUFFICES ASSUME NEW l \in j..k PROVE l \in Wanted(m, start, len)
    OBVIOUS
  <2>1. i..l \subseteq un /\ i <= l /\ l \in un
    BY <1>1, <1>2, <1>3, <1>4
  <2> QED
    BY <1>2, <2>1 DEF Wanted
<1> QED
  BY <1>1, <1>5

\* So it gets all of it or nothing.
LEMMA FetchedAllOrNothing ==
  ASSUME NEW m \in Maps, IsTail(m), NEW start \in Nat, NEW len \in Nat, NEW size,
         NEW got, Fetched(Wanted(m, start, len), got, size)
  PROVE  got = {} \/ got = Wanted(m, start, len)
<1> DEFINE wanted == Wanted(m, start, len)
<1> SUFFICES ASSUME NEW k \in got, NEW j \in wanted PROVE j \in got
  BY DEF Fetched
<1>1. k \in wanted /\ wanted \subseteq PagesOf(m.size) /\ wanted \cap m.loaded = {}
  BY DEF Fetched, Wanted, Unloaded
<1>2. k \in Nat /\ j \in Nat
  BY <1>1 DEF PagesOf
<1>3. CASE j < k
  BY <1>3 DEF Fetched
<1>4. CASE k <= j
  <2>1. k..j \subseteq wanted
    BY <1>1, <1>4, WantedIsOneArea
  <2> QED
    BY <2>1 DEF Fetched
<1> QED
  BY <1>2, <1>3, <1>4

\* A Load keeps the tail, whatever it gets.
LEMMA LoadKeepsTail ==
  ASSUME NEW m \in Maps, IsTail(m), NEW start \in Nat, NEW len \in Nat,
         NEW got, got = {} \/ got = Wanted(m, start, len)
  PROVE  IsTail(Map(m.size, m.loaded \cup got)) /\ Map(m.size, m.loaded \cup got) \in Maps
<1> DEFINE now == Map(m.size, m.loaded \cup got)
<1>1. now.size = m.size /\ now.loaded = m.loaded \cup got
  BY DEF Map
<1>2. got \subseteq PagesOf(m.size) /\ got \cap m.loaded = {} /\ m.size \in 0..MaxSize
  BY DEF Wanted, Unloaded, Maps
<1>3. IsTail(now)
  <2>1. now.loaded \subseteq PagesOf(now.size)
    BY <1>1, <1>2 DEF IsTail
  <2>2. ASSUME NEW k \in now.loaded, NEW j \in PagesOf(now.size), k <= j PROVE j \in now.loaded
    <3>1. CASE k \in m.loaded
      BY <1>1, <2>2, <3>1 DEF IsTail
    <3>2. CASE k \in got /\ j \notin m.loaded
      BY <1>1, <2>2, <3>2, WantedIsOneArea
    <3> QED
      BY <1>1, <3>1, <3>2
  <2> QED
    BY <2>1, <2>2 DEF IsTail
<1>4. now \in Maps
  <2>1. got \subseteq 0..MaxSize /\ m.loaded \subseteq 0..MaxSize
    BY <1>2, PagesType DEF Maps
  <2> HIDE DEF now
  <2> QED
    BY <1>2, <2>1 DEF Map, Maps, now
<1> QED
  BY <1>3, <1>4

\* A Load from the start of the file leaves nothing to be loaded, and a Load of a
\* range nothing in the range.
LEMMA LoadFromStart ==
  ASSUME NEW m \in Maps, IsTail(m), NEW len \in Nat, 0 < len \/ m.size = 0 \/ 0 \in m.loaded
  PROVE  m.loaded \cup Wanted(m, 0, len) = PagesOf(m.size)
<1>0. m.size \in Nat
  BY FileAssumption DEF Maps
<1> SUFFICES ASSUME NEW k \in PagesOf(m.size), k \notin m.loaded PROVE k \in Wanted(m, 0, len)
  BY DEF IsTail, Wanted, Unloaded
<1>1. k \in Nat /\ 0 <= k /\ 0 \in PagesOf(m.size) /\ m.size # 0
  <2>1. k \in Nat /\ k * PageSize < m.size /\ k * PageSize \in Nat
    BY PageOrder DEF PagesOf
  <2> QED
    BY <1>0, <2>1, PageSizeAssumption DEF PagesOf
<1>2. 0 \notin m.loaded /\ m.size # 0
  BY <1>1 DEF IsTail
<1>3. 0 < len
  BY <1>2
<1>4. 0 \in Wanted(m, 0, len)
  <2>1. 0 < PageEnd(m.size, 0)
    BY <1>0, <1>2, PageSizeAssumption DEF PageEnd
  <2>2. 0 \in Unloaded(m, 0) /\ 0..0 \subseteq Unloaded(m, 0) /\ 0 * PageSize < 0 + len
    BY <1>1, <1>2, <1>3, <2>1, PageSizeAssumption DEF Unloaded
  <2> QED
    BY <2>2 DEF Wanted
<1> QED
  BY <1>1, <1>4, WantedIsOneArea

LEMMA LoadOfRange ==
  ASSUME NEW m \in Maps, NEW start \in Nat, NEW len \in Nat
  PROVE  Touched(m.size, start, len) \subseteq m.loaded \cup Wanted(m, start, len)
<1> SUFFICES ASSUME NEW k \in Touched(m.size, start, len), k \notin m.loaded
             PROVE  k \in Wanted(m, start, len)
  OBVIOUS
<1>1. k \in Unloaded(m, start) /\ k \in Nat /\ k * PageSize < start + len
  BY DEF Touched, Unloaded, PagesOf
<1>2. k..k = {k}
  BY <1>1
<1> QED
  BY <1>1, <1>2 DEF Wanted

\* A write from the end of a whole file, or below, leaves a whole file.
LEMMA MarkedIsWhole ==
  ASSUME NEW m \in Maps, Loaded(m), NEW start \in 0..m.size, NEW len \in Nat \ {0}
  PROVE  LET n == IF m.size < start + len THEN start + len ELSE m.size
         IN  Marked(m, start, len, TRUE) = Map(n, PagesOf(n))
<1> DEFINE n == IF m.size < start + len THEN start + len ELSE m.size
           grown == IF m.size < start + len THEN Resized(m, start + len) ELSE m
<1>1. m.size \in Nat /\ n \in Nat /\ m.size <= n /\ start + len <= n
  BY FileAssumption DEF Maps
<1>2. grown.size = n
  BY DEF Resized, Map
<1>3. grown.loaded \cup Touched(n, start, len) = PagesOf(n)
  <2>1. grown.loaded \subseteq PagesOf(n)
    <3>1. PagesOf(m.size) \subseteq PagesOf(n)
      BY <1>1, PageOrder DEF PagesOf
    <3> QED
      BY <3>1 DEF Resized, Map, Loaded
  <2>2. ASSUME NEW k \in PagesOf(n) PROVE k \in grown.loaded \/ k \in Touched(n, start, len)
    <3>1. k \in Nat /\ k * PageSize < n /\ k * PageSize \in Nat /\ k <= k * PageSize
          /\ (k + 1) * PageSize = k * PageSize + PageSize
      BY PageOrder DEF PagesOf
    <3>2. CASE n = m.size
      <4>1. grown = m
        BY <1>1, <3>2
      <4> QED
        BY <3>2, <4>1 DEF Loaded
    <3>3. CASE m.size < start + len /\ (k + 1) * PageSize <= m.size
      <4>1. k \in PagesOf(m.size)
        BY <1>1, <3>1, <3>3, PageSizeAssumption DEF PagesOf
      <4> QED
        BY <3>3, <4>1 DEF Resized, Map, Loaded
    <3>4. CASE m.size < start + len /\ ~((k + 1) * PageSize <= m.size)
      <4>1. start < PageEnd(n, k)
        BY <1>1, <3>1, <3>4, PageSizeAssumption DEF PageEnd
      <4> QED
        BY <1>1, <3>1, <3>4, <4>1 DEF Touched
    <3> QED
      BY <1>1, <3>2, <3>3, <3>4
  <2> QED
    BY <2>1, <2>2 DEF Touched
<1> HIDE DEF grown
<1> QED
  BY <1>2, <1>3 DEF Marked, grown

-----------------------------------------------------------------------------
(* Types and references, whether processes are careful or not              *)

Labels == {"idle", "read", "write", "truncate", "upload", "unseen", "close"}

LEMMA OpenType ==
  ASSUME TypeOK, NEW size \in 0..MaxSize, Open(size)
  PROVE  disk' \in [Offsets -> Byte] /\ map' \in Maps /\ is_modify' \in BOOLEAN /\ refcnt' = refcnt + 1
<1>1. BlankMap(size, FALSE) \in Maps
  BY DEF BlankMap, Map, Maps
<1> QED
  BY <1>1, FileAssumption DEF TypeOK, Open, Holes, Maps

LEMMA CloseType ==
  ASSUME TypeOK, Close
  PROVE  disk' \in [Offsets -> Byte] /\ map' \in Maps /\ is_modify' \in BOOLEAN /\ refcnt' = refcnt - 1
<1>1. BlankMap(0, FALSE) \in Maps
  BY FileAssumption DEF BlankMap, Map, Maps
<1> QED
  BY <1>1, FileAssumption DEF TypeOK, Close, Holes, Maps

LEMMA LoadType ==
  ASSUME TypeOK, NEW start \in Nat, NEW len \in Nat,
         NEW got \in SUBSET Wanted(map, start, len), NEW spill \in BOOLEAN,
         Load(Wanted(map, start, len), got, spill)
  PROVE  disk' \in [Offsets -> Byte] /\ map' \in Maps
<1>1. got \subseteq 0..MaxSize
  BY PagesType DEF Wanted, Unloaded, TypeOK
<1>2. map' \in Maps
  BY <1>1 DEF Load, Map, Maps, TypeOK
<1>3. disk' \in [Offsets -> Byte]
  BY DEF Load, TypeOK, Files
<1> QED
  BY <1>2, <1>3

LEMMA MarkedType ==
  ASSUME NEW m \in Maps, NEW start \in Nat, NEW len \in Nat, start + len <= MaxSize
  PROVE  Marked(m, start, len, TRUE) \in Maps
<1> DEFINE grown == IF m.size < start + len THEN Resized(m, start + len) ELSE m
           now   == grown.loaded \cup Touched(grown.size, start, len)
<1>1. grown \in Maps
  BY FileAssumption DEF Resized, Map, Maps
<1>2. Touched(grown.size, start, len) \subseteq 0..MaxSize
  BY <1>1, PagesType DEF Touched, Maps
<1>3. Marked(m, start, len, TRUE) = Map(grown.size, now)
  BY DEF Marked
<1>4. now \subseteq 0..MaxSize /\ grown.size \in 0..MaxSize
  BY <1>1, <1>2 DEF Maps
<1> HIDE DEF grown, now
<1>5. Map(grown.size, now) \in Maps
  BY <1>4 DEF Map, Maps
<1> QED
  BY <1>3, <1>5

\* How a step of one thread changes the number of busy ones.
LEMMA BusyChanges ==
  ASSUME pc \in [Threads -> Labels], NEW t \in Threads, NEW label, pc' = [pc EXCEPT ![t] = label]
  PROVE  /\ Cardinality(Busy) \in Nat /\ Cardinality(Busy') \in Nat
         /\ pc[t] # "idle" /\ label # "idle" => Busy' = Busy
         /\ pc[t] = "idle" /\ label # "idle" => Cardinality(Busy') = Cardinality(Busy) + 1
         /\ pc[t] # "idle" /\ label = "idle" => Cardinality(Busy') = Cardinality(Busy) - 1
                                                /\ Busy' = Busy \ {t}
<1>1. \A u \in Threads : pc'[u] = IF u = t THEN label ELSE pc[u]
  OBVIOUS
<1>2. Busy' = IF label = "idle" THEN Busy \ {t} ELSE Busy \cup {t}
  BY <1>1 DEF Busy
<1>3. IsFiniteSet(Busy)
  BY FileAssumption, FS_Subset DEF Busy
<1>4. (t \in Busy) <=> (pc[t] # "idle")
  BY DEF Busy
<1>5. /\ Cardinality(Busy) \in Nat
      /\ Cardinality(Busy \cup {t}) \in Nat /\ Cardinality(Busy \ {t}) \in Nat
      /\ t \in Busy => Cardinality(Busy \ {t}) = Cardinality(Busy) - 1
      /\ t \notin Busy => Cardinality(Busy \cup {t}) = Cardinality(Busy) + 1
  BY <1>3, FS_CardinalityType, FS_AddElement, FS_RemoveElement
<1>6. t \in Busy => Busy \cup {t} = Busy
  OBVIOUS
<1> QED
  BY <1>2, <1>4, <1>5, <1>6

LEMMA BusyIsCounted ==
  ASSUME TypeOK
  PROVE  Cardinality(Busy) \in Nat /\ IsFiniteSet(Busy)
BY FileAssumption, FS_Subset, FS_CardinalityType DEF Busy

\* A call takes a reference when it begins and gives it back when it ends.
LEMMA CallCounts ==
  ASSUME TypeInv, NEW t \in Threads, NEW label \in Labels, NEW r \in Request,
         r.start + r.len <= MaxSize, Goto(t, label, r),
         IF pc[t] = "idle" THEN label # "idle" /\ refcnt' = refcnt + 1
         ELSE IF label = "idle" THEN refcnt' = refcnt - 1
         ELSE refcnt' = refcnt
  PROVE  RefsCover' /\ AreasFit' /\ refcnt' \in Nat
         /\ pc' \in [Threads -> Labels] /\ req' \in [Threads -> Request]
<1> USE DEF TypeInv
<1>1. pc \in [Threads -> Labels] /\ refcnt \in Nat
  BY DEF TypeOK, Labels
<1>2. pc' = [pc EXCEPT ![t] = label] /\ req' = [req EXCEPT ![t] = r] /\ req \in [Threads -> Request]
  BY DEF Goto, TypeOK
<1>3. Cardinality(Busy') \in Nat /\ Cardinality(Busy') <= refcnt' /\ refcnt' \in Int
  <2> DEFINE before == Cardinality(Busy)
             after  == Cardinality(Busy')
  <2>1. /\ before \in Nat /\ after \in Nat
        /\ pc[t] # "idle" /\ label # "idle" => after = before
        /\ pc[t] = "idle" /\ label # "idle" => after = before + 1
        /\ pc[t] # "idle" /\ label = "idle" => after = before - 1
    BY <1>1, <1>2, BusyChanges
  <2>2. before <= refcnt
    BY DEF RefsCover
  <2> HIDE DEF before, after
  <2>3. after \in Nat /\ after <= refcnt' /\ refcnt' \in Int
    BY <1>1, <2>1, <2>2
  <2> QED
    BY <2>3 DEF after
<1>4. RefsCover'
  BY <1>3 DEF RefsCover
<1>5. AreasFit'
  BY <1>2 DEF AreasFit
<1> QED
  BY <1>1, <1>2, <1>3, <1>4, <1>5

LEMMA TypeInit == Init => TypeInv
<1> SUFFICES ASSUME Init PROVE TypeInv
  OBVIOUS
<1>1. Busy = {} /\ refcnt = 0
  BY DEF Init, Busy
<1>2. RefsCover
  BY <1>1, FS_EmptySet DEF RefsCover
<1>3. AreasFit
  BY FileAssumption DEF Init, NoReq, AreasFit
<1>4. NoReq \in Request /\ BlankMap(0, FALSE) \in Maps
  BY FileAssumption DEF NoReq, Request, BlankMap, Map, Maps
<1>5. object \in Files
  BY FileAssumption DEF Init, Files
<1> QED
  BY <1>2, <1>3, <1>4, <1>5, FileAssumption DEF TypeInv, TypeOK, Init, Holes, Maps

\* The step of a thread that loads, then goes on or gives up.
LoadStep(t, start, len, r, label) ==
  \E got \in SUBSET Wanted(map, start, len), spill \in BOOLEAN :
    /\ Fetched(Wanted(map, start, len), got, object.size)
    /\ Load(Wanted(map, start, len), got, spill)
    /\ IF got = Wanted(map, start, len) THEN Goto(t, label, r) ELSE Goto(t, "close", NoReq)

LEMMA LoadStepType ==
  ASSUME TypeInv, NEW t \in Threads, NEW start \in Nat, NEW len \in Nat,
         NEW r \in Request, r.start + r.len <= MaxSize,
         NEW label \in Labels \ {"idle"}, LoadStep(t, start, len, r, label),
         object' = object /\ is_modify' = is_modify,
         refcnt' = IF pc[t] = "idle" THEN refcnt + 1 ELSE refcnt
  PROVE  TypeInv'
<1>1. NoReq \in Request /\ NoReq.start + NoReq.len <= MaxSize
  BY FileAssumption DEF NoReq, Request
<1>2. disk' \in [Offsets -> Byte] /\ map' \in Maps
  BY LoadType DEF LoadStep, TypeInv
<1>3. PICK l \in Labels \ {"idle"}, s \in {r, NoReq} : Goto(t, l, s)
  BY DEF LoadStep, Labels
<1>4. s \in Request /\ s.start + s.len <= MaxSize
  BY <1>1
<1>5. RefsCover' /\ AreasFit' /\ refcnt' \in Nat /\ pc' \in [Threads -> Labels] /\ req' \in [Threads -> Request]
  BY <1>3, <1>4, CallCounts
<1> QED
  BY <1>2, <1>5 DEF TypeInv, TypeOK, Maps, Labels

\* A step of a thread that loads nothing.
LEMMA ThreadStepType ==
  ASSUME TypeInv, NEW t \in Threads, NEW label \in Labels, NEW r \in Request,
         r.start + r.len <= MaxSize, Goto(t, label, r),
         IF pc[t] = "idle" THEN label # "idle" /\ refcnt' = refcnt + 1
         ELSE IF label = "idle" THEN refcnt' = refcnt - 1
         ELSE refcnt' = refcnt,
         object' \in Files, disk' \in [Offsets -> Byte], map' \in Maps, is_modify' \in BOOLEAN
  PROVE  TypeInv'
<1>1. RefsCover' /\ AreasFit' /\ refcnt' \in Nat /\ pc' \in [Threads -> Labels] /\ req' \in [Threads -> Request]
  BY CallCounts
<1> QED
  BY <1>1 DEF TypeInv, TypeOK, Maps, Labels

LEMMA UploadType ==
  ASSUME TypeOK, NEW ok \in BOOLEAN, Upload(ok)
  PROVE  object' \in Files /\ is_modify' \in BOOLEAN
<1>1. LocalFile \in Files
  BY DEF TypeOK, LocalFile, Files
<1> QED
  BY <1>1 DEF Upload, TypeOK

\* Opens and closes of handles leave the calls alone.
LEMMA HandleStepType ==
  ASSUME TypeInv,
         \/ \E trunc \in BOOLEAN : OpenFile(trunc)
         \/ Release
  PROVE  TypeInv'
<1>1. UNCHANGED <<object, pc, req>>
  BY DEF OpenFile, Release
<1>2. RefsCover' /\ AreasFit' /\ refcnt' \in Nat
  <2>1. Busy' = Busy /\ Cardinality(Busy) \in Nat /\ refcnt \in Nat
    BY <1>1, BusyIsCounted DEF Busy, TypeInv, TypeOK
  <2>2. refcnt' = refcnt + 1 \/ (refcnt' = refcnt - 1 /\ Cardinality(Busy) < refcnt)
    <3>1. CASE Release
      BY <2>1, <3>1 DEF Release, Handles, Close
    <3>2. CASE ~Release
      BY <3>2 DEF OpenFile, Open
    <3> QED
      BY <3>1, <3>2
  <2>3. Cardinality(Busy') = Cardinality(Busy) /\ Cardinality(Busy) <= refcnt
    BY <2>1 DEF TypeInv, RefsCover
  <2>4. AreasFit'
    BY <1>1 DEF TypeInv, AreasFit
  <2> QED
    BY <2>1, <2>2, <2>3, <2>4 DEF RefsCover
<1>3. disk' \in [Offsets -> Byte] /\ map' \in Maps /\ is_modify' \in BOOLEAN
  <2>1. CASE Release
    BY <2>1, CloseType DEF Release, TypeInv
  <2>2. CASE \E trunc \in BOOLEAN : OpenFile(trunc)
    <3>1. PICK trunc \in BOOLEAN : OpenFile(trunc)
      BY <2>2
    <3>2. (IF trunc THEN 0 ELSE object.size) \in 0..MaxSize
      BY FileAssumption DEF TypeInv, TypeOK, Files
    <3> QED
      BY <3>1, <3>2, OpenType DEF OpenFile, TypeInv
  <2> QED
    BY <2>1, <2>2
<1> QED
  BY <1>1, <1>2, <1>3 DEF TypeInv, TypeOK, Maps

LEMMA TypeStep == TypeInv /\ [Next]_vars => TypeInv'
<1> SUFFICES ASSUME TypeInv, [Next]_vars PROVE TypeInv'
  OBVIOUS
<1>0. /\ NoReq \in Request /\ NoReq.start + NoReq.len <= MaxSize
      /\ object \in Files /\ disk \in [Offsets -> Byte] /\ map \in Maps /\ is_modify \in BOOLEAN
      /\ \A t \in Threads : req[t] \in Request /\ req[t].start + req[t].len <= MaxSize
  BY FileAssumption DEF NoReq, Request, TypeInv, TypeOK, AreasFit, Maps
<1>1. CASE UNCHANGED vars
  <2>1. Busy' = Busy
    BY <1>1 DEF vars, Busy
  <2> QED
    BY <1>1, <2>1 DEF vars, TypeInv, TypeOK, RefsCover, AreasFit
<1>2. CASE (\E trunc \in BOOLEAN : OpenFile(trunc)) \/ Release
  BY <1>2, HandleStepType
<1>3. ASSUME NEW t \in Threads, NEW start \in 0..MaxSize - 1, NEW len \in 1..MaxSize,
             start + len <= MaxSize, ReadLoad(t, start, len)
      PROVE  TypeInv'
  <2> DEFINE r == [start |-> start, len |-> len, byte |-> Zero]
  <2>1. r \in Request /\ r.start + r.len <= MaxSize /\ "read" \in Labels \ {"idle"}
    BY <1>3, FileAssumption DEF Request, Labels
  <2>2. LoadStep(t, start, len, r, "read")
    BY <1>3 DEF ReadLoad, LoadStep
  <2> HIDE DEF r
  <2> QED
    BY <1>3, <2>1, <2>2, LoadStepType DEF ReadLoad
<1>4. ASSUME NEW t \in Threads, NEW start \in 0..MaxSize - 1, NEW len \in 1..MaxSize,
             NEW byte \in Byte, start + len <= MaxSize, WriteLoad(t, start, len, byte)
      PROVE  TypeInv'
  <2> DEFINE r == [start |-> start, len |-> len, byte |-> byte]
  <2>1. r \in Request /\ r.start + r.len <= MaxSize /\ "write" \in Labels \ {"idle"}
    BY <1>4, FileAssumption DEF Request, Labels
  <2>2. LoadStep(t, 0, start, r, "write")
    BY <1>4 DEF WriteLoad, LoadStep
  <2> HIDE DEF r
  <2> QED
    BY <1>4, <2>1, <2>2, LoadStepType DEF WriteLoad
<1>5. ASSUME NEW t \in Threads, TruncateLoad(t) PROVE TypeInv'
  <2>1. LoadStep(t, 0, req[t].len, req[t], "upload") /\ "upload" \in Labels \ {"idle"}
    BY <1>5 DEF TruncateLoad, LoadStep, Labels
  <2>2. req[t].len \in Nat
    BY <1>0, FileAssumption DEF Request
  <2> QED
    BY <1>0, <1>5, <2>1, <2>2, LoadStepType DEF TruncateLoad
<1>6. ASSUME NEW t \in Threads, ReadCopy(t) \/ WriteFails(t) PROVE TypeInv'
  <2>1. Goto(t, "close", NoReq) /\ pc[t] # "idle" /\ UNCHANGED <<object, disk, map, is_modify, refcnt>>
    BY <1>6 DEF ReadCopy, WriteFails
  <2> QED
    BY <1>0, <2>1, ThreadStepType DEF Labels
<1>7. ASSUME NEW t \in Threads, NEW n \in 0..req[t].len, WriteCopy(t, n) PROVE TypeInv'
  <2>1. Goto(t, "close", NoReq) /\ pc[t] # "idle" /\ UNCHANGED <<object, refcnt>>
        /\ is_modify' = TRUE
    BY <1>7 DEF WriteCopy
  <2>2. req[t].start \in Nat /\ n \in Nat /\ req[t].start + n <= MaxSize /\ req[t].byte \in Byte
    BY <1>0, FileAssumption DEF Request
  <2>3. map' \in Maps
    BY <1>0, <1>7, <2>2, MarkedType DEF WriteCopy
  <2>4. disk' \in [Offsets -> Byte]
    BY <1>0, <1>7, <2>2 DEF WriteCopy
  <2> QED
    BY <1>0, <2>1, <2>3, <2>4, ThreadStepType DEF Labels
<1>8. ASSUME NEW t \in Threads, NEW ok \in BOOLEAN, Flush(t, ok) \/ TruncateUpload(t, ok) PROVE TypeInv'
  <2>1. Goto(t, "close", NoReq) /\ UNCHANGED <<disk, map>>
        /\ refcnt' = IF pc[t] = "idle" THEN refcnt + 1 ELSE refcnt
    BY <1>8 DEF Flush, TruncateUpload
  <2>2. object' \in Files /\ is_modify' \in BOOLEAN
    BY <1>0, <1>8, UploadType DEF Flush, TruncateUpload, TypeInv
  <2> QED
    BY <1>0, <2>1, <2>2, ThreadStepType DEF Labels
<1>9. ASSUME NEW t \in Threads, NEW size \in 0..MaxSize, NEW seen \in BOOLEAN,
             Truncate(t, size, seen)
      PROVE  TypeInv'
  <2> DEFINE label == IF seen THEN "truncate" ELSE "unseen"
             r == [start |-> 0, len |-> size, byte |-> Zero]
  <2>1. r \in Request /\ r.start + r.len <= MaxSize
    BY FileAssumption DEF Request
  <2>2. Goto(t, label, r) /\ pc[t] = "idle" /\ object' = object
        /\ label \in Labels /\ label # "idle"
    BY <1>9 DEF Truncate, Labels
  <2>3. disk' \in [Offsets -> Byte] /\ map' \in Maps /\ is_modify' \in BOOLEAN /\ refcnt' = refcnt + 1
    BY <1>9, OpenType DEF Truncate, TypeInv
  <2> HIDE DEF r, label
  <2> QED
    BY <1>0, <2>1, <2>2, <2>3, ThreadStepType
<1>10. ASSUME NEW t \in Threads, EndCall(t) PROVE TypeInv'
  <2>1. disk' \in [Offsets -> Byte] /\ map' \in Maps /\ is_modify' \in BOOLEAN /\ refcnt' = refcnt - 1
    BY <1>10, CloseType DEF EndCall, TypeInv
  <2> QED
    BY <1>0, <1>10, <2>1, ThreadStepType DEF EndCall, Labels
<1> QED
  BY <1>1, <1>2, <1>3, <1>4, <1>5, <1>6, <1>7, <1>8, <1>9, <1>10 DEF Next

(* The types of an open file's state, and the reference count is never less  *)
(* than the number of calls in progress (FdEntity::Dup, Close), whether      *)
(* processes are careful or not.                                             *)
THEOREM FileTypes == Spec => []TypeOK
<1>1. TypeInv => TypeOK
  BY DEF TypeInv
<1> QED
  BY <1>1, TypeInit, TypeStep, PTL DEF Spec

-----------------------------------------------------------------------------
(* The invariant, for careful processes                                     *)

\* The last reference is that of the only call in progress, if there is one.
LEMMA LastReference ==
  ASSUME TypeInv, NEW t \in Threads, NEW u \in Threads, t # u, pc[t] # "idle", pc[u] # "idle"
  PROVE  refcnt > 1
<1>1. IsFiniteSet(Busy) /\ t \in Busy /\ u \in Busy /\ u \in Busy \ {t}
  BY BusyIsCounted DEF Busy, TypeInv
<1>2. IsFiniteSet(Busy \ {t}) /\ Cardinality(Busy \ {t}) = Cardinality(Busy) - 1
  BY <1>1, FS_RemoveElement
<1>3. Cardinality(Busy \ {t}) # 0 /\ Cardinality(Busy \ {t}) \in Nat
  BY <1>1, <1>2, FS_EmptySet, FS_CardinalityType
<1>4. Cardinality(Busy) <= refcnt /\ refcnt \in Nat /\ Cardinality(Busy) \in Nat
  BY BusyIsCounted DEF TypeInv, TypeOK, RefsCover
<1> QED
  BY <1>2, <1>3, <1>4

LEMMA CallHasReference ==
  ASSUME TypeInv, NEW t \in Threads, pc[t] # "idle"
  PROVE  refcnt > 0 /\ (Handles > 0 => refcnt > 1)
<1>1. IsFiniteSet(Busy) /\ t \in Busy /\ Busy # {}
  BY BusyIsCounted DEF Busy, TypeInv
<1>2. Cardinality(Busy) \in Nat /\ Cardinality(Busy) # 0 /\ Cardinality(Busy) <= refcnt /\ refcnt \in Nat
  BY <1>1, BusyIsCounted, FS_EmptySet DEF TypeInv, TypeOK, RefsCover
<1> QED
  BY <1>2 DEF Handles

LEMMA HandleHasReference ==
  ASSUME TypeInv, Handles > 0
  PROVE  refcnt > 0
BY BusyIsCounted DEF TypeInv, TypeOK, RefsCover, Handles

\* A local file of which nothing is loaded is one hole.
LEMMA BlankHolds ==
  ASSUME IInv, NEW n \in 0..MaxSize, object' = object, disk' = Holes, map' = BlankMap(n, FALSE)
  PROVE  LoadedIsTail' /\ HolesBehind'
<1>1. map'.loaded = {}
  BY DEF BlankMap, Map
<1>2. LoadedIsTail'
  BY <1>1 DEF LoadedIsTail, IsTail
<1>3. HolesBehind'
  BY DEF IInv, HolesBehind, Holes
<1> QED
  BY <1>2, <1>3

\* A whole file has a hole only where it ends.
LEMMA WholeHolds ==
  ASSUME map'.loaded = PagesOf(map'.size), map'.size \in Nat,
         \A i \in Offsets : /\ i >= object'.size => object'.data[i] = Zero
                            /\ i >= map'.size => disk'[i] = Zero
  PROVE  LoadedIsTail' /\ HolesBehind'
<1>1. LoadedIsTail'
  BY DEF LoadedIsTail, IsTail
<1>2. ASSUME NEW i \in Offsets, PageOf(i) \notin map'.loaded PROVE i >= map'.size
  <2>1. i \in Nat
    BY FileAssumption DEF Offsets
  <2>2. i \in 0..map'.size - 1 => PageOf(i) \in PagesOf(map'.size)
    BY PageOfInFile
  <2> QED
    BY <1>2, <2>1, <2>2
<1> QED
  BY <1>1, <1>2 DEF HolesBehind

LEMMA LoadEffect ==
  ASSUME TypeInv, LoadedIsTail, HolesBehind, NEW start \in Nat, NEW len \in Nat,
         NEW got \in SUBSET Wanted(map, start, len), NEW spill \in BOOLEAN,
         Fetched(Wanted(map, start, len), got, object.size),
         Load(Wanted(map, start, len), got, spill), object' = object
  PROVE  /\ map'.size = map.size /\ map'.loaded = map.loaded \cup got
         /\ got = {} \/ got = Wanted(map, start, len)
         /\ LoadedIsTail' /\ HolesBehind'
         /\ Loaded(map) => Loaded(map')
<1>1. map \in Maps /\ IsTail(map)
  BY DEF TypeInv, TypeOK, Maps, LoadedIsTail
<1>2. got = {} \/ got = Wanted(map, start, len)
  BY <1>1, FetchedAllOrNothing
<1>3. map' = Map(map.size, map.loaded \cup got)
  BY DEF Load
<1>4. map'.size = map.size /\ map'.loaded = map.loaded \cup got
  BY <1>3 DEF Map
<1>5. LoadedIsTail'
  <2>1. IsTail(Map(map.size, map.loaded \cup got))
    BY <1>1, <1>2, LoadKeepsTail
  <2>2. IsTail(map')
    BY <1>3, <2>1
  <2> QED
    BY <2>2 DEF LoadedIsTail, IsTail
<1>6. HolesBehind'
  <2> SUFFICES ASSUME NEW i \in Offsets
               PROVE  /\ i >= object.size => object.data[i] = Zero
                      /\ i >= map.size => disk'[i] = Zero
                      /\ PageOf(i) \notin map.loaded \cup got => disk'[i] \in {Zero, object.data[i]}
    BY <1>4 DEF HolesBehind
  <2>1. i \in Nat /\ map.size \in Nat /\ object.size \in Nat
    BY FileAssumption DEF Offsets, TypeInv, TypeOK, Files
  <2>2. (i >= map.size => disk'[i] = disk[i]) /\ disk'[i] \in {disk[i], object.data[i]}
    BY <2>1 DEF Load
  <2> QED
    BY <2>2 DEF HolesBehind
<1>7. Loaded(map) => Loaded(map')
  BY <1>4, <1>5 DEF LoadedIsTail, IsTail, Loaded
<1> QED
  BY <1>2, <1>4, <1>5, <1>6, <1>7

\* A call that loads finds the other calls as they were, and goes on if it got all.
LEMMA LoadStepKeeps ==
  ASSUME IInv, TypeInv', NEW t \in Threads, NEW start \in Nat, NEW len \in Nat, NEW r \in Request,
         NEW label \in {"read", "write", "upload"}, LoadStep(t, start, len, r, label),
         object' = object /\ is_modify' = is_modify,
         label = "read" => r.start = start /\ r.len = len,
         label = "write" => r.start <= map.size,
         label \in {"write", "upload"} => map.loaded \cup Wanted(map, start, len) = PagesOf(map.size)
  PROVE  IInv'
<1>1. PICK got \in SUBSET Wanted(map, start, len), spill \in BOOLEAN :
        /\ Fetched(Wanted(map, start, len), got, object.size)
        /\ Load(Wanted(map, start, len), got, spill)
        /\ IF got = Wanted(map, start, len) THEN Goto(t, label, r) ELSE Goto(t, "close", NoReq)
  BY DEF LoadStep
<1>2. /\ map'.size = map.size /\ map'.loaded = map.loaded \cup got
      /\ LoadedIsTail' /\ HolesBehind'
      /\ Loaded(map) => Loaded(map')
  BY <1>1, LoadEffect DEF IInv
<1>3. /\ \A u \in Threads \ {t} : pc'[u] = pc[u] /\ req'[u] = req[u]
      /\ \/ pc'[t] = "close"
         \/ pc'[t] = label /\ req'[t] = r /\ got = Wanted(map, start, len)
  BY <1>1 DEF Goto, IInv, TypeInv, TypeOK
<1>4. CallsHold'
  <2> SUFFICES ASSUME NEW u \in Threads
               PROVE  /\ pc'[u] = "write" => req'[u].start <= map'.size
                      /\ pc'[u] \in {"write", "upload"} => Loaded(map')
                      /\ pc'[u] = "truncate" => /\ req'[u].start = 0
                                                /\ map'.size = req'[u].len \/ Loaded(map')
    BY DEF CallsHold
  <2>1. CASE u # t
    BY <1>2, <1>3, <2>1 DEF IInv, CallsHold
  <2>2. CASE u = t
    BY <1>2, <1>3, <2>2 DEF Loaded
  <2> QED
    BY <2>1, <2>2
<1>5. ReadSeesLoaded'
  <2> SUFFICES ASSUME NEW u \in Threads, pc'[u] = "read"
               PROVE  Touched(map.size, req'[u].start, req'[u].len) \subseteq map.loaded \cup got
    BY <1>2 DEF ReadSeesLoaded
  <2>1. CASE u # t
    BY <1>3, <2>1 DEF IInv, ReadSeesLoaded
  <2>2. CASE u = t
    <3>1. req'[u].start = start /\ req'[u].len = len /\ got = Wanted(map, start, len)
      BY <1>3, <2>2
    <3>2. map \in Maps
      BY DEF IInv, TypeInv, TypeOK, Maps
    <3> QED
      BY <3>1, <3>2, LoadOfRange
  <2> QED
    BY <2>1, <2>2
<1>6. DirtyFileIsWhole'
  BY <1>2 DEF IInv, DirtyFileIsWhole
<1>7. OneUnseen'
  <2>1. \A u \in Threads : pc'[u] = "unseen" => pc[u] = "unseen"
    BY <1>3
  <2> QED
    BY <2>1 DEF IInv, OneUnseen
<1> QED
  BY <1>2, <1>4, <1>5, <1>6, <1>7 DEF IInv

\* A step that changes neither the local file nor the list, and begins no call that
\* the invariant speaks of.
LEMMA QuietStepKeeps ==
  ASSUME IInv, TypeInv', UNCHANGED <<disk, map>>,
         \A u \in Threads : (pc'[u] = pc[u] /\ req'[u] = req[u]) \/ pc'[u] \in {"close", "idle"},
         object' \in {object, LocalFile}, is_modify' => is_modify
  PROVE  IInv'
<1>1. LoadedIsTail'
  BY DEF IInv, LoadedIsTail, IsTail
<1>2. CallsHold' /\ ReadSeesLoaded' /\ DirtyFileIsWhole' /\ OneUnseen'
  BY DEF IInv, CallsHold, ReadSeesLoaded, DirtyFileIsWhole, OneUnseen, Loaded
<1>3. HolesBehind'
  <2>1. CASE object' = object
    BY <2>1 DEF IInv, HolesBehind
  <2>2. CASE object' = LocalFile
    <3>1. object'.size = map.size /\ object'.data = disk
      BY <2>2 DEF LocalFile
    <3> QED
      BY <3>1 DEF IInv, HolesBehind
  <2> QED
    BY <2>1, <2>2
<1> QED
  BY <1>1, <1>2, <1>3 DEF IInv

\* What pwrite and SetInit do in a whole file.
LEMMA WriteEffect ==
  ASSUME IInv, NEW t \in Threads, NEW n \in 0..req[t].len, WriteCopy(t, n)
  PROVE  /\ Loaded(map) /\ req[t].start \in 0..map.size /\ n \in Nat
         /\ req[t].start + n <= MaxSize
         /\ map'.size = IF map.size < req[t].start + n THEN req[t].start + n ELSE map.size
         /\ map'.loaded = PagesOf(map'.size)
<1>1. pc[t] = "write" /\ map.size \in 0..MaxSize /\ map \in Maps /\ req[t] \in Request
      /\ req[t].start + req[t].len <= MaxSize
  BY DEF WriteCopy, IInv, TypeInv, TypeOK, Maps, AreasFit
<1>2. req[t].start \in Nat /\ n \in Nat /\ req[t].start + n <= MaxSize
  BY <1>1, FileAssumption DEF Request
<1>3. Loaded(map) /\ req[t].start \in 0..map.size
  BY <1>1, <1>2, FileAssumption DEF IInv, CallsHold
<1>4. CASE n = 0
  BY <1>1, <1>2, <1>3, <1>4, FileAssumption DEF WriteCopy, Loaded
<1>5. CASE n # 0
  <2>1. map' = Marked(map, req[t].start, n, TRUE)
    BY <1>5 DEF WriteCopy
  <2> DEFINE end == IF map.size < req[t].start + n THEN req[t].start + n ELSE map.size
  <2>2. Marked(map, req[t].start, n, TRUE) = Map(end, PagesOf(end))
    BY <1>1, <1>2, <1>3, <1>5, MarkedIsWhole
  <2>3. map' = Map(end, PagesOf(end))
    BY <2>1, <2>2
  <2>4. map'.size = end /\ map'.loaded = PagesOf(end)
    BY <2>3 DEF Map
  <2> QED
    BY <1>1, <1>2, <1>3, <2>4
<1> QED
  BY <1>2, <1>3, <1>4, <1>5

LEMMA WriteKeeps ==
  ASSUME IInv, TypeInv', NEW t \in Threads, NEW n \in 0..req[t].len, WriteCopy(t, n)
  PROVE  IInv'
<1> DEFINE start == req[t].start
<1>1. /\ Loaded(map) /\ start \in 0..map.size /\ n \in Nat /\ start + n <= MaxSize
      /\ map'.size = (IF map.size < start + n THEN start + n ELSE map.size)
      /\ map'.loaded = PagesOf(map'.size)
  BY WriteEffect
<1>2. map.size \in Nat /\ map'.size \in Nat /\ map.size <= map'.size /\ start + n <= map'.size
  BY <1>1, FileAssumption DEF IInv, TypeInv, TypeOK
<1>3. LoadedIsTail' /\ HolesBehind'
  <2>1. \A i \in Offsets : i >= map'.size => disk'[i] = Zero
    <3> SUFFICES ASSUME NEW i \in Offsets, i >= map'.size PROVE disk'[i] = Zero
      OBVIOUS
    <3>1. i \in Nat /\ i >= map.size /\ ~(i < start + n)
      BY <1>1, <1>2, FileAssumption DEF Offsets
    <3>2. disk'[i] = disk[i]
      BY <3>1 DEF WriteCopy
    <3> QED
      BY <3>1, <3>2 DEF IInv, HolesBehind
  <2>2. \A i \in Offsets : i >= object'.size => object'.data[i] = Zero
    BY DEF WriteCopy, IInv, HolesBehind
  <2> QED
    BY <1>1, <1>2, <2>1, <2>2, WholeHolds
<1>4. \A u \in Threads : (u # t /\ pc'[u] = pc[u] /\ req'[u] = req[u]) \/ pc'[u] = "close"
  BY DEF WriteCopy, Goto, IInv, TypeInv, TypeOK
<1>5. CallsHold'
  <2> SUFFICES ASSUME NEW u \in Threads, pc'[u] # "close"
               PROVE  /\ pc'[u] = "write" => req'[u].start <= map'.size
                      /\ pc'[u] = "truncate" => req'[u].start = 0
    BY <1>1 DEF CallsHold, Loaded
  <2>1. pc'[u] = pc[u] /\ req'[u] = req[u] /\ req[u].start \in Int
    BY <1>4, FileAssumption DEF IInv, TypeInv, TypeOK, Request
  <2> QED
    BY <1>2, <2>1 DEF IInv, CallsHold
<1>6. ReadSeesLoaded' /\ DirtyFileIsWhole'
  BY <1>1 DEF ReadSeesLoaded, DirtyFileIsWhole, Touched, Loaded
<1>7. OneUnseen'
  BY <1>4 DEF IInv, OneUnseen
<1> QED
  BY <1>3, <1>5, <1>6, <1>7 DEF IInv

\* The first open.
LEMMA FirstOpenKeeps ==
  ASSUME IInv, TypeInv', NEW size \in 0..MaxSize, Open(size), ~IsOpen, object' = object,
         \/ pc' = pc
         \/ \E t \in Threads :
              /\ pc'[t] \in {"truncate", "unseen"} /\ req'[t].start = 0 /\ req'[t].len = size
              /\ \A u \in Threads \ {t} : pc'[u] = pc[u]
  PROVE  IInv'
<1>1. disk' = Holes /\ map' = BlankMap(size, FALSE) /\ is_modify' = FALSE /\ map'.size = size
  BY DEF Open, BlankMap, Map
<1>2. \A u \in Threads : pc[u] = "idle"
  BY CallHasReference DEF IInv, IsOpen
<1>3. LoadedIsTail' /\ HolesBehind'
  BY <1>1, BlankHolds
<1>4. CallsHold' /\ ReadSeesLoaded' /\ DirtyFileIsWhole' /\ OneUnseen'
  BY <1>1, <1>2 DEF CallsHold, ReadSeesLoaded, DirtyFileIsWhole, OneUnseen
<1> QED
  BY <1>3, <1>4 DEF IInv

\* A close, by the call of thread t or of a handle.
LEMMA CloseKeeps ==
  ASSUME IInv, TypeInv', Close, object' = object, refcnt \in Nat \ {0},
         \A u \in Threads : (pc'[u] = pc[u] /\ req'[u] = req[u]) \/ pc'[u] = "idle",
         refcnt = 1 => \A u \in Threads : pc'[u] = "idle"
  PROVE  IInv'
<1>1. CASE refcnt > 1
  BY <1>1, QuietStepKeeps DEF Close
<1>2. CASE refcnt = 1
  <2>1. disk' = Holes /\ map' = BlankMap(0, FALSE) /\ is_modify' = FALSE /\ 0 \in 0..MaxSize
    BY <1>2, FileAssumption DEF Close
  <2>2. LoadedIsTail' /\ HolesBehind'
    BY <2>1, BlankHolds
  <2>3. CallsHold' /\ ReadSeesLoaded' /\ DirtyFileIsWhole' /\ OneUnseen'
    BY <1>2, <2>1 DEF CallsHold, ReadSeesLoaded, DirtyFileIsWhole, OneUnseen
  <2> QED
    BY <2>2, <2>3 DEF IInv
<1> QED
  BY <1>1, <1>2

LEMMA IInvInit == Init => IInv
<1> SUFFICES ASSUME Init PROVE IInv
  OBVIOUS
<1>1. map.loaded = {}
  BY DEF Init, BlankMap, Map
<1>2. LoadedIsTail /\ CallsHold /\ ReadSeesLoaded /\ DirtyFileIsWhole /\ OneUnseen
  BY <1>1 DEF Init, LoadedIsTail, IsTail, CallsHold, ReadSeesLoaded, DirtyFileIsWhole, OneUnseen
<1>3. HolesBehind
  <2>1. disk = Holes
    BY DEF Init
  <2>2. \A i \in Offsets : i >= object.size => object.data[i] = Zero
    BY FileAssumption DEF Init, Offsets
  <2> QED
    BY <2>1, <2>2 DEF HolesBehind, Holes
<1> QED
  BY <1>2, <1>3, TypeInit DEF IInv

LEMMA HandleStepKeeps ==
  ASSUME IInv, TypeInv',
         \/ \E trunc \in BOOLEAN : OpenFile(trunc)
         \/ Release
  PROVE  IInv'
<1>1. UNCHANGED <<object, pc, req>>
  BY DEF OpenFile, Release
<1>2. CASE Release
  <2>1. refcnt \in Nat \ {0} /\ Close
    BY <1>2, HandleHasReference DEF IInv, TypeInv, TypeOK, Release
  <2>2. refcnt = 1 => \A u \in Threads : pc[u] = "idle"
    BY <1>2, CallHasReference DEF IInv, Release
  <2> QED
    BY <1>1, <2>1, <2>2, CloseKeeps
<1>3. CASE \E trunc \in BOOLEAN : OpenFile(trunc)
  <2>1. PICK trunc \in BOOLEAN : OpenFile(trunc)
    BY <1>3
  <2>2. (IF trunc THEN 0 ELSE object.size) \in 0..MaxSize
    BY FileAssumption DEF IInv, TypeInv, TypeOK, Files
  <2>3. CASE IsOpen
    BY <1>1, <2>1, <2>3, QuietStepKeeps DEF OpenFile, Open
  <2>4. CASE ~IsOpen
    BY <1>1, <2>1, <2>2, <2>4, FirstOpenKeeps DEF OpenFile
  <2> QED
    BY <2>3, <2>4
<1> QED
  BY <1>2, <1>3

LEMMA IInvStep ==
  ASSUME Careful, IInv, [Next]_vars
  PROVE  IInv'
<1>0. /\ TypeInv /\ TypeInv' /\ map \in Maps /\ IsTail(map)
      /\ \A t \in Threads : req[t] \in Request /\ req[t].start + req[t].len <= MaxSize
  BY TypeStep DEF IInv, TypeInv, TypeOK, AreasFit, LoadedIsTail, Maps
<1>1. CASE UNCHANGED vars
  BY <1>0, <1>1, QuietStepKeeps DEF vars
<1>2. CASE (\E trunc \in BOOLEAN : OpenFile(trunc)) \/ Release
  BY <1>0, <1>2, HandleStepKeeps
<1>3. ASSUME NEW t \in Threads, NEW start \in 0..MaxSize - 1, NEW len \in 1..MaxSize,
             start + len <= MaxSize, ReadLoad(t, start, len)
      PROVE  IInv'
  <2> DEFINE r == [start |-> start, len |-> len, byte |-> Zero]
  <2>1. r \in Request /\ r.start = start /\ r.len = len
    BY <1>3, FileAssumption DEF Request
  <2>2. LoadStep(t, start, len, r, "read") /\ UNCHANGED <<object, is_modify>>
    BY <1>3 DEF ReadLoad, LoadStep
  <2>3. start \in Nat /\ len \in Nat /\ "read" \in {"read", "write", "upload"} /\ object' = object
    BY <1>3, <2>2, FileAssumption
  <2> HIDE DEF r
  <2> QED
    BY <1>0, <1>3, <2>1, <2>2, <2>3, LoadStepKeeps
<1>4. ASSUME NEW t \in Threads, NEW start \in 0..MaxSize - 1, NEW len \in 1..MaxSize,
             NEW byte \in Byte, start + len <= MaxSize, WriteLoad(t, start, len, byte)
      PROVE  IInv'
  <2> DEFINE r == [start |-> start, len |-> len, byte |-> byte]
  <2>1. r \in Request /\ r.start = start
    BY <1>4, FileAssumption DEF Request
  <2>2. LoadStep(t, 0, start, r, "write") /\ UNCHANGED <<object, is_modify>>
        /\ start <= map.size /\ (start = 0 => map.size = 0 \/ 0 \in map.loaded)
    BY <1>4 DEF WriteLoad, LoadStep, CarefulWrite
  <2>3. map.loaded \cup Wanted(map, 0, start) = PagesOf(map.size)
    <3>1. start \in Nat /\ (0 < start \/ map.size = 0 \/ 0 \in map.loaded)
      BY <1>4, <2>2, FileAssumption
    <3> QED
      BY <1>0, <3>1, LoadFromStart
  <2>4. start \in Nat /\ 0 \in Nat /\ "write" \in {"read", "write", "upload"} /\ object' = object
    BY <1>4, <2>2, FileAssumption
  <2> HIDE DEF r
  <2> QED
    BY <1>0, <1>4, <2>1, <2>2, <2>3, <2>4, LoadStepKeeps
<1>5. ASSUME NEW t \in Threads, TruncateLoad(t) PROVE IInv'
  <2>1. LoadStep(t, 0, req[t].len, req[t], "upload") /\ UNCHANGED <<object, is_modify>>
    BY <1>5 DEF TruncateLoad, LoadStep
  <2>2. req[t].len \in Nat /\ (map.size = req[t].len \/ Loaded(map))
    BY <1>0, <1>5, FileAssumption DEF Request, TruncateLoad, IInv, CallsHold
  <2>3. map.loaded \cup Wanted(map, 0, req[t].len) = PagesOf(map.size)
    <3>1. CASE Loaded(map)
      BY <3>1 DEF Loaded, Wanted, Unloaded
    <3>2. CASE map.size = req[t].len
      BY <1>0, <2>2, <3>2, LoadFromStart
    <3> QED
      BY <2>2, <3>1, <3>2
  <2> QED
    BY <1>0, <2>1, <2>2, <2>3, LoadStepKeeps
<1>6. ASSUME NEW t \in Threads, ReadCopy(t) \/ WriteFails(t) PROVE IInv'
  BY <1>0, <1>6, QuietStepKeeps DEF ReadCopy, WriteFails, Goto, TypeInv, TypeOK
<1>7. ASSUME NEW t \in Threads, NEW n \in 0..req[t].len, WriteCopy(t, n) PROVE IInv'
  BY <1>0, <1>7, WriteKeeps
<1>8. ASSUME NEW t \in Threads, NEW ok \in BOOLEAN, Flush(t, ok) \/ TruncateUpload(t, ok) PROVE IInv'
  <2>1. UNCHANGED <<disk, map>>
        /\ \A u \in Threads : (pc'[u] = pc[u] /\ req'[u] = req[u]) \/ pc'[u] = "close"
    BY <1>0, <1>8 DEF Flush, TruncateUpload, Goto, TypeInv, TypeOK
  <2>2. (is_modify' => is_modify) /\ object' \in {object, LocalFile}
    BY <1>8 DEF Flush, TruncateUpload, Upload
  <2> QED
    BY <1>0, <2>1, <2>2, QuietStepKeeps
<1>9. ASSUME NEW t \in Threads, NEW size \in 0..MaxSize, NEW seen \in BOOLEAN,
             Truncate(t, size, seen)
      PROVE  IInv'
  <2>1. Open(size) /\ ~IsOpen /\ object' = object
    BY <1>9 DEF Truncate, CarefulOpen
  <2>2. /\ pc'[t] \in {"truncate", "unseen"} /\ req'[t].start = 0 /\ req'[t].len = size
        /\ \A u \in Threads \ {t} : pc'[u] = pc[u]
    BY <1>0, <1>9 DEF Truncate, Goto, TypeInv, TypeOK
  <2> QED
    BY <1>0, <2>1, <2>2, FirstOpenKeeps
<1>10. ASSUME NEW t \in Threads, EndCall(t) PROVE IInv'
  <2>1. refcnt \in Nat \ {0} /\ Close /\ object' = object
    BY <1>0, <1>10, CallHasReference DEF EndCall, TypeInv, TypeOK
  <2>2. \A u \in Threads : (u # t /\ pc'[u] = pc[u] /\ req'[u] = req[u]) \/ pc'[u] = "idle"
    BY <1>0, <1>10 DEF EndCall, Goto, TypeInv, TypeOK
  <2>3. refcnt = 1 => \A u \in Threads : pc'[u] = "idle"
    BY <1>0, <1>10, <2>2, LastReference DEF EndCall
  <2> QED
    BY <1>0, <2>1, <2>2, <2>3, CloseKeeps
<1> QED
  BY <1>1, <1>2, <1>3, <1>4, <1>5, <1>6, <1>7, <1>8, <1>9, <1>10 DEF Next

-----------------------------------------------------------------------------

(* Every page a read touches is loaded when pread runs, for any number of    *)
(* threads (fdcache.cpp:943-957).                                            *)
THEOREM ReadsSeeLoaded ==
  ASSUME Careful
  PROVE  Spec => []ReadSeesLoaded
<1>1. IInv /\ [Next]_vars => IInv'
  BY IInvStep
<1>2. IInv => ReadSeesLoaded
  BY DEF IInv
<1> QED
  BY <1>1, <1>2, IInvInit, PTL DEF Spec

(* A file with writes to upload has no page that was not downloaded          *)
(* (fdcache.cpp:902).                                                        *)
THEOREM DirtyFilesAreWhole ==
  ASSUME Careful
  PROVE  Spec => []DirtyFileIsWhole
<1>1. IInv /\ [Next]_vars => IInv'
  BY IInvStep
<1>2. IInv => DirtyFileIsWhole
  BY DEF IInv
<1> QED
  BY <1>1, <1>2, IInvInit, PTL DEF Spec

(* When pwrite runs, no page up to the end of the write is a hole            *)
(* (fdcache.cpp:971).                                                        *)
THEOREM WritesAreLoaded ==
  ASSUME Careful
  PROVE  Spec => []WriteAreaLoaded
<1>1. IInv /\ [Next]_vars => IInv'
  BY IInvStep
<1>2. IInv => WriteAreaLoaded
  BY DEF IInv, CallsHold, WriteAreaLoaded, Touched, Loaded
<1> QED
  BY <1>1, <1>2, IInvInit, PTL DEF Spec

-----------------------------------------------------------------------------
(* The refinement                                                           *)

\* The View, of any object, local file and list of pages.
Shown(o, d, m) ==
  [size |-> m.size,
   data |-> [i \in Offsets |-> IF i >= m.size THEN Zero
                               ELSE IF PageOf(i) \in m.loaded THEN d[i]
                               ELSE o.data[i]]]

LEMMA ViewIsShown == View = Shown(object, disk, map) /\ View' = Shown(object', disk', map')
BY DEF View, Shown

\* Of a whole file, the local file is shown.
LEMMA WholeIsShown ==
  ASSUME NEW o, NEW d \in [Offsets -> Byte], NEW m, m.size \in Nat, m.loaded = PagesOf(m.size),
         \A i \in Offsets : i >= m.size => d[i] = Zero
  PROVE  Shown(o, d, m) = [size |-> m.size, data |-> d]
<1> DEFINE shown(i) == IF i >= m.size THEN Zero
                       ELSE IF PageOf(i) \in m.loaded THEN d[i] ELSE o.data[i]
<1>1. ASSUME NEW i \in Offsets PROVE shown(i) = d[i]
  <2>1. i \in Nat
    BY FileAssumption DEF Offsets
  <2>2. CASE i >= m.size
    BY <2>2
  <2>3. CASE i < m.size
    <3>1. PageOf(i) \in m.loaded
      BY <2>1, <2>3, PageOfInFile
    <3> QED
      BY <2>1, <2>3, <3>1
  <2> QED
    BY <2>1, <2>2, <2>3
<1>2. Shown(o, d, m) = [size |-> m.size, data |-> [i \in Offsets |-> shown(i)]]
  BY DEF Shown
<1> HIDE DEF shown
<1>3. [i \in Offsets |-> shown(i)] = d
  BY <1>1
<1> QED
  BY <1>2, <1>3

\* Of a file of which nothing is loaded, the object is shown, cut to its size.
LEMMA BlankIsShown ==
  ASSUME NEW o, NEW d, NEW n \in Nat
  PROVE  Shown(o, d, BlankMap(n, FALSE)) = AbstractFile!Cut(o, n)
<1>1. BlankMap(n, FALSE).size = n /\ BlankMap(n, FALSE).loaded = {}
  BY DEF BlankMap, Map
<1>2. \A i \in Offsets : (IF i >= n THEN Zero ELSE o.data[i]) = (IF i < n THEN o.data[i] ELSE Zero)
  BY FileAssumption DEF Offsets
<1> QED
  BY <1>1, <1>2 DEF Shown, AbstractFile!Cut, AbstractFile!File, AbstractFile!Offsets, Offsets

LEMMA NothingIsShown ==
  ASSUME NEW o, NEW d
  PROVE  Shown(o, d, BlankMap(0, FALSE)) = AbstractFile!Empty
<1>1. BlankMap(0, FALSE).size = 0
  BY DEF BlankMap, Map
<1>2. \A i \in Offsets : i >= 0 /\ ~(i < 0)
  BY FileAssumption DEF Offsets
<1> QED
  BY <1>1, <1>2 DEF Shown, AbstractFile!Empty, AbstractFile!File, AbstractFile!Offsets, Offsets

\* A download changes nothing of what is shown.
LEMMA LoadShowsSame ==
  ASSUME IInv, NEW start \in Nat, NEW len \in Nat,
         NEW got \in SUBSET Wanted(map, start, len), NEW spill \in BOOLEAN,
         Fetched(Wanted(map, start, len), got, object.size),
         Load(Wanted(map, start, len), got, spill), object' = object
  PROVE  View' = View
<1>1. map'.size = map.size /\ map'.loaded = map.loaded \cup got
  BY LoadEffect DEF IInv
<1>2. ASSUME NEW i \in Offsets, i < map.size
      PROVE  (IF PageOf(i) \in map.loaded \cup got THEN disk'[i] ELSE object.data[i])
              = (IF PageOf(i) \in map.loaded THEN disk[i] ELSE object.data[i])
  <2>1. i \in Nat /\ object.size \in Nat
    BY FileAssumption DEF Offsets, IInv, TypeInv, TypeOK, Files
  <2>2. CASE PageOf(i) \in map.loaded
    <3>1. PageOf(i) \notin Wanted(map, start, len)
      BY <2>2 DEF Wanted, Unloaded
    <3>2. PageOf(i) \notin got \cup FailedArea(Wanted(map, start, len), got)
      BY <3>1 DEF FailedArea
    <3>3. disk'[i] = disk[i]
      BY <3>2 DEF Load
    <3> QED
      BY <2>2, <3>3
  <2>3. CASE PageOf(i) \in got /\ PageOf(i) \notin map.loaded
    <3>1. disk'[i] = IF i < object.size THEN object.data[i] ELSE disk[i]
      BY <1>2, <2>3 DEF Load
    <3>2. i >= object.size => disk[i] = Zero /\ object.data[i] = Zero
      BY <2>3 DEF IInv, HolesBehind
    <3> QED
      BY <2>1, <2>3, <3>1, <3>2
  <2> QED
    BY <2>2, <2>3
<1>3. \A i \in Offsets : i < map.size \/ i >= map.size
  BY FileAssumption DEF Offsets, IInv, TypeInv, TypeOK
<1> QED
  BY <1>1, <1>2, <1>3 DEF View

\* A pwrite overwrites what is shown in the bytes it writes.
LEMMA WriteShows ==
  ASSUME IInv, IInv', NEW t \in Threads, NEW n \in 0..req[t].len, WriteCopy(t, n)
  PROVE  View' = AbstractFile!Overwritten(View, req[t].start, n, req[t].byte)
<1> DEFINE start == req[t].start
           end == IF map.size < start + n THEN start + n ELSE map.size
           over(f) == [i \in Offsets |-> IF start <= i /\ i < start + n THEN req[t].byte ELSE f[i]]
<1>1. /\ Loaded(map) /\ start \in 0..map.size /\ n \in Nat /\ start + n <= MaxSize
      /\ map'.size = end /\ map'.loaded = PagesOf(end)
  BY WriteEffect
<1>2. map.size \in Nat /\ end \in Nat /\ map.size <= end /\ start + n <= end
  BY <1>1, FileAssumption DEF IInv, TypeInv, TypeOK
<1>3. View = [size |-> map.size, data |-> disk]
  <2>1. disk \in [Offsets -> Byte] /\ \A i \in Offsets : i >= map.size => disk[i] = Zero
    BY DEF IInv, TypeInv, TypeOK, HolesBehind
  <2> QED
    BY <1>1, <1>2, <2>1, ViewIsShown, WholeIsShown DEF Loaded
<1>4. View' = [size |-> map'.size, data |-> disk']
  <2>1. disk' \in [Offsets -> Byte] /\ \A i \in Offsets : i >= map'.size => disk'[i] = Zero
    BY DEF IInv, TypeInv, TypeOK, HolesBehind
  <2>2. map'.size \in Nat /\ map'.loaded = PagesOf(map'.size)
    BY <1>1, <1>2
  <2> QED
    BY <2>1, <2>2, ViewIsShown, WholeIsShown
<1>5. disk' = over(disk)
  BY DEF WriteCopy
<1>6. \A i \in Offsets : over(disk)[i] = IF i < end THEN over(disk)[i] ELSE Zero
  <2>1. \A i \in Offsets : i >= end => disk'[i] = Zero
    BY <1>1 DEF IInv, HolesBehind
  <2>2. \A i \in Offsets : i \in Nat
    BY FileAssumption DEF Offsets
  <2> QED
    BY <1>2, <1>5, <2>1, <2>2
<1>7. View.size = map.size /\ View.data = disk
  BY <1>3
<1>8. AbstractFile!Overwritten(View, start, n, req[t].byte) = AbstractFile!File(end, over(disk))
  BY <1>7 DEF AbstractFile!Overwritten, AbstractFile!Offsets, Offsets
<1> HIDE DEF over, end
<1>9. AbstractFile!File(end, over(disk)) = [size |-> end, data |-> over(disk)]
  <2>1. over(disk) = [i \in Offsets |-> over(disk)[i]]
    BY DEF over
  <2> QED
    BY <1>6, <2>1 DEF AbstractFile!File, AbstractFile!Offsets, Offsets
<1> QED
  BY <1>1, <1>4, <1>5, <1>8, <1>9

absVars == <<View, object, is_modify, IsOpen, Unseen>>

LEMMA SameIsStutter ==
  ASSUME View' = View, object' = object, is_modify' = is_modify, (refcnt' > 0) <=> (refcnt > 0),
         Unseen' <=> Unseen
  PROVE  UNCHANGED absVars
<1>1. IsOpen' = IsOpen
  BY DEF IsOpen
<1>2. Unseen' = Unseen
  BY DEF Unseen
<1> QED
  BY <1>1, <1>2 DEF absVars

\* A step of one thread that neither begins nor ends a truncate that did not see the
\* object.
LEMMA UnseenIsSame ==
  ASSUME pc \in [Threads -> Labels], NEW t \in Threads, NEW label, NEW r, Goto(t, label, r),
         pc[t] # "unseen", label # "unseen"
  PROVE  Unseen' <=> Unseen
<1>1. \A u \in Threads : pc'[u] = IF u = t THEN label ELSE pc[u]
  BY DEF Goto
<1>2. \A u \in Threads : (pc'[u] = "unseen") <=> (pc[u] = "unseen")
  BY <1>1
<1> QED
  BY <1>2 DEF Unseen

\* A reference more: the first shows the object, cut to the size asked for.
LEMMA OpenIsStep ==
  ASSUME IInv, NEW size \in 0..MaxSize, Open(size), object' = object, IsOpen => (Unseen' <=> Unseen)
  PROVE  [AbstractFile!Next]_absVars
<1>1. refcnt \in Nat /\ refcnt' = refcnt + 1 /\ size \in Nat
  BY FileAssumption DEF IInv, TypeInv, TypeOK, Open
<1>2. CASE IsOpen
  <2>1. View' = View /\ is_modify' = is_modify
    BY <1>2 DEF Open, View
  <2> QED
    BY <1>1, <1>2, <2>1, SameIsStutter DEF IsOpen
<1>3. CASE ~IsOpen
  <2>1. View' = AbstractFile!Cut(object, size)
    BY <1>1, <1>3, ViewIsShown, BlankIsShown DEF Open
  <2>2. IsOpen' = TRUE /\ is_modify' = FALSE
    BY <1>1, <1>3 DEF Open, IsOpen
  <2>3. Unseen' \in BOOLEAN
    BY DEF Unseen
  <2>4. AbstractFile!Open(size)
    BY <1>3, <2>1, <2>2, <2>3 DEF AbstractFile!Open
  <2> QED
    BY <2>4 DEF AbstractFile!Next
<1> QED
  BY <1>2, <1>3

\* A reference less: after the last nothing is shown.
LEMMA CloseIsStep ==
  ASSUME IInv, Close, refcnt > 0, object' = object, Unseen' <=> Unseen
  PROVE  [AbstractFile!Next]_absVars
<1>1. refcnt \in Nat /\ refcnt' = refcnt - 1
  BY DEF IInv, TypeInv, TypeOK, Close
<1>2. CASE refcnt > 1
  <2>1. View' = View /\ is_modify' = is_modify
    BY <1>2 DEF Close, View
  <2> QED
    BY <1>1, <1>2, <2>1, SameIsStutter
<1>3. CASE refcnt = 1
  <2>1. View' = AbstractFile!Empty
    <3>1. map' = BlankMap(0, FALSE)
      BY <1>3 DEF Close
    <3>2. View' = Shown(object', disk', BlankMap(0, FALSE))
      BY <3>1, ViewIsShown
    <3> QED
      BY <3>2, NothingIsShown
  <2>2. IsOpen' = FALSE /\ is_modify' = FALSE /\ IsOpen
    BY <1>1, <1>3 DEF Close, IsOpen
  <2>3. AbstractFile!Close
    BY <2>1, <2>2 DEF AbstractFile!Close, Unseen
  <2> QED
    BY <2>3 DEF AbstractFile!Next
<1> QED
  BY <1>1, <1>2, <1>3

\* An upload of a whole file saves what is shown, or fails to.
LEMMA UploadIsStep ==
  ASSUME IInv, NEW ok \in BOOLEAN, Upload(ok), Loaded(map), UNCHANGED <<disk, map>>,
         refcnt > 0, refcnt' > 0, Unseen' <=> Unseen
  PROVE  [AbstractFile!Next]_absVars
<1>1. View = LocalFile /\ View' = LocalFile
  <2>1. /\ disk \in [Offsets -> Byte] /\ map.size \in Nat
        /\ \A i \in Offsets : i >= map.size => disk[i] = Zero
    BY FileAssumption DEF IInv, TypeInv, TypeOK, HolesBehind
  <2> QED
    BY <2>1, ViewIsShown, WholeIsShown DEF Loaded, LocalFile
<1>2. IsOpen /\ IsOpen' = IsOpen /\ Unseen' = Unseen
  BY DEF IsOpen, Unseen
<1>3. CASE object' = LocalFile /\ is_modify' = FALSE
  <2>1. AbstractFile!Save
    BY <1>1, <1>2, <1>3 DEF AbstractFile!Save
  <2> QED
    BY <2>1 DEF AbstractFile!Next
<1>4. CASE object' = LocalFile /\ is_modify' = is_modify
  <2>1. AbstractFile!FailedSave
    BY <1>1, <1>2, <1>4 DEF AbstractFile!FailedSave
  <2> QED
    BY <2>1 DEF AbstractFile!Next
<1>5. CASE object' = object /\ is_modify' = is_modify
  BY <1>1, <1>5, SameIsStutter
<1> QED
  BY <1>3, <1>4, <1>5 DEF Upload

\* The bytes that the upload of a truncate that did not see the object takes away.
Lost == {i \in Offsets : i < map.size /\ PageOf(i) \notin map.loaded /\ disk[i] = Zero}

LEMMA LostIsNotDirty == IInv /\ is_modify => Lost = {}
<1> SUFFICES ASSUME IInv, is_modify, NEW i \in Offsets, i < map.size, PageOf(i) \notin map.loaded
             PROVE  FALSE
  BY DEF Lost
<1>1. map.size \in Nat /\ i \in 0..map.size - 1
  BY FileAssumption DEF Offsets, IInv, TypeInv, TypeOK
<1> QED
  BY <1>1, PageOfInFile DEF IInv, DirtyFileIsWhole, Loaded

\* What is left is the local file.
LEMMA LocalFileIsRest ==
  ASSUME IInv
  PROVE  /\ LocalFile = AbstractFile!Without(View, Lost)
         /\ Shown(LocalFile, disk, map) = LocalFile
<1> DEFINE rest(i) == IF i < map.size THEN IF i \in Lost THEN Zero ELSE View.data[i] ELSE Zero
           shown(i) == IF i >= map.size THEN Zero
                       ELSE IF PageOf(i) \in map.loaded THEN disk[i] ELSE disk[i]
<1>1. /\ disk \in [Offsets -> Byte] /\ map.size \in Nat
      /\ \A i \in Offsets : i \in Nat /\ (i >= map.size => disk[i] = Zero)
      /\ \A i \in Offsets : PageOf(i) \notin map.loaded => disk[i] \in {Zero, object.data[i]}
  BY FileAssumption DEF IInv, TypeInv, TypeOK, HolesBehind, Offsets
<1>2. ASSUME NEW i \in Offsets PROVE rest(i) = disk[i]
  <2>1. i < map.size => View.data[i] = IF PageOf(i) \in map.loaded THEN disk[i] ELSE object.data[i]
    BY <1>1 DEF View
  <2> QED
    BY <1>1, <2>1 DEF Lost
<1>3. ASSUME NEW i \in Offsets PROVE shown(i) = disk[i]
  BY <1>1
<1>4. View.size = map.size
  BY DEF View
<1>5. AbstractFile!Without(View, Lost) = [size |-> map.size, data |-> [i \in Offsets |-> rest(i)]]
  BY <1>4 DEF AbstractFile!Without, AbstractFile!File, AbstractFile!Offsets, Offsets
<1>6. Shown(LocalFile, disk, map) = [size |-> map.size, data |-> [i \in Offsets |-> shown(i)]]
  BY DEF Shown, LocalFile
<1> HIDE DEF rest, shown
<1>7. [i \in Offsets |-> rest(i)] = disk /\ [i \in Offsets |-> shown(i)] = disk
  BY <1>1, <1>2, <1>3
<1> QED
  BY <1>5, <1>6, <1>7 DEF LocalFile

LEMMA UnseenUploadIsStep ==
  ASSUME IInv, NEW t \in Threads, NEW ok \in BOOLEAN, TruncateUpload(t, ok), pc[t] = "unseen",
         refcnt > 0
  PROVE  [AbstractFile!Next]_absVars
<1>1. Unseen = TRUE /\ Unseen' = FALSE
  <2>1. \A u \in Threads : pc'[u] = IF u = t THEN "close" ELSE pc[u]
    BY DEF TruncateUpload, Goto, IInv, TypeInv, TypeOK
  <2> QED
    BY <2>1 DEF Unseen, IInv, OneUnseen
<1>2. IsOpen /\ IsOpen' = IsOpen /\ UNCHANGED <<disk, map>>
  BY DEF IsOpen, TruncateUpload
<1>3. CASE object' = LocalFile /\ is_modify' \in {is_modify, FALSE}
  <2>1. View' = AbstractFile!Without(View, Lost) /\ object' = View'
    BY <1>2, <1>3, ViewIsShown, LocalFileIsRest
  <2>2. Lost \in SUBSET AbstractFile!Offsets /\ (is_modify => Lost = {})
    BY LostIsNotDirty DEF Lost, AbstractFile!Offsets, Offsets
  <2>3. AbstractFile!SaveUnseen
    BY <1>1, <1>2, <1>3, <2>1, <2>2 DEF AbstractFile!SaveUnseen
  <2> QED
    BY <2>3 DEF AbstractFile!Next
<1>4. CASE object' = object /\ is_modify' = is_modify
  <2>1. View' = View
    BY <1>2, <1>4 DEF View
  <2>2. AbstractFile!GiveUp
    BY <1>1, <1>2, <1>4, <2>1 DEF AbstractFile!GiveUp
  <2> QED
    BY <2>2 DEF AbstractFile!Next
<1> QED
  BY <1>3, <1>4 DEF TruncateUpload, Upload

LEMMA LoadStepIsStep ==
  ASSUME IInv, NEW t \in Threads, NEW start \in Nat, NEW len \in Nat, NEW r, NEW label,
         LoadStep(t, start, len, r, label), object' = object, is_modify' = is_modify,
         refcnt > 0, refcnt' > 0, pc[t] # "unseen", label # "unseen"
  PROVE  UNCHANGED absVars
<1>1. View' = View
  BY LoadShowsSame DEF LoadStep
<1>2. Unseen' <=> Unseen
  BY UnseenIsSame DEF LoadStep, IInv, TypeInv, TypeOK, Labels
<1> QED
  BY <1>1, <1>2, SameIsStutter

LEMMA FileStep ==
  ASSUME Careful, IInv, IInv', [Next]_vars
  PROVE  [AbstractFile!Next]_absVars
<1>0. /\ TypeInv /\ refcnt \in Nat
      /\ \A t \in Threads : req[t] \in Request /\ req[t].start + req[t].len <= MaxSize
      /\ \A t \in Threads : pc[t] # "idle" => refcnt > 0
      /\ Handles > 0 => refcnt > 0
      /\ pc \in [Threads -> Labels]
      /\ pc' = pc => (Unseen' <=> Unseen)
  BY CallHasReference, HandleHasReference DEF IInv, TypeInv, TypeOK, AreasFit, Labels, Unseen
<1>1. CASE UNCHANGED vars
  <2>1. View' = View
    BY <1>1 DEF vars, View
  <2> QED
    BY <1>0, <1>1, <2>1, SameIsStutter DEF vars
<1>2. CASE \E trunc \in BOOLEAN : OpenFile(trunc)
  <2>1. PICK trunc \in BOOLEAN : OpenFile(trunc)
    BY <1>2
  <2>2. (IF trunc THEN 0 ELSE object.size) \in 0..MaxSize
    BY FileAssumption DEF IInv, TypeInv, TypeOK, Files
  <2> QED
    BY <1>0, <2>1, <2>2, OpenIsStep DEF OpenFile
<1>3. CASE Release
  BY <1>0, <1>3, CloseIsStep DEF Release
<1>4. ASSUME NEW t \in Threads, NEW start \in 0..MaxSize - 1, NEW len \in 1..MaxSize,
             start + len <= MaxSize, ReadLoad(t, start, len)
      PROVE  UNCHANGED absVars
  <2>1. LoadStep(t, start, len, [start |-> start, len |-> len, byte |-> Zero], "read")
    BY <1>4 DEF ReadLoad, LoadStep
  <2>2. start \in Nat /\ len \in Nat /\ refcnt > 0 /\ refcnt' > 0 /\ pc[t] # "unseen"
        /\ object' = object /\ is_modify' = is_modify
    BY <1>0, <1>4, FileAssumption DEF ReadLoad
  <2> QED
    BY <2>1, <2>2, LoadStepIsStep
<1>5. ASSUME NEW t \in Threads, NEW start \in 0..MaxSize - 1, NEW len \in 1..MaxSize,
             NEW byte \in Byte, start + len <= MaxSize, WriteLoad(t, start, len, byte)
      PROVE  UNCHANGED absVars
  <2>1. LoadStep(t, 0, start, [start |-> start, len |-> len, byte |-> byte], "write")
    BY <1>5 DEF WriteLoad, LoadStep
  <2>2. start \in Nat /\ 0 \in Nat /\ refcnt > 0 /\ refcnt' > 0 /\ pc[t] # "unseen"
        /\ object' = object /\ is_modify' = is_modify
    BY <1>0, <1>5, FileAssumption DEF WriteLoad
  <2> QED
    BY <2>1, <2>2, LoadStepIsStep
<1>6. ASSUME NEW t \in Threads, TruncateLoad(t) PROVE UNCHANGED absVars
  <2>1. LoadStep(t, 0, req[t].len, req[t], "upload")
    BY <1>6 DEF TruncateLoad, LoadStep
  <2>2. req[t].len \in Nat /\ 0 \in Nat /\ refcnt > 0 /\ refcnt' > 0 /\ pc[t] # "unseen"
        /\ object' = object /\ is_modify' = is_modify
    BY <1>0, <1>6, FileAssumption DEF TruncateLoad, Request
  <2> QED
    BY <2>1, <2>2, LoadStepIsStep
<1>7. ASSUME NEW t \in Threads, ReadCopy(t) \/ WriteFails(t) PROVE UNCHANGED absVars
  <2>1. UNCHANGED <<object, disk, map, is_modify, refcnt>>
    BY <1>7 DEF ReadCopy, WriteFails
  <2>2. View' = View
    BY <2>1 DEF View
  <2>3. Unseen' <=> Unseen
    BY <1>0, <1>7, UnseenIsSame DEF ReadCopy, WriteFails
  <2> QED
    BY <2>1, <2>2, <2>3, SameIsStutter
<1>8. ASSUME NEW t \in Threads, NEW n \in 0..req[t].len, WriteCopy(t, n) PROVE AbstractFile!Next
  <2>1. View' = AbstractFile!Overwritten(View, req[t].start, n, req[t].byte)
    BY <1>8, WriteShows
  <2>2. is_modify' = TRUE /\ object' = object /\ IsOpen /\ IsOpen' = IsOpen /\ Unseen' = Unseen
    <3>1. Unseen' <=> Unseen
      BY <1>0, <1>8, UnseenIsSame DEF WriteCopy
    <3> QED
      BY <1>0, <1>8, <3>1 DEF WriteCopy, IsOpen, Unseen
  <2>3. AbstractFile!Put(req[t].start, n, req[t].byte)
    BY <2>1, <2>2 DEF AbstractFile!Put
  <2>4. req[t].start \in 0..MaxSize /\ n \in 0..MaxSize /\ req[t].byte \in Byte
        /\ req[t].start + n <= MaxSize
    BY <1>0, FileAssumption DEF Request
  <2> QED
    BY <2>3, <2>4 DEF AbstractFile!Next
<1>9. ASSUME NEW t \in Threads, NEW ok \in BOOLEAN, Flush(t, ok) \/ TruncateUpload(t, ok)
      PROVE  [AbstractFile!Next]_absVars
  <2>1. UNCHANGED <<disk, map>> /\ refcnt > 0 /\ refcnt' > 0
    BY <1>0, <1>9 DEF Flush, TruncateUpload
  <2>2. CASE pc[t] = "unseen"
    <3>1. TruncateUpload(t, ok)
      BY <1>9, <2>2 DEF Flush
    <3> QED
      BY <2>1, <2>2, <3>1, UnseenUploadIsStep
  <2>3. ASSUME pc[t] # "unseen" PROVE Unseen' <=> Unseen
    BY <1>0, <1>9, <2>3, UnseenIsSame DEF Flush, TruncateUpload
  <2>4. CASE pc[t] # "unseen" /\ Upload(ok) /\ Loaded(map)
    BY <2>1, <2>3, <2>4, UploadIsStep
  <2>5. CASE pc[t] # "unseen" /\ UNCHANGED <<object, is_modify>>
    <3>1. View' = View
      BY <2>1, <2>5 DEF View
    <3> QED
      BY <2>1, <2>3, <2>5, <3>1, SameIsStutter
  <2>6. TruncateUpload(t, ok) => pc[t] = "unseen" \/ (Upload(ok) /\ Loaded(map))
    BY DEF TruncateUpload, IInv, CallsHold
  <2>7. Flush(t, ok) => (Upload(ok) /\ Loaded(map)) \/ UNCHANGED <<object, is_modify>>
    BY DEF Flush, IInv, DirtyFileIsWhole
  <2> QED
    BY <1>9, <2>2, <2>4, <2>5, <2>6, <2>7
<1>10. ASSUME NEW t \in Threads, NEW size \in 0..MaxSize, NEW seen \in BOOLEAN,
              Truncate(t, size, seen)
       PROVE  [AbstractFile!Next]_absVars
  BY <1>10, OpenIsStep DEF Truncate, CarefulOpen
<1>11. ASSUME NEW t \in Threads, EndCall(t) PROVE [AbstractFile!Next]_absVars
  <2>1. refcnt > 0 /\ (Unseen' <=> Unseen)
    BY <1>0, <1>11, UnseenIsSame DEF EndCall
  <2> QED
    BY <1>11, <2>1, CloseIsStep DEF EndCall
<1> QED
  BY <1>1, <1>2, <1>3, <1>4, <1>5, <1>6, <1>7, <1>8, <1>9, <1>10, <1>11 DEF Next

LEMMA FileInit == Init => AbstractFile!Init
<1> SUFFICES ASSUME Init PROVE AbstractFile!Init
  OBVIOUS
<1>1. View = AbstractFile!Empty
  BY ViewIsShown, NothingIsShown DEF Init
<1>2. object \in Files /\ \A i \in Offsets : i >= object.size => object.data[i] = Zero
  BY IInvInit DEF IInv, TypeInv, TypeOK, HolesBehind
<1>3. object = AbstractFile!Cut(object, object.size)
  <2>1. object = [size |-> object.size, data |-> object.data]
    BY <1>2 DEF Files
  <2>2. object.data = [i \in Offsets |-> IF i < object.size THEN object.data[i] ELSE Zero]
    <3>1. \A i \in Offsets : i < object.size \/ i >= object.size
      BY <1>2, FileAssumption DEF Offsets, Files
    <3> QED
      BY <1>2, <3>1 DEF Files
  <2> QED
    BY <2>1, <2>2 DEF AbstractFile!Cut, AbstractFile!File, AbstractFile!Offsets, Offsets
<1>4. IsOpen = FALSE /\ is_modify = FALSE /\ Unseen = FALSE
  BY DEF Init, IsOpen, Unseen
<1> QED
  BY <1>1, <1>2, <1>3, <1>4 DEF AbstractFile!Init, AbstractFile!Files, AbstractFile!Offsets,
                                Files, Offsets

(* An open file is a BufferedFile: downloads change nothing of what processes*)
(* see, a write changes the bytes it writes, and an upload stores all of it  *)
(* (fdcache.cpp:783-993), but for the holes that a truncate stores when it   *)
(* did not see the object (ossfs.cpp:1939).                                  *)
THEOREM OpenFileBehaves ==
  ASSUME Careful
  PROVE  Spec => BehavesAsFile
<1>1. IInv /\ [Next]_vars => IInv'
  BY IInvStep
<1>2. IInv /\ IInv' /\ [Next]_vars => [AbstractFile!Next]_<<View, object, is_modify, IsOpen, Unseen>>
  BY FileStep DEF absVars
<1> QED
  BY <1>1, <1>2, IInvInit, FileInit, PTL DEF Spec, BehavesAsFile, AbstractFile!Spec

==============================================================================
