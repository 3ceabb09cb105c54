------------------------------- MODULE FdEntity -------------------------------
(***************************************************************************)
(* One open file: FdEntity (fdcache.cpp:491-993) under the file operations *)
(* of ossfs.cpp (open, read, write, flush, truncate, release).  The local  *)
(* copy starts as a hole of the object's size, pages of it are downloaded  *)
(* when they are needed, writes go to the local copy, and a flush uploads  *)
(* all of it.                                                              *)
(*                                                                         *)
(* Every call that FdEntity makes under fdent_lock is one step; between    *)
(* the steps of a thread other threads run.  A read is Load, then pread; a *)
(* write is Load, then pwrite; a truncate is Open, Load, Flush, without    *)
(* the Load when it does not see the object; each ends with                *)
(* FdManager::Close.                                                       *)
(***************************************************************************)
EXTENDS PageMap, FiniteSets

CONSTANTS
  MaxSize,          \* no file grows beyond this many bytes
  Byte, Zero,       \* the values of a byte, and that of a hole
  Threads,          \* the FUSE worker threads
  MaxHandles,       \* bounds the open handles
  Careful           \* TRUE: processes write as CarefulWrite and CarefulOpen say

ASSUME FileAssumption ==
  /\ MaxSize \in Nat
  /\ Zero \in Byte
  /\ IsFiniteSet(Threads) /\ MaxHandles \in Nat
  /\ Careful \in BOOLEAN

VARIABLES
  object,           \* the object in the bucket
  disk,             \* the bytes of the local (temporary) file
  map,              \* pagelist: the file's size and its loaded pages
  is_modify,        \* there are writes that were not uploaded
  refcnt,           \* open handles and operations in progress
  pc, req           \* what each thread is doing, and the area it does it to

vars == <<object, disk, map, is_modify, refcnt, pc, req>>

Offsets == 0..MaxSize - 1
Files   == [size : 0..MaxSize, data : [Offsets -> Byte]]
Holes   == [i \in Offsets |-> Zero]

Request == [start : 0..MaxSize, len : 0..MaxSize, byte : Byte]
NoReq   == [start |-> 0, len |-> 0, byte |-> Zero]

TypeOK ==
  /\ object \in Files
  /\ disk \in [Offsets -> Byte]
  /\ map \in [size : 0..MaxSize, loaded : SUBSET (0..MaxSize)]
  /\ is_modify \in BOOLEAN
  /\ refcnt \in Nat
  /\ pc \in [Threads -> {"idle", "read", "write", "truncate", "upload", "unseen", "close"}]
  /\ req \in [Threads -> Request]

Busy       == {t \in Threads : pc[t] # "idle"}
Handles    == refcnt - Cardinality(Busy)       \* opens not yet released
IsOpen     == refcnt > 0
Loaded(m)  == m.loaded = PagesOf(m.size)

Goto(t, label, r) == pc' = [pc EXCEPT ![t] = label] /\ req' = [req EXCEPT ![t] = r]

-----------------------------------------------------------------------------
(* Opening and closing                                                      *)

Init ==
  /\ \E n \in 0..MaxSize, b \in Byte \ {Zero} :
       object = [size |-> n, data |-> [i \in Offsets |-> IF i < n THEN b ELSE Zero]]
  /\ disk = Holes /\ map = BlankMap(0, FALSE) /\ is_modify = FALSE /\ refcnt = 0
  /\ pc = [t \in Threads |-> "idle"] /\ req = [t \in Threads |-> NoReq]

\* FdEntity::Open: the first one makes a local file of `size` empty bytes; any
\* other takes a reference and looks at no size.
Open(size) ==
  /\ refcnt' = refcnt + 1
  /\ IF IsOpen THEN UNCHANGED <<disk, map, is_modify>>
     ELSE disk' = Holes /\ map' = BlankMap(size, FALSE) /\ is_modify' = FALSE

\* FdEntity::Close: the last one drops the local file.
Close ==
  /\ refcnt' = refcnt - 1
  /\ IF refcnt > 1 THEN UNCHANGED <<disk, map, is_modify>>
     ELSE disk' = Holes /\ map' = BlankMap(0, FALSE) /\ is_modify' = FALSE

\* A process that truncates (open with O_TRUNC, truncate) while the file is open
\* gets no new size; a careful one does it to a closed file.
CarefulOpen == Careful => ~IsOpen

\* ossfs_open: the size is the object's, or 0 with O_TRUNC - or when its lookup of the
\* object fails: then nothing is found (ENOENT), and the open goes on with size 0.
OpenFile(trunc) ==
  /\ Handles < MaxHandles
  /\ trunc => CarefulOpen
  /\ Open(IF trunc THEN 0 ELSE object.size)
  /\ UNCHANGED <<object, pc, req>>

\* Bug: a handle is released without a look at what still runs on it.
ReleaseEarly ==
  /\ refcnt > 0
  /\ Close
  /\ UNCHANGED <<object, pc, req>>

\* ossfs_release: the kernel sends it when every call on the handle has returned.
Release ==
  /\ Handles > 0
  /\ Handles = 1 => \A t \in Threads : pc[t] \notin {"read", "write"}
  /\ Close
  /\ UNCHANGED <<object, pc, req>>

\* The FdManager::Close that ends an operation.
EndCall(t) ==
  /\ pc[t] = "close"
  /\ Close
  /\ Goto(t, "idle", NoReq)
  /\ UNCHANGED object

-----------------------------------------------------------------------------
(* Load: download what is missing                                           *)

\* The bytes the object has of an area go to the local file, and the area is
\* marked.  The area that failed may have left its bytes (spill); it is not.
Load(wanted, got, spill) ==
  LET bytes == IF spill THEN got \cup FailedArea(wanted, got) ELSE got
  IN  /\ disk' = [i \in Offsets |-> IF PageOf(i) \in bytes /\ i < map.size /\ i < object.size
                                    THEN object.data[i] ELSE disk[i]]
      /\ map' = Map(map.size, map.loaded \cup got)

-----------------------------------------------------------------------------
(* Reading and writing                                                      *)

\* ossfs_read: Load(start, len); then pread.  A file of size 0 is not read.
ReadLoad(t, start, len) ==
  /\ pc[t] = "idle" /\ Handles > 0 /\ map.size > 0
  /\ \E got \in SUBSET Wanted(map, start, len), spill \in BOOLEAN :
       /\ Fetched(Wanted(map, start, len), got, object.size)
       /\ Load(Wanted(map, start, len), got, spill)
       /\ IF got = Wanted(map, start, len)
          THEN Goto(t, "read", [start |-> start, len |-> len, byte |-> Zero])
          ELSE Goto(t, "close", NoReq)
  /\ refcnt' = refcnt + 1
  /\ UNCHANGED <<object, is_modify>>

ReadCopy(t) ==
  /\ pc[t] = "read"
  /\ Goto(t, "close", NoReq)
  /\ UNCHANGED <<object, disk, map, is_modify, refcnt>>

\* A careful process writes from the end of the file or below, and never to the
\* head of a file of which nothing was read or written yet.
CarefulWrite(start) ==
  Careful => start <= map.size /\ (start = 0 => map.size = 0 \/ 0 \in map.loaded)

\* Bug: only the pages of the write itself are asked for.
WriteLoadArea(t, start, len, byte) ==
  /\ pc[t] = "idle" /\ Handles > 0 /\ CarefulWrite(start)
  /\ \E got \in SUBSET Wanted(map, start, len), spill \in BOOLEAN :
       /\ Fetched(Wanted(map, start, len), got, object.size)
       /\ Load(Wanted(map, start, len), got, spill)
       /\ IF got = Wanted(map, start, len)
          THEN Goto(t, "write", [start |-> start, len |-> len, byte |-> byte])
          ELSE Goto(t, "close", NoReq)
  /\ refcnt' = refcnt + 1
  /\ UNCHANGED <<object, is_modify>>

\* FdEntity::Write asks for what is in front of the write, Load(0, start).
WriteLoad(t, start, len, byte) ==
  /\ pc[t] = "idle" /\ Handles > 0 /\ CarefulWrite(start)
  /\ \E got \in SUBSET Wanted(map, 0, start), spill \in BOOLEAN :
       /\ Fetched(Wanted(map, 0, start), got, object.size)
       /\ Load(Wanted(map, 0, start), got, spill)
       /\ IF got = Wanted(map, 0, start)
          THEN Goto(t, "write", [start |-> start, len |-> len, byte |-> byte])
          ELSE Goto(t, "close", NoReq)
  /\ refcnt' = refcnt + 1
  /\ UNCHANGED <<object, is_modify>>

\* pwrite of the first n bytes, then SetInit of the area they fill.
WriteCopy(t, n) ==
  /\ pc[t] = "write"
  /\ disk' = [i \in Offsets |-> IF req[t].start <= i /\ i < req[t].start + n
                                THEN req[t].byte ELSE disk[i]]
  /\ is_modify' = TRUE
  /\ map' = IF n = 0 THEN map ELSE Marked(map, req[t].start, n, TRUE)
  /\ Goto(t, "close", NoReq)
  /\ UNCHANGED <<object, refcnt>>

\* pwrite fails (the local disk is full).
WriteFails(t) ==
  /\ pc[t] = "write"
  /\ Goto(t, "close", NoReq)
  /\ UNCHANGED <<object, disk, map, is_modify, refcnt>>

-----------------------------------------------------------------------------
(* Uploading                                                                *)

\* What an upload stores: the whole local file, loaded or not.
LocalFile == [size |-> map.size, data |-> disk]

\* Bug: a failed upload counts as done.
UploadForgets(ok) ==
  IF ok THEN object' = LocalFile /\ is_modify' = FALSE
        ELSE object' \in {object, LocalFile} /\ is_modify' = FALSE

\* An upload that fails may or may not have reached the bucket.
Upload(ok) ==
  IF ok THEN object' = LocalFile /\ is_modify' = FALSE
        ELSE object' \in {object, LocalFile} /\ UNCHANGED is_modify

\* ossfs_flush on a handle: RowFlush uploads only when is_modify is set.
Flush(t, ok) ==
  /\ pc[t] = "idle" /\ Handles > 0
  /\ IF is_modify THEN Upload(ok) ELSE ok /\ UNCHANGED <<object, is_modify>>
  /\ refcnt' = refcnt + 1
  /\ Goto(t, "close", NoReq)
  /\ UNCHANGED <<disk, map>>

\* ossfs_truncate: Open(size), Load(0, size), a forced Flush.  It has found the object
\* (check_object_access), but when the lookup that follows fails it does not see it
\* and goes to the forced Flush with a temporary file of which nothing is loaded.
Truncate(t, size, seen) ==
  /\ pc[t] = "idle" /\ CarefulOpen
  /\ Open(size)
  /\ Goto(t, IF seen THEN "truncate" ELSE "unseen", [start |-> 0, len |-> size, byte |-> Zero])
  /\ UNCHANGED object

TruncateLoad(t) ==
  /\ pc[t] = "truncate"
  /\ LET wanted == Wanted(map, 0, req[t].len)
     IN  \E got \in SUBSET wanted, spill \in BOOLEAN :
           /\ Fetched(wanted, got, object.size)
           /\ Load(wanted, got, spill)
           /\ IF got = wanted THEN Goto(t, "upload", req[t]) ELSE Goto(t, "close", NoReq)
  /\ UNCHANGED <<object, is_modify, refcnt>>

TruncateUpload(t, ok) ==
  /\ pc[t] \in {"upload", "unseen"}
  /\ Upload(ok)
  /\ Goto(t, "close", NoReq)
  /\ UNCHANGED <<disk, map, refcnt>>

-----------------------------------------------------------------------------

Next ==
  \/ \E trunc \in BOOLEAN : OpenFile(trunc)
  \/ Release
  \/ \E t \in Threads :
       \/ \E start \in 0..MaxSize - 1, len \in 1..MaxSize :
            start + len <= MaxSize /\ ReadLoad(t, start, len)
       \/ ReadCopy(t)
       \/ \E start \in 0..MaxSize - 1, len \in 1..MaxSize, byte \in Byte \ {Zero} :
            start + len <= MaxSize /\ WriteLoad(t, start, len, byte)
       \/ \E n \in 0..req[t].len : WriteCopy(t, n)
       \/ WriteFails(t)
       \/ \E ok \in BOOLEAN : Flush(t, ok)
       \/ \E size \in 0..MaxSize, seen \in BOOLEAN : Truncate(t, size, seen)
       \/ TruncateLoad(t)
       \/ \E ok \in BOOLEAN : TruncateUpload(t, ok)
       \/ EndCall(t)

Spec == Init /\ [][Next]_vars

-----------------------------------------------------------------------------
(* Properties                                                               *)

(* What a process that reads gets to see: a byte of a loaded page is in the  *)
(* local file, any other byte of the file is still the object's.             *)
View ==
  [size |-> map.size,
   data |-> [i \in Offsets |-> IF i >= map.size THEN Zero
                               ELSE IF PageOf(i) \in map.loaded THEN disk[i]
                               ELSE object.data[i]]]

(* A truncate that has opened the file without seeing the object.            *)
Unseen == \E t \in Threads : pc[t] = "unseen"

(* The abstract file that FdEntity implements for careful processes: a       *)
(* download changes no content, a write changes the bytes it writes and no   *)
(* other, an upload stores all of the content (fdcache.cpp:783-993) - but for*)
(* the upload of a truncate that does not see the object (ossfs.cpp:1939),   *)
(* which stores holes for pages nobody has downloaded or written.            *)
AbstractFile == INSTANCE BufferedFile WITH content <- View, stored <- object,
                                           dirty <- is_modify, open <- IsOpen, unseen <- Unseen

BehavesAsFile == AbstractFile!Spec

(* When pread runs, every page the read touches is loaded, whatever other    *)
(* threads did after Load let go of fdent_lock (fdcache.cpp:943-957).        *)
ReadSeesLoaded ==
  \A t \in Threads : pc[t] = "read" =>
    Touched(map.size, req[t].start, req[t].len) \subseteq map.loaded

(* "Load unitialized area which starts from 0 to (start + size) before       *)
(* writing." (fdcache.cpp:971): when pwrite runs, no page from the start of  *)
(* the file to the end of the write is still a hole.                         *)
WriteAreaLoaded ==
  \A t \in Threads : pc[t] = "write" =>
    Touched(map.size, 0, req[t].start + req[t].len) \subseteq map.loaded

(* A file with writes to upload has no page that was not downloaded: RowFlush*)
(* uploads the whole local file and would store the holes (fdcache.cpp:902). *)
DirtyFileIsWhole == is_modify => Loaded(map)

==============================================================================
