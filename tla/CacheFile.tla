------------------------------ MODULE CacheFile ------------------------------
(***************************************************************************)
(* The local copy of one file under use_cache: a cache file that outlives  *)
(* the open file, and a stat file that says which of its pages are loaded  *)
(* (CacheFileStat, fdcache.cpp:62; FdEntity::Open and Close).  The cache   *)
(* file changes all the time, the stat file when the last handle is closed.*)
(* The next open takes the pages of the stat file for loaded if two sizes  *)
(* agree; nothing else ties the two files to each other or to the object.  *)
(*                                                                         *)
(* One session at a time: handles of one file share its FdEntity, whose    *)
(* interleavings are FdEntity.tla's.  Here sessions follow each other,     *)
(* after a close or a crash of the process (not of the machine), and the   *)
(* object and the two files change between and under them.                 *)
(***************************************************************************)
EXTENDS PageMap

CONSTANTS
  MaxSize,          \* no file grows beyond this many bytes
  Byte, Zero        \* the values of a byte, and that of a hole

ASSUME CacheAssumption == MaxSize \in Nat /\ Zero \in Byte

VARIABLES
  object,           \* the object in the bucket
  disk,             \* the local file
  named,            \* it is what the cache path names: it exists, or was not unlinked
  stat,             \* the stat file
  mode,             \* there is no FdEntity, or one for open files or for a truncate
  map, is_modify,   \* its pagelist and is_modify
  emptied,          \* history: the stat file is about what `disk` held before
  outdated          \* history: why the cache may differ from the object

vars == <<object, disk, named, stat, mode, map, is_modify, emptied, outdated>>

Offsets == 0..MaxSize - 1
Holes   == [i \in Offsets |-> Zero]
File(size, data) == [size |-> size, data |-> [i \in Offsets |-> IF i < size THEN data[i] ELSE Zero]]
Files   == [size : 0..MaxSize, data : [Offsets -> Byte]]
Maps    == [size : 0..MaxSize, loaded : SUBSET (0..MaxSize)]

\* The stat file: the list it reads as, if any, and the largest size that was
\* ever written to it.  A missing or an empty stat file reads as no pages.
NoList    == Map(-1, {})
EmptyStat == [list |-> BlankMap(0, FALSE), text |-> 0]

TypeOK ==
  /\ object \in Files
  /\ disk \in Files
  /\ named \in BOOLEAN
  /\ stat \in [list : Maps \cup {NoList}, text : 0..MaxSize]
  /\ mode \in {"closed", "file", "truncate"}
  /\ map \in Maps
  /\ is_modify \in BOOLEAN
  /\ emptied \in BOOLEAN
  /\ outdated \in BOOLEAN

IsOpen == mode # "closed"

Init ==
  /\ \E n \in 0..MaxSize, b \in Byte \ {Zero} : object = File(n, [i \in Offsets |-> b])
  /\ disk = File(0, Holes) /\ named = FALSE /\ stat = EmptyStat
  /\ mode = "closed" /\ map = BlankMap(0, FALSE) /\ is_modify = FALSE
  /\ emptied = FALSE /\ outdated = FALSE

-----------------------------------------------------------------------------
(* A session                                                                *)

\* Bug: the length of the cache file is not looked at.
FitsList(size) == stat.list.size = size

\* The size that is asked for, the one in the stat file and the length of the
\* cache file are the same.
Fits(size) == stat.list.size = size /\ disk.size = size

\* FdEntity::Open of a file that is not open.  Without a list or without a cache
\* file an empty one is made; a cache file that does not fit is cut to the size,
\* with what it holds, and none of it counts as loaded.
Open(size) ==
  /\ ~IsOpen
  /\ named' = TRUE /\ is_modify' = FALSE
  /\ IF named /\ Fits(size)
     THEN map' = stat.list /\ UNCHANGED <<disk, emptied, outdated>>
     ELSE /\ map' = BlankMap(size, FALSE)
          /\ disk' = File(size, IF named /\ stat.list # NoList THEN disk.data ELSE Holes)
          /\ emptied' = (stat.list.loaded # {})
          /\ outdated' = FALSE
  /\ UNCHANGED <<object, stat>>

\* ossfs_open: the size of the object, or none with O_TRUNC.
OpenFile(trunc) ==
  /\ Open(IF trunc THEN 0 ELSE object.size)
  /\ mode' = "file"

\* ossfs_truncate: Open(size), Load(0, size), a forced flush, Close.
Truncate(size) ==
  /\ Open(size)
  /\ mode' = "truncate"

\* ossfs_truncate when its second lookup of the object fails: the entity it makes has
\* no cache path, so that a temporary file of `size` empty bytes is uploaded, and the
\* close leaves the cache file and the stat file as they were.  One step: while it
\* lasts nothing here but the object can change.  A failed upload may change nothing.
TruncateUnseen(size) ==
  /\ ~IsOpen
  /\ object' = File(size, Holes)
  /\ outdated' = (outdated \/ named)
  /\ UNCHANGED <<disk, named, stat, mode, map, is_modify, emptied>>

\* FdEntity::Load, for a read, for the bytes in front of a write, or for a
\* truncate.  The area that failed may have left its bytes (spill).
Load(start, len) ==
  /\ IsOpen
  /\ LET wanted == Wanted(map, start, len)
     IN  \E got \in SUBSET wanted, spill \in BOOLEAN :
           /\ wanted # {} /\ Fetched(wanted, got, object.size)
           /\ LET bytes == IF spill THEN got \cup FailedArea(wanted, got) ELSE got
              IN  disk' = File(disk.size, [i \in Offsets |->
                    IF PageOf(i) \in bytes THEN object.data[i] ELSE disk.data[i]])
           /\ map' = Map(map.size, map.loaded \cup got)
  /\ UNCHANGED <<object, named, stat, mode, is_modify, emptied, outdated>>

\* Bug: one byte too many is marked.
WriteMarksMore(start, len, byte) ==
  /\ mode = "file"
  /\ start <= map.size /\ (start = 0 => map.size = 0 \/ 0 \in map.loaded)
  /\ Wanted(map, 0, start) = {}
  /\ disk' = File(IF disk.size < start + len THEN start + len ELSE disk.size,
                  [i \in Offsets |-> IF start <= i /\ i < start + len THEN byte
                                     ELSE disk.data[i]])
  /\ map' = Marked(map, start, len + 1, TRUE)
  /\ is_modify' = TRUE
  /\ UNCHANGED <<object, named, stat, mode, emptied, outdated>>

\* FdEntity::Write after its Load(0, start): pwrite and SetInit.  Writes are
\* careful, as FdEntity.tla says: not behind the end, nor at the head of a file of
\* which nothing was loaded.
Write(start, len, byte) ==
  /\ mode = "file"
  /\ start <= map.size /\ (start = 0 => map.size = 0 \/ 0 \in map.loaded)
  /\ Wanted(map, 0, start) = {}
  /\ disk' = File(IF disk.size < start + len THEN start + len ELSE disk.size,
                  [i \in Offsets |-> IF start <= i /\ i < start + len THEN byte
                                     ELSE disk.data[i]])
  /\ map' = Marked(map, start, len, TRUE)
  /\ is_modify' = TRUE
  /\ UNCHANGED <<object, named, stat, mode, emptied, outdated>>

\* What an upload stores: all of the local file.
LocalFile == File(map.size, disk.data)

\* FdEntity::RowFlush: of a file that was written to, or, forced, of one that was
\* truncated and loaded.  An upload that fails may have reached the bucket.
Flush(ok) ==
  /\ \/ mode = "file" /\ is_modify
     \/ mode = "truncate" /\ Wanted(map, 0, map.size) = {}
  /\ IF ok THEN /\ object' = LocalFile
                /\ is_modify' = FALSE /\ emptied' = FALSE /\ outdated' = FALSE
     ELSE object' \in {object, LocalFile} /\ UNCHANGED <<is_modify, emptied, outdated>>
  /\ UNCHANGED <<disk, named, stat, mode, map>>

\* chmod, chown and utimens under nocopyapi: LoadFull takes is_modify back as soon
\* as every page is loaded, and only then a forced RowFlush stores the file.  When
\* it fails, writes of the open file are left that no flush will upload.
ChmodNoCopy(ok) ==
  /\ mode = "file" /\ Wanted(map, 0, map.size) = {}
  /\ is_modify' = FALSE
  /\ IF ok THEN object' = LocalFile /\ emptied' = FALSE /\ outdated' = FALSE
     ELSE /\ object' \in {object, LocalFile}
          /\ outdated' = (outdated \/ is_modify) /\ UNCHANGED emptied
  /\ UNCHANGED <<disk, named, stat, mode, map>>

\* A rename under nocopyapi: LoadFull, and an upload to the other name, after which
\* nothing of this file counts as written.  When it succeeds, the unlink that
\* follows is DropCache and DropStat.
RenameNoCopy ==
  /\ mode = "file" /\ Wanted(map, 0, map.size) = {}
  /\ is_modify' = FALSE /\ outdated' = (outdated \/ is_modify)
  /\ UNCHANGED <<object, disk, named, stat, mode, map, emptied>>

\* The last page of a list with another flag.
Reflagged(m) ==
  LET last == PageOf(m.size - 1)
  IN  IF m.size = 0 THEN {m} ELSE {Map(m.size, m.loaded \cup {last}), Map(m.size, m.loaded \ {last})}

\* What the stat file reads as when the list is written to it: pwrite does not
\* cut it, and the tail of a longer text is read with the last flag, or as lines
\* that make the sizes differ.
Readings(m) == IF m.size < stat.text THEN Reflagged(m) \cup {m, NoList} ELSE {m}

\* The last FdEntity::Close.  Writes that were not uploaded stay in the cache, and
\* so does a page that the tail of the old text declares loaded.
Close ==
  /\ IsOpen
  /\ \E list \in Readings(map) :
       /\ stat' = [list |-> list, text |-> IF map.size < stat.text THEN stat.text ELSE map.size]
       /\ outdated' = (outdated \/ is_modify \/ ~(list.loaded \subseteq map.loaded))
  /\ mode' = "closed" /\ map' = BlankMap(0, FALSE) /\ is_modify' = FALSE /\ emptied' = FALSE
  /\ UNCHANGED <<object, disk, named>>

-----------------------------------------------------------------------------
(* What happens under a session and between two                             *)

\* The process dies.  The files stay as they are; the stat file is the one of the
\* last close.
Crash ==
  /\ IsOpen
  /\ outdated' = (outdated \/ is_modify \/ (emptied /\ disk.size = stat.list.size))
  /\ mode' = "closed" /\ map' = BlankMap(0, FALSE) /\ is_modify' = FALSE /\ emptied' = FALSE
  /\ UNCHANGED <<object, disk, named, stat>>

\* The object is replaced: by another client, or by a rename onto this name, which
\* removes the cache files of the other name only (ossfs_unlink).  Just after an
\* open it stands for one between the HEAD that ossfs_open sends and the open.
Replace(n, byte) ==
  /\ object' = File(n, [i \in Offsets |-> byte])
  /\ outdated' = (outdated \/ named \/ IsOpen)
  /\ UNCHANGED <<disk, named, stat, mode, map, is_modify, emptied>>

\* FdManager::DeleteCacheFile removes the cache file, then the stat file; whoever
\* clears the cache directory does it in any order.  An open file goes on without
\* a name.
DropCache ==
  /\ named
  /\ named' = FALSE
  /\ UNCHANGED <<object, disk, stat, mode, map, is_modify, emptied, outdated>>

DropStat ==
  /\ stat # EmptyStat
  /\ stat' = EmptyStat
  /\ UNCHANGED <<object, disk, named, mode, map, is_modify, emptied, outdated>>

Next ==
  \/ \E trunc \in BOOLEAN : OpenFile(trunc)
  \/ \E size \in 0..MaxSize : Truncate(size) \/ TruncateUnseen(size)
  \/ \E start \in 0..MaxSize, len \in 1..MaxSize : start + len <= MaxSize /\ Load(start, len)
  \/ \E start \in 0..MaxSize, len \in 1..MaxSize, byte \in Byte \ {Zero} :
        start + len <= MaxSize /\ Write(start, len, byte)
  \/ \E ok \in BOOLEAN : Flush(ok) \/ ChmodNoCopy(ok)
  \/ RenameNoCopy
  \/ Close
  \/ Crash
  \/ \E n \in 0..MaxSize, byte \in Byte \ {Zero} : Replace(n, byte)
  \/ DropCache
  \/ DropStat

Spec == Init /\ [][Next]_vars

-----------------------------------------------------------------------------
(* Properties                                                               *)

(* A page that an open takes for loaded, or that was downloaded since, holds *)
(* the object's bytes, over any number of sessions, crashes and lost files.  *)
(* The exceptions are all the code has: the object was replaced by others or *)
(* by a truncate that did not see it (ossfs.cpp:1939) and had no cache; a    *)
(* session ended with writes not uploaded, or LoadFull took the flag of them *)
(* back (851); a process died after Open had cut or emptied the cache file to*)
(* the very size its stat file is about; the tail of an older stat text      *)
(* turned a flag (fdcache.cpp:590-618, 389).                                 *)
LoadedIsStored ==
  (IsOpen /\ ~is_modify /\ ~outdated) =>
    \A i \in Offsets : (i < map.size /\ PageOf(i) \in map.loaded) => disk.data[i] = object.data[i]

(* What a session uploads that knows the cache path was downloaded or        *)
(* written: a list taken from the stat file, a crash or a lost file never    *)
(* makes RowFlush store a hole, for whatever call (fdcache.cpp:861-927,      *)
(* 573-690).  It does not speak of the truncate that did not see the object: *)
(* that one loads nothing and stores nothing but holes (TruncateUnseen,      *)
(* ossfs.cpp:1939).  Only the flag of the last page can have been turned off *)
(* by the tail of an older stat text (389); that page then still holds the   *)
(* object's bytes, but for the excuses of LoadedIsStored.                    *)
UploadsWholeFiles ==
  [][\A ok \in BOOLEAN : Flush(ok) \/ ChmodNoCopy(ok) =>
       /\ PagesOf(map.size) \ map.loaded \subseteq {PageOf(map.size - 1)}
       /\ ~outdated => \A i \in Offsets :
            (i < map.size /\ PageOf(i) \notin map.loaded) => disk.data[i] = object.data[i]]_vars

==============================================================================
