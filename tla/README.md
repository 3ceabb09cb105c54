# A TLA+ model of ossfs-fuse

ossfs mounts an Aliyun OSS bucket as a file system: FUSE worker threads run the
operations of `ossfs.cpp`; open files have a local copy (`fdcache.cpp`), object
headers are cached (`cache.cpp`), and all requests go through curl (`curl.cpp`).
This directory models the parts of it that several threads share or that take
several steps, checks them with TLC on small instances, and proves the most
important invariants with TLAPS for every instance.

## Inventory

| Component | State | Operations | Talks to | What makes it correct |
|---|---|---|---|---|
| Page list (`PageList`, fdcache.cpp:190) | a list of (offset, bytes, init) | Init, Resize, SetInit, GetUninitPages, Serialize | owned by one FdEntity | the pages cover the file; exactly the missing bytes are downloaded; the stat file gives the same list back |
| Open file (`FdEntity`, fdcache.cpp:491) | local file, page list, is_modify, refcnt, fdent_lock | Open, Close, Dup, Load, Read, Write, RowFlush | page list, object | what processes read is what was written or is in the bucket; an upload stores all of it |
| Table of open files (`FdManager`, fdcache.cpp:1128) | map path -> entity, fd_manager_lock | Open, ExistOpen, GetFdEntity, Close | every file operation | counts are exact, no entity is used after it was deleted, nobody keeps the lock for ever |
| Cache files (`CacheFileStat`, fdcache.cpp:62) | cache file and stat file on disk | Open, Close, Serialize, DeleteCacheFile | FdEntity | a cache file that is used again holds the object's bytes |
| Stat cache (`StatCache`, cache.cpp) | map key -> headers, stat, "no object"; stat_cache_lock | GetStat, IsNoObjectCache, AddStat, AddNoObjectCache, TruncateCache, DelStat | every lookup (`get_object_attribute`) and every change | an entry is what the server would answer |
| Requests (`OssfsCurl::RequestPerform`, curl.cpp:1474) | attempts, response code | perform, retry, remake handle | server | an error is not taken for success, a request is repeated as often as configured |
| Parallel transfers (`OssfsMultiCurl`, curl.cpp:3012) | sets of requests, upload id, parts | MultiPerform, MultiRead, Request, multipart upload and copy | Load, RowFlush, readdir | all parts arrive or an error is returned |
| Curl handles and process-wide timeouts (curl.cpp:743, 1148) | handle maps, share locks, readwrite_timeout | CreateCurlHandle, DestroyCurlHandle, SetReadwriteTimeout | all requests | no self-deadlock; a saved timeout is restored |
| Names (rename, mkdir, rmdir, unlink, symlink; ossfs.cpp:785-1370) | none of their own | sequences of HEAD, PUT, DELETE | stat cache, requests | no object is lost when a sequence stops half way |
| Attributes (getattr, chmod, chown, utimens; ossfs.cpp:691, 1379-1905) | none | copy of an object onto itself | stat cache, open file | other headers stay as they were |
| Listing (readdir, list_bucket; ossfs.cpp:2224-2414) | marker | paging, parallel HEADs | stat cache, requests | every name once |
| Permission checks (ossfs.cpp:469-614) | none | pure functions | stat cache | the POSIX rule |
| Signing, headers, XML, strings | none | pure functions | requests | formatting |
| Start-up, options, IAM, utility mode (ossfs.cpp:2723-3985) | options | once | everything | - |

Hard behaviour: all operations run concurrently on FUSE threads. `FdManager` and
`StatCache` lock inside their methods only, so that what a caller learnt may be
out of date when it uses it; `FdEntity` drops its lock between the load and the
read or write; requests fail before or after they took effect; sequences of
requests stop half way. PROJECT.json lists each hazard at its line.

## Modules

| Module | Models | Used by |
|---|---|---|
| `PageMap` | what a page list means: the size and the set of loaded pages | `PageList`, `FdEntity`, `CacheFile` |
| `PageList` | the list itself, operation by operation | |
| `FdEntity` | one open file under open, read, write, flush, truncate, release | |
| `BufferedFile` | abstract: one content, one stored copy, and the one save that may lose bytes | refined by `FdEntity` |
| `CacheFile` | the cache file and the stat file of one file over many sessions, crashes and changes of the object | |
| `FdManager` | the table, the reference counts, both locks | |
| `StatCache` | the cache, lookups step by step, the calls as scripts of steps | |
| `Names` | rename, readdir and rmdir of a tree, request by request, with other clients | |
| `PathObjects` | the objects one path may have, and the calls that find out, replace and remove them | |
| `Transfers` | downloads, uploads and copies: one request, serial parts, or batches, rounds, answers, retries, completion | |
| `Transfer` | abstract: a transfer moves all and says so, or fails | refined by `Transfers` |
| `PageListProofs`, `FdEntityProofs`, `CacheFileProofs`, `FdManagerProofs`, `StatCacheProofs`, `NamesProofs`, `PathObjectsProofs`, `TransfersProofs` | theorems about the module of the name | |
| `MC...` | what the .cfg files instantiate | |

**PageList / PageMap.** `pages` is `PageList::pages`. `Resize`, `SetInit`,
`GetUninitPages`, `Serialized`/`Deserialized` are the methods of the same name. The loops
that make or flag pages are written as the sequence they produce, the two that carry
something along, the walk of GetUninitPages (`UninitWalk`) and the reading of the stat file line by line
(`Replay`), as recursive functions of the number of turns. `FdEntity` needs only which
pages are loaded, so `PageMap` has the same operations on a set of page numbers,
and the properties `SetInitMatchesMap` and `UninitPagesAreWanted` tie the two together
at every reachable list; both are theorems.

**FdEntity.** An action is one hold of `fdent_lock`. A read is `ReadLoad` (Load under
the lock), `ReadCopy` (pread), `EndCall` (FdManager::Close); a write is `WriteLoad`,
`WriteCopy` or `WriteFails`, `EndCall`; a truncate is `Truncate` (Open), `TruncateLoad`,
`TruncateUpload`, `EndCall`. ossfs_truncate looks the object up twice; when the second lookup fails
(`seen` is FALSE) it goes from the open of a temporary file to the forced upload without a load
(ossfs.cpp:1939-1949), and stores zeros for all that nobody has downloaded or written by then. `BufferedFile` has this
save as an action of its own, `SaveUnseen`: it takes bytes from the file, but none once there are unsaved
writes. A Load may stop at any area, which may have left its bytes
in the local file; an upload may fail before or after it reached the bucket; a
pwrite may be short. The local file is the temporary file (no use_cache). The
constant `Careful` says how processes use files. FALSE: no restriction. TRUE: they do not write behind the end
of a file, nor at the head of a file none of which was loaded, nor truncate a
file that is open. Outside of those limits the code does not keep its promise:
the run `write_at_head` shows one case, the hazards list the others.

**CacheFile.** The same file under use_cache. `disk` is the cache file, `stat` what the stat
file reads as, `map` and `is_modify` the entity's. `OpenFile` and `Truncate` are FdEntity::Open with
the size they pass; `Fits` is the comparison of sizes by which it takes the list of the stat
file. `Close` is Serialize: because pwrite does not cut the stat file, a list that is shorter
than the longest one before it is read with the tail of that text (`Readings`): the last flag
turned, or a list that does not parse. A flag that is turned off makes a list that no session wrote: its last page
is not loaded though the ones before it are. A careful write loads up to where it
begins, so such a page may still be unloaded when the file is uploaded; it holds the
object's bytes then, and `UploadsWholeFiles` says so. `TruncateUnseen` is the truncate that does not
see the object: its temporary file has no cache path, so that the two files stay as they are
while the object becomes a hole. `UploadsWholeFiles` is not about that upload, and `LoadedIsStored` names it. `ChmodNoCopy` is LoadFull with a forced flush,
`RenameNoCopy` LoadFull with an upload to another name.
`Crash` is the death of the process, not of the machine: what was written stays. `Replace` is
everybody else who writes the object. Sessions follow each other; concurrent calls on one
entity are `FdEntity`. The history variable `outdated` collects the excuses the code has, and
`LoadedIsStored` says there are no others.

**Names.** A call is in a loop (`phase`) over the entries `todo`; each action is one request or
one entry of the loop. `from` and `to` are the bucket under the two names of the tree. A
rename of a directory is `LookTop`, `ListPage` until there is no further page, `Look` for each entry,
`Clone` for each directory, `Copy` and `Delete` for each file, `CheckEmpty` and `Rmdir` for each directory from the
last to the first. `plan` is the list of mvnodes: `virtual` is is_normdir, a directory without an
object. A rename of a file is the loop of copies with one entry, readdir is the listing with
a delimiter, rmdir the last loop with one entry. `Stop` is any request that fails, and the death
of the process. A page that is truncated has a NextMarker, as the server sends it; without one list_bucket
would end the listing and report success (ossfs.cpp:2401). Only other clients change the tree during a call: FUSE runs a rename
alone on its tree (the kernel holds the directories' locks). Changes while no call runs are
covered by the initial states. The rename without copies (nocopyapi, norenameapi) uploads
the file instead and has the same order of steps. Old directory forms inside the tree are left
out; a rename onto a directory that exists is in (`Targets`): the two are merged.

**PathObjects.** `object` has the three keys a directory may have. `Lookup` is
get_object_attribute with its order of HEADs, `down` the requests that fail, `NowPath` is
chk_dir_object_type. Calls: mkdir (`Look`, `Put`), create (`Ask`, `Look`, `Put`), chmod, chown and utimens of a
directory (`Look`, `Type`, `Remove`, `Put`), rmdir (`Ask`, `CheckEmpty`, three DELETEs of which two are asked for
first). `Ask` is the lookup that the kernel sends before a call (ossfs_getattr); it is modelled where the call
itself does not look, or does not heed what it finds: ossfs_create stops at no object that it may write to (ossfs.cpp:828-838), so
that only the kernel, which sends no create for a name that is there, keeps it from one. chown and utimens differ from chmod in the header they set, and the variants for
nocopyapi are the same for directories. Only the mode is kept of the headers.

**FdManager.** `manager` and `lock` are the two kinds of mutex. Taking fd_manager_lock
(`EnterOpen`, `EnterClose`) is a step of its own, since Open and Close wait for an
entity while they hold it. Calls are "open", "release", "use" (on a file open
already) and "own" (open, work, close); the work is a number of holds of fdent_lock.
`state` tells a deleted entity (`free`) from one that could not be opened (`shut`).

**StatCache.** A path has a key as a file and one as a directory. A lookup is
GetStat (`GetStatHit`, `GetStatOld`, `GetStatMiss`), `IsNoObject`, `HeadFile`, `HeadDir`, then
AddStat in three steps (`Check` without the lock, `Replace` or `Evict`, `Insert`) and
GetStat once more (`Again`). `Script` has the steps of each call in the order of the
code. `Check` may come to any result while another thread changes the map, which is
what a data race on a std::map allows short of a crash. chown and utimens have
the script of chmod, with another header. A truncate goes on to its PUT and its DelStat whether its
second lookup (`want`) finds the object or not. The bucket is changed by this mount
only. `excused` is a history variable.

**Transfers.** One transfer of a file of `N` chunks, as Load and RowFlush start it with
the entity's lock held, or the copy in parts that rename and chmod start. `kind` says
which of the five it is: parallel `get` (ParallelGetObjectRequest) and `put`
(ParallelMultipartUploadRequest), `copy` (MultipartRenameRequest, MultipartHeadRequest),
and the single requests `load` (GetObjectRequest) and `store` (PutRequest). `all` and `req` are cMap_all and cMap_req; a request carries the
position up to which it has moved bytes and its retry count. `BeginRound` takes any
requests, since the map is ordered by addresses; `MultiPerform` ends all of them, each
with any answer, since it returns when nothing is running; `ReadDone`, `ReadRetry` and
`ReadCrash` are MultiRead for one message, in any order. `TryAgain` is the loop of
RequestPerform, for the request that gets the upload id, the one that joins the
parts, each part of a copy and the single requests. A copy has no batches: `CopyPart` is one
turn of its loop, and the first part that fails ends it with its parts left at the server.
A single download that failed may have written anything up to the text of the error; its
next attempt begins at the start again (RemakeHandle). The server is external: it joins the parts it has under an id once, and refuses
the id then. Left out: failures of malloc, curl_easy_init and curl_multi_add_handle; an error of
curl_multi_perform (out of memory), which is only logged, so that the requests not ended by then are
dropped unread (curl.cpp:3091); the reply to a part of a copy that has no ETag, which the server does not
send and for which the code would use a null pointer (curl.cpp:2812);
an object that changes while it is downloaded or copied. `FdEntity` takes a transfer to be
a step as in `Transfer`; that a download that reports success brought the bytes is true
but for the chunks in `spoilt`, and `FdEntity` does not model those.

## Runs

| Run | Expect | Question | Bounds |
|---|---|---|---|
| `page_list` | pass | are the lists the code builds right, whatever the order of calls? | pages of 3 bytes, files up to 14: no page, one partial page, several full ones |
| `open_file` | pass | is one open file a buffered file, and what may take bytes from it? | 2 threads, pages of 2 bytes, files up to 3 (a full and a partial page), written bytes told from the object's |
| `write_at_head` | violation | does a write load what it says? | as above, no restriction on writes |
| `cache_file` | pass | can an open take a page for loaded that the bucket does not have; can an upload of the cache file store a hole? | pages of 1 byte, files up to 3 pages, 2 values besides a hole; no bound on sessions |
| `table` | pass | reference counts, lifetimes, lock | 2 threads, 2 handles, 2 paths, 2 addresses, 2 holds per call |
| `table_faults` | pass | is the table consistent when local files cannot be opened or open files are renamed? | as above, 1 hold per call |
| `stat_cache` | pass | which entries can be out of date? (one file, failing requests, expiry) | 2 threads, 1 path, 2 modes, 2 sizes, limit 1 |
| `stat_cache_names` | pass | the same for names of both forms, renames and no-object entries | 2 threads, 2 paths, limit 1 |
| `names` | pass | what is left when a rename stops; what does a listing miss? | a tree of 4 names (a file and a directory with a file), pages of 1 key, 2 contents, 2 edits by others |
| `path_objects` | pass | what do lookups in different orders make of a path's objects? | 2 modes, 2 contents, one path; no bound on calls |
| `transfers` | pass | does a transfer of any kind move all it reports, and does it end? | 4 chunks in batches of 3 and 1, rounds of 2, 2 blocks a chunk, 2 retries |
| `retries_run_out` | violation | is a request that fails too often an error? | 2 chunks, 1 retry |

Two threads are enough for every race described here: each is between a thread that
looked and one that changed something, and the third party, the state itself, is
bounded by values that tell old from new. Two pages of which one is partial show
every case of the page arithmetic in `FdEntity`; the list itself is checked with up
to five. A limit of one entry makes the cache evict at every second insertion.
`stat_cache_names` has no failing requests: a HEAD that fails is cached as "no object"
by design of the code, and then the entry is simply wrong.

In `names` a page holds one key, so that every listing takes several pages with edits in between, and two
edits are enough for one before and one behind the marker, or one between a copy and its
delete and one after. A tree of four names has each pair that the orders distinguish: a
directory and an entry in it, a file before a directory, a directory in a directory.
`path_objects` and `cache_file` have finite state spaces without a bound on steps.
`cache_file` has three pages, since a list needs two to have a last page that is not loaded,
and a third for an older text that is longer. Partial pages are in the theorems, which hold for
every page size, and in `open_file` and `page_list`.

Symmetry is used where no liveness property is checked and no value is chosen.
`table` checks liveness and has none.

**Fairness.** `Transfers` states weak fairness of `Next`: one thread, whose every wait has a
timeout. `TransferEnds` needs `MaxRequests > 0` besides. `FdManager` states weak fairness of
each thread's `Step`, not of beginning a call. Transfers have timeouts (connect_timeout, readwrite_timeout), so a
hold of fdent_lock ends, and a runnable thread runs. Nothing is assumed of who gets
a contended mutex: `ManagerIsReleased` holds because a call takes an entity's lock a
bounded number of times before it needs fd_manager_lock itself.

## What the runs show that the code does not promise to hold

1. `write_at_head`: a write that begins at the head of an unloaded page marks the whole page as loaded (fdcache.cpp:972).
2. `retries_run_out`: a request that may not be repeated any more is a null pointer to MultiRead (curl.cpp:3204).

No run shows these, which the models contain:

- A file opened with O_TRUNC and closed without a write is not uploaded, since is_modify is
  false (ossfs.cpp:1994): the processes see an empty file, the object keeps its content.
- ossfs_truncate looks the object up twice. When the second lookup fails (a timeout), it takes the object for absent,
  and its forced upload replaces the object by zeros of the new size (ossfs.cpp:1939-1949): `Truncate` with `seen` FALSE in
  `FdEntity`, `TruncateUnseen` in `CacheFile`.
- get_object_attribute caches an answer whenever it arrives (ossfs.cpp:438): a HEAD sent before a chmod can put
  the old headers into the cache after the chmod, and after the open that follows, have
  cleared it. `CacheFresh` excuses such a path until its next DelStat.
- The cache drops the x-oss-meta headers (cache.cpp:283, `Kept`), and a rename stores what the cache
  has: mode, owner and mtime are lost.
- The table of open files is not told of renames (ossfs.cpp:1332), so a handle whose file
  was renamed has no entity (`table_faults` has such steps, and `HandleHasEntity` is not checked there).
- A download takes a 404 for done and an error text for data (`spoilt` in `Transfers`); with
  multireq_max=0 no round sends anything and no parallel transfer ends.
- The excuses of `LoadedIsStored`: after a crash, a failed flush that is not repeated before the close, a
  rename onto the name of a cached file, or a shorter list written over a longer one, an
  open can take pages for loaded that the bucket does not have.
- The excuses of `NothingLost` and `FileKept`: a file that another client stores between the copy
  and the delete of a rename is gone; a HEAD that fails with anything counts as "no such object", so
  create and mkdir put over what is there (ossfs.cpp:485); a create puts an empty object over a file that another
  client stored after the kernel asked for the name, although its own look finds that file (ossfs.cpp:828).
- A rename of a directory without an object of its own skips an entry whose HEAD fails, leaves it
  behind and reports success (ossfs.cpp:1251); with an object, the rmdir at the end notices.
- chmod of a directory that has all three objects leaves "p" with the old mode, which every lookup
  finds first (`ChmodTakesEffect`); of one that has only an old form, a failure between the
  DELETE and the PUT removes the directory (`NewFormStays` is about the new form).

## Proofs

Every invariant and action property of the runs, and both refinements, are theorems: for
every value of the constants that satisfies the ASSUMEs of the modules, and under the hypotheses named here. What the
theorems say of the code is bounded by what the models leave out (Modules, above).

`PageListProofs`: `PagesAlwaysTile`, `SetInitIsMarked`, `LoadsWhatIsMissing`, `ReopensUnchanged`, for every page size
and bound on sizes. `TypeOK` and `PagesTile` together are inductive; the work is in lemmas about
`NewPages`, `Resize` and `SetInit`: what the sequence they return looks like at each
index, and that two sequences that tile and meet tile together. A list that tiles has
its k-th page at (k - 1) * PageSize (`Numbered`), so that a flag of the list is a page number of
`PageMap`, and `SetInit` and `Marked` can be compared page by page. The loops that carry something along are proved
about by the least number of turns at which the claim would fail (`LeastExists`, from the
library's WFMin): `UninitMeans` says that the walk of GetUninitPages returns exactly the maximal
runs of unloaded pages behind `start`, which is what `Wanted` says without a walk; `ReplayMeans`
that after n lines of a stat file the list is the first n pages.

`FdEntityProofs`: `FileTypes`, and under `Careful` `ReadsSeeLoaded`, `DirtyFilesAreWhole`, `WritesAreLoaded` and
`OpenFileBehaves` (the refinement of `BufferedFile`), for every page size, size of files, set of bytes,
finite set of threads and number of handles. GetUninitPages merges neighbours and Load
downloads a merged area whole, so that the loaded pages of a file always are a tail of it
(`LoadedIsTail`), and a Load from the start loads all of it. A write begins with such a Load, and nothing unloads
a page of a file that was written to: hence `DirtyFileIsWhole`. For the refinement the invariant adds that a byte of an unloaded
page is a hole or the object's (`HolesBehind`: what a failed download left), so that an upload changes the content
in no byte but to Zero (`LostIsNotDirty`: and not that when there are unsaved writes), and that at most one truncate has not seen the object, as
careful processes truncate closed files only (`OneUnseen`). `Careful` is needed: without
it `write_at_head` has a counterexample to `WriteAreaLoaded`.

`CacheFileProofs`: `ReopenedPagesAreStored`, `UploadsAreWhole` and `CacheTypes`, for every page size, size of files and set of
bytes. `LoadedIsStored` speaks of open files only; what carries it from one session to the
next is `StatHolds`: when the list in the stat file is about as many bytes as the cache file
has, the pages it speaks for hold the object's bytes. It has to hold during sessions too, since a crash
leaves the stat file as it is, but not once a session has cut the file (`emptied`). Here the loaded pages are a tail
but for the last page (`Gapless`), whose flag an older text can turn off. `Vouched` adds that page to those a list speaks for:
it was loaded when any other was, and its bytes have to be carried along until the
next write, since an upload may store it unloaded.

`FdManagerProofs`: `CountsStayExact`, `EntitiesOutliveCalls`, `HandlesKeepTheirEntity`, for any
finite sets of threads and handles and any paths and addresses, under
`~OpenMayFail` and `~MayRename` (with either of the two they are not true). `RefCountExact` is not inductive alone: the invariant adds that a call's
pointer is the entity of its path, that an entity is in the map under one path
only and is open, and that a thread in `opening` or `closing` holds fd_manager_lock. The
reference count is related to a sum of two cardinalities (handles, calls), so every
action has a step that says which of the two sets gains or loses which element.
`TableTypes` and `TableOwnsEntities` have no hypothesis, as the run `table_faults` has none: whatever fails or is
renamed, the map holds each live entity under one path and no dead one (`TableInv`).
`LocksAreOrdered` has none either: a call that has the lock of an entity has no other lock and waits for
none, also when the entity was deleted under it, so that calls never wait in a circle. It is the part of `ManagerIsReleased` that
is a matter of safety, for any number of threads.

`StatCacheProofs`: `StatTypes`, and `EntriesStayFresh` (`CacheFresh`) for any number of threads, paths and modes and
any set of calls. The idea is a debt: from the step that changes an object
until its DelStat, a call owes the cache that DelStat (`Owes`). Scripts are such that no call
returns with a debt (`InOrder`, kept by each step since a script only gets shorter); an entry, or an answer on its way into the cache, that is
out of date is about a path that somebody owes or that is `excused`. The hypothesis is
`SureAnswers`: where "no object" is cached, HEADs do not fail, and no DELETE does when rmdir is among the calls. It is needed, since
get_object_attribute takes any failed HEAD for "no object" (ossfs.cpp:425) and an entry that says so is then wrong at
once; and an rmdir goes on after a DELETE that failed, finds no object of the older form, and has "no object" cached for
a directory that is still there. Both runs
satisfy it, `stat_cache` by not caching "no object". `KindsAssumption` says that every kind of call has a script and that no
attribute is the mark of an absent object or entry. That no call removes an object between the look and the PUT of another is
not assumed: `MayBegin` begins no removal or rename of a name while another call on it runs, as the kernel's locks have it.

`NamesProofs`: `RenameLosesNothing`, `RenameMovesAll`, `ListingsAreComplete` and `NamesTypes`, for any tree, any page length and any number of
edits. `NothingLost` is kept by every step but `Delete`, and that one needs that the file was
copied as it is now, or was stored since (`raced`), which the invariant says of the phase between; and
`Rmdir` needs that a directory that a rename removes was cloned. What a call that succeeded has done follows from how
far each of its loops has come (`EndInv`): a page of keys leaves no gap behind the marker (`PageHasNoGap`), so that all
that was there from the start is listed; what is listed and was not missed is in the plan, and each
loop has dealt with what is no longer in `todo`. That a rename of a directory with an object fails when entries are left, whatever
its looks missed, needs only its last loop (`ChecksTop`).

`PathObjectsProofs`: `FilesAreKept`, `ChmodKeepsDirectory`, `ChmodIsSeen`, `RmdirIsComplete` and `PathTypes`, for any modes and contents. A call
that is past its first look while a file is stored must have missed it or been overtaken (`FileStopsCalls`),
since a lookup asks for "p" first (`LookupFindsFile`); for create the first look is the kernel's (`FirstLook`); and `NowPath` is never "p/" (`NowPathIsOld`). What a chmod or an rmdir
leaves follows from the objects that are gone at each phase (`ChmodReplaces`, `RmdirRemoves`): unless all three
objects are there, what chmod deletes is "p" or there is no "p" (`NowPathClears`).

`TransfersProofs`: `UploadsAreAtomic`, `DownloadsAreExact`, `TransferTypes` and `TransfersAreSteps` (the refinement),
for all five kinds, any number of chunks, blocks and retries and any limits. The invariant says that a
chunk that was given out has at most one request; that it has no etag as long as it has
one, so that a round can neither spoil a part with an etag nor be dropped without
leaving an empty entry in the list; and that the blocks behind a request's position, or
all blocks where there is no request, are the object's unless the chunk is spoilt.

Only model-checked: liveness under fairness (`ManagerIsReleased`, `TransferEnds`), which is out of the provers' reach
together with ENABLED, and the counterexamples of the two runs that expect a violation. No module has a RECURSIVE operator.

## Not modelled, and the plan

In this order:

1. `Handles`: readwrite_timeout saved and restored by concurrent loads and flushes;
   CreateCurlHandle under its lock; the progress timeout.
2. `_$folder$` objects and directories without an object in `StatCache`; old directory forms in `Names`.
3. For `EntriesStayFresh`, a weaker hypothesis than `SureAnswers`: which entries stay right
   when a HEAD fails.

Not modelled although they have state: the curl handles (above); the parts of uncompleted
uploads, which only the utility mode removes. check_object_access decides whether a call begins, from
mode, uid and gid; the models begin calls freely, which covers every decision.

Not planned: signing, header and XML formatting, option parsing, IAM, utility mode: they have
no state that interleaves. What they compute matters to the models only as a few
values, which are constants there.
