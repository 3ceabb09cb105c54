------------------------------- MODULE StatCache -------------------------------
(***************************************************************************)
(* The stat cache (cache.cpp:128-408) and the calls of ossfs.cpp that read *)
(* it, fill it and clear it.  Each method of StatCache locks for itself,   *)
(* AddStat looks at the cache before it locks, and between the request to  *)
(* the server and the insertion of its answer no lock is held at all.      *)
(*                                                                         *)
(* A path has two keys: as a file, and with a slash behind it as a         *)
(* directory.  An object's headers are reduced to its size and to one of   *)
(* the x-oss-meta headers, the mode, which stands for all of them (mode,   *)
(* uid, gid, mtime).  Objects "p_$folder$" and directories without an      *)
(* object, both left by other clients, do not occur.                       *)
(*                                                                         *)
(* A call is a script of steps; a lookup in it (get_object_attribute) has  *)
(* steps of its own, and other calls run between any two of them.          *)
(***************************************************************************)
EXTENDS Integers, FiniteSets, Sequences

CONSTANTS
  Threads, Paths,
  MaxSize, Modes,   \* bounds Content-Length; the values of x-oss-meta-mode
  NoMode,           \* the header is not there
  Absent, NoEntry,  \* no object; nothing in the cache
  Kinds,            \* the calls the kernel makes
  CacheSize,        \* max_stat_cache_size
  CacheNoObject,    \* enable_noobj_cache
  Expires,          \* stat_cache_expire is given
  HeadMayFail,      \* a HEAD may fail though the object is there
  PutMayFail        \* a change may fail, before or after it reached the bucket

ASSUME StatCacheAssumption ==
  /\ MaxSize \in Nat /\ NoMode \notin Modes
  /\ CacheSize \in Nat \ {0}
  /\ {CacheNoObject, Expires, HeadMayFail, PutMayFail} \subseteq BOOLEAN

VARIABLES
  object,           \* the bucket, by key
  cache,            \* stat_cache; Absent is an entry "no object"
  opens,            \* the paths with an open handle
  pc, call,
  excused           \* paths whose entries may be out of date (history)

vars == <<object, cache, opens, pc, call, excused>>

Attr  == [size : 0..MaxSize, mode : Modes \cup {NoMode}]
With(size, mode) == [size |-> size, mode |-> mode]
Keys  == Paths \X {"file", "dir"}
File(p) == <<p, "file">>
Dir(p)  == <<p, "dir">>

\* What each call does, in order.  Lookups: "peek" goes on whatever it finds,
\* "need" keeps the headers and ends the call when there is no object, "want" keeps
\* them and goes on without any, "free" ends it when there is one.  "forget" is DelStat.
GetAttr  == <<"peek">>
OpenFile == <<"forget", "peek", "opened">>
Create   == <<"peek", "put", "forget", "opened">>
MkNod    == <<"put", "forget">>
MkDir    == <<"free", "put", "forget">>
SymLink  == <<"free", "put", "forget">>
Unlink   == <<"delete", "forget">>
RmDir    == <<"delete", "forget", "peekFile">>
ChMod    == <<"need", "need", "peek", "put", "forget">>
Truncate == <<"need", "want", "put", "forget">>
Flush    == <<"peek", "need", "put">>
Release  == <<"forget">>
Rename   == <<"need", "need", "peekTo", "put", "delete", "forget", "forgetTo">>
ReadDir  == <<"refresh">>

Script ==
  [stat |-> GetAttr, open |-> OpenFile, create |-> Create, mknod |-> MkNod, mkdir |-> MkDir,
   symlink |-> SymLink, unlink |-> Unlink, rmdir |-> RmDir, chmod |-> ChMod,
   truncate |-> Truncate, flush |-> Flush, release |-> Release, rename |-> Rename, list |-> ReadDir]

ASSUME KindsAssumption == Kinds \subseteq DOMAIN Script /\ {Absent, NoEntry} \cap Attr = {}

Makers    == {"create", "mknod", "mkdir", "symlink"}
Changers  == Makers \cup {"chmod", "truncate"}
Exclusive == {"unlink", "rmdir", "rename"}
Lookups   == {"peek", "peekTo", "peekFile", "need", "want", "free", "refresh"}

NoCall == [kind |-> "none", path |-> NoEntry, to |-> NoEntry, left |-> <<>>,
           key |-> NoEntry, stat |-> Absent, mode |-> NoMode]

NewCall(kind, p, q, k, stat) ==
  [kind |-> kind, path |-> p, to |-> q, left |-> Script[kind],
   key |-> k, stat |-> stat, mode |-> NoMode]

TypeOK ==
  /\ object \in [Keys -> Attr \cup {Absent}]
  /\ cache \in [Keys -> Attr \cup {Absent, NoEntry}]
  /\ opens \subseteq Paths
  /\ pc \in [Threads -> {"idle", "next", "drop", "isno", "head", "headdir",
                         "check", "replace", "evict", "insert", "again"}]
  /\ \A t \in Threads :
       /\ call[t].kind \in Kinds \cup {"none"}
       /\ {call[t].path, call[t].to} \subseteq Paths \cup {NoEntry}
       /\ call[t].key \in Keys \cup {NoEntry}
       /\ call[t].stat \in Attr \cup {Absent} /\ call[t].mode \in Modes \cup {NoMode}
  /\ excused \subseteq Paths

Doing(t)  == IF call[t].left = <<>> THEN "none" ELSE Head(call[t].left)
Target(t) == IF Doing(t) \in {"peekTo", "forgetTo"} THEN call[t].to ELSE call[t].path
Running(kinds, p) == \E t \in Threads : call[t].kind \in kinds /\ p \in {call[t].path, call[t].to}

Init ==
  /\ object \in [Keys -> {Absent} \cup {With(n, m) : n \in {0, MaxSize}, m \in Modes}]
  /\ \A p \in Paths : object[Dir(p)] # Absent => object[File(p)] = Absent /\ object[Dir(p)].size = 0
  /\ cache = [k \in Keys |-> NoEntry]
  /\ opens = {} /\ excused = {}
  /\ pc = [t \in Threads |-> "idle"] /\ call = [t \in Threads |-> NoCall]

-----------------------------------------------------------------------------
(* Calls begin and go on                                                    *)

\* The kernel and the FUSE library (external): a call that removes a name runs
\* alone on it and on no open file, a call that makes or changes an object does not
\* overlap with another one on the same file, and a handle is flushed before it is
\* released.  Lookups, opens, listings and flushes overlap with all of the rest.
MayBegin(kind, p, q) ==
  /\ ~Running(Exclusive, p) /\ ~Running(Exclusive, q)
  /\ kind \in Exclusive => /\ ~Running(Kinds, p) /\ ~Running(Kinds, q)
                           /\ {p, q} \cap opens = {}
  /\ kind \in Changers => ~Running(Changers, p)
  /\ kind \in {"open", "create"} => p \notin opens /\ ~Running({"open", "create"}, p)
  /\ kind \in {"flush", "release"} => p \in opens
  /\ kind = "release" => ~Running({"flush"}, p)
  /\ kind \in Makers => object[File(p)] = Absent /\ object[Dir(p)] = Absent
  /\ kind \in {"open", "unlink", "chmod", "truncate", "rename"} => object[File(p)] # Absent
  /\ kind = "rmdir" => object[Dir(p)] # Absent
  /\ IF kind = "rename" THEN p # q /\ object[Dir(q)] = Absent ELSE p = q

Begin(t, kind, p, q) ==
  /\ pc[t] = "idle" /\ kind # "list" /\ MayBegin(kind, p, q)
  /\ pc' = [pc EXCEPT ![t] = "next"]
  /\ call' = [call EXCEPT ![t] = NewCall(kind, p, q, NoEntry, Absent)]
  /\ opens' = IF kind = "release" THEN opens \ {p} ELSE opens
  /\ UNCHANGED <<object, cache, excused>>

\* ossfs_readdir, for one name of the listing and the ETag in it.
BeginList(t, k) ==
  /\ pc[t] = "idle" /\ "list" \in Kinds /\ MayBegin("list", k[1], k[1])
  /\ object[k] # Absent
  /\ pc' = [pc EXCEPT ![t] = "next"]
  /\ call' = [call EXCEPT ![t] = NewCall("list", k[1], k[1], k, object[k])]
  /\ UNCHANGED <<object, cache, opens, excused>>

Goto(t, label) == pc' = [pc EXCEPT ![t] = label] /\ UNCHANGED call

End(t) == pc' = [pc EXCEPT ![t] = "idle"] /\ call' = [call EXCEPT ![t] = NoCall]

\* The step is done; c is what the call knows now.
Proceed(t, c) ==
  IF Tail(c.left) = <<>> THEN End(t)
  ELSE /\ pc' = [pc EXCEPT ![t] = "next"]
       /\ call' = [call EXCEPT ![t] = [c EXCEPT !.left = Tail(@)]]

-----------------------------------------------------------------------------
(* get_object_attribute                                                     *)

\* The headers AddStat keeps: Content-Type, Content-Length, ETag, Last-Modified and
\* x-amz*, which none of OSS' headers begins with.  The stat it computes from all.
Kept(a) == With(a.size, NoMode)

\* A lookup ends with a stat and the mode header, if there is one.
Answered(t, stat, mode) ==
  IF \/ Doing(t) = "need" /\ stat = Absent
     \/ Doing(t) = "free" /\ stat # Absent
  THEN End(t)
  ELSE Proceed(t, [call[t] EXCEPT !.key = NoEntry,
                                  !.stat = Absent,
                                  !.mode = IF Doing(t) \in {"need", "want"} THEN mode ELSE @])

\* With overcheck an entry of the directory goes first; a listing names its key.
FoundKey(t) ==
  LET p == Target(t)
  IN  IF \/ call[t].key = Dir(p)
         \/ Doing(t) # "peekFile" /\ cache[Dir(p)] # NoEntry THEN Dir(p) ELSE File(p)

\* Bug: the entry of the other form of the name stays.
DroppedOneForm(p) == [cache EXCEPT ![File(p)] = NoEntry]

\* Bug: the entry of an open file is spared.
DroppedClosed(p) == [k \in Keys |-> IF k[1] = p /\ p \notin opens THEN NoEntry ELSE cache[k]]

\* DelStat.
Dropped(p) == [k \in Keys |-> IF k[1] = p THEN NoEntry ELSE cache[k]]

AfterMiss(t) == IF CacheNoObject /\ Doing(t) # "refresh" THEN "isno" ELSE "head"

Looking(t) == pc[t] = "next" /\ Doing(t) \in Lookups

\* An ETag in a listing that is not the cached one.
OtherETag(t, e) == Doing(t) = "refresh" /\ e \in Attr /\ e.size # call[t].stat.size

GetStatHit(t) ==
  /\ Looking(t)
  /\ LET e == cache[FoundKey(t)]
     IN  e \in Attr /\ ~OtherETag(t, e) /\ Answered(t, e, Kept(e).mode)
  /\ UNCHANGED <<object, cache, opens, excused>>

\* An entry that expired, or with another ETag, is found under the lock and deleted
\* under another hold of it.
GetStatOld(t) ==
  /\ Looking(t)
  /\ LET e == cache[FoundKey(t)] IN e # NoEntry /\ (Expires \/ OtherETag(t, e))
  /\ Goto(t, "drop")
  /\ UNCHANGED <<object, cache, opens, excused>>

GetStatMiss(t) ==
  /\ Looking(t)
  /\ cache[FoundKey(t)] \in {NoEntry, Absent}
  /\ Goto(t, AfterMiss(t))
  /\ UNCHANGED <<object, cache, opens, excused>>

Drop(t) ==
  /\ pc[t] = "drop"
  /\ cache' = Dropped(Target(t))
  /\ Goto(t, AfterMiss(t))
  /\ UNCHANGED <<object, opens, excused>>

\* IsNoObjectCache.  (What had expired, GetStat dropped.)
IsNoObject(t) ==
  /\ pc[t] = "isno"
  /\ LET p == Target(t)
         k == IF cache[Dir(p)] # NoEntry THEN Dir(p) ELSE File(p)
     IN  IF cache[k] = Absent THEN Answered(t, Absent, NoMode) ELSE Goto(t, "head")
  /\ UNCHANGED <<object, cache, opens, excused>>

Fill(t, k, stat) ==
  /\ pc' = [pc EXCEPT ![t] = "check"]
  /\ call' = [call EXCEPT ![t].key = k, ![t].stat = stat]

\* No object, or no answer: AddNoObjectCache, when that is enabled.
NotFound(t) == IF CacheNoObject THEN Fill(t, File(Target(t)), Absent) ELSE Answered(t, Absent, NoMode)

HeadFile(t) ==
  /\ pc[t] = "head"
  /\ LET k == IF Doing(t) = "refresh" THEN call[t].key ELSE File(Target(t))
     IN  \/ object[k] # Absent /\ Fill(t, k, object[k])
         \/ /\ object[k] = Absent \/ HeadMayFail
            /\ CASE Doing(t) = "refresh"  -> End(t)
                 [] Doing(t) = "peekFile" -> NotFound(t)
                 [] OTHER                 -> Goto(t, "headdir")
  /\ UNCHANGED <<object, cache, opens, excused>>

HeadDir(t) ==
  /\ pc[t] = "headdir"
  /\ LET k == Dir(Target(t))
     IN  \/ object[k] # Absent /\ Fill(t, k, object[k])
         \/ (object[k] = Absent \/ HeadMayFail) /\ NotFound(t)
  /\ UNCHANGED <<object, cache, opens, excused>>

\* Another thread is about to change stat_cache: a look at it without the lock may
\* see anything.
Racing(t) == \E u \in Threads \ {t} :
  \/ pc[u] \in {"drop", "replace", "evict", "insert"}
  \/ pc[u] = "next" /\ Doing(u) \in {"forget", "forgetTo"}

\* AddStat and AddNoObjectCache look for the key and at the size without the lock.
Check(t) ==
  /\ pc[t] = "check"
  /\ \E next \in {"replace", "evict", "insert"} :
       /\ \/ Racing(t)
          \/ next = (IF cache[call[t].key] # NoEntry THEN "replace"
                     ELSE IF Cardinality({k \in Keys : cache[k] # NoEntry}) > CacheSize
                     THEN "evict" ELSE "insert")
       /\ Goto(t, next)
  /\ UNCHANGED <<object, cache, opens, excused>>

Replace(t) ==
  /\ pc[t] = "replace"
  /\ cache' = Dropped(call[t].key[1])
  /\ Goto(t, "insert")
  /\ UNCHANGED <<object, opens, excused>>

\* TruncateCache: the entry that was not used for the longest time, which may be any.
Evict(t) ==
  /\ pc[t] = "evict"
  /\ \/ \E k \in Keys : cache[k] # NoEntry /\ cache' = [cache EXCEPT ![k] = NoEntry]
     \/ (\A k \in Keys : cache[k] = NoEntry) /\ UNCHANGED cache
  /\ Goto(t, "insert")
  /\ UNCHANGED <<object, opens, excused>>

Insert(t) ==
  /\ pc[t] = "insert"
  /\ cache' = [cache EXCEPT ![call[t].key] = call[t].stat]
  /\ IF Doing(t) = "refresh" THEN End(t)
     ELSE IF call[t].stat = Absent THEN Answered(t, Absent, NoMode)
     ELSE Goto(t, "again")
  /\ UNCHANGED <<object, opens, excused>>

\* GetStat after AddStat: what is cached now is the answer, with its headers; only
\* when nothing is cached the answer of the server stands.
Again(t) ==
  /\ pc[t] = "again"
  /\ LET c == call[t]
         e == cache[FoundKey(t)]
     IN  IF e \in Attr THEN Answered(t, e, Kept(e).mode) ELSE Answered(t, c.stat, c.stat.mode)
  /\ UNCHANGED <<object, cache, opens, excused>>

-----------------------------------------------------------------------------
(* Changes                                                                  *)

Changed(k, v) ==
  object' = [object EXCEPT ![k] = v]

\* What a PUT stores, and where.  chmod and rename copy on the server.
PutKey(c) ==
  CASE c.kind = "mkdir"  -> Dir(c.path)
    [] c.kind = "rename" -> File(c.to)
    [] OTHER             -> File(c.path)

\* Bug: the length of a file that is uploaded counts one byte too many.
PutValuesLong(c) ==
  CASE c.kind = "symlink"             -> {With(MaxSize, m) : m \in Modes}
    [] c.kind \in Makers \ {"symlink"}  -> {With(0, m) : m \in Modes}
    [] c.kind = "chmod"                 -> {With(object[File(c.path)].size, m) : m \in Modes}
    [] c.kind = "rename"                -> {With(object[File(c.path)].size, c.mode)}
    [] c.kind \in {"truncate", "flush"} -> {With(n + 1, c.mode) : n \in 0..MaxSize}

PutValues(c) ==
  CASE c.kind = "symlink"             -> {With(MaxSize, m) : m \in Modes}
    [] c.kind \in Makers \ {"symlink"}  -> {With(0, m) : m \in Modes}
    [] c.kind = "chmod"                 -> {With(object[File(c.path)].size, m) : m \in Modes}
    [] c.kind = "rename"                -> {With(object[File(c.path)].size, c.mode)}
    [] c.kind \in {"truncate", "flush"} -> {With(n, c.mode) : n \in 0..MaxSize}

Put(t) ==
  /\ pc[t] = "next" /\ Doing(t) = "put"
  /\ \E v \in PutValues(call[t]) : Changed(PutKey(call[t]), v)
  /\ excused' = IF call[t].kind = "flush" THEN excused \cup {call[t].path} ELSE excused
  /\ Proceed(t, call[t])
  /\ UNCHANGED <<cache, opens>>

\* A flush of a file that was not written to.
FlushNothing(t) ==
  /\ pc[t] = "next" /\ Doing(t) = "put" /\ call[t].kind = "flush"
  /\ End(t)
  /\ UNCHANGED <<object, cache, opens, excused>>

\* create, mkdir and symlink clear the cache also when the PUT failed; the others
\* return.
PutFails(t) ==
  /\ PutMayFail /\ pc[t] = "next" /\ Doing(t) = "put"
  /\ \/ UNCHANGED object
     \/ \E v \in PutValues(call[t]) : Changed(PutKey(call[t]), v)
  /\ IF call[t].kind \in {"create", "mkdir", "symlink"}
     THEN /\ pc' = pc /\ call' = [call EXCEPT ![t].left = <<"forget">>]
          /\ UNCHANGED excused
     ELSE End(t) /\ excused' = excused \cup {PutKey(call[t])[1]}
  /\ UNCHANGED <<cache, opens>>

Delete(t) ==
  /\ pc[t] = "next" /\ Doing(t) = "delete"
  /\ LET k == IF call[t].kind = "rmdir" THEN Dir(call[t].path) ELSE File(call[t].path)
     IN  Changed(k, Absent) \/ (PutMayFail /\ UNCHANGED object)
  /\ Proceed(t, call[t])
  /\ UNCHANGED <<cache, opens, excused>>

\* v is not what the lookup of key k gives now.
Outdated(k, v) ==
  IF v = Absent THEN object[File(k[1])] # Absent \/ object[Dir(k[1])] # Absent ELSE object[k] # v

\* Thread u is going to insert an answer for p that is out of date.
HoldsOld(u, p) ==
  \/ /\ pc[u] \in {"check", "replace", "evict", "insert"}
     /\ call[u].key[1] = p /\ Outdated(call[u].key, call[u].stat)
  \/ pc[u] = "headdir" /\ CacheNoObject /\ Target(u) = p /\ object[File(p)] # Absent

Forget(t) ==
  LET p == Target(t)
  IN  /\ pc[t] = "next" /\ Doing(t) \in {"forget", "forgetTo"}
      /\ cache' = Dropped(p)
      /\ excused' = IF \E u \in Threads \ {t} : HoldsOld(u, p) THEN excused \cup {p} ELSE excused \ {p}
      /\ Proceed(t, call[t])
      /\ UNCHANGED <<object, opens>>

Opened(t) ==
  /\ pc[t] = "next" /\ Doing(t) = "opened"
  /\ opens' = opens \cup {call[t].path}
  /\ End(t)
  /\ UNCHANGED <<object, cache, excused>>

-----------------------------------------------------------------------------

Next == \E t \in Threads :
  \/ \E kind \in Kinds, p, q \in Paths : Begin(t, kind, p, q)
  \/ \E k \in Keys : BeginList(t, k)
  \/ GetStatHit(t) \/ GetStatOld(t) \/ GetStatMiss(t) \/ Drop(t) \/ IsNoObject(t)
  \/ HeadFile(t) \/ HeadDir(t)
  \/ Check(t) \/ Replace(t) \/ Evict(t) \/ Insert(t) \/ Again(t)
  \/ Put(t) \/ FlushNothing(t) \/ PutFails(t) \/ Delete(t) \/ Forget(t) \/ Opened(t)

Spec == Init /\ [][Next]_vars

-----------------------------------------------------------------------------
(* Properties                                                               *)

(* An entry is what the server would answer now, and "no object" is true,    *)
(* except for a path that a call is changing just now, that was flushed and  *)
(* not yet released, whose last change failed, or whose last DelStat came    *)
(* between another thread's request and the insertion of its answer.  So     *)
(* every call that changes an object clears every entry that shows it        *)
(* (cache.cpp:371-408, ossfs.cpp:839-1975).                                  *)
CacheFresh ==
  \A k \in Keys : cache[k] # NoEntry /\ Outdated(k, cache[k]) =>
    k[1] \in excused \/ Running(Changers \cup Exclusive, k[1])

==============================================================================
