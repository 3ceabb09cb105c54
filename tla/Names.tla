-------------------------------- MODULE Names --------------------------------
(***************************************************************************)
(* Calls that list, move and remove whole directories: rename, readdir and *)
(* rmdir (ossfs.cpp).  The bucket knows no directories and no rename.  A   *)
(* directory is an object whose key ends in a slash, or only a common      *)
(* prefix of other keys; a rename lists the keys, copies and deletes the   *)
(* objects one by one, and clones and removes the directories around them. *)
(*                                                                         *)
(* One directory, Top, is being renamed, listed or emptied, with all that  *)
(* is in it.  A name is a number, in the order of the keys.  `from` is the *)
(* bucket under the old name, `to` under the new one.  FUSE runs a rename  *)
(* alone on its tree, but the bucket has other clients, which store and    *)
(* delete objects between any two requests.  Any request may fail, with or *)
(* without effect, and the process may die: both just stop the call.       *)
(*                                                                         *)
(* Directory objects "dir" and "dir_$folder$" do not occur.  Answers from  *)
(* the stat cache are StatCache.tla's: here a look may miss what is there. *)
(***************************************************************************)
EXTENDS Integers, FiniteSets

CONSTANTS
  Names,            \* the entries of the tree, Top among them
  Dirs, Top,
  Above,            \* the directories an entry is in
  Contents, Dir,    \* what a file holds; what a directory object holds
  None,             \* no object
  Targets,          \* what may be under the new name before
  PageLen,          \* max-keys
  MaxEdits          \* bounds what the other clients do

ASSUME NamesAssumption ==
  /\ Names \subseteq Nat \ {0} /\ IsFiniteSet(Names)
  /\ Dirs \subseteq Names /\ Top \in Dirs
  /\ Above \in [Names -> SUBSET Dirs]
  /\ \A e \in Names : e \notin Above[e] /\ (e # Top => Top \in Above[e])
  /\ None # Dir /\ {None, Dir} \cap Contents = {}
  /\ PageLen \in Nat \ {0} /\ MaxEdits \in Nat

VARIABLES
  from, to,         \* the objects under the two names of Top
  op, phase,        \* the call, and the loop it is in
  todo,             \* the entries that loop has still to do
  plan,             \* what was found of each entry (struct mvnode)
  marker, listed,   \* next_marker and the keys of a listing
  result,           \* of the last call
  edits,            \* what the other clients did so far
  latest,           \* history: what was last stored under the old name
  raced,            \* history: files stored after their copy, before the delete
  fresh, missed,    \* history: stored since the call began; a look missed something
  always, ever      \* history: what a listing must show, and what it may

vars == <<from, to, op, phase, todo, plan, marker, listed, result, edits,
          latest, raced, fresh, missed, always, ever>>

Files    == Names \ Dirs
Objects  == {o \in [Names -> Contents \cup {Dir, None}] :
               \A e \in Names : o[e] # None => (o[e] = Dir <=> e \in Dirs)}
ASSUME TargetsAssumption == Targets \subseteq Objects

Findings == {"skip", "move", "real", "virtual"}
NoPlan   == [e \in Names |-> "skip"]

TypeOK ==
  /\ from \in Objects /\ to \in Objects
  /\ op \in {"rename", "move", "readdir", "rmdir"}
  /\ phase \in {"idle", "top", "list", "look", "clone", "copy", "delete", "empty", "rmdir"}
  /\ todo \subseteq Names
  /\ plan \in [Names -> Findings]
  /\ marker \in Names \cup {0}
  /\ listed \subseteq Names
  /\ result \in {"none", "ok", "stopped"}
  /\ edits \in 0..MaxEdits
  /\ latest \in Objects
  /\ raced \subseteq Names /\ fresh \subseteq Names
  /\ missed \in BOOLEAN
  /\ always \subseteq Names /\ ever \subseteq Names

IsFirst(e, S) == e \in S /\ \A d \in S : e <= d
IsLast(e, S)  == e \in S /\ \A d \in S : e >= d

\* directory_empty and readdir: what a listing with a delimiter shows.
Empty(objects, d)  == \A e \in Names : d \in Above[e] => objects[e] = None
Shown(objects, e)  == objects[e] # None \/ ~Empty(objects, e)
Children(objects)  == {e \in Names : Above[e] = {Top} /\ Shown(objects, e)}

Init ==
  /\ from \in Objects /\ to \in Targets
  /\ op = "rename" /\ phase = "idle" /\ todo = {} /\ plan = NoPlan
  /\ marker = 0 /\ listed = {} /\ result = "none" /\ edits = 0
  /\ latest = from /\ raced = {} /\ fresh = {} /\ missed = FALSE
  /\ always = {} /\ ever = {}

-----------------------------------------------------------------------------
(* Calls begin and end                                                      *)

Bucket  == <<from, to, latest, raced, edits>>
History == <<fresh, missed, always, ever>>

Begin(kind, label, entries) ==
  /\ phase = "idle"
  /\ op' = kind /\ phase' = label /\ todo' = entries
  /\ plan' = NoPlan /\ marker' = 0 /\ listed' = {} /\ result' = "none"
  /\ fresh' = {} /\ missed' = FALSE
  /\ always' = (IF kind = "readdir" THEN Children(from) ELSE {}) /\ ever' = always'
  /\ UNCHANGED Bucket

\* ossfs_rename and ossfs_rmdir look at what they are given first.  A readdir may
\* be of the mount point, which needs no object.
BeginRename  == Shown(from, Top) /\ Begin("rename", "top", {Top})
BeginMove(f) == f \in Files /\ from[f] # None /\ Begin("move", "copy", {f})
BeginReadDir == Begin("readdir", "list", {})
BeginRmdir(d) == d \in Dirs /\ Shown(from, d) /\ Begin("rmdir", "empty", {d})

Enter(label, entries) == phase' = label /\ todo' = entries /\ UNCHANGED <<op, result>>

End(value) == phase' = "idle" /\ result' = value /\ todo' = {} /\ UNCHANGED op

\* A request fails, or the process is killed.
Stop ==
  /\ phase # "idle"
  /\ End("stopped")
  /\ UNCHANGED <<Bucket, plan, marker, listed, History>>

-----------------------------------------------------------------------------
(* list_bucket                                                              *)

\* The keys with the prefix; with a delimiter also common prefixes, but nothing
\* behind one.  Top's own key counts for the page, and is not one of the names.
Keys == IF op = "readdir"
        THEN Children(from) \cup {e \in {Top} : from[e] # None}
        ELSE {e \in Names : from[e] # None}

\* The first PageLen keys behind the marker.
Page(keys) ==
  {e \in keys : e > marker /\ Cardinality({d \in keys : marker < d /\ d <= e}) <= PageLen}

\* Bug: the marker is the key to go on with, but a page starts behind it.
MarkerIsNext(e, page, more) == IsFirst(e, more)

\* get_next_marker: it is the last key of the page.  (The server always sends one;
\* without it the code takes the listing to be complete.)
NextMarker(e, page, more) == IsLast(e, page)

\* MakeHierarchizedList: directories without an object are added.
Hierarchized(entries) == (entries \cup UNION {Above[e] : e \in entries}) \ {Top}

ListPage ==
  /\ phase = "list"
  /\ LET page == Page(Keys)
         more == {e \in Keys : e > marker} \ page
     IN  /\ listed' = listed \cup (page \ {Top})
         /\ IF more # {}
            THEN /\ \E e \in Names : NextMarker(e, page, more) /\ marker' = e
                 /\ UNCHANGED <<op, phase, todo, result>>
            ELSE /\ UNCHANGED marker
                 /\ IF op = "readdir" THEN End("ok") ELSE Enter("look", Hierarchized(listed'))
  /\ UNCHANGED <<Bucket, plan, History>>

-----------------------------------------------------------------------------
(* rename_directory                                                         *)

\* What there is to find of an entry, when no request fails: a file; a directory
\* with an object (normdir is false) or without one; nothing.
Found(e) ==
  IF e \in Files
  THEN IF from[e] # None THEN "move" ELSE "skip"
  ELSE IF from[e] = Dir THEN "real" ELSE IF Empty(from, e) THEN "skip" ELSE "virtual"

\* When a HEAD fails the entry is skipped, or its directory object is overlooked.
MayFind(e) == {Found(e), "skip"} \cup {f \in {"virtual"} : e \in Dirs /\ ~Empty(from, e)}

Looked(e) ==
  /\ \E finding \in MayFind(e) :
       /\ plan' = [plan EXCEPT ![e] = finding]
       /\ missed' = (missed \/ finding # Found(e))
  /\ UNCHANGED <<Bucket, marker, listed, fresh, always, ever>>

LookTop == phase = "top" /\ Looked(Top) /\ Enter("list", {})

Look(e) == phase = "look" /\ e \in todo /\ Looked(e) /\ Enter("look", todo \ {e})

LoopEnds(label) == phase = label /\ todo = {} /\ UNCHANGED <<Bucket, plan, marker, listed, History>>

LooksDone  == LoopEnds("look")  /\ Enter("clone", {d \in Dirs : plan[d] # "skip"})
ClonesDone == LoopEnds("clone") /\ Enter("copy", {f \in Files : plan[f] = "move"})
CopiesDone == LoopEnds("copy")  /\ Enter("empty", {d \in Dirs : plan[d] = "real"})
RemovesDone == LoopEnds("empty") /\ End("ok")

\* Bug: a directory is put as if it were a file.
CloneAsFile(d) ==
  /\ phase = "clone" /\ d \in Dirs /\ IsFirst(d, todo)
  /\ Shown(from, d)
  /\ to' = [to EXCEPT ![d] = CHOOSE c \in Contents : TRUE]
  /\ Enter("clone", todo \ {d})
  /\ UNCHANGED <<from, latest, raced, edits, plan, marker, listed, History>>

\* clone_directory_object; a directory that is gone is an error.
Clone(d) ==
  /\ phase = "clone" /\ d \in Dirs /\ IsFirst(d, todo)
  /\ Shown(from, d)
  /\ to' = [to EXCEPT ![d] = Dir]
  /\ Enter("clone", todo \ {d})
  /\ UNCHANGED <<from, latest, raced, edits, plan, marker, listed, History>>

\* Bug: the result of the copy is not looked at.
CopyIgnoresError(f) ==
  /\ phase = "copy" /\ IsFirst(f, todo)
  /\ to' \in {to, [to EXCEPT ![f] = from[f]]}
  /\ Enter("delete", todo)
  /\ UNCHANGED <<from, latest, raced, edits, plan, marker, listed, History>>

\* rename_object copies; a file that is gone is an error.
Copy(f) ==
  /\ phase = "copy" /\ IsFirst(f, todo)
  /\ from[f] # None
  /\ to' = [to EXCEPT ![f] = from[f]]
  /\ Enter("delete", todo)
  /\ UNCHANGED <<from, latest, raced, edits, plan, marker, listed, History>>

\* ossfs_unlink of the file that was copied, whatever it holds now.
Delete(f) ==
  /\ phase = "delete" /\ IsFirst(f, todo)
  /\ from' = [from EXCEPT ![f] = None]
  /\ Enter("copy", todo \ {f})
  /\ UNCHANGED <<to, latest, raced, edits, plan, marker, listed, History>>

\* Bug: a directory is removed whatever is in it.
RmdirUnchecked(d) ==
  /\ phase = "empty" /\ IsLast(d, todo)
  /\ Enter("rmdir", todo)
  /\ UNCHANGED <<Bucket, plan, marker, listed, History>>

\* ossfs_rmdir, from the last directory to the first; one that is not empty is
\* an error.
CheckEmpty(d) ==
  /\ phase = "empty" /\ IsLast(d, todo)
  /\ Empty(from, d)
  /\ Enter("rmdir", todo)
  /\ UNCHANGED <<Bucket, plan, marker, listed, History>>

Rmdir(d) ==
  /\ phase = "rmdir" /\ IsLast(d, todo)
  /\ from' = [from EXCEPT ![d] = None]
  /\ latest' = IF op = "rmdir" THEN [latest EXCEPT ![d] = None] ELSE latest
  /\ Enter("empty", todo \ {d})
  /\ UNCHANGED <<to, raced, edits, plan, marker, listed, History>>

-----------------------------------------------------------------------------
(* Other clients of the bucket                                              *)

Put(e, content) ==
  /\ phase # "idle" /\ edits < MaxEdits
  /\ edits' = edits + 1
  /\ from' = [from EXCEPT ![e] = content]
  /\ latest' = [latest EXCEPT ![e] = content]
  /\ always' = always \cap Children(from')
  /\ ever' = IF op = "readdir" THEN ever \cup Children(from') ELSE {}
  /\ fresh' = IF op = "rename" /\ content # None THEN fresh \cup {e} ELSE fresh \ {e}
  /\ UNCHANGED <<to, op, phase, todo, plan, marker, listed, result, missed>>

Store(f, content) ==
  /\ f \in Files
  /\ Put(f, content)
  /\ raced' = IF phase = "delete" /\ IsFirst(f, todo) THEN raced \cup {f} ELSE raced \ {f}

Mkdir(d) ==
  /\ d \in Dirs /\ from[d] = None
  /\ Put(d, Dir)
  /\ UNCHANGED raced

Remove(e) ==
  /\ from[e] # None
  /\ Put(e, None)
  /\ UNCHANGED raced

Step ==
  \/ Stop
  \/ ListPage
  \/ LookTop
  \/ \E e \in Names : Look(e) \/ Clone(e) \/ Copy(e) \/ Delete(e) \/ CheckEmpty(e) \/ Rmdir(e)
  \/ LooksDone \/ ClonesDone \/ CopiesDone \/ RemovesDone

Next ==
  \/ BeginRename \/ BeginReadDir
  \/ \E e \in Names : BeginMove(e) \/ BeginRmdir(e)
  \/ Step
  \/ \E e \in Names : Mkdir(e) \/ Remove(e) \/ \E c \in Contents : Store(e, c)

Spec == Init /\ [][Next]_vars

-----------------------------------------------------------------------------
(* Properties                                                               *)

(* Wherever a rename stops, and whatever fails in it, what was last stored   *)
(* in a file is still under one of the two names, and so is every directory  *)
(* (ossfs.cpp:1086-1092, 1284-1325).  Only what another client stores after  *)
(* the copy, and before the delete that takes no notice of it, is lost.      *)
NothingLost ==
  \A e \in Names : latest[e] = None \/ e \in raced \/ latest[e] \in {from[e], to[e]}

(* A rename of a directory that returns 0 has left nothing under the old     *)
(* name that was there when it began.  It may when the directory has no      *)
(* object: only the rmdir of the directory itself sees to what a failed HEAD *)
(* made the loop skip (ossfs.cpp:1253, 1311).                                *)
RenameReportsTruth ==
  result = "ok" /\ op = "rename" /\ (plan[Top] = "real" \/ ~missed) =>
    \A e \in Names : from[e] # None => e \in fresh

(* A listing over several pages, while other clients store and delete, shows *)
(* every entry that was there all the time and none that never was           *)
(* (ossfs.cpp:2345-2380).                                                    *)
ListingComplete ==
  result = "ok" /\ op = "readdir" => always \subseteq listed /\ listed \subseteq ever

==============================================================================
