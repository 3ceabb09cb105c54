----------------------------- MODULE PathObjects -----------------------------
(***************************************************************************)
(* The objects that one path p can stand for, and the calls that have to   *)
(* find out which of them there are (ossfs.cpp): a file "p"; a directory   *)
(* "p/", or in the forms that older versions and other clients make, "p"   *)
(* and "p_$folder$"; or no object but keys below "p/".  A lookup is up to  *)
(* three HEAD requests and a listing, in an order that ends with the first *)
(* that is answered, and chmod, chown and utimens of a directory replace   *)
(* the older forms by the new one: they delete, then put.                  *)
(*                                                                         *)
(* One call at a time.  Other mounts store a file under p, and keys below  *)
(* "p/", between any two requests; any request may fail; the process may   *)
(* die.  Objects carry the attributes that ossfs gives them; of these only *)
(* the mode is kept.  The stat cache, which StatCache.tla models, is left  *)
(* out.                                                                    *)
(***************************************************************************)
CONSTANTS
  Modes, Contents,  \* of a directory object; of a file
  New,              \* what a file holds that was just created
  None              \* no object

ASSUME PathAssumption ==
  /\ {None, "forced"} \cap (Modes \cup Contents) = {} /\ Modes \cap Contents = {}
  /\ New \in Contents

VARIABLES
  object,           \* by form of the key
  below,            \* there are keys that begin with "p/"
  op, mode,         \* the call, and the mode it is to set
  phase,            \* the request it sends next
  nowpath,          \* the object it is to delete
  result,           \* of the last call
  before,           \* history: the objects when it began
  stored,           \* history: the last file another client stored
  missed, raced     \* history: a failure went unnoticed; a file came after the first look

vars == <<object, below, op, mode, phase, nowpath, result, before, stored, missed, raced>>

\* The keys "p", "p/" and "p_$folder$".
Keys == {"plain", "slash", "folder"}

Objects == {o \in [Keys -> Modes \cup Contents \cup {None}] :
              o["slash"] \notin Contents /\ o["folder"] \notin Contents}

TypeOK ==
  /\ object \in Objects /\ before \in Objects
  /\ below \in BOOLEAN
  /\ op \in {"none", "mkdir", "create", "chmod", "rmdir"}
  /\ mode \in Modes \cup {None}
  /\ phase \in {"idle", "ask", "look", "type", "remove", "put", "empty", "deleteNew",
                "checkOld", "deleteOld", "checkFolder", "deleteFolder"}
  /\ nowpath \in Keys \cup {None}
  /\ result \in {"none", "ok", "error"}
  /\ stored \in Contents \cup {None}
  /\ missed \in BOOLEAN /\ raced \in BOOLEAN

Init ==
  /\ object \in Objects /\ below \in BOOLEAN
  /\ op = "none" /\ mode = None /\ phase = "idle" /\ nowpath = None /\ result = "none"
  /\ before = object
  /\ stored = IF object["plain"] \in Contents THEN object["plain"] ELSE None
  /\ missed = FALSE /\ raced = FALSE

-----------------------------------------------------------------------------
(* Looking                                                                  *)

\* What get_object_attribute(p) returns when the requests for `down` fail: the
\* first object it finds, or "forced", a directory without an object.
Lookup(objects, some, down) ==
  LET there == {k \in Keys \ down : objects[k] # None}
  IN  IF "plain" \in there THEN objects["plain"]
      ELSE IF "slash" \in there THEN objects["slash"]
      ELSE IF "folder" \in there THEN objects["folder"]
      ELSE IF some THEN "forced" ELSE None

IsDir(answer) == answer \in Modes \cup {"forced"}

\* Requests for the keys `down` fail, and are taken for "there is no such object".
Misses(down) == missed' = (missed \/ \E k \in down : object[k] # None)

Calls   == <<op, mode, before, stored>>
Answers == <<object, below, stored, raced>>

\* Who looks first: the kernel, which asks ossfs_getattr before each call.  It counts
\* where the call does not look itself (rmdir), or does not heed it (create).
FirstLook(kind) == IF kind \in {"create", "rmdir"} THEN "ask" ELSE "look"

Begin(kind, m) ==
  /\ phase = "idle"
  /\ op' = kind /\ mode' = m /\ phase' = FirstLook(kind) /\ nowpath' = None /\ result' = "none"
  /\ before' = object
  /\ stored' = IF object["plain"] \in Contents THEN object["plain"] ELSE None
  /\ missed' = FALSE /\ raced' = FALSE
  /\ UNCHANGED <<object, below>>

\* The kernel sends a create when there is nothing, and an rmdir of a directory.
Asked(answer) == IF op = "create" THEN answer = None ELSE IsDir(answer)

Ask(down) ==
  /\ phase = "ask"
  /\ IF Asked(Lookup(object, below, down))
     THEN phase' = (IF op = "create" THEN "look" ELSE "empty") /\ UNCHANGED result
     ELSE phase' = "idle" /\ result' = "error"
  /\ Misses(down)
  /\ UNCHANGED <<Calls, Answers, nowpath>>

\* Bug: chmod does not tell a file from a directory.
GoesOnWithFile(answer) ==
  \/ op = "create"
  \/ op = "mkdir" /\ answer = None
  \/ op = "chmod" /\ answer # None

\* ossfs_create goes on whatever it finds (that it may not write to it is a Stop),
\* ossfs_mkdir when there is nothing, ossfs_chmod, here, when there is a directory.
GoesOn(answer) ==
  \/ op = "create"
  \/ op = "mkdir" /\ answer = None
  \/ op = "chmod" /\ IsDir(answer)

FirstPhase == IF op = "chmod" THEN "type" ELSE "put"

Look(down) ==
  /\ phase = "look"
  /\ IF GoesOn(Lookup(object, below, down))
     THEN phase' = FirstPhase /\ UNCHANGED result
     ELSE phase' = "idle" /\ result' = "error"
  /\ Misses(down)
  /\ UNCHANGED <<Calls, Answers, nowpath>>

\* A request fails that the call does not go on without, or the process dies.
Stop ==
  /\ phase # "idle"
  /\ phase' = "idle" /\ result' = "error"
  /\ UNCHANGED <<Calls, Answers, nowpath, missed>>

End == phase' = "idle" /\ result' = "ok"

-----------------------------------------------------------------------------
(* mkdir, create, and chmod of a directory                                  *)

\* Bug: "p/" counts as an object to replace, too.
NowPathNew(there) ==
  IF "slash" \in there THEN {"slash"} ELSE there \cap {"plain"}

\* Bug: next to "p/" nothing but "p_$folder$" is replaced.
NowPathFolder(there) ==
  IF "slash" \in there THEN there \cap {"folder"} ELSE there

\* chk_dir_object_type: the object to delete before "p/" is put.  A directory "p/"
\* counts as one of the old form, because a path of FUSE has no slash at the end.
NowPath(there) ==
  IF "folder" \in there /\ "slash" \in there THEN {"folder"}
  ELSE IF {"slash", "plain"} \cap there # {} THEN {"plain"}
  ELSE there

Type(down) ==
  /\ phase = "type"
  /\ LET there == {k \in Keys \ down : object[k] # None}
     IN  /\ there # {} \/ below
         /\ IF NowPath(there) = {}
            THEN phase' = "put" /\ UNCHANGED nowpath
            ELSE phase' = "remove" /\ nowpath' \in NowPath(there)
  /\ Misses(down)
  /\ UNCHANGED <<Calls, Answers, result>>

\* "At first, remove directory old object", then "make new directory object".
Remove ==
  /\ phase = "remove"
  /\ object' = [object EXCEPT ![nowpath] = None]
  /\ phase' = "put"
  /\ UNCHANGED <<Calls, below, nowpath, result, missed, raced>>

\* Bug: a file is put with the key of a directory.
PutSlash ==
  /\ phase = "put"
  /\ object' = [object EXCEPT !["slash"] = IF op = "create" THEN New ELSE mode]
  /\ End
  /\ UNCHANGED <<Calls, below, nowpath, missed, raced>>

Put ==
  /\ phase = "put"
  /\ object' = IF op = "create" THEN [object EXCEPT !["plain"] = New]
                                ELSE [object EXCEPT !["slash"] = mode]
  /\ End
  /\ UNCHANGED <<Calls, below, nowpath, missed, raced>>

-----------------------------------------------------------------------------
(* rmdir                                                                    *)

CheckEmpty ==
  /\ phase = "empty" /\ ~below
  /\ phase' = "deleteNew"
  /\ UNCHANGED <<Calls, Answers, nowpath, result, missed>>

\* The result of each DELETE overwrites that of the one before.
Deletes(key, ok) ==
  /\ object' \in {[object EXCEPT ![key] = None]} \cup {o \in {object} : ~ok}
  /\ result' = IF ok THEN "ok" ELSE "error"
  /\ missed' = (missed \/ ~ok)
  /\ UNCHANGED <<Calls, below, nowpath, raced>>

DeleteNew(ok) ==
  /\ phase = "deleteNew" /\ phase' = "checkOld"
  /\ Deletes("slash", ok)

\* Bug: only the new form is removed.
CheckNoMore(down) ==
  /\ phase = "checkOld" /\ phase' = "checkFolder"
  /\ Misses(down)
  /\ UNCHANGED <<Calls, Answers, nowpath, result>>

\* "Double check for old version": is "p" there, and a directory?
CheckOld(down) ==
  /\ phase = "checkOld"
  /\ phase' = IF "plain" \notin down /\ object["plain"] \in Modes THEN "deleteOld" ELSE "checkFolder"
  /\ Misses(down \cap {"plain"})
  /\ UNCHANGED <<Calls, Answers, nowpath, result>>

DeleteOld(ok) ==
  /\ phase = "deleteOld" /\ phase' = "checkFolder"
  /\ Deletes("plain", ok)

CheckFolder(down) ==
  /\ phase = "checkFolder"
  /\ phase' = IF "folder" \notin down /\ object["folder"] # None THEN "deleteFolder" ELSE "idle"
  /\ Misses(down \cap {"folder"})
  /\ UNCHANGED <<Calls, Answers, nowpath, result>>

DeleteFolder(ok) ==
  /\ phase = "deleteFolder" /\ phase' = "idle"
  /\ Deletes("folder", ok)

-----------------------------------------------------------------------------
(* Other clients of the bucket                                              *)

Store(content) ==
  /\ object' = [object EXCEPT !["plain"] = content]
  /\ stored' = content
  /\ raced' = (raced \/ phase # FirstLook(op))
  /\ UNCHANGED <<below, op, mode, phase, nowpath, result, before, missed>>

StoreBelow ==
  /\ below' = ~below
  /\ UNCHANGED <<object, Calls, phase, nowpath, result, missed, raced>>

Next ==
  \/ \E m \in Modes : Begin("mkdir", m) \/ Begin("chmod", m)
  \/ Begin("create", None) \/ Begin("rmdir", None)
  \/ \E down \in SUBSET Keys : Ask(down) \/ Look(down) \/ Type(down) \/ CheckOld(down) \/ CheckFolder(down)
  \/ Stop \/ Remove \/ Put \/ CheckEmpty
  \/ \E ok \in BOOLEAN : DeleteNew(ok) \/ DeleteOld(ok) \/ DeleteFolder(ok)
  \/ \E content \in Contents : Store(content)
  \/ StoreBelow

Spec == Init /\ [][Next]_vars

-----------------------------------------------------------------------------
(* Properties                                                               *)

(* A file is not lost to a call that takes p for a directory, or for nothing *)
(* at all.  It may be when a HEAD that failed counted as a missing object    *)
(* (ossfs.cpp:485), or when the file came after the first look: for a create *)
(* that is the kernel's, as ossfs_create puts its empty object over a file   *)
(* that its own look finds (ossfs.cpp:828-839).                              *)
FileKept == stored # None => object["plain"] = stored \/ missed \/ raced

(* A chmod, chown or utimens deletes before it puts, and may stop in between;*)
(* a directory of the new form is there all the time (ossfs.cpp:1421-1433).  *)
NewFormStays == op = "chmod" /\ before["slash"] # None => object["slash"] # None

(* After a chmod that returns 0 a lookup shows the new mode, although it     *)
(* asks for "p" first and the mode was stored at "p/": what would hide it is *)
(* gone (ossfs.cpp:238, 368).  Not when all three objects were there: "p" is *)
(* left then, with the old mode.                                             *)
ChmodTakesEffect ==
  result = "ok" /\ op = "chmod" /\ ~missed /\ ~raced /\ (\E k \in Keys : before[k] = None) =>
    Lookup(object, below, {}) = mode

(* After an rmdir that returns 0 there is no directory object in any of the  *)
(* three forms, unless a DELETE failed that a later one made up for          *)
(* (ossfs.cpp:970-1000).                                                     *)
RmdirRemovesAll ==
  phase = "idle" /\ result = "ok" /\ op = "rmdir" /\ ~missed =>
    \A k \in Keys : object[k] \notin Modes

==============================================================================
