------------------------------ MODULE FdManager ------------------------------
(***************************************************************************)
(* The table of open files: FdManager (fdcache.cpp:1128-1200) with the     *)
(* reference counts and the locks of its FdEntity objects, under the file  *)
(* operations of ossfs.cpp.                                                *)
(*                                                                         *)
(* Two kinds of mutex are taken: fd_manager_lock for the whole of a Open,  *)
(* Close or GetFdEntity, and each entity's fdent_lock, inside of those and *)
(* for every section of work on the file, downloads and uploads included.  *)
(* Taking fd_manager_lock is a step of its own, so that a thread can hold  *)
(* it while it waits for an entity.                                        *)
(*                                                                         *)
(* FdEntity.tla says what the sections of work do to one file; here they   *)
(* only take time.                                                         *)
(***************************************************************************)
EXTENDS Integers, FiniteSets

CONSTANTS
  Threads,          \* the FUSE worker threads
  Handles,          \* the open files the kernel knows
  Paths,
  Entities,         \* the addresses an FdEntity can be allocated at
  Nobody, NoPath, NoEnt, NoHandle,
  MaxRefs,          \* bounds the reference counts
  MaxSections,      \* how often an operation takes fdent_lock, at most
  OpenMayFail,      \* FdEntity::Open may fail (no more descriptors, disk full)
  MayRename         \* a file may be renamed while it is open

ASSUME ManagerAssumption ==
  /\ IsFiniteSet(Threads) /\ IsFiniteSet(Handles)
  /\ Nobody \notin Threads /\ NoPath \notin Paths
  /\ NoEnt \notin Entities /\ NoHandle \notin Handles
  /\ MaxRefs \in Nat /\ MaxSections \in Nat
  /\ OpenMayFail \in BOOLEAN /\ MayRename \in BOOLEAN

VARIABLES
  manager,          \* who holds fd_manager_lock
  fent,             \* the map from paths to entities
  state,            \* of an entity: free (no object there), shut (fd = -1) or open
  refcnt, lock,     \* of an entity
  handle,           \* the path of each handle
  pc, call          \* what each thread does, and for whom

vars == <<manager, fent, state, refcnt, lock, handle, pc, call>>

\* A call: "open" makes a handle; "own" opens the file and closes it again
\* (truncate, chmod without copy); "use" works on a file that is open
\* already, for a handle (read, write, flush) or without (getattr).
Call == [kind : {"none", "open", "own", "use", "release"}, path : Paths \cup {NoPath},
         handle : Handles \cup {NoHandle}, ent : Entities \cup {NoEnt}, left : 0..MaxSections]

NoCall == [kind |-> "none", path |-> NoPath, handle |-> NoHandle, ent |-> NoEnt, left |-> 0]

TypeOK ==
  /\ manager \in Threads \cup {Nobody}
  /\ fent \in [Paths -> Entities \cup {NoEnt}]
  /\ state \in [Entities -> {"free", "shut", "open"}]
  /\ refcnt \in [Entities -> Nat]
  /\ lock \in [Entities -> Threads \cup {Nobody}]
  /\ handle \in [Handles -> Paths \cup {NoPath}]
  /\ pc \in [Threads -> {"idle", "enter", "opening", "work", "locked", "find", "leave", "closing"}]
  /\ call \in [Threads -> Call]

Goto(t, label) == pc' = [pc EXCEPT ![t] = label]

InUse(h) == \E t \in Threads : call[t].handle = h

-----------------------------------------------------------------------------
(* Calls begin                                                              *)

Init ==
  /\ manager = Nobody
  /\ fent = [p \in Paths |-> NoEnt]
  /\ state = [e \in Entities |-> "free"]
  /\ refcnt = [e \in Entities |-> 0]
  /\ lock = [e \in Entities |-> Nobody]
  /\ handle = [h \in Handles |-> NoPath]
  /\ pc = [t \in Threads |-> "idle"]
  /\ call = [t \in Threads |-> NoCall]

Begin(t, label, kind, p, h, n) ==
  /\ pc[t] = "idle"
  /\ Goto(t, label)
  /\ call' = [call EXCEPT ![t] = [kind |-> kind, path |-> p, handle |-> h, ent |-> NoEnt, left |-> n]]
  /\ UNCHANGED <<manager, fent, state, refcnt, lock>>

\* ossfs_open, ossfs_create.  (Only after a rename do references pile up.)
BeginOpen(t, h, p) ==
  /\ handle[h] = NoPath /\ ~InUse(h)
  /\ \A e \in Entities : refcnt[e] < MaxRefs
  /\ Begin(t, "enter", "open", p, h, 0)
  /\ UNCHANGED handle

\* ossfs_truncate and the others that open a file for themselves.
BeginOwn(t, p, n) ==
  /\ Begin(t, "enter", "own", p, NoHandle, n)
  /\ UNCHANGED handle

\* ossfs_read, ossfs_write, ossfs_flush.
BeginUse(t, h, n) ==
  /\ handle[h] # NoPath
  /\ Begin(t, "enter", "use", handle[h], h, n)
  /\ UNCHANGED handle

\* Calls that look whether the file is open: getattr, put_headers.
BeginPeek(t, p, n) ==
  /\ Begin(t, "enter", "use", p, NoHandle, n)
  /\ UNCHANGED handle

\* ossfs_release: the kernel sends it once the calls on the handle are back.
BeginRelease(t, h) ==
  /\ handle[h] # NoPath /\ ~InUse(h)
  /\ Begin(t, "find", "release", handle[h], NoHandle, 0)
  /\ handle' = [handle EXCEPT ![h] = NoPath]

\* A rename moves the handles to the new path; FdManager is not told.  The FUSE
\* library renames when no call on either path is running, and onto a path
\* that no handle has.
Rename(p, q) ==
  /\ MayRename /\ p # q
  /\ \A t \in Threads : call[t].path \notin {p, q}
  /\ \A h \in Handles : handle[h] # q
  /\ handle' = [h \in Handles |-> IF handle[h] = p THEN q ELSE handle[h]]
  /\ UNCHANGED <<manager, fent, state, refcnt, lock, pc, call>>

-----------------------------------------------------------------------------
(* FdManager::Open                                                          *)

EnterOpen(t) ==
  /\ pc[t] = "enter" /\ manager = Nobody
  /\ manager' = t
  /\ Goto(t, "opening")
  /\ UNCHANGED <<fent, state, refcnt, lock, handle, call>>

\* Open returns entity e: an open call turns it into a handle, others work on it.
Opened(t, e) ==
  /\ manager' = Nobody
  /\ IF call[t].kind = "open"
     THEN /\ handle' = [handle EXCEPT ![call[t].handle] = call[t].path]
          /\ call' = [call EXCEPT ![t] = NoCall]
          /\ Goto(t, "idle")
     ELSE /\ call' = [call EXCEPT ![t].ent = e]
          /\ Goto(t, "work")
          /\ UNCHANGED handle

\* ExistOpen finds no entity: the call fails.
OpenMissing(t) ==
  /\ pc[t] = "opening" /\ call[t].kind = "use" /\ fent[call[t].path] = NoEnt
  /\ manager' = Nobody
  /\ Goto(t, "idle") /\ call' = [call EXCEPT ![t] = NoCall]
  /\ UNCHANGED <<fent, state, refcnt, lock, handle>>

\* An entity without a file opens one.  It may fail: then Open returns -errno,
\* which FdManager::Open compares with -1, and hands out the entity nevertheless.
OpenFile(e) ==
  \/ /\ state' = [state EXCEPT ![e] = "open"]
     /\ refcnt' = [refcnt EXCEPT ![e] = 1]
  \/ /\ OpenMayFail
     /\ state' = [state EXCEPT ![e] = "shut"]
     /\ UNCHANGED refcnt

OpenNew(t, e) ==
  /\ pc[t] = "opening" /\ call[t].kind # "use" /\ fent[call[t].path] = NoEnt
  /\ state[e] = "free"
  /\ fent' = [fent EXCEPT ![call[t].path] = e]
  /\ OpenFile(e)
  /\ Opened(t, e)
  /\ UNCHANGED lock

OpenShut(t, e) ==
  /\ pc[t] = "opening" /\ fent[call[t].path] = e
  /\ state[e] = "shut"
  /\ OpenFile(e)
  /\ Opened(t, e)
  /\ UNCHANGED <<fent, lock>>

\* Bug: an open of an open file takes no reference.
OpenNoDup(t, e) ==
  /\ pc[t] = "opening" /\ fent[call[t].path] = e
  /\ state[e] = "open" /\ lock[e] = Nobody
  /\ Opened(t, e)
  /\ UNCHANGED <<fent, state, refcnt, lock>>

\* FdEntity::Dup (and SetMtime before it) waits for fdent_lock.
OpenDup(t, e) ==
  /\ pc[t] = "opening" /\ fent[call[t].path] = e
  /\ state[e] = "open" /\ lock[e] = Nobody
  /\ refcnt' = [refcnt EXCEPT ![e] = @ + 1]
  /\ Opened(t, e)
  /\ UNCHANGED <<fent, state, lock>>

-----------------------------------------------------------------------------
(* Work on the file                                                         *)

\* Bug: a section of work can be tried again for ever.
LockForever(t) ==
  /\ pc[t] = "work" /\ call[t].left > 0 /\ lock[call[t].ent] = Nobody
  /\ lock' = [lock EXCEPT ![call[t].ent] = t]
  /\ Goto(t, "locked")
  /\ UNCHANGED <<manager, fent, state, refcnt, handle, call>>

LockEntity(t) ==
  /\ pc[t] = "work" /\ call[t].left > 0 /\ lock[call[t].ent] = Nobody
  /\ lock' = [lock EXCEPT ![call[t].ent] = t]
  /\ call' = [call EXCEPT ![t].left = @ - 1]
  /\ Goto(t, "locked")
  /\ UNCHANGED <<manager, fent, state, refcnt, handle>>

\* The download, upload, pread or pwrite is done.
UnlockEntity(t) ==
  /\ pc[t] = "locked"
  /\ lock' = [lock EXCEPT ![call[t].ent] = Nobody]
  /\ Goto(t, "work")
  /\ UNCHANGED <<manager, fent, state, refcnt, handle, call>>

Finish(t) ==
  /\ pc[t] = "work" /\ call[t].left = 0
  /\ Goto(t, "leave")
  /\ UNCHANGED <<manager, fent, state, refcnt, lock, handle, call>>

-----------------------------------------------------------------------------
(* FdManager::GetFdEntity and FdManager::Close                              *)

\* The lock is released again before the pointer is used.
FindEntity(t) ==
  /\ pc[t] = "find" /\ manager = Nobody
  /\ LET e == fent[call[t].path]
     IN  IF e = NoEnt
         THEN Goto(t, "idle") /\ call' = [call EXCEPT ![t] = NoCall]
         ELSE Goto(t, "leave") /\ call' = [call EXCEPT ![t].ent = e]
  /\ UNCHANGED <<manager, fent, state, refcnt, lock, handle>>

EnterClose(t) ==
  /\ pc[t] = "leave" /\ manager = Nobody
  /\ manager' = t
  /\ Goto(t, "closing")
  /\ UNCHANGED <<fent, state, refcnt, lock, handle, call>>

Closed(t) ==
  /\ manager' = Nobody
  /\ Goto(t, "idle") /\ call' = [call EXCEPT ![t] = NoCall]
  /\ UNCHANGED <<lock, handle>>

Deleted(e) ==
  /\ state' = [state EXCEPT ![e] = "free"]
  /\ fent' = [p \in Paths |-> IF fent[p] = e THEN NoEnt ELSE fent[p]]

\* The map is searched for the pointer; it may be gone.
CloseMissing(t) ==
  /\ pc[t] = "closing" /\ \A p \in Paths : fent[p] # call[t].ent
  /\ Closed(t)
  /\ UNCHANGED <<fent, state, refcnt>>

CloseShut(t) ==
  /\ pc[t] = "closing" /\ \E p \in Paths : fent[p] = call[t].ent
  /\ state[call[t].ent] = "shut"
  /\ Deleted(call[t].ent)
  /\ Closed(t)
  /\ UNCHANGED refcnt

\* Bug: the file is closed whoever else has it open.
CloseAtOnce(t) ==
  /\ pc[t] = "closing" /\ \E p \in Paths : fent[p] = call[t].ent
  /\ state[call[t].ent] = "open" /\ lock[call[t].ent] = Nobody
  /\ refcnt' = [refcnt EXCEPT ![call[t].ent] = 0]
  /\ Deleted(call[t].ent)
  /\ Closed(t)

\* Bug: the entity of a closed file stays in the map.
CloseKeepsEntry(t) ==
  LET e == call[t].ent
  IN  /\ pc[t] = "closing" /\ \E p \in Paths : fent[p] = e
      /\ state[e] = "open" /\ lock[e] = Nobody
      /\ refcnt' = [refcnt EXCEPT ![e] = @ - 1]
      /\ state' = [state EXCEPT ![e] = IF refcnt[e] = 1 THEN "free" ELSE "open"]
      /\ Closed(t)
      /\ UNCHANGED fent

\* Bug: a close gives back two references, its own and that of the handle.
CloseTwice(t) ==
  LET e == call[t].ent
  IN  /\ pc[t] = "closing" /\ \E p \in Paths : fent[p] = e
      /\ state[e] = "open" /\ lock[e] = Nobody
      /\ refcnt' = [refcnt EXCEPT ![e] = @ - 2]
      /\ IF refcnt[e] <= 1 THEN Deleted(e) ELSE UNCHANGED <<state, fent>>
      /\ Closed(t)

\* FdEntity::Close waits for fdent_lock; the last reference deletes the entity.
CloseOpen(t) ==
  LET e == call[t].ent
  IN  /\ pc[t] = "closing" /\ \E p \in Paths : fent[p] = e
      /\ state[e] = "open" /\ lock[e] = Nobody
      /\ refcnt' = [refcnt EXCEPT ![e] = IF @ > 0 THEN @ - 1 ELSE 0]
      /\ IF refcnt[e] <= 1 THEN Deleted(e) ELSE UNCHANGED <<state, fent>>
      /\ Closed(t)

-----------------------------------------------------------------------------

BeginCall(t) ==
  \/ \E h \in Handles : \/ \E p \in Paths : BeginOpen(t, h, p)
                        \/ \E n \in 0..MaxSections : BeginUse(t, h, n)
                        \/ BeginRelease(t, h)
  \/ \E p \in Paths, n \in 0..MaxSections : BeginOwn(t, p, n) \/ BeginPeek(t, p, n)

Step(t) ==
  \/ EnterOpen(t)
  \/ OpenMissing(t)
  \/ \E e \in Entities : OpenNew(t, e) \/ OpenShut(t, e) \/ OpenDup(t, e)
  \/ LockEntity(t)
  \/ UnlockEntity(t)
  \/ Finish(t)
  \/ FindEntity(t)
  \/ EnterClose(t)
  \/ CloseMissing(t)
  \/ CloseShut(t)
  \/ CloseOpen(t)

Next ==
  \/ \E t \in Threads : BeginCall(t) \/ Step(t)
  \/ \E p, q \in Paths : Rename(p, q)

\* A thread that can go on does: transfers have timeouts, so that a section of
\* work ends.  Nothing is said of who gets a mutex that several threads wait for,
\* and nobody has to begin a call.
Spec == Init /\ [][Next]_vars /\ \A t \in Threads : WF_vars(Step(t))

-----------------------------------------------------------------------------
(* Properties                                                               *)

\* Who has the file at p open: its handles, the calls that work on it, and the
\* releases of its handles that are not done.
HandlesOf(p) == {h \in Handles : handle[h] = p}

Working(t) == \/ pc[t] \in {"work", "locked", "leave", "closing"}
              \/ call[t].kind = "release"

CallsOf(p) == {t \in Threads : call[t].path = p /\ Working(t)}

Holders(p) == Cardinality(HandlesOf(p)) + Cardinality(CallsOf(p))

(* The reference count of a file is the number of those that hold it, and a  *)
(* file that nobody holds has no entity: nothing is leaked and nothing is    *)
(* closed early (fdcache.cpp:538-571, 678-688).                              *)
RefCountExact ==
  \A p \in Paths : Holders(p) = IF fent[p] = NoEnt THEN 0 ELSE refcnt[fent[p]]

(* The pointer a call holds, also one that release got from GetFdEntity      *)
(* without a reference, is the entity of its path and is not deleted before  *)
(* the call lets go of it (fdcache.cpp:1183-1195, ossfs.cpp:2148-2156).      *)
NoUseAfterFree ==
  \A t \in Threads : call[t].ent # NoEnt =>
    state[call[t].ent] # "free" /\ fent[call[t].path] = call[t].ent

(* Every handle has an open entity at its path: no read, write or flush on a *)
(* handle fails because ExistOpen finds nothing (ossfs.cpp:2020, 2054), and  *)
(* nothing that was written to it is lost with an entity closed too soon.    *)
HandleHasEntity ==
  \A h \in Handles : handle[h] # NoPath =>
    fent[handle[h]] # NoEnt /\ state[fent[handle[h]]] = "open"

(* The table and the entities agree: each live entity is in the map under    *)
(* one path, and a free one under none.                                      *)
MapOwnsEntities ==
  \A e \in Entities : Cardinality({p \in Paths : fent[p] = e}) = IF state[e] = "free" THEN 0 ELSE 1

(* Whoever takes fd_manager_lock gives it back, although Open and Close wait *)
(* for an fdent_lock with it that is held for whole downloads: other threads *)
(* take the lock of the file a bounded number of times before they need      *)
(* fd_manager_lock themselves (fdcache.cpp:1153, 1187).                      *)
ManagerIsReleased == \A t \in Threads : manager = t ~> manager # t

==============================================================================
