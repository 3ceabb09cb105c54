--------------------------- MODULE FdManagerProofs ---------------------------
(***************************************************************************)
(* For any number of threads, handles, paths and entities: as long as no   *)
(* open fails and no open file is renamed, the reference counts are exact, *)
(* no call works on a deleted entity and every handle has an open one.     *)
(*                                                                         *)
(* The counts are what carries the argument: an entity is deleted when its *)
(* count says that the one closing it is the last holder, so that nobody   *)
(* else's pointer dangles; and that the count is exact rests on each call  *)
(* holding the entity of its own path.                                     *)
(*                                                                         *)
(* Opens that fail and renames break the counts, but not the table: that   *)
(* the map and the live entities agree needs no assumption (TableInv).     *)
(***************************************************************************)
EXTENDS FdManager, FiniteSetTheorems, TLAPS

Holds(t, p) == call[t].path = p /\ Working(t)

\* An entity in the map is open, and under one path only.
MapOK ==
  /\ \A p \in Paths : fent[p] # NoEnt => state[fent[p]] = "open"
  /\ \A p, q \in Paths : fent[p] # NoEnt /\ fent[p] = fent[q] => p = q

\* What a thread's call is at each place; the handle an open call will fill is
\* free, and no other open call has it.
CallOK ==
  \A t \in Threads :
    /\ pc[t] = "idle" => call[t] = NoCall
    /\ pc[t] # "idle" => call[t].path \in Paths
    /\ pc[t] \in {"enter", "opening"} => call[t].kind \in {"open", "own", "use"} /\ call[t].ent = NoEnt
    /\ pc[t] = "find" => call[t].kind = "release" /\ call[t].ent = NoEnt
    /\ pc[t] \in {"work", "locked", "leave", "closing"} =>
         call[t].kind # "open" /\ call[t].ent # NoEnt /\ call[t].ent = fent[call[t].path]
    /\ call[t].kind = "release" => pc[t] \in {"find", "leave", "closing"}
    /\ call[t].kind = "open" =>
         /\ call[t].handle \in Handles /\ handle[call[t].handle] = NoPath
         /\ \A u \in Threads : u # t => call[u].handle # call[t].handle

IInv == TypeOK /\ MapOK /\ CallOK /\ RefCountExact

-----------------------------------------------------------------------------
(* Counting                                                                 *)

\* How a set's size changes with one member.
LEMMA OneMember ==
  ASSUME NEW S, NEW T, NEW x, IsFiniteSet(S), S \ {x} = T \ {x}
  PROVE  /\ Cardinality(S) \in Nat /\ Cardinality(T) \in Nat
         /\ (x \in S <=> x \in T) => T = S
         /\ x \in S /\ x \notin T => Cardinality(T) = Cardinality(S) - 1
         /\ x \notin S /\ x \in T => Cardinality(T) = Cardinality(S) + 1
<1>1. IsFiniteSet(S \ {x}) /\ IsFiniteSet(S \cup {x})
  BY FS_RemoveElement, FS_AddElement
<1>2. IsFiniteSet(T)
  <2>1. CASE x \in T
    <3>1. T = (S \ {x}) \cup {x}
      BY <2>1
    <3> QED
      BY <1>1, <3>1, FS_AddElement
  <2>2. CASE x \notin T
    <3>1. T = S \ {x}
      BY <2>2
    <3> QED
      BY <1>1, <3>1
  <2> QED
    BY <2>1, <2>2
<1>3. Cardinality(S) \in Nat /\ Cardinality(T) \in Nat
  BY <1>2, FS_CardinalityType
<1>4. ASSUME x \in S, x \notin T PROVE Cardinality(T) = Cardinality(S) - 1
  <2>1. T = S \ {x}
    BY <1>4
  <2> QED
    BY <1>4, <2>1, FS_RemoveElement
<1>5. ASSUME x \notin S, x \in T PROVE Cardinality(T) = Cardinality(S) + 1
  <2>1. T = S \cup {x}
    BY <1>5
  <2> QED
    BY <1>5, <2>1, FS_AddElement
<1> QED
  BY <1>3, <1>4, <1>5

\* A step of thread t changes only t's part in the calls of a path.
LEMMA CallsCount ==
  ASSUME NEW t \in Threads, NEW p \in Paths,
         \A u \in Threads \ {t} : pc'[u] = pc[u] /\ call'[u] = call[u]
  PROVE  /\ Cardinality(CallsOf(p)) \in Nat
         /\ Cardinality(CallsOf(p)') \in Nat
         /\ (Holds(t, p) <=> Holds(t, p)') => Cardinality(CallsOf(p)') = Cardinality(CallsOf(p))
         /\ Holds(t, p) /\ ~Holds(t, p)' => Cardinality(CallsOf(p)') = Cardinality(CallsOf(p)) - 1
         /\ ~Holds(t, p) /\ Holds(t, p)' => Cardinality(CallsOf(p)') = Cardinality(CallsOf(p)) + 1
<1> DEFINE S == CallsOf(p)
           T == CallsOf(p)'
<1>1. IsFiniteSet(S)
  BY ManagerAssumption, FS_Subset DEF CallsOf
<1>2. S \ {t} = T \ {t}
  BY DEF CallsOf, Working
<1>3. (t \in S <=> Holds(t, p)) /\ (t \in T <=> Holds(t, p)')
  BY DEF CallsOf, Holds
<1> HIDE DEF S, T
<1>4. /\ Cardinality(S) \in Nat /\ Cardinality(T) \in Nat
      /\ (t \in S <=> t \in T) => T = S
      /\ t \in S /\ t \notin T => Cardinality(T) = Cardinality(S) - 1
      /\ t \notin S /\ t \in T => Cardinality(T) = Cardinality(S) + 1
  BY <1>1, <1>2, OneMember
<1> QED
  BY <1>3, <1>4 DEF S, T

\* A step that gives handle h the path x changes only h's part in the handles.
LEMMA HandlesCount ==
  ASSUME NEW h \in Handles, NEW x, NEW p \in Paths,
         handle \in [Handles -> Paths \cup {NoPath}],
         handle' = [handle EXCEPT ![h] = x]
  PROVE  /\ Cardinality(HandlesOf(p)) \in Nat
         /\ Cardinality(HandlesOf(p)') \in Nat
         /\ (handle[h] = p <=> x = p) => Cardinality(HandlesOf(p)') = Cardinality(HandlesOf(p))
         /\ handle[h] = p /\ x # p => Cardinality(HandlesOf(p)') = Cardinality(HandlesOf(p)) - 1
         /\ handle[h] # p /\ x = p => Cardinality(HandlesOf(p)') = Cardinality(HandlesOf(p)) + 1
<1> DEFINE S == HandlesOf(p)
           T == HandlesOf(p)'
<1>1. IsFiniteSet(S)
  BY ManagerAssumption, FS_Subset DEF HandlesOf
<1>2. S \ {h} = T \ {h}
  BY DEF HandlesOf
<1>3. (h \in S <=> handle[h] = p) /\ (h \in T <=> x = p)
  BY DEF HandlesOf
<1> HIDE DEF S, T
<1>4. /\ Cardinality(S) \in Nat /\ Cardinality(T) \in Nat
      /\ (h \in S <=> h \in T) => T = S
      /\ h \in S /\ h \notin T => Cardinality(T) = Cardinality(S) - 1
      /\ h \notin S /\ h \in T => Cardinality(T) = Cardinality(S) + 1
  BY <1>1, <1>2, OneMember
<1> QED
  BY <1>3, <1>4 DEF S, T

LEMMA HandlesSame ==
  ASSUME NEW p \in Paths, UNCHANGED handle
  PROVE  Cardinality(HandlesOf(p)) \in Nat /\ Cardinality(HandlesOf(p)') = Cardinality(HandlesOf(p))
<1>1. IsFiniteSet(HandlesOf(p))
  BY ManagerAssumption, FS_Subset DEF HandlesOf
<1> QED
  BY <1>1, FS_CardinalityType DEF HandlesOf

\* Who holds a file makes its count positive.
LEMMA HolderCounts ==
  ASSUME IInv, NEW p \in Paths, NEW t \in Threads, Holds(t, p)
  PROVE  fent[p] # NoEnt /\ refcnt[fent[p]] > 0
<1>1. IsFiniteSet(CallsOf(p)) /\ IsFiniteSet(HandlesOf(p))
  BY ManagerAssumption, FS_Subset DEF CallsOf, HandlesOf
<1>2. t \in CallsOf(p)
  BY DEF Holds, CallsOf
<1>3. Cardinality(CallsOf(p)) \in Nat /\ Cardinality(CallsOf(p)) # 0 /\ Cardinality(HandlesOf(p)) \in Nat
  BY <1>1, <1>2, FS_CardinalityType, FS_EmptySet
<1> QED
  BY <1>3 DEF IInv, RefCountExact, Holders

\* And so does a handle.
LEMMA HandleCounts ==
  ASSUME IInv, NEW h \in Handles, handle[h] # NoPath
  PROVE  fent[handle[h]] # NoEnt /\ refcnt[fent[handle[h]]] > 0
<1> DEFINE p == handle[h]
<1>1. p \in Paths
  BY DEF IInv, TypeOK
<1> HIDE DEF p
<1>2. IsFiniteSet(CallsOf(p)) /\ IsFiniteSet(HandlesOf(p))
  BY ManagerAssumption, FS_Subset DEF CallsOf, HandlesOf
<1>3. h \in HandlesOf(p)
  BY DEF HandlesOf, p
<1>4. Cardinality(CallsOf(p)) \in Nat /\ Cardinality(HandlesOf(p)) # 0 /\ Cardinality(HandlesOf(p)) \in Nat
  BY <1>2, <1>3, FS_CardinalityType, FS_EmptySet
<1> QED
  BY <1>1, <1>4 DEF IInv, RefCountExact, Holders, p

\* With two calls that hold a file its count is at least 2.
LEMMA TwoHoldersCount ==
  ASSUME IInv, NEW p \in Paths, NEW t \in Threads, NEW u \in Threads, t # u,
         Holds(t, p), Holds(u, p)
  PROVE  refcnt[fent[p]] > 1
<1> DEFINE S == CallsOf(p)
<1>1. IsFiniteSet(S) /\ IsFiniteSet(HandlesOf(p)) /\ IsFiniteSet(S \ {t})
  BY ManagerAssumption, FS_Subset, FS_RemoveElement DEF CallsOf, HandlesOf
<1>2. t \in S /\ u \in S \ {t}
  BY DEF Holds, CallsOf
<1>3. Cardinality(S \ {t}) = Cardinality(S) - 1
  BY <1>1, <1>2, FS_RemoveElement
<1>4. Cardinality(S \ {t}) # 0
  BY <1>1, <1>2, FS_EmptySet
<1>5. Cardinality(S) \in Nat /\ Cardinality(S \ {t}) \in Nat /\ Cardinality(HandlesOf(p)) \in Nat
  BY <1>1, FS_CardinalityType
<1>6. Holders(p) = Cardinality(HandlesOf(p)) + Cardinality(S)
  BY DEF Holders
<1> HIDE DEF S
<1>7. Holders(p) > 1
  BY <1>3, <1>4, <1>5, <1>6
<1>8. fent[p] # NoEnt
  BY HolderCounts
<1> QED
  BY <1>7, <1>8 DEF IInv, RefCountExact

\* A handle and a call do as well.
LEMMA HandleAndCallCount ==
  ASSUME IInv, NEW p \in Paths, NEW h \in Handles, handle[h] = p,
         NEW t \in Threads, Holds(t, p)
  PROVE  refcnt[fent[p]] > 1
<1>1. IsFiniteSet(CallsOf(p)) /\ IsFiniteSet(HandlesOf(p))
  BY ManagerAssumption, FS_Subset DEF CallsOf, HandlesOf
<1>2. t \in CallsOf(p) /\ h \in HandlesOf(p)
  BY DEF Holds, CallsOf, HandlesOf
<1>3. /\ Cardinality(CallsOf(p)) \in Nat /\ Cardinality(CallsOf(p)) # 0
      /\ Cardinality(HandlesOf(p)) \in Nat /\ Cardinality(HandlesOf(p)) # 0
  BY <1>1, <1>2, FS_CardinalityType, FS_EmptySet
<1>4. fent[p] # NoEnt
  BY HolderCounts
<1> QED
  BY <1>3, <1>4 DEF IInv, RefCountExact, Holders

\* A step that changes neither who holds what nor a count.
LEMMA QuietStep ==
  ASSUME IInv, NEW t \in Threads,
         \A u \in Threads \ {t} : pc'[u] = pc[u] /\ call'[u] = call[u],
         \A p \in Paths : Holds(t, p) <=> Holds(t, p)',
         UNCHANGED <<fent, refcnt, handle>>
  PROVE  RefCountExact'
<1> SUFFICES ASSUME NEW p \in Paths
             PROVE  Holders(p)' = IF fent[p] = NoEnt THEN 0 ELSE refcnt[fent[p]]
  BY DEF RefCountExact
<1>1. Cardinality(CallsOf(p)') = Cardinality(CallsOf(p))
  BY CallsCount
<1>2. Cardinality(HandlesOf(p)') = Cardinality(HandlesOf(p))
  BY HandlesSame
<1> QED
  BY <1>1, <1>2 DEF IInv, RefCountExact, Holders

-----------------------------------------------------------------------------
(* The steps                                                                *)

LEMMA BeginStep ==
  ASSUME IInv, NEW t \in Threads, BeginCall(t)
  PROVE  IInv'
<1>1. ASSUME NEW h \in Handles, NEW p \in Paths, BeginOpen(t, h, p)
      PROVE  IInv'
  <2> USE <1>1 DEF BeginOpen, Begin, Goto
  <2>1. TypeOK'
    BY ManagerAssumption DEF IInv, TypeOK, Call
  <2>2. MapOK'
    BY DEF IInv, MapOK
  <2>3. CallOK'
    BY ManagerAssumption DEF IInv, TypeOK, CallOK, NoCall, InUse
  <2>4. \A q \in Paths : Holds(t, q) <=> Holds(t, q)'
    BY ManagerAssumption DEF IInv, TypeOK, CallOK, NoCall, Holds, Working
  <2>5. RefCountExact'
    BY <2>4, QuietStep DEF IInv, TypeOK
  <2> QED
    BY <2>1, <2>2, <2>3, <2>5 DEF IInv
<1>2. ASSUME NEW h \in Handles \cup {NoHandle}, NEW p \in Paths, NEW n \in 0..MaxSections,
             NEW kind \in {"own", "use"},
             h # NoHandle => handle[h] # NoPath,
             Begin(t, "enter", kind, p, h, n), UNCHANGED handle
      PROVE  IInv'
  <2> USE <1>2 DEF Begin, Goto
  <2>1. TypeOK'
    BY ManagerAssumption DEF IInv, TypeOK, Call
  <2>2. MapOK'
    BY DEF IInv, MapOK
  <2>3. CallOK'
    BY ManagerAssumption DEF IInv, TypeOK, CallOK, NoCall
  <2>4. \A q \in Paths : Holds(t, q) <=> Holds(t, q)'
    BY ManagerAssumption DEF IInv, TypeOK, CallOK, NoCall, Holds, Working
  <2>5. RefCountExact'
    BY <2>4, QuietStep DEF IInv, TypeOK
  <2> QED
    BY <2>1, <2>2, <2>3, <2>5 DEF IInv
<1>3. ASSUME NEW h \in Handles, BeginRelease(t, h)
      PROVE  IInv'
  <2> DEFINE p == handle[h]
  <2> USE <1>3 DEF BeginRelease, Begin, Goto
  <2>0. p \in Paths
    BY DEF IInv, TypeOK
  <2>1. TypeOK'
    BY <2>0, ManagerAssumption DEF IInv, TypeOK, Call
  <2>2. MapOK'
    BY DEF IInv, MapOK
  <2>3. CallOK'
    BY <2>0, ManagerAssumption DEF IInv, TypeOK, CallOK, NoCall
  <2>4. \A q \in Paths : ~Holds(t, q) /\ (Holds(t, q)' <=> q = p)
    BY ManagerAssumption DEF IInv, TypeOK, CallOK, NoCall, Holds, Working
  <2>5. RefCountExact'
    <3> SUFFICES ASSUME NEW q \in Paths
                 PROVE  Holders(q)' = Holders(q)
      BY DEF IInv, RefCountExact
    <3>1. \A u \in Threads \ {t} : pc'[u] = pc[u] /\ call'[u] = call[u]
      BY DEF IInv, TypeOK
    <3>2. /\ Cardinality(CallsOf(q)) \in Nat
          /\ Cardinality(CallsOf(q)') = Cardinality(CallsOf(q)) + IF q = p THEN 1 ELSE 0
      <4> HIDE DEF p
      <4> QED
        BY <2>4, <3>1, CallsCount
    <3>3. /\ Cardinality(HandlesOf(q)) \in Nat
          /\ Cardinality(HandlesOf(q)') = Cardinality(HandlesOf(q)) - IF q = p THEN 1 ELSE 0
      <4>1. handle \in [Handles -> Paths \cup {NoPath}] /\ handle' = [handle EXCEPT ![h] = NoPath]
        BY DEF IInv, TypeOK
      <4>0. handle[h] = p
        OBVIOUS
      <4> HIDE DEF p
      <4>2. /\ Cardinality(HandlesOf(q)) \in Nat
            /\ (p = q <=> NoPath = q) => Cardinality(HandlesOf(q)') = Cardinality(HandlesOf(q))
            /\ p = q /\ NoPath # q => Cardinality(HandlesOf(q)') = Cardinality(HandlesOf(q)) - 1
        BY <4>0, <4>1, HandlesCount
      <4>3. NoPath # q
        BY ManagerAssumption
      <4> QED
        BY <4>2, <4>3
    <3> QED
      BY <3>2, <3>3 DEF Holders
  <2> QED
    BY <2>1, <2>2, <2>3, <2>5 DEF IInv
<1>4. ASSUME NEW h \in Handles, NEW n \in 0..MaxSections, BeginUse(t, h, n)
      PROVE  IInv'
  <2>1. handle[h] \in Paths
    BY <1>4 DEF BeginUse, IInv, TypeOK
  <2> QED
    BY <1>2, <1>4, <2>1 DEF BeginUse
<1>5. ASSUME NEW p \in Paths, NEW n \in 0..MaxSections, BeginOwn(t, p, n) \/ BeginPeek(t, p, n)
      PROVE  IInv'
  BY <1>2, <1>5 DEF BeginOwn, BeginPeek
<1> QED
  BY <1>1, <1>3, <1>4, <1>5 DEF BeginCall

\* Steps that only move a thread on, its call or a lock: who holds what stays.
LEMMA MoveStep ==
  ASSUME IInv, NEW t \in Threads,
         \/ EnterOpen(t) \/ OpenMissing(t) \/ LockEntity(t) \/ UnlockEntity(t)
         \/ Finish(t) \/ FindEntity(t) \/ EnterClose(t)
  PROVE  IInv'
<1> USE DEF Goto
<1>0. /\ \A u \in Threads \ {t} : pc'[u] = pc[u] /\ call'[u] = call[u]
      /\ UNCHANGED <<fent, refcnt, state, handle>>
  BY DEF IInv, TypeOK, EnterOpen, OpenMissing, LockEntity, UnlockEntity, Finish, FindEntity, EnterClose
<1>1. MapOK'
  BY <1>0 DEF IInv, MapOK
<1>2. ASSUME FindEntity(t)
      PROVE  fent[call[t].path] # NoEnt /\ call[t].path \in Paths /\ fent[call[t].path] \in Entities
  <2>1. call[t].path \in Paths /\ Holds(t, call[t].path)
    BY <1>2 DEF FindEntity, IInv, CallOK, Holds, Working
  <2>2. fent[call[t].path] # NoEnt
    BY <2>1, HolderCounts
  <2> QED
    BY <2>1, <2>2 DEF IInv, TypeOK
<1>3. ASSUME LockEntity(t)
      PROVE  call[t].ent \in Entities /\ call[t].left - 1 \in 0..MaxSections
  BY <1>3, ManagerAssumption DEF LockEntity, IInv, TypeOK, Call, CallOK
<1>4. TypeOK'
  <2>1. CASE EnterOpen(t)
    BY <2>1 DEF IInv, TypeOK, EnterOpen
  <2>2. CASE OpenMissing(t)
    BY <2>2, ManagerAssumption DEF IInv, TypeOK, OpenMissing, NoCall, Call
  <2>3. CASE LockEntity(t)
    <3>1. call[t] \in Call
      BY DEF IInv, TypeOK
    <3>2. [call[t] EXCEPT !.left = call[t].left - 1] \in Call
      BY <1>3, <2>3, <3>1 DEF Call
    <3>3. call' = [call EXCEPT ![t] = [call[t] EXCEPT !.left = call[t].left - 1]]
      BY <2>3 DEF LockEntity
    <3> QED
      BY <1>3, <2>3, <3>2, <3>3 DEF IInv, TypeOK, LockEntity
  <2>4. CASE UnlockEntity(t)
    BY <2>4 DEF IInv, TypeOK, UnlockEntity
  <2>5. CASE Finish(t)
    BY <2>5 DEF IInv, TypeOK, Finish
  <2>6. CASE FindEntity(t)
    <3>1. call[t] \in Call
      BY DEF IInv, TypeOK
    <3>2. [call[t] EXCEPT !.ent = fent[call[t].path]] \in Call
      BY <1>2, <2>6, <3>1 DEF Call
    <3>3. call' = [call EXCEPT ![t] = [call[t] EXCEPT !.ent = fent[call[t].path]]]
      BY <1>2, <2>6 DEF FindEntity
    <3> QED
      BY <2>6, <3>2, <3>3 DEF IInv, TypeOK, FindEntity
  <2>7. CASE EnterClose(t)
    BY <2>7 DEF IInv, TypeOK, EnterClose
  <2> QED
    BY <2>1, <2>2, <2>3, <2>4, <2>5, <2>6, <2>7
<1>5. CallOK'
  <2>1. CASE EnterOpen(t)
    BY <2>1 DEF IInv, TypeOK, CallOK, EnterOpen
  <2>2. CASE OpenMissing(t)
    BY <2>2, ManagerAssumption DEF IInv, TypeOK, CallOK, OpenMissing, NoCall
  <2>3. CASE LockEntity(t)
    BY <2>3 DEF IInv, TypeOK, Call, CallOK, LockEntity
  <2>4. CASE UnlockEntity(t)
    BY <2>4 DEF IInv, TypeOK, CallOK, UnlockEntity
  <2>5. CASE Finish(t)
    BY <2>5 DEF IInv, TypeOK, CallOK, Finish
  <2>6. CASE FindEntity(t)
    BY <2>6, <1>2 DEF IInv, TypeOK, Call, CallOK, FindEntity
  <2>7. CASE EnterClose(t)
    BY <2>7 DEF IInv, TypeOK, CallOK, EnterClose
  <2> QED
    BY <2>1, <2>2, <2>3, <2>4, <2>5, <2>6, <2>7
<1>6. \A p \in Paths : Holds(t, p) <=> Holds(t, p)'
  <2>1. CASE EnterOpen(t)
    BY <2>1 DEF IInv, TypeOK, CallOK, EnterOpen, Holds, Working
  <2>2. CASE OpenMissing(t)
    BY <2>2, ManagerAssumption DEF IInv, TypeOK, CallOK, OpenMissing, NoCall, Holds, Working
  <2>3. CASE LockEntity(t)
    BY <2>3 DEF IInv, TypeOK, Call, CallOK, LockEntity, Holds, Working
  <2>4. CASE UnlockEntity(t)
    BY <2>4 DEF IInv, TypeOK, CallOK, UnlockEntity, Holds, Working
  <2>5. CASE Finish(t)
    BY <2>5 DEF IInv, TypeOK, CallOK, Finish, Holds, Working
  <2>6. CASE FindEntity(t)
    BY <2>6, <1>2 DEF IInv, TypeOK, Call, CallOK, FindEntity, Holds, Working
  <2>7. CASE EnterClose(t)
    BY <2>7 DEF IInv, TypeOK, CallOK, EnterClose, Holds, Working
  <2> QED
    BY <2>1, <2>2, <2>3, <2>4, <2>5, <2>6, <2>7
<1>7. RefCountExact'
  BY <1>0, <1>6, QuietStep
<1> QED
  BY <1>1, <1>4, <1>5, <1>7 DEF IInv

\* An open gives its path one holder more, a handle or a call.
LEMMA OpenedCounts ==
  ASSUME IInv, NEW t \in Threads, pc[t] = "opening", NEW e \in Entities, Opened(t, e),
         NEW p \in Paths
  PROVE  /\ Holders(p) \in Nat
         /\ Holders(p)' = Holders(p) + IF p = call[t].path THEN 1 ELSE 0
<1> DEFINE q == call[t].path
<1> USE DEF Opened, Goto
<1>1. \A u \in Threads \ {t} : pc'[u] = pc[u] /\ call'[u] = call[u]
  BY DEF IInv, TypeOK
<1>2. q \in Paths /\ ~Holds(t, p)
  BY DEF IInv, CallOK, Holds, Working
<1>3. CASE call[t].kind = "open"
  <2>1. call[t].handle \in Handles /\ handle[call[t].handle] = NoPath
    BY <1>3 DEF IInv, CallOK
  <2>2. /\ Cardinality(HandlesOf(p)) \in Nat
        /\ (NoPath = p <=> q = p) => Cardinality(HandlesOf(p)') = Cardinality(HandlesOf(p))
        /\ NoPath # p /\ q = p => Cardinality(HandlesOf(p)') = Cardinality(HandlesOf(p)) + 1
    BY <1>3, <2>1, HandlesCount DEF IInv, TypeOK
  <2>3. ~Holds(t, p)'
    BY <1>3, ManagerAssumption DEF IInv, TypeOK, Holds, NoCall, Working
  <2>4. /\ Cardinality(CallsOf(p)) \in Nat
        /\ Cardinality(CallsOf(p)') = Cardinality(CallsOf(p))
    BY <1>1, <1>2, <2>3, CallsCount
  <2>5. NoPath # p
    BY ManagerAssumption
  <2> HIDE DEF q
  <2> QED
    BY <2>2, <2>4, <2>5 DEF Holders, q
<1>4. CASE call[t].kind # "open"
  <2>1. Holds(t, p)' <=> p = q
    BY <1>4 DEF IInv, TypeOK, Call, CallOK, Holds, Working
  <2>2. /\ Cardinality(CallsOf(p)) \in Nat
        /\ Cardinality(CallsOf(p)') = Cardinality(CallsOf(p)) + IF p = q THEN 1 ELSE 0
    <3> HIDE DEF q
    <3> QED
      BY <1>1, <1>2, <2>1, CallsCount
  <2>3. /\ Cardinality(HandlesOf(p)) \in Nat
        /\ Cardinality(HandlesOf(p)') = Cardinality(HandlesOf(p))
    BY <1>4, HandlesSame
  <2> QED
    BY <2>2, <2>3 DEF Holders
<1> QED
  BY <1>3, <1>4

LEMMA OpenedTypes ==
  ASSUME IInv, NEW t \in Threads, pc[t] = "opening", NEW e \in Entities, Opened(t, e)
  PROVE  /\ manager' \in Threads \cup {Nobody}
         /\ handle' \in [Handles -> Paths \cup {NoPath}]
         /\ pc' \in [Threads -> {"idle", "enter", "opening", "work", "locked", "find", "leave", "closing"}]
         /\ call' \in [Threads -> Call]
<1> USE DEF Opened, Goto
<1>1. manager' = Nobody /\ call[t].path \in Paths /\ call[t] \in Call
  BY DEF IInv, TypeOK, CallOK
<1>2. CASE call[t].kind = "open"
  <2>1. NoCall \in Call
    BY ManagerAssumption DEF NoCall, Call
  <2>2. call' = [call EXCEPT ![t] = NoCall] /\ pc' = [pc EXCEPT ![t] = "idle"]
        /\ handle' = [handle EXCEPT ![call[t].handle] = call[t].path]
    BY <1>2
  <2> QED
    BY <1>1, <2>1, <2>2 DEF IInv, TypeOK
<1>3. CASE call[t].kind # "open"
  <2>1. [call[t] EXCEPT !.ent = e] \in Call
    BY <1>1 DEF Call
  <2>2. call' = [call EXCEPT ![t] = [call[t] EXCEPT !.ent = e]]
        /\ pc' = [pc EXCEPT ![t] = "work"] /\ UNCHANGED handle
    BY <1>3
  <2> QED
    BY <1>1, <2>1, <2>2 DEF IInv, TypeOK
<1> QED
  BY <1>2, <1>3

\* What an open leaves of the calls, once the map has its entity.
LEMMA OpenedCalls ==
  ASSUME IInv, NEW t \in Threads, pc[t] = "opening", NEW e \in Entities, Opened(t, e),
         fent'[call[t].path] = e,
         \A p \in Paths : fent[p] # NoEnt => fent'[p] = fent[p]
  PROVE  CallOK'
<1> USE DEF Opened, Goto
<1>1. CASE call[t].kind = "open"
  BY <1>1, ManagerAssumption DEF IInv, TypeOK, CallOK, NoCall
<1>2. CASE call[t].kind # "open"
  <2>1. /\ UNCHANGED handle /\ call[t].kind \in {"own", "use"} /\ call[t].path \in Paths
        /\ call'[t] = [call[t] EXCEPT !.ent = e] /\ pc'[t] = "work" /\ e # NoEnt
        /\ \A u \in Threads \ {t} : call'[u] = call[u] /\ pc'[u] = pc[u]
    BY <1>2, ManagerAssumption DEF IInv, TypeOK, CallOK
  <2>2. call'[t].handle = call[t].handle /\ call'[t].kind = call[t].kind
        /\ call'[t].path = call[t].path /\ call'[t].ent = e
    BY <2>1 DEF IInv, TypeOK, Call
  <2>3. \A u \in Threads : call'[u].handle = call[u].handle
    BY <2>1, <2>2
  <2> SUFFICES ASSUME NEW u \in Threads
               PROVE  /\ pc'[u] = "idle" => call'[u] = NoCall
                      /\ pc'[u] # "idle" => call'[u].path \in Paths
                      /\ pc'[u] \in {"enter", "opening"} => call'[u].kind \in {"open", "own", "use"} /\ call'[u].ent = NoEnt
                      /\ pc'[u] = "find" => call'[u].kind = "release" /\ call'[u].ent = NoEnt
                      /\ pc'[u] \in {"work", "locked", "leave", "closing"} =>
                           call'[u].kind # "open" /\ call'[u].ent # NoEnt /\ call'[u].ent = fent'[call'[u].path]
                      /\ call'[u].kind = "release" => pc'[u] \in {"find", "leave", "closing"}
                      /\ call'[u].kind = "open" =>
                           /\ call'[u].handle \in Handles /\ handle'[call'[u].handle] = NoPath
                           /\ \A v \in Threads : v # u => call'[v].handle # call'[u].handle
    BY DEF CallOK
  <2>4. CASE u = t
    BY <2>1, <2>2, <2>4
  <2>5. CASE u # t
    BY <2>1, <2>3, <2>5 DEF IInv, CallOK
  <2> QED
    BY <2>4, <2>5
<1> QED
  BY <1>1, <1>2

LEMMA OpenNewStep ==
  ASSUME IInv, ~OpenMayFail, NEW t \in Threads, NEW e \in Entities, OpenNew(t, e)
  PROVE  IInv'
<1> DEFINE q == call[t].path
<1>0. /\ pc[t] = "opening" /\ Opened(t, e) /\ q \in Paths
      /\ fent[q] = NoEnt /\ fent' = [fent EXCEPT ![q] = e]
      /\ state[e] = "free" /\ state' = [state EXCEPT ![e] = "open"]
      /\ refcnt' = [refcnt EXCEPT ![e] = 1]
      /\ UNCHANGED lock
  BY DEF OpenNew, OpenFile, IInv, CallOK
<1>1. \A p \in Paths : fent[p] # e
  BY <1>0, ManagerAssumption DEF IInv, MapOK
<1>2. TypeOK'
  BY <1>0, OpenedTypes DEF IInv, TypeOK
<1>3. MapOK'
  BY <1>0, <1>1, ManagerAssumption DEF IInv, TypeOK, MapOK
<1>4. CallOK'
  BY <1>0, OpenedCalls DEF IInv, TypeOK
<1>5. RefCountExact'
  <2> SUFFICES ASSUME NEW p \in Paths
               PROVE  Holders(p)' = IF fent'[p] = NoEnt THEN 0 ELSE refcnt'[fent'[p]]
    BY DEF RefCountExact
  <2>1. Holders(p)' = Holders(p) + IF p = q THEN 1 ELSE 0
    BY <1>0, OpenedCounts
  <2>2. Holders(p) = IF fent[p] = NoEnt THEN 0 ELSE refcnt[fent[p]]
    BY DEF IInv, RefCountExact
  <2>3. CASE p = q
    <3>1. fent'[p] = e /\ refcnt'[e] = 1 /\ Holders(p) = 0 /\ e # NoEnt
      BY <1>0, <2>2, <2>3, ManagerAssumption DEF IInv, TypeOK
    <3> QED
      BY <2>1, <2>3, <3>1
  <2>4. CASE p # q
    <3>1. fent'[p] = fent[p]
      BY <1>0, <2>4 DEF IInv, TypeOK
    <3>2. fent[p] # NoEnt => refcnt'[fent[p]] = refcnt[fent[p]]
      BY <1>0, <1>1 DEF IInv, TypeOK
    <3>3. Holders(p) \in Nat
      BY <1>0, OpenedCounts
    <3> QED
      BY <2>1, <2>2, <2>4, <3>1, <3>2, <3>3
  <2> QED
    BY <2>3, <2>4
<1> QED
  BY <1>2, <1>3, <1>4, <1>5 DEF IInv

LEMMA OpenDupStep ==
  ASSUME IInv, NEW t \in Threads, NEW e \in Entities, OpenDup(t, e)
  PROVE  IInv'
<1> DEFINE q == call[t].path
<1>0. /\ pc[t] = "opening" /\ Opened(t, e) /\ q \in Paths
      /\ fent[q] = e /\ refcnt' = [refcnt EXCEPT ![e] = @ + 1]
      /\ UNCHANGED <<fent, state, lock>>
  BY DEF OpenDup, IInv, CallOK
<1>2. TypeOK'
  BY <1>0, OpenedTypes DEF IInv, TypeOK
<1>3. MapOK'
  BY <1>0 DEF IInv, MapOK
<1>4. CallOK'
  BY <1>0, OpenedCalls DEF IInv, TypeOK
<1>5. RefCountExact'
  <2> SUFFICES ASSUME NEW p \in Paths
               PROVE  Holders(p)' = IF fent[p] = NoEnt THEN 0 ELSE refcnt'[fent[p]]
    BY <1>0 DEF RefCountExact
  <2>1. Holders(p)' = Holders(p) + IF p = q THEN 1 ELSE 0
    BY <1>0, OpenedCounts
  <2>2. Holders(p) = IF fent[p] = NoEnt THEN 0 ELSE refcnt[fent[p]]
    BY DEF IInv, RefCountExact
  <2>3. e # NoEnt
    BY ManagerAssumption
  <2>4. CASE p = q
    BY <1>0, <2>1, <2>2, <2>3, <2>4 DEF IInv, TypeOK
  <2>5. CASE p # q
    <3>1. fent[p] # e
      BY <1>0, <2>3, <2>5 DEF IInv, MapOK
    <3>2. fent[p] # NoEnt => refcnt'[fent[p]] = refcnt[fent[p]]
      BY <1>0, <3>1 DEF IInv, TypeOK
    <3>3. Holders(p) \in Nat
      BY <1>0, OpenedCounts
    <3> QED
      BY <2>1, <2>2, <2>5, <3>2, <3>3
  <2> QED
    BY <2>4, <2>5
<1> QED
  BY <1>2, <1>3, <1>4, <1>5 DEF IInv

LEMMA CloseOpenStep ==
  ASSUME IInv, NEW t \in Threads, CloseOpen(t)
  PROVE  IInv'
<1> DEFINE q == call[t].path
           e == call[t].ent
<1>0. /\ pc[t] = "closing" /\ q \in Paths /\ Holds(t, q)
      /\ e \in Entities /\ e = fent[q] /\ e # NoEnt /\ state[e] = "open"
      /\ pc' = [pc EXCEPT ![t] = "idle"] /\ call' = [call EXCEPT ![t] = NoCall]
      /\ manager' = Nobody
      /\ UNCHANGED <<lock, handle>>
  BY ManagerAssumption DEF CloseOpen, Closed, Goto, IInv, TypeOK, Call, CallOK, Holds, Working
<1>1. refcnt[e] \in Nat /\ refcnt[e] > 0 /\ refcnt' = [refcnt EXCEPT ![e] = refcnt[e] - 1]
  <2>1. refcnt[e] \in Nat /\ refcnt[e] > 0
    BY <1>0, HolderCounts DEF IInv, TypeOK
  <2> QED
    BY <2>1 DEF CloseOpen
<1>2. \A p \in Paths : p # q => fent[p] # e
  BY <1>0 DEF IInv, MapOK
<1>3. \A p \in Paths : ~Holds(t, p)'
  BY <1>0, ManagerAssumption DEF IInv, TypeOK, Holds, NoCall, Working
<1>4. ASSUME NEW p \in Paths
      PROVE  /\ Holders(p) \in Nat
             /\ Holders(p)' = Holders(p) - IF p = q THEN 1 ELSE 0
  <2>1. \A u \in Threads \ {t} : pc'[u] = pc[u] /\ call'[u] = call[u]
    BY <1>0 DEF IInv, TypeOK
  <2>2. Holds(t, p) <=> p = q
    BY <1>0 DEF Holds
  <2>3. /\ Cardinality(CallsOf(p)) \in Nat
        /\ Cardinality(CallsOf(p)') = Cardinality(CallsOf(p)) - IF p = q THEN 1 ELSE 0
    <3> HIDE DEF q
    <3> QED
      BY <1>3, <2>1, <2>2, CallsCount
  <2>4. /\ Cardinality(HandlesOf(p)) \in Nat
        /\ Cardinality(HandlesOf(p)') = Cardinality(HandlesOf(p))
    BY <1>0, HandlesSame
  <2> QED
    BY <2>3, <2>4 DEF Holders
<1>5. \A p \in Paths : Holders(p) = IF fent[p] = NoEnt THEN 0 ELSE refcnt[fent[p]]
  BY DEF IInv, RefCountExact
<1>6. CASE refcnt[e] > 1
  <2>1. UNCHANGED <<state, fent>>
    BY <1>1, <1>6 DEF CloseOpen
  <2>2. TypeOK'
    BY <1>0, <1>1, <2>1, ManagerAssumption DEF IInv, TypeOK, NoCall, Call
  <2>3. MapOK'
    BY <2>1 DEF IInv, MapOK
  <2>4. CallOK'
    BY <1>0, <2>1, ManagerAssumption DEF IInv, TypeOK, CallOK, NoCall
  <2>5. RefCountExact'
    <3> SUFFICES ASSUME NEW p \in Paths
                 PROVE  Holders(p)' = IF fent[p] = NoEnt THEN 0 ELSE refcnt'[fent[p]]
      BY <2>1 DEF RefCountExact
    <3>1. fent[p] # NoEnt => refcnt'[fent[p]] = refcnt[fent[p]] - IF p = q THEN 1 ELSE 0
      BY <1>0, <1>1, <1>2 DEF IInv, TypeOK
    <3>2. p = q => fent[p] # NoEnt
      BY <1>0
    <3> HIDE DEF q
    <3> QED
      BY <1>4, <1>5, <3>1, <3>2
  <2> QED
    BY <2>2, <2>3, <2>4, <2>5 DEF IInv
<1>7. CASE refcnt[e] = 1
  <2>1. /\ state' = [state EXCEPT ![e] = "free"]
        /\ fent' = [p \in Paths |-> IF fent[p] = e THEN NoEnt ELSE fent[p]]
    BY <1>7 DEF CloseOpen, Deleted
  <2>2. fent'[q] = NoEnt /\ \A p \in Paths : p # q => fent'[p] = fent[p]
    BY <1>0, <1>2, <2>1
  <2>3. TypeOK'
    BY <1>0, <1>1, <2>1, ManagerAssumption DEF IInv, TypeOK, NoCall, Call
  <2>4. MapOK'
    BY <1>2, <2>1, <2>2 DEF IInv, TypeOK, MapOK
  <2>5. ASSUME NEW u \in Threads, u # t, pc[u] \in {"work", "locked", "leave", "closing"}
        PROVE  call[u].path # q
    <3>1. Holds(u, call[u].path)
      BY <2>5 DEF Holds, Working
    <3> QED
      BY <1>0, <1>7, <2>5, <3>1, TwoHoldersCount
  <2>6. CallOK'
    BY <1>0, <2>2, <2>5, ManagerAssumption DEF IInv, TypeOK, CallOK, NoCall
  <2>7. RefCountExact'
    <3> SUFFICES ASSUME NEW p \in Paths
                 PROVE  Holders(p)' = IF fent'[p] = NoEnt THEN 0 ELSE refcnt'[fent'[p]]
      BY DEF RefCountExact
    <3>1. CASE p = q
      <4>1. Holders(p) = 1
        BY <1>0, <1>5, <1>7, <3>1
      <4> QED
        BY <1>4, <2>2, <3>1, <4>1
    <3>2. CASE p # q
      <4>1. fent[p] # NoEnt => refcnt'[fent[p]] = refcnt[fent[p]]
        BY <1>1, <1>2, <3>2 DEF IInv, TypeOK
      <4> QED
        BY <1>4, <1>5, <2>2, <3>2, <4>1
    <3> QED
      BY <3>1, <3>2
  <2> QED
    BY <2>3, <2>4, <2>6, <2>7 DEF IInv
<1> QED
  BY <1>1, <1>6, <1>7

\* A call's entity is in the map and open: the other ways to open and to close
\* do not happen.
LEMMA NoOtherSteps ==
  ASSUME IInv, NEW t \in Threads
  PROVE  /\ \A e \in Entities : ~OpenShut(t, e)
         /\ ~CloseMissing(t) /\ ~CloseShut(t)
<1>1. \A e \in Entities : ~OpenShut(t, e)
  BY ManagerAssumption DEF IInv, MapOK, CallOK, OpenShut
<1>2. ~CloseMissing(t)
  BY DEF IInv, CallOK, CloseMissing
<1>3. ~CloseShut(t)
  BY DEF IInv, CallOK, MapOK, CloseShut
<1> QED
  BY <1>1, <1>2, <1>3

LEMMA IInvStep ==
  ASSUME ~OpenMayFail, ~MayRename, IInv, [Next]_vars
  PROVE  IInv'
<1>1. CASE UNCHANGED vars
  BY <1>1 DEF vars, IInv, TypeOK, MapOK, CallOK, RefCountExact, Holders, HandlesOf, CallsOf, Working
<1>2. ASSUME NEW t \in Threads, BeginCall(t)
      PROVE  IInv'
  BY <1>2, BeginStep
<1>3. ASSUME NEW t \in Threads, Step(t)
      PROVE  IInv'
  <2>1. ASSUME NEW e \in Entities, OpenNew(t, e) PROVE IInv'
    BY <2>1, OpenNewStep
  <2>2. ASSUME NEW e \in Entities, OpenDup(t, e) PROVE IInv'
    BY <2>2, OpenDupStep
  <2>3. CASE CloseOpen(t)
    BY <2>3, CloseOpenStep
  <2> QED
    BY <1>3, <2>1, <2>2, <2>3, MoveStep, NoOtherSteps DEF Step
<1>4. \A p, q \in Paths : ~Rename(p, q)
  BY DEF Rename
<1> QED
  BY <1>1, <1>2, <1>3, <1>4 DEF Next

LEMMA IInvInit ==
  ASSUME Init
  PROVE  IInv
<1>1. TypeOK
  BY ManagerAssumption DEF Init, TypeOK, Call, NoCall
<1>2. MapOK /\ CallOK
  BY ManagerAssumption DEF Init, MapOK, CallOK, NoCall
<1>3. RefCountExact
  <2> SUFFICES ASSUME NEW p \in Paths PROVE Holders(p) = 0
    BY DEF Init, RefCountExact
  <2>1. HandlesOf(p) = {} /\ CallsOf(p) = {}
    BY ManagerAssumption DEF Init, HandlesOf, CallsOf, Working, NoCall
  <2> QED
    BY <2>1, FS_EmptySet DEF Holders
<1> QED
  BY <1>1, <1>2, <1>3 DEF IInv

-----------------------------------------------------------------------------

(* Without failing opens and renames, each count in FdManager is exactly the *)
(* number of handles and calls that hold the file.                           *)
THEOREM CountsStayExact ==
  ASSUME ~OpenMayFail, ~MayRename
  PROVE  Spec => [](TypeOK /\ RefCountExact)
<1>1. Init => IInv
  BY IInvInit
<1>2. IInv /\ [Next]_vars => IInv'
  BY IInvStep
<1>3. IInv => TypeOK /\ RefCountExact
  BY DEF IInv
<1> QED
  BY <1>1, <1>2, <1>3, PTL DEF Spec

(* Then no call ever works on a deleted entity, nor on one of another path.  *)
THEOREM EntitiesOutliveCalls ==
  ASSUME ~OpenMayFail, ~MayRename
  PROVE  Spec => []NoUseAfterFree
<1>1. Init => IInv
  BY IInvInit
<1>2. IInv /\ [Next]_vars => IInv'
  BY IInvStep
<1>3. IInv => NoUseAfterFree
  <2> SUFFICES ASSUME IInv, NEW t \in Threads, call[t].ent # NoEnt
               PROVE  state[call[t].ent] # "free" /\ fent[call[t].path] = call[t].ent
    BY DEF NoUseAfterFree
  <2>1. pc[t] \in {"work", "locked", "leave", "closing"}
    BY DEF IInv, TypeOK, CallOK, NoCall
  <2> QED
    BY <2>1 DEF IInv, CallOK, MapOK
<1> QED
  BY <1>1, <1>2, <1>3, PTL DEF Spec

(* And every handle the kernel has finds an open entity at its path.         *)
THEOREM HandlesKeepTheirEntity ==
  ASSUME ~OpenMayFail, ~MayRename
  PROVE  Spec => []HandleHasEntity
<1>1. Init => IInv
  BY IInvInit
<1>2. IInv /\ [Next]_vars => IInv'
  BY IInvStep
<1>3. IInv => HandleHasEntity
  <2> SUFFICES ASSUME IInv, NEW h \in Handles, handle[h] # NoPath
               PROVE  fent[handle[h]] # NoEnt /\ state[fent[handle[h]]] = "open"
    BY DEF HandleHasEntity
  <2>1. handle[h] \in Paths /\ fent[handle[h]] # NoEnt
    BY HandleCounts DEF IInv, TypeOK
  <2> QED
    BY <2>1 DEF IInv, MapOK
<1> QED
  BY <1>1, <1>2, <1>3, PTL DEF Spec

-----------------------------------------------------------------------------
(* The table and its entities, also when opens fail and files are renamed:  *)
(* the counts are wrong then, but an entity is still made under one path    *)
(* and taken out of the map where it is deleted.                            *)

CallsNamed ==
  \A t \in Threads :
    /\ pc[t] # "idle" => call[t].path \in Paths
    /\ pc[t] \in {"work", "locked", "leave", "closing"} => call[t].ent \in Entities

MapFits ==
  \A e \in Entities :
    /\ state[e] = "free" <=> \A p \in Paths : fent[p] # e
    /\ \A p, q \in Paths : fent[p] = e /\ fent[q] = e => p = q

TableInv == TypeOK /\ CallsNamed /\ MapFits

LEMMA TableInit == Init => TableInv
<1> SUFFICES ASSUME Init PROVE TableInv
  OBVIOUS
<1>1. NoCall \in Call
  BY ManagerAssumption DEF NoCall, Call
<1>2. TypeOK /\ CallsNamed
  BY <1>1 DEF Init, TypeOK, CallsNamed
<1>3. MapFits
  BY ManagerAssumption DEF Init, MapFits
<1> QED
  BY <1>2, <1>3 DEF TableInv

LEMMA BeginTable ==
  ASSUME TableInv, NEW t \in Threads, BeginCall(t)
  PROVE  TableInv'
<1>1. ASSUME NEW label \in {"enter", "find"}, NEW kind \in {"open", "own", "use", "release"},
             NEW p \in Paths, NEW h \in Handles \cup {NoHandle}, NEW n \in 0..MaxSections,
             Begin(t, label, kind, p, h, n), handle' \in [Handles -> Paths \cup {NoPath}]
      PROVE  TableInv'
  <2>1. [kind |-> kind, path |-> p, handle |-> h, ent |-> NoEnt, left |-> n] \in Call
    BY DEF Call
  <2>2. TypeOK' /\ CallsNamed'
    BY <1>1, <2>1 DEF Begin, Goto, TableInv, TypeOK, CallsNamed
  <2>3. MapFits'
    BY <1>1 DEF Begin, TableInv, MapFits
  <2> QED
    BY <2>2, <2>3 DEF TableInv
<1>2. 0 \in 0..MaxSections /\ handle \in [Handles -> Paths \cup {NoPath}]
  BY ManagerAssumption DEF TableInv, TypeOK
<1>3. ASSUME NEW h \in Handles, handle[h] # NoPath PROVE handle[h] \in Paths
  BY <1>2, <1>3
<1>4. ASSUME NEW h \in Handles, NEW p \in Paths, BeginOpen(t, h, p) PROVE TableInv'
  BY <1>1, <1>2, <1>4 DEF BeginOpen
<1>5. ASSUME NEW h \in Handles, NEW n \in 0..MaxSections, BeginUse(t, h, n) PROVE TableInv'
  BY <1>1, <1>2, <1>3, <1>5 DEF BeginUse
<1>6. ASSUME NEW h \in Handles, BeginRelease(t, h) PROVE TableInv'
  BY <1>1, <1>2, <1>3, <1>6 DEF BeginRelease
<1>7. ASSUME NEW p \in Paths, NEW n \in 0..MaxSections, BeginOwn(t, p, n) \/ BeginPeek(t, p, n)
      PROVE  TableInv'
  BY <1>1, <1>2, <1>7 DEF BeginOwn, BeginPeek
<1> QED
  BY <1>4, <1>5, <1>6, <1>7 DEF BeginCall

\* Steps that leave the table alone.
LEMMA MoveTable ==
  ASSUME TableInv, NEW t \in Threads,
         \/ EnterOpen(t) \/ OpenMissing(t) \/ LockEntity(t) \/ UnlockEntity(t)
         \/ Finish(t) \/ FindEntity(t) \/ EnterClose(t) \/ CloseMissing(t)
  PROVE  TableInv'
<1> USE DEF Goto, TableInv, TypeOK, CallsNamed
<1>1. MapFits'
  BY DEF MapFits, EnterOpen, OpenMissing, LockEntity, UnlockEntity, Finish, FindEntity, EnterClose,
         CloseMissing, Closed
<1>2. NoCall \in Call
  BY ManagerAssumption DEF NoCall, Call
<1>3. CASE OpenMissing(t) \/ CloseMissing(t)
  BY <1>1, <1>2, <1>3 DEF OpenMissing, CloseMissing, Closed
<1>4. CASE EnterOpen(t) \/ UnlockEntity(t) \/ Finish(t) \/ EnterClose(t)
  BY <1>1, <1>4 DEF EnterOpen, UnlockEntity, Finish, EnterClose
<1>5. CASE LockEntity(t)
  <2>1. [call[t] EXCEPT !.left = call[t].left - 1] \in Call
    <3>1. call[t] \in Call
      OBVIOUS
    <3>2. call[t].left - 1 \in 0..MaxSections
      BY <1>5, <3>1, ManagerAssumption DEF LockEntity, Call
    <3> QED
      BY <3>1, <3>2 DEF Call
  <2>2. call' = [call EXCEPT ![t] = [call[t] EXCEPT !.left = call[t].left - 1]]
    BY <1>5 DEF LockEntity
  <2>3. TypeOK'
    BY <1>5, <2>1, <2>2 DEF LockEntity
  <2>4. CallsNamed'
    BY <1>5, <2>2 DEF LockEntity, Call
  <2> QED
    BY <1>1, <2>3, <2>4
<1>6. CASE FindEntity(t)
  <2>1. call[t].path \in Paths
    BY <1>6 DEF FindEntity
  <2>2. CASE fent[call[t].path] = NoEnt
    BY <1>1, <1>2, <1>6, <2>2 DEF FindEntity
  <2>3. CASE fent[call[t].path] # NoEnt
    <3> DEFINE e == fent[call[t].path]
    <3>1. e \in Entities /\ [call[t] EXCEPT !.ent = e] \in Call
      BY <2>1, <2>3 DEF Call
    <3>2. call' = [call EXCEPT ![t] = [call[t] EXCEPT !.ent = e]] /\ pc' = [pc EXCEPT ![t] = "leave"]
      BY <1>6, <2>3 DEF FindEntity
    <3>3. UNCHANGED <<manager, fent, state, refcnt, lock, handle>>
      BY <1>6 DEF FindEntity
    <3> HIDE DEF e
    <3>4. TypeOK'
      BY <3>1, <3>2, <3>3
    <3>5. CallsNamed'
      BY <2>1, <3>1, <3>2, <3>3 DEF Call
    <3> QED
      BY <1>1, <3>4, <3>5
  <2> QED
    BY <2>2, <2>3
<1> QED
  BY <1>3, <1>4, <1>5, <1>6

\* An open makes an entity under a path that has none, or takes the one it has.
LEMMA OpenTable ==
  ASSUME TableInv, NEW t \in Threads, NEW e \in Entities, OpenNew(t, e) \/ OpenShut(t, e) \/ OpenDup(t, e)
  PROVE  TableInv'
<1> DEFINE q == call[t].path
<1>1. pc[t] = "opening" /\ Opened(t, e) /\ q \in Paths /\ UNCHANGED lock
  BY DEF OpenNew, OpenShut, OpenDup, TableInv, CallsNamed
<1>2. refcnt' \in [Entities -> Nat] /\ state' \in [Entities -> {"free", "shut", "open"}]
  BY DEF OpenNew, OpenShut, OpenDup, OpenFile, TableInv, TypeOK
<1>3. fent' \in [Paths -> Entities \cup {NoEnt}]
  BY DEF OpenNew, OpenShut, OpenDup, TableInv, TypeOK
<1>4. NoCall \in Call /\ [call[t] EXCEPT !.ent = e] \in Call
  BY ManagerAssumption DEF NoCall, Call, TableInv, TypeOK
<1>5. \/ call' = [call EXCEPT ![t] = NoCall] /\ pc' = [pc EXCEPT ![t] = "idle"]
      \/ call' = [call EXCEPT ![t] = [call[t] EXCEPT !.ent = e]] /\ pc' = [pc EXCEPT ![t] = "work"]
  BY <1>1 DEF Opened, Goto
<1>6. handle' \in [Handles -> Paths \cup {NoPath}] /\ manager' = Nobody
  BY <1>1 DEF Opened, TableInv, TypeOK
<1>7. TypeOK'
  BY <1>1, <1>2, <1>3, <1>4, <1>5, <1>6 DEF TableInv, TypeOK
<1>8. CallsNamed'
  BY <1>1, <1>5 DEF TableInv, TypeOK, Call, CallsNamed
<1>9. MapFits'
  <2>1. CASE OpenNew(t, e)
    <3>1. /\ fent[q] = NoEnt /\ state[e] = "free" /\ NoEnt \notin Entities
          /\ \A p \in Paths : fent'[p] = IF p = q THEN e ELSE fent[p]
          /\ state'[e] # "free" /\ \A f \in Entities \ {e} : state'[f] = state[f]
      BY <1>1, <2>1, ManagerAssumption DEF OpenNew, OpenFile, TableInv, TypeOK
    <3> HIDE DEF q
    <3> QED
      BY <1>1, <3>1 DEF TableInv, MapFits
  <2>2. CASE OpenShut(t, e) \/ OpenDup(t, e)
    <3>1. fent' = fent /\ \A f \in Entities : state'[f] = "free" <=> state[f] = "free"
      BY <2>2 DEF OpenShut, OpenDup, OpenFile, TableInv, TypeOK
    <3> QED
      BY <3>1 DEF TableInv, MapFits
  <2> QED
    BY <2>1, <2>2
<1> QED
  BY <1>7, <1>8, <1>9 DEF TableInv

\* A close leaves the entity or deletes it, in the map, too.
LEMMA CloseTable ==
  ASSUME TableInv, NEW t \in Threads, CloseShut(t) \/ CloseOpen(t)
  PROVE  TableInv'
<1> DEFINE e == call[t].ent
<1>1. e \in Entities /\ pc[t] = "closing" /\ Closed(t)
  BY DEF CloseShut, CloseOpen, TableInv, CallsNamed
<1>2. (UNCHANGED <<state, fent>>) \/ Deleted(e)
  BY DEF CloseShut, CloseOpen
<1>3. refcnt' \in [Entities -> Nat]
  BY <1>1 DEF CloseShut, CloseOpen, TableInv, TypeOK
<1> HIDE DEF e
<1>4. NoCall \in Call
  BY ManagerAssumption DEF NoCall, Call
<1>5. TypeOK' /\ CallsNamed'
  BY <1>1, <1>2, <1>3, <1>4 DEF Closed, Goto, Deleted, TableInv, TypeOK, CallsNamed
<1>6. MapFits'
  <2>1. CASE UNCHANGED <<state, fent>>
    BY <2>1 DEF TableInv, MapFits
  <2>2. CASE Deleted(e)
    <3>1. /\ state'[e] = "free" /\ \A f \in Entities \ {e} : state'[f] = state[f]
          /\ \A p \in Paths : fent'[p] = IF fent[p] = e THEN NoEnt ELSE fent[p]
          /\ NoEnt \notin Entities
      BY <1>1, <2>2, ManagerAssumption DEF Deleted, TableInv, TypeOK
    <3> QED
      BY <3>1 DEF TableInv, MapFits
  <2> QED
    BY <1>2, <2>1, <2>2
<1> QED
  BY <1>5, <1>6 DEF TableInv

LEMMA TableStep == TableInv /\ [Next]_vars => TableInv'
<1> SUFFICES ASSUME TableInv, [Next]_vars PROVE TableInv'
  OBVIOUS
<1>1. CASE UNCHANGED vars
  BY <1>1 DEF vars, TableInv, TypeOK, CallsNamed, MapFits
<1>2. ASSUME NEW t \in Threads, BeginCall(t) PROVE TableInv'
  BY <1>2, BeginTable
<1>3. ASSUME NEW t \in Threads, Step(t) PROVE TableInv'
  BY <1>3, MoveTable, OpenTable, CloseTable DEF Step
<1>4. ASSUME NEW p \in Paths, NEW q \in Paths, Rename(p, q) PROVE TableInv'
  BY <1>4 DEF Rename, TableInv, TypeOK, CallsNamed, MapFits
<1> QED
  BY <1>1, <1>2, <1>3, <1>4 DEF Next

LEMMA TableAlways == Spec => []TableInv
BY TableInit, TableStep, PTL DEF Spec

(* The types of the table, the entities, the handles and the calls, whatever *)
(* fails and whatever is renamed (fdcache.cpp:1128-1200).                    *)
THEOREM TableTypes == Spec => []TypeOK
<1>1. TableInv => TypeOK
  BY DEF TableInv
<1> QED
  BY <1>1, TableAlways, PTL

(* Also when an open fails or an open file is renamed, each live entity is   *)
(* in the map under exactly one path, and a deleted one under none: nothing  *)
(* in the map is dangling, and no two paths share an entity                  *)
(* (fdcache.cpp:1153-1195).                                                  *)
THEOREM TableOwnsEntities == Spec => []MapOwnsEntities
<1>1. TableInv => MapOwnsEntities
  <2> SUFFICES ASSUME TableInv, NEW e \in Entities
               PROVE  Cardinality({p \in Paths : fent[p] = e}) = IF state[e] = "free" THEN 0 ELSE 1
    BY DEF MapOwnsEntities
  <2> DEFINE S == {p \in Paths : fent[p] = e}
  <2>1. CASE state[e] = "free"
    <3>1. S = {}
      BY <2>1 DEF TableInv, MapFits
    <3> QED
      BY <2>1, <3>1, FS_EmptySet
  <2>2. CASE state[e] # "free"
    <3>1. PICK q \in Paths : fent[q] = e
      BY <2>2 DEF TableInv, MapFits
    <3>2. S = {q}
      BY <3>1 DEF TableInv, MapFits
    <3> QED
      BY <2>2, <3>2, FS_Singleton
  <2> QED
    BY <2>1, <2>2
<1> QED
  BY <1>1, TableAlways, PTL

-----------------------------------------------------------------------------
(* The two kinds of mutex: who holds which, at every place of a call.       *)

LocksFit ==
  \A t \in Threads :
    /\ manager = t <=> pc[t] \in {"opening", "closing"}
    /\ \A e \in Entities : lock[e] = t <=> pc[t] = "locked" /\ call[t].ent = e

LEMMA LocksInit == Init => LocksFit
BY ManagerAssumption DEF Init, LocksFit

\* A step of t that takes neither kind of lock and gives back fd_manager_lock at most.
LEMMA LocksOfOthers ==
  ASSUME TableInv, LocksFit, NEW t \in Threads, UNCHANGED lock,
         \A u \in Threads \ {t} : pc'[u] = pc[u] /\ call'[u] = call[u],
         pc[t] # "locked", pc'[t] # "locked",
         \/ manager' = manager /\ (pc[t] \in {"opening", "closing"} <=> pc'[t] \in {"opening", "closing"})
         \/ manager' = Nobody /\ manager = t /\ pc'[t] \notin {"opening", "closing"}
         \/ manager' = t /\ manager = Nobody /\ pc'[t] \in {"opening", "closing"}
  PROVE  LocksFit'
<1> SUFFICES ASSUME NEW u \in Threads
             PROVE  /\ manager' = u <=> pc'[u] \in {"opening", "closing"}
                    /\ \A e \in Entities : lock[e] = u <=> pc'[u] = "locked" /\ call'[u].ent = e
  BY DEF LocksFit
<1>1. CASE u = t
  BY <1>1, ManagerAssumption DEF LocksFit
<1>2. CASE u # t
  BY <1>2, ManagerAssumption DEF LocksFit
<1> QED
  BY <1>1, <1>2

LEMMA LocksStep == TableInv /\ LocksFit /\ [Next]_vars => LocksFit'
<1> SUFFICES ASSUME TableInv, LocksFit, [Next]_vars PROVE LocksFit'
  OBVIOUS
<1> USE DEF Goto
<1>0. pc \in [Threads -> {"idle", "enter", "opening", "work", "locked", "find", "leave", "closing"}]
      /\ call \in [Threads -> Call] /\ lock \in [Entities -> Threads \cup {Nobody}]
  BY DEF TableInv, TypeOK
<1>1. CASE UNCHANGED vars
  BY <1>1 DEF vars, LocksFit
<1>2. ASSUME NEW t \in Threads, BeginCall(t) PROVE LocksFit'
  <2>1. ASSUME NEW label \in {"enter", "find"}, NEW kind, NEW p, NEW h, NEW n, Begin(t, label, kind, p, h, n)
        PROVE  LocksFit'
    <3> DEFINE c == [kind |-> kind, path |-> p, handle |-> h, ent |-> NoEnt, left |-> n]
    <3>1. /\ pc[t] = "idle" /\ pc' = [pc EXCEPT ![t] = label] /\ call' = [call EXCEPT ![t] = c]
          /\ manager' = manager /\ UNCHANGED lock
      BY <2>1 DEF Begin
    <3> HIDE DEF c
    <3> QED
      BY <1>0, <3>1, LocksOfOthers
  <2> QED
    BY <1>2, <2>1 DEF BeginCall, BeginOpen, BeginUse, BeginRelease, BeginOwn, BeginPeek
<1>3. ASSUME NEW t \in Threads, Step(t) PROVE LocksFit'
  <2>1. CASE EnterOpen(t) \/ EnterClose(t)
    BY <1>0, <2>1, LocksOfOthers DEF EnterOpen, EnterClose
  <2>2. CASE OpenMissing(t) \/ CloseMissing(t)
    <3>1. manager = t
      BY <2>2 DEF OpenMissing, CloseMissing, LocksFit
    <3> QED
      BY <1>0, <2>2, <3>1, LocksOfOthers DEF OpenMissing, CloseMissing, Closed
  <2>3. CASE CloseShut(t) \/ CloseOpen(t)
    <3>1. manager = t /\ pc[t] = "closing" /\ Closed(t)
      BY <2>3 DEF CloseShut, CloseOpen, LocksFit
    <3> QED
      BY <1>0, <3>1, LocksOfOthers DEF Closed
  <2>4. CASE \E e \in Entities : OpenNew(t, e) \/ OpenShut(t, e) \/ OpenDup(t, e)
    <3>1. PICK e \in Entities : pc[t] = "opening" /\ Opened(t, e) /\ UNCHANGED lock
      BY <2>4 DEF OpenNew, OpenShut, OpenDup
    <3>2. manager = t /\ manager' = Nobody
      BY <3>1 DEF Opened, LocksFit
    <3>3. \E label \in {"idle", "work"} : \E c : pc' = [pc EXCEPT ![t] = label] /\ call' = [call EXCEPT ![t] = c]
      BY <3>1, Zenon DEF Opened
    <3> QED
      BY <1>0, <3>1, <3>2, <3>3, LocksOfOthers
  <2>5. CASE Finish(t) \/ FindEntity(t)
    <3>1. /\ pc[t] \in {"work", "find"} /\ manager' = manager /\ UNCHANGED lock
          /\ \E label \in {"idle", "leave"} : pc' = [pc EXCEPT ![t] = label]
          /\ \A u \in Threads \ {t} : call'[u] = call[u]
      BY <1>0, <2>5 DEF Finish, FindEntity
    <3> QED
      BY <1>0, <3>1, LocksOfOthers
  <2>6. CASE LockEntity(t)
    <3> DEFINE e == call[t].ent
    <3>1. e \in Entities /\ lock[e] = Nobody /\ lock' = [lock EXCEPT ![e] = t] /\ pc[t] = "work"
          /\ pc' = [pc EXCEPT ![t] = "locked"] /\ manager' = manager
      BY <2>6 DEF LockEntity, TableInv, CallsNamed
    <3>2. \A u \in Threads : call'[u].ent = call[u].ent
      BY <1>0, <2>6 DEF LockEntity, Call
    <3> HIDE DEF e
    <3>3. ASSUME NEW u \in Threads, NEW f \in Entities
          PROVE  lock'[f] = u <=> pc'[u] = "locked" /\ call'[u].ent = f
      <4>1. CASE u = t
        BY <1>0, <3>1, <3>2, <4>1 DEF LocksFit, e
      <4>2. CASE u # t
        BY <1>0, <3>1, <3>2, <4>2, ManagerAssumption DEF LocksFit
      <4> QED
        BY <4>1, <4>2
    <3> QED
      BY <1>0, <3>1, <3>3 DEF LocksFit
  <2>7. CASE UnlockEntity(t)
    <3> DEFINE e == call[t].ent
    <3>1. e \in Entities /\ lock[e] = t /\ lock' = [lock EXCEPT ![e] = Nobody] /\ pc[t] = "locked"
          /\ pc' = [pc EXCEPT ![t] = "work"] /\ manager' = manager /\ call' = call
      BY <2>7 DEF UnlockEntity, TableInv, CallsNamed, LocksFit
    <3> HIDE DEF e
    <3>2. ASSUME NEW u \in Threads, NEW f \in Entities
          PROVE  lock'[f] = u <=> pc'[u] = "locked" /\ call'[u].ent = f
      <4>1. CASE u = t
        BY <1>0, <3>1, <4>1, ManagerAssumption DEF LocksFit, e
      <4>2. CASE u # t
        BY <1>0, <3>1, <4>2, ManagerAssumption DEF LocksFit
      <4> QED
        BY <4>1, <4>2
    <3> QED
      BY <1>0, <3>1, <3>2 DEF LocksFit
  <2> QED
    BY <1>3, <2>1, <2>2, <2>3, <2>4, <2>5, <2>6, <2>7 DEF Step
<1>4. ASSUME NEW p \in Paths, NEW q \in Paths, Rename(p, q) PROVE LocksFit'
  BY <1>4 DEF Rename, LocksFit
<1> QED
  BY <1>1, <1>2, <1>3, <1>4 DEF Next

(* Nobody waits in a circle, whatever fails and whatever is renamed: who has *)
(* the lock of an entity, be it one that was deleted meanwhile, has no other *)
(* lock and waits for none, so that the call that waits for it with          *)
(* fd_manager_lock in its hands can go on (fdcache.cpp:1150, 1187).          *)
THEOREM LocksAreOrdered ==
  Spec => [](\A t \in Threads, e \in Entities : lock[e] = t =>
               /\ manager # t /\ \A f \in Entities : lock[f] = t => f = e
               /\ pc[t] = "locked")
<1>1. LocksFit => \A t \in Threads, e \in Entities : lock[e] = t =>
                    /\ manager # t /\ \A f \in Entities : lock[f] = t => f = e
                    /\ pc[t] = "locked"
  BY DEF LocksFit
<1>2. Spec => []LocksFit
  BY LocksInit, LocksStep, TableAlways, PTL DEF Spec
<1> QED
  BY <1>1, <1>2, PTL

==============================================================================
