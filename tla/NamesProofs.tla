----------------------------- MODULE NamesProofs -----------------------------
(***************************************************************************)
(* The properties of Names for every tree of names, every page length and  *)
(* any number of edits by other clients.  NothingLost is inductive once it *)
(* is known that what is under the old name is what was stored last, that  *)
(* a file about to be deleted was copied as it is (unless it raced), and   *)
(* that a directory is only removed when its clone is there (IInv).  What  *)
(* a call reports follows from how far each of its loops has come (EndInv).*)
(***************************************************************************)
EXTENDS Names, FiniteSetTheorems, TLAPS

OldIsLatest == \A e \in Names : from[e] # None => from[e] = latest[e]

CopiedBeforeDelete ==
  phase = "delete" =>
    \A f \in Names : IsFirst(f, todo) => f \in raced \/ latest[f] \in {None, to[f]}

\* In which loops the directories of the plan have their clones.
ClonesThere ==
  /\ phase = "clone" => \A d \in Dirs : plan[d] = "skip" \/ d \in todo \/ to[d] = Dir
  /\ phase \in {"copy", "delete", "empty", "rmdir"} =>
       \A d \in Dirs : plan[d] = "skip" \/ to[d] = Dir

RemovesPlanned ==
  /\ phase \in {"copy", "delete"} => todo \subseteq Files
  /\ phase \in {"clone", "empty", "rmdir"} => todo \subseteq Dirs
  /\ phase \in {"empty", "rmdir"} /\ op # "rmdir" => \A d \in todo : plan[d] # "skip"

IInv ==
  /\ TypeOK
  /\ OldIsLatest
  /\ NothingLost
  /\ CopiedBeforeDelete
  /\ ClonesThere
  /\ RemovesPlanned

-----------------------------------------------------------------------------

LEMMA InitEstablishes == Init => IInv
<1>1. SUFFICES ASSUME Init PROVE IInv
  OBVIOUS
<1>2. TypeOK
  <2>1. from \in Objects /\ to \in Objects /\ latest \in Objects
    BY <1>1, TargetsAssumption DEF Init
  <2>2. plan \in [Names -> Findings]
    BY <1>1 DEF Init, NoPlan, Findings
  <2>3. edits \in 0..MaxEdits
    BY <1>1, NamesAssumption DEF Init
  <2>4. QED
    BY <1>1, <2>1, <2>2, <2>3 DEF Init, TypeOK
<1>3. OldIsLatest /\ NothingLost
  BY <1>1 DEF Init, OldIsLatest, NothingLost
<1>4. CopiedBeforeDelete /\ ClonesThere /\ RemovesPlanned
  BY <1>1 DEF Init, CopiedBeforeDelete, ClonesThere, RemovesPlanned
<1>5. QED
  BY <1>2, <1>3, <1>4 DEF IInv

\* What an object is changed to.
LEMMA PutType ==
  ASSUME NEW o \in Objects, NEW e \in Names,
         NEW v \in Contents \cup {Dir, None}, v # None => (v = Dir <=> e \in Dirs)
  PROVE  /\ [o EXCEPT ![e] = v] \in Objects
         /\ \A d \in Names : [o EXCEPT ![e] = v][d] = IF d = e THEN v ELSE o[d]
<1>1. o \in [Names -> Contents \cup {Dir, None}]
  BY DEF Objects
<1>2. \A d \in Names : o[d] # None => (o[d] = Dir <=> d \in Dirs)
  BY DEF Objects
<1>3. [o EXCEPT ![e] = v] \in [Names -> Contents \cup {Dir, None}]
  BY <1>1
<1>4. \A d \in Names : [o EXCEPT ![e] = v][d] = IF d = e THEN v ELSE o[d]
  BY <1>1
<1>5. QED
  BY <1>2, <1>3, <1>4 DEF Objects
-----------------------------------------------------------------------------
(* Types                                                                    *)

LEMMA Subsets ==
  /\ Dirs \subseteq Names /\ Files \subseteq Names /\ Top \in Names
  /\ \A o : Children(o) \subseteq Names
  /\ \A S : S \subseteq Names => Hierarchized(S) \subseteq Names
<1>1. Dirs \subseteq Names /\ Files \subseteq Names /\ Top \in Names
  BY NamesAssumption DEF Files
<1>2. \A o : Children(o) \subseteq Names
  BY DEF Children
<1>3. ASSUME NEW S, S \subseteq Names PROVE Hierarchized(S) \subseteq Names
  <2>1. \A e \in S : Above[e] \subseteq Names
    BY <1>1, <1>3, NamesAssumption
  <2>2. QED
    BY <1>3, <2>1 DEF Hierarchized
<1>4. QED
  BY <1>1, <1>2, <1>3

LEMMA TypeStep == ASSUME TypeOK, [Next]_vars PROVE TypeOK'
<1>1. ASSUME NEW kind \in {"rename", "move", "readdir", "rmdir"},
             NEW label \in {"top", "list", "copy", "empty"},
             NEW entries \in SUBSET Names, Begin(kind, label, entries)
      PROVE  TypeOK'
  <2>1. always' \subseteq Names /\ ever' \subseteq Names
    BY <1>1, Subsets DEF Begin
  <2>2. NoPlan \in [Names -> Findings]
    BY DEF NoPlan, Findings
  <2>3. QED
    BY <1>1, <2>1, <2>2 DEF TypeOK, Begin, Bucket
<1>2. CASE Stop
  BY <1>2 DEF TypeOK, Stop, End, Bucket, History
<1>3. CASE ListPage
  <2>1. Keys \subseteq Names
    BY Subsets DEF Keys
  <2>2. Page(Keys) \subseteq Names
    BY <2>1 DEF Page
  <2>3. listed' \subseteq Names
    BY <1>3, <2>2 DEF ListPage, TypeOK
  <2>4. Hierarchized(listed') \subseteq Names
    BY <2>3, Subsets
  <2>5. /\ phase' \in {phase, "idle", "look"} /\ todo' \in {todo, {}, Hierarchized(listed')}
        /\ result' \in {result, "ok"} /\ marker' \in Names \cup {marker} /\ op' = op
    BY <1>3 DEF ListPage, Enter, End
  <2>6. QED
    BY <1>3, <2>3, <2>4, <2>5 DEF TypeOK, ListPage, Bucket, History
<1>4. ASSUME NEW e \in Names, Looked(e), NEW label \in {"list", "look"},
             NEW entries \in SUBSET Names, Enter(label, entries)
      PROVE  TypeOK'
  <2>1. MayFind(e) \subseteq Findings
    BY DEF MayFind, Found, Findings
  <2>2. plan' \in [Names -> Findings] /\ missed' \in BOOLEAN
    BY <1>4, <2>1 DEF Looked, TypeOK
  <2>3. QED
    BY <1>4, <2>2 DEF Looked, Enter, TypeOK, Bucket
<1>5. ASSUME NEW label, LoopEnds(label),
             \/ \E next \in {"clone", "copy", "empty"}, entries \in SUBSET Names : Enter(next, entries)
             \/ End("ok")
      PROVE  TypeOK'
  BY <1>5 DEF LoopEnds, Enter, End, TypeOK, Bucket, History
<1>6. ASSUME NEW d \in Names, Clone(d) PROVE TypeOK'
  <2>1. d \in Dirs /\ [to EXCEPT ![d] = Dir] \in Objects
    BY <1>6, PutType, NamesAssumption DEF TypeOK, Clone
  <2>2. QED
    BY <1>6, <2>1 DEF Clone, Enter, TypeOK, History
<1>7. ASSUME NEW f \in Names, Copy(f) PROVE TypeOK'
  <2>1. from[f] \in Contents \cup {Dir, None} /\ (from[f] = Dir <=> f \in Dirs)
    BY <1>7 DEF TypeOK, Objects, Copy
  <2>2. [to EXCEPT ![f] = from[f]] \in Objects
    BY <2>1, PutType DEF TypeOK
  <2>3. QED
    BY <1>7, <2>2 DEF Copy, Enter, TypeOK, History
<1>8. ASSUME NEW e \in Names, Delete(e) \/ Rmdir(e) PROVE TypeOK'
  <2>1. [from EXCEPT ![e] = None] \in Objects /\ [latest EXCEPT ![e] = None] \in Objects
    BY PutType DEF TypeOK
  <2>2. QED
    BY <1>8, <2>1 DEF Delete, Rmdir, Enter, TypeOK, History
<1>9. ASSUME NEW d \in Names, CheckEmpty(d) PROVE TypeOK'
  BY <1>9 DEF CheckEmpty, Enter, TypeOK, Bucket, History
<1>10. ASSUME NEW e \in Names, NEW content \in Contents \cup {Dir, None}, Put(e, content),
              content # None => (content = Dir <=> e \in Dirs),
              raced' \subseteq Names
       PROVE  TypeOK'
  <2>1. from' \in Objects /\ latest' \in Objects
    BY <1>10, PutType DEF TypeOK, Put
  <2>2. edits' \in 0..MaxEdits
    BY <1>10, NamesAssumption DEF TypeOK, Put
  <2>3. always' \subseteq Names /\ ever' \subseteq Names /\ fresh' \subseteq Names
    BY <1>10, Subsets DEF TypeOK, Put
  <2>4. QED
    BY <1>10, <2>1, <2>2, <2>3 DEF TypeOK, Put
<1>11. CASE BeginRename
  BY <1>1, <1>11, Subsets DEF BeginRename
<1>12. CASE BeginReadDir
  BY <1>1, <1>12 DEF BeginReadDir
<1>13. ASSUME NEW e \in Names, BeginMove(e) \/ BeginRmdir(e) PROVE TypeOK'
  BY <1>1, <1>13 DEF BeginMove, BeginRmdir
<1>14. CASE LookTop
  BY <1>4, <1>14, Subsets DEF LookTop
<1>15. ASSUME NEW e \in Names, Look(e) PROVE TypeOK'
  BY <1>4, <1>15 DEF Look, TypeOK
<1>16. CASE LooksDone \/ ClonesDone \/ CopiesDone \/ RemovesDone
  <2>1. /\ {d \in Dirs : plan[d] # "skip"} \in SUBSET Names
        /\ {f \in Files : plan[f] = "move"} \in SUBSET Names
        /\ {d \in Dirs : plan[d] = "real"} \in SUBSET Names
    BY Subsets
  <2>2. QED
    BY <1>5, <1>16, <2>1 DEF LooksDone, ClonesDone, CopiesDone, RemovesDone
<1>17. ASSUME NEW e \in Names, Mkdir(e) \/ Remove(e) PROVE TypeOK'
  BY <1>10, <1>17, NamesAssumption DEF Mkdir, Remove, TypeOK
<1>18. ASSUME NEW e \in Names, NEW content \in Contents, Store(e, content) PROVE TypeOK'
  <2>1. raced' \subseteq Names
    BY <1>18 DEF Store, TypeOK
  <2>2. content # Dir /\ content # None /\ e \notin Dirs
    BY <1>18, NamesAssumption DEF Store, Files
  <2>3. QED
    BY <1>10, <1>18, <2>1, <2>2 DEF Store
<1>19. CASE UNCHANGED vars
  BY <1>19 DEF vars, TypeOK
<1>20. QED
  BY <1>2, <1>3, <1>6, <1>7, <1>8, <1>9, <1>11, <1>12, <1>13, <1>14, <1>15, <1>16, <1>17, <1>18, <1>19
     DEF Next, Step

-----------------------------------------------------------------------------
(* The invariant                                                            *)

\* Steps that leave the bucket alone, and do not make a file the one to delete.
LEMMA QuietKeeps ==
  ASSUME IInv, TypeOK', UNCHANGED <<from, to, latest, raced>>,
         ClonesThere', RemovesPlanned', phase' # "delete" \/ UNCHANGED <<phase, todo>>
  PROVE  IInv'
<1>1. OldIsLatest' /\ NothingLost'
  BY DEF IInv, OldIsLatest, NothingLost
<1>2. CopiedBeforeDelete'
  BY DEF IInv, CopiedBeforeDelete, IsFirst
<1>3. QED
  BY <1>1, <1>2 DEF IInv

\* What other clients store, make or remove: only a file that is stored while it
\* waits for the delete can be in danger, and it has raced then.
LEMMA PutKeeps ==
  ASSUME IInv, TypeOK', NEW e \in Names, NEW content, Put(e, content),
         \A f \in Names \ {e} : f \in raced <=> f \in raced',
         content = None \/ e \in raced' \/ ~(phase = "delete" /\ IsFirst(e, todo))
  PROVE  IInv'
<1>1. /\ from' = [from EXCEPT ![e] = content] /\ latest' = [latest EXCEPT ![e] = content]
      /\ UNCHANGED <<to, op, phase, todo, plan>>
  BY DEF Put
<1>2. /\ \A f \in Names : from'[f] = IF f = e THEN content ELSE from[f]
      /\ \A f \in Names : latest'[f] = IF f = e THEN content ELSE latest[f]
  BY <1>1 DEF IInv, TypeOK, Objects
<1>3. OldIsLatest' /\ NothingLost'
  BY <1>1, <1>2 DEF IInv, OldIsLatest, NothingLost
<1>4. CopiedBeforeDelete'
  BY <1>1, <1>2 DEF IInv, CopiedBeforeDelete, IsFirst
<1>5. ClonesThere' /\ RemovesPlanned'
  BY <1>1 DEF IInv, ClonesThere, RemovesPlanned
<1>6. QED
  BY <1>3, <1>4, <1>5 DEF IInv

LEMMA StepKeeps == ASSUME IInv, [Next]_vars PROVE IInv'
<1>1. TypeOK'
  BY TypeStep DEF IInv
<1>2. CASE BeginRename \/ BeginReadDir
  BY <1>1, <1>2, QuietKeeps
     DEF BeginRename, BeginReadDir, Begin, Bucket, ClonesThere, RemovesPlanned
<1>3. ASSUME NEW e \in Names, BeginMove(e) \/ BeginRmdir(e) PROVE IInv'
  <2>1. /\ UNCHANGED <<from, to, latest, raced>> /\ plan' = NoPlan
        /\ \/ phase' = "copy" /\ todo' = {e} /\ e \in Files
           \/ phase' = "empty" /\ todo' = {e} /\ e \in Dirs /\ op' = "rmdir"
    BY <1>3 DEF BeginMove, BeginRmdir, Begin, Bucket
  <2>2. \A d \in Dirs : NoPlan[d] = "skip"
    BY Subsets DEF NoPlan
  <2>3. ClonesThere' /\ RemovesPlanned'
    BY <2>1, <2>2 DEF ClonesThere, RemovesPlanned
  <2>4. QED
    BY <1>1, <2>1, <2>3, QuietKeeps
<1>4. CASE Stop \/ ListPage \/ LookTop \/ (\E e \in Names : Look(e)) \/ RemovesDone
  <2>1. /\ UNCHANGED <<from, to, latest, raced>>
        /\ phase' \in {"idle", "list", "look"}
    BY <1>4 DEF Stop, ListPage, LookTop, Look, RemovesDone, LoopEnds, Looked, Enter, End, Bucket
  <2>2. ClonesThere' /\ RemovesPlanned'
    BY <2>1 DEF ClonesThere, RemovesPlanned
  <2>3. QED
    BY <1>1, <2>1, <2>2, QuietKeeps
<1>5. CASE LooksDone \/ ClonesDone \/ CopiesDone
  <2>1. UNCHANGED <<from, to, latest, raced, plan, op>>
    BY <1>5 DEF LooksDone, ClonesDone, CopiesDone, LoopEnds, Enter, Bucket
  <2>2. \/ phase' = "clone" /\ todo' = {d \in Dirs : plan[d] # "skip"}
        \/ phase = "clone" /\ todo = {} /\ phase' = "copy" /\ todo' = {f \in Files : plan[f] = "move"}
        \/ phase = "copy" /\ phase' = "empty" /\ todo' = {d \in Dirs : plan[d] = "real"}
    BY <1>5 DEF LooksDone, ClonesDone, CopiesDone, LoopEnds, Enter
  <2>3. ClonesThere'
    BY <2>1, <2>2 DEF IInv, ClonesThere
  <2>4. RemovesPlanned'
    BY <2>1, <2>2 DEF RemovesPlanned
  <2>5. QED
    BY <1>1, <2>1, <2>2, <2>3, <2>4, QuietKeeps
<1>6. ASSUME NEW d \in Names, Clone(d) PROVE IInv'
  <2>1. /\ phase = "clone" /\ phase' = "clone" /\ todo' = todo \ {d} /\ d \in Dirs
        /\ \A e \in Names : to'[e] = IF e = d THEN Dir ELSE to[e]
        /\ UNCHANGED <<from, latest, raced, plan, op>>
    BY <1>6 DEF Clone, Enter, IInv, TypeOK, Objects
  <2>2. latest[d] \in {None, Dir}
    BY <2>1 DEF IInv, TypeOK, Objects
  <2>3. OldIsLatest' /\ NothingLost'
    BY <2>1, <2>2 DEF IInv, OldIsLatest, NothingLost
  <2>4. ClonesThere' /\ RemovesPlanned' /\ CopiedBeforeDelete'
    BY <2>1, Subsets DEF IInv, ClonesThere, RemovesPlanned, CopiedBeforeDelete
  <2>5. QED
    BY <1>1, <2>3, <2>4 DEF IInv
<1>7. ASSUME NEW f \in Names, Copy(f) PROVE IInv'
  <2>1. /\ phase = "copy" /\ phase' = "delete" /\ todo' = todo /\ IsFirst(f, todo) /\ from[f] # None
        /\ \A e \in Names : to'[e] = IF e = f THEN from[f] ELSE to[e]
        /\ UNCHANGED <<from, latest, raced, plan, op>>
    BY <1>7 DEF Copy, Enter, IInv, TypeOK, Objects
  <2>2. from[f] = latest[f] /\ f \in Files
    BY <2>1 DEF IInv, OldIsLatest, RemovesPlanned, IsFirst
  <2>3. OldIsLatest' /\ NothingLost'
    BY <2>1, <2>2 DEF IInv, OldIsLatest, NothingLost
  <2>4. CopiedBeforeDelete'
    <3>1. ASSUME NEW e \in Names, IsFirst(e, todo) PROVE e = f
      BY <2>1, <3>1, NamesAssumption DEF IsFirst
    <3>2. QED
      BY <2>1, <2>2, <3>1 DEF CopiedBeforeDelete
  <2>5. ClonesThere' /\ RemovesPlanned'
    BY <2>1, <2>2, Subsets DEF IInv, ClonesThere, RemovesPlanned, Files
  <2>6. QED
    BY <1>1, <2>3, <2>4, <2>5 DEF IInv
<1>8. ASSUME NEW f \in Names, Delete(f) PROVE IInv'
  <2>1. /\ phase = "delete" /\ phase' = "copy" /\ todo' = todo \ {f} /\ IsFirst(f, todo)
        /\ \A e \in Names : from'[e] = IF e = f THEN None ELSE from[e]
        /\ UNCHANGED <<to, latest, raced, plan, op>>
    BY <1>8 DEF Delete, Enter, IInv, TypeOK, Objects
  <2>2. f \in raced \/ latest[f] \in {None, to[f]}
    BY <2>1 DEF IInv, CopiedBeforeDelete
  <2>3. OldIsLatest' /\ NothingLost'
    BY <2>1, <2>2 DEF IInv, OldIsLatest, NothingLost
  <2>4. ClonesThere' /\ RemovesPlanned' /\ CopiedBeforeDelete'
    BY <2>1 DEF IInv, ClonesThere, RemovesPlanned, CopiedBeforeDelete
  <2>5. QED
    BY <1>1, <2>3, <2>4 DEF IInv
<1>9. ASSUME NEW d \in Names, CheckEmpty(d) PROVE IInv'
  <2>1. UNCHANGED <<from, to, latest, raced, plan, op, todo>> /\ phase = "empty" /\ phase' = "rmdir"
    BY <1>9 DEF CheckEmpty, Enter, Bucket
  <2>2. ClonesThere' /\ RemovesPlanned'
    BY <2>1 DEF IInv, ClonesThere, RemovesPlanned
  <2>3. QED
    BY <1>1, <2>1, <2>2, QuietKeeps
<1>10. ASSUME NEW d \in Names, Rmdir(d) PROVE IInv'
  <2>1. /\ phase = "rmdir" /\ phase' = "empty" /\ todo' = todo \ {d} /\ IsLast(d, todo)
        /\ \A e \in Names : from'[e] = IF e = d THEN None ELSE from[e]
        /\ \A e \in Names : latest'[e] = IF op = "rmdir" /\ e = d THEN None ELSE latest[e]
        /\ UNCHANGED <<to, raced, plan, op>>
    BY <1>10 DEF Rmdir, Enter, IInv, TypeOK, Objects
  <2>2. op = "rmdir" \/ (to[d] = Dir /\ latest[d] \in {None, Dir})
    BY <2>1, Subsets DEF IInv, ClonesThere, RemovesPlanned, TypeOK, Objects, IsLast
  <2>3. OldIsLatest' /\ NothingLost'
    BY <2>1, <2>2 DEF IInv, OldIsLatest, NothingLost
  <2>4. ClonesThere' /\ RemovesPlanned' /\ CopiedBeforeDelete'
    BY <2>1 DEF IInv, ClonesThere, RemovesPlanned, CopiedBeforeDelete
  <2>5. QED
    BY <1>1, <2>3, <2>4 DEF IInv
<1>11. ASSUME NEW e \in Names, Mkdir(e) PROVE IInv'
  <2>1. ~(phase = "delete" /\ IsFirst(e, todo))
    BY <1>11 DEF IInv, RemovesPlanned, IsFirst, Files, Mkdir
  <2>2. QED
    BY <1>1, <1>11, <2>1, PutKeeps DEF Mkdir
<1>12. ASSUME NEW e \in Names, Remove(e) PROVE IInv'
  BY <1>1, <1>12, PutKeeps DEF Remove
<1>13. ASSUME NEW e \in Names, NEW content \in Contents, Store(e, content) PROVE IInv'
  <2>1. /\ Put(e, content)
        /\ raced' = IF phase = "delete" /\ IsFirst(e, todo) THEN raced \cup {e} ELSE raced \ {e}
    BY <1>13 DEF Store
  <2>2. QED
    BY <1>1, <2>1, PutKeeps
<1>14. CASE UNCHANGED vars
  BY <1>1, <1>14, QuietKeeps DEF vars, IInv, ClonesThere, RemovesPlanned
<1>15. QED
  BY <1>2, <1>3, <1>4, <1>5, <1>6, <1>7, <1>8, <1>9, <1>10, <1>11, <1>12, <1>13, <1>14
     DEF Next, Step

(* Every variable of a rename, a listing and an rmdir keeps its type         *)
(* (ossfs.cpp:1162-1330).                                                    *)
THEOREM NamesTypes == Spec => []TypeOK
<1>1. IInv => TypeOK
  BY DEF IInv
<1>2. QED
  BY <1>1, InitEstablishes, StepKeeps, PTL DEF Spec

(* Wherever a rename stops, whatever failed in it and whatever other clients *)
(* did meanwhile, the last content of every file is under the old or the new *)
(* name, unless it was stored in the moment between the file's copy and its  *)
(* delete (ossfs.cpp:1086-1092, 1284-1325).                                  *)
THEOREM RenameLosesNothing == Spec => []NothingLost
<1>1. IInv => NothingLost
  BY DEF IInv
<1>2. QED
  BY <1>1, InitEstablishes, StepKeeps, PTL DEF Spec

-----------------------------------------------------------------------------
(* What a listing shows, and what a rename leaves behind.  Both lists go    *)
(* through the keys in pages, and what is behind the marker was listed: a   *)
(* page leaves no gap (PageHasNoGap).                                       *)

\* What was under the old name when the call began, and is still there.
Old(e) == from[e] # None /\ e \notin fresh

\* The plan does with an entry what it takes to move it.
Right(e) == plan[e] = IF e \in Files THEN "move" ELSE "real"

OkEnds ==
  /\ result = "ok" => phase = "idle"
  /\ op = "readdir" => phase \in {"idle", "list"}

ListsAll ==
  op = "readdir" =>
    /\ phase = "list" => /\ always \subseteq Children(from) /\ Children(from) \subseteq ever
                         /\ listed \subseteq ever
                         /\ \A e \in always : e <= marker => e \in listed
    /\ result = "ok" => always \subseteq listed /\ listed \subseteq ever

\* As long as no look missed anything: how far each loop of a rename has come.
FindsAll ==
  op = "rename" /\ ~missed =>
    /\ phase = "top" => marker = 0
    /\ phase = "list" =>
         \A e \in Names : Old(e) => IF e = Top THEN Right(e) ELSE e <= marker => e \in listed
    /\ phase = "look" => \A e \in Names : Old(e) => e \in todo \/ Right(e)
    /\ phase = "clone" => \A e \in Names : Old(e) => Right(e)
    /\ phase \in {"copy", "delete"} =>
         \A e \in Names : Old(e) => IF e \in Files THEN e \in todo ELSE Right(e)
    /\ phase \in {"empty", "rmdir"} => \A e \in Names : Old(e) => e \in todo
    /\ result = "ok" => \A e \in Names : ~Old(e)

\* Whatever the looks missed: a Top that has an object is only removed empty.
ChecksTop ==
  op = "rename" /\ plan[Top] = "real" =>
    /\ phase \in {"empty", "rmdir"} => Top \in todo \/ \A e \in Names : ~Old(e)
    /\ result = "ok" => \A e \in Names : ~Old(e)
    /\ phase = "rmdir" /\ IsLast(Top, todo) => \A e \in Names \ {Top} : ~Old(e)

EndInv == OkEnds /\ ListsAll /\ FindsAll /\ ChecksTop

LEMMA PageHasNoGap ==
  ASSUME marker \in Int, NEW keys \in SUBSET Names, NEW e \in Page(keys), NEW d \in keys, marker < d, d <= e
  PROVE  d \in Page(keys)
<1> DEFINE UpTo(x) == {y \in keys : marker < y /\ y <= x}
<1>1. Names \subseteq Int /\ IsFiniteSet(Names) /\ PageLen \in Nat
  BY NamesAssumption
<1>2. UpTo(d) \subseteq UpTo(e) /\ UpTo(e) \subseteq Names
  <2>1. e \in Int /\ d \in Int
    BY <1>1 DEF Page
  <2>2. ASSUME NEW y \in keys, y <= d PROVE y <= e
    <3>1. y \in Int
      BY <1>1
    <3>2. QED
      BY <2>1, <2>2, <3>1
  <2>3. QED
    BY <2>2
<1>3. IsFiniteSet(UpTo(e)) /\ IsFiniteSet(UpTo(d))
  BY <1>1, <1>2, FS_Subset
<1>4. Cardinality(UpTo(d)) <= Cardinality(UpTo(e))
  BY <1>2, <1>3, FS_Subset
<1>5. Cardinality(UpTo(d)) \in Nat /\ Cardinality(UpTo(e)) \in Nat
  BY <1>3, FS_CardinalityType
<1>6. Cardinality(UpTo(e)) <= PageLen
  BY DEF Page
<1>7. Cardinality(UpTo(d)) <= PageLen
  BY <1>1, <1>4, <1>5, <1>6
<1>8. QED
  BY <1>7 DEF Page

\* A key behind the marker is on the page, or behind the next marker.
LEMMA PageGoesOn ==
  ASSUME TypeOK, ListPage
  PROVE  /\ listed \subseteq listed' /\ listed' \subseteq listed \cup (Keys \ {Top})
         /\ \A e \in Keys \ {Top} : marker < e => e \in listed' \/ (phase' = "list" /\ marker' < e)
         /\ \A e \in Keys : e <= marker' => e <= marker \/ e = Top \/ e \in listed'
<1> DEFINE page == Page(Keys)
           more == {e \in Keys : e > marker} \ page
<1>1. marker \in Int /\ Keys \in SUBSET Names /\ Names \subseteq Int
  BY Subsets, NamesAssumption DEF TypeOK, Keys
<1>2. page \subseteq Keys /\ listed' = listed \cup (page \ {Top}) /\ phase = "list"
  BY DEF ListPage, Page
<1>3. CASE more = {}
  <2>1. marker' = marker /\ \A e \in Keys : marker < e => e \in page
    BY <1>1, <1>3 DEF ListPage
  <2> HIDE DEF page, more
  <2>2. QED
    BY <1>2, <2>1
<1>4. CASE more # {}
  <2>1. PICK m \in Names : IsLast(m, page) /\ marker' = m /\ phase' = "list"
    BY <1>2, <1>4 DEF ListPage, NextMarker
  <2>2. m \in page /\ m \in Int
    BY <1>1, <2>1 DEF IsLast
  <2>3. \A e \in Keys : marker < e /\ e <= m => e \in page
    BY <1>1, <2>2, PageHasNoGap
  <2> HIDE DEF page, more
  <2>4. ASSUME NEW e \in Keys
        PROVE  (marker < e => e \in page \/ m < e) /\ (e <= m => e <= marker \/ e \in page)
    <3>1. e \in Int
      BY <1>1
    <3>2. QED
      BY <1>1, <2>2, <2>3, <3>1
  <2>5. QED
    BY <1>2, <2>1, <2>4
<1>5. QED
  BY <1>3, <1>4

\* A look that misses nothing finds of an entry that is there what moves it.
LEMMA FoundIsRight ==
  ASSUME TypeOK, NEW e \in Names, from[e] # None
  PROVE  Found(e) = IF e \in Files THEN "move" ELSE "real"
<1>1. e \notin Files => from[e] = Dir
  BY DEF TypeOK, Objects, Files
<1>2. QED
  BY <1>1 DEF Found

LEMMA EndInit == Init => EndInv
BY DEF Init, EndInv, OkEnds, ListsAll, FindsAll, ChecksTop

LEMMA BeginEnds ==
  ASSUME TypeOK, NEW kind \in {"rename", "move", "readdir", "rmdir"}, NEW label, NEW entries,
         Begin(kind, label, entries),
         kind = "readdir" => label = "list", kind = "rename" => label = "top"
  PROVE  EndInv'
<1>1. /\ op' = kind /\ phase' = label /\ marker' = 0 /\ listed' = {} /\ result' = "none" /\ from' = from
      /\ kind = "readdir" => always' = Children(from) /\ ever' = Children(from)
  BY DEF Begin, Bucket
<1>2. OkEnds'
  BY <1>1 DEF OkEnds
<1>3. ListsAll'
  <2>1. \A e \in Children(from) : ~(e <= 0)
    BY NamesAssumption DEF Children
  <2>2. Children(from)' = Children(from)
    BY <1>1 DEF Children, Shown, Empty
  <2>3. QED
    BY <1>1, <2>1, <2>2 DEF ListsAll
<1>4. FindsAll' /\ ChecksTop'
  BY <1>1 DEF FindsAll, ChecksTop
<1>5. QED
  BY <1>2, <1>3, <1>4 DEF EndInv

LEMMA ListPageEnds ==
  ASSUME TypeOK, EndInv, ListPage
  PROVE  EndInv'
<1>1. /\ phase = "list" /\ UNCHANGED <<from, to, op, plan, fresh, missed, always, ever>>
      /\ \/ phase' = "list" /\ UNCHANGED <<todo, result>>
         \/ phase' = "idle" /\ result' = "ok" /\ op = "readdir"
         \/ phase' = "look" /\ todo' = Hierarchized(listed') /\ result' = result /\ op # "readdir"
  BY DEF ListPage, Enter, End, Bucket, History
<1>2. result # "ok"
  BY <1>1 DEF EndInv, OkEnds
<1>3. OkEnds'
  BY <1>1, <1>2 DEF EndInv, OkEnds
<1>4. ListsAll'
  <2> SUFFICES ASSUME op = "readdir"
               PROVE  /\ always \subseteq Children(from') /\ Children(from') \subseteq ever
                      /\ listed' \subseteq ever
                      /\ \A e \in always : e <= marker' => e \in listed'
                      /\ phase' # "list" => always \subseteq listed'
    BY <1>1, <1>2 DEF ListsAll
  <2>1. Children(from') = Children(from)
    BY <1>1
  <2>2. /\ always \subseteq Children(from) /\ Children(from) \subseteq ever
        /\ listed \subseteq ever /\ \A e \in always : e <= marker => e \in listed
    BY <1>1 DEF EndInv, ListsAll
  <2>3. Children(from) \subseteq Keys /\ Keys \ {Top} \subseteq Children(from) /\ Top \notin Children(from)
    BY NamesAssumption DEF Keys, Children
  <2>4. /\ listed \subseteq listed' /\ listed' \subseteq listed \cup (Keys \ {Top})
        /\ \A e \in Keys \ {Top} : marker < e => e \in listed' \/ phase' = "list"
        /\ \A e \in Keys : e <= marker' => e <= marker \/ e = Top \/ e \in listed'
    BY PageGoesOn
  <2>5. \A e \in always : e <= marker \/ marker < e
    <3>1. marker \in Int /\ \A e \in always : e \in Int
      BY NamesAssumption DEF TypeOK
    <3>2. QED
      BY <3>1
  <2>6. QED
    BY <2>1, <2>2, <2>3, <2>4, <2>5
<1>5. FindsAll'
  <2> SUFFICES ASSUME op = "rename", ~missed, NEW e \in Names, from[e] # None, e \notin fresh
               PROVE  /\ phase' = "list" => IF e = Top THEN Right(e) ELSE e <= marker' => e \in listed'
                      /\ phase' = "look" => e \in todo' \/ Right(e)
    BY <1>1, <1>2 DEF FindsAll, Old, Right
  <2>1. IF e = Top THEN Right(e) ELSE e <= marker => e \in listed
    BY <1>1 DEF EndInv, FindsAll, Old
  <2>2. e \in Keys
    BY DEF Keys
  <2>3. /\ listed \subseteq listed'
        /\ e # Top /\ marker < e => e \in listed' \/ phase' = "list"
        /\ e <= marker' => e <= marker \/ e = Top \/ e \in listed'
    BY <2>2, PageGoesOn
  <2>4. e <= marker \/ marker < e
    <3>1. marker \in Int /\ e \in Int
      BY NamesAssumption DEF TypeOK
    <3>2. QED
      BY <3>1
  <2>5. e # Top /\ e \in listed' => e \in Hierarchized(listed')
    BY DEF Hierarchized
  <2>6. QED
    BY <1>1, <2>1, <2>3, <2>4, <2>5
<1>6. ChecksTop'
  BY <1>1, <1>2 DEF ChecksTop
<1>7. QED
  BY <1>3, <1>4, <1>5, <1>6 DEF EndInv

\* The looks: plan[e] is what was found, and of an entry that is there the right
\* thing, unless the look missed it.
LEMMA LookEnds ==
  ASSUME TypeOK, EndInv, NEW e \in Names, Looked(e),
         \/ e = Top /\ phase = "top" /\ Enter("list", {})
         \/ e \in todo /\ phase = "look" /\ Enter("look", todo \ {e})
  PROVE  EndInv'
<1>1. /\ UNCHANGED <<from, to, op, result, marker, listed, fresh, always, ever>>
      /\ \/ e = Top /\ phase = "top" /\ phase' = "list"
         \/ phase = "look" /\ phase' = "look" /\ todo' = todo \ {e}
  BY DEF Looked, Enter, Bucket
<1>2. OkEnds' /\ ListsAll' /\ ChecksTop'
  BY <1>1 DEF EndInv, OkEnds, ListsAll, ChecksTop
<1>3. ~missed' => ~missed /\ plan' = [plan EXCEPT ![e] = Found(e)]
  BY DEF Looked
<1>4. FindsAll'
  <2> SUFFICES ASSUME op = "rename", ~missed', NEW f \in Names, from[f] # None, f \notin fresh
               PROVE  /\ phase' = "list" => IF f = Top THEN Right(f)' ELSE f <= marker => f \in listed
                      /\ phase' = "look" => f \in todo' \/ Right(f)'
    BY <1>1 DEF EndInv, OkEnds, FindsAll, Old
  <2>1. plan'[f] = IF f = e THEN Found(e) ELSE plan[f]
    BY <1>3 DEF TypeOK
  <2>2. f = e => Right(f)'
    BY <2>1, FoundIsRight DEF Right
  <2>3. f # e /\ Right(f) => Right(f)'
    BY <2>1 DEF Right
  <2>4. CASE phase = "top"
    <3>1. marker = 0 /\ ~(f <= 0)
      BY <2>4, <1>3, NamesAssumption DEF EndInv, FindsAll
    <3>2. QED
      BY <1>1, <2>2, <2>4, <3>1
  <2>5. CASE phase = "look"
    <3>1. f \in todo \/ Right(f)
      BY <1>3, <2>5 DEF EndInv, FindsAll, Old
    <3>2. QED
      BY <1>1, <2>2, <2>3, <2>5, <3>1
  <2>6. QED
    BY <1>1, <2>4, <2>5
<1>5. QED
  BY <1>2, <1>4 DEF EndInv

\* A loop that is done leaves nothing for a later one to miss.
LEMMA LoopEndsWell ==
  ASSUME TypeOK, EndInv, LooksDone \/ ClonesDone \/ CopiesDone \/ RemovesDone
  PROVE  EndInv'
<1>1. todo = {} /\ UNCHANGED <<from, to, op, plan, fresh, missed, marker>>
      /\ phase \in {"look", "clone", "copy", "empty"}
  BY DEF LooksDone, ClonesDone, CopiesDone, RemovesDone, LoopEnds, Enter, End, Bucket, History
<1>2. \/ phase = "look" /\ phase' = "clone" /\ result' = result
      \/ phase = "clone" /\ phase' = "copy" /\ todo' = {f \in Files : plan[f] = "move"} /\ result' = result
      \/ phase = "copy" /\ phase' = "empty" /\ todo' = {d \in Dirs : plan[d] = "real"} /\ result' = result
      \/ phase = "empty" /\ phase' = "idle" /\ result' = "ok" /\ todo' = {}
  BY DEF LooksDone, ClonesDone, CopiesDone, RemovesDone, LoopEnds, Enter, End
<1>3. op # "readdir" /\ result # "ok"
  BY <1>1 DEF EndInv, OkEnds
<1>4. OkEnds' /\ ListsAll'
  BY <1>1, <1>2, <1>3 DEF OkEnds, ListsAll
<1>5. FindsAll'
  BY <1>1, <1>2, <1>3 DEF EndInv, FindsAll, Old, Right, Files
<1>6. ChecksTop'
  BY <1>1, <1>2, <1>3, NamesAssumption DEF EndInv, ChecksTop, Old
<1>7. QED
  BY <1>4, <1>5, <1>6 DEF EndInv

\* Clones and copies touch nothing under the old name, a delete what was copied.
LEMMA MoveEnds ==
  ASSUME TypeOK, EndInv, NEW e \in Names, Clone(e) \/ Copy(e) \/ Delete(e)
  PROVE  EndInv'
<1>1. /\ UNCHANGED <<op, plan, result, fresh, missed, marker>>
      /\ \/ phase = "clone" /\ phase' = "clone" /\ from' = from
         \/ phase = "copy" /\ phase' = "delete" /\ from' = from /\ todo' = todo
         \/ phase = "delete" /\ phase' = "copy" /\ todo' = todo \ {e} /\ from' = [from EXCEPT ![e] = None]
  BY DEF Clone, Copy, Delete, Enter, History
<1>2. \A f \in Names : from'[f] = from[f] \/ (from'[f] = None /\ f = e)
  BY <1>1 DEF TypeOK, Objects
<1>3. op # "readdir" /\ result # "ok"
  BY <1>1 DEF EndInv, OkEnds
<1>4. phase = "delete" => from'[e] = None
  BY <1>1 DEF TypeOK, Objects
<1>5. OkEnds' /\ ListsAll' /\ ChecksTop'
  BY <1>1, <1>3 DEF OkEnds, ListsAll, ChecksTop
<1>6. FindsAll'
  BY <1>1, <1>2, <1>3, <1>4 DEF EndInv, FindsAll, Old, Right
<1>7. QED
  BY <1>5, <1>6 DEF EndInv

\* A directory is checked, then removed: all that came in between is new.
LEMMA CheckEmptyEnds ==
  ASSUME TypeOK, EndInv, NEW d \in Names, CheckEmpty(d)
  PROVE  EndInv'
<1>1. /\ UNCHANGED <<op, plan, result, fresh, missed, marker, from, todo>>
      /\ phase = "empty" /\ phase' = "rmdir" /\ Empty(from, d) /\ IsLast(d, todo)
  BY DEF CheckEmpty, Enter, Bucket, History
<1>2. op # "readdir" /\ result # "ok"
  BY <1>1 DEF EndInv, OkEnds
<1>3. OkEnds' /\ ListsAll' /\ FindsAll'
  BY <1>1, <1>2 DEF EndInv, OkEnds, ListsAll, FindsAll, Old
<1>4. ChecksTop'
  <2>1. IsLast(Top, todo) => d = Top
    <3>1. d \in Int /\ Top \in Int
      BY NamesAssumption
    <3>2. IsLast(Top, todo) => d <= Top /\ Top <= d
      BY <1>1 DEF IsLast
    <3>3. QED
      BY <3>1, <3>2
  <2>2. d = Top => \A e \in Names \ {Top} : from[e] = None
    BY <1>1, NamesAssumption DEF Empty
  <2>3. QED
    BY <1>1, <1>2, <2>1, <2>2 DEF EndInv, ChecksTop, Old, IsLast
<1>5. QED
  BY <1>3, <1>4 DEF EndInv

LEMMA RmdirEnds ==
  ASSUME TypeOK, EndInv, NEW d \in Names, Rmdir(d)
  PROVE  EndInv'
<1>1. /\ UNCHANGED <<op, plan, result, fresh, missed, marker>>
      /\ phase = "rmdir" /\ phase' = "empty" /\ IsLast(d, todo) /\ todo' = todo \ {d}
      /\ \A e \in Names : from'[e] = IF e = d THEN None ELSE from[e]
  BY DEF Rmdir, Enter, History, TypeOK, Objects
<1>2. op # "readdir" /\ result # "ok"
  BY <1>1 DEF EndInv, OkEnds
<1>3. OkEnds' /\ ListsAll' /\ FindsAll'
  BY <1>1, <1>2 DEF EndInv, OkEnds, ListsAll, FindsAll, Old
<1>4. ChecksTop'
  BY <1>1, <1>2 DEF EndInv, ChecksTop, Old
<1>5. QED
  BY <1>3, <1>4 DEF EndInv

\* What another client puts is new, and what it removes is gone.
LEMMA PutEnds ==
  ASSUME TypeOK, EndInv, NEW e \in Names, NEW content, Put(e, content)
  PROVE  EndInv'
<1>1. /\ UNCHANGED <<op, plan, result, missed, marker, phase, todo, listed>>
      /\ phase # "idle"
      /\ \A f \in Names : from'[f] = IF f = e THEN content ELSE from[f]
      /\ fresh' = IF op = "rename" /\ content # None THEN fresh \cup {e} ELSE fresh \ {e}
  BY DEF Put, TypeOK, Objects
<1>2. result # "ok"
  BY <1>1 DEF EndInv, OkEnds
<1>3. OkEnds'
  BY <1>1 DEF EndInv, OkEnds
<1>4. ListsAll'
  <2> SUFFICES ASSUME op = "readdir", phase = "list"
               PROVE  /\ always' \subseteq Children(from') /\ Children(from') \subseteq ever'
                      /\ listed \subseteq ever' /\ \A f \in always' : f <= marker => f \in listed
    BY <1>1, <1>2 DEF ListsAll
  <2>1. always' = always \cap Children(from') /\ ever' = ever \cup Children(from')
    BY DEF Put
  <2>2. QED
    BY <2>1 DEF EndInv, ListsAll
<1>5. op = "rename" => \A f \in Names : Old(f)' => Old(f)
  BY <1>1 DEF Old
<1>6. FindsAll'
  BY <1>1, <1>2, <1>5 DEF EndInv, FindsAll, Right
<1>7. ChecksTop'
  BY <1>1, <1>2, <1>5 DEF EndInv, ChecksTop, IsLast
<1>8. QED
  BY <1>3, <1>4, <1>6, <1>7 DEF EndInv

LEMMA EndStep == ASSUME TypeOK, EndInv, [Next]_vars PROVE EndInv'
<1>1. CASE BeginRename \/ BeginReadDir
  BY <1>1, BeginEnds DEF BeginRename, BeginReadDir
<1>2. ASSUME NEW e \in Names, BeginMove(e) \/ BeginRmdir(e) PROVE EndInv'
  BY <1>2, BeginEnds DEF BeginMove, BeginRmdir
<1>3. CASE Stop
  BY <1>3 DEF Stop, End, EndInv, OkEnds, ListsAll, FindsAll, ChecksTop
<1>4. CASE ListPage
  BY <1>4, ListPageEnds
<1>5. CASE LookTop
  <2>1. Top \in Names
    BY Subsets
  <2>2. QED
    BY <1>5, <2>1, LookEnds DEF LookTop
<1>6. ASSUME NEW e \in Names, Look(e) PROVE EndInv'
  BY <1>6, LookEnds DEF Look
<1>7. CASE LooksDone \/ ClonesDone \/ CopiesDone \/ RemovesDone
  BY <1>7, LoopEndsWell
<1>8. ASSUME NEW e \in Names, Clone(e) \/ Copy(e) \/ Delete(e) PROVE EndInv'
  BY <1>8, MoveEnds
<1>9. ASSUME NEW d \in Names, CheckEmpty(d) \/ Rmdir(d) PROVE EndInv'
  BY <1>9, CheckEmptyEnds, RmdirEnds
<1>10. ASSUME NEW e \in Names, Mkdir(e) \/ Remove(e) \/ \E c \in Contents : Store(e, c) PROVE EndInv'
  BY <1>10, PutEnds DEF Mkdir, Remove, Store
<1>11. CASE UNCHANGED vars
  BY <1>11 DEF vars, EndInv, OkEnds, ListsAll, FindsAll, ChecksTop, Old, Right,
               Children, Shown, Empty, IsLast
<1>12. QED
  BY <1>1, <1>2, <1>3, <1>4, <1>5, <1>6, <1>7, <1>8, <1>9, <1>10, <1>11 DEF Next, Step

LEMMA EndAlways == Spec => []EndInv
BY EndInit, EndStep, NamesTypes, PTL DEF Spec

(* A rename that returns 0 has moved all there was, when no look missed      *)
(* anything; and in any case when the directory has an object, because it    *)
(* is removed last and only when it is empty (ossfs.cpp:1253, 1311).         *)
THEOREM RenameMovesAll == Spec => []RenameReportsTruth
<1>1. EndInv => RenameReportsTruth
  <2> SUFFICES ASSUME EndInv, result = "ok", op = "rename", plan[Top] = "real" \/ ~missed,
                      NEW e \in Names, from[e] # None
               PROVE  e \in fresh
    BY DEF RenameReportsTruth
  <2>1. CASE ~missed
    BY <2>1 DEF EndInv, FindsAll, Old
  <2>2. CASE plan[Top] = "real"
    BY <2>2 DEF EndInv, ChecksTop, OkEnds, Old
  <2>3. QED
    BY <2>1, <2>2
<1>2. QED
  BY <1>1, EndAlways, PTL

(* However many pages a listing takes, and whatever other clients do in      *)
(* between, it shows what was there all the time and nothing that never was  *)
(* (ossfs.cpp:2345-2380).                                                    *)
THEOREM ListingsAreComplete == Spec => []ListingComplete
<1>1. EndInv => ListingComplete
  BY DEF EndInv, ListsAll, ListingComplete
<1>2. QED
  BY <1>1, EndAlways, PTL

==============================================================================
