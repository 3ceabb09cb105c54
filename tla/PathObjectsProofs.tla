-------------------------- MODULE PathObjectsProofs --------------------------
(***************************************************************************)
(* The properties of PathObjects for any modes and contents.  A call that  *)
(* gets beyond its look while a file is stored under p must have missed    *)
(* it, or the file came later (FileStopsCalls); and a chmod never deletes  *)
(* "p/", whichever of the objects its requests find (NowPathIsOld).  What  *)
(* a chmod and an rmdir leave behind follows from what is gone at each of  *)
(* their phases (EndInv).                                                  *)
(***************************************************************************)
EXTENDS PathObjects, TLAPS

FileStopsCalls ==
  stored # None /\ ~missed /\ ~raced =>
    phase \in {"idle", FirstLook(op)} /\ object["plain"] = stored

PhaseFitsCall ==
  /\ op = "none" => phase = "idle"
  /\ op = "chmod" => mode \in Modes
  /\ op = "chmod" => phase \notin {"ask", "empty", "deleteNew", "checkOld", "deleteOld", "checkFolder", "deleteFolder"}
  /\ op = "mkdir" => mode \in Modes
  /\ phase = "ask" => op \in {"create", "rmdir"}
  /\ phase \in {"look", "type", "remove", "put"} => op \in {"chmod", "mkdir", "create"}
  /\ phase = "remove" => nowpath \in {"plain", "folder"}

IInv == TypeOK /\ FileStopsCalls /\ PhaseFitsCall /\ NewFormStays

LEMMA NowPathIsOld ==
  ASSUME NEW there \in SUBSET Keys
  PROVE  NowPath(there) \subseteq {"plain", "folder"}
BY DEF NowPath, Keys

LEMMA ObjectType ==
  ASSUME NEW o \in Objects
  PROVE  /\ o \in [Keys -> Modes \cup Contents \cup {None}]
         /\ o["slash"] \in Modes \cup {None} /\ o["folder"] \in Modes \cup {None}
         /\ o["plain"] \in Modes \cup Contents \cup {None}
BY DEF Objects, Keys

LEMMA PutType ==
  ASSUME NEW o \in Objects, NEW k \in Keys, NEW v \in Modes \cup Contents \cup {None},
         k = "plain" \/ v \notin Contents, NEW put, put = [o EXCEPT ![k] = v]
  PROVE  put \in Objects
BY ObjectType DEF Objects, Keys

\* A file is what a lookup finds, unless the request for it fails.
LEMMA LookupFindsFile ==
  ASSUME NEW down \in SUBSET Keys, object \in Objects, object["plain"] \in Contents,
         "plain" \notin down
  PROVE  /\ ~Asked(Lookup(object, below, down))
         /\ op # "create" => ~GoesOn(Lookup(object, below, down))
<1>1. object["plain"] # None /\ object["plain"] \notin Modes
  BY PathAssumption
<1>2. "plain" \in {k \in Keys \ down : object[k] # None}
  BY <1>1 DEF Keys
<1>3. Lookup(object, below, down) = object["plain"]
  BY <1>2 DEF Lookup
<1>4. QED
  BY <1>1, <1>3, PathAssumption DEF Asked, GoesOn, IsDir

LEMMA InitInv == Init => IInv
BY ObjectType DEF Init, IInv, TypeOK, FileStopsCalls, PhaseFitsCall, NewFormStays, FirstLook

-----------------------------------------------------------------------------
(* Each action keeps the invariant.                                         *)

LEMMA BeginKeeps ==
  ASSUME IInv, NEW kind \in {"mkdir", "create", "chmod", "rmdir"}, NEW m \in Modes \cup {None},
         kind \in {"mkdir", "chmod"} => m \in Modes, Begin(kind, m)
  PROVE  IInv'
<1>1. TypeOK'
  <2>2. stored' \in Contents \cup {None}
    BY DEF Begin
  <2>3. /\ object' = object /\ below' = below /\ op' = kind /\ mode' = m /\ phase' \in {"ask", "look"}
        /\ nowpath' = None /\ result' = "none" /\ before' = object /\ missed' = FALSE /\ raced' = FALSE
    BY DEF Begin, FirstLook
  <2>4. QED
    BY <2>2, <2>3 DEF IInv, TypeOK
<1>2. FileStopsCalls' /\ PhaseFitsCall' /\ NewFormStays'
  BY DEF Begin, FirstLook, FileStopsCalls, PhaseFitsCall, NewFormStays
<1>3. QED
  BY <1>1, <1>2 DEF IInv

\* The two looks: a file that is there when the first of them is made is found.
LEMMA LookKeeps ==
  ASSUME IInv, NEW down \in SUBSET Keys, Ask(down) \/ Look(down)
  PROVE  IInv'
<1>1. /\ UNCHANGED <<op, mode, before, stored, object, below, raced, nowpath>>
      /\ Misses(down) /\ result' \in {result, "error"}
      /\ \/ phase' = "idle"
         \/ phase' = "look" /\ op = "create"
         \/ phase' = "empty" /\ op # "chmod"
         \/ phase' = FirstPhase /\ op \in {"chmod", "mkdir", "create"}
  BY DEF Ask, Look, Calls, Answers, IInv, PhaseFitsCall
<1>2. TypeOK'
  BY <1>1 DEF IInv, TypeOK, FirstPhase, Misses
<1>3. FileStopsCalls'
  <2> SUFFICES ASSUME stored # None, ~missed', ~raced
               PROVE  phase' = "idle" /\ object["plain"] = stored
    BY <1>1 DEF FileStopsCalls
  <2>1. ~missed /\ object["plain"] = stored /\ phase \in {"idle", FirstLook(op)}
    BY <1>1 DEF IInv, FileStopsCalls, Misses
  <2>2. object["plain"] \in Contents /\ object["plain"] # None /\ object \in Objects
    BY <2>1 DEF IInv, TypeOK
  <2>3. "plain" \notin down
    BY <1>1, <2>2 DEF Misses
  <2>4. /\ ~Asked(Lookup(object, below, down))
        /\ op # "create" => ~GoesOn(Lookup(object, below, down))
    BY <2>2, <2>3, LookupFindsFile
  <2>5. CASE Ask(down)
    BY <2>1, <2>4, <2>5 DEF Ask
  <2>6. CASE Look(down)
    <3>1. op # "create"
      BY <2>1, <2>6 DEF Look, FirstLook
    <3>2. QED
      BY <2>1, <2>4, <2>6, <3>1 DEF Look
  <2>7. QED
    BY <2>5, <2>6
<1>4. PhaseFitsCall'
  <2>1. op # "none"
    BY DEF Ask, Look, IInv, PhaseFitsCall
  <2>2. QED
    BY <1>1, <2>1 DEF IInv, TypeOK, PhaseFitsCall, FirstPhase
<1>5. NewFormStays'
  BY <1>1 DEF IInv, NewFormStays
<1>6. QED
  BY <1>2, <1>3, <1>4, <1>5 DEF IInv

\* The actions that change no object and cannot start a call.
LEMMA QuietKeeps ==
  ASSUME IInv,
         \/ \E down \in SUBSET Keys : Type(down) \/ CheckOld(down) \/ CheckFolder(down)
         \/ Stop \/ CheckEmpty
  PROVE  IInv'
<1>1. TypeOK'
  <2>1. /\ UNCHANGED <<object, below, op, mode, before, stored, raced>>
        /\ missed' \in BOOLEAN
        /\ result' \in {result, "error"}
        /\ phase' \in {"idle", "put", "remove", "deleteNew", "deleteOld", "checkFolder", "deleteFolder"}
    BY DEF IInv, TypeOK, Type, CheckOld, CheckFolder, Stop, CheckEmpty, Calls, Answers, Misses
  <2>2. nowpath' \in Keys \cup {None}
    <3>1. CASE \E down \in SUBSET Keys : Type(down)
      BY <3>1, NowPathIsOld DEF IInv, TypeOK, Type, Keys
    <3>2. CASE UNCHANGED nowpath
      BY <3>2 DEF IInv, TypeOK
    <3>3. QED
      BY <3>1, <3>2 DEF CheckOld, CheckFolder, Stop, CheckEmpty
  <2>3. QED
    BY <2>1, <2>2 DEF IInv, TypeOK
<1>2. FileStopsCalls' /\ NewFormStays'
  BY DEF IInv, FileStopsCalls, FirstLook, NewFormStays, Type, CheckOld, CheckFolder, Stop, CheckEmpty, Calls, Answers, Misses
<1>3. PhaseFitsCall'
  <2>1. CASE \E down \in SUBSET Keys : Type(down)
    BY <2>1, NowPathIsOld DEF IInv, PhaseFitsCall, Type, Calls, Answers, Keys
  <2>2. CASE \/ \E down \in SUBSET Keys : CheckOld(down) \/ CheckFolder(down)
             \/ Stop \/ CheckEmpty
    BY <2>2 DEF IInv, PhaseFitsCall, CheckOld, CheckFolder, Stop, CheckEmpty, Calls, Answers
  <2>3. QED
    BY <2>1, <2>2
<1>4. QED
  BY <1>1, <1>2, <1>3 DEF IInv

\* A chmod deletes an older form and puts "p/".
LEMMA WriteKeeps ==
  ASSUME IInv, Remove \/ Put
  PROVE  IInv'
<1>1. CASE Remove
  <2>1. nowpath \in {"plain", "folder"} /\ op \in {"chmod", "mkdir", "create"}
    BY <1>1 DEF IInv, PhaseFitsCall, Remove
  <2>2. object' \in Objects /\ object'["slash"] = object["slash"]
    <3>1. object' = [object EXCEPT ![nowpath] = None] /\ object \in Objects
      BY <1>1 DEF Remove, IInv, TypeOK
    <3>2. nowpath \in Keys /\ None \notin Contents /\ nowpath # "slash" /\ "slash" \in Keys
      BY <2>1, PathAssumption DEF Keys
    <3>3. \A j \in Keys : object'[j] = IF j = nowpath THEN None ELSE object[j]
      BY <3>1, ObjectType
    <3>4. object' \in Objects
      BY <3>1, <3>2, PutType
    <3>5. QED
      BY <3>2, <3>3, <3>4
  <2>3. phase' = "put" /\ UNCHANGED <<op, mode, before, stored, below, nowpath, result, missed, raced>>
    BY <1>1 DEF Remove, Calls
  <2>4. phase = "remove"
    BY <1>1 DEF Remove
  <2>5. TypeOK'
    BY <2>2, <2>3 DEF IInv, TypeOK
  <2>6. FileStopsCalls' /\ PhaseFitsCall' /\ NewFormStays'
    BY <2>1, <2>2, <2>3, <2>4 DEF IInv, FileStopsCalls, FirstLook, PhaseFitsCall, NewFormStays
  <2>7. QED
    BY <2>5, <2>6 DEF IInv
<1>2. CASE Put
  <2>1. op \in {"chmod", "mkdir", "create"} /\ (op # "create" => mode \in Modes)
    BY <1>2 DEF IInv, PhaseFitsCall, Put
  <2>2. object' \in Objects /\ (op = "chmod" => object'["slash"] # None)
    <3>1. object \in Objects /\ {"plain", "slash"} \subseteq Keys /\ New \in Contents
      BY PathAssumption DEF IInv, TypeOK, Keys
    <3>2. CASE op = "create"
      <4>1. object' = [object EXCEPT !["plain"] = New]
        BY <1>2, <3>2 DEF Put
      <4>2. QED
        BY <3>1, <3>2, <4>1, PutType
    <3>3. CASE op # "create"
      <4>1. object' = [object EXCEPT !["slash"] = mode]
        BY <1>2, <3>3 DEF Put
      <4>2. mode \in Modes /\ mode # None /\ mode \notin Contents
        BY <2>1, <3>3, PathAssumption
      <4>3. \A j \in Keys : object'[j] = IF j = "slash" THEN mode ELSE object[j]
        BY <3>1, <4>1, ObjectType
      <4>4. object' \in Objects
        BY <3>1, <4>1, <4>2, PutType
      <4>5. QED
        BY <3>1, <4>2, <4>3, <4>4
    <3>4. QED
      BY <3>2, <3>3
  <2>3. phase' = "idle" /\ result' = "ok" /\ UNCHANGED <<op, mode, before, stored, below, nowpath, missed, raced>>
    BY <1>2 DEF Put, End, Calls
  <2>4. phase = "put"
    BY <1>2 DEF Put
  <2>5. TypeOK'
    BY <2>2, <2>3 DEF IInv, TypeOK
  <2>6. FileStopsCalls' /\ PhaseFitsCall' /\ NewFormStays'
    BY <2>1, <2>2, <2>3, <2>4 DEF IInv, FileStopsCalls, FirstLook, PhaseFitsCall, NewFormStays
  <2>7. QED
    BY <2>5, <2>6 DEF IInv
<1>3. QED
  BY <1>1, <1>2

LEMMA DeleteKeeps ==
  ASSUME IInv, NEW ok \in BOOLEAN, DeleteNew(ok) \/ DeleteOld(ok) \/ DeleteFolder(ok)
  PROVE  IInv'
<1> DEFINE key == IF phase = "deleteNew" THEN "slash" ELSE IF phase = "deleteOld" THEN "plain" ELSE "folder"
<1>1. Deletes(key, ok) /\ key \in Keys /\ phase \in {"deleteNew", "deleteOld", "deleteFolder"}
      /\ phase' \in {"checkOld", "checkFolder", "idle"}
  BY DEF DeleteNew, DeleteOld, DeleteFolder, Keys
<1>2. object' \in Objects
  <2>1. object \in Objects /\ None \notin Contents /\ object' \in {[object EXCEPT ![key] = None], object}
    BY <1>1, PathAssumption DEF Deletes, IInv, TypeOK
  <2> HIDE DEF key
  <2>2. QED
    BY <1>1, <2>1, PutType
<1>3. op # "chmod"
  BY <1>1 DEF IInv, PhaseFitsCall
<1> HIDE DEF key
<1>4. QED
  BY <1>1, <1>2, <1>3 DEF IInv, TypeOK, FileStopsCalls, FirstLook, PhaseFitsCall, NewFormStays, Deletes, Calls

LEMMA OthersKeep ==
  ASSUME IInv, (\E content \in Contents : Store(content)) \/ StoreBelow
  PROVE  IInv'
<1>1. CASE \E content \in Contents : Store(content)
  <2>1. PICK content \in Contents : Store(content)
    BY <1>1
  <2>2. object' \in Objects /\ object'["slash"] = object["slash"] /\ object'["plain"] = content
    <3>1. object' = [object EXCEPT !["plain"] = content] /\ object \in Objects
          /\ {"plain", "slash"} \subseteq Keys
      BY <2>1 DEF Store, IInv, TypeOK, Keys
    <3>2. \A j \in Keys : object'[j] = IF j = "plain" THEN content ELSE object[j]
      BY <3>1, ObjectType
    <3>3. object' \in Objects
      BY <3>1, PutType
    <3>4. QED
      BY <3>1, <3>2, <3>3
  <2>3. phase # FirstLook(op) => raced'
    BY <2>1 DEF Store
  <2>4. /\ UNCHANGED <<below, op, mode, phase, nowpath, result, before, missed>>
        /\ stored' = content /\ raced' \in BOOLEAN
    BY <2>1 DEF Store, IInv, TypeOK
  <2>5. TypeOK'
    BY <2>2, <2>4 DEF IInv, TypeOK
  <2>6. PhaseFitsCall' /\ NewFormStays'
    BY <2>2, <2>4 DEF IInv, PhaseFitsCall, NewFormStays
  <2>7. FileStopsCalls'
    BY <2>2, <2>3, <2>4 DEF FileStopsCalls
  <2>8. QED
    BY <2>5, <2>6, <2>7 DEF IInv
<1>2. CASE StoreBelow
  BY <1>2 DEF StoreBelow, Calls, IInv, TypeOK, FileStopsCalls, PhaseFitsCall, NewFormStays
<1>3. QED
  BY <1>1, <1>2

LEMMA StepKeeps == IInv /\ [Next]_vars => IInv'
<1> SUFFICES ASSUME IInv, [Next]_vars PROVE IInv'
  OBVIOUS
<1>1. CASE UNCHANGED vars
  BY <1>1 DEF vars, IInv, TypeOK, FileStopsCalls, PhaseFitsCall, NewFormStays
<1>2. CASE \E kind \in {"mkdir", "create", "chmod", "rmdir"}, m \in Modes \cup {None} :
             (kind \in {"mkdir", "chmod"} => m \in Modes) /\ Begin(kind, m)
  BY <1>2, BeginKeeps
<1>3. CASE \E down \in SUBSET Keys : Ask(down) \/ Look(down)
  BY <1>3, LookKeeps
<1>4. CASE Remove \/ Put
  BY <1>4, WriteKeeps
<1>5. CASE \E ok \in BOOLEAN : DeleteNew(ok) \/ DeleteOld(ok) \/ DeleteFolder(ok)
  BY <1>5, DeleteKeeps
<1>6. CASE (\E content \in Contents : Store(content)) \/ StoreBelow
  BY <1>6, OthersKeep
<1>7. CASE (\E down \in SUBSET Keys : Type(down) \/ CheckOld(down) \/ CheckFolder(down)) \/ Stop \/ CheckEmpty
  BY <1>7, QuietKeeps
<1>8. QED
  BY <1>1, <1>2, <1>3, <1>4, <1>5, <1>6, <1>7 DEF Next

THEOREM InvAlways == Spec => []IInv
BY InitInv, StepKeeps, PTL DEF Spec

(* Whatever objects a path has and whatever another client stores meanwhile, *)
(* a file is lost only to a failed look, or when it came after the first one *)
(* - for a create the kernel's (ossfs.cpp:828-839).                          *)
THEOREM FilesAreKept == Spec => []FileKept
<1>1. IInv => FileKept
  BY DEF IInv, FileStopsCalls, FileKept
<1>2. QED
  BY <1>1, InvAlways, PTL

(* However a chmod of a directory ends, "p/" is there if it was.             *)
THEOREM ChmodKeepsDirectory == Spec => []NewFormStays
<1>1. IInv => NewFormStays
  BY DEF IInv
<1>2. QED
  BY <1>1, InvAlways, PTL

(* The types of the state.                                                   *)
THEOREM PathTypes == Spec => []TypeOK
<1>1. IInv => TypeOK
  BY DEF IInv
<1>2. QED
  BY <1>1, InvAlways, PTL

-----------------------------------------------------------------------------
(* What a call that returned 0 leaves behind: along the phases of a chmod   *)
(* and of an rmdir, the objects that are gone by then stay away, as long as *)
(* no request failed unnoticed.                                             *)

Ended == phase = "idle" /\ result = "ok"

\* Unless all three were there, "p" is gone when a chmod puts "p/".
ChmodReplaces ==
  op = "chmod" /\ ~missed /\ ~raced =>
    /\ stored = None /\ phase \in {"look", "type"} => object = before
    /\ (\E k \in Keys : before[k] = None) =>
         /\ phase = "remove" => nowpath = "plain" \/ object["plain"] = None
         /\ phase = "put" \/ Ended => object["plain"] = None
    /\ result = "ok" => phase = "idle" /\ object["slash"] = mode

\* An rmdir takes the forms in turn; a file that comes to p is not a directory.
RmdirRemoves ==
  op = "rmdir" /\ ~missed =>
    /\ phase \in {"checkOld", "deleteOld", "checkFolder", "deleteFolder"} \/ Ended => object["slash"] = None
    /\ phase \in {"checkFolder", "deleteFolder"} \/ Ended => object["plain"] \notin Modes
    /\ Ended => object["folder"] = None

EndInv == ChmodReplaces /\ RmdirRemoves

\* Unless all three objects are there, the one to delete is "p", or there is no "p".
LEMMA NowPathClears ==
  ASSUME NEW there \in SUBSET Keys, there # Keys
  PROVE  /\ NowPath(there) = {} => "plain" \notin there
         /\ \A k \in NowPath(there) : k = "plain" \/ "plain" \notin there
BY DEF NowPath, Keys

LEMMA EndInit == Init => EndInv
BY DEF Init, EndInv, ChmodReplaces, RmdirRemoves

\* The actions of a chmod.
LEMMA TypeEnds ==
  ASSUME IInv, EndInv, NEW down \in SUBSET Keys, Type(down)
  PROVE  EndInv'
<1> DEFINE there == {k \in Keys \ down : object[k] # None}
<1>1. phase = "type" /\ UNCHANGED <<op, mode, before, stored, object, below, raced, result>>
  BY DEF Type, Calls, Answers
<1>2. phase' \in {"put", "remove"} /\ (missed => missed')
  BY DEF Type, Misses
<1>3. RmdirRemoves'
  BY <1>1, <1>2 DEF IInv, PhaseFitsCall, RmdirRemoves, Ended
<1>4. ChmodReplaces'
  <2> SUFFICES ASSUME op = "chmod", ~missed', ~raced, NEW k \in Keys, before[k] = None
               PROVE  /\ phase' = "remove" => nowpath' = "plain" \/ object["plain"] = None
                      /\ phase' = "put" => object["plain"] = None
    BY <1>1, <1>2 DEF EndInv, ChmodReplaces, Ended
  <2>1. ~missed /\ \A j \in down : object[j] = None
    BY DEF Type, Misses
  <2>2. object = before
    BY <1>1, <2>1 DEF IInv, FileStopsCalls, FirstLook, EndInv, ChmodReplaces
  <2>3. k \notin there /\ there \in SUBSET Keys
    BY <2>2
  <2>4. object["plain"] # None => "plain" \in there
    BY <2>1 DEF Keys
  <2>5. /\ NowPath(there) = {} => "plain" \notin there
        /\ \A j \in NowPath(there) : j = "plain" \/ "plain" \notin there
    BY <2>3, NowPathClears
  <2>6. IF NowPath(there) = {} THEN phase' = "put" ELSE phase' = "remove" /\ nowpath' \in NowPath(there)
    BY DEF Type
  <2> HIDE DEF there
  <2>7. QED
    BY <2>4, <2>5, <2>6
<1>5. QED
  BY <1>3, <1>4 DEF EndInv

LEMMA RemoveEnds ==
  ASSUME IInv, EndInv, Remove
  PROVE  EndInv'
<1>1. /\ phase = "remove" /\ phase' = "put"
      /\ UNCHANGED <<op, mode, before, stored, nowpath, result, missed, raced>>
  BY DEF Remove, Calls
<1>2. object' = [object EXCEPT ![nowpath] = None] /\ object \in [Keys -> Modes \cup Contents \cup {None}]
  BY ObjectType DEF Remove, IInv, TypeOK
<1>3. object'["plain"] = IF nowpath = "plain" THEN None ELSE object["plain"]
  BY <1>2 DEF Keys
<1>4. op # "rmdir"
  BY <1>1 DEF IInv, PhaseFitsCall
<1>5. QED
  BY <1>1, <1>3, <1>4 DEF EndInv, ChmodReplaces, RmdirRemoves, Ended

LEMMA PutEnds ==
  ASSUME IInv, EndInv, Put
  PROVE  EndInv'
<1>1. /\ phase = "put" /\ phase' = "idle" /\ op # "rmdir"
      /\ UNCHANGED <<op, mode, before, stored, missed, raced>>
  BY DEF Put, End, Calls, IInv, PhaseFitsCall
<1>2. op = "chmod" => object'["slash"] = mode /\ object'["plain"] = object["plain"]
  <2> SUFFICES ASSUME op = "chmod"
               PROVE  object'["slash"] = mode /\ object'["plain"] = object["plain"]
    OBVIOUS
  <2>1. object' = [object EXCEPT !["slash"] = mode] /\ object \in [Keys -> Modes \cup Contents \cup {None}]
    BY ObjectType DEF Put, IInv, TypeOK
  <2>2. QED
    BY <2>1 DEF Keys
<1>3. QED
  BY <1>1, <1>2 DEF EndInv, ChmodReplaces, RmdirRemoves, Ended

\* The DELETEs and the checks of an rmdir.
LEMMA DeleteEnds ==
  ASSUME IInv, EndInv, NEW ok \in BOOLEAN, DeleteNew(ok) \/ DeleteOld(ok) \/ DeleteFolder(ok)
  PROVE  EndInv'
<1> DEFINE key == IF phase = "deleteNew" THEN "slash" ELSE IF phase = "deleteOld" THEN "plain" ELSE "folder"
<1>1. /\ Deletes(key, ok) /\ phase \in {"deleteNew", "deleteOld", "deleteFolder"}
      /\ phase' = IF phase = "deleteNew" THEN "checkOld" ELSE IF phase = "deleteOld" THEN "checkFolder" ELSE "idle"
  BY DEF DeleteNew, DeleteOld, DeleteFolder
<1>2. op # "chmod" /\ UNCHANGED <<op, mode, before, stored, nowpath, raced>> /\ (missed \/ ~ok => missed')
  BY <1>1 DEF IInv, PhaseFitsCall, Deletes, Calls
<1>3. ok => \A k \in Keys : object'[k] = IF k = key THEN None ELSE object[k]
  <2> SUFFICES ASSUME ok PROVE \A k \in Keys : object'[k] = IF k = key THEN None ELSE object[k]
    OBVIOUS
  <2>1. object' = [object EXCEPT ![key] = None] /\ object \in [Keys -> Modes \cup Contents \cup {None}]
    BY <1>1, ObjectType DEF Deletes, IInv, TypeOK
  <2> HIDE DEF key
  <2>2. QED
    BY <2>1
<1>4. RmdirRemoves'
  <2> SUFFICES ASSUME op = "rmdir", ok, ~missed, ~missed' PROVE RmdirRemoves'
    BY <1>2 DEF RmdirRemoves
  <2>1. \A k \in Keys : object'[k] = IF k = key THEN None ELSE object[k]
    BY <1>3
  <2>2. {"slash", "plain", "folder"} \subseteq Keys /\ None \notin Modes
    BY PathAssumption DEF Keys
  <2>3. QED
    BY <1>1, <2>1, <2>2 DEF EndInv, RmdirRemoves, Ended
<1>5. QED
  BY <1>2, <1>4 DEF EndInv, ChmodReplaces

LEMMA CheckEnds ==
  ASSUME IInv, EndInv, NEW down \in SUBSET Keys, CheckOld(down) \/ CheckFolder(down)
  PROVE  EndInv'
<1>1. /\ phase \in {"checkOld", "checkFolder"} /\ op # "chmod"
      /\ UNCHANGED <<op, mode, before, stored, object, below, raced, nowpath, result>>
  BY DEF CheckOld, CheckFolder, Calls, Answers, IInv, PhaseFitsCall
<1>2. RmdirRemoves'
  <2> SUFFICES ASSUME op = "rmdir", ~missed' PROVE RmdirRemoves'
    BY <1>1 DEF RmdirRemoves
  <2>1. CASE CheckOld(down)
    <3>1. ~missed /\ ("plain" \in down => object["plain"] = None)
      BY <2>1 DEF CheckOld, Misses
    <3>2. phase = "checkOld" /\ (phase' = "deleteOld" \/ (phase' = "checkFolder" /\ object["plain"] \notin Modes))
      BY <2>1, <3>1, PathAssumption DEF CheckOld
    <3>3. QED
      BY <1>1, <3>1, <3>2 DEF EndInv, RmdirRemoves, Ended
  <2>2. CASE CheckFolder(down)
    <3>1. ~missed /\ ("folder" \in down => object["folder"] = None)
      BY <2>2 DEF CheckFolder, Misses
    <3>2. phase = "checkFolder" /\ (phase' = "deleteFolder" \/ (phase' = "idle" /\ object["folder"] = None))
      BY <2>2, <3>1 DEF CheckFolder
    <3>3. QED
      BY <1>1, <3>1, <3>2 DEF EndInv, RmdirRemoves, Ended
  <2>3. QED
    BY <2>1, <2>2
<1>3. QED
  BY <1>1, <1>2 DEF EndInv, ChmodReplaces

\* A file of another client hides nothing that a chmod made before it came.
LEMMA StoreEnds ==
  ASSUME IInv, EndInv, NEW content \in Contents, Store(content)
  PROVE  EndInv'
<1>1. /\ UNCHANGED <<op, mode, before, phase, nowpath, result, missed>>
      /\ stored' = content /\ (op = "chmod" /\ phase # "look" => raced') /\ (raced => raced')
  BY DEF Store, FirstLook
<1>2. content # None /\ content \notin Modes
  BY PathAssumption
<1>3. /\ object'["plain"] = content
      /\ object'["slash"] = object["slash"] /\ object'["folder"] = object["folder"]
  <2>1. object' = [object EXCEPT !["plain"] = content] /\ object \in [Keys -> Modes \cup Contents \cup {None}]
    BY ObjectType DEF Store, IInv, TypeOK
  <2>2. QED
    BY <2>1 DEF Keys
<1>4. QED
  BY <1>1, <1>2, <1>3 DEF EndInv, ChmodReplaces, RmdirRemoves, Ended

LEMMA EndStep == IInv /\ EndInv /\ [Next]_vars => EndInv'
<1> SUFFICES ASSUME IInv, EndInv, [Next]_vars PROVE EndInv'
  OBVIOUS
<1> USE DEF EndInv, ChmodReplaces, RmdirRemoves, Ended
<1>1. CASE UNCHANGED vars \/ StoreBelow
  BY <1>1 DEF vars, StoreBelow, Calls
<1>2. CASE \E kind \in {"mkdir", "create", "chmod", "rmdir"}, m \in Modes \cup {None} : Begin(kind, m)
  BY <1>2 DEF Begin, FirstLook
<1>3. CASE \E down \in SUBSET Keys : Ask(down) \/ Look(down)
  <2>1. PICK down \in SUBSET Keys : Ask(down) \/ Look(down)
    BY <1>3
  <2>2. /\ (phase' \in {"look", "type", "empty", "put"} /\ result' = result) \/ result' = "error"
        /\ phase' \in {"look", "type", "empty", "put", "idle"} /\ phase \in {"ask", "look"}
        /\ (op = "chmod" => phase = "look" /\ phase' # "put") /\ (missed => missed')
        /\ UNCHANGED <<op, mode, before, object, stored, raced, nowpath>>
    BY <2>1 DEF Ask, Look, FirstPhase, Misses, Calls, Answers, IInv, PhaseFitsCall
  <2>3. QED
    BY <2>2
<1>4. CASE Stop \/ CheckEmpty
  BY <1>4 DEF Stop, CheckEmpty, Calls, Answers
<1> USE DEF IInv
<1>5. CASE \E down \in SUBSET Keys : Type(down) \/ CheckOld(down) \/ CheckFolder(down)
  BY <1>5, TypeEnds, CheckEnds
<1>6. CASE Remove \/ Put
  BY <1>6, RemoveEnds, PutEnds
<1>7. CASE \E ok \in BOOLEAN : DeleteNew(ok) \/ DeleteOld(ok) \/ DeleteFolder(ok)
  BY <1>7, DeleteEnds
<1>8. CASE \E content \in Contents : Store(content)
  BY <1>8, StoreEnds
<1>9. QED
  BY <1>1, <1>2, <1>3, <1>4, <1>5, <1>6, <1>7, <1>8 DEF Next

LEMMA EndAlways == Spec => []EndInv
BY EndInit, EndStep, InvAlways, PTL DEF Spec

(* A chmod of a directory that returns 0 is seen by the next lookup, unless  *)
(* a request failed unnoticed, a file came after the look, or all three      *)
(* objects were there.                                                       *)
THEOREM ChmodIsSeen == Spec => []ChmodTakesEffect
<1>1. IInv /\ EndInv => ChmodTakesEffect
  <2> SUFFICES ASSUME IInv, EndInv, result = "ok", op = "chmod", ~missed, ~raced,
                      \E k \in Keys : before[k] = None
               PROVE  Lookup(object, below, {}) = mode
    BY DEF ChmodTakesEffect
  <2>1. phase = "idle"
    BY DEF EndInv, ChmodReplaces
  <2>2. object["plain"] = None /\ object["slash"] = mode /\ mode # None
    BY <2>1, PathAssumption DEF IInv, EndInv, ChmodReplaces, Ended, PhaseFitsCall
  <2>3. QED
    BY <2>2 DEF Lookup, Keys
<1>2. QED
  BY <1>1, InvAlways, EndAlways, PTL

(* After an rmdir that returns 0 no form of the directory is left, unless a  *)
(* request failed unnoticed.                                                 *)
THEOREM RmdirIsComplete == Spec => []RmdirRemovesAll
<1>1. IInv /\ EndInv => RmdirRemovesAll
  <2> SUFFICES ASSUME EndInv, phase = "idle", result = "ok", op = "rmdir", ~missed, NEW k \in Keys
               PROVE  object[k] \notin Modes
    BY DEF RmdirRemovesAll
  <2>1. object["slash"] = None /\ object["plain"] \notin Modes /\ object["folder"] = None
    BY DEF EndInv, RmdirRemoves, Ended
  <2>2. QED
    BY <2>1, PathAssumption DEF Keys
<1>2. QED
  BY <1>1, InvAlways, EndAlways, PTL

==============================================================================
