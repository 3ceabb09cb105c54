---------------------------- MODULE StatCacheProofs ----------------------------
(***************************************************************************)
(* An entry of the stat cache is what the server would answer now, for     *)
(* every number of threads, paths and calls.                               *)
(*                                                                         *)
(* What makes it true is a debt: from the moment a call has changed an     *)
(* object until its DelStat it owes the cache that DelStat (Owes).  A call *)
(* never returns with a debt, since its script has a "forget" behind every *)
(* "put" and "delete" (Ordered); and nothing that is cached, or about to   *)
(* be, is out of date for a path that nobody owes (EntriesFresh,           *)
(* AnswersFresh).                                                          *)
(***************************************************************************)
EXTENDS StatCache, TLAPS

Steps == {"peek", "peekTo", "peekFile", "need", "want", "free", "refresh", "put", "delete",
          "forget", "forgetTo", "opened"}

\* What a script still has to do, and what of it comes behind place i.
Elems(s) == {s[i] : i \in 1..Len(s)}
After(s, i, a) == \E j \in 1..Len(s) : i < j /\ s[j] = a

InOrder(kind, s) ==
  \A i \in 1..Len(s) :
    /\ ~After(s, i, "refresh")
    /\ s[i] = "put" => /\ kind \in Changers \cup {"rename", "flush"} /\ ~After(s, i, "put")
                       /\ kind \in Changers => After(s, i, "forget")
                       /\ kind = "rename" => After(s, i, "forgetTo")
    /\ s[i] = "delete" => /\ kind \in Exclusive /\ After(s, i, "forget")
                          /\ ~After(s, i, "put") /\ ~After(s, i, "delete")
    /\ s[i] = "forgetTo" => kind = "rename"
    /\ s[i] \in {"need", "free"} => After(s, i, "put")
    /\ s[i] = "refresh" => kind = "list"
    /\ s[i] = "peekFile" => kind = "rmdir" /\ ~After(s, i, "delete")
    /\ s[i] = "opened" => ~After(s, i, "forget") /\ ~After(s, i, "forgetTo")

Ahead(t) == Elems(call[t].left)

CallType ==
  [kind : Kinds \cup {"none"}, path : Paths \cup {NoEntry}, to : Paths \cup {NoEntry},
   left : Seq(Steps), key : Keys \cup {NoEntry},
   stat : Attr \cup {Absent}, mode : Modes \cup {NoMode}]

Filling == {"check", "replace", "evict", "insert"}
Asking  == {"drop", "isno", "head", "headdir", "again"} \cup Filling
Labels  == {"idle", "next"} \cup Asking

CallHolds(t) ==
  /\ pc[t] = "idle" <=> call[t].kind = "none"
  /\ pc[t] = "idle" <=> call[t].left = <<>>
  /\ pc[t] # "idle" => call[t].path \in Paths /\ call[t].to \in Paths
  /\ call[t].kind = "rename" <=> call[t].path # call[t].to
  /\ InOrder(call[t].kind, call[t].left)
  /\ pc[t] \in Asking => Doing(t) \in Lookups
  /\ pc[t] \in Filling \cup {"again"} \/ Doing(t) = "refresh" => call[t].key \in Keys
  /\ pc[t] = "again" => call[t].stat \in Attr

Ordered ==
  /\ pc \in [Threads -> Labels] /\ call \in [Threads -> CallType]
  /\ \A t \in Threads : CallHolds(t)

World ==
  /\ object \in [Keys -> Attr \cup {Absent}]
  /\ cache \in [Keys -> Attr \cup {Absent, NoEntry}]
  /\ opens \subseteq Paths /\ excused \subseteq Paths

\* A call that removes names is alone on them.
On(t) == {call[t].path, call[t].to}

Alone ==
  \A t, u \in Threads : t # u /\ call[t].kind \in Exclusive /\ call[u].kind # "none" =>
    On(t) \cap On(u) = {}

Sources ==
  \A t \in Threads :
    /\ call[t].kind \in {"chmod", "rename"} /\ "put" \in Ahead(t) => object[File(call[t].path)] # Absent
    /\ call[t].kind = "rmdir" /\ "delete" \notin Ahead(t) /\ ~PutMayFail => object[Dir(call[t].path)] = Absent

\* The call has changed the object of p, or may be about to delete it, and its
\* DelStat is still to come.
Owes(t, p) ==
  /\ call[t].kind \in Changers \cup Exclusive
  /\ "put" \notin Ahead(t)
  /\ \/ p = call[t].path /\ "forget" \in Ahead(t)
     \/ p = call[t].to /\ "forgetTo" \in Ahead(t)

Covered(p) == p \in excused \/ \E t \in Threads : Owes(t, p)

EntriesFresh == \A k \in Keys : cache[k] # NoEntry /\ Outdated(k, cache[k]) => Covered(k[1])
AnswersFresh == \A u \in Threads, p \in Paths : HoldsOld(u, p) => Covered(p)

TypeInv == World /\ Ordered /\ Alone /\ Sources
IInv    == TypeInv /\ EntriesFresh /\ AnswersFresh

-----------------------------------------------------------------------------
(* Scripts                                                                  *)

LEMMA TailStays ==
  ASSUME NEW s \in Seq(Steps), s # <<>>
  PROVE  /\ Tail(s) \in Seq(Steps) /\ Head(s) \in Elems(s)
         /\ Len(Tail(s)) = Len(s) - 1 /\ Len(s) \in Nat \ {0}
         /\ \A i \in 1..Len(Tail(s)) : i + 1 \in 1..Len(s) /\ Tail(s)[i] = s[i + 1]
         /\ \A a : a \in Elems(s) <=> a = Head(s) \/ a \in Elems(Tail(s))
         /\ \A a : After(s, 1, a) <=> a \in Elems(Tail(s))
<1>1. /\ Tail(s) \in Seq(Steps) /\ Head(s) = s[1]
      /\ Len(Tail(s)) = Len(s) - 1 /\ Len(s) \in Nat \ {0}
      /\ \A i \in 1..Len(Tail(s)) : i + 1 \in 1..Len(s) /\ Tail(s)[i] = s[i + 1]
  OBVIOUS
<1>2. ASSUME NEW a, After(s, 1, a) PROVE a \in Elems(Tail(s))
  <2>1. PICK j \in 1..Len(s) : 1 < j /\ s[j] = a
    BY <1>2 DEF After
  <2>2. j - 1 \in 1..Len(Tail(s)) /\ Tail(s)[j - 1] = a
    BY <1>1, <2>1
  <2> QED
    BY <2>2 DEF Elems
<1>3. ASSUME NEW a, a \in Elems(Tail(s)) PROVE After(s, 1, a)
  <2>1. PICK i \in 1..Len(Tail(s)) : Tail(s)[i] = a
    BY <1>3 DEF Elems
  <2>2. i + 1 \in 1..Len(s) /\ s[i + 1] = a /\ 1 < i + 1
    BY <1>1, <2>1
  <2> QED
    BY <2>2 DEF After
<1>4. ASSUME NEW a PROVE a \in Elems(s) <=> a = Head(s) \/ After(s, 1, a)
  <2>1. 1 \in 1..Len(s) /\ \A j \in 1..Len(s) : j = 1 \/ 1 < j
    BY <1>1
  <2> QED
    BY <1>1, <2>1 DEF Elems, After
<1> QED
  BY <1>1, <1>2, <1>3, <1>4

LEMMA TailInOrder ==
  ASSUME NEW kind, NEW s \in Seq(Steps), s # <<>>, InOrder(kind, s)
  PROVE  InOrder(kind, Tail(s))
<1> DEFINE r == Tail(s)
<1>1. \A i \in 1..Len(r) : i + 1 \in 1..Len(s) /\ r[i] = s[i + 1]
  BY TailStays
<1>2. \A i \in 1..Len(r) : \A a : After(r, i, a) <=> After(s, i + 1, a)
  <2> SUFFICES ASSUME NEW i \in 1..Len(r), NEW a PROVE After(r, i, a) <=> After(s, i + 1, a)
    OBVIOUS
  <2>0. Len(r) = Len(s) - 1 /\ Len(s) \in Nat \ {0}
    BY TailStays
  <2>1. ASSUME NEW j \in 1..Len(s), i + 1 < j, s[j] = a PROVE After(r, i, a)
    <3>1. j - 1 \in 1..Len(r) /\ i < j - 1 /\ (j - 1) + 1 = j
      BY <2>0, <2>1
    <3>2. r[j - 1] = a
      BY <1>1, <2>1, <3>1
    <3> QED
      BY <3>1, <3>2 DEF After
  <2>2. ASSUME NEW j \in 1..Len(r), i < j, r[j] = a PROVE After(s, i + 1, a)
    <3>1. j + 1 \in 1..Len(s) /\ i + 1 < j + 1 /\ s[j + 1] = a
      BY <1>1, <2>0, <2>2
    <3> QED
      BY <3>1 DEF After
  <2> QED
    BY <2>1, <2>2 DEF After
<1> HIDE DEF r
<1>3. ASSUME NEW i \in 1..Len(r)
      PROVE  /\ ~After(r, i, "refresh")
             /\ r[i] = "put" => /\ kind \in Changers \cup {"rename", "flush"} /\ ~After(r, i, "put")
                                /\ kind \in Changers => After(r, i, "forget")
                                /\ kind = "rename" => After(r, i, "forgetTo")
             /\ r[i] = "delete" => /\ kind \in Exclusive /\ After(r, i, "forget")
                                   /\ ~After(r, i, "put") /\ ~After(r, i, "delete")
             /\ r[i] = "forgetTo" => kind = "rename"
             /\ r[i] \in {"need", "free"} => After(r, i, "put")
             /\ r[i] = "refresh" => kind = "list"
             /\ r[i] = "peekFile" => kind = "rmdir" /\ ~After(r, i, "delete")
             /\ r[i] = "opened" => ~After(r, i, "forget") /\ ~After(r, i, "forgetTo")
  BY <1>1, <1>2 DEF InOrder
<1>4. InOrder(kind, r)
  BY <1>3 DEF InOrder
<1> QED
  BY <1>4 DEF r

\* The scripts are in order.
LEMMA ScriptsInOrder ==
  ASSUME NEW kind \in Kinds
  PROVE  Script[kind] \in Seq(Steps) /\ Script[kind] # <<>> /\ InOrder(kind, Script[kind])
<1> USE DEF InOrder, After, Changers, Makers, Exclusive, Steps
<1>1. kind \in {"stat", "open", "create", "mknod", "mkdir", "symlink", "unlink", "rmdir", "chmod",
                "truncate", "flush", "release", "rename", "list"}
  BY KindsAssumption DEF Script
<1>2. CASE kind = "stat"
  BY <1>2 DEF Script, GetAttr
<1>3. CASE kind = "open"
  BY <1>3 DEF Script, OpenFile
<1>4. CASE kind = "create"
  BY <1>4 DEF Script, Create
<1>5. CASE kind = "mknod"
  BY <1>5 DEF Script, MkNod
<1>6. CASE kind = "mkdir"
  BY <1>6 DEF Script, MkDir
<1>7. CASE kind = "symlink"
  BY <1>7 DEF Script, SymLink
<1>8. CASE kind = "unlink"
  BY <1>8 DEF Script, Unlink
<1>9. CASE kind = "rmdir"
  BY <1>9 DEF Script, RmDir
<1>10. CASE kind = "chmod"
  BY <1>10 DEF Script, ChMod
<1>11. CASE kind = "truncate"
  BY <1>11 DEF Script, Truncate
<1>12. CASE kind = "flush"
  BY <1>12 DEF Script, Flush
<1>13. CASE kind = "release"
  BY <1>13 DEF Script, Release
<1>14. CASE kind = "rename"
  BY <1>14 DEF Script, Rename
<1>15. CASE kind = "list"
  BY <1>15 DEF Script, ReadDir
<1> QED
  BY <1>1, <1>2, <1>3, <1>4, <1>5, <1>6, <1>7, <1>8, <1>9, <1>10, <1>11, <1>12, <1>13, <1>14, <1>15

-----------------------------------------------------------------------------
(* How a call goes on                                                       *)

\* The other calls are where they were; this one is too, or it did its step, or is over.
Others(t) == \A u \in Threads \ {t} : pc'[u] = pc[u] /\ call'[u] = call[u]
Same(t)   == pc'[t] # "idle" /\ call'[t].kind = call[t].kind
             /\ call'[t].path = call[t].path /\ call'[t].to = call[t].to
Stays(t)  == Same(t) /\ call'[t].left = call[t].left
Does(t)   == Same(t) /\ call'[t].left = Tail(call[t].left) /\ pc'[t] = "next"
Over(t)   == pc'[t] = "idle" /\ call'[t] = NoCall
Done(t)   == IF Tail(call[t].left) = <<>> THEN Over(t) ELSE Does(t)

LEMMA NoneIsNoCall == "none" \notin Kinds /\ NoCall \in CallType /\ InOrder("none", <<>>)
BY KindsAssumption DEF Script, NoCall, CallType, InOrder

LEMMA CallKnown ==
  ASSUME Ordered, NEW t \in Threads, pc[t] # "idle"
  PROVE  /\ call[t] \in CallType /\ call[t].kind \in Kinds /\ call[t].left \in Seq(Steps)
         /\ call[t].left # <<>> /\ Doing(t) = Head(call[t].left)
         /\ call[t].path \in Paths /\ call[t].to \in Paths /\ Target(t) \in Paths
<1>1. call[t] \in CallType /\ call[t].kind # "none" /\ call[t].left # <<>>
      /\ call[t].path \in Paths /\ call[t].to \in Paths
  BY DEF Ordered, CallHolds
<1> QED
  BY <1>1 DEF CallType, Doing, Target

LEMMA GotoHolds ==
  ASSUME Ordered, NEW t \in Threads, pc[t] # "idle", NEW label \in Asking, Goto(t, label),
         Doing(t) \in Lookups,
         label \in Filling \cup {"again"} => call[t].key \in Keys,
         label = "again" => call[t].stat \in Attr
  PROVE  Ordered' /\ Others(t) /\ Stays(t)
<1>1. pc' = [pc EXCEPT ![t] = label] /\ call' = call /\ label # "idle"
  BY DEF Goto, Asking, Filling
<1>2. Others(t) /\ Stays(t)
  BY <1>1 DEF Others, Stays, Same, Ordered
<1>3. ASSUME NEW u \in Threads PROVE CallHolds(u)'
  <2>1. CASE u = t
    BY <1>1, <2>1 DEF Ordered, CallHolds, Doing
  <2>2. CASE u # t
    BY <1>1, <2>2 DEF Ordered, CallHolds, Doing
  <2> QED
    BY <2>1, <2>2
<1> QED
  BY <1>1, <1>2, <1>3 DEF Ordered, Labels

LEMMA EndHolds ==
  ASSUME Ordered, NEW t \in Threads, End(t)
  PROVE  Ordered' /\ Others(t) /\ Over(t)
<1>1. pc' = [pc EXCEPT ![t] = "idle"] /\ call' = [call EXCEPT ![t] = NoCall]
  BY DEF End
<1>2. Others(t) /\ Over(t)
  BY <1>1 DEF Others, Over, Ordered
<1>3. ASSUME NEW u \in Threads PROVE CallHolds(u)'
  <2>1. CASE u = t
    <3>1. pc'[u] = "idle" /\ call'[u] = NoCall /\ call'[u].left = <<>> /\ call'[u].kind = "none"
          /\ call'[u].path = NoEntry /\ call'[u].to = NoEntry
      BY <1>2, <2>1 DEF Over, NoCall
    <3> QED
      BY <3>1, NoneIsNoCall DEF CallHolds, Doing, Asking, Filling
  <2>2. CASE u # t
    BY <1>1, <2>2 DEF Ordered, CallHolds, Doing
  <2> QED
    BY <2>1, <2>2
<1> QED
  BY <1>1, <1>2, <1>3, NoneIsNoCall DEF Ordered, Labels

LEMMA ProceedHolds ==
  ASSUME Ordered, NEW t \in Threads, pc[t] # "idle", NEW c \in CallType, Proceed(t, c),
         c.kind = call[t].kind, c.path = call[t].path, c.to = call[t].to, c.left = call[t].left
  PROVE  Ordered' /\ Others(t) /\ Done(t)
<1> DEFINE rest == Tail(call[t].left)
<1>0. call[t].left \in Seq(Steps) /\ call[t].left # <<>> /\ call[t].kind \in Kinds
      /\ InOrder(call[t].kind, call[t].left)
  BY CallKnown DEF Ordered, CallHolds
<1>1. CASE rest = <<>>
  BY <1>1, EndHolds DEF Proceed, Done
<1>2. CASE rest # <<>>
  <2>1. pc' = [pc EXCEPT ![t] = "next"] /\ call' = [call EXCEPT ![t] = [c EXCEPT !.left = rest]]
    BY <1>2 DEF Proceed
  <2>2. rest \in Seq(Steps) /\ InOrder(call[t].kind, rest) /\ Head(rest) # "refresh"
    <3>1. rest \in Seq(Steps) /\ InOrder(call[t].kind, rest) /\ Head(rest) \in Elems(rest)
      BY <1>0, <1>2, TailStays, TailInOrder
    <3>2. "refresh" \notin Elems(rest)
      BY <1>0, TailStays DEF InOrder
    <3> QED
      BY <3>1, <3>2
  <2>3. /\ pc'[t] = "next" /\ call'[t] = [c EXCEPT !.left = rest]
        /\ \A u \in Threads \ {t} : pc'[u] = pc[u] /\ call'[u] = call[u]
    BY <2>1 DEF Ordered
  <2>4. call'[t] \in CallType /\ call'[t].left = rest /\ call'[t].kind = call[t].kind
        /\ call'[t].path = call[t].path /\ call'[t].to = call[t].to
    BY <2>2, <2>3 DEF CallType
  <2>5. Others(t) /\ Does(t)
    BY <2>3, <2>4 DEF Others, Does, Same
  <2>6. ASSUME NEW u \in Threads PROVE CallHolds(u)'
    <3>1. CASE u = t
      BY <1>0, <1>2, <2>2, <2>3, <2>4, <3>1 DEF Ordered, CallHolds, Doing, Asking, Filling
    <3>2. CASE u # t
      BY <2>3, <3>2 DEF Ordered, CallHolds, Doing
    <3> QED
      BY <3>1, <3>2
  <2>7. pc' \in [Threads -> Labels] /\ call' \in [Threads -> CallType]
    BY <2>1, <2>3, <2>4 DEF Ordered, Labels
  <2> QED
    BY <1>2, <2>5, <2>6, <2>7 DEF Ordered, Done
<1> QED
  BY <1>1, <1>2

LEMMA FillHolds ==
  ASSUME Ordered, NEW t \in Threads, pc[t] # "idle", Doing(t) \in Lookups,
         NEW k \in Keys, NEW stat \in Attr \cup {Absent}, Fill(t, k, stat)
  PROVE  Ordered' /\ Others(t) /\ Stays(t)
         /\ pc'[t] = "check" /\ call'[t].key = k /\ call'[t].stat = stat
<1>1. /\ pc'[t] = "check" /\ call'[t] = [call[t] EXCEPT !.key = k, !.stat = stat]
      /\ \A u \in Threads \ {t} : pc'[u] = pc[u] /\ call'[u] = call[u]
      /\ DOMAIN pc' = Threads /\ DOMAIN call' = Threads
      /\ pc' = [u \in Threads |-> pc'[u]] /\ call' = [u \in Threads |-> call'[u]]
  BY DEF Fill, Ordered
<1>2. /\ call'[t] \in CallType /\ call'[t].left = call[t].left /\ call'[t].kind = call[t].kind
      /\ call'[t].path = call[t].path /\ call'[t].to = call[t].to
      /\ call'[t].key = k /\ call'[t].stat = stat
  <2> DEFINE now == [call[t] EXCEPT !.key = k, !.stat = stat]
  <2>1. call[t] \in CallType
    BY DEF Ordered
  <2>2. now \in CallType /\ now.left = call[t].left /\ now.kind = call[t].kind
        /\ now.path = call[t].path /\ now.to = call[t].to /\ now.key = k /\ now.stat = stat
    BY <2>1 DEF CallType
  <2>3. call'[t] = now
    BY <1>1
  <2> HIDE DEF now
  <2> QED
    BY <2>2, <2>3
<1>3. Others(t) /\ Stays(t)
  BY <1>1, <1>2 DEF Others, Stays, Same
<1>4. ASSUME NEW u \in Threads PROVE CallHolds(u)'
  <2>1. CASE u = t
    BY <1>1, <1>2, <2>1 DEF Ordered, CallHolds, Doing, Asking, Filling
  <2>2. CASE u # t
    BY <1>1, <2>2 DEF Ordered, CallHolds, Doing
  <2> QED
    BY <2>1, <2>2
<1>5. pc' \in [Threads -> Labels] /\ call' \in [Threads -> CallType]
  <2>1. \A u \in Threads : pc'[u] \in Labels /\ call'[u] \in CallType
    BY <1>1, <1>2 DEF Ordered, Labels, Asking, Filling
  <2> QED
    BY <1>1, <2>1
<1> QED
  BY <1>1, <1>2, <1>3, <1>4, <1>5 DEF Ordered

\* A lookup goes on, does its step, or ends the call.
Asked(t) ==
  \/ Stays(t)
  \/ Done(t)
  \/ Doing(t) \in {"need", "free", "refresh"} /\ Over(t)

LEMMA AnsweredHolds ==
  ASSUME Ordered, NEW t \in Threads, pc[t] # "idle", Doing(t) \in Lookups,
         NEW stat, NEW mode \in Modes \cup {NoMode}, Answered(t, stat, mode)
  PROVE  Ordered' /\ Others(t) /\ Asked(t) /\ pc'[t] \in {"idle", "next"}
<1>1. CASE End(t) /\ Doing(t) \in {"need", "free"}
  BY <1>1, EndHolds DEF Asked, Over
<1>2. CASE ~(End(t) /\ Doing(t) \in {"need", "free"})
  <2> DEFINE c == [call[t] EXCEPT !.key = NoEntry, !.stat = Absent,
                                  !.mode = IF Doing(t) \in {"need", "want"} THEN mode ELSE @]
  <2>1. call[t] \in CallType
    BY DEF Ordered
  <2>2. c \in CallType /\ c.kind = call[t].kind /\ c.path = call[t].path /\ c.to = call[t].to
        /\ c.left = call[t].left
    <3> DEFINE m == IF Doing(t) \in {"need", "want"} THEN mode ELSE call[t].mode
    <3>1. m \in Modes \cup {NoMode}
      BY <2>1 DEF CallType
    <3>2. c = [call[t] EXCEPT !.key = NoEntry, !.stat = Absent, !.mode = m]
      OBVIOUS
    <3> HIDE DEF m, c
    <3> QED
      BY <2>1, <3>1, <3>2 DEF CallType
  <2>3. Proceed(t, c)
    BY <1>2 DEF Answered
  <2> HIDE DEF c
  <2> QED
    <3>1. Ordered' /\ Others(t) /\ Done(t)
      BY <2>2, <2>3, ProceedHolds
    <3>2. pc'[t] \in {"idle", "next"}
      BY <3>1 DEF Done, Over, Does
    <3> QED
      BY <3>1, <3>2 DEF Asked
<1> QED
  BY <1>1, <1>2

\* The steps of a lookup that only look.
Looks(t) ==
  \/ GetStatHit(t) \/ GetStatOld(t) \/ GetStatMiss(t) \/ IsNoObject(t)
  \/ HeadFile(t) \/ HeadDir(t) \/ Check(t) \/ Again(t)

LEMMA LookingCalls ==
  ASSUME Ordered, NEW t \in Threads, Looking(t) \/ pc[t] \in Asking
  PROVE  /\ pc[t] # "idle" /\ Doing(t) \in Lookups /\ Target(t) \in Paths
         /\ call[t].key \in Keys \cup {NoEntry} /\ call[t].stat \in Attr \cup {Absent}
         /\ File(Target(t)) \in Keys /\ Dir(Target(t)) \in Keys
         /\ Doing(t) = "refresh" => call[t].key \in Keys
<1>1. pc[t] # "idle" /\ Doing(t) \in Lookups
  BY DEF Looking, Asking, Filling, Ordered, CallHolds
<1>2. Target(t) \in Paths
  BY <1>1, CallKnown
<1> QED
  BY <1>1, <1>2 DEF Ordered, CallHolds, CallType, File, Dir, Keys

LEMMA NotFoundHolds ==
  ASSUME Ordered, NEW t \in Threads, pc[t] \in Asking, NotFound(t)
  PROVE  /\ Ordered' /\ Others(t) /\ Asked(t)
         /\ \/ pc'[t] \in {"idle", "next"}
            \/ /\ CacheNoObject /\ Stays(t) /\ pc'[t] = "check"
               /\ call'[t].key = File(Target(t)) /\ call'[t].stat = Absent
<1>1. pc[t] # "idle" /\ Doing(t) \in Lookups /\ File(Target(t)) \in Keys
  BY LookingCalls
<1>2. CASE CacheNoObject
  BY <1>1, <1>2, FillHolds DEF NotFound, Asked
<1>3. CASE ~CacheNoObject
  BY <1>1, <1>3, AnsweredHolds DEF NotFound
<1> QED
  BY <1>2, <1>3

LEMMA LooksHolds ==
  ASSUME Ordered, World, NEW t \in Threads, Looks(t)
  PROVE  Ordered' /\ Others(t) /\ Asked(t) /\ UNCHANGED <<object, cache, opens, excused>>
<1>0. Looking(t) \/ pc[t] \in Asking
  BY DEF Looks, GetStatHit, GetStatOld, GetStatMiss, IsNoObject, HeadFile, HeadDir, Check, Again,
         Asking, Filling
<1>1. /\ pc[t] # "idle" /\ Doing(t) \in Lookups /\ Target(t) \in Paths
      /\ File(Target(t)) \in Keys /\ Dir(Target(t)) \in Keys
      /\ Doing(t) = "refresh" => call[t].key \in Keys
  BY <1>0, LookingCalls
<1>2. UNCHANGED <<object, cache, opens, excused>>
  BY DEF Looks, GetStatHit, GetStatOld, GetStatMiss, IsNoObject, HeadFile, HeadDir, Check, Again
<1> SUFFICES Ordered' /\ Others(t) /\ Asked(t)
  BY <1>2
<1>3. ASSUME NEW label \in {"drop", "isno", "head", "headdir"}, Goto(t, label)
      PROVE  Ordered' /\ Others(t) /\ Asked(t)
  BY <1>1, <1>3, GotoHolds DEF Asking, Filling, Asked
<1>4. AfterMiss(t) \in {"drop", "isno", "head", "headdir"}
  BY DEF AfterMiss
<1>5. CASE GetStatHit(t)
  BY <1>1, <1>5, AnsweredHolds DEF GetStatHit, Kept, With
<1>6. CASE GetStatOld(t)
  BY <1>3, <1>6 DEF GetStatOld
<1>7. CASE GetStatMiss(t)
  BY <1>3, <1>4, <1>7 DEF GetStatMiss
<1>8. CASE IsNoObject(t)
  <2>1. Answered(t, Absent, NoMode) \/ Goto(t, "head")
    BY <1>8 DEF IsNoObject
  <2> QED
    BY <1>1, <1>3, <2>1, AnsweredHolds
<1>9. CASE HeadFile(t)
  <2> DEFINE k == IF Doing(t) = "refresh" THEN call[t].key ELSE File(Target(t))
  <2>1. k \in Keys /\ object[k] \in Attr \cup {Absent} /\ pc[t] \in Asking
    BY <1>1, <1>9 DEF World, HeadFile, Asking
  <2>2. \/ Fill(t, k, object[k])
        \/ Doing(t) = "refresh" /\ End(t)
        \/ NotFound(t)
        \/ Goto(t, "headdir")
    BY <1>9 DEF HeadFile
  <2> HIDE DEF k
  <2>3. CASE Fill(t, k, object[k])
    BY <1>1, <2>1, <2>3, FillHolds DEF Asked
  <2>4. CASE Doing(t) = "refresh" /\ End(t)
    BY <2>4, EndHolds DEF Asked
  <2>5. CASE NotFound(t)
    BY <2>1, <2>5, NotFoundHolds
  <2> QED
    BY <1>3, <2>2, <2>3, <2>4, <2>5
<1>10. CASE HeadDir(t)
  <2>1. object[Dir(Target(t))] \in Attr \cup {Absent} /\ pc[t] \in Asking
    BY <1>1, <1>10 DEF World, HeadDir, Asking
  <2>2. Fill(t, Dir(Target(t)), object[Dir(Target(t))]) \/ NotFound(t)
    BY <1>10 DEF HeadDir
  <2>3. CASE Fill(t, Dir(Target(t)), object[Dir(Target(t))])
    BY <1>1, <2>1, <2>3, FillHolds DEF Asked
  <2> QED
    BY <2>1, <2>2, <2>3, NotFoundHolds
<1>11. CASE Check(t)
  <2>1. call[t].key \in Keys
    BY <1>11 DEF Check, Ordered, CallHolds, Filling
  <2>2. PICK next \in {"replace", "evict", "insert"} : Goto(t, next)
    BY <1>11 DEF Check
  <2>3. next \in Asking /\ next # "again"
    BY DEF Asking, Filling
  <2> QED
    BY <1>1, <2>1, <2>2, <2>3, GotoHolds DEF Asked
<1>12. CASE Again(t)
  <2>1. call[t].stat \in Attr /\ call[t].stat.mode \in Modes \cup {NoMode}
    BY <1>12 DEF Again, Ordered, CallHolds, Attr
  <2>2. \E stat, mode : mode \in Modes \cup {NoMode} /\ Answered(t, stat, mode)
    BY <1>12, <2>1 DEF Again, Kept, With
  <2> QED
    BY <1>1, <2>2, AnsweredHolds
<1> QED
  BY <1>5, <1>6, <1>7, <1>8, <1>9, <1>10, <1>11, <1>12 DEF Looks

LEMMA CachesHolds ==
  ASSUME Ordered, World, NEW t \in Threads, Drop(t) \/ Replace(t) \/ Evict(t) \/ Insert(t)
  PROVE  /\ Ordered' /\ Others(t) /\ Asked(t) /\ World' /\ UNCHANGED <<object, opens, excused>>
         /\ ~Insert(t) => \A k \in Keys : cache'[k] \in {cache[k], NoEntry}
         /\ Insert(t) => /\ call[t].key \in Keys
                         /\ cache' = [cache EXCEPT ![call[t].key] = call[t].stat]
                         /\ ~(pc'[t] \in Filling \cup {"headdir"})
<1>1. /\ pc[t] # "idle" /\ pc[t] \in Asking /\ Doing(t) \in Lookups /\ Target(t) \in Paths
      /\ call[t].stat \in Attr \cup {Absent}
  BY LookingCalls DEF Drop, Replace, Evict, Insert, Asking, Filling
<1>2. UNCHANGED <<object, opens, excused>>
  BY DEF Drop, Replace, Evict, Insert
<1>3. ASSUME NEW p PROVE Dropped(p) \in [Keys -> Attr \cup {Absent, NoEntry}]
                         /\ \A k \in Keys : Dropped(p)[k] \in {cache[k], NoEntry}
  BY DEF Dropped, World
<1>4. CASE Drop(t)
  <2>1. AfterMiss(t) \in Asking /\ AfterMiss(t) \notin Filling \cup {"again"}
    BY DEF AfterMiss, Asking, Filling
  <2>2. Ordered' /\ Others(t) /\ Asked(t)
    BY <1>1, <1>4, <2>1, GotoHolds DEF Drop, Asked
  <2>3. cache' = Dropped(Target(t)) /\ ~Insert(t)
    BY <1>4 DEF Drop, Insert
  <2> QED
    BY <1>2, <1>3, <2>2, <2>3 DEF World
<1>5. CASE Replace(t) \/ Evict(t)
  <2>1. Goto(t, "insert") /\ call[t].key \in Keys /\ ~Insert(t)
    BY <1>5 DEF Replace, Evict, Insert, Ordered, CallHolds, Filling
  <2>2. Ordered' /\ Others(t) /\ Asked(t)
    BY <1>1, <2>1, GotoHolds DEF Asked, Asking, Filling
  <2>3. \A k \in Keys : cache'[k] \in {cache[k], NoEntry}
    BY <1>3, <1>5 DEF Replace, Evict, World
  <2>4. cache' \in [Keys -> Attr \cup {Absent, NoEntry}]
    BY <1>3, <1>5 DEF Replace, Evict, World
  <2> QED
    BY <1>2, <2>1, <2>2, <2>3, <2>4 DEF World
<1>6. CASE Insert(t)
  <2>1. call[t].key \in Keys /\ cache' = [cache EXCEPT ![call[t].key] = call[t].stat]
    BY <1>6 DEF Insert, Ordered, CallHolds, Filling
  <2>2. World'
    BY <1>1, <1>2, <2>1 DEF World
  <2>3. CASE End(t) /\ Doing(t) = "refresh"
    BY <1>2, <1>6, <2>1, <2>2, <2>3, EndHolds DEF Asked, Over, Filling
  <2>4. CASE Answered(t, Absent, NoMode)
    <3>1. Ordered' /\ Others(t) /\ Asked(t) /\ pc'[t] \in {"idle", "next"}
      BY <1>1, <2>4, AnsweredHolds
    <3> QED
      BY <1>2, <1>6, <2>1, <2>2, <3>1 DEF Filling
  <2>5. CASE Goto(t, "again") /\ call[t].stat # Absent
    <3>1. Ordered' /\ Others(t) /\ Asked(t)
      BY <1>1, <2>1, <2>5, GotoHolds DEF Asked, Asking, Filling
    <3>2. pc'[t] = "again"
      BY <2>5 DEF Goto, Ordered
    <3> QED
      BY <1>2, <1>6, <2>1, <2>2, <3>1, <3>2 DEF Filling
  <2> QED
    BY <1>6, <2>3, <2>4, <2>5 DEF Insert
<1> QED
  BY <1>4, <1>5, <1>6

-----------------------------------------------------------------------------
(* How a call changes objects                                               *)

\* What is ahead of a call that is running.
LEMMA AheadOf ==
  ASSUME Ordered, NEW t \in Threads, pc[t] # "idle"
  PROVE  LET rest == Elems(Tail(call[t].left))
             kind == call[t].kind
         IN  /\ \A a : a \in Ahead(t) <=> a = Doing(t) \/ a \in rest
             /\ Doing(t) = "put" => /\ kind \in Changers \cup {"rename", "flush"} /\ "put" \notin rest
                                    /\ kind \in Changers => "forget" \in rest
                                    /\ kind = "rename" => "forgetTo" \in rest
             /\ Doing(t) = "delete" => /\ kind \in Exclusive /\ "forget" \in rest
                                       /\ "put" \notin rest /\ "delete" \notin rest
             /\ Doing(t) = "forgetTo" => kind = "rename"
             /\ Doing(t) \in {"need", "free"} => "put" \in rest
             /\ Doing(t) = "refresh" => kind = "list"
             /\ Doing(t) = "peekFile" => kind = "rmdir" /\ "delete" \notin rest
             /\ Doing(t) = "opened" => "forget" \notin rest /\ "forgetTo" \notin rest
             /\ Elems(<<>>) = {}
<1>1. /\ call[t].left \in Seq(Steps) /\ call[t].left # <<>> /\ Doing(t) = Head(call[t].left)
      /\ InOrder(call[t].kind, call[t].left)
  BY CallKnown DEF Ordered, CallHolds
<1>2. /\ \A a : a \in Ahead(t) <=> a = Doing(t) \/ a \in Elems(Tail(call[t].left))
      /\ \A a : After(call[t].left, 1, a) <=> a \in Elems(Tail(call[t].left))
      /\ 1 \in 1..Len(call[t].left) /\ call[t].left[1] = Doing(t)
  BY <1>1, TailStays DEF Ahead
<1>3. Elems(<<>>) = {}
  BY DEF Elems
<1> QED
  BY <1>1, <1>2, <1>3 DEF InOrder

LEMMA PutKnown ==
  ASSUME Ordered, World, Sources, NEW t \in Threads, pc[t] = "next", Doing(t) = "put"
  PROVE  /\ call[t].kind \in Changers \cup {"rename", "flush"}
         /\ PutKey(call[t]) \in Keys /\ PutKey(call[t])[1] \in On(t)
         /\ PutValues(call[t]) \subseteq Attr
<1> DEFINE c == call[t]
<1>1. /\ c.kind \in Changers \cup {"rename", "flush"} /\ c.path \in Paths /\ c.to \in Paths
      /\ c.mode \in Modes \cup {NoMode} /\ "put" \in Ahead(t)
  BY AheadOf, CallKnown DEF CallType
<1>2. PutKey(c) \in Keys /\ PutKey(c)[1] \in {c.path, c.to}
  BY <1>1 DEF PutKey, Keys, Dir, File
<1>3. c.kind \in {"chmod", "rename"} => object[File(c.path)].size \in 0..MaxSize
  <2>1. ASSUME c.kind \in {"chmod", "rename"} PROVE object[File(c.path)] \in Attr
    BY <1>1, <2>1 DEF World, Sources, File, Keys
  <2> QED
    BY <2>1 DEF Attr
<1>4. c.kind \in {"create", "mknod", "mkdir", "symlink", "chmod", "truncate", "rename", "flush"}
  BY <1>1 DEF Changers, Makers
<1>5. PutValues(c) \subseteq Attr
  <2> SUFFICES ASSUME NEW v \in PutValues(c) PROVE v \in Attr
    OBVIOUS
  <2>0. 0 \in 0..MaxSize /\ MaxSize \in 0..MaxSize
    BY StatCacheAssumption
  <2>1. \E n \in 0..MaxSize, m \in Modes \cup {NoMode} : v = With(n, m)
    BY <1>1, <1>3, <1>4, <2>0 DEF PutValues, Makers
  <2> QED
    BY <2>1 DEF With, Attr
<1> QED
  BY <1>1, <1>2, <1>5 DEF On

\* The outcomes of the steps of a call that are no lookups.
LEMMA PutHolds ==
  ASSUME Ordered, World, Sources, NEW t \in Threads, Put(t)
  PROVE  /\ Ordered' /\ Others(t) /\ Done(t) /\ World'
         /\ UNCHANGED cache
         /\ \E v \in Attr : object' = [object EXCEPT ![PutKey(call[t])] = v]
         /\ excused' = IF call[t].kind = "flush" THEN excused \cup {call[t].path} ELSE excused
<1>1. /\ pc[t] = "next" /\ pc[t] # "idle" /\ Doing(t) = "put" /\ call[t] \in CallType
      /\ call[t].path \in Paths
  BY CallKnown DEF Put
<1>2. PutKey(call[t]) \in Keys /\ PutValues(call[t]) \subseteq Attr
  BY <1>1, PutKnown
<1>3. PICK v \in Attr : object' = [object EXCEPT ![PutKey(call[t])] = v]
  BY <1>2 DEF Put, Changed
<1>4. Ordered' /\ Others(t) /\ Done(t)
  BY <1>1, ProceedHolds DEF Put
<1>5. World'
  BY <1>1, <1>2, <1>3 DEF Put, World
<1> QED
  BY <1>3, <1>4, <1>5 DEF Put

LEMMA PutFailsHolds ==
  ASSUME Ordered, World, Sources, NEW t \in Threads, PutFails(t)
  PROVE  /\ Ordered' /\ Others(t) /\ World' /\ UNCHANGED cache
         /\ object' = object \/ \E v \in Attr : object' = [object EXCEPT ![PutKey(call[t])] = v]
         /\ \/ /\ call[t].kind \in {"create", "mkdir", "symlink"} /\ excused' = excused
               /\ Same(t) /\ pc'[t] = "next" /\ call'[t].left = <<"forget">>
            \/ Over(t) /\ excused' = excused \cup {PutKey(call[t])[1]}
<1>1. /\ pc[t] = "next" /\ pc[t] # "idle" /\ Doing(t) = "put" /\ call[t] \in CallType
      /\ call[t].kind \in Kinds /\ call[t].path \in Paths /\ call[t].to \in Paths
  BY CallKnown DEF PutFails
<1>2. /\ PutKey(call[t]) \in Keys /\ PutValues(call[t]) \subseteq Attr
      /\ PutKey(call[t])[1] \in Paths
  BY <1>1, PutKnown DEF On
<1>3. object' = object \/ \E v \in Attr : object' = [object EXCEPT ![PutKey(call[t])] = v]
  BY <1>2 DEF PutFails, Changed
<1>4. World'
  <2>1. object' \in [Keys -> Attr \cup {Absent}]
    BY <1>2, <1>3 DEF World
  <2> QED
    BY <1>2, <2>1 DEF PutFails, World
<1>5. CASE End(t) /\ excused' = excused \cup {PutKey(call[t])[1]}
  BY <1>3, <1>4, <1>5, EndHolds DEF PutFails
<1>6. CASE ~(End(t) /\ excused' = excused \cup {PutKey(call[t])[1]})
  <2>1. /\ call[t].kind \in {"create", "mkdir", "symlink"} /\ excused' = excused
        /\ pc' = pc /\ call' = [call EXCEPT ![t].left = <<"forget">>]
    BY <1>6 DEF PutFails
  <2> DEFINE now == [call[t] EXCEPT !.left = <<"forget">>]
  <2>2. /\ now \in CallType /\ now.kind = call[t].kind /\ now.path = call[t].path
        /\ now.to = call[t].to /\ now.left = <<"forget">>
    <3>1. <<"forget">> \in Seq(Steps)
      BY DEF Steps
    <3> QED
      BY <1>1, <3>1 DEF CallType
  <2>3. call'[t] = now /\ \A u \in Threads \ {t} : call'[u] = call[u]
    BY <2>1 DEF Ordered
  <2>4. call' \in [Threads -> CallType]
    BY <2>1, <2>2, <2>3 DEF Ordered
  <2> HIDE DEF now
  <2>5. InOrder(now.kind, <<"forget">>)
    BY DEF InOrder, After
  <2>6. Doing(t)' = "forget"
    BY <2>2, <2>3 DEF Doing
  <2>7. ASSUME NEW u \in Threads PROVE CallHolds(u)'
    <3>1. CASE u = t
      BY <1>1, <2>1, <2>2, <2>3, <2>5, <2>6, <3>1 DEF Ordered, CallHolds, Asking, Filling
    <3>2. CASE u # t
      BY <2>1, <2>3, <3>2 DEF Ordered, CallHolds, Doing
    <3> QED
      BY <3>1, <3>2
  <2>8. Ordered' /\ Others(t)
    BY <2>1, <2>3, <2>4, <2>7 DEF Ordered, Others
  <2>9. Same(t) /\ pc'[t] = "next" /\ call'[t].left = <<"forget">>
    BY <1>1, <2>1, <2>2, <2>3 DEF Same
  <2> QED
    BY <1>3, <1>4, <2>1, <2>8, <2>9 DEF PutFails
<1> QED
  BY <1>5, <1>6

LEMMA DeleteHolds ==
  ASSUME Ordered, World, NEW t \in Threads, Delete(t)
  PROVE  /\ Ordered' /\ Others(t) /\ Done(t) /\ World' /\ UNCHANGED <<cache, excused>>
         /\ LET k == IF call[t].kind = "rmdir" THEN Dir(call[t].path) ELSE File(call[t].path)
            IN  /\ k \in Keys /\ k[1] = call[t].path
                /\ \/ object' = [object EXCEPT ![k] = Absent]
                   \/ PutMayFail /\ object' = object
<1> DEFINE k == IF call[t].kind = "rmdir" THEN Dir(call[t].path) ELSE File(call[t].path)
<1>1. /\ pc[t] = "next" /\ pc[t] # "idle" /\ call[t] \in CallType /\ call[t].path \in Paths
  BY CallKnown DEF Delete
<1>2. k \in Keys /\ k[1] = call[t].path
  BY <1>1 DEF Keys, Dir, File
<1>3. Ordered' /\ Others(t) /\ Done(t)
  BY <1>1, ProceedHolds DEF Delete
<1>4. object' = [object EXCEPT ![k] = Absent] \/ (PutMayFail /\ object' = object)
  BY DEF Delete, Changed
<1> HIDE DEF k
<1>5. World'
  BY <1>2, <1>4 DEF Delete, World
<1>6. UNCHANGED <<cache, excused>>
  BY DEF Delete
<1> QED
  BY <1>2, <1>3, <1>4, <1>5, <1>6 DEF k

LEMMA ForgetHolds ==
  ASSUME Ordered, World, NEW t \in Threads, Forget(t)
  PROVE  Ordered' /\ Others(t) /\ Done(t) /\ World' /\ UNCHANGED object
<1>1. pc[t] # "idle" /\ call[t] \in CallType /\ Target(t) \in Paths
  BY CallKnown DEF Forget
<1>2. Ordered' /\ Others(t) /\ Done(t)
  BY <1>1, ProceedHolds DEF Forget
<1>3. World'
  BY <1>1 DEF Forget, World, Dropped
<1> QED
  BY <1>2, <1>3 DEF Forget

LEMMA EndingHolds ==
  ASSUME Ordered, World, NEW t \in Threads, FlushNothing(t) \/ Opened(t)
  PROVE  /\ Ordered' /\ Others(t) /\ Over(t) /\ World' /\ UNCHANGED <<object, cache, excused>>
         /\ pc[t] # "idle"
<1>1. pc[t] # "idle" /\ call[t].path \in Paths
  BY CallKnown DEF FlushNothing, Opened
<1>2. World'
  BY <1>1 DEF FlushNothing, Opened, World
<1> QED
  BY <1>1, <1>2, EndHolds DEF FlushNothing, Opened

LEMMA BeginHolds ==
  ASSUME Ordered, World, NEW t \in Threads,
         \/ \E kind \in Kinds, p \in Paths, q \in Paths : Begin(t, kind, p, q)
         \/ \E k \in Keys : BeginList(t, k)
  PROVE  /\ Ordered' /\ Others(t) /\ World' /\ UNCHANGED <<object, cache, excused>>
         /\ pc[t] = "idle" /\ pc'[t] = "next"
         /\ call'[t].kind \in Kinds /\ call'[t].left = Script[call'[t].kind]
         /\ MayBegin(call'[t].kind, call'[t].path, call'[t].to)
<1>1. PICK kind \in Kinds, p \in Paths, q \in Paths, k \in Keys \cup {NoEntry}, stat \in Attr \cup {Absent} :
        /\ kind = "list" => k \in Keys
        /\ kind # "list" => k = NoEntry
        /\ pc[t] = "idle" /\ pc' = [pc EXCEPT ![t] = "next"]
        /\ MayBegin(kind, p, q)
        /\ call' = [call EXCEPT ![t] = NewCall(kind, p, q, k, stat)]
  <2>1. ASSUME NEW kind \in Kinds, NEW p \in Paths, NEW q \in Paths, Begin(t, kind, p, q)
        PROVE  /\ kind # "list" /\ NoEntry \in Keys \cup {NoEntry} /\ Absent \in Attr \cup {Absent}
               /\ pc[t] = "idle" /\ pc' = [pc EXCEPT ![t] = "next"]
               /\ MayBegin(kind, p, q)
               /\ call' = [call EXCEPT ![t] = NewCall(kind, p, q, NoEntry, Absent)]
    BY <2>1 DEF Begin
  <2>2. ASSUME NEW k \in Keys, BeginList(t, k)
        PROVE  /\ "list" \in Kinds /\ k[1] \in Paths /\ object[k] \in Attr \cup {Absent}
               /\ pc[t] = "idle" /\ pc' = [pc EXCEPT ![t] = "next"]
               /\ MayBegin("list", k[1], k[1])
               /\ call' = [call EXCEPT ![t] = NewCall("list", k[1], k[1], k, object[k])]
    BY <2>2 DEF BeginList, World, Keys
  <2>3. CASE \E kind \in Kinds, p \in Paths, q \in Paths : Begin(t, kind, p, q)
    BY <2>1, <2>3
  <2>4. CASE \E k \in Keys : BeginList(t, k)
    <3>1. PICK k \in Keys : BeginList(t, k)
      BY <2>4
    <3>2. /\ "list" \in Kinds /\ k[1] \in Paths /\ object[k] \in Attr \cup {Absent}
          /\ pc[t] = "idle" /\ pc' = [pc EXCEPT ![t] = "next"]
          /\ MayBegin("list", k[1], k[1])
          /\ call' = [call EXCEPT ![t] = NewCall("list", k[1], k[1], k, object[k])]
      BY <2>2, <3>1
    <3> QED
      BY <3>2
  <2> QED
    BY <2>3, <2>4
<1> DEFINE now == NewCall(kind, p, q, k, stat)
<1>2. Script[kind] \in Seq(Steps) /\ Script[kind] # <<>> /\ InOrder(kind, Script[kind])
  BY ScriptsInOrder
<1>3. /\ now \in CallType /\ now.kind = kind /\ now.path = p /\ now.to = q /\ now.left = Script[kind]
      /\ now.key = k
  BY <1>2 DEF NewCall, CallType
<1>4. /\ pc'[t] = "next" /\ call'[t] = now
      /\ \A u \in Threads \ {t} : pc'[u] = pc[u] /\ call'[u] = call[u]
  BY <1>1 DEF Ordered
<1>5. pc' \in [Threads -> Labels] /\ call' \in [Threads -> CallType]
  BY <1>1, <1>3 DEF Ordered, Labels
<1>6. kind # "list" => Head(Script[kind]) # "refresh"
  <2>1. Head(Script[kind]) = Script[kind][1] /\ 1 \in 1..Len(Script[kind])
    BY <1>2
  <2> QED
    BY <1>2, <2>1 DEF InOrder
<1>7. kind = "rename" <=> p # q
  BY <1>1 DEF MayBegin
<1> HIDE DEF now
<1>8. ASSUME NEW u \in Threads PROVE CallHolds(u)'
  <2>1. CASE u = t
    <3>1. Doing(u)' = Head(Script[kind])
      BY <1>2, <1>3, <1>4, <2>1 DEF Doing
    <3> QED
      BY <1>1, <1>2, <1>3, <1>4, <1>6, <1>7, <2>1, <3>1, NoneIsNoCall DEF CallHolds, Asking, Filling
  <2>2. CASE u # t
    BY <1>4, <2>2 DEF Ordered, CallHolds, Doing
  <2> QED
    BY <2>1, <2>2
<1>9. Ordered' /\ Others(t)
  BY <1>4, <1>5, <1>8 DEF Ordered, Others
<1>10. World' /\ UNCHANGED <<object, cache, excused>>
  BY DEF World, Begin, BeginList
<1> QED
  BY <1>1, <1>3, <1>4, <1>9, <1>10

-----------------------------------------------------------------------------
(* Types                                                                    *)

LEMMA OverHasNothing ==
  ASSUME NEW t, Over(t)
  PROVE  Ahead(t)' = {} /\ call'[t].kind = "none" /\ call'[t].left = <<>>
BY DEF Over, NoCall, Ahead, Elems

\* A step does what the call was doing, and nothing else.
LEMMA AheadMoves ==
  ASSUME Ordered, NEW t \in Threads, pc[t] # "idle", Asked(t) \/ Done(t)
  PROVE  /\ Same(t) \/ Over(t)
         /\ Ahead(t)' \subseteq Ahead(t)
         /\ Same(t) => \A a \in Ahead(t) : a = Doing(t) \/ a \in Ahead(t)'
<1>1. \A a : a \in Ahead(t) <=> a = Doing(t) \/ a \in Elems(Tail(call[t].left))
  BY AheadOf
<1>2. CASE Stays(t)
  BY <1>2 DEF Stays, Ahead
<1>3. CASE Over(t)
  BY <1>3, OverHasNothing DEF Over, Same
<1>4. CASE Does(t)
  BY <1>1, <1>4 DEF Does, Ahead
<1> QED
  BY <1>2, <1>3, <1>4 DEF Asked, Done

LEMMA AloneStays ==
  ASSUME Ordered, Alone, NEW t \in Threads, pc[t] # "idle", Others(t), Same(t) \/ Over(t)
  PROVE  Alone'
<1>1. ASSUME NEW u \in Threads, call'[u].kind # "none"
      PROVE  call'[u].kind = call[u].kind /\ On(u)' = On(u)
  BY <1>1, OverHasNothing DEF Others, Same, On
<1>2. "none" \notin Exclusive
  BY DEF Exclusive
<1> QED
  BY <1>1, <1>2 DEF Alone

LEMMA AloneBegins ==
  ASSUME Ordered, Alone, NEW t \in Threads, Others(t), call'[t].kind \in Kinds,
         MayBegin(call'[t].kind, call'[t].path, call'[t].to)
  PROVE  Alone'
<1> DEFINE kind == call'[t].kind
<1>1. ASSUME NEW u \in Threads \ {t}, call[u].kind # "none", call[u].kind \in Exclusive \/ kind \in Exclusive
      PROVE  On(t)' \cap On(u) = {}
  <2>1. call[u].kind \in Kinds
    BY <1>1 DEF Ordered, CallType
  <2> QED
    BY <1>1, <2>1 DEF MayBegin, Running, On
<1>2. \A u \in Threads \ {t} : call'[u] = call[u] /\ On(u)' = On(u)
  BY DEF Others, On
<1>3. ASSUME NEW u \in Threads, NEW v \in Threads, u # v,
             call'[u].kind \in Exclusive, call'[v].kind # "none"
      PROVE  On(u)' \cap On(v)' = {}
  <2>1. "none" \notin Exclusive
    BY DEF Exclusive
  <2>2. CASE u = t
    BY <1>1, <1>2, <1>3, <2>2
  <2>3. CASE v = t
    BY <1>1, <1>2, <1>3, <2>1, <2>3
  <2>4. CASE u # t /\ v # t
    BY <1>2, <1>3, <2>4 DEF Alone
  <2> QED
    BY <2>2, <2>3, <2>4
<1> QED
  BY <1>3 DEF Alone

\* What other calls change is not what a chmod or rename still has to read, nor what
\* a rmdir has removed.
LEMMA SourcesStay ==
  ASSUME Ordered, World, Alone, Sources, NEW t \in Threads, pc[t] # "idle", Others(t),
         NEW k \in Keys, k[1] \in On(t), NEW v \in Attr \cup {Absent},
         v = Absent => call[t].kind \in Exclusive,
         object' \in {object, [object EXCEPT ![k] = v]},
         /\ call'[t].kind \in {"chmod", "rename"} /\ "put" \in Ahead(t)' =>
              object'[File(call'[t].path)] # Absent
         /\ call'[t].kind = "rmdir" /\ "delete" \notin Ahead(t)' /\ ~PutMayFail =>
              object'[Dir(call'[t].path)] = Absent
  PROVE  Sources'
<1> SUFFICES ASSUME NEW u \in Threads \ {t}
             PROVE  /\ call[u].kind \in {"chmod", "rename"} /\ "put" \in Ahead(u) =>
                         object'[File(call[u].path)] # Absent
                    /\ call[u].kind = "rmdir" /\ "delete" \notin Ahead(u) /\ ~PutMayFail =>
                         object'[Dir(call[u].path)] = Absent
  BY DEF Others, Sources, Ahead
<1>1. call[t].kind # "none" /\ Absent \notin Attr
  BY KindsAssumption DEF Ordered, CallHolds
<1>2. \A j \in Keys : j[1] \notin On(t) => object'[j] = object[j]
  BY DEF World
<1>3. CASE call[u].kind \in {"chmod", "rename"} /\ "put" \in Ahead(u)
  <2> DEFINE f == File(call[u].path)
  <2>1. f \in Keys /\ f[1] \in On(u)
    BY <1>3 DEF Ordered, CallHolds, File, Keys, On
  <2>2. object[f] # Absent
    BY <1>3 DEF Sources
  <2> HIDE DEF f
  <2>3. ASSUME v # Absent PROVE object'[f] # Absent
    <3>1. object'[f] = object[f] \/ object'[f] = v
      BY <2>1 DEF World
    <3> QED
      BY <2>2, <2>3, <3>1
  <2>4. ASSUME v = Absent PROVE object'[f] # Absent
    <3>1. f[1] \notin On(t)
      BY <1>3, <2>1, <2>4 DEF Alone
    <3> QED
      BY <1>2, <2>1, <2>2, <3>1
  <2> QED
    BY <1>3, <2>3, <2>4 DEF f
<1>4. CASE call[u].kind = "rmdir" /\ "delete" \notin Ahead(u) /\ ~PutMayFail
  <2>1. Dir(call[u].path) \in Keys /\ Dir(call[u].path)[1] \in On(u)
    BY <1>4 DEF Ordered, CallHolds, Dir, Keys, On
  <2>2. On(t) \cap On(u) = {}
    BY <1>1, <1>4 DEF Alone, Exclusive
  <2>3. object'[Dir(call[u].path)] = object[Dir(call[u].path)]
    BY <1>2, <2>1, <2>2
  <2> QED
    BY <1>4, <2>3 DEF Sources
<1> QED
  BY <1>3, <1>4

\* A step that changes no object, of a call that has nothing deleted by it.
LEMMA SourcesIdle ==
  ASSUME Ordered, World, Alone, Sources, NEW t \in Threads, pc[t] # "idle", Others(t),
         object' = object, Same(t) \/ Over(t), Ahead(t)' \subseteq Ahead(t),
         Same(t) /\ "delete" \in Ahead(t) => "delete" \in Ahead(t)'
  PROVE  Sources'
<1>1. \A u \in Threads \ {t} : call'[u] = call[u] /\ Ahead(u)' = Ahead(u)
  BY DEF Others, Ahead
<1>2. CASE Over(t)
  BY <1>1, <1>2, OverHasNothing DEF Sources
<1>3. CASE Same(t)
  BY <1>1, <1>3 DEF Sources, Same
<1> QED
  BY <1>2, <1>3

LEMMA TypeInit == Init => TypeInv
<1> SUFFICES ASSUME Init PROVE TypeInv
  OBVIOUS
<1>1. \A t \in Threads : pc[t] = "idle" /\ call[t] = NoCall
  BY DEF Init
<1>2. pc \in [Threads -> Labels] /\ call \in [Threads -> CallType]
  BY NoneIsNoCall DEF Init, Labels
<1>3. ASSUME NEW t \in Threads PROVE CallHolds(t)
  <2>1. /\ call[t].kind = "none" /\ call[t].left = <<>> /\ call[t].path = NoEntry
        /\ call[t].to = NoEntry /\ pc[t] = "idle" /\ Doing(t) = "none"
    BY <1>1 DEF NoCall, Doing
  <2> QED
    BY <2>1, NoneIsNoCall DEF CallHolds, Asking, Filling
<1>4. World
  <2>1. \A n \in {0, MaxSize}, m \in Modes : With(n, m) \in Attr
    BY StatCacheAssumption DEF With, Attr
  <2>2. object \in [Keys -> Attr \cup {Absent}]
    BY <2>1 DEF Init
  <2> QED
    BY <2>2 DEF Init, World
<1>5. Alone /\ Sources
  BY <1>1 DEF Alone, Sources, NoCall
<1> QED
  BY <1>2, <1>3, <1>4, <1>5 DEF TypeInv, Ordered

LEMMA TypeStep == TypeInv /\ [Next]_vars => TypeInv'
<1> SUFFICES ASSUME TypeInv, [Next]_vars PROVE TypeInv'
  OBVIOUS
<1> USE DEF TypeInv
<1>1. CASE UNCHANGED vars
  BY <1>1 DEF vars, World, Ordered, CallHolds, Doing, Alone, On, Sources, Ahead
<1>2. ASSUME NEW t \in Threads, Looks(t) \/ Drop(t) \/ Replace(t) \/ Evict(t) \/ Insert(t)
      PROVE  TypeInv'
  <2>1. Ordered' /\ Others(t) /\ Asked(t) /\ World' /\ object' = object
    BY <1>2, LooksHolds, CachesHolds DEF World
  <2>2. pc[t] # "idle" /\ Doing(t) \in Lookups
    <3>1. Looking(t) \/ pc[t] \in Asking
      BY <1>2 DEF Looks, GetStatHit, GetStatOld, GetStatMiss, IsNoObject, HeadFile, HeadDir, Check,
                  Again, Drop, Replace, Evict, Insert, Asking, Filling
    <3> QED
      BY <3>1, LookingCalls
  <2>3. /\ Same(t) \/ Over(t)
        /\ Ahead(t)' \subseteq Ahead(t)
        /\ Same(t) /\ "delete" \in Ahead(t) => "delete" \in Ahead(t)'
    BY <2>1, <2>2, AheadMoves DEF Lookups
  <2> QED
    BY <2>1, <2>2, <2>3, AloneStays, SourcesIdle
<1>3. ASSUME NEW t \in Threads, Forget(t) PROVE TypeInv'
  <2>1. Ordered' /\ Others(t) /\ Done(t) /\ World' /\ object' = object
        /\ pc[t] # "idle" /\ Doing(t) # "delete"
    BY <1>3, ForgetHolds DEF Forget
  <2>2. /\ Same(t) \/ Over(t)
        /\ Ahead(t)' \subseteq Ahead(t)
        /\ Same(t) /\ "delete" \in Ahead(t) => "delete" \in Ahead(t)'
    BY <2>1, AheadMoves
  <2> QED
    BY <2>1, <2>2, AloneStays, SourcesIdle
<1>4. ASSUME NEW t \in Threads, FlushNothing(t) \/ Opened(t) PROVE TypeInv'
  <2>1. Ordered' /\ Others(t) /\ Over(t) /\ World' /\ object' = object /\ pc[t] # "idle"
    BY <1>4, EndingHolds
  <2>2. Ahead(t)' \subseteq Ahead(t) /\ ~Same(t)
    BY <2>1, OverHasNothing DEF Over, Same
  <2> QED
    BY <2>1, <2>2, AloneStays, SourcesIdle
<1>5. ASSUME NEW t \in Threads, Put(t) PROVE TypeInv'
  <2>1. pc[t] = "next" /\ pc[t] # "idle" /\ Doing(t) = "put"
    BY <1>5 DEF Put
  <2>2. Ordered' /\ Others(t) /\ Done(t) /\ World'
    BY <1>5, PutHolds
  <2>3. PICK v \in Attr : object' = [object EXCEPT ![PutKey(call[t])] = v]
    BY <1>5, PutHolds
  <2>4. /\ PutKey(call[t]) \in Keys /\ PutKey(call[t])[1] \in On(t)
        /\ call[t].kind \in Changers \cup {"rename", "flush"}
    BY <2>1, PutKnown
  <2>5. (Same(t) \/ Over(t)) /\ "put" \notin Ahead(t)'
    <3>1. Same(t) \/ Over(t)
      BY <2>1, <2>2, AheadMoves
    <3>2. "put" \notin Elems(Tail(call[t].left))
      BY <2>1, AheadOf
    <3>3. Does(t) => Ahead(t)' = Elems(Tail(call[t].left))
      BY DEF Does, Ahead
    <3> QED
      BY <2>2, <3>1, <3>2, <3>3, OverHasNothing DEF Done
  <2>6. call'[t].kind # "rmdir"
    BY <2>4, <2>5, OverHasNothing DEF Same, Changers, Makers
  <2>7. v # Absent
    BY KindsAssumption
  <2>8. Sources'
    BY <2>1, <2>2, <2>3, <2>4, <2>5, <2>6, <2>7, SourcesStay
  <2> QED
    BY <2>1, <2>2, <2>5, <2>8, AloneStays
<1>6. ASSUME NEW t \in Threads, PutFails(t) PROVE TypeInv'
  <2>1. pc[t] = "next" /\ pc[t] # "idle" /\ Doing(t) = "put"
    BY <1>6 DEF PutFails
  <2>2. Ordered' /\ Others(t) /\ World'
    BY <1>6, PutFailsHolds
  <2>3. /\ PutKey(call[t]) \in Keys /\ PutKey(call[t])[1] \in On(t)
    BY <2>1, PutKnown
  <2>4. (Same(t) \/ Over(t)) /\ call'[t].kind \notin {"chmod", "rename", "rmdir"}
    BY <1>6, PutFailsHolds, OverHasNothing DEF Same
  <2>5. PICK v \in Attr \cup {Absent} : v # Absent /\ object' \in {object, [object EXCEPT ![PutKey(call[t])] = v]}
    <3>1. PICK w \in Attr : object' = object \/ object' = [object EXCEPT ![PutKey(call[t])] = w]
      <4>1. With(0, NoMode) \in Attr
        BY StatCacheAssumption DEF With, Attr
      <4> QED
        BY <1>6, <4>1, PutFailsHolds
    <3> QED
      BY <3>1, KindsAssumption
  <2>6. Sources'
    BY <2>1, <2>2, <2>3, <2>4, <2>5, SourcesStay
  <2> QED
    BY <2>1, <2>2, <2>4, <2>6, AloneStays
<1>7. ASSUME NEW t \in Threads, Delete(t) PROVE TypeInv'
  <2> DEFINE k == IF call[t].kind = "rmdir" THEN Dir(call[t].path) ELSE File(call[t].path)
  <2>1. pc[t] # "idle" /\ Doing(t) = "delete"
    BY <1>7 DEF Delete
  <2>2. /\ Ordered' /\ Others(t) /\ Done(t) /\ World'
        /\ k \in Keys /\ k[1] = call[t].path
        /\ object' = [object EXCEPT ![k] = Absent] \/ (PutMayFail /\ object' = object)
    BY <1>7, DeleteHolds
  <2>3. call[t].kind \in Exclusive /\ "put" \notin Elems(Tail(call[t].left))
    BY <2>1, AheadOf
  <2>4. (Same(t) \/ Over(t)) /\ "put" \notin Ahead(t)'
    <3>1. Same(t) \/ Over(t)
      BY <2>1, <2>2, AheadMoves
    <3>2. Does(t) => Ahead(t)' = Elems(Tail(call[t].left))
      BY DEF Does, Ahead
    <3> QED
      BY <2>2, <2>3, <3>1, <3>2, OverHasNothing DEF Done
  <2>5. call'[t].kind = "rmdir" /\ ~PutMayFail => object'[Dir(call'[t].path)] = Absent
    <3>1. call'[t].kind = "rmdir" => k = Dir(call'[t].path)
      BY <2>4, OverHasNothing DEF Same
    <3> HIDE DEF k
    <3> QED
      BY <2>2, <3>1 DEF World
  <2> HIDE DEF k
  <2>6. k[1] \in On(t)
    BY <2>2 DEF On
  <2>7. Sources'
    BY <2>1, <2>2, <2>3, <2>4, <2>5, <2>6, SourcesStay
  <2> QED
    BY <2>1, <2>2, <2>4, <2>7, AloneStays
<1>8. ASSUME NEW t \in Threads,
             \/ \E kind \in Kinds, p \in Paths, q \in Paths : Begin(t, kind, p, q)
             \/ \E k \in Keys : BeginList(t, k)
      PROVE  TypeInv'
  <2>1. /\ Ordered' /\ Others(t) /\ World' /\ object' = object
        /\ call'[t].kind \in Kinds /\ call'[t].left = Script[call'[t].kind]
        /\ MayBegin(call'[t].kind, call'[t].path, call'[t].to)
    BY <1>8, BeginHolds
  <2>2. Alone'
    BY <2>1, AloneBegins
  <2>3. call'[t].kind = "rmdir" => "delete" \in Ahead(t)'
    <3>1. "delete" \in Elems(<<"delete", "forget", "peekFile">>)
      BY DEF Elems
    <3>2. Script["rmdir"] = <<"delete", "forget", "peekFile">>
      BY DEF Script, RmDir
    <3> QED
      BY <2>1, <3>1, <3>2 DEF Ahead
  <2>4. call'[t].kind \in {"chmod", "rename"} => object[File(call'[t].path)] # Absent
    BY <2>1 DEF MayBegin
  <2>5. Sources'
    BY <2>1, <2>3, <2>4 DEF Sources, Others, Ahead
  <2> QED
    BY <2>1, <2>2, <2>5
<1> QED
  BY <1>1, <1>2, <1>3, <1>4, <1>5, <1>6, <1>7, <1>8 DEF Next, Looks

(* The types of the bucket, the stat cache and the calls on it.  For a chmod *)
(* or a rename that stores a copy, this takes that the object it copies is   *)
(* still there, so that no other call removed it (ossfs.cpp:1010-1440).      *)
THEOREM StatTypes == Spec => []TypeOK
<1>1. TypeInv => TypeOK
  BY DEF TypeInv, TypeOK, World, Ordered, CallType, Labels, Asking, Filling
<1> QED
  BY <1>1, TypeInit, TypeStep, PTL DEF Spec

-----------------------------------------------------------------------------
(* Freshness                                                                *)

\* With entries "no object", a HEAD fails only where there is no object, and no
\* DELETE of a directory fails: else an answer of the server is itself not true.
SureAnswers == CacheNoObject => ~HeadMayFail /\ (PutMayFail => "rmdir" \notin Kinds)

\* v is not what the objects o give for key k.
Differs(o, k, v) ==
  IF v = Absent THEN o[File(k[1])] # Absent \/ o[Dir(k[1])] # Absent ELSE o[k] # v

LEMMA OutdatedDiffers ==
  ASSUME NEW k, NEW v
  PROVE  Outdated(k, v) = Differs(object, k, v) /\ Outdated(k, v)' = Differs(object', k, v)
BY DEF Outdated, Differs

LEMMA KeysOf ==
  ASSUME NEW k \in Keys
  PROVE  k[1] \in Paths /\ (k = File(k[1]) \/ k = Dir(k[1]))
BY DEF Keys, File, Dir

\* Objects that are as they were give what they gave.
LEMMA DiffersSame ==
  ASSUME NEW k \in Keys, NEW v,
         object'[File(k[1])] = object[File(k[1])], object'[Dir(k[1])] = object[Dir(k[1])]
  PROVE  Differs(object', k, v) <=> Differs(object, k, v)
<1>1. object'[k] = object[k]
  BY KeysOf
<1> QED
  BY <1>1 DEF Differs

\* A step of call t that drops no debt keeps all fresh, if what it takes to the cache is.
LEMMA FreshStays ==
  ASSUME IInv, NEW t \in Threads, Others(t),
         \A p \in Paths : Covered(p) => Covered(p)',
         \A p \in Paths : \/ Covered(p)'
                          \/ object'[File(p)] = object[File(p)] /\ object'[Dir(p)] = object[Dir(p)],
         \A p \in Paths : HoldsOld(t, p)' => Covered(p)',
         \A k \in Keys : \/ cache'[k] \in {cache[k], NoEntry}
                         \/ Differs(object', k, cache'[k]) => Covered(k[1])'
  PROVE  EntriesFresh' /\ AnswersFresh'
<1>1. ASSUME NEW k \in Keys, cache'[k] # NoEntry, Differs(object', k, cache'[k]) PROVE Covered(k[1])'
  <2> SUFFICES ASSUME cache'[k] = cache[k], ~Covered(k[1])' PROVE FALSE
    BY <1>1
  <2>1. k[1] \in Paths
    BY KeysOf
  <2>2. Differs(object, k, cache[k])
    BY <1>1, <2>1, DiffersSame
  <2>3. Covered(k[1])
    BY <1>1, <2>2, OutdatedDiffers DEF IInv, EntriesFresh
  <2> QED
    BY <2>1, <2>3
<1>2. ASSUME NEW u \in Threads, NEW p \in Paths, HoldsOld(u, p)' PROVE Covered(p)'
  <2> SUFFICES ASSUME u # t, ~Covered(p)' PROVE FALSE
    BY <1>2
  <2>1. /\ pc'[u] = pc[u] /\ call'[u] = call[u] /\ Target(u)' = Target(u)
        /\ object'[File(p)] = object[File(p)] /\ object'[Dir(p)] = object[Dir(p)]
    BY DEF Others, Target, Doing
  <2>2. HoldsOld(u, p)
    <3>1. CASE pc[u] \in Filling /\ call[u].key[1] = p /\ Differs(object', call[u].key, call[u].stat)
      <4>1. call[u].key \in Keys
        BY <3>1 DEF IInv, TypeInv, Ordered, CallHolds
      <4>2. Differs(object, call[u].key, call[u].stat)
        BY <2>1, <3>1, <4>1, DiffersSame
      <4> QED
        BY <3>1, <4>2, OutdatedDiffers DEF HoldsOld, Filling
    <3>2. CASE pc[u] = "headdir" /\ CacheNoObject /\ Target(u) = p /\ object[File(p)] # Absent
      BY <3>2 DEF HoldsOld
    <3>3. Outdated(call[u].key, call[u].stat)' = Differs(object', call[u].key, call[u].stat)
      BY <2>1 DEF Outdated, Differs
    <3> QED
      BY <1>2, <2>1, <3>1, <3>2, <3>3 DEF HoldsOld, Filling
  <2>3. Covered(p)
    BY <2>2 DEF IInv, AnswersFresh
  <2> QED
    BY <2>3
<1>3. EntriesFresh'
  <2> SUFFICES ASSUME NEW k \in Keys, cache'[k] # NoEntry, Outdated(k, cache[k])'
               PROVE  Covered(k[1])'
    BY DEF EntriesFresh
  <2>1. Differs(object', k, cache'[k])
    BY DEF Outdated, Differs
  <2> QED
    BY <1>1, <2>1
<1> QED
  BY <1>2, <1>3 DEF AnswersFresh

\* A call that has nothing to forget in this step keeps its debts.
LEMMA CoveredStays ==
  ASSUME NEW t \in Threads, Others(t), excused \subseteq excused',
         \A p \in Paths : Owes(t, p) => Owes(t, p)'
  PROVE  \A p \in Paths : Covered(p) => Covered(p)'
BY DEF Covered, Others, Owes, Ahead

LEMMA OwesStays ==
  ASSUME Ordered, NEW t \in Threads, pc[t] # "idle", Asked(t) \/ Done(t),
         Doing(t) \notin {"forget", "forgetTo"}, NEW p, Owes(t, p)
  PROVE  Owes(t, p)'
<1> DEFINE rest == Elems(Tail(call[t].left))
<1>1. /\ \A a : a \in Ahead(t) <=> a = Doing(t) \/ a \in rest
      /\ Doing(t) \in {"need", "free"} => "put" \in rest
      /\ Doing(t) = "refresh" => call[t].kind = "list"
      /\ Elems(<<>>) = {}
  BY AheadOf
<1>2. "put" \notin rest /\ ("forget" \in rest \/ "forgetTo" \in rest) /\ Tail(call[t].left) # <<>>
  BY <1>1 DEF Owes
<1>3. Doing(t) \notin {"need", "free", "refresh"}
  BY <1>1, <1>2 DEF Owes, Changers, Makers, Exclusive
<1>4. CASE Stays(t)
  BY <1>4 DEF Stays, Same, Owes, Ahead
<1>5. CASE Does(t)
  <2>1. Ahead(t)' = rest /\ Same(t)
    BY <1>5 DEF Does, Ahead
  <2> QED
    BY <1>1, <1>2, <2>1 DEF Same, Owes
<1> QED
  BY <1>2, <1>3, <1>4, <1>5 DEF Asked, Done

\* Whether a call is about to insert something out of date.
LEMMA NotFilling ==
  ASSUME NEW t, NEW p, pc'[t] \notin Filling \cup {"headdir"}
  PROVE  ~HoldsOld(t, p)'
BY DEF HoldsOld, Filling

LEMMA FillIsOld ==
  ASSUME NEW t, NEW p, NEW k, NEW stat, object' = object, pc'[t] = "check",
         call'[t].key = k, call'[t].stat = stat, HoldsOld(t, p)'
  PROVE  k[1] = p /\ Differs(object, k, stat)
BY DEF HoldsOld, Outdated, Differs

\* "No object" is inserted only where there is none, or where the path is covered.
LEMMA NotFoundIsTrue ==
  ASSUME IInv, SureAnswers, NEW t \in Threads, HeadFile(t) \/ HeadDir(t), NotFound(t),
         object' = object, HeadFile(t) => Doing(t) = "peekFile" /\ (object[File(Target(t))] = Absent \/ HeadMayFail),
         HeadDir(t) => object[Dir(Target(t))] = Absent \/ HeadMayFail,
         NEW p \in Paths, HoldsOld(t, p)'
  PROVE  Covered(p)
<1>1. pc[t] \in Asking /\ pc[t] # "idle"
  BY DEF HeadFile, HeadDir, Asking
<1>2. pc'[t] \in {"idle", "next"} => FALSE
  BY NotFilling DEF Filling
<1>3. CacheNoObject /\ pc'[t] = "check" /\ call'[t].key = File(Target(t)) /\ call'[t].stat = Absent
  BY <1>1, <1>2, NotFoundHolds DEF IInv, TypeInv
<1>4. p = Target(t) /\ (object[File(p)] # Absent \/ object[Dir(p)] # Absent)
  <2>1. File(Target(t))[1] = p /\ Differs(object, File(Target(t)), Absent)
    BY <1>3, FillIsOld
  <2> QED
    BY <2>1 DEF Differs, File
<1>5. CASE HeadDir(t)
  <2>1. pc[t] = "headdir" /\ object[File(p)] # Absent
    BY <1>3, <1>4, <1>5 DEF HeadDir, SureAnswers
  <2>2. HoldsOld(t, p)
    BY <1>3, <1>4, <2>1 DEF HoldsOld
  <2> QED
    BY <2>2 DEF IInv, AnswersFresh
<1>6. CASE HeadFile(t)
  <2>1. Doing(t) = "peekFile" /\ object[Dir(p)] # Absent
    BY <1>3, <1>4, <1>6 DEF SureAnswers
  <2>2. call[t].kind = "rmdir" /\ "delete" \notin Ahead(t)
    BY <1>1, <2>1, AheadOf DEF IInv, TypeInv
  <2>3. "rmdir" \in Kinds /\ p = call[t].path
    BY <1>1, <1>4, <2>1, <2>2, CallKnown DEF IInv, TypeInv, Target
  <2>4. object[Dir(p)] = Absent
    BY <1>3, <2>2, <2>3 DEF IInv, TypeInv, Sources, SureAnswers
  <2> QED
    BY <2>1, <2>4
<1> QED
  BY <1>5, <1>6

LEMMA LooksFresh ==
  ASSUME IInv, SureAnswers, NEW t \in Threads, Looks(t), NEW p \in Paths, HoldsOld(t, p)'
  PROVE  Covered(p)
<1>0. Ordered /\ World /\ object' = object
  BY LooksHolds DEF IInv, TypeInv
<1>1. Looking(t) \/ pc[t] \in Asking
  BY DEF Looks, GetStatHit, GetStatOld, GetStatMiss, IsNoObject, HeadFile, HeadDir, Check, Again,
         Asking, Filling
<1>2. pc[t] # "idle" /\ Doing(t) \in Lookups
  BY <1>0, <1>1, LookingCalls
<1>3. ASSUME NEW label \in Labels, Goto(t, label) PROVE pc'[t] = label /\ call' = call
  BY <1>0, <1>3 DEF Goto, Ordered
<1>4. ASSUME NEW stat, NEW mode \in Modes \cup {NoMode}, Answered(t, stat, mode) PROVE FALSE
  <2>1. pc'[t] \in {"idle", "next"}
    BY <1>0, <1>2, <1>4, AnsweredHolds
  <2> QED
    BY <2>1, NotFilling DEF Filling
<1>5. ASSUME NEW label \in {"drop", "isno", "head"}, Goto(t, label) PROVE FALSE
  <2>1. pc'[t] = label
    BY <1>3, <1>5 DEF Labels, Asking
  <2> QED
    BY <2>1, NotFilling DEF Filling
<1>6. ASSUME End(t) PROVE FALSE
  <2>1. pc'[t] = "idle"
    BY <1>0, <1>6 DEF End, Ordered
  <2> QED
    BY <2>1, NotFilling DEF Filling
<1>7. ASSUME NEW k \in Keys, object[k] # Absent, Fill(t, k, object[k]) PROVE FALSE
  <2>1. object[k] \in Attr \cup {Absent}
    BY <1>0 DEF World
  <2>2. pc'[t] = "check" /\ call'[t].key = k /\ call'[t].stat = object[k]
    BY <1>0, <1>2, <1>7, <2>1, FillHolds
  <2>3. Differs(object, k, object[k])
    BY <1>0, <2>2, FillIsOld
  <2> QED
    BY <1>7, <2>3 DEF Differs
<1>8. CASE GetStatHit(t)
  BY <1>4, <1>8 DEF GetStatHit, Kept, With
<1>9. CASE GetStatOld(t)
  BY <1>5, <1>9 DEF GetStatOld
<1>10. CASE GetStatMiss(t)
  BY <1>5, <1>10 DEF GetStatMiss, AfterMiss
<1>11. CASE IsNoObject(t)
  <2>1. Answered(t, Absent, NoMode) \/ Goto(t, "head")
    BY <1>11 DEF IsNoObject
  <2> QED
    BY <1>4, <1>5, <2>1
<1>12. CASE HeadFile(t)
  <2> DEFINE k == IF Doing(t) = "refresh" THEN call[t].key ELSE File(Target(t))
  <2>1. k \in Keys
    BY <1>0, <1>1, LookingCalls
  <2>2. \/ object[k] # Absent /\ Fill(t, k, object[k])
        \/ End(t)
        \/ Doing(t) = "peekFile" /\ NotFound(t) /\ (object[k] = Absent \/ HeadMayFail)
        \/ Doing(t) # "refresh" /\ Goto(t, "headdir") /\ (object[k] = Absent \/ HeadMayFail)
    BY <1>12 DEF HeadFile
  <2>3. CASE Doing(t) = "peekFile" /\ NotFound(t) /\ (object[k] = Absent \/ HeadMayFail)
    <3>1. ~HeadDir(t) /\ k = File(Target(t))
      BY <1>12, <2>3 DEF HeadFile, HeadDir
    <3> QED
      BY <1>0, <1>12, <2>3, <3>1, NotFoundIsTrue
  <2>4. CASE Doing(t) # "refresh" /\ Goto(t, "headdir") /\ (object[k] = Absent \/ HeadMayFail)
    <3>1. pc'[t] = "headdir" /\ call' = call
      BY <1>3, <2>4 DEF Labels, Asking
    <3>2. CacheNoObject /\ Target(t)' = p /\ object'[File(p)] # Absent
      BY <3>1 DEF HoldsOld
    <3>3. Target(t) = p
      BY <3>1, <3>2 DEF Target, Doing
    <3> QED
      BY <1>0, <2>4, <3>2, <3>3 DEF SureAnswers
  <2> HIDE DEF k
  <2> QED
    BY <1>6, <1>7, <2>1, <2>2, <2>3, <2>4
<1>13. CASE HeadDir(t)
  <2> DEFINE k == Dir(Target(t))
  <2>1. k \in Keys
    BY <1>0, <1>1, LookingCalls
  <2>2. \/ object[k] # Absent /\ Fill(t, k, object[k])
        \/ NotFound(t) /\ (object[k] = Absent \/ HeadMayFail)
    BY <1>13 DEF HeadDir
  <2>3. CASE NotFound(t) /\ (object[k] = Absent \/ HeadMayFail)
    <3>1. ~HeadFile(t)
      BY <1>13 DEF HeadFile, HeadDir
    <3> QED
      BY <1>0, <1>13, <2>3, <3>1, NotFoundIsTrue
  <2> HIDE DEF k
  <2> QED
    BY <1>7, <2>1, <2>2, <2>3
<1>14. CASE Check(t)
  <2>1. PICK next \in {"replace", "evict", "insert"} : Goto(t, next)
    BY <1>14 DEF Check
  <2>2. pc'[t] = next /\ call' = call /\ pc[t] = "check"
    BY <1>3, <1>14, <2>1 DEF Check, Labels, Asking, Filling
  <2>3. HoldsOld(t, p)
    BY <1>0, <2>2 DEF HoldsOld, Outdated
  <2> QED
    BY <2>3 DEF IInv, AnswersFresh
<1>15. CASE Again(t)
  <2>1. call[t].stat \in Attr /\ call[t].stat.mode \in Modes \cup {NoMode}
    BY <1>0, <1>15 DEF Again, Ordered, CallHolds, Attr
  <2>2. \E stat, mode : mode \in Modes \cup {NoMode} /\ Answered(t, stat, mode)
    BY <1>15, <2>1 DEF Again, Kept, With
  <2> QED
    BY <1>4, <2>2
<1> QED
  BY <1>8, <1>9, <1>10, <1>11, <1>12, <1>13, <1>14, <1>15 DEF Looks

LEMMA CachesFresh ==
  ASSUME IInv, NEW t \in Threads, Drop(t) \/ Replace(t) \/ Evict(t) \/ Insert(t)
  PROVE  /\ \A p \in Paths : HoldsOld(t, p)' => Covered(p)
         /\ \A k \in Keys : \/ cache'[k] \in {cache[k], NoEntry}
                            \/ Differs(object', k, cache'[k]) => Covered(k[1])
<1>0. Ordered /\ World
  BY DEF IInv, TypeInv
<1>1. object' = object /\ (~Insert(t) => \A k \in Keys : cache'[k] \in {cache[k], NoEntry})
  BY <1>0, CachesHolds
<1>2. CASE Drop(t)
  <2>1. pc'[t] = AfterMiss(t) /\ ~Insert(t)
    BY <1>0, <1>2 DEF Drop, Goto, Insert, Ordered
  <2>2. pc'[t] \notin Filling \cup {"headdir"}
    BY <2>1 DEF AfterMiss, Filling
  <2> QED
    BY <1>1, <2>1, <2>2, NotFilling
<1>3. CASE Replace(t) \/ Evict(t)
  <2>1. call' = call /\ pc[t] \in Filling /\ ~Insert(t)
    BY <1>3 DEF Replace, Evict, Goto, Insert, Filling
  <2>2. pc'[t] = "insert"
    BY <1>0, <1>3 DEF Replace, Evict, Goto, Ordered
  <2>3. ASSUME NEW p \in Paths, HoldsOld(t, p)' PROVE Covered(p)
    <3>1. HoldsOld(t, p)
      BY <1>1, <2>1, <2>2, <2>3 DEF HoldsOld, Outdated, Filling
    <3> QED
      BY <3>1 DEF IInv, AnswersFresh
  <2> QED
    BY <1>1, <2>1, <2>3
<1>4. CASE Insert(t)
  <2> DEFINE key == call[t].key
             stat == call[t].stat
  <2>1. key \in Keys /\ cache' = [cache EXCEPT ![key] = stat] /\ pc'[t] \notin Filling \cup {"headdir"}
    BY <1>0, <1>4, CachesHolds
  <2>2. Differs(object, key, stat) => Covered(key[1])
    <3>1. Differs(object, key, stat) => HoldsOld(t, key[1])
      BY <1>4, OutdatedDiffers DEF HoldsOld, Insert
    <3> QED
      BY <2>1, <3>1, KeysOf DEF IInv, AnswersFresh
  <2> HIDE DEF key, stat
  <2>3. ASSUME NEW k \in Keys
        PROVE  cache'[k] \in {cache[k], NoEntry} \/ (Differs(object', k, cache'[k]) => Covered(k[1]))
    <3>1. CASE k = key
      <4>1. cache'[k] = stat
        BY <1>0, <2>1, <3>1 DEF World
      <4> QED
        BY <1>1, <2>2, <3>1, <4>1
    <3>2. CASE k # key
      BY <1>0, <2>1, <3>2 DEF World
    <3> QED
      BY <3>1, <3>2
  <2> QED
    BY <2>1, <2>3, NotFilling
<1> QED
  BY <1>2, <1>3, <1>4

\* A change of one object leaves the objects of other paths alone.
LEMMA OtherPathsSame ==
  ASSUME World, NEW k \in Keys, NEW v, object' \in {object, [object EXCEPT ![k] = v]},
         NEW p \in Paths, p # k[1]
  PROVE  object'[File(p)] = object[File(p)] /\ object'[Dir(p)] = object[Dir(p)]
<1>1. File(p) \in Keys /\ Dir(p) \in Keys /\ File(p) # k /\ Dir(p) # k
  BY DEF File, Dir, Keys
<1> QED
  BY <1>1 DEF World

\* A call that changed an object owes its path, unless it is excused.
LEMMA PutOwes ==
  ASSUME IInv, NEW t \in Threads, Put(t), NEW p, p = PutKey(call[t])[1]
  PROVE  Covered(p)'
<1> DEFINE rest == Elems(Tail(call[t].left))
           kind == call[t].kind
<1>1. Ordered /\ World /\ Sources /\ pc[t] = "next" /\ pc[t] # "idle" /\ Doing(t) = "put"
  BY DEF IInv, TypeInv, Put
<1>2. /\ Others(t) /\ Done(t)
      /\ excused' = IF kind = "flush" THEN excused \cup {call[t].path} ELSE excused
  BY <1>1, PutHolds
<1>3. /\ kind \in Changers \cup {"rename", "flush"} /\ "put" \notin rest
      /\ kind \in Changers => "forget" \in rest
      /\ kind = "rename" => "forgetTo" \in rest
      /\ Elems(<<>>) = {}
  BY <1>1, AheadOf
<1>4. CASE kind = "flush"
  <2>1. p = call[t].path
    BY <1>4 DEF PutKey, File
  <2>2. p \in excused'
    BY <1>2, <1>4, <2>1
  <2> QED
    BY <2>2 DEF Covered
<1>5. CASE kind # "flush"
  <2>1. Does(t) /\ Ahead(t)' = rest
    BY <1>2, <1>3, <1>5 DEF Done, Does, Ahead
  <2>2. p = IF kind = "rename" THEN call[t].to ELSE call[t].path
    BY DEF PutKey, File, Dir
  <2>3. Owes(t, p)'
    <3>1. /\ call'[t].kind = kind /\ call'[t].path = call[t].path /\ call'[t].to = call[t].to
          /\ kind \in Changers \cup Exclusive
      BY <1>3, <1>5, <2>1 DEF Does, Same, Exclusive
    <3>2. p = IF kind = "rename" THEN call'[t].to ELSE call'[t].path
      BY <2>2, <3>1
    <3> QED
      BY <1>3, <1>5, <2>1, <3>1, <3>2 DEF Owes
  <2> QED
    BY <2>3 DEF Covered
<1> QED
  BY <1>4, <1>5

LEMMA PutFresh ==
  ASSUME IInv, NEW t \in Threads, Put(t)
  PROVE  EntriesFresh' /\ AnswersFresh'
<1>0. PICK k : k = PutKey(call[t])
  OBVIOUS
<1>1. Ordered /\ World /\ Sources /\ pc[t] = "next" /\ pc[t] # "idle" /\ Doing(t) = "put"
  BY DEF IInv, TypeInv, Put
<1>2. /\ Others(t) /\ Done(t) /\ cache' = cache /\ excused \subseteq excused'
      /\ \E v \in Attr : object' = [object EXCEPT ![k] = v]
  BY <1>0, <1>1, PutHolds
<1>3. k \in Keys /\ Covered(k[1])'
  BY <1>0, <1>1, PutKnown, PutOwes
<1>4. \A p \in Paths : Covered(p) => Covered(p)'
  BY <1>1, <1>2, OwesStays, CoveredStays
<1>5. \A p \in Paths : \/ Covered(p)'
                       \/ object'[File(p)] = object[File(p)] /\ object'[Dir(p)] = object[Dir(p)]
  <2>1. \E v : object' \in {object, [object EXCEPT ![k] = v]}
    BY <1>2
  <2> QED
    BY <1>1, <1>3, <2>1, OtherPathsSame
<1>6. \A p \in Paths : ~HoldsOld(t, p)'
  BY <1>2, NotFilling DEF Done, Over, Does, Filling
<1> QED
  BY <1>2, <1>4, <1>5, <1>6, FreshStays

LEMMA PutFailsFresh ==
  ASSUME IInv, NEW t \in Threads, PutFails(t)
  PROVE  EntriesFresh' /\ AnswersFresh'
<1>0. PICK k : k = PutKey(call[t])
  OBVIOUS
<1>1. Ordered /\ World /\ Sources /\ pc[t] = "next" /\ pc[t] # "idle" /\ Doing(t) = "put"
  BY DEF IInv, TypeInv, PutFails
<1>2. /\ Others(t) /\ cache' = cache
      /\ object' = object \/ \E v \in Attr : object' = [object EXCEPT ![k] = v]
      /\ \/ /\ call[t].kind \in {"create", "mkdir", "symlink"} /\ excused' = excused
            /\ Same(t) /\ pc'[t] = "next" /\ call'[t].left = <<"forget">>
         \/ Over(t) /\ excused' = excused \cup {k[1]}
  BY <1>0, <1>1, PutFailsHolds
<1>3. k \in Keys
  BY <1>0, <1>1, PutKnown
<1>4. Covered(k[1])'
  <2>1. CASE Over(t) /\ excused' = excused \cup {k[1]}
    BY <2>1 DEF Covered
  <2>2. CASE /\ call[t].kind \in {"create", "mkdir", "symlink"} /\ excused' = excused
             /\ Same(t) /\ pc'[t] = "next" /\ call'[t].left = <<"forget">>
    <3>1. k[1] = call'[t].path /\ call'[t].kind \in Changers
      BY <1>0, <2>2 DEF PutKey, File, Dir, Same, Changers, Makers
    <3>2. Elems(<<"forget">>) = {"forget"}
      BY DEF Elems
    <3>3. Ahead(t)' = {"forget"}
      BY <2>2, <3>2 DEF Ahead
    <3>4. Owes(t, k[1])'
      BY <3>1, <3>3 DEF Owes
    <3> QED
      BY <3>4 DEF Covered
  <2> QED
    BY <1>2, <2>1, <2>2
<1>5. \A p \in Paths : Covered(p) => Covered(p)'
  <2>1. \A p : ~Owes(t, p)
    BY <1>1, AheadOf DEF Owes
  <2> QED
    BY <1>2, <2>1, CoveredStays
<1>6. \A p \in Paths : ~HoldsOld(t, p)'
  BY <1>2, NotFilling DEF Over, Filling
<1>7. \A p \in Paths : \/ Covered(p)'
                       \/ object'[File(p)] = object[File(p)] /\ object'[Dir(p)] = object[Dir(p)]
  <2>1. \E v : object' \in {object, [object EXCEPT ![k] = v]}
    BY <1>2
  <2> QED
    BY <1>1, <1>3, <1>4, <2>1, OtherPathsSame
<1> QED
  BY <1>2, <1>5, <1>6, <1>7, FreshStays

LEMMA DeleteFresh ==
  ASSUME IInv, NEW t \in Threads, Delete(t)
  PROVE  EntriesFresh' /\ AnswersFresh'
<1>1. Ordered /\ World /\ pc[t] # "idle" /\ Doing(t) = "delete"
  BY DEF IInv, TypeInv, Delete
<1>2. Others(t) /\ Done(t) /\ UNCHANGED <<cache, excused>>
  BY <1>1, DeleteHolds
<1>3. PICK k \in Keys : k[1] = call[t].path /\ object' \in {object, [object EXCEPT ![k] = Absent]}
  BY <1>1, DeleteHolds
<1>4. Covered(k[1])'
  <2> DEFINE rest == Elems(Tail(call[t].left))
  <2>1. call[t].kind \in Exclusive /\ "forget" \in rest /\ "put" \notin rest /\ Elems(<<>>) = {}
    BY <1>1, AheadOf
  <2>2. Does(t) /\ Ahead(t)' = rest
    BY <1>2, <2>1 DEF Done, Does, Ahead
  <2>3. Owes(t, k[1])'
    BY <1>3, <2>1, <2>2 DEF Owes, Does, Same
  <2> QED
    BY <2>3 DEF Covered
<1>5. \A p \in Paths : Covered(p) => Covered(p)'
  BY <1>1, <1>2, OwesStays, CoveredStays
<1>6. \A p \in Paths : \/ Covered(p)'
                       \/ object'[File(p)] = object[File(p)] /\ object'[Dir(p)] = object[Dir(p)]
  BY <1>3, <1>1, <1>4, OtherPathsSame
<1>7. \A p \in Paths : ~HoldsOld(t, p)'
  BY <1>2, NotFilling DEF Done, Over, Does, Filling
<1> QED
  BY <1>2, <1>5, <1>6, <1>7, FreshStays

\* DelStat takes every entry of the path; an answer that somebody still holds excuses it.
LEMMA ForgetFresh ==
  ASSUME IInv, NEW t \in Threads, Forget(t)
  PROVE  EntriesFresh' /\ AnswersFresh'
<1> DEFINE gone == Target(t)
<1>1. /\ Ordered /\ World /\ pc[t] # "idle" /\ Doing(t) \in {"forget", "forgetTo"}
      /\ gone \in Paths /\ cache' = Dropped(gone)
      /\ excused' = IF \E u \in Threads \ {t} : HoldsOld(u, gone) THEN excused \cup {gone} ELSE excused \ {gone}
  BY CallKnown DEF IInv, TypeInv, Forget
<1>2. Others(t) /\ Done(t) /\ object' = object
  BY <1>1, ForgetHolds
<1>3. \A u \in Threads \ {t}, p \in Paths : HoldsOld(u, p)' <=> HoldsOld(u, p)
  BY <1>2 DEF Others, HoldsOld, Outdated, Target, Doing
<1>4. \A p \in Paths : ~HoldsOld(t, p)'
  BY <1>2, NotFilling DEF Done, Over, Does, Filling
<1>5. ASSUME NEW p \in Paths, p # gone, Covered(p) PROVE Covered(p)'
  <2>1. Owes(t, p) => Owes(t, p)'
    <3> SUFFICES ASSUME Owes(t, p) PROVE Owes(t, p)'
      OBVIOUS
    <3> DEFINE rest == Elems(Tail(call[t].left))
    <3>1. /\ \A a : a \in Ahead(t) <=> a = Doing(t) \/ a \in rest
          /\ Doing(t) = "forgetTo" => call[t].kind = "rename"
          /\ Elems(<<>>) = {}
      BY <1>1, AheadOf
    <3>2. call[t].kind = "rename" <=> call[t].path # call[t].to
      BY <1>1 DEF Ordered, CallHolds
    <3>3. \/ p = call[t].path /\ "forget" \in rest
          \/ p = call[t].to /\ "forgetTo" \in rest
      BY <1>1, <1>5, <3>1, <3>2 DEF Owes, Target
    <3>4. "put" \notin rest /\ Does(t) /\ Ahead(t)' = rest
      BY <1>2, <3>1, <3>3 DEF Owes, Done, Does, Ahead
    <3> QED
      BY <3>3, <3>4 DEF Owes, Does, Same
  <2>2. p \in excused => p \in excused'
    BY <1>1, <1>5
  <2> QED
    BY <1>2, <1>5, <2>1, <2>2 DEF Covered, Others, Owes, Ahead
<1>6. EntriesFresh'
  <2> SUFFICES ASSUME NEW k \in Keys, cache'[k] # NoEntry, Outdated(k, cache[k])' PROVE Covered(k[1])'
    BY DEF EntriesFresh
  <2>1. k[1] # gone /\ cache'[k] = cache[k] /\ k[1] \in Paths
    BY <1>1, KeysOf DEF Dropped
  <2>2. Outdated(k, cache[k])
    BY <1>2, <2>1 DEF Outdated
  <2>3. Covered(k[1])
    BY <2>1, <2>2 DEF IInv, EntriesFresh
  <2> QED
    BY <1>5, <2>1, <2>3
<1>7. ASSUME NEW u \in Threads, NEW p \in Paths, HoldsOld(u, p)' PROVE Covered(p)'
  <2>1. u # t /\ HoldsOld(u, p)
    BY <1>3, <1>4, <1>7
  <2>2. CASE p = gone
    BY <1>1, <2>1, <2>2 DEF Covered
  <2>3. CASE p # gone
    BY <1>5, <2>1, <2>3 DEF IInv, AnswersFresh
  <2> QED
    BY <2>2, <2>3
<1> QED
  BY <1>6, <1>7 DEF AnswersFresh

LEMMA EndingFresh ==
  ASSUME IInv, NEW t \in Threads, FlushNothing(t) \/ Opened(t)
  PROVE  EntriesFresh' /\ AnswersFresh'
<1>1. Ordered /\ World
  BY DEF IInv, TypeInv
<1>2. Others(t) /\ Over(t) /\ UNCHANGED <<object, cache, excused>> /\ pc[t] # "idle"
  BY <1>1, EndingHolds
<1>3. \A p : ~Owes(t, p)
  <2>1. CASE FlushNothing(t)
    BY <2>1 DEF FlushNothing, Owes, Changers, Makers, Exclusive
  <2>2. CASE Opened(t)
    <3>1. Doing(t) = "opened"
      BY <2>2 DEF Opened
    <3> QED
      BY <1>1, <1>2, <3>1, AheadOf DEF Owes
  <2> QED
    BY <2>1, <2>2
<1>4. \A p \in Paths : Covered(p) => Covered(p)'
  BY <1>2, <1>3, CoveredStays
<1>5. \A p \in Paths : ~HoldsOld(t, p)'
  BY <1>2, NotFilling DEF Over, Filling
<1> QED
  BY <1>2, <1>4, <1>5, FreshStays

LEMMA BeginFresh ==
  ASSUME IInv, NEW t \in Threads,
         \/ \E kind \in Kinds, p \in Paths, q \in Paths : Begin(t, kind, p, q)
         \/ \E k \in Keys : BeginList(t, k)
  PROVE  EntriesFresh' /\ AnswersFresh'
<1>1. Ordered /\ World
  BY DEF IInv, TypeInv
<1>2. Others(t) /\ UNCHANGED <<object, cache, excused>> /\ pc[t] = "idle" /\ pc'[t] = "next"
  BY <1>1, BeginHolds
<1>3. \A p : ~Owes(t, p)
  <2>1. call[t].kind = "none"
    BY <1>1, <1>2 DEF Ordered, CallHolds
  <2> QED
    BY <2>1 DEF Owes, Changers, Makers, Exclusive
<1>4. \A p \in Paths : Covered(p) => Covered(p)'
  BY <1>2, <1>3, CoveredStays
<1>5. \A p \in Paths : ~HoldsOld(t, p)'
  BY <1>2, NotFilling DEF Filling
<1> QED
  BY <1>2, <1>4, <1>5, FreshStays

LEMMA IInvInit == Init => IInv
<1> SUFFICES ASSUME Init PROVE IInv
  OBVIOUS
<1>1. EntriesFresh /\ AnswersFresh
  BY DEF Init, EntriesFresh, AnswersFresh, HoldsOld
<1> QED
  BY <1>1, TypeInit DEF IInv

LEMMA IInvStep ==
  ASSUME SureAnswers, IInv, [Next]_vars
  PROVE  IInv'
<1>0. TypeInv'
  BY TypeStep DEF IInv
<1>1. CASE UNCHANGED vars
  BY <1>0, <1>1 DEF vars, IInv, EntriesFresh, AnswersFresh, Outdated, HoldsOld, Target, Doing,
                    Covered, Owes, Ahead
<1>2. ASSUME NEW t \in Threads, Looks(t) \/ Drop(t) \/ Replace(t) \/ Evict(t) \/ Insert(t)
      PROVE  EntriesFresh' /\ AnswersFresh'
  <2>1. Ordered /\ World
    BY DEF IInv, TypeInv
  <2>2. Others(t) /\ Asked(t) /\ UNCHANGED <<object, excused>>
    BY <1>2, <2>1, LooksHolds, CachesHolds
  <2>3. pc[t] # "idle" /\ Doing(t) \in Lookups
    <3>1. Looking(t) \/ pc[t] \in Asking
      BY <1>2 DEF Looks, GetStatHit, GetStatOld, GetStatMiss, IsNoObject, HeadFile, HeadDir, Check,
                  Again, Drop, Replace, Evict, Insert, Asking, Filling
    <3> QED
      BY <2>1, <3>1, LookingCalls
  <2>4. \A p \in Paths : Covered(p) => Covered(p)'
    BY <2>1, <2>2, <2>3, OwesStays, CoveredStays DEF Lookups
  <2>5. \A p \in Paths : HoldsOld(t, p)' => Covered(p)
    BY <1>2, LooksFresh, CachesFresh
  <2>6. \A k \in Keys : \/ cache'[k] \in {cache[k], NoEntry}
                        \/ Differs(object', k, cache'[k]) => Covered(k[1])
    <3>1. Looks(t) => cache' = cache
      BY <2>1, LooksHolds
    <3> QED
      BY <1>2, <3>1, CachesFresh
  <2>7. \A k \in Keys : \/ cache'[k] \in {cache[k], NoEntry}
                        \/ Differs(object', k, cache'[k]) => Covered(k[1])'
    BY <2>4, <2>6, KeysOf
  <2> QED
    BY <2>2, <2>4, <2>5, <2>7, FreshStays
<1>3. ASSUME NEW t \in Threads,
             \/ \E kind \in Kinds, p \in Paths, q \in Paths : Begin(t, kind, p, q)
             \/ \E k \in Keys : BeginList(t, k)
             \/ Put(t) \/ FlushNothing(t) \/ PutFails(t) \/ Delete(t) \/ Forget(t) \/ Opened(t)
      PROVE  EntriesFresh' /\ AnswersFresh'
  BY <1>3, BeginFresh, PutFresh, PutFailsFresh, DeleteFresh, ForgetFresh, EndingFresh
<1>4. EntriesFresh' /\ AnswersFresh' => IInv'
  BY <1>0 DEF IInv
<1> QED
  BY <1>1, <1>2, <1>3, <1>4 DEF Next, Looks

(* An entry of the cache is what the server would answer now, except while a *)
(* call is changing the path and in the other cases that CacheFresh names,   *)
(* for any threads, paths and mix of calls: no call that changes an object   *)
(* returns before the entries that show it are gone, and no answer that a    *)
(* change has overtaken stays unnoticed (cache.cpp:371-408).                 *)
THEOREM EntriesStayFresh ==
  ASSUME SureAnswers
  PROVE  Spec => []CacheFresh
<1>1. IInv /\ [Next]_vars => IInv'
  BY IInvStep
<1>2. IInv => CacheFresh
  <2> SUFFICES ASSUME IInv, NEW k \in Keys, cache[k] # NoEntry, Outdated(k, cache[k])
               PROVE  k[1] \in excused \/ Running(Changers \cup Exclusive, k[1])
    BY DEF CacheFresh
  <2>1. Covered(k[1])
    BY DEF IInv, EntriesFresh
  <2> QED
    BY <2>1 DEF Covered, Owes, Running
<1> QED
  BY <1>1, <1>2, IInvInit, PTL DEF Spec

==============================================================================
