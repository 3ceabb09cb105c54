--------------------------- MODULE TransfersProofs --------------------------
(***************************************************************************)
(* AtomicReplace and DownloadIsExact for every number of chunks, blocks,   *)
(* parallel requests and retries, from one inductive invariant: each chunk *)
(* that was given out has at most one request, and as long as it has one   *)
(* it has no etag and its blocks behind the request's position are there.  *)
(***************************************************************************)
EXTENDS Transfers, TLAPS

Pending == all \cup req

\* No chunk is in two requests.
OneRequestEach ==
    /\ \A r, q \in all : r.chunk = q.chunk => r = q
    /\ \A r, q \in req : r.chunk = q.chunk => r = q
    /\ \A r \in all, q \in req : r.chunk # q.chunk

\* A request is for a chunk that was given out and has no etag yet.
PendingHasNoEtag == \A r \in Pending : r.chunk \in 1..next /\ r.chunk \notin etags

\* An etag stands for a good part, and so does the answer it is taken from.
EtagsAreGood ==
    /\ \A c \in etags : InParts /\ c \in 1..next /\ parts[c] = "good"
    /\ kind = "put" /\ pc = "read" => \A r \in req : r.code = "ok" => parts[r.chunk] = "good"

\* The upload goes on to its end only with all chunks or with one that is missing.
EndIsKnown ==
    /\ pc = "complete" => next = N \/ ~ListComplete
    /\ pc = "perform" => Pending # {}
    /\ pc \in {"batch", "complete"} => Pending = {}
    /\ pc = "round" => req = {}
    /\ pc = "start" => next = 0 /\ Pending = {}
    /\ pc \in {"start", "complete"} => InParts
    /\ pc \in {"batch", "round", "perform", "read"} => kind \in {"get", "put"}
    /\ pc = "copy" => kind = "copy" /\ Pending = {} /\ next < N + 1
    /\ pc = "single" => kind \in {"load", "store"} /\ Pending = {}

\* What the answers say of a download.
AnswersOfGet ==
    kind = "get" /\ pc = "read" =>
        \A r \in req : /\ r.code \in {"ok", "mismatch"} => r.pos = Units
                       /\ r.code = "missing" => r.chunk \in spoilt

\* Blocks behind the position of the request, or all if there is none, are there.
BlocksArrived ==
    \A c \in (1..next) \ spoilt, u \in 1..Units :
        kind = "get" /\ pc \notin {"end", "crashed"}
        /\ (\A r \in Pending : r.chunk = c => u <= r.pos)
            => file[c][u] = "data"

IInv ==
    /\ TypeOK
    /\ OneRequestEach
    /\ PendingHasNoEtag
    /\ EtagsAreGood
    /\ EndIsKnown
    /\ AnswersOfGet
    /\ BlocksArrived
    /\ AtomicReplace
    /\ DownloadIsExact
    /\ result # "none" => pc = "end"

USE SizesAssumption, LimitsAssumption

-----------------------------------------------------------------------------
(* Types.                                                                  *)

\* The answer to a request is a request of the same chunk; a download goes only forward.
LEMMA AnswerKeeps ==
    ASSUME NEW r \in Request, NEW a \in Answer(r)
    PROVE  /\ a \in Request
           /\ a.chunk = r.chunk
           /\ a.code \in Codes
           /\ a.code = "ok" => a.pos = Units
           /\ kind = "get" => a.pos >= r.pos
           /\ kind = "get" /\ a.code \in {"ok", "mismatch"} => a.pos = Units
           /\ kind = "get" /\ IsError(a) /\ a.pos > r.pos => Spoils(r, a)
           /\ kind = "get" /\ a.code = "missing" => Spoils(r, a)
  BY DEF Answer, Ended, Request, Codes, Lesser, IsError, Spoils

\* A retry is a request of the same chunk.
LEMMA RetryKeeps ==
    ASSUME NEW r \in Request, CanRetry(r)
    PROVE  /\ RetryOf(r) \in Request
           /\ RetryOf(r).chunk = r.chunk
           /\ kind = "get" => RetryOf(r).pos = r.pos
  BY DEF CanRetry, RetryOf, Request, Codes

\* A new request starts at the head of its chunk.
LEMMA NewKeeps ==
    ASSUME NEW c \in Chunks
    PROVE  NewRequest(c) \in Request /\ NewRequest(c).chunk = c /\ NewRequest(c).pos = 0
  BY DEF NewRequest, Request, Codes, Chunks

\* The effect of a round keeps the types of what it changes.
LEMMA TransferredTypes ==
    ASSUME TypeOK, NEW answer \in Answers, Transferred(answer)
    PROVE  /\ file' \in [Chunks -> [1..Units -> {"hole", "data", "text"}]]
           /\ parts' \in [Chunks -> {"none", "good", "bad"}]
           /\ spoilt' \subseteq Chunks
           /\ spoilt \subseteq spoilt'
  <1>1. file' \in [Chunks -> [1..Units -> {"hole", "data", "text"}]]
    <2>1. file \in [Chunks -> [1..Units -> {"hole", "data", "text"}]]
      BY DEF TypeOK
    <2>2. CASE kind = "get"
      <3> DEFINE arrived(c, u) == \E r \in req : r.chunk = c /\ r.pos < u /\ u <= answer[r].pos
                 failed(c)     == \E r \in req : r.chunk = c /\ IsError(answer[r])
                 block(c, u)   == IF arrived(c, u) THEN IF failed(c) THEN "text" ELSE "data"
                                  ELSE file[c][u]
      <3>1. file' = [c \in Chunks |-> [u \in 1..Units |-> block(c, u)]]
        BY <2>2 DEF Transferred, Received
      <3>2. \A c \in Chunks, u \in 1..Units : block(c, u) \in {"hole", "data", "text"}
        <4> HIDE DEF arrived, failed
        <4> QED  BY <2>1
      <3> HIDE DEF block
      <3> QED  BY <3>1, <3>2
    <2>3. CASE kind # "get"
      BY <2>1, <2>3 DEF Transferred
    <2> QED  BY <2>2, <2>3
  <1>2. parts' \in [Chunks -> {"none", "good", "bad"}]
    BY DEF TypeOK, Transferred, Stored
  <1>3. spoilt' \subseteq Chunks /\ spoilt \subseteq spoilt'
    BY DEF TypeOK, Transferred, Request
  <1> QED  BY <1>1, <1>2, <1>3

\* Every answer of a round is an answer to its request.
LEMMA AnswersOfRound ==
    ASSUME TypeOK, NEW answer \in Answers, NEW r \in req
    PROVE  answer[r] \in Answer(r) /\ r \in Request
  BY DEF Answers, TypeOK

\* Types are kept.
LEMMA TypesKept == TypeOK /\ [Next]_vars => TypeOK'
  <1> SUFFICES ASSUME TypeOK, [Next]_vars PROVE TypeOK'
    OBVIOUS
  <1> USE DEF TypeOK
  <1>1. CASE GetUploadId \/ GetUploadIdAgain \/ GetUploadIdFails
    BY <1>1 DEF GetUploadId, GetUploadIdAgain, GetUploadIdFails, TryAgain, MayTry, Return, server
  <1>2. CASE MakeBatch
    <2>1. next' \in next..N /\ next' \in 0..N
      BY <1>2 DEF MakeBatch, Lesser
    <2>2. all' \subseteq Request
      BY <1>2, <2>1, NewKeeps DEF MakeBatch, Chunks, Lesser
    <2> QED  BY <1>2, <2>1, <2>2 DEF MakeBatch, server
  <1>13. CASE Single \/ SingleAgain \/ SingleFails
    <2>1. \A k \in 0..N, x \in {"hole", "data", "text"} :
            Filled(k, x) \in [Chunks -> [1..Units -> {"hole", "data", "text"}]]
      BY DEF Filled
    <2>2. N \in 0..N
      OBVIOUS
    <2>3. file' \in [Chunks -> [1..Units -> {"hole", "data", "text"}]] /\ object' \subseteq Chunks
      BY <1>13, <2>1, <2>2 DEF Single, SingleAgain, SingleFails, server
    <2> QED  BY <1>13, <2>3 DEF Single, SingleAgain, SingleFails, MayTry, TryAgain, Return, server
  <1>14. CASE CopyPart
    <2>1. next + 1 \in Chunks /\ next + 1 \in 0..N
      BY <1>14 DEF CopyPart, Chunks
    <2> QED  BY <1>14, <2>1 DEF CopyPart
  <1>15. CASE CopyPartAgain \/ CopyPartFails \/ LastCopy
    <2>1. CASE CopyPartAgain
      BY <2>1 DEF CopyPartAgain, MayTry, TryAgain, Return, server
    <2>2. CASE CopyPartFails
      BY <2>2 DEF CopyPartFails, Return, server
    <2>3. CASE LastCopy
      BY <2>3 DEF LastCopy, server
    <2> QED  BY <1>15, <2>1, <2>2, <2>3
  <1>3. CASE MakeBatchFails \/ LastBatch
    BY <1>3 DEF MakeBatchFails, LastBatch, Return, server
  <1>4. CASE BeginRound \/ RoundsDone
    BY <1>4 DEF BeginRound, RoundsDone, server
  <1>5. CASE MultiPerform
    <2>1. PICK answer \in Answers : Transferred(answer) /\ req' = {answer[r] : r \in req}
      BY <1>5 DEF MultiPerform
    <2>2. \A r \in req : answer[r] \in Request
      BY AnswersOfRound, AnswerKeeps
    <2> QED  BY <1>5, <2>1, <2>2, TransferredTypes DEF MultiPerform
  <1>6. CASE MultiPerformFails
    <2>1. PICK answer \in Answers : Transferred(answer)
      BY <1>6 DEF MultiPerformFails
    <2> QED  BY <1>6, <2>1, TransferredTypes DEF MultiPerformFails, Return
  <1>7. CASE ReadDone
    BY <1>7 DEF ReadDone, server, Request
  <1>8. CASE ReadRetry
    BY <1>8, RetryKeeps DEF ReadRetry, server
  <1>9. CASE ReadCrash \/ ReadEnd
    BY <1>9 DEF ReadCrash, ReadEnd, server
  <1>10. CASE CompleteUnfinished \/ CompleteFails
    BY <1>10 DEF CompleteUnfinished, CompleteFails, Return, server
  <1>11. CASE Complete \/ CompleteAgain
    <2>1. pc' \in {"complete", "end"} /\ tries' \in 0..Retries /\ result' \in {result, "ok", "error"}
      BY <1>11 DEF Complete, CompleteAgain, TryAgain, MayTry, Return
    <2>2. object' \subseteq Chunks /\ upload' \in {"open", "closed", upload} /\ parts' = parts
      <3>1. CASE Join
        <4>1. object' \subseteq 1..next /\ 1..next \subseteq Chunks
          BY <3>1 DEF Join, Chunks
        <4> QED  BY <3>1, <4>1 DEF Join
      <3>2. CASE UNCHANGED server
        BY <3>2 DEF server
      <3> QED  BY <1>11, <3>1, <3>2 DEF Complete, CompleteAgain
    <2> QED  BY <1>11, <2>1, <2>2 DEF Complete, CompleteAgain
  <1>12. CASE UNCHANGED vars
    BY <1>12 DEF vars, thread, server
  <1> QED  BY <1>1, <1>2, <1>3, <1>4, <1>5, <1>6, <1>7, <1>8, <1>9, <1>10, <1>11, <1>12, <1>13, <1>14, <1>15
         DEF Next

-----------------------------------------------------------------------------
(* The invariant.                                                          *)

\* It holds when the transfer begins.
LEMMA IInvAtStart == Init => IInv
  <1> SUFFICES ASSUME Init PROVE IInv
    OBVIOUS
  <1> USE DEF Init
  <1>1. TypeOK
    BY DEF TypeOK
  <1>2. OneRequestEach /\ PendingHasNoEtag /\ EtagsAreGood /\ EndIsKnown
    BY DEF OneRequestEach, PendingHasNoEtag, EtagsAreGood, EndIsKnown, Pending, InParts
  <1>3. AnswersOfGet /\ BlocksArrived /\ AtomicReplace /\ DownloadIsExact
    BY DEF AnswersOfGet, BlocksArrived, AtomicReplace, DownloadIsExact
  <1> QED  BY <1>1, <1>2, <1>3 DEF IInv

\* Before the first batch there is nothing to relate.
LEMMA StartKeeps ==
    ASSUME IInv, TypeOK', GetUploadId \/ GetUploadIdAgain \/ GetUploadIdFails
    PROVE  IInv'
  <1>1. /\ UNCHANGED <<kind, next, all, req, etags, file, parts, object, spoilt>>
        /\ pc = "start" /\ InParts /\ next = 0 /\ Pending = {}
        /\ \/ pc' \in {"start", "end"}
           \/ pc' = "batch" /\ kind = "put"
           \/ pc' = "copy" /\ kind = "copy"
        /\ result' # "none" => pc' = "end"
    BY DEF GetUploadId, GetUploadIdAgain, GetUploadIdFails, TryAgain, Return, server, IInv,
           EndIsKnown,
           InParts, TypeOK
  <1>2. OneRequestEach' /\ PendingHasNoEtag' /\ EtagsAreGood'
    BY <1>1 DEF IInv, OneRequestEach, PendingHasNoEtag, EtagsAreGood, Pending, InParts
  <1>3. EndIsKnown' /\ AnswersOfGet' /\ BlocksArrived' /\ AtomicReplace' /\ DownloadIsExact'
    BY <1>1 DEF IInv, EndIsKnown, Pending, AnswersOfGet, BlocksArrived, AtomicReplace,
                DownloadIsExact,
                InParts, IsDownload
  <1> QED  BY <1>1, <1>2, <1>3 DEF IInv

\* A single request replaces the object or the area as a whole when it succeeds.
LEMMA SingleKeeps ==
    ASSUME IInv, TypeOK', Single \/ SingleAgain \/ SingleFails
    PROVE  IInv'
  <1>1. /\ UNCHANGED <<kind, next, all, req, etags, parts, spoilt>>
        /\ pc = "single" /\ kind \in {"load", "store"} /\ Pending = {}
        /\ pc' \in {"single", "end"}
        /\ result' # "none" => pc' = "end"
        /\ object' \in {object, Chunks}
    BY DEF Single, SingleAgain, SingleFails, TryAgain, Return, server, IInv, EndIsKnown
  <1>2. OneRequestEach' /\ PendingHasNoEtag' /\ EtagsAreGood'
    BY <1>1 DEF IInv, OneRequestEach, PendingHasNoEtag, EtagsAreGood, Pending, InParts
  <1>3. EndIsKnown' /\ AnswersOfGet' /\ BlocksArrived' /\ AtomicReplace'
    BY <1>1 DEF IInv, EndIsKnown, Pending, AnswersOfGet, BlocksArrived, AtomicReplace
  <1>4. DownloadIsExact'
    <2>1. CASE Single /\ kind = "load"
      <3>1. \A c \in Chunks, u \in 1..Units : file'[c][u] = "data"
        BY <2>1 DEF Single, Filled, Chunks
      <3> QED  BY <3>1 DEF DownloadIsExact, Chunks
    <2>2. CASE ~(Single /\ kind = "load")
      <3>1. kind = "load" => result' # "ok"
        BY <1>1, <2>2 DEF SingleAgain, SingleFails, TryAgain, Return, IInv
      <3> QED  BY <1>1, <3>1 DEF DownloadIsExact, IsDownload
    <2> QED  BY <2>1, <2>2
  <1> QED  BY <1>1, <1>2, <1>3, <1>4 DEF IInv

\* A copy gives the next part its etag when the server has it.
LEMMA CopyKeeps ==
    ASSUME IInv, TypeOK', CopyPart \/ CopyPartAgain \/ CopyPartFails \/ LastCopy
    PROVE  IInv'
  <1>1. /\ UNCHANGED <<kind, all, req, file, object, spoilt>>
        /\ pc = "copy" /\ kind = "copy" /\ Pending = {}
        /\ pc' \in {"copy", "end"} \/ (pc' = "complete" /\ next' = N)
        /\ result' # "none" => pc' = "end"
        /\ next \in Nat /\ next' \in next..N
    BY DEF CopyPart, CopyPartAgain, CopyPartFails, LastCopy, TryAgain, Return, server, IInv,
           EndIsKnown,
           TypeOK
  <1>2. \A c \in etags' : c \in 1..next' /\ parts'[c] = "good"
    <2>1. CASE CopyPart
      <3>1. \A c \in etags : c \in 1..next /\ parts[c] = "good"
        BY DEF IInv, EtagsAreGood
      <3>2. next + 1 \in Chunks /\ 1..(next + 1) = (1..next) \cup {next + 1}
        BY <1>1, <2>1 DEF CopyPart, Chunks
      <3>3. parts' = [parts EXCEPT ![next + 1] = "good"] /\ etags' = etags \cup {next + 1}
            /\ next' = next + 1
        BY <2>1 DEF CopyPart
      <3> QED  BY <3>1, <3>2, <3>3 DEF IInv, TypeOK
    <2>2. CASE CopyPartAgain \/ CopyPartFails \/ LastCopy
      BY <2>2 DEF CopyPartAgain, CopyPartFails, LastCopy, server, IInv, EtagsAreGood, TypeOK
    <2> QED  BY <2>1, <2>2
  <1>3. OneRequestEach' /\ PendingHasNoEtag' /\ EtagsAreGood'
    BY <1>1, <1>2 DEF IInv, OneRequestEach, PendingHasNoEtag, EtagsAreGood, Pending, InParts
  <1>4. EndIsKnown' /\ AnswersOfGet' /\ BlocksArrived' /\ AtomicReplace' /\ DownloadIsExact'
    BY <1>1 DEF IInv, EndIsKnown, Pending, AnswersOfGet, BlocksArrived, AtomicReplace,
                DownloadIsExact,
                InParts, IsDownload
  <1> QED  BY <1>1, <1>3, <1>4 DEF IInv

\* A batch gives each of its chunks one request, at the head of the chunk.
LEMMA BatchKeeps ==
    ASSUME IInv, TypeOK', MakeBatch
    PROVE  IInv'
  <1> DEFINE Batch == (next + 1)..Lesser(next + MaxParallel, N)
  <1>1. /\ UNCHANGED <<kind, req, etags, result, file, server, spoilt>>
        /\ pc = "batch" /\ pc' = "round" /\ all = {} /\ req = {} /\ result = "none"
        /\ kind \in {"get", "put"}
        /\ all' = {NewRequest(c) : c \in Batch}
    BY DEF MakeBatch, IInv, TypeOK, EndIsKnown, Pending, InParts
  <1>2. /\ next' \in Nat /\ next \in Nat /\ next' <= N /\ next < next'
        /\ 1..next' = (1..next) \cup Batch
        /\ Batch \subseteq Chunks /\ \A c \in Batch : c \notin 1..next
    BY DEF MakeBatch, IInv, TypeOK, Lesser, Chunks
  <1>3. \A r \in all' : r.chunk \in Batch /\ r = NewRequest(r.chunk) /\ r.pos = 0
    BY <1>1, <1>2, NewKeeps
  <1>4. \A c \in Batch : \E r \in all' : r.chunk = c /\ r.pos = 0
    BY <1>1, <1>2, NewKeeps
  <1>5. \A c \in etags : c \in 1..next
    BY DEF IInv, EtagsAreGood, InParts
  <1>6. OneRequestEach' /\ PendingHasNoEtag'
    BY <1>1, <1>2, <1>3, <1>5 DEF OneRequestEach, PendingHasNoEtag, Pending
  <1>7. EtagsAreGood' /\ EndIsKnown' /\ AnswersOfGet' /\ AtomicReplace' /\ DownloadIsExact'
    BY <1>1, <1>2 DEF IInv, EtagsAreGood, EndIsKnown, AnswersOfGet, AtomicReplace,
                      DownloadIsExact, server, InParts, IsDownload
  <1>8. BlocksArrived'
    <2> SUFFICES ASSUME NEW c \in (1..next') \ spoilt, NEW u \in 1..Units, kind = "get",
                        \A r \in Pending' : r.chunk = c => u <= r.pos
                 PROVE  file[c][u] = "data"
      BY <1>1 DEF BlocksArrived
    <2>1. c \notin Batch
      <3> SUFFICES ASSUME c \in Batch PROVE FALSE
        OBVIOUS
      <3>1. PICK r \in all' : r.chunk = c /\ r.pos = 0
        BY <1>4
      <3> QED  BY <3>1 DEF Pending
    <2>2. c \in 1..next /\ Pending = {}
      BY <1>1, <1>2, <2>1 DEF Pending
    <2> QED  BY <1>1, <2>2 DEF IInv, BlocksArrived
  <1> QED  BY <1>1, <1>6, <1>7, <1>8 DEF IInv

\* Without a batch, the function ends or goes on to complete the upload.
LEMMA NoBatchKeeps ==
    ASSUME IInv, TypeOK', MakeBatchFails \/ LastBatch
    PROVE  IInv'
  <1>1. /\ UNCHANGED <<kind, next, all, req, etags, file, parts, object, spoilt>>
        /\ pc = "batch" /\ Pending = {} /\ result = "none"
        /\ \/ pc' = "end" /\ result' = "error"
           \/ pc' = "end" /\ result' = "ok" /\ next = N /\ kind = "get"
           \/ pc' = "complete" /\ result' = "none" /\ next = N /\ kind = "put"
    BY DEF MakeBatchFails, LastBatch, Return, server, IInv, EndIsKnown, TypeOK, InParts
  <1>2. OneRequestEach' /\ PendingHasNoEtag' /\ EtagsAreGood' /\ EndIsKnown'
    BY <1>1 DEF IInv, OneRequestEach, PendingHasNoEtag, EtagsAreGood, EndIsKnown, Pending, InParts
  <1>3. AnswersOfGet' /\ BlocksArrived' /\ AtomicReplace'
    BY <1>1 DEF IInv, AnswersOfGet, BlocksArrived, AtomicReplace, Pending
  <1>4. DownloadIsExact'
    BY <1>1 DEF IInv, BlocksArrived, DownloadIsExact, Chunks, IsDownload
  <1> QED  BY <1>1, <1>2, <1>3, <1>4 DEF IInv

\* A round only moves requests from one map to the other.
LEMMA RoundKeeps ==
    ASSUME IInv, TypeOK', BeginRound \/ RoundsDone \/ ReadEnd
    PROVE  IInv'
  <1>1. /\ UNCHANGED <<kind, next, etags, result, file, parts, object, spoilt>>
        /\ Pending' = Pending /\ result = "none"
        /\ \/ pc' = "perform" /\ Pending # {}
           \/ pc' = "batch" /\ Pending = {}
           \/ pc' = "round" /\ req' = {}
        /\ \/ all' = all /\ req' = req
           \/ req = {} /\ req' \subseteq all /\ all' = all \ req'
        /\ pc \notin {"end", "crashed"} /\ kind \in {"get", "put"}
    <2>1. CASE BeginRound
      BY <2>1 DEF BeginRound, server, IInv, EndIsKnown, TypeOK, Pending, InParts
    <2>2. CASE RoundsDone
      BY <2>2 DEF RoundsDone, server, IInv, EndIsKnown, TypeOK, Pending, InParts
    <2>3. CASE ReadEnd
      BY <2>3 DEF ReadEnd, server, IInv, EndIsKnown, TypeOK, Pending, InParts
    <2> QED  BY <2>1, <2>2, <2>3
  <1>2. OneRequestEach'
    BY <1>1 DEF IInv, OneRequestEach
  <1>3. PendingHasNoEtag' /\ EtagsAreGood' /\ EndIsKnown' /\ AnswersOfGet'
    BY <1>1 DEF IInv, PendingHasNoEtag, EtagsAreGood, EndIsKnown, AnswersOfGet, InParts
  <1>4. BlocksArrived' /\ AtomicReplace' /\ DownloadIsExact'
    BY <1>1 DEF IInv, BlocksArrived, AtomicReplace, DownloadIsExact, IsDownload
  <1> QED  BY <1>1, <1>2, <1>3, <1>4 DEF IInv

\* A round writes only behind the position of a request, and data unless the chunk is spoilt.
LEMMA BlocksWritten ==
    ASSUME IInv, NEW answer \in Answers, Transferred(answer), kind = "get",
           NEW c \in Chunks \ spoilt', NEW u \in 1..Units
    PROVE  file'[c][u] = IF \E r \in req : r.chunk = c /\ r.pos < u /\ u <= answer[r].pos
                         THEN "data" ELSE file[c][u]
  <1>1. TypeOK
    BY DEF IInv
  <1>2. spoilt' = spoilt \cup {r.chunk : r \in {q \in req : Spoils(q, answer[q])}}
    BY DEF Transferred
  <1>3. file'[c][u] = IF \E r \in req : r.chunk = c /\ r.pos < u /\ u <= answer[r].pos
                      THEN IF \E r \in req : r.chunk = c /\ IsError(answer[r]) THEN "text" ELSE "data"
                      ELSE file[c][u]
    BY DEF Transferred, Received
  <1>4. CASE \E r \in req : r.chunk = c /\ r.pos < u /\ u <= answer[r].pos
    <2>1. PICK r \in req : r.chunk = c /\ r.pos < u /\ u <= answer[r].pos
      BY <1>4
    <2>2. \A q \in req : q.chunk = c => q = r
      BY <2>1 DEF IInv, OneRequestEach
    <2>3. r \in Request /\ answer[r] \in Answer(r)
      BY <1>1, AnswersOfRound
    <2>4. answer[r] \in Request
      BY <1>1, <2>3, AnswerKeeps DEF TypeOK
    <2>5. answer[r].pos > r.pos
      BY <2>1, <2>3, <2>4 DEF Request
    <2>6. ~Spoils(r, answer[r])
      BY <1>2, <2>1
    <2>7. ~IsError(answer[r])
      BY <1>1, <2>3, <2>5, <2>6, AnswerKeeps DEF TypeOK
    <2> QED  BY <1>3, <1>4, <2>2, <2>7
  <1> QED  BY <1>3, <1>4

\* So what was behind a position, or is behind it now, is data.
LEMMA BlocksReceived ==
    ASSUME IInv, NEW answer \in Answers, Transferred(answer), kind = "get",
           NEW c \in (1..next) \ spoilt', NEW u \in 1..Units, c \in Chunks,
           pc \notin {"end", "crashed"},
           \A r \in all : r.chunk = c => u <= r.pos,
           \A r \in req : r.chunk = c => u <= answer[r].pos
    PROVE  file'[c][u] = "data"
  <1>1. file'[c][u] = IF \E r \in req : r.chunk = c /\ r.pos < u /\ u <= answer[r].pos
                      THEN "data" ELSE file[c][u]
    BY BlocksWritten
  <1>2. CASE ~\E r \in req : r.chunk = c /\ r.pos < u /\ u <= answer[r].pos
    <2>1. \A r \in Pending : r.chunk = c => u <= r.pos
      BY <1>2 DEF Pending, IInv, TypeOK, Request
    <2>2. c \notin spoilt
      BY DEF Transferred
    <2> QED  BY <1>1, <1>2, <2>1, <2>2 DEF IInv, BlocksArrived
  <1> QED  BY <1>1, <1>2

\* A round does not touch the parts that have an etag.
LEMMA EtagsKept ==
    ASSUME IInv, pc = "perform", NEW answer \in Answers, Transferred(answer)
    PROVE  /\ \A c \in etags : kind = "put" /\ c \in 1..next /\ parts'[c] = "good"
           /\ kind = "put" => \A r \in req : answer[r].code = "ok" => parts'[r.chunk] = "good"
  <1>1. TypeOK
    BY DEF IInv
  <1>2. ASSUME kind = "put"
        PROVE  \A c \in Chunks :
                 parts'[c] = IF \E r \in req : r.chunk = c /\ answer[r].pos = Units
                             THEN IF \E r \in req : r.chunk = c /\ answer[r].code = "mismatch"
                                  THEN "bad" ELSE "good"
                             ELSE parts[c]
    BY <1>2 DEF Transferred, Stored
  <1>3. ASSUME NEW c \in etags
        PROVE  kind = "put" /\ c \in 1..next /\ parts'[c] = "good"
    <2>1. kind = "put" /\ c \in 1..next /\ parts[c] = "good" /\ c \in Chunks
      BY <1>1, <1>3 DEF IInv, EtagsAreGood, EndIsKnown, TypeOK, InParts
    <2>2. \A r \in req : r.chunk # c
      BY <1>3 DEF IInv, PendingHasNoEtag, Pending
    <2> QED  BY <1>2, <2>1, <2>2
  <1>4. ASSUME kind = "put", NEW r \in req, answer[r].code = "ok"
        PROVE  parts'[r.chunk] = "good"
    <2>1. r \in Request /\ answer[r] \in Answer(r) /\ r.chunk \in Chunks
      BY <1>1, AnswersOfRound DEF Request
    <2>2. answer[r].pos = Units
      BY <1>4, <2>1, AnswerKeeps
    <2>3. \A q \in req : q.chunk = r.chunk => answer[q].code # "mismatch"
      BY <1>4 DEF IInv, OneRequestEach
    <2> QED  BY <1>2, <1>4, <2>1, <2>2, <2>3
  <1> QED  BY <1>3, <1>4

\* MultiPerform: the answers keep their chunks.
LEMMA PerformKeeps ==
    ASSUME IInv, TypeOK', MultiPerform
    PROVE  IInv'
  <1>1. PICK answer \in Answers : Transferred(answer) /\ req' = {answer[r] : r \in req}
    BY DEF MultiPerform
  <1>2. /\ pc = "perform" /\ pc' = "read"
        /\ UNCHANGED <<kind, next, all, etags, result, object>>
        /\ result = "none"
    BY DEF MultiPerform, IInv, TypeOK
  <1>3. \A r \in req : r \in Request /\ answer[r] \in Answer(r)
    BY <1>1, AnswersOfRound DEF IInv
  <1>4. \A r \in req : answer[r].chunk = r.chunk
    BY <1>3, AnswerKeeps DEF IInv, TypeOK
  <1>5. \A a \in req' : \E r \in req : a = answer[r] /\ a.chunk = r.chunk
    BY <1>1, <1>4
  <1>6. OneRequestEach'
    BY <1>2, <1>5 DEF IInv, OneRequestEach
  <1>7. PendingHasNoEtag'
    BY <1>2, <1>5 DEF IInv, PendingHasNoEtag, Pending
  <1>8. EtagsAreGood'
    BY <1>1, <1>2, <1>5, EtagsKept DEF EtagsAreGood, InParts
  <1>9. EndIsKnown' /\ AtomicReplace' /\ DownloadIsExact'
    BY <1>2 DEF IInv, EndIsKnown, AtomicReplace, DownloadIsExact, InParts, IsDownload
  <1>10. AnswersOfGet'
    <2> SUFFICES ASSUME kind = "get", NEW a \in req'
                 PROVE  /\ a.code \in {"ok", "mismatch"} => a.pos = Units
                        /\ a.code = "missing" => a.chunk \in spoilt'
      BY <1>2 DEF AnswersOfGet
    <2>1. PICK r \in req : a = answer[r] /\ a.chunk = r.chunk
      BY <1>5
    <2>2. /\ a.code \in {"ok", "mismatch"} => a.pos = Units
          /\ a.code = "missing" => Spoils(r, a)
      BY <1>3, <2>1, AnswerKeeps
    <2>3. Spoils(r, a) => a.chunk \in spoilt'
      BY <1>1, <2>1 DEF Transferred
    <2> QED  BY <2>2, <2>3
  <1>11. BlocksArrived'
    <2> SUFFICES ASSUME NEW c \in (1..next) \ spoilt', NEW u \in 1..Units, kind = "get",
                        \A r \in Pending' : r.chunk = c => u <= r.pos
                 PROVE  file'[c][u] = "data"
      BY <1>2 DEF BlocksArrived
    <2>1. c \in Chunks
      BY DEF IInv, TypeOK, Chunks
    <2>2. \A r \in all : r.chunk = c => u <= r.pos
      BY <1>2 DEF Pending
    <2>3. \A r \in req : r.chunk = c => u <= answer[r].pos
      BY <1>1, <1>4 DEF Pending
    <2> QED  BY <1>1, <1>2, <2>1, <2>2, <2>3, BlocksReceived
  <1> QED  BY <1>2, <1>6, <1>7, <1>8, <1>9, <1>10, <1>11 DEF IInv

\* When MultiPerform fails, a chunk without an etag stops the upload.
LEMMA PerformFailsKeeps ==
    ASSUME IInv, TypeOK', MultiPerformFails
    PROVE  IInv'
  <1>1. PICK answer \in Answers : Transferred(answer)
    BY DEF MultiPerformFails
  <1>2. /\ pc = "perform" /\ req' = {} /\ all' = {}
        /\ UNCHANGED <<kind, next, etags, object>>
        /\ \/ kind = "put" /\ pc' = "complete" /\ result' = "none"
           \/ kind = "get" /\ pc' = "end" /\ result' = "error"
    BY DEF MultiPerformFails, Return, IInv, TypeOK, EndIsKnown
  <1>3. ~ListComplete
    BY <1>2 DEF IInv, EndIsKnown, PendingHasNoEtag, ListComplete, InParts
  <1>4. OneRequestEach' /\ PendingHasNoEtag'
    BY <1>2 DEF OneRequestEach, PendingHasNoEtag, Pending
  <1>5. EtagsAreGood'
    BY <1>1, <1>2, EtagsKept DEF EtagsAreGood, InParts
  <1>6. EndIsKnown'
    BY <1>2, <1>3 DEF EndIsKnown, ListComplete, Pending, InParts
  <1>7. AnswersOfGet' /\ BlocksArrived' /\ AtomicReplace' /\ DownloadIsExact'
    BY <1>2 DEF IInv, AnswersOfGet, BlocksArrived, AtomicReplace, DownloadIsExact, IsDownload
  <1> QED  BY <1>2, <1>4, <1>5, <1>6, <1>7 DEF IInv

\* An answer that is not repeated leaves the maps; a success leaves an etag or all blocks.
LEMMA ReadDoneKeeps ==
    ASSUME IInv, TypeOK', ReadDone
    PROVE  IInv'
  <1>1. PICK r \in req :
            /\ r.code \in {"ok", "mismatch", "missing"}
            /\ req' = req \ {r}
            /\ etags' = IF kind = "put" /\ r.code = "ok" THEN etags \cup {r.chunk} ELSE etags
    BY DEF ReadDone
  <1>2. /\ pc = "read" /\ UNCHANGED <<kind, pc, next, all, result, file, parts, object, spoilt>>
        /\ result = "none"
    BY DEF ReadDone, server, IInv, TypeOK
  <1>3. OneRequestEach'
    BY <1>1, <1>2 DEF IInv, OneRequestEach
  <1>4. \A q \in Pending' : q \in Pending /\ q.chunk # r.chunk
    BY <1>1, <1>2 DEF IInv, OneRequestEach, Pending
  <1>5. PendingHasNoEtag'
    BY <1>1, <1>2, <1>4 DEF IInv, PendingHasNoEtag
  <1>6. EtagsAreGood'
    <2>1. r.chunk \in 1..next
      BY <1>1 DEF IInv, PendingHasNoEtag, Pending
    <2> QED  BY <1>1, <1>2, <2>1 DEF IInv, EtagsAreGood, InParts
  <1>7. EndIsKnown' /\ AnswersOfGet' /\ AtomicReplace' /\ DownloadIsExact'
    BY <1>1, <1>2 DEF IInv, EndIsKnown, AnswersOfGet, AtomicReplace, DownloadIsExact, InParts,
                      IsDownload
  <1>8. BlocksArrived'
    <2> SUFFICES ASSUME NEW c \in (1..next) \ spoilt, NEW u \in 1..Units, kind = "get",
                        \A q \in Pending' : q.chunk = c => u <= q.pos
                 PROVE  file[c][u] = "data"
      BY <1>2 DEF BlocksArrived
    <2>1. r.chunk = c => u <= r.pos
      BY <1>1, <1>2 DEF IInv, AnswersOfGet
    <2>2. \A q \in Pending : q.chunk = c => u <= q.pos
      BY <1>1, <1>2, <2>1 DEF Pending
    <2> QED  BY <1>2, <2>2 DEF IInv, BlocksArrived
  <1> QED  BY <1>2, <1>3, <1>5, <1>6, <1>7, <1>8 DEF IInv

\* A repeated request takes the place of the one that failed.
LEMMA ReadRetryKeeps ==
    ASSUME IInv, TypeOK', ReadRetry
    PROVE  IInv'
  <1>1. PICK r \in req : CanRetry(r) /\ req' = req \ {r} /\ all' = all \cup {RetryOf(r)}
    BY DEF ReadRetry
  <1>2. /\ pc = "read" /\ UNCHANGED <<kind, pc, next, etags, result, file, parts, object, spoilt>>
        /\ result = "none"
    BY DEF ReadRetry, server, IInv, TypeOK
  <1>3. /\ RetryOf(r).chunk = r.chunk
        /\ kind = "get" => RetryOf(r).pos = r.pos
    BY <1>1, RetryKeeps DEF IInv, TypeOK
  <1>4. OneRequestEach'
    BY <1>1, <1>3 DEF IInv, OneRequestEach
  <1>5. PendingHasNoEtag'
    BY <1>1, <1>2, <1>3 DEF IInv, PendingHasNoEtag, Pending
  <1>6. EtagsAreGood' /\ EndIsKnown' /\ AnswersOfGet' /\ AtomicReplace' /\ DownloadIsExact'
    BY <1>1, <1>2 DEF IInv, EtagsAreGood, EndIsKnown, AnswersOfGet, AtomicReplace,
                      DownloadIsExact, InParts, IsDownload
  <1>7. BlocksArrived'
    <2> SUFFICES ASSUME NEW c \in (1..next) \ spoilt, NEW u \in 1..Units, kind = "get",
                        \A q \in Pending' : q.chunk = c => u <= q.pos
                 PROVE  file[c][u] = "data"
      BY <1>2 DEF BlocksArrived
    <2>1. \A q \in Pending : q.chunk = c => u <= q.pos
      BY <1>1, <1>3 DEF Pending
    <2> QED  BY <1>2, <2>1 DEF IInv, BlocksArrived
  <1> QED  BY <1>2, <1>4, <1>5, <1>6, <1>7 DEF IInv

\* A crash leaves everything where it is.
LEMMA ReadCrashKeeps ==
    ASSUME IInv, TypeOK', ReadCrash
    PROVE  IInv'
  <1>1. /\ pc = "read" /\ pc' = "crashed"
        /\ UNCHANGED <<kind, next, all, req, etags, result, file, parts, object, spoilt>>
        /\ result = "none"
    BY DEF ReadCrash, server, IInv, TypeOK
  <1>2. OneRequestEach' /\ PendingHasNoEtag' /\ EtagsAreGood' /\ EndIsKnown'
    BY <1>1 DEF IInv, OneRequestEach, PendingHasNoEtag, EtagsAreGood, EndIsKnown, Pending, InParts
  <1>3. AnswersOfGet' /\ BlocksArrived' /\ AtomicReplace' /\ DownloadIsExact'
    BY <1>1 DEF IInv, AnswersOfGet, BlocksArrived, AtomicReplace, DownloadIsExact, IsDownload
  <1> QED  BY <1>1, <1>2, <1>3 DEF IInv

\* A join with the complete list is one of all chunks.
LEMMA JoinIsWhole ==
    ASSUME IInv, pc = "complete", ListComplete, Join
    PROVE  object' = Chunks
  <1>1. next = N
    BY DEF IInv, EndIsKnown, InParts
  <1>2. \A c \in 1..next : parts[c] = "good"
    BY DEF ListComplete, IInv, EtagsAreGood, InParts
  <1> QED  BY <1>1, <1>2 DEF Join, Chunks

\* The end of an upload.
LEMMA CompleteKeeps ==
    ASSUME IInv, TypeOK', CompleteUnfinished \/ Complete \/ CompleteAgain \/ CompleteFails
    PROVE  IInv'
  <1>1. /\ pc = "complete" /\ InParts /\ pc' \in {"complete", "end"}
        /\ UNCHANGED <<kind, next, all, req, etags, file, parts, spoilt>>
        /\ result' # "none" => pc' = "end"
    BY DEF CompleteUnfinished, Complete, CompleteAgain, CompleteFails, TryAgain, Join, Return,
           server,
           IInv, EndIsKnown, InParts
  <1>2. object' \in {object, Chunks}
    <2>1. CASE CompleteUnfinished \/ CompleteFails
      BY <2>1 DEF CompleteUnfinished, CompleteFails, server
    <2>2. CASE Complete \/ CompleteAgain
      <3>1. CASE Join
        BY <2>2, <3>1, JoinIsWhole DEF Complete, CompleteAgain
      <3>2. CASE UNCHANGED server
        BY <3>2 DEF server
      <3> QED  BY <2>2, <3>1, <3>2 DEF Complete, CompleteAgain
    <2> QED  BY <2>1, <2>2
  <1>3. OneRequestEach' /\ PendingHasNoEtag' /\ EtagsAreGood'
    BY <1>1 DEF IInv, OneRequestEach, PendingHasNoEtag, EtagsAreGood, Pending, InParts
  <1>4. EndIsKnown'
    BY <1>1 DEF IInv, EndIsKnown, Pending, ListComplete, InParts
  <1>5. AnswersOfGet' /\ BlocksArrived' /\ AtomicReplace' /\ DownloadIsExact'
    BY <1>1, <1>2 DEF IInv, AnswersOfGet, BlocksArrived, AtomicReplace, DownloadIsExact, InParts,
                      IsDownload
  <1> QED  BY <1>1, <1>3, <1>4, <1>5 DEF IInv

\* Every step keeps the invariant.
LEMMA IInvKept == IInv /\ [Next]_vars => IInv'
  <1> SUFFICES ASSUME IInv, [Next]_vars PROVE IInv'
    OBVIOUS
  <1>1. TypeOK'
    BY TypesKept DEF IInv
  <1>2. CASE Next
    BY <1>1, <1>2, StartKeeps, BatchKeeps, NoBatchKeeps, RoundKeeps, PerformKeeps, PerformFailsKeeps,
       ReadDoneKeeps, ReadRetryKeeps, ReadCrashKeeps, CompleteKeeps, SingleKeeps,
       CopyKeeps DEF Next
  <1>3. CASE UNCHANGED vars
    BY <1>3 DEF vars, thread, server, IInv, TypeOK, OneRequestEach, PendingHasNoEtag, EtagsAreGood,
                EndIsKnown, AnswersOfGet, BlocksArrived, AtomicReplace, DownloadIsExact, Pending,
                ListComplete, InParts, IsDownload
  <1> QED  BY <1>2, <1>3

\* The invariant always holds.
THEOREM IInvAlways == Spec => []IInv
  BY IInvAtStart, IInvKept, PTL DEF Spec

\* A request stays one of the transfer's, its position within its chunk and its count of
\* repeats within the limit: no answer, retry or fault of curl.cpp leaves the types.
THEOREM TransferTypes == Spec => []TypeOK
  <1>1. IInv => TypeOK
    BY DEF IInv
  <1> QED  BY <1>1, IInvAlways, PTL

\* An upload replaces the object by the whole new file or not at all, whatever
\* requests, rounds and retries failed (ParallelMultipartUploadRequest, curl.cpp:891).
THEOREM UploadsAreAtomic == Spec => []AtomicReplace
  <1>1. IInv => AtomicReplace
    BY DEF IInv
  <1> QED  BY <1>1, IInvAlways, PTL

\* A download that reports success has the object's bytes in every block of the
\* chunks that were not spoilt by a 404 or an error text (ParallelGetObjectRequest, curl.cpp:1006).
THEOREM DownloadsAreExact == Spec => []DownloadIsExact
  <1>1. IInv => DownloadIsExact
    BY DEF IInv
  <1> QED  BY <1>1, IInvAlways, PTL

-----------------------------------------------------------------------------
(* The transfer is a step of its caller.                                   *)

\* The transfer begins with nothing moved.
LEMMA CallerAtStart == Init => Caller!Init
  <1> SUFFICES ASSUME Init PROVE Caller!Init
    OBVIOUS
  <1>1. object # Chunks /\ result = "none"
    <2>1. 1 \in Chunks
      BY DEF Chunks
    <2> QED  BY <2>1 DEF Init
  <1>2. ~Whole
    BY <1>1 DEF Whole
  <1>3. Whole = FALSE
    BY <1>2 DEF Whole
  <1> QED  BY <1>1, <1>3 DEF Caller!Init

\* There is no step after the end, and before it nothing was reported.
LEMMA StepsBeforeTheEnd ==
    ASSUME IInv, Next
    PROVE  result = "none" /\ kind' = kind
  <1>1. pc \notin {"end", "crashed"} /\ kind' = kind
    BY DEF Next, GetUploadId, GetUploadIdAgain, GetUploadIdFails, Single, SingleAgain, SingleFails,
           CopyPart, CopyPartAgain, CopyPartFails, LastCopy, MakeBatch, MakeBatchFails, LastBatch,
           BeginRound, RoundsDone, MultiPerform, MultiPerformFails, ReadDone, ReadRetry, ReadCrash, ReadEnd,
           CompleteUnfinished, Complete, CompleteAgain, CompleteFails
  <1> QED  BY <1>1 DEF IInv

\* What was moved stays moved.
LEMMA WholeStays ==
    ASSUME IInv, Next, Whole
    PROVE  Whole'
  <1>1. kind' = kind /\ IsUpload /\ object = Chunks
    BY StepsBeforeTheEnd DEF Whole
  <1>2. object' = Chunks
    <2>1. CASE Complete \/ CompleteAgain
      <3>1. pc = "complete" /\ ListComplete /\ (Join \/ UNCHANGED server)
        BY <2>1 DEF Complete, CompleteAgain
      <3> QED  BY <1>1, <3>1, JoinIsWhole DEF server
    <2>2. CASE Single \/ SingleAgain \/ SingleFails
      BY <1>1, <2>2 DEF Single, SingleAgain, SingleFails, server
    <2>3. CASE ~(Complete \/ CompleteAgain \/ Single \/ SingleAgain \/ SingleFails)
      <3>1. object' = object
        BY <2>3 DEF Next, GetUploadId, GetUploadIdAgain, GetUploadIdFails,
               CopyPart, CopyPartAgain, CopyPartFails, LastCopy, MakeBatch, MakeBatchFails, LastBatch,
               BeginRound, RoundsDone, MultiPerform, MultiPerformFails, ReadDone, ReadRetry, ReadCrash,
               ReadEnd, CompleteUnfinished, CompleteFails, server
      <3> QED  BY <1>1, <3>1
    <2> QED  BY <2>1, <2>2, <2>3
  <1> QED  BY <1>1, <1>2 DEF Whole, IsUpload, Chunks

\* Success is reported only when all was moved, and only once.
LEMMA ReportsAreTrue ==
    ASSUME IInv, IInv', Next
    PROVE  /\ result = "none"
           /\ result' \in {"none", "ok", "error"}
           /\ result' = "ok" => Whole'
  <1>1. result = "none" /\ kind' = kind
    BY StepsBeforeTheEnd
  <1>2. result' \in {"none", "ok", "error"} /\ kind \in {"get", "put", "copy", "load", "store"}
    BY DEF IInv, TypeOK
  <1>3. CASE ~IsUpload
    <2>1. IsDownload' /\ ~IsUpload'
      BY <1>1, <1>2, <1>3 DEF IsUpload, IsDownload
    <2>2. DownloadIsExact'
      BY DEF IInv
    <2> QED  BY <1>1, <1>2, <2>1, <2>2 DEF Whole, DownloadIsExact
  <1>4. CASE IsUpload
    <2>1. IsUpload'
      BY <1>1, <1>4 DEF IsUpload
    <2>2. CASE Complete
      BY <1>1, <1>2, <2>1, <2>2, JoinIsWhole DEF Complete, Whole, Chunks
    <2>3. CASE Single
      <3>1. object' = Chunks
        BY <1>4, <2>3 DEF Single, IsUpload
      <3> QED  BY <1>1, <1>2, <2>1, <3>1 DEF Whole, Chunks
    <2>4. CASE ~(Complete \/ Single)
      <3>1. pc = "batch" => kind = "put"
        BY <1>4 DEF IsUpload, IInv, EndIsKnown
      <3>2. result' # "ok"
        BY <1>1, <2>4, <3>1 DEF Next, GetUploadId, GetUploadIdAgain, GetUploadIdFails, SingleAgain,
               SingleFails, CopyPart, CopyPartAgain, CopyPartFails, LastCopy, MakeBatch, MakeBatchFails,
               LastBatch, BeginRound, RoundsDone, MultiPerform, MultiPerformFails, ReadDone, ReadRetry,
               ReadCrash, ReadEnd, CompleteUnfinished, CompleteAgain, CompleteFails, TryAgain, Return
      <3> QED  BY <1>1, <1>2, <3>2
    <2> QED  BY <2>2, <2>3, <2>4
  <1> QED  BY <1>3, <1>4

\* For its caller, a transfer is a step that moves all or may have moved anything, and
\* success means all: what FdEntity::Load and RowFlush rely on.
THEOREM TransfersAreSteps == Spec => IsTransfer
  <1>1. IInv /\ IInv' /\ [Next]_vars => [Caller!Next]_(Caller!vars)
    <2>1. CASE Next
      <3> SUFFICES ASSUME IInv, IInv', Next PROVE [Caller!Next]_(Caller!vars)
        BY <2>1
      <3>1. /\ result = "none" /\ result' \in {"none", "ok", "error"}
            /\ result' = "ok" => Whole'
            /\ Whole \in BOOLEAN /\ Whole' \in BOOLEAN
            /\ Whole => Whole'
        BY ReportsAreTrue, WholeStays DEF Whole
      <3> QED  BY <3>1 DEF Caller!Next, Caller!vars, Caller!Move, Caller!Succeed, Caller!Fail
    <2>2. CASE UNCHANGED vars
      <3>1. Whole' = Whole /\ result' = result
        BY <2>2 DEF vars, thread, server, Whole, Chunks, IsUpload
      <3> QED  BY <3>1 DEF Caller!vars
    <2> QED  BY <2>1, <2>2
  <1> QED  BY <1>1, CallerAtStart, IInvAlways, PTL DEF Spec, IsTransfer, Caller!Spec
=============================================================================
