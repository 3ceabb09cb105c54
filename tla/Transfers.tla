------------------------------ MODULE Transfers -----------------------------
(***************************************************************************)
(* The transfer of one file.  A large one (MULTIPART_LOWLIMIT and more) is  *)
(* downloaded in parallel (ParallelGetObjectRequest) or uploaded in        *)
(* parallel parts (ParallelMultipartUploadRequest), on top of              *)
(* OssfsMultiCurl; a large object is copied in parts, one by one           *)
(* (MultipartRenameRequest, MultipartHeadRequest); a small file is         *)
(* one request (GetObjectRequest, PutRequest).                             *)
(*                                                                         *)
(* A large file is cut into chunks.  A batch of them becomes requests in       *)
(* cMap_all; OssfsMultiCurl::Request sends them in rounds; MultiRead reads *)
(* the answers of a round, in any order, and puts the requests to repeat   *)
(* back into cMap_all.  An upload is framed by two single requests that    *)
(* get the upload id and join the parts, through RequestPerform.           *)
(*                                                                         *)
(* The caller holds the entity's lock, so the local file does not change   *)
(* under an upload; the object does not change under a download.           *)
(***************************************************************************)
EXTENDS Integers, FiniteSets

CONSTANTS
    N,              \* chunks of the file
    Units,          \* blocks of a chunk: what is told apart of its progress
    MaxParallel,    \* max_parallel_cnt
    MaxRequests,    \* max_multireq
    Retries         \* retries

ASSUME SizesAssumption == N \in Nat \ {0} /\ Units \in Nat \ {0}
ASSUME LimitsAssumption ==
    /\ MaxParallel \in Nat \ {0}
    /\ MaxRequests \in Nat      \* the option is not checked: with 0 no round sends anything
    /\ Retries \in Nat

Chunks == 1..N

VARIABLES
    kind,       \* parallel "get" and "put", "copy" in parts, single "load" and "store"
    pc,         \* where the thread is; "crashed" when it used a null pointer
    next,       \* chunks given a request so far (from remaining_bytes)
    all,        \* cMap_all: requests to send
    req,        \* cMap_req: requests of this round
    etags,      \* chunks with a non-empty entry in the etag list of the upload
    tries,      \* attempts RequestPerform has made
    result,     \* what the caller gets
    file,       \* the local file of a download, block by block
    parts,      \* the parts the server has under the upload id
    upload,     \* the upload id at the server
    object,     \* the chunks of the new file in the object; none: the old one
    spoilt      \* history: chunks with a 404 or with the text of an error reply

thread == <<pc, next, all, req, etags, tries, result>>
server == <<parts, upload, object>>
vars == <<kind, thread, file, server, spoilt>>

\* OK: any code below 400.  MISMATCH: the same, but the ETag in the reply is not
\* the part's md5.  REFUSED: 400, 403 and 5xx.  MISSING: 404.  LOST: no reply, curl has an error.
Codes == {"ok", "mismatch", "refused", "missing", "lost"}

\* Multipart uploads, transfers to the bucket, transfers to the local file.
InParts == kind \in {"put", "copy"}
IsUpload == kind \in {"put", "copy", "store"}
IsDownload == kind \in {"get", "load"}

Request == [chunk : Chunks, pos : 0..Units, count : 0..Retries, code : Codes \cup {"none"}]

TypeOK ==
    /\ kind \in {"get", "put", "copy", "load", "store"}
    /\ pc \in {"start", "batch", "round", "perform", "read", "copy", "single", "complete",
               "end", "crashed"}
    /\ next \in 0..N
    /\ all \subseteq Request
    /\ req \subseteq Request
    /\ etags \subseteq Chunks
    /\ tries \in 0..Retries
    /\ result \in {"none", "ok", "error"}
    /\ file \in [Chunks -> [1..Units -> {"hole", "data", "text"}]]
    /\ parts \in [Chunks -> {"none", "good", "bad"}]
    /\ upload \in {"none", "open", "closed"}
    /\ object \subseteq Chunks
    /\ spoilt \subseteq Chunks

Init ==
    /\ kind \in {"get", "put", "copy", "load", "store"}
    /\ pc = IF InParts THEN "start" ELSE IF kind = "get" THEN "batch" ELSE "single"
    /\ next = 0 /\ all = {} /\ req = {} /\ etags = {} /\ tries = 0
    /\ result = "none"
    /\ file = [c \in Chunks |-> [u \in 1..Units |-> "hole"]]
    /\ parts = [c \in Chunks |-> "none"]
    /\ upload = "none" /\ object = {} /\ spoilt = {}

\* The thread is done with the transfer.
Return(r) == pc' = "end" /\ result' = r

-----------------------------------------------------------------------------
(* RequestPerform: attempts until an answer that is not worth another.     *)

\* Bug: giving up is not an error.
TryAgainSilently ==
    IF tries + 1 < Retries
    THEN tries' = tries + 1 /\ UNCHANGED <<pc, result>>
    ELSE tries' = tries /\ Return("ok")

\* An attempt failed with 5xx or an error of curl: once more, if there are
\* attempts left.  `retries' counts all attempts.
TryAgain ==
    IF tries + 1 < Retries
    THEN tries' = tries + 1 /\ UNCHANGED <<pc, result>>
    ELSE tries' = tries /\ Return("error")

\* With `retries' 0 the loop has no round at all.
MayTry == tries < Retries

\* PreMultipartPostRequest.
GetUploadId ==
    /\ pc = "start" /\ MayTry
    /\ upload' = "open" /\ tries' = 0
    /\ pc' = IF kind = "copy" THEN "copy" ELSE "batch"
    /\ UNCHANGED <<kind, next, all, req, etags, result, file, parts, object, spoilt>>

GetUploadIdAgain ==
    /\ pc = "start" /\ MayTry
    /\ TryAgain
    /\ UNCHANGED <<kind, next, all, req, etags, file, server, spoilt>>

GetUploadIdFails ==
    /\ pc = "start"
    /\ Return("error")
    /\ UNCHANGED <<kind, next, all, req, etags, tries, file, server, spoilt>>

-----------------------------------------------------------------------------
(* A small file: one request.                                              *)

\* The blocks of the first k chunks hold x, the others what they held.
Filled(k, x) == [c \in Chunks |-> IF c <= k THEN [u \in 1..Units |-> x] ELSE file[c]]

Single ==
    /\ pc = "single" /\ MayTry
    /\ IF kind = "load"
       THEN file' = Filled(N, "data") /\ UNCHANGED object
       ELSE object' = Chunks /\ UNCHANGED file
    /\ Return("ok")
    /\ UNCHANGED <<kind, next, all, req, etags, tries, parts, upload, spoilt>>

\* A failed download has written some of the data or the text of the error; RemakeHandle sets
\* the position back.  A failed upload may have been stored; RemakeHandle rewinds the file.
SingleAgain ==
    /\ pc = "single" /\ MayTry
    /\ IF kind = "load"
       THEN /\ \E k \in 0..N, x \in {"data", "text"} : file' = Filled(k, x)
            /\ UNCHANGED object
       ELSE object' \in {object, Chunks} /\ UNCHANGED file
    /\ TryAgain
    /\ UNCHANGED <<kind, next, all, req, etags, parts, upload, spoilt>>

\* 4xx, a 404 as well; or no attempt at all.
SingleFails ==
    /\ pc = "single"
    /\ IF kind = "load" THEN \E k \in 0..N : file' = Filled(k, "text") ELSE UNCHANGED file
    /\ Return("error")
    /\ UNCHANGED <<kind, next, all, req, etags, tries, server, spoilt>>

-----------------------------------------------------------------------------
(* A copy in parts: one request after the other, the first failure ends it. *)

\* CopyMultipartPostRequest takes the etag from the body of the answer.  The server
\* always sends one; without it the code goes on with a null pointer (left out).
CopyPart ==
    /\ pc = "copy" /\ next < N /\ MayTry
    /\ parts' = [parts EXCEPT ![next + 1] = "good"]
    /\ etags' = etags \cup {next + 1}
    /\ next' = next + 1 /\ tries' = 0
    /\ UNCHANGED <<kind, pc, all, req, result, file, upload, object, spoilt>>

CopyPartAgain ==
    /\ pc = "copy" /\ next < N /\ MayTry
    /\ parts' \in {parts, [parts EXCEPT ![next + 1] = "good"]}
    /\ TryAgain
    /\ UNCHANGED <<kind, next, all, req, etags, file, upload, object, spoilt>>

CopyPartFails ==
    /\ pc = "copy" /\ next < N
    /\ Return("error")
    /\ UNCHANGED <<kind, next, all, req, etags, tries, file, server, spoilt>>

LastCopy ==
    /\ pc = "copy" /\ next = N
    /\ pc' = "complete"
    /\ UNCHANGED <<kind, next, all, req, etags, tries, result, file, server, spoilt>>

-----------------------------------------------------------------------------
(* The batches: up to max_parallel_cnt chunks at a time.                   *)

NewRequest(c) == [chunk |-> c, pos |-> 0, count |-> 0, code |-> "none"]

Lesser(a, b) == IF a < b THEN a ELSE b

MakeBatch ==
    /\ pc = "batch" /\ next < N
    /\ next' = Lesser(next + MaxParallel, N)
    /\ all' = {NewRequest(c) : c \in (next + 1)..Lesser(next + MaxParallel, N)}
    /\ pc' = "round"
    /\ UNCHANGED <<kind, req, etags, tries, result, file, server, spoilt>>

\* The setup of a request fails: the function returns at once.
MakeBatchFails ==
    /\ pc = "batch" /\ next < N
    /\ Return("error")
    /\ UNCHANGED <<kind, next, all, req, etags, tries, file, server, spoilt>>

\* No bytes remain.
LastBatch ==
    /\ pc = "batch" /\ next = N
    /\ IF kind = "put" THEN pc' = "complete" /\ UNCHANGED result ELSE Return("ok")
    /\ UNCHANGED <<kind, next, all, req, etags, tries, file, server, spoilt>>

-----------------------------------------------------------------------------
(* OssfsMultiCurl::Request: rounds until cMap_all is empty.  cMap_all is   *)
(* ordered by the address of the curl handle, so any requests may be first.*)

BeginRound ==
    /\ pc = "round" /\ all # {}
    /\ \E S \in SUBSET all :
        /\ Cardinality(S) = Lesser(MaxRequests, Cardinality(all))
        /\ req' = S
        /\ all' = all \ S
    /\ pc' = "perform"
    /\ UNCHANGED <<kind, next, etags, tries, result, file, server, spoilt>>

RoundsDone ==
    /\ pc = "round" /\ all = {}
    /\ pc' = "batch"
    /\ UNCHANGED <<kind, next, all, req, etags, tries, result, file, server, spoilt>>

\* Request r has come to an end with a code, at a position.
Ended(r, code, pos) == [chunk |-> r.chunk, pos |-> pos, count |-> r.count, code |-> code]

\* What can come of a request, with the position up to which bytes moved.  A
\* download writes every body into the file, that of an error reply too.
Answer(r) ==
    IF kind = "get"
    THEN {Ended(r, "ok", Units)}
         \cup {Ended(r, "lost", p) : p \in r.pos..Units}
         \cup {Ended(r, c, p) : c \in {"refused", "missing"}, p \in r.pos..Lesser(r.pos + 1, Units)}
    ELSE {Ended(r, "lost", p) : p \in {0, Units}}
         \cup {Ended(r, c, Units) : c \in {"ok", "mismatch"}}
         \cup {Ended(r, c, 0) : c \in {"refused", "missing"}}

IsError(r) == r.code \in {"refused", "missing"}

\* The effect of a transfer on the local file (DownloadWriteCallback) and on
\* the server; answer[r] is what came of r.
Received(answer) ==
    file' = [c \in Chunks |-> [u \in 1..Units |->
                IF \E r \in req : r.chunk = c /\ r.pos < u /\ u <= answer[r].pos
                THEN IF \E r \in req : r.chunk = c /\ IsError(answer[r]) THEN "text" ELSE "data"
                ELSE file[c][u]]]

Stored(answer) ==
    parts' = [c \in Chunks |->
                IF \E r \in req : r.chunk = c /\ answer[r].pos = Units
                THEN IF \E r \in req : r.chunk = c /\ answer[r].code = "mismatch"
                     THEN "bad" ELSE "good"
                ELSE parts[c]]

Spoils(r, a) == a.code = "missing" \/ (a.code = "refused" /\ a.pos > r.pos)

Transferred(answer) ==
    /\ IF kind = "get"
       THEN Received(answer) /\ UNCHANGED parts
       ELSE Stored(answer) /\ UNCHANGED file
    /\ spoilt' = spoilt \cup {r.chunk : r \in {q \in req : Spoils(q, answer[q])}}

Answers == {answer \in [req -> UNION {Answer(r) : r \in req}] :
                \A r \in req : answer[r] \in Answer(r)}

\* MultiPerform returns when nothing is running any more.  (An error of
\* curl_multi_perform itself, out of memory, is only logged: left out.)
MultiPerform ==
    /\ pc = "perform"
    /\ \E answer \in Answers :
        /\ Transferred(answer)
        /\ req' = {answer[r] : r \in req}
    /\ pc' = "read"
    /\ UNCHANGED <<kind, next, all, etags, tries, result, upload, object>>

\* select() fails: all requests are dropped.  The download reports it; the upload leaves its
\* loop and goes on to CompleteMultipartPostRequest, whose result replaces this one.
MultiPerformFails ==
    /\ pc = "perform"
    /\ \E answer \in Answers : Transferred(answer)
    /\ req' = {} /\ all' = {}
    /\ IF kind = "put" THEN pc' = "complete" /\ UNCHANGED result ELSE Return("error")
    /\ UNCHANGED <<kind, next, etags, tries, upload, object>>

\* The retry callbacks.  A part is sent from its start again; a download goes
\* on where it stopped, and is refused by PreGetObjectRequest if nothing remains.
CanRetryOnceMore(r) == r.count <= Retries /\ (kind = "get" => r.pos < Units)    \* bug

CanRetry(r) == r.count < Retries /\ (kind = "get" => r.pos < Units)

\* Bug: the count starts again with the new object.
RetryOfUncounted(r) ==
    [chunk |-> r.chunk, pos |-> IF kind = "get" THEN r.pos ELSE 0,
     count |-> r.count, code |-> "none"]

RetryOf(r) ==
    [chunk |-> r.chunk, pos |-> IF kind = "get" THEN r.pos ELSE 0,
     count |-> r.count + 1, code |-> "none"]

\* Bug: the ETag of the reply is not compared.
ReadDoneUnchecked ==
    /\ pc = "read"
    /\ \E r \in req :
        /\ r.code \in {"ok", "mismatch", "missing"}
        /\ req' = req \ {r}
        /\ etags' = IF kind = "put" /\ r.code # "missing" THEN etags \cup {r.chunk} ELSE etags
    /\ UNCHANGED <<kind, pc, next, all, tries, result, file, server, spoilt>>

\* MultiRead, for one answer.  A success sets the etag of the part (UploadMultipartPostCallback)
\* if it is the right one; a mismatch and a 404 are taken from the list and
\* nothing else; everything else is repeated.
ReadDone ==
    /\ pc = "read"
    /\ \E r \in req :
        /\ r.code \in {"ok", "mismatch", "missing"}
        /\ req' = req \ {r}
        /\ etags' = IF kind = "put" /\ r.code = "ok" THEN etags \cup {r.chunk} ELSE etags
    /\ UNCHANGED <<kind, pc, next, all, tries, result, file, server, spoilt>>

\* Bug: the new request is not put into cMap_all.
ReadRetryDropped ==
    /\ pc = "read"
    /\ \E r \in req :
        /\ r.code \in {"refused", "lost"}
        /\ CanRetry(r)
        /\ req' = req \ {r}
    /\ UNCHANGED <<kind, pc, next, all, etags, tries, result, file, server, spoilt>>

ReadRetry ==
    /\ pc = "read"
    /\ \E r \in req :
        /\ r.code \in {"refused", "lost"}
        /\ CanRetry(r)
        /\ req' = req \ {r}
        /\ all' = all \cup {RetryOf(r)}
    /\ UNCHANGED <<kind, pc, next, etags, tries, result, file, server, spoilt>>

\* The callback returned NULL, and MultiRead takes hCurl of it.
ReadCrash ==
    /\ pc = "read"
    /\ \E r \in req : r.code \in {"refused", "lost"} /\ ~CanRetry(r)
    /\ pc' = "crashed"
    /\ UNCHANGED <<kind, next, all, req, etags, tries, result, file, server, spoilt>>

ReadEnd ==
    /\ pc = "read" /\ req = {}
    /\ pc' = "round"
    /\ UNCHANGED <<kind, next, all, req, etags, tries, result, file, server, spoilt>>

-----------------------------------------------------------------------------
(* CompleteMultipartPostRequest.                                           *)

\* Bug: the parts are not looked at.
ListTaken == TRUE

\* Every entry of the list has an etag.
ListComplete == 1..next \subseteq etags

CompleteUnfinished ==
    /\ pc = "complete" /\ ~ListComplete
    /\ Return("error")
    /\ UNCHANGED <<kind, next, all, req, etags, tries, file, server, spoilt>>

\* The server joins the parts of the list and forgets the upload id.
Join ==
    /\ upload = "open"
    /\ object' = {c \in 1..next : parts[c] = "good"}
    /\ upload' = "closed"
    /\ UNCHANGED parts

Complete ==
    /\ pc = "complete" /\ ListComplete /\ MayTry
    /\ Join
    /\ Return("ok")
    /\ UNCHANGED <<kind, next, all, req, etags, tries, file, spoilt>>

\* The attempt is answered with 5xx or not at all, before or after the join.
CompleteAgain ==
    /\ pc = "complete" /\ ListComplete /\ MayTry
    /\ Join \/ UNCHANGED server
    /\ TryAgain
    /\ UNCHANGED <<kind, next, all, req, etags, file, spoilt>>

\* 4xx, the only answer there is once the upload id is gone; or no attempt at all.
CompleteFails ==
    /\ pc = "complete" /\ ListComplete
    /\ Return("error")
    /\ UNCHANGED <<kind, next, all, req, etags, tries, file, server, spoilt>>

-----------------------------------------------------------------------------
Next ==
    \/ GetUploadId \/ GetUploadIdAgain \/ GetUploadIdFails
    \/ Single \/ SingleAgain \/ SingleFails
    \/ CopyPart \/ CopyPartAgain \/ CopyPartFails \/ LastCopy
    \/ MakeBatch \/ MakeBatchFails \/ LastBatch
    \/ BeginRound \/ RoundsDone
    \/ MultiPerform \/ MultiPerformFails
    \/ ReadDone \/ ReadRetry \/ ReadCrash \/ ReadEnd
    \/ CompleteUnfinished \/ Complete \/ CompleteAgain \/ CompleteFails

Spec == Init /\ [][Next]_vars

\* Connections and answers have timeouts (connect_timeout, readwrite_timeout), so
\* every wait of the thread ends.
FairSpec == Spec /\ WF_vars(Next)

-----------------------------------------------------------------------------
\* An upload or a copy replaces the object by the whole new one or not at all, whatever
\* failed on the way: ParallelMultipartUploadRequest goes on to complete the upload after
\* an error and relies on the empty entries of the list to stop there.
AtomicReplace == object \in {{}, Chunks}

\* Every block of a download that reports success came from the object, except
\* in chunks that were answered with 404 (MultiRead takes that for done) or with
\* an error whose text was written into the file (the retry goes on behind it).
DownloadIsExact ==
    IsDownload /\ result = "ok" =>
        \A c \in Chunks \ spoilt, u \in 1..Units : file[c][u] = "data"

\* Every transfer ends, since the retries of a request are counted from one
\* OssfsCurl object to the one that replaces it.
TransferEnds == <>(pc \in {"end", "crashed"})

\* For its caller a transfer is a step: RowFlush and Load may take success for "all of
\* it was moved" and failure for "any of it may have been".  The bytes of a download count
\* when Load marks their pages, on success.
Whole ==
    IF IsUpload THEN object = Chunks
    ELSE result = "ok" /\ \A c \in Chunks \ spoilt, u \in 1..Units : file[c][u] = "data"

Caller == INSTANCE Transfer WITH moved <- Whole, report <- result

IsTransfer == Caller!Spec

\* A request that fails too often makes the transfer fail; it does not take the mount with it.
NeverCrashes == pc # "crashed"
=============================================================================
