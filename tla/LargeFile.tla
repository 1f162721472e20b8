------------------------------ MODULE LargeFile ------------------------------
(***************************************************************************)
(* The large-file upload protocol of package base (src/unnamed/part_001):  *)
(* StartLargeFile, GetUploadPartURL / FileChunk.Reload, UploadPart and     *)
(* FinishLargeFile / CancelLargeFile on one LargeFile, whose size and      *)
(* hashes are shared by concurrent part uploaders under LargeFile.mu.      *)
(*                                                                         *)
(* Workers are the goroutines that upload parts, each with its own         *)
(* FileChunk (upload-part lease).  The caller is the goroutine that starts *)
(* the file, hands parts to workers and finishes or cancels it; it and     *)
(* the workers' reaction to errors (retry, reload the lease, give up)      *)
(* follow the recommended actions of the classifier, as spec section 7    *)
(* describes the callers of this package.  The B2 service keeps the file's *)
(* status and the parts it has stored, and may expire a lease or lose the  *)
(* upload pod behind it.  Network failures, expiries and pod failures come *)
(* out of one budget of MaxFaults.                                         *)
(*                                                                         *)
(* The SHA1 of part p is modelled as p and its length as PartSize[p].      *)
(***************************************************************************)
EXTENDS Integers, FiniteSets, Functions, TLC

CONSTANTS
    Workers,          \* part-uploading goroutines
    NumParts,         \* parts 1..NumParts make up the file
    PartSize,         \* PartSize[p]: the size argument of UploadPart for p
    MaxFaults,        \* transport failures, expiries and pod losses
    RetryCap,         \* bound on a caller's retry budget (code: 5 or 20)
    RetryAfterOn5xx,  \* a failing upload pod answers 503 with Retry-After
    FinishModes,      \* TRUE: a caller that may finish before every part returned
    MaxCrashes,       \* crashes of the uploading process
    PageSize          \* the count argument of ListParts

ASSUME NumParts \in Nat \ {0}
ASSUME PartSize \in [1..NumParts -> Nat \ {0}]
ASSUME MaxFaults \in Nat /\ RetryCap \in Nat
ASSUME RetryAfterOn5xx \in BOOLEAN /\ FinishModes \subseteq BOOLEAN
ASSUME MaxCrashes \in Nat /\ PageSize \in Nat \ {0}

C == INSTANCE Classifier

Parts == 1..NumParts
NoPart == 0
Sha(p) == p

VARIABLES
    srvStatus,   \* B2's view: "none", "unfinished", "finished", "cancelled"
    srvParts,    \* parts B2 has stored for the file
    srvFinished, \* the partSha1Array B2 finished the file with
    hashes,      \* LargeFile.hashes: part number -> SHA1
    size,        \* LargeFile.size
    mu,          \* holder of LargeFile.mu: a worker, "caller" or "none"
    wpc,         \* worker program counter
    wpart,       \* the part a worker is uploading
    lease,       \* the worker's FileChunk: "none", "ok", "expired", "dead"
    tmp,         \* the value of size a worker read in size += n
    tries,       \* errors a worker has retried for its current part
    acked,       \* history: UploadPart calls that returned success, per part
    pending,     \* parts the caller has not yet handed out
    cpc,         \* caller program counter
    ctries,      \* errors the caller has retried for FinishLargeFile
    finReq,      \* the partSha1Array of the caller's finish request
    finSize,     \* File.Size that FinishLargeFile returned
    finErr,      \* the index named by an "invalid index" error, 0 if none
    faults,      \* faults spent
    crashes,     \* crashes so far
    inflight,    \* parts whose upload was on the wire when the process crashed
    next,        \* resume: the start argument of the next ListParts
    seen,        \* resume: the FileParts listed so far
    seenSize,    \* resume: total size of the parts listed so far
    compiled,    \* history: total size of the parts B2 listed on resume
    early        \* the caller finishes without waiting for every part

srv    == <<srvStatus, srvParts, srvFinished>>
file   == <<hashes, size, mu>>
worker == <<wpc, wpart, lease, tmp, tries, acked>>
caller == <<pending, cpc, ctries, finReq, finSize, finErr>>
resume == <<crashes, inflight, next, seen, seenSize, compiled>>
vars   == <<srv, file, worker, caller, faults, resume, early>>

Init ==
    /\ srvStatus = "none" /\ srvParts = {} /\ srvFinished = <<>>
    /\ hashes = <<>> /\ size = 0 /\ mu = "none"
    /\ wpc = [w \in Workers |-> "idle"]
    /\ wpart = [w \in Workers |-> NoPart]
    /\ lease = [w \in Workers |-> "none"]
    /\ tmp = [w \in Workers |-> 0]
    /\ tries = [w \in Workers |-> 0]
    /\ acked = [p \in Parts |-> 0]
    /\ pending = Parts
    /\ cpc = "start" /\ ctries = 0
    /\ finReq = <<>> /\ finSize = 0 /\ finErr = 0
    /\ faults = 0
    /\ crashes = 0 /\ inflight = {}
    /\ next = 1 /\ seen = {} /\ seenSize = 0 /\ compiled = 0
    /\ early \in FinishModes

MinOf(a, b) == IF a <= b THEN a ELSE b

Fault == faults < MaxFaults /\ faults' = faults + 1

-----------------------------------------------------------------------------
(* Reaction to an error, as the callers do it: Retry repeats the call,     *)
(* AttemptNewUpload reloads the lease and repeats, both within the         *)
(* classifier's budget (capped at RetryCap); anything else gives up.       *)

Budget(e) ==
    MinOf(RetryCap, IF C!Action(e) = "Retry" THEN C!MaxRetries(e) ELSE C!MaxReuploads(e))

Recoverable(e, n) == C!Action(e) \in {"Retry", "AttemptNewUpload"} /\ n < Budget(e)

WorkerFails(w, e) ==
    /\ IF Recoverable(e, tries[w])
          THEN /\ tries' = [tries EXCEPT ![w] = @ + 1]
               /\ wpc' = [wpc EXCEPT ![w] =
                            IF C!Action(e) = "Retry" THEN @ ELSE "lease"]
          ELSE /\ wpc' = [wpc EXCEPT ![w] = "punted"]
               /\ UNCHANGED tries
    /\ UNCHANGED <<wpart, lease, tmp, acked>>

\* The caller hands part p to an idle worker, which keeps its lease.
Dispatch(w, p) ==
    /\ cpc = "run" /\ wpc[w] = "idle" /\ p \in pending
    /\ pending' = pending \ {p}
    /\ wpart' = [wpart EXCEPT ![w] = p]
    /\ tries' = [tries EXCEPT ![w] = 0]
    /\ wpc' = [wpc EXCEPT ![w] = IF lease[w] = "none" THEN "lease" ELSE "send"]
    /\ UNCHANGED <<srv, file, lease, tmp, acked, cpc, ctries, finReq, finSize, finErr, faults>>
    /\ UNCHANGED <<resume, early>>

-----------------------------------------------------------------------------
(* StartLargeFile: b2_start_large_file creates the file; the LargeFile     *)
(* has empty hashes and size 0.  A transport failure is retried.           *)
StartLargeFile ==
    /\ cpc = "start"
    /\ \/ /\ srvStatus' = "unfinished"
          /\ cpc' = "run"
          /\ UNCHANGED faults
       \/ /\ Fault
          /\ UNCHANGED <<srvStatus, cpc>>
    /\ UNCHANGED <<srvParts, srvFinished, file, worker, pending, ctries, finReq, finSize, finErr>>
    /\ UNCHANGED <<resume, early>>

\* Mutant: Reload gets a new lease but keeps the old url and token.
GetUploadPartURLKeepsToken(w) ==
    LET e == C!B2Err("b2_get_upload_part_url", 400, 0, "Other") IN
    /\ wpc[w] = "lease"
    /\ \/ /\ srvStatus = "unfinished"
          /\ lease' = [lease EXCEPT ![w] = IF @ = "none" THEN "ok" ELSE @]
          /\ wpc' = [wpc EXCEPT ![w] = "send"]
          /\ UNCHANGED <<wpart, tmp, tries, acked, faults>>
       \/ /\ srvStatus /= "unfinished"
          /\ WorkerFails(w, e)
          /\ UNCHANGED faults
       \/ /\ Fault
          /\ WorkerFails(w, C!NetErr("reset"))
    /\ UNCHANGED <<srv, file, caller>>
    /\ UNCHANGED <<resume, early>>

(* GetUploadPartURL, and FileChunk.Reload which calls it and overwrites    *)
(* url and token in place: B2 issues a fresh lease for an unfinished file. *)
GetUploadPartURL(w) ==
    LET e == C!B2Err("b2_get_upload_part_url", 400, 0, "Other") IN
    /\ wpc[w] = "lease"
    /\ \/ /\ srvStatus = "unfinished"
          /\ lease' = [lease EXCEPT ![w] = "ok"]
          /\ wpc' = [wpc EXCEPT ![w] = "send"]
          /\ UNCHANGED <<wpart, tmp, tries, acked, faults>>
       \/ /\ srvStatus /= "unfinished"
          /\ WorkerFails(w, e)
          /\ UNCHANGED faults
       \/ /\ Fault
          /\ WorkerFails(w, C!NetErr("reset"))
    /\ UNCHANGED <<srv, file, caller>>
    /\ UNCHANGED <<resume, early>>


(* UploadPart: b2_upload_part with the worker's lease.  B2 stores the part *)
(* if the file is unfinished and the lease good; an expired lease gets     *)
(* 401, a lost pod 503, a file no longer unfinished 400.  A transport      *)
(* failure may come before B2 stored the part or after.                    *)
UploadPart(w) ==
    LET p  == wpart[w]
        up(code, retry) == C!B2Err("b2_upload_part", code, retry, "Other")
    IN
    /\ wpc[w] = "send"
    /\ \/ /\ srvStatus = "unfinished" /\ lease[w] = "ok"
          /\ srvParts' = srvParts \cup {p}
          /\ wpc' = [wpc EXCEPT ![w] = "lock"]
          /\ UNCHANGED <<wpart, lease, tmp, tries, acked, faults>>
       \/ /\ srvStatus = "unfinished" /\ lease[w] = "ok"
          /\ Fault
          /\ srvParts' \in {srvParts, srvParts \cup {p}}
          /\ WorkerFails(w, C!NetErr("reset"))
       \/ /\ srvStatus /= "unfinished"
          /\ WorkerFails(w, up(400, 0))
          /\ UNCHANGED <<srvParts, faults>>
       \/ /\ srvStatus = "unfinished" /\ lease[w] = "expired"
          /\ WorkerFails(w, up(401, 0))
          /\ UNCHANGED <<srvParts, faults>>
       \/ /\ srvStatus = "unfinished" /\ lease[w] = "dead"
          /\ WorkerFails(w, up(503, IF RetryAfterOn5xx THEN 1 ELSE 0))
          /\ UNCHANGED <<srvParts, faults>>
    /\ UNCHANGED <<srvStatus, srvFinished, file, caller>>
    /\ UNCHANGED <<resume, early>>

\* Mutant: fc.file.mu is released between reading and writing size.
LockAndRecordEarlyUnlock(w) ==
    /\ wpc[w] = "lock"
    /\ mu = "none"
    /\ hashes' = (wpart[w] :> Sha(wpart[w])) @@ hashes
    /\ tmp' = [tmp EXCEPT ![w] = size]
    /\ wpc' = [wpc EXCEPT ![w] = "add"]
    /\ UNCHANGED <<srv, size, mu, wpart, lease, tries, acked, caller, faults>>
    /\ UNCHANGED <<resume, early>>

(* After a successful request: fc.file.mu.Lock(); hashes[index] = sha1;    *)
(* then the read half of size += int64(size).                              *)
LockAndRecord(w) ==
    /\ wpc[w] = "lock"
    /\ mu = "none"
    /\ mu' = w
    /\ hashes' = (wpart[w] :> Sha(wpart[w])) @@ hashes
    /\ tmp' = [tmp EXCEPT ![w] = size]
    /\ wpc' = [wpc EXCEPT ![w] = "add"]
    /\ UNCHANGED <<srv, size, wpart, lease, tries, acked, caller, faults>>
    /\ UNCHANGED <<resume, early>>

\* The write half of size += int64(size); Unlock; return size, nil.
AddSize(w) ==
    /\ wpc[w] = "add"
    /\ size' = tmp[w] + PartSize[wpart[w]]
    /\ mu' = "none"
    /\ acked' = [acked EXCEPT ![wpart[w]] = @ + 1]
    /\ wpc' = [wpc EXCEPT ![w] = "idle"]
    /\ UNCHANGED <<srv, hashes, wpart, lease, tmp, tries, caller, faults>>
    /\ UNCHANGED <<resume, early>>

-----------------------------------------------------------------------------
(* The caller finishes once every part has come back, unless early;      *)
(* it cancels instead once a worker has given up.                          *)
CallerGivesUp == \E w \in Workers : wpc[w] = "punted"

\* Mutant: the caller finishes once every part is handed out.
CallerMayFinishInFlight == early \/ pending = {}

CallerMayFinish ==
    early \/ (pending = {} /\ \A w \in Workers : wpc[w] = "idle")

\* Mutant: the array is as long as the largest part number, gaps left "".
FinishLargeFileMaxKey ==
    LET n == IF DOMAIN hashes = {} THEN 0
                ELSE CHOOSE k \in DOMAIN hashes : \A j \in DOMAIN hashes : j <= k IN
    /\ cpc = "run" /\ ~CallerGivesUp /\ CallerMayFinish
    /\ mu = "none"
    /\ mu' = "caller"
    /\ finReq' = [i \in 1..n |-> IF i \in DOMAIN hashes THEN hashes[i] ELSE 0]
    /\ cpc' = "finishing"
    /\ UNCHANGED <<srv, hashes, size, worker, pending, ctries, finSize, finErr, faults>>
    /\ UNCHANGED <<resume, early>>

(* FinishLargeFile up to the request: Lock (held to the end by defer),     *)
(* Hashes = make([]string, len(l.hashes)), then for k, v := range hashes   *)
(* fail with "invalid index k" when len < k, else Hashes[k-1] = v.  Map    *)
(* order is random, so any k beyond the length may be the one named.  The *)
(* local error is not a b2err, so the caller punts and cancels.            *)
FinishLargeFile ==
    LET n   == Cardinality(DOMAIN hashes)
        bad == {k \in DOMAIN hashes : n < k}
    IN
    /\ cpc = "run" /\ ~CallerGivesUp /\ CallerMayFinish
    /\ mu = "none"
    /\ IF bad = {}
          THEN /\ mu' = "caller"
               /\ finReq' = [i \in 1..n |-> hashes[i]]
               /\ cpc' = "finishing"
               /\ UNCHANGED finErr
          ELSE /\ \E k \in bad : finErr' = k
               /\ cpc' = "cancel"
               /\ UNCHANGED <<mu, finReq>>
    /\ UNCHANGED <<srv, hashes, size, worker, pending, ctries, finSize, faults>>
    /\ UNCHANGED <<resume, early>>

(* b2_finish_large_file, still under the lock.  B2 finishes an unfinished *)
(* file whose partSha1Array lists exactly the stored parts with their      *)
(* SHA1s; on success File.Size is l.size.  Any other answer is a 400       *)
(* (punt, cancel).  A transport failure, before B2 acted or after it      *)
(* finished the file and only the reply was lost, is retried within       *)
(* budget.                                                                 *)
FinishRequest ==
    LET accepted == /\ srvStatus = "unfinished"
                    /\ srvParts /= {}
                    /\ DOMAIN finReq = srvParts
                    /\ \A i \in DOMAIN finReq : finReq[i] = Sha(i)
        e == C!NetErr("reset")
        retry == IF Recoverable(e, ctries)
                    THEN cpc' = "run" /\ ctries' = ctries + 1
                    ELSE cpc' = "cancel" /\ UNCHANGED ctries
    IN
    /\ cpc = "finishing"
    /\ mu' = "none"
    /\ \/ /\ accepted
          /\ srvStatus' = "finished" /\ srvFinished' = finReq
          /\ finSize' = size
          /\ cpc' = "done"
          /\ UNCHANGED <<ctries, faults>>
       \/ /\ ~accepted
          /\ cpc' = "cancel"
          /\ UNCHANGED <<srvStatus, srvFinished, finSize, ctries, faults>>
       \/ /\ Fault /\ retry
          /\ UNCHANGED <<srvStatus, srvFinished, finSize>>
       \/ /\ accepted /\ Fault /\ retry
          /\ srvStatus' = "finished" /\ srvFinished' = finReq
          /\ UNCHANGED finSize
    /\ UNCHANGED <<srvParts, hashes, size, worker, pending, finReq, finErr>>
    /\ UNCHANGED <<resume, early>>

\* CancelLargeFile: b2_cancel_large_file releases an unfinished file.
CancelLargeFile ==
    /\ \/ cpc = "cancel"
       \/ cpc = "run" /\ CallerGivesUp
    /\ srvStatus' = IF srvStatus = "unfinished" THEN "cancelled" ELSE srvStatus
    /\ cpc' = "cancelled"
    /\ UNCHANGED <<srvParts, srvFinished, file, worker, pending, ctries, finReq, finSize, finErr, faults>>
    /\ UNCHANGED <<resume, early>>

-----------------------------------------------------------------------------
\* The service expires a lease's token, or the pod behind it fails.
ExpireLease(w) ==
    /\ lease[w] = "ok" /\ srvStatus = "unfinished"
    /\ Fault
    /\ \E s \in {"expired", "dead"} : lease' = [lease EXCEPT ![w] = s]
    /\ UNCHANGED <<srv, file, wpc, wpart, tmp, tries, acked, caller>>
    /\ UNCHANGED <<resume, early>>

-----------------------------------------------------------------------------
(* The uploading process crashes: the LargeFile, the FileChunks and the   *)
(* caller's bookkeeping are gone; B2 keeps the unfinished file and its    *)
(* parts.  An upload that was on the wire may still be stored later.      *)
Crash ==
    /\ crashes < MaxCrashes
    /\ srvStatus = "unfinished" /\ cpc \in {"run", "finishing", "cancel"}
    /\ crashes' = crashes + 1
    /\ inflight' = inflight \cup
                    {wpart[w] : w \in {v \in Workers : wpc[v] = "send" /\ lease[v] = "ok"}}
    /\ hashes' = <<>> /\ size' = 0 /\ mu' = "none"
    /\ wpc' = [w \in Workers |-> "idle"] /\ wpart' = [w \in Workers |-> NoPart]
    /\ lease' = [w \in Workers |-> "none"] /\ tmp' = [w \in Workers |-> 0]
    /\ tries' = [w \in Workers |-> 0] /\ acked' = [p \in Parts |-> 0]
    /\ pending' = Parts /\ cpc' = "resume" /\ ctries' = 0 /\ compiled' = 0
    /\ UNCHANGED <<srv, finReq, finSize, finErr, faults, next, seen, seenSize, early>>

\* B2 stores a part whose request arrived after its sender crashed.
LateStore(p) ==
    /\ p \in inflight
    /\ inflight' = inflight \ {p}
    /\ srvParts' = IF srvStatus = "unfinished" THEN srvParts \cup {p} ELSE srvParts
    /\ UNCHANGED <<srvStatus, srvFinished, file, worker, caller, faults,
                   crashes, next, seen, seenSize, compiled, early>>

(* ListUnfinishedLargeFiles after a restart: B2 lists the unfinished file *)
(* and the caller goes on to list its parts from part 1.  A transport     *)
(* failure is retried.                                                     *)
ListUnfinishedLargeFiles ==
    /\ cpc = "resume"
    /\ \/ /\ srvStatus = "unfinished"
          /\ cpc' = "list" /\ next' = 1 /\ seen' = {} /\ seenSize' = 0
          /\ UNCHANGED faults
       \/ /\ Fault
          /\ UNCHANGED <<cpc, next, seen, seenSize>>
    /\ UNCHANGED <<srv, file, worker, pending, ctries, finReq, finSize, finErr,
                   crashes, inflight, compiled, early>>

\* The b2_list_parts request ListParts(next, count) sends.
ListPartsRequest(start, count) == [startPartNumber |-> start, maxPartCount |-> count]

(* B2's answer: its stored parts numbered from startPartNumber on, at most *)
(* maxPartCount of them, and the number to continue from; the field is    *)
(* null, which decodes to 0, once there are no more.                      *)
ListPartsResponse(req) ==
    LET from == {p \in srvParts : p >= req.startPartNumber}
        page == {p \in from : Cardinality({q \in from : q < p}) < req.maxPartCount}
    IN  [nextPartNumber |->
            IF from \ page = {} THEN 0
            ELSE CHOOSE p \in from \ page : \A q \in from \ page : p <= q,
         parts |->
            {[partNumber |-> p, contentSha1 |-> Sha(p), contentLength |-> PartSize[p]] : p \in page}]

(* ListParts: the FileParts copied from the reply (number, SHA1, size)   *)
(* and the reply's next part number.                                      *)
ListParts(start, count) ==
    LET r == ListPartsResponse(ListPartsRequest(start, count)) IN
    [parts |-> {[Number |-> x.partNumber, SHA1 |-> x.contentSha1, Size |-> x.contentLength]
                   : x \in r.parts},
     next  |-> r.nextPartNumber]

\* Mutant: CompileParts drops the size it is given.
CompilePartsNoSize(sz, known) == [size |-> 0, hashes |-> known]

(* CompileParts: a LargeFile with the given size and a copy of the seen   *)
(* part-number to SHA1 mapping.                                           *)
CompileParts(sz, known) == [size |-> sz, hashes |-> [k \in DOMAIN known |-> known[k]]]

(* The resume loop: one page of ListParts added to the parts seen; after   *)
(* the last page, CompileParts with the listed size and hashes, and the   *)
(* upload goes on with the parts not listed.  A transport failure is      *)
(* retried.                                                                *)
ResumePage ==
    LET page == ListParts(next, PageSize)
        known == seen \cup page.parts
        total == seenSize + SumFunction([fp \in page.parts |-> fp.Size])
        lf == CompileParts(total, [k \in {fp.Number : fp \in known} |->
                                      (CHOOSE fp \in known : fp.Number = k).SHA1])
    IN
    /\ cpc = "list"
    /\ \/ /\ seen' = known /\ seenSize' = total
          /\ IF page.next = 0
                THEN /\ hashes' = lf.hashes /\ size' = lf.size
                     /\ compiled' = SumFunction([p \in DOMAIN lf.hashes |-> PartSize[p]])
                     /\ pending' = Parts \ DOMAIN lf.hashes /\ cpc' = "run"
                     /\ UNCHANGED next
                ELSE /\ next' = page.next
                     /\ UNCHANGED <<hashes, size, compiled, pending, cpc>>
          /\ UNCHANGED faults
       \/ /\ Fault
          /\ UNCHANGED <<file, pending, cpc, next, seen, seenSize, compiled>>
    /\ UNCHANGED <<srv, mu, worker, ctries, finReq, finSize, finErr, crashes, inflight, early>>

\* Nothing is left to do: the file is finished or cancelled, workers idle.
Terminated ==
    /\ cpc \in {"done", "cancelled"}
    /\ \A w \in Workers : wpc[w] \in {"idle", "punted"}
    /\ UNCHANGED vars

Next ==
    \/ StartLargeFile
    \/ \E w \in Workers, p \in Parts : Dispatch(w, p)
    \/ \E w \in Workers :
          \/ GetUploadPartURL(w) \/ UploadPart(w)
          \/ LockAndRecord(w) \/ AddSize(w) \/ ExpireLease(w)
    \/ FinishLargeFile \/ FinishRequest \/ CancelLargeFile
    \/ Crash \/ \E p \in Parts : LateStore(p)
    \/ ListUnfinishedLargeFiles \/ ResumePage
    \/ Terminated

(* Goroutines that can run keep running; the mutex and the caller's Lock   *)
(* in FinishLargeFile are only intermittently free, so they are strongly   *)
(* fair (sync.Mutex hands over to a waiter that starves).  Faults are not  *)
(* fair: the service need never fail.                                      *)
Fairness ==
    /\ \A w \in Workers :
          /\ WF_vars(\E p \in Parts : Dispatch(w, p))
          /\ WF_vars(GetUploadPartURL(w)) /\ WF_vars(UploadPart(w))
          /\ SF_vars(LockAndRecord(w)) /\ WF_vars(AddSize(w))
    /\ WF_vars(StartLargeFile) /\ SF_vars(FinishLargeFile)
    /\ WF_vars(FinishRequest) /\ WF_vars(CancelLargeFile)
    /\ WF_vars(ListUnfinishedLargeFiles) /\ WF_vars(ResumePage)

Spec == Init /\ [][Next]_vars /\ Fairness

-----------------------------------------------------------------------------
TypeOK ==
    /\ srvStatus \in {"none", "unfinished", "finished", "cancelled"}
    /\ srvParts \subseteq Parts
    /\ DOMAIN hashes \subseteq Parts /\ Range(hashes) \subseteq Parts
    /\ size \in Nat
    /\ mu \in Workers \cup {"none", "caller"}
    /\ wpc \in [Workers -> {"idle", "lease", "send", "lock", "add", "punted"}]
    /\ wpart \in [Workers -> Parts \cup {NoPart}]
    /\ lease \in [Workers -> {"none", "ok", "expired", "dead"}]
    /\ tmp \in [Workers -> Nat]
    /\ tries \in [Workers -> 0..RetryCap]
    /\ acked \in [Parts -> Nat]
    /\ pending \subseteq Parts
    /\ cpc \in {"start", "run", "finishing", "cancel", "done", "cancelled",
                "resume", "list"}
    /\ ctries \in 0..RetryCap
    /\ finErr \in {0} \cup Parts
    /\ faults \in 0..MaxFaults

\* Bytes of all UploadPart calls that have returned success.
AckedBytes == SumFunction([p \in Parts |-> acked[p] * PartSize[p]])

(* UploadPart's size += int64(size) loses no update: whenever no worker   *)
(* holds LargeFile.mu, size is the total size of the parts B2 listed when *)
(* the upload was resumed plus the sizes of every UploadPart call on this *)
(* LargeFile that returned success, however the workers interleaved and   *)
(* however the listing was paged.                                          *)
NoLostUpdate == mu \notin Workers => size = compiled + AckedBytes

(* When B2 has finished the file, it finished it from parts 1..n in      *)
(* order, every part if the caller waited for them all, and a             *)
(* FinishLargeFile that returned the File gave File.Size equal to the     *)
(* total size of those parts, despite lost responses, expired leases, lost pods, retried      *)
(* requests and a crash and resume on the way.                            *)
FinishedFileIsComplete ==
    srvStatus = "finished" =>
        LET n == Cardinality(DOMAIN srvFinished) IN
        /\ srvFinished = [i \in 1..n |-> Sha(i)]
        /\ cpc = "done" => finSize = SumFunction([i \in 1..n |-> PartSize[i]])
        /\ ~early => n = NumParts

(* With faults bounded and within the retry budgets, every upload session *)
(* is eventually finished on B2: no worker gives up and nothing blocks.   *)
EventuallyFinished == ~early => <>(srvStatus = "finished")

(* FinishLargeFile only sends b2_finish_large_file with a gapless array   *)
(* 1..N that is exactly LargeFile.hashes, even when the caller finishes   *)
(* while parts are still being uploaded and recorded concurrently.        *)
FinishRequestDense ==
    cpc = "finishing" =>
        /\ DOMAIN finReq = 1..Cardinality(DOMAIN finReq)
        /\ finReq = hashes

-----------------------------------------------------------------------------
(* The refinement mapping to LargeFileSession.  The LargeFile is a        *)
(* session while the caller holds one: not before the start, nor between  *)
(* a crash and the end of the resume.  An UploadPart takes effect when it *)
(* unlocks: the hash of a worker that holds the lock between recording    *)
(* the hash and adding the size is not yet part of the session.           *)
Open == cpc \notin {"start", "resume", "list"}
Recording == {wpart[w] : w \in {v \in Workers : wpc[v] = "add"}}
SessionView ==
    IF Open THEN [open |-> TRUE, hashes |-> [k \in DOMAIN hashes \ Recording |-> hashes[k]],
                  size |-> size]
            ELSE [open |-> FALSE, hashes |-> <<>>, size |-> 0]

LFS == INSTANCE LargeFileSession WITH session <- SessionView, sent <- finReq

(* LargeFile implements the session spec section 3 describes: however    *)
(* the workers' UploadPart calls interleave around LargeFile.mu, with a   *)
(* concurrent FinishLargeFile, a crash and a resume from B2's listing,    *)
(* each upload adds its hash and its size in one step, a finish sends    *)
(* exactly the hashes of the uploads completed before it, and a resumed   *)
(* LargeFile holds the listed parts with their total size.                *)
ImplementsSession == LFS!Spec

(* Spec section 3: a finish with a gap in the part numbers fails locally, *)
(* naming the first missing part number.                                  *)
FirstGap == CHOOSE k \in Parts \ DOMAIN hashes : \A j \in Parts \ DOMAIN hashes : k <= j
FinishNamesFirstGap ==
    [][finErr' /= finErr => finErr' = FirstGap]_vars

=============================================================================
