------------------------------ MODULE SmallFile ------------------------------
(***************************************************************************)
(* The small-file upload of package base (src/unnamed/part_001):          *)
(* Bucket.GetUploadURL, URL.Reload and URL.UploadFile, driven by callers  *)
(* that react to the classifier's recommended action (spec sections 3 and *)
(* 4.1): Retry repeats the upload on the same URL, AttemptNewUpload       *)
(* reloads the URL in place first, anything else gives up.               *)
(*                                                                         *)
(* Each uploader holds its own URL: the uri and token of an upload lease. *)
(* A lease is named by the number B2 issued it under, and its uri and     *)
(* token carry that number.  B2 may expire a lease's token, lose the pod  *)
(* behind its uri, or hand one lease to two uploaders, and answers a      *)
(* second concurrent upload with a token with 400 "more than one upload   *)
(* using auth token".  An upload request, or its reply, may be lost.      *)
(* Every such fault comes out of one budget of MaxFaults.                 *)
(***************************************************************************)
EXTENDS Integers, Sequences, FiniteSets, Functions

CONSTANTS
    Uploaders,        \* goroutines each uploading one file
    MaxFaults,        \* expiries, lost pods, shared leases, lost messages
    RetryCap,         \* bound on a caller's retry budget (code: 5 or 20)
    RetryAfterOn5xx   \* a failing upload pod answers 503 with Retry-After

ASSUME MaxFaults \in Nat /\ RetryCap \in Nat /\ RetryAfterOn5xx \in BOOLEAN

C == INSTANCE Classifier

NoLease == 0

\* The zero URL an uploader holds before its first GetUploadURL.
NoURL == [uri |-> NoLease, token |-> NoLease]

VARIABLES
    issued,    \* leases B2 has issued: 1..issued
    lstate,    \* lstate[l]: "ok", "expired" or "dead"
    url,       \* the uploader's URL: [uri, token], each a lease number
    upc,       \* uploader: "lease", "send", "wire", "reload", "done", "punted"
    tries,     \* errors the uploader has recovered from
    versions,  \* history: file versions B2 stored for the uploader
    rejected,  \* history: <<"token", l>> and <<"uri", l>> B2 refused the uploader
    faults

vars == <<issued, lstate, url, upc, tries, versions, rejected, faults>>

Init ==
    /\ issued = 0 /\ lstate = <<>>
    /\ url = [u \in Uploaders |-> NoURL]
    /\ upc = [u \in Uploaders |-> "lease"]
    /\ tries = [u \in Uploaders |-> 0]
    /\ versions = [u \in Uploaders |-> 0]
    /\ rejected = [u \in Uploaders |-> {}]
    /\ faults = 0

Fault == faults < MaxFaults /\ faults' = faults + 1

MinOf(a, b) == IF a <= b THEN a ELSE b

-----------------------------------------------------------------------------
(* The caller's reaction to an error, within the classifier's budget      *)
(* (capped at RetryCap).                                                   *)
Budget(e) ==
    MinOf(RetryCap, IF C!Action(e) = "Retry" THEN C!MaxRetries(e) ELSE C!MaxReuploads(e))

Handle(u, e, retryAt) ==
    IF C!Action(e) \in {"Retry", "AttemptNewUpload"} /\ tries[u] < Budget(e)
        THEN /\ tries' = [tries EXCEPT ![u] = @ + 1]
             /\ upc' = [upc EXCEPT ![u] =
                          IF C!Action(e) = "Retry" THEN retryAt ELSE "reload"]
        ELSE /\ upc' = [upc EXCEPT ![u] = "punted"]
             /\ UNCHANGED tries

\* B2's reply to b2_get_upload_url for lease l.
GetUploadURLResponse(l) == [uploadUrl |-> l, authorizationToken |-> l]

\* The URL GetUploadURL builds from the reply.
URLOf(resp) == [uri |-> resp.uploadUrl, token |-> resp.authorizationToken]

\* The URLs a b2_get_upload_url may return.
Offered == {URLOf(GetUploadURLResponse(l)) : l \in 1..issued + 1}

(* b2_get_upload_url returns URL n to uploader u: a new lease, or, as B2  *)
(* sometimes does, the lease another uploader holds.                      *)
Issue(u, n) ==
    \/ /\ n = URLOf(GetUploadURLResponse(issued + 1))
       /\ issued' = issued + 1
       /\ lstate' = Append(lstate, "ok")
       /\ UNCHANGED faults
    \/ /\ Fault
       /\ \E v \in Uploaders \ {u} :
            /\ url[v].token /= NoLease /\ lstate[url[v].token] = "ok"
            /\ n = URLOf(GetUploadURLResponse(url[v].token))
       /\ UNCHANGED <<issued, lstate>>

\* GetUploadURL's result becomes the uploader's URL.
Take(u, n) == url' = [url EXCEPT ![u] = n]

GetUploadURLError == C!NetErr("reset")

\* GetUploadURL: the uploader's first lease; a failure is handled as usual.
GetUploadURL(u) ==
    /\ upc[u] = "lease"
    /\ \/ \E n \in Offered : Issue(u, n) /\ Take(u, n) /\ upc' = [upc EXCEPT ![u] = "send"] /\ UNCHANGED tries
       \/ Fault /\ Handle(u, GetUploadURLError, "lease")
                /\ UNCHANGED <<issued, lstate, url>>
    /\ UNCHANGED <<versions, rejected>>

\* Mutant: Reload that overwrites uri but keeps the old token.
URLReloadKeepsToken(u) ==
    /\ upc[u] = "reload"
    /\ \/ /\ \E n \in Offered : Issue(u, n) /\ url' = [url EXCEPT ![u].uri = n.uri]
          /\ upc' = [upc EXCEPT ![u] = "send"] /\ UNCHANGED tries
       \/ Fault /\ Handle(u, GetUploadURLError, "reload")
                /\ UNCHANGED <<issued, lstate, url>>
    /\ UNCHANGED <<versions, rejected>>

(* URL.Reload: GetUploadURL, and on success uri and token are overwritten  *)
(* in place; on failure the URL is left as it was.                         *)
URLReload(u) ==
    /\ upc[u] = "reload"
    /\ \/ /\ \E n \in Offered : Issue(u, n) /\ url' = [url EXCEPT ![u].uri = n.uri, ![u].token = n.token]
          /\ upc' = [upc EXCEPT ![u] = "send"] /\ UNCHANGED tries
       \/ Fault /\ Handle(u, GetUploadURLError, "reload")
                /\ UNCHANGED <<issued, lstate, url>>
    /\ UNCHANGED <<versions, rejected>>

\* Another upload with token t is on the wire.
Busy(t, u) == \E v \in Uploaders \ {u} : upc[v] = "wire" /\ url[v].token = t

(* UploadFile posts to the URL's uri with its token: an expired token     *)
(* gets 401, a lost pod behind the uri 503, a token in use by another     *)
(* upload 400 "more than one upload"; otherwise B2 starts storing.  The   *)
(* request may also be lost.                                               *)
UploadFile(u) ==
    LET t == url[u].token
        p == url[u].uri
        up(code, retry, msg) == C!B2Err("b2_upload_file", code, retry, msg)
        refuse(e, what) == Handle(u, e, "send") /\ rejected' = [rejected EXCEPT ![u] = @ \cup {what}]
    IN
    /\ upc[u] = "send"
    /\ \/ /\ lstate[t] = "expired"
          /\ refuse(up(401, 0, "Other"), <<"token", t>>)
          /\ UNCHANGED faults
       \/ /\ lstate[t] /= "expired" /\ lstate[p] = "dead"
          /\ refuse(up(503, IF RetryAfterOn5xx THEN 1 ELSE 0, "Other"), <<"uri", p>>)
          /\ UNCHANGED faults
       \/ /\ lstate[t] /= "expired" /\ lstate[p] /= "dead" /\ Busy(t, u)
          /\ Handle(u, up(400, 0, "MoreThanOne"), "send")
          /\ UNCHANGED <<rejected, faults>>
       \/ /\ lstate[t] /= "expired" /\ lstate[p] /= "dead" /\ ~Busy(t, u)
          /\ upc' = [upc EXCEPT ![u] = "wire"]
          /\ UNCHANGED <<tries, rejected, faults>>
       \/ /\ Fault
          /\ Handle(u, C!NetErr("reset"), "send")
          /\ UNCHANGED rejected
    /\ UNCHANGED <<issued, lstate, url, versions>>

(* B2 stores the file as a new version and replies; UploadFile returns the *)
(* File.  A lost reply is a transport error after the version was stored. *)
UploadFileReply(u) ==
    /\ upc[u] = "wire"
    /\ versions' = [versions EXCEPT ![u] = @ + 1]
    /\ \/ /\ upc' = [upc EXCEPT ![u] = "done"]
          /\ UNCHANGED <<tries, faults>>
       \/ /\ Fault
          /\ Handle(u, C!NetErr("reset"), "send")
    /\ UNCHANGED <<issued, lstate, url, rejected>>

\* The service expires a lease's token or loses the pod behind it.
Invalidate(l) ==
    /\ l \in DOMAIN lstate /\ lstate[l] = "ok"
    /\ Fault
    /\ \E s \in {"expired", "dead"} : lstate' = [lstate EXCEPT ![l] = s]
    /\ UNCHANGED <<issued, url, upc, tries, versions, rejected>>

\* Every uploader has finished or given up.
Terminated ==
    /\ \A u \in Uploaders : upc[u] \in {"done", "punted"}
    /\ UNCHANGED vars

Next ==
    \/ \E u \in Uploaders :
          GetUploadURL(u) \/ URLReload(u) \/ UploadFile(u) \/ UploadFileReply(u)
    \/ \E l \in 1..issued : Invalidate(l)
    \/ Terminated

(* Each uploader runs on its own goroutine and B2 answers every request   *)
(* that reached it; faults are not fair.                                   *)
Spec == Init /\ [][Next]_vars
        /\ \A u \in Uploaders :
              /\ WF_vars(GetUploadURL(u)) /\ WF_vars(URLReload(u))
              /\ WF_vars(UploadFile(u)) /\ WF_vars(UploadFileReply(u))

-----------------------------------------------------------------------------
TypeOK ==
    /\ issued \in Nat /\ lstate \in [1..issued -> {"ok", "expired", "dead"}]
    /\ url \in [Uploaders -> [uri : 0..issued, token : 0..issued]]
    /\ upc \in [Uploaders -> {"lease", "send", "wire", "reload", "done", "punted"}]
    /\ faults \in 0..MaxFaults

(* Spec section 3: a lease B2 refused as invalid (expired token, lost pod) *)
(* is replaced by a fresh b2_get_upload_url, never retried verbatim: an   *)
(* uploader about to send never holds a token B2 refused it as expired,   *)
(* nor a uri whose pod B2 reported lost, whatever the other uploaders and *)
(* the service did meanwhile.                                              *)
RejectedLeaseNeverReused ==
    \A u \in Uploaders :
        upc[u] = "send" =>
            <<"token", url[u].token>> \notin rejected[u] /\ <<"uri", url[u].uri>> \notin rejected[u]

(* With faults bounded and within the callers' budgets, every small-file  *)
(* upload eventually succeeds: no uploader gives up, none is stuck on a    *)
(* shared, expired or dead lease.                                          *)
EventuallyUploaded == \A u \in Uploaders : <>(upc[u] = "done")

=============================================================================
