---------------------------- MODULE ClassifierMC ----------------------------
(***************************************************************************)
(* Checks the request executor and the classifier over a bounded input   *)
(* space.  The one variable holds the outcome of one makeRequest call, a  *)
(* request body given to makeRequest, a download, or a bucket's stored   *)
(* settings; Init ranges over all of them and the state never changes, so *)
(* every invariant below is checked once per case.                        *)
(***************************************************************************)
EXTENDS Download, FiniteSets

CONSTANTS
    Methods,        \* X-Blazer-Method values, "" for none
    Statuses,       \* HTTP status codes of responses
    HeaderChars,    \* characters a Retry-After header is built from
    MaxHeaderLen    \* longest Retry-After header value

ASSUME MaxHeaderLen \in Nat

VARIABLE outcome

Headers == UNION {[1..n -> HeaderChars] : n \in 0..MaxHeaderLen}

Responses ==
    [kind : {"response"}, method : Methods, status : Statuses,
     retryAfter : Headers, body : {"race", "json", "nonjson", "unreadable"},
     reply : BOOLEAN]

Transports ==
    [kind : {"transport"}, method : Methods,
     cause : {"canceled", "deadline", "unknownAuthority", "reset"}]

Locals == [kind : {"local"}, method : Methods]

\* The request bodies makeRequest may be given, and its JSON lengths.
Bodies == {NilBody} \cup [present : {TRUE}, size : 0..2]
BodyCases == [kind : {"body"}, hasReq : BOOLEAN, jsonLen : {2, 9}, rb : Bodies]

\* Downloads at offset with size of an object of length len, a large file
\* (whose SHA1 header is "none") or not.
DownloadCases ==
    [kind : {"download"}, len : 0..3, offset : 0..4, size : 0..3, large : BOOLEAN]

(* B2's stored settings of a bucket: either type, info empty or one key, *)
(* no lifecycle rule or one (a day count of 0 is one B2 leaves unset),   *)
(* CORS, encryption and replication unset or set, file lock off or on    *)
(* with or without a default retention, each readable by the key or not. *)
BS == INSTANCE BucketSettings
Retentions ==
    {BS!NoRetention, [mode |-> {"governance"}, period |-> [duration |-> 1, unit |-> {"days"}]]}
Rules ==
    {<<>>, <<[Prefix |-> "p", DaysNewUntilHidden |-> 0, DaysHiddenUntilDeleted |-> 1]>>,
           <<[Prefix |-> "", DaysNewUntilHidden |-> 2, DaysHiddenUntilDeleted |-> 0]>>}
StoredSettings ==
    {S \in [type : {"allPrivate", "allPublic"}, info : {{}, {"k"}}, rules : Rules,
            cors : {<<>>, <<"c">>}, sse : {{}, {[Mode |-> "SSE-B2", Algorithm |-> "AES256"]}},
            lock : BOOLEAN, retention : Retentions, repl : {{}, {"source"}},
            readLock : BOOLEAN, readRepl : BOOLEAN] :
        S.retention /= BS!NoRetention => S.lock}
SettingsCases == [kind : {"settings"}, settings : StoredSettings, source : {"create", "list"}]

Outcomes == Responses \cup Transports \cup Locals \cup BodyCases \cup DownloadCases \cup SettingsCases

Init == outcome \in Outcomes

Next == UNCHANGED outcome

Spec == Init /\ [][Next]_outcome

\* The error makeRequest returns for a call outcome.
Err == IF outcome.kind \in {"local", "transport", "response"}
          THEN MakeRequest(outcome) ELSE NoError

TypeOK ==
    /\ outcome \in Outcomes
    /\ Action(Err) \in {"ReAuthenticate", "AttemptNewUpload", "Retry", "Punt"}

-----------------------------------------------------------------------------
(* The classification rules of spec section 4.1, as an ordered list of     *)
(* guarded actions; the first rule whose guard holds decides.              *)

RECURSIVE FirstMatch(_)
FirstMatch(rules) ==
    IF rules = <<>> THEN "Punt"
    ELSE IF Head(rules)[1] THEN Head(rules)[2] ELSE FirstMatch(Tail(rules))

SpecRules(e) ==
    LET upload == e.method \in UploadMethods IN
    << <<e.retry > 0, "Retry">>,
       <<e.code \in 500..599 /\ upload, "AttemptNewUpload">>,
       <<e.code = 401 /\ e.method = "b2_authorize_account", "Punt">>,
       <<e.code = 401 /\ upload, "AttemptNewUpload">>,
       <<e.code = 401, "ReAuthenticate">>,
       <<e.code = 400 /\ e.method = "b2_upload_file" /\ e.msg = "MoreThanOne", "AttemptNewUpload">>,
       <<e.code = 408, "AttemptNewUpload">>,
       <<e.code \in {429, 500, 503}, "Retry">> >>

SpecAction(e) == IF e.kind /= "b2err" THEN "Punt" ELSE FirstMatch(SpecRules(e))

(* Every failed call is classified as the rule list of the spec says: the  *)
(* nested IF/CASE of Action picks the same action as the first matching   *)
(* rule, for every method, status, Retry-After header and body.           *)
ActionMatchesSpecRules ==
    Err /= NoError => Action(Err) = SpecAction(Err)

(* A transport failure of any call (makeNetRequest) is retried after one  *)
(* second with a non-zero retry budget, except cancellation, deadline and *)
(* an untrusted TLS chain, which are punted and never retried.            *)
TransportFailurePolicy ==
    outcome.kind = "transport" =>
        IF outcome.cause \in {"canceled", "deadline", "unknownAuthority"}
            THEN Action(Err) = "Punt" /\ MaxRetries(Err) = 0
            ELSE Action(Err) = "Retry" /\ Backoff(Err) = 1 /\ MaxRetries(Err) > 0

(* mkErr still builds a b2err when the error body cannot be read: the     *)
(* status, the method and Retry-After decide the action as they do for a  *)
(* readable body with an ordinary message.  Only the upload-token race   *)
(* text is lost with the body, so such a 400 is punted.                   *)
UnreadableBodyKeepsPolicy ==
    (outcome.kind = "response" /\ outcome.status /= 200 /\ outcome.body = "unreadable") =>
        LET e == Err
            read == MakeRequest([outcome EXCEPT !.body = "json"])
        IN  /\ e.kind = "b2err"
            /\ Action(e) = Action(read) /\ Backoff(e) = Backoff(read)
            /\ MaxRetries(e) = MaxRetries(read) /\ MaxReuploads(e) = MaxReuploads(read)

-----------------------------------------------------------------------------
(* net/http's choice of framing for an outgoing request (outgoingLength): *)
(* no body or http.NoBody is length 0; a body with ContentLength 0 is of   *)
(* unknown length and goes out chunked (-1); else ContentLength is sent.   *)
OutgoingLength(body, contentLength) ==
    CASE body \in {"nil", "NoBody"} -> 0
      [] contentLength /= 0        -> contentLength
      [] OTHER                     -> -1

(* Spec section 4.2: makeRequest sends every body, JSON or streamed, with  *)
(* its exact length as Content-Length; a zero-length streamed body goes   *)
(* out as an explicit empty body, never chunked.                           *)
BodyLengthDeclared ==
    outcome.kind = "body" =>
        LET body == RequestBodyOf(outcome.hasReq, outcome.jsonLen, outcome.rb)
        IN  OutgoingLength(GetBody(body), GetSize(body)) = GetSize(body)

-----------------------------------------------------------------------------
(* The B2 download server (RFC 7233): the whole object with 200 without a *)
(* Range, 416 when the first byte is past the end, else 206 with the      *)
(* bytes from first to last, clipped at the end of the object.            *)
Serve(rng, len) ==
    LET last == IF rng.open \/ rng.last >= len THEN len - 1 ELSE rng.last IN
    CASE rng = NoRange     -> [status |-> 200, bytes |-> 0..(len - 1)]
      [] rng.first >= len  -> [status |-> 416, bytes |-> {}]
      [] OTHER             -> [status |-> 206, bytes |-> rng.first..last]

\* The Content-Length header of a short body.
LengthHeader(k) == <<CHOOSE c \in DOMAIN Digit : Digit[c] = k>>

\* The bytes of an object of length len that offset and size ask for.
Window(len, offset, size) ==
    {i \in 0..(len - 1) : i >= offset /\ (size = 0 \/ i < offset + size)}

(* Spec section 6: a download of offset and size delivers exactly the     *)
(* bytes of that window of the object, says how many, and carries the     *)
(* content SHA1 (for a large file, its Large_file_sha1 info); it fails    *)
(* only when the window is empty and the call asked for part of it.       *)
DownloadDeliversWindow ==
    outcome.kind = "download" =>
        LET len == outcome.len
            offset == outcome.offset
            size == outcome.size
            srv == Serve(MkRange(offset, size), len)
            r   == DownloadFileByName(
                     [kind |-> "response", status |-> srv.status,
                      retryAfter |-> <<>>, body |-> "json",
                      clen |-> LengthHeader(Cardinality(srv.bytes)),
                      infoOK |-> TRUE,
                      sha1 |-> IF outcome.large THEN "none" ELSE "content",
                      largeSha |-> IF outcome.large THEN "content" ELSE ""])
            w   == Window(len, offset, size)
        IN  IF w /= {} \/ (offset = 0 /\ size = 0)
                THEN /\ r.err = NoError /\ srv.bytes = w
                     /\ r.clen = Cardinality(w) /\ r.sha1 = "content"
                ELSE r.err /= NoError

-----------------------------------------------------------------------------
(* Bucket.Update sends every setting of the Bucket it is called on, so   *)
(* updating, unchanged, a Bucket that CreateBucket or ListBuckets         *)
(* returned leaves all of B2's settings as they were, and so does         *)
(* updating, unchanged, the Bucket that this Update returns.              *)
UnchangedUpdateKeepsSettings ==
    outcome.kind = "settings" =>
        LET S  == outcome.settings
            b  == IF outcome.source = "create"
                    THEN BS!CreateBucket(BS!UpdateBucketResponse(S))
                    ELSE BS!ListBuckets(BS!UpdateBucketResponse(S))
            S1 == BS!ApplyUpdate(S, BS!UpdateBucketRequest(b))
            b1 == BS!Update(BS!UpdateBucketResponse(S1))
        IN  /\ S1 = S
            /\ BS!ApplyUpdate(S1, BS!UpdateBucketRequest(b1)) = S

=============================================================================
