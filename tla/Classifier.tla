----------------------------- MODULE Classifier -----------------------------
(***************************************************************************)
(* The error classifier of package base (src/unnamed/part_001): how an    *)
(* HTTP outcome becomes an error value (makeNetRequest, mkErr) and how    *)
(* that error is mapped to a recommended ErrAction and to retry, re-upload *)
(* and backoff budgets (Action, MaxRetries, MaxReuploads, Backoff).       *)
(*                                                                         *)
(* Errors are records.  A b2err is                                         *)
(*   [kind |-> "b2err", method, code, retry, msg]                          *)
(* where msg is abstracted to the one thing Action inspects: whether it   *)
(* starts with "more than one upload using auth token" ("MoreThanOne")    *)
(* or not.  Any other Go error value is [kind |-> "other"], and the       *)
(* absence of an error is NoError.                                         *)
(***************************************************************************)
EXTENDS Integers, Sequences

\* The method names the code compares against.
UploadMethods   == {"b2_upload_file", "b2_upload_part"}
DownloadMethods == {"b2_download_file_by_id", "b2_download_file_by_name"}

NoError == [kind |-> "none"]
OtherError == [kind |-> "other"]

B2Err(method, code, retry, msg) ==
    [kind |-> "b2err", method |-> method, code |-> code, retry |-> retry, msg |-> msg]

-----------------------------------------------------------------------------
(* strconv.ParseInt(s, 10, 64) on a header value, a sequence of one-char  *)
(* strings.  An optional sign is followed by at least one decimal digit;  *)
(* anything else is a syntax error, for which mkErr keeps 0.              *)

Digit == [c \in {"0","1","2","3","4","5","6","7","8","9"} |->
            CASE c = "0" -> 0 [] c = "1" -> 1 [] c = "2" -> 2 [] c = "3" -> 3
              [] c = "4" -> 4 [] c = "5" -> 5 [] c = "6" -> 6 [] c = "7" -> 7
              [] c = "8" -> 8 [] c = "9" -> 9]

IsDigits(s) == Len(s) > 0 /\ \A i \in 1..Len(s) : s[i] \in DOMAIN Digit

RECURSIVE DecimalValue(_)
DecimalValue(s) ==
    IF s = <<>> THEN 0
    ELSE 10 * DecimalValue(SubSeq(s, 1, Len(s) - 1)) + Digit[s[Len(s)]]

\* <<ok, value>> as ParseInt returns them (value 0 on a syntax error).
ParseInt(s) ==
    IF s /= <<>> /\ s[1] \in {"+", "-"} /\ IsDigits(Tail(s))
        THEN <<TRUE, IF s[1] = "-" THEN -DecimalValue(Tail(s)) ELSE DecimalValue(Tail(s))>>
    ELSE IF IsDigits(s) THEN <<TRUE, DecimalValue(s)>>
    ELSE <<FALSE, 0>>

-----------------------------------------------------------------------------
(* mkErr: a non-200 response becomes a b2err.  resp has the status, the   *)
(* X-Blazer-Method header of its request, the Retry-After header value    *)
(* (<<>> when absent) and the body, one of                                *)
(*   "race"       JSON whose message starts with the upload-token race text *)
(*   "json"       JSON with any other message                              *)
(*   "nonjson"    a body that is not JSON (msg.Msg stays "")               *)
(*   "unreadable" reading the body failed                                  *)

(* json.Unmarshal into b2types.ErrorMessage, of which Action reads only   *)
(* the message: it stays "" unless the body is JSON.                      *)
ErrorMessage(body) ==
    [message |-> CASE body = "race" -> "MoreThanOne"
                   [] body = "json" -> "Other"
                   [] OTHER         -> "Empty"]

(* msgBody: the read error if the body could not be read (the unmarshal  *)
(* error of the partial body then replaces it), else msg.Msg.             *)
MsgOf(body) ==
    IF body = "unreadable" THEN "ReadFailure" ELSE ErrorMessage(body).message

RetryAfter(hdr) == IF hdr = <<>> THEN 0 ELSE ParseInt(hdr)[2]

\* Mutant: mkErr returning the body's read error as it is.
MkErrReadErrorBare(resp) ==
    IF resp.body = "unreadable" THEN OtherError
    ELSE B2Err(resp.method, resp.status, RetryAfter(resp.retryAfter), MsgOf(resp.body))

MkErr(resp) ==
    B2Err(resp.method, resp.status, RetryAfter(resp.retryAfter), MsgOf(resp.body))

\* Mutant: makeNetRequest without the early return for cancellation.
NetErrWrapsCancel(cause) ==
    IF cause = "unknownAuthority" THEN OtherError
    ELSE B2Err("", 0, 1, "Transport")

(* makeNetRequest: a round trip that fails.  Cancellation and deadline    *)
(* errors and an x509.UnknownAuthorityError (bare or wrapped) pass        *)
(* through unchanged; anything else becomes a b2err with retry 1 and no   *)
(* method or code.                                                        *)
NetErr(cause) ==
    IF cause \in {"canceled", "deadline", "unknownAuthority"} THEN OtherError
    ELSE B2Err("", 0, 1, "Transport")

-----------------------------------------------------------------------------
(* requestBody: a streaming body of a given size, or none (a nil pointer). *)
(* makeRequest replaces it with the JSON encoding of b2req when there is   *)
(* one; an encoding is never empty ("{}" at least).                        *)

NilBody == [present |-> FALSE, size |-> 0]

GetSize(rb) == IF ~rb.present THEN 0 ELSE rb.size

\* Mutant: getBody without the zero-size case.
GetBodyNoEmptyCheck(rb) == IF ~rb.present THEN "nil" ELSE "reader"

\* getBody: nil, http.NoBody for an empty body, else the reader itself.
GetBody(rb) ==
    CASE ~rb.present       -> "nil"
      [] GetSize(rb) = 0   -> "NoBody"
      [] OTHER             -> "reader"

\* The body makeRequest sends: the JSON of b2req if any, else the caller's.
RequestBodyOf(hasReq, jsonLen, body) ==
    IF hasReq THEN [present |-> TRUE, size |-> jsonLen] ELSE body

(* makeRequest: the error one call returns.  A local failure (json.Marshal *)
(* of the request, http.NewRequest) is returned before any round trip; a   *)
(* transport failure goes through makeNetRequest; a non-200 response       *)
(* through mkErr.  A 200 is success unless a reply is expected (b2resp is  *)
(* not nil) and its body cannot be decoded; without a reply a body that    *)
(* cannot be read is only logged.                                          *)
MakeRequest(outcome) ==
    CASE outcome.kind = "local"     -> OtherError
      [] outcome.kind = "transport" -> NetErr(outcome.cause)
      [] outcome.kind = "response"  ->
            IF outcome.status /= 200 THEN MkErr(outcome)
            ELSE IF outcome.reply /\ outcome.body \in {"nonjson", "unreadable"}
                THEN OtherError
            ELSE NoError

-----------------------------------------------------------------------------
(* Action: the recommended course of action for an error. *)

\* Mutant: Action testing for a 5xx upload failure before Retry-After.
ActionUploadFirst(e) ==
    IF e.kind /= "b2err" THEN "Punt"
    ELSE IF e.code >= 500 /\ e.code < 600 /\ e.method \in UploadMethods
        THEN "AttemptNewUpload"
    ELSE IF e.retry > 0 THEN "Retry"
    ELSE CASE e.code = 401 ->
                CASE e.method = "b2_authorize_account" -> "Punt"
                  [] e.method \in UploadMethods        -> "AttemptNewUpload"
                  [] OTHER                             -> "ReAuthenticate"
           [] e.code = 400 ->
                IF e.method = "b2_upload_file" /\ e.msg = "MoreThanOne"
                    THEN "AttemptNewUpload" ELSE "Punt"
           [] e.code = 408 -> "AttemptNewUpload"
           [] e.code \in {429, 500, 503} -> "Retry"
           [] OTHER -> "Punt"

Action(e) ==
    IF e.kind /= "b2err" THEN "Punt"
    ELSE IF e.retry > 0 THEN "Retry"
    ELSE IF e.code >= 500 /\ e.code < 600 /\ e.method \in UploadMethods
        THEN "AttemptNewUpload"
    ELSE CASE e.code = 401 ->
                CASE e.method = "b2_authorize_account" -> "Punt"
                  [] e.method \in UploadMethods        -> "AttemptNewUpload"
                  [] OTHER                             -> "ReAuthenticate"
           [] e.code = 400 ->
                IF e.method = "b2_upload_file" /\ e.msg = "MoreThanOne"
                    THEN "AttemptNewUpload" ELSE "Punt"
           [] e.code = 408 -> "AttemptNewUpload"
           [] e.code \in {429, 500, 503} -> "Retry"
           [] OTHER -> "Punt"

\* Mutant: MaxReuploads without the upload methods' budget.
MaxReuploadsNoUpload(e) == IF e.kind /= "b2err" THEN 5 ELSE 0

MaxReuploads(e) ==
    IF e.kind /= "b2err" THEN 5
    ELSE IF e.method \in UploadMethods THEN 5
    ELSE 0

MaxRetries(e) ==
    IF e.kind /= "b2err" THEN 0
    ELSE IF e.method \in UploadMethods \cup DownloadMethods THEN 20
    ELSE 5

\* Backoff in seconds: the b2err's retry value, 0 for other errors.
Backoff(e) == IF e.kind /= "b2err" THEN 0 ELSE e.retry

=============================================================================
