------------------------------ MODULE Download ------------------------------
(***************************************************************************)
(* Bucket.DownloadFileByName of package base (src/unnamed/part_001): the  *)
(* Range header built by mkRange, and how the response becomes a          *)
(* FileReader or an error.                                                 *)
(*                                                                         *)
(* A Range header is a record [first, open, last]: "bytes=first-" when    *)
(* open, else "bytes=first-last"; NoRange is the absent header.  The      *)
(* response of one round trip is either a transport failure               *)
(* [kind |-> "transport", cause] or a record with the status, the         *)
(* Content-Length header (a sequence of one-char strings), whether every  *)
(* X-Bz-Info- header unescapes, and the X-Bz-Content-Sha1 header and      *)
(* Large_file_sha1 info ("" when absent).                                  *)
(***************************************************************************)
EXTENDS Classifier

NoRange == [first |-> 0, open |-> FALSE, last |-> -1]

\* Mutant: the last byte one past the requested size.
MkRangePastEnd(offset, size) ==
    IF offset = 0 /\ size = 0 THEN NoRange
    ELSE IF size = 0 THEN [first |-> offset, open |-> TRUE, last |-> -1]
    ELSE [first |-> offset, open |-> FALSE, last |-> offset + size]

\* mkRange: no header for the whole object, an open range without a size.
MkRange(offset, size) ==
    IF offset = 0 /\ size = 0 THEN NoRange
    ELSE IF size = 0 THEN [first |-> offset, open |-> TRUE, last |-> -1]
    ELSE [first |-> offset, open |-> FALSE, last |-> offset + size - 1]

(* DownloadFileByName after the request is built: a failed round trip     *)
(* goes through makeNetRequest, a status other than 200 or 206 through     *)
(* mkErr (the request names method b2_download_file_by_name), a           *)
(* Content-Length that does not parse or an info header that does not     *)
(* unescape is returned as is.  Otherwise the reader carries the length   *)
(* and the content SHA1, which for a large file ("none") is the           *)
(* Large_file_sha1 info when there is one.                                 *)
DownloadFileByName(resp) ==
    LET clen == ParseInt(resp.clen) IN
    CASE resp.kind = "transport" -> [err |-> NetErr(resp.cause)]
      [] resp.status \notin {200, 206} ->
            [err |-> MkErr([method |-> "b2_download_file_by_name",
                             status |-> resp.status,
                             retryAfter |-> resp.retryAfter, body |-> resp.body])]
      [] ~clen[1]      -> [err |-> OtherError]
      [] ~resp.infoOK  -> [err |-> OtherError]
      [] OTHER ->
            [err  |-> NoError,
             clen |-> clen[2],
             sha1 |-> IF resp.sha1 = "none" /\ resp.largeSha /= ""
                         THEN resp.largeSha ELSE resp.sha1]

=============================================================================
