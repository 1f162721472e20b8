------------------------------- MODULE Session -------------------------------
(***************************************************************************)
(* The account session of package base (src/unnamed/part_001): the B2     *)
(* struct shared by every request, re-authorized in place by B2.Update     *)
(* while other goroutines build requests from it.                          *)
(*                                                                         *)
(* A session is named by its generation: AuthorizeAccount number g returns *)
(* a B2 whose every field holds g.  Update copies field by field without  *)
(* a lock; a reader that loads a string field while it is being stored    *)
(* races with the store, and Go then gives it the old value, the new one, *)
(* or a torn pair of pointer and length (Torn).  Readers issue requests *)
(* as StartLargeFile and the other wrappers do: the token for the         *)
(* Authorization header, then the receiver opts, then apiURI for the URL.  *)
(***************************************************************************)
EXTENDS Naturals, Sequences, TLC

CONSTANTS
    Readers,   \* goroutines issuing requests on the shared B2
    MaxGen     \* bound on re-authorizations

ASSUME MaxGen \in Nat

Fields == {"accountID", "authToken", "apiURI", "s3URI", "downloadURI",
           "minPartSize", "opts", "bucket", "pfx"}

(* The reply of b2_authorize_account number g, as far as AuthorizeAccount *)
(* reads it: every value it carries belongs to session g.                 *)
StorageAPIInfo(g) ==
    [absoluteMinimumPartSize |-> g, apiUrl |-> g, bucketId |-> g,
     downloadUrl |-> g, namePrefix |-> g, s3ApiUrl |-> g]

AuthorizeAccountResponse(g) ==
    [accountId |-> g, authorizationToken |-> g, apiInfo |-> [storageApi |-> StorageAPIInfo(g)]]

\* The B2 AuthorizeAccount returns: the reply's fields and its b2Options o.
NewB2(resp, o) ==
    LET api == resp.apiInfo.storageApi IN
    [accountID |-> resp.accountId, authToken |-> resp.authorizationToken,
     apiURI |-> api.apiUrl, s3URI |-> api.s3ApiUrl, downloadURI |-> api.downloadUrl,
     minPartSize |-> api.absoluteMinimumPartSize, opts |-> o,
     bucket |-> api.bucketId, pfx |-> api.namePrefix]

UpdatedFields ==
    <<"accountID", "authToken", "apiURI", "downloadURI", "minPartSize", "opts">>

\* The fields a request wrapper loads, in Go's evaluation order.
ReadOrder == <<"authToken", "opts", "apiURI">>

Sending == Len(ReadOrder) + 1

\* A torn string is no session's value.
Torn == MaxGen + 1

VARIABLES
    b,        \* the shared B2: field -> generation
    latest,   \* generation of the newest AuthorizeAccount result
    fresh,    \* the B2 n that AuthorizeAccount returned, for b.Update(n)
    upc,      \* re-authorizing goroutine: "idle" or "write"
    ui,       \* index in UpdatedFields of the field being copied
    mid,      \* the store of that field has begun but not ended
    doneGen,  \* generation of the last Update that completed
    rpc,      \* reader: 0 idle, i loading ReadOrder[i], Sending
    seen,     \* reader: field -> value it loaded
    base      \* history: doneGen when the reader started

vars == <<b, latest, fresh, upc, ui, mid, doneGen, rpc, seen, base>>

Init ==
    /\ b = NewB2(AuthorizeAccountResponse(0), 0) /\ latest = 0
    /\ fresh = b
    /\ upc = "idle" /\ ui = 1 /\ mid = FALSE /\ doneGen = 0
    /\ rpc = [r \in Readers |-> 0]
    /\ seen = [r \in Readers |-> [f \in {} |-> 0]]
    /\ base = [r \in Readers |-> 0]

(* AuthorizeAccount succeeds with a new session and its caller starts     *)
(* b.Update(n).  A failed AuthorizeAccount changes nothing.               *)
AuthorizeAccount ==
    /\ upc = "idle" /\ latest < MaxGen
    /\ latest' = latest + 1
    /\ fresh' = NewB2(AuthorizeAccountResponse(latest + 1), latest + 1)
    /\ upc' = "write" /\ ui' = 1
    /\ UNCHANGED <<b, mid, doneGen, rpc, seen, base>>

\* b.<field> = n.<field>: the store begins ...
StoreBegin ==
    /\ upc = "write" /\ ~mid
    /\ mid' = TRUE
    /\ UNCHANGED <<b, latest, fresh, upc, ui, doneGen, rpc, seen, base>>

\* ... and ends; after the last field Update returns.
StoreEnd ==
    /\ mid
    /\ b' = [b EXCEPT ![UpdatedFields[ui]] = fresh[UpdatedFields[ui]]]
    /\ mid' = FALSE
    /\ IF ui = Len(UpdatedFields)
          THEN upc' = "idle" /\ ui' = 1 /\ doneGen' = latest
          ELSE ui' = ui + 1 /\ UNCHANGED <<upc, doneGen>>
    /\ UNCHANGED <<latest, fresh, rpc, seen, base>>

\* A goroutine starts building a request.
StartRequest(r) ==
    /\ rpc[r] = 0
    /\ rpc' = [rpc EXCEPT ![r] = 1]
    /\ seen' = [seen EXCEPT ![r] = [f \in {} |-> 0]]
    /\ base' = [base EXCEPT ![r] = doneGen]
    /\ UNCHANGED <<b, latest, fresh, upc, ui, mid, doneGen>>

\* It loads the next field; a load racing with that field's store may
\* see either value or a torn one.
Load(r) ==
    LET f == ReadOrder[rpc[r]]
        racing == upc = "write" /\ mid /\ UpdatedFields[ui] = f
    IN
    /\ rpc[r] \in 1..Len(ReadOrder)
    /\ \E v \in IF racing THEN {b[f], latest, Torn} ELSE {b[f]} :
          seen' = [seen EXCEPT ![r] = (f :> v) @@ @]
    /\ rpc' = [rpc EXCEPT ![r] = @ + 1]
    /\ UNCHANGED <<b, latest, fresh, upc, ui, mid, doneGen, base>>

\* makeRequest sends what was loaded; the goroutine moves on.
Send(r) ==
    /\ rpc[r] = Sending
    /\ rpc' = [rpc EXCEPT ![r] = 0]
    /\ UNCHANGED <<b, latest, fresh, upc, ui, mid, doneGen, seen, base>>

Next ==
    \/ AuthorizeAccount \/ StoreBegin \/ StoreEnd
    \/ \E r \in Readers : StartRequest(r) \/ Load(r) \/ Send(r)

Spec == Init /\ [][Next]_vars

-----------------------------------------------------------------------------
TypeOK ==
    /\ b \in [Fields -> 0..MaxGen]
    /\ latest \in 0..MaxGen /\ doneGen \in 0..latest
    /\ upc \in {"idle", "write"} /\ ui \in 1..Len(UpdatedFields) /\ mid \in BOOLEAN
    /\ rpc \in [Readers -> 0..Sending]

RequestFromOneSession ==
    \A r \in Readers :
        rpc[r] = Sending => \E g \in 0..MaxGen : \A f \in DOMAIN seen[r] : seen[r][f] = g

(* The comment on B2.Update: Update replaces the B2 object with a new one. *)
(* Once it returns, every field holds the new session's value.             *)
UpdateReplacesSession ==
    upc = "idle" => \A f \in Fields : b[f] = doneGen

=============================================================================
