------------------------------- MODULE Bucket -------------------------------
(***************************************************************************)
(* Bucket configuration updates of package base (src/unnamed/part_001):   *)
(* CreateBucket, ListBuckets and Bucket.Update, with the wire structs of  *)
(* src/internal/b2types/b2types.go they send and decode.                  *)
(*                                                                         *)
(* Several clients, each holding its own Bucket value for one B2 bucket,  *)
(* change its settings and call Update, which sends IfRevisionIs: b.rev   *)
(* so that B2 applies the change only to the revision the Bucket was read *)
(* at.  A Bucket is the revision it carries (rev) and, as a history       *)
(* field, the revision of B2's settings it reflects (basis).  Everything  *)
(* else in a Bucket is settings, abstracted to who wrote them last.       *)
(***************************************************************************)
EXTENDS Naturals

CONSTANTS
    Clients,     \* processes each holding a Bucket for the same bucket
    MaxUpdates,  \* bound on the updates B2 applies
    MaxFaults    \* bound on lost b2_update_bucket replies

ASSUME MaxUpdates \in Nat /\ MaxFaults \in Nat

NoBucket == [rev |-> 0, basis |-> 0]

VARIABLES
    srvRev,   \* B2's revision of the bucket, 0 while it does not exist
    held,     \* held[c]: the Bucket client c holds, NoBucket if none
    lastErr,  \* lastErr[c]: the error c's last call returned
    applied,  \* history: by whom, and from which basis, B2's last update came
    wrote,    \* history: wrote[r] is the client whose call made revision r
    faults

vars == <<srvRev, held, lastErr, applied, wrote, faults>>

Init ==
    /\ srvRev = 0
    /\ held = [c \in Clients |-> NoBucket]
    /\ lastErr = [c \in Clients |-> "none"]
    /\ applied = [by |-> "none", basis |-> 0]
    /\ wrote = [r \in 1..MaxUpdates + 1 |-> "none"]
    /\ faults = 0

-----------------------------------------------------------------------------
(* The wire structs, as far as the revision goes.  A json field tagged    *)
(* omitempty is left out when it holds the zero value; a field absent    *)
(* from a reply decodes to the zero value.                                *)

\* b2types.CreateBucketResponse (also the element of ListBucketsResponse
\* and UpdateBucketResponse): the bucket's settings at revision r.
CreateBucketResponse(r) == [revision |-> r]

\* b2types.ListBucketsResponse to a listing by the bucket's name.
ListBucketsResponse == [buckets |-> IF srvRev = 0 THEN {} ELSE {CreateBucketResponse(srvRev)}]

\* b2types.UpdateBucketRequest: IfRevisionIs, omitted when 0.
UpdateBucketRequest(b) ==
    IF b.rev = 0 THEN [absent |-> TRUE, ifRevisionIs |-> 0]
                 ELSE [absent |-> FALSE, ifRevisionIs |-> b.rev]

\* B2 applies an update without ifRevisionIs, or with the current one.
Applies(req) == req.absent \/ req.ifRevisionIs = srvRev

-----------------------------------------------------------------------------
\* The Bucket CreateBucket and ListBuckets build: rev from the reply.
BucketOf(resp) == [rev |-> resp.revision, basis |-> resp.revision]

\* The Bucket Update returns: built from the reply, without its revision.
UpdatedBucket(resp) == [rev |-> 0, basis |-> resp.revision]

Fail(c, err) ==
    /\ lastErr' = [lastErr EXCEPT ![c] = err]
    /\ UNCHANGED <<srvRev, held, applied, wrote, faults>>

Succeed(c) == lastErr' = [lastErr EXCEPT ![c] = "none"]

(* CreateBucket: B2 creates the bucket at revision 1; a name that exists  *)
(* is refused (400 duplicate_bucket_name).                                 *)
CreateBucket(c) ==
    \/ /\ srvRev = 0
       /\ srvRev' = 1
       /\ held' = [held EXCEPT ![c] = BucketOf(CreateBucketResponse(1))]
       /\ wrote' = [wrote EXCEPT ![1] = c]
       /\ Succeed(c)
       /\ UNCHANGED <<applied, faults>>
    \/ srvRev /= 0 /\ Fail(c, "duplicate_bucket_name")

(* ListBuckets with the bucket's name: a Bucket per bucket B2 lists, with *)
(* rev from the listing; nothing when it does not exist.                   *)
ListBuckets(c) ==
    /\ \E resp \in ListBucketsResponse.buckets :
          held' = [held EXCEPT ![c] = BucketOf(resp)]
    /\ Succeed(c)
    /\ UNCHANGED <<srvRev, applied, wrote, faults>>

Fault == faults < MaxFaults /\ faults' = faults + 1

(* Bucket.Update on the Bucket c holds, after changing its settings; the  *)
(* caller keeps the Bucket Update returns.  B2 refuses a stale            *)
(* ifRevisionIs (409 conflict); the caller keeps its Bucket and may list  *)
(* again.  The reply to an applied update may be lost: makeRequest        *)
(* returns a transport error and the caller keeps its old Bucket.         *)
Update(c) ==
    LET req == UpdateBucketRequest(held[c]) IN
    /\ held[c] /= NoBucket
    /\ \/ /\ Applies(req) /\ srvRev <= MaxUpdates
          /\ srvRev' = srvRev + 1
          /\ applied' = [by |-> c, basis |-> held[c].basis]
          /\ wrote' = [wrote EXCEPT ![srvRev + 1] = c]
          /\ \/ /\ held' = [held EXCEPT ![c] = UpdatedBucket(CreateBucketResponse(srvRev + 1))]
                /\ Succeed(c)
                /\ UNCHANGED faults
             \/ /\ Fault
                /\ lastErr' = [lastErr EXCEPT ![c] = "transport"]
                /\ UNCHANGED held
       \/ ~Applies(req) /\ Fail(c, "conflict")

Next == \E c \in Clients : CreateBucket(c) \/ ListBuckets(c) \/ Update(c)

Spec == Init /\ [][Next]_vars

-----------------------------------------------------------------------------
TypeOK ==
    /\ srvRev \in 0..MaxUpdates + 1
    /\ held \in [Clients -> [rev : 0..MaxUpdates + 1, basis : 0..MaxUpdates + 1]]
    /\ lastErr \in [Clients -> {"none", "duplicate_bucket_name", "conflict", "transport"}]
    /\ applied \in [by : Clients \cup {"none"}, basis : 0..MaxUpdates + 1]
    /\ wrote \in [1..MaxUpdates + 1 -> Clients \cup {"none"}]
    /\ faults \in 0..MaxFaults

(* Update sends IfRevisionIs: b.rev, so B2 applies a client's update only *)
(* when the Bucket it changed reflects every change another client made:  *)
(* no update overwrites another client's settings unread, however the     *)
(* clients' creates, listings and updates interleave.  (Overwriting its   *)
(* own change after a lost reply is refused as a conflict in B2 too, and  *)
(* is not what this property is about.)                                   *)
UpdateIsConditional ==
    [][srvRev /= 0 /\ srvRev' = srvRev + 1 =>
          \A r \in applied'.basis + 1 .. srvRev : wrote[r] = applied'.by]_vars

=============================================================================
