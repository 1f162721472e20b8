---------------------------- MODULE BucketSettings ----------------------------
(***************************************************************************)
(* The settings of a bucket as package base (src/unnamed/part_001) reads  *)
(* and writes them: the Bucket that CreateBucket, ListBuckets and         *)
(* Bucket.Update build from B2's reply, and the b2_update_bucket request  *)
(* Bucket.Update sends, with the wire structs of                          *)
(* src/internal/b2types/b2types.go.                                        *)
(*                                                                         *)
(* A Go pointer, and a field omitempty may leave out, is a set of at most *)
(* one value: {} is nil or absent, {v} is present.  A map of bucket info  *)
(* is the set of its keys; a CORS rule, an encryption setting and a       *)
(* replication configuration are opaque values.  B2's stored settings S  *)
(* are a record [type, info, rules, cors, sse, lock, retention, repl]     *)
(* with readLock and readRepl, whether the key may read the file lock and *)
(* the replication configuration.                                          *)
(***************************************************************************)
EXTENDS Naturals, Sequences

Nil == {}

\* FileLockConfiguration's defaultRetention when none is set, or when the
\* key may not read it: B2 sends null and every field keeps its zero value.
NoRetention == [mode |-> Nil, period |-> [duration |-> 0, unit |-> Nil]]

\* Mutant: the rule conversion with the two day counts crossed.
ToLifecycleRulesSwapped(rs) ==
    [i \in DOMAIN rs |-> [Prefix |-> rs[i].Prefix,
                          DaysNewUntilHidden |-> rs[i].DaysHiddenUntilDeleted,
                          DaysHiddenUntilDeleted |-> rs[i].DaysNewUntilHidden]]

\* The loop copying each b2types.LifecycleRule of a reply into a
\* base.LifecycleRule.
ToLifecycleRules(rs) ==
    [i \in DOMAIN rs |-> [Prefix |-> rs[i].Prefix,
                          DaysNewUntilHidden |-> rs[i].DaysNewUntilHidden,
                          DaysHiddenUntilDeleted |-> rs[i].DaysHiddenUntilDeleted]]

\* Bucket.Update's loop copying b.LifecycleRules into the request.
LifecycleRulesRequest(rs) ==
    [i \in DOMAIN rs |-> [DaysNewUntilHidden |-> rs[i].DaysNewUntilHidden,
                          DaysHiddenUntilDeleted |-> rs[i].DaysHiddenUntilDeleted,
                          Prefix |-> rs[i].Prefix]]

-----------------------------------------------------------------------------
(* B2's reply to b2_create_bucket, b2_list_buckets and b2_update_bucket.  *)

FileLockConfiguration(S) ==
    [IsClientAuthorizedToRead |-> S.readLock,
     Val |-> IF S.readLock THEN [DefaultRetention |-> S.retention, IsFileLockEnabled |-> S.lock]
                           ELSE [DefaultRetention |-> NoRetention, IsFileLockEnabled |-> FALSE]]

ReplicationConfigurationResponse(S) ==
    [IsClientAuthorizedToRead |-> S.readRepl,
     Value |-> IF S.readRepl THEN S.repl ELSE Nil]

UpdateBucketResponse(S) ==
    [Type |-> S.type, Info |-> S.info, LifecycleRules |-> S.rules,
     CORSRules |-> S.cors, DefaultServerSideEncryption |-> S.sse,
     FileLockConfig |-> FileLockConfiguration(S),
     ReplicationConfiguration |-> ReplicationConfigurationResponse(S)]

-----------------------------------------------------------------------------
(* The Bucket each call returns.  Fields a call does not set keep Go's    *)
(* zero value.                                                             *)

ZeroBucket ==
    [Type |-> "", Info |-> {}, LifecycleRules |-> <<>>, CORSRules |-> <<>>,
     DefaultRetention |-> Nil, DefaultServerSideEncryption |-> Nil,
     FileLockEnabled |-> FALSE, ReplicationConfiguration |-> Nil]

\* B2.CreateBucket: Info and LifecycleRules from the reply, no Type.
CreateBucket(resp) ==
    [ZeroBucket EXCEPT !.Info = resp.Info,
                       !.LifecycleRules = ToLifecycleRules(resp.LifecycleRules)]

\* B2.ListBuckets: Type, Info and LifecycleRules of each listed bucket.
ListBuckets(resp) ==
    [ZeroBucket EXCEPT !.Type = resp.Type, !.Info = resp.Info,
                       !.LifecycleRules = ToLifecycleRules(resp.LifecycleRules)]

\* b2types.Retention with its RetentionPeriod.
Retention(mode, duration, unit) == [Mode |-> mode, Period |-> [Duration |-> duration, Unit |-> unit]]

\* The Bucket Bucket.Update returns: every setting of the reply, and a
\* DefaultRetention only when the reply's retention mode is not null.
Update(resp) ==
    LET r == resp.FileLockConfig.Val.DefaultRetention
    IN  [Type |-> resp.Type, Info |-> resp.Info,
         LifecycleRules |-> ToLifecycleRules(resp.LifecycleRules),
         CORSRules |-> resp.CORSRules,
         DefaultServerSideEncryption |-> resp.DefaultServerSideEncryption,
         FileLockEnabled |-> resp.FileLockConfig.Val.IsFileLockEnabled,
         ReplicationConfiguration |-> resp.ReplicationConfiguration.Value,
         DefaultRetention |->
             IF r.mode = Nil THEN Nil
             ELSE {Retention(CHOOSE m \in r.mode : TRUE, r.period.duration,
                             CHOOSE u \in r.period.unit : TRUE)}]

-----------------------------------------------------------------------------
(* b2_update_bucket.                                                       *)

\* A value omitempty leaves out when it is Go's zero value.
OmitEmpty(v, zero) == IF v = zero THEN Nil ELSE {v}

\* b2types.UpdateBucketRequest as Bucket.Update fills it from b.
UpdateBucketRequest(b) ==
    [Type |-> OmitEmpty(b.Type, ""), Info |-> OmitEmpty(b.Info, {}),
     LifecycleRules |-> OmitEmpty(LifecycleRulesRequest(b.LifecycleRules), <<>>),
     CORSRules |-> OmitEmpty(b.CORSRules, <<>>),
     DefaultRetention |-> b.DefaultRetention,
     DefaultServerSideEncryption |-> b.DefaultServerSideEncryption,
     FileLockEnabled |-> OmitEmpty(b.FileLockEnabled, FALSE),
     ReplicationConfiguration |-> b.ReplicationConfiguration]

\* B2 replaces each setting the request carries and keeps the others; it
\* stores a retention in the shape it replies with.
ApplyUpdate(S, req) ==
    LET Or(f, cur) == IF f = Nil THEN cur ELSE CHOOSE v \in f : TRUE
        Stored(ret) == [mode |-> {ret.Mode},
                        period |-> [duration |-> ret.Period.Duration, unit |-> {ret.Period.Unit}]]
    IN  [S EXCEPT !.type = Or(req.Type, @), !.info = Or(req.Info, @),
                  !.rules = Or(req.LifecycleRules, @), !.cors = Or(req.CORSRules, @),
                  !.sse = IF req.DefaultServerSideEncryption = Nil THEN @
                          ELSE req.DefaultServerSideEncryption,
                  !.lock = Or(req.FileLockEnabled, @),
                  !.retention = IF req.DefaultRetention = Nil THEN @
                                ELSE Stored(CHOOSE ret \in req.DefaultRetention : TRUE),
                  !.repl = IF req.ReplicationConfiguration = Nil THEN @
                           ELSE req.ReplicationConfiguration]

=============================================================================
