------------------------------ MODULE MCAudit ------------------------------
(* Three buckets and two permits, so that one bucket has to wait: one that *)
(* is fully blocked, one that is open, and one whose owner goes once from  *)
(* any to any other of a family of configurations.  Other callers send     *)
(* every envelope around a few payloads, and a family of payloads in a     *)
(* good envelope: of duration, timestamp and provider at most one is odd.  *)
(* They correct a payload by one of those in which none is.                *)
EXTENDS Audit

CONSTANTS b1, b2, b3

MCBuckets == {b1, b2, b3}

Everyone == [effect |-> "Allow", everyone |-> TRUE, restricted |-> FALSE]
Pinned == [effect |-> "Allow", everyone |-> TRUE, restricted |-> TRUE]
Anyone == [grantee |-> "AllUsers", permission |-> "READ"]
Owner == [grantee |-> "account", permission |-> "FULL_CONTROL"]

Config(configured, block, statements, grants) ==
    [configured |-> configured, block |-> block, policy |-> statements,
     acl |-> grants]

MCFamily ==
    [b \in MCBuckets |->
        CASE b = b1 ->
                 {Config(FALSE, {}, {Pinned}, {Owner}),
                  Config(TRUE, Settings \ {"BlockPublicAcls"},
                         {Everyone}, {Anyone}),
                  Config(TRUE, {"BlockPublicAcls", "BlockPublicPolicy"},
                         {Everyone}, {Anyone}),
                  Config(TRUE, {"IgnorePublicAcls", "RestrictPublicBuckets"},
                         {Everyone}, {Anyone}),
                  Config(TRUE, Settings \ {"RestrictPublicBuckets"},
                         {Everyone}, {Anyone}),
                  Config(TRUE, Settings \ {"IgnorePublicAcls"},
                         {Everyone}, {Anyone}),
                  Config(TRUE, Settings, {Everyone}, {Anyone})}
          [] b = b2 -> {Config(TRUE, Settings, {}, {Owner})}
          [] b = b3 -> {Config(TRUE, {"IgnorePublicAcls"}, {}, {Owner})}]

MCEnvelopes ==
    [lambda : BOOLEAN, allowed : BOOLEAN, configured : BOOLEAN, bearer : BOOLEAN,
     declared : BOOLEAN, large : BOOLEAN, json : {"valid", "invalid", "deep"},
     longKey : BOOLEAN, fits : BOOLEAN]

Good == [BucketName |-> "name", Severity |-> "HIGH"]
MCFindings ==
    {Good, NotObject,
     [bucketName |-> "padded", severity |-> "critical", riskFactors |-> "list",
      creationDate |-> "date"],
     [bucketName |-> "null", BucketName |-> "name", severity |-> "LOW"],
     [bucketName |-> "blank", severity |-> "unknown"],
     [BucketName |-> "long", Severity |-> "HIGH", RiskFactors |-> "other",
      CreationDate |-> "other"],
     [BucketName |-> "long", Severity |-> "HIGH", RiskFactors |-> "many"]}
MCSeconds ==
    MCFindings \ {Good, NotObject}
MCLists ==
    {<<>>, <<Good, Good>>, <<Good, Good, Good>>}
        \cup {<<f>> : f \in MCFindings} \cup {<<Good, f>> : f \in MCSeconds}
        \cup {<<NotObject, f>> : f \in {NotObject, Good}}

Plain == [duration |-> "seconds", timestamp |-> "iso", provider |-> "gcp"]
MCRest ==
    {Plain} \cup {[Plain EXCEPT !.duration = d] :
                     d \in {"null", "negative", "infinite", "huge", "extreme", "other"}}
            \cup {[Plain EXCEPT !.timestamp = t] : t \in {"null", "other"}}
            \cup {[Plain EXCEPT !.provider = p] : p \in {"null", "AWS", "other"}}

MCLike(lists, flags, totals, rests) ==
    {[buckets |-> list, flag |-> flag, total |-> total, duration |-> rest.duration,
      timestamp |-> rest.timestamp, provider |-> rest.provider] :
        list \in lists, flag \in flags, total \in totals, rest \in rests}

MCBucketLists == {<<"null">>, <<"other">>} \cup {<<"list", l>> : l \in MCLists}
MCTotals == {<<"null">>, <<"other">>} \cup {<<"int", n>> : n \in {-1, 1, 2, 4}}
MCPayloads ==
    {NotObject}
        \cup MCLike(MCBucketLists, {"null", "true", "false", "other"}, MCTotals, {Plain})
        \cup MCLike({<<"null">>, <<"other">>, <<"list", <<Good>>>>,
                     <<"list", <<NotObject, Good>>>>},
                    {"null", "false"}, {<<"null">>}, MCRest)
MCCorrections ==
    MCLike(MCBucketLists, {"null", "true", "false"},
           MCTotals \ {<<"int", -1>>, <<"int", 4>>}, {Plain})
MCFewPayloads ==
    MCLike({<<"null">>, <<"list", <<Good>>>>}, {"true"}, {<<"null">>},
           {[Plain EXCEPT !.duration = d] : d \in {"seconds", "huge", "extreme"}})

MCRequests ==
    {[envelope |-> e, payload |-> p] : e \in MCEnvelopes, p \in MCFewPayloads}
        \cup {[envelope |-> FromCli, payload |-> p] : p \in MCPayloads}
=============================================================================
