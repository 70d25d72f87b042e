------------------------------ MODULE Exposure ------------------------------
(***************************************************************************)
(* How the auditor rates one bucket (src/auditor/Exposure.cs and           *)
(* ScanBucketAsync in Function.cs), from its Public Access Block, policy   *)
(* and ACL as read.  Pure operators: Scan applies them to what its reads   *)
(* returned.                                                               *)
(***************************************************************************)
EXTENDS Integers, FiniteSets

Settings == {"BlockPublicAcls", "IgnorePublicAcls", "BlockPublicPolicy",
             "RestrictPublicBuckets"}

(* A statement: its effect, whether its principal is everyone, and whether *)
(* a condition on one of the RestrictingConditionKeys pins it down.        *)
Statements == [effect : {"Allow", "Deny"}, everyone : BOOLEAN, restricted : BOOLEAN]

Permissions == {"READ", "READ_ACP", "WRITE", "WRITE_ACP", "FULL_CONTROL"}
Grants == [grantee : {"AllUsers", "AuthenticatedUsers", "account"},
           permission : Permissions]

(* block is the set of settings that are on; without a Public Access Block *)
(* none is.                                                                *)
Configurations ==
    {c \in [configured : BOOLEAN, block : SUBSET Settings,
            policy : SUBSET Statements, acl : SUBSET Grants] :
        ~c.configured => c.block = {}}

(* Mutant: the two settings that stop new public access are taken for all. *)
IsBlockedForNew(c) ==
    c.configured /\ {"BlockPublicAcls", "BlockPublicPolicy"} \subseteq c.block
IsFullyBlocked(c) == c.configured /\ c.block = Settings

IsPublicPolicy(policy) ==
    \E s \in policy : s.effect = "Allow" /\ s.everyone /\ ~s.restricted

PublicGrants(acl) == {g \in acl : g.grantee # "account"}
PublicAclRead(acl) ==
    \E g \in PublicGrants(acl) :
        g.permission \in {"READ", "READ_ACP", "FULL_CONTROL"}
PublicAclWrite(acl) ==
    \E g \in PublicGrants(acl) :
        g.permission \in {"WRITE", "WRITE_ACP", "FULL_CONTROL"}

PolicyFactors(c) ==
    IF "RestrictPublicBuckets" \notin c.block /\ IsPublicPolicy(c.policy)
    THEN {"PUBLIC_BUCKET_POLICY"} ELSE {}
AclFactors(c) ==
    IF "IgnorePublicAcls" \in c.block THEN {}
    ELSE {f \in {"PUBLIC_ACL_READ", "PUBLIC_ACL_WRITE"} :
             \/ f = "PUBLIC_ACL_READ" /\ PublicAclRead(c.acl)
             \/ f = "PUBLIC_ACL_WRITE" /\ PublicAclWrite(c.acl)}

(* Exposure.Evaluate: what makes the bucket public.                        *)
Evaluate(c) == PolicyFactors(c) \cup AclFactors(c)
IsPublic(c) == Evaluate(c) # {}

(* Mutant: the settings that are on are counted.                           *)
SeverityOfEnabled(c) ==
    LET enabled == Cardinality(c.block) IN IF enabled \in 2..4 THEN enabled ELSE 1

(* Severities as ranks: LOW 1, MEDIUM 2, HIGH 3, CRITICAL 4.               *)
CalculateSeverity(c) ==
    LET disabled == Cardinality(Settings \ c.block)
    IN  IF disabled \in 2..4 THEN disabled ELSE 1

(* Mutant: a public bucket is rated by its settings alone.                 *)
SeverityOfSettings(c) ==
    IF IsFullyBlocked(c) THEN 0 ELSE IF c.configured THEN CalculateSeverity(c) ELSE 4

(* ScanBucketAsync: 0 when no finding is reported.                         *)
Severity(c) ==
    IF IsFullyBlocked(c) THEN 0
    ELSE IF ~c.configured \/ IsPublic(c) THEN 4 ELSE CalculateSeverity(c)
-----------------------------------------------------------------------------
(* What S3 makes of a configuration: a public statement counts unless      *)
(* RestrictPublicBuckets is on, a grant to everyone unless                 *)
(* IgnorePublicAcls is.                                                    *)
ExposedByPolicy(c) ==
    /\ "RestrictPublicBuckets" \notin c.block
    /\ [effect |-> "Allow", everyone |-> TRUE, restricted |-> FALSE] \in c.policy
ExposedByAcl(c) ==
    /\ "IgnorePublicAcls" \notin c.block
    /\ \E g \in c.acl : g.grantee \in {"AllUsers", "AuthenticatedUsers"}

(* c is d with more settings on, fewer statements that allow, fewer grants. *)
Hardens(c, d) ==
    /\ d.configured => c.configured
    /\ d.block \subseteq c.block
    /\ {s \in c.policy : s.effect = "Allow"} \subseteq d.policy
    /\ c.acl \subseteq d.acl
=============================================================================
