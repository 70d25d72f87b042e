----------------------------- MODULE Admission -----------------------------
(***************************************************************************)
(* What stands between a POST /ingest and the stores: EnsureContentLength, *)
(* check_ingest_auth and the checks before ingest_findings stores anything *)
(* (src/reporter/app.py), and validate_audit (src/reporter/validation.py). *)
(*                                                                         *)
(* A payload is a record of its six fields, each a kind of JSON value;     *)
(* "null" is a field that is null or absent.  A finding is a function of   *)
(* the keys it has; a finding, or a whole body, that is no JSON object is  *)
(* NotObject.                                                              *)
(***************************************************************************)
EXTENDS Integers, Sequences, FiniteSets

CONSTANTS
    Requests,        \* the requests callers make
    Corrections,     \* the payloads they may send in place of a refused one
    MaxFindings,     \* MAX_FINDINGS
    MaxResources,    \* MAX_RESOURCES_SCANNED
    MaxErrors        \* how many errors a 422 lists

VARIABLES
    request,    \* the request the reporter has been sent last
    answer      \* what it came to: "none" before there is one

requestVars == <<request, answer>>

Elements(s) == {s[i] : i \in DOMAIN s}

NotObject == [notObject |-> TRUE]
Fields == {"buckets", "flag", "total", "duration", "timestamp", "provider"}

(* The kinds of JSON value the fields of a payload are told apart by;      *)
(* buckets is <<"list", findings>>, <<"null">> or <<"other">>, total is    *)
(* <<"int", n>>, <<"null">> or <<"other">>.                                *)
IsPayload(p) ==
    \/ p = NotObject
    \/ /\ DOMAIN p = Fields
       /\ \/ p.buckets \in {<<"null">>, <<"other">>}
          \/ /\ p.buckets = <<"list", p.buckets[2]>>
             /\ p.buckets[2] \in Seq(Elements(p.buckets[2]))
       /\ p.flag \in {"null", "true", "false", "other"}
       /\ p.total \in {<<"null">>, <<"other">>} \cup ({"int"} \X Int)
       /\ p.provider \in {"null", "AWS", "aws", "azure", "gcp", "other"}

ASSUME AdmissionAssumption ==
    /\ MaxFindings \in Nat /\ MaxResources \in Nat /\ MaxErrors \in Nat \ {0}
    /\ MaxFindings <= MaxResources
    /\ \A r \in Requests :
           DOMAIN r = {"envelope", "payload"} /\ IsPayload(r.payload)
    /\ \A p \in Corrections : IsPayload(p)

Severities == {"CRITICAL", "HIGH", "MEDIUM", "LOW"}

(* _pick: camelCase first, and a null there is an answer.                  *)
Pick(raw, camel, pascal) ==
    IF camel \in DOMAIN raw THEN raw[camel]
    ELSE IF pascal \in DOMAIN raw THEN raw[pascal] ELSE "null"

Name(raw) == Pick(raw, "bucketName", "BucketName")
SeverityOf(raw) == Pick(raw, "severity", "Severity")
RiskFactors(raw) == Pick(raw, "riskFactors", "RiskFactors")
Created(raw) == Pick(raw, "creationDate", "CreationDate")

(* Of names, "padded" has blanks around it and "long" is over the limit;   *)
(* "critical" is a severity in lower case; of risk factors, "list" is good *)
(* and "many" is a list that is good but for its length.                   *)
Strip(name) == IF name = "padded" THEN "name" ELSE name
Upper(severity) == IF severity = "critical" THEN "CRITICAL" ELSE severity

(* The errors a finding gets: the length of a name or of the risk factors  *)
(* is looked at only once the rest of them is right.                       *)
BucketProblems(raw) ==
    IF raw = NotObject THEN {"object"}
    ELSE {check \in {"bucketName", "longName", "severity", "riskFactors",
                     "manyFactors", "creationDate"} :
            CASE check = "bucketName" ->
                     Name(raw) # "long" /\ Strip(Name(raw)) # "name"
              [] check = "longName" -> Name(raw) = "long"
              [] check = "severity" -> Upper(SeverityOf(raw)) \notin Severities
              [] check = "riskFactors" ->
                     RiskFactors(raw) \notin {"null", "list", "many"}
              [] check = "manyFactors" -> RiskFactors(raw) = "many"
              [] check = "creationDate" -> Created(raw) \notin {"null", "date"}}

Bucket(raw) ==
    [key \in {"BucketName", "Severity", "RiskFactors"}
                 \cup (IF Created(raw) = "date" THEN {"CreationDate"} ELSE {}) |->
        CASE key = "BucketName" -> Strip(Name(raw))
          [] key = "Severity" -> Upper(SeverityOf(raw))
          [] key = "RiskFactors" -> "list"
          [] key = "CreationDate" -> "date"]

IsList(p) == p.buckets[1] # "other"
Findings(p) == IF p.buckets[1] = "list" THEN p.buckets[2] ELSE <<>>
TooMany(p) == Len(Findings(p)) > MaxFindings
Judged(p) == IF TooMany(p) THEN <<>> ELSE Findings(p)

(* The flag contradicts the findings, looked at once it is a Boolean.      *)
Mismatch(p) ==
    /\ p.flag \in {"true", "false"} /\ IsList(p)
    /\ (p.flag = "true") # (Findings(p) # <<>>)

Total(p) == IF p.total[1] = "null" THEN Len(Judged(p)) ELSE p.total[2]

OutOfRange(p) == p.total[1] = "other" \/ Total(p) \notin 0..MaxResources

(* Mutants: the total is not compared with the findings; it is compared    *)
(* only if the flag is right.                                              *)
NeverTooSmall(p) == FALSE
TooSmallUnlessMismatch(p) ==
    ~OutOfRange(p) /\ ~Mismatch(p) /\ IsList(p) /\ Total(p) < Len(Findings(p))
(* The total is less than the findings, looked at once it is in range.     *)
TooSmall(p) == ~OutOfRange(p) /\ IsList(p) /\ Total(p) < Len(Findings(p))

PayloadProblems(p) ==
    {check \in {"buckets", "manyBuckets", "flag", "mismatch", "total", "tooSmall",
                "duration", "timestamp", "provider"} :
        CASE check = "buckets" -> ~IsList(p)
          [] check = "manyBuckets" -> TooMany(p)
          [] check = "flag" -> p.flag = "other"
          [] check = "mismatch" -> Mismatch(p)
          [] check = "total" -> OutOfRange(p)
          [] check = "tooSmall" -> TooSmall(p)
          [] check = "duration" -> p.duration \in {"negative", "infinite", "other"}
          [] check = "timestamp" -> p.timestamp = "other"
          [] check = "provider" -> p.provider = "other"}

(* The errors of validate_audit, as <<finding or 0, what was checked>>.    *)
Problems(p) ==
    IF p = NotObject THEN {<<0, "body">>}
    ELSE (UNION {{i} \X BucketProblems(Judged(p)[i]) : i \in 1..Len(Judged(p))})
             \cup ({0} \X PayloadProblems(p))

(* They are found in this order, and the 422 has the first MaxErrors.      *)
CheckOrder ==
    <<"object", "bucketName", "longName", "severity", "riskFactors", "manyFactors",
      "creationDate", "body", "buckets", "manyBuckets", "flag", "mismatch", "total",
      "tooSmall", "duration", "timestamp", "provider">>
Place ==
    [check \in Elements(CheckOrder) |->
        CHOOSE k \in DOMAIN CheckOrder : CheckOrder[k] = check]
Earlier(y, z) ==
    \/ y[1] # 0 /\ (z[1] = 0 \/ y[1] < z[1])
    \/ y[1] = z[1] /\ Place[y[2]] < Place[z[2]]
Listed(p) ==
    {z \in Problems(p) :
        Cardinality({y \in Problems(p) : Earlier(y, z)}) < MaxErrors}

(* math.isfinite raises OverflowError for an integer no float can hold.    *)
Raises(p) == p # NotObject /\ p.duration = "huge"

(* The audit validate_audit returns, as a payload with the keys it has.    *)
Normalised(p) ==
    [buckets |-> <<"list", [i \in 1..Len(Judged(p)) |-> Bucket(Judged(p)[i])]>>,
     flag |-> IF Judged(p) = <<>> THEN "false" ELSE "true",
     total |-> <<"int", Total(p)>>,
     duration |-> p.duration,
     timestamp |-> p.timestamp,
     provider |-> IF p.provider \in {"null", "AWS"} THEN "aws" ELSE p.provider]

(***************************************************************************)
(* The request around the payload, e: lambda (the Lambda serves it),       *)
(* allowed (ALLOW_UNAUTHENTICATED_INGEST), configured (INGEST_API_KEY),    *)
(* bearer (it presents that key), declared (it has a Content-Length),      *)
(* large, json ("valid", "invalid" or "deep": nested deeper than           *)
(* json.loads goes), longKey (its Idempotency-Key), fits (the item it      *)
(* makes has at most 400 KB, and text that UTF-8 can encode).              *)
(***************************************************************************)
Denied(e) ==
    IF e.configured THEN IF e.bearer THEN "none" ELSE "unauthorized"
    ELSE IF e.lambda \/ e.allowed THEN "none" ELSE "auth_not_configured"

(* Mutant: the event goes on as it came.                                   *)
PassOn(e) == e
(* In the Lambda the shim derives the header an event lacks.               *)
EnsureContentLength(e) == [e EXCEPT !.declared = @ \/ e.lambda]

(* What json.loads makes of the body.  WsgiToAsgi shows Flask no body      *)
(* without a Content-Length; gunicorn does.                                *)
Parsed(e) == IF e.declared \/ ~e.lambda THEN e.json ELSE "invalid"

Validated(p) ==
    IF Raises(p) THEN "raised" ELSE IF Problems(p) # {} THEN "invalid" ELSE "valid"

(* put_item raises for what DynamoDB cannot hold: a number whose exponent  *)
(* is out of its range, an item too large, or text that is not Unicode.    *)
Unstorable(e, p) == p.duration = "extreme" \/ ~e.fits

(* ingest_findings up to the put.  "raised" is an unhandled exception and  *)
(* "error" the handler's own answer, both with status 500: RecursionError  *)
(* is no ValueError, and OverflowError no ValidationError.                 *)
Verdict(e, p) ==
    CASE Denied(e) # "none" -> Denied(e)
      [] Denied(e) = "none" /\ e.large -> "too_large"
      [] OTHER ->
             LET parsed == Parsed(EnsureContentLength(e)) IN
             IF parsed = "deep" THEN "raised"
             ELSE IF parsed = "invalid" THEN "malformed"
             ELSE IF Validated(p) # "valid" THEN Validated(p)
             ELSE IF e.longKey THEN "long_key"
             ELSE IF Unstorable(e, p) THEN "error" ELSE "stored"

Submit(r) ==
    /\ request' = r
    /\ answer' = Verdict(r.envelope, r.payload)

Post(r) == answer = "none" /\ Submit(r)
-----------------------------------------------------------------------------
(* One check leads to another one when the second is made only once the    *)
(* first is passed, or looks at what had to change to pass it.             *)
LeadsTo(y, z) ==
    \/ y[2] = "body" /\ z[2] # "body"
    \/ y[2] = "buckets" /\ z[2] = "manyBuckets"
    \/ /\ y[2] \in {"buckets", "manyBuckets"}
       /\ z[1] # 0 \/ z[2] \in {"mismatch", "tooSmall"}
    \/ /\ y[1] = z[1]
       /\ \/ y[2] = "object" /\ z[2] # "object"
          \/ <<y[2], z[2]>> \in {<<"bucketName", "longName">>,
                                <<"riskFactors", "manyFactors">>,
                                <<"flag", "mismatch">>, <<"total", "tooSmall">>}

(* The part of a finding, or of a payload, that a check is about.          *)
PartOf(check) ==
    CASE check = "longName" -> "bucketName"
      [] check = "manyFactors" -> "riskFactors"
      [] check = "manyBuckets" -> "buckets"
      [] check = "mismatch" -> "flag"
      [] check = "tooSmall" -> "total"
      [] OTHER -> check

SameBut(old, new, parts) ==
    /\ new # NotObject
    /\ old = NotObject => "object" \in parts
    /\ "object" \notin parts =>
           /\ "bucketName" \in parts \/ Name(new) = Name(old)
           /\ "severity" \in parts \/ SeverityOf(new) = SeverityOf(old)
           /\ "riskFactors" \in parts \/ RiskFactors(new) = RiskFactors(old)
           /\ "creationDate" \in parts \/ Created(new) = Created(old)

(* Payload p with what a 422 listed corrected, each part so that it passes *)
(* the check it had failed and those before it, and nothing else touched.  *)
CorrectionsOf(p) ==
    LET listed == Listed(p)
        parts == [i \in 0..MaxFindings |->
                     {PartOf(y[2]) : y \in {y \in listed : y[1] = i}}]
        kept == (Fields \ {"buckets"}) \ parts[0]
        Keeps(q) ==
            /\ q # NotObject
            /\ \A field \in kept : q[field] = p[field]
            /\ "buckets" \notin parts[0] =>
                   /\ q.buckets[1] = p.buckets[1]
                   /\ Len(Findings(q)) = Len(Findings(p))
                   /\ \A i \in 1..Len(Judged(p)) :
                          LET old == Findings(p)[i]
                              new == Findings(q)[i]
                          IN  new = old \/ SameBut(old, new, parts[i])
    IN  {q \in Corrections :
            /\ p # NotObject => Keeps(q)
            /\ \A y \in listed, z \in Problems(q) : y # z /\ ~LeadsTo(z, y)}

(* A caller that was refused sends the same request corrected.             *)
Correct ==
    /\ answer = "invalid"
    /\ \E q \in CorrectionsOf(request.payload) :
           Submit([request EXCEPT !.payload = q])

(* validation.py: "every problem is reported at once so a caller can fix a *)
(* payload".  A caller refused again after correcting what was listed      *)
(* either was not told for want of room (app.py:536), or failed a check    *)
(* that a listed one leads to: nothing else can hide a problem.            *)
NothingElseHides ==
    [][answer = "invalid" /\ answer' = "invalid" =>
        LET listed == Listed(request.payload)
        IN  \A z \in Problems(request'.payload) :
                \/ z \in Problems(request.payload) \ listed
                \/ \E y \in listed : LeadsTo(y, z)]_requestVars

(* "Alerting keys off this flag": a stored audit says it found something   *)
(* exactly when it has findings, as its sender did; each finding has a     *)
(* trimmed name and a known severity, and no more of them than resources   *)
(* were scanned.  Only a caller that may write gets that far.              *)
StoredIsSound ==
    answer = "stored" =>
        LET p == request.payload
            audit == Normalised(p)
            found == audit.buckets[2]
        IN  /\ (audit.flag = "true") = (found # <<>>)
            /\ p.flag \in {"null", audit.flag}
            /\ Len(found) = Len(Findings(p))
            /\ Len(found) <= audit.total[2] /\ audit.total[2] <= MaxResources
            /\ \A i \in DOMAIN found :
                   /\ found[i]["BucketName"] = "name"
                   /\ found[i]["Severity"] \in Severities
            /\ audit.provider \in {"aws", "azure", "gcp"}
            /\ request.envelope.bearer \/ ~request.envelope.configured
=============================================================================
