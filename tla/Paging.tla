------------------------------- MODULE Paging -------------------------------
(***************************************************************************)
(* Reading the audits page by page, newest first (src/reporter/app.py:     *)
(* query_audit_page, encode_cursor, decode_cursor, list_audits), while     *)
(* audits are stored and the byTimestamp index catches up or is created.   *)
(* An audit is named by its timestamp.                                     *)
(***************************************************************************)
EXTENDS Integers, Sequences, FiniteSets

CONSTANTS
    MaxTime,     \* timestamps are 1..MaxTime
    KeyBytes,    \* KeyBytes[t]: length of the JSON of t's index key
    Limits,      \* values of ?limit= readers ask for
    MaxLimit     \* the largest page list_audits serves

ASSUME PagingAssumption ==
    /\ MaxTime \in Nat
    /\ KeyBytes \in [1..MaxTime -> Nat]
    /\ Limits \subseteq Int
    /\ MaxLimit \in Nat \ {0}

VARIABLES
    stored,    \* audits in the table
    index,     \* the byTimestamp index is there
    listed,    \* audits it lists
    walk,      \* where a reader is that wants all pages
    cursor,    \* the cursor of its next page: <<>>, or <<key, characters>>
    page,      \* the page it got last
    got,       \* what the pages before it had
    due,       \* audits the index listed when it began
    whole      \* the index was there when it began

storeVars == <<stored, index, listed>>
walkVars == <<walk, cursor, page, got, due, whole>>
pagingVars == <<storeVars, walkVars>>

Audits == 1..MaxTime

PagingInit ==
    /\ stored \in SUBSET Audits
    /\ index \in BOOLEAN
    /\ listed = IF index THEN stored ELSE {}
    /\ walk \in {"idle", "off"}
    /\ cursor = <<>>
    /\ page = {}
    /\ got = {}
    /\ due = {}
    /\ whole = FALSE

(* ingest_findings puts an audit; timestamps are taken before the put, so  *)
(* an older one may come later.  The index follows.                        *)
Put(t) ==
    /\ stored' = stored \cup {t}
    /\ UNCHANGED <<index, listed>>

List(t) ==
    /\ index /\ t \in stored
    /\ listed' = listed \cup {t}
    /\ UNCHANGED <<stored, index>>

CreateIndex ==
    /\ ~index
    /\ index' = TRUE
    /\ listed' = stored
    /\ UNCHANGED stored

(* encode_cursor: base64 makes four characters of three bytes, and the     *)
(* padding is stripped.                                                    *)
PaddingOf(bytes) == (3 - (bytes % 3)) % 3
CharactersOf(bytes) == 4 * ((bytes + 2) \div 3) - PaddingOf(bytes)
EncodeCursor(t) == <<t, CharactersOf(KeyBytes[t])>>

(* decode_cursor: the padding is worked out from the length alone; base64  *)
(* ignores what is too much, and raises when some is missing.              *)
(* Mutant: the cursor is decoded as it comes.                              *)
AsItComes(characters) == 0
Padding(characters) == (0 - characters) % 4
Decodes(c) == Padding(c[2]) >= PaddingOf(KeyBytes[c[1]])

(* list_audits: max(1, min(limit, 100)).                                   *)
Limit(asked) ==
    IF asked < 1 THEN 1 ELSE IF asked < MaxLimit THEN asked ELSE MaxLimit

Newest(S, n) == {t \in S : Cardinality({u \in S : u > t}) < n}
Oldest(S) == CHOOSE t \in S : \A u \in S : t <= u

(* Mutant: the page starts at the key the last one ended with.             *)
From(key) == {t \in listed : t <= key}
(* What ExclusiveStartKey leaves of the index.                             *)
After(key) == {t \in listed : t < key}
Remaining == IF cursor = <<>> THEN listed ELSE After(cursor[1])

(* Mutant: a page that is not full is taken for the last one.              *)
WhenFull(items, limit) ==
    IF Cardinality(items) = limit THEN EncodeCursor(Oldest(items)) ELSE <<>>
(* LastEvaluatedKey: the query stopped at the limit, or at 1 MB.  There is *)
(* none after a scan.                                                      *)
NextCursor(items, limit) ==
    IF index /\ items # {} /\ (Cardinality(items) = limit \/ items # Remaining)
    THEN EncodeCursor(Oldest(items)) ELSE <<>>

(* query_audit_page: what is left in the index, up to the limit, or,       *)
(* without an index, the newest audits a scan finds.                       *)
QueryAuditPage(limit, items) ==
    IF index
    THEN \E n \in 1..limit :
             /\ items = Newest(Remaining, n)
             /\ Remaining # {} => Cardinality(items) = n
    ELSE items = Newest(stored, limit)

BeginWalk ==
    /\ walk = "idle"
    /\ walk' = "walking"
    /\ due' = listed
    /\ whole' = index
    /\ UNCHANGED <<storeVars, cursor, page, got>>

(* GET /api/audits, or GET / with a cursor.  A storage error is a 500, and *)
(* the reader asks again.                                                  *)
GetPage ==
    /\ walk = "walking"
    /\ cursor # <<>> => Decodes(cursor)
    /\ \E asked \in Limits, items \in SUBSET stored :
           /\ QueryAuditPage(Limit(asked), items)
           /\ page' = items
           /\ cursor' = NextCursor(items, Limit(asked))
    /\ walk' = IF cursor' = <<>> THEN "done" ELSE "walking"
    /\ got' = got \cup page
    /\ UNCHANGED <<storeVars, due, whole>>

(* The cursor is not one decode_cursor takes: 400.                         *)
BadCursor ==
    /\ walk = "walking"
    /\ cursor # <<>> /\ ~Decodes(cursor)
    /\ walk' = "rejected"
    /\ UNCHANGED <<storeVars, cursor, page, got, due, whole>>

WalkStep == BeginWalk \/ GetPage \/ BadCursor
-----------------------------------------------------------------------------
PagingTypeOK ==
    /\ stored \subseteq Audits
    /\ index \in BOOLEAN
    /\ listed \subseteq stored
    /\ walk \in {"off", "idle", "walking", "done", "rejected"}
    /\ cursor \in {<<>>} \cup {EncodeCursor(t) : t \in Audits}
    /\ page \subseteq stored
    /\ got \subseteq stored
    /\ due \subseteq listed
    /\ whole \in BOOLEAN

(* Every page is older than all that came before it: a reader meets no     *)
(* audit twice and none out of order, whatever is stored meanwhile, older  *)
(* audits included (query_audit_page's ExclusiveStartKey).                 *)
WalkIsOrdered == \A t \in page, u \in got : t < u

(* A reader who goes on as long as there is a cursor gets every audit the  *)
(* index listed when it began, and no cursor of ours is refused.  Without  *)
(* the index there are no further pages.                                   *)
WalkIsComplete ==
    /\ walk # "rejected"
    /\ walk = "done" /\ whole => due \subseteq got \cup page

=============================================================================
