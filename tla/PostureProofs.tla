--------------------------- MODULE PostureProofs ---------------------------
(***************************************************************************)
(* Cursors and pages (module Paging) and the posture gauge (module         *)
(* Posture), for any number of audits, keys of any length, any limits,     *)
(* providers and workers.  A cursor survives decoding by arithmetic alone. *)
(* The walk needs an invariant that ties the cursor to the pages served:   *)
(* what the index held when the walk began is either older than the cursor *)
(* or has been served (WalkInv).  The gauge needs one that says what may   *)
(* be under way while it is right (LInv): who is alone has nobody of this  *)
(* container beside it and has set what it has not still to set, and a     *)
(* provider nothing has interfered with shows its newest audit, unless its *)
(* cells are being written.  Puts by others may come in between, because   *)
(* the gauge owes nothing about what it has not been shown.                *)
(***************************************************************************)
EXTENDS Posture, FiniteSetTheorems, WellFoundedInduction, TLAPS

USE DEF Audits, storeVars, walkVars, pagingVars, postureVars

(* encode_cursor and decode_cursor: the padding worked out from the number *)
(* of characters is the padding that was stripped, whatever the length.    *)
LEMMA PaddingFits ==
    ASSUME NEW bytes \in Nat
    PROVE  Padding(CharactersOf(bytes)) = PaddingOf(bytes)
<1> DEFINE q == bytes \div 3
           r == bytes % 3
<1>1. bytes = 3 * q + r /\ r \in 0..2 /\ q \in Nat
  OBVIOUS
<1>2. CASE r = 0
  <2>1. PaddingOf(bytes) = 0 /\ CharactersOf(bytes) = 4 * q
    BY <1>1, <1>2 DEF PaddingOf, CharactersOf
  <2>2. QED
    BY <1>1, <2>1 DEF Padding
<1>3. CASE r = 1
  <2>1. PaddingOf(bytes) = 2 /\ CharactersOf(bytes) = 4 * q + 2
    BY <1>1, <1>3 DEF PaddingOf, CharactersOf
  <2>2. QED
    BY <1>1, <2>1 DEF Padding
<1>4. CASE r = 2
  <2>1. PaddingOf(bytes) = 1 /\ CharactersOf(bytes) = 4 * q + 3
    BY <1>1, <1>4 DEF PaddingOf, CharactersOf
  <2>2. QED
    BY <1>1, <2>1 DEF Padding
<1>5. QED
  BY <1>1, <1>2, <1>3, <1>4

(* So a cursor the service has handed out is one it takes back.            *)
LEMMA OwnCursorsDecode ==
    ASSUME NEW t \in Audits
    PROVE  Decodes(EncodeCursor(t))
<1>1. KeyBytes[t] \in Nat
  BY PagingAssumption
<1>2. Padding(CharactersOf(KeyBytes[t])) = PaddingOf(KeyBytes[t]) /\ PaddingOf(KeyBytes[t]) \in Nat
  BY <1>1, PaddingFits DEF PaddingOf
<1>3. QED
  BY <1>2 DEF Decodes, EncodeCursor

(* A page that has an item has an oldest one.                              *)
LEMMA OldestExists ==
    ASSUME NEW S \in SUBSET Nat, S # {}
    PROVE  Oldest(S) \in S /\ \A u \in S : Oldest(S) <= u
<1>1. \E t \in S : \A u \in S : <<u, t>> \notin OpToRel(<, Nat)
  BY NatLessThanWellFounded, WFMin
<1>2. \A t, u \in S : <<u, t>> \notin OpToRel(<, Nat) => t <= u
  <2> SUFFICES ASSUME NEW t \in S, NEW u \in S, ~(t <= u)
               PROVE  <<u, t>> \in OpToRel(<, Nat)
    OBVIOUS
  <2>1. u < t /\ <<u, t>> \in Nat \X Nat
    OBVIOUS
  <2>2. QED
    BY <2>1 DEF OpToRel
<1>3. QED
  BY <1>1, <1>2 DEF Oldest

(* Times are finitely many, so pages are finite and can be counted.        *)
LEMMA FiniteTimes ==
    ASSUME NEW S \in SUBSET Audits
    PROVE  IsFiniteSet(S) /\ Cardinality(S) \in Nat
<1>1. IsFiniteSet(Audits)
  BY FS_Interval, PagingAssumption
<1>2. QED
  BY <1>1, FS_Subset, FS_CardinalityType

(* The newest of a set leave out nothing newer than what they have.        *)
LEMMA NewestIsUpward ==
    ASSUME NEW S \in SUBSET Audits, NEW n \in Nat,
           NEW t \in Newest(S, n), NEW u \in S, t <= u
    PROVE  u \in Newest(S, n)
<1>1. {v \in S : v > u} \in SUBSET {v \in S : v > t}
  <2>1. t \in Int /\ u \in Int
    BY DEF Newest
  <2>2. \A v \in S : v \in Int /\ (v > u => v > t)
    BY <2>1
  <2>3. QED
    BY <2>2
<1>2. IsFiniteSet({v \in S : v > t})
  BY FiniteTimes
<1>3. /\ Cardinality({v \in S : v > u}) <= Cardinality({v \in S : v > t})
      /\ Cardinality({v \in S : v > u}) \in Nat
      /\ Cardinality({v \in S : v > t}) \in Nat
  BY <1>1, <1>2, FS_Subset, FiniteTimes
<1>4. QED
  BY <1>3 DEF Newest

(* list_audits never asks for an empty page.                               *)
LEMMA LimitIsPositive ==
    ASSUME NEW asked \in Limits
    PROVE  Limit(asked) \in 1..MaxLimit
  BY PagingAssumption DEF Limit
-----------------------------------------------------------------------------
(* A step of the store under a reader: audits and the index only grow.     *)
StoreGrows ==
    /\ stored \subseteq stored' /\ stored' \subseteq Audits
    /\ listed \subseteq listed' /\ listed' \subseteq stored'
    /\ index => index'
    /\ index' \in BOOLEAN

(* Where a walk is.  Before its first page it has no cursor; afterwards it *)
(* has one, the oldest key of the page it got last, until it is done.      *)
WalkInv ==
    /\ walk \in {"off", "idle"} => cursor = <<>> /\ page = {} /\ got = {}
    /\ walk = "walking" /\ cursor = <<>> => page = {} /\ got = {}
    /\ cursor # <<>> => /\ index
                        /\ \E t \in page : /\ cursor = EncodeCursor(t)
                                           /\ \A u \in page : t <= u
    /\ whole => index

(* What the index held at the start is still to come or has been served.   *)
Served ==
    whole /\ walk \in {"walking", "done"} =>
        due \subseteq got \cup page \cup (IF walk = "done" THEN {} ELSE Remaining)

PInv == PagingTypeOK /\ WalkInv /\ WalkIsOrdered /\ Served /\ walk # "rejected"

(* The invariant of the walk holds at the start.                           *)
LEMMA InitPInv == PagingInit => PInv
<1> SUFFICES ASSUME PagingInit PROVE PInv
  OBVIOUS
<1>1. PagingTypeOK /\ WalkInv /\ walk # "rejected"
  BY DEF PagingInit, PagingTypeOK, WalkInv
<1>2. WalkIsOrdered /\ Served
  BY DEF PagingInit, WalkIsOrdered, Served
<1>3. QED
  BY <1>1, <1>2 DEF PInv

(* What ExclusiveStartKey leaves, and what comes before a first page.      *)
LEMMA RemainingTypes ==
    ASSUME PagingTypeOK
    PROVE  Remaining \in SUBSET listed /\ Remaining \in SUBSET Audits
  BY DEF PagingTypeOK, Remaining, After

(* A store that grows takes nothing from a walk.                           *)
LEMMA StoreKeepsWalk ==
    ASSUME PInv, StoreGrows, UNCHANGED walkVars
    PROVE  PInv'
<1> USE DEF PInv, StoreGrows
<1>1. PagingTypeOK'
  BY DEF PagingTypeOK
<1>2. WalkInv' /\ WalkIsOrdered'
  BY DEF WalkInv, WalkIsOrdered, EncodeCursor
<1>3. Remaining \subseteq Remaining'
  BY DEF Remaining, After
<1>4. Served'
  BY <1>3 DEF Served
<1>5. QED
  BY <1>1, <1>2, <1>4

(* A page is made of what remains, or, without the index, of what there is.*)
LEMMA PageIsRemaining ==
    ASSUME PInv, walk = "walking", NEW limit \in Nat, NEW items \in SUBSET stored,
           QueryAuditPage(limit, items)
    PROVE  /\ index => items \in SUBSET Remaining
           /\ ~index => cursor = <<>>
  BY DEF PInv, WalkInv, QueryAuditPage, Newest

(* The page of a query starts below the cursor, and so below all that was  *)
(* served before.                                                          *)
LEMMA PageIsOlder ==
    ASSUME PInv, walk = "walking", NEW items \in SUBSET stored,
           index => items \in SUBSET Remaining, ~index => cursor = <<>>
    PROVE  \A t \in items, u \in got \cup page : t < u
<1> USE DEF PInv
<1>1. CASE cursor = <<>>
  BY <1>1 DEF WalkInv
<1>2. CASE cursor # <<>>
  <2>1. PICK key \in page : cursor = EncodeCursor(key) /\ \A u \in page : key <= u
    BY <1>2 DEF WalkInv
  <2>2. cursor[1] = key
    BY <2>1 DEF EncodeCursor
  <2>3. items \subseteq {t \in listed : t < key}
    BY <1>2, <2>2 DEF WalkInv, Remaining, After
  <2>4. \A u \in got : key < u
    BY <2>1 DEF WalkIsOrdered
  <2>5. stored \subseteq Int /\ key \in Int /\ page \subseteq Int /\ got \subseteq Int
    BY <2>1 DEF PagingTypeOK
  <2>6. QED
    BY <2>1, <2>3, <2>4, <2>5
<1>3. QED
  BY <1>1, <1>2

(* Serving a page keeps the order, and leaves behind no audit that is due. *)
LEMMA GetPageKeepsWalk ==
    ASSUME PInv, GetPage
    PROVE  PInv'
<1> USE DEF PInv
<1> PICK asked \in Limits, items \in SUBSET stored :
       /\ QueryAuditPage(Limit(asked), items)
       /\ page' = items
       /\ cursor' = NextCursor(items, Limit(asked))
  BY DEF GetPage
<1>1. /\ walk = "walking" /\ walk' = IF cursor' = <<>> THEN "done" ELSE "walking"
      /\ got' = got \cup page /\ UNCHANGED <<stored, index, listed, due, whole>>
  BY DEF GetPage
<1>2. /\ index => items \in SUBSET Remaining
      /\ ~index => cursor = <<>>
  BY <1>1, LimitIsPositive, PageIsRemaining
<1>3. items \in SUBSET Nat /\ Remaining \in SUBSET Audits
  BY RemainingTypes DEF PagingTypeOK
<1>4. cursor' # <<>> => /\ index /\ cursor' = EncodeCursor(Oldest(items))
                        /\ Oldest(items) \in items
                        /\ \A u \in items : Oldest(items) <= u
  BY <1>3, OldestExists DEF NextCursor
<1>5. PagingTypeOK'
  BY <1>1, <1>4 DEF PagingTypeOK
<1>6. WalkInv'
  BY <1>1, <1>4 DEF WalkInv, EncodeCursor
<1>7. WalkIsOrdered'
  BY <1>1, <1>2, PageIsOlder DEF WalkIsOrdered
<1>8. Served'
  <2> SUFFICES ASSUME whole
               PROVE  Remaining \subseteq
                          items \cup (IF walk' = "done" THEN {} ELSE Remaining')
    BY <1>1 DEF Served
  <2>1. index
    BY DEF WalkInv
  <2>2. PICK n \in 1..Limit(asked) :
           items = Newest(Remaining, n) /\ (Remaining # {} => Cardinality(items) = n)
    BY <2>1 DEF QueryAuditPage
  <2>3. n \in Nat \ {0} /\ Cardinality({}) = 0
    BY LimitIsPositive, FS_EmptySet
  <2>4. CASE cursor' = <<>>
    <3>1. items = {} \/ items = Remaining
      BY <2>1, <2>4 DEF NextCursor, EncodeCursor
    <3>2. items = {} => Remaining = {}
      BY <2>2, <2>3
    <3>3. QED
      BY <3>1, <3>2
  <2>5. CASE cursor' # <<>>
    <3>1. cursor'[1] = Oldest(items) /\ Remaining' = After(Oldest(items))
      BY <1>1, <1>4, <2>5 DEF EncodeCursor, Remaining, After
    <3>2. ASSUME NEW u \in Remaining, u \notin After(Oldest(items))
          PROVE  u \in items
      <4>1. u \in listed
        BY <3>2, RemainingTypes
      <4>2. u \in Nat /\ Oldest(items) \in Nat
        <5>1. u \in Nat
          BY <1>3, <3>2, PagingAssumption
        <5>2. Oldest(items) \in Nat
          BY <1>3, <1>4, <2>5
        <5>3. QED
          BY <5>1, <5>2
      <4>3. Oldest(items) <= u
        BY <3>2, <4>1, <4>2 DEF After
      <4>4. Oldest(items) \in Newest(Remaining, n) /\ n \in Nat
        BY <1>4, <2>2, <2>3, <2>5
      <4>5. u \in Newest(Remaining, n)
        BY <1>3, <3>2, <4>3, <4>4, NewestIsUpward
      <4>6. QED
        BY <2>2, <4>5
    <3>3. walk' = "walking"
      BY <1>1, <2>5
    <3>4. QED
      BY <3>1, <3>2, <3>3
  <2>6. QED
    BY <2>4, <2>5
<1>9. QED
  BY <1>1, <1>5, <1>6, <1>7, <1>8

(* Every step of a reader keeps the invariant of the walk.                 *)
LEMMA WalkKeepsPInv ==
    ASSUME PInv, WalkStep
    PROVE  PInv'
<1>1. CASE BeginWalk
  <2>1. /\ walk = "idle" /\ walk' = "walking" /\ due' = listed /\ whole' = index
        /\ UNCHANGED <<stored, index, listed, cursor, page, got>>
    BY <1>1 DEF BeginWalk
  <2>2. cursor = <<>> /\ page = {} /\ got = {}
    BY <2>1 DEF PInv, WalkInv
  <2>3. PagingTypeOK' /\ WalkInv' /\ WalkIsOrdered'
    BY <2>1, <2>2 DEF PInv, PagingTypeOK, WalkInv, WalkIsOrdered
  <2>4. Served'
    BY <2>1, <2>2 DEF Served, Remaining
  <2>5. QED
    BY <2>1, <2>3, <2>4 DEF PInv
<1>2. CASE GetPage
  BY <1>2, GetPageKeepsWalk
<1>3. CASE BadCursor
  <2>1. \E t \in Audits : cursor = EncodeCursor(t)
    BY <1>3 DEF BadCursor, PInv, PagingTypeOK
  <2>2. FALSE
    BY <1>3, <2>1, OwnCursorsDecode DEF BadCursor
  <2>3. QED
    BY <2>2
<1>4. QED
  BY <1>1, <1>2, <1>3 DEF WalkStep
-----------------------------------------------------------------------------
(* What is written to a cell comes from the table: a handler writes after  *)
(* its put, a restore writes what it has read.                             *)
GaugeInv ==
    /\ \A t \in Audits : /\ handler[t] = "metrics" => t \in stored
                         /\ handler[t] # "metrics" => unset[t] = {}
                         /\ unset[t] \subseteq CellsOf(t)
    /\ \A w \in Workers : \A job \in todo[w] :
           job[2] \in stored /\ job[1] \in CellsOf(job[2])
    /\ GaugeIsReal

IInv == PostureTypeOK /\ PInv /\ GaugeInv

(* Cells are pairs of a provider and a severity.                           *)
LEMMA CellsOfType ==
    ASSUME NEW t \in Audits
    PROVE  /\ CellsOf(t) \subseteq Cells /\ Provider[t] \in Providers
           /\ \A c \in CellsOf(t) : c[1] = Provider[t]
  BY PostureAssumption DEF CellsOf, Cells

(* The cells a restore has to write are those of stored audits.            *)
LEMMA JobsAreReal ==
    ASSUME NEW items \in SUBSET stored, stored \subseteq Audits,
           NEW job \in UNION {CellsOf(t) \X {t} : t \in Latest(items)}
    PROVE  /\ job \in Cells \X Audits
           /\ job[2] \in stored /\ job[1] \in CellsOf(job[2])
<1>1. PICK t \in Latest(items) : job \in CellsOf(t) \X {t}
  OBVIOUS
<1>2. t \in stored /\ t \in Audits
  BY DEF Latest
<1>3. QED
  BY <1>1, <1>2, CellsOfType

(* The invariant holds at the start.                                       *)
LEMMA InitIInv == PostureInit => IInv
<1> SUFFICES ASSUME PostureInit PROVE IInv
  OBVIOUS
<1>1. PInv
  BY InitPInv DEF PostureInit
<1>2. PostureTypeOK
  BY <1>1, PostureAssumption DEF PostureInit, PostureTypeOK, HandlerStates, PInv
<1>3. GaugeInv
  BY DEF PostureInit, GaugeInv, GaugeIsReal
<1>4. QED
  BY <1>1, <1>2, <1>3 DEF IInv

(* Whatever step is taken, the reader takes one or sees the store grow.    *)
LEMMA EveryStepOfWalk ==
    ASSUME IInv, [Next]_allVars
    PROVE  WalkStep \/ (StoreGrows /\ UNCHANGED walkVars)
<1> USE DEF IInv, PInv, PagingTypeOK, StoreGrows
<1>1. CASE UNCHANGED pagingVars
  BY <1>1
<1>2. ASSUME NEW t \in Audits, Put(t), UNCHANGED walkVars
      PROVE  StoreGrows
  BY <1>2 DEF Put
<1>3. ASSUME NEW t \in Audits, IngestStep(t)
      PROVE  StoreGrows /\ UNCHANGED walkVars
  <2>1. CASE Store(t)
    BY <1>2, <2>1 DEF Store
  <2>2. CASE HandlerEnds(t)
    <3>1. UNCHANGED walkVars /\ (Put(t) \/ UNCHANGED storeVars)
      BY <2>2 DEF HandlerEnds
    <3>2. CASE Put(t)
      BY <1>2, <3>1, <3>2
    <3>3. CASE UNCHANGED storeVars
      BY <3>1, <3>3
    <3>4. QED
      BY <3>1, <3>2, <3>3
  <2>3. CASE Stamp(t) \/ SetCell(t)
    BY <1>1, <2>3 DEF Stamp, SetCell
  <2>4. QED
    BY <1>3, <2>1, <2>2, <2>3 DEF IngestStep
<1>4. ASSUME NEW t \in Audits, OthersPut(t)
      PROVE  StoreGrows /\ UNCHANGED walkVars
  BY <1>2, <1>4 DEF OthersPut
<1>5. CASE IndexFollows
  BY <1>5 DEF IndexFollows, List, CreateIndex
<1>6. ASSUME NEW w \in Workers, RestoreStep(w) \/ WorkerDies(w)
      PROVE  UNCHANGED pagingVars
  BY <1>6 DEF RestoreStep, Scrape, RestoreCell, RestoreEnds, WorkerDies
<1>7. CASE ContainerRestarts
  BY <1>1, <1>7 DEF ContainerRestarts
<1>8. CASE UNCHANGED allVars
  BY <1>1, <1>8 DEF allVars
<1>9. QED
  BY <1>1, <1>3, <1>4, <1>5, <1>6, <1>7, <1>8 DEF Next

(* A step of the store or of the walk leaves the gauge as real as it was.  *)
LEMMA PagingKeepsGauge ==
    ASSUME IInv, stored \subseteq stored', PagingTypeOK', UNCHANGED postureVars
    PROVE  PostureTypeOK' /\ GaugeInv'
<1>1. PostureTypeOK'
  BY DEF IInv, PostureTypeOK
<1>2. GaugeInv'
  BY DEF IInv, GaugeInv, GaugeIsReal
<1>3. QED
  BY <1>1, <1>2

(* Others put audits without touching this gauge.                          *)
LEMMA OthersKeepGauge ==
    ASSUME IInv, PagingTypeOK', NEW t \in Audits, OthersPut(t)
    PROVE  PostureTypeOK' /\ GaugeInv'
<1>1. /\ stored' = stored \cup {t} /\ handler[t] = "idle"
      /\ handler' = [handler EXCEPT ![t] = "foreign"] /\ unshown' = unshown \cup {t}
      /\ UNCHANGED <<unset, gauge, restored, restore, todo, alone, doubtful, restarts>>
  BY DEF OthersPut, Put
<1>2. PostureTypeOK'
  BY <1>1 DEF IInv, PostureTypeOK, HandlerStates
<1>3. GaugeInv'
  BY <1>1 DEF IInv, PostureTypeOK, GaugeInv, GaugeIsReal
<1>4. QED
  BY <1>2, <1>3

(* A handler writes the cells of the audit it has put, and no others.      *)
LEMMA IngestKeepsGauge ==
    ASSUME IInv, PagingTypeOK', NEW t \in Audits, IngestStep(t)
    PROVE  PostureTypeOK' /\ GaugeInv'
<1> USE CellsOfType DEF IInv, PostureTypeOK, HandlerStates, GaugeInv, GaugeIsReal
<1>1. CASE Stamp(t)
  BY <1>1 DEF Stamp, Begin
<1>2. CASE Store(t)
  BY <1>2 DEF Store, Put
<1>3. CASE SetCell(t)
  <2>1. PICK c \in unset[t] : /\ gauge' = [gauge EXCEPT ![c] = t]
                              /\ unset' = [unset EXCEPT ![t] = @ \ {c}]
    BY <1>3 DEF SetCell
  <2>2. c \in Cells /\ c[1] = Provider[t] /\ t \in stored
    BY <1>3 DEF SetCell
  <2>3. UNCHANGED <<pagingVars, restored, restore, todo, restarts>>
    BY <1>3 DEF SetCell
  <2>4. /\ \/ handler' = handler
           \/ handler' = [handler EXCEPT ![t] = "done"] /\ unset'[t] = {}
        /\ doubtful' \in {doubtful, doubtful \ {Provider[t]}, doubtful \cup {Provider[t]}}
        /\ alone' \subseteq alone
    BY <1>3 DEF SetCell
  <2>5. unshown' \subseteq stored
    BY <1>3 DEF SetCell, Of
  <2>6. PostureTypeOK'
    BY <2>1, <2>2, <2>3, <2>4, <2>5
  <2>7. GaugeIsReal'
    BY <2>1, <2>2, <2>3
  <2>8. handler[t] = "metrics"
    BY <1>3 DEF SetCell
  <2>9. QED
    BY <2>1, <2>3, <2>4, <2>6, <2>7, <2>8
<1>4. CASE HandlerEnds(t)
  <2>1. /\ handler' = [handler EXCEPT ![t] = "done"] /\ unset' = [unset EXCEPT ![t] = {}]
        /\ alone' = alone \ {t} /\ UNCHANGED <<gauge, restored, restore, todo, restarts>>
        /\ doubtful' \in {doubtful, doubtful \cup {Provider[t]}}
        /\ stored \subseteq stored'
        /\ \/ stored' = stored \cup {t} /\ unshown' = unshown \cup {t}
           \/ stored' = stored /\ unshown' = unshown
    BY <1>4 DEF HandlerEnds, Put
  <2>2. PostureTypeOK'
    BY <2>1
  <2>3. GaugeInv'
    BY <2>1
  <2>4. QED
    BY <2>2, <2>3
<1>5. QED
  BY <1>1, <1>2, <1>3, <1>4 DEF IngestStep

(* A restore writes what it read, and a dying worker writes nothing.       *)
LEMMA RestoreKeepsGauge ==
    ASSUME IInv, PagingTypeOK', NEW w \in Workers,
           RestoreStep(w) \/ WorkerDies(w)
    PROVE  PostureTypeOK' /\ GaugeInv'
<1> USE CellsOfType DEF IInv, PostureTypeOK, GaugeInv, GaugeIsReal
<1>1. CASE Scrape(w)
  <2>1. PICK items \in SUBSET stored :
           /\ todo' = [todo EXCEPT ![w] = UNION {CellsOf(t) \X {t} : t \in Latest(items)}]
           /\ alone' \in {{w}, {}} /\ doubtful' \subseteq doubtful
           /\ unshown' = unshown \ items
    BY <1>1 DEF Scrape
  <2>2. stored \subseteq Audits
    BY DEF PagingTypeOK
  <2>3. todo' \in [Workers -> SUBSET (Cells \X Audits)]
    BY <2>1, <2>2, JobsAreReal
  <2>4. \A v \in Workers : \A job \in todo'[v] :
            job[2] \in stored /\ job[1] \in CellsOf(job[2])
    BY <2>1, <2>2, JobsAreReal
  <2>5. QED
    BY <1>1, <2>1, <2>3, <2>4 DEF Scrape
<1>2. CASE RestoreCell(w)
  <2>1. PICK job \in todo[w] : /\ gauge' = [gauge EXCEPT ![job[1]] = job[2]]
                               /\ todo' = [todo EXCEPT ![w] = @ \ {job}]
                               /\ doubtful' \in {doubtful, doubtful \cup {job[1][1]}}
    BY <1>2 DEF RestoreCell
  <2>2. /\ job[1] \in Cells /\ job[2] \in Audits /\ job[2] \in stored
        /\ Provider[job[2]] = job[1][1] /\ job[1][1] \in Providers
    OBVIOUS
  <2>3. QED
    BY <1>2, <2>1, <2>2 DEF RestoreCell
<1>3. CASE RestoreEnds(w)
  BY <1>3 DEF RestoreEnds
<1>4. CASE WorkerDies(w)
  <2>1. \A job \in todo[w] : job[1][1] \in Providers
    OBVIOUS
  <2>2. restarts' \in 0..MaxRestarts /\ doubtful' \subseteq Providers
    BY <1>4, <2>1, PostureAssumption DEF WorkerDies
  <2>3. QED
    BY <1>4, <2>2 DEF WorkerDies
<1>5. QED
  BY <1>1, <1>2, <1>3, <1>4 DEF RestoreStep

(* A new container shows nothing and serves nothing.                       *)
LEMMA RestartKeepsGauge ==
    ASSUME IInv, PagingTypeOK', ContainerRestarts
    PROVE  PostureTypeOK' /\ GaugeInv'
<1> USE CellsOfType DEF IInv, PostureTypeOK, GaugeInv, GaugeIsReal
<1>1. restarts' \in 0..MaxRestarts
  BY PostureAssumption DEF ContainerRestarts
<1>2. \A t \in Audits : handler'[t] \in HandlerStates \ {"metrics"}
  BY DEF ContainerRestarts, Active, HandlerStates
<1>3. QED
  BY <1>1, <1>2 DEF ContainerRestarts

(* Both invariants together are inductive.                                 *)
THEOREM Invariance == Spec => []IInv
<1>1. ASSUME IInv, [Next]_allVars
      PROVE  IInv'
  <2>1. PInv'
    BY <1>1, EveryStepOfWalk, StoreKeepsWalk, WalkKeepsPInv DEF IInv
  <2>2. PagingTypeOK'
    BY <2>1 DEF PInv
  <2>3. CASE UNCHANGED postureVars
    <3>1. WalkStep => UNCHANGED stored
      BY DEF WalkStep, BeginWalk, GetPage, BadCursor
    <3>2. stored \subseteq stored'
      BY <1>1, <3>1, EveryStepOfWalk DEF StoreGrows
    <3>3. QED
      BY <1>1, <2>1, <2>2, <2>3, <3>2, PagingKeepsGauge DEF IInv
  <2>4. ASSUME NEW t \in Audits, OthersPut(t) \/ IngestStep(t) PROVE IInv'
    BY <1>1, <2>1, <2>2, <2>4, OthersKeepGauge, IngestKeepsGauge DEF IInv
  <2>5. ASSUME NEW w \in Workers, RestoreStep(w) \/ WorkerDies(w) PROVE IInv'
    BY <1>1, <2>1, <2>2, <2>5, RestoreKeepsGauge DEF IInv
  <2>6. CASE ContainerRestarts
    BY <1>1, <2>1, <2>2, <2>6, RestartKeepsGauge DEF IInv
  <2>7. QED
    BY <1>1, <2>3, <2>4, <2>5, <2>6 DEF Next, allVars
<1>2. QED
  BY InitIInv, <1>1, PTL DEF Spec

(* Readers, handlers, restores and the gauge are well typed.               *)
THEOREM TypeCorrect == Spec => []PostureTypeOK
<1>1. IInv => PostureTypeOK
  BY DEF IInv
<1>2. QED
  BY <1>1, Invariance, PTL

(* query_audit_page: a reader of all pages meets no audit twice and none   *)
(* out of order, whatever is stored while it reads.                        *)
THEOREM OrderedWalk == Spec => []WalkIsOrdered
<1>1. IInv => WalkIsOrdered
  BY DEF IInv, PInv
<1>2. QED
  BY <1>1, Invariance, PTL

(* encode_cursor, decode_cursor and LastEvaluatedKey: no cursor of the     *)
(* service is refused, and who follows the cursors to the end has got      *)
(* every audit the index held at the start.                                *)
THEOREM CompleteWalk == Spec => []WalkIsComplete
<1>1. IInv => WalkIsComplete
  BY DEF IInv, PInv, Served, WalkIsComplete
<1>2. QED
  BY <1>1, Invariance, PTL

(* record_metrics and restore_posture_gauge: no cell of the gauge shows    *)
(* the findings of an audit that is not stored, or of another provider.    *)
THEOREM RealGauge == Spec => []GaugeIsReal
<1>1. IInv => GaugeIsReal
  BY DEF IInv, GaugeInv
<1>2. QED
  BY <1>1, Invariance, PTL
-----------------------------------------------------------------------------
(* Why the gauge of a provider nothing has interfered with is the latest.  *)
(* An activity is alone while nothing else goes on in this container.      *)
AloneInv ==
    /\ alone \subseteq Active \cup Restoring
    /\ \A x \in alone :
          \/ Active \subseteq {x} /\ Restoring = {}
          \/ Active = {} /\ Restoring \subseteq {x}

(* The audit of p the gauge ought to show.                                 *)
Target(p) == NewestOf(Of(p) \ unshown)

(* A handler or a restore that is alone has written what it has not still  *)
(* to write.                                                               *)
HandlerInv ==
    \A t \in alone \cap Active : handler[t] = "metrics" =>
        \A c \in CellsOf(t) : gauge[c] = t \/ c \in unset[t]

RestoreInv ==
    \A w \in alone \cap Restoring : \A job \in todo[w] :
        /\ job[2] = Target(job[1][1])
        /\ \A s \in Severities :
               LET c == <<job[1][1], s>> IN gauge[c] = job[2] \/ <<c, job[2]>> \in todo[w]

(* What has not been put is not in the table.                              *)
OwnInv ==
    /\ \A t \in Audits : handler[t] \in {"idle", "stamped"} => t \notin stored
    /\ \A w \in Workers : restore[w] = "idle" => todo[w] = {}

ShownInv ==
    \A p \in Providers \ doubtful :
        ~BeingWritten(p) => \A s \in Severities : gauge[<<p, s>>] = Target(p)

LInv == AloneInv /\ HandlerInv /\ RestoreInv /\ OwnInv /\ ShownInv

(* An audit of p that none of p is newer than is the one to show.          *)
LEMMA LatestIsNewest ==
    ASSUME NEW S \in SUBSET Audits, NEW t \in S, \A u \in S : u <= t
    PROVE  NewestOf(S) = t
<1>1. \A u \in S : (\A v \in S : v <= u) => u = t
  <2> SUFFICES ASSUME NEW u \in S, \A v \in S : v <= u
               PROVE  u = t
    OBVIOUS
  <2>1. u \in Int /\ t \in Int /\ u <= t /\ t <= u
    OBVIOUS
  <2>2. QED
    BY <2>1
<1>2. QED
  BY <1>1 DEF NewestOf

(* Times are bounded, so a set of them has a newest.                       *)
LEMMA NewestExists ==
    ASSUME NEW S \in SUBSET Audits, S # {}
    PROVE  \E t \in S : \A u \in S : u <= t
<1> DEFINE Back == {MaxTime - t : t \in S}
<1>1. Back \in SUBSET Nat /\ Back # {}
  <2>1. \A t \in S : t \in Audits /\ MaxTime - t \in Nat
    BY PagingAssumption
  <2>2. QED
    BY <2>1
<1>2. Oldest(Back) \in Back /\ \A b \in Back : Oldest(Back) <= b
  BY <1>1, OldestExists
<1>3. PICK t \in S : Oldest(Back) = MaxTime - t
  BY <1>2
<1>4. \A u \in S : u <= t
  <2> SUFFICES ASSUME NEW u \in S PROVE u <= t
    OBVIOUS
  <2>1. MaxTime - t <= MaxTime - u
    BY <1>2, <1>3
  <2>2. u \in Int /\ t \in Int /\ MaxTime \in Int
    BY PagingAssumption
  <2>3. QED
    BY <2>1, <2>2
<1>5. QED
  BY <1>4

(* What a page shows of a provider at all has a latest.                    *)
LEMMA PageHasLatest ==
    ASSUME NEW items \in SUBSET Audits, NEW t \in items
    PROVE  \E u \in Latest(items) : Provider[u] = Provider[t]
<1> DEFINE same == {u \in items : Provider[u] = Provider[t]}
<1>1. same \in SUBSET Audits /\ same # {}
  OBVIOUS
<1>2. PICK u \in same : \A v \in same : v <= u
  BY <1>1, NewestExists
<1>3. u \in Latest(items) /\ Provider[u] = Provider[t]
  BY <1>2 DEF Latest
<1>4. QED
  BY <1>3

(* On a full page it is the newest of the provider in the table.           *)
LEMMA FullPageIsNewest ==
    ASSUME stored \in SUBSET Audits, NEW t \in Latest(Newest(stored, RestoreLimit))
    PROVE  t \in Of(Provider[t]) /\ \A u \in Of(Provider[t]) : u <= t
<1> DEFINE items == Newest(stored, RestoreLimit)
<1>1. t \in items /\ t \in stored /\ t \in Audits
  BY DEF Latest, Newest
<1>2. ASSUME NEW u \in Of(Provider[t]), ~(u <= t)
      PROVE  FALSE
  <2>1. u \in stored /\ Provider[u] = Provider[t] /\ u \in Int /\ t \in Int
    BY <1>1, <1>2 DEF Of
  <2>2. RestoreLimit \in Nat /\ t <= u
    BY <1>2, <2>1, PostureAssumption
  <2>3. u \in items
    BY <1>1, <2>1, <2>2, NewestIsUpward
  <2>4. QED
    BY <1>2, <2>1, <2>3 DEF Latest
<1>3. QED
  BY <1>1, <1>2 DEF Of

(* Who is at work is the only one who can be alone.                        *)
LEMMA OnlyAlone ==
    ASSUME LInv
    PROVE  /\ \A t \in Active : alone \subseteq {t} /\ alone \cap Restoring = {}
           /\ \A w \in Restoring : alone \subseteq {w} /\ alone \cap Active = {}
  BY DEF LInv, AloneInv

(* A step that neither writes a cell nor changes what is due in one.       *)
LEMMA QuietStep ==
    ASSUME LInv, OwnInv', UNCHANGED <<gauge, unset, restore, todo, alone, doubtful>>,
           Active' = Active,
           \A t \in Audits : (handler'[t] = "metrics") = (handler[t] = "metrics"),
           \A p : Target(p)' = Target(p)
    PROVE  LInv'
<1> USE DEF LInv
<1>1. Restoring' = Restoring
  BY DEF Restoring
<1>2. AloneInv'
  BY <1>1 DEF AloneInv
<1>3. HandlerInv'
  <2>1. \A t : CellsOf(t)' = CellsOf(t)
    BY DEF CellsOf
  <2>2. QED
    BY <2>1 DEF HandlerInv, Active
<1>4. RestoreInv'
  BY <1>1 DEF RestoreInv
<1>5. \A p : BeingWritten(p)' = BeingWritten(p)
  BY DEF BeingWritten
<1>6. ShownInv'
  BY <1>5 DEF ShownInv
<1>7. QED
  BY <1>2, <1>3, <1>4, <1>6

(* The index and a reader change nothing the gauge is about.               *)
LEMMA PagingKeepsLatest ==
    ASSUME LInv, IndexFollows \/ WalkStep, UNCHANGED postureVars
    PROVE  LInv'
<1>1. UNCHANGED stored
  BY DEF IndexFollows, List, CreateIndex, WalkStep, BeginWalk, GetPage, BadCursor
<1>2. \A p : Target(p)' = Target(p)
  BY <1>1 DEF Target, Of
<1>3. OwnInv' /\ Active' = Active
  BY <1>1 DEF LInv, OwnInv, Active
<1>4. QED
  BY <1>2, <1>3, QuietStep

(* An audit another container puts is not due here.                        *)
LEMMA OthersKeepLatest ==
    ASSUME IInv, LInv, NEW t \in Audits, OthersPut(t)
    PROVE  LInv'
<1>1. /\ stored' = stored \cup {t} /\ handler[t] = "idle"
      /\ handler' = [handler EXCEPT ![t] = "foreign"] /\ unshown' = unshown \cup {t}
      /\ UNCHANGED <<unset, gauge, restore, todo, alone, doubtful>>
  BY DEF OthersPut, Put
<1>2. t \notin stored
  BY <1>1 DEF LInv, OwnInv
<1>3. \A p : (Of(p) \ unshown)' = Of(p) \ unshown
  BY <1>1, <1>2 DEF Of
<1>4. \A p : Target(p)' = Target(p)
  BY <1>3 DEF Target
<1>5. /\ Active' = Active
      /\ \A u \in Audits : (handler'[u] = "metrics") = (handler[u] = "metrics")
  BY <1>1 DEF Active, IInv, PostureTypeOK
<1>6. OwnInv'
  BY <1>1 DEF LInv, OwnInv, IInv, PostureTypeOK
<1>7. QED
  BY <1>1, <1>4, <1>5, <1>6, QuietStep

(* A handler that starts is alone if nothing goes on.                      *)
LEMMA StampKeepsLatest ==
    ASSUME IInv, LInv, NEW t \in Audits, Stamp(t)
    PROVE  LInv'
<1> USE DEF LInv
<1>1. /\ handler[t] = "idle" /\ handler' = [handler EXCEPT ![t] = "stamped"]
      /\ alone' = IF Idle THEN {t} ELSE {}
      /\ UNCHANGED <<stored, unset, gauge, restore, todo, doubtful, unshown>>
  BY DEF Stamp, Begin
<1>2. Active' = Active \cup {t} /\ Restoring' = Restoring /\ handler'[t] = "stamped"
      /\ \A u \in Audits \ {t} : handler'[u] = handler[u]
  BY <1>1 DEF Active, Restoring, IInv, PostureTypeOK
<1>3. AloneInv' /\ HandlerInv'
  BY <1>1, <1>2 DEF AloneInv, HandlerInv, Idle
<1>4. RestoreInv'
  BY <1>1, <1>2 DEF RestoreInv, Idle
<1>5. OwnInv'
  BY <1>1, <1>2 DEF OwnInv
<1>6. ShownInv'
  <2>1. \A p : BeingWritten(p)' = BeingWritten(p)
    BY <1>1, <1>2 DEF BeingWritten
  <2>2. \A p : Target(p)' = Target(p)
    BY <1>1 DEF Target, Of
  <2>3. QED
    BY <1>1, <2>1, <2>2 DEF ShownInv
<1>7. QED
  BY <1>3, <1>4, <1>5, <1>6

(* The audit is put: from now on its provider is being written.            *)
LEMMA StoreKeepsLatest ==
    ASSUME IInv, LInv, NEW t \in Audits, Store(t)
    PROVE  LInv'
<1> USE DEF LInv
<1>1. /\ handler[t] = "stamped" /\ handler' = [handler EXCEPT ![t] = "metrics"]
      /\ stored' = stored \cup {t} /\ unset' = [unset EXCEPT ![t] = CellsOf(t)]
      /\ UNCHANGED <<gauge, restore, todo, alone, doubtful, unshown>>
  BY DEF Store, Put
<1>2. /\ handler'[t] = "metrics" /\ unset'[t] = CellsOf(t)
      /\ \A u \in Audits \ {t} : handler'[u] = handler[u] /\ unset'[u] = unset[u]
  BY <1>1 DEF IInv, PostureTypeOK
<1>3. t \in Active /\ Active' = Active /\ Restoring' = Restoring
  BY <1>1, <1>2 DEF Active, Restoring
<1>4. alone \subseteq {t} /\ alone \cap Restoring = {}
  BY <1>3, OnlyAlone
<1>5. AloneInv' /\ RestoreInv'
  BY <1>1, <1>3, <1>4 DEF AloneInv, RestoreInv
<1>6. HandlerInv'
  <2>1. \A u : CellsOf(u)' = CellsOf(u)
    BY DEF CellsOf
  <2>2. QED
    BY <1>1, <1>2, <1>3, <1>4, <2>1 DEF HandlerInv
<1>7. OwnInv'
  BY <1>1, <1>2 DEF OwnInv
<1>8. ShownInv'
  <2> SUFFICES ASSUME NEW p \in Providers \ doubtful, ~BeingWritten(p)', NEW s \in Severities
               PROVE  gauge[<<p, s>>] = Target(p)'
    BY <1>1 DEF ShownInv
  <2>1. Provider[t] # p /\ ~BeingWritten(p)
    BY <1>1, <1>2 DEF BeingWritten
  <2>2. Of(p)' = Of(p)
    BY <1>1, <2>1 DEF Of
  <2>3. Target(p)' = Target(p)
    BY <1>1, <2>2 DEF Target
  <2>4. QED
    BY <2>1, <2>3 DEF ShownInv
<1>9. QED
  BY <1>5, <1>6, <1>7, <1>8

(* A cell is set; with the last one a handler that was alone has set all   *)
(* of them to its audit, and whatever is later is not due here.            *)
LEMMA SetCellKeepsLatest ==
    ASSUME IInv, LInv, NEW t \in Audits, SetCell(t)
    PROVE  LInv'
<1> USE DEF LInv
<1> DEFINE p == Provider[t]
<1>1. PICK c \in unset[t] : /\ gauge' = [gauge EXCEPT ![c] = t]
                            /\ unset' = [unset EXCEPT ![t] = @ \ {c}]
  BY DEF SetCell
<1>2. handler[t] = "metrics" /\ UNCHANGED <<stored, restore, todo>>
  BY DEF SetCell
<1>3. /\ handler \in [Audits -> HandlerStates] /\ unset \in [Audits -> SUBSET Cells]
      /\ gauge \in [Cells -> {0} \cup Audits] /\ stored \subseteq Audits
  BY DEF IInv, PostureTypeOK, PagingTypeOK
<1>4. c \in CellsOf(t) /\ c \in Cells /\ c[1] = p /\ t \in stored
  BY <1>2, CellsOfType DEF IInv, GaugeInv
<1>5. t \in Active /\ Restoring' = Restoring
  BY <1>2 DEF Active, Restoring
<1>6. alone \subseteq {t} /\ alone \cap Restoring = {}
  BY <1>5, OnlyAlone
<1>7. /\ t \in alone => \A e \in CellsOf(t) : gauge'[e] = t \/ e \in unset'[t]
      /\ \A e \in Cells : e[1] # p => gauge'[e] = gauge[e]
  <2>1. t \in alone => \A e \in CellsOf(t) : gauge[e] = t \/ e \in unset[t]
    BY <1>2, <1>5 DEF HandlerInv
  <2>2. \A e \in CellsOf(t) : e \in Cells
    BY CellsOfType
  <2>3. QED
    BY <1>1, <1>3, <1>4, <2>1, <2>2
<1>8. CASE unset'[t] # {}
  <2>1. UNCHANGED <<handler, doubtful, unshown, alone>>
    BY <1>8 DEF SetCell
  <2>2. Active' = Active
    BY <2>1 DEF Active
  <2>3. AloneInv' /\ RestoreInv' /\ OwnInv'
    BY <1>2, <1>5, <1>6, <2>1, <2>2 DEF AloneInv, RestoreInv, OwnInv
  <2>4. HandlerInv'
    <3>1. \A u : CellsOf(u)' = CellsOf(u)
      BY DEF CellsOf
    <3>2. QED
      BY <1>6, <1>7, <2>1, <2>2, <3>1 DEF HandlerInv
  <2>5. ShownInv'
    <3> SUFFICES ASSUME NEW q \in Providers \ doubtful, ~BeingWritten(q)', NEW s \in Severities
                 PROVE  gauge'[<<q, s>>] = Target(q)'
      BY <2>1 DEF ShownInv
    <3>1. q # p /\ ~BeingWritten(q)
      BY <1>2, <2>1 DEF BeingWritten
    <3>2. Target(q)' = Target(q)
      BY <1>2, <2>1 DEF Target, Of
    <3>3. <<q, s>> \in Cells /\ <<q, s>>[1] # p
      BY <3>1 DEF Cells
    <3>4. gauge'[<<q, s>>] = gauge[<<q, s>>]
      BY <1>7, <3>3
    <3>5. QED
      BY <3>1, <3>2, <3>4 DEF ShownInv
  <2>6. QED
    BY <2>3, <2>4, <2>5
<1>9. CASE unset'[t] = {}
  <2>1. /\ handler' = [handler EXCEPT ![t] = "done"] /\ alone' = alone \ {t}
        /\ t \in alone => /\ doubtful' = doubtful \ {p}
                          /\ unshown' = (unshown \ Of(p)) \cup {u \in Of(p) : u > t}
        /\ t \notin alone => doubtful' = doubtful \cup {p} /\ unshown' = unshown
    BY <1>9 DEF SetCell
  <2>2. /\ alone' = {} /\ handler'[t] = "done"
        /\ \A u \in Audits \ {t} : handler'[u] = handler[u]
    BY <1>3, <1>6, <2>1
  <2>3. AloneInv' /\ RestoreInv' /\ HandlerInv'
    BY <2>2 DEF AloneInv, RestoreInv, HandlerInv
  <2>4. OwnInv'
    BY <1>2, <2>2 DEF OwnInv
  <2>5. ShownInv'
    <3> SUFFICES ASSUME NEW q \in Providers \ doubtful', ~BeingWritten(q)', NEW s \in Severities
                 PROVE  gauge'[<<q, s>>] = Target(q)'
      BY DEF ShownInv
    <3>1. CASE q # p
      <4>1. q \notin doubtful /\ ~BeingWritten(q)
        BY <1>2, <2>1, <2>2, <3>1 DEF BeingWritten
      <4>2. Of(q) \cap Of(p) = {}
        BY <3>1 DEF Of
      <4>3. Of(q)' = Of(q)
        BY <1>2 DEF Of
      <4>4. Of(q)' \ unshown' = Of(q) \ unshown
        BY <2>1, <4>2, <4>3
      <4>5. Target(q)' = Target(q)
        BY <4>4 DEF Target
      <4>6. <<q, s>> \in Cells /\ <<q, s>>[1] # p
        BY <3>1 DEF Cells
      <4>7. gauge'[<<q, s>>] = gauge[<<q, s>>]
        BY <1>7, <4>6
      <4>8. QED
        BY <4>1, <4>5, <4>7 DEF ShownInv
    <3>2. CASE q = p
      <4>1. t \in alone
        BY <2>1, <3>2
      <4>2. <<q, s>> \in CellsOf(t)
        BY <3>2 DEF CellsOf
      <4>3. gauge'[<<q, s>>] = t
        BY <1>7, <1>9, <4>1, <4>2
      <4>4. Of(p)' = Of(p) /\ Of(p) \subseteq Audits /\ t \in Of(p)
        BY <1>2, <1>3, <1>4 DEF Of
      <4>5. Of(p)' \ unshown' = {u \in Of(p) : ~(u > t)}
        BY <2>1, <4>1, <4>4
      <4>6. /\ {u \in Of(p) : ~(u > t)} \in SUBSET Audits
            /\ t \in {u \in Of(p) : ~(u > t)}
            /\ \A u \in {v \in Of(p) : ~(v > t)} : u <= t
        BY <4>4
      <4>7. NewestOf({u \in Of(p) : ~(u > t)}) = t
        BY <4>6, LatestIsNewest
      <4>8. Target(p)' = t
        BY <4>5, <4>7 DEF Target
      <4>9. QED
        BY <3>2, <4>3, <4>8
    <3>3. QED
      BY <3>1, <3>2
  <2>6. QED
    BY <2>3, <2>4, <2>5
<1>10. QED
  BY <1>8, <1>9

(* A handler that ends early has written nothing, or leaves doubt.         *)
LEMMA EndKeepsLatest ==
    ASSUME IInv, LInv, NEW t \in Audits, HandlerEnds(t)
    PROVE  LInv'
<1> USE DEF LInv
<1>1. /\ handler[t] \in {"stamped", "metrics"} /\ handler' = [handler EXCEPT ![t] = "done"]
      /\ alone' = alone \ {t} /\ doubtful \subseteq doubtful'
      /\ handler[t] = "metrics" => Provider[t] \in doubtful'
      /\ \/ stored' = stored \cup {t} /\ unshown' = unshown \cup {t} /\ handler[t] = "stamped"
         \/ UNCHANGED <<stored, unshown>>
      /\ UNCHANGED <<gauge, restore, todo>>
  BY DEF HandlerEnds, Put
<1>2. /\ handler'[t] = "done" /\ \A u \in Audits \ {t} : handler'[u] = handler[u]
  BY <1>1 DEF IInv, PostureTypeOK
<1>3. alone' = {}
  <2>1. t \in Active
    BY <1>1 DEF Active
  <2>2. QED
    BY <1>1, <2>1, OnlyAlone
<1>4. AloneInv' /\ RestoreInv' /\ HandlerInv'
  BY <1>3 DEF AloneInv, RestoreInv, HandlerInv
<1>5. OwnInv'
  BY <1>1, <1>2 DEF OwnInv
<1>6. \A q : (Of(q) \ unshown)' = Of(q) \ unshown
  <2>1. handler[t] = "stamped" => t \notin stored
    BY DEF OwnInv
  <2>2. QED
    BY <1>1, <2>1 DEF Of
<1>7. ShownInv'
  <2> SUFFICES ASSUME NEW q \in Providers \ doubtful', ~BeingWritten(q)', NEW s \in Severities
               PROVE  gauge[<<q, s>>] = Target(q)'
    BY <1>1 DEF ShownInv
  <2>1. q \notin doubtful /\ ~BeingWritten(q)
    BY <1>1, <1>2 DEF BeingWritten
  <2>2. Target(q)' = Target(q)
    BY <1>6 DEF Target
  <2>3. QED
    BY <2>1, <2>2 DEF ShownInv
<1>8. QED
  BY <1>4, <1>5, <1>7

(* A restore starts with all the cells of the audits its page shows.       *)
LEMMA ScrapeKeepsLatest ==
    ASSUME IInv, LInv, NEW w \in Workers, Scrape(w)
    PROVE  LInv'
<1> USE DEF LInv
<1>1. PICK items \in SUBSET stored :
         /\ todo' = [todo EXCEPT ![w] = UNION {CellsOf(t) \X {t} : t \in Latest(items)}]
         /\ alone' = IF Idle /\ items = Newest(stored, RestoreLimit) THEN {w} ELSE {}
         /\ doubtful' = IF w \in alone' THEN doubtful \ {Provider[t] : t \in items}
                        ELSE doubtful
         /\ unshown' = unshown \ items
  BY DEF Scrape
<1>2. /\ restore[w] = "idle" /\ restore' = [restore EXCEPT ![w] = "writing"]
      /\ UNCHANGED <<stored, handler, unset, gauge>>
  BY DEF Scrape
<1>3. /\ restore \in [Workers -> {"idle", "writing"}]
      /\ todo \in [Workers -> SUBSET (Cells \X Audits)] /\ stored \subseteq Audits
  BY DEF IInv, PostureTypeOK, PagingTypeOK
<1>4. /\ todo[w] = {} /\ todo'[w] = UNION {CellsOf(t) \X {t} : t \in Latest(items)}
      /\ \A v \in Workers \ {w} : todo'[v] = todo[v] /\ restore'[v] = restore[v]
      /\ restore'[w] = "writing"
  BY <1>1, <1>2, <1>3 DEF OwnInv
<1>5. Active' = Active /\ Restoring' = Restoring \cup {w}
  BY <1>2, <1>4 DEF Active, Restoring
<1>6. AloneInv'
  BY <1>1, <1>5 DEF AloneInv, Idle
<1>7. HandlerInv'
  <2>1. alone' \cap Active' = {}
    BY <1>1, <1>5 DEF Idle
  <2>2. QED
    BY <2>1 DEF HandlerInv
<1>8. OwnInv'
  BY <1>2, <1>4 DEF OwnInv
<1>9. \A q : Of(q)' = Of(q)
  BY <1>2 DEF Of
<1>10. RestoreInv'
  <2> SUFFICES ASSUME alone' = {w}, NEW job \in todo'[w]
               PROVE  /\ job[2] = Target(job[1][1])'
                      /\ \A s \in Severities : <<<<job[1][1], s>>, job[2]>> \in todo'[w]
    BY <1>1 DEF RestoreInv
  <2>1. items = Newest(stored, RestoreLimit)
    BY <1>1
  <2>2. PICK t \in Latest(items) : job \in CellsOf(t) \X {t}
    BY <1>4
  <2> DEFINE p == Provider[t]
  <2>3. job[2] = t /\ job[1][1] = p /\ t \in Audits /\ t \in items
    BY <1>3, <2>2 DEF Latest, CellsOf
  <2>4. t \in Of(p) /\ \A u \in Of(p) : u <= t
    BY <1>3, <2>1, <2>2, FullPageIsNewest
  <2>5. Target(p)' = t
    <3>1. /\ Of(p)' \ unshown' \in SUBSET Audits /\ t \in Of(p)' \ unshown'
          /\ \A u \in Of(p)' \ unshown' : u <= t
      <4>1. Of(p)' = Of(p) /\ Of(p) \in SUBSET Audits
        BY <1>3, <1>9 DEF Of
      <4>2. t \notin unshown'
        BY <1>1, <2>3
      <4>3. QED
        BY <2>4, <4>1, <4>2
    <3>2. NewestOf(Of(p)' \ unshown') = t
      BY <3>1, LatestIsNewest
    <3>3. QED
      BY <3>2 DEF Target
  <2>6. \A s \in Severities : <<<<p, s>>, t>> \in todo'[w]
    BY <1>4, <2>2 DEF CellsOf
  <2>7. QED
    BY <2>3, <2>5, <2>6
<1>11. ShownInv'
  <2> SUFFICES ASSUME NEW q \in Providers \ doubtful', ~BeingWritten(q)', NEW s \in Severities
               PROVE  gauge[<<q, s>>] = Target(q)'
    BY <1>2 DEF ShownInv
  <2>1. ASSUME NEW t \in items, Provider[t] = q
        PROVE  FALSE
    <3>1. PICK u \in Latest(items) : Provider[u] = q
      BY <1>3, <2>1, PageHasLatest
    <3>2. <<<<q, s>>, u>> \in todo'[w]
      BY <1>4, <3>1 DEF CellsOf
    <3>3. QED
      BY <3>2 DEF BeingWritten
  <2>2. q \notin doubtful
    BY <1>1, <2>1
  <2>3. ~BeingWritten(q)
    BY <1>2, <1>4 DEF BeingWritten
  <2>4. Of(q)' \ unshown' = Of(q) \ unshown
    BY <1>1, <1>9, <2>1 DEF Of
  <2>5. Target(q)' = Target(q)
    BY <2>4 DEF Target
  <2>6. QED
    BY <2>2, <2>3, <2>5 DEF ShownInv
<1>12. QED
  BY <1>6, <1>7, <1>8, <1>10, <1>11

(* It writes the newest audit of a provider, or leaves doubt.              *)
LEMMA RestoreCellKeepsLatest ==
    ASSUME IInv, LInv, NEW w \in Workers, RestoreCell(w)
    PROVE  LInv'
<1> USE DEF LInv
<1>1. PICK job \in todo[w] :
         /\ gauge' = [gauge EXCEPT ![job[1]] = job[2]]
         /\ todo' = [todo EXCEPT ![w] = @ \ {job}]
         /\ doubtful' = IF w \in alone THEN doubtful ELSE doubtful \cup {job[1][1]}
  BY DEF RestoreCell
<1> DEFINE p == job[1][1]
<1>2. /\ restore[w] = "writing"
      /\ UNCHANGED <<stored, handler, unset, restore, alone, unshown>>
  BY DEF RestoreCell
<1>3. /\ restore \in [Workers -> {"idle", "writing"}] /\ gauge \in [Cells -> {0} \cup Audits]
      /\ todo \in [Workers -> SUBSET (Cells \X Audits)]
  BY DEF IInv, PostureTypeOK
<1>4. job \in Cells \X Audits /\ job = <<job[1], job[2]>> /\ job[1] \in Cells
  BY <1>1, <1>3
<1>5. w \in Restoring /\ Active' = Active /\ Restoring' = Restoring
  BY <1>2 DEF Active, Restoring
<1>6. alone \subseteq {w} /\ alone \cap Active = {}
  BY <1>5, OnlyAlone
<1>7. AloneInv' /\ HandlerInv' /\ OwnInv'
  BY <1>1, <1>2, <1>3, <1>5, <1>6 DEF AloneInv, HandlerInv, OwnInv
<1>8. \A q : Target(q)' = Target(q)
  BY <1>2 DEF Target, Of
<1>9. /\ todo'[w] = todo[w] \ {job} /\ \A v \in Workers \ {w} : todo'[v] = todo[v]
      /\ gauge'[job[1]] = job[2] /\ \A c \in Cells : c # job[1] => gauge'[c] = gauge[c]
  BY <1>1, <1>3, <1>4
<1>10. w \in alone => \A j \in todo[w] :
           /\ j[2] = Target(j[1][1])
           /\ \A s \in Severities :
                  gauge[<<j[1][1], s>>] = j[2] \/ <<<<j[1][1], s>>, j[2]>> \in todo[w]
  BY <1>5 DEF RestoreInv
<1>11. ASSUME w \in alone, NEW j \in todo[w], NEW s \in Severities
       PROVE  LET c == <<j[1][1], s>> IN gauge'[c] = j[2] \/ <<c, j[2]>> \in todo'[w]
  <2> DEFINE c == <<j[1][1], s>>
  <2>1. j \in Cells \X Audits /\ j[1] \in Cells /\ c \in Cells
    BY <1>3, <1>11 DEF Cells
  <2>2. CASE c = job[1]
    <3>1. j[1][1] = p
      BY <2>2
    <3>2. job[2] = j[2]
      BY <1>1, <1>10, <1>11, <3>1
    <3>3. QED
      BY <1>9, <2>2, <3>2
  <2>3. CASE c # job[1]
    <3>1. gauge'[c] = gauge[c] /\ <<c, j[2]>> # job
      BY <1>4, <1>9, <2>1, <2>3
    <3>2. QED
      BY <1>9, <1>10, <1>11, <3>1
  <2>4. QED
    BY <2>2, <2>3
<1>12. RestoreInv'
  <2> SUFFICES ASSUME w \in alone, NEW j \in todo'[w]
               PROVE  /\ j[2] = Target(j[1][1])
                      /\ \A s \in Severities :
                             LET c == <<j[1][1], s>>
                             IN gauge'[c] = j[2] \/ <<c, j[2]>> \in todo'[w]
    BY <1>2, <1>5, <1>6, <1>8 DEF RestoreInv
  <2>1. j \in todo[w]
    BY <1>9
  <2>2. QED
    BY <1>10, <1>11, <2>1
<1>13. ShownInv'
  <2> SUFFICES ASSUME NEW q \in Providers \ doubtful', ~BeingWritten(q)', NEW s \in Severities
               PROVE  gauge'[<<q, s>>] = Target(q)
    BY <1>8 DEF ShownInv
  <2>1. q \notin doubtful /\ <<q, s>> \in Cells
    BY <1>1 DEF Cells
  <2>2. CASE q = p
    <3>1. w \in alone
      BY <1>1, <2>2
    <3>2. \A j \in todo'[w] : j[1][1] # q
      BY DEF BeingWritten
    <3>3. <<<<q, s>>, job[2]>> \notin todo'[w]
      BY <3>2
    <3>4. gauge'[<<q, s>>] = job[2]
      BY <1>1, <1>11, <2>2, <3>1, <3>3
    <3>5. QED
      BY <1>1, <1>10, <2>2, <3>1, <3>4
  <2>3. CASE q # p
    <3>1. ~BeingWritten(q)
      BY <1>2, <1>9, <2>3 DEF BeingWritten
    <3>2. gauge'[<<q, s>>] = gauge[<<q, s>>]
      BY <1>9, <2>1, <2>3
    <3>3. QED
      BY <2>1, <3>1, <3>2 DEF ShownInv
  <2>4. QED
    BY <2>2, <2>3
<1>14. QED
  BY <1>7, <1>12, <1>13

(* With nothing left to write a restore is over.                           *)
LEMMA RestoreEndsKeepsLatest ==
    ASSUME IInv, LInv, NEW w \in Workers, RestoreEnds(w)
    PROVE  LInv'
<1> USE DEF LInv
<1>1. /\ restore[w] = "writing" /\ todo[w] = {} /\ restore' = [restore EXCEPT ![w] = "idle"]
      /\ alone' = alone \ {w}
      /\ UNCHANGED <<stored, handler, unset, gauge, todo, doubtful, unshown>>
  BY DEF RestoreEnds
<1>2. w \in Restoring
  BY <1>1 DEF Restoring
<1>3. alone' = {}
  BY <1>1, <1>2, OnlyAlone
<1>4. AloneInv' /\ HandlerInv' /\ RestoreInv'
  BY <1>3 DEF AloneInv, HandlerInv, RestoreInv
<1>5. OwnInv'
  BY <1>1 DEF OwnInv, IInv, PostureTypeOK
<1>6. ShownInv'
  <2>1. \A q : BeingWritten(q)' = BeingWritten(q)
    BY <1>1 DEF BeingWritten
  <2>2. \A q : Target(q)' = Target(q)
    BY <1>1 DEF Target, Of
  <2>3. QED
    BY <1>1, <2>1, <2>2 DEF ShownInv
<1>7. QED
  BY <1>4, <1>5, <1>6

(* A worker that dies leaves doubt about what it had still to write, ...   *)
LEMMA DeathKeepsLatest ==
    ASSUME IInv, LInv, NEW w \in Workers, WorkerDies(w)
    PROVE  LInv'
<1> USE DEF LInv
<1>1. /\ restore' = [restore EXCEPT ![w] = "idle"] /\ todo' = [todo EXCEPT ![w] = {}]
      /\ doubtful' = doubtful \cup {job[1][1] : job \in todo[w]} /\ alone' = alone \ {w}
      /\ UNCHANGED <<stored, handler, unset, gauge, unshown>>
  BY DEF WorkerDies
<1>2. /\ restore'[w] = "idle" /\ todo'[w] = {}
      /\ \A v \in Workers \ {w} : restore'[v] = restore[v] /\ todo'[v] = todo[v]
  BY <1>1 DEF IInv, PostureTypeOK
<1>3. Active' = Active /\ Restoring' = Restoring \ {w} /\ Restoring \subseteq Workers
  BY <1>1, <1>2 DEF Active, Restoring
<1>4. AloneInv' /\ OwnInv'
  BY <1>1, <1>2, <1>3 DEF AloneInv, OwnInv
<1>5. HandlerInv'
  <2>1. \A t : CellsOf(t)' = CellsOf(t)
    BY DEF CellsOf
  <2>2. QED
    BY <1>1, <1>3, <2>1 DEF HandlerInv
<1>6. \A q : Target(q)' = Target(q)
  BY <1>1 DEF Target, Of
<1>7. RestoreInv'
  <2>1. \A v \in alone' \cap Restoring' : v \in alone \cap Restoring /\ todo'[v] = todo[v]
    BY <1>1, <1>2, <1>3
  <2>2. QED
    BY <1>1, <1>6, <2>1 DEF RestoreInv
<1>8. ShownInv'
  <2> SUFFICES ASSUME NEW q \in Providers \ doubtful', ~BeingWritten(q)', NEW s \in Severities
               PROVE  gauge[<<q, s>>] = Target(q)
    BY <1>1, <1>6 DEF ShownInv
  <2>1. q \notin doubtful /\ ~BeingWritten(q)
    BY <1>1, <1>2 DEF BeingWritten
  <2>2. QED
    BY <2>1 DEF ShownInv
<1>9. QED
  BY <1>4, <1>5, <1>7, <1>8

(* ... and a new container shows nothing, as nothing is due in it.         *)
LEMMA RestartKeepsLatest ==
    ASSUME IInv, LInv, ContainerRestarts
    PROVE  LInv'
<1> USE DEF LInv
<1>1. /\ alone' = {} /\ gauge' = [c \in Cells |-> 0]
      /\ handler' = [t \in Audits |-> IF t \in Active THEN "done" ELSE handler[t]]
      /\ todo' = [w \in Workers |-> {}] /\ unshown' = stored /\ UNCHANGED stored
  BY DEF ContainerRestarts
<1>2. AloneInv' /\ HandlerInv' /\ RestoreInv' /\ OwnInv'
  BY <1>1 DEF AloneInv, HandlerInv, RestoreInv, OwnInv, Active
<1>3. ShownInv'
  <2> SUFFICES ASSUME NEW q \in Providers, NEW s \in Severities
               PROVE  gauge'[<<q, s>>] = Target(q)'
    BY DEF ShownInv
  <2>1. Of(q)' \ unshown' = {}
    BY <1>1 DEF Of
  <2>2. gauge'[<<q, s>>] = 0
    BY <1>1 DEF Cells
  <2>3. QED
    BY <2>1, <2>2 DEF Target, NewestOf
<1>4. QED
  BY <1>2, <1>3

(* So does the container at the start.                                     *)
LEMMA InitLInv == PostureInit => LInv
<1> SUFFICES ASSUME PostureInit PROVE LInv
  OBVIOUS
<1>1. AloneInv /\ HandlerInv /\ RestoreInv /\ OwnInv
  BY DEF PostureInit, AloneInv, HandlerInv, RestoreInv, OwnInv
<1>2. ShownInv
  <2> SUFFICES ASSUME NEW q \in Providers, NEW s \in Severities
               PROVE  gauge[<<q, s>>] = Target(q)
    BY DEF ShownInv
  <2>1. Of(q) \ unshown = {} /\ gauge[<<q, s>>] = 0
    BY DEF PostureInit, Of, Cells
  <2>2. QED
    BY <2>1 DEF Target, NewestOf
<1>3. QED
  BY <1>1, <1>2 DEF LInv

(* record_metrics and restore_posture_gauge beside puts of other replicas  *)
(* and the Lambda: the cells of a provider whose last writer here was      *)
(* overlapped by nothing here show its newest audit of those this          *)
(* container has been sent or has restored.                                *)
THEOREM LatestPosture == Spec => []PostureIsLatest
<1>1. IInv /\ LInv /\ [Next]_allVars => LInv'
  <2> SUFFICES ASSUME IInv, LInv, [Next]_allVars PROVE LInv'
    OBVIOUS
  <2>1. CASE (IndexFollows \/ WalkStep) /\ UNCHANGED postureVars
    BY <2>1, PagingKeepsLatest
  <2>2. ASSUME NEW t \in Audits, OthersPut(t) \/ IngestStep(t) PROVE LInv'
    BY <2>2, OthersKeepLatest, StampKeepsLatest, StoreKeepsLatest, SetCellKeepsLatest,
       EndKeepsLatest
    DEF IngestStep
  <2>3. ASSUME NEW w \in Workers, RestoreStep(w) \/ WorkerDies(w) PROVE LInv'
    BY <2>3, ScrapeKeepsLatest, RestoreCellKeepsLatest, RestoreEndsKeepsLatest, DeathKeepsLatest
    DEF RestoreStep
  <2>4. CASE ContainerRestarts
    BY <2>4, RestartKeepsLatest
  <2>5. CASE UNCHANGED allVars
    <3>1. \A p : Target(p)' = Target(p)
      BY <2>5 DEF allVars, Target, Of
    <3>2. OwnInv' /\ Active' = Active
      BY <2>5 DEF allVars, LInv, OwnInv, Active
    <3>3. UNCHANGED <<handler, gauge, unset, restore, todo, alone, doubtful>>
      BY <2>5 DEF allVars
    <3>4. QED
      BY <3>1, <3>2, <3>3, QuietStep
  <2>6. QED
    BY <2>1, <2>2, <2>3, <2>4, <2>5 DEF Next
<1>2. IInv /\ LInv => PostureIsLatest
  BY DEF IInv, GaugeInv, LInv, ShownInv, Target, PostureIsLatest
<1>3. QED
  BY InitLInv, Invariance, <1>1, <1>2, PTL DEF Spec
=============================================================================
