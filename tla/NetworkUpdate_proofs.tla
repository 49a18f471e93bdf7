------------------------ MODULE NetworkUpdate_proofs ------------------------
(***************************************************************************)
(* Proofs about the network update: its queries stay bounded and collect   *)
(* the whole book, there is one round at a time, and a client that is      *)
(* closed at rest stays closed.                                            *)
(***************************************************************************)
EXTENDS NetworkUpdate, FiniteSetTheorems, TLAPS

-----------------------------------------------------------------------------
(* The inductive invariant *)

\* What streams and retries of a query have cost in attempts, but for n.
Gained(q, n) == 2 * (Len(q.streams) + q.retries) <= n + q.attempt

\* Two attempts pay for one stream more, and while the query is not settled
\* its list of addresses has what each open stream has sent.
QueryForm(q) ==
    /\ q \in QueryFields
    /\ Gained(q, 2)
    /\ ~ q.settled => \A i \in DOMAIN q.streams : q.streams[i] \subseteq q.addresses

QueriesForm ==
    /\ IsFiniteSet(DOMAIN query)
    /\ query = [id \in DOMAIN query |-> query[id]]
    /\ \A id \in DOMAIN query : QueryForm(query[id])

\* The queries of rounds that will set a timer again.
Looping(qs) == {id \in DOMAIN qs : qs[id].loop /\ ~ qs[id].settled}

\* A timer is forgotten only when a second round was started during a query.
TimersForm ==
    /\ ~ overlapped => orphans = 0
    /\ (orphans = 0 /\ Rounds <= 1) \/ Rounds <= MaxRounds

StateForm ==
    /\ network \subseteq Book
    /\ mirrorChannel \in BOOLEAN /\ isShutdown \in BOOLEAN
    /\ timer \in {"pending", "done"} /\ orphans \in Nat
    /\ DOMAIN query \subseteq Query
    /\ lost \in BOOLEAN /\ overlapped \in BOOLEAN
    /\ late \in BOOLEAN /\ reopened \in BOOLEAN

IInv ==
    /\ StateForm
    /\ QueriesForm
    /\ TimersForm
    /\ OneRoundAtATime
    /\ ClosedAtRestStaysClosed

-----------------------------------------------------------------------------
(* One query: what its streams, failures and retries make of it *)

\* A stream that ends is taken from the list; the others stay.
LEMMA RemoveAtFacts ==
    ASSUME NEW S, NEW s \in Seq(S), NEW i \in DOMAIN s
    PROVE  /\ RemoveAt(s, i) \in Seq(S)
           /\ Len(RemoveAt(s, i)) = Len(s) - 1
           /\ \A j \in DOMAIN RemoveAt(s, i) :
                 \E k \in DOMAIN s : RemoveAt(s, i)[j] = s[k]
<1>1. i \in 1..Len(s) /\ Len(s) \in Nat
  OBVIOUS
<1>2. PICK a : a = SubSeq(s, 1, i - 1)
  OBVIOUS
<1>3. PICK b : b = SubSeq(s, i + 1, Len(s))
  OBVIOUS
<1>4. /\ a \in Seq(S) /\ Len(a) = i - 1
      /\ \A j \in 1..(i - 1) : a[j] = s[j]
  BY <1>1, <1>2
<1>5. /\ b \in Seq(S) /\ Len(b) = Len(s) - i
      /\ \A j \in 1..(Len(s) - i) : b[j] = s[i + j]
  BY <1>1, <1>3
<1>6. RemoveAt(s, i) = a \o b
  BY <1>2, <1>3 DEF RemoveAt
<1>7. /\ a \o b \in Seq(S) /\ Len(a \o b) = Len(s) - 1
      /\ DOMAIN (a \o b) = 1..(Len(s) - 1)
  BY <1>1, <1>4, <1>5
<1>8. ASSUME NEW j \in 1..(Len(s) - 1)
      PROVE  \E k \in DOMAIN s : (a \o b)[j] = s[k]
  <2>1. CASE j <= i - 1
    <3>1. (a \o b)[j] = s[j] /\ j \in DOMAIN s
      BY <1>1, <1>4, <1>5, <2>1
    <3>2. QED
      BY <3>1
  <2>2. CASE j > i - 1
    <3>1. (a \o b)[j] = b[j - (i - 1)] /\ j - (i - 1) \in 1..(Len(s) - i)
      BY <1>1, <1>4, <1>5, <2>2
    <3>2. b[j - (i - 1)] = s[j + 1] /\ j + 1 \in DOMAIN s
      BY <1>1, <1>5, <2>2, <3>1
    <3>3. QED
      BY <3>1, <3>2
  <2>3. j <= i - 1 \/ j > i - 1
    BY <1>1
  <2>4. QED
    BY <2>1, <2>2, <2>3
<1>9. QED
  BY <1>6, <1>7, <1>8

\* Half of the attempts is what a query can gain.
LEMMA GainedBounds ==
    ASSUME NEW q \in QueryFields, Gained(q, 2)
    PROVE  Len(q.streams) + q.retries <= 1 + MaxAttempts \div 2
<1>1. PICK k \in Nat : k = Len(q.streams) + q.retries
  BY DEF QueryFields
<1>2. q.attempt \in 0..MaxAttempts /\ MaxAttempts \in Nat
  BY UpdateAssumption DEF QueryFields, UpdateAssumption
<1>3. 2 * k <= 2 + MaxAttempts
  BY <1>1, <1>2 DEF Gained
<1>4. k <= 1 + MaxAttempts \div 2
  BY <1>1, <1>2, <1>3
<1>5. QED
  BY <1>1, <1>4

\* A stream that is opened starts without messages.
LEMMA OpenedFacts ==
    ASSUME NEW q \in QueryFields
    PROVE  /\ Opened(q) \in QueryFields
           /\ Opened(q).loop = q.loop /\ Opened(q).settled = q.settled
           /\ Opened(q).attempt = q.attempt /\ Opened(q).retries = q.retries
           /\ Opened(q).addresses = q.addresses
           /\ Len(Opened(q).streams) = Len(q.streams) + 1
           /\ \A i \in DOMAIN q.streams : Opened(q).streams[i] = q.streams[i]
           /\ Opened(q).streams[Len(q.streams) + 1] = {}
<1>1. q.streams \in Seq(SUBSET Book) /\ {} \in SUBSET Book
  BY DEF QueryFields
<1>2. PICK st : st = Append(q.streams, {})
  OBVIOUS
<1>3. PICK none \in SUBSET Book : none = {}
  OBVIOUS
<1>4. PICK S : S = SUBSET Book
  OBVIOUS
<1>5. PICK sq \in Seq(S) : sq = q.streams
  BY <1>1, <1>4
<1>6. st = Append(sq, none) /\ none \in S
  BY <1>2, <1>3, <1>4, <1>5
<1>7. /\ st \in Seq(S) /\ Len(st) = Len(sq) + 1
      /\ \A i \in DOMAIN sq : st[i] = sq[i]
      /\ st[Len(sq) + 1] = none
  BY <1>6
<1>8. /\ st \in Seq(SUBSET Book) /\ Len(st) = Len(q.streams) + 1
      /\ \A i \in DOMAIN q.streams : st[i] = q.streams[i]
      /\ st[Len(q.streams) + 1] = {}
  BY <1>3, <1>4, <1>5, <1>7
<1>9. Opened(q) = [q EXCEPT !.streams = st]
  BY <1>2 DEF Opened
<1>10. /\ Opened(q) \in QueryFields /\ Opened(q).streams = st
      /\ Opened(q).loop = q.loop /\ Opened(q).settled = q.settled
      /\ Opened(q).attempt = q.attempt /\ Opened(q).retries = q.retries
      /\ Opened(q).addresses = q.addresses
  BY <1>8, <1>9 DEF QueryFields
<1>11. QED
  BY <1>8, <1>10

\* An opened query keeps its form if there was room for a stream.
LEMMA OpenedForm ==
    ASSUME NEW q \in QueryFields, Gained(q, 0),
           ~ q.settled => \A i \in DOMAIN q.streams :
                             q.streams[i] \subseteq q.addresses
    PROVE  QueryForm(Opened(q))
<1>1. /\ Len(q.streams) \in Nat /\ q.retries \in Nat /\ q.attempt \in Nat
      /\ DOMAIN q.streams = 1..Len(q.streams)
  BY UpdateAssumption DEF QueryFields, UpdateAssumption
<1>2. Gained(Opened(q), 2)
  BY <1>1, OpenedFacts DEF Gained
<1>3. ASSUME ~ Opened(q).settled, NEW i \in DOMAIN Opened(q).streams
      PROVE  Opened(q).streams[i] \subseteq Opened(q).addresses
  <2>1. DOMAIN Opened(q).streams = 1..(Len(q.streams) + 1)
    BY <1>1, OpenedFacts DEF QueryFields
  <2>2. CASE i = Len(q.streams) + 1
    BY <2>2, OpenedFacts
  <2>3. CASE i \in DOMAIN q.streams
    BY <1>3, <2>3, OpenedFacts
  <2>4. QED
    BY <1>1, <2>1, <2>2, <2>3
<1>4. QED
  BY <1>2, <1>3, OpenedFacts DEF QueryForm

\* A new query has one stream.
LEMMA NewQueryForm ==
    ASSUME NEW loop \in BOOLEAN
    PROVE  /\ QueryForm(NewQuery(loop))
           /\ NewQuery(loop).loop = loop /\ ~ NewQuery(loop).settled
<1>1. PICK none : none = {}
  OBVIOUS
<1>2. PICK e : e = <<>>
  OBVIOUS
<1>3. PICK S : S = SUBSET Book
  OBVIOUS
<1>4. e \in Seq(S) /\ Len(e) = 0 /\ DOMAIN e = {}
  BY <1>2
<1>5. e \in Seq(SUBSET Book)
  BY <1>3, <1>4
<1>6. PICK q : q = [loop |-> loop, settled |-> FALSE, attempt |-> 0,
                    retries |-> 0, addresses |-> none, streams |-> e]
  OBVIOUS
<1>7. none \in SUBSET Book /\ 0 \in 0..MaxAttempts
  BY <1>1, UpdateAssumption DEF UpdateAssumption
<1>8. q \in QueryFields
  BY <1>5, <1>6, <1>7 DEF QueryFields
<1>9. q.loop = loop /\ ~ q.settled /\ Gained(q, 0) /\ DOMAIN q.streams = {}
  BY <1>4, <1>6 DEF Gained
<1>10. NewQuery(loop) = Opened(q)
  BY <1>1, <1>2, <1>6 DEF NewQuery
<1>11. QED
  BY <1>8, <1>9, <1>10, OpenedForm, OpenedFacts

\* A retry becomes a stream.
LEMMA RetriedForm ==
    ASSUME NEW q, QueryForm(q), q.retries > 0
    PROVE  /\ QueryForm(Retried(q))
           /\ Retried(q).loop = q.loop /\ Retried(q).settled = q.settled
<1>1. /\ q \in QueryFields /\ q.retries \in Nat /\ q.attempt \in Nat
      /\ Len(q.streams) \in Nat
  BY UpdateAssumption DEF QueryForm, QueryFields, UpdateAssumption
<1>2. PICK r : r = [q EXCEPT !.retries = @ - 1]
  OBVIOUS
<1>3. /\ r \in QueryFields /\ r.retries = q.retries - 1
      /\ r.loop = q.loop /\ r.settled = q.settled /\ r.attempt = q.attempt
      /\ r.streams = q.streams /\ r.addresses = q.addresses
  BY <1>1, <1>2 DEF QueryFields
<1>4. Gained(r, 0)
  BY <1>1, <1>3 DEF QueryForm, Gained
<1>5. QueryForm(Opened(r))
  BY <1>3, <1>4, OpenedForm DEF QueryForm
<1>6. Retried(q) = Opened(r)
  BY <1>2 DEF Retried
<1>7. QED
  BY <1>3, <1>5, <1>6, OpenedFacts

\* The end of a stream makes room for one that a retry opens.
LEMMA EndedForm ==
    ASSUME NEW q, QueryForm(q), NEW i \in DOMAIN q.streams
    PROVE  /\ QueryForm(Ended(q, i)) /\ Gained(Ended(q, i), 0)
           /\ Ended(q, i).loop = q.loop /\ Ended(q, i).settled = q.settled
<1>1. /\ q \in QueryFields /\ q.retries \in Nat /\ q.attempt \in Nat
      /\ q.streams \in Seq(SUBSET Book) /\ Len(q.streams) \in Nat
  BY UpdateAssumption DEF QueryForm, QueryFields, UpdateAssumption
<1>2. PICK st : st = RemoveAt(q.streams, i)
  OBVIOUS
<1>3. /\ st \in Seq(SUBSET Book) /\ Len(st) = Len(q.streams) - 1
      /\ \A j \in DOMAIN st : \E k \in DOMAIN q.streams : st[j] = q.streams[k]
  BY <1>1, <1>2, RemoveAtFacts
<1>4. PICK r : r = Ended(q, i)
  OBVIOUS
<1>5. r = [q EXCEPT !.streams = st]
  BY <1>2, <1>4 DEF Ended
<1>6. /\ r \in QueryFields /\ r.retries = q.retries
      /\ r.loop = q.loop /\ r.settled = q.settled /\ r.attempt = q.attempt
      /\ r.streams = st /\ r.addresses = q.addresses
  BY <1>1, <1>3, <1>5 DEF QueryFields
<1>7. Gained(r, 0) /\ Gained(r, 2)
  BY <1>1, <1>3, <1>6 DEF QueryForm, Gained
<1>8. ~ r.settled => \A j \in DOMAIN r.streams : r.streams[j] \subseteq r.addresses
  BY <1>3, <1>6 DEF QueryForm
<1>9. QED
  BY <1>4, <1>6, <1>7, <1>8 DEF QueryForm

\* What is settled gains nothing.
LEMMA SettledFacts ==
    ASSUME NEW q \in QueryFields
    PROVE  /\ Settled(q) \in QueryFields
           /\ Settled(q).loop = q.loop /\ Settled(q).settled
           /\ Settled(q).attempt = q.attempt /\ Settled(q).retries = q.retries
           /\ Len(Settled(q).streams) = Len(q.streams)
<1>1. q.streams \in Seq(SUBSET Book) /\ Len(q.streams) \in Nat
      /\ DOMAIN q.streams = 1..Len(q.streams)
  BY DEF QueryFields
<1>2. PICK none \in SUBSET Book : none = {}
  OBVIOUS
<1>3. PICK st : st = [i \in 1..Len(q.streams) |-> none]
  OBVIOUS
<1>4. st \in Seq(SUBSET Book) /\ Len(st) = Len(q.streams)
  BY <1>1, <1>3
<1>5. PICK r : r = Settled(q)
  OBVIOUS
<1>6. r = [q EXCEPT !.settled = TRUE, !.addresses = none, !.streams = st]
  BY <1>1, <1>2, <1>3, <1>5 DEF Settled
<1>7. /\ r \in QueryFields /\ r.loop = q.loop /\ r.settled
      /\ r.attempt = q.attempt /\ r.retries = q.retries /\ r.streams = st
  BY <1>4, <1>6 DEF QueryFields
<1>8. QED
  BY <1>4, <1>5, <1>7

LEMMA SettledForm ==
    ASSUME NEW q, QueryForm(q)
    PROVE  QueryForm(Settled(q)) /\ Settled(q).loop = q.loop /\ Settled(q).settled
BY SettledFacts DEF QueryForm, Gained

\* A call of the error callback costs an attempt for each retry it schedules,
\* and a query that it leaves unsettled waits for one.
LEMMA FailedFacts ==
    ASSUME NEW q \in QueryFields, NEW n \in Nat, Gained(q, n),
           ~ q.settled => \A i \in DOMAIN q.streams :
                             q.streams[i] \subseteq q.addresses,
           NEW retryable \in BOOLEAN
    PROVE  LET r == Failed(q, retryable)
           IN  /\ r \in QueryFields /\ Gained(r, n + 1) /\ r.loop = q.loop
               /\ ~ r.settled => ~ q.settled /\ r.retries > 0
               /\ ~ r.settled => \A i \in DOMAIN r.streams :
                                    r.streams[i] \subseteq r.addresses
<1>1. /\ Len(q.streams) \in Nat /\ q.retries \in Nat
      /\ q.attempt \in 0..MaxAttempts /\ MaxAttempts \in Nat
  BY UpdateAssumption DEF QueryFields, UpdateAssumption
<1>2. PICK r : r = Failed(q, retryable)
  OBVIOUS
<1>3. CASE q.attempt < MaxAttempts /\ ~ isShutdown /\ retryable
  <2>1. r = [q EXCEPT !.attempt = @ + 1, !.retries = @ + 1]
    BY <1>2, <1>3 DEF Failed
  <2>2. q.attempt + 1 \in 0..MaxAttempts /\ q.retries + 1 \in Nat
    BY <1>1, <1>3
  <2>3. /\ r \in QueryFields /\ r.attempt = q.attempt + 1
        /\ r.retries = q.retries + 1 /\ r.loop = q.loop
        /\ r.settled = q.settled /\ r.streams = q.streams
        /\ r.addresses = q.addresses
    BY <2>1, <2>2 DEF QueryFields
  <2>4. /\ q.retries + 1 > 0
        /\ 2 * (Len(q.streams) + (q.retries + 1)) <= (n + 1) + (q.attempt + 1)
    <3>1. PICK k \in Nat, m \in Nat, a \in Nat :
             k = Len(q.streams) /\ m = q.retries /\ a = q.attempt
      BY <1>1
    <3>2. 2 * (k + m) <= n + a
      BY <3>1 DEF Gained
    <3>3. m + 1 > 0 /\ 2 * (k + (m + 1)) <= (n + 1) + (a + 1)
      BY <3>2
    <3>4. QED
      BY <3>1, <3>3
  <2>5. Gained(r, n + 1) /\ r.retries > 0
    BY <2>3, <2>4 DEF Gained
  <2>6. QED
    BY <1>2, <2>3, <2>5
<1>4. CASE ~ (q.attempt < MaxAttempts /\ ~ isShutdown /\ retryable)
  <2>1. r = Settled(q)
    BY <1>2, <1>4 DEF Failed
  <2>2. /\ r \in QueryFields /\ r.loop = q.loop /\ r.settled
        /\ Len(r.streams) = Len(q.streams)
        /\ r.retries = q.retries /\ r.attempt = q.attempt
    BY <2>1, SettledFacts
  <2>3. 2 * (Len(q.streams) + q.retries) <= (n + 1) + q.attempt
    <3>1. PICK k \in Nat, m \in Nat, a \in Nat :
             k = Len(q.streams) /\ m = q.retries /\ a = q.attempt
      BY <1>1
    <3>2. 2 * (k + m) <= n + a
      BY <3>1 DEF Gained
    <3>3. 2 * (k + m) <= (n + 1) + a
      BY <3>2
    <3>4. QED
      BY <3>1, <3>3
  <2>4. Gained(r, n + 1)
    BY <2>2, <2>3 DEF Gained
  <2>5. QED
    BY <1>2, <2>2, <2>4
<1>5. QED
  BY <1>3, <1>4

\* A stream that fails reports it twice and opens two more at most.
LEMMA FailedTwiceForm ==
    ASSUME NEW q, QueryForm(q), NEW i \in DOMAIN q.streams,
           NEW retryable \in BOOLEAN
    PROVE  LET r == FailedTwice(Ended(q, i), retryable)
           IN  /\ QueryForm(r) /\ r.loop = q.loop
               /\ ~ r.settled => ~ q.settled /\ r.retries > 0
<1>1. PICK e : e = Ended(q, i)
  OBVIOUS
<1>2. PICK yes \in BOOLEAN : yes = TRUE
  OBVIOUS
<1>3. PICK f : f = Failed(e, yes)
  OBVIOUS
<1>4. PICK r : r = Failed(f, retryable)
  OBVIOUS
<1>5. /\ e \in QueryFields /\ Gained(e, 0)
      /\ e.loop = q.loop /\ e.settled = q.settled
      /\ ~ e.settled => \A j \in DOMAIN e.streams : e.streams[j] \subseteq e.addresses
  BY <1>1, EndedForm DEF QueryForm
<1>6. /\ f \in QueryFields /\ Gained(f, 1) /\ f.loop = e.loop
      /\ ~ f.settled => ~ e.settled
      /\ ~ f.settled => \A j \in DOMAIN f.streams : f.streams[j] \subseteq f.addresses
  <2>1. /\ f \in QueryFields /\ Gained(f, 0 + 1) /\ f.loop = e.loop
        /\ ~ f.settled => ~ e.settled
        /\ ~ f.settled => \A j \in DOMAIN f.streams :
                             f.streams[j] \subseteq f.addresses
    BY <1>3, <1>5, FailedFacts
  <2>2. 0 + 1 = 1
    OBVIOUS
  <2>3. QED
    BY <2>1, <2>2
<1>7. /\ r \in QueryFields /\ Gained(r, 2) /\ r.loop = f.loop
      /\ ~ r.settled => ~ f.settled /\ r.retries > 0
      /\ ~ r.settled => \A j \in DOMAIN r.streams : r.streams[j] \subseteq r.addresses
  <2>1. /\ r \in QueryFields /\ Gained(r, 1 + 1) /\ r.loop = f.loop
        /\ ~ r.settled => ~ f.settled /\ r.retries > 0
        /\ ~ r.settled => \A j \in DOMAIN r.streams :
                             r.streams[j] \subseteq r.addresses
    BY <1>4, <1>6, FailedFacts
  <2>2. 1 + 1 = 2
    OBVIOUS
  <2>3. QED
    BY <2>1, <2>2
<1>8. r = FailedTwice(Ended(q, i), retryable)
  BY <1>2, <1>1, <1>3, <1>4 DEF FailedTwice
<1>9. QED
  BY <1>5, <1>6, <1>7, <1>8 DEF QueryForm

-----------------------------------------------------------------------------
(* The queries together, and the rounds *)

\* A query is forgotten when it is quiet.
LEMMA RememberFacts ==
    ASSUME QueriesForm, NEW id \in DOMAIN query, NEW q, Remember(id, q)
    PROVE  /\ DOMAIN query' = IF IsQuiet(q) THEN DOMAIN query \ {id}
                              ELSE DOMAIN query
           /\ query' = [x \in DOMAIN query' |-> query'[x]]
           /\ \A x \in DOMAIN query' : query'[x] = IF x = id THEN q ELSE query[x]
<1>1. CASE IsQuiet(q)
  BY <1>1 DEF Remember
<1>2. CASE ~ IsQuiet(q)
  <2>1. query' = [x \in DOMAIN query |-> IF x = id THEN q ELSE query[x]]
    BY <1>2 DEF Remember, With
  <2>2. QED
    BY <1>2, <2>1
<1>3. QED
  BY <1>1, <1>2

\* One query is added or changed at a time.
LEMMA QueriesKept ==
    ASSUME QueriesForm, NEW id, NEW q, QueryForm(q),
           DOMAIN query' \subseteq DOMAIN query \cup {id},
           query' = [x \in DOMAIN query' |-> query'[x]],
           \A x \in DOMAIN query' : query'[x] = IF x = id THEN q ELSE query[x]
    PROVE  QueriesForm'
<1>1. IsFiniteSet(DOMAIN query \cup {id})
  BY FS_AddElement DEF QueriesForm
<1>2. IsFiniteSet(DOMAIN query')
  BY <1>1, FS_Subset
<1>3. \A x \in DOMAIN query' : QueryForm(query'[x])
  BY DEF QueriesForm
<1>4. QED
  BY <1>2, <1>3 DEF QueriesForm, QueryForm, Gained

\* Rounds are what is pending and the queries of rounds.
LEMMA RoundsFacts ==
    ASSUME StateForm, QueriesForm
    PROVE  /\ Rounds = Pending + Cardinality(Looping(query))
           /\ Cardinality(Looping(query)) \in Nat /\ IsFiniteSet(Looping(query))
           /\ Pending = orphans + IF timer = "pending" THEN 1 ELSE 0
<1>1. Rounds = Pending + Cardinality(Looping(query))
  BY DEF Rounds, Looping
<1>2. IsFiniteSet(Looping(query))
  BY FS_Subset DEF Looping, QueriesForm
<1>3. Cardinality(Looping(query)) \in Nat
  BY <1>2, FS_CardinalityType
<1>4. Pending = orphans + IF timer = "pending" THEN 1 ELSE 0
  BY DEF Pending, StateForm
<1>5. QED
  BY <1>1, <1>2, <1>3, <1>4

LEMMA RoundsFactsNext ==
    ASSUME StateForm', QueriesForm'
    PROVE  /\ Rounds' = Pending' + Cardinality(Looping(query'))
           /\ Pending' = orphans' + IF timer' = "pending" THEN 1 ELSE 0
<1>1. Rounds' = Pending' + Cardinality(Looping(query'))
  BY DEF Rounds, Looping
<1>2. Pending' = orphans' + IF timer' = "pending" THEN 1 ELSE 0
  BY DEF Pending, StateForm
<1>3. QED
  BY <1>1, <1>2

\* Who has a query is not closed at rest.
LEMMA BusyIsNotAtRest ==
    ASSUME ClosedAtRestStaysClosed, NEW id \in DOMAIN query
    PROVE  ~ isShutdown \/ late \/ reopened
BY DEF ClosedAtRestStaysClosed, AtRest

\* A step after which as many rounds are under way as before.
LEMMA SameRounds ==
    ASSUME IInv, StateForm', QueriesForm',
           Rounds' = Rounds, overlapped' = overlapped, isShutdown' = isShutdown,
           lost => lost', orphans' <= orphans
    PROVE  TimersForm' /\ OneRoundAtATime'
BY DEF IInv, TimersForm, OneRoundAtATime, StateForm

\* A step of a query that is no round's, or is as settled as before.
LEMMA SameLooping ==
    ASSUME IInv, StateForm', QueriesForm',
           UNCHANGED <<timer, orphans, overlapped, isShutdown>>, lost => lost',
           Looping(query') = Looping(query)
    PROVE  TimersForm' /\ OneRoundAtATime'
<1>1. Rounds' = Rounds
  BY RoundsFacts, RoundsFactsNext DEF IInv
<1>2. orphans' <= orphans
  BY DEF IInv, StateForm
<1>3. QED
  BY <1>1, <1>2, SameRounds

\* A round ends without a timer.
LEMMA RoundLost ==
    ASSUME IInv, StateForm', QueriesForm',
           UNCHANGED <<timer, orphans, overlapped, isShutdown>>,
           NEW id \in Looping(query), Looping(query') = Looping(query) \ {id},
           lost' \/ isShutdown
    PROVE  TimersForm' /\ OneRoundAtATime'
<1>1. PICK p \in Nat, n \in Nat : p = Pending /\ n = Cardinality(Looping(query))
  BY RoundsFacts DEF IInv, StateForm
<1>2. Cardinality(Looping(query')) = n - 1
  BY <1>1, RoundsFacts, FS_RemoveElement DEF IInv
<1>3. Rounds = p + n /\ Rounds' = p + (n - 1)
  BY <1>1, <1>2, RoundsFacts, RoundsFactsNext DEF IInv
<1>4. TimersForm'
  BY <1>1, <1>3, UpdateAssumption
  DEF IInv, TimersForm, StateForm, UpdateAssumption
<1>5. OneRoundAtATime'
  BY <1>1, <1>3 DEF IInv, OneRoundAtATime, StateForm
<1>6. QED
  BY <1>4, <1>5

-----------------------------------------------------------------------------
(* Each action keeps the inductive invariant *)

LEMMA InitIInv == Init => IInv
<1> SUFFICES ASSUME Init
             PROVE  IInv
  OBVIOUS
<1>1. /\ isShutdown = FALSE /\ timer = "pending" /\ orphans = 0
      /\ lost = FALSE /\ overlapped = FALSE /\ late = FALSE /\ reopened = FALSE
  BY DEF Init
<1>2. /\ network \subseteq Book /\ mirrorChannel \in BOOLEAN
      /\ DOMAIN query \subseteq Query /\ Looping(query) = {} /\ QueriesForm
  <2>1. CASE /\ network = Book /\ mirrorChannel = FALSE
             /\ query = [id \in {} |-> {}]
    <3>1. DOMAIN query = {} /\ query = [id \in DOMAIN query |-> query[id]]
      BY <2>1
    <3>2. IsFiniteSet(DOMAIN query)
      BY <3>1, FS_EmptySet
    <3>3. QED
      BY <2>1, <3>1, <3>2 DEF QueriesForm, Looping
  <2>2. CASE /\ network = {} /\ mirrorChannel = TRUE
             /\ \E id \in Query : query = [x \in {id} |-> NewQuery(FALSE)]
    <3>1. PICK id \in Query : query = [x \in {id} |-> NewQuery(FALSE)]
      BY <2>2
    <3>2. /\ DOMAIN query = {id} /\ query = [x \in DOMAIN query |-> query[x]]
          /\ \A x \in DOMAIN query : query[x] = NewQuery(FALSE)
      BY <3>1
    <3>3. PICK no \in BOOLEAN : no = FALSE
      OBVIOUS
    <3>4. QueryForm(NewQuery(FALSE)) /\ NewQuery(FALSE).loop = FALSE
      BY <3>3, NewQueryForm
    <3>5. IsFiniteSet(DOMAIN query)
      BY <3>2, FS_Singleton
    <3>6. QueriesForm
      BY <3>2, <3>4, <3>5 DEF QueriesForm
    <3>7. Looping(query) = {}
      BY <3>2, <3>4 DEF Looping
    <3>8. QED
      BY <2>2, <3>2, <3>6, <3>7
  <2>3. QED
    BY <2>1, <2>2 DEF Init
<1>3. StateForm
  BY <1>1, <1>2 DEF StateForm
<1>4. Rounds = 1
  BY <1>1, <1>2, <1>3, RoundsFacts, FS_EmptySet
<1>5. QED
  BY <1>1, <1>2, <1>3, <1>4
  DEF IInv, TimersForm, OneRoundAtATime, ClosedAtRestStaysClosed

\* A timer becomes a query.
LEMMA FireTimerStep ==
    ASSUME IInv, FireTimer
    PROVE  IInv'
<1>1. PICK id \in Query \ DOMAIN query : query' = With(query, id, NewQuery(TRUE))
  BY DEF FireTimer
<1>2. /\ DOMAIN query' = DOMAIN query \cup {id}
      /\ query' = [x \in DOMAIN query' |-> query'[x]]
      /\ \A x \in DOMAIN query' :
            query'[x] = IF x = id THEN NewQuery(TRUE) ELSE query[x]
  BY <1>1 DEF With
<1>3. PICK yes \in BOOLEAN : yes = TRUE
  OBVIOUS
<1>4. /\ QueryForm(NewQuery(TRUE)) /\ NewQuery(TRUE).loop
      /\ ~ NewQuery(TRUE).settled
  BY <1>3, NewQueryForm
<1>5. QueriesForm'
  BY <1>2, <1>4, QueriesKept DEF IInv
<1>6. /\ orphans' \in Nat /\ timer' \in {"pending", "done"}
      /\ mirrorChannel' \in BOOLEAN
  BY DEF IInv, StateForm, FireTimer
<1>7. /\ DOMAIN query' \subseteq Query
      /\ UNCHANGED <<network, isShutdown, lost, overlapped, late, reopened>>
  BY <1>1, <1>2 DEF IInv, StateForm, FireTimer, historyVars
<1>8. StateForm'
  BY <1>6, <1>7 DEF IInv, StateForm
<1>9. Looping(query') = Looping(query) \cup {id} /\ id \notin Looping(query)
  BY <1>1, <1>2, <1>4 DEF Looping
<1>10. PICK n \in Nat : /\ n = Cardinality(Looping(query))
                       /\ Cardinality(Looping(query')) = n + 1
  BY <1>9, RoundsFacts, FS_AddElement DEF IInv
<1>11. Pending' = Pending - 1 /\ Pending \in Nat
  <2>1. /\ orphans \in Nat /\ timer \in {"pending", "done"}
        /\ \/ timer = "pending" /\ timer' = "done" /\ orphans' = orphans
           \/ orphans > 0 /\ orphans' = orphans - 1 /\ timer' = timer
    BY DEF IInv, StateForm, FireTimer
  <2>2. /\ Pending = orphans + IF timer = "pending" THEN 1 ELSE 0
        /\ Pending' = orphans' + IF timer' = "pending" THEN 1 ELSE 0
    BY <1>5, <1>8, RoundsFacts, RoundsFactsNext DEF IInv
  <2>3. QED
    BY <2>1, <2>2
<1>12. Rounds' = Rounds
  BY <1>5, <1>8, <1>10, <1>11, RoundsFacts, RoundsFactsNext DEF IInv
<1>13. orphans' <= orphans
  BY DEF IInv, StateForm, FireTimer
<1>14. TimersForm' /\ OneRoundAtATime'
  BY <1>5, <1>8, <1>12, <1>13, SameRounds DEF FireTimer, historyVars
<1>15. ~ isShutdown \/ late \/ reopened
  BY DEF IInv, ClosedAtRestStaysClosed, AtRest, StateForm, FireTimer
<1>16. ClosedAtRestStaysClosed'
  BY <1>15 DEF ClosedAtRestStaysClosed, FireTimer, historyVars
<1>17. QED
  BY <1>5, <1>8, <1>14, <1>16 DEF IInv

\* A round more is started during a query at most, and within the bound.
LEMMA SetNetworkUpdatePeriodStep ==
    ASSUME IInv, SetNetworkUpdatePeriod
    PROVE  IInv'
<1>1. query' = query /\ orphans' = orphans /\ timer' = "pending" /\ lost' = lost
  BY DEF SetNetworkUpdatePeriod
<1>2. QueriesForm'
  BY <1>1 DEF IInv, QueriesForm, QueryForm, Gained
<1>3. StateForm'
  BY <1>1 DEF IInv, StateForm, SetNetworkUpdatePeriod
<1>4. PICK n \in Nat, o \in Nat : n = Cardinality(Looping(query)) /\ o = orphans
  BY RoundsFacts DEF IInv, StateForm
<1>5. /\ Rounds = n + o + IF timer = "pending" THEN 1 ELSE 0
      /\ Rounds' = n + o + 1
  BY <1>1, <1>2, <1>3, <1>4, RoundsFacts, RoundsFactsNext DEF IInv
<1>6. timer = "pending" \/ Rounds < MaxRounds
  BY DEF SetNetworkUpdatePeriod, MayStartRound
<1>7. ~ overlapped' => ~ overlapped /\ n = 0
  <2>1. SUFFICES ASSUME ~ overlapped'
                 PROVE  ~ overlapped /\ n = 0
    OBVIOUS
  <2>2. ~ overlapped /\ \A id \in DOMAIN query : query[id].settled
    BY <2>1 DEF SetNetworkUpdatePeriod
  <2>3. Looping(query) = {}
    BY <2>2 DEF Looping
  <2>4. QED
    BY <1>4, <2>2, <2>3, FS_EmptySet
<1>8. TimersForm'
  BY <1>1, <1>4, <1>5, <1>6, <1>7, UpdateAssumption
  DEF IInv, TimersForm, UpdateAssumption
<1>9. OneRoundAtATime'
  BY <1>1, <1>4, <1>5, <1>7 DEF IInv, TimersForm, OneRoundAtATime
<1>10. ClosedAtRestStaysClosed'
  BY DEF IInv, StateForm, ClosedAtRestStaysClosed, SetNetworkUpdatePeriod
<1>11. QED
  BY <1>2, <1>3, <1>8, <1>9, <1>10 DEF IInv

LEMMA SetMirrorNetworkStep ==
    ASSUME IInv, SetMirrorNetwork
    PROVE  IInv'
<1>1. UNCHANGED <<network, isShutdown, timer, orphans, query, historyVars>>
  BY DEF SetMirrorNetwork, clientVars
<1>2. mirrorChannel' = FALSE /\ ~ isShutdown
  BY DEF SetMirrorNetwork
<1>3. QueriesForm'
  BY <1>1 DEF IInv, QueriesForm, QueryForm, Gained
<1>4. StateForm'
  BY <1>1, <1>2 DEF IInv, StateForm, historyVars
<1>5. TimersForm' /\ OneRoundAtATime'
  BY <1>1, <1>3, <1>4, SameLooping DEF historyVars
<1>6. ClosedAtRestStaysClosed'
  BY <1>1, <1>2 DEF ClosedAtRestStaysClosed
<1>7. QED
  BY <1>3, <1>4, <1>5, <1>6 DEF IInv

\* close() takes the timer; what is at rest has nothing else.
LEMMA CloseStep ==
    ASSUME IInv, Close
    PROVE  IInv'
<1>1. /\ query' = query /\ orphans' = orphans /\ isShutdown' = TRUE
      /\ timer' = IF timer = "pending" THEN "done" ELSE timer
      /\ lost' = lost /\ overlapped' = overlapped /\ reopened' = reopened
      /\ network' = {} /\ mirrorChannel' = FALSE
      /\ late' = (late \/ ~ AtRest)
  BY DEF Close
<1>2. QueriesForm'
  BY <1>1 DEF IInv, QueriesForm, QueryForm, Gained
<1>3. StateForm'
  BY <1>1 DEF IInv, StateForm
<1>4. PICK n \in Nat, o \in Nat : n = Cardinality(Looping(query)) /\ o = orphans
  BY RoundsFacts DEF IInv, StateForm
<1>5. timer' # "pending"
  BY <1>1 DEF IInv, StateForm
<1>6. /\ Rounds = n + o + IF timer = "pending" THEN 1 ELSE 0
      /\ Rounds' = n + o
  BY <1>1, <1>2, <1>3, <1>4, <1>5, RoundsFacts, RoundsFactsNext DEF IInv
<1>7. TimersForm'
  BY <1>1, <1>4, <1>6, UpdateAssumption
  DEF IInv, TimersForm, UpdateAssumption
<1>8. OneRoundAtATime'
  BY <1>1, <1>4, <1>6 DEF IInv, OneRoundAtATime
<1>9. ClosedAtRestStaysClosed'
  BY <1>1, <1>5 DEF ClosedAtRestStaysClosed, AtRest
<1>10. QED
  BY <1>2, <1>3, <1>7, <1>8, <1>9 DEF IInv

\* A retry, or a node that a stream delivers: one query changes, no round does.
LEMMA QueryStep ==
    ASSUME IInv, NEW id \in DOMAIN query, NEW q, QueryForm(q),
           q.loop = query[id].loop, q.settled = query[id].settled,
           query' = [query EXCEPT ![id] = q],
           UNCHANGED <<clientVars, historyVars>>, mirrorChannel' \in BOOLEAN
    PROVE  IInv'
<1>1. /\ DOMAIN query' = DOMAIN query
      /\ query' = [x \in DOMAIN query' |-> query'[x]]
      /\ \A x \in DOMAIN query' : query'[x] = IF x = id THEN q ELSE query[x]
  OBVIOUS
<1>2. QueriesForm'
  BY <1>1, QueriesKept DEF IInv
<1>3. StateForm'
  BY <1>1 DEF IInv, StateForm, clientVars, historyVars
<1>4. Looping(query') = Looping(query)
  BY <1>1 DEF Looping
<1>5. TimersForm' /\ OneRoundAtATime'
  BY <1>2, <1>3, <1>4, SameLooping DEF clientVars, historyVars
<1>6. ClosedAtRestStaysClosed'
  BY BusyIsNotAtRest DEF IInv, ClosedAtRestStaysClosed, clientVars, historyVars
<1>7. QED
  BY <1>2, <1>3, <1>5, <1>6 DEF IInv

LEMMA RetryTimerStep ==
    ASSUME IInv, NEW id \in DOMAIN query, RetryTimer(id)
    PROVE  IInv'
<1>1. PICK q : q = Retried(query[id])
  OBVIOUS
<1>2. QueryForm(query[id]) /\ query[id].retries > 0
  BY DEF IInv, QueriesForm, RetryTimer
<1>3. QueryForm(q) /\ q.loop = query[id].loop /\ q.settled = query[id].settled
  BY <1>1, <1>2, RetriedForm
<1>4. query' = [query EXCEPT ![id] = q]
  BY <1>1 DEF RetryTimer
<1>5. QED
  BY <1>3, <1>4, QueryStep DEF RetryTimer

\* What a stream delivers is remembered for the query and for the stream.
LEMMA DeliverStep ==
    ASSUME IInv, NEW id \in DOMAIN query, NEW i \in DOMAIN query[id].streams,
           Deliver(id, i)
    PROVE  IInv'
<1>1. PICK h \in Book \ query[id].streams[i] :
         query' = [query EXCEPT ![id].addresses = @ \cup {h},
                                ![id].streams[i] = @ \cup {h}]
  BY DEF Deliver
<1>2. PICK p : p = query[id] /\ QueryForm(p)
  BY DEF IInv, QueriesForm
<1>3. /\ p \in QueryFields /\ p.addresses \in SUBSET Book
      /\ p.streams \in Seq(SUBSET Book) /\ ~ p.settled
      /\ DOMAIN p.streams = 1..Len(p.streams) /\ Len(p.streams) \in Nat
  BY <1>2 DEF QueryForm, QueryFields, Deliver
<1>4. PICK more \in SUBSET Book : more = p.addresses \cup {h}
  BY <1>1, <1>3
<1>5. PICK sent \in SUBSET Book : sent = p.streams[i] \cup {h}
  <2>1. \A j \in DOMAIN p.streams : p.streams[j] \in SUBSET Book
    BY <1>3
  <2>2. p.streams[i] \in SUBSET Book
    BY <1>2, <2>1
  <2>3. QED
    BY <1>1, <2>2
<1>6. PICK st : st = [p.streams EXCEPT ![i] = sent]
  OBVIOUS
<1>7. PICK S : S = SUBSET Book
  OBVIOUS
<1>8. /\ st \in Seq(S) /\ Len(st) = Len(p.streams)
      /\ \A j \in DOMAIN st : /\ j \in DOMAIN p.streams
                              /\ st[j] = IF j = i THEN sent ELSE p.streams[j]
  <2>1. PICK s \in Seq(S) : s = p.streams
    BY <1>3, <1>7
  <2>2. sent \in S /\ i \in DOMAIN s /\ st = [s EXCEPT ![i] = sent]
    BY <1>2, <1>5, <1>6, <1>7, <2>1
  <2>3. /\ st \in Seq(S) /\ Len(st) = Len(s) /\ DOMAIN st = DOMAIN s
        /\ \A j \in DOMAIN s : st[j] = IF j = i THEN sent ELSE s[j]
    BY <2>2
  <2>4. QED
    BY <2>1, <2>3
<1>9. PICK q : q = [p EXCEPT !.addresses = more, !.streams = st]
  OBVIOUS
<1>10. /\ q \in QueryFields /\ q.addresses = more /\ q.streams = st
       /\ q.loop = p.loop /\ q.settled = p.settled
       /\ q.attempt = p.attempt /\ q.retries = p.retries
  BY <1>3, <1>7, <1>8, <1>9 DEF QueryFields
<1>11. Gained(q, 2)
  BY <1>2, <1>8, <1>10 DEF QueryForm, Gained
<1>12. \A j \in DOMAIN q.streams : q.streams[j] \subseteq q.addresses
  <2> SUFFICES ASSUME NEW j \in DOMAIN st
               PROVE  st[j] \subseteq more
    BY <1>10
  <2>1. /\ j \in DOMAIN p.streams
        /\ st[j] = IF j = i THEN sent ELSE p.streams[j]
    BY <1>8
  <2>2. i \in DOMAIN p.streams
    BY <1>2
  <2>3. \A k \in DOMAIN p.streams : p.streams[k] \subseteq p.addresses
    BY <1>2, <1>3 DEF QueryForm
  <2>4. QED
    BY <1>4, <1>5, <2>1, <2>2, <2>3
<1>13. query' = [query EXCEPT ![id] = q]
  <2>1. query' = [query EXCEPT ![id] =
                     [query[id] EXCEPT !.addresses = @ \cup {h},
                                       !.streams[i] = @ \cup {h}]]
    BY <1>1
  <2>2. [query[id] EXCEPT !.addresses = @ \cup {h}, !.streams[i] = @ \cup {h}] = q
    BY <1>2, <1>4, <1>5, <1>6, <1>9
  <2>3. QED
    BY <2>1, <2>2
<1>14. mirrorChannel' \in BOOLEAN
  BY DEF IInv, StateForm, Deliver
<1>15. QED
  BY <1>2, <1>10, <1>11, <1>12, <1>13, <1>14, QueryStep DEF QueryForm, Deliver


\* The stream that ends belongs to a query that is settled.
LEMMA EndSettledStep ==
    ASSUME IInv, NEW id \in DOMAIN query, NEW i \in DOMAIN query[id].streams,
           EndSettled(id, i)
    PROVE  IInv'
<1>1. PICK q : q = Ended(query[id], i)
  OBVIOUS
<1>2. QueryForm(q) /\ q.settled
  BY <1>1, EndedForm DEF IInv, QueriesForm, EndSettled
<1>3. Remember(id, q)
  BY <1>1 DEF EndSettled
<1>4. UNCHANGED <<clientVars, mirrorChannel, historyVars>> /\ query[id].settled
  BY DEF EndSettled
<1>5. /\ DOMAIN query' \subseteq DOMAIN query /\ DOMAIN query \ {id} \subseteq DOMAIN query'
      /\ query' = [x \in DOMAIN query' |-> query'[x]]
      /\ \A x \in DOMAIN query' : query'[x] = IF x = id THEN q ELSE query[x]
  BY <1>3, RememberFacts DEF IInv
<1>6. QueriesForm'
  BY <1>2, <1>5, QueriesKept DEF IInv
<1>7. StateForm'
  BY <1>4, <1>5 DEF IInv, StateForm, clientVars, historyVars
<1>8. Looping(query') = Looping(query)
  BY <1>2, <1>4, <1>5 DEF Looping
<1>9. TimersForm' /\ OneRoundAtATime'
  BY <1>4, <1>6, <1>7, <1>8, SameLooping DEF clientVars, historyVars
<1>10. ClosedAtRestStaysClosed'
  BY <1>4, BusyIsNotAtRest DEF IInv, ClosedAtRestStaysClosed, clientVars, historyVars
<1>11. QED
  BY <1>6, <1>7, <1>9, <1>10 DEF IInv

\* The query that a promise leaves behind is settled.
LEMMA SettlesQuery ==
    ASSUME IInv, NEW id \in DOMAIN query, NEW i \in DOMAIN query[id].streams,
           ~ query[id].settled, Remember(id, Settled(Ended(query[id], i)))
    PROVE  /\ DOMAIN query' \subseteq DOMAIN query
           /\ QueriesForm'
           /\ Looping(query') = Looping(query) \ {id}
           /\ id \in Looping(query) <=> query[id].loop
<1>1. PICK q : q = Settled(Ended(query[id], i))
  OBVIOUS
<1>2. QueryForm(q) /\ q.settled
  <2>1. QueryForm(Ended(query[id], i))
    BY EndedForm DEF IInv, QueriesForm
  <2>2. QED
    BY <1>1, <2>1, SettledForm
<1>3. /\ DOMAIN query' \subseteq DOMAIN query /\ DOMAIN query \ {id} \subseteq DOMAIN query'
      /\ query' = [x \in DOMAIN query' |-> query'[x]]
      /\ \A x \in DOMAIN query' : query'[x] = IF x = id THEN q ELSE query[x]
  BY <1>1, RememberFacts DEF IInv
<1>4. QueriesForm'
  BY <1>2, <1>3, QueriesKept DEF IInv
<1>5. Looping(query') = Looping(query) \ {id}
  BY <1>2, <1>3 DEF Looping
<1>6. id \in Looping(query) <=> query[id].loop
  BY DEF Looping
<1>7. QED
  BY <1>3, <1>4, <1>5, <1>6

\* The addresses of a query whose stream has sent the book are the book.
LEMMA InstallsBook ==
    ASSUME IInv, NEW id \in DOMAIN query, NEW i \in DOMAIN query[id].streams,
           Ends(id, i)
    PROVE  query[id].addresses = Book
<1>1. QueryForm(query[id]) /\ ~ query[id].settled /\ query[id].streams[i] = Book
  BY DEF IInv, QueriesForm, Ends
<1>2. Book \subseteq query[id].addresses
  BY <1>1 DEF QueryForm
<1>3. query[id].addresses \subseteq Book
  BY <1>1 DEF QueryForm, QueryFields
<1>4. QED
  BY <1>2, <1>3

\* The query of a round makes place for the timer of the next.
LEMMA InstallStep ==
    ASSUME IInv, NEW id \in DOMAIN query, NEW i \in DOMAIN query[id].streams,
           Install(id, i)
    PROVE  IInv'
<1>1. /\ ~ query[id].settled /\ network' = query[id].addresses
      /\ Reschedule(query[id].loop)
      /\ UNCHANGED <<isShutdown, mirrorChannel, historyVars>>
      /\ query[id].loop \in BOOLEAN
  BY DEF IInv, QueriesForm, QueryForm, QueryFields, Install, Ends
<1>2. /\ DOMAIN query' \subseteq DOMAIN query /\ QueriesForm'
      /\ Looping(query') = Looping(query) \ {id}
      /\ id \in Looping(query) <=> query[id].loop
  BY <1>1, SettlesQuery DEF Install
<1>3. network' = Book
  BY <1>1, InstallsBook DEF Install
<1>4. ClosedAtRestStaysClosed'
  BY <1>1, BusyIsNotAtRest DEF IInv, ClosedAtRestStaysClosed, historyVars
<1>5. CASE query[id].loop /\ ~ isShutdown
  <2>1. /\ timer' = "pending"
        /\ orphans' = IF timer = "pending" THEN orphans + 1 ELSE orphans
    BY <1>1, <1>5 DEF Reschedule, Schedule
  <2>2. StateForm'
    BY <1>1, <1>2, <1>3, <2>1 DEF IInv, StateForm, historyVars
  <2>3. PICK n \in Nat, o \in Nat : n = Cardinality(Looping(query)) /\ o = orphans
    BY RoundsFacts DEF IInv, StateForm
  <2>4. n \in Nat \ {0} /\ Cardinality(Looping(query')) = n - 1
    <3>1. id \in Looping(query) /\ IsFiniteSet(Looping(query))
      BY <1>2, <1>5, RoundsFacts DEF IInv
    <3>2. Cardinality(Looping(query')) = n - 1
      BY <1>2, <2>3, <3>1, FS_RemoveElement
    <3>3. IsFiniteSet(Looping(query')) /\ Cardinality(Looping(query')) \in Nat
      BY <1>2, <3>1, FS_RemoveElement, FS_CardinalityType
    <3>4. QED
      BY <2>3, <3>2, <3>3
  <2>5. /\ Rounds = n + o + IF timer = "pending" THEN 1 ELSE 0
        /\ Rounds' = (n - 1) + orphans' + 1
    BY <1>2, <2>1, <2>2, <2>3, <2>4, RoundsFacts, RoundsFactsNext DEF IInv, StateForm
  <2>6. Rounds' = Rounds
    BY <2>1, <2>3, <2>4, <2>5
  <2>7. TimersForm'
    BY <1>1, <2>1, <2>3, <2>4, <2>5, <2>6, UpdateAssumption
    DEF IInv, TimersForm, OneRoundAtATime, StateForm, historyVars, UpdateAssumption
  <2>8. OneRoundAtATime'
    BY <1>1, <2>6 DEF IInv, OneRoundAtATime, historyVars
  <2>9. QED
    BY <1>2, <1>4, <2>2, <2>7, <2>8 DEF IInv
<1>6. CASE ~ (query[id].loop /\ ~ isShutdown)
  <2>1. timer' = timer /\ orphans' = orphans
    BY <1>1, <1>6 DEF Reschedule
  <2>2. StateForm'
    BY <1>1, <1>2, <1>3, <2>1 DEF IInv, StateForm, historyVars
  <2>3. CASE id \in Looping(query)
    <3>1. isShutdown
      BY <1>2, <1>6, <2>3
    <3>2. TimersForm' /\ OneRoundAtATime'
      BY <1>1, <1>2, <2>1, <2>2, <2>3, <3>1, RoundLost DEF historyVars
    <3>3. QED
      BY <1>2, <1>4, <2>2, <3>2 DEF IInv
  <2>4. CASE id \notin Looping(query)
    <3>1. Looping(query') = Looping(query)
      BY <1>2, <2>4
    <3>2. TimersForm' /\ OneRoundAtATime'
      BY <1>1, <1>2, <2>1, <2>2, <3>1, SameLooping DEF historyVars
    <3>3. QED
      BY <1>2, <1>4, <2>2, <3>2 DEF IInv
  <2>5. QED
    BY <2>3, <2>4
<1>7. QED
  BY <1>5, <1>6

LEMMA InstallThrowsStep ==
    ASSUME IInv, NEW id \in DOMAIN query, NEW i \in DOMAIN query[id].streams,
           InstallThrows(id, i)
    PROVE  IInv'
<1>1. /\ ~ query[id].settled /\ network' \in SUBSET network
      /\ lost' = (lost \/ query[id].loop) /\ query[id].loop \in BOOLEAN
      /\ UNCHANGED <<isShutdown, timer, orphans, mirrorChannel>>
      /\ UNCHANGED <<overlapped, late, reopened>>
  BY DEF IInv, QueriesForm, QueryForm, QueryFields, InstallThrows, Ends
<1>2. /\ DOMAIN query' \subseteq DOMAIN query /\ QueriesForm'
      /\ Looping(query') = Looping(query) \ {id}
      /\ id \in Looping(query) <=> query[id].loop
  BY <1>1, SettlesQuery DEF InstallThrows
<1>3. StateForm'
  BY <1>1, <1>2 DEF IInv, StateForm
<1>4. ClosedAtRestStaysClosed'
  BY <1>1, BusyIsNotAtRest DEF IInv, ClosedAtRestStaysClosed
<1>5. TimersForm' /\ OneRoundAtATime'
  <2>1. CASE id \in Looping(query)
    BY <1>1, <1>2, <1>3, <2>1, RoundLost
  <2>2. CASE id \notin Looping(query)
    <3>1. Looping(query') = Looping(query)
      BY <1>2, <2>2
    <3>2. lost => lost'
      BY <1>1
    <3>3. QED
      BY <1>1, <1>2, <1>3, <3>1, <3>2, SameLooping
  <2>3. QED
    BY <2>1, <2>2
<1>6. QED
  BY <1>2, <1>3, <1>4, <1>5 DEF IInv

\* A failure that is not retried ends the round, which `lost' remembers.
LEMMA FailStep ==
    ASSUME IInv, NEW id \in DOMAIN query, NEW i \in DOMAIN query[id].streams,
           Fail(id, i)
    PROVE  IInv'
<1>1. PICK retryable \in BOOLEAN :
         LET r == FailedTwice(Ended(query[id], i), retryable)
         IN  /\ lost' = (lost \/ (r.loop /\ r.settled /\ ~ query[id].settled))
             /\ Remember(id, r)
  BY DEF Fail
<1>2. PICK q : q = FailedTwice(Ended(query[id], i), retryable)
  OBVIOUS
<1>3. UNCHANGED <<clientVars, mirrorChannel, overlapped, late, reopened>>
  BY DEF Fail
<1>4. /\ QueryForm(q) /\ q.loop = query[id].loop
      /\ ~ q.settled => ~ query[id].settled /\ q.retries > 0
  BY <1>1, <1>2, FailedTwiceForm DEF IInv, QueriesForm
<1>5. /\ DOMAIN query' = IF IsQuiet(q) THEN DOMAIN query \ {id} ELSE DOMAIN query
      /\ query' = [x \in DOMAIN query' |-> query'[x]]
      /\ \A x \in DOMAIN query' : query'[x] = IF x = id THEN q ELSE query[x]
  BY <1>1, <1>2, RememberFacts DEF IInv
<1>6. DOMAIN query' \subseteq DOMAIN query /\ DOMAIN query \ {id} \subseteq DOMAIN query'
  BY <1>5
<1>7. QueriesForm'
  BY <1>4, <1>5, <1>6, QueriesKept DEF IInv
<1>8. q.loop \in BOOLEAN /\ q.settled \in BOOLEAN /\ query[id].settled \in BOOLEAN
  BY <1>4 DEF IInv, QueriesForm, QueryForm, QueryFields
<1>9. StateForm'
  BY <1>1, <1>2, <1>3, <1>6, <1>8 DEF IInv, StateForm, clientVars
<1>10. lost => lost'
  BY <1>1
<1>11. ASSUME q.settled
       PROVE  TimersForm' /\ OneRoundAtATime'
  <2>1. Looping(query') = Looping(query) \ {id}
    BY <1>5, <1>6, <1>11 DEF Looping
  <2>2. CASE id \in Looping(query)
    <3>1. lost'
      BY <1>1, <1>2, <1>4, <1>11, <2>2 DEF Looping
    <3>2. QED
      BY <1>3, <1>7, <1>9, <2>1, <2>2, <3>1, RoundLost DEF clientVars
  <2>3. CASE id \notin Looping(query)
    <3>1. Looping(query') = Looping(query)
      BY <2>1, <2>3
    <3>2. QED
      BY <1>3, <1>7, <1>9, <1>10, <3>1, SameLooping DEF clientVars
  <2>4. QED
    BY <2>2, <2>3
<1>12. ASSUME ~ q.settled
       PROVE  TimersForm' /\ OneRoundAtATime'
  <2>1. ~ IsQuiet(q)
    BY <1>4, <1>12 DEF IsQuiet
  <2>2. Looping(query') = Looping(query)
    BY <1>4, <1>5, <1>12, <2>1 DEF Looping
  <2>3. QED
    BY <1>3, <1>7, <1>9, <1>10, <2>2, SameLooping DEF clientVars
<1>13. ClosedAtRestStaysClosed'
  BY <1>3, BusyIsNotAtRest DEF IInv, ClosedAtRestStaysClosed, clientVars
<1>14. QED
  BY <1>7, <1>9, <1>11, <1>12, <1>13 DEF IInv

LEMMA NextIInv == IInv /\ [Next]_vars => IInv'
<1> SUFFICES ASSUME IInv, [Next]_vars
             PROVE  IInv'
  OBVIOUS
<1>1. CASE UNCHANGED vars
  <2>1. UNCHANGED <<network, isShutdown, timer, orphans, mirrorChannel, query>>
        /\ UNCHANGED <<lost, overlapped, late, reopened>>
    BY <1>1 DEF vars, clientVars, historyVars
  <2>2. StateForm' /\ QueriesForm'
    BY <2>1 DEF IInv, StateForm, QueriesForm, QueryForm, Gained
  <2>3. TimersForm' /\ OneRoundAtATime'
    BY <2>1, <2>2, SameLooping
  <2>4. ClosedAtRestStaysClosed'
    BY <2>1 DEF IInv, ClosedAtRestStaysClosed, AtRest
  <2>5. QED
    BY <2>2, <2>3, <2>4 DEF IInv
<1>2. CASE \E id \in DOMAIN query : RetryTimer(id) \/ Serve(id)
  <2>1. PICK id \in DOMAIN query : RetryTimer(id) \/ Serve(id)
    BY <1>2
  <2>2. CASE Serve(id)
    BY <2>2, DeliverStep, EndSettledStep, InstallStep, InstallThrowsStep, FailStep
    DEF Serve
  <2>3. QED
    BY <2>1, <2>2, RetryTimerStep
<1>3. QED
  BY <1>1, <1>2, FireTimerStep, SetNetworkUpdatePeriodStep, SetMirrorNetworkStep,
     CloseStep DEF Next

-----------------------------------------------------------------------------
(* The results *)

\* The invariant holds in every state that timers, streams, failures, new
\* periods and close() reach, in any order.
THEOREM Invariance == Spec => []IInv
BY InitIInv, NextIInv, PTL DEF Spec

\* Every variable keeps its type, and although one failure of a stream schedules
\* two retries, the streams and retries of a query stay bounded by its attempts.
THEOREM QueriesBounded == Spec => []UpdateInv
<1>1. ASSUME IInv
      PROVE  UpdateInv
  <2>1. orphans \in 0..MaxRounds
    <3>1. PICK n \in Nat : n = Cardinality(Looping(query)) /\ Rounds = Pending + n
      BY <1>1, RoundsFacts DEF IInv
    <3>2. Pending = orphans + IF timer = "pending" THEN 1 ELSE 0
      BY <1>1, RoundsFacts DEF IInv
    <3>3. QED
      BY <1>1, <3>1, <3>2, UpdateAssumption
      DEF IInv, TimersForm, StateForm, UpdateAssumption
  <2>2. query \in [DOMAIN query -> QueryFields]
    BY <1>1 DEF IInv, QueriesForm, QueryForm
  <2>3. TypeOK
    BY <1>1, <2>1, <2>2 DEF IInv, StateForm, TypeOK
  <2>4. QueryStreamsBounded
    BY <1>1, GainedBounds DEF IInv, QueriesForm, QueryForm, QueryStreamsBounded
  <2>5. QED
    BY <2>3, <2>4 DEF UpdateInv
<1>2. QED
  BY <1>1, Invariance, PTL

\* _scheduleNetworkUpdate neither loses its round nor starts a second one: until
\* close() or a failed round one timer or query is under way, and two only if the
\* period was set during a query.
THEOREM OneRound == Spec => []OneRoundAtATime
<1>1. IInv => OneRoundAtATime
  BY DEF IInv
<1>2. QED
  BY <1>1, Invariance, PTL

\* What close() found at rest stays closed: no timer fires, no stream opens a
\* channel and no book is installed any more.
THEOREM ClosedStaysClosed == Spec => []ClosedAtRestStaysClosed
<1>1. IInv => ClosedAtRestStaysClosed
  BY DEF IInv
<1>2. QED
  BY <1>1, Invariance, PTL

\* A round installs the whole book, although the streams of its query overlap,
\* break off and share the list of addresses.
THEOREM WholeBook == Spec => WholeBookInstalled
<1>1. IInv /\ [Next]_vars =>
          [\A id \in DOMAIN query : \A i \in DOMAIN query[id].streams :
              Install(id, i) => network' = Book]_vars
  BY InstallsBook DEF Install
<1>2. QED
  BY <1>1, Invariance, PTL DEF Spec, WholeBookInstalled
=============================================================================
