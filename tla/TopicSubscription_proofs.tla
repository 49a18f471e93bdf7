----------------------- MODULE TopicSubscription_proofs -----------------------
(***************************************************************************)
(* Invariance proofs about TopicSubscription: types, the bound on streams, *)
(* no message lost before the resume point, no chunked message mangled.    *)
(***************************************************************************)
EXTENDS TopicSubscription, Functions, FiniteSetTheorems, SequenceTheorems, TLAPS

\* Every attempt that was made has opened a stream or has its timer pending.
AttemptsCount == Len(streams) > 0 /\ Len(streams) + timers = 1 + attempt

PassedUpTo(n) ==
    \A m \in Message :
        Topic[m] = Single /\ StartTime <= m /\ m < n => <<m>> \in passed

\* Nothing is missing before the place any stream has reached, nor before the
\* place where the next one will begin.
Resumable ==
    StartTime > 0 =>
        /\ startTime > 0
        /\ PassedUpTo(startTime)
        /\ \A i \in DOMAIN streams : PassedUpTo(streams[i].next)

\* The chunks a stream has kept of one message are chunks of it, all before the
\* place it has reached and each there once.
Collected(q, t, n) ==
    /\ \A k \in 1..Len(q) : q[k] \in Chunks(t) /\ q[k] < n
    /\ \A j, k \in 1..Len(q) : q[j] = q[k] => j = k
StreamOK(s) ==
    /\ s.next > 0
    /\ \A t \in Transaction : Collected(s.chunks[t], t, s.next)
ChunksInOrder == \A i \in DOMAIN streams : StreamOK(streams[i])

Whole(q) ==
    LET t == Topic[q[1]]
    IN  IF t = Single THEN Len(q) = 1
        ELSE /\ {q[k] : k \in DOMAIN q} = Chunks(t)
             /\ Len(q) = Cardinality(Chunks(t))

IInv ==
    /\ TypeOK
    /\ AttemptsCount
    /\ Resumable
    /\ ChunksInOrder
    /\ PassedMessagesAreWhole

-----------------------------------------------------------------------------
(* Facts about the constants, chunks and streams *)

LEMMA ConstantTypes ==
    /\ StartTime \in Nat /\ EndTime \in Nat /\ Limit \in Nat /\ MaxAttempts \in Nat
    /\ Len(Topic) \in Nat
    /\ \A m \in Message : m \in Nat \ {0} /\ Topic[m] \in Transaction \cup {Single}
    /\ Single \notin Transaction
BY TopicAssumption DEF TopicAssumption, Message

LEMMA ChunksFinite ==
    ASSUME NEW t
    PROVE  IsFiniteSet(Chunks(t)) /\ Cardinality(Chunks(t)) \in Nat
<1>1. IsFiniteSet(Message)
  BY ConstantTypes, FS_Interval DEF Message
<1>2. Chunks(t) \in SUBSET Message
  BY DEF Chunks
<1>3. QED
  BY <1>1, <1>2, FS_Subset, FS_CardinalityType

\* As many different chunks of a message as it has are all of its chunks.
LEMMA CompleteIsWhole ==
    ASSUME NEW t, NEW n \in Nat, NEW q \in Seq(Message),
           Collected(q, t, n), IsComplete(q, t)
    PROVE  {q[k] : k \in DOMAIN q} = Chunks(t) /\ Len(q) = Cardinality(Chunks(t))
<1> DEFINE I == 1..Len(q)
<1>1. Len(q) \in Nat /\ DOMAIN q = I /\ q = [k \in I |-> q[k]]
  OBVIOUS
<1>2. q \in Injection(I, Chunks(t))
  BY <1>1 DEF Collected, Injection, IsInjective
<1>3. Len(q) = Cardinality(Chunks(t))
  BY DEF IsComplete
<1>4. Cardinality(I) = Len(q)
  BY <1>1, FS_Interval
<1>5. q \in Surjection(I, Chunks(t))
  BY <1>2, <1>3, <1>4, ChunksFinite, FS_Injection
<1>6. QED
  BY <1>1, <1>3, <1>5 DEF Surjection

LEMMA NewStreamFacts ==
    ASSUME TypeOK
    PROVE  /\ NewStream(streams) \in StreamFields
           /\ NewStream(streams).next =
                IF startTime = 0 THEN published + 1 ELSE startTime
           /\ NewStream(streams).next > 0
           /\ \A t \in Transaction : NewStream(streams).chunks[t] = <<>>
BY ConstantTypes DEF TypeOK, NewStream, NewChunks, StreamFields, Unlimited

LEMMA EndedFacts ==
    ASSUME TypeOK, NEW i \in DOMAIN streams, Ended(i)
    PROVE  /\ streams' \in Seq(StreamFields)
           /\ Len(streams') = Len(streams)
           /\ DOMAIN streams' = DOMAIN streams
           /\ \A k \in DOMAIN streams :
                 /\ streams'[k].next = streams[k].next
                 /\ streams'[k].chunks = streams[k].chunks
<1> DEFINE e == [streams[i] EXCEPT !.open = FALSE]
<1>1. streams \in Seq(StreamFields) /\ i \in 1..Len(streams)
      /\ DOMAIN streams = 1..Len(streams)
  BY LenProperties DEF TypeOK
<1>2. streams[i] \in StreamFields
  BY <1>1, ElementOfSeq
<1>3. e \in StreamFields /\ e.next = streams[i].next /\ e.chunks = streams[i].chunks
  BY <1>2 DEF StreamFields
<1>4. streams' = [streams EXCEPT ![i] = e]
  BY <1>1 DEF Ended
<1> HIDE DEF e
<1>5. QED
  BY <1>1, <1>3, <1>4, ExceptSeq, LenProperties

\* Ending a stream keeps what depends on places and chunks only.
LEMMA EndedKeeps ==
    ASSUME IInv, NEW i \in DOMAIN streams, Ended(i), UNCHANGED <<startTime, passed>>
    PROVE  Resumable' /\ ChunksInOrder' /\ PassedMessagesAreWhole'
<1>1. DOMAIN streams' = DOMAIN streams
      /\ \A k \in DOMAIN streams : streams'[k].next = streams[k].next
                                   /\ streams'[k].chunks = streams[k].chunks
  BY EndedFacts DEF IInv
<1>2. Resumable'
  BY <1>1 DEF IInv, Resumable, PassedUpTo
<1>3. ChunksInOrder'
  BY <1>1 DEF IInv, ChunksInOrder, StreamOK
<1>4. PassedMessagesAreWhole'
  BY DEF IInv, PassedMessagesAreWhole
<1>5. QED
  BY <1>2, <1>3, <1>4

LEMMA RetryTimerFacts ==
    ASSUME TypeOK, RetryTimer
    PROVE  /\ streams' \in Seq(StreamFields)
           /\ Len(streams') = Len(streams) + 1
           /\ DOMAIN streams' = 1..(Len(streams) + 1)
           /\ \A k \in DOMAIN streams : streams'[k] = streams[k]
           /\ DOMAIN streams = 1..Len(streams)
           /\ streams'[Len(streams) + 1] = NewStream(streams)
<1>1. streams \in Seq(StreamFields) /\ NewStream(streams) \in StreamFields
  BY NewStreamFacts DEF TypeOK
<1>2. streams' = Append(streams, NewStream(streams))
  BY DEF RetryTimer
<1>3. QED
  BY <1>1, <1>2, AppendProperties, LenProperties

-----------------------------------------------------------------------------
(* The initial state *)

THEOREM InitIInv == Init => IInv
<1> SUFFICES ASSUME Init PROVE IInv
  OBVIOUS
<1> DEFINE s == NewStream(<<>>)
<1>0. /\ startTime = StartTime /\ limit = Limit /\ published \in {0} \cup Message
      /\ attempt = 0 /\ timers = 0 /\ passed = {} /\ received = 0
      /\ unsubscribed = FALSE /\ call = 1
  BY DEF Init
<1>1. startTime \in Nat /\ limit \in 0..Limit /\ published \in 0..Len(Topic)
  BY <1>0, ConstantTypes DEF Message
<1>2. /\ s \in StreamFields /\ s.next > 0
      /\ s.next = IF startTime = 0 THEN published + 1 ELSE startTime
      /\ \A t \in Transaction : s.chunks[t] = <<>>
  BY <1>1, ConstantTypes DEF NewStream, NewChunks, StreamFields, Unlimited
<1>3. streams = <<s>>
  BY DEF Init
<1> HIDE DEF s
<1>4. streams \in Seq(StreamFields) /\ Len(streams) = 1 /\ DOMAIN streams = {1}
      /\ streams[1] = s
  BY <1>2, <1>3
<1>5. TypeOK
  <2>1. attempt \in 0..MaxAttempts /\ timers \in Nat /\ received \in Nat
    BY <1>0, ConstantTypes
  <2>2. unsubscribed \in BOOLEAN /\ passed \subseteq Seq(Message)
    BY <1>0
  <2>3. QED
    BY <1>0, <1>1, <1>4, <2>1, <2>2 DEF TypeOK
<1>6. AttemptsCount
  BY <1>0, <1>4 DEF AttemptsCount
<1>7. Resumable
  BY <1>0, <1>1, <1>2, <1>4, ConstantTypes DEF Resumable, PassedUpTo
<1>8. ChunksInOrder
  BY <1>2, <1>4 DEF ChunksInOrder, StreamOK, Collected
<1>9. PassedMessagesAreWhole
  BY <1>0 DEF PassedMessagesAreWhole
<1>10. QED
  BY <1>5, <1>6, <1>7, <1>8, <1>9 DEF IInv

-----------------------------------------------------------------------------
(* Each action *)

LEMMA RetryTimerStep == IInv /\ RetryTimer => IInv'
<1> SUFFICES ASSUME IInv, RetryTimer PROVE IInv'
  OBVIOUS
<1> DEFINE n == Len(streams) + 1
           s == NewStream(streams)
<1>1. /\ streams' \in Seq(StreamFields) /\ Len(streams') = n
      /\ DOMAIN streams = 1..Len(streams) /\ DOMAIN streams' = 1..n
      /\ \A k \in DOMAIN streams : streams'[k] = streams[k]
      /\ streams'[n] = s
  BY RetryTimerFacts DEF IInv
<1>2. /\ s.next > 0 /\ s.next = IF startTime = 0 THEN published + 1 ELSE startTime
      /\ \A t \in Transaction : s.chunks[t] = <<>>
  BY NewStreamFacts DEF IInv
<1> HIDE DEF s
<1>3. Len(streams) \in Nat /\ timers > 0 /\ timers \in Nat
  BY DEF IInv, TypeOK, RetryTimer
<1>4. \A k \in DOMAIN streams' : k \in DOMAIN streams \/ k = n
  BY <1>1, <1>3
<1>5. TypeOK'
  BY <1>1, <1>3 DEF IInv, TypeOK, RetryTimer, queryVars, historyVars
<1>6. AttemptsCount'
  BY <1>1, <1>3 DEF IInv, TypeOK, AttemptsCount, RetryTimer, queryVars
<1>7. Resumable'
  BY <1>1, <1>2, <1>4 DEF IInv, Resumable, PassedUpTo, RetryTimer, queryVars, historyVars
<1>8. StreamOK(s)
  BY <1>2 DEF StreamOK, Collected
<1>9. ChunksInOrder'
  BY <1>1, <1>4, <1>8 DEF IInv, ChunksInOrder
<1>10. PassedMessagesAreWhole'
  BY DEF IInv, PassedMessagesAreWhole, RetryTimer, historyVars
<1>11. QED
  BY <1>5, <1>6, <1>7, <1>9, <1>10 DEF IInv

LEMMA FailStep == ASSUME NEW i \in DOMAIN streams PROVE IInv /\ Fail(i) => IInv'
<1> SUFFICES ASSUME IInv, Fail(i) PROVE IInv'
  OBVIOUS
<1>1. Ended(i) /\ UNCHANGED <<startTime, passed>>
  BY DEF Fail
<1>2. streams' \in Seq(StreamFields) /\ Len(streams') = Len(streams)
  BY <1>1, EndedFacts DEF IInv
<1>3. PICK n \in 0..2 : /\ attempt' = attempt + n /\ timers' = timers + n
                        /\ attempt + n <= MaxAttempts
  BY ConstantTypes DEF Fail, IInv, TypeOK, Attempts, Retries, CanRetry
<1>4. TypeOK'
  BY <1>1, <1>2, <1>3, ConstantTypes DEF IInv, TypeOK, Fail, handleVars
<1>5. AttemptsCount'
  BY <1>2, <1>3 DEF IInv, TypeOK, AttemptsCount
<1>6. QED
  BY <1>1, <1>4, <1>5, EndedKeeps DEF IInv

LEMMA CompleteStep == ASSUME NEW i \in DOMAIN streams PROVE IInv /\ Complete(i) => IInv'
<1> SUFFICES ASSUME IInv, Complete(i) PROVE IInv'
  OBVIOUS
<1>1. /\ Ended(i)
      /\ UNCHANGED <<published, queryVars, handleVars, timers, historyVars>>
  BY DEF Complete
<1>2. streams' \in Seq(StreamFields) /\ Len(streams') = Len(streams)
  BY <1>1, EndedFacts DEF IInv
<1>3. TypeOK' /\ AttemptsCount'
  BY <1>1, <1>2 DEF IInv, TypeOK, AttemptsCount, queryVars, handleVars, historyVars
<1>4. UNCHANGED <<startTime, passed>>
  BY <1>1 DEF queryVars, historyVars
<1>5. QED
  BY <1>1, <1>3, <1>4, EndedKeeps DEF IInv

LEMMA UnsubscribeStep == IInv /\ Unsubscribe => IInv'
<1> SUFFICES ASSUME IInv, Unsubscribe PROVE IInv'
  OBVIOUS
<1>1. /\ Ended(call) /\ unsubscribed' = TRUE
      /\ UNCHANGED <<published, queryVars, call, timers, historyVars>>
  BY DEF Unsubscribe
<1>2. Len(streams) \in Nat \ {0} /\ DOMAIN streams = 1..Len(streams)
  BY LenProperties DEF IInv, TypeOK, AttemptsCount
<1>3. call \in DOMAIN streams
  BY <1>2 DEF IInv, TypeOK
<1>4. streams' \in Seq(StreamFields) /\ Len(streams') = Len(streams)
  BY <1>1, <1>3, EndedFacts DEF IInv
<1>5. TypeOK' /\ AttemptsCount'
  BY <1>1, <1>4 DEF IInv, TypeOK, AttemptsCount, queryVars, historyVars
<1>6. UNCHANGED <<startTime, passed>>
  BY <1>1 DEF queryVars, historyVars
<1>7. QED
  BY <1>1, <1>3, <1>5, <1>6, EndedKeeps DEF IInv

\* What a stream has collected when one more chunk of a message arrives.
LEMMA CollectedMore ==
    ASSUME NEW t, NEW m \in Message, Topic[m] = t,
           NEW q \in Seq(Message), Collected(q, t, m)
    PROVE  /\ Append(q, m) \in Seq(Message)
           /\ Collected(Append(q, m), t, m + 1)
<1> DEFINE p == Append(q, m)
<1>1. /\ p \in Seq(Message) /\ Len(p) = Len(q) + 1 /\ Len(q) \in Nat
      /\ \A k \in 1..Len(q) : p[k] = q[k] /\ q[k] \in Message
      /\ p[Len(q) + 1] = m
  BY AppendProperties, LenProperties
<1>2. m \in Nat /\ Message \subseteq Nat /\ m \in Chunks(t)
  BY ConstantTypes DEF Chunks
<1>3. \A k \in 1..Len(p) : k \in 1..Len(q) \/ k = Len(q) + 1
  BY <1>1
<1> HIDE DEF p
<1>4. \A k \in 1..Len(p) : p[k] \in Chunks(t) /\ p[k] < m + 1
  <2>1. \A k \in 1..Len(q) : q[k] \in Chunks(t) /\ q[k] < m /\ q[k] \in Nat
    BY <1>1, <1>2 DEF Collected
  <2>2. m < m + 1 /\ \A x \in Nat : x < m => x < m + 1
    BY <1>2
  <2>3. QED
    BY <1>1, <1>2, <1>3, <2>1, <2>2
<1>5. \A k \in 1..Len(q) : p[k] # m
  BY <1>1, <1>2 DEF Collected
<1>6. \A j, k \in 1..Len(p) : p[j] = p[k] => j = k
  BY <1>1, <1>3, <1>5 DEF Collected
<1>7. Collected(p, t, m + 1)
  BY <1>4, <1>6 DEF Collected
<1>8. QED
  BY <1>1, <1>7 DEF p

LEMMA CollectedLater ==
    ASSUME NEW t, NEW n \in Nat, NEW q \in Seq(Message), Collected(q, t, n)
    PROVE  Collected(q, t, n + 1)
<1>1. \A k \in 1..Len(q) : q[k] \in Nat
  BY LenProperties, ConstantTypes
<1>2. QED
  BY <1>1 DEF Collected

LEMMA WithChunks ==
    ASSUME NEW s \in StreamFields, NEW t \in Transaction, NEW q \in Seq(Message)
    PROVE  LET e == [s EXCEPT !.chunks[t] = q]
           IN  /\ e \in StreamFields /\ e.next = s.next
               /\ e.chunks = [s.chunks EXCEPT ![t] = q]
               /\ DOMAIN s.chunks = Transaction
<1> DEFINE e == [s EXCEPT !.chunks[t] = q]
<1>1. [s.chunks EXCEPT ![t] = q] \in [Transaction -> Seq(Message)]
  BY DEF StreamFields
<1>2. e = [s EXCEPT !.chunks = [s.chunks EXCEPT ![t] = q]]
  BY DEF StreamFields
<1> HIDE DEF e
<1>3. e \in StreamFields /\ e.next = s.next /\ e.chunks = [s.chunks EXCEPT ![t] = q]
  BY <1>1, <1>2 DEF StreamFields
<1>4. QED
  BY <1>3 DEF e, StreamFields

\* The stream a message leaves behind, and what the listener got.
LEMMA HandledFacts ==
    ASSUME IInv, NEW i \in DOMAIN streams, Deliver(i)
    PROVE  LET m == streams[i].next
           IN  /\ m \in Message
               /\ passed \subseteq passed' /\ passed' \subseteq Seq(Message)
               /\ Topic[m] = Single => <<m>> \in passed'
               /\ \A q \in passed' : Whole(q)
               /\ \E e \in StreamFields :
                     /\ streams' = [streams EXCEPT ![i] = e]
                     /\ e.next = m + 1
                     /\ \A u \in Transaction : Collected(e.chunks[u], u, m + 1)
<1> DEFINE m == streams[i].next
           t == Topic[m]
           s == [streams[i] EXCEPT !.next = @ + 1, !.quota = @ - 1]
           q == Append(s.chunks[t], m)
<1>1. streams \in Seq(StreamFields) /\ streams[i] \in StreamFields
  BY ElementOfSeq, LenProperties DEF IInv, TypeOK
<1>2. m \in Message /\ m \in Nat /\ t \in Transaction \cup {Single}
  <2>1. m \in Nat /\ m > 0 /\ m <= published /\ published \in 0..Len(Topic)
    BY <1>1 DEF IInv, TypeOK, ChunksInOrder, StreamOK, Deliver, CanDeliver, StreamFields
  <2>2. QED
    BY <2>1, ConstantTypes DEF Message
<1>3. streams[i].quota \in Nat /\ streams[i].quota > 0
  BY <1>1 DEF Deliver, CanDeliver, StreamFields
<1>4. s \in StreamFields /\ s.next = m + 1 /\ s.chunks = streams[i].chunks
  <2>1. streams[i].next + 1 \in Nat /\ streams[i].quota - 1 \in Nat
    BY <1>2, <1>3
  <2>2. QED
    BY <1>1, <2>1 DEF StreamFields
<1>5. Handled(i, m, s)
  BY DEF Deliver
<1>6. \A u \in Transaction :
         /\ s.chunks[u] \in Seq(Message)
         /\ Collected(s.chunks[u], u, m)
         /\ Collected(s.chunks[u], u, m + 1)
  <2>1. \A u \in Transaction : s.chunks[u] \in Seq(Message)
    BY <1>4 DEF StreamFields
  <2>2. \A u \in Transaction : Collected(s.chunks[u], u, m)
    BY <1>4 DEF IInv, ChunksInOrder, StreamOK
  <2>3. QED
    BY <1>2, <2>1, <2>2, CollectedLater
<1>7. passed \subseteq Seq(Message) /\ \A p \in passed : Whole(p)
  BY DEF IInv, TypeOK, PassedMessagesAreWhole, Whole
<1>8. CASE t = Single
  <2>1. passed' = passed \cup {<<m>>} /\ streams' = [streams EXCEPT ![i] = s]
    BY <1>5, <1>8 DEF Handled
  <2>2. <<m>> \in Seq(Message) /\ Whole(<<m>>)
    BY <1>2, <1>8 DEF Whole
  <2>3. QED
    BY <1>2, <1>4, <1>6, <1>7, <2>1, <2>2
<1>9. CASE t # Single
  <2>1. t \in Transaction /\ q \in Seq(Message) /\ Collected(q, t, m + 1)
    BY <1>2, <1>6, <1>9, CollectedMore
  <2>2. CASE IsComplete(q, t)
    <3> DEFINE e == [s EXCEPT !.chunks[t] = <<>>]
    <3>1. passed' = passed \cup {q} /\ streams' = [streams EXCEPT ![i] = e]
      BY <1>5, <1>9, <2>2 DEF Handled
    <3>2. /\ {q[k] : k \in DOMAIN q} = Chunks(t)
          /\ Len(q) = Cardinality(Chunks(t))
      <4>1. m + 1 \in Nat
        BY <1>2
      <4> HIDE DEF q, t, m
      <4>2. QED
        BY <2>1, <2>2, <4>1, CompleteIsWhole
    <3>3. q # <<>> /\ q[1] \in Chunks(t)
      <4>1. Len(q) > 0 /\ Len(q) \in Nat
        BY <1>2, <1>6, <2>1, AppendProperties, LenProperties
      <4>2. QED
        BY <2>1, <4>1 DEF Collected
    <3>4. Whole(q)
      BY <1>9, <3>2, <3>3 DEF Whole, Chunks
    <3>5. /\ e \in StreamFields /\ e.next = m + 1
          /\ e.chunks = [s.chunks EXCEPT ![t] = <<>>] /\ DOMAIN s.chunks = Transaction
      <4> DEFINE none == <<>>
      <4>1. s \in StreamFields /\ s.next = m + 1 /\ none \in Seq(Message)
        BY <1>4
      <4>2. t \in Transaction
        BY <2>1
      <4>3. e = [s EXCEPT !.chunks[t] = none]
        OBVIOUS
      <4>4. [s.chunks EXCEPT ![t] = <<>>] = [s.chunks EXCEPT ![t] = none]
        OBVIOUS
      <4> HIDE DEF s, t, m, none, e
      <4>5. QED
        BY <4>1, <4>2, <4>3, <4>4, WithChunks
    <3>6. \A u \in Transaction : Collected(e.chunks[u], u, m + 1)
      <4>1. Collected(<<>>, t, m + 1)
        BY DEF Collected
      <4>2. QED
        BY <1>6, <2>1, <3>5, <4>1
    <3> HIDE DEF e, q
    <3>7. QED
      BY <1>2, <1>7, <1>9, <2>1, <3>1, <3>4, <3>5, <3>6
  <2>3. CASE ~ IsComplete(q, t)
    <3> DEFINE e == [s EXCEPT !.chunks[t] = q]
    <3>1. passed' = passed /\ streams' = [streams EXCEPT ![i] = e]
      BY <1>5, <1>9, <2>3 DEF Handled
    <3>2. e \in StreamFields /\ e.next = m + 1
      <4> HIDE DEF q, s, t
      <4>1. QED
        BY <1>4, <2>1, WithChunks
    <3>3. \A u \in Transaction : Collected(e.chunks[u], u, m + 1)
      <4>1. e.chunks = [s.chunks EXCEPT ![t] = q] /\ DOMAIN s.chunks = Transaction
        BY <1>4 DEF StreamFields
      <4>2. QED
        BY <1>6, <2>1, <4>1
    <3> HIDE DEF e
    <3>4. QED
      BY <1>2, <1>7, <1>9, <3>1, <3>2, <3>3
  <2>4. QED
    BY <2>2, <2>3
<1>10. QED
  BY <1>8, <1>9

LEMMA DeliverStep == ASSUME NEW i \in DOMAIN streams PROVE IInv /\ Deliver(i) => IInv'
<1> SUFFICES ASSUME IInv, Deliver(i) PROVE IInv'
  OBVIOUS
<1> DEFINE m == streams[i].next
<1>1. /\ m \in Message /\ m \in Nat
      /\ passed \subseteq passed' /\ passed' \subseteq Seq(Message)
      /\ Topic[m] = Single => <<m>> \in passed'
      /\ \A q \in passed' : Whole(q)
  BY HandledFacts, ConstantTypes
<1>2. PICK e \in StreamFields :
         /\ streams' = [streams EXCEPT ![i] = e]
         /\ e.next = m + 1
         /\ \A u \in Transaction : Collected(e.chunks[u], u, m + 1)
  BY HandledFacts
<1>3. /\ streams \in Seq(StreamFields) /\ DOMAIN streams = 1..Len(streams)
      /\ streams' \in Seq(StreamFields) /\ Len(streams') = Len(streams)
      /\ DOMAIN streams' = DOMAIN streams
      /\ \A k \in DOMAIN streams : streams'[k] = IF k = i THEN e ELSE streams[k]
  BY <1>2, LenProperties, ExceptSeq DEF IInv, TypeOK
<1>4. /\ startTime' = m + 1
      /\ limit' = IF limit > 0 THEN limit - 1 ELSE limit
      /\ received' = received + 1
      /\ UNCHANGED <<published, attempt, unsubscribed, call, timers>>
  BY DEF Deliver, Resume, handleVars
<1>5. TypeOK'
  <2>1. limit' \in 0..Limit /\ startTime' \in Nat /\ received' \in Nat
    BY <1>1, <1>4, ConstantTypes DEF IInv, TypeOK
  <2>2. QED
    BY <1>1, <1>3, <1>4, <2>1 DEF IInv, TypeOK
<1>6. AttemptsCount'
  BY <1>3, <1>4 DEF IInv, AttemptsCount
<1>7. Resumable'
  <2> SUFFICES ASSUME StartTime > 0 PROVE Resumable'
    BY DEF Resumable
  <2> DEFINE Later(n) ==
               \A x \in Message :
                   Topic[x] = Single /\ StartTime <= x /\ x < n => <<x>> \in passed'
  <2>1. \A n : PassedUpTo(n) => Later(n)
    BY <1>1 DEF PassedUpTo
  <2>2. Later(m + 1)
    <3>1. \A x \in Message : x < m + 1 => x < m \/ x = m
      BY <1>1, ConstantTypes
    <3>2. Later(m)
      BY <2>1 DEF IInv, Resumable
    <3>3. QED
      BY <1>1, <3>1, <3>2
  <2>3. \A k \in DOMAIN streams : Later(streams'[k].next)
    <3>1. \A k \in DOMAIN streams : k # i => Later(streams'[k].next)
      BY <1>3, <2>1 DEF IInv, Resumable
    <3>2. Later(streams'[i].next)
      BY <1>2, <1>3, <2>2
    <3>3. QED
      BY <3>1, <3>2
  <2>4. Later(startTime') /\ startTime' > 0
    BY <1>1, <1>4, <2>2
  <2>5. QED
    BY <1>3, <2>3, <2>4 DEF Resumable, PassedUpTo
<1>8. ChunksInOrder'
  BY <1>1, <1>2, <1>3 DEF IInv, ChunksInOrder, StreamOK
<1>9. PassedMessagesAreWhole'
  BY <1>1 DEF PassedMessagesAreWhole, Whole
<1>10. QED
  BY <1>5, <1>6, <1>7, <1>8, <1>9 DEF IInv

LEMMA PublishStep == IInv /\ Publish => IInv'
<1> SUFFICES ASSUME IInv, Publish PROVE IInv'
  OBVIOUS
<1>1. UNCHANGED <<startTime, limit, attempt, unsubscribed, call, timers, streams,
                  passed, received>>
  BY DEF Publish, queryVars, handleVars, historyVars
<1>2. published' \in 0..Len(Topic)
  BY ConstantTypes DEF Publish, IInv, TypeOK
<1>3. TypeOK'
  BY <1>1, <1>2 DEF IInv, TypeOK
<1>4. QED
  BY <1>1, <1>3 DEF IInv, AttemptsCount, Resumable, PassedUpTo, ChunksInOrder,
                    PassedMessagesAreWhole

-----------------------------------------------------------------------------
(* The theorems *)

THEOREM NextIInv == IInv /\ [Next]_vars => IInv'
<1> SUFFICES ASSUME IInv, [Next]_vars PROVE IInv'
  OBVIOUS
<1>1. CASE RetryTimer
  BY <1>1, RetryTimerStep
<1>2. CASE Unsubscribe
  BY <1>2, UnsubscribeStep
<1>3. CASE Publish
  BY <1>3, PublishStep
<1>4. ASSUME NEW i \in DOMAIN streams, Deliver(i) PROVE IInv'
  BY <1>4, DeliverStep
<1>5. ASSUME NEW i \in DOMAIN streams, Complete(i) PROVE IInv'
  BY <1>5, CompleteStep
<1>6. ASSUME NEW i \in DOMAIN streams, Fail(i) PROVE IInv'
  BY <1>6, FailStep
<1>7. CASE UNCHANGED vars
  BY <1>7 DEF vars, queryVars, handleVars, historyVars, IInv, TypeOK, AttemptsCount,
              Resumable, PassedUpTo, ChunksInOrder, PassedMessagesAreWhole
<1>8. QED
  BY <1>1, <1>2, <1>3, <1>4, <1>5, <1>6, <1>7 DEF Next

THEOREM Invariance == Spec => []IInv
<1>1. Init => IInv
  BY InitIInv
<1>2. IInv /\ [Next]_vars => IInv'
  BY NextIInv
<1>3. QED
  BY <1>1, <1>2, PTL DEF Spec

\* Every variable keeps its type; above all, the attempts of a subscription never
\* exceed its maximum, although each failure is counted twice.
THEOREM TypeCorrect == Spec => []TypeOK
<1>1. IInv => TypeOK
  BY DEF IInv
<1>2. QED
  BY <1>1, Invariance, PTL

\* A subscription opens at most one stream more than it has attempts, for any
\* topic, limit and order of failures and timers.
THEOREM StreamsCorrect == Spec => []StreamsBounded
<1>1. IInv => StreamsBounded
  BY ConstantTypes, LenProperties DEF IInv, TypeOK, AttemptsCount, StreamsBounded
<1>2. QED
  BY <1>1, Invariance, PTL

\* With a start time, every message of one chunk before the place where the
\* subscription would resume has reached the listener.
THEOREM ResumeCorrect == Spec => []NoMessageSkipped
<1>1. IInv => NoMessageSkipped
  BY DEF IInv, Resumable, PassedUpTo, NoMessageSkipped
<1>2. QED
  BY <1>1, Invariance, PTL

\* The listener gets chunked messages only whole, each chunk once, whatever
\* chunks the streams of the subscription repeat.
THEOREM ChunksCorrect == Spec => []PassedMessagesAreWhole
<1>1. IInv => PassedMessagesAreWhole
  BY DEF IInv
<1>2. QED
  BY <1>1, Invariance, PTL

=============================================================================
