-------------------------- MODULE TopicSubscription --------------------------
(***************************************************************************)
(* A subscription to the messages of a topic (TopicMessageQuery.js,        *)
(* SubscriptionHandle.js): the streams it opens at a mirror node, how it   *)
(* resumes after a failure, and how it puts chunked messages together.     *)
(*                                                                         *)
(* A message is its place in the topic, which is also its consensus        *)
(* timestamp. The mirror node is external: a stream sends the messages     *)
(* from its start on, in order, and ends well or fails at any time.        *)
(* NodeMirrorChannel reports a failure twice, in the same turn of the      *)
(* event loop: as the `error' event of the stream, with an Error, and as   *)
(* its `status' event, with a plain status object.                         *)
(***************************************************************************)
EXTENDS Naturals, Sequences, FiniteSets

CONSTANTS
    Topic,          \* per message the transaction it is a chunk of, or Single
    Transaction,    \* the initial transactions of chunked messages
    Single,         \* a message that is no chunk
    StartTime,      \* setStartTime, or 0 for null
    EndTime,        \* setEndTime, or 0 for null
    Limit,          \* setLimit, or 0 for null
    MaxAttempts     \* setMaxAttempts, 20 in the code

TopicAssumption ==
    /\ Single \notin Transaction
    /\ Topic \in Seq(Transaction \cup {Single})
    /\ {StartTime, EndTime, Limit, MaxAttempts} \subseteq Nat
ASSUME TopicAssumption

VARIABLES
    published,      \* how many messages of the topic have reached consensus
    startTime,      \* `_startTime', or 0 for null
    limit,          \* `_limit', or 0 for null: the mirror node treats both alike
    attempt,        \* `_attempt'
    unsubscribed,   \* `_handle._unsubscribed'
    call,           \* `_handle._call': the stream it cancels
    timers,         \* pending timers of _scheduleRetry
    streams,        \* the streams opened so far, with the closures of each
    passed,         \* history: what the listener got, as sequences of chunks
    received        \* history: how many messages _handleMessage has handled

queryVars == <<startTime, limit, attempt>>
handleVars == <<unsubscribed, call>>
historyVars == <<passed, received>>
vars == <<published, queryVars, handleVars, timers, streams, historyVars>>

Message == 1..Len(Topic)
Chunks(t) == {m \in Message : Topic[m] = t}

Unlimited == Len(Topic) + 1     \* a quota no stream can use up

\* `chunks' is the Map that _makeServerStreamRequest makes for each stream.
StreamFields ==
    [open : BOOLEAN, next : Nat, quota : Nat, chunks : [Transaction -> Seq(Message)]]

-----------------------------------------------------------------------------
(* _makeServerStreamRequest *)

\* Mutant: a new stream goes on with the chunks of the one before it.
NewChunks_Kept(before) ==
    IF before = <<>> THEN [t \in Transaction |-> <<>>]
    ELSE before[Len(before)].chunks

\* `new Map()', whatever streams there were before.
NewChunks(before) == [t \in Transaction |-> <<>>]

NewStream(before) ==
    [open |-> TRUE,
     next |-> IF startTime = 0 THEN published + 1 ELSE startTime,
     quota |-> IF limit = 0 THEN Unlimited ELSE limit,
     chunks |-> NewChunks(before)]

\* The timer does not look at the handle.
RetryTimer ==
    /\ timers > 0
    /\ timers' = timers - 1
    /\ streams' = Append(streams, NewStream(streams))
    /\ call' = Len(streams')
    /\ UNCHANGED <<published, queryVars, unsubscribed, historyVars>>

-----------------------------------------------------------------------------
(* _handleMessage and _handleChunkedMessage *)

CanDeliver(s) ==
    /\ s.open /\ s.quota > 0
    /\ s.next <= published
    /\ EndTime = 0 \/ s.next < EndTime

Resume_TooLate(m) == m + 2        \* mutant: two nanoseconds later
Resume(m) == m + 1                \* plusNanos(1)

IsComplete(q, t) == Len(q) = Cardinality(Chunks(t))

Handled(i, m, s) ==
    LET t == Topic[m]
        q == Append(s.chunks[t], m)
    IN  IF t = Single
        THEN /\ passed' = passed \cup {<<m>>}
             /\ streams' = [streams EXCEPT ![i] = s]
        ELSE IF IsComplete(q, t)
        THEN /\ passed' = passed \cup {q}
             /\ streams' = [streams EXCEPT ![i] = [s EXCEPT !.chunks[t] = <<>>]]
        ELSE /\ passed' = passed
             /\ streams' = [streams EXCEPT ![i] = [s EXCEPT !.chunks[t] = q]]

Deliver(i) ==
    LET m == streams[i].next
    IN  /\ CanDeliver(streams[i])
        /\ Handled(i, m, [streams[i] EXCEPT !.next = @ + 1, !.quota = @ - 1])
        /\ startTime' = Resume(m)
        /\ limit' = IF limit > 0 THEN limit - 1 ELSE limit
        /\ received' = received + 1
        /\ UNCHANGED <<published, attempt, handleVars, timers>>

-----------------------------------------------------------------------------
(* The end of a stream *)

Ended(i) == streams' = [streams EXCEPT ![i].open = FALSE]

\* The mirror node has sent what was asked for: the completion handler runs.
Complete(i) ==
    /\ streams[i].open
    /\ streams[i].quota = 0 \/ (EndTime # 0 /\ streams[i].next >= EndTime)
    /\ Ended(i)
    /\ UNCHANGED <<published, queryVars, handleVars, timers, historyVars>>

\* _handleError for the `error' event, and then for the `status' event: the
\* default retry handler retries every Error, but only some status codes.
CanRetry_OffByOne(n) == attempt + n <= MaxAttempts    \* mutant
CanRetry(n) == attempt + n < MaxAttempts

\* Mutant: a failed stream is not retried once messages have arrived.
Retries_OnlyAtFirst(retryable) ==
    IF ~ CanRetry(0) \/ received > 0 THEN 0 ELSE 1

Retries(retryable) ==
    IF ~ CanRetry(0) THEN 0
    ELSE IF retryable /\ CanRetry(1) THEN 2 ELSE 1

\* Mutant: the attempts start anew with each message.
Attempts_Reset(n) == IF received > 0 THEN n ELSE attempt + n
Attempts(n) == attempt + n

Fail(i) ==
    /\ streams[i].open
    /\ Ended(i)
    /\ \/ /\ unsubscribed
          /\ UNCHANGED <<attempt, timers>>
       \/ /\ ~ unsubscribed
          /\ \E retryable \in BOOLEAN :
                /\ attempt' = Attempts(Retries(retryable))
                /\ timers' = timers + Retries(retryable)
    /\ UNCHANGED <<published, startTime, limit, handleVars, passed, received>>

-----------------------------------------------------------------------------

\* SubscriptionHandle.unsubscribe(): there is a call, subscribe() has made one.
Unsubscribe ==
    /\ unsubscribed' = TRUE
    /\ Ended(call)
    /\ UNCHANGED <<published, queryVars, call, timers, historyVars>>

Publish ==
    /\ published < Len(Topic)
    /\ published' = published + 1
    /\ UNCHANGED <<queryVars, handleVars, timers, streams, historyVars>>

\* subscribe() has just returned.
Init ==
    /\ published \in {0} \cup Message
    /\ startTime = StartTime /\ limit = Limit /\ attempt = 0
    /\ unsubscribed = FALSE
    /\ streams = <<NewStream(<<>>)>> /\ call = 1
    /\ timers = 0
    /\ passed = {} /\ received = 0

Next ==
    \/ RetryTimer \/ Unsubscribe \/ Publish
    \/ \E i \in DOMAIN streams : Deliver(i) \/ Complete(i) \/ Fail(i)

Spec == Init /\ [][Next]_vars

\* Timers fire. The mirror node goes on sending, or fails, or ends.
Serve == \E i \in DOMAIN streams : Deliver(i) \/ Complete(i) \/ Fail(i)
FairSpec == Spec /\ WF_vars(RetryTimer) /\ WF_vars(Serve)

-----------------------------------------------------------------------------
(* Properties *)

TypeOK ==
    /\ published \in 0..Len(Topic)
    /\ startTime \in Nat /\ limit \in 0..Limit
    /\ attempt \in 0..MaxAttempts
    /\ unsubscribed \in BOOLEAN
    /\ streams \in Seq(StreamFields)
    /\ call = Len(streams)
    /\ timers \in Nat
    /\ passed \subseteq Seq(Message) /\ received \in Nat

\* With a start time, no message is lost by a retry: every message of one
\* chunk before the place where the query resumes has reached the listener,
\* however many streams are open and whichever of them came last.
NoMessageSkipped ==
    StartTime > 0 =>
        \A m \in Message :
            Topic[m] = Single /\ StartTime <= m /\ m < startTime => <<m>> \in passed

\* Whatever chunks several streams deliver twice, and wherever they start, the
\* listener gets a chunked message only whole, each of its chunks once.
PassedMessagesAreWhole ==
    \A q \in passed :
        LET t == Topic[q[1]]
        IN  IF t = Single THEN Len(q) = 1
            ELSE /\ {q[k] : k \in DOMAIN q} = Chunks(t)
                 /\ Len(q) = Cardinality(Chunks(t))

\* A subscription opens at most 1 + MaxAttempts streams, although each failure
\* schedules two retries and the streams fail independently.
StreamsBounded == Len(streams) + timers <= 1 + MaxAttempts

\* Every message of one chunk that is published after the start time, and
\* before the end, reaches the listener, unless the user unsubscribes or the
\* attempts or the limit are used up: no failure leaves a subscription behind
\* with neither a stream nor a timer, not even a failure that is reported to
\* the error handler.
GivenUp ==
    \/ unsubscribed
    \/ attempt = MaxAttempts
    \/ Limit > 0 /\ received >= Limit
InRange(m) == StartTime > 0 /\ m >= StartTime /\ (EndTime = 0 \/ m < EndTime)
EveryMessageArrives ==
    \A m \in Message :
        (Topic[m] = Single /\ InRange(m) /\ m <= published)
            ~> (<<m>> \in passed \/ GivenUp)

(* What a test says, and the code does not do *)

\* test/unit/TopicMessageMocking.js: "should stop processing messages after
\* unsubscription".
NoMessageAfterUnsubscribe == [][unsubscribed => received' = received]_vars
=============================================================================
