---------------------------- MODULE NetworkUpdate ----------------------------
(***************************************************************************)
(* The automatic network update of a client (Client.js, MirrorNetwork.js,  *)
(* AddressBookQuery.js): a timer starts an address book query, whose       *)
(* streams and retries collect the nodes; the book replaces the client's   *)
(* network and the next timer is set.                                      *)
(*                                                                         *)
(* The mirror node is external: a stream sends its book, which does not    *)
(* change here, and ends well or fails. As for topics, NodeMirrorChannel   *)
(* reports one failure twice. What setNetwork does with the nodes is       *)
(* ManagedNetwork's: it installs the map it is given (SetNetworkCorrect),  *)
(* or throws half way.                                                     *)
(***************************************************************************)
EXTENDS Naturals, SequencesExt

CONSTANTS
    Book,           \* the hosts of the address book; their accounts are left out
    Query,          \* identities of address book queries; bounds how many run
    MaxAttempts,    \* _maxAttempts of the query, 10 in the code
    MaxRounds       \* bound: rounds of the loop that setting the period starts

UpdateAssumption ==
    Book # {} /\ MaxAttempts \in Nat /\ MaxRounds \in Nat
ASSUME UpdateAssumption

VARIABLES
    network,        \* the hosts of `_network'
    mirrorChannel,  \* a node of `_mirrorNetwork' has an open channel
    isShutdown,     \* `_isShutdown'
    timer,          \* `_timer'
    orphans,        \* pending timers that `_timer' does not name any more
    query,          \* the address book queries with streams or timers
    lost,           \* history: a round ended without setting the next timer
    overlapped,     \* history: the period was set while a query was running
    late,           \* history: close() did not find the client at rest
    reopened        \* history: the period was set after close()

clientVars == <<network, isShutdown, timer, orphans>>
historyVars == <<lost, overlapped, late, reopened>>
vars == <<clientVars, mirrorChannel, query, historyVars>>

\* `loop' tells the queries of the timer from the one of forMirrorNetwork; the
\* open streams are what each has sent.
QueryFields ==
    [loop : BOOLEAN, settled : BOOLEAN, attempt : 0..MaxAttempts, retries : Nat,
     addresses : SUBSET Book, streams : Seq(SUBSET Book)]

\* Mutant: every stream begins with an empty list of addresses.
Opened_Reset(q) ==
    [q EXCEPT !.streams = Append(@, {}), !.addresses = {}]

\* Mutant: every stream begins with all attempts left.
Opened_AllAttempts(q) ==
    [q EXCEPT !.streams = Append(@, {}), !.attempt = 0]

\* _makeServerStreamRequest: what earlier streams have collected is kept.
Opened(q) == [q EXCEPT !.streams = Append(@, {})]

NewQuery(loop) ==
    Opened([loop |-> loop, settled |-> FALSE, attempt |-> 0, retries |-> 0,
            addresses |-> {}, streams |-> <<>>])

With(f, x, y) == [z \in DOMAIN f \cup {x} |-> IF z = x THEN y ELSE f[z]]

\* A query whose streams have ended and that waits for no timer is forgotten.
IsQuiet(q) == q.retries = 0 /\ q.streams = <<>>
Remember(id, q) ==
    query' = IF IsQuiet(q)
             THEN [x \in DOMAIN query \ {id} |-> query[x]]
             ELSE With(query, id, q)

Pending == (IF timer = "pending" THEN 1 ELSE 0) + orphans

\* The rounds that will set a timer again: their timer is pending, or their
\* query is not settled.
Rounds == Pending + Cardinality({id \in DOMAIN query :
                                    query[id].loop /\ ~ query[id].settled})

-----------------------------------------------------------------------------
(* _scheduleNetworkUpdate *)

\* The timer that was pending before is not cleared, but `_timer' forgets it.
Schedule ==
    /\ timer' = "pending"
    /\ orphans' = IF timer = "pending" THEN orphans + 1 ELSE orphans

\* A timer fires: a query begins, and its first stream opens a channel.
FireTimer ==
    /\ \/ timer = "pending" /\ timer' = "done" /\ UNCHANGED orphans
       \/ orphans > 0 /\ orphans' = orphans - 1 /\ UNCHANGED timer
    /\ \E id \in Query \ DOMAIN query : query' = With(query, id, NewQuery(TRUE))
    /\ mirrorChannel' = TRUE
    /\ UNCHANGED <<network, isShutdown, historyVars>>

\* Bound of the model.
MayStartRound == timer = "pending" \/ Rounds < MaxRounds

\* Mutant: the pending timer is not cleared.
SetNetworkUpdatePeriod_NotCleared ==
    /\ MayStartRound
    /\ Schedule
    /\ overlapped' = (overlapped \/ \E id \in DOMAIN query : ~ query[id].settled)
    /\ reopened' = (reopened \/ isShutdown)
    /\ UNCHANGED <<network, isShutdown, mirrorChannel, query, lost, late>>

\* clearTimeout(_timer), then _scheduleNetworkUpdate().
SetNetworkUpdatePeriod ==
    /\ MayStartRound
    /\ timer' = "pending"
    /\ overlapped' = (overlapped \/ \E id \in DOMAIN query : ~ query[id].settled)
    /\ reopened' = (reopened \/ isShutdown)
    /\ UNCHANGED <<network, isShutdown, orphans, mirrorChannel, query, lost, late>>

-----------------------------------------------------------------------------
(* The address book query *)

Deliver(id, i) ==
    \E h \in Book \ query[id].streams[i] :
        /\ ~ query[id].settled
        /\ query' = [query EXCEPT ![id].addresses = @ \cup {h},
                                  ![id].streams[i] = @ \cup {h}]
        /\ UNCHANGED <<clientVars, mirrorChannel, historyVars>>

Ended(q, i) == [q EXCEPT !.streams = RemoveAt(@, i)]

\* A settled query goes on with its other streams and retries, to no effect:
\* what they send is left out.
Settled(q) ==
    [q EXCEPT !.settled = TRUE, !.addresses = {},
              !.streams = [i \in DOMAIN q.streams |-> {}]]

EndSettled(id, i) ==
    /\ query[id].settled
    /\ Remember(id, Ended(query[id], i))
    /\ UNCHANGED <<clientVars, mirrorChannel, historyVars>>

\* The stream has sent its book: the end callback runs.
Ends(id, i) ==
    /\ ~ query[id].settled
    /\ query[id].streams[i] = Book

\* Mutant: the next timer is set in a closed client, too.
Reschedule_Always(loop) ==
    IF loop THEN Schedule ELSE UNCHANGED <<timer, orphans>>

\* Mutant: the test of `_isShutdown' is turned round.
Reschedule_Inverted(loop) ==
    IF loop /\ isShutdown THEN Schedule
    ELSE UNCHANGED <<timer, orphans>>

Reschedule(loop) ==
    IF loop /\ ~ isShutdown THEN Schedule
    ELSE UNCHANGED <<timer, orphans>>

\* The promise resolves with the addresses, and its continuation runs before
\* any other callback: setNetworkFromAddressBook, then the next timer, unless
\* close() was called meanwhile.
Install(id, i) ==
    /\ Ends(id, i)
    /\ network' = query[id].addresses
    /\ Reschedule(query[id].loop)
    /\ Remember(id, Settled(Ended(query[id], i)))
    /\ UNCHANGED <<isShutdown, mirrorChannel, historyVars>>

\* setNetworkFromAddressBook throws half way, which ends the loop.
InstallThrows(id, i) ==
    /\ Ends(id, i)
    /\ network' \in SUBSET network
    /\ lost' = (lost \/ query[id].loop)
    /\ Remember(id, Settled(Ended(query[id], i)))
    /\ UNCHANGED <<isShutdown, timer, orphans, mirrorChannel, overlapped, late, reopened>>

\* One call of the error callback: another attempt, or rejection.
Failed(q, retryable) ==
    IF q.attempt < MaxAttempts /\ ~ isShutdown /\ retryable
    THEN [q EXCEPT !.attempt = @ + 1, !.retries = @ + 1]
    ELSE Settled(q)

\* Once as the `error' event, with an Error, and once as the `status' event.
FailedTwice(q, retryable) == Failed(Failed(q, TRUE), retryable)

Fail(id, i) ==
    \E retryable \in BOOLEAN :
        LET q == FailedTwice(Ended(query[id], i), retryable)
        IN  /\ lost' = (lost \/ (q.loop /\ q.settled /\ ~ query[id].settled))
            /\ Remember(id, q)
            /\ UNCHANGED <<clientVars, mirrorChannel, overlapped, late, reopened>>

Retried(q) == Opened([q EXCEPT !.retries = @ - 1])

\* The timer of a retry does not look whether the client is closed or the
\* query settled.
RetryTimer(id) ==
    /\ query[id].retries > 0
    /\ query' = [query EXCEPT ![id] = Retried(query[id])]
    /\ mirrorChannel' = TRUE
    /\ UNCHANGED <<clientVars, historyVars>>

-----------------------------------------------------------------------------
(* The rest of the client *)

AtRest == orphans = 0 /\ query = [id \in {} |-> {}]

\* Mutant: close() leaves the timer.
Close_KeepsTimer ==
    /\ ~ isShutdown
    /\ isShutdown' = TRUE
    /\ network' = {}
    /\ mirrorChannel' = FALSE
    /\ late' = (late \/ ~ AtRest)
    /\ UNCHANGED <<timer, orphans, query, lost, overlapped, reopened>>

\* A client is closed once. The healthy list of the mirror network keeps its
\* nodes, so that later streams open their channels again.
Close ==
    /\ ~ isShutdown
    /\ isShutdown' = TRUE
    /\ network' = {}
    /\ mirrorChannel' = FALSE
    /\ timer' = IF timer = "pending" THEN "done" ELSE timer
    /\ late' = (late \/ ~ AtRest)
    /\ UNCHANGED <<orphans, query, lost, overlapped, reopened>>

\* setMirrorNetwork replaces every node, also those that stay: the channels
\* are closed. A closed client is not given another mirror network, and the
\* mirror network is never empty.
SetMirrorNetwork ==
    /\ ~ isShutdown
    /\ mirrorChannel' = FALSE
    /\ UNCHANGED <<clientVars, query, historyVars>>

\* A client whose constructor has scheduled the update, or one made by
\* forMirrorNetwork: without a network, its first query is running.
Init ==
    /\ isShutdown = FALSE
    /\ timer = "pending" /\ orphans = 0
    /\ \/ /\ network = Book /\ mirrorChannel = FALSE
          /\ query = [id \in {} |-> {}]
       \/ /\ network = {} /\ mirrorChannel = TRUE
          /\ \E id \in Query : query = [x \in {id} |-> NewQuery(FALSE)]
    /\ lost = FALSE /\ overlapped = FALSE
    /\ late = FALSE /\ reopened = FALSE

Serve(id) ==
    \E i \in DOMAIN query[id].streams :
        \/ Deliver(id, i) \/ EndSettled(id, i) \/ Install(id, i)
        \/ InstallThrows(id, i) \/ Fail(id, i)

Next ==
    \/ FireTimer \/ SetNetworkUpdatePeriod \/ SetMirrorNetwork \/ Close
    \/ \E id \in DOMAIN query : RetryTimer(id) \/ Serve(id)

Spec == Init /\ [][Next]_vars

\* Timers fire. The mirror node goes on sending, or ends, or fails.
FairSpec ==
    /\ Spec
    /\ WF_vars(FireTimer)
    /\ \A id \in Query :
          /\ WF_vars(id \in DOMAIN query /\ RetryTimer(id))
          /\ WF_vars(id \in DOMAIN query /\ Serve(id))

-----------------------------------------------------------------------------
(* Properties *)

TypeOK ==
    /\ network \subseteq Book
    /\ mirrorChannel \in BOOLEAN /\ isShutdown \in BOOLEAN
    /\ timer \in {"pending", "done"} /\ orphans \in 0..MaxRounds
    /\ DOMAIN query \subseteq Query
    /\ query \in [DOMAIN query -> QueryFields]
    /\ {lost, overlapped, late, reopened} \subseteq BOOLEAN

\* A round installs the book, nothing less and nothing more, although the
\* streams of a query overlap, break off and share the list of addresses.
WholeBookInstalled ==
    [][\A id \in DOMAIN query : \A i \in DOMAIN query[id].streams :
          Install(id, i) => network' = Book]_vars

\* Although each failure schedules two retries and settled queries go on, both
\* count as attempts: half of them is all that a query can gain.
QueryStreamsBounded ==
    \A id \in DOMAIN query :
        Len(query[id].streams) + query[id].retries <= 1 + MaxAttempts \div 2

UpdateInv == TypeOK /\ QueryStreamsBounded

\* The loop neither dies nor doubles: until close(), there is a round that
\* will set the next timer, unless a round has failed; and there is only one,
\* unless the period was set during a query.
OneRoundAtATime ==
    /\ ~ isShutdown /\ ~ lost => Rounds >= 1
    /\ ~ overlapped => Rounds <= 1

\* close() of a client that is waiting for its next update leaves nothing
\* behind: no timer, no query, no node and no channel, then or later.
ClosedAtRestStaysClosed ==
    isShutdown /\ ~ late /\ ~ reopened =>
        timer # "pending" /\ AtRest /\ network = {} /\ ~ mirrorChannel

\* However many rounds overlap, a closed client comes to rest, unless the
\* period is set once more.
ClosedClientComesToRest ==
    isShutdown ~> ((timer # "pending" /\ AtRest) \/ reopened)

\* The network is updated over and over until the client is closed or a round
\* fails.
UpdatesGoOn ==
    \/ <>(isShutdown \/ lost)
    \/ []<><<\E id \in DOMAIN query :
                \E i \in DOMAIN query[id].streams : Install(id, i)>>_vars
=============================================================================
