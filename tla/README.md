# Verification of the Hedera JavaScript SDK

TLA+ models of the parts of the SDK whose behaviour depends on the order in
which things happen: the client's network of nodes and its automatic update, the
retry loop that every transaction and query runs, channels, signing, chunked
transactions, the payment of queries, topic subscriptions, the creation of
contracts, and the making of transfers. `tlc` checks them on small instances, `tlapm` proves theorems about
most of them for every instance.

Paths are relative to the repository; `src/` is its source directory.

## Inventory

| Component | State | Operations | What is hard |
|---|---|---|---|
| **Managed network** `src/client/ManagedNetwork.js`, `Network.js`, `ManagedNode.js`, `Node.js`, `ManagedNodeAddress.js` | node objects (address, account, backoff, readmit time, channel), `_nodes`, `_healthyNodes`, `_network` (account to nodes), readmission times, backoff limits | `setNetwork`, `setTransportSecurity`, `getNode`, `getNodeAccountIdsForExecute`, `increaseBackoff`, `decreaseBackoff`, the setters, `close` | requests hold node objects across awaits while the lists change; three lists that must agree; absolute times and periods |
| **Retry loop** `src/Executable.js`, `src/transaction/List.js` | attempt, node list with index, start time, account IDs of the client's nodes | `execute` and its seven ways to go on or stop | several requests interleave at each await and share node objects; deadline, timeout, backoff and attempts compete |
| **Topic subscription** `src/topic/TopicMessageQuery.js`, `SubscriptionHandle.js`, `src/channel/NodeMirrorChannel.js` | resume point, remaining limit, attempts, handle, chunks per stream | `subscribe`, message, error, retry timer, `unsubscribe` | streams overlap, timers outlive the subscription, messages are repeated or cut |
| **Network update** `src/client/Client.js`, `src/network/AddressBookQuery.js` | timer, period, shutdown flag; per query the address list, attempts, streams | `setNetworkUpdatePeriod`, timer, stream callbacks, query retries, `forMirrorNetwork`, `close` | `close` or a new period during a query; a failure in one round; timers that nobody clears |
| **Mirror network** `src/client/MirrorNetwork.js`, `src/MirrorNode.js` | as the managed network | `setNetwork`, `getNextMirrorNode` | replacing nodes that carry streams |
| **Transactions** `src/transaction/Transaction.js` | lists of transaction IDs, node accounts, signed and built transactions; keys, signers | `freezeWith`, `signWith`, `addSignature`, `removeSignature`, `toBytes`, `toBytesAsync`, `fromBytes`, `execute` | lists whose indexes move independently; signers that are awaited; keys and signers in two lists |
| **Chunked transactions** `src/topic/TopicMessageSubmitTransaction.js`, `src/file/FileAppendTransaction.js` | list of transaction IDs and its index, bodies per chunk and node | `freezeWith`, `executeAll` | one chunk of several fails; a second `executeAll` goes on where the first stopped; answers are lost |
| **Queries** `src/query/Query.js`, `CostQuery.js` | payment, maximum, prepared payments, node list | `execute` with its `_beforeExecute`, the setters | executions of one query share all of this across awaits; amounts |
| **Receipts and records** `src/transaction/TransactionReceiptQuery.js`, `TransactionRecordQuery.js` | none | `_shouldRetry` | two levels of status, with and without validation |
| **Channels** `src/channel/NodeChannel.js` and its siblings | cache of gRPC clients by address | lazy initialisation, `close` | channels share clients; a certificate and a client are awaited |
| **Flows** `src/contract/ContractCreateFlow.js`, `src/token/TokenRejectFlow.js` | the contract transaction of the flow | `execute`, `executeWithSigner` | partial failure; calls share the contract transaction |
| **Transfers** `src/account/TransferTransaction.js`, `src/token/AbstractTokenTransferTransaction.js`, `TokenAirdropTransaction.js`, `TokenTransfer.js`, `TokenNftTransfer.js`, `src/Transfer.js` | three lists of transfers; the body, once frozen | the adds, the setters of approvals, `_makeTransactionData`, `_fromProtobuf` | lists sorted by different keys are merged into groups by token; adds merge with what is there; bytes are read, changed and frozen elsewhere |
| Wallet, value types, keys, request types, generated code | none of interest | | not modelled, see the end |

Calls go down: a request's `execute()` asks the network of its client for a node
(`getNode`), opens the node's channel, sends, and reports the outcome back to
the network (`increaseBackoff`, `decreaseBackoff`). The client changes the
network at any time. Topic subscriptions and the address book query take a node
of the mirror network and get their messages and errors by callbacks of the
stream.

JavaScript runs one continuation at a time, to its next `await`. The models are
exactly as atomic as that: an action is the code from one await, callback or
timer to the next. In `Executable` the stretch from one await to the next is
split into several actions, and the variable `running` keeps everybody else, and
time, from moving in between.

What makes the parts correct, in short: *network* - lists agree, no closed node
is offered, no channel is lost, no node is lost for ever; *retry loop* - nodes in
turn, none that is backing off, a definitive answer ends it, it always ends;
*subscription* - no message lost or mangled, streams bounded, silence after
`unsubscribe()`; *network update* - one loop, which goes on until the client is
closed and then comes to rest; *channels* - no closed client in the cache, no
open one that nobody closes; *transactions* - what is sent to a node is for that
node, signed once by each key and by no other; *chunks* - in order, each applied
once; *payments* - to the node that is asked, within the maximum; *flow* - one
contract per transaction ID, made of the whole bytecode; *transfers* - the body moves what was asked
for.

## Modules

| Module | What it is |
|---|---|
| `ManagedNetwork` | the network of a client, with requests reduced to what they do to it |
| `MCManagedNetwork` | instances for TLC |
| `RetryContract` | abstract specification: what `execute()` promises its caller |
| `Executable` | `execute()` for several requests over a `ManagedNetwork`; implements `RetryContract` |
| `MCExecutable` | instances for TLC |
| `Executable_proofs` | theorems of `ManagedNetwork`, and of `Executable` over it: their invariants, and that the loop implements `RetryContract`; for TLAPS |
| `TopicSubscription` | one subscription, its streams, timers and the mirror node |
| `MCTopicSubscription` | instances for TLC |
| `TopicSubscription_proofs` | theorems of `TopicSubscription`, for TLAPS |
| `NetworkUpdate` | the update timer, address book queries, the mirror network and `close` |
| `NetworkUpdate_proofs` | theorems of `NetworkUpdate`, for TLAPS |
| `ChannelCache` | channels of nodes and the gRPC clients they share |
| `ChannelCache_proofs` | theorems of `ChannelCache`, for TLAPS |
| `TransactionSigning` | one transaction: freezing, signing, encoding and execution, overlapping |
| `TransactionSigning_proofs` | theorems of `TransactionSigning`, for TLAPS |
| `ChunkedTransaction` | messages and files that are submitted as several transactions |
| `ChunkedTransaction_proofs` | theorems of `ChunkedTransaction`, for TLAPS |
| `QueryPayment` | executions of one query, with its cost, payments and receipts |
| `QueryPayment_proofs` | theorems of `QueryPayment`, for TLAPS |
| `ContractCreateFlow` | the four transactions of the flow, by overlapping calls |
| `TransferTransaction` | the lists of transfers of hbar, tokens and NFTs, and the body made of them |
| `TransfersAndFlows_proofs` | theorems of `TransferTransaction` and of `ContractCreateFlow`, for TLAPS |
| `MC...` of each of these | instances for TLC |

How they fit together. `Executable` extends `ManagedNetwork`: the two share the
node objects. The other modules take from each other what those show instead of
composing their state: `NetworkUpdate` installs a book in one step, because
`SetNetworkInstallsMap` says that `setNetwork` does, or leaves part of it, as
`SetNetworkThrows` does; `TransactionSigning`, `ChunkedTransaction` and
`QueryPayment` reduce the retry loop to what `RetryContract` promises, that is,
sends, answers, retries and one end; `ContractCreateFlow` takes an append of
several chunks as `ChunkedTransaction` shows it, a prefix that grows in order.

### ManagedNetwork

`node` maps the object identities created so far to their fields; an object is
never forgotten, because a request may still hold it. `nodes`, `healthyNodes`
and `network` are the three collections of the code, as sets: the code shuffles
them and picks at random. `network[a] = {}` stands for a key the map does not
have. Each method is an operator of its own name. `FailNode`, `RelieveNode`,
`PickNode` and `ListNodes` are what requests do to the network, in any order and
on any object ever handed out. `GetNodeThrows`, `GetAnyNodeThrows` and
`SetNetworkThrows` are the error paths; `SetNetworkThrows` leaves the network as
the exception in `_removeNodeFromNetwork` leaves it, half done. After that, and
after `close()`, most invariants about the lists are void, which their guard
`ListsIntact` says. `setNetworkThrew` is a history variable that no action reads.

### Executable and RetryContract

A request is a record of `execute()`'s local variables; `pc` is the await it is
suspended at: `preparing` (`_beforeExecute`), `making` (`_makeRequestAsync`),
`sent` (the race of the answer and the gRPC deadline), `waiting`
(`delayForAttempt`), or `loop` while it is running. Requests in `Checked` carry
`transactionNodeIds` (transactions and paid queries), the others are free
queries. The answers of a node are classes: `ok`; `busy`, a status that is
retried after a delay; `unavailable`, a gRPC error that is retried at once on
the next node; `rejected` and `failed`, a status and an error that end the call.

`RetryContract` knows only sends, answers and outcomes. `ImplementsContract` is
its specification under the refinement mapping `Phase`: the request is sent at
most `MaxAttempts` times, never after a definitive answer, and settles once.
That the deadline error ends the call rather than being retried is part of it.

### TopicSubscription

A message is its position in the topic, which stands for its consensus
timestamp. The mirror node sends the messages from a stream's start in order, up
to its end time or limit, and fails when it likes. NodeMirrorChannel subscribes
to both `error` and `status`; the gRPC library emits both for one failure, the
first with an Error. `Fail` is therefore two calls of `_handleError`, and can
schedule two retries. `streams` keeps every stream with its own closures (the
chunk map), because the handle can cancel only the newest.

### NetworkUpdate

`timer` is `_timer`; a timer that is overwritten without being cleared stays
pending as one of the `orphans`. A query keeps its open streams, each with what
it has sent, the shared list of addresses, its attempts and its retry timers.
`Fail` is again two calls of the error callback. The end callback, the
continuation of the promise, `setNetworkFromAddressBook` and the next timer are
one action, `Install`: no other callback runs in between. A query that is
settled goes on with its streams and retries (`EndSettled`, `Fail`,
`RetryTimer`), to no effect but the channels it opens.

### ChannelCache

`channel` is the `_channel` of each node, `client` the `_client` of each channel
ever made, `cache` the map of the module. A call is suspended `held` by its
request (which has the channel and builds its body), awaiting a `certificate`,
or until its client is `ready`. Three races are allowed for by name, because the
code has them: `raced` (two certificates awaited together), `evicted` (a channel
deletes a cache entry that is another client's) and `late` (a call makes a
client for a channel whose node is closed). The properties say that nothing else
leaks a client or hands out a closed one.

### TransactionSigning

`tx` holds the lists of `Transaction`, `signing` the calls of `signWith` that
await a signer, `execution` and `encoding` the calls of `execute` and
`toBytesAsync` (or of a hash), each suspended at its await. A body has its node,
its transaction ID and its signatures; a signature is the key it is stored under
and the key of the signer that made it, and a signature map says how often each
of them is there. Calls of `signWith` go on with the
bodies they began with: `current` becomes false when the list is replaced, also
by bodies that are equal (`Replaces`). Encoded transactions are made first and
read off after an await (`GiveOut`), with signing on demand and without.
`spoiled` and `mishaps` name what breaks the properties and is the code's doing
or the application's: a signer that failed, bodies that were replaced when a key
had signed or was signing them, freezing again, a wrong pair of key and signer, a
list that somebody else moved, a key that was added before the encoding was read.

### ChunkedTransaction

Contents are positions, a payload the interval cut from them. `tx.ids` and
`tx.index` are the list of transaction IDs, whose index also chooses the chunk;
`tx.signed` has a body for every chunk and node, chunk by chunk. `locked` is the
lock of the list of IDs: freezing locks a file's, and `executeAll()` locks both
by reading the ID in turn, so that no ID is replaced after that, however the
transaction is signed (`Expired` has the branch all the same, as the code has). Freezing
again makes the chunks anew, the first under the ID in turn. The network
(`Arrive`, `Consensus`) accepts one request per ID, late or never, and lets it
take effect or not. A message goes on with the answer of a node, a file with the
receipt. The application awaits `executeAll()` before it calls it or freezes
again; the code does not ask for that.

### QueryPayment

`query` is the query object, which all executions share; `call` is where each
one is suspended: asking for the cost, preparing payments, making the payment of
an attempt, sent. `kind` chooses the class (a free query, a receipt, a record,
another paid one) and with it the two tables of `_shouldRetry`, as `Decision`.
Amounts are compared in `Width` bits, as `Long.toInt()` does.

### ContractCreateFlow

Each call has its file and its place in the sequence; all share the contract
transaction, which throws once it is frozen. With a signer there is an await
between naming the file and freezing (`populating`). `seen` says whether a call
learns that its transaction took effect. With a client that signs on demand the
contract transaction is not locked when it is frozen, because `signWith` returns
before (`Transaction.js:738`): until a response names its ID, an expired one is
replaced (`Expire`, and `RenewFile` for the file), although an earlier attempt
may have been accepted unseen.

### TransferTransaction

`hbars`, `tokens` and `nfts` are the three lists, in their order; `airdrop` tells
the two classes apart. `Sorted` and `Merged` are `_makeTransactionData`: `Sorted`
puts each element at the place of its rank, which is what a stable sort does;
`Merged` takes one step of the code's loop (`MergeStep`) per transfer. `Decoded`
is `_fromProtobuf`. `asked` is what the application has asked for, summed up, and
is compared with what the body moves; `torn` says that an add threw half-way, or
that the constructor dropped what it was given, after which the two may differ.

## Runs

Passing runs; each property has a mutant of the code model that breaks it. A
type invariant is a conjunct of `ExecInv`, `UpdateInv`, `CacheInv`,
`SigningInv`, `ChunkInv`, `PaymentInv`, `FlowInv` and `TransferInv`, next to the
relations of the state that the module is about.

| Run | Shows | Bounds |
|---|---|---|
| `NetworkLists` | `ListsHoldCurrentNodes`, `OpenChannelsAreReachable`, `SetNetworkInstallsMap`, `OnlyClonesListedUnhealthy` under replacement, security switches, failures and picks | 2 accounts, 2 hosts, 4 objects: both maps can be installed and one node replaced or both cloned while requests hold the old objects; 3 time steps: a backoff of 1 or 2 begins and ends |
| `NetworkReadmission` | `EveryNodeIsReadmitted` | 2 objects; one setter value each for backoffs and periods, so that they are applied before and after failures |
| `ExecuteRetry` | in `ExecInv` that nodes are asked in turn, `NoNewSendToBackedOffNode`, `ImplementsContract`, `EveryExecuteSettles` | 2 requests, 2 nodes, 3 attempts: the list wraps around; one request names its nodes, the first of which the network does not have; the network shrinks to one node or closes; request timeout 2, gRPC deadline 1 |
| `TopicResume` | `NoMessageSkipped`, `PassedMessagesAreWhole`, `StreamsBounded`, `EveryMessageArrives` | 5 messages, two chunked ones interleaved around a single one; 3 attempts: up to four streams, two of them from one failure; a limit and an end time that streams reach |
| `NetworkUpdate` | `OneRoundAtATime`, `ClosedAtRestStaysClosed`, `WholeBookInstalled`, `ClosedClientComesToRest`, `UpdatesGoOn`, and in `UpdateInv` the bound on streams | 2 hosts: a stream breaks off between them; 2 queries: two rounds, or a round and the query of `forMirrorNetwork`, overlap; 2 attempts: one failure, which counts twice, opens two more streams and a second one rejects |
| `ChannelCache` | `OpenClientsHaveOwners`, `RequestsLeaveByOpenClients`, and in `CacheInv` that cached clients are open and that an address has one | 2 nodes of one or of two addresses, one of them with TLS; 4 channels, so that both nodes are closed and opened again; 3 clients; 2 calls |
| `TransactionSigning` | `SentRequestIsForItsNode`, `SignaturesAreByTheirKeys`, `GivenOutForEveryNode`, and in `SigningInv` that signatures match the recorded keys | 2 nodes, 2 keys, one of them the operator's; 2 transaction IDs, so that one expires; 4 calls of the application, enough to freeze, sign twice and remove, to freeze again while a signer is awaited, or to sign, encode and execute at once |
| `ChunkedTransaction` | `FileIsPrefixOfContents`, `ChunksAreAppliedOnce`, `ResolvedMeansSubmitted`, and in `ChunkInv` that each chunk is sent in its turn | 2 nodes; lengths of 1, 2 (the last one short) and 3 chunks, of at most 2; 2 attempts; 3 calls: a second `executeAll()` meets what the first left in flight, before or after the transaction is frozen again |
| `QueryPayment` | `SmallPaymentsWithinMaximum`, `SettlesWithFinalReceipt`, and in `PaymentInv` that the node asked is the node paid | 2 calls, 2 nodes, 2 attempts; 5 bits stand for 32: of the costs 9, 10 and 30, the second exceeds the maximum 10 by its surcharge only and the third wraps; 1 call of a setter |
| `ContractCreateFlow` | `FileIsKeptForContract`, `ResolvedCallsCleanUp`, and in `FlowInv` that contracts are made of the whole bytecode, one of each transaction ID, of which only a client that signs on demand has more than one | 3 calls, so that a third meets what two left; bytecodes below, at and above the first part, at and above the limit of chunks; 2 IDs and 3 files, so that the ID of the contract expires, or that of a file |
| `TransferTransaction` | `BodyMovesWhatIsAsked`, and in `TransferInv` that no list repeats an entry and that bytes are read as the same transfers | 2 accounts, 3 tokens, 1 serial number: transfers merge, both kinds of one token meet, and a token can get two groups; decimals 0, 8 and none, so that they mismatch; constructors that are given up to four transfers, or one that is dropped, then 3 calls: an add, serialising and another add or freezing |

The run whose property a comment, a document or a test states and the code does
not keep (the finding of PROJECT.json):

| Run | The code does |
|---|---|
| `TopicUnsubscribe` | a pending retry opens a stream after `unsubscribe()`; streams other than the newest are not cancelled |

`CHECK_DEADLOCK FALSE`: every system here may rest - time is bounded, requests
settle, a subscription whose attempts ran out does nothing any more, a client is
closed, the calls of an application are bounded.

### Bounds

* `Obj`: an operation that creates node objects needs fresh identities and is
  disabled without them.
* `MaxTime`: time stops there. A failure whose backoff would end later is not
  taken (`IncreaseBackoff`), nor is a minimum readmit period that would end
  later; a delay or deadline of a request that would end later ends at the
  horizon (`Due`). So nothing waits for ever because the model's time ended.
* `Epoch`: `Date.now()` when the client is created; larger than every period, as
  milliseconds since 1970 are. Periods and times are compared by the code, and
  the findings about readmission follow from just this.
* Backoffs are 1 and 2, the delays of a request likewise. Backoffs are whole
  numbers; halving in the code is exact, and no property depends on the rest.
* `MaxAttempts`, the attempts of a subscription, bounds its streams by itself.
* `MaxRounds`: how many loops `setNetworkUpdatePeriod` may start; `Query`: how
  many address book queries run together. A timer waits for a free identity.
* `Channel`, `Grpc`, `Call`: what is made beyond them is not made.
* `MaxId`, `MaxIds`: transaction IDs that are generated; `MaxFiles`: files beyond
  which no expired ID makes another; `MaxCalls`: calls
  of the application; `MaxSets`: calls of the setters. They bound what the
  application does, not what the code does in return.
* The symmetry sets are permutations of node objects, channels, clients and
  calls, which have no order; the liveness runs use none.

### Fairness

* `LiveSpec` (network): time passes, and `ListNodes` goes on happening, that is,
  the application keeps making requests. Readmission is lazy: without requests
  no node is ever readmitted.
* `FairExecSpec`: timers fire and continuations run (the event loop), so
  `Local`, which includes the deadline timer, is weakly fair. `Remote`, the
  nodes' answers, is not: nodes may stay silent.
* `FairSpec` (subscription): retry timers fire; the mirror node makes some
  progress on some stream: it sends, ends or fails.

* `FairSpec` (network update): timers fire, those of the loop and those of
  retries; the mirror node makes some progress on some stream of every query: it
  sends, ends or fails.

### Known divergences

Where reading the code against its documents showed a disagreement that is not
the run above, the models do what the code does, and their properties
make the exception by name (`raced`, `late`, `lost`, `overlapped`, `evicted`,
`spoiled`, the members of `mishaps`). Such a property does not catch the
divergence itself: it says that nothing else breaks what it states, and that no
other call, node, key or client is affected. Addresses of a book are a set in
`NetworkUpdate`, so that it does not tell one that a retried stream repeats
(`AddressBookQuery.js:225`). They are:

* `setNetwork`: a node that is backing off when the network is replaced has no
  entry in the account map any more; removing it later throws half way
  (`ManagedNetwork.js:256`), after other nodes were closed and removed.
* The minimum readmit period is compared with a time since 1970
  (`ManagedNetwork.js:194`) and never delays anything; CONFIGURATION.md:289 says
  that a node waits for it.
* The clone of a node takes its maximum backoff from the minimum of the original
  (`ManagedNode.js:110`), below a minimum that is set later.
* `getNode` for an account without an entry answers with a node of a random
  account (`ManagedNetwork.js:440`), to which the request is then sent.
* "All nodes are unhealthy" is thrown at the last node of the list
  (`Executable.js:651`), although others were not asked or are healthy.
* The limit of a subscription counts down to 0, which the next stream sends to
  the mirror node as "no limit" (`TopicMessageQuery.js:434`).
* The network update ends for good with the first query that fails
  (`Client.js:761`), and `close()` during a query does not keep its book from
  being installed; a period set during a query starts a second loop.
* A channel that is closed closes the gRPC client of every channel of its
  address (`NodeChannel.js:152`), and deletes a cache entry that may be another
  client's.
* `removeSignature` drops the signer that was added last, not the key's
  (`Transaction.js:919`): with signing on demand the other keys may then have
  each other's signer. A key whose signer failed counts as signed. Signatures
  and keys that are added after `toBytesAsync` has locked the encoded
  transactions are not in later bytes.
* `signWith` signs the bodies it began with. When freezing again, or
  `addSignature` of a transaction that signs on demand, replaces the list
  (`Transaction.js:1053`) while a signer is awaited, or afterwards, the key counts
  as signed and has no signature in what is sent.
* `toBytesAsync` and the hashes read the encoded transactions after an await
  (`Transaction.js:1241`, `1269`, `1296`). A `sign()` that is called in between
  clears them (`:732`), and an empty list is given out, with signing on demand
  and without.
* An attempt pads the encoded transactions before its node, which throws
  (`List.js:61`) when they are locked and were cleared: that is,
  `toBytesAsync()`, `sign()` and an `execute()` that is not at the first node.
* A transaction that is not locked gets a new ID when its own expires, but
  bodies that are signed already keep the old one.
* With signing on demand nothing locks the ID before a response names it. When
  the answer to an attempt is lost and the ID then expires, the transaction is
  sent with another ID (`Transaction.js:1599`) although the network may have
  accepted the first: `ContractCreateFlow` may create two contracts, or a file
  that no call knows of and nobody deletes.
* A chunked transaction that is frozen again after it was sent starts its chunks
  again under the ID in turn: chunks that were applied may be applied once more.
* With signing on demand the list of nodes advances twice per attempt
  (`Transaction.js:1422`); every second node is skipped. A long message signed
  on demand is sent whole, once per chunk: each of its IDs may take effect, once.
* The time left for the next chunk is computed as the time the last one took
  (`TopicMessageSubmitTransaction.js:383`) and has no effect. The IDs of chunks
  follow each other in nanoseconds without a carry into seconds.
* A query compares its cost with the maximum in their low 32 bits
  (`Query.js:327`): a cost of 2^31 tinybars and more may pass any maximum,
  although the comment at `Query.js:84` says that it throws.
* An attempt of a paid query whose answer was lost pays again.
* NFTs are sorted by sender, receiver and serial number but not by token
  (`AbstractTokenTransferTransaction.js:454`), and while both lists go on only
  the last group is looked at: two NFTs of one token around another's, next to a
  fungible token of a higher ID, make two lists of one token, which the network
  refuses (`Status.js:2250`). NFTs that are equal in all three stay in the order
  of the list, which reading from bytes changes: the same transfers may then be
  grouped otherwise.
* The setters of approvals change a frozen transaction, but not its body
  (`TransferTransaction.js:276`; `Transaction.js:1794` calls it immutable).
* The constructor of `TransferTransaction` ignores the transfers of tokens and
  NFTs it documents (`TransferTransaction.js:89`).
* A second add for an account keeps whether the first was by allowance, and
  `addTokenTransfer` resets the expected decimals that were given before. The
  decimals of a token in the body are those of its first transfer; 0 decimals
  are read from bytes as none (`TokenTransfer.js:117`).
* `addTokenTransferWithDecimals` that throws at a mismatch has changed the
  transfers before it (`AbstractTokenTransferTransaction.js:345`).
* `ContractCreateFlow.execute()` does not pass `setMaxChunks` on;
  `executeWithSigner()` does.

## Proofs

`Executable_proofs` proves five theorems about `Spec` of `ManagedNetwork`, the
network by itself, for every set of accounts, hosts,
ports, objects, network maps, periods and backoffs that satisfy the assumptions
of `ManagedNetwork`:

* `TypeCorrect`: `TypeOK`;
* `ListsCorrect`: `ListsHoldCurrentNodes`;
* `ChannelsCorrect`: `OpenChannelsAreReachable`;
* `SetNetworkCorrect`: `SetNetworkInstallsMap`;
* `UnhealthyListing`: `OnlyClonesListedUnhealthy`.

The argument: `IInv`, the conjunction of `TypeOK` and `ListsInv`, is inductive.
`ListsHoldCurrentNodes` and `OpenChannelsAreReachable` need each other (a channel
is opened on an object that getNode found in the lists, so the lists must hold
current objects; an object that leaves the lists is closed), and both need the
account map not to hold an object of another account, which `SetNetwork` keeps
because it rebuilds the map from the objects' own accounts. The guard
`ListsIntact` becomes false for good with `close()` or an exception. The two
action properties follow from `TypeOK` alone: `SetNetworkInstallsMap` from the
two tests that `NodesToRemove` and `MissingAddresses` make, one object per entry,
`OnlyClonesListedUnhealthy` action by action.

The assumptions are those of the constants: network maps map addresses to
accounts, times and periods are natural numbers smaller than the epoch, minima
do not exceed maxima. TLC evaluates them in every run.

`TopicSubscription_proofs` proves four, for every topic, start time, end time,
limit and number of attempts:

* `TypeCorrect`: `TypeOK`;
* `StreamsCorrect`: `StreamsBounded`;
* `ResumeCorrect`: `NoMessageSkipped`;
* `ChunksCorrect`: `PassedMessagesAreWhole`.

None of the last three is inductive. `IInv` adds: each attempt made is a stream
or a pending timer (`AttemptsCount`, an equation, from which the bound follows);
nothing is missing before the place *any* stream has reached, not only before
the resume point, because the resume point follows whichever stream delivered
last (`Resumable`); and what a stream has collected of a chunked message are
different chunks of it, all before the stream's place (`ChunksInOrder`), so that
as many as the message has are all of them (`CompleteIsWhole`, by counting).

`TransfersAndFlows_proofs` proves three about `ContractCreateFlow`, for every
bytecode, first part, chunk size, limit and number of calls:

* `FlowCorrect`: `FlowInv`, that is, whole bytecode and one contract per ID;
* `FileCorrect`: `FileIsKeptForContract`;
* `ResolvedCorrect`: `ResolvedCallsCleanUp`.

That a contract has the whole bytecode rests on a chain that `IInv` spells out:
a call past "appending" knows a file that is whole (`FilesAreKnown`), so the
file that the shared transaction names is whole whichever call named it last
(`TransactionIsReady`); the network has seen no transaction but the frozen one,
under one of the IDs it has had, and it cannot change its file
(`AcceptedIsFrozen`); and files are
deleted by calls that know of the contract (`DeletedLast`). The number of
contracts follows by counting (`ContractsAreCounted`): they have different IDs,
and without signing on demand the transaction is locked when it is frozen.

`Executable_proofs` goes on with four about `Executable`, for any number of
requests and nodes:

* `RequestsCorrect`: `ExecInv`;
* `LoopKeepsNetwork`: `ListsHoldCurrentNodes` and `OpenChannelsAreReachable` in
  the composition;
* `BackedOffNodesRest`: `NoNewSendToBackedOffNode`;
* `LoopImplementsContract`: `ImplementsContract`, the refinement of
  `RetryContract`.

Whatever a request does to the network is a step of `ManagedNetwork` or a
readmission with nothing due (`NetStep`), so the invariant of the network is
carried over by the lemmas of its own proofs. `ExecIInv` adds for each request
where its list of nodes stands against its attempt (`InTurnOf`), which the
attempt and the index keep in step through skipped nodes, failed answers and
retries; that a request that makes, sends or waits holds a node object that
exists; and that only the running request is in its loop. `BackedOffNodesRest`
and the refinement go through the actions one by one.

`NetworkUpdate_proofs` proves four and `Invariance`, for any book, queries,
attempts and rounds:

* `QueriesBounded`: `UpdateInv`;
* `OneRound`: `OneRoundAtATime`;
* `ClosedStaysClosed`: `ClosedAtRestStaysClosed`;
* `WholeBook`: `WholeBookInstalled`.

`IInv` adds for each query that two attempts pay for one stream more (`Gained`,
from which the bound follows) and that, until it is settled, its list of
addresses has what each open stream has sent (`QueryForm`); and that a timer is
forgotten only when a second round exists (`TimersForm`). `Rounds` is a
cardinality: each action moves at most one round between the timer, the
forgotten timers and the queries, which the proof counts.

`ChannelCache_proofs` proves three and the invariant they follow from
(`Invariance`), for any places, addresses, channels, clients and calls:

* `CacheCorrect`: `CacheInv`;
* `ClientsAreClosable`: `OpenClientsHaveOwners`;
* `RequestsLeave`: `RequestsLeaveByOpenClients`.

`IInv` adds that a channel, its node and its client are of one address
(`Homes`), and that a call whose client is ready still has that client in its
channel (`ReadyCallsFollow`), unless a race is recorded.

`ChunkedTransaction_proofs` proves four and `Invariance`, for any nodes, lengths,
chunk sizes and attempts:

* `ChunksCorrect`: `ChunkInv`;
* `FilesInOrder`: `FileIsPrefixOfContents`;
* `ChunksTakeEffectOnce`: `ChunksAreAppliedOnce`;
* `ResolvedCallsSubmitted`: `ResolvedMeansSubmitted`.

`IInv` adds the form of a frozen transaction, one body for every chunk and node,
in order (`FrozenForm`); that what is in flight, taken or applied is still the
chunk of its ID, after executions and failures, until the transaction is frozen
again after sending (`ChunksKeepTheirIds`); that an ID is applied or refused only
when taken, and once (`AppliedOnce`); that while a call is under way the IDs are
locked, and what it has behind it (`CallForm`); and of a
file that the chunk under way is at most the one after those applied
(`FileInOrder`), which is what awaiting each receipt buys. `ChunksTakeEffectOnce`
needs the lock: without it an ID that expires is replaced, and its chunk may
take effect under both. What is applied has different IDs, all of the list, so
that there are no more of them than chunks (`NoMoreThanIds`).

`QueryPayment_proofs` proves three and `Invariance`, for any nodes, amounts,
limits and executions:

* `PaymentsFitNodes`: `PaymentInv`;
* `ChargesWithinMaximum`: `SmallPaymentsWithinMaximum`;
* `ReceiptsAreFinal`: `SettlesWithFinalReceipt`.

`IInv` adds what each suspended execution holds (`PaymentKnown`); that while one
prepares payments the others find none to use (`PreparedAlone`); and that every
amount on its way, not only those that were charged, is within the maximum
(`AmountsWithin`).

`TransactionSigning_proofs` proves four and `Invariance`, for any nodes, keys and
number of calls that overlap:

* `BodiesMatchKeys`: `SigningInv`;
* `RequestsForTheirNodes`: `SentRequestIsForItsNode`;
* `OwnSignatures`: `SignaturesAreByTheirKeys`;
* `WholeListsGiven`: `GivenOutForEveryNode`.

Its invariant is the largest. `Forms` relates the transaction to every call that
is suspended on it: bodies are for the nodes in their order (`BodiesForm`); each
key has as many signatures in each body as the state of its own call of
`signWith` allows (`SigningForm`, `SignersForm`); IDs of bodies and of the
transaction agree but for renewals that are recorded (`IdsForm`); keys and
signers are paired at the same place (`PairsForm`); and what an encoding has
pushed are the first nodes (`EntriesForm`, `EncodingForm`), what an execution
sends belongs to its place (`ExecutionForm`). It is proved in two layers, because
the primed formulas are too large for the provers: lemmas about values, one per
way of changing the transaction (`...Keeps`), and one short lemma per action that
applies them (`...Step`).

`TransfersAndFlows_proofs` goes on with two about `TransferTransaction`, for any
accounts, tokens, amounts, decimals, constructor arguments and order of calls:

* `TransferCorrect`: `TransferInv`;
* `BodyCorrect`: `BodyMovesWhatIsAsked`.

The lists may be of any length, so the proof has to say what the code's loops
compute on all of them, by induction. The library's induction theorems take the
statement as an operator, which the provers here cannot instantiate. `Induction`
takes the *set* of the numbers that the statement holds for instead, and follows
from the theorem that a well-founded relation has a minimal element in every set
that is not empty. The rest is built on it:

* what a fold computes (`Recursion`, `Folding`): the values after each prefix, of
  which a total is the last (`TotalSums`);
* sorting (`SortedPermutes`): the ranks of a strict order of 1..n are 1..n, each
  once (`Ranking`), so a sorted list has the elements in another order;
* merging (`MergedGroups`): `MergeInv` says that the groups hold the first i - 1
  transfers and the first j - 1 NFTs, each once, in groups of their token.
  Each step preserves it and adds one at least, so no more steps are needed than
  there are transfers and NFTs. That the NFTs are not sorted by token does not
  matter, which is why a token may get two groups;
* reading (`RoundTrip`): the groups put one after the other hold what was
  distributed over them (`FlattenSeqFlattens`, `FlattenedDistributed`);
* totals (`OutcomeSame`): when nothing is in a list twice, totals depend on what
  is in it and not on the order, so sorting and reading keep them;
* the adds (`WithHbarAdds` and so on): each changes one total, by the amount.

`TransferIInv` is short: the lists are well-formed, those of a frozen body are
too and its groups are of one token, and what the body would move, or what is in
the lists before freezing, is what was asked for. `TransferInv` alone is not
inductive because it says nothing of the totals, nor of groups. After freezing
the lists and the body part ways: approvals may still be set in the lists, which
no body follows. `torn` makes the exception for an add that threw half-way; even
then nothing is in a list twice, since `UpdatedKeeps` holds with a mismatch too.

### Assumptions

Each module names what it assumes of its constants (`...Assumption`), TLC
evaluates it in every run. Beyond types: lists of node accounts are not empty
(freezing without nodes throws, `Transaction.js:1033`), a transaction ID can be
generated (`MaxId` at least 1; the code generates as many as it needs), the
accounts of `Executable` are finitely many (a network is a finite map; the list
of nodes is made of it), the arguments of the constructors in
`TransferTransaction` are sequences of transfers, and an airdrop is given no hbar,
which its constructor has no parameter for. `PowerAssumption` of `Executable` and `QueryPayment`
are facts of arithmetic about the powers of 2 in use, which the provers do not
know: that they are natural numbers, and that one is not above the next.

### Strengthened invariants in TLC

Each inductive invariant was checked by TLC on the run's instance before it was
proved: `ChunkedTransaction` on 267,962 states, `QueryPayment` on 2,194,932,
`TransactionSigning` on 549,626, and on 4,050,695 with one more call of the
application; `ContractCreateFlow` on 413,286; `NetworkUpdate` on 322,357, and with 0, 1 and 3 for `MaxRounds`;
`TransferTransaction` on 185,252.

### Checked by TLC only

* Liveness (`EveryNodeIsReadmitted`, `EveryExecuteSettles`,
  `EveryMessageArrives`, `ClosedClientComesToRest`, `UpdatesGoOn`), which TLAPS
  does not reach.

Every invariant and every action property of the passing runs is also a theorem.

## Not modelled

* Of the network: `setLedgerId` and `setNetworkName`; `_removeDeadNodes`, whose
  condition no code ever makes true.
* Of `execute()`: `executeWithSigner`, logging. What subclasses do in
  `_beforeExecute` and `_makeRequestAsync` is in the modules about them; in
  `Executable` these are awaits.
* Of subscriptions: user-supplied retry handlers, listeners that throw, a query
  that is subscribed twice. Without a start time a subscription begins at the
  current time, at every retry again; the code promises nothing about messages
  published in between, nor about a chunked message cut by a failure, whose first
  chunks are not sent again. The model does both and states no property.
* Of the client: settings that are plain fields, `ping`, the operator. The
  address book does not change.
* Of transactions: a client without an operator, `toBytesAsync` of a transaction
  that is not frozen, freezing again during an execution or encoding,
  `schedule`. Of chunked ones: `fromBytes`, empty contents, and calls of
  `executeAll()` or `freezeWith()` during an `executeAll()`: they would share the
  index of the list of IDs, which each of them moves.
* Of queries: `getCost` called by the application, explicit node lists,
  `setQueryPayment(null)`, `toBytes`.
* Of flows: an operator without a key; `TokenRejectFlow`, which starts its
  signatures without awaiting them and then runs two transactions after each
  other; `AccountInfoFlow`.
* Of transfers: amounts near the width of a Long, checksums, the getters, which
  change nothing.
* Timestamps of transaction IDs are unique by chance (`Timestamp.js:79`), which
  a model checker does not weigh: the models take a fresh ID.
* Keys, mnemonics, encodings: cryptography. The other request and response classes: setters
  and conversions. `packages/proto`: generated. `tck/`: a test server. Together
  they are by far most of the repository's lines.

## Plan

Done: all modules, and the proofs of every safety property the runs check. What
could come next are the parts listed above as not modelled, beginning with
`TokenRejectFlow` and `executeWithSigner`; a refinement from `TransactionSigning`
to a specification of what a signed list promises; and, with provers that reason
about ENABLED, the liveness properties.
