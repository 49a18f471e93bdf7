------------------------- MODULE ChunkedTransaction --------------------------
(***************************************************************************)
(* A long message or file that is submitted as several transactions of one *)
(* object (TopicMessageSubmitTransaction.js, FileAppendTransaction.js):    *)
(* freezeWith() cuts it into chunks with a transaction ID each, and        *)
(* executeAll() executes one after the other. A message goes on with the   *)
(* answer of the node, a file waits for the receipt. An executeAll() that  *)
(* fails leaves the list of IDs where it is, for the next one to go on.    *)
(*                                                                         *)
(* Contents are positions 0..length, a payload the interval it was cut     *)
(* from. Transaction IDs are numbers: the network knows each one once. The *)
(* retry loop of a chunk is reduced to its sends and answers, signatures   *)
(* are left to TransactionSigning.                                         *)
(*                                                                         *)
(* The application waits for executeAll() before it freezes or calls it    *)
(* again. The code does not see to that: two calls at a time would share   *)
(* the index of the list of IDs and move it twice.                         *)
(***************************************************************************)
EXTENDS Naturals, FiniteSets, SequencesExt

CONSTANTS
    Nodes,          \* the node account IDs, a sequence
    Lengths,        \* the lengths of contents that are tried
    ChunkSize,      \* `_chunkSize'
    MaxChunks,      \* `_maxChunks'
    MaxAttempts,    \* attempts per chunk
    MaxCalls        \* bound: calls of freezeWith() and executeAll()

N == Len(Nodes)

ChunkAssumption ==
    /\ Nodes \in Seq(Range(Nodes)) \ {<<>>} /\ Lengths \subseteq Nat \ {0}
    /\ {ChunkSize, MaxChunks, MaxAttempts} \subseteq Nat \ {0}
    /\ MaxCalls \in Nat
ASSUME ChunkAssumption

VARIABLES
    kind, onDemand, length, \* file or message, how it is signed, how long
    tx,         \* the fields of the transaction
    locked,     \* `_transactionIds.locked'
    execution,  \* the call of executeAll()
    inflight,   \* requests on their way, some no longer waited for
    taken,      \* what nodes have accepted: at most one request per ID
    applied,    \* what reached consensus successfully, in that order
    refused,    \* the IDs that reached consensus and failed
    calls,
    mishaps     \* history: what has gone wrong

caseVars == <<kind, onDemand, length>>
networkVars == <<inflight, taken, applied, refused>>
vars == <<caseVars, tx, locked, execution, networkVars, calls, mishaps>>

Idle == [at |-> "idle"]

Chunks == (length + ChunkSize - 1) \div ChunkSize
IsTooLong == Chunks > MaxChunks

Body == [node : Range(Nodes), id : Nat, from : Nat, to : Nat]

TransactionFields ==
    [ids : Seq(Nat), index : Nat,   \* `_transactionIds'
     node : 0..(N - 1),             \* the index of `_nodeAccountIds'
     signed : Seq(Body)]            \* `_signedTransactions'

-----------------------------------------------------------------------------
(* Freezing *)

\* An ID that the application sets before is left out.
IsFrozen(t) == t.ids # <<>>

\* TransactionId.generate for the ID in turn: another one than those that are
\* in the list, and than those that it replaced.
NewId(t) == t.ids[t.index + 1] + Len(t.ids)

\* _buildNewTransactionIdList, and the ID that is in turn then.
CurrentId(t) ==
    IF ~ IsFrozen(t) THEN 1
    ELSE IF locked THEN t.ids[t.index + 1] ELSE NewId(t)

\* The payload of the chunk at an index of the list of IDs.
Cut(i) ==
    [from |-> i * ChunkSize,
     to |-> IF (i + 1) * ChunkSize > length THEN length ELSE (i + 1) * ChunkSize]

Whole == [from |-> 0, to |-> length]

MakeBody(node, id, payload) ==
    [node |-> node, id |-> id, from |-> payload.from, to |-> payload.to]

\* Transaction.freezeWith: one ID, and the bodies for it.
FrozenWhole(t) ==
    [t EXCEPT !.ids = <<CurrentId(t)>>,
              !.signed = IF onDemand THEN <<>>
                         ELSE [n \in 1..N |->
                                  MakeBody(Nodes[n], CurrentId(t), Whole)]]

\* Mutant: the bodies are made before the list of IDs moves on.
FrozenChunks_Late(t) ==
    [t EXCEPT !.ids = [c \in 1..Chunks |-> CurrentId(t) + c - 1], !.index = 0,
              !.signed = [e \in 1..(Chunks * N) |->
                  LET c == (e - 1) \div N
                  IN  MakeBody(Nodes[((e - 1) % N) + 1], CurrentId(t) + c,
                               Cut(IF c = 0 THEN 0 ELSE c - 1))]]

\* freezeWith: the IDs follow the one in turn, there is a body for every chunk
\* and node, and the list of IDs is back at the first.
FrozenChunks(t) ==
    [t EXCEPT !.ids = [c \in 1..Chunks |-> CurrentId(t) + c - 1], !.index = 0,
              !.signed = [e \in 1..(Chunks * N) |->
                  LET c == (e - 1) \div N
                  IN  MakeBody(Nodes[((e - 1) % N) + 1], CurrentId(t) + c,
                               Cut(c))]]

\* A message that is too long is frozen all the same when freezeWith throws; a
\* file is only refused when it is executed.
Refuses == kind = "message" /\ IsTooLong
Frozen(t) == IF Refuses THEN FrozenWhole(t) ELSE FrozenChunks(t)

\* The list of IDs is not locked while it is made, and a file's is afterwards.
LockedByFreezing == IF Refuses THEN locked ELSE kind = "file"

\* The object may be frozen again, after it was sent too: the chunks start
\* again then, under the ID in turn.
Freeze ==
    /\ execution.at \in {"idle", "resolved"}
    /\ tx' = Frozen(tx) /\ locked' = LockedByFreezing
    /\ execution' = Idle
    /\ mishaps' = mishaps \cup
                     IF inflight \cup taken # {} THEN {"frozenAgain"} ELSE {}

-----------------------------------------------------------------------------
(* executeAll() *)

Turn(left, responses) ==
    [at |-> "turn", left |-> left, attempt |-> 1, responses |-> responses]

\* Mutant: the getter of the transaction ID leaves the list as it is.
LockedByReading_Not(lock) == lock

\* _getTransactionId: who asks for the ID is given one that stays.
LockedByReading(lock) == TRUE

\* The file's check precedes the freezing, the message's is part of it.
ExecuteAll ==
    /\ execution.at \in {"idle", "resolved"}
    /\ ~ (kind = "file" /\ IsTooLong)
    /\ IF IsFrozen(tx)
       THEN /\ locked' = LockedByReading(locked)
            /\ execution' = Turn(Len(tx.ids), <<>>)
            /\ mishaps' = mishaps \cup IF Refuses THEN {"refusedBefore"} ELSE {}
            /\ UNCHANGED tx
       ELSE /\ tx' = Frozen(tx)
            /\ locked' = IF Refuses THEN locked
                         ELSE LockedByReading(LockedByFreezing)
            /\ execution' = IF Refuses THEN Idle ELSE Turn(Len(tx'.ids), <<>>)
            /\ UNCHANGED mishaps

\* With signing on demand the body is made now: a message has lost the number
\* of its chunk, and is sent as a whole.
Made(t) ==
    MakeBody(Nodes[t.node + 1], t.ids[t.index + 1],
             IF kind = "file" THEN Cut(t.index) ELSE Whole)

\* Mutant: entries are counted by node, then by chunk.
Request_Swapped(t) ==
    IF onDemand THEN Made(t) ELSE t.signed[t.node * Len(t.ids) + t.index + 1]

\* _makeRequestAsync
Request(t) ==
    IF onDemand THEN Made(t) ELSE t.signed[t.index * N + t.node + 1]

\* The list of nodes moves once, with signing on demand twice.
Send ==
    /\ execution.at = "turn"
    /\ LET request == Request(tx)
       IN  /\ execution' = [at |-> "sent", left |-> execution.left,
                            attempt |-> execution.attempt,
                            responses |-> execution.responses,
                            node |-> Nodes[tx.node + 1], request |-> request]
           /\ inflight' = inflight \cup {request}
    /\ tx' = [tx EXCEPT !.node = (@ + IF onDemand THEN 2 ELSE 1) % N]
    /\ UNCHANGED <<taken, applied, refused, mishaps>>

\* The request fails or its deadline passes, or the node is busy.
Retry ==
    /\ execution.at = "sent" /\ execution.attempt < MaxAttempts
    /\ execution' = [Turn(execution.left, execution.responses) EXCEPT
                        !.attempt = execution.attempt + 1]
    /\ UNCHANGED <<tx, networkVars, mishaps>>

\* The node answers with an error, which a known ID is too, or the attempts run
\* out: executeAll() rejects with all its responses.
Reject ==
    /\ execution.at = "sent"
    /\ execution' = Idle
    /\ UNCHANGED <<tx, networkVars, mishaps>>

\* TransactionExpired: an error, unless the ID may be replaced.
Expired ==
    /\ execution.at = "sent"
    /\ IF locked
       THEN execution' = Idle /\ UNCHANGED tx
       ELSE /\ execution.attempt < MaxAttempts
            /\ tx' = [tx EXCEPT !.ids[tx.index + 1] = NewId(tx)]
            /\ execution' = [Turn(execution.left, execution.responses) EXCEPT
                                !.attempt = execution.attempt + 1]
    /\ UNCHANGED <<networkVars, mishaps>>

\* _mapResponse: the list of IDs moves on.
Advanced(t) == [t EXCEPT !.index = (@ + 1) % Len(t.ids)]

NextChunk(left, responses) ==
    IF left = 1 THEN [at |-> "resolved", responses |-> responses]
    ELSE Turn(left - 1, responses)

\* Mutant: a file does not wait for the receipt.
Following_NoReceipt(left, responses) == NextChunk(left, responses)

\* A file asks for the receipt before its next chunk.
Following(left, responses) ==
    IF kind = "message" THEN NextChunk(left, responses)
    ELSE [at |-> "receipt", left |-> left, responses |-> responses]

IdsOf(bodies) == {b.id : b \in bodies}

Respond ==
    /\ execution.at = "sent" /\ execution.request.id \in IdsOf(taken)
    /\ execution' = Following(execution.left,
                        Append(execution.responses, tx.ids[tx.index + 1]))
    /\ tx' = Advanced(tx)
    /\ UNCHANGED <<networkVars, mishaps>>

Receipt ==
    /\ execution.at = "receipt"
    /\ Last(execution.responses) \in IdsOf(Range(applied))
    /\ execution' = NextChunk(execution.left, execution.responses)
    /\ UNCHANGED <<tx, networkVars, mishaps>>

\* The receipt has another status, or the query for it fails. The list has
\* moved on.
ReceiptFails ==
    /\ execution.at = "receipt"
    /\ execution' = Idle
    /\ mishaps' = mishaps \cup {"receiptFailed"}
    /\ UNCHANGED <<tx, networkVars>>

-----------------------------------------------------------------------------
(* The network: requests may arrive late or never; every ID is accepted once *)

Arrive(b) ==
    /\ inflight' = inflight \ {b}
    /\ taken' = IF b.id \in IdsOf(taken) THEN taken ELSE taken \cup {b}
    /\ UNCHANGED <<tx, execution, applied, refused, mishaps>>

Undecided == {b \in taken : b.id \notin IdsOf(Range(applied)) \cup refused}

Consensus(b) ==
    /\ \/ applied' = Append(applied, b) /\ UNCHANGED refused
       \/ refused' = refused \cup {b.id} /\ UNCHANGED applied
    /\ UNCHANGED <<tx, execution, inflight, taken, mishaps>>

-----------------------------------------------------------------------------

Init ==
    /\ kind \in {"message", "file"} /\ onDemand \in BOOLEAN /\ length \in Lengths
    /\ tx = [ids |-> <<>>, index |-> 0, node |-> 0, signed |-> <<>>]
    /\ locked = FALSE /\ execution = Idle
    /\ inflight = {} /\ taken = {} /\ applied = <<>> /\ refused = {}
    /\ calls = 0 /\ mishaps = {}

Application ==
    /\ calls < MaxCalls /\ calls' = calls + 1
    /\ Freeze \/ ExecuteAll
    /\ UNCHANGED networkVars

Execution ==
    Send \/ Retry \/ Reject \/ Expired \/ Respond \/ Receipt \/ ReceiptFails

Network ==
    \/ \E b \in inflight : Arrive(b)
    \/ \E b \in Undecided : Consensus(b)

Next ==
    /\ Application \/ ((Execution \/ Network) /\ UNCHANGED <<calls, locked>>)
    /\ UNCHANGED caseVars

Spec == Init /\ [][Next]_vars

-----------------------------------------------------------------------------
(* Properties *)

TypeOK ==
    /\ kind \in {"message", "file"} /\ onDemand \in BOOLEAN /\ length \in Lengths
    /\ tx \in TransactionFields
    /\ IsFrozen(tx) => tx.index < Len(tx.ids)
    /\ locked \in BOOLEAN
    /\ execution.at \in {"idle", "turn", "sent", "receipt", "resolved"}
    /\ execution.at = "sent" => execution.request \in Body
    /\ inflight \cup taken \cup Range(applied) \subseteq Body
    /\ refused \subseteq Nat
    /\ calls \in 0..MaxCalls
    /\ mishaps \subseteq {"refusedBefore", "receiptFailed", "frozenAgain"}

\* What is sent to a node is for that node, under the ID that the response
\* will name, and holds exactly the chunk of that ID. A message that was refused
\* as too long is sent whole, and so is one that is signed on demand.
SentChunkIsInTurn ==
    execution.at = "sent" =>
        /\ execution.request.node = execution.node
        /\ execution.request.id = tx.ids[tx.index + 1]
        /\ \/ kind = "message" /\ onDemand
           \/ "refusedBefore" \in mishaps
           \/ execution.request.from = Cut(tx.index).from
              /\ execution.request.to = Cut(tx.index).to

\* The list of IDs, its index and what is sent fit together.
ChunkInv == TypeOK /\ SentChunkIsInTurn

\* Whatever is lost, late or retried, a file consists of its first chunks in
\* order, unless executeAll() goes on after a receipt it did not get, or the
\* transaction is frozen again after it was sent.
FileIsPrefixOfContents ==
    \/ kind = "message" \/ mishaps \cap {"receiptFailed", "frozenAgain"} # {}
    \/ \A i \in DOMAIN applied :
          applied[i].from = IF i = 1 THEN 0 ELSE applied[i - 1].to

\* However often a chunk is sent and executeAll() is called, no chunk takes
\* effect twice. A message that is signed on demand is sent whole for every
\* chunk: it takes effect once for each at most. Not so when the transaction
\* is frozen again after it was sent.
ChunksAreAppliedOnce ==
    "frozenAgain" \notin mishaps =>
        /\ Len(applied) <= Chunks
        /\ \/ kind = "message" /\ onDemand
           \/ \A i, j \in DOMAIN applied :
                 i # j => applied[i].from # applied[j].from

\* When executeAll() resolves, every chunk was accepted and has its response,
\* and of a file that was not frozen again every chunk was appended.
ResolvedMeansSubmitted ==
    execution.at = "resolved" =>
        /\ Range(execution.responses) = Range(tx.ids)
        /\ Range(tx.ids) \subseteq IdsOf(taken)
        /\ kind = "file" /\ "frozenAgain" \notin mishaps =>
              \A c \in 0..(Chunks - 1) : \E b \in Range(applied) :
                  b.from = Cut(c).from /\ b.to = Cut(c).to
=============================================================================
