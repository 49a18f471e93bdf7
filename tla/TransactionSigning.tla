------------------------- MODULE TransactionSigning --------------------------
(***************************************************************************)
(* A transaction of one chunk (Transaction.js): frozen for several nodes,  *)
(* signed by several keys whose signers are awaited, taken apart and       *)
(* encoded by the application, and executed, all of which may overlap.     *)
(*                                                                         *)
(* Without signing on demand the bodies for all nodes are made when the    *)
(* transaction is frozen, and every key signs all of them. With it, keys   *)
(* and signers are kept, and a body is made and signed when it is sent.    *)
(*                                                                         *)
(* A signature is its key and the signer that made it, which is the same   *)
(* key's unless the code pairs them wrongly. A signature map says how often *)
(* it holds each signature; the order of its list is left out. Of          *)
(* `_transactions' only the nodes are kept: execute() encodes what it sends *)
(* anew. The retry loop is reduced to its sends and answers. What has been *)
(* encoded is awaited before it is read, so the application may do more in *)
(* between; the hashes of all nodes are read in one step.                  *)
(***************************************************************************)
EXTENDS Naturals, FiniteSets, SequencesExt

CONSTANTS
    Nodes,          \* the node account IDs of the transaction, a sequence
    Key, Operator,  \* the keys, and the operator's
    NoSigner,       \* null in `_transactionSigners'
    NoNode,         \* a missing entry of `_transactions'
    MaxId,          \* bound: transaction IDs that are generated
    MaxCalls        \* bound: calls of the application

N == Len(Nodes)

SigningAssumption ==
    /\ Nodes \in Seq(Range(Nodes)) \ {<<>>} /\ Operator \in Key
    /\ NoSigner \notin Key /\ NoNode \notin Range(Nodes)
    /\ MaxId \in Nat \ {0} /\ MaxCalls \in Nat
ASSUME SigningAssumption

VARIABLES
    signOnDemand,   \* the client's setting; it does not change
    tx,         \* the fields of the transaction
    signing,    \* the calls of signWith that await a signer, by key
    execution,  \* the call of execute()
    encoding,   \* the call of toBytesAsync or getTransactionHashPerNode
    calls,      \* calls that the application has made
    given,      \* history: the nodes of the transactions given out last
    spoiled,    \* history: keys whose record and signatures may disagree
    mishaps     \* history: what has gone wrong

historyVars == <<given, spoiled, mishaps>>
vars == <<signOnDemand, tx, signing, execution, encoding, calls, historyVars>>

Mishaps == {"frozen again", "stale bodies", "wrong pair", "turned", "repeated",
            "added late"}

\* Of execution and encoding.
Idle == [at |-> "idle"]

Signatures == Key \X Key
SignatureMaps == [Signatures -> Nat]
NoSignatures == [s \in Signatures |-> 0]
Added(sigs, s) == [sigs EXCEPT ![s] = @ + 1]

Body == [node : Range(Nodes), id : 0..MaxId, sigs : SignatureMaps]

TransactionFields ==
    [onDemand : BOOLEAN,    \* `_signOnDemand'
     account : BOOLEAN,     \* `_operatorAccountId' is set
     locked : SUBSET {"ids", "transactions", "signed"},
     id : 0..MaxId,         \* the transaction ID, 0 if there is none
     index : 0..(N - 1),    \* of `_nodeAccountIds'
     signed : Seq(Body),    \* `_signedTransactions'
     built : Seq(Range(Nodes) \cup {NoNode}),   \* `_transactions'
     signerKeys : SUBSET Key,                   \* `_signerPublicKeys'
     publicKeys : Seq(Key), signers : Seq(Key \cup {NoSigner})]

-----------------------------------------------------------------------------
(* Freezing *)

Bodies(id) ==
    [i \in 1..N |-> [node |-> Nodes[i], id |-> id, sigs |-> NoSignatures]]

\* isFrozen() and _isFrozen()
HasSigned(t) == t.signed # <<>>
IsFrozen(t) == t.onDemand \/ HasSigned(t)

NewIdList(t) ==
    IF "ids" \in t.locked \/ ~ t.account THEN t ELSE [t EXCEPT !.id = @ + 1]

\* Freezing replaces the list of bodies, even by bodies that are the same.
Replaces(t, onDemand) == ~ onDemand /\ "signed" \notin t.locked

BuildSigned(t) ==
    IF "signed" \in t.locked THEN t ELSE [t EXCEPT !.signed = Bodies(t.id)]

\* freezeWith, by a client or without one. A frozen transaction may be frozen
\* once more.
Frozen(t, onDemand, withClient) ==
    LET next == NewIdList([t EXCEPT !.onDemand = onDemand,
                                    !.account = @ \/ withClient])
    IN  IF onDemand THEN next ELSE BuildSigned(next)

\* _setTransactionId throws without an ID. The guard on MaxId is the bound.
CanFreeze(t, withClient) ==
    /\ t.id # 0 \/ t.account \/ withClient
    /\ t.id < MaxId \/ "ids" \in t.locked

\* The calls of signWith go on with the list they began with.
Detached(replaced) ==
    IF replaced THEN [k \in DOMAIN signing |-> [signing[k] EXCEPT !.current = FALSE]]
    ELSE signing

\* Freezing once more forgets the signatures, or the keys that were to sign
\* on demand, but not that the keys have signed.
Unreliable(t, u, replaced) ==
    IF replaced \/ t.onDemand # u.onDemand THEN t.signerKeys ELSE {}

\* An application does not freeze a transaction that it executes or encodes.
Freeze ==
    /\ execution = Idle /\ encoding = Idle
    /\ \E withClient \in BOOLEAN :
          LET onDemand == withClient /\ signOnDemand
              t == Frozen(tx, onDemand, withClient)
          IN  /\ CanFreeze(tx, withClient)
              /\ tx' = t
              /\ signing' = Detached(Replaces(tx, onDemand))
              /\ spoiled' = spoiled \cup Unreliable(tx, t, Replaces(tx, onDemand))
    /\ mishaps' = mishaps \cup IF IsFrozen(tx) THEN {"frozen again"} ELSE {}
    /\ UNCHANGED <<signOnDemand, execution, encoding, given>>

-----------------------------------------------------------------------------
(* Signing *)

\* The key is recorded and the encoded transactions are dropped, although the
\* list may be locked.
Recorded(t, k) ==
    [t EXCEPT !.built = <<>>, !.signerKeys = @ \cup {k}]

\* Mutant: nothing is appended in the place of a signer that is missing.
Paired_Compact(t, k, signer) ==
    [t EXCEPT !.publicKeys = Append(@, k),
              !.signers = IF signer = NoSigner THEN @ ELSE Append(@, signer)]

Paired(t, k, signer) ==
    [t EXCEPT !.publicKeys = Append(@, k), !.signers = Append(@, signer)]

With(f, x, y) == [z \in DOMAIN f \cup {x} |-> IF z = x THEN y ELSE f[z]]

\* signWith up to its await: with signing on demand there is none. Bound: a
\* key that was removed meanwhile signs again when its signer has answered.
SignWith(t, k, pending) ==
    /\ k \notin DOMAIN signing
    /\ IF t.onDemand
       THEN /\ tx' = Paired(Recorded(t, k), k, k)
            /\ signing' = pending
       ELSE /\ tx' = [Recorded(t, k) EXCEPT !.locked = @ \cup {"ids"}]
            /\ signing' = With(pending, k, [next |-> 1, current |-> TRUE])

\* An encoding that is locked is not made again, one that is being made or is
\* to be read loses its entries.
AddedLate(t) ==
    IF \/ t.onDemand /\ ("transactions" \in t.locked \/ encoding.at = "making")
       \/ encoding.at = "made"
    THEN {"added late"} ELSE {}

Sign(k) ==
    /\ IsFrozen(tx) /\ k \notin tx.signerKeys
    /\ SignWith(tx, k, signing)
    /\ mishaps' = mishaps \cup AddedLate(tx)
    /\ UNCHANGED <<signOnDemand, execution, encoding, given, spoiled>>

SignedBy(body, k) == [body EXCEPT !.sigs = Added(@, <<k, k>>)]
WithSignature(t, i, k) == [t EXCEPT !.signed[i] = SignedBy(@, k)]

\* execute() goes on when the operator has signed.
Resumed(k, to) ==
    IF execution.at = "signing" /\ k = Operator
    THEN [execution EXCEPT !.at = to] ELSE execution

\* A signature arrives, for one transaction after the other.
SignerAnswers(k) ==
    LET i == signing[k].next
    IN  /\ tx' = IF signing[k].current THEN WithSignature(tx, i, k) ELSE tx
        /\ IF i = N
           THEN /\ signing' = [x \in DOMAIN signing \ {k} |-> signing[x]]
                /\ execution' = Resumed(k, "turn")
           ELSE /\ signing' = [signing EXCEPT ![k].next = @ + 1]
                /\ UNCHANGED execution
        /\ UNCHANGED <<signOnDemand, encoding, historyVars>>

\* The signer rejects: the key stays recorded.
SignerFails(k) ==
    /\ signing' = [x \in DOMAIN signing \ {k} |-> signing[x]]
    /\ execution' = Resumed(k, "idle")
    /\ spoiled' = spoiled \cup {k}
    /\ UNCHANGED <<signOnDemand, tx, encoding, given, mishaps>>

\* addSignature, removeSignature and removeAllSignatures freeze a transaction
\* without bodies, even one that signs on demand.
Ensured(t) == IF HasSigned(t) THEN t ELSE Frozen(t, FALSE, FALSE)

EnsureReplaces == ~ HasSigned(tx) /\ Replaces(tx, FALSE)

Ensure ==
    /\ HasSigned(tx) \/ CanFreeze(tx, FALSE)
    /\ signing' = Detached(EnsureReplaces)

\* What freezing loses, and that it replaces an ID the transaction had.
EnsureSpoils(t) == Unreliable(tx, t, EnsureReplaces)
FrozenAgain(t) == IF tx.id # t.id THEN {"frozen again"} ELSE {}

\* The first n bodies get the signature.
Attached(t, n, k) ==
    [t EXCEPT !.built = <<>>, !.locked = @ \cup {"ids", "signed"},
              !.signed = [i \in DOMAIN @ |->
                  IF i > n THEN @[i] ELSE SignedBy(@[i], k)]]

\* The signature map may lack one of the signatures: those before it stay.
AddSignature(k) ==
    LET t == Ensured(tx)
    IN  /\ Ensure
        /\ k \notin t.signerKeys
        /\ \/ /\ tx' = Paired(Recorded(Attached(t, N, k), k), k, NoSigner)
              /\ spoiled' = spoiled \cup EnsureSpoils(t) \cup (DOMAIN signing \cap {k})
           \/ \E n \in 0..(N - 1) :
                 /\ tx' = Attached(t, n, k)
                 /\ spoiled' = spoiled \cup EnsureSpoils(t) \cup {k}
        /\ mishaps' = mishaps \cup AddedLate(t) \cup FrozenAgain(t)
        /\ UNCHANGED <<signOnDemand, execution, encoding, given>>

UnsignedBy(body, k) ==
    [body EXCEPT !.sigs = [s \in Signatures |-> IF s[1] = k THEN 0 ELSE @[s]]]
Unsigned(t, k) ==
    [t EXCEPT !.signed = [i \in DOMAIN @ |-> UnsignedBy(@[i], k)]]

\* The list without a key, in its order: SelectSeq, which is recursive, would
\* be beyond the provers.
Nth(S, j) == CHOOSE i \in S : Cardinality({x \in S : x <= i}) = j
Without(keys, k) ==
    LET kept == {i \in DOMAIN keys : keys[i] # k}
    IN  [j \in 1..Cardinality(kept) |-> keys[Nth(kept, j)]]

\* Mutant: the signatures stay.
Removed_Kept(t, k) ==
    [t EXCEPT !.signerKeys = @ \ {k},
              !.publicKeys = Without(@, k),
              !.signers = IF @ = <<>> THEN @ ELSE Front(@)]

\* The key given, and the signer added last.
Removed(t, k) ==
    [Unsigned(t, k) EXCEPT
        !.signerKeys = @ \ {k},
        !.publicKeys = Without(@, k),
        !.signers = IF @ = <<>> THEN @ ELSE Front(@)]

\* The signer added last is not the removed key's, or not its only one.
WrongPair(t, k) ==
    IF \/ t.signers = <<>> /\ k \notin Range(t.publicKeys)
       \/ {i \in DOMAIN t.publicKeys : t.publicKeys[i] = k} = {Len(t.signers)}
    THEN {} ELSE {"wrong pair"}

RemoveSignature(k) ==
    LET t == Ensured(tx)
    IN  /\ Ensure
        /\ k \in t.signerKeys
        /\ tx' = Removed(t, k)
        /\ spoiled' = spoiled \cup EnsureSpoils(t) \cup (DOMAIN signing \cap {k})
        /\ mishaps' = mishaps \cup WrongPair(t, k) \cup FrozenAgain(t)
        /\ UNCHANGED <<signOnDemand, execution, encoding, given>>

AllRemoved(t) ==
    [t EXCEPT
        !.signed = [i \in DOMAIN @ |-> [@[i] EXCEPT !.sigs = NoSignatures]],
        !.signerKeys = {}, !.publicKeys = <<>>, !.signers = <<>>]

RemoveAllSignatures ==
    LET t == Ensured(tx)
    IN  /\ Ensure
        /\ tx' = AllRemoved(t)
        /\ spoiled' = spoiled \cup EnsureSpoils(t) \cup DOMAIN signing
        /\ mishaps' = mishaps \cup FrozenAgain(t)
        /\ UNCHANGED <<signOnDemand, execution, encoding, given>>

-----------------------------------------------------------------------------
(* Signing on demand: a body is made for the node whose turn it is, and its  *)
(* keys sign it one after the other                                          *)

Advanced(t) == [t EXCEPT !.index = (@ + 1) % N]

\* The next signature is asked for: the pair is read before the await, the
\* lists are read again after it.
Asked(m, t) ==
    LET turns == {j \in DOMAIN t.publicKeys \cap DOMAIN t.signers :
                     j >= m.next /\ t.signers[j] # NoSigner}
    IN  IF turns = {} THEN [m EXCEPT !.pair = <<>>]
        ELSE LET j == Min(turns)
             IN  [m EXCEPT !.next = j + 1,
                           !.pair = <<t.publicKeys[j], t.signers[j]>>]

\* Mutant: the list of nodes is advanced before the body is made.
Made_Advanced(t) ==
    Asked([node |-> Advanced(t).index, id |-> t.id, sigs |-> NoSignatures,
           next |-> 1, pair |-> <<>>], t)

Made(t) ==
    Asked([node |-> t.index, id |-> t.id, sigs |-> NoSignatures,
           next |-> 1, pair |-> <<>>], t)

Answered(m, t) == Asked([m EXCEPT !.sigs = Added(@, m.pair)], t)

IsSigned(m) == m.pair = <<>>

RequestOf(m) == [node |-> Nodes[m.node + 1], id |-> m.id, sigs |-> m.sigs]
Making == [node : 0..(N - 1), id : 0..MaxId, sigs : SignatureMaps,
           next : Nat, pair : Signatures \cup {<<>>}]

-----------------------------------------------------------------------------
(* Execution *)

Sent(node, request) == [at |-> "sent", node |-> node, request |-> request]

\* _beforeExecute
Execute ==
    LET t == IF IsFrozen(tx) THEN [tx EXCEPT !.account = TRUE]
             ELSE Frozen(tx, signOnDemand, TRUE)
        replaced == ~ IsFrozen(tx) /\ Replaces(tx, signOnDemand)
    IN  /\ execution = Idle
        /\ IsFrozen(tx) \/ CanFreeze(tx, TRUE)
        /\ IF Operator \in t.signerKeys
           THEN tx' = t /\ signing' = Detached(replaced)
           ELSE SignWith(t, Operator, Detached(replaced))
        /\ execution' = [at |-> IF t.onDemand \/ Operator \in t.signerKeys
                                THEN "turn" ELSE "signing"]
        /\ mishaps' = mishaps \cup IF Operator \in t.signerKeys
                                   THEN {} ELSE AddedLate(t)
        /\ spoiled' = spoiled \cup Unreliable(tx, t, replaced)
        /\ UNCHANGED <<signOnDemand, encoding, given>>

\* _buildTransaction
Built(t, i) ==
    [t EXCEPT !.built =
        [j \in 1..(IF Len(@) < i THEN i ELSE Len(@)) |->
            IF j = i THEN t.signed[i].node
            ELSE IF j \in DOMAIN @ THEN @[j] ELSE NoNode]]

\* Encoding and list are moved by whoever is in between.
Turned == IF encoding.at = "making" THEN {"turned"} ELSE {}

\* Entries that are missing before i are padded, which throws if the list is
\* locked.
CannotBuild(t, i) == "transactions" \in t.locked /\ Len(t.built) < i - 1

\* An attempt without signing on demand sends the body that was signed.
Attempt ==
    LET i == tx.index + 1
    IN  /\ execution.at = "turn" /\ ~ tx.onDemand
        /\ IF CannotBuild(tx, i)
           THEN execution' = Idle /\ UNCHANGED <<tx, mishaps>>
           ELSE /\ tx' = Advanced(Built(tx, i))
                /\ execution' = Sent(Nodes[i], tx.signed[i])
                /\ mishaps' = mishaps \cup Turned
        /\ UNCHANGED <<signOnDemand, signing, encoding, given, spoiled>>

\* With it, the list moves on when the body is made, and once more when the
\* signed request is sent.
Progress(m, node, t) ==
    IF IsSigned(m)
    THEN /\ execution' = Sent(node, RequestOf(m))
         /\ tx' = Advanced(t)
    ELSE /\ execution' = [at |-> "making", node |-> node, made |-> m]
         /\ tx' = t

AttemptOnDemand ==
    /\ execution.at = "turn" /\ tx.onDemand
    /\ Progress(Made(tx), Nodes[tx.index + 1], Advanced(tx))
    /\ mishaps' = mishaps \cup Turned
    /\ UNCHANGED <<signOnDemand, signing, encoding, given, spoiled>>

RequestSigned ==
    /\ execution.at = "making"
    /\ Progress(Answered(execution.made, tx), execution.node, tx)
    /\ mishaps' = mishaps \cup Turned
    /\ UNCHANGED <<signOnDemand, signing, encoding, given, spoiled>>

\* The signer rejects, or the attempts are used up.
GiveUp ==
    /\ execution.at \in {"making", "sent"}
    /\ execution' = Idle
    /\ UNCHANGED <<signOnDemand, tx, signing, encoding, historyVars>>

\* An answer of the node ends the execution. The response or the error names
\* the ID, which locks it.
End ==
    /\ execution.at = "sent"
    /\ execution' = Idle
    /\ tx' = [tx EXCEPT !.locked = @ \cup {"ids"}]
    /\ UNCHANGED <<signOnDemand, signing, encoding, historyVars>>

\* A failure or an answer that is retried on the next node.
Retry ==
    /\ execution.at = "sent"
    /\ execution' = [at |-> "turn"]
    /\ UNCHANGED <<signOnDemand, tx, signing, encoding, historyVars>>

\* TransactionExpired is retried with a new ID, unless the ID is locked. The
\* bodies that are signed already would keep the old one.
Expired ==
    /\ execution.at = "sent" /\ "ids" \notin tx.locked
    /\ tx.id < MaxId
    /\ tx' = NewIdList(tx)
    /\ execution' = [at |-> "turn"]
    /\ mishaps' = mishaps \cup IF tx.onDemand THEN {} ELSE {"stale bodies"}
    /\ UNCHANGED <<signOnDemand, signing, encoding, given, spoiled>>

-----------------------------------------------------------------------------
(* Encoding *)

BuiltAll(t) == [t EXCEPT !.built =
    [j \in 1..(IF Len(@) < Len(t.signed) THEN Len(t.signed) ELSE Len(@)) |->
        IF j \in DOMAIN t.signed THEN t.signed[j].node ELSE @[j]]]

\* toBytes and getSignatures. A transaction that is not frozen is encoded
\* without a node.
ToBytes ==
    /\ ~ tx.onDemand
    /\ tx' = IF IsFrozen(tx)
             THEN BuiltAll([tx EXCEPT !.locked = @ \cup {"ids"}])
             ELSE [tx EXCEPT !.built = <<NoNode>>]
    /\ UNCHANGED <<signOnDemand, signing, execution, encoding, historyVars>>

\* Mutant: the list is not advanced.
EncodeEntry_SameNode(t, left, locks) ==
    /\ tx' = t
    /\ encoding' = [at |-> "making", made |-> Made(t), left |-> left,
                    locks |-> locks]

\* The entry for the node whose turn it is.
EncodeEntry(t, left, locks) ==
    /\ tx' = Advanced(t)
    /\ encoding' = [at |-> "making", made |-> Made(t), left |-> left,
                    locks |-> locks]

\* What makes the entries of one encoding others than the nodes in order: the
\* turn does not begin at the first node, or there are entries already.
Disorder(t) ==
    (IF t.index # 0 THEN {"turned"} ELSE {})
        \cup (IF t.built # <<>> THEN {"repeated"} ELSE {})

EncodingMade(t, locks) ==
    /\ tx' = t
    /\ encoding' = [at |-> "made", locks |-> locks]

\* toBytesAsync, getTransactionHash and getSignaturesAsync lock the encoded
\* transactions when they are done; locked ones are not made again.
Encode(locks) ==
    LET t == [tx EXCEPT !.locked = @ \cup {"ids"}]
        u == BuildSigned(t)
    IN  /\ encoding = Idle /\ IsFrozen(tx)
        /\ IF ~ t.onDemand
           THEN EncodingMade(BuiltAll(t), locks) /\ UNCHANGED <<signing, mishaps>>
           ELSE /\ signing' = Detached(Replaces(tx, FALSE))
                /\ IF "transactions" \in u.locked
                   THEN EncodingMade(u, locks) /\ UNCHANGED mishaps
                   ELSE /\ EncodeEntry(u, N, locks)
                        /\ mishaps' = mishaps \cup Disorder(u)
        /\ UNCHANGED <<signOnDemand, execution, spoiled, given>>

EncodingSigned ==
    /\ encoding.at = "making" /\ ~ IsSigned(encoding.made)
    /\ encoding' = [encoding EXCEPT !.made = Answered(@, tx)]
    /\ UNCHANGED <<signOnDemand, tx, signing, execution, historyVars>>

EncodingPushed ==
    LET t == [tx EXCEPT !.built = Append(@, Nodes[encoding.made.node + 1])]
    IN  /\ encoding.at = "making" /\ IsSigned(encoding.made)
        /\ IF encoding.left = 1
           THEN EncodingMade(t, encoding.locks)
           ELSE EncodeEntry(t, encoding.left - 1, encoding.locks)
        /\ UNCHANGED <<signOnDemand, signing, execution, historyVars>>

EncodingFails ==
    /\ encoding.at = "making" /\ ~ IsSigned(encoding.made)
    /\ encoding' = Idle
    /\ UNCHANGED <<signOnDemand, tx, signing, execution, historyVars>>

\* The bytes, or the hash of each node, are read off `_transactions' after the
\* await. getTransactionHashPerNode locks nothing more.
GiveOut ==
    /\ encoding.at = "made"
    /\ tx' = IF encoding.locks
             THEN [tx EXCEPT !.locked = @ \cup {"transactions", "signed"}] ELSE tx
    /\ encoding' = Idle
    /\ given' = tx.built
    /\ UNCHANGED <<signOnDemand, signing, execution, spoiled, mishaps>>

-----------------------------------------------------------------------------

Blank ==
    [onDemand |-> FALSE, account |-> FALSE, locked |-> {}, id |-> 0,
     index |-> 0, signed |-> <<>>, built |-> <<>>, signerKeys |-> {},
     publicKeys |-> <<>>, signers |-> <<>>]

\* fromBytes: the keys are listed once per node, nothing is locked.
Restored(k) ==
    [Blank EXCEPT
        !.id = 1, !.signerKeys = {k},
        !.signed = [i \in 1..N |-> [node |-> Nodes[i], id |-> 1,
                                    sigs |-> Added(NoSignatures, <<k, k>>)]],
        !.built = Nodes,
        !.publicKeys = [i \in 1..N |-> k],
        !.signers = [i \in 1..N |-> NoSigner]]

\* A new transaction, one whose ID the application set, or one from bytes.
Init ==
    /\ signOnDemand \in BOOLEAN
    /\ tx \in {Blank, [Blank EXCEPT !.id = 1, !.locked = {"ids"}]}
                  \cup {Restored(k) : k \in Key}
    /\ signing = [k \in {} |-> 0]
    /\ execution = Idle /\ encoding = Idle
    /\ calls = 0 /\ given = Nodes
    /\ spoiled = {} /\ mishaps = {}

Application ==
    \/ Freeze \/ RemoveAllSignatures \/ ToBytes \/ Execute
    \/ \E locks \in BOOLEAN : Encode(locks)
    \/ \E k \in Key : Sign(k) \/ AddSignature(k) \/ RemoveSignature(k)

Continuation ==
    \/ \E k \in DOMAIN signing : SignerAnswers(k) \/ SignerFails(k)
    \/ Attempt \/ AttemptOnDemand \/ RequestSigned
    \/ GiveUp \/ End \/ Retry \/ Expired
    \/ EncodingSigned \/ EncodingPushed \/ EncodingFails \/ GiveOut

Next ==
    \/ Application /\ calls < MaxCalls /\ calls' = calls + 1
    \/ Continuation /\ UNCHANGED calls

Spec == Init /\ [][Next]_vars

-----------------------------------------------------------------------------
(* Properties *)

TypeOK ==
    /\ signOnDemand \in BOOLEAN
    /\ tx \in TransactionFields
    /\ DOMAIN signing \subseteq Key
    /\ signing \in [DOMAIN signing -> [next : 1..N, current : BOOLEAN]]
    /\ execution.at \in {"idle", "turn", "signing", "making", "sent"}
    /\ execution.at = "making" => execution.made \in Making
    /\ execution.at = "sent" => execution.request \in Body
    /\ encoding.at \in {"idle", "making", "made"}
    /\ encoding.at # "idle" => encoding.locks \in BOOLEAN
    /\ encoding.at = "making" =>
          encoding.made \in Making /\ encoding.left \in 1..N
    /\ calls \in 0..MaxCalls
    /\ given \in Seq(Range(Nodes) \cup {NoNode})
    /\ spoiled \subseteq Key /\ mishaps \subseteq Mishaps

\* However the calls of several keys interleave, every body has exactly one
\* signature of each recorded key whose signer got that far, and none of any
\* other key.
SignaturesMatchKeys ==
    ~ tx.onDemand =>
        \A i \in DOMAIN tx.signed, k \in Key \ spoiled, l \in Key :
            LET signs == \/ k \notin DOMAIN signing
                         \/ i < signing[k].next
            IN  tx.signed[i].sigs[<<k, l>>]
                    = IF l = k /\ k \in tx.signerKeys /\ signs THEN 1 ELSE 0

\* Bodies and keys fit together.
SigningInv == TypeOK /\ SignaturesMatchKeys

\* What is sent to a node is a body for that node, and has the transaction ID
\* that the response will name.
SentRequestIsForItsNode ==
    execution.at = "sent" =>
        /\ execution.request.node = execution.node
        /\ \/ execution.request.id = tx.id
           \/ {"frozen again", "stale bodies"} \cap mishaps # {}

\* No key signs for another one, although keys and signers are two lists.
SignaturesAreByTheirKeys ==
    \/ "wrong pair" \in mishaps
    \/ execution.at = "sent" =>
          \A s \in Signatures : execution.request.sigs[s] > 0 => s[1] = s[2]

\* Bytes and hashes are given out for all nodes, in their order.
GivenOutForEveryNode ==
    \/ {"turned", "repeated", "added late", "frozen again"} \cap mishaps # {}
    \/ given = Nodes
=============================================================================
