----------------------- MODULE ChunkedTransaction_proofs ----------------------
(***************************************************************************)
(* Proofs about ChunkedTransaction: every chunk that is sent is the one in *)
(* turn, none takes effect twice, a file is appended in order, and a call  *)
(* that resolves has submitted everything. For every number of nodes, size *)
(* of chunks, length of contents and number of calls.                      *)
(***************************************************************************)
EXTENDS ChunkedTransaction, Integers, FiniteSetTheorems, TLAPS

-----------------------------------------------------------------------------
(* The inductive invariant *)

\* What freezing leaves: an ID and, for every node, a body for each chunk. The
\* IDs that are being executed are locked. Those of a file are its chunks'
\* numbers, as long as nothing is sent before it is frozen again.
Payload(i) == IF Refuses THEN Whole ELSE Cut(i)

BodiesAreChunks ==
    ~ onDemand =>
        \A i \in 0..(Len(tx.ids) - 1), n \in 0..(N - 1) :
            tx.signed[i * N + n + 1]
                = MakeBody(Nodes[n + 1], tx.ids[i + 1], Payload(i))

IdsAreNumbers == \A c \in DOMAIN tx.ids : tx.ids[c] = c

FrozenForm ==
    /\ ~ IsFrozen(tx) => execution = Idle /\ tx.index = 0 /\ inflight \cup taken = {}
    /\ IsFrozen(tx) =>
          /\ Len(tx.ids) = IF Refuses THEN 1 ELSE Chunks
          /\ BodiesAreChunks
          /\ Refuses /\ execution.at # "idle" => "refusedBefore" \in mishaps
          /\ kind = "file" => locked
          /\ kind = "file" /\ "frozenAgain" \notin mishaps => IdsAreNumbers
    /\ execution.at # "idle" => locked
    /\ taken = {} => tx.index = 0

\* What the network has seen under an ID is the chunk of that ID.
IsChunkAt(b, c) ==
    /\ b.id = tx.ids[c + 1]
    /\ b.from = Cut(c).from \/ (kind = "message" /\ onDemand)
    /\ kind = "file" => b.to = Cut(c).to

IsChunk(b) == \E c \in 0..(Len(tx.ids) - 1) : IsChunkAt(b, c)

ChunksKeepTheirIds ==
    "frozenAgain" \notin mishaps =>
        \A b \in inflight \cup taken \cup Range(applied) : IsChunk(b)

\* The network decides on an ID once.
AppliedOnce ==
    /\ applied \in Seq(Body) /\ Range(applied) \subseteq taken
    /\ \A i, j \in DOMAIN applied : applied[i].id = applied[j].id => i = j

\* How many chunks the call has not had an answer for; they are those that
\* follow in the list of IDs, which goes round.
Left ==
    IF execution.at \in {"turn", "sent"} THEN execution.left
    ELSE IF execution.at = "receipt" THEN execution.left - 1
    ELSE 0

Distance(p) == IF p >= tx.index THEN p - tx.index ELSE p + Len(tx.ids) - tx.index

Answered == {tx.ids[p + 1] : p \in {q \in 0..(Len(tx.ids) - 1) : Distance(q) >= Left}}

\* The call has the responses of the chunks it is done with, all accepted, and
\* of a file all appended but the one whose receipt is awaited.
CallForm ==
    execution.at # "idle" =>
        /\ execution.responses \in Seq(Nat)
        /\ execution.at # "resolved" => execution.left \in 1..Len(tx.ids)
        /\ execution.at \in {"turn", "sent"} => execution.attempt \in Nat
        /\ Range(execution.responses) = Answered
        /\ Range(execution.responses) \subseteq IdsOf(taken)
        /\ kind = "file" =>
              \A r \in Range(execution.responses) :
                  \/ r \in IdsOf(Range(applied))
                  \/ execution.at = "receipt" /\ r = Last(execution.responses)
        /\ execution.at = "receipt" =>
              /\ kind = "file" /\ execution.responses # <<>>
              /\ "frozenAgain" \notin mishaps =>
                    /\ Last(execution.responses) \in 1..Len(tx.ids)
                    /\ tx.index = IF Last(execution.responses) = Len(tx.ids) THEN 0
                                  ELSE Last(execution.responses)

\* A file's chunks are appended in the order of their IDs, and none is sent
\* before the one in front of it was appended.
FileInOrder ==
    kind = "file" /\ mishaps \cap {"receiptFailed", "frozenAgain"} = {} =>
        /\ \A i \in DOMAIN applied : applied[i].id = i
        /\ \A b \in inflight \cup taken : b.id <= Len(applied) + 1
        /\ execution.at # "receipt" => tx.index <= Len(applied)

IInv ==
    /\ ChunkInv
    /\ FrozenForm
    /\ ChunksKeepTheirIds
    /\ AppliedOnce
    /\ CallForm
    /\ FileInOrder

-----------------------------------------------------------------------------
(* Arithmetic of chunks, and sequences *)

\* The entry of a chunk and a node in the list of bodies gives both back.
LEMMA EntryFacts ==
    ASSUME NEW M \in Nat \ {0}, NEW L \in Nat,
           NEW i \in 0..(L - 1), NEW n \in 0..(M - 1)
    PROVE  /\ i * M + n + 1 \in 1..(L * M)
           /\ (i * M + n + 1) - 1 = i * M + n
           /\ (i * M + n) \div M = i
           /\ (i * M + n) % M = n
<1>1. i * M + n + 1 \in 1..(L * M)
  OBVIOUS
<1>2. (i * M + n) \div M = i
  OBVIOUS
<1>3. (i * M + n) % M = n
  OBVIOUS
<1>4. (i * M + n + 1) - 1 = i * M + n
  OBVIOUS
<1>5. QED
  BY <1>1, <1>2, <1>3, <1>4

\* The entry's chunk and node are within bounds.
LEMMA EntryBounds ==
    ASSUME NEW M \in Nat \ {0}, NEW L \in Nat, NEW e \in 1..(L * M)
    PROVE  (e - 1) \div M \in 0..(L - 1) /\ (e - 1) % M \in 0..(M - 1)
<1>1. (e - 1) % M \in 0..(M - 1)
  OBVIOUS
<1>2. (e - 1) \div M \in 0..(L - 1)
  OBVIOUS
<1>3. QED
  BY <1>1, <1>2

\* The last chunk is not empty.
LEMMA LastChunkFacts ==
    ASSUME NEW M \in Nat \ {0}, NEW l \in Nat \ {0}
    PROVE  /\ (l + M - 1) \div M \in Nat \ {0}
           /\ \A c \in 0..((l + M - 1) \div M - 1) : c * M < l
<1>1. (l + M - 1) \div M \in Nat \ {0}
  OBVIOUS
<1>2. ASSUME NEW c \in Nat, c < (l + M - 1) \div M
      PROVE  c * M < l
  BY <1>2
<1>3. QED
  BY <1>1, <1>2

\* An index moves on round a list.
LEMMA RoundFacts ==
    ASSUME NEW L \in Nat \ {0}, NEW i \in 0..(L - 1)
    PROVE  (i + 1) % L = IF i + 1 = L THEN 0 ELSE i + 1
OBVIOUS

LEMMA AppendFacts ==
    ASSUME NEW S, NEW s \in Seq(S), NEW e \in S
    PROVE  /\ Append(s, e) \in Seq(S) /\ Append(s, e) # <<>>
           /\ Len(Append(s, e)) = Len(s) + 1
           /\ DOMAIN Append(s, e) = 1..(Len(s) + 1)
           /\ \A i \in 1..Len(s) : Append(s, e)[i] = s[i]
           /\ Append(s, e)[Len(s) + 1] = e
           /\ Last(Append(s, e)) = e
           /\ Range(Append(s, e)) = Range(s) \cup {e}
<1>1. /\ Append(s, e) \in Seq(S) /\ Append(s, e) # <<>>
      /\ Len(Append(s, e)) = Len(s) + 1
      /\ DOMAIN Append(s, e) = 1..(Len(s) + 1)
      /\ \A i \in 1..Len(s) : Append(s, e)[i] = s[i]
      /\ Append(s, e)[Len(s) + 1] = e
  OBVIOUS
<1>2. Last(Append(s, e)) = e
  BY <1>1 DEF Last
<1>3. DOMAIN s = 1..Len(s) /\ Len(s) \in Nat
  OBVIOUS
<1>4. Range(Append(s, e)) = Range(s) \cup {e}
  BY <1>1, <1>3 DEF Range
<1>5. QED
  BY <1>1, <1>2, <1>4

LEMMA NodeFacts ==
    /\ N \in Nat \ {0}
    /\ \A n \in 0..(N - 1) : Nodes[n + 1] \in Range(Nodes)
BY ChunkAssumption DEF ChunkAssumption, N, Range

LEMMA ChunkFacts ==
    ASSUME TypeOK
    PROVE  /\ length \in Nat \ {0} /\ ChunkSize \in Nat \ {0}
           /\ Chunks \in Nat \ {0}
           /\ \A c \in 0..(Chunks - 1) : c * ChunkSize < length
<1>1. length \in Nat \ {0} /\ ChunkSize \in Nat \ {0}
  BY ChunkAssumption DEF ChunkAssumption, TypeOK
<1>2. QED
  BY <1>1, LastChunkFacts DEF Chunks

LEMMA CutFacts ==
    ASSUME TypeOK, NEW c \in Nat
    PROVE  /\ Cut(c).from = c * ChunkSize /\ Cut(c).from \in Nat
           /\ Cut(c).to \in Nat
           /\ c + 1 < Chunks => Cut(c).to = Cut(c + 1).from
           /\ Whole.from = Cut(0).from /\ Whole.to \in Nat
<1>1. length \in Nat /\ ChunkSize \in Nat /\ Chunks \in Nat
  BY ChunkFacts
<1>2. c * ChunkSize \in Nat /\ (c + 1) * ChunkSize \in Nat
  BY <1>1
<1>3. c + 1 < Chunks => (c + 1) * ChunkSize < length
  BY <1>1, ChunkFacts
<1>4. 0 * ChunkSize = 0
  BY <1>1
<1>5. QED
  BY <1>1, <1>2, <1>3, <1>4 DEF Cut, Whole

LEMMA MakeBodyFacts ==
    ASSUME NEW node, NEW id, NEW p
    PROVE  /\ MakeBody(node, id, p).node = node /\ MakeBody(node, id, p).id = id
           /\ MakeBody(node, id, p).from = p.from /\ MakeBody(node, id, p).to = p.to
           /\ node \in Range(Nodes) /\ id \in Nat /\ p.from \in Nat /\ p.to \in Nat
              => MakeBody(node, id, p) \in Body
BY DEF MakeBody, Body

\* The ID of a file's chunk gives its place.
LEMMA ChunkPlace ==
    ASSUME TypeOK, FrozenForm, kind = "file", "frozenAgain" \notin mishaps,
           NEW b, IsChunk(b)
    PROVE  \E c \in Nat : /\ c < Chunks /\ b.id = c + 1
                          /\ b.from = Cut(c).from /\ b.to = Cut(c).to
<1>1. tx.ids \in Seq(Nat)
  BY DEF TypeOK, TransactionFields
<1>2. Len(tx.ids) \in Nat /\ (tx.ids = <<>> => Len(tx.ids) = 0)
  BY <1>1
<1> PICK L \in Nat : L = Len(tx.ids)
  BY <1>2
<1>3. PICK c \in 0..(L - 1) : IsChunkAt(b, c)
  BY DEF IsChunk
<1>4. c \in Nat /\ c + 1 \in 1..L /\ c < L /\ L # 0
  OBVIOUS
<1>5. IsFrozen(tx)
  BY <1>2, <1>4 DEF IsFrozen
<1>6. L = Chunks /\ IdsAreNumbers
  <2>1. ~ Refuses
    BY DEF Refuses
  <2>2. QED
    BY <1>5, <2>1 DEF FrozenForm
<1>7. tx.ids[c + 1] = c + 1
  <2>1. DOMAIN tx.ids = 1..L
    BY <1>1
  <2>2. QED
    BY <1>4, <1>6, <2>1 DEF IdsAreNumbers
<1>8. b.id = c + 1 /\ b.from = Cut(c).from /\ b.to = Cut(c).to
  BY <1>3, <1>7 DEF IsChunkAt
<1>9. QED
  BY <1>4, <1>6, <1>8

\* What is submitted and how does not change.
LEMMA CaseKept ==
    ASSUME UNCHANGED caseVars
    PROVE  /\ kind' = kind /\ onDemand' = onDemand /\ length' = length
           /\ Chunks' = Chunks /\ IsTooLong' = IsTooLong /\ Refuses' = Refuses
           /\ \A i : Cut(i)' = Cut(i) /\ Payload(i)' = Payload(i)
BY DEF caseVars, Chunks, IsTooLong, Refuses, Cut, Whole, Payload

\* What a chunk is depends on the list of IDs.
LEMMA ChunkKept ==
    ASSUME UNCHANGED caseVars, tx'.ids = tx.ids
    PROVE  \A b : IsChunk(b)' <=> IsChunk(b)
<1>1. \A b, c : IsChunkAt(b, c)' <=> IsChunkAt(b, c)
  BY CaseKept DEF IsChunkAt
<1>2. QED
  BY <1>1 DEF IsChunk

LEMMA TxFacts ==
    ASSUME TypeOK
    PROVE  /\ tx.ids \in Seq(Nat) /\ tx.signed \in Seq(Body)
           /\ tx.index \in Nat /\ tx.node \in 0..(N - 1)
           /\ tx = [ids |-> tx.ids, index |-> tx.index, node |-> tx.node,
                    signed |-> tx.signed]
           /\ IsFrozen(tx) => /\ Len(tx.ids) \in Nat \ {0}
                              /\ tx.index \in 0..(Len(tx.ids) - 1)
                              /\ DOMAIN tx.ids = 1..Len(tx.ids)
<1>1. /\ tx.ids \in Seq(Nat) /\ tx.signed \in Seq(Body)
      /\ tx.index \in Nat /\ tx.node \in 0..(N - 1)
      /\ tx = [ids |-> tx.ids, index |-> tx.index, node |-> tx.node,
               signed |-> tx.signed]
  BY DEF TypeOK, TransactionFields
<1>2. ASSUME IsFrozen(tx)
      PROVE  /\ Len(tx.ids) \in Nat \ {0}
             /\ DOMAIN tx.ids = 1..Len(tx.ids)
  <2>1. tx.ids # <<>>
    BY <1>2 DEF IsFrozen
  <2>2. QED
    BY <1>1, <2>1
<1>3. ASSUME IsFrozen(tx)
      PROVE  tx.index \in 0..(Len(tx.ids) - 1)
  <2>1. tx.index < Len(tx.ids)
    BY <1>3 DEF TypeOK
  <2>2. QED
    BY <1>1, <1>2, <1>3, <2>1
<1>4. QED
  BY <1>1, <1>2, <1>3

\* What has been answered depends on the list of IDs and what is left.
LEMMA AnsweredKept ==
    ASSUME tx'.ids = tx.ids, tx'.index = tx.index, Left' = Left
    PROVE  Answered' = Answered
BY DEF Answered, Distance

\* An answer moves the list on: the chunk in turn is one more that is answered.
LEMMA AnsweredAfterTurn ==
    ASSUME TypeOK, IsFrozen(tx), tx'.ids = tx.ids,
           tx'.index = IF tx.index + 1 = Len(tx.ids) THEN 0 ELSE tx.index + 1,
           Left \in 1..Len(tx.ids), Left' = Left - 1
    PROVE  Answered' = Answered \cup {tx.ids[tx.index + 1]}
<1> PICK L \in Nat \ {0} : L = Len(tx.ids)
  BY TxFacts
<1> PICK i \in 0..(L - 1) : i = tx.index
  BY TxFacts
<1>1. /\ Answered = {tx.ids[p + 1] : p \in {q \in 0..(L - 1) : Distance(q) >= Left}}
      /\ Answered' = {tx.ids[p + 1] : p \in {q \in 0..(L - 1) : Distance(q)' >= Left'}}
  BY DEF Answered
<1>2. ASSUME NEW q \in 0..(L - 1)
      PROVE  Distance(q)' >= Left' <=> Distance(q) >= Left \/ q = i
  <2>1. Left \in 1..L /\ Left' = Left - 1
    OBVIOUS
  <2>2. Distance(q) = IF q >= i THEN q - i ELSE q + L - i
    BY DEF Distance
  <2>3. tx'.index = IF i + 1 = L THEN 0 ELSE i + 1
    OBVIOUS
  <2>4. Distance(q)' = IF q >= tx'.index THEN q - tx'.index ELSE q + L - tx'.index
    BY DEF Distance
  <2>5. QED
    BY <2>1, <2>2, <2>3, <2>4, SMTT(30)
<1>3. QED
  BY <1>1, <1>2

\* Nothing is answered when a call begins, everything when nothing is left.
LEMMA AnsweredBounds ==
    ASSUME TypeOK, IsFrozen(tx)
    PROVE  /\ Left = Len(tx.ids) => Answered = {}
           /\ Left = 0 => Answered = Range(tx.ids)
<1> PICK L \in Nat \ {0} : L = Len(tx.ids)
  BY TxFacts
<1> PICK i \in 0..(L - 1) : i = tx.index
  BY TxFacts
<1>1. \A q \in 0..(L - 1) : Distance(q) \in 0..(L - 1)
  BY DEF Distance
<1>2. Left = Len(tx.ids) => Answered = {}
  BY <1>1 DEF Answered
<1>3. ASSUME Left = 0
      PROVE  Answered = Range(tx.ids)
  <2>1. {q \in 0..(L - 1) : Distance(q) >= Left} = 0..(L - 1)
    BY <1>1, <1>3
  <2>2. Answered = {tx.ids[p + 1] : p \in 0..(L - 1)}
    BY <2>1 DEF Answered
  <2>3. DOMAIN tx.ids = 1..L
    BY TxFacts
  <2>4. Range(tx.ids) = {tx.ids[c] : c \in 1..L}
    BY <2>3 DEF Range
  <2>5. \A c \in 1..L : c - 1 \in 0..(L - 1) /\ (c - 1) + 1 = c
    OBVIOUS
  <2>6. \A p \in 0..(L - 1) : p + 1 \in 1..L
    OBVIOUS
  <2>7. QED
    BY <2>2, <2>4, <2>5, <2>6
<1>4. QED
  BY <1>2, <1>3

-----------------------------------------------------------------------------
(* Freezing *)

LEMMA CurrentIdFacts ==
    ASSUME TypeOK
    PROVE  CurrentId(tx) \in Nat
<1>1. CASE ~ IsFrozen(tx)
  BY <1>1 DEF CurrentId
<1>2. CASE IsFrozen(tx)
  <2>1. /\ tx.ids \in Seq(Nat) /\ Len(tx.ids) \in Nat
        /\ tx.index + 1 \in 1..Len(tx.ids)
    BY <1>2, TxFacts
  <2>2. tx.ids[tx.index + 1] \in Nat
    BY <2>1
  <2>3. NewId(tx) \in Nat
    BY <2>1, <2>2 DEF NewId
  <2>4. QED
    BY <1>2, <2>2, <2>3 DEF CurrentId
<1>3. QED
  BY <1>1, <1>2

LEMMA FrozenWholeFacts ==
    ASSUME TypeOK, tx.index = 0, tx' = FrozenWhole(tx)
    PROVE  /\ tx' \in TransactionFields
           /\ tx'.ids = <<CurrentId(tx)>> /\ tx'.index = 0 /\ tx'.node = tx.node
           /\ ~ onDemand =>
                 \A n \in 0..(N - 1) :
                     tx'.signed[n + 1] = MakeBody(Nodes[n + 1], CurrentId(tx), Whole)
<1> PICK id \in Nat : id = CurrentId(tx)
  BY CurrentIdFacts
<1>1. /\ tx'.ids = <<id>> /\ tx'.index = tx.index /\ tx'.node = tx.node
      /\ tx' = [ids |-> tx'.ids, index |-> tx'.index, node |-> tx'.node,
                signed |-> tx'.signed]
      /\ tx'.signed = IF onDemand THEN <<>>
                      ELSE [n \in 1..N |-> MakeBody(Nodes[n], id, Whole)]
  BY TxFacts DEF FrozenWhole
<1>2. ASSUME NEW n \in 1..N
      PROVE  MakeBody(Nodes[n], id, Whole) \in Body
  <2>1. n - 1 \in 0..(N - 1) /\ (n - 1) + 1 = n
    BY NodeFacts
  <2>2. Nodes[n] \in Range(Nodes)
    BY <2>1, NodeFacts
  <2>3. Whole.from \in Nat /\ Whole.to \in Nat
    BY CutFacts, ChunkFacts DEF Whole
  <2>4. QED
    BY <2>2, <2>3, MakeBodyFacts
<1>3. tx'.signed \in Seq(Body)
  BY <1>1, <1>2, NodeFacts
<1>4. tx'.ids \in Seq(Nat) /\ tx'.index \in Nat /\ tx'.node \in 0..(N - 1)
  BY <1>1, TxFacts
<1>5. ASSUME ~ onDemand, NEW n \in 0..(N - 1)
      PROVE  tx'.signed[n + 1] = MakeBody(Nodes[n + 1], id, Whole)
  BY <1>1, <1>5, NodeFacts
<1>6. QED
  BY <1>1, <1>3, <1>4, <1>5 DEF TransactionFields

LEMMA FrozenChunksFacts ==
    ASSUME TypeOK, tx' = FrozenChunks(tx)
    PROVE  /\ tx' \in TransactionFields
           /\ Len(tx'.ids) = Chunks /\ tx'.index = 0 /\ tx'.node = tx.node
           /\ \A c \in 1..Chunks : tx'.ids[c] = CurrentId(tx) + c - 1
           /\ \A i \in 0..(Chunks - 1), n \in 0..(N - 1) :
                 tx'.signed[i * N + n + 1]
                     = MakeBody(Nodes[n + 1], tx'.ids[i + 1], Cut(i))
<1> PICK C \in Nat \ {0} : C = Chunks
  BY ChunkFacts
<1> PICK id \in Nat : id = CurrentId(tx)
  BY CurrentIdFacts
<1> DEFINE Entry(e) == MakeBody(Nodes[((e - 1) % N) + 1], id + ((e - 1) \div N),
                                Cut((e - 1) \div N))
<1>1. /\ tx'.ids = [c \in 1..C |-> id + c - 1] /\ tx'.index = 0 /\ tx'.node = tx.node
      /\ tx' = [ids |-> tx'.ids, index |-> tx'.index, node |-> tx'.node,
                signed |-> tx'.signed]
      /\ tx'.signed = [e \in 1..(C * N) |-> Entry(e)]
  BY TxFacts DEF FrozenChunks
<1>2. ASSUME NEW e \in 1..(C * N)
      PROVE  Entry(e) \in Body
  <2>1. (e - 1) \div N \in Nat /\ (e - 1) % N \in 0..(N - 1)
    BY EntryBounds, NodeFacts
  <2> PICK i \in Nat, n \in 0..(N - 1) : i = (e - 1) \div N /\ n = (e - 1) % N
    BY <2>1
  <2>2. Nodes[n + 1] \in Range(Nodes) /\ id + i \in Nat
    BY NodeFacts
  <2>3. Cut(i).from \in Nat /\ Cut(i).to \in Nat
    BY CutFacts
  <2>4. MakeBody(Nodes[n + 1], id + i, Cut(i)) \in Body
    BY <2>2, <2>3, MakeBodyFacts
  <2>5. QED
    BY <2>4
<1>3. C * N \in Nat
  BY NodeFacts
<1>4. tx'.signed \in Seq(Body)
  <2> HIDE DEF Entry
  <2>1. QED
    BY <1>1, <1>2, <1>3
<1>5. /\ tx'.ids \in Seq(Nat) /\ Len(tx'.ids) = C
      /\ \A c \in 1..C : tx'.ids[c] = id + c - 1
  <2>1. \A c \in 1..C : id + c - 1 \in Nat
    OBVIOUS
  <2>2. QED
    BY <1>1, <2>1
<1>6. tx'.index \in Nat /\ tx'.node \in 0..(N - 1)
  BY <1>1, TxFacts
<1>7. ASSUME NEW i \in 0..(C - 1), NEW n \in 0..(N - 1)
      PROVE  tx'.signed[i * N + n + 1]
                 = MakeBody(Nodes[n + 1], tx'.ids[i + 1], Cut(i))
  <2>1. /\ i * N + n + 1 \in 1..(C * N)
        /\ (i * N + n + 1) - 1 = i * N + n
        /\ (i * N + n) \div N = i
        /\ (i * N + n) % N = n
    BY EntryFacts, NodeFacts
  <2>2. tx'.signed[i * N + n + 1] = Entry(i * N + n + 1)
    <3> HIDE DEF Entry
    <3>1. QED
      BY <1>1, <2>1
  <2>3. tx'.ids[i + 1] = id + i
    <3>1. i + 1 \in 1..C /\ id + (i + 1) - 1 = id + i
      OBVIOUS
    <3>2. QED
      BY <1>5, <3>1
  <2>4. QED
    BY <2>1, <2>2, <2>3
<1>8. QED
  BY <1>1, <1>4, <1>5, <1>6, <1>7 DEF TransactionFields

\* freezeWith() leaves a list of IDs at its first one, and bodies in its order.
\* The first ID is kept if it is locked and in turn.
LEMMA FrozenFacts ==
    ASSUME TypeOK, Refuses => tx.index = 0, tx' = Frozen(tx), UNCHANGED caseVars
    PROVE  /\ tx' \in TransactionFields /\ IsFrozen(tx') /\ tx'.index = 0
           /\ Len(tx'.ids) = IF Refuses THEN 1 ELSE Chunks
           /\ Len(tx'.ids) \in Nat \ {0}
           /\ CurrentId(tx) = 1 => \A c \in DOMAIN tx'.ids : tx'.ids[c] = c
           /\ ~ onDemand =>
                 \A i \in 0..(Len(tx'.ids) - 1), n \in 0..(N - 1) :
                     tx'.signed[i * N + n + 1]
                         = MakeBody(Nodes[n + 1], tx'.ids[i + 1], Payload(i))
<1>1. CASE Refuses
  <2>1. tx' = FrozenWhole(tx)
    BY <1>1 DEF Frozen
  <2> PICK id \in Nat : id = CurrentId(tx)
    BY CurrentIdFacts
  <2>2. /\ tx' \in TransactionFields
        /\ tx'.ids = <<id>> /\ tx'.index = 0
        /\ ~ onDemand =>
              \A n \in 0..(N - 1) :
                  tx'.signed[n + 1] = MakeBody(Nodes[n + 1], id, Whole)
    BY <1>1, <2>1, FrozenWholeFacts
  <2>3. /\ Len(tx'.ids) = 1 /\ tx'.ids # <<>> /\ tx'.ids[0 + 1] = id
        /\ id = 1 => \A c \in DOMAIN tx'.ids : tx'.ids[c] = c
    BY <2>2
  <2>4. \A n \in 0..(N - 1) : 0 * N + n + 1 = n + 1
    BY NodeFacts
  <2>5. Payload(0) = Whole
    BY <1>1 DEF Payload
  <2>6. \A i \in 0..(Len(tx'.ids) - 1) : i = 0
    BY <2>3
  <2>7. ASSUME ~ onDemand, NEW i \in 0..(Len(tx'.ids) - 1), NEW n \in 0..(N - 1)
        PROVE  tx'.signed[i * N + n + 1]
                   = MakeBody(Nodes[n + 1], tx'.ids[i + 1], Payload(i))
    <3>1. i = 0
      BY <2>6
    <3>2. tx'.signed[0 * N + n + 1]
              = MakeBody(Nodes[n + 1], tx'.ids[0 + 1], Payload(0))
      BY <2>2, <2>3, <2>4, <2>5, <2>7
    <3>3. QED
      BY <3>1, <3>2
  <2>8. QED
    BY <1>1, <2>2, <2>3, <2>7 DEF IsFrozen
<1>2. CASE ~ Refuses
  <2>1. tx' = FrozenChunks(tx)
    BY <1>2 DEF Frozen
  <2>2. /\ tx' \in TransactionFields
        /\ Len(tx'.ids) = Chunks /\ tx'.index = 0
        /\ \A c \in 1..Chunks : tx'.ids[c] = CurrentId(tx) + c - 1
        /\ \A i \in 0..(Chunks - 1), n \in 0..(N - 1) :
              tx'.signed[i * N + n + 1]
                  = MakeBody(Nodes[n + 1], tx'.ids[i + 1], Cut(i))
    BY <2>1, FrozenChunksFacts
  <2>3. Chunks \in Nat \ {0} /\ tx'.ids # <<>> /\ DOMAIN tx'.ids = 1..Chunks
    BY <2>2, ChunkFacts DEF TransactionFields
  <2>4. \A i : Payload(i) = Cut(i)
    BY <1>2 DEF Payload
  <2>5. CurrentId(tx) = 1 => \A c \in DOMAIN tx'.ids : tx'.ids[c] = c
    <3>1. \A c \in 1..Chunks : 1 + c - 1 = c
      OBVIOUS
    <3>2. QED
      BY <2>2, <2>3, <3>1
  <2>6. QED
    BY <1>2, <2>2, <2>3, <2>4, <2>5 DEF IsFrozen
<1>3. QED
  BY <1>1, <1>2

-----------------------------------------------------------------------------
(* What is sent *)

\* The request that is built is the chunk in turn, for the node in turn.
LEMMA RequestFacts ==
    ASSUME IInv, execution.at = "turn", NEW b, b = Request(tx)
    PROVE  /\ b \in Body
           /\ b.node = Nodes[tx.node + 1]
           /\ b.id = tx.ids[tx.index + 1]
           /\ \/ kind = "message" /\ onDemand
              \/ "refusedBefore" \in mishaps
              \/ b.from = Cut(tx.index).from /\ b.to = Cut(tx.index).to
           /\ IsChunk(b)
<1>0. TypeOK /\ FrozenForm
  BY DEF IInv, ChunkInv
<1>1. IsFrozen(tx)
  <2>1. execution # Idle
    BY DEF Idle
  <2>2. QED
    BY <1>0, <2>1 DEF FrozenForm
<1> PICK L \in Nat \ {0} : L = Len(tx.ids)
  BY <1>0, <1>1, TxFacts
<1> PICK i \in 0..(L - 1) : i = tx.index
  BY <1>0, <1>1, TxFacts
<1> PICK n \in 0..(N - 1) : n = tx.node
  BY <1>0, TxFacts
<1>2. Nodes[n + 1] \in Range(Nodes)
  BY NodeFacts
<1>3. /\ i \in Nat /\ i + 1 \in 1..L
      /\ tx.ids[i + 1] \in Nat
  <2>1. i \in Nat /\ i + 1 \in 1..L
    OBVIOUS
  <2>2. tx.ids \in Seq(Nat) /\ DOMAIN tx.ids = 1..L
    BY <1>0, <1>1, TxFacts
  <2>3. tx.ids[i + 1] \in Nat
    BY <2>1, <2>2
  <2>4. QED
    BY <2>1, <2>3
<1>4. /\ Cut(i).from \in Nat /\ Cut(i).to \in Nat
      /\ Whole.from \in Nat /\ Whole.to \in Nat /\ Whole.from = Cut(0).from
  BY <1>0, <1>3, CutFacts
<1>5. Refuses => "refusedBefore" \in mishaps /\ kind = "message" /\ L = 1 /\ i = 0
  <2>1. Refuses => L = 1 /\ "refusedBefore" \in mishaps
    BY <1>0, <1>1 DEF FrozenForm
  <2>2. Refuses => kind = "message"
    BY DEF Refuses
  <2>3. L = 1 => i = 0
    OBVIOUS
  <2>4. QED
    BY <2>1, <2>2, <2>3
<1>6. IsChunkAt(b, i) => IsChunk(b)
  BY DEF IsChunk
<1>7. CASE onDemand /\ kind = "file"
  <2>1. b = MakeBody(Nodes[n + 1], tx.ids[i + 1], Cut(i))
    BY <1>7 DEF Request, Made
  <2>2. /\ b.node = Nodes[n + 1] /\ b.id = tx.ids[i + 1]
        /\ b.from = Cut(i).from /\ b.to = Cut(i).to
        /\ b \in Body
    BY <1>2, <1>3, <1>4, <2>1, MakeBodyFacts, SMTT(30)
  <2>3. IsChunkAt(b, i)
    BY <2>2 DEF IsChunkAt
  <2>4. QED
    BY <1>6, <2>2, <2>3
<1>8. CASE onDemand /\ kind # "file"
  <2>1. b = MakeBody(Nodes[n + 1], tx.ids[i + 1], Whole)
    BY <1>8 DEF Request, Made
  <2>2. b.node = Nodes[n + 1] /\ b.id = tx.ids[i + 1] /\ b \in Body
    BY <1>2, <1>3, <1>4, <2>1, MakeBodyFacts
  <2>3. kind = "message"
    BY <1>0, <1>8 DEF TypeOK
  <2>4. IsChunkAt(b, i)
    BY <1>8, <2>2, <2>3 DEF IsChunkAt
  <2>5. QED
    BY <1>6, <1>8, <2>2, <2>3, <2>4
<1>9. CASE ~ onDemand
  <2>1. b = MakeBody(Nodes[n + 1], tx.ids[i + 1], Payload(i))
    <3>1. BodiesAreChunks
      BY <1>0, <1>1 DEF FrozenForm
    <3>2. b = tx.signed[i * N + n + 1]
      BY <1>9 DEF Request
    <3>3. QED
      BY <1>9, <3>1, <3>2 DEF BodiesAreChunks
  <2>2. /\ Payload(i).from = Cut(i).from /\ Payload(i).to \in Nat
        /\ ~ Refuses => Payload(i).to = Cut(i).to
    BY <1>4, <1>5 DEF Payload
  <2>3. /\ b.node = Nodes[n + 1] /\ b.id = tx.ids[i + 1]
        /\ b.from = Cut(i).from /\ b.to = Payload(i).to
        /\ b \in Body
    BY <1>2, <1>3, <1>4, <2>1, <2>2, MakeBodyFacts, SMTT(30)
  <2>4. kind = "file" => b.to = Cut(i).to
    BY <1>5, <2>2, <2>3
  <2>5. IsChunkAt(b, i)
    BY <2>3, <2>4 DEF IsChunkAt
  <2>6. QED
    BY <1>5, <1>6, <2>2, <2>3, <2>5
<1>10. QED
  BY <1>7, <1>8, <1>9

-----------------------------------------------------------------------------
(* Parts of the invariant that a step leaves alone *)

\* The transaction stays frozen as it is but for its indices.
LEMMA FormKept ==
    ASSUME IInv, IsFrozen(tx), UNCHANGED caseVars, UNCHANGED locked,
           tx'.ids = tx.ids, tx'.signed = tx.signed,
           tx'.index \in 0..(Len(tx.ids) - 1),
           tx'.index = tx.index \/ taken # {},
           taken \subseteq taken', mishaps \subseteq mishaps',
           execution.at # "idle" \/ execution'.at = "idle"
    PROVE  FrozenForm'
<1>1. IsFrozen(tx') /\ FrozenForm
  BY DEF IsFrozen, IInv
<1>2. BodiesAreChunks'
  <2>1. BodiesAreChunks
    BY <1>1 DEF FrozenForm
  <2>2. QED
    BY <2>1, CaseKept DEF BodiesAreChunks
<1>3. Refuses' /\ execution'.at # "idle" => "refusedBefore" \in mishaps'
  BY <1>1, CaseKept DEF FrozenForm
<1>4. Len(tx'.ids) = IF Refuses' THEN 1 ELSE Chunks'
  <2>1. Len(tx.ids) = IF Refuses THEN 1 ELSE Chunks
    BY <1>1 DEF FrozenForm
  <2>2. Refuses' = Refuses /\ Chunks' = Chunks
    BY CaseKept
  <2>3. QED
    BY <2>1, <2>2
<1>5. /\ kind' = "file" => locked'
      /\ execution'.at # "idle" => locked'
  BY <1>1, CaseKept DEF FrozenForm
<1>6. kind' = "file" /\ "frozenAgain" \notin mishaps' => IdsAreNumbers'
  BY <1>1, CaseKept DEF FrozenForm, IdsAreNumbers
<1>7. taken' = {} => tx'.index = 0
  BY <1>1 DEF FrozenForm
<1>8. QED
  BY <1>1, <1>2, <1>3, <1>4, <1>5, <1>6, <1>7 DEF FrozenForm, IsFrozen

\* The network has seen nothing new.
LEMMA NetworkKept ==
    ASSUME IInv, UNCHANGED caseVars, UNCHANGED networkVars,
           tx'.ids = tx.ids, mishaps \subseteq mishaps'
    PROVE  ChunksKeepTheirIds' /\ AppliedOnce'
BY ChunkKept DEF IInv, ChunksKeepTheirIds, AppliedOnce, networkVars

\* A transaction that is frozen when nothing was sent has no chunks to keep.
LEMMA NothingSent ==
    ASSUME IInv, UNCHANGED caseVars, UNCHANGED networkVars,
           inflight \cup taken = {} \/ "frozenAgain" \in mishaps'
    PROVE  ChunksKeepTheirIds' /\ AppliedOnce'
<1>1. AppliedOnce
  BY DEF IInv
<1>2. AppliedOnce'
  BY <1>1 DEF AppliedOnce, networkVars
<1>3. ASSUME inflight \cup taken = {}
      PROVE  inflight' \cup taken' \cup Range(applied') = {}
  BY <1>1, <1>3 DEF AppliedOnce, networkVars
<1>4. QED
  BY <1>2, <1>3 DEF ChunksKeepTheirIds

\* Types of a step that leaves the network alone.
LEMMA TypesKept ==
    ASSUME IInv, UNCHANGED caseVars, UNCHANGED networkVars,
           tx' \in TransactionFields,
           tx'.index < Len(tx'.ids) \/ tx'.ids = <<>>,
           execution'.at \in {"idle", "turn", "receipt", "resolved"},
           calls' \in 0..MaxCalls, locked' \in BOOLEAN,
           mishaps' \subseteq {"refusedBefore", "receiptFailed", "frozenAgain"}
    PROVE  TypeOK' /\ SentChunkIsInTurn'
BY DEF IInv, ChunkInv, TypeOK, SentChunkIsInTurn, IsFrozen, caseVars, networkVars

LEMMA OrderKept ==
    ASSUME IInv, UNCHANGED caseVars, UNCHANGED networkVars,
           mishaps \subseteq mishaps',
           execution'.at # "receipt" =>
               \/ tx'.index = 0
               \/ execution.at # "receipt" /\ tx'.index = tx.index
    PROVE  FileInOrder'
<1>1. kind' = kind /\ applied' = applied /\ inflight' = inflight /\ taken' = taken
  BY CaseKept DEF networkVars
<1>2. Len(applied) \in Nat
  <2>1. applied \in Seq(Body)
    BY DEF IInv, AppliedOnce
  <2>2. QED
    BY <2>1
<1>3. QED
  <2>1. FileInOrder
    BY DEF IInv
  <2>2. ASSUME kind = "file", mishaps' \cap {"receiptFailed", "frozenAgain"} = {}
        PROVE  /\ \A i \in DOMAIN applied : applied[i].id = i
               /\ \A b \in inflight \cup taken : b.id <= Len(applied) + 1
               /\ execution.at # "receipt" => tx.index <= Len(applied)
    BY <2>1, <2>2 DEF FileInOrder
  <2>3. ASSUME kind = "file", mishaps' \cap {"receiptFailed", "frozenAgain"} = {},
               execution'.at # "receipt"
        PROVE  tx'.index <= Len(applied)
    <3>1. tx'.index = 0 => tx'.index <= Len(applied)
      BY <1>2
    <3>2. QED
      BY <2>2, <2>3, <3>1
  <2>4. QED
    BY <1>1, <2>2, <2>3 DEF FileInOrder

-----------------------------------------------------------------------------
(* The application *)

\* What freezing makes of the transaction, whether it was sent or not.
LEMMA FormAfterFreezing ==
    ASSUME IInv, UNCHANGED caseVars, UNCHANGED networkVars, tx' = Frozen(tx),
           mishaps \subseteq mishaps',
           inflight \cup taken = {} \/ "frozenAgain" \in mishaps',
           kind = "file" => locked', execution'.at # "idle" => locked' /\ ~ Refuses
    PROVE  /\ FrozenForm' /\ IsFrozen(tx') /\ tx' \in TransactionFields
           /\ tx'.index = 0 /\ Len(tx'.ids) \in Nat \ {0}
<1>0. TypeOK /\ FrozenForm
  BY DEF IInv, ChunkInv
<1>1. Refuses => tx.index = 0
  <2>1. ASSUME Refuses, IsFrozen(tx)
        PROVE  tx.index = 0
    <3>1. Len(tx.ids) = 1
      BY <1>0, <2>1 DEF FrozenForm
    <3>2. tx.index \in 0..(Len(tx.ids) - 1)
      BY <1>0, <2>1, TxFacts
    <3>3. QED
      BY <3>1, <3>2
  <2>2. QED
    BY <1>0, <2>1 DEF FrozenForm
<1>2. /\ tx' \in TransactionFields /\ IsFrozen(tx') /\ tx'.index = 0
      /\ Len(tx'.ids) = IF Refuses THEN 1 ELSE Chunks
      /\ Len(tx'.ids) \in Nat \ {0}
      /\ CurrentId(tx) = 1 => \A c \in DOMAIN tx'.ids : tx'.ids[c] = c
      /\ ~ onDemand =>
            \A i \in 0..(Len(tx'.ids) - 1), n \in 0..(N - 1) :
                tx'.signed[i * N + n + 1]
                    = MakeBody(Nodes[n + 1], tx'.ids[i + 1], Payload(i))
  BY <1>0, <1>1, FrozenFacts
<1>3. BodiesAreChunks'
  <2>1. onDemand' = onDemand /\ \A i : Payload(i)' = Payload(i)
    BY CaseKept
  <2>2. QED
    BY <1>2, <2>1 DEF BodiesAreChunks
<1>4. ASSUME kind = "file", "frozenAgain" \notin mishaps'
      PROVE  CurrentId(tx) = 1
  <2>1. CASE ~ IsFrozen(tx)
    BY <2>1 DEF CurrentId
  <2>2. CASE IsFrozen(tx)
    <3>1. locked /\ IdsAreNumbers /\ tx.index = 0
      BY <1>0, <1>4, <2>2 DEF FrozenForm
    <3>2. 0 + 1 \in DOMAIN tx.ids
      <4>1. Len(tx.ids) \in Nat \ {0} /\ DOMAIN tx.ids = 1..Len(tx.ids)
        BY <1>0, <2>2, TxFacts
      <4>2. QED
        BY <4>1
    <3>3. tx.ids[0 + 1] = 0 + 1
      BY <3>1, <3>2 DEF IdsAreNumbers
    <3>4. CurrentId(tx) = tx.ids[0 + 1]
      BY <2>2, <3>1 DEF CurrentId
    <3>5. QED
      BY <3>3, <3>4
  <2>3. QED
    BY <2>1, <2>2
<1>5. kind' = "file" /\ "frozenAgain" \notin mishaps' => IdsAreNumbers'
  BY <1>2, <1>4, CaseKept DEF IdsAreNumbers
<1>6. /\ Len(tx'.ids) = IF Refuses' THEN 1 ELSE Chunks'
      /\ kind' = "file" => locked'
      /\ execution'.at # "idle" => locked'
      /\ execution'.at # "idle" => ~ Refuses'
  <2>1. Refuses' = Refuses /\ Chunks' = Chunks /\ kind' = kind
    BY CaseKept
  <2>2. QED
    BY <1>2, <2>1
<1>7. FrozenForm'
  BY <1>2, <1>3, <1>5, <1>6 DEF FrozenForm, IsFrozen
<1>8. QED
  BY <1>2, <1>7

LEMMA FreezeKeeps ==
    ASSUME IInv, Freeze, UNCHANGED caseVars, UNCHANGED networkVars,
           calls' \in 0..MaxCalls
    PROVE  IInv'
<1>0. TypeOK
  BY DEF IInv, ChunkInv
<1>1. /\ tx' = Frozen(tx) /\ execution' = Idle /\ execution'.at = "idle"
      /\ mishaps \subseteq mishaps'
      /\ mishaps' \subseteq mishaps \cup {"frozenAgain"}
      /\ inflight \cup taken = {} \/ "frozenAgain" \in mishaps'
  BY DEF Freeze, Idle
<1>2. locked' = LockedByFreezing
  BY DEF Freeze
<1>3. locked' \in BOOLEAN /\ (kind = "file" => locked')
  <2>1. CASE Refuses
    <3>1. locked' = locked /\ kind # "file"
      BY <1>2, <2>1 DEF LockedByFreezing, Refuses
    <3>2. QED
      BY <1>0, <3>1 DEF TypeOK
  <2>2. CASE ~ Refuses
    <3>1. locked' = (kind = "file")
      BY <1>2, <2>2 DEF LockedByFreezing
    <3>2. QED
      BY <3>1
  <2>3. QED
    BY <2>1, <2>2
<1>4. /\ FrozenForm' /\ tx' \in TransactionFields
      /\ tx'.index = 0 /\ Len(tx'.ids) \in Nat \ {0}
  BY <1>1, <1>3, FormAfterFreezing
<1>5. TypeOK' /\ SentChunkIsInTurn'
  <2>1. mishaps' \subseteq {"refusedBefore", "receiptFailed", "frozenAgain"}
    BY <1>0, <1>1 DEF TypeOK
  <2>2. tx'.index < Len(tx'.ids)
    BY <1>4
  <2>3. QED
    BY <1>1, <1>3, <1>4, <2>1, <2>2, TypesKept
<1>6. ChunksKeepTheirIds' /\ AppliedOnce'
  BY <1>1, NothingSent
<1>7. CallForm'
  BY <1>1 DEF CallForm
<1>8. FileInOrder'
  BY <1>1, <1>4, OrderKept
<1>9. QED
  BY <1>4, <1>5, <1>6, <1>7, <1>8 DEF IInv, ChunkInv

\* A call that begins has no responses, and all of the list before it.
LEMMA CallBegins ==
    ASSUME TypeOK', IsFrozen(tx'), execution' = Turn(Len(tx'.ids), <<>>)
    PROVE  CallForm'
<1>1. /\ execution'.at = "turn" /\ execution'.left = Len(tx'.ids)
      /\ execution'.responses = <<>> /\ execution'.attempt = 1
  BY DEF Turn
<1>2. Left' = Len(tx'.ids)
  BY <1>1 DEF Left
<1>3. Len(tx'.ids) \in Nat \ {0}
  <2>1. tx'.ids \in Seq(Nat)
    BY DEF TypeOK, TransactionFields
  <2>2. tx'.ids # <<>>
    BY DEF IsFrozen
  <2>3. QED
    BY <2>1, <2>2
<1>4. Answered' = {}
  <2>1. /\ tx'.index \in Nat /\ tx'.index < Len(tx'.ids)
    BY DEF TypeOK, TransactionFields, IsFrozen
  <2> PICK L \in Nat \ {0} : L = Len(tx'.ids)
    BY <1>3
  <2> PICK i \in 0..(L - 1) : i = tx'.index
    BY <2>1
  <2>2. \A q \in 0..(L - 1) : Distance(q)' < L
    BY DEF Distance
  <2>3. {q \in 0..(L - 1) : Distance(q)' >= L} = {}
    BY <2>2 DEF Distance
  <2>4. QED
    BY <1>2, <2>3 DEF Answered
<1>5. Range(<<>>) = {} /\ <<>> \in Seq(Nat)
  <2>1. DOMAIN <<>> = {}
    OBVIOUS
  <2>2. QED
    BY <2>1 DEF Range
<1>6. QED
  <2>1. Range(execution'.responses) = {}
    BY <1>1, <1>5
  <2>2. execution'.left \in 1..Len(tx'.ids) /\ execution'.attempt \in Nat
    BY <1>1, <1>3
  <2>3. execution'.responses \in Seq(Nat)
    BY <1>1, <1>5
  <2>4. execution'.at # "receipt"
    BY <1>1
  <2>5. QED
    BY <1>4, <2>1, <2>2, <2>3, <2>4 DEF CallForm

LEMMA ExecuteAllKeeps ==
    ASSUME IInv, ExecuteAll, UNCHANGED caseVars, UNCHANGED networkVars,
           calls' \in 0..MaxCalls
    PROVE  IInv'
<1>0. TypeOK /\ FrozenForm
  BY DEF IInv, ChunkInv
<1>1. CASE IsFrozen(tx)
  <2>1. /\ execution.at \in {"idle", "resolved"}
        /\ tx' = tx /\ execution' = Turn(Len(tx.ids), <<>>)
        /\ mishaps' = mishaps \cup IF Refuses THEN {"refusedBefore"} ELSE {}
    BY <1>1 DEF ExecuteAll
  <2>2. locked' /\ locked' \in BOOLEAN
    BY <1>1 DEF ExecuteAll, LockedByReading
  <2>3. execution'.at = "turn"
    BY <2>1 DEF Turn
  <2>4. /\ mishaps \subseteq mishaps' /\ (Refuses => "refusedBefore" \in mishaps')
        /\ mishaps' \subseteq mishaps \cup {"refusedBefore"}
    BY <2>1
  <2>5. TypeOK' /\ SentChunkIsInTurn'
    <3>1. /\ tx' \in TransactionFields
          /\ tx'.index < Len(tx'.ids)
          /\ mishaps' \subseteq {"refusedBefore", "receiptFailed", "frozenAgain"}
      BY <1>0, <1>1, <2>1, <2>4 DEF TypeOK
    <3>2. QED
      BY <2>2, <2>3, <3>1, TypesKept
  <2>6. FrozenForm'
    <3>1. BodiesAreChunks'
      <4>1. BodiesAreChunks
        BY <1>0, <1>1 DEF FrozenForm
      <4>2. QED
        BY <2>1, <4>1, CaseKept DEF BodiesAreChunks
    <3>2. Refuses' = Refuses /\ Chunks' = Chunks
      BY CaseKept
    <3>3. Len(tx'.ids) = IF Refuses' THEN 1 ELSE Chunks'
      BY <1>0, <1>1, <2>1, <3>2 DEF FrozenForm
    <3>4. Refuses' => "refusedBefore" \in mishaps'
      BY <2>4, <3>2
    <3>5. kind' = "file" /\ "frozenAgain" \notin mishaps' => IdsAreNumbers'
      BY <1>0, <1>1, <2>1, <2>4, CaseKept DEF FrozenForm, IdsAreNumbers
    <3>6. taken' = {} => tx'.index = 0
      BY <1>0, <2>1 DEF FrozenForm, networkVars
    <3>7. IsFrozen(tx')
      BY <1>1, <2>1
    <3>8. QED
      BY <2>2, <3>1, <3>3, <3>4, <3>5, <3>6, <3>7 DEF FrozenForm, IsFrozen
  <2>7. CallForm'
    <3>1. IsFrozen(tx')
      BY <1>1, <2>1
    <3>2. QED
      BY <2>1, <2>5, <3>1, CallBegins
  <2>8. FileInOrder'
    BY <2>1, <2>4, OrderKept
  <2>9. QED
    BY <2>1, <2>4, <2>5, <2>6, <2>7, <2>8, NetworkKept DEF IInv, ChunkInv
<1>2. CASE ~ IsFrozen(tx)
  <2>1. /\ tx' = Frozen(tx) /\ mishaps' = mishaps
        /\ execution' = IF Refuses THEN Idle ELSE Turn(Len(tx'.ids), <<>>)
    BY <1>2 DEF ExecuteAll
  <2>2. /\ Refuses => locked' = locked
        /\ ~ Refuses => locked' = TRUE
    BY <1>2 DEF ExecuteAll, LockedByReading
  <2>3. locked' \in BOOLEAN
    BY <1>0, <2>2 DEF TypeOK
  <2>4. /\ Refuses => execution' = Idle /\ execution'.at = "idle"
        /\ ~ Refuses => execution' = Turn(Len(tx'.ids), <<>>)
                        /\ execution'.at = "turn"
    BY <2>1 DEF Idle, Turn
  <2>5. inflight \cup taken = {}
    BY <1>0, <1>2 DEF FrozenForm
  <2>6. /\ FrozenForm' /\ IsFrozen(tx') /\ tx' \in TransactionFields
        /\ tx'.index = 0 /\ Len(tx'.ids) \in Nat \ {0}
    <3>1. kind = "file" => locked'
      BY <2>2 DEF Refuses
    <3>2. execution'.at # "idle" => locked' /\ ~ Refuses
      BY <2>2, <2>4
    <3>3. QED
      BY <2>1, <2>5, <3>1, <3>2, FormAfterFreezing
  <2>7. TypeOK' /\ SentChunkIsInTurn'
    <3>1. mishaps' \subseteq {"refusedBefore", "receiptFailed", "frozenAgain"}
      BY <1>0, <2>1 DEF TypeOK
    <3>2. tx'.index < Len(tx'.ids)
      BY <2>6
    <3>3. execution'.at \in {"idle", "turn", "receipt", "resolved"}
      BY <2>4
    <3>4. QED
      BY <2>3, <2>6, <3>1, <3>2, <3>3, TypesKept
  <2>8. CallForm'
    <3>1. CASE Refuses
      BY <2>4, <3>1 DEF CallForm
    <3>2. CASE ~ Refuses
      BY <2>4, <2>6, <2>7, <3>2, CallBegins
    <3>3. QED
      BY <3>1, <3>2
  <2>9. FileInOrder'
    BY <2>1, <2>6, OrderKept
  <2>10. QED
    BY <2>5, <2>6, <2>7, <2>8, <2>9, NothingSent DEF IInv, ChunkInv
<1>3. QED
  BY <1>1, <1>2

-----------------------------------------------------------------------------
(* The execution of a chunk *)

\* What the steps of a call under way know.
LEMMA UnderWay ==
    ASSUME IInv, execution.at # "idle"
    PROVE  /\ TypeOK /\ IsFrozen(tx)
           /\ execution.responses \in Seq(Nat)
           /\ Range(execution.responses) = Answered
           /\ Range(execution.responses) \subseteq IdsOf(taken)
           /\ execution.at # "resolved" => execution.left \in 1..Len(tx.ids)
           /\ execution.at \in {"turn", "sent"} =>
                 Left = execution.left /\ execution.attempt \in Nat
           /\ execution.at = "receipt" => Left = execution.left - 1
           /\ tx.ids[tx.index + 1] \in Nat
<1>1. TypeOK /\ FrozenForm /\ CallForm
  BY DEF IInv, ChunkInv
<1>2. IsFrozen(tx)
  <2>1. execution # Idle
    BY DEF Idle
  <2>2. QED
    BY <1>1, <2>1 DEF FrozenForm
<1>3. tx.ids[tx.index + 1] \in Nat
  <2>1. /\ tx.ids \in Seq(Nat) /\ tx.index \in 0..(Len(tx.ids) - 1)
        /\ Len(tx.ids) \in Nat
    BY <1>1, <1>2, TxFacts
  <2>2. tx.index + 1 \in 1..Len(tx.ids)
    BY <2>1
  <2>3. QED
    BY <2>1, <2>2
<1>4. /\ execution.responses \in Seq(Nat)
      /\ Range(execution.responses) = Answered
      /\ Range(execution.responses) \subseteq IdsOf(taken)
      /\ execution.at # "resolved" => execution.left \in 1..Len(tx.ids)
      /\ execution.at \in {"turn", "sent"} => execution.attempt \in Nat
  BY <1>1 DEF CallForm
<1>5. /\ execution.at \in {"turn", "sent"} => Left = execution.left
      /\ execution.at = "receipt" => Left = execution.left - 1
  BY DEF Left
<1>6. QED
  BY <1>1, <1>2, <1>3, <1>4, <1>5

\* The call waits, or tries again: nothing more is answered.
LEMMA CallWaits ==
    ASSUME IInv, UNCHANGED caseVars,
           execution.at \in {"turn", "sent"}, execution'.at \in {"turn", "sent"},
           execution'.responses = execution.responses,
           execution'.left = execution.left, execution'.attempt \in Nat,
           Len(tx'.ids) = Len(tx.ids), Answered' = Answered,
           taken' = taken, applied' = applied
    PROVE  CallForm'
<1>1. CallForm /\ kind' = kind
  BY CaseKept DEF IInv
<1>2. /\ execution.responses \in Seq(Nat)
      /\ execution.left \in 1..Len(tx.ids)
      /\ Range(execution.responses) = Answered
      /\ Range(execution.responses) \subseteq IdsOf(taken)
      /\ kind = "file" =>
            \A r \in Range(execution.responses) : r \in IdsOf(Range(applied))
  BY <1>1 DEF CallForm
<1>3. QED
  BY <1>1, <1>2 DEF CallForm, IdsOf

LEMMA SendKeeps ==
    ASSUME IInv, Send, UNCHANGED caseVars, UNCHANGED <<calls, locked>>
    PROVE  IInv'
<1>0. TypeOK /\ FrozenForm /\ execution.at = "turn"
  BY DEF IInv, ChunkInv, Send
<1> PICK b : b = Request(tx)
  OBVIOUS
<1>1. /\ b \in Body
      /\ b.node = Nodes[tx.node + 1]
      /\ b.id = tx.ids[tx.index + 1]
      /\ \/ kind = "message" /\ onDemand
         \/ "refusedBefore" \in mishaps
         \/ b.from = Cut(tx.index).from /\ b.to = Cut(tx.index).to
      /\ IsChunk(b)
  BY <1>0, RequestFacts
<1>2. /\ execution' = [at |-> "sent", left |-> execution.left,
                       attempt |-> execution.attempt,
                       responses |-> execution.responses,
                       node |-> Nodes[tx.node + 1], request |-> b]
      /\ inflight' = inflight \cup {b}
      /\ UNCHANGED <<taken, applied, refused, mishaps>>
  BY DEF Send
<1>3. /\ execution'.at = "sent" /\ execution'.left = execution.left
      /\ execution'.attempt = execution.attempt
      /\ execution'.responses = execution.responses
      /\ execution'.node = Nodes[tx.node + 1] /\ execution'.request = b
  BY <1>2
<1>4. /\ tx'.ids = tx.ids /\ tx'.index = tx.index /\ tx'.signed = tx.signed
      /\ tx' \in TransactionFields
  <2>1. (tx.node + IF onDemand THEN 2 ELSE 1) % N \in 0..(N - 1)
    <3>1. tx.node + (IF onDemand THEN 2 ELSE 1) \in Nat
      BY <1>0, TxFacts, NodeFacts
    <3>2. QED
      BY <3>1, NodeFacts
  <2>2. tx' = [tx EXCEPT !.node = (tx.node + IF onDemand THEN 2 ELSE 1) % N]
    BY DEF Send
  <2>3. QED
    BY <1>0, <2>1, <2>2 DEF TypeOK, TransactionFields
<1>5. /\ IsFrozen(tx) /\ Left = execution.left /\ execution.attempt \in Nat
      /\ tx.index \in 0..(Len(tx.ids) - 1)
  BY <1>0, UnderWay, TxFacts
<1>6. TypeOK'
  <2>1. /\ inflight' \cup taken' \cup Range(applied') \subseteq Body
        /\ refused' \subseteq Nat
        /\ calls' \in 0..MaxCalls /\ locked' \in BOOLEAN
        /\ mishaps' \subseteq {"refusedBefore", "receiptFailed", "frozenAgain"}
    BY <1>0, <1>1, <1>2 DEF TypeOK
  <2>2. kind' \in {"message", "file"} /\ onDemand' \in BOOLEAN /\ length' \in Lengths
    BY <1>0, CaseKept DEF TypeOK
  <2>3. QED
    BY <1>0, <1>1, <1>3, <1>4, <1>5, <2>1, <2>2 DEF TypeOK, IsFrozen
<1>7. SentChunkIsInTurn'
  <2>1. Cut(tx.index)' = Cut(tx.index)
    BY <1>4, CaseKept DEF Cut
  <2>2. kind' = kind /\ onDemand' = onDemand
    BY CaseKept
  <2>3. QED
    BY <1>1, <1>2, <1>3, <1>4, <2>1, <2>2 DEF SentChunkIsInTurn
<1>8. FrozenForm'
  BY <1>0, <1>2, <1>4, <1>5, FormKept
<1>9. ChunksKeepTheirIds' /\ AppliedOnce'
  <2>1. ChunksKeepTheirIds /\ AppliedOnce
    BY DEF IInv
  <2>2. ChunksKeepTheirIds'
    BY <1>1, <1>2, <1>4, <2>1, ChunkKept DEF ChunksKeepTheirIds
  <2>3. AppliedOnce'
    BY <1>2, <2>1 DEF AppliedOnce
  <2>4. QED
    BY <2>2, <2>3
<1>10. CallForm'
  <2>1. Left' = Left
    BY <1>3, <1>5 DEF Left
  <2>2. Answered' = Answered
    BY <1>4, <2>1, AnsweredKept
  <2>3. QED
    BY <1>0, <1>2, <1>3, <1>4, <1>5, <2>2, CallWaits
<1>11. FileInOrder'
  <2>1. FileInOrder
    BY DEF IInv
  <2>2. kind = "file" /\ "frozenAgain" \notin mishaps => b.id = tx.index + 1
    <3>1. tx.index + 1 \in DOMAIN tx.ids
      BY <1>0, <1>5, TxFacts
    <3>2. QED
      BY <1>0, <1>1, <1>5, <3>1 DEF FrozenForm, IdsAreNumbers
  <2>3. ASSUME kind = "file", mishaps \cap {"receiptFailed", "frozenAgain"} = {}
        PROVE  b.id <= Len(applied) + 1
    <3>1. applied \in Seq(Body)
      BY DEF IInv, AppliedOnce
    <3>2. tx.index \in Nat /\ Len(applied) \in Nat
      <4>1. tx.index \in Nat
        BY <1>0, TxFacts
      <4>2. Len(applied) \in Nat
        BY <3>1
      <4>3. QED
        BY <4>1, <4>2
    <3>3. tx.index <= Len(applied)
      BY <1>0, <2>1, <2>3 DEF FileInOrder
    <3>4. tx.index + 1 <= Len(applied) + 1
      BY <3>2, <3>3
    <3>5. b.id = tx.index + 1
      BY <2>2, <2>3
    <3>6. QED
      BY <3>4, <3>5
  <2>4. QED
    BY <1>0, <1>2, <1>3, <1>4, <2>1, <2>3, CaseKept DEF FileInOrder
<1>12. QED
  BY <1>6, <1>7, <1>8, <1>9, <1>10, <1>11 DEF IInv, ChunkInv

\* The steps of a chunk's execution that only try it again.
LEMMA TurnAgain ==
    ASSUME IInv, UNCHANGED caseVars, UNCHANGED networkVars,
           UNCHANGED <<calls, locked, mishaps>>,
           execution.at = "sent",
           execution' = [Turn(execution.left, execution.responses) EXCEPT
                            !.attempt = execution.attempt + 1],
           tx' = tx, FrozenForm', Answered = Answered'
    PROVE  IInv'
<1>1. /\ execution'.at = "turn" /\ execution'.left = execution.left
      /\ execution'.attempt = execution.attempt + 1
      /\ execution'.responses = execution.responses
  BY DEF Turn
<1>2. TypeOK /\ IsFrozen(tx) /\ execution.attempt \in Nat
  BY UnderWay
<1>3. execution'.attempt \in Nat
  BY <1>1, <1>2
<1>4. TypeOK' /\ SentChunkIsInTurn'
  <2>1. /\ calls' \in 0..MaxCalls /\ locked' \in BOOLEAN
        /\ mishaps' \subseteq {"refusedBefore", "receiptFailed", "frozenAgain"}
        /\ tx' \in TransactionFields /\ tx'.index < Len(tx'.ids)
    BY <1>2 DEF TypeOK
  <2>2. QED
    BY <1>1, <2>1, TypesKept
<1>5. CallForm'
  BY <1>1, <1>3, CallWaits DEF networkVars
<1>6. FileInOrder'
  BY OrderKept
<1>7. QED
  BY <1>4, <1>5, <1>6, NetworkKept DEF IInv, ChunkInv

LEMMA RetryKeeps ==
    ASSUME IInv, Retry, UNCHANGED caseVars, UNCHANGED <<calls, locked>>
    PROVE  IInv'
<1>1. /\ execution.at = "sent" /\ UNCHANGED <<tx, mishaps>>
      /\ UNCHANGED networkVars
      /\ execution' = [Turn(execution.left, execution.responses) EXCEPT
                          !.attempt = execution.attempt + 1]
  BY DEF Retry
<1>2. /\ TypeOK /\ IsFrozen(tx) /\ Left = execution.left
      /\ tx.index \in 0..(Len(tx.ids) - 1)
  BY <1>1, UnderWay, TxFacts
<1>3. execution'.at = "turn" /\ execution'.left = execution.left
  BY <1>1 DEF Turn
<1>4. Left' = Left
  BY <1>2, <1>3 DEF Left
<1>5. Answered' = Answered
  BY <1>1, <1>4, AnsweredKept
<1>6. FrozenForm'
  BY <1>1, <1>2, FormKept DEF networkVars
<1>7. QED
  BY <1>1, <1>5, <1>6, TurnAgain

\* The call ends without having had all its responses.
LEMMA CallFailsKeeps ==
    ASSUME IInv, UNCHANGED caseVars, UNCHANGED networkVars,
           UNCHANGED <<calls, locked, tx>>,
           execution.at \in {"sent", "receipt"}, execution' = Idle,
           \/ execution.at = "sent" /\ UNCHANGED mishaps
           \/ mishaps' = mishaps \cup {"receiptFailed"}
    PROVE  IInv'
<1>1. execution'.at = "idle"
  BY DEF Idle
<1>2. TypeOK /\ IsFrozen(tx) /\ tx.index \in 0..(Len(tx.ids) - 1)
  BY UnderWay, TxFacts
<1>3. TypeOK' /\ SentChunkIsInTurn'
  <2>1. /\ tx' \in TransactionFields /\ tx'.index < Len(tx'.ids)
        /\ calls' \in 0..MaxCalls /\ locked' \in BOOLEAN
        /\ mishaps' \subseteq {"refusedBefore", "receiptFailed", "frozenAgain"}
    BY <1>2 DEF TypeOK
  <2>2. QED
    BY <1>1, <2>1, TypesKept
<1>4. FrozenForm'
  BY <1>1, <1>2, FormKept DEF networkVars
<1>5. CallForm'
  BY <1>1 DEF CallForm
<1>6. FileInOrder'
  <2>1. CASE execution.at = "sent" /\ UNCHANGED mishaps
    BY <2>1, OrderKept
  <2>2. CASE mishaps' = mishaps \cup {"receiptFailed"}
    BY <2>2 DEF FileInOrder
  <2>3. QED
    BY <2>1, <2>2
<1>7. QED
  BY <1>3, <1>4, <1>5, <1>6, NetworkKept DEF IInv, ChunkInv

\* The IDs that are executed are locked: an ID that expires is not replaced.
LEMMA ExpiredKeeps ==
    ASSUME IInv, Expired, UNCHANGED caseVars, UNCHANGED <<calls, locked>>
    PROVE  IInv'
<1>1. execution.at = "sent" /\ UNCHANGED networkVars /\ UNCHANGED mishaps
  BY DEF Expired
<1>2. locked
  BY <1>1 DEF IInv, FrozenForm
<1>3. execution' = Idle /\ UNCHANGED tx
  BY <1>2 DEF Expired
<1>4. QED
  BY <1>1, <1>3, CallFailsKeeps

LEMMA NextChunkFacts ==
    ASSUME NEW l \in Nat \ {0}, NEW rs, execution' = NextChunk(l, rs)
    PROVE  /\ execution'.at \in {"turn", "resolved"}
           /\ execution'.responses = rs
           /\ execution'.at = "turn" =>
                 /\ execution'.left = l - 1 /\ l - 1 \in 1..l
                 /\ execution'.attempt = 1
           /\ Left' = l - 1
<1>1. CASE l = 1
  <2>1. execution' = [at |-> "resolved", responses |-> rs]
    BY <1>1 DEF NextChunk
  <2>2. QED
    BY <1>1, <2>1 DEF Left
<1>2. CASE l # 1
  <2>1. execution' = [at |-> "turn", left |-> l - 1, attempt |-> 1, responses |-> rs]
    BY <1>2 DEF NextChunk, Turn
  <2>2. l - 1 \in 1..l
    BY <1>2
  <2>3. QED
    BY <2>1, <2>2 DEF Left
<1>3. QED
  BY <1>1, <1>2

LEMMA IndexFacts ==
    ASSUME NEW t \in TransactionFields, NEW j \in Nat,
           NEW u, u = [t EXCEPT !.index = j]
    PROVE  /\ u \in TransactionFields /\ u.ids = t.ids
           /\ u.signed = t.signed /\ u.index = j
BY DEF TransactionFields

\* The chunk in turn is answered, and the list moves on; of a file the receipt
\* is awaited now.
LEMMA RespondKeeps ==
    ASSUME IInv, Respond, UNCHANGED caseVars, UNCHANGED <<calls, locked>>
    PROVE  IInv'
<1>0. /\ execution.at = "sent" /\ execution.request.id \in IdsOf(taken)
      /\ UNCHANGED networkVars /\ UNCHANGED mishaps
      /\ execution' = Following(execution.left,
                          Append(execution.responses, tx.ids[tx.index + 1]))
      /\ tx' = [tx EXCEPT !.index = (tx.index + 1) % Len(tx.ids)]
  BY DEF Respond, Advanced
<1>1. /\ TypeOK /\ IsFrozen(tx) /\ Left = execution.left
      /\ execution.responses \in Seq(Nat)
      /\ Range(execution.responses) = Answered
      /\ Range(execution.responses) \subseteq IdsOf(taken)
      /\ execution.left \in 1..Len(tx.ids)
      /\ tx.ids[tx.index + 1] \in Nat
  BY <1>0, UnderWay
<1> PICK L \in Nat \ {0} : L = Len(tx.ids)
  BY <1>1, TxFacts
<1> PICK i \in 0..(L - 1) : i = tx.index
  BY <1>1, TxFacts
<1> PICK l \in 1..L : l = execution.left
  BY <1>1
<1> PICK id \in Nat : id = tx.ids[i + 1]
  BY <1>1
<1> PICK rs : rs = Append(execution.responses, id)
  OBVIOUS
<1>2. /\ rs \in Seq(Nat) /\ rs # <<>> /\ Last(rs) = id
      /\ Range(rs) = Range(execution.responses) \cup {id}
  BY <1>1, AppendFacts, SMTT(30)
<1>3. id \in IdsOf(taken)
  BY <1>0 DEF IInv, ChunkInv, SentChunkIsInTurn
<1>4. /\ tx' \in TransactionFields /\ tx'.ids = tx.ids /\ tx'.signed = tx.signed
      /\ tx'.index = IF i + 1 = L THEN 0 ELSE i + 1
      /\ tx'.index \in 0..(L - 1)
  <2>1. (i + 1) % L = IF i + 1 = L THEN 0 ELSE i + 1
    BY RoundFacts
  <2>2. (i + 1) % L \in 0..(L - 1)
    BY <2>1
  <2> PICK j \in 0..(L - 1) : j = (i + 1) % L
    BY <2>2
  <2>3. tx' = [tx EXCEPT !.index = j]
    BY <1>0
  <2>4. tx \in TransactionFields
    BY <1>1 DEF TypeOK
  <2>5. /\ tx' \in TransactionFields /\ tx'.ids = tx.ids
        /\ tx'.signed = tx.signed /\ tx'.index = j
    BY <2>3, <2>4, IndexFacts
  <2>6. QED
    BY <2>1, <2>5
<1>5. execution' = Following(l, rs)
  BY <1>0
<1>6. /\ kind = "file" =>
            execution' = [at |-> "receipt", left |-> l, responses |-> rs]
      /\ kind = "message" => execution' = NextChunk(l, rs)
      /\ kind \in {"message", "file"}
  BY <1>1, <1>5 DEF Following, TypeOK
<1>7. /\ execution'.at \in {"turn", "receipt", "resolved"}
      /\ execution'.at = "receipt" <=> kind = "file"
      /\ execution'.responses = rs
      /\ execution'.at # "resolved" => execution'.left \in 1..L
      /\ execution'.at = "turn" => execution'.attempt \in Nat
      /\ Left' = l - 1
  <2>1. CASE kind = "file"
    <3>1. execution' = [at |-> "receipt", left |-> l, responses |-> rs]
      BY <1>6, <2>1
    <3>2. QED
      BY <2>1, <3>1 DEF Left
  <2>2. CASE kind = "message"
    <3>1. /\ execution'.at \in {"turn", "resolved"}
          /\ execution'.responses = rs
          /\ execution'.at = "turn" =>
                /\ execution'.left = l - 1 /\ l - 1 \in 1..l
                /\ execution'.attempt = 1
          /\ Left' = l - 1
      <4>1. l \in Nat \ {0} /\ execution' = NextChunk(l, rs)
        BY <1>6, <2>2
      <4>2. QED
        BY <4>1, NextChunkFacts
    <3>2. l - 1 \in 1..l => l - 1 \in 1..L
      OBVIOUS
    <3>3. QED
      BY <2>2, <3>1, <3>2
  <2>3. QED
    BY <1>6, <2>1, <2>2
<1>8. TypeOK' /\ SentChunkIsInTurn'
  <2>1. /\ calls' \in 0..MaxCalls /\ locked' \in BOOLEAN
        /\ mishaps' \subseteq {"refusedBefore", "receiptFailed", "frozenAgain"}
    BY <1>0, <1>1 DEF TypeOK
  <2>2. tx'.index < Len(tx'.ids)
    BY <1>4
  <2>3. QED
    BY <1>0, <1>4, <1>7, <2>1, <2>2, TypesKept
<1>9. FrozenForm'
  <2>1. taken # {} /\ taken' = taken
    BY <1>0 DEF IdsOf, networkVars
  <2>2. QED
    BY <1>0, <1>1, <1>4, <2>1, FormKept
<1>10. CallForm'
  <2>1. Answered' = Answered \cup {id}
    BY <1>1, <1>4, <1>7, AnsweredAfterTurn
  <2>2. Range(execution'.responses) = Answered'
    BY <1>1, <1>2, <1>7, <2>1
  <2>3. Range(execution'.responses) \subseteq IdsOf(taken)'
    BY <1>0, <1>1, <1>2, <1>3, <1>7 DEF networkVars, IdsOf
  <2>4. ASSUME kind = "file"
        PROVE  /\ execution'.at = "receipt"
               /\ "frozenAgain" \notin mishaps =>
                     id \in 1..L /\ tx'.index = IF id = L THEN 0 ELSE id
               /\ \A r \in Range(rs) : r \in IdsOf(Range(applied)) \/ r = id
    <3>1. execution'.at = "receipt"
      BY <1>7, <2>4
    <3>2. "frozenAgain" \notin mishaps => id = i + 1
      <4>1. FrozenForm
        BY DEF IInv
      <4>2. i + 1 \in DOMAIN tx.ids
        BY <1>1, TxFacts
      <4>3. QED
        BY <1>1, <2>4, <4>1, <4>2 DEF FrozenForm, IdsAreNumbers
    <3>3. "frozenAgain" \notin mishaps =>
              id \in 1..L /\ tx'.index = IF id = L THEN 0 ELSE id
      <4>1. id = i + 1 => id \in 1..L
        OBVIOUS
      <4>2. id = i + 1 => tx'.index = IF id = L THEN 0 ELSE id
        BY <1>4
      <4>3. QED
        BY <3>2, <4>1, <4>2
    <3>4. CallForm
      BY DEF IInv
    <3>5. \A r \in Range(execution.responses) : r \in IdsOf(Range(applied))
      BY <1>0, <2>4, <3>4 DEF CallForm
    <3>6. QED
      BY <1>2, <3>1, <3>3, <3>5
  <2>5. kind' = kind /\ applied' = applied /\ Len(tx'.ids) = L
    BY <1>0, <1>4, CaseKept DEF networkVars
  <2>6. IdsOf(Range(applied))' = IdsOf(Range(applied))
    BY <2>5
  <2>7. QED
    BY <1>0, <1>2, <1>7, <2>2, <2>3, <2>4, <2>5, <2>6 DEF CallForm
<1>11. FileInOrder'
  BY <1>0, <1>7, CaseKept DEF IInv, FileInOrder, networkVars
<1>12. QED
  BY <1>0, <1>4, <1>8, <1>9, <1>10, <1>11, NetworkKept DEF IInv, ChunkInv

\* The receipt says that the chunk was appended: the next one may follow.
LEMMA ReceiptKeeps ==
    ASSUME IInv, Receipt, UNCHANGED caseVars, UNCHANGED <<calls, locked>>
    PROVE  IInv'
<1>0. /\ execution.at = "receipt"
      /\ Last(execution.responses) \in IdsOf(Range(applied))
      /\ execution' = NextChunk(execution.left, execution.responses)
      /\ UNCHANGED networkVars /\ UNCHANGED <<tx, mishaps>>
  BY DEF Receipt
<1>1. /\ TypeOK /\ IsFrozen(tx) /\ Left = execution.left - 1
      /\ execution.responses \in Seq(Nat)
      /\ Range(execution.responses) = Answered
      /\ Range(execution.responses) \subseteq IdsOf(taken)
      /\ execution.left \in 1..Len(tx.ids)
  BY <1>0, UnderWay
<1> PICK L \in Nat \ {0} : L = Len(tx.ids)
  BY <1>1, TxFacts
<1> PICK l \in 1..L : l = execution.left
  BY <1>1
<1>2. /\ kind = "file"
      /\ \A r \in Range(execution.responses) : r \in IdsOf(Range(applied))
      /\ "frozenAgain" \notin mishaps =>
            /\ Last(execution.responses) \in 1..L
            /\ tx.index = IF Last(execution.responses) = L THEN 0
                          ELSE Last(execution.responses)
  <2>1. CallForm
    BY DEF IInv
  <2>2. QED
    BY <1>0, <2>1 DEF CallForm
<1>3. /\ execution'.at \in {"turn", "resolved"}
      /\ execution'.responses = execution.responses
      /\ execution'.at = "turn" => execution'.left \in 1..L /\ execution'.attempt = 1
      /\ Left' = l - 1
  <2>1. l \in Nat \ {0} /\ execution' = NextChunk(l, execution.responses)
    BY <1>0
  <2>2. /\ execution'.at \in {"turn", "resolved"}
        /\ execution'.responses = execution.responses
        /\ execution'.at = "turn" =>
              /\ execution'.left = l - 1 /\ l - 1 \in 1..l
              /\ execution'.attempt = 1
        /\ Left' = l - 1
    BY <2>1, NextChunkFacts
  <2>3. l - 1 \in 1..l => l - 1 \in 1..L
    OBVIOUS
  <2>4. QED
    BY <2>2, <2>3
<1>4. TypeOK' /\ SentChunkIsInTurn'
  <2>1. /\ calls' \in 0..MaxCalls /\ locked' \in BOOLEAN
        /\ mishaps' \subseteq {"refusedBefore", "receiptFailed", "frozenAgain"}
        /\ tx' \in TransactionFields /\ tx'.index < Len(tx'.ids)
    BY <1>0, <1>1 DEF TypeOK
  <2>2. QED
    BY <1>0, <1>3, <2>1, TypesKept
<1>5. FrozenForm'
  BY <1>0, <1>1, TxFacts, FormKept DEF networkVars
<1>6. CallForm'
  <2>1. Answered' = Answered
    BY <1>0, <1>1, <1>3, AnsweredKept
  <2>2. kind' = kind /\ applied' = applied /\ taken' = taken /\ tx' = tx
    BY <1>0, CaseKept DEF networkVars
  <2>3. /\ IdsOf(Range(applied))' = IdsOf(Range(applied))
        /\ IdsOf(taken)' = IdsOf(taken)
    BY <2>2 DEF IdsOf
  <2>4. execution'.at = "turn" => execution'.attempt \in Nat
    BY <1>3
  <2>5. execution'.at \notin {"receipt", "sent"}
    BY <1>3
  <2>6. QED
    BY <1>1, <1>2, <1>3, <2>1, <2>2, <2>3, <2>4, <2>5 DEF CallForm
<1>7. FileInOrder'
  <2>1. FileInOrder
    BY DEF IInv
  <2>2. ASSUME mishaps \cap {"receiptFailed", "frozenAgain"} = {}
        PROVE  tx.index <= Len(applied)
    <3>1. PICK i \in DOMAIN applied : applied[i].id = Last(execution.responses)
      BY <1>0 DEF IdsOf, Range
    <3>2. applied[i].id = i
      BY <1>2, <2>1, <2>2 DEF FileInOrder
    <3>3. applied \in Seq(Body)
      BY DEF IInv, AppliedOnce
    <3>4. i \in 1..Len(applied) /\ Len(applied) \in Nat
      BY <3>3
    <3>5. tx.index = IF i = L THEN 0 ELSE i
      BY <1>2, <2>2, <3>1, <3>2
    <3>6. QED
      BY <3>4, <3>5
  <2>3. QED
    BY <1>0, <2>1, <2>2, CaseKept DEF FileInOrder, networkVars
<1>8. QED
  BY <1>0, <1>4, <1>5, <1>6, <1>7, NetworkKept DEF IInv, ChunkInv

-----------------------------------------------------------------------------
(* The network *)

\* The call is left as it is while the network takes and decides.
LEMMA CallUndisturbed ==
    ASSUME IInv, UNCHANGED caseVars, UNCHANGED <<tx, locked, execution, mishaps>>,
           taken \subseteq taken', Range(applied) \subseteq Range(applied'),
           inflight' \cup taken' \subseteq inflight \cup taken
    PROVE  FrozenForm' /\ CallForm' /\ SentChunkIsInTurn'
<1>1. FrozenForm'
  <2>1. FrozenForm
    BY DEF IInv
  <2>2. Refuses' = Refuses /\ Chunks' = Chunks /\ kind' = kind
    BY CaseKept
  <2>3. BodiesAreChunks => BodiesAreChunks'
    BY CaseKept DEF BodiesAreChunks
  <2>4. IdsAreNumbers => IdsAreNumbers'
    BY DEF IdsAreNumbers
  <2>5. ~ IsFrozen(tx) =>
            execution = Idle /\ tx.index = 0 /\ inflight' \cup taken' = {}
    BY <2>1 DEF FrozenForm
  <2>6. taken' = {} => tx.index = 0
    BY <2>1 DEF FrozenForm
  <2>7. QED
    BY <2>1, <2>2, <2>3, <2>4, <2>5, <2>6 DEF FrozenForm, IsFrozen
<1>2. CallForm'
  <2>1. CallForm /\ kind' = kind
    BY CaseKept DEF IInv
  <2>2. Left' = Left
    BY DEF Left
  <2>3. Answered' = Answered
    BY <2>2, AnsweredKept
  <2>4. /\ IdsOf(taken) \subseteq IdsOf(taken)'
        /\ IdsOf(Range(applied)) \subseteq IdsOf(Range(applied))'
    BY DEF IdsOf
  <2>5. QED
    BY <2>1, <2>3, <2>4 DEF CallForm
<1>3. SentChunkIsInTurn'
  <2>1. SentChunkIsInTurn
    BY DEF IInv, ChunkInv
  <2>2. Cut(tx.index)' = Cut(tx.index)
    BY CaseKept DEF Cut
  <2>3. QED
    BY <2>1, <2>2, CaseKept DEF SentChunkIsInTurn
<1>4. QED
  BY <1>1, <1>2, <1>3

LEMMA ArriveKeeps ==
    ASSUME IInv, NEW b \in inflight, Arrive(b), UNCHANGED caseVars,
           UNCHANGED <<calls, locked>>
    PROVE  IInv'
<1>1. /\ inflight' \subseteq inflight
      /\ taken \subseteq taken' /\ taken' \subseteq taken \cup {b}
      /\ UNCHANGED <<tx, execution, applied, refused, mishaps>>
  BY DEF Arrive
<1>2. TypeOK'
  <2>1. TypeOK
    BY DEF IInv, ChunkInv
  <2>2. inflight' \cup taken' \cup Range(applied') \subseteq Body
    BY <1>1, <2>1 DEF TypeOK
  <2>3. QED
    BY <1>1, <2>1, <2>2, CaseKept DEF TypeOK
<1>3. FrozenForm' /\ CallForm' /\ SentChunkIsInTurn'
  BY <1>1, CallUndisturbed
<1>4. ChunksKeepTheirIds'
  <2>1. ChunksKeepTheirIds
    BY DEF IInv
  <2>2. inflight' \cup taken' \cup Range(applied') \subseteq
            inflight \cup taken \cup Range(applied)
    BY <1>1
  <2>3. QED
    BY <1>1, <2>1, <2>2, ChunkKept DEF ChunksKeepTheirIds
<1>5. AppliedOnce'
  BY <1>1 DEF IInv, AppliedOnce
<1>6. FileInOrder'
  <2>1. FileInOrder
    BY DEF IInv
  <2>2. inflight' \cup taken' \subseteq inflight \cup taken
    BY <1>1
  <2>3. QED
    BY <1>1, <2>1, <2>2, CaseKept DEF FileInOrder
<1>7. QED
  BY <1>2, <1>3, <1>4, <1>5, <1>6 DEF IInv, ChunkInv

\* The network decides on an ID that it has taken and not decided on: of a file
\* it is the next one.
LEMMA ConsensusKeeps ==
    ASSUME IInv, NEW b \in Undecided, Consensus(b), UNCHANGED caseVars,
           UNCHANGED <<calls, locked>>
    PROVE  IInv'
<1>0. TypeOK /\ FrozenForm /\ ChunksKeepTheirIds /\ AppliedOnce /\ FileInOrder
  BY DEF IInv, ChunkInv
<1>1. /\ b \in taken /\ b \in Body /\ b.id \in Nat
      /\ b.id \notin IdsOf(Range(applied))
      /\ UNCHANGED <<tx, execution, inflight, taken, mishaps>>
  BY <1>0 DEF Undecided, Consensus, TypeOK, Body
<1>2. CASE refused' = refused \cup {b.id} /\ UNCHANGED applied
  <2>1. FrozenForm' /\ CallForm' /\ SentChunkIsInTurn'
    BY <1>1, <1>2, CallUndisturbed
  <2>2. TypeOK'
    BY <1>0, <1>1, <1>2, CaseKept DEF TypeOK
  <2>3. ChunksKeepTheirIds'
    BY <1>0, <1>1, <1>2, ChunkKept DEF ChunksKeepTheirIds
  <2>4. AppliedOnce'
    BY <1>0, <1>1, <1>2 DEF AppliedOnce
  <2>5. FileInOrder'
    BY <1>0, <1>1, <1>2, CaseKept DEF FileInOrder
  <2>6. QED
    BY <2>1, <2>2, <2>3, <2>4, <2>5 DEF IInv, ChunkInv
<1>3. CASE applied' = Append(applied, b) /\ UNCHANGED refused
  <2>1. applied \in Seq(Body)
    BY <1>0 DEF AppliedOnce
  <2> PICK a \in Nat : a = Len(applied)
    BY <2>1
  <2>2. /\ applied' \in Seq(Body) /\ Len(applied') = a + 1
        /\ DOMAIN applied' = 1..(a + 1)
        /\ \A i \in 1..a : applied'[i] = applied[i]
        /\ applied'[a + 1] = b
        /\ Range(applied') = Range(applied) \cup {b}
    BY <1>1, <1>3, <2>1, AppendFacts
  <2>3. DOMAIN applied = 1..a
    BY <2>1
  <2>4. \A i \in 1..a : applied[i].id # b.id
    BY <1>1, <2>3 DEF IdsOf, Range
  <2>5. FrozenForm' /\ CallForm' /\ SentChunkIsInTurn'
    BY <1>1, <2>2, CallUndisturbed
  <2>6. TypeOK'
    <3>1. inflight' \cup taken' \cup Range(applied') \subseteq Body
      BY <1>0, <1>1, <2>2 DEF TypeOK
    <3>2. QED
      BY <1>0, <1>1, <1>3, <3>1, CaseKept DEF TypeOK
  <2>7. ChunksKeepTheirIds'
    <3>1. inflight' \cup taken' \cup Range(applied') \subseteq
              inflight \cup taken \cup Range(applied)
      BY <1>1, <2>2
    <3>2. QED
      BY <1>0, <1>1, <3>1, ChunkKept DEF ChunksKeepTheirIds
  <2>8. AppliedOnce'
    <3>1. ASSUME NEW i \in 1..(a + 1), NEW j \in 1..(a + 1),
                 applied'[i].id = applied'[j].id
          PROVE  i = j
      <4>1. CASE i \in 1..a /\ j \in 1..a
        BY <1>0, <2>2, <2>3, <3>1, <4>1 DEF AppliedOnce
      <4>2. CASE i = a + 1 /\ j \in 1..a
        BY <2>2, <2>4, <3>1, <4>2
      <4>3. CASE j = a + 1 /\ i \in 1..a
        BY <2>2, <2>4, <3>1, <4>3
      <4>4. i \in 1..a \/ i = a + 1
        OBVIOUS
      <4>5. j \in 1..a \/ j = a + 1
        OBVIOUS
      <4>6. QED
        BY <4>1, <4>2, <4>3, <4>4, <4>5
    <3>2. Range(applied') \subseteq taken'
      BY <1>0, <1>1, <2>2 DEF AppliedOnce
    <3>3. QED
      BY <2>2, <3>1, <3>2 DEF AppliedOnce
  <2>9. FileInOrder'
    <3>1. kind' = kind
      BY CaseKept
    <3>2. ASSUME kind = "file", mishaps \cap {"receiptFailed", "frozenAgain"} = {}
          PROVE  /\ \A i \in 1..(a + 1) : applied'[i].id = i
                 /\ \A c \in inflight \cup taken : c.id <= (a + 1) + 1
                 /\ execution.at # "receipt" => tx.index <= a + 1
      <4>1. /\ \A i \in 1..a : applied[i].id = i
            /\ \A c \in inflight \cup taken : c.id <= a + 1
            /\ execution.at # "receipt" => tx.index <= a
        BY <1>0, <2>3, <3>2 DEF FileInOrder
      <4>2. \A c \in inflight \cup taken : c.id \in Nat
        BY <1>0 DEF TypeOK, Body
      <4>3. b.id = a + 1
        <5>1. b.id \in 1..(a + 1)
          <6>1. IsChunk(b) /\ "frozenAgain" \notin mishaps
            BY <1>0, <1>1, <3>2 DEF ChunksKeepTheirIds
          <6>2. PICK c \in Nat : b.id = c + 1
            BY <1>0, <3>2, <6>1, ChunkPlace
          <6>3. b.id >= 1
            BY <6>2
          <6>4. b.id <= a + 1
            BY <1>1, <4>1
          <6>5. QED
            BY <1>1, <6>3, <6>4
        <5>2. b.id \notin 1..a
          BY <2>4, <4>1
        <5>3. QED
          BY <5>1, <5>2
      <4>4. \A i \in 1..(a + 1) : applied'[i].id = i
        <5>1. \A i \in 1..a : applied'[i].id = i
          BY <2>2, <4>1
        <5>2. applied'[a + 1].id = a + 1
          BY <2>2, <4>3
        <5>3. \A i \in 1..(a + 1) : i \in 1..a \/ i = a + 1
          OBVIOUS
        <5>4. QED
          BY <5>1, <5>2, <5>3
      <4>5. \A c \in inflight \cup taken : c.id <= (a + 1) + 1
        BY <4>1, <4>2
      <4>6. tx.index <= a => tx.index <= a + 1
        <5>1. tx.index \in Nat
          BY <1>0, TxFacts
        <5>2. QED
          BY <5>1
      <4>7. QED
        BY <4>1, <4>4, <4>5, <4>6
    <3>3. QED
      BY <1>1, <2>2, <3>1, <3>2 DEF FileInOrder
  <2>10. QED
    BY <2>5, <2>6, <2>7, <2>8, <2>9 DEF IInv, ChunkInv
<1>4. QED
  BY <1>2, <1>3 DEF Consensus

-----------------------------------------------------------------------------
(* Every step *)

LEMMA InitIInv == Init => IInv
<1> SUFFICES ASSUME Init
             PROVE  IInv
  OBVIOUS
<1>1. /\ tx = [ids |-> <<>>, index |-> 0, node |-> 0, signed |-> <<>>]
      /\ locked = FALSE /\ execution = Idle /\ execution.at = "idle"
      /\ inflight = {} /\ taken = {} /\ applied = <<>> /\ refused = {}
      /\ calls = 0 /\ mishaps = {}
  BY DEF Init, Idle
<1>2. tx \in TransactionFields /\ tx.ids = <<>> /\ tx.index = 0
  <2>1. <<>> \in Seq(Nat) /\ <<>> \in Seq(Body) /\ 0 \in 0..(N - 1)
    BY NodeFacts
  <2>2. QED
    BY <1>1, <2>1 DEF TransactionFields
<1>3. Range(applied) = {} /\ applied \in Seq(Body) /\ DOMAIN applied = {}
  <2>1. DOMAIN applied = {}
    BY <1>1
  <2>2. QED
    BY <1>1, <2>1 DEF Range
<1>4. TypeOK
  <2>1. MaxCalls \in Nat
    BY ChunkAssumption DEF ChunkAssumption
  <2>2. calls \in 0..MaxCalls
    BY <1>1, <2>1
  <2>3. kind \in {"message", "file"} /\ onDemand \in BOOLEAN /\ length \in Lengths
    BY DEF Init
  <2>4. ~ IsFrozen(tx)
    BY <1>2 DEF IsFrozen
  <2>5. QED
    BY <1>1, <1>2, <1>3, <2>2, <2>3, <2>4 DEF TypeOK
<1>5. FrozenForm
  BY <1>1, <1>2 DEF FrozenForm, IsFrozen
<1>6. SentChunkIsInTurn /\ CallForm
  BY <1>1 DEF SentChunkIsInTurn, CallForm
<1>7. ChunksKeepTheirIds /\ AppliedOnce
  BY <1>1, <1>3 DEF ChunksKeepTheirIds, AppliedOnce
<1>8. FileInOrder
  <2>1. 0 <= Len(applied)
    BY <1>1
  <2>2. QED
    BY <1>1, <1>2, <1>3, <2>1 DEF FileInOrder
<1>9. QED
  BY <1>4, <1>5, <1>6, <1>7, <1>8 DEF IInv, ChunkInv

LEMMA StutterKeeps ==
    ASSUME IInv, UNCHANGED vars
    PROVE  IInv'
<1>1. /\ UNCHANGED caseVars /\ UNCHANGED networkVars
      /\ UNCHANGED <<tx, locked, execution, calls, mishaps>>
  BY DEF vars
<1>2. FrozenForm' /\ CallForm' /\ SentChunkIsInTurn'
  BY <1>1, CallUndisturbed DEF networkVars
<1>3. TypeOK'
  BY <1>1, CaseKept DEF IInv, ChunkInv, TypeOK, networkVars
<1>4. ChunksKeepTheirIds' /\ AppliedOnce'
  BY <1>1, NetworkKept
<1>5. FileInOrder'
  BY <1>1, CaseKept DEF IInv, FileInOrder, networkVars
<1>6. QED
  BY <1>2, <1>3, <1>4, <1>5 DEF IInv, ChunkInv

LEMMA NextIInv == IInv /\ [Next]_vars => IInv'
<1> SUFFICES ASSUME IInv, [Next]_vars
             PROVE  IInv'
  OBVIOUS
<1>1. CASE Application /\ UNCHANGED caseVars
  <2>1. UNCHANGED networkVars /\ (Freeze \/ ExecuteAll)
    BY <1>1 DEF Application
  <2>2. calls' \in 0..MaxCalls
    <3>1. calls \in 0..MaxCalls /\ MaxCalls \in Nat
      BY ChunkAssumption DEF IInv, ChunkInv, TypeOK, ChunkAssumption
    <3>2. calls < MaxCalls /\ calls' = calls + 1
      BY <1>1 DEF Application
    <3>3. QED
      BY <3>1, <3>2
  <2>3. QED
    BY <1>1, <2>1, <2>2, FreezeKeeps, ExecuteAllKeeps
<1>2. CASE Execution /\ UNCHANGED <<calls, locked>> /\ UNCHANGED caseVars
  <2>1. CASE Send
    BY <1>2, <2>1, SendKeeps
  <2>2. CASE Retry
    BY <1>2, <2>2, RetryKeeps
  <2>3. CASE Reject
    BY <1>2, <2>3, CallFailsKeeps DEF Reject
  <2>4. CASE Expired
    BY <1>2, <2>4, ExpiredKeeps
  <2>5. CASE Respond
    BY <1>2, <2>5, RespondKeeps
  <2>6. CASE Receipt
    BY <1>2, <2>6, ReceiptKeeps
  <2>7. CASE ReceiptFails
    BY <1>2, <2>7, CallFailsKeeps DEF ReceiptFails
  <2>8. QED
    BY <1>2, <2>1, <2>2, <2>3, <2>4, <2>5, <2>6, <2>7 DEF Execution
<1>3. CASE Network /\ UNCHANGED <<calls, locked>> /\ UNCHANGED caseVars
  BY <1>3, ArriveKeeps, ConsensusKeeps DEF Network
<1>4. CASE UNCHANGED vars
  BY <1>4, StutterKeeps
<1>5. QED
  BY <1>1, <1>2, <1>3, <1>4 DEF Next

-----------------------------------------------------------------------------
(* The results *)

\* The invariant holds in every state that freezing, executeAll() and the
\* network reach.
THEOREM Invariance == Spec => []IInv
<1>1. Init => IInv
  BY InitIInv
<1>2. IInv /\ [Next]_vars => IInv'
  BY NextIInv
<1>3. QED
  BY <1>1, <1>2, PTL DEF Spec

\* What is sent to a node is for that node, under the ID that the response will
\* name, and holds the chunk of that ID: _signedTransactions, _transactionIds
\* and their indices do not part.
THEOREM ChunksCorrect == Spec => []ChunkInv
<1>1. IInv => ChunkInv
  BY DEF IInv
<1>2. QED
  BY <1>1, Invariance, PTL

\* A file consists of its first chunks in order, whatever is lost, late or
\* retried, unless executeAll() goes on after a receipt it did not get, or the
\* transaction is frozen again after it was sent.
THEOREM FilesInOrder == Spec => []FileIsPrefixOfContents
<1>1. ASSUME IInv
      PROVE  FileIsPrefixOfContents
  <2>1. applied \in Seq(Body)
    BY <1>1 DEF IInv, AppliedOnce
  <2> PICK a \in Nat : a = Len(applied)
    BY <2>1
  <2>2. DOMAIN applied = 1..a
    BY <2>1
  <2>3. ASSUME kind # "message", mishaps \cap {"receiptFailed", "frozenAgain"} = {},
               NEW i \in 1..a
        PROVE  applied[i].from = IF i = 1 THEN 0 ELSE applied[i - 1].to
    <3>1. /\ TypeOK /\ FrozenForm /\ ChunksKeepTheirIds /\ FileInOrder
          /\ kind = "file" /\ "frozenAgain" \notin mishaps
      BY <1>1, <2>3 DEF IInv, ChunkInv, TypeOK
    <3>2. ASSUME NEW j \in 1..a, NEW d \in Nat, j = d + 1
          PROVE  /\ d < Chunks /\ applied[j].from = Cut(d).from
                 /\ applied[j].to = Cut(d).to
      <4>1. applied[j].id = d + 1 /\ IsChunk(applied[j])
        BY <2>2, <2>3, <3>1, <3>2 DEF FileInOrder, ChunksKeepTheirIds, Range
      <4>2. PICK e \in Nat : /\ e < Chunks /\ applied[j].id = e + 1
                             /\ applied[j].from = Cut(e).from
                             /\ applied[j].to = Cut(e).to
        BY <3>1, <4>1, ChunkPlace
      <4>3. e = d
        BY <4>1, <4>2
      <4>4. QED
        BY <4>2, <4>3
    <3> PICK c \in Nat : i = c + 1 /\ i - 1 = c
      <4>1. i - 1 \in Nat /\ i = (i - 1) + 1
        OBVIOUS
      <4>2. QED
        BY <4>1
    <3>3. c < Chunks /\ applied[i].from = Cut(c).from
      BY <3>2
    <3>4. CASE i = 1
      <4>1. c = 0
        BY <3>4
      <4>2. Cut(0).from = 0
        <5>1. ChunkSize \in Nat /\ Cut(0).from = 0 * ChunkSize
          BY <3>1, ChunkFacts, CutFacts
        <5>2. QED
          BY <5>1
      <4>3. QED
        BY <3>3, <3>4, <4>1, <4>2
    <3>5. CASE i # 1
      <4> PICK d \in Nat : c = d + 1
        <5>1. c # 0 /\ c \in Nat
          BY <3>5
        <5>2. c - 1 \in Nat /\ c = (c - 1) + 1
          BY <5>1
        <5>3. QED
          BY <5>2
      <4>1. c \in 1..a
        BY <3>5
      <4>2. applied[c].to = Cut(d).to
        BY <3>2, <4>1
      <4>3. Cut(d).to = Cut(c).from
        BY <3>1, <3>3, CutFacts
      <4>4. QED
        BY <3>3, <3>5, <4>2, <4>3
    <3>6. QED
      BY <3>4, <3>5
  <2>4. QED
    BY <2>2, <2>3 DEF FileIsPrefixOfContents
<1>2. QED
  BY <1>1, Invariance, PTL

\* What takes effect, under an ID each, is no more than there are IDs.
LEMMA NoMoreThanIds ==
    ASSUME IInv, "frozenAgain" \notin mishaps
    PROVE  Len(applied) <= Chunks
<1>0. TypeOK /\ FrozenForm /\ ChunksKeepTheirIds /\ AppliedOnce
  BY DEF IInv, ChunkInv
<1>1. /\ applied \in Seq(Body) /\ Len(applied) \in Nat
      /\ DOMAIN applied = 1..Len(applied)
  <2>1. applied \in Seq(Body)
    BY <1>0 DEF AppliedOnce
  <2>2. QED
    BY <2>1
<1>2. tx.ids \in Seq(Nat) /\ Len(tx.ids) \in Nat /\ (tx.ids = <<>> => Len(tx.ids) = 0)
  <2>1. tx.ids \in Seq(Nat)
    BY <1>0, TxFacts
  <2>2. QED
    BY <2>1
<1> PICK a \in Nat : a = Len(applied)
  BY <1>1
<1> PICK L \in Nat : L = Len(tx.ids)
  BY <1>2
<1>3. \A i \in 1..a : \E c \in 0..(L - 1) : applied[i].id = tx.ids[c + 1]
  BY <1>0, <1>1 DEF ChunksKeepTheirIds, IsChunk, IsChunkAt, Range
<1> DEFINE Place == [i \in 1..a |->
                        CHOOSE c \in 0..(L - 1) : applied[i].id = tx.ids[c + 1]]
<1>4. \A i \in 1..a : Place[i] \in 0..(L - 1) /\ applied[i].id = tx.ids[Place[i] + 1]
  BY <1>3
<1>5. a <= L
  <2>1. /\ IsFiniteSet(1..a) /\ Cardinality(1..a) = a
        /\ IsFiniteSet(0..(L - 1)) /\ Cardinality(0..(L - 1)) = L
    <3>1. /\ IsFiniteSet(1..a)
          /\ Cardinality(1..a) = IF 1 > a THEN 0 ELSE a - 1 + 1
      <4>1. 1 \in Int /\ a \in Int
        OBVIOUS
      <4>2. QED
        BY <4>1, FS_Interval
    <3>2. /\ IsFiniteSet(0..(L - 1))
          /\ Cardinality(0..(L - 1)) = IF 0 > L - 1 THEN 0 ELSE (L - 1) - 0 + 1
      <4>1. 0 \in Int /\ L - 1 \in Int
        OBVIOUS
      <4>2. QED
        BY <4>1, FS_Interval
    <3>3. QED
      BY <3>1, <3>2
  <2>2. Place \in [1..a -> 0..(L - 1)]
    BY <1>4
  <2> HIDE DEF Place
  <2>3. ASSUME L < a
        PROVE  FALSE
    <3>1. \E i, j \in 1..a : i # j /\ Place[i] = Place[j]
      <4>1. Cardinality(0..(L - 1)) < Cardinality(1..a)
        BY <2>1, <2>3
      <4>2. QED
        BY <2>1, <2>2, <4>1, FS_PigeonHole
    <3>2. PICK i \in 1..a, j \in 1..a : i # j /\ Place[i] = Place[j]
      BY <3>1
    <3>3. applied[i].id = applied[j].id
      BY <1>4, <3>2
    <3>4. QED
      BY <1>0, <1>1, <3>2, <3>3 DEF AppliedOnce
  <2>4. QED
    BY <2>3
<1>6. L <= Chunks
  <2>1. Chunks \in Nat \ {0}
    BY <1>0, ChunkFacts
  <2>2. IsFrozen(tx) => L = IF Refuses THEN 1 ELSE Chunks
    BY <1>0 DEF FrozenForm
  <2>3. ~ IsFrozen(tx) => L = 0
    BY <1>2 DEF IsFrozen
  <2>4. QED
    BY <2>1, <2>2, <2>3
<1>7. QED
  <2>1. Chunks \in Nat
    BY <1>0, ChunkFacts
  <2>2. QED
    BY <1>5, <1>6, <2>1

\* However often a chunk is sent and executeAll() is called, no chunk takes
\* effect twice: the IDs are kept, and the network takes an ID once. A message
\* that is signed on demand, which is sent whole, takes effect once for each of
\* its chunks at most. Not so if the transaction was frozen again in between.
THEOREM ChunksTakeEffectOnce == Spec => []ChunksAreAppliedOnce
<1>1. ASSUME IInv
      PROVE  ChunksAreAppliedOnce
  <2>1. TypeOK /\ ChunksKeepTheirIds /\ AppliedOnce
    BY <1>1 DEF IInv, ChunkInv
  <2>2. ASSUME "frozenAgain" \notin mishaps, ~ (kind = "message" /\ onDemand),
               NEW i \in DOMAIN applied, NEW j \in DOMAIN applied,
               applied[i].from = applied[j].from
        PROVE  i = j
    <3>1. IsChunk(applied[i]) /\ IsChunk(applied[j])
      BY <2>1, <2>2 DEF ChunksKeepTheirIds, Range
    <3>2. ChunkSize \in Nat \ {0} /\ tx.ids \in Seq(Nat)
      BY <2>1, ChunkFacts DEF TypeOK, TransactionFields
    <3> PICK L \in Nat : L = Len(tx.ids)
      BY <3>2
    <3>3. PICK c \in 0..(L - 1) : IsChunkAt(applied[i], c)
      BY <3>1 DEF IsChunk
    <3>4. PICK d \in 0..(L - 1) : IsChunkAt(applied[j], d)
      BY <3>1 DEF IsChunk
    <3>5. c * ChunkSize = d * ChunkSize
      <4>1. applied[i].from = Cut(c).from /\ applied[j].from = Cut(d).from
        BY <2>2, <3>3, <3>4 DEF IsChunkAt
      <4>2. Cut(c).from = c * ChunkSize /\ Cut(d).from = d * ChunkSize
        BY <2>1, CutFacts
      <4>3. QED
        BY <2>2, <4>1, <4>2
    <3>6. c = d
      BY <3>2, <3>5
    <3>7. applied[i].id = applied[j].id
      BY <3>3, <3>4, <3>6 DEF IsChunkAt
    <3>8. QED
      BY <2>1, <3>7 DEF AppliedOnce
  <2>3. QED
    BY <1>1, <2>2, NoMoreThanIds DEF ChunksAreAppliedOnce
<1>2. QED
  BY <1>1, Invariance, PTL

\* When executeAll() resolves, every chunk was accepted and has its response,
\* and of a file that was not frozen again every chunk was appended, also when
\* the call took up the list of IDs where an earlier one had left it.
THEOREM ResolvedCallsSubmitted == Spec => []ResolvedMeansSubmitted
<1>1. ASSUME IInv
      PROVE  ResolvedMeansSubmitted
  <2> SUFFICES ASSUME execution.at = "resolved"
               PROVE  /\ Range(execution.responses) = Range(tx.ids)
                      /\ Range(tx.ids) \subseteq IdsOf(taken)
                      /\ kind = "file" /\ "frozenAgain" \notin mishaps =>
                            \A c \in 0..(Chunks - 1) : \E b \in Range(applied) :
                                b.from = Cut(c).from /\ b.to = Cut(c).to
    BY DEF ResolvedMeansSubmitted
  <2>1. /\ TypeOK /\ IsFrozen(tx)
        /\ Range(execution.responses) = Answered
        /\ Range(execution.responses) \subseteq IdsOf(taken)
    BY <1>1, UnderWay
  <2>2. Left = 0
    BY DEF Left
  <2>3. Range(execution.responses) = Range(tx.ids)
    BY <2>1, <2>2, AnsweredBounds
  <2>4. ASSUME kind = "file", "frozenAgain" \notin mishaps, NEW c \in 0..(Chunks - 1)
        PROVE  \E b \in Range(applied) : b.from = Cut(c).from /\ b.to = Cut(c).to
    <3>1. FrozenForm /\ CallForm /\ ChunksKeepTheirIds /\ ~ Refuses
      BY <1>1, <2>4 DEF IInv, Refuses
    <3>2. Len(tx.ids) = Chunks /\ \A k \in DOMAIN tx.ids : tx.ids[k] = k
      BY <2>1, <2>4, <3>1 DEF FrozenForm, IdsAreNumbers
    <3>3. c + 1 \in DOMAIN tx.ids
      <4>1. Chunks \in Nat /\ DOMAIN tx.ids = 1..Chunks
        BY <2>1, <3>2, TxFacts, ChunkFacts
      <4>2. QED
        BY <4>1
    <3>4. c + 1 \in Range(execution.responses)
      BY <2>3, <3>2, <3>3 DEF Range
    <3>5. c + 1 \in IdsOf(Range(applied))
      BY <2>4, <3>1, <3>4 DEF CallForm
    <3>6. PICK b \in Range(applied) : b.id = c + 1
      BY <3>5 DEF IdsOf
    <3>7. IsChunk(b)
      BY <2>4, <3>1, <3>6 DEF ChunksKeepTheirIds
    <3>8. PICK d \in Nat : b.id = d + 1 /\ b.from = Cut(d).from /\ b.to = Cut(d).to
      BY <2>1, <2>4, <3>1, <3>7, ChunkPlace
    <3>9. c = d
      BY <3>6, <3>8
    <3>10. QED
      BY <3>8, <3>9
  <2>5. QED
    BY <2>1, <2>3, <2>4
<1>2. QED
  BY <1>1, Invariance, PTL
=============================================================================
