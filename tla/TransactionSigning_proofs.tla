---------------------- MODULE TransactionSigning_proofs ----------------------
(***************************************************************************)
(* Proofs about TransactionSigning: bodies hold the signatures of the      *)
(* recorded keys, a request is for its node, no key signs for another, and *)
(* what is given out names the nodes in their order. For every number of   *)
(* nodes and of keys whose signers answer in any order.                    *)
(***************************************************************************)
EXTENDS TransactionSigning, FiniteSetTheorems, TLAPS

-----------------------------------------------------------------------------
(* The inductive invariant *)

\* Each signature in a body is by its key, whatever is on the lists of keys
\* and signers.
Own(sigs) == \A s \in Signatures : s[1] # s[2] => sigs[s] = 0

\* Bodies are made for all nodes in their order, and only they are locked.
BodiesForm(t) ==
    /\ HasSigned(t) =>
          Len(t.signed) = N /\ \A i \in 1..N : t.signed[i].node = Nodes[i]
    /\ \A i \in DOMAIN t.signed : Own(t.signed[i].sigs)
    /\ {"transactions", "signed"} \cap t.locked # {} => HasSigned(t)

\* Who goes on after an await finds what it relies on.
ExecutionForm(t, ex) ==
    /\ ex.at \in {"idle", "turn", "signing", "making", "sent"}
    /\ ex.at # "idle" => IsFrozen(t)
    /\ ex.at = "signing" => ex = [at |-> "signing"]
    /\ ex.at = "making" =>
          /\ ex.made \in Making /\ ex.made.pair # <<>>
          /\ ex.node = Nodes[ex.made.node + 1]
    /\ ex.at = "sent" => ex.request \in Body

EncodingForm(t, en) ==
    /\ en.at \in {"idle", "making", "made"}
    /\ en.at = "made" => en \in [at : {"made"}, locks : BOOLEAN] /\ HasSigned(t)
    /\ en.at = "making" =>
          /\ en \in [at : {"making"}, made : Making, left : 1..N, locks : BOOLEAN]
          /\ HasSigned(t) /\ t.onDemand /\ "transactions" \notin t.locked

SigningForm(t, sg) ==
    /\ DOMAIN sg \subseteq Key
    /\ sg \in [DOMAIN sg -> [next : 1..N, current : BOOLEAN]]
    /\ \A k \in DOMAIN sg : sg[k].current => HasSigned(t)

\* A key that is not spoiled signs for a transaction that does not sign on
\* demand, and its signatures are there once each. With signing on demand the
\* keys that are not recorded have not signed either.
SignersForm(t, sg, sp) ==
    /\ \A k \in DOMAIN sg \ sp :
          ~ t.onDemand /\ k \in t.signerKeys /\ sg[k].current
    /\ \A i \in DOMAIN t.signed, k \in Key \ sp :
          /\ k \in t.signerKeys =>
                \/ t.onDemand
                \/ t.signed[i].sigs[<<k, k>>]
                      = IF k \in DOMAIN sg /\ i >= sg[k].next THEN 0 ELSE 1
          /\ k \notin t.signerKeys => t.signed[i].sigs[<<k, k>>] = 0

\* Bodies, and the body that is being signed, have the ID of the transaction.
IdsForm(t, ex, mi) ==
    /\ ex.at = "sent" => ex.request.node = ex.node
    /\ \/ {"frozen again", "stale bodies"} \cap mi # {}
       \/ /\ ~ t.onDemand => \A i \in DOMAIN t.signed : t.signed[i].id = t.id
          /\ ex.at = "making" => ex.made.id = t.id
          /\ ex.at = "sent" => ex.request.id = t.id

\* Keys and signers are in step, so that a pair that is read is a key's own.
InStep(t) ==
    /\ Len(t.publicKeys) = Len(t.signers)
    /\ \A j \in DOMAIN t.signers : t.signers[j] \in {NoSigner, t.publicKeys[j]}

PairsForm(t, ex, mi) ==
    \/ "wrong pair" \in mi
    \/ /\ InStep(t)
       /\ ex.at = "making" =>
             Own(ex.made.sigs) /\ ex.made.pair[1] = ex.made.pair[2]
       /\ ex.at = "sent" => Own(ex.request.sigs)

\* While entries are made, those before the turn are there, and all of them
\* when they are made.
Disorders == {"turned", "repeated", "added late", "frozen again"}

EntriesForm(t, en, gi, mi) ==
    \/ Disorders \cap mi # {}
    \/ /\ gi = Nodes
       /\ Len(t.built) <= N
       /\ t.onDemand /\ "transactions" \in t.locked => t.built = Nodes
       /\ en.at = "made" => t.built = Nodes
       /\ en.at = "making" =>
             /\ Len(t.built) = N - en.left
             /\ \A j \in DOMAIN t.built : t.built[j] = Nodes[j]
             /\ en.made.node = N - en.left
             /\ t.index = (en.made.node + 1) % N

KnownForm ==
    /\ signOnDemand \in BOOLEAN
    /\ given \in Seq(Range(Nodes) \cup {NoNode})
    /\ spoiled \subseteq Key /\ mishaps \subseteq Mishaps

\* A step is taken in parts, so that the parts are about values.
Forms(t, sg, sp, ex, en, gi, mi) ==
    /\ t \in TransactionFields /\ BodiesForm(t)
    /\ ExecutionForm(t, ex) /\ EncodingForm(t, en)
    /\ SigningForm(t, sg) /\ SignersForm(t, sg, sp)
    /\ IdsForm(t, ex, mi) /\ PairsForm(t, ex, mi)
    /\ EntriesForm(t, en, gi, mi)

IInv ==
    /\ calls \in 0..MaxCalls
    /\ KnownForm
    /\ Forms(tx, signing, spoiled, execution, encoding, given, mishaps)

-----------------------------------------------------------------------------
(* Constants *)

LEMMA NodeFacts ==
    /\ N \in Nat \ {0} /\ Nodes \in Seq(Range(Nodes))
    /\ Len(Nodes) = N /\ DOMAIN Nodes = 1..N
    /\ \A i \in 1..N : Nodes[i] \in Range(Nodes)
<1>1. Nodes \in Seq(Range(Nodes)) /\ Nodes # <<>>
  BY SigningAssumption DEF SigningAssumption
<1>2. N \in Nat \ {0} /\ DOMAIN Nodes = 1..N /\ Len(Nodes) = N
  BY <1>1 DEF N
<1>3. \A i \in 1..N : Nodes[i] \in Range(Nodes)
  BY <1>2 DEF Range
<1>4. QED
  BY <1>1, <1>2, <1>3

LEMMA ConstantFacts ==
    /\ MaxId \in Nat /\ MaxCalls \in Nat /\ Operator \in Key
    /\ NoSigner \notin Key /\ NoNode \notin Range(Nodes)
BY SigningAssumption DEF SigningAssumption

\* The turn stays in the list of nodes.
LEMMA TurnFacts ==
    ASSUME NEW i \in 0..(N - 1)
    PROVE  /\ i + 1 \in 1..N /\ (i + 1) % N \in 0..(N - 1)
           /\ i + 1 < N => (i + 1) % N = i + 1
<1> PICK n \in Nat \ {0} : n = N
  BY NodeFacts
<1>1. i \in 0..(n - 1)
  OBVIOUS
<1>2. i + 1 \in 1..n /\ (i + 1) % n \in 0..(n - 1)
  BY <1>1
<1>3. i + 1 < n => (i + 1) % n = i + 1
  BY <1>1
<1>4. QED
  BY <1>2, <1>3

-----------------------------------------------------------------------------
(* Positions of a set of numbers *)

\* A finite set of numbers has a j-th element: otherwise the ranks of its
\* elements were fewer than the elements.
LEMMA NthFacts ==
    ASSUME NEW S \in SUBSET Nat, IsFiniteSet(S), NEW j \in 1..Cardinality(S)
    PROVE  /\ Nth(S, j) \in S
           /\ Cardinality({x \in S : x <= Nth(S, j)}) = j
<1> PICK n \in Nat : n = Cardinality(S)
  BY FS_CardinalityType
<1> DEFINE below(i) == {x \in S : x <= i}
<1> DEFINE rank == [i \in S |-> Cardinality(below(i))]
<1>1. \A i \in S : below(i) \subseteq S
  OBVIOUS
<1>2. ASSUME NEW i \in S
      PROVE  rank[i] \in 1..n
  <2>1. IsFiniteSet(below(i)) /\ Cardinality(below(i)) <= n
    BY <1>1, FS_Subset
  <2>2. Cardinality(below(i)) \in Nat
    BY <2>1, FS_CardinalityType
  <2>3. i <= i /\ i \in below(i)
    OBVIOUS
  <2>4. Cardinality(below(i)) # 0
    BY <2>1, <2>3, FS_EmptySet
  <2>5. QED
    BY <2>1, <2>2, <2>4
<1>3. ASSUME NEW i \in S, NEW l \in S, i < l
      PROVE  rank[i] # rank[l]
  <2>1. IsFiniteSet(below(l))
    BY <1>1, FS_Subset
  <2>2. \A x \in S : x <= i => x <= l
    BY <1>3
  <2>3. below(i) \in SUBSET below(l)
    BY <2>2
  <2>4. l \in below(l) /\ l \notin below(i)
    BY <1>3
  <2>5. Cardinality(below(l)) # Cardinality(below(i))
    BY <2>1, <2>3, <2>4, FS_Subset
  <2>6. QED
    BY <2>5
<1>4. \E i \in S : rank[i] = j
  <2> SUFFICES ASSUME \A i \in S : rank[i] # j
               PROVE  FALSE
    OBVIOUS
  <2> DEFINE T == (1..n) \ {j}
  <2>1. rank \in [S -> T]
    BY <1>2
  <2>2. IsFiniteSet(1..n) /\ Cardinality(1..n) = n
    BY FS_Interval
  <2>3. IsFiniteSet(T) /\ Cardinality(T) = n - 1
    BY <2>2, FS_RemoveElement
  <2>4. Cardinality(T) < Cardinality(S)
    BY <2>3
  <2> HIDE DEF T, rank
  <2>5. \E i, l \in S : i # l /\ rank[i] = rank[l]
    BY <2>1, <2>3, <2>4, FS_PigeonHole
  <2>6. PICK i \in S, l \in S : i # l /\ rank[i] = rank[l]
    BY <2>5
  <2>7. i < l \/ l < i
    BY <2>6
  <2>8. QED
    BY <1>3, <2>6, <2>7
<1>5. \E i \in S : Cardinality({x \in S : x <= i}) = j
  BY <1>4
<1>6. QED
  BY <1>5 DEF Nth

LEMMA MinFacts ==
    ASSUME NEW S \in SUBSET Nat, IsFiniteSet(S), S # {}
    PROVE  Min(S) \in S /\ \A y \in S : Min(S) <= y
<1>1. 1 \in 1..Cardinality(S)
  BY FS_CardinalityType, FS_EmptySet
<1> PICK i \in S : Cardinality({x \in S : x <= i}) = 1
  BY <1>1, NthFacts
<1>2. {x \in S : x <= i} \in SUBSET S /\ i \in {x \in S : x <= i}
  OBVIOUS
<1>3. IsFiniteSet({x \in S : x <= i})
  BY <1>2, FS_Subset
<1>4. PICK x : {y \in S : y <= i} = {x}
  BY <1>3, FS_Singleton
<1>5. \A y \in S : i <= y
  BY <1>2, <1>4
<1>6. QED
  BY <1>5 DEF Min

-----------------------------------------------------------------------------
(* The lists of keys and signers *)

LEMMA WithoutType ==
    ASSUME NEW keys \in Seq(Key), NEW k
    PROVE  Without(keys, k) \in Seq(Key)
<1> DEFINE K == {i \in DOMAIN keys : keys[i] # k}
<1>1. K \in SUBSET (1..Len(keys)) /\ K \in SUBSET Nat
  OBVIOUS
<1>2. Without(keys, k) = [j \in 1..Cardinality(K) |-> keys[Nth(K, j)]]
  BY DEF Without
<1> PICK kept : kept = K
  OBVIOUS
<1> HIDE DEF K
<1>3. IsFiniteSet(kept)
  <2> PICK l \in Int : l = Len(keys)
    OBVIOUS
  <2>1. IsFiniteSet(1..l) /\ kept \in SUBSET (1..l)
    BY <1>1, FS_Interval
  <2>2. QED
    BY <2>1, FS_Subset
<1>4. PICK n \in Nat : n = Cardinality(kept)
  BY <1>3, FS_CardinalityType
<1>5. \A j \in 1..n : Nth(kept, j) \in 1..Len(keys)
  BY <1>1, <1>3, <1>4, NthFacts
<1>6. \A j \in 1..n : keys[Nth(kept, j)] \in Key
  BY <1>5
<1>7. QED
  BY <1>2, <1>4, <1>6

\* A key that is only the last one is taken off the end.
LEMMA WithoutLast ==
    ASSUME NEW keys \in Seq(Key), NEW k, Len(keys) > 0,
           \A i \in DOMAIN keys : keys[i] = k <=> i = Len(keys)
    PROVE  /\ Len(Without(keys, k)) = Len(keys) - 1
           /\ \A j \in 1..(Len(keys) - 1) : Without(keys, k)[j] = keys[j]
<1> PICK n \in Nat : n = Len(keys) /\ DOMAIN keys = 1..n
  OBVIOUS
<1> DEFINE K == {i \in DOMAIN keys : keys[i] # k}
<1>1. K = 1..(n - 1)
  OBVIOUS
<1>2. Without(keys, k) = [j \in 1..Cardinality(K) |-> keys[Nth(K, j)]]
  BY DEF Without
<1> PICK kept : kept = 1..(n - 1)
  OBVIOUS
<1>3. Without(keys, k) = [j \in 1..Cardinality(kept) |-> keys[Nth(kept, j)]]
  BY <1>1, <1>2
<1> HIDE DEF K
<1>4. n - 1 \in Nat /\ kept \in SUBSET Nat
  OBVIOUS
<1>5. IsFiniteSet(kept) /\ Cardinality(kept) = n - 1
  <2>1. 1 \in Int /\ n - 1 \in Int
    BY <1>4
  <2>2. /\ IsFiniteSet(1..(n - 1))
        /\ Cardinality(1..(n - 1)) = IF 1 > n - 1 THEN 0 ELSE (n - 1) - 1 + 1
    BY <2>1, FS_Interval
  <2>3. QED
    BY <1>4, <2>2
<1>6. ASSUME NEW j \in 1..(n - 1)
      PROVE  Nth(kept, j) = j
  <2>1. Nth(kept, j) \in kept /\ Cardinality({x \in kept : x <= Nth(kept, j)}) = j
    BY <1>4, <1>5, NthFacts
  <2> PICK i \in 1..(n - 1) : i = Nth(kept, j)
    BY <2>1
  <2>2. {x \in 1..(n - 1) : x <= i} = 1..i
    OBVIOUS
  <2>3. Cardinality(1..i) = i
    BY FS_Interval
  <2>4. QED
    BY <2>1, <2>2, <2>3
<1>7. Without(keys, k) \in Seq(Key)
  BY WithoutType
<1>8. Without(keys, k) = [j \in 1..(n - 1) |-> keys[j]]
  BY <1>3, <1>5, <1>6
<1>9. QED
  BY <1>4, <1>7, <1>8

LEMMA WithoutEmpty ==
    ASSUME NEW keys \in Seq(Key), NEW k, Len(keys) = 0
    PROVE  Len(Without(keys, k)) = 0
<1> DEFINE kept == {i \in DOMAIN keys : keys[i] # k}
<1>1. kept = {}
  OBVIOUS
<1>2. Cardinality(kept) = 0
  BY <1>1, FS_EmptySet
<1>3. Without(keys, k) = [j \in 1..0 |-> keys[Nth(kept, j)]]
  BY <1>2 DEF Without
<1>4. Without(keys, k) \in Seq(Key)
  BY WithoutType
<1>5. QED
  BY <1>3, <1>4

-----------------------------------------------------------------------------
(* Transactions *)

LEMMA NoSignaturesFacts ==
    /\ NoSignatures \in SignatureMaps /\ Own(NoSignatures)
    /\ \A k \in Key : NoSignatures[<<k, k>>] = 0
BY DEF NoSignatures, SignatureMaps, Signatures, Own

LEMMA AddedFacts ==
    ASSUME NEW sigs \in SignatureMaps, NEW k \in Key, NEW l \in Key
    PROVE  /\ Added(sigs, <<k, l>>) \in SignatureMaps
           /\ Added(sigs, <<k, l>>)[<<k, l>>] = sigs[<<k, l>>] + 1
           /\ \A s \in Signatures \ {<<k, l>>} : Added(sigs, <<k, l>>)[s] = sigs[s]
           /\ Own(sigs) /\ k = l => Own(Added(sigs, <<k, l>>))
<1>1. <<k, l>> \in Signatures
  BY DEF Signatures
<1> PICK p \in Signatures : p = <<k, l>>
  BY <1>1
<1>2. sigs \in [Signatures -> Nat] /\ sigs[p] + 1 \in Nat
  BY DEF SignatureMaps
<1>3. /\ Added(sigs, p) \in SignatureMaps /\ Added(sigs, p)[p] = sigs[p] + 1
      /\ \A s \in Signatures \ {p} : Added(sigs, p)[s] = sigs[s]
  BY <1>2 DEF Added, SignatureMaps
<1>4. p[1] = k /\ p[2] = l
  OBVIOUS
<1>5. Own(sigs) /\ k = l => Own(Added(sigs, p))
  BY <1>3, <1>4 DEF Own
<1>6. QED
  BY <1>3, <1>5

LEMMA BodiesFacts ==
    ASSUME NEW id \in 0..MaxId
    PROVE  /\ Bodies(id) \in Seq(Body) /\ Bodies(id) # <<>>
           /\ Len(Bodies(id)) = N /\ DOMAIN Bodies(id) = 1..N
           /\ \A i \in 1..N :
                 /\ Bodies(id)[i].node = Nodes[i] /\ Bodies(id)[i].id = id
                 /\ Own(Bodies(id)[i].sigs)
                 /\ \A k \in Key : Bodies(id)[i].sigs[<<k, k>>] = 0
<1> PICK n \in Nat \ {0} : n = N
  BY NodeFacts
<1> PICK none : none = NoSignatures
  OBVIOUS
<1>1. /\ none \in SignatureMaps /\ Own(none)
      /\ \A k \in Key : none[<<k, k>>] = 0
  BY NoSignaturesFacts
<1>2. \A i \in 1..n : [node |-> Nodes[i], id |-> id, sigs |-> none] \in Body
  BY <1>1, NodeFacts DEF Body
<1>3. Bodies(id) = [i \in 1..n |-> [node |-> Nodes[i], id |-> id, sigs |-> none]]
  BY DEF Bodies
<1>4. Bodies(id) \in Seq(Body)
  BY <1>2, <1>3
<1>5. DOMAIN Bodies(id) = 1..n /\ Len(Bodies(id)) = n /\ Bodies(id) # <<>>
  BY <1>3, <1>4
<1>6. \A i \in 1..n :
          Bodies(id)[i].node = Nodes[i] /\ Bodies(id)[i].id = id /\ Bodies(id)[i].sigs = none
  BY <1>3
<1>7. QED
  BY <1>1, <1>4, <1>5, <1>6

LEMMA NewIdFacts ==
    ASSUME NEW t \in TransactionFields, t.id < MaxId \/ "ids" \in t.locked
    PROVE  /\ NewIdList(t) \in TransactionFields
           /\ NewIdList(t).onDemand = t.onDemand
           /\ NewIdList(t).locked = t.locked /\ NewIdList(t).index = t.index
           /\ NewIdList(t).signed = t.signed /\ NewIdList(t).built = t.built
           /\ NewIdList(t).signerKeys = t.signerKeys
           /\ NewIdList(t).publicKeys = t.publicKeys
           /\ NewIdList(t).signers = t.signers
<1>1. CASE "ids" \in t.locked \/ ~ t.account
  BY <1>1 DEF NewIdList
<1>2. CASE ~ ("ids" \in t.locked \/ ~ t.account)
  <2>1. t.id \in 0..MaxId /\ t.id < MaxId
    BY <1>2 DEF TransactionFields
  <2> PICK id \in 0..MaxId : id = t.id + 1
    BY <2>1, ConstantFacts
  <2>2. NewIdList(t) = [t EXCEPT !.id = id]
    BY <1>2 DEF NewIdList
  <2>3. QED
    BY <2>2 DEF TransactionFields
<1>3. QED
  BY <1>1, <1>2

LEMMA FrozenFacts ==
    ASSUME NEW t \in TransactionFields, NEW onDemand \in BOOLEAN,
           NEW withClient \in BOOLEAN, CanFreeze(t, withClient),
           NEW u, u = Frozen(t, onDemand, withClient)
    PROVE  /\ u \in TransactionFields
           /\ u.onDemand = onDemand
           /\ u.locked = t.locked /\ u.index = t.index /\ u.built = t.built
           /\ u.signerKeys = t.signerKeys
           /\ u.publicKeys = t.publicKeys /\ u.signers = t.signers
           /\ u.signed = IF onDemand \/ "signed" \in t.locked
                         THEN t.signed ELSE Bodies(u.id)
<1> PICK account \in BOOLEAN : account = (t.account \/ withClient)
  OBVIOUS
<1> PICK b : b = [t EXCEPT !.onDemand = onDemand, !.account = account]
  OBVIOUS
<1>1. b \in TransactionFields
  BY DEF TransactionFields
<1>2. /\ b.onDemand = onDemand /\ b.id = t.id
      /\ b.locked = t.locked /\ b.index = t.index /\ b.signed = t.signed
      /\ b.built = t.built /\ b.signerKeys = t.signerKeys
      /\ b.publicKeys = t.publicKeys /\ b.signers = t.signers
  BY DEF TransactionFields
<1>3. b.id < MaxId \/ "ids" \in b.locked
  BY <1>2 DEF CanFreeze
<1> PICK next : next = NewIdList(b)
  OBVIOUS
<1>4. /\ next \in TransactionFields /\ next.onDemand = onDemand
      /\ next.locked = t.locked /\ next.index = t.index
      /\ next.signed = t.signed /\ next.built = t.built
      /\ next.signerKeys = t.signerKeys
      /\ next.publicKeys = t.publicKeys /\ next.signers = t.signers
  BY <1>1, <1>2, <1>3, NewIdFacts
<1>5. [t EXCEPT !.onDemand = onDemand, !.account = @ \/ withClient] = b
  BY DEF TransactionFields
<1>6. u = IF onDemand \/ "signed" \in next.locked THEN next
          ELSE [next EXCEPT !.signed = Bodies(next.id)]
  BY <1>5 DEF Frozen, BuildSigned
<1>7. next.id \in 0..MaxId
  BY <1>4 DEF TransactionFields
<1> PICK bodies \in Seq(Body) : bodies = Bodies(next.id)
  BY <1>7, BodiesFacts
<1>8. CASE onDemand \/ "signed" \in next.locked
  BY <1>4, <1>6, <1>8
<1>9. CASE ~ (onDemand \/ "signed" \in next.locked)
  <2>1. u = [next EXCEPT !.signed = bodies]
    BY <1>6, <1>9
  <2>2. u \in TransactionFields
    BY <1>4, <2>1 DEF TransactionFields
  <2>3. /\ u.onDemand = onDemand /\ u.locked = t.locked /\ u.index = t.index
        /\ u.signed = bodies /\ u.id = next.id /\ u.built = t.built
        /\ u.signerKeys = t.signerKeys
        /\ u.publicKeys = t.publicKeys /\ u.signers = t.signers
    BY <1>4, <2>1 DEF TransactionFields
  <2>4. QED
    BY <1>4, <1>9, <2>2, <2>3
<1>10. QED
  BY <1>8, <1>9

\* What is flagged stays flagged.
LEMMA MoreFlags ==
    ASSUME NEW t, NEW sg, NEW sp, NEW ex, NEW en, NEW gi, NEW mi,
           Forms(t, sg, sp, ex, en, gi, mi),
           NEW sp2, NEW mi2, sp \subseteq sp2, mi \subseteq mi2
    PROVE  Forms(t, sg, sp2, ex, en, gi, mi2)
<1>0. SignersForm(t, sg, sp) /\ IdsForm(t, ex, mi) /\ PairsForm(t, ex, mi) /\ EntriesForm(t, en, gi, mi)
  BY DEF Forms
<1>1. SignersForm(t, sg, sp2)
  BY <1>0 DEF SignersForm
<1>2. IdsForm(t, ex, mi2)
  BY <1>0 DEF IdsForm
<1>3. PairsForm(t, ex, mi2)
  BY <1>0 DEF PairsForm
<1>4. EntriesForm(t, en, gi, mi2)
  BY <1>0 DEF EntriesForm
<1>5. QED
  BY <1>1, <1>2, <1>3, <1>4 DEF Forms

\* An ID that changes, and bodies that are made again, are flagged.
FreezingIsFlagged(u, ex, mi) ==
    \/ "frozen again" \in mi
    \/ tx.signed = <<>> /\ (u.id = tx.id \/ ex.at = "idle")

\* Frozen, whether for the first time or once more: the forms stay, since who
\* has signed before is spoiled.
LEMMA FreezingKeeps ==
    ASSUME NEW ex, NEW en, NEW gi, NEW sp, NEW mi,
           Forms(tx, signing, sp, ex, en, gi, mi), en.at \notin {"making", "made"},
           NEW onDemand \in BOOLEAN, NEW withClient \in BOOLEAN,
           CanFreeze(tx, withClient),
           NEW u, u = Frozen(tx, onDemand, withClient),
           NEW sg, sg = Detached(Replaces(tx, onDemand)),
           Unreliable(tx, u, Replaces(tx, onDemand)) \subseteq sp,
           FreezingIsFlagged(u, ex, mi)
    PROVE  Forms(u, sg, sp, ex, en, gi, mi) /\ IsFrozen(u)
<1>0. /\ tx \in TransactionFields /\ BodiesForm(tx)
      /\ ExecutionForm(tx, ex) /\ EncodingForm(tx, en)
      /\ SigningForm(tx, signing) /\ SignersForm(tx, signing, sp)
      /\ IdsForm(tx, ex, mi) /\ PairsForm(tx, ex, mi)
      /\ EntriesForm(tx, en, gi, mi)
  BY DEF Forms
<1>1. /\ u \in TransactionFields
      /\ u.onDemand = onDemand
      /\ u.locked = tx.locked /\ u.index = tx.index /\ u.built = tx.built
      /\ u.signerKeys = tx.signerKeys
      /\ u.publicKeys = tx.publicKeys /\ u.signers = tx.signers
      /\ u.signed = IF onDemand \/ "signed" \in tx.locked
                    THEN tx.signed ELSE Bodies(u.id)
  BY <1>0, FrozenFacts
<1> PICK bodies : bodies = Bodies(u.id)
  OBVIOUS
<1>2. /\ bodies # <<>> /\ Len(bodies) = N /\ DOMAIN bodies = 1..N
      /\ \A i \in 1..N :
            /\ bodies[i].node = Nodes[i] /\ bodies[i].id = u.id
            /\ Own(bodies[i].sigs)
            /\ \A k \in Key : bodies[i].sigs[<<k, k>>] = 0
  <2>1. u.id \in 0..MaxId
    BY <1>1 DEF TransactionFields
  <2>2. QED
    BY <2>1, BodiesFacts
<1>3. u.signed = tx.signed \/ u.signed = bodies
  BY <1>1
<1>4. HasSigned(tx) => HasSigned(u)
  BY <1>2, <1>3 DEF HasSigned
<1>5. IsFrozen(u)
  <2>1. "signed" \in tx.locked => HasSigned(tx)
    BY <1>0 DEF BodiesForm
  <2>2. onDemand \/ HasSigned(u)
    BY <1>1, <1>2, <1>4, <2>1 DEF HasSigned
  <2>3. QED
    BY <1>1, <2>2 DEF IsFrozen
<1>6. BodiesForm(u)
  <2>1. HasSigned(u) =>
            Len(u.signed) = N /\ \A i \in 1..N : u.signed[i].node = Nodes[i]
    BY <1>0, <1>2, <1>3 DEF BodiesForm, HasSigned
  <2>2. \A i \in DOMAIN u.signed : Own(u.signed[i].sigs)
    BY <1>0, <1>2, <1>3 DEF BodiesForm
  <2>3. {"transactions", "signed"} \cap u.locked # {} => HasSigned(u)
    BY <1>0, <1>1, <1>4 DEF BodiesForm
  <2>4. QED
    BY <2>1, <2>2, <2>3 DEF BodiesForm
<1>7. ExecutionForm(u, ex)
  BY <1>0, <1>5 DEF ExecutionForm
<1>8. EncodingForm(u, en)
  BY <1>0 DEF EncodingForm
<1>9. /\ DOMAIN sg = DOMAIN signing
      /\ ~ Replaces(tx, onDemand) => sg = signing
      /\ sg \in [DOMAIN sg -> [next : 1..N, current : BOOLEAN]]
      /\ Replaces(tx, onDemand) => \A k \in DOMAIN sg : ~ sg[k].current
  <2>1. CASE ~ Replaces(tx, onDemand)
    BY <1>0, <2>1 DEF Detached, SigningForm
  <2>2. CASE Replaces(tx, onDemand)
    <3>1. sg = [k \in DOMAIN signing |-> [signing[k] EXCEPT !.current = FALSE]]
      BY <2>2 DEF Detached
    <3>2. \A k \in DOMAIN signing : signing[k] \in [next : 1..N, current : BOOLEAN]
      BY <1>0 DEF SigningForm
    <3>3. \A k \in DOMAIN signing :
              /\ [signing[k] EXCEPT !.current = FALSE] \in [next : 1..N, current : BOOLEAN]
              /\ ~ [signing[k] EXCEPT !.current = FALSE].current
      BY <3>2
    <3>4. QED
      BY <2>2, <3>1, <3>3 DEF Replaces
  <2>3. QED
    BY <2>1, <2>2
<1>10. SigningForm(u, sg)
  BY <1>0, <1>4, <1>9 DEF SigningForm
<1>11. SignersForm(u, sg, sp)
  <2>1. \/ ~ Replaces(tx, onDemand) /\ u.onDemand = tx.onDemand
        \/ tx.signerKeys \subseteq sp
    BY DEF Unreliable
  <2>2. CASE ~ Replaces(tx, onDemand) /\ u.onDemand = tx.onDemand
    <3>1. /\ sg = signing /\ u.signerKeys = tx.signerKeys
          /\ u.signed = tx.signed
      BY <1>1, <1>9, <2>2 DEF Replaces
    <3>2. QED
      BY <1>0, <2>2, <3>1 DEF SignersForm
  <2>3. CASE tx.signerKeys \subseteq sp
    <3>1. DOMAIN sg \subseteq sp
      BY <1>0, <1>9, <2>3 DEF SignersForm
    <3>2. \A i \in DOMAIN tx.signed, k \in Key \ sp :
              tx.signed[i].sigs[<<k, k>>] = 0
      BY <1>0, <2>3 DEF SignersForm
    <3>3. \A i \in DOMAIN u.signed, k \in Key \ sp :
              u.signed[i].sigs[<<k, k>>] = 0
      <4>1. CASE u.signed = tx.signed
        BY <3>2, <4>1
      <4>2. CASE u.signed = bodies
        <5>1. DOMAIN u.signed = 1..N
          BY <1>2, <4>2
        <5>2. ASSUME NEW i \in 1..N, NEW k \in Key
              PROVE  u.signed[i].sigs[<<k, k>>] = 0
          BY <1>2, <4>2
        <5>3. QED
          BY <5>1, <5>2
      <4>3. QED
        BY <1>3, <4>1, <4>2
    <3>4. \A k \in Key \ sp : k \notin u.signerKeys
      BY <1>1, <2>3
    <3>5. DOMAIN sg \ sp = {}
      BY <3>1
    <3>6. QED
      BY <3>3, <3>4, <3>5 DEF SignersForm
  <2>4. QED
    BY <2>1, <2>2, <2>3
<1>12. IdsForm(u, ex, mi)
  <2>1. ex.at = "sent" => ex.request.node = ex.node
    BY <1>0 DEF IdsForm
  <2>2. CASE {"frozen again", "stale bodies"} \cap mi # {}
    BY <2>1, <2>2 DEF IdsForm
  <2>3. CASE ~ ({"frozen again", "stale bodies"} \cap mi # {})
    <3>1. tx.signed = <<>> /\ (u.id = tx.id \/ ex.at = "idle")
      BY <2>3 DEF FreezingIsFlagged
    <3>2. "signed" \notin tx.locked
      BY <1>0, <3>1 DEF BodiesForm, HasSigned
    <3>3. ~ u.onDemand => \A i \in DOMAIN u.signed : u.signed[i].id = u.id
      BY <1>1, <1>2, <3>2
    <3>4. /\ ex.at = "making" => ex.made.id = u.id
          /\ ex.at = "sent" => ex.request.id = u.id
      BY <1>0, <2>3, <3>1 DEF IdsForm
    <3>5. QED
      BY <2>1, <3>3, <3>4 DEF IdsForm
  <2>4. QED
    BY <2>2, <2>3
<1>13. PairsForm(u, ex, mi)
  BY <1>0, <1>1 DEF PairsForm, InStep
<1>14. EntriesForm(u, en, gi, mi)
  <2>1. CASE "frozen again" \in mi
    BY <2>1 DEF EntriesForm, Disorders
  <2>2. CASE tx.signed = <<>>
    <3>1. "transactions" \notin u.locked
      BY <1>0, <1>1, <2>2 DEF BodiesForm, HasSigned
    <3>2. QED
      BY <1>0, <1>1, <3>1 DEF EntriesForm
  <2>3. QED
    BY <2>1, <2>2 DEF FreezingIsFlagged
<1>15. QED
  BY <1>1, <1>5, <1>6, <1>7, <1>8, <1>10, <1>11, <1>12, <1>13, <1>14 DEF Forms

-----------------------------------------------------------------------------
(* What signing changes in a transaction *)

LEMMA RecordedFacts ==
    ASSUME NEW t \in TransactionFields, NEW k \in Key
    PROVE  /\ Recorded(t, k) \in TransactionFields
           /\ Recorded(t, k).built = <<>>
           /\ Recorded(t, k).signerKeys = t.signerKeys \cup {k}
           /\ Recorded(t, k).onDemand = t.onDemand
           /\ Recorded(t, k).locked = t.locked
           /\ Recorded(t, k).id = t.id /\ Recorded(t, k).index = t.index
           /\ Recorded(t, k).signed = t.signed
           /\ Recorded(t, k).publicKeys = t.publicKeys
           /\ Recorded(t, k).signers = t.signers
<1>1. <<>> \in Seq(Range(Nodes) \cup {NoNode})
  OBVIOUS
<1>2. QED
  BY <1>1 DEF Recorded, TransactionFields

LEMMA PairedFacts ==
    ASSUME NEW t \in TransactionFields, NEW k \in Key, NEW s \in Key \cup {NoSigner}
    PROVE  /\ Paired(t, k, s) \in TransactionFields
           /\ Paired(t, k, s).publicKeys = Append(t.publicKeys, k)
           /\ Paired(t, k, s).signers = Append(t.signers, s)
           /\ Paired(t, k, s).onDemand = t.onDemand
           /\ Paired(t, k, s).locked = t.locked
           /\ Paired(t, k, s).id = t.id /\ Paired(t, k, s).index = t.index
           /\ Paired(t, k, s).signed = t.signed
           /\ Paired(t, k, s).built = t.built
           /\ Paired(t, k, s).signerKeys = t.signerKeys
<1> PICK keys \in Seq(Key), signers \in Seq(Key \cup {NoSigner}) :
       keys = t.publicKeys /\ signers = t.signers
  BY DEF TransactionFields
<1>1. Append(keys, k) \in Seq(Key) /\ Append(signers, s) \in Seq(Key \cup {NoSigner})
  OBVIOUS
<1>2. Paired(t, k, s) = [t EXCEPT !.publicKeys = Append(keys, k),
                                  !.signers = Append(signers, s)]
  BY DEF Paired
<1>3. QED
  BY <1>1, <1>2 DEF TransactionFields

\* One more pair, of a key and its own signer or none.
LEMMA PairedInStep ==
    ASSUME NEW t \in TransactionFields, InStep(t),
           NEW u, NEW k \in Key, NEW s \in {NoSigner, k},
           u.publicKeys = Append(t.publicKeys, k),
           u.signers = Append(t.signers, s)
    PROVE  InStep(u)
<1> PICK keys \in Seq(Key), signers \in Seq(Key \cup {NoSigner}) :
       keys = t.publicKeys /\ signers = t.signers
  BY DEF TransactionFields
<1> PICK n \in Nat : n = Len(signers)
  OBVIOUS
<1>1. /\ Len(keys) = n
      /\ \A j \in 1..n : signers[j] \in {NoSigner, keys[j]}
  BY DEF InStep
<1>2. /\ Len(Append(keys, k)) = n + 1 /\ Len(Append(signers, s)) = n + 1
      /\ DOMAIN Append(signers, s) = 1..(n + 1)
      /\ \A j \in 1..n : Append(keys, k)[j] = keys[j] /\ Append(signers, s)[j] = signers[j]
      /\ Append(keys, k)[n + 1] = k /\ Append(signers, s)[n + 1] = s
  BY <1>1
<1>3. \A j \in 1..(n + 1) : j \in 1..n \/ j = n + 1
  OBVIOUS
<1>4. \A j \in DOMAIN u.signers : u.signers[j] \in {NoSigner, u.publicKeys[j]}
  BY <1>1, <1>2, <1>3
<1>5. QED
  BY <1>2, <1>4 DEF InStep

\* Bodies are replaced, one for one.
LEMMA ReplacedFacts ==
    ASSUME NEW bodies \in Seq(Body), NEW new \in [DOMAIN bodies -> Body]
    PROVE  /\ new \in Seq(Body) /\ DOMAIN new = DOMAIN bodies
           /\ Len(new) = Len(bodies) /\ (new = <<>> <=> bodies = <<>>)
<1> PICK n \in Nat : n = Len(bodies) /\ DOMAIN bodies = 1..n
  OBVIOUS
<1>1. new \in Seq(Body) /\ DOMAIN new = 1..n /\ Len(new) = n
  OBVIOUS
<1>2. QED
  BY <1>1

LEMMA ResignedFacts ==
    ASSUME NEW b \in Body, NEW m \in SignatureMaps
    PROVE  /\ [b EXCEPT !.sigs = m] \in Body
           /\ [b EXCEPT !.sigs = m].node = b.node
           /\ [b EXCEPT !.sigs = m].id = b.id /\ [b EXCEPT !.sigs = m].sigs = m
BY DEF Body

LEMMA SignedByFacts ==
    ASSUME NEW b \in Body, NEW k \in Key
    PROVE  /\ SignedBy(b, k) \in Body
           /\ SignedBy(b, k).node = b.node /\ SignedBy(b, k).id = b.id
           /\ SignedBy(b, k).sigs = Added(b.sigs, <<k, k>>)
<1>1. b.sigs \in SignatureMaps
  BY DEF Body
<1> PICK m \in SignatureMaps : m = Added(b.sigs, <<k, k>>)
  BY <1>1, AddedFacts
<1>2. SignedBy(b, k) = [b EXCEPT !.sigs = m]
  BY DEF SignedBy
<1>3. QED
  BY <1>2, ResignedFacts

LEMMA UnsignedByFacts ==
    ASSUME NEW b \in Body, NEW k \in Key
    PROVE  /\ UnsignedBy(b, k) \in Body
           /\ UnsignedBy(b, k).node = b.node /\ UnsignedBy(b, k).id = b.id
           /\ \A s \in Signatures :
                 UnsignedBy(b, k).sigs[s] = IF s[1] = k THEN 0 ELSE b.sigs[s]
<1> PICK m : m = [s \in Signatures |-> IF s[1] = k THEN 0 ELSE b.sigs[s]]
  OBVIOUS
<1>1. b.sigs \in [Signatures -> Nat]
  BY DEF Body, SignatureMaps
<1>2. m \in SignatureMaps
  BY <1>1 DEF SignatureMaps
<1>3. UnsignedBy(b, k) = [b EXCEPT !.sigs = m]
  BY DEF UnsignedBy
<1>4. QED
  BY <1>2, <1>3, ResignedFacts

LEMMA AttachedFacts ==
    ASSUME NEW t \in TransactionFields, NEW n \in 0..N, NEW k \in Key,
           NEW u, u = Attached(t, n, k)
    PROVE  /\ u \in TransactionFields
           /\ u.built = <<>> /\ u.locked = t.locked \cup {"ids", "signed"}
           /\ u.onDemand = t.onDemand /\ u.id = t.id /\ u.index = t.index
           /\ u.signerKeys = t.signerKeys
           /\ u.publicKeys = t.publicKeys /\ u.signers = t.signers
           /\ Len(u.signed) = Len(t.signed) /\ DOMAIN u.signed = DOMAIN t.signed
           /\ u.signed = <<>> <=> t.signed = <<>>
           /\ \A i \in DOMAIN t.signed :
                 /\ u.signed[i].node = t.signed[i].node
                 /\ u.signed[i].id = t.signed[i].id
                 /\ i > n => u.signed[i].sigs = t.signed[i].sigs
                 /\ ~ i > n =>
                       u.signed[i].sigs = Added(t.signed[i].sigs, <<k, k>>)
<1> PICK bodies \in Seq(Body) : bodies = t.signed
  BY DEF TransactionFields
<1> PICK new : new = [i \in DOMAIN bodies |->
                        IF i > n THEN bodies[i] ELSE SignedBy(bodies[i], k)]
  OBVIOUS
<1>1. ASSUME NEW i \in DOMAIN bodies
      PROVE  /\ new[i] \in Body
             /\ new[i].node = bodies[i].node /\ new[i].id = bodies[i].id
             /\ i > n => new[i].sigs = bodies[i].sigs
             /\ ~ i > n => new[i].sigs = Added(bodies[i].sigs, <<k, k>>)
  <2>1. bodies[i] \in Body
    OBVIOUS
  <2>2. new[i] = IF i > n THEN bodies[i] ELSE SignedBy(bodies[i], k)
    OBVIOUS
  <2>3. QED
    BY <2>1, <2>2, SignedByFacts
<1>2. new \in [DOMAIN bodies -> Body]
  BY <1>1
<1>3. /\ new \in Seq(Body) /\ DOMAIN new = DOMAIN bodies
      /\ Len(new) = Len(bodies) /\ (new = <<>> <=> bodies = <<>>)
  BY <1>2, ReplacedFacts
<1>4. u = [t EXCEPT !.built = <<>>, !.locked = t.locked \cup {"ids", "signed"},
                    !.signed = new]
  BY DEF Attached
<1>5. t.locked \cup {"ids", "signed"} \in SUBSET {"ids", "transactions", "signed"}
  BY DEF TransactionFields
<1>6. <<>> \in Seq(Range(Nodes) \cup {NoNode})
  OBVIOUS
<1>7. /\ u \in TransactionFields
      /\ u.built = <<>> /\ u.locked = t.locked \cup {"ids", "signed"}
      /\ u.onDemand = t.onDemand /\ u.id = t.id /\ u.index = t.index
      /\ u.signerKeys = t.signerKeys /\ u.signed = new
      /\ u.publicKeys = t.publicKeys /\ u.signers = t.signers
  BY <1>3, <1>4, <1>5, <1>6 DEF TransactionFields
<1>8. QED
  BY <1>1, <1>3, <1>7

LEMMA RemovedFacts ==
    ASSUME NEW t \in TransactionFields, NEW k \in Key, NEW u, u = Removed(t, k)
    PROVE  /\ u \in TransactionFields
           /\ u.built = t.built /\ u.locked = t.locked
           /\ u.onDemand = t.onDemand /\ u.id = t.id /\ u.index = t.index
           /\ u.signerKeys = t.signerKeys \ {k}
           /\ u.publicKeys = Without(t.publicKeys, k)
           /\ u.signers = IF t.signers = <<>> THEN <<>> ELSE Front(t.signers)
           /\ Len(u.signed) = Len(t.signed) /\ DOMAIN u.signed = DOMAIN t.signed
           /\ u.signed = <<>> <=> t.signed = <<>>
           /\ \A i \in DOMAIN t.signed :
                 /\ u.signed[i].node = t.signed[i].node
                 /\ u.signed[i].id = t.signed[i].id
                 /\ \A s \in Signatures :
                       u.signed[i].sigs[s] = IF s[1] = k THEN 0
                                             ELSE t.signed[i].sigs[s]
<1> PICK bodies \in Seq(Body) : bodies = t.signed
  BY DEF TransactionFields
<1> PICK new : new = [i \in DOMAIN bodies |-> UnsignedBy(bodies[i], k)]
  OBVIOUS
<1>1. ASSUME NEW i \in DOMAIN bodies
      PROVE  /\ new[i] \in Body
             /\ new[i].node = bodies[i].node /\ new[i].id = bodies[i].id
             /\ \A s \in Signatures :
                   new[i].sigs[s] = IF s[1] = k THEN 0 ELSE bodies[i].sigs[s]
  <2>1. bodies[i] \in Body /\ new[i] = UnsignedBy(bodies[i], k)
    OBVIOUS
  <2>2. QED
    BY <2>1, UnsignedByFacts
<1>2. new \in [DOMAIN bodies -> Body]
  BY <1>1
<1>3. /\ new \in Seq(Body) /\ DOMAIN new = DOMAIN bodies
      /\ Len(new) = Len(bodies) /\ (new = <<>> <=> bodies = <<>>)
  BY <1>2, ReplacedFacts
<1> PICK keys \in Seq(Key) : keys = Without(t.publicKeys, k)
  BY WithoutType DEF TransactionFields
<1>4. PICK signers \in Seq(Key \cup {NoSigner}) :
          signers = IF t.signers = <<>> THEN <<>> ELSE Front(t.signers)
  <2> PICK s \in Seq(Key \cup {NoSigner}) : s = t.signers
    BY DEF TransactionFields
  <2>1. s # <<>> => Front(s) \in Seq(Key \cup {NoSigner})
    BY DEF Front
  <2>2. QED
    BY <2>1
<1>5. t.signerKeys \ {k} \in SUBSET Key
  BY DEF TransactionFields
<1> PICK v : v = Unsigned(t, k)
  OBVIOUS
<1>6. v = [t EXCEPT !.signed = new]
  BY DEF Unsigned
<1>7. /\ v \in TransactionFields /\ v.signed = new
      /\ v.built = t.built /\ v.locked = t.locked
      /\ v.onDemand = t.onDemand /\ v.id = t.id /\ v.index = t.index
      /\ v.signerKeys = t.signerKeys
      /\ v.publicKeys = t.publicKeys /\ v.signers = t.signers
  BY <1>3, <1>6 DEF TransactionFields
<1>8. u = [v EXCEPT !.signerKeys = t.signerKeys \ {k}, !.publicKeys = keys,
                    !.signers = signers]
  <2>1. /\ Without(v.publicKeys, k) = keys
        /\ (IF v.signers = <<>> THEN v.signers ELSE Front(v.signers)) = signers
        /\ v.signerKeys \ {k} = t.signerKeys \ {k}
    BY <1>4, <1>7
  <2>2. u = [v EXCEPT !.signerKeys = v.signerKeys \ {k},
                      !.publicKeys = Without(v.publicKeys, k),
                      !.signers = IF v.signers = <<>> THEN v.signers
                                  ELSE Front(v.signers)]
    BY DEF Removed
  <2>3. QED
    BY <2>1, <2>2
<1>9. /\ u \in TransactionFields /\ u.signed = new
      /\ u.built = t.built /\ u.locked = t.locked
      /\ u.onDemand = t.onDemand /\ u.id = t.id /\ u.index = t.index
      /\ u.signerKeys = t.signerKeys \ {k}
      /\ u.publicKeys = keys /\ u.signers = signers
  BY <1>5, <1>7, <1>8 DEF TransactionFields
<1>10. \A i \in DOMAIN t.signed :
          /\ u.signed[i].node = t.signed[i].node
          /\ u.signed[i].id = t.signed[i].id
          /\ \A s \in Signatures :
                u.signed[i].sigs[s] = IF s[1] = k THEN 0 ELSE t.signed[i].sigs[s]
  <2>1. u.signed = new
    BY <1>9
  <2>2. ASSUME NEW i \in DOMAIN t.signed
        PROVE  /\ new[i].node = t.signed[i].node
               /\ new[i].id = t.signed[i].id
               /\ \A s \in Signatures :
                     new[i].sigs[s] = IF s[1] = k THEN 0 ELSE t.signed[i].sigs[s]
    <3>1. i \in DOMAIN bodies /\ t.signed[i] = bodies[i]
      OBVIOUS
    <3>2. QED
      BY <1>1, <3>1
  <2>3. QED
    BY <2>1, <2>2
<1>11. /\ Len(u.signed) = Len(t.signed) /\ DOMAIN u.signed = DOMAIN t.signed
       /\ u.signed = <<>> <=> t.signed = <<>>
  BY <1>3, <1>9
<1>12. u.signers = IF t.signers = <<>> THEN <<>> ELSE Front(t.signers)
  BY <1>4, <1>9
<1>13. QED
  BY <1>9, <1>10, <1>11, <1>12

LEMMA AllRemovedFacts ==
    ASSUME NEW t \in TransactionFields, NEW u, u = AllRemoved(t)
    PROVE  /\ u \in TransactionFields
           /\ u.built = t.built /\ u.locked = t.locked
           /\ u.onDemand = t.onDemand /\ u.id = t.id /\ u.index = t.index
           /\ u.signerKeys = {} /\ u.publicKeys = <<>> /\ u.signers = <<>>
           /\ Len(u.signed) = Len(t.signed) /\ DOMAIN u.signed = DOMAIN t.signed
           /\ u.signed = <<>> <=> t.signed = <<>>
           /\ \A i \in DOMAIN t.signed :
                 /\ u.signed[i].node = t.signed[i].node
                 /\ u.signed[i].id = t.signed[i].id
                 /\ u.signed[i].sigs = NoSignatures
<1> PICK bodies \in Seq(Body) : bodies = t.signed
  BY DEF TransactionFields
<1> PICK none \in SignatureMaps : none = NoSignatures
  BY NoSignaturesFacts
<1> PICK new : new = [i \in DOMAIN bodies |-> [bodies[i] EXCEPT !.sigs = none]]
  OBVIOUS
<1>1. \A i \in DOMAIN bodies :
          /\ new[i] \in Body
          /\ new[i].node = bodies[i].node /\ new[i].id = bodies[i].id
          /\ new[i].sigs = none
  <2>1. \A i \in DOMAIN bodies : bodies[i] \in Body
    OBVIOUS
  <2>2. QED
    BY <2>1, ResignedFacts
<1>2. new \in [DOMAIN bodies -> Body]
  BY <1>1
<1>3. /\ new \in Seq(Body) /\ DOMAIN new = DOMAIN bodies
      /\ Len(new) = Len(bodies) /\ (new = <<>> <=> bodies = <<>>)
  BY <1>2, ReplacedFacts
<1>4. u = [t EXCEPT !.signed = new, !.signerKeys = {}, !.publicKeys = <<>>,
                    !.signers = <<>>]
  BY DEF AllRemoved
<1>5. <<>> \in Seq(Key) /\ <<>> \in Seq(Key \cup {NoSigner})
  OBVIOUS
<1>6. /\ u \in TransactionFields /\ u.signed = new
      /\ u.built = t.built /\ u.locked = t.locked
      /\ u.onDemand = t.onDemand /\ u.id = t.id /\ u.index = t.index
      /\ u.signerKeys = {} /\ u.publicKeys = <<>> /\ u.signers = <<>>
  BY <1>3, <1>4, <1>5 DEF TransactionFields
<1>7. QED
  BY <1>1, <1>3, <1>6

-----------------------------------------------------------------------------
(* What changes only signatures and keys *)

SameShape(t, u) ==
    /\ u.onDemand = t.onDemand /\ u.id = t.id
    /\ DOMAIN u.signed = DOMAIN t.signed /\ Len(u.signed) = Len(t.signed)
    /\ u.signed = <<>> <=> t.signed = <<>>
    /\ \A i \in DOMAIN t.signed :
          /\ u.signed[i].node = t.signed[i].node
          /\ u.signed[i].id = t.signed[i].id /\ Own(u.signed[i].sigs)
    /\ "transactions" \in u.locked <=> "transactions" \in t.locked
    /\ "signed" \in u.locked => "signed" \in t.locked \/ t.signed # <<>>

LEMMA SameShapeKeeps ==
    ASSUME NEW t, NEW sg, NEW sp, NEW ex, NEW en, NEW gi, NEW mi,
           Forms(t, sg, sp, ex, en, gi, mi), NEW u, SameShape(t, u)
    PROVE  /\ BodiesForm(u) /\ ExecutionForm(u, ex) /\ EncodingForm(u, en)
           /\ IdsForm(u, ex, mi)
<1>0. /\ t \in TransactionFields /\ BodiesForm(t)
      /\ ExecutionForm(t, ex) /\ EncodingForm(t, en) /\ IdsForm(t, ex, mi)
  BY DEF Forms
<1>1. HasSigned(u) <=> HasSigned(t)
  BY DEF SameShape, HasSigned
<1>2. u.onDemand = t.onDemand /\ u.id = t.id
  BY DEF SameShape
<1>3. BodiesForm(u)
  <2>1. HasSigned(u) =>
            Len(u.signed) = N /\ \A i \in 1..N : u.signed[i].node = Nodes[i]
    <3>1. HasSigned(t) => DOMAIN t.signed = 1..N
      BY <1>0 DEF BodiesForm, TransactionFields
    <3>2. QED
      BY <1>0, <1>1, <3>1 DEF BodiesForm, SameShape
  <2>2. \A i \in DOMAIN u.signed : Own(u.signed[i].sigs)
    BY DEF SameShape
  <2>3. {"transactions", "signed"} \cap u.locked # {} => HasSigned(u)
    BY <1>0, <1>1 DEF BodiesForm, SameShape, HasSigned
  <2>4. QED
    BY <2>1, <2>2, <2>3 DEF BodiesForm
<1>4. ExecutionForm(u, ex)
  BY <1>0, <1>1, <1>2 DEF ExecutionForm, IsFrozen
<1>5. EncodingForm(u, en)
  BY <1>0, <1>1, <1>2 DEF EncodingForm, SameShape
<1>6. IdsForm(u, ex, mi)
  <2>1. (\A i \in DOMAIN t.signed : t.signed[i].id = t.id)
           => \A i \in DOMAIN u.signed : u.signed[i].id = u.id
    BY DEF SameShape
  <2>2. QED
    BY <1>0, <1>2, <2>1 DEF IdsForm
<1>7. QED
  BY <1>3, <1>4, <1>5, <1>6

\* Without its entries, a transaction has nothing in the wrong order, unless
\* they were locked, or are being made or to be read.
LateIsFlagged(t, en, mi) ==
    \/ "added late" \in mi
    \/ /\ en.at # "made"
       /\ \/ ~ t.onDemand
          \/ "transactions" \notin t.locked /\ en.at # "making"

LEMMA EntriesDropped ==
    ASSUME NEW t, NEW en, NEW gi, NEW mi, EncodingForm(t, en),
           EntriesForm(t, en, gi, mi), LateIsFlagged(t, en, mi),
           NEW u, u.built = <<>>, SameShape(t, u)
    PROVE  EntriesForm(u, en, gi, mi)
<1>1. CASE Disorders \cap mi # {}
  BY <1>1 DEF EntriesForm
<1>2. CASE Disorders \cap mi = {}
  <2>1. gi = Nodes
    BY <1>2 DEF EntriesForm
  <2>2. Len(u.built) = 0 /\ 0 <= N
    BY NodeFacts
  <2>3. "added late" \notin mi
    BY <1>2 DEF Disorders
  <2>4. en.at # "making" /\ en.at # "made"
    BY <2>3 DEF LateIsFlagged, EncodingForm
  <2>5. ~ (u.onDemand /\ "transactions" \in u.locked)
    BY <2>3 DEF LateIsFlagged, SameShape
  <2>6. QED
    BY <2>1, <2>2, <2>4, <2>5 DEF EntriesForm
<1>3. QED
  BY <1>1, <1>2

LEMMA EntriesKept ==
    ASSUME NEW t, NEW en, NEW gi, NEW mi, EntriesForm(t, en, gi, mi),
           NEW u, u.built = t.built, u.index = t.index, SameShape(t, u)
    PROVE  EntriesForm(u, en, gi, mi)
<1>1. /\ u.onDemand = t.onDemand
      /\ "transactions" \in u.locked <=> "transactions" \in t.locked
  BY DEF SameShape
<1>2. QED
  BY <1>1 DEF EntriesForm

LEMMA PairsKept ==
    ASSUME NEW t, NEW ex, NEW mi, PairsForm(t, ex, mi),
           NEW u, InStep(t) => InStep(u)
    PROVE  PairsForm(u, ex, mi)
BY DEF PairsForm

LEMMA SigningKept ==
    ASSUME NEW t, NEW sg, SigningForm(t, sg), NEW u, SameShape(t, u)
    PROVE  SigningForm(u, sg)
BY DEF SigningForm, SameShape, HasSigned

-----------------------------------------------------------------------------
(* A key is recorded *)

\* With signing on demand: the key and its signer are kept.
LEMMA PairKeeps ==
    ASSUME NEW t, NEW sg, NEW sp, NEW ex, NEW en, NEW gi, NEW mi,
           Forms(t, sg, sp, ex, en, gi, mi), NEW k \in Key,
           t.onDemand, LateIsFlagged(t, en, mi),
           NEW u, u = Paired(Recorded(t, k), k, k)
    PROVE  Forms(u, sg, sp, ex, en, gi, mi)
<1>0. /\ t \in TransactionFields /\ BodiesForm(t)
      /\ EncodingForm(t, en) /\ SigningForm(t, sg) /\ SignersForm(t, sg, sp)
      /\ PairsForm(t, ex, mi) /\ EntriesForm(t, en, gi, mi)
  BY DEF Forms
<1> PICK v : v = Recorded(t, k)
  OBVIOUS
<1>1. /\ v \in TransactionFields
      /\ v.built = <<>> /\ v.signerKeys = t.signerKeys \cup {k}
      /\ v.onDemand = t.onDemand /\ v.locked = t.locked
      /\ v.id = t.id /\ v.index = t.index /\ v.signed = t.signed
      /\ v.publicKeys = t.publicKeys /\ v.signers = t.signers
  BY <1>0, RecordedFacts
<1>2. /\ u \in TransactionFields
      /\ u.publicKeys = Append(t.publicKeys, k)
      /\ u.signers = Append(t.signers, k)
      /\ u.built = <<>> /\ u.signerKeys = t.signerKeys \cup {k}
      /\ u.onDemand = t.onDemand /\ u.locked = t.locked
      /\ u.id = t.id /\ u.index = t.index /\ u.signed = t.signed
  <2> PICK s \in Key \cup {NoSigner} : s = k
    OBVIOUS
  <2>1. u = Paired(v, k, s)
    OBVIOUS
  <2>2. v \in TransactionFields
    BY <1>1
  <2>3. /\ u \in TransactionFields
        /\ u.publicKeys = Append(v.publicKeys, k)
        /\ u.signers = Append(v.signers, s)
        /\ u.built = v.built /\ u.signerKeys = v.signerKeys
        /\ u.onDemand = v.onDemand /\ u.locked = v.locked
        /\ u.id = v.id /\ u.index = v.index /\ u.signed = v.signed
    BY <2>1, <2>2, PairedFacts
  <2>4. QED
    BY <1>1, <2>3
<1>3. SameShape(t, u)
  BY <1>0, <1>2 DEF SameShape, BodiesForm
<1>4. SignersForm(u, sg, sp)
  BY <1>0, <1>2 DEF SignersForm
<1>5. InStep(t) => InStep(u)
  BY <1>0, <1>2, PairedInStep
<1>6. QED
  BY <1>0, <1>2, <1>3, <1>4, <1>5, SameShapeKeeps, SigningKept, PairsKept,
     EntriesDropped DEF Forms

\* Without it: the signer is awaited.
LEMMA AwaitKeeps ==
    ASSUME NEW t, NEW sg, NEW sp, NEW ex, NEW en, NEW gi, NEW mi,
           Forms(t, sg, sp, ex, en, gi, mi), NEW k \in Key,
           ~ t.onDemand, HasSigned(t), k \notin t.signerKeys, k \notin DOMAIN sg,
           LateIsFlagged(t, en, mi),
           NEW u, u = [Recorded(t, k) EXCEPT !.locked = @ \cup {"ids"}],
           NEW sg2, sg2 = With(sg, k, [next |-> 1, current |-> TRUE])
    PROVE  Forms(u, sg2, sp, ex, en, gi, mi)
<1>0. /\ t \in TransactionFields /\ BodiesForm(t)
      /\ EncodingForm(t, en) /\ SigningForm(t, sg) /\ SignersForm(t, sg, sp)
      /\ PairsForm(t, ex, mi) /\ EntriesForm(t, en, gi, mi)
  BY DEF Forms
<1> PICK v : v = Recorded(t, k)
  OBVIOUS
<1>1. /\ v \in TransactionFields
      /\ v.built = <<>> /\ v.signerKeys = t.signerKeys \cup {k}
      /\ v.onDemand = t.onDemand /\ v.locked = t.locked
      /\ v.id = t.id /\ v.index = t.index /\ v.signed = t.signed
      /\ v.publicKeys = t.publicKeys /\ v.signers = t.signers
  BY <1>0, RecordedFacts
<1>2. /\ u \in TransactionFields
      /\ u.publicKeys = t.publicKeys /\ u.signers = t.signers
      /\ u.built = <<>> /\ u.signerKeys = t.signerKeys \cup {k}
      /\ u.onDemand = t.onDemand /\ u.locked = t.locked \cup {"ids"}
      /\ u.id = t.id /\ u.index = t.index /\ u.signed = t.signed
  <2>1. v.locked \cup {"ids"} \in SUBSET {"ids", "transactions", "signed"}
    BY <1>1 DEF TransactionFields
  <2>2. u = [v EXCEPT !.locked = v.locked \cup {"ids"}]
    OBVIOUS
  <2>3. QED
    BY <1>1, <2>1, <2>2 DEF TransactionFields
<1>3. SameShape(t, u)
  BY <1>0, <1>2 DEF SameShape, BodiesForm
<1> PICK r : r = [next |-> 1, current |-> TRUE]
  OBVIOUS
<1>4. r \in [next : 1..N, current : BOOLEAN] /\ r.next = 1 /\ r.current
  BY NodeFacts
<1>5. /\ DOMAIN sg2 = DOMAIN sg \cup {k} /\ sg2[k] = r
      /\ \A x \in DOMAIN sg : sg2[x] = sg[x]
      /\ sg2 = [z \in DOMAIN sg \cup {k} |-> IF z = k THEN r ELSE sg[z]]
  BY DEF With
<1>6. SigningForm(u, sg2)
  <2>1. SigningForm(u, sg) /\ HasSigned(u)
    BY <1>0, <1>2, <1>3, SigningKept DEF HasSigned
  <2>2. \A x \in DOMAIN sg : sg[x] \in [next : 1..N, current : BOOLEAN]
    BY <1>0 DEF SigningForm
  <2>3. sg2 \in [DOMAIN sg2 -> [next : 1..N, current : BOOLEAN]]
    BY <1>4, <1>5, <2>2
  <2>4. DOMAIN sg2 \subseteq Key
    BY <1>0, <1>5 DEF SigningForm
  <2>5. QED
    BY <2>1, <2>3, <2>4 DEF SigningForm
<1>7. SignersForm(u, sg2, sp)
  <2>1. \A x \in DOMAIN sg2 \ sp :
            ~ u.onDemand /\ x \in u.signerKeys /\ sg2[x].current
    BY <1>0, <1>2, <1>4, <1>5 DEF SignersForm
  <2>2. ASSUME NEW i \in DOMAIN u.signed, NEW x \in Key \ sp
        PROVE  /\ x \in u.signerKeys =>
                     \/ u.onDemand
                     \/ u.signed[i].sigs[<<x, x>>]
                           = IF x \in DOMAIN sg2 /\ i >= sg2[x].next THEN 0 ELSE 1
               /\ x \notin u.signerKeys => u.signed[i].sigs[<<x, x>>] = 0
    <3>1. i >= 1
      BY <1>0, <1>2 DEF TransactionFields
    <3>2. CASE x = k
      <4>1. t.signed[i].sigs[<<k, k>>] = 0
        BY <1>0, <1>2, <3>2 DEF SignersForm
      <4>2. k \in DOMAIN sg2 /\ i >= sg2[k].next
        BY <1>4, <1>5, <3>1
      <4>3. QED
        BY <1>2, <3>2, <4>1, <4>2
    <3>3. CASE x # k
      <4>1. x \in DOMAIN sg2 <=> x \in DOMAIN sg
        BY <1>5, <3>3
      <4>2. x \in u.signerKeys <=> x \in t.signerKeys
        BY <1>2, <3>3
      <4>3. QED
        BY <1>0, <1>2, <1>5, <4>1, <4>2 DEF SignersForm
    <3>4. QED
      BY <3>2, <3>3
  <2>3. QED
    BY <2>1, <2>2 DEF SignersForm
<1>8. InStep(t) => InStep(u)
  BY <1>2 DEF InStep
<1>9. QED
  BY <1>0, <1>2, <1>3, <1>6, <1>7, <1>8, SameShapeKeeps, PairsKept,
     EntriesDropped DEF Forms

-----------------------------------------------------------------------------
(* Signatures that are added *)

LEMMA OneMore ==
    ASSUME NEW sigs \in SignatureMaps, NEW k \in Key, Own(sigs),
           NEW m, m = Added(sigs, <<k, k>>)
    PROVE  /\ Own(m) /\ m[<<k, k>>] = sigs[<<k, k>>] + 1
           /\ \A x \in Key \ {k} : m[<<x, x>>] = sigs[<<x, x>>]
<1>1. /\ Own(m) /\ m[<<k, k>>] = sigs[<<k, k>>] + 1
      /\ \A s \in Signatures \ {<<k, k>>} : m[s] = sigs[s]
  BY AddedFacts
<1>2. ASSUME NEW x \in Key \ {k}
      PROVE  m[<<x, x>>] = sigs[<<x, x>>]
  <2>1. <<x, x>> \in Signatures \ {<<k, k>>}
    BY DEF Signatures
  <2>2. QED
    BY <1>1, <2>1
<1>3. QED
  BY <1>1, <1>2

LEMMA AttachShape ==
    ASSUME NEW t \in TransactionFields, BodiesForm(t), HasSigned(t),
           NEW n \in 0..N, NEW k \in Key, NEW u, u = Attached(t, n, k)
    PROVE  /\ u \in TransactionFields /\ SameShape(t, u)
           /\ u.built = <<>> /\ u.onDemand = t.onDemand
           /\ u.signerKeys = t.signerKeys
           /\ u.publicKeys = t.publicKeys /\ u.signers = t.signers
           /\ \A i \in DOMAIN t.signed :
                 /\ \A x \in Key \ {k} :
                       u.signed[i].sigs[<<x, x>>] = t.signed[i].sigs[<<x, x>>]
                 /\ i <= n => u.signed[i].sigs[<<k, k>>]
                                  = t.signed[i].sigs[<<k, k>>] + 1
<1>1. /\ u \in TransactionFields
      /\ u.built = <<>> /\ u.locked = t.locked \cup {"ids", "signed"}
      /\ u.onDemand = t.onDemand /\ u.id = t.id
      /\ u.signerKeys = t.signerKeys
      /\ u.publicKeys = t.publicKeys /\ u.signers = t.signers
      /\ Len(u.signed) = Len(t.signed) /\ DOMAIN u.signed = DOMAIN t.signed
      /\ u.signed = <<>> <=> t.signed = <<>>
      /\ \A i \in DOMAIN t.signed :
            /\ u.signed[i].node = t.signed[i].node
            /\ u.signed[i].id = t.signed[i].id
            /\ i > n => u.signed[i].sigs = t.signed[i].sigs
            /\ ~ i > n =>
                  u.signed[i].sigs = Added(t.signed[i].sigs, <<k, k>>)
  BY AttachedFacts
<1>2. \A i \in DOMAIN t.signed :
         /\ u.signed[i].node = t.signed[i].node
         /\ u.signed[i].id = t.signed[i].id
         /\ i > n => u.signed[i].sigs = t.signed[i].sigs
         /\ ~ i > n => u.signed[i].sigs = Added(t.signed[i].sigs, <<k, k>>)
  BY <1>1
<1>3. ASSUME NEW i \in DOMAIN t.signed
      PROVE  /\ Own(u.signed[i].sigs)
             /\ \A x \in Key \ {k} :
                   u.signed[i].sigs[<<x, x>>] = t.signed[i].sigs[<<x, x>>]
             /\ i <= n => u.signed[i].sigs[<<k, k>>]
                              = t.signed[i].sigs[<<k, k>>] + 1
  <2>1. t.signed \in Seq(Body)
    BY DEF TransactionFields
  <2>2. t.signed[i] \in Body /\ i \in Nat
    BY <2>1
  <2>3. t.signed[i].sigs \in SignatureMaps /\ Own(t.signed[i].sigs)
    BY <2>2 DEF Body, BodiesForm
  <2> PICK sigs \in SignatureMaps : sigs = t.signed[i].sigs /\ Own(sigs)
    BY <2>3
  <2> PICK m : m = u.signed[i].sigs
    OBVIOUS
  <2> PICK a \in Nat : a = n
    BY NodeFacts
  <2>4. (i > a => m = sigs) /\ (~ i > a => m = Added(sigs, <<k, k>>))
    BY <1>2
  <2>5. CASE i > a
    BY <2>2, <2>4, <2>5
  <2>6. CASE ~ i > a
    BY <2>4, <2>6, OneMore
  <2>7. QED
    BY <2>5, <2>6
<1>4. "signed" \in u.locked => t.signed # <<>>
  BY DEF HasSigned
<1>5. SameShape(t, u)
  BY <1>1, <1>2, <1>3, <1>4 DEF SameShape
<1>6. QED
  BY <1>1, <1>3, <1>5

\* Only the first bodies: the key is spoiled.
LEMMA AttachKeeps ==
    ASSUME NEW t, NEW sg, NEW sp, NEW ex, NEW en, NEW gi, NEW mi,
           Forms(t, sg, sp, ex, en, gi, mi), NEW k \in Key, k \in sp,
           HasSigned(t), LateIsFlagged(t, en, mi),
           NEW n \in 0..N, NEW u, u = Attached(t, n, k)
    PROVE  Forms(u, sg, sp, ex, en, gi, mi)
<1>0. /\ t \in TransactionFields /\ BodiesForm(t)
      /\ EncodingForm(t, en) /\ SigningForm(t, sg) /\ SignersForm(t, sg, sp)
      /\ PairsForm(t, ex, mi) /\ EntriesForm(t, en, gi, mi)
  BY DEF Forms
<1>1. /\ u \in TransactionFields /\ SameShape(t, u)
      /\ u.built = <<>> /\ u.onDemand = t.onDemand
      /\ u.signerKeys = t.signerKeys
      /\ u.publicKeys = t.publicKeys /\ u.signers = t.signers
      /\ \A i \in DOMAIN t.signed :
            /\ \A x \in Key \ {k} :
                  u.signed[i].sigs[<<x, x>>] = t.signed[i].sigs[<<x, x>>]
            /\ i <= n => u.signed[i].sigs[<<k, k>>]
                             = t.signed[i].sigs[<<k, k>>] + 1
  BY <1>0, AttachShape
<1>2. DOMAIN u.signed = DOMAIN t.signed
  BY <1>1 DEF SameShape
<1>3. SignersForm(u, sg, sp)
  BY <1>0, <1>1, <1>2 DEF SignersForm
<1>4. InStep(t) => InStep(u)
  BY <1>1 DEF InStep
<1>5. QED
  BY <1>0, <1>1, <1>3, <1>4, SameShapeKeeps, SigningKept, PairsKept,
     EntriesDropped DEF Forms

\* All bodies: the key is recorded, without a signer.
LEMMA AttachAllKeeps ==
    ASSUME NEW t, NEW sg, NEW sp, NEW ex, NEW en, NEW gi, NEW mi,
           Forms(t, sg, sp, ex, en, gi, mi), NEW k \in Key,
           DOMAIN sg \cap {k} \subseteq sp, k \notin t.signerKeys,
           HasSigned(t), LateIsFlagged(t, en, mi),
           NEW u, u = Paired(Recorded(Attached(t, N, k), k), k, NoSigner)
    PROVE  Forms(u, sg, sp, ex, en, gi, mi)
<1>0. /\ t \in TransactionFields /\ BodiesForm(t)
      /\ EncodingForm(t, en) /\ SigningForm(t, sg) /\ SignersForm(t, sg, sp)
      /\ PairsForm(t, ex, mi) /\ EntriesForm(t, en, gi, mi)
  BY DEF Forms
<1> PICK n \in Nat \ {0} : n = N
  BY NodeFacts
<1> PICK v : v = Attached(t, n, k)
  OBVIOUS
<1> PICK w : w = Recorded(v, k)
  OBVIOUS
<1> PICK s \in Key \cup {NoSigner} : s = NoSigner
  OBVIOUS
<1>1. /\ v \in TransactionFields /\ SameShape(t, v)
      /\ v.built = <<>> /\ v.onDemand = t.onDemand
      /\ v.signerKeys = t.signerKeys
      /\ v.publicKeys = t.publicKeys /\ v.signers = t.signers
      /\ \A i \in DOMAIN t.signed :
            /\ \A x \in Key \ {k} :
                  v.signed[i].sigs[<<x, x>>] = t.signed[i].sigs[<<x, x>>]
            /\ i <= n => v.signed[i].sigs[<<k, k>>]
                             = t.signed[i].sigs[<<k, k>>] + 1
  <2>1. n \in 0..N
    OBVIOUS
  <2>2. QED
    BY <1>0, <2>1, AttachShape
<1>2. /\ w \in TransactionFields
      /\ w.built = <<>> /\ w.signerKeys = v.signerKeys \cup {k}
      /\ w.onDemand = v.onDemand /\ w.locked = v.locked
      /\ w.id = v.id /\ w.index = v.index /\ w.signed = v.signed
      /\ w.publicKeys = v.publicKeys /\ w.signers = v.signers
  <2>1. v \in TransactionFields
    BY <1>1
  <2>2. QED
    BY <2>1, RecordedFacts
<1>3. /\ u \in TransactionFields
      /\ u.publicKeys = Append(w.publicKeys, k)
      /\ u.signers = Append(w.signers, s)
      /\ u.built = w.built /\ u.signerKeys = w.signerKeys
      /\ u.onDemand = w.onDemand /\ u.locked = w.locked
      /\ u.id = w.id /\ u.index = w.index /\ u.signed = w.signed
  <2>1. w \in TransactionFields /\ u = Paired(w, k, s)
    BY <1>2
  <2>2. QED
    BY <2>1, PairedFacts, SMTT(30)
<1>4. SameShape(t, u)
  BY <1>1, <1>2, <1>3 DEF SameShape
<1>5. InStep(t) => InStep(u)
  <2>1. u.publicKeys = Append(t.publicKeys, k) /\ u.signers = Append(t.signers, s)
    BY <1>1, <1>2, <1>3
  <2>2. QED
    BY <1>0, <2>1, PairedInStep
<1>6. SignersForm(u, sg, sp)
  <2>1. /\ u.signed = v.signed /\ u.signerKeys = t.signerKeys \cup {k}
        /\ u.onDemand = t.onDemand /\ u.built = <<>>
    BY <1>1, <1>2, <1>3
  <2>2. DOMAIN u.signed = DOMAIN t.signed /\ DOMAIN t.signed = 1..n
    <3>1. Len(t.signed) = n /\ t.signed \in Seq(Body)
      BY <1>0 DEF BodiesForm, TransactionFields
    <3>2. QED
      BY <1>4, <3>1 DEF SameShape
  <2>3. \A x \in DOMAIN sg \ sp :
            ~ u.onDemand /\ x \in u.signerKeys /\ sg[x].current
    BY <1>0, <2>1 DEF SignersForm
  <2>4. ASSUME NEW i \in DOMAIN u.signed, NEW x \in Key \ sp
        PROVE  /\ x \in u.signerKeys =>
                     \/ u.onDemand
                     \/ u.signed[i].sigs[<<x, x>>]
                           = IF x \in DOMAIN sg /\ i >= sg[x].next THEN 0 ELSE 1
               /\ x \notin u.signerKeys => u.signed[i].sigs[<<x, x>>] = 0
    <3>1. CASE x = k
      <4>1. t.signed[i].sigs[<<k, k>>] = 0
        BY <1>0, <2>2, <3>1 DEF SignersForm
      <4>2. u.signed[i].sigs[<<k, k>>] = 0 + 1
        BY <1>1, <2>1, <2>2, <4>1
      <4>3. k \notin DOMAIN sg
        BY <3>1
      <4>4. QED
        BY <2>1, <3>1, <4>2, <4>3
    <3>2. CASE x # k
      <4>1. u.signed[i].sigs[<<x, x>>] = t.signed[i].sigs[<<x, x>>]
        BY <1>1, <2>1, <2>2, <3>2
      <4>2. x \in u.signerKeys <=> x \in t.signerKeys
        BY <2>1, <3>2
      <4>3. QED
        BY <1>0, <2>1, <2>2, <4>1, <4>2 DEF SignersForm
    <3>3. QED
      BY <3>1, <3>2
  <2>5. QED
    BY <2>3, <2>4 DEF SignersForm
<1>7. u.built = <<>>
  BY <1>2, <1>3
<1>8. QED
  BY <1>0, <1>3, <1>4, <1>5, <1>6, <1>7, SameShapeKeeps, SigningKept, PairsKept,
     EntriesDropped DEF Forms

-----------------------------------------------------------------------------
(* Signatures that are removed *)

LEMMA AllRemoveKeeps ==
    ASSUME NEW t, NEW sg, NEW sp, NEW ex, NEW en, NEW gi, NEW mi,
           Forms(t, sg, sp, ex, en, gi, mi), DOMAIN sg \subseteq sp,
           NEW u, u = AllRemoved(t)
    PROVE  Forms(u, sg, sp, ex, en, gi, mi)
<1>0. /\ t \in TransactionFields /\ BodiesForm(t)
      /\ EncodingForm(t, en) /\ SigningForm(t, sg)
      /\ PairsForm(t, ex, mi) /\ EntriesForm(t, en, gi, mi)
  BY DEF Forms
<1>1. /\ u \in TransactionFields
      /\ u.built = t.built /\ u.locked = t.locked
      /\ u.onDemand = t.onDemand /\ u.id = t.id /\ u.index = t.index
      /\ u.signerKeys = {} /\ u.publicKeys = <<>> /\ u.signers = <<>>
      /\ Len(u.signed) = Len(t.signed) /\ DOMAIN u.signed = DOMAIN t.signed
      /\ u.signed = <<>> <=> t.signed = <<>>
      /\ \A i \in DOMAIN t.signed :
            /\ u.signed[i].node = t.signed[i].node
            /\ u.signed[i].id = t.signed[i].id
            /\ u.signed[i].sigs = NoSignatures
  BY <1>0, AllRemovedFacts
<1>2. SameShape(t, u)
  BY <1>1, NoSignaturesFacts DEF SameShape
<1>3. SignersForm(u, sg, sp)
  BY <1>1, NoSignaturesFacts DEF SignersForm
<1>4. InStep(u)
  BY <1>1 DEF InStep
<1>5. QED
  BY <1>0, <1>1, <1>2, <1>3, <1>4, SameShapeKeeps, SigningKept, PairsKept,
     EntriesKept DEF Forms

\* The key that was added last, or one without signers: the lists stay in step.
LEMMA RemovedInStep ==
    ASSUME NEW t \in TransactionFields, InStep(t), NEW k, WrongPair(t, k) = {},
           NEW u, u.publicKeys = Without(t.publicKeys, k),
           u.signers = IF t.signers = <<>> THEN <<>> ELSE Front(t.signers)
    PROVE  InStep(u)
<1> PICK keys \in Seq(Key), signers \in Seq(Key \cup {NoSigner}) :
       keys = t.publicKeys /\ signers = t.signers
  BY DEF TransactionFields
<1> PICK n \in Nat : n = Len(signers)
  OBVIOUS
<1>1. /\ Len(keys) = n /\ DOMAIN keys = 1..n /\ DOMAIN signers = 1..n
      /\ \A j \in 1..n : signers[j] \in {NoSigner, keys[j]}
  BY DEF InStep
<1> PICK rest : rest = Without(keys, k)
  OBVIOUS
<1>2. \/ signers = <<>>
      \/ {i \in DOMAIN keys : keys[i] = k} = {n}
  BY DEF WrongPair
<1>3. CASE signers = <<>>
  <2>1. Len(rest) = 0
    BY <1>1, <1>3, WithoutEmpty
  <2>2. u.publicKeys = rest /\ u.signers = <<>>
    BY <1>3
  <2>3. QED
    BY <2>1, <2>2 DEF InStep
<1>4. CASE signers # <<>>
  <2>1. n > 0
    BY <1>4
  <2>2. /\ Len(keys) > 0
        /\ \A i \in DOMAIN keys : keys[i] = k <=> i = Len(keys)
    BY <1>1, <1>2, <1>4, <2>1
  <2>3. Len(rest) = n - 1 /\ \A j \in 1..(n - 1) : rest[j] = keys[j]
    <3>1. /\ Len(Without(keys, k)) = Len(keys) - 1
          /\ \A j \in 1..(Len(keys) - 1) : Without(keys, k)[j] = keys[j]
      BY <2>2, WithoutLast
    <3>2. QED
      BY <1>1, <3>1
  <2>4. /\ Len(Front(signers)) = n - 1 /\ DOMAIN Front(signers) = 1..(n - 1)
        /\ \A j \in 1..(n - 1) : Front(signers)[j] = signers[j]
    BY <2>1 DEF Front
  <2>5. u.publicKeys = rest /\ u.signers = Front(signers)
    BY <1>4
  <2>6. \A j \in 1..(n - 1) : j \in 1..n
    OBVIOUS
  <2>7. \A j \in DOMAIN u.signers : u.signers[j] \in {NoSigner, u.publicKeys[j]}
    BY <1>1, <2>3, <2>4, <2>5, <2>6
  <2>8. QED
    BY <2>3, <2>4, <2>5, <2>7 DEF InStep
<1>5. QED
  BY <1>3, <1>4

LEMMA RemoveKeeps ==
    ASSUME NEW t, NEW sg, NEW sp, NEW ex, NEW en, NEW gi, NEW mi,
           Forms(t, sg, sp, ex, en, gi, mi), NEW k \in Key,
           DOMAIN sg \cap {k} \subseteq sp, WrongPair(t, k) \subseteq mi,
           NEW u, u = Removed(t, k)
    PROVE  Forms(u, sg, sp, ex, en, gi, mi)
<1>0. /\ t \in TransactionFields /\ BodiesForm(t)
      /\ EncodingForm(t, en) /\ SigningForm(t, sg) /\ SignersForm(t, sg, sp)
      /\ PairsForm(t, ex, mi) /\ EntriesForm(t, en, gi, mi)
  BY DEF Forms
<1>1. /\ u \in TransactionFields
      /\ u.built = t.built /\ u.locked = t.locked
      /\ u.onDemand = t.onDemand /\ u.id = t.id /\ u.index = t.index
      /\ u.signerKeys = t.signerKeys \ {k}
      /\ u.publicKeys = Without(t.publicKeys, k)
      /\ u.signers = IF t.signers = <<>> THEN <<>> ELSE Front(t.signers)
      /\ Len(u.signed) = Len(t.signed) /\ DOMAIN u.signed = DOMAIN t.signed
      /\ u.signed = <<>> <=> t.signed = <<>>
      /\ \A i \in DOMAIN t.signed :
            /\ u.signed[i].node = t.signed[i].node
            /\ u.signed[i].id = t.signed[i].id
            /\ \A s \in Signatures :
                  u.signed[i].sigs[s] = IF s[1] = k THEN 0
                                        ELSE t.signed[i].sigs[s]
  BY <1>0, RemovedFacts
<1>2. ASSUME NEW i \in DOMAIN t.signed
      PROVE  /\ Own(u.signed[i].sigs)
             /\ u.signed[i].sigs[<<k, k>>] = 0
             /\ \A x \in Key \ {k} :
                   u.signed[i].sigs[<<x, x>>] = t.signed[i].sigs[<<x, x>>]
  <2> PICK old, new : old = t.signed[i].sigs /\ new = u.signed[i].sigs
    OBVIOUS
  <2>1. Own(old) /\ \A s \in Signatures :
                       new[s] = IF s[1] = k THEN 0 ELSE old[s]
    BY <1>0, <1>1 DEF BodiesForm
  <2>2. \A x \in Key : <<x, x>> \in Signatures /\ <<x, x>>[1] = x
    BY DEF Signatures
  <2>3. Own(new)
    BY <2>1 DEF Own
  <2>4. QED
    BY <2>1, <2>2, <2>3
<1>3. SameShape(t, u)
  BY <1>1, <1>2 DEF SameShape
<1>4. SignersForm(u, sg, sp)
  <2>1. \A x \in DOMAIN sg \ sp : x # k
    OBVIOUS
  <2>2. \A x \in DOMAIN sg \ sp :
            ~ u.onDemand /\ x \in u.signerKeys /\ sg[x].current
    BY <1>0, <1>1, <2>1 DEF SignersForm
  <2>3. ASSUME NEW i \in DOMAIN u.signed, NEW x \in Key \ sp
        PROVE  /\ x \in u.signerKeys =>
                     \/ u.onDemand
                     \/ u.signed[i].sigs[<<x, x>>]
                           = IF x \in DOMAIN sg /\ i >= sg[x].next THEN 0 ELSE 1
               /\ x \notin u.signerKeys => u.signed[i].sigs[<<x, x>>] = 0
    <3>1. CASE x = k
      BY <1>1, <1>2, <3>1
    <3>2. CASE x # k
      <4>1. u.signed[i].sigs[<<x, x>>] = t.signed[i].sigs[<<x, x>>]
        BY <1>1, <1>2, <3>2
      <4>2. x \in u.signerKeys <=> x \in t.signerKeys
        BY <1>1, <3>2
      <4>3. QED
        BY <1>0, <1>1, <4>1, <4>2 DEF SignersForm
    <3>3. QED
      BY <3>1, <3>2
  <2>4. QED
    BY <2>2, <2>3 DEF SignersForm
<1>5. PairsForm(u, ex, mi)
  <2>1. CASE "wrong pair" \in mi
    BY <2>1 DEF PairsForm
  <2>2. CASE "wrong pair" \notin mi
    <3>1. WrongPair(t, k) = {}
      BY <2>2 DEF WrongPair
    <3>2. InStep(t) => InStep(u)
      <4>1. /\ u.publicKeys = Without(t.publicKeys, k)
            /\ u.signers = IF t.signers = <<>> THEN <<>> ELSE Front(t.signers)
        BY <1>1
      <4>2. QED
        BY <1>0, <3>1, <4>1, RemovedInStep
    <3>3. QED
      BY <1>0, <3>2, PairsKept
  <2>3. QED
    BY <2>1, <2>2
<1>6. QED
  BY <1>0, <1>1, <1>3, <1>4, <1>5, SameShapeKeeps, SigningKept,
     EntriesKept DEF Forms

-----------------------------------------------------------------------------
(* A signer answers *)

LEMMA WithSignatureFacts ==
    ASSUME NEW t \in TransactionFields, BodiesForm(t), NEW i \in DOMAIN t.signed,
           NEW k \in Key, NEW u, u = WithSignature(t, i, k)
    PROVE  /\ u \in TransactionFields /\ SameShape(t, u)
           /\ u.built = t.built /\ u.index = t.index
           /\ u.onDemand = t.onDemand
           /\ u.signerKeys = t.signerKeys
           /\ u.publicKeys = t.publicKeys /\ u.signers = t.signers
           /\ \A j \in DOMAIN t.signed, x \in Key :
                 u.signed[j].sigs[<<x, x>>]
                     = IF j = i /\ x = k THEN t.signed[j].sigs[<<x, x>>] + 1
                       ELSE t.signed[j].sigs[<<x, x>>]
<1> PICK bodies \in Seq(Body) : bodies = t.signed
  BY DEF TransactionFields
<1>1. bodies[i] \in Body /\ bodies[i].sigs \in SignatureMaps /\ Own(bodies[i].sigs)
  <2>1. bodies[i] \in Body
    OBVIOUS
  <2>2. Own(bodies[i].sigs)
    BY DEF BodiesForm
  <2>3. QED
    BY <2>1, <2>2 DEF Body
<1> PICK b : b = SignedBy(bodies[i], k)
  OBVIOUS
<1> PICK m : m = Added(bodies[i].sigs, <<k, k>>)
  OBVIOUS
<1>2. /\ b \in Body /\ b.node = bodies[i].node /\ b.id = bodies[i].id
      /\ b.sigs = m
  BY <1>1, SignedByFacts
<1> PICK sigs \in SignatureMaps : sigs = bodies[i].sigs /\ Own(sigs)
  BY <1>1
<1>3. /\ Own(m) /\ m[<<k, k>>] = sigs[<<k, k>>] + 1
      /\ \A x \in Key \ {k} : m[<<x, x>>] = sigs[<<x, x>>]
  BY OneMore
<1> PICK new : new = [bodies EXCEPT ![i] = b]
  OBVIOUS
<1>4. /\ new \in [DOMAIN bodies -> Body] /\ new[i] = b
      /\ \A j \in DOMAIN bodies : j # i => new[j] = bodies[j]
  BY <1>2
<1>5. /\ new \in Seq(Body) /\ DOMAIN new = DOMAIN bodies
      /\ Len(new) = Len(bodies) /\ (new = <<>> <=> bodies = <<>>)
  BY <1>4, ReplacedFacts
<1>6. u = [t EXCEPT !.signed = new]
  BY DEF WithSignature
<1>7. /\ u \in TransactionFields /\ u.signed = new
      /\ u.built = t.built /\ u.index = t.index
      /\ u.onDemand = t.onDemand /\ u.id = t.id /\ u.locked = t.locked
      /\ u.signerKeys = t.signerKeys
      /\ u.publicKeys = t.publicKeys /\ u.signers = t.signers
  BY <1>5, <1>6 DEF TransactionFields
<1>8. \A j \in DOMAIN bodies :
         /\ new[j].node = bodies[j].node /\ new[j].id = bodies[j].id
         /\ Own(new[j].sigs)
  BY <1>2, <1>3, <1>4 DEF BodiesForm
<1>9. SameShape(t, u)
  BY <1>5, <1>7, <1>8 DEF SameShape
<1>10. ASSUME NEW j \in DOMAIN bodies, NEW x \in Key
       PROVE  new[j].sigs[<<x, x>>]
                  = IF j = i /\ x = k THEN bodies[j].sigs[<<x, x>>] + 1
                    ELSE bodies[j].sigs[<<x, x>>]
  BY <1>2, <1>3, <1>4
<1>11. QED
  BY <1>7, <1>9, <1>10

\* The calls that go on after an answer.
LEMMA AnswerKeeps ==
    ASSUME NEW t, NEW sg, NEW sp, NEW ex, NEW en, NEW gi, NEW mi,
           Forms(t, sg, sp, ex, en, gi, mi), NEW k \in DOMAIN sg,
           NEW i, i = sg[k].next,
           NEW u, u = IF sg[k].current THEN WithSignature(t, i, k) ELSE t,
           NEW sg2, sg2 = IF i = N THEN [x \in DOMAIN sg \ {k} |-> sg[x]]
                          ELSE [sg EXCEPT ![k].next = @ + 1]
    PROVE  Forms(u, sg2, sp, ex, en, gi, mi)
<1>0. /\ t \in TransactionFields /\ BodiesForm(t)
      /\ EncodingForm(t, en) /\ SigningForm(t, sg) /\ SignersForm(t, sg, sp)
      /\ PairsForm(t, ex, mi) /\ EntriesForm(t, en, gi, mi)
  BY DEF Forms
<1> PICK n \in Nat \ {0} : n = N
  BY NodeFacts
<1>1. /\ k \in Key /\ i \in 1..n
      /\ \A x \in DOMAIN sg : sg[x] \in [next : 1..n, current : BOOLEAN]
  BY <1>0 DEF SigningForm
<1>2. sg[k].current => HasSigned(t) /\ DOMAIN t.signed = 1..n
  BY <1>0 DEF SigningForm, BodiesForm, TransactionFields
<1>3. /\ u \in TransactionFields /\ SameShape(t, u)
      /\ u.built = t.built /\ u.index = t.index
      /\ u.onDemand = t.onDemand
      /\ u.signerKeys = t.signerKeys
      /\ u.publicKeys = t.publicKeys /\ u.signers = t.signers
      /\ \A j \in DOMAIN t.signed, x \in Key :
            u.signed[j].sigs[<<x, x>>]
                = IF sg[k].current /\ j = i /\ x = k
                  THEN t.signed[j].sigs[<<x, x>>] + 1
                  ELSE t.signed[j].sigs[<<x, x>>]
  <2>1. CASE sg[k].current
    <3>1. u = WithSignature(t, i, k) /\ i \in DOMAIN t.signed
      BY <1>1, <1>2, <2>1
    <3>2. /\ u \in TransactionFields /\ SameShape(t, u)
          /\ u.built = t.built /\ u.index = t.index
          /\ u.onDemand = t.onDemand
          /\ u.signerKeys = t.signerKeys
          /\ u.publicKeys = t.publicKeys /\ u.signers = t.signers
          /\ \A j \in DOMAIN t.signed, x \in Key :
                u.signed[j].sigs[<<x, x>>]
                    = IF j = i /\ x = k THEN t.signed[j].sigs[<<x, x>>] + 1
                      ELSE t.signed[j].sigs[<<x, x>>]
      BY <1>0, <1>1, <3>1, WithSignatureFacts
    <3>3. QED
      BY <2>1, <3>2
  <2>2. CASE ~ sg[k].current
    <3>1. u = t
      BY <2>2
    <3>2. SameShape(t, u)
      BY <1>0, <3>1 DEF SameShape, BodiesForm
    <3>3. QED
      BY <1>0, <2>2, <3>1, <3>2
  <2>3. QED
    BY <2>1, <2>2
<1>4. /\ DOMAIN sg2 = (IF i = n THEN DOMAIN sg \ {k} ELSE DOMAIN sg)
      /\ \A x \in DOMAIN sg \ {k} : sg2[x] = sg[x]
      /\ i # n => /\ sg2[k] \in [next : 1..n, current : BOOLEAN]
                  /\ sg2[k].next = i + 1 /\ sg2[k].current = sg[k].current
  <2>1. CASE i = n
    BY <2>1
  <2>2. CASE i # n
    <3> PICK r : r = sg[k]
      OBVIOUS
    <3>1. r \in [next : 1..n, current : BOOLEAN] /\ r.next = i
      BY <1>1
    <3> PICK q : q = [r EXCEPT !.next = r.next + 1]
      OBVIOUS
    <3>2. i + 1 \in 1..n
      BY <1>1, <2>2
    <3>3. /\ q \in [next : 1..n, current : BOOLEAN]
          /\ q.next = i + 1 /\ q.current = r.current
      BY <3>1, <3>2
    <3>4. sg2 = [sg EXCEPT ![k] = q]
      BY <2>2
    <3>5. sg2[k] = q
      BY <3>4
    <3>6. DOMAIN sg2 = DOMAIN sg /\ \A x \in DOMAIN sg \ {k} : sg2[x] = sg[x]
      BY <3>4
    <3>7. QED
      BY <2>2, <3>3, <3>5, <3>6
  <2>3. QED
    BY <2>1, <2>2
<1>5. SigningForm(u, sg2)
  <2>1. SigningForm(u, sg)
    BY <1>0, <1>3, SigningKept
  <2>2. DOMAIN sg2 \subseteq DOMAIN sg
    BY <1>4
  <2>3. \A x \in DOMAIN sg2 : /\ sg2[x] \in [next : 1..n, current : BOOLEAN]
                              /\ sg2[x].current = sg[x].current
    BY <1>1, <1>4
  <2>4. sg2 = [x \in DOMAIN sg2 |-> sg2[x]]
    <3>1. CASE i = n
      BY <3>1
    <3>2. CASE i # n
      BY <3>2, <1>0 DEF SigningForm
    <3>3. QED
      BY <3>1, <3>2
  <2>5. sg2 \in [DOMAIN sg2 -> [next : 1..n, current : BOOLEAN]]
    BY <2>3, <2>4
  <2>6. QED
    BY <2>1, <2>2, <2>3, <2>5 DEF SigningForm
<1>6. SignersForm(u, sg2, sp)
  <2>1. \A x \in DOMAIN sg2 : x \in DOMAIN sg /\ sg2[x].current = sg[x].current
    BY <1>4
  <2>2. \A x \in DOMAIN sg2 \ sp :
            ~ u.onDemand /\ x \in u.signerKeys /\ sg2[x].current
    BY <1>0, <1>3, <2>1 DEF SignersForm
  <2>3. ASSUME NEW j \in DOMAIN u.signed, NEW x \in Key \ sp
        PROVE  /\ x \in u.signerKeys =>
                     \/ u.onDemand
                     \/ u.signed[j].sigs[<<x, x>>]
                           = IF x \in DOMAIN sg2 /\ j >= sg2[x].next THEN 0 ELSE 1
               /\ x \notin u.signerKeys => u.signed[j].sigs[<<x, x>>] = 0
    <3>1. j \in DOMAIN t.signed
      BY <1>3 DEF SameShape
    <3>2. CASE x = k
      <4>1. /\ sg[k].current /\ ~ t.onDemand /\ k \in t.signerKeys
        BY <1>0, <3>2 DEF SignersForm
      <4>2. j \in 1..n
        BY <1>2, <3>1, <4>1
      <4>3. t.signed[j].sigs[<<k, k>>] = IF j >= i THEN 0 ELSE 1
        BY <1>0, <3>1, <3>2, <4>1 DEF SignersForm
      <4>4. u.signed[j].sigs[<<k, k>>]
                = IF j = i THEN t.signed[j].sigs[<<k, k>>] + 1
                  ELSE t.signed[j].sigs[<<k, k>>]
        BY <1>1, <1>3, <3>1, <4>1
      <4>5. u.signed[j].sigs[<<k, k>>] = IF j >= i + 1 THEN 0 ELSE 1
        BY <1>1, <4>2, <4>3, <4>4
      <4>6. k \in DOMAIN sg2 /\ j >= sg2[k].next <=> j >= i + 1
        <5>1. CASE i = n
          BY <1>4, <4>2, <5>1
        <5>2. CASE i # n
          BY <1>4, <5>2
        <5>3. QED
          BY <5>1, <5>2
      <4>7. QED
        BY <1>3, <3>2, <4>1, <4>5, <4>6
    <3>3. CASE x # k
      <4>1. u.signed[j].sigs[<<x, x>>] = t.signed[j].sigs[<<x, x>>]
        BY <1>3, <3>1, <3>3
      <4>2. x \in DOMAIN sg2 <=> x \in DOMAIN sg
        BY <1>4, <3>3
      <4>3. QED
        BY <1>0, <1>3, <1>4, <3>1, <3>3, <4>1, <4>2 DEF SignersForm
    <3>4. QED
      BY <3>2, <3>3
  <2>4. QED
    BY <2>2, <2>3 DEF SignersForm
<1>7. InStep(t) => InStep(u)
  BY <1>3 DEF InStep
<1>8. QED
  BY <1>0, <1>3, <1>5, <1>6, <1>7, SameShapeKeeps, PairsKept, EntriesKept
  DEF Forms

-----------------------------------------------------------------------------
(* Executing, and ceasing to sign *)

\* The signer's call ends: the key is spoiled.
LEMMA FailKeeps ==
    ASSUME NEW t, NEW sg, NEW sp, NEW ex, NEW en, NEW gi, NEW mi,
           Forms(t, sg, sp, ex, en, gi, mi), NEW k \in DOMAIN sg,
           NEW sg2, sg2 = [x \in DOMAIN sg \ {k} |-> sg[x]],
           NEW sp2, sp2 = sp \cup {k}
    PROVE  Forms(t, sg2, sp2, ex, en, gi, mi)
<1>0. /\ Forms(t, sg, sp2, ex, en, gi, mi)
      /\ SigningForm(t, sg) /\ SignersForm(t, sg, sp)
  BY MoreFlags DEF Forms
<1>1. /\ DOMAIN sg2 = DOMAIN sg \ {k}
      /\ \A x \in DOMAIN sg2 : x \in DOMAIN sg /\ sg2[x] = sg[x]
  OBVIOUS
<1>2. SigningForm(t, sg2)
  <2>1. \A x \in DOMAIN sg : sg[x] \in [next : 1..N, current : BOOLEAN]
    BY <1>0 DEF SigningForm
  <2>2. sg2 \in [DOMAIN sg2 -> [next : 1..N, current : BOOLEAN]]
    BY <1>1, <2>1
  <2>3. QED
    BY <1>0, <1>1, <2>2 DEF SigningForm
<1>3. SignersForm(t, sg2, sp2)
  BY <1>0, <1>1 DEF SignersForm
<1>4. QED
  BY <1>0, <1>2, <1>3 DEF Forms

\* Execution has nothing in its hands.
LEMMA PlainExecution ==
    ASSUME NEW t, NEW sg, NEW sp, NEW ex, NEW en, NEW gi, NEW mi,
           Forms(t, sg, sp, ex, en, gi, mi),
           NEW ex2, \/ ex2 = Idle
                    \/ IsFrozen(t) /\ ex2 \in {[at |-> "turn"], [at |-> "signing"]}
    PROVE  Forms(t, sg, sp, ex2, en, gi, mi)
<1>0. ExecutionForm(t, ex) /\ IdsForm(t, ex, mi) /\ PairsForm(t, ex, mi)
  BY DEF Forms
<1>1. /\ ex2.at \in {"idle", "turn", "signing"}
      /\ ex2.at # "idle" => IsFrozen(t)
      /\ ex2.at = "signing" => ex2 = [at |-> "signing"]
  BY DEF Idle
<1>2. ExecutionForm(t, ex2)
  BY <1>1 DEF ExecutionForm
<1>3. IdsForm(t, ex2, mi)
  BY <1>0, <1>1 DEF IdsForm
<1>4. PairsForm(t, ex2, mi)
  BY <1>0, <1>1 DEF PairsForm
<1>5. QED
  BY <1>2, <1>3, <1>4 DEF Forms

\* Other fields than signatures, keys, entries and the setting.
LEMMA FieldsKeep ==
    ASSUME NEW t, NEW sg, NEW sp, NEW ex, NEW en, NEW gi, NEW mi,
           Forms(t, sg, sp, ex, en, gi, mi),
           NEW u, u \in TransactionFields,
           u.onDemand = t.onDemand, u.signed = t.signed, u.id = t.id,
           u.signerKeys = t.signerKeys,
           u.publicKeys = t.publicKeys, u.signers = t.signers,
           u.locked = t.locked \/ u.locked = t.locked \cup {"ids"},
           EntriesForm(u, en, gi, mi)
    PROVE  Forms(u, sg, sp, ex, en, gi, mi)
<1>0. /\ t \in TransactionFields /\ BodiesForm(t)
      /\ SigningForm(t, sg) /\ SignersForm(t, sg, sp) /\ PairsForm(t, ex, mi)
  BY DEF Forms
<1>1. SameShape(t, u)
  BY <1>0 DEF SameShape, BodiesForm
<1>2. SignersForm(u, sg, sp)
  BY <1>0 DEF SignersForm
<1>3. InStep(t) => InStep(u)
  BY DEF InStep
<1>4. QED
  BY <1>0, <1>1, <1>2, <1>3, SameShapeKeeps, SigningKept, PairsKept DEF Forms

\* The turn goes to the next node.
LEMMA AdvancedFacts ==
    ASSUME NEW t \in TransactionFields, NEW u, u = Advanced(t)
    PROVE  /\ u \in TransactionFields /\ u.index = (t.index + 1) % N
           /\ u.built = t.built /\ u.locked = t.locked
           /\ u.onDemand = t.onDemand /\ u.signed = t.signed /\ u.id = t.id
           /\ u.signerKeys = t.signerKeys
           /\ u.publicKeys = t.publicKeys /\ u.signers = t.signers
<1> PICK i : i = (t.index + 1) % N
  OBVIOUS
<1>1. t.index \in 0..(N - 1)
  BY DEF TransactionFields
<1>2. i \in 0..(N - 1)
  BY <1>1, TurnFacts
<1>3. u = [t EXCEPT !.index = i]
  BY DEF Advanced
<1>4. QED
  BY <1>2, <1>3 DEF TransactionFields

LEMMA AdvancedKeeps ==
    ASSUME NEW t, NEW sg, NEW sp, NEW ex, NEW en, NEW gi, NEW mi,
           Forms(t, sg, sp, ex, en, gi, mi),
           en.at # "making" \/ "turned" \in mi, NEW u, u = Advanced(t)
    PROVE  Forms(u, sg, sp, ex, en, gi, mi) /\ (IsFrozen(t) => IsFrozen(u))
<1>0. t \in TransactionFields /\ EntriesForm(t, en, gi, mi)
  BY DEF Forms
<1>1. /\ u \in TransactionFields /\ u.index = (t.index + 1) % N
      /\ u.built = t.built /\ u.locked = t.locked
      /\ u.onDemand = t.onDemand /\ u.signed = t.signed /\ u.id = t.id
      /\ u.signerKeys = t.signerKeys
      /\ u.publicKeys = t.publicKeys /\ u.signers = t.signers
  BY <1>0, AdvancedFacts
<1>2. EntriesForm(u, en, gi, mi)
  <2>1. CASE Disorders \cap mi # {}
    BY <2>1 DEF EntriesForm
  <2>2. CASE Disorders \cap mi = {}
    BY <1>0, <1>1, <2>2 DEF EntriesForm, Disorders
  <2>3. QED
    BY <2>1, <2>2
<1>3. Forms(u, sg, sp, ex, en, gi, mi)
  BY <1>1, <1>2, FieldsKeep
<1>4. IsFrozen(t) => IsFrozen(u)
  BY <1>1 DEF IsFrozen, HasSigned
<1>5. QED
  BY <1>3, <1>4

\* Entries of a transaction that does not sign on demand.
LEMMA RebuiltKeeps ==
    ASSUME NEW t, NEW sg, NEW sp, NEW ex, NEW en, NEW gi, NEW mi,
           Forms(t, sg, sp, ex, en, gi, mi), ~ t.onDemand,
           NEW b \in Seq(Range(Nodes) \cup {NoNode}),
           Len(t.built) <= N => Len(b) <= N,
           en.at = "made" /\ t.built = Nodes => b = Nodes,
           NEW u, u = [t EXCEPT !.built = b]
    PROVE  /\ Forms(u, sg, sp, ex, en, gi, mi) /\ ~ u.onDemand
           /\ u.built = b /\ u.signed = t.signed /\ u.index = t.index
<1>0. /\ t \in TransactionFields /\ EntriesForm(t, en, gi, mi)
      /\ EncodingForm(t, en)
  BY DEF Forms
<1>1. /\ u \in TransactionFields /\ u.index = t.index
      /\ u.built = b /\ u.locked = t.locked
      /\ u.onDemand = t.onDemand /\ u.signed = t.signed /\ u.id = t.id
      /\ u.signerKeys = t.signerKeys
      /\ u.publicKeys = t.publicKeys /\ u.signers = t.signers
  BY <1>0 DEF TransactionFields
<1>2. en.at # "making"
  BY <1>0 DEF EncodingForm
<1>3. EntriesForm(u, en, gi, mi)
  BY <1>0, <1>1, <1>2 DEF EntriesForm
<1>4. QED
  BY <1>1, <1>3, FieldsKeep

-----------------------------------------------------------------------------
(* Attempts *)

LEMMA BuiltFacts ==
    ASSUME NEW t \in TransactionFields, BodiesForm(t), HasSigned(t),
           NEW i \in 1..N,
           NEW b, b = [j \in 1..(IF Len(t.built) < i THEN i ELSE Len(t.built)) |->
                         IF j = i THEN t.signed[i].node
                         ELSE IF j \in DOMAIN t.built THEN t.built[j] ELSE NoNode]
    PROVE  /\ b \in Seq(Range(Nodes) \cup {NoNode})
           /\ Len(t.built) <= N => Len(b) <= N
           /\ t.built = Nodes => b = Nodes
<1> PICK n \in Nat : n = N
  BY NodeFacts
<1> PICK built \in Seq(Range(Nodes) \cup {NoNode}) : built = t.built
  BY DEF TransactionFields
<1> PICK l \in Nat : l = Len(built) /\ DOMAIN built = 1..l
  OBVIOUS
<1> PICK node : node = t.signed[i].node
  OBVIOUS
<1>1. node = Nodes[i] /\ node \in Range(Nodes)
  BY NodeFacts DEF BodiesForm
<1> PICK m : m = IF l < i THEN i ELSE l
  OBVIOUS
<1>2. m \in Nat /\ (l <= n => m <= n)
  OBVIOUS
<1>3. b = [j \in 1..m |-> IF j = i THEN node
                          ELSE IF j \in 1..l THEN built[j] ELSE NoNode]
  OBVIOUS
<1>4. \A j \in 1..m : b[j] \in Range(Nodes) \cup {NoNode}
  BY <1>1, <1>3
<1>5. b \in Seq(Range(Nodes) \cup {NoNode}) /\ Len(b) = m
  <2>1. PICK X : X = Range(Nodes) \cup {NoNode}
    OBVIOUS
  <2>2. b = [j \in 1..m |-> b[j]] /\ \A j \in 1..m : b[j] \in X
    BY <1>3, <1>4, <2>1
  <2>3. b \in [1..m -> X]
    BY <2>2
  <2>4. b \in Seq(X) /\ Len(b) = m
    BY <1>2, <2>3
  <2>5. QED
    BY <2>1, <2>4
<1>6. built = Nodes => b = Nodes
  <2> SUFFICES ASSUME built = Nodes
               PROVE  b = Nodes
    OBVIOUS
  <2>1. l = n /\ Nodes = [j \in 1..n |-> Nodes[j]]
    BY NodeFacts
  <2>2. m = n
    BY <2>1
  <2>3. \A j \in 1..n : b[j] = Nodes[j]
    BY <1>1, <1>3, <2>1, <2>2
  <2>4. b = [j \in 1..n |-> b[j]]
    BY <1>3, <2>2
  <2>5. QED
    BY <2>1, <2>3, <2>4
<1>7. QED
  BY <1>2, <1>5, <1>6

\* Without signing on demand: what was signed is sent.
LEMMA AttemptKeeps ==
    ASSUME NEW t, NEW sg, NEW sp, NEW ex, NEW en, NEW gi, NEW mi,
           Forms(t, sg, sp, ex, en, gi, mi), ex.at = "turn", ~ t.onDemand,
           NEW u, u = Advanced(Built(t, t.index + 1)),
           NEW ex2, ex2 = Sent(Nodes[t.index + 1], t.signed[t.index + 1])
    PROVE  Forms(u, sg, sp, ex2, en, gi, mi)
<1>0. /\ t \in TransactionFields /\ BodiesForm(t)
      /\ ExecutionForm(t, ex) /\ EncodingForm(t, en) /\ IdsForm(t, ex, mi)
      /\ PairsForm(t, ex, mi)
  BY DEF Forms
<1>1. HasSigned(t)
  BY <1>0 DEF ExecutionForm, IsFrozen
<1> PICK i : i = t.index + 1
  OBVIOUS
<1>2. i \in 1..N
  BY <1>0, TurnFacts DEF TransactionFields
<1>3. /\ i \in DOMAIN t.signed /\ t.signed[i] \in Body
      /\ t.signed[i].node = Nodes[i] /\ Own(t.signed[i].sigs)
  <2>1. t.signed \in Seq(Body) /\ Len(t.signed) = N
    BY <1>0, <1>1 DEF TransactionFields, BodiesForm
  <2>2. i \in DOMAIN t.signed
    BY <1>2, <2>1
  <2>3. QED
    BY <1>0, <1>1, <1>2, <2>1, <2>2 DEF BodiesForm
<1>b. PICK b :
           b = [j \in 1..(IF Len(t.built) < i THEN i ELSE Len(t.built)) |->
                   IF j = i THEN t.signed[i].node
                   ELSE IF j \in DOMAIN t.built THEN t.built[j] ELSE NoNode]
  OBVIOUS
<1>v. PICK v : v = Built(t, i)
  OBVIOUS
<1>4. v = [t EXCEPT !.built = b]
  BY <1>b, <1>v DEF Built
<1>5. /\ b \in Seq(Range(Nodes) \cup {NoNode})
      /\ Len(t.built) <= N => Len(b) <= N
      /\ t.built = Nodes => b = Nodes
  BY <1>0, <1>1, <1>2, <1>b, BuiltFacts
<1>6. /\ Forms(v, sg, sp, ex, en, gi, mi) /\ ~ v.onDemand
      /\ v.built = b /\ v.signed = t.signed /\ v.index = t.index
  BY <1>4, <1>5, RebuiltKeeps
<1>7. en.at # "making"
  BY <1>0 DEF EncodingForm
<1>u. u = Advanced(v)
  BY <1>v
<1>8. Forms(u, sg, sp, ex, en, gi, mi)
  BY <1>6, <1>7, <1>u, AdvancedKeeps
<1>9. u.signed = t.signed /\ u.id = t.id /\ ~ u.onDemand
  <2>1. v \in TransactionFields /\ v.id = t.id
    BY <1>0, <1>4, <1>6 DEF Forms, TransactionFields
  <2>2. u.signed = v.signed /\ u.id = v.id /\ u.onDemand = v.onDemand
    BY <1>u, <2>1, AdvancedFacts
  <2>3. QED
    BY <1>6, <2>1, <2>2
<1>10. /\ ex2.at = "sent" /\ ex2.node = Nodes[i] /\ ex2.request = t.signed[i]
  BY DEF Sent
<1>11. ExecutionForm(u, ex2)
  BY <1>1, <1>3, <1>9, <1>10 DEF ExecutionForm, IsFrozen, HasSigned
<1>12. IdsForm(u, ex2, mi)
  BY <1>0, <1>3, <1>9, <1>10 DEF IdsForm
<1>13. PairsForm(u, ex2, mi)
  <2>1. PairsForm(u, ex, mi)
    BY <1>8 DEF Forms
  <2>2. QED
    BY <1>3, <1>10, <2>1 DEF PairsForm
<1>14. QED
  BY <1>8, <1>11, <1>12, <1>13 DEF Forms

\* Who is asked to sign next, if anyone.
LEMMA AskedFacts ==
    ASSUME NEW t \in TransactionFields, NEW m \in Making,
           NEW q, q = Asked(m, t)
    PROVE  /\ q \in Making
           /\ q.node = m.node /\ q.id = m.id /\ q.sigs = m.sigs
           /\ InStep(t) /\ q.pair # <<>> => q.pair[1] = q.pair[2]
<1> PICK keys \in Seq(Key), signers \in Seq(Key \cup {NoSigner}) :
       keys = t.publicKeys /\ signers = t.signers
  BY DEF TransactionFields
<1> PICK l \in Nat, a \in Nat : /\ l = Len(signers) /\ DOMAIN signers = 1..l
                                /\ a = Len(keys) /\ DOMAIN keys = 1..a
  OBVIOUS
<1> PICK c \in Nat : c = m.next
  BY DEF Making
<1>t. PICK turns : turns = {j \in DOMAIN keys \cap DOMAIN signers :
                                j >= c /\ signers[j] # NoSigner}
  OBVIOUS
<1>1. CASE turns = {}
  <2>1. q = [m EXCEPT !.pair = <<>>]
    BY <1>1, <1>t DEF Asked
  <2>2. QED
    BY <2>1 DEF Making
<1>2. CASE turns # {}
  <2>1. turns \in SUBSET Nat /\ turns \in SUBSET (1..l)
    <3>1. \A j \in turns : j \in 1..l
      BY <1>t
    <3>2. QED
      BY <3>1
  <2>2. IsFiniteSet(1..l)
    <3>1. \A b \in Int : IsFiniteSet(1..b)
      <4>1. 1 \in Int
        OBVIOUS
      <4>2. QED
        BY ONLY <4>1, FS_Interval
    <3>2. QED
      BY <3>1
  <2>3. IsFiniteSet(turns)
    BY <2>1, <2>2, FS_Subset
  <2>j. PICK j : j = Min(turns)
    OBVIOUS
  <2>4. j \in turns
    BY <1>2, <2>1, <2>3, <2>j, MinFacts
  <2>5. j \in 1..l /\ j \in 1..a /\ signers[j] # NoSigner
    BY <1>t, <2>4
  <2> PICK x, y : x = keys[j] /\ y = signers[j]
    OBVIOUS
  <2>6. x \in Key /\ y \in Key
    <3>1. keys[j] \in Key
      BY <2>5
    <3>2. signers[j] \in Key \cup {NoSigner}
      BY <2>5
    <3>3. QED
      BY <2>5, <3>1, <3>2
  <2> PICK p : p = <<x, y>>
    OBVIOUS
  <2>7. p \in Signatures /\ p[1] = x /\ p[2] = y
    BY <2>6 DEF Signatures
  <2>8. q = [m EXCEPT !.next = j + 1, !.pair = p]
    BY <1>2, <1>t, <2>j DEF Asked
  <2>9. j + 1 \in Nat
    BY <2>5
  <2>10. /\ q \in Making /\ q.pair = p
         /\ q.node = m.node /\ q.id = m.id /\ q.sigs = m.sigs
    BY <2>7, <2>8, <2>9 DEF Making
  <2>11. InStep(t) => x = y
    BY <2>5 DEF InStep
  <2>12. QED
    BY <2>7, <2>10, <2>11
<1>3. QED
  BY <1>1, <1>2

LEMMA MadeFacts ==
    ASSUME NEW t \in TransactionFields, NEW q, q = Made(t)
    PROVE  /\ q \in Making /\ q.node = t.index /\ q.id = t.id /\ Own(q.sigs)
           /\ InStep(t) /\ q.pair # <<>> => q.pair[1] = q.pair[2]
<1> PICK none \in SignatureMaps : none = NoSignatures /\ Own(none)
  BY NoSignaturesFacts
<1> PICK e : e = <<>>
  OBVIOUS
<1> PICK m : m = [node |-> t.index, id |-> t.id, sigs |-> none, next |-> 1,
                  pair |-> e]
  OBVIOUS
<1>1. /\ m \in Making /\ m.node = t.index /\ m.id = t.id /\ m.sigs = none
  BY DEF Making, TransactionFields
<1>2. q = Asked(m, t)
  BY DEF Made
<1>3. QED
  BY <1>1, <1>2, AskedFacts

LEMMA AnsweredFacts ==
    ASSUME NEW t \in TransactionFields, NEW m \in Making, m.pair # <<>>,
           NEW q, q = Answered(m, t)
    PROVE  /\ q \in Making /\ q.node = m.node /\ q.id = m.id
           /\ Own(m.sigs) /\ m.pair[1] = m.pair[2] => Own(q.sigs)
           /\ InStep(t) /\ q.pair # <<>> => q.pair[1] = q.pair[2]
<1> PICK sigs \in SignatureMaps, p \in Signatures : sigs = m.sigs /\ p = m.pair
  BY DEF Making
<1> PICK x \in Key, y \in Key : p = <<x, y>>
  BY DEF Signatures
<1>m. PICK more : more = Added(sigs, p)
  OBVIOUS
<1>1. more \in SignatureMaps /\ (Own(sigs) /\ x = y => Own(more))
  <2>1. p = <<x, y>>
    OBVIOUS
  <2>2. more = Added(sigs, <<x, y>>)
    BY <1>m
  <2>3. QED
    BY <2>2, AddedFacts
<1>r. PICK r : r = [m EXCEPT !.sigs = more]
  OBVIOUS
<1>2. r \in Making /\ r.node = m.node /\ r.id = m.id /\ r.sigs = more
  BY <1>1, <1>r DEF Making
<1>3. q = Asked(r, t)
  BY <1>m, <1>r DEF Answered
<1>4. /\ q \in Making
      /\ q.node = r.node /\ q.id = r.id /\ q.sigs = r.sigs
      /\ InStep(t) /\ q.pair # <<>> => q.pair[1] = q.pair[2]
  BY <1>2, <1>3, AskedFacts
<1>5. p[1] = x /\ p[2] = y
  OBVIOUS
<1>6. QED
  BY <1>1, <1>2, <1>4, <1>5

\* With signing on demand: the body is asked to be signed, or it is sent.
LEMMA ProgressKeeps ==
    ASSUME NEW t, NEW sg, NEW sp, NEW ex, NEW en, NEW gi, NEW mi,
           Forms(t, sg, sp, ex, en, gi, mi), IsFrozen(t),
           en.at # "making" \/ "turned" \in mi,
           NEW m \in Making, NEW node, node = Nodes[m.node + 1],
           {"frozen again", "stale bodies"} \cap mi # {} \/ m.id = t.id,
           \/ "wrong pair" \in mi
           \/ Own(m.sigs) /\ (m.pair # <<>> => m.pair[1] = m.pair[2]),
           NEW u, NEW ex2,
           \/ IsSigned(m) /\ ex2 = Sent(node, RequestOf(m)) /\ u = Advanced(t)
           \/ /\ ~ IsSigned(m) /\ u = t
              /\ ex2 = [at |-> "making", node |-> node, made |-> m]
    PROVE  Forms(u, sg, sp, ex2, en, gi, mi)
<1>0. /\ t \in TransactionFields /\ IdsForm(t, ex, mi) /\ PairsForm(t, ex, mi)
  BY DEF Forms
<1>1. /\ m.node \in 0..(N - 1) /\ m.id \in 0..MaxId /\ m.sigs \in SignatureMaps
  BY DEF Making
<1>2. CASE /\ IsSigned(m) /\ ex2 = Sent(node, RequestOf(m)) /\ u = Advanced(t)
  <2>1. Forms(u, sg, sp, ex, en, gi, mi) /\ IsFrozen(u)
    BY <1>2, AdvancedKeeps
  <2>2. u.signed = t.signed /\ u.id = t.id /\ u.onDemand = t.onDemand
    BY <1>0, <1>2, AdvancedFacts
  <2>r. PICK r : r = RequestOf(m)
    OBVIOUS
  <2>3. r \in Body /\ r.node = node /\ r.id = m.id /\ r.sigs = m.sigs
    <3>1. node \in Range(Nodes)
      BY <1>1, TurnFacts, NodeFacts
    <3>2. QED
      BY <1>1, <2>r, <3>1 DEF RequestOf, Body
  <2>4. ex2.at = "sent" /\ ex2.node = node /\ ex2.request = r
    BY <1>2, <2>r DEF Sent
  <2>5. ExecutionForm(u, ex2)
    BY <2>1, <2>3, <2>4 DEF ExecutionForm
  <2>6. IdsForm(u, ex2, mi)
    BY <1>0, <2>2, <2>3, <2>4 DEF IdsForm
  <2>7. PairsForm(u, ex2, mi)
    <3>1. PairsForm(u, ex, mi)
      BY <2>1 DEF Forms
    <3>2. QED
      BY <2>3, <2>4, <3>1 DEF PairsForm
  <2>8. QED
    BY <2>1, <2>5, <2>6, <2>7 DEF Forms
<1>3. CASE /\ ~ IsSigned(m) /\ u = t
           /\ ex2 = [at |-> "making", node |-> node, made |-> m]
  <2>1. ex2.at = "making" /\ ex2.node = node /\ ex2.made = m /\ m.pair # <<>>
    BY <1>3 DEF IsSigned
  <2>2. ExecutionForm(u, ex2)
    BY <1>3, <2>1 DEF ExecutionForm
  <2>3. IdsForm(u, ex2, mi)
    BY <1>0, <1>3, <2>1 DEF IdsForm
  <2>4. PairsForm(u, ex2, mi)
    BY <1>0, <1>3, <2>1 DEF PairsForm
  <2>5. QED
    BY <1>3, <2>2, <2>3, <2>4 DEF Forms
<1>4. QED
  BY <1>2, <1>3

-----------------------------------------------------------------------------
(* Encoding *)

LEMMA IdsLocked ==
    ASSUME NEW t, NEW sg, NEW sp, NEW ex, NEW en, NEW gi, NEW mi,
           Forms(t, sg, sp, ex, en, gi, mi),
           NEW u, u = [t EXCEPT !.locked = @ \cup {"ids"}]
    PROVE  /\ Forms(u, sg, sp, ex, en, gi, mi) /\ (IsFrozen(t) => IsFrozen(u))
           /\ u.signed = t.signed /\ u.onDemand = t.onDemand
           /\ u.built = t.built /\ u.index = t.index
<1>0. t \in TransactionFields /\ EntriesForm(t, en, gi, mi)
  BY DEF Forms
<1>1. PICK l : l = t.locked \cup {"ids"}
  OBVIOUS
<1>2. l \in SUBSET {"ids", "transactions", "signed"}
  BY <1>0, <1>1 DEF TransactionFields
<1>3. u = [t EXCEPT !.locked = l]
  BY <1>1
<1>4. /\ u \in TransactionFields /\ u.index = t.index
      /\ u.built = t.built /\ u.locked = t.locked \cup {"ids"}
      /\ u.onDemand = t.onDemand /\ u.signed = t.signed /\ u.id = t.id
      /\ u.signerKeys = t.signerKeys
      /\ u.publicKeys = t.publicKeys /\ u.signers = t.signers
  BY <1>0, <1>1, <1>2, <1>3 DEF TransactionFields
<1>5. "transactions" \in u.locked <=> "transactions" \in t.locked
  BY <1>4
<1>6. EntriesForm(u, en, gi, mi)
  BY <1>0, <1>4, <1>5 DEF EntriesForm
<1>7. Forms(u, sg, sp, ex, en, gi, mi)
  BY <1>4, <1>6, FieldsKeep
<1>8. QED
  BY <1>4, <1>7 DEF IsFrozen, HasSigned

LEMMA EncodingEnds ==
    ASSUME NEW t, NEW sg, NEW sp, NEW ex, NEW en, NEW gi, NEW mi,
           Forms(t, sg, sp, ex, en, gi, mi)
    PROVE  Forms(t, sg, sp, ex, Idle, gi, mi)
<1>0. EncodingForm(t, en) /\ EntriesForm(t, en, gi, mi)
  BY DEF Forms
<1>1. Idle.at = "idle"
  BY DEF Idle
<1>2. EncodingForm(t, Idle)
  BY <1>1 DEF EncodingForm
<1>3. EntriesForm(t, Idle, gi, mi)
  BY <1>0, <1>1 DEF EntriesForm
<1>4. QED
  BY <1>2, <1>3 DEF Forms

\* All entries are there, to be read when the await is over.
LEMMA EncodingIsMade ==
    ASSUME NEW t, NEW sg, NEW sp, NEW ex, NEW gi, NEW mi,
           Forms(t, sg, sp, ex, Idle, gi, mi), HasSigned(t),
           Disorders \cap mi # {} \/ t.built = Nodes, NEW locks \in BOOLEAN,
           NEW en, en = [at |-> "made", locks |-> locks]
    PROVE  Forms(t, sg, sp, ex, en, gi, mi)
<1>0. EntriesForm(t, Idle, gi, mi)
  BY DEF Forms
<1>1. en.at = "made" /\ en \in [at : {"made"}, locks : BOOLEAN]
  OBVIOUS
<1>2. EncodingForm(t, en)
  BY <1>1 DEF EncodingForm
<1>3. EntriesForm(t, en, gi, mi)
  BY <1>0, <1>1 DEF EntriesForm
<1>4. QED
  BY <1>2, <1>3 DEF Forms

\* What is given out has all nodes, and may be locked with the bodies.
LEMMA GivenOut ==
    ASSUME NEW t, NEW sg, NEW sp, NEW ex, NEW gi, NEW mi,
           Forms(t, sg, sp, ex, Idle, gi, mi), HasSigned(t),
           Disorders \cap mi # {} \/ t.built = Nodes, NEW locks \in BOOLEAN,
           NEW u, u = IF locks
                      THEN [t EXCEPT !.locked = @ \cup {"transactions", "signed"}]
                      ELSE t
    PROVE  Forms(u, sg, sp, ex, Idle, t.built, mi)
<1>0. /\ t \in TransactionFields /\ BodiesForm(t) /\ IdsForm(t, ex, mi)
      /\ ExecutionForm(t, ex) /\ SigningForm(t, sg) /\ SignersForm(t, sg, sp)
      /\ PairsForm(t, ex, mi)
  BY DEF Forms
<1>1. PICK l : l = t.locked \cup {"transactions", "signed"}
  OBVIOUS
<1>2. l \in SUBSET {"ids", "transactions", "signed"}
  BY <1>0, <1>1 DEF TransactionFields
<1>3. /\ u \in TransactionFields /\ u.built = t.built
      /\ u.onDemand = t.onDemand /\ u.signed = t.signed /\ u.id = t.id
      /\ u.signerKeys = t.signerKeys
      /\ u.publicKeys = t.publicKeys /\ u.signers = t.signers
  <2>1. CASE locks
    <3>1. u = [t EXCEPT !.locked = l]
      BY <1>1, <2>1
    <3>2. QED
      BY <1>0, <1>2, <3>1 DEF TransactionFields
  <2>2. CASE ~ locks
    BY <1>0, <2>2
  <2>3. QED
    BY <2>1, <2>2
<1>4. HasSigned(u)
  BY <1>3 DEF HasSigned
<1>5. BodiesForm(u)
  BY <1>0, <1>3, <1>4 DEF BodiesForm
<1>6. ExecutionForm(u, ex) /\ IdsForm(u, ex, mi)
  BY <1>0, <1>3, <1>4 DEF ExecutionForm, IdsForm, IsFrozen
<1>7. SigningForm(u, sg) /\ SignersForm(u, sg, sp)
  BY <1>0, <1>3, <1>4 DEF SigningForm, SignersForm
<1>8. PairsForm(u, ex, mi)
  <2>1. InStep(t) => InStep(u)
    BY <1>3 DEF InStep
  <2>2. QED
    BY <1>0, <2>1, PairsKept
<1>9. EncodingForm(u, Idle)
  BY DEF EncodingForm, Idle
<1>10. EntriesForm(u, Idle, t.built, mi)
  <2>1. CASE Disorders \cap mi # {}
    BY <2>1 DEF EntriesForm
  <2>2. CASE t.built = Nodes
    <3>1. Len(t.built) <= N
      BY <2>2, NodeFacts
    <3>2. Idle.at = "idle"
      BY DEF Idle
    <3>3. QED
      BY <1>3, <2>2, <3>1, <3>2 DEF EntriesForm
  <2>3. QED
    BY <2>1, <2>2
<1>11. QED
  BY <1>3, <1>5, <1>6, <1>7, <1>8, <1>9, <1>10 DEF Forms

\* An entry is made for the node whose turn it is, if nothing is in disorder
\* the one after those that are there.
LEMMA EntryBegun ==
    ASSUME NEW t, NEW sg, NEW sp, NEW ex, NEW gi, NEW mi,
           Forms(t, sg, sp, ex, Idle, gi, mi), HasSigned(t), t.onDemand,
           "transactions" \notin t.locked,
           NEW left \in 1..N, NEW locks \in BOOLEAN,
           \/ Disorders \cap mi # {}
           \/ /\ Len(t.built) = N - left /\ t.index = N - left
              /\ \A j \in DOMAIN t.built : t.built[j] = Nodes[j],
           NEW u, u = Advanced(t),
           NEW en, en = [at |-> "making", made |-> Made(t), left |-> left,
                         locks |-> locks]
    PROVE  Forms(u, sg, sp, ex, en, gi, mi)
<1>0. /\ t \in TransactionFields /\ EntriesForm(t, Idle, gi, mi)
  BY DEF Forms
<1>1. Forms(u, sg, sp, ex, Idle, gi, mi)
  BY AdvancedKeeps DEF Idle
<1>2. /\ u \in TransactionFields /\ u.index = (t.index + 1) % N
      /\ u.built = t.built /\ u.locked = t.locked
      /\ u.onDemand = t.onDemand /\ u.signed = t.signed
  BY <1>0, AdvancedFacts
<1>m. PICK m : m = Made(t)
  OBVIOUS
<1>3. m \in Making /\ m.node = t.index
  BY <1>0, <1>m, MadeFacts
<1>4. /\ en \in [at : {"making"}, made : Making, left : 1..N, locks : BOOLEAN]
      /\ en.at = "making" /\ en.made = m /\ en.left = left
  BY <1>m, <1>3
<1>5. EncodingForm(u, en)
  BY <1>2, <1>4 DEF EncodingForm, HasSigned
<1>6. EntriesForm(u, en, gi, mi)
  <2>1. CASE Disorders \cap mi # {}
    BY <2>1 DEF EntriesForm
  <2>2. CASE Disorders \cap mi = {}
    <3>1. /\ Len(t.built) = N - left /\ t.index = N - left
          /\ \A j \in DOMAIN t.built : t.built[j] = Nodes[j]
      BY <2>2
    <3>2. gi = Nodes /\ Len(t.built) <= N
      BY <1>0, <2>2 DEF EntriesForm
    <3>3. u.index = (en.made.node + 1) % N /\ en.made.node = N - en.left
      BY <1>2, <1>3, <1>4, <3>1
    <3>4. QED
      BY <1>2, <1>4, <3>1, <3>2, <3>3 DEF EntriesForm
  <2>3. QED
    BY <2>1, <2>2
<1>7. QED
  BY <1>1, <1>5, <1>6 DEF Forms

\* All bodies are encoded: nothing else is on the list, unless in disorder.
LEMMA BuiltAllKeeps ==
    ASSUME NEW t, NEW sg, NEW sp, NEW ex, NEW en, NEW gi, NEW mi,
           Forms(t, sg, sp, ex, en, gi, mi), ~ t.onDemand, HasSigned(t),
           NEW u, u = BuiltAll(t)
    PROVE  /\ Forms(u, sg, sp, ex, en, gi, mi) /\ HasSigned(u)
           /\ Disorders \cap mi # {} \/ u.built = Nodes
<1>0. /\ t \in TransactionFields /\ BodiesForm(t) /\ EntriesForm(t, en, gi, mi)
  BY DEF Forms
<1> PICK n \in Nat : n = N
  BY NodeFacts
<1>1. PICK X : X = Range(Nodes) \cup {NoNode}
  OBVIOUS
<1>2. /\ t.signed \in Seq(Body) /\ Len(t.signed) = n
      /\ \A j \in 1..n : t.signed[j].node = Nodes[j]
  BY <1>0 DEF BodiesForm, TransactionFields
<1>3. PICK built \in Seq(X) : built = t.built
  BY <1>0, <1>1 DEF TransactionFields
<1>4. PICK l \in Nat : l = Len(built) /\ DOMAIN built = 1..l
  BY <1>3
<1>5. PICK m : m = IF l < n THEN n ELSE l
  OBVIOUS
<1>6. m \in Nat /\ (l <= n => m = n)
  BY <1>5
<1>b. PICK b : b = [j \in 1..m |-> IF j \in 1..n THEN Nodes[j] ELSE built[j]]
  OBVIOUS
<1>7. \A j \in 1..m : b[j] \in X
  <2>1. \A j \in 1..n : Nodes[j] \in X
    BY <1>1, NodeFacts
  <2>2. \A j \in 1..m : j \in 1..n \/ j \in 1..l
    BY <1>5
  <2>3. \A j \in 1..l : built[j] \in X
    BY <1>3, <1>4
  <2>4. QED
    BY <1>b, <2>1, <2>2, <2>3
<1>8. b \in Seq(X) /\ Len(b) = m
  <2>1. b \in [1..m -> X]
    BY <1>7, <1>b
  <2>2. QED
    BY <1>6, <2>1
<1>9. u = [t EXCEPT !.built = b]
  <2>1. DOMAIN t.signed = 1..n
    BY <1>2
  <2>2. \A j \in 1..n : t.signed[j].node = Nodes[j]
    BY <1>2
  <2>3. m = IF Len(t.built) < Len(t.signed) THEN Len(t.signed) ELSE Len(t.built)
    BY <1>2, <1>3, <1>4, <1>5
  <2>4. b = [j \in 1..m |-> IF j \in DOMAIN t.signed THEN t.signed[j].node
                            ELSE t.built[j]]
    BY <1>3, <1>b, <2>1, <2>2
  <2>5. QED
    BY <2>3, <2>4 DEF BuiltAll
<1>10. Len(t.built) <= N => Len(b) <= N
  BY <1>3, <1>4, <1>6, <1>8
<1>11. b \in Seq(Range(Nodes) \cup {NoNode})
  BY <1>1, <1>8
<1>a. l <= n => b = Nodes
  <2> SUFFICES ASSUME l <= n
               PROVE  b = Nodes
    OBVIOUS
  <2>1. m = n
    BY <1>6
  <2>2. b = [j \in 1..n |-> Nodes[j]]
    BY <1>b, <2>1
  <2>3. Nodes = [j \in 1..n |-> Nodes[j]]
    BY NodeFacts
  <2>4. QED
    BY <2>2, <2>3
<1>c. t.built = Nodes => b = Nodes
  BY <1>a, <1>3, <1>4, NodeFacts
<1>12. /\ Forms(u, sg, sp, ex, en, gi, mi) /\ u.built = b
       /\ u.signed = t.signed
  BY <1>9, <1>10, <1>11, <1>c, RebuiltKeeps
<1>13. Disorders \cap mi # {} \/ b = Nodes
  <2>1. Disorders \cap mi = {} => l <= n
    BY <1>0, <1>3, <1>4 DEF EntriesForm
  <2>2. QED
    BY <1>a, <2>1
<1>14. QED
  BY <1>12, <1>13 DEF HasSigned

\* Bodies are made for a transaction that signs on demand. Nobody has signed
\* those that it had.
LEMMA BodiesMade ==
    ASSUME NEW t, NEW sg, NEW sp, NEW ex, NEW en, NEW gi, NEW mi,
           Forms(t, sg, sp, ex, en, gi, mi), t.onDemand, en.at # "making",
           NEW u, u = BuildSigned(t),
           NEW sg2, sg2 = IF "signed" \in t.locked THEN sg
                          ELSE [k \in DOMAIN sg |->
                                   [sg[k] EXCEPT !.current = FALSE]]
    PROVE  /\ Forms(u, sg2, sp, ex, en, gi, mi) /\ HasSigned(u)
           /\ u.onDemand /\ u.index = t.index /\ u.built = t.built
           /\ u.locked = t.locked
<1>0. /\ t \in TransactionFields /\ BodiesForm(t) /\ IdsForm(t, ex, mi)
      /\ ExecutionForm(t, ex) /\ EncodingForm(t, en)
      /\ SigningForm(t, sg) /\ SignersForm(t, sg, sp)
      /\ PairsForm(t, ex, mi) /\ EntriesForm(t, en, gi, mi)
  BY DEF Forms
<1>1. CASE "signed" \in t.locked
  <2>1. u = t /\ sg2 = sg
    BY <1>1 DEF BuildSigned
  <2>2. HasSigned(t)
    BY <1>0, <1>1 DEF BodiesForm
  <2>3. QED
    BY <2>1, <2>2
<1>2. CASE "signed" \notin t.locked
  <2>1. PICK b : b = Bodies(t.id)
    OBVIOUS
  <2>2. /\ b \in Seq(Body) /\ b # <<>> /\ Len(b) = N /\ DOMAIN b = 1..N
        /\ \A i \in 1..N :
              /\ b[i].node = Nodes[i] /\ b[i].id = t.id
              /\ Own(b[i].sigs)
              /\ \A k \in Key : b[i].sigs[<<k, k>>] = 0
    <3>1. PICK id \in 0..MaxId : id = t.id
      BY <1>0 DEF TransactionFields
    <3>2. b = Bodies(id)
      BY <2>1, <3>1
    <3>3. QED
      BY <3>1, <3>2, BodiesFacts
  <2>3. u = [t EXCEPT !.signed = b]
    BY <1>2, <2>1 DEF BuildSigned
  <2>4. /\ u \in TransactionFields /\ u.signed = b
        /\ u.index = t.index /\ u.built = t.built /\ u.locked = t.locked
        /\ u.onDemand = t.onDemand /\ u.id = t.id
        /\ u.signerKeys = t.signerKeys
        /\ u.publicKeys = t.publicKeys /\ u.signers = t.signers
    BY <1>0, <2>2, <2>3 DEF TransactionFields
  <2>5. HasSigned(u) /\ IsFrozen(u)
    BY <2>2, <2>4 DEF HasSigned, IsFrozen
  <2>6. BodiesForm(u)
    BY <2>2, <2>4, <2>5 DEF BodiesForm
  <2>7. ExecutionForm(u, ex) /\ EncodingForm(u, en)
    BY <1>0, <2>4, <2>5 DEF ExecutionForm, EncodingForm
  <2>8. IdsForm(u, ex, mi)
    BY <1>0, <2>4 DEF IdsForm
  <2>9. /\ DOMAIN sg2 = DOMAIN sg
        /\ sg2 \in [DOMAIN sg2 -> [next : 1..N, current : BOOLEAN]]
    BY <1>0 DEF SigningForm
  <2>10. SigningForm(u, sg2)
    BY <1>0, <2>5, <2>9 DEF SigningForm
  <2>11. SignersForm(u, sg2, sp)
    <3>1. DOMAIN sg2 \ sp = {}
      BY <1>0, <2>9 DEF SignersForm
    <3>2. \A i \in DOMAIN u.signed, k \in Key : u.signed[i].sigs[<<k, k>>] = 0
      BY <2>2, <2>4
    <3>3. QED
      BY <2>4, <3>1, <3>2 DEF SignersForm
  <2>12. PairsForm(u, ex, mi)
    <3>1. InStep(t) => InStep(u)
      BY <2>4 DEF InStep
    <3>2. QED
      BY <1>0, <3>1, PairsKept
  <2>13. EntriesForm(u, en, gi, mi)
    BY <1>0, <2>4 DEF EntriesForm
  <2>14. QED
    BY <2>4, <2>5, <2>6, <2>7, <2>8, <2>10, <2>11, <2>12, <2>13 DEF Forms
<1>3. QED
  BY <1>1, <1>2

\* An entry is asked to be signed.
LEMMA EntryAnswered ==
    ASSUME NEW t, NEW sg, NEW sp, NEW ex, NEW en, NEW gi, NEW mi,
           Forms(t, sg, sp, ex, en, gi, mi), en.at = "making",
           NEW m \in Making, m.node = en.made.node,
           NEW en2, en2 = [en EXCEPT !.made = m]
    PROVE  Forms(t, sg, sp, ex, en2, gi, mi)
<1>0. EncodingForm(t, en) /\ EntriesForm(t, en, gi, mi)
  BY DEF Forms
<1>1. /\ en \in [at : {"making"}, made : Making, left : 1..N, locks : BOOLEAN]
      /\ HasSigned(t) /\ t.onDemand /\ "transactions" \notin t.locked
  BY <1>0 DEF EncodingForm
<1>2. /\ en2 \in [at : {"making"}, made : Making, left : 1..N, locks : BOOLEAN]
      /\ en2.made = m /\ en2.left = en.left /\ en2.at = "making"
  BY <1>1
<1>3. EncodingForm(t, en2)
  BY <1>1, <1>2 DEF EncodingForm
<1>4. EntriesForm(t, en2, gi, mi)
  BY <1>0, <1>2 DEF EntriesForm
<1>5. QED
  BY <1>3, <1>4 DEF Forms

\* All entries but so many are there, and the turn is the next one's.
AllBut(t, left) ==
    /\ Len(t.built) = N - left /\ t.index = N - left
    /\ \A j \in DOMAIN t.built : t.built[j] = Nodes[j]

\* It is put on the list, which then has all nodes or all before the turn.
Pushed(t, en) ==
    [t EXCEPT !.built = Append(@, Nodes[en.made.node + 1])]

LEMMA EntryPushed ==
    ASSUME NEW t, NEW sg, NEW sp, NEW ex, NEW en, NEW gi, NEW mi,
           Forms(t, sg, sp, ex, en, gi, mi), en.at = "making",
           NEW u, u = Pushed(t, en)
    PROVE  /\ Forms(u, sg, sp, ex, Idle, gi, mi) /\ HasSigned(u) /\ u.onDemand
           /\ "transactions" \notin u.locked
           /\ en.left \in 1..N /\ en.locks \in BOOLEAN
           /\ \/ Disorders \cap mi # {}
              \/ en.left = 1 /\ u.built = Nodes
              \/ en.left # 1 /\ AllBut(u, en.left - 1)
<1>0. /\ Forms(t, sg, sp, ex, Idle, gi, mi)
      /\ t \in TransactionFields
      /\ EncodingForm(t, en) /\ EntriesForm(t, en, gi, mi)
  BY EncodingEnds DEF Forms
<1>1. /\ en \in [at : {"making"}, made : Making, left : 1..N, locks : BOOLEAN]
      /\ HasSigned(t) /\ t.onDemand /\ "transactions" \notin t.locked
  BY <1>0 DEF EncodingForm
<1>2. PICK n \in Nat \ {0} : n = N
  BY NodeFacts
<1>3. PICK c \in 1..n : c = en.left
  BY <1>1, <1>2
<1>4. PICK i \in 0..(n - 1) : i = en.made.node
  BY <1>1, <1>2 DEF Making
<1>5. PICK X : X = Range(Nodes) \cup {NoNode}
  OBVIOUS
<1>6. PICK built \in Seq(X) : built = t.built
  BY <1>0, <1>5 DEF TransactionFields
<1>7. PICK node \in X : node = Nodes[i + 1]
  <2>1. i + 1 \in 1..n
    BY <1>4
  <2>2. QED
    BY <1>2, <1>5, <2>1, NodeFacts
<1>8. PICK b : b = Append(built, node)
  OBVIOUS
<1>9. /\ b \in Seq(X) /\ Len(b) = Len(built) + 1 /\ b[Len(built) + 1] = node
      /\ \A j \in 1..Len(built) : b[j] = built[j]
  BY <1>6, <1>7, <1>8
<1>10. u = [t EXCEPT !.built = b]
  BY <1>4, <1>6, <1>7, <1>8 DEF Pushed
<1>11. /\ u \in TransactionFields /\ u.built = b /\ u.index = t.index
       /\ u.onDemand = t.onDemand /\ u.signed = t.signed /\ u.id = t.id
       /\ u.locked = t.locked /\ u.signerKeys = t.signerKeys
       /\ u.publicKeys = t.publicKeys /\ u.signers = t.signers
  BY <1>0, <1>5, <1>9, <1>10 DEF TransactionFields
<1>12. \/ Disorders \cap mi # {}
       \/ /\ gi = Nodes /\ Len(b) = n - c + 1 /\ Len(b) <= n
          /\ \A j \in 1..Len(b) : b[j] = Nodes[j]
          /\ i = n - c /\ t.index = (i + 1) % n
  <2> SUFFICES ASSUME Disorders \cap mi = {}
               PROVE  /\ gi = Nodes /\ Len(b) = n - c + 1 /\ Len(b) <= n
                      /\ \A j \in 1..Len(b) : b[j] = Nodes[j]
                      /\ i = n - c /\ t.index = (i + 1) % n
    OBVIOUS
  <2>1. /\ gi = Nodes /\ Len(built) = n - c /\ i = n - c
        /\ t.index = (i + 1) % n
        /\ \A j \in DOMAIN built : built[j] = Nodes[j]
    BY <1>0, <1>2, <1>3, <1>4, <1>6 DEF EntriesForm
  <2>2. Len(b) = n - c + 1 /\ Len(b) <= n
    BY <1>3, <1>9, <2>1
  <2>3. \A j \in 1..(n - c) : b[j] = Nodes[j]
    <3>1. DOMAIN built = 1..(n - c) /\ Len(built) = n - c
      BY <1>6, <2>1
    <3>2. ASSUME NEW j \in 1..(n - c)
          PROVE  b[j] = built[j] /\ built[j] = Nodes[j]
      BY <1>9, <2>1, <3>1
    <3>3. QED
      BY <3>2
  <2>4. b[n - c + 1] = Nodes[n - c + 1]
    BY <1>7, <1>9, <2>1
  <2>5. \A j \in 1..(n - c + 1) : j \in 1..(n - c) \/ j = n - c + 1
    BY <1>3
  <2>6. QED
    BY <2>1, <2>2, <2>3, <2>4, <2>5
<1>13. EntriesForm(u, Idle, gi, mi)
  <2>1. CASE Disorders \cap mi # {}
    BY <2>1 DEF EntriesForm
  <2>2. CASE Disorders \cap mi = {}
    <3>1. gi = Nodes /\ Len(u.built) <= N /\ "transactions" \notin u.locked
      BY <1>1, <1>2, <1>11, <1>12, <2>2
    <3>2. QED
      BY <3>1 DEF EntriesForm, Idle
  <2>3. QED
    BY <2>1, <2>2
<1>14. Forms(u, sg, sp, ex, Idle, gi, mi)
  BY <1>0, <1>11, <1>13, FieldsKeep
<1>15. \/ Disorders \cap mi # {}
       \/ c = 1 /\ b = Nodes
       \/ /\ c # 1 /\ Len(b) = n - (c - 1) /\ t.index = n - (c - 1)
          /\ \A j \in 1..Len(b) : b[j] = Nodes[j]
  <2>1. CASE Disorders \cap mi = {} /\ c = 1
    <3>1. Len(b) = n /\ \A j \in 1..n : b[j] = Nodes[j]
      BY <1>12, <2>1
    <3>2. b = [j \in 1..n |-> Nodes[j]]
      <4>1. b = [j \in 1..n |-> b[j]]
        BY <1>9, <3>1
      <4>2. QED
        BY <3>1, <4>1
    <3>3. Nodes = [j \in 1..n |-> Nodes[j]]
      BY <1>2, NodeFacts
    <3>4. QED
      BY <2>1, <3>2, <3>3
  <2>2. CASE Disorders \cap mi = {} /\ c # 1
    <3>1. i = n - c /\ Len(b) = n - c + 1 /\ t.index = (i + 1) % n
      BY <1>12, <2>2
    <3>2. i + 1 < n
      BY <1>3, <2>2, <3>1
    <3>3. i \in 0..(N - 1) /\ i + 1 < N
      BY <1>2, <1>4, <3>2
    <3>4. (i + 1) % N = i + 1
      BY ONLY <3>3, TurnFacts
    <3>5. t.index = n - (c - 1) /\ Len(b) = n - (c - 1)
      <4>1. t.index = i + 1
        BY <1>2, <3>1, <3>4
      <4>2. n - c + 1 = n - (c - 1)
        BY <1>2, <1>3
      <4>3. QED
        BY <3>1, <4>1, <4>2
    <3>6. QED
      BY <1>12, <2>2, <3>5
  <2>3. QED
    BY <2>1, <2>2
<1>16. DOMAIN b = 1..Len(b)
  BY <1>9
<1>17. \/ Disorders \cap mi # {}
       \/ en.left = 1 /\ u.built = Nodes
       \/ en.left # 1 /\ AllBut(u, en.left - 1)
  BY <1>2, <1>3, <1>11, <1>15, <1>16 DEF AllBut
<1>18. HasSigned(u) /\ u.onDemand /\ "transactions" \notin u.locked
  BY <1>1, <1>11 DEF HasSigned
<1>19. QED
  BY <1>1, <1>14, <1>17, <1>18

-----------------------------------------------------------------------------
(* Steps *)

\* What the steps prove.
NextForms ==
    /\ KnownForm'
    /\ Forms(tx', signing', spoiled', execution', encoding', given', mishaps')

CurrentForms ==
    KnownForm /\ Forms(tx, signing, spoiled, execution, encoding, given, mishaps)

LEMMA FreezeStep ==
    ASSUME CurrentForms, Freeze
    PROVE  NextForms
<1>0. /\ Forms(tx, signing, spoiled, execution, encoding, given, mishaps)
      /\ tx \in TransactionFields /\ signOnDemand \in BOOLEAN
  BY DEF CurrentForms, KnownForm, Forms
<1>1. PICK withClient \in BOOLEAN, onDemand \in BOOLEAN :
         /\ CanFreeze(tx, withClient)
         /\ tx' = Frozen(tx, onDemand, withClient)
         /\ signing' = Detached(Replaces(tx, onDemand))
         /\ spoiled' = spoiled \cup Unreliable(tx, tx', Replaces(tx, onDemand))
  <2>1. PICK withClient \in BOOLEAN :
           LET onDemand == withClient /\ signOnDemand
               t == Frozen(tx, onDemand, withClient)
           IN  /\ CanFreeze(tx, withClient)
               /\ tx' = t
               /\ signing' = Detached(Replaces(tx, onDemand))
               /\ spoiled' = spoiled \cup Unreliable(tx, t, Replaces(tx, onDemand))
    BY DEF Freeze
  <2>2. PICK onDemand \in BOOLEAN : onDemand = (withClient /\ signOnDemand)
    OBVIOUS
  <2>3. QED
    BY <2>1, <2>2
<1>2. PICK u, sg, sp : u = tx' /\ sg = signing' /\ sp = spoiled'
  OBVIOUS
<1>3. PICK mi : mi = mishaps \cup IF IsFrozen(tx) THEN {"frozen again"} ELSE {}
  OBVIOUS
<1>4. /\ mishaps' = mi
      /\ execution' = execution /\ encoding' = encoding /\ given' = given
      /\ signOnDemand' = signOnDemand
      /\ execution = Idle /\ encoding = Idle
  BY <1>3 DEF Freeze
<1>5. sp = spoiled \cup Unreliable(tx, u, Replaces(tx, onDemand))
  BY <1>1, <1>2
<1>6. Forms(tx, signing, sp, execution, encoding, given, mi)
  BY <1>0, <1>3, <1>5, MoreFlags
<1>7. u = Frozen(tx, onDemand, withClient)
  BY <1>1, <1>2
<1>8. FreezingIsFlagged(u, execution, mi)
  BY <1>3, <1>4 DEF FreezingIsFlagged, IsFrozen, HasSigned, Idle
<1>9. encoding.at \notin {"making", "made"}
  BY <1>4 DEF Idle
<1>10. Unreliable(tx, u, Replaces(tx, onDemand)) \subseteq sp
  BY <1>5
<1>11. sg = Detached(Replaces(tx, onDemand))
  BY <1>1, <1>2
<1>12. Forms(u, sg, sp, execution, encoding, given, mi)
  BY <1>1, <1>6, <1>7, <1>8, <1>9, <1>10, <1>11, FreezingKeeps
<1>13. KnownForm'
  <2>1. sp \subseteq Key
    BY <1>0, <1>5 DEF CurrentForms, KnownForm, Unreliable, TransactionFields
  <2>2. mi \subseteq Mishaps
    BY <1>3 DEF CurrentForms, KnownForm, Mishaps
  <2>3. QED
    BY <1>2, <1>4, <2>1, <2>2 DEF CurrentForms, KnownForm
<1>14. QED
  BY <1>2, <1>4, <1>12, <1>13 DEF NextForms

\* A key signs a frozen transaction.
LEMMA SignWithKeeps ==
    ASSUME NEW t, NEW sg, NEW sp, NEW ex, NEW en, NEW gi, NEW mi,
           Forms(t, sg, sp, ex, en, gi, mi), IsFrozen(t),
           NEW k \in Key, k \notin t.signerKeys, k \notin DOMAIN sg,
           LateIsFlagged(t, en, mi), NEW u, NEW sg2,
           IF t.onDemand
           THEN u = Paired(Recorded(t, k), k, k) /\ sg2 = sg
           ELSE /\ u = [Recorded(t, k) EXCEPT !.locked = @ \cup {"ids"}]
                /\ sg2 = With(sg, k, [next |-> 1, current |-> TRUE])
    PROVE  /\ Forms(u, sg2, sp, ex, en, gi, mi) /\ IsFrozen(u)
           /\ u.onDemand = t.onDemand
<1>0. t \in TransactionFields
  BY DEF Forms
<1>1. PICK v : v = Recorded(t, k)
  OBVIOUS
<1>2. /\ v \in TransactionFields
      /\ v.built = <<>> /\ v.signerKeys = t.signerKeys \cup {k}
      /\ v.onDemand = t.onDemand /\ v.locked = t.locked
      /\ v.id = t.id /\ v.index = t.index /\ v.signed = t.signed
      /\ v.publicKeys = t.publicKeys /\ v.signers = t.signers
  BY <1>0, <1>1, RecordedFacts
<1>3. CASE t.onDemand
  <2>1. u = Paired(Recorded(t, k), k, k) /\ sg2 = sg
    BY <1>3
  <2>2. Forms(u, sg, sp, ex, en, gi, mi)
    BY <1>3, <2>1, PairKeeps
  <2>3. PICK s \in Key \cup {NoSigner} : s = k
    OBVIOUS
  <2>4. u = Paired(v, k, s) /\ v \in TransactionFields
    BY <1>1, <1>2, <2>1, <2>3
  <2>5. u.onDemand = v.onDemand
    BY ONLY <2>4, k \in Key, s \in Key \cup {NoSigner}, PairedFacts
  <2>6. QED
    BY <1>2, <1>3, <2>1, <2>2, <2>5 DEF IsFrozen
<1>4. CASE ~ t.onDemand
  <2>1. /\ u = [Recorded(t, k) EXCEPT !.locked = @ \cup {"ids"}]
        /\ sg2 = With(sg, k, [next |-> 1, current |-> TRUE])
    BY <1>4
  <2>2. HasSigned(t)
    BY <1>4 DEF IsFrozen
  <2>3. Forms(u, sg2, sp, ex, en, gi, mi)
    BY <1>4, <2>1, <2>2, AwaitKeeps
  <2>4. u.onDemand = v.onDemand /\ u.signed = v.signed
    BY <1>1, <1>2, <2>1 DEF TransactionFields
  <2>5. QED
    BY <1>2, <2>2, <2>3, <2>4 DEF IsFrozen, HasSigned
<1>5. QED
  BY <1>3, <1>4

LEMMA SignStep ==
    ASSUME CurrentForms, NEW k \in Key, Sign(k)
    PROVE  NextForms
<1>0. Forms(tx, signing, spoiled, execution, encoding, given, mishaps)
  BY DEF CurrentForms
<1>1. PICK u, sg : u = tx' /\ sg = signing'
  OBVIOUS
<1>2. PICK mi : mi = mishaps \cup AddedLate(tx)
  OBVIOUS
<1>3. /\ mishaps' = mi /\ spoiled' = spoiled
      /\ execution' = execution /\ encoding' = encoding /\ given' = given
      /\ signOnDemand' = signOnDemand
      /\ IsFrozen(tx) /\ k \notin tx.signerKeys /\ k \notin DOMAIN signing
  BY <1>2 DEF Sign, SignWith
<1>4. IF tx.onDemand
      THEN u = Paired(Recorded(tx, k), k, k) /\ sg = signing
      ELSE /\ u = [Recorded(tx, k) EXCEPT !.locked = @ \cup {"ids"}]
           /\ sg = With(signing, k, [next |-> 1, current |-> TRUE])
  BY <1>1 DEF Sign, SignWith
<1>5. Forms(tx, signing, spoiled, execution, encoding, given, mi)
  BY <1>0, <1>2, MoreFlags
<1>6. LateIsFlagged(tx, encoding, mi)
  BY <1>2 DEF LateIsFlagged, AddedLate
<1>7. Forms(u, sg, spoiled, execution, encoding, given, mi)
  BY <1>3, <1>4, <1>5, <1>6, SignWithKeeps
<1>8. KnownForm'
  <2>1. mi \subseteq Mishaps
    BY <1>2 DEF CurrentForms, KnownForm, Mishaps, AddedLate
  <2>2. QED
    BY <1>3, <2>1 DEF CurrentForms, KnownForm
<1>9. QED
  BY <1>1, <1>3, <1>7, <1>8 DEF NextForms

LEMMA ResumedFacts ==
    ASSUME NEW k, NEW to \in {"turn", "idle"}, ExecutionForm(tx, execution),
           NEW ex, ex = Resumed(k, to)
    PROVE  \/ ex = execution
           \/ ex = Idle
           \/ IsFrozen(tx) /\ ex = [at |-> "turn"]
<1>1. CASE execution.at = "signing" /\ k = Operator
  <2>1. execution = [at |-> "signing"] /\ IsFrozen(tx)
    BY <1>1 DEF ExecutionForm
  <2>2. ex = [at |-> to]
    BY <1>1, <2>1 DEF Resumed
  <2>3. QED
    BY <2>1, <2>2 DEF Idle
<1>2. CASE ~ (execution.at = "signing" /\ k = Operator)
  BY <1>2 DEF Resumed
<1>3. QED
  BY <1>1, <1>2

LEMMA SignerAnswersStep ==
    ASSUME CurrentForms, NEW k \in DOMAIN signing, SignerAnswers(k)
    PROVE  NextForms
<1>0. /\ Forms(tx, signing, spoiled, execution, encoding, given, mishaps)
      /\ ExecutionForm(tx, execution)
  BY DEF CurrentForms, Forms
<1>1. PICK i : i = signing[k].next
  OBVIOUS
<1>2. PICK u, sg, ex : u = tx' /\ sg = signing' /\ ex = execution'
  OBVIOUS
<1>3. /\ u = IF signing[k].current THEN WithSignature(tx, i, k) ELSE tx
      /\ sg = IF i = N THEN [x \in DOMAIN signing \ {k} |-> signing[x]]
              ELSE [signing EXCEPT ![k].next = @ + 1]
  BY <1>1, <1>2 DEF SignerAnswers
<1>4. ex = Resumed(k, "turn") \/ ex = execution
  BY <1>1, <1>2 DEF SignerAnswers
<1>5. /\ encoding' = encoding /\ given' = given /\ spoiled' = spoiled
      /\ mishaps' = mishaps /\ signOnDemand' = signOnDemand
  BY DEF SignerAnswers, historyVars
<1>6. \/ ex = execution
      \/ ex = Idle
      \/ IsFrozen(tx) /\ ex = [at |-> "turn"]
  <2>1. PICK to \in {"turn", "idle"} : to = "turn"
    OBVIOUS
  <2>2. QED
    BY <1>0, <1>4, <2>1, ResumedFacts
<1>7. Forms(tx, signing, spoiled, ex, encoding, given, mishaps)
  BY <1>0, <1>6, PlainExecution
<1>8. Forms(u, sg, spoiled, ex, encoding, given, mishaps)
  BY <1>1, <1>3, <1>7, AnswerKeeps
<1>9. QED
  BY <1>2, <1>5, <1>8 DEF NextForms, CurrentForms, KnownForm

LEMMA SignerFailsStep ==
    ASSUME CurrentForms, NEW k \in DOMAIN signing, SignerFails(k)
    PROVE  NextForms
<1>0. /\ Forms(tx, signing, spoiled, execution, encoding, given, mishaps)
      /\ ExecutionForm(tx, execution) /\ SigningForm(tx, signing)
  BY DEF CurrentForms, Forms
<1>1. PICK sg, ex, sp : sg = signing' /\ ex = execution' /\ sp = spoiled'
  OBVIOUS
<1>2. /\ sg = [x \in DOMAIN signing \ {k} |-> signing[x]]
      /\ ex = Resumed(k, "idle") /\ sp = spoiled \cup {k}
      /\ tx' = tx /\ encoding' = encoding /\ given' = given
      /\ mishaps' = mishaps /\ signOnDemand' = signOnDemand
  BY <1>1 DEF SignerFails
<1>3. \/ ex = execution
      \/ ex = Idle
      \/ IsFrozen(tx) /\ ex = [at |-> "turn"]
  <2>1. PICK to \in {"turn", "idle"} : to = "idle"
    OBVIOUS
  <2>2. QED
    BY <1>0, <1>2, <2>1, ResumedFacts
<1>4. Forms(tx, signing, spoiled, ex, encoding, given, mishaps)
  BY <1>0, <1>3, PlainExecution
<1>5. Forms(tx, sg, sp, ex, encoding, given, mishaps)
  BY <1>2, <1>4, FailKeeps
<1>6. k \in Key
  BY <1>0 DEF SigningForm
<1>7. QED
  BY <1>1, <1>2, <1>5, <1>6 DEF NextForms, CurrentForms, KnownForm

\* Bodies are there before signatures are added or removed.
LEMMA EnsureKeeps ==
    ASSUME CurrentForms, Ensure, NEW t, t = Ensured(tx),
           NEW sg, sg = signing',
           NEW sp, NEW mi, spoiled \subseteq sp, mishaps \subseteq mi,
           EnsureSpoils(t) \subseteq sp, FrozenAgain(t) \subseteq mi
    PROVE  /\ Forms(t, sg, sp, execution, encoding, given, mi)
           /\ HasSigned(t) /\ DOMAIN sg = DOMAIN signing
           /\ t.signerKeys = tx.signerKeys
<1>0. /\ Forms(tx, signing, spoiled, execution, encoding, given, mishaps)
      /\ tx \in TransactionFields /\ BodiesForm(tx)
      /\ ExecutionForm(tx, execution) /\ EncodingForm(tx, encoding)
  BY DEF CurrentForms, Forms
<1>1. Forms(tx, signing, sp, execution, encoding, given, mi)
  BY <1>0, MoreFlags
<1>2. sg = Detached(EnsureReplaces)
  BY DEF Ensure
<1>3. DOMAIN sg = DOMAIN signing
  BY <1>2 DEF Detached
<1>4. CASE HasSigned(tx)
  <2>1. t = tx
    BY <1>4 DEF Ensured
  <2>2. sg = signing
    BY <1>2, <1>4 DEF Detached, EnsureReplaces
  <2>3. QED
    BY <1>1, <1>4, <2>1, <2>2
<1>5. CASE ~ HasSigned(tx)
  <2>1. PICK no \in BOOLEAN : no = FALSE
    OBVIOUS
  <2>2. t = Frozen(tx, no, no) /\ CanFreeze(tx, no)
    BY <1>5, <2>1 DEF Ensured, Ensure
  <2>3. encoding.at \notin {"making", "made"}
    BY <1>0, <1>5 DEF EncodingForm
  <2>4. FreezingIsFlagged(t, execution, mi)
    BY <1>5 DEF FreezingIsFlagged, HasSigned, FrozenAgain
  <2>5. Forms(t, sg, sp, execution, encoding, given, mi)
    <3>1. EnsureReplaces <=> Replaces(tx, no)
      BY <1>5, <2>1 DEF EnsureReplaces, Replaces
    <3>2. sg = Detached(Replaces(tx, no))
      BY <1>2, <3>1 DEF Detached
    <3>3. Unreliable(tx, t, Replaces(tx, no)) \subseteq sp
      BY <3>1 DEF EnsureSpoils, Unreliable
    <3>4. QED
      BY <1>1, <2>2, <2>3, <2>4, <3>2, <3>3, FreezingKeeps
  <2>6. /\ t \in TransactionFields /\ t.onDemand = no
        /\ t.locked = tx.locked /\ t.index = tx.index /\ t.built = tx.built
        /\ t.signerKeys = tx.signerKeys
        /\ t.publicKeys = tx.publicKeys /\ t.signers = tx.signers
        /\ t.signed = IF no \/ "signed" \in tx.locked
                      THEN tx.signed ELSE Bodies(t.id)
    <3>1. tx \in TransactionFields
      BY <1>0
    <3>2. QED
      BY ONLY <3>1, <2>2, no \in BOOLEAN, FrozenFacts
  <2>7. t.signed # <<>>
    <3>1. "signed" \notin tx.locked
      BY <1>0, <1>5 DEF BodiesForm
    <3>2. PICK id \in 0..MaxId : id = t.id
      BY <2>6 DEF TransactionFields
    <3>3. Bodies(id) # <<>>
      BY BodiesFacts
    <3>4. QED
      BY <2>1, <2>6, <3>1, <3>2, <3>3
  <2>8. QED
    BY <1>3, <2>5, <2>6, <2>7 DEF HasSigned
<1>6. QED
  BY <1>3, <1>4, <1>5

LEMMA AddSignatureStep ==
    ASSUME CurrentForms, NEW k \in Key, AddSignature(k)
    PROVE  NextForms
<1>1. PICK t, u, sg : t = Ensured(tx) /\ u = tx' /\ sg = signing'
  OBVIOUS
<1>2. PICK sp, mi : sp = spoiled' /\ mi = mishaps'
  OBVIOUS
<1>3. /\ Ensure /\ k \notin t.signerKeys
      /\ \/ /\ u = Paired(Recorded(Attached(t, N, k), k), k, NoSigner)
            /\ sp = spoiled \cup EnsureSpoils(t) \cup (DOMAIN signing \cap {k})
         \/ \E n \in 0..(N - 1) :
               /\ u = Attached(t, n, k)
               /\ sp = spoiled \cup EnsureSpoils(t) \cup {k}
      /\ mi = mishaps \cup AddedLate(t) \cup FrozenAgain(t)
  BY <1>1, <1>2 DEF AddSignature
<1>4. /\ execution' = execution /\ encoding' = encoding /\ given' = given
      /\ signOnDemand' = signOnDemand
  BY DEF AddSignature
<1>5. /\ spoiled \subseteq sp /\ mishaps \subseteq mi
      /\ EnsureSpoils(t) \subseteq sp /\ FrozenAgain(t) \subseteq mi
  BY <1>3
<1>6. /\ Forms(t, sg, sp, execution, encoding, given, mi)
      /\ HasSigned(t) /\ DOMAIN sg = DOMAIN signing
      /\ t.signerKeys = tx.signerKeys
  BY <1>1, <1>3, <1>5, EnsureKeeps
<1>7. LateIsFlagged(t, encoding, mi)
  BY <1>3 DEF LateIsFlagged, AddedLate
<1>8. Forms(u, sg, sp, execution, encoding, given, mi)
  <2>1. CASE /\ u = Paired(Recorded(Attached(t, N, k), k), k, NoSigner)
             /\ sp = spoiled \cup EnsureSpoils(t) \cup (DOMAIN signing \cap {k})
    <3>1. DOMAIN sg \cap {k} \subseteq sp
      BY <1>6, <2>1
    <3>2. QED
      BY <1>3, <1>6, <1>7, <2>1, <3>1, AttachAllKeeps
  <2>2. CASE \E n \in 0..(N - 1) :
               /\ u = Attached(t, n, k)
               /\ sp = spoiled \cup EnsureSpoils(t) \cup {k}
    <3>1. PICK n \in 0..(N - 1) :
               /\ u = Attached(t, n, k)
               /\ sp = spoiled \cup EnsureSpoils(t) \cup {k}
      BY <2>2
    <3>2. n \in 0..N /\ k \in sp
      BY <3>1, NodeFacts
    <3>3. QED
      BY <1>6, <1>7, <3>1, <3>2, AttachKeeps
  <2>3. QED
    BY <1>3, <2>1, <2>2
<1>9. KnownForm'
  <2>1. sp \subseteq Key
    <3>1. /\ spoiled \subseteq Key /\ tx.signerKeys \subseteq Key
      BY DEF CurrentForms, KnownForm, Forms, TransactionFields
    <3>2. EnsureSpoils(t) \subseteq Key
      BY <3>1 DEF EnsureSpoils, Unreliable
    <3>3. QED
      BY <1>3, <3>1, <3>2
  <2>2. mi \subseteq Mishaps
    BY <1>3 DEF CurrentForms, KnownForm, Mishaps, AddedLate, FrozenAgain
  <2>3. QED
    BY <1>2, <1>4, <2>1, <2>2 DEF CurrentForms, KnownForm
<1>10. QED
  BY <1>1, <1>2, <1>4, <1>8, <1>9 DEF NextForms

LEMMA RemoveSignatureStep ==
    ASSUME CurrentForms, NEW k \in Key, RemoveSignature(k)
    PROVE  NextForms
<1>1. PICK t, u, sg : t = Ensured(tx) /\ u = tx' /\ sg = signing'
  OBVIOUS
<1>2. PICK sp, mi : sp = spoiled' /\ mi = mishaps'
  OBVIOUS
<1>3. /\ Ensure /\ u = Removed(t, k)
      /\ sp = spoiled \cup EnsureSpoils(t) \cup (DOMAIN signing \cap {k})
      /\ mi = mishaps \cup WrongPair(t, k) \cup FrozenAgain(t)
  BY <1>1, <1>2 DEF RemoveSignature
<1>4. /\ execution' = execution /\ encoding' = encoding /\ given' = given
      /\ signOnDemand' = signOnDemand
  BY DEF RemoveSignature
<1>5. /\ spoiled \subseteq sp /\ mishaps \subseteq mi
      /\ EnsureSpoils(t) \subseteq sp /\ FrozenAgain(t) \subseteq mi
  BY <1>3
<1>6. /\ Forms(t, sg, sp, execution, encoding, given, mi)
      /\ HasSigned(t) /\ DOMAIN sg = DOMAIN signing
      /\ t.signerKeys = tx.signerKeys
  BY <1>1, <1>3, <1>5, EnsureKeeps
<1>7. WrongPair(t, k) \subseteq mi /\ DOMAIN sg \cap {k} \subseteq sp
  BY <1>3, <1>6
<1>8. Forms(u, sg, sp, execution, encoding, given, mi)
  BY <1>3, <1>6, <1>7, RemoveKeeps
<1>9. KnownForm'
  <2>1. sp \subseteq Key
    <3>1. /\ spoiled \subseteq Key /\ tx.signerKeys \subseteq Key
      BY DEF CurrentForms, KnownForm, Forms, TransactionFields
    <3>2. EnsureSpoils(t) \subseteq Key
      BY <3>1 DEF EnsureSpoils, Unreliable
    <3>3. QED
      BY <1>3, <3>1, <3>2
  <2>2. mi \subseteq Mishaps
    <3>1. WrongPair(t, k) \subseteq Mishaps
      BY DEF WrongPair, Mishaps
    <3>2. QED
      BY <1>3, <3>1 DEF CurrentForms, KnownForm, Mishaps, FrozenAgain
  <2>3. QED
    BY <1>2, <1>4, <2>1, <2>2 DEF CurrentForms, KnownForm
<1>10. QED
  BY <1>1, <1>2, <1>4, <1>8, <1>9 DEF NextForms

LEMMA RemoveAllSignaturesStep ==
    ASSUME CurrentForms, RemoveAllSignatures
    PROVE  NextForms
<1>1. PICK t, u, sg : t = Ensured(tx) /\ u = tx' /\ sg = signing'
  OBVIOUS
<1>2. PICK sp, mi : sp = spoiled' /\ mi = mishaps'
  OBVIOUS
<1>3. /\ Ensure /\ u = AllRemoved(t)
      /\ sp = spoiled \cup EnsureSpoils(t) \cup DOMAIN signing
      /\ mi = mishaps \cup FrozenAgain(t)
  BY <1>1, <1>2 DEF RemoveAllSignatures
<1>4. /\ execution' = execution /\ encoding' = encoding /\ given' = given
      /\ signOnDemand' = signOnDemand
  BY DEF RemoveAllSignatures
<1>5. /\ spoiled \subseteq sp /\ mishaps \subseteq mi
      /\ EnsureSpoils(t) \subseteq sp /\ FrozenAgain(t) \subseteq mi
  BY <1>3
<1>6. /\ Forms(t, sg, sp, execution, encoding, given, mi)
      /\ HasSigned(t) /\ DOMAIN sg = DOMAIN signing
      /\ t.signerKeys = tx.signerKeys
  BY <1>1, <1>3, <1>5, EnsureKeeps
<1>7. DOMAIN sg \subseteq sp
  BY <1>3, <1>6
<1>8. Forms(u, sg, sp, execution, encoding, given, mi)
  BY <1>3, <1>6, <1>7, AllRemoveKeeps
<1>9. KnownForm'
  <2>1. sp \subseteq Key
    <3>1. /\ spoiled \subseteq Key /\ tx.signerKeys \subseteq Key
          /\ DOMAIN signing \subseteq Key
      BY DEF CurrentForms, KnownForm, Forms, TransactionFields, SigningForm
    <3>2. EnsureSpoils(t) \subseteq Key
      BY <3>1 DEF EnsureSpoils, Unreliable
    <3>3. QED
      BY <1>3, <3>1, <3>2
  <2>2. mi \subseteq Mishaps
    BY <1>3 DEF CurrentForms, KnownForm, Mishaps, FrozenAgain
  <2>3. QED
    BY <1>2, <1>4, <2>1, <2>2 DEF CurrentForms, KnownForm
<1>10. QED
  BY <1>1, <1>2, <1>4, <1>8, <1>9 DEF NextForms

LEMMA ExecuteStep ==
    ASSUME CurrentForms, Execute
    PROVE  NextForms
<1>0. /\ Forms(tx, signing, spoiled, execution, encoding, given, mishaps)
      /\ tx \in TransactionFields /\ signOnDemand \in BOOLEAN
      /\ EncodingForm(tx, encoding)
  BY DEF CurrentForms, KnownForm, Forms
<1>1. PICK t : t = IF IsFrozen(tx) THEN [tx EXCEPT !.account = TRUE]
                   ELSE Frozen(tx, signOnDemand, TRUE)
  OBVIOUS
<1> DEFINE replaced == ~ IsFrozen(tx) /\ Replaces(tx, signOnDemand)
<1>2. PICK u, sg : u = tx' /\ sg = signing'
  OBVIOUS
<1>3. PICK sp, mi, ex : sp = spoiled' /\ mi = mishaps' /\ ex = execution'
  OBVIOUS
<1>4. /\ execution = Idle /\ (IsFrozen(tx) \/ CanFreeze(tx, TRUE))
      /\ ex = [at |-> IF t.onDemand \/ Operator \in t.signerKeys
                      THEN "turn" ELSE "signing"]
      /\ mi = mishaps \cup IF Operator \in t.signerKeys THEN {} ELSE AddedLate(t)
      /\ sp = spoiled \cup Unreliable(tx, t, replaced)
  BY <1>1, <1>3 DEF Execute
<1>5. /\ encoding' = encoding /\ given' = given /\ signOnDemand' = signOnDemand
  BY DEF Execute
<1>6. PICK sg0 : sg0 = Detached(replaced)
  OBVIOUS
<1>7. DOMAIN sg0 = DOMAIN signing
  BY <1>6 DEF Detached
<1>8. \/ Operator \in t.signerKeys /\ u = t /\ sg = sg0
      \/ /\ Operator \notin t.signerKeys /\ Operator \notin DOMAIN sg0
         /\ IF t.onDemand
            THEN u = Paired(Recorded(t, Operator), Operator, Operator) /\ sg = sg0
            ELSE /\ u = [Recorded(t, Operator) EXCEPT !.locked = @ \cup {"ids"}]
                 /\ sg = With(sg0, Operator, [next |-> 1, current |-> TRUE])
  <2>1. CASE Operator \in t.signerKeys
    BY <1>1, <1>2, <1>6, <2>1 DEF Execute
  <2>2. CASE Operator \notin t.signerKeys
    <3>1. SignWith(t, Operator, sg0)
      BY <1>1, <1>6, <2>2 DEF Execute
    <3>2. QED
      BY <1>2, <1>7, <2>2, <3>1 DEF SignWith
  <2>3. QED
    BY <2>1, <2>2
<1>9. Forms(tx, signing, sp, execution, encoding, given, mi)
  BY <1>0, <1>4, MoreFlags
<1>10. Forms(t, sg0, sp, execution, encoding, given, mi) /\ IsFrozen(t)
  <2>1. CASE IsFrozen(tx)
    <3>1. t = [tx EXCEPT !.account = TRUE]
      BY <1>1, <2>1
    <3>2. /\ t \in TransactionFields /\ t.locked = tx.locked
          /\ t.built = tx.built /\ t.index = tx.index
          /\ t.onDemand = tx.onDemand /\ t.signed = tx.signed /\ t.id = tx.id
          /\ t.signerKeys = tx.signerKeys
          /\ t.publicKeys = tx.publicKeys /\ t.signers = tx.signers
      BY <1>0, <3>1 DEF TransactionFields
    <3>3. sg0 = signing
      BY <1>6, <2>1 DEF Detached
    <3>4. EntriesForm(t, encoding, given, mi)
      <4>1. EntriesForm(tx, encoding, given, mi)
        BY <1>9 DEF Forms
      <4>2. QED
        BY <3>2, <4>1 DEF EntriesForm
    <3>5. Forms(t, signing, sp, execution, encoding, given, mi)
      BY <1>9, <3>2, <3>4, FieldsKeep
    <3>6. QED
      BY <2>1, <3>2, <3>3, <3>5 DEF IsFrozen, HasSigned
  <2>2. CASE ~ IsFrozen(tx)
    <3>1. PICK yes \in BOOLEAN, onDemand \in BOOLEAN :
              yes = TRUE /\ onDemand = signOnDemand
      BY <1>0
    <3>2. t = Frozen(tx, onDemand, yes) /\ CanFreeze(tx, yes)
      BY <1>1, <1>4, <2>2, <3>1
    <3>3. encoding.at \notin {"making", "made"}
      BY <1>0, <2>2 DEF EncodingForm, IsFrozen
    <3>4. FreezingIsFlagged(t, execution, mi)
      BY <1>4, <2>2 DEF FreezingIsFlagged, IsFrozen, HasSigned, Idle
    <3>5. replaced <=> Replaces(tx, onDemand)
      BY <2>2, <3>1
    <3>6. Unreliable(tx, t, Replaces(tx, onDemand)) \subseteq sp
      BY <1>4, <3>5 DEF Unreliable
    <3>7. sg0 = Detached(Replaces(tx, onDemand))
      BY <1>6, <3>5 DEF Detached
    <3>8. QED
      BY <1>9, <3>2, <3>3, <3>4, <3>6, <3>7, FreezingKeeps
  <2>3. QED
    BY <2>1, <2>2
<1>11. /\ Forms(u, sg, sp, execution, encoding, given, mi) /\ IsFrozen(u)
  <2>1. CASE Operator \in t.signerKeys
    BY <1>8, <1>10, <2>1
  <2>2. CASE Operator \notin t.signerKeys
    <3>1. LateIsFlagged(t, encoding, mi)
      BY <1>4, <2>2 DEF LateIsFlagged, AddedLate
    <3>2. PICK k \in Key : k = Operator
      BY ConstantFacts
    <3>3. /\ k \notin t.signerKeys /\ k \notin DOMAIN sg0
          /\ IF t.onDemand
             THEN u = Paired(Recorded(t, k), k, k) /\ sg = sg0
             ELSE /\ u = [Recorded(t, k) EXCEPT !.locked = @ \cup {"ids"}]
                  /\ sg = With(sg0, k, [next |-> 1, current |-> TRUE])
      BY <1>8, <2>2, <3>2
    <3>4. QED
      BY <1>10, <3>1, <3>3, SignWithKeeps
  <2>3. QED
    BY <2>1, <2>2
<1>12. Forms(u, sg, sp, ex, encoding, given, mi)
  <2>1. ex \in {[at |-> "turn"], [at |-> "signing"]}
    BY <1>4
  <2>2. QED
    BY <1>11, <2>1, PlainExecution
<1>13. KnownForm'
  <2>1. sp \subseteq Key
    <3>1. /\ spoiled \subseteq Key /\ tx.signerKeys \subseteq Key
      BY DEF CurrentForms, KnownForm, Forms, TransactionFields
    <3>2. Unreliable(tx, t, replaced) \subseteq Key
      BY <3>1 DEF Unreliable
    <3>3. QED
      BY <1>4, <3>1, <3>2
  <2>2. mi \subseteq Mishaps
    BY <1>4 DEF CurrentForms, KnownForm, Mishaps, AddedLate
  <2>3. QED
    BY <1>3, <1>5, <2>1, <2>2 DEF CurrentForms, KnownForm
<1>14. QED
  BY <1>2, <1>3, <1>5, <1>12, <1>13 DEF NextForms

LEMMA AttemptStep ==
    ASSUME CurrentForms, Attempt
    PROVE  NextForms
<1>0. Forms(tx, signing, spoiled, execution, encoding, given, mishaps)
  BY DEF CurrentForms
<1>1. PICK u, ex, mi : u = tx' /\ ex = execution' /\ mi = mishaps'
  OBVIOUS
<1>2. /\ execution.at = "turn" /\ ~ tx.onDemand
      /\ signOnDemand' = signOnDemand /\ signing' = signing
      /\ encoding' = encoding /\ given' = given /\ spoiled' = spoiled
  BY DEF Attempt
<1>3. \/ ex = Idle /\ u = tx /\ mi = mishaps
      \/ /\ u = Advanced(Built(tx, tx.index + 1))
         /\ ex = Sent(Nodes[tx.index + 1], tx.signed[tx.index + 1])
         /\ mi = mishaps \cup Turned
  BY <1>1 DEF Attempt
<1>4. Forms(u, signing, spoiled, ex, encoding, given, mi)
  <2>1. CASE ex = Idle /\ u = tx /\ mi = mishaps
    BY <1>0, <2>1, PlainExecution
  <2>2. CASE /\ u = Advanced(Built(tx, tx.index + 1))
             /\ ex = Sent(Nodes[tx.index + 1], tx.signed[tx.index + 1])
             /\ mi = mishaps \cup Turned
    <3>1. Forms(tx, signing, spoiled, execution, encoding, given, mi)
      BY <1>0, <2>2, MoreFlags
    <3>2. QED
      BY <1>2, <2>2, <3>1, AttemptKeeps
  <2>3. QED
    BY <1>3, <2>1, <2>2
<1>5. mi \subseteq Mishaps
  BY <1>3 DEF CurrentForms, KnownForm, Mishaps, Turned
<1>6. QED
  BY <1>1, <1>2, <1>4, <1>5 DEF NextForms, CurrentForms, KnownForm

LEMMA AttemptOnDemandStep ==
    ASSUME CurrentForms, AttemptOnDemand
    PROVE  NextForms
<1>0. /\ Forms(tx, signing, spoiled, execution, encoding, given, mishaps)
      /\ tx \in TransactionFields /\ PairsForm(tx, execution, mishaps)
  BY DEF CurrentForms, Forms
<1>1. PICK u, ex, mi : u = tx' /\ ex = execution' /\ mi = mishaps'
  OBVIOUS
<1>2. PICK m, node, t : /\ m = Made(tx) /\ node = Nodes[tx.index + 1]
                        /\ t = Advanced(tx)
  OBVIOUS
<1>3. /\ tx.onDemand /\ mi = mishaps \cup Turned
      /\ signOnDemand' = signOnDemand /\ signing' = signing
      /\ encoding' = encoding /\ given' = given /\ spoiled' = spoiled
  BY <1>1 DEF AttemptOnDemand
<1>4. \/ IsSigned(m) /\ ex = Sent(node, RequestOf(m)) /\ u = Advanced(t)
      \/ /\ ~ IsSigned(m) /\ u = t
         /\ ex = [at |-> "making", node |-> node, made |-> m]
  BY <1>1, <1>2 DEF AttemptOnDemand, Progress
<1>5. Forms(tx, signing, spoiled, execution, encoding, given, mi)
  BY <1>0, <1>3, MoreFlags
<1>6. encoding.at # "making" \/ "turned" \in mi
  BY <1>3 DEF Turned
<1>7. /\ Forms(t, signing, spoiled, execution, encoding, given, mi)
      /\ IsFrozen(t)
  <2>1. IsFrozen(tx)
    BY <1>3 DEF IsFrozen
  <2>2. QED
    BY <1>2, <1>5, <1>6, <2>1, AdvancedKeeps
<1>8. t.id = tx.id
  BY <1>0, <1>2, AdvancedFacts
<1>9. /\ m \in Making /\ m.node = tx.index /\ m.id = tx.id /\ Own(m.sigs)
      /\ InStep(tx) /\ m.pair # <<>> => m.pair[1] = m.pair[2]
  BY <1>0, <1>2, MadeFacts
<1>10. \/ "wrong pair" \in mi
       \/ Own(m.sigs) /\ (m.pair # <<>> => m.pair[1] = m.pair[2])
  BY <1>0, <1>3, <1>9 DEF PairsForm
<1>11. node = Nodes[m.node + 1] /\ m.id = t.id
  BY <1>2, <1>8, <1>9
<1>12. Forms(u, signing, spoiled, ex, encoding, given, mi)
  BY <1>4, <1>6, <1>7, <1>9, <1>10, <1>11, ProgressKeeps
<1>13. mi \subseteq Mishaps
  BY <1>3 DEF CurrentForms, KnownForm, Mishaps, Turned
<1>14. QED
  BY <1>1, <1>3, <1>12, <1>13 DEF NextForms, CurrentForms, KnownForm

LEMMA RequestSignedStep ==
    ASSUME CurrentForms, RequestSigned
    PROVE  NextForms
<1>0. /\ Forms(tx, signing, spoiled, execution, encoding, given, mishaps)
      /\ tx \in TransactionFields /\ PairsForm(tx, execution, mishaps)
      /\ ExecutionForm(tx, execution) /\ IdsForm(tx, execution, mishaps)
  BY DEF CurrentForms, Forms
<1>1. PICK u, ex, mi : u = tx' /\ ex = execution' /\ mi = mishaps'
  OBVIOUS
<1>2. PICK m0, node : m0 = execution.made /\ node = execution.node
  OBVIOUS
<1>3. PICK m : m = Answered(m0, tx)
  OBVIOUS
<1>4. /\ execution.at = "making" /\ mi = mishaps \cup Turned
      /\ signOnDemand' = signOnDemand /\ signing' = signing
      /\ encoding' = encoding /\ given' = given /\ spoiled' = spoiled
  BY <1>1 DEF RequestSigned
<1>5. \/ IsSigned(m) /\ ex = Sent(node, RequestOf(m)) /\ u = Advanced(tx)
      \/ /\ ~ IsSigned(m) /\ u = tx
         /\ ex = [at |-> "making", node |-> node, made |-> m]
  BY <1>1, <1>2, <1>3 DEF RequestSigned, Progress
<1>6. Forms(tx, signing, spoiled, execution, encoding, given, mi)
  BY <1>0, <1>4, MoreFlags
<1>7. encoding.at # "making" \/ "turned" \in mi
  BY <1>4 DEF Turned
<1>8. /\ m0 \in Making /\ m0.pair # <<>> /\ node = Nodes[m0.node + 1]
      /\ IsFrozen(tx)
  BY <1>0, <1>2, <1>4 DEF ExecutionForm
<1>9. /\ m \in Making /\ m.node = m0.node /\ m.id = m0.id
      /\ Own(m0.sigs) /\ m0.pair[1] = m0.pair[2] => Own(m.sigs)
      /\ InStep(tx) /\ m.pair # <<>> => m.pair[1] = m.pair[2]
  BY <1>0, <1>3, <1>8, AnsweredFacts
<1>10. \/ "wrong pair" \in mi
       \/ Own(m.sigs) /\ (m.pair # <<>> => m.pair[1] = m.pair[2])
  BY <1>0, <1>2, <1>4, <1>9 DEF PairsForm
<1>11. {"frozen again", "stale bodies"} \cap mi # {} \/ m.id = tx.id
  BY <1>0, <1>2, <1>4, <1>9 DEF IdsForm
<1>12. node = Nodes[m.node + 1]
  BY <1>8, <1>9
<1>13. Forms(u, signing, spoiled, ex, encoding, given, mi)
  BY <1>5, <1>6, <1>7, <1>8, <1>9, <1>10, <1>11, <1>12, ProgressKeeps
<1>14. mi \subseteq Mishaps
  BY <1>4 DEF CurrentForms, KnownForm, Mishaps, Turned
<1>15. QED
  BY <1>1, <1>4, <1>13, <1>14 DEF NextForms, CurrentForms, KnownForm

LEMMA GiveUpStep ==
    ASSUME CurrentForms, GiveUp \/ Retry
    PROVE  NextForms
<1>0. /\ Forms(tx, signing, spoiled, execution, encoding, given, mishaps)
      /\ ExecutionForm(tx, execution)
  BY DEF CurrentForms, Forms
<1>1. PICK ex : ex = execution'
  OBVIOUS
<1>2. /\ \/ ex = Idle
         \/ execution.at = "sent" /\ ex = [at |-> "turn"]
      /\ tx' = tx /\ signing' = signing /\ encoding' = encoding
      /\ given' = given /\ spoiled' = spoiled /\ mishaps' = mishaps
      /\ signOnDemand' = signOnDemand
  <2>1. CASE GiveUp
    BY <1>1, <2>1 DEF GiveUp, historyVars
  <2>2. CASE Retry
    BY <1>1, <2>2 DEF Retry, historyVars
  <2>3. QED
    BY <2>1, <2>2
<1>3. \/ ex = Idle
      \/ IsFrozen(tx) /\ ex \in {[at |-> "turn"], [at |-> "signing"]}
  BY <1>0, <1>2 DEF ExecutionForm
<1>4. Forms(tx, signing, spoiled, ex, encoding, given, mishaps)
  BY <1>0, <1>3, PlainExecution
<1>5. QED
  BY <1>1, <1>2, <1>4 DEF NextForms, CurrentForms, KnownForm

\* The answer names the ID, which is locked.
LEMMA EndStep ==
    ASSUME CurrentForms, End
    PROVE  NextForms
<1>0. Forms(tx, signing, spoiled, execution, encoding, given, mishaps)
  BY DEF CurrentForms
<1>1. PICK u, ex : u = tx' /\ ex = execution'
  OBVIOUS
<1>2. /\ u = [tx EXCEPT !.locked = @ \cup {"ids"}] /\ ex = Idle
      /\ signing' = signing /\ encoding' = encoding
      /\ given' = given /\ spoiled' = spoiled /\ mishaps' = mishaps
      /\ signOnDemand' = signOnDemand
  BY <1>1 DEF End, historyVars
<1>3. Forms(tx, signing, spoiled, ex, encoding, given, mishaps)
  BY <1>0, <1>2, PlainExecution
<1>4. Forms(u, signing, spoiled, ex, encoding, given, mishaps)
  BY <1>2, <1>3, IdsLocked
<1>5. QED
  BY <1>1, <1>2, <1>4 DEF NextForms, CurrentForms, KnownForm

\* A new ID: the bodies keep theirs, which is flagged.
LEMMA ExpiredStep ==
    ASSUME CurrentForms, Expired
    PROVE  NextForms
<1>0. /\ Forms(tx, signing, spoiled, execution, encoding, given, mishaps)
      /\ tx \in TransactionFields /\ ExecutionForm(tx, execution)
      /\ BodiesForm(tx) /\ EncodingForm(tx, encoding)
      /\ SigningForm(tx, signing) /\ SignersForm(tx, signing, spoiled)
      /\ PairsForm(tx, execution, mishaps)
      /\ EntriesForm(tx, encoding, given, mishaps)
  BY DEF CurrentForms, Forms
<1>1. PICK u, ex, mi : u = tx' /\ ex = execution' /\ mi = mishaps'
  OBVIOUS
<1>2. /\ execution.at = "sent" /\ tx.id < MaxId
      /\ u = NewIdList(tx) /\ ex = [at |-> "turn"]
      /\ mi = mishaps \cup IF tx.onDemand THEN {} ELSE {"stale bodies"}
      /\ signOnDemand' = signOnDemand /\ signing' = signing
      /\ encoding' = encoding /\ given' = given /\ spoiled' = spoiled
  BY <1>1 DEF Expired
<1>3. /\ u \in TransactionFields /\ u.onDemand = tx.onDemand
      /\ u.locked = tx.locked /\ u.index = tx.index
      /\ u.signed = tx.signed /\ u.built = tx.built
      /\ u.signerKeys = tx.signerKeys
      /\ u.publicKeys = tx.publicKeys /\ u.signers = tx.signers
  BY <1>0, <1>2, NewIdFacts
<1>4. IsFrozen(u) /\ (HasSigned(u) <=> HasSigned(tx))
  BY <1>0, <1>2, <1>3 DEF ExecutionForm, IsFrozen, HasSigned
<1>5. BodiesForm(u) /\ EncodingForm(u, encoding)
  BY <1>0, <1>3, <1>4 DEF BodiesForm, EncodingForm
<1>6. SigningForm(u, signing) /\ SignersForm(u, signing, spoiled)
  BY <1>0, <1>3, <1>4 DEF SigningForm, SignersForm
<1>7. ex.at = "turn"
  BY <1>2
<1>8. ExecutionForm(u, ex)
  BY <1>4, <1>7 DEF ExecutionForm
<1>9. IdsForm(u, ex, mi)
  <2>1. u.onDemand \/ "stale bodies" \in mi
    BY <1>2, <1>3
  <2>2. QED
    BY <1>7, <2>1 DEF IdsForm
<1>10. PairsForm(u, ex, mi)
  <2>1. InStep(tx) => InStep(u)
    BY <1>3 DEF InStep
  <2>2. "wrong pair" \in mi \/ InStep(tx)
    BY <1>0, <1>2 DEF PairsForm
  <2>3. QED
    BY <1>7, <2>1, <2>2 DEF PairsForm
<1>11. EntriesForm(u, encoding, given, mi)
  <2>1. mishaps \subseteq mi
    BY <1>2
  <2>2. QED
    BY <1>0, <1>3, <2>1 DEF EntriesForm
<1>12. Forms(u, signing, spoiled, ex, encoding, given, mi)
  BY <1>3, <1>5, <1>6, <1>8, <1>9, <1>10, <1>11 DEF Forms
<1>13. mi \subseteq Mishaps
  BY <1>2 DEF CurrentForms, KnownForm, Mishaps
<1>14. QED
  BY <1>1, <1>2, <1>12, <1>13 DEF NextForms, CurrentForms, KnownForm

LEMMA ToBytesStep ==
    ASSUME CurrentForms, ToBytes
    PROVE  NextForms
<1>0. /\ Forms(tx, signing, spoiled, execution, encoding, given, mishaps)
      /\ tx \in TransactionFields
  BY DEF CurrentForms, Forms
<1>1. PICK u : u = tx'
  OBVIOUS
<1>2. PICK t : t = [tx EXCEPT !.locked = @ \cup {"ids"}]
  OBVIOUS
<1>3. /\ ~ tx.onDemand
      /\ u = IF IsFrozen(tx) THEN BuiltAll(t) ELSE [tx EXCEPT !.built = <<NoNode>>]
      /\ signing' = signing /\ encoding' = encoding /\ execution' = execution
      /\ given' = given /\ spoiled' = spoiled /\ mishaps' = mishaps
      /\ signOnDemand' = signOnDemand
  BY <1>1, <1>2 DEF ToBytes, historyVars
<1>4. CASE IsFrozen(tx)
  <2>1. /\ Forms(t, signing, spoiled, execution, encoding, given, mishaps)
        /\ t.signed = tx.signed /\ t.onDemand = tx.onDemand
    BY <1>0, <1>2, IdsLocked
  <2>2. HasSigned(t) /\ ~ t.onDemand
    BY <1>3, <1>4, <2>1 DEF IsFrozen, HasSigned
  <2>3. u = BuiltAll(t)
    BY <1>3, <1>4
  <2>4. Forms(u, signing, spoiled, execution, encoding, given, mishaps)
    BY <2>1, <2>2, <2>3, BuiltAllKeeps
  <2>5. QED
    BY <1>1, <1>3, <2>4 DEF NextForms, CurrentForms, KnownForm
<1>5. CASE ~ IsFrozen(tx)
  <2>1. PICK b : b = <<NoNode>>
    OBVIOUS
  <2>2. /\ b \in Seq(Range(Nodes) \cup {NoNode})
        /\ Len(tx.built) <= N => Len(b) <= N
    <3>1. b \in Seq(Range(Nodes) \cup {NoNode}) /\ Len(b) = 1
      BY <2>1
    <3>2. 1 <= N
      BY NodeFacts
    <3>3. QED
      BY <3>1, <3>2
  <2>3. u = [tx EXCEPT !.built = b]
    BY <1>3, <1>5, <2>1
  <2>4. encoding.at # "made"
    BY <1>0, <1>5 DEF Forms, EncodingForm, IsFrozen
  <2>5. Forms(u, signing, spoiled, execution, encoding, given, mishaps)
    BY <1>0, <1>3, <2>2, <2>3, <2>4, RebuiltKeeps
  <2>6. QED
    BY <1>1, <1>3, <2>5 DEF NextForms, CurrentForms, KnownForm
<1>6. QED
  BY <1>4, <1>5

LEMMA EncodeStep ==
    ASSUME CurrentForms, NEW locks \in BOOLEAN, Encode(locks)
    PROVE  NextForms
<1>0. /\ Forms(tx, signing, spoiled, execution, encoding, given, mishaps)
      /\ tx \in TransactionFields
  BY DEF CurrentForms, Forms
<1>1. PICK t : t = [tx EXCEPT !.locked = @ \cup {"ids"}]
  OBVIOUS
<1>2. PICK u : u = BuildSigned(t)
  OBVIOUS
<1>3. PICK v, sg, en, mi : /\ v = tx' /\ sg = signing' /\ en = encoding'
                           /\ mi = mishaps'
  OBVIOUS
<1>4. /\ encoding = Idle /\ IsFrozen(tx)
      /\ signOnDemand' = signOnDemand /\ execution' = execution
      /\ spoiled' = spoiled /\ given' = given
  BY DEF Encode
<1>5. /\ Forms(t, signing, spoiled, execution, encoding, given, mishaps)
      /\ t.signed = tx.signed /\ t.onDemand = tx.onDemand
      /\ (IsFrozen(tx) => IsFrozen(t))
  BY <1>0, <1>1, IdsLocked
<1>6. CASE ~ t.onDemand
  <2>1. PICK w : w = BuiltAll(t)
    OBVIOUS
  <2>2. /\ v = w /\ en = [at |-> "made", locks |-> locks]
        /\ sg = signing /\ mi = mishaps
    BY <1>1, <1>3, <1>6, <2>1 DEF Encode, EncodingMade
  <2>3. HasSigned(t)
    BY <1>4, <1>5, <1>6 DEF IsFrozen
  <2>4. /\ Forms(w, signing, spoiled, execution, encoding, given, mishaps)
        /\ HasSigned(w) /\ (Disorders \cap mishaps # {} \/ w.built = Nodes)
    BY <1>5, <1>6, <2>1, <2>3, BuiltAllKeeps
  <2>5. Forms(v, signing, spoiled, execution, en, given, mishaps)
    BY <1>4, <2>2, <2>4, EncodingIsMade
  <2>6. QED
    BY <1>3, <1>4, <2>2, <2>5 DEF NextForms, CurrentForms, KnownForm
<1>7. CASE t.onDemand
  <2>1. sg = Detached(Replaces(tx, FALSE))
    BY <1>1, <1>3, <1>7 DEF Encode
  <2>2. sg = IF "signed" \in t.locked THEN signing
             ELSE [k \in DOMAIN signing |-> [signing[k] EXCEPT !.current = FALSE]]
    <3>1. t.locked = tx.locked \cup {"ids"}
      BY <1>0, <1>1 DEF TransactionFields
    <3>2. Replaces(tx, FALSE) <=> "signed" \notin t.locked
      BY <3>1 DEF Replaces
    <3>3. QED
      BY <2>1, <3>2 DEF Detached
  <2>3. encoding.at # "making"
    BY <1>4 DEF Idle
  <2>4. /\ Forms(u, sg, spoiled, execution, encoding, given, mishaps)
        /\ HasSigned(u) /\ u.onDemand /\ u.index = t.index /\ u.built = t.built
        /\ u.locked = t.locked
    BY <1>2, <1>5, <1>7, <2>2, <2>3, BodiesMade
  <2>5. CASE "transactions" \in u.locked
    <3>1. /\ v = u /\ en = [at |-> "made", locks |-> locks] /\ mi = mishaps
      BY <1>1, <1>2, <1>3, <1>7, <2>5 DEF Encode, EncodingMade
    <3>2. Disorders \cap mishaps # {} \/ u.built = Nodes
      BY <2>4, <2>5 DEF Forms, EntriesForm
    <3>3. Forms(v, sg, spoiled, execution, en, given, mishaps)
      BY <1>4, <2>4, <3>1, <3>2, EncodingIsMade
    <3>4. QED
      BY <1>3, <1>4, <3>1, <3>3 DEF NextForms, CurrentForms, KnownForm
  <2>6. CASE "transactions" \notin u.locked
    <3>1. PICK left \in 1..N : left = N
      BY NodeFacts
    <3>2. /\ v = Advanced(u) /\ mi = mishaps \cup Disorder(u)
          /\ en = [at |-> "making", made |-> Made(u), left |-> left,
                   locks |-> locks]
      BY <1>1, <1>2, <1>3, <1>7, <2>6, <3>1 DEF Encode, EncodeEntry
    <3>3. Forms(u, sg, spoiled, execution, Idle, given, mi)
      BY <1>4, <2>4, <3>2, MoreFlags
    <3>4. \/ Disorders \cap mi # {}
          \/ /\ Len(u.built) = N - left /\ u.index = N - left
             /\ \A j \in DOMAIN u.built : u.built[j] = Nodes[j]
      <4>1. CASE u.index = 0 /\ u.built = <<>>
        <5>1. Len(u.built) = 0 /\ DOMAIN u.built = {}
          BY <4>1
        <5>2. N - left = 0
          BY <3>1, NodeFacts
        <5>3. QED
          BY <4>1, <5>1, <5>2
      <4>2. CASE ~ (u.index = 0 /\ u.built = <<>>)
        BY <3>2, <4>2 DEF Disorder, Disorders
      <4>3. QED
        BY <4>1, <4>2
    <3>5. Forms(v, sg, spoiled, execution, en, given, mi)
      BY <2>4, <2>6, <3>2, <3>3, <3>4, EntryBegun
    <3>6. mi \subseteq Mishaps
      BY <3>2 DEF CurrentForms, KnownForm, Mishaps, Disorder
    <3>7. QED
      BY <1>3, <1>4, <3>2, <3>5, <3>6 DEF NextForms, CurrentForms, KnownForm
  <2>7. QED
    BY <2>5, <2>6
<1>8. QED
  BY <1>6, <1>7

LEMMA EncodingSignedStep ==
    ASSUME CurrentForms, EncodingSigned
    PROVE  NextForms
<1>0. /\ Forms(tx, signing, spoiled, execution, encoding, given, mishaps)
      /\ tx \in TransactionFields /\ EncodingForm(tx, encoding)
  BY DEF CurrentForms, Forms
<1>1. PICK en, m0 : en = encoding' /\ m0 = encoding.made
  OBVIOUS
<1>2. PICK m : m = Answered(m0, tx)
  OBVIOUS
<1>3. /\ encoding.at = "making" /\ m0.pair # <<>>
      /\ en = [encoding EXCEPT !.made = m]
      /\ tx' = tx /\ signing' = signing /\ execution' = execution
      /\ given' = given /\ spoiled' = spoiled /\ mishaps' = mishaps
      /\ signOnDemand' = signOnDemand
  BY <1>1, <1>2 DEF EncodingSigned, IsSigned, historyVars
<1>4. m0 \in Making
  BY <1>0, <1>1, <1>3 DEF EncodingForm
<1>5. m \in Making /\ m.node = m0.node
  BY <1>0, <1>2, <1>3, <1>4, AnsweredFacts
<1>6. Forms(tx, signing, spoiled, execution, en, given, mishaps)
  BY <1>0, <1>1, <1>3, <1>5, EntryAnswered
<1>7. QED
  BY <1>1, <1>3, <1>6 DEF NextForms, CurrentForms, KnownForm

LEMMA EncodingPushedStep ==
    ASSUME CurrentForms, EncodingPushed
    PROVE  NextForms
<1>0. Forms(tx, signing, spoiled, execution, encoding, given, mishaps)
  BY DEF CurrentForms
<1>1. PICK t : t = Pushed(tx, encoding)
  OBVIOUS
<1>2. PICK v, en : v = tx' /\ en = encoding'
  OBVIOUS
<1>3. PICK left, locks : left = encoding.left /\ locks = encoding.locks
  OBVIOUS
<1>4. /\ encoding.at = "making"
      /\ signOnDemand' = signOnDemand /\ signing' = signing
      /\ execution' = execution /\ spoiled' = spoiled /\ mishaps' = mishaps
      /\ given' = given
  BY DEF EncodingPushed, historyVars
<1>5. /\ Forms(t, signing, spoiled, execution, Idle, given, mishaps)
      /\ HasSigned(t) /\ t.onDemand /\ "transactions" \notin t.locked
      /\ left \in 1..N /\ locks \in BOOLEAN
      /\ \/ Disorders \cap mishaps # {}
         \/ left = 1 /\ t.built = Nodes
         \/ left # 1 /\ AllBut(t, left - 1)
  <2>1. /\ Forms(t, signing, spoiled, execution, Idle, given, mishaps)
        /\ HasSigned(t) /\ t.onDemand
        /\ "transactions" \notin t.locked
        /\ encoding.left \in 1..N /\ encoding.locks \in BOOLEAN
        /\ \/ Disorders \cap mishaps # {}
           \/ encoding.left = 1 /\ t.built = Nodes
           \/ encoding.left # 1 /\ AllBut(t, encoding.left - 1)
    BY <1>0, <1>1, <1>4, EntryPushed
  <2>2. QED
    BY <1>3, <2>1
<1>6. CASE left = 1
  <2>1. v = t /\ en = [at |-> "made", locks |-> locks]
    BY <1>1, <1>2, <1>3, <1>6 DEF EncodingPushed, EncodingMade, Pushed
  <2>2. Disorders \cap mishaps # {} \/ t.built = Nodes
    BY <1>5, <1>6
  <2>3. Forms(v, signing, spoiled, execution, en, given, mishaps)
    BY <1>5, <2>1, <2>2, EncodingIsMade
  <2>4. QED
    BY <1>2, <1>4, <2>3 DEF NextForms, CurrentForms, KnownForm
<1>7. CASE left # 1
  <2>1. PICK less : less = left - 1
    OBVIOUS
  <2>2. less \in 1..N
    BY <1>5, <1>7, <2>1, NodeFacts
  <2>3. /\ v = Advanced(t)
        /\ en = [at |-> "making", made |-> Made(t), left |-> less,
                 locks |-> locks]
    BY <1>1, <1>2, <1>3, <1>7, <2>1 DEF EncodingPushed, EncodeEntry, Pushed
  <2>4. \/ Disorders \cap mishaps # {}
        \/ /\ Len(t.built) = N - less /\ t.index = N - less
           /\ \A j \in DOMAIN t.built : t.built[j] = Nodes[j]
    BY <1>5, <1>7, <2>1 DEF AllBut
  <2>5. Forms(v, signing, spoiled, execution, en, given, mishaps)
    BY <1>5, <2>2, <2>3, <2>4, EntryBegun
  <2>6. QED
    BY <1>2, <1>4, <2>5 DEF NextForms, CurrentForms, KnownForm
<1>8. QED
  BY <1>6, <1>7

LEMMA EncodingFailsStep ==
    ASSUME CurrentForms, EncodingFails
    PROVE  NextForms
<1>0. Forms(tx, signing, spoiled, execution, encoding, given, mishaps)
  BY DEF CurrentForms
<1>1. /\ encoding' = Idle /\ tx' = tx /\ signing' = signing
      /\ execution' = execution /\ given' = given /\ spoiled' = spoiled
      /\ mishaps' = mishaps /\ signOnDemand' = signOnDemand
  BY DEF EncodingFails, historyVars
<1>2. Forms(tx, signing, spoiled, execution, Idle, given, mishaps)
  BY <1>0, EncodingEnds
<1>3. QED
  BY <1>1, <1>2 DEF NextForms, CurrentForms, KnownForm

LEMMA GiveOutStep ==
    ASSUME CurrentForms, GiveOut
    PROVE  NextForms
<1>0. /\ Forms(tx, signing, spoiled, execution, encoding, given, mishaps)
      /\ tx \in TransactionFields /\ EncodingForm(tx, encoding)
      /\ EntriesForm(tx, encoding, given, mishaps)
  BY DEF CurrentForms, Forms
<1>1. PICK u, locks : u = tx' /\ locks = encoding.locks
  OBVIOUS
<1>2. /\ encoding.at = "made"
      /\ u = IF locks THEN [tx EXCEPT !.locked = @ \cup {"transactions", "signed"}]
             ELSE tx
      /\ encoding' = Idle /\ given' = tx.built
      /\ signOnDemand' = signOnDemand /\ signing' = signing
      /\ execution' = execution /\ spoiled' = spoiled /\ mishaps' = mishaps
  BY <1>1 DEF GiveOut
<1>3. locks \in BOOLEAN /\ HasSigned(tx)
  BY <1>0, <1>1, <1>2 DEF EncodingForm
<1>4. Disorders \cap mishaps # {} \/ tx.built = Nodes
  BY <1>0, <1>2 DEF EntriesForm
<1>5. Forms(tx, signing, spoiled, execution, Idle, given, mishaps)
  BY <1>0, EncodingEnds
<1>6. Forms(u, signing, spoiled, execution, Idle, tx.built, mishaps)
  BY <1>2, <1>3, <1>4, <1>5, GivenOut
<1>7. tx.built \in Seq(Range(Nodes) \cup {NoNode})
  BY <1>0 DEF TransactionFields
<1>8. QED
  BY <1>1, <1>2, <1>6, <1>7 DEF NextForms, CurrentForms, KnownForm

-----------------------------------------------------------------------------
(* The invariant *)

LEMMA BlankFacts ==
    /\ Blank \in TransactionFields /\ Blank.signed = <<>> /\ Blank.built = <<>>
    /\ ~ Blank.onDemand /\ Blank.locked = {} /\ Blank.index = 0
    /\ Blank.publicKeys = <<>> /\ Blank.signers = <<>>
<1>1. 0 \in 0..(N - 1) /\ 0 \in 0..MaxId
  BY NodeFacts, ConstantFacts
<1>2. PICK X, Y : X = Range(Nodes) \cup {NoNode} /\ Y = Key \cup {NoSigner}
  OBVIOUS
<1>3. PICK e : e = <<>>
  OBVIOUS
<1>4. e \in Seq(X) /\ e \in Seq(Y) /\ e \in Seq(Body) /\ e \in Seq(Key)
  BY <1>3
<1>5. PICK l : l = {}
  OBVIOUS
<1>6. l \in SUBSET {"ids", "transactions", "signed"} /\ l \in SUBSET Key
  BY <1>5
<1>7. Blank = [onDemand |-> FALSE, account |-> FALSE, locked |-> l, id |-> 0,
               index |-> 0, signed |-> e, built |-> e, signerKeys |-> l,
               publicKeys |-> e, signers |-> e]
  BY <1>3, <1>5 DEF Blank
<1>8. Blank \in TransactionFields
  BY <1>1, <1>2, <1>4, <1>6, <1>7 DEF TransactionFields
<1>9. QED
  BY <1>3, <1>5, <1>7, <1>8

LEMMA RestoredFacts ==
    ASSUME NEW k \in Key, NEW t, t = Restored(k)
    PROVE  /\ t \in TransactionFields
           /\ ~ t.onDemand /\ t.locked = {} /\ t.id = 1 /\ t.index = 0
           /\ t.signerKeys = {k} /\ t.built = Nodes
           /\ Len(t.signed) = N /\ DOMAIN t.signed = 1..N /\ t.signed # <<>>
           /\ \A i \in 1..N :
                 /\ t.signed[i].node = Nodes[i] /\ t.signed[i].id = 1
                 /\ Own(t.signed[i].sigs)
                 /\ \A x \in Key : t.signed[i].sigs[<<x, x>>]
                                       = IF x = k THEN 1 ELSE 0
           /\ InStep(t)
<1>1. PICK n \in Nat \ {0} : n = N
  BY NodeFacts
<1>2. PICK none \in SignatureMaps :
         /\ none = NoSignatures /\ Own(none)
         /\ \A x \in Key : none[<<x, x>>] = 0
  BY NoSignaturesFacts
<1>3. PICK m : m = Added(none, <<k, k>>)
  OBVIOUS
<1>4. /\ m \in SignatureMaps /\ Own(m)
      /\ \A x \in Key : m[<<x, x>>] = IF x = k THEN 1 ELSE 0
  <2>1. m \in SignatureMaps
    BY <1>2, <1>3, AddedFacts
  <2>2. /\ Own(m) /\ m[<<k, k>>] = none[<<k, k>>] + 1
        /\ \A x \in Key \ {k} : m[<<x, x>>] = none[<<x, x>>]
    BY <1>2, <1>3, OneMore
  <2>3. QED
    BY <1>2, <2>1, <2>2
<1>5. PICK bodies : bodies = [i \in 1..n |-> [node |-> Nodes[i], id |-> 1,
                                              sigs |-> m]]
  OBVIOUS
<1>6. /\ bodies \in Seq(Body) /\ Len(bodies) = n /\ DOMAIN bodies = 1..n
      /\ bodies # <<>>
  <2>1. 1 \in 0..MaxId
    BY SigningAssumption DEF SigningAssumption
  <2>2. \A i \in 1..n : Nodes[i] \in Range(Nodes)
    BY <1>1, NodeFacts
  <2>3. bodies \in [1..n -> Body]
    BY <1>4, <1>5, <2>1, <2>2 DEF Body
  <2>4. bodies \in Seq(Body) /\ Len(bodies) = n /\ DOMAIN bodies = 1..n
    BY <1>1, <2>3
  <2>5. QED
    BY <1>1, <2>4
<1>7. PICK keys : keys = [i \in 1..n |-> k]
  OBVIOUS
<1>8. PICK signers : signers = [i \in 1..n |-> NoSigner]
  OBVIOUS
<1>9. /\ keys \in Seq(Key) /\ Len(keys) = n
      /\ signers \in Seq(Key \cup {NoSigner})
      /\ Len(signers) = n /\ DOMAIN signers = 1..n
      /\ \A j \in 1..n : signers[j] = NoSigner
  <2>1. keys \in [1..n -> Key]
    BY <1>7
  <2>2. PICK X : X = Key \cup {NoSigner}
    OBVIOUS
  <2>3. signers \in [1..n -> X] /\ \A j \in 1..n : signers[j] = NoSigner
    BY <1>8, <2>2
  <2>4. keys \in Seq(Key) /\ Len(keys) = n
    BY <1>1, <2>1
  <2>5. signers \in Seq(X) /\ Len(signers) = n /\ DOMAIN signers = 1..n
    BY <1>1, <2>3
  <2>6. QED
    BY <2>2, <2>3, <2>4, <2>5
<1>10. t = [Blank EXCEPT !.id = 1, !.signerKeys = {k}, !.signed = bodies,
                         !.built = Nodes, !.publicKeys = keys,
                         !.signers = signers]
  BY <1>1, <1>2, <1>3, <1>5, <1>7, <1>8 DEF Restored
<1>11. /\ Nodes \in Seq(Range(Nodes) \cup {NoNode}) /\ 0 \in 0..(N - 1)
       /\ 1 \in 0..MaxId
  <2>1. PICK X : X = Range(Nodes) \cup {NoNode}
    OBVIOUS
  <2>2. \A i \in 1..n : Nodes[i] \in X
    BY <1>1, <2>1, NodeFacts
  <2>3. Nodes = [i \in 1..n |-> Nodes[i]]
    BY <1>1, NodeFacts
  <2>4. Nodes \in [1..n -> X]
    BY <2>2, <2>3
  <2>5. Nodes \in Seq(X)
    BY <1>1, <2>4
  <2>6. QED
    BY <2>1, <2>5, NodeFacts, SigningAssumption DEF SigningAssumption
<1>12. /\ t \in TransactionFields
       /\ ~ t.onDemand /\ t.locked = {} /\ t.id = 1 /\ t.index = 0
       /\ t.signerKeys = {k} /\ t.built = Nodes /\ t.signed = bodies
       /\ t.publicKeys = keys /\ t.signers = signers
  <2>1. PICK b \in TransactionFields :
           /\ b = Blank /\ ~ b.onDemand /\ b.locked = {} /\ b.index = 0
    BY BlankFacts
  <2>2. PICK one : one = {k}
    OBVIOUS
  <2>3. one \in SUBSET Key
    BY <2>2
  <2>4. t = [b EXCEPT !.id = 1, !.signerKeys = one, !.signed = bodies,
                      !.built = Nodes, !.publicKeys = keys,
                      !.signers = signers]
    BY <1>10, <2>1, <2>2
  <2>5. /\ t \in TransactionFields
        /\ t.onDemand = b.onDemand /\ t.locked = b.locked /\ t.id = 1
        /\ t.index = b.index /\ t.signerKeys = one /\ t.built = Nodes
        /\ t.signed = bodies /\ t.publicKeys = keys /\ t.signers = signers
    BY <1>6, <1>9, <1>11, <2>3, <2>4 DEF TransactionFields
  <2>6. QED
    BY <2>1, <2>2, <2>5
<1>13. InStep(t)
  BY <1>9, <1>12 DEF InStep
<1>14. \A i \in 1..n : /\ bodies[i].node = Nodes[i] /\ bodies[i].id = 1
                        /\ bodies[i].sigs = m
  BY <1>5
<1>15. \A i \in 1..n :
          /\ bodies[i].node = Nodes[i] /\ bodies[i].id = 1
          /\ Own(bodies[i].sigs)
          /\ \A x \in Key : bodies[i].sigs[<<x, x>>]
                                = IF x = k THEN 1 ELSE 0
  <2> SUFFICES ASSUME NEW i \in 1..n
               PROVE  /\ bodies[i].node = Nodes[i] /\ bodies[i].id = 1
                      /\ Own(bodies[i].sigs)
                      /\ \A x \in Key : bodies[i].sigs[<<x, x>>]
                                            = IF x = k THEN 1 ELSE 0
    OBVIOUS
  <2>1. bodies[i].node = Nodes[i] /\ bodies[i].id = 1 /\ bodies[i].sigs = m
    BY <1>14
  <2>2. Own(bodies[i].sigs)
    BY <1>4, <2>1
  <2>3. \A x \in Key : bodies[i].sigs[<<x, x>>] = IF x = k THEN 1 ELSE 0
    BY <1>4, <2>1
  <2>4. QED
    BY <2>1, <2>2, <2>3
<1>16. t.signed = bodies
  BY <1>12
<1>17. /\ Len(t.signed) = N /\ DOMAIN t.signed = 1..N /\ t.signed # <<>>
  BY <1>1, <1>6, <1>16
<1>18. \A i \in 1..N :
          /\ t.signed[i].node = Nodes[i] /\ t.signed[i].id = 1
          /\ Own(t.signed[i].sigs)
          /\ \A x \in Key : t.signed[i].sigs[<<x, x>>]
                                = IF x = k THEN 1 ELSE 0
  BY <1>1, <1>15, <1>16
<1>19. QED
  BY <1>12, <1>13, <1>17, <1>18

LEMMA InitIInv == Init => IInv
<1> SUFFICES ASSUME Init
             PROVE  IInv
  OBVIOUS
<1>0. /\ DOMAIN signing = {} /\ execution = Idle /\ encoding = Idle
      /\ given = Nodes /\ spoiled = {} /\ mishaps = {} /\ calls = 0
      /\ signOnDemand \in BOOLEAN
      /\ tx \in {Blank, [Blank EXCEPT !.id = 1, !.locked = {"ids"}]}
                    \cup {Restored(k) : k \in Key}
  BY DEF Init
<1>1. execution.at = "idle" /\ encoding.at = "idle"
  BY <1>0 DEF Idle
<1> DEFINE Start ==
               /\ tx \in TransactionFields /\ BodiesForm(tx)
               /\ SignersForm(tx, signing, spoiled)
               /\ IdsForm(tx, execution, mishaps)
               /\ PairsForm(tx, execution, mishaps)
               /\ EntriesForm(tx, encoding, given, mishaps)
<1>2. ASSUME tx \in {Blank, [Blank EXCEPT !.id = 1, !.locked = {"ids"}]}
      PROVE  Start
  <2>1. /\ tx \in TransactionFields /\ tx.signed = <<>> /\ tx.built = <<>>
        /\ ~ tx.onDemand /\ tx.locked \subseteq {"ids"}
        /\ tx.publicKeys = <<>> /\ tx.signers = <<>>
    <3>1. 0 \in 0..(N - 1) /\ 0 \in 0..MaxId /\ 1 \in 0..MaxId
      BY NodeFacts, SigningAssumption DEF SigningAssumption
    <3>2. CASE tx = Blank
      BY <3>1, <3>2, BlankFacts
    <3>3. CASE tx = [Blank EXCEPT !.id = 1, !.locked = {"ids"}]
      <4>1. PICK t \in TransactionFields : t = Blank
        BY BlankFacts
      <4>2. PICK l : l = {"ids"}
        OBVIOUS
      <4>3. l \in SUBSET {"ids", "transactions", "signed"}
        BY <4>2
      <4>4. tx = [t EXCEPT !.id = 1, !.locked = l]
        BY <3>3, <4>1, <4>2
      <4>5. /\ tx \in TransactionFields /\ tx.signed = t.signed
            /\ tx.built = t.built /\ tx.onDemand = t.onDemand /\ tx.locked = l
            /\ tx.publicKeys = t.publicKeys /\ tx.signers = t.signers
        BY <3>1, <4>3, <4>4 DEF TransactionFields
      <4>6. QED
        BY <4>1, <4>2, <4>5, BlankFacts
    <3>4. QED
      BY <1>2, <3>2, <3>3
  <2>2. DOMAIN tx.signed = {} /\ ~ HasSigned(tx)
    BY <2>1 DEF HasSigned
  <2>3. BodiesForm(tx)
    BY <2>1, <2>2 DEF BodiesForm
  <2>4. SignersForm(tx, signing, spoiled)
    BY <1>0, <2>2 DEF SignersForm
  <2>5. IdsForm(tx, execution, mishaps)
    BY <1>1, <2>2 DEF IdsForm
  <2>6. PairsForm(tx, execution, mishaps)
    BY <1>1, <2>1 DEF PairsForm, InStep
  <2>7. EntriesForm(tx, encoding, given, mishaps)
    <3>1. Len(tx.built) <= N
      BY <2>1, NodeFacts
    <3>2. QED
      BY <1>0, <1>1, <2>1, <3>1 DEF EntriesForm
  <2>8. QED
    BY <2>1, <2>3, <2>4, <2>5, <2>6, <2>7
<1>3. ASSUME tx \in {Restored(k) : k \in Key}
      PROVE  Start
  <2>1. PICK k \in Key : tx = Restored(k)
    BY <1>3
  <2>2. PICK t : t = tx
    OBVIOUS
  <2>3. /\ t \in TransactionFields
        /\ ~ t.onDemand /\ t.locked = {} /\ t.id = 1 /\ t.index = 0
        /\ t.signerKeys = {k} /\ t.built = Nodes
        /\ Len(t.signed) = N /\ DOMAIN t.signed = 1..N /\ t.signed # <<>>
        /\ \A i \in 1..N :
              /\ t.signed[i].node = Nodes[i] /\ t.signed[i].id = 1
              /\ Own(t.signed[i].sigs)
              /\ \A x \in Key : t.signed[i].sigs[<<x, x>>]
                                    = IF x = k THEN 1 ELSE 0
        /\ InStep(t)
    BY <2>1, <2>2, RestoredFacts
  <2>4. BodiesForm(t)
    BY <2>3 DEF BodiesForm
  <2>5. SignersForm(t, signing, spoiled)
    BY <1>0, <2>3 DEF SignersForm
  <2>6. IdsForm(t, execution, mishaps)
    BY <1>1, <2>3 DEF IdsForm
  <2>7. PairsForm(t, execution, mishaps)
    BY <1>1, <2>3 DEF PairsForm
  <2>8. EntriesForm(t, encoding, given, mishaps)
    <3>1. Len(t.built) <= N
      BY <2>3, NodeFacts
    <3>2. QED
      BY <1>0, <1>1, <2>3, <3>1 DEF EntriesForm
  <2>9. QED
    BY <2>2, <2>3, <2>4, <2>5, <2>6, <2>7, <2>8
<1>4. Start
  BY <1>0, <1>2, <1>3
<1>5. ExecutionForm(tx, execution) /\ EncodingForm(tx, encoding)
  BY <1>1 DEF ExecutionForm, EncodingForm
<1>6. SigningForm(tx, signing)
  <2>1. signing \in [DOMAIN signing -> [next : 1..N, current : BOOLEAN]]
    BY DEF Init
  <2>2. QED
    BY <1>0, <2>1 DEF SigningForm
<1>7. KnownForm
  <2>1. Nodes \in Seq(Range(Nodes) \cup {NoNode})
    <3>1. PICK n \in Nat : n = N
      BY NodeFacts
    <3>2. PICK X : X = Range(Nodes) \cup {NoNode}
      OBVIOUS
    <3>3. Nodes = [i \in 1..n |-> Nodes[i]] /\ \A i \in 1..n : Nodes[i] \in X
      BY <3>1, <3>2, NodeFacts
    <3>4. Nodes \in [1..n -> X]
      BY <3>3
    <3>5. QED
      BY <3>1, <3>2, <3>4
  <2>2. QED
    BY <1>0, <2>1 DEF KnownForm
<1>8. calls \in 0..MaxCalls
  BY <1>0, ConstantFacts
<1>9. QED
  BY <1>4, <1>5, <1>6, <1>7, <1>8 DEF IInv, Forms

LEMMA StepKeeps == CurrentForms /\ (Application \/ Continuation) => NextForms
<1> SUFFICES ASSUME CurrentForms, Application \/ Continuation
             PROVE  NextForms
  OBVIOUS
<1>1. CASE Application
  <2>1. CASE Freeze
    BY <2>1, FreezeStep
  <2>2. CASE RemoveAllSignatures
    BY <2>2, RemoveAllSignaturesStep
  <2>3. CASE ToBytes
    BY <2>3, ToBytesStep
  <2>4. CASE Execute
    BY <2>4, ExecuteStep
  <2>5. ASSUME NEW locks \in BOOLEAN, Encode(locks)
        PROVE  NextForms
    BY <2>5, EncodeStep
  <2>6. ASSUME NEW k \in Key, Sign(k)
        PROVE  NextForms
    BY <2>6, SignStep
  <2>7. ASSUME NEW k \in Key, AddSignature(k)
        PROVE  NextForms
    BY <2>7, AddSignatureStep
  <2>8. ASSUME NEW k \in Key, RemoveSignature(k)
        PROVE  NextForms
    BY <2>8, RemoveSignatureStep
  <2>9. QED
    BY <1>1, <2>1, <2>2, <2>3, <2>4, <2>5, <2>6, <2>7, <2>8 DEF Application
<1>2. CASE Continuation
  <2>1. ASSUME NEW k \in DOMAIN signing, SignerAnswers(k)
        PROVE  NextForms
    BY <2>1, SignerAnswersStep
  <2>2. ASSUME NEW k \in DOMAIN signing, SignerFails(k)
        PROVE  NextForms
    BY <2>2, SignerFailsStep
  <2>3. CASE Attempt
    BY <2>3, AttemptStep
  <2>4. CASE AttemptOnDemand
    BY <2>4, AttemptOnDemandStep
  <2>5. CASE RequestSigned
    BY <2>5, RequestSignedStep
  <2>6. CASE GiveUp \/ Retry
    BY <2>6, GiveUpStep
  <2>7. CASE Expired
    BY <2>7, ExpiredStep
  <2>8. CASE EncodingSigned
    BY <2>8, EncodingSignedStep
  <2>9. CASE EncodingPushed
    BY <2>9, EncodingPushedStep
  <2>10. CASE EncodingFails
    BY <2>10, EncodingFailsStep
  <2>11. CASE End
    BY <2>11, EndStep
  <2>12. CASE GiveOut
    BY <2>12, GiveOutStep
  <2>13. QED
    BY <1>2, <2>1, <2>2, <2>3, <2>4, <2>5, <2>6, <2>7, <2>8, <2>9, <2>10,
       <2>11, <2>12 DEF Continuation
<1>3. QED
  BY <1>1, <1>2

LEMMA NextIInv == IInv /\ [Next]_vars => IInv'
<1> SUFFICES ASSUME IInv, [Next]_vars
             PROVE  IInv'
  OBVIOUS
<1>1. CurrentForms /\ calls \in 0..MaxCalls
  BY DEF IInv, CurrentForms
<1>2. CASE Next
  <2>1. NextForms
    BY <1>1, <1>2, StepKeeps DEF Next
  <2>2. calls' \in 0..MaxCalls
    <3>1. \/ calls' = calls
          \/ calls < MaxCalls /\ calls' = calls + 1
      BY <1>2 DEF Next
    <3>2. QED
      BY <1>1, <3>1, ConstantFacts
  <2>3. Forms(tx', signing', spoiled', execution', encoding', given', mishaps')
        /\ KnownForm'
    BY <2>1 DEF NextForms
  <2>4. QED
    BY <2>2, <2>3 DEF IInv
<1>3. CASE UNCHANGED vars
  BY <1>3 DEF vars, historyVars, IInv, KnownForm
<1>4. QED
  BY <1>2, <1>3

\* The invariant holds whatever the application calls and the signers answer.
THEOREM Invariance == Spec => []IInv
BY InitIInv, NextIInv, PTL DEF Spec

-----------------------------------------------------------------------------
(* What the application relies on *)

LEMMA MatchFollows == IInv => SignaturesMatchKeys
<1> SUFFICES ASSUME IInv, ~ tx.onDemand,
                    NEW i \in DOMAIN tx.signed, NEW k \in Key \ spoiled,
                    NEW l \in Key
             PROVE  tx.signed[i].sigs[<<k, l>>]
                        = IF /\ l = k /\ k \in tx.signerKeys
                             /\ k \notin DOMAIN signing \/ i < signing[k].next
                          THEN 1 ELSE 0
  BY DEF SignaturesMatchKeys
<1>1. /\ tx \in TransactionFields /\ BodiesForm(tx)
      /\ SigningForm(tx, signing) /\ SignersForm(tx, signing, spoiled)
  BY DEF IInv, Forms
<1>2. Own(tx.signed[i].sigs)
  BY <1>1 DEF BodiesForm
<1>3. CASE l # k
  <2>1. <<k, l>> \in Signatures /\ <<k, l>>[1] # <<k, l>>[2]
    BY <1>3 DEF Signatures
  <2>2. QED
    BY <1>2, <1>3, <2>1 DEF Own
<1>4. CASE l = k /\ k \notin tx.signerKeys
  BY <1>1, <1>4 DEF SignersForm
<1>5. CASE l = k /\ k \in tx.signerKeys
  <2>1. tx.signed[i].sigs[<<k, k>>]
            = IF k \in DOMAIN signing /\ i >= signing[k].next THEN 0 ELSE 1
    BY <1>1, <1>5 DEF SignersForm
  <2>2. i \in Nat
    BY <1>1 DEF TransactionFields
  <2>3. k \in DOMAIN signing => signing[k].next \in 1..N
    BY <1>1 DEF SigningForm
  <2>4. k \in DOMAIN signing => (i < signing[k].next <=> ~ i >= signing[k].next)
    BY <2>2, <2>3, NodeFacts
  <2>5. QED
    BY <1>5, <2>1, <2>4
<1>6. QED
  BY <1>3, <1>4, <1>5

\* SigningInv: every body of a transaction that does not sign on demand has one
\* signature of each recorded key whose signer got that far, and none of others.
THEOREM BodiesMatchKeys == Spec => []SigningInv
<1>1. IInv => TypeOK
  <2> SUFFICES ASSUME IInv
               PROVE  TypeOK
    OBVIOUS
  <2>1. /\ KnownForm /\ calls \in 0..MaxCalls
        /\ tx \in TransactionFields /\ SigningForm(tx, signing)
        /\ ExecutionForm(tx, execution) /\ EncodingForm(tx, encoding)
    BY DEF IInv, Forms
  <2>2. /\ execution.at \in {"idle", "turn", "signing", "making", "sent"}
        /\ execution.at = "making" => execution.made \in Making
        /\ execution.at = "sent" => execution.request \in Body
    BY <2>1 DEF ExecutionForm
  <2>3. /\ encoding.at \in {"idle", "making", "made"}
        /\ encoding.at # "idle" => encoding.locks \in BOOLEAN
        /\ encoding.at = "making" =>
              encoding.made \in Making /\ encoding.left \in 1..N
    BY <2>1 DEF EncodingForm
  <2>4. QED
    BY <2>1, <2>2, <2>3 DEF TypeOK, KnownForm, SigningForm
<1>2. IInv => SigningInv
  BY <1>1, MatchFollows DEF SigningInv
<1>3. QED
  BY <1>2, Invariance, PTL

\* SentRequestIsForItsNode: a body is sent to the node that it is for, with the
\* ID that the response will name.
THEOREM RequestsForTheirNodes == Spec => []SentRequestIsForItsNode
<1>1. IInv => SentRequestIsForItsNode
  <2> SUFFICES ASSUME IInv, execution.at = "sent"
               PROVE  SentRequestIsForItsNode
    BY DEF SentRequestIsForItsNode
  <2>1. IdsForm(tx, execution, mishaps)
    BY DEF IInv, Forms
  <2>2. QED
    BY <2>1 DEF IdsForm, SentRequestIsForItsNode
<1>2. QED
  BY <1>1, Invariance, PTL

\* SignaturesAreByTheirKeys: what is sent has no signature of one key that the
\* signer of another made, unless a removal has put the lists out of step.
THEOREM OwnSignatures == Spec => []SignaturesAreByTheirKeys
<1>1. IInv => SignaturesAreByTheirKeys
  <2> SUFFICES ASSUME IInv, "wrong pair" \notin mishaps, execution.at = "sent",
                      NEW s \in Signatures, execution.request.sigs[s] > 0
               PROVE  s[1] = s[2]
    BY DEF SignaturesAreByTheirKeys
  <2>1. PairsForm(tx, execution, mishaps)
    BY DEF IInv, Forms
  <2>2. Own(execution.request.sigs)
    BY <2>1 DEF PairsForm
  <2>3. PICK n \in Nat : n = execution.request.sigs[s]
    <3>1. execution.request \in Body
      BY DEF IInv, Forms, ExecutionForm
    <3>2. execution.request.sigs \in [Signatures -> Nat]
      BY <3>1 DEF Body, SignatureMaps
    <3>3. QED
      BY <3>2
  <2>4. s[1] # s[2] => n = 0
    BY <2>2, <2>3 DEF Own
  <2>5. n # 0
    <3>1. n > 0
      BY <2>3
    <3>2. QED
      BY ONLY <3>1, n \in Nat
  <2>6. QED
    BY <2>4, <2>5
<1>2. QED
  BY <1>1, Invariance, PTL

\* GivenOutForEveryNode: bytes and hashes are for all nodes in their order,
\* unless what is listed in Disorders has happened.
THEOREM WholeListsGiven == Spec => []GivenOutForEveryNode
<1>1. IInv => GivenOutForEveryNode
  <2> SUFFICES ASSUME IInv
               PROVE  GivenOutForEveryNode
    OBVIOUS
  <2>1. EntriesForm(tx, encoding, given, mishaps)
    BY DEF IInv, Forms
  <2>2. QED
    BY <2>1 DEF EntriesForm, Disorders, GivenOutForEveryNode
<1>2. QED
  BY <1>1, Invariance, PTL
=============================================================================
