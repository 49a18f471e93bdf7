-------------------------- MODULE QueryPayment_proofs -------------------------
(***************************************************************************)
(* Proofs about QueryPayment: a payment goes to the node that is asked,    *)
(* stays within the maximum the comparison can hold, and who waits for a   *)
(* transaction learns what became of it. For every number of executions of *)
(* one query that run at the same time.                                    *)
(***************************************************************************)
EXTENDS QueryPayment, TLAPS

-----------------------------------------------------------------------------
(* The inductive invariant *)

\* The payment is known before anything is prepared or sent, and a call makes
\* its own for the node it chose.
CallForm(c) ==
    /\ call[c].at \in {"new", "asking", "preparing", "turn", "making", "sent",
                       "resolved", "rejected"}
    /\ call[c].at = "asking" => call[c].max \in Limits
    /\ call[c].at = "preparing" => call[c].next \in 1..N
    /\ call[c].at \in {"turn", "making"} => call[c].attempt \in 1..MaxAttempts
    /\ call[c].at = "making" =>
          /\ call[c].node \in Range(Nodes)
          /\ call[c].payment.node = call[c].node
          /\ call[c].payment.amount \in Amount
    /\ call[c].at \in {"preparing", "turn", "making", "sent"} =>
          query.payment \in Amount

PaymentKnown ==
    /\ \A c \in Call : CallForm(c)
    /\ query.prepared # <<>> => query.payment \in Amount

\* Who prepares payments is alone from the first one on.
PreparedAlone ==
    \/ "prepared twice" \in mishaps
    \/ /\ \A c \in Call :
             /\ call[c].at = "asking" => query.prepared = <<>>
             /\ call[c].at = "preparing" =>
                   call[c].next = Len(query.prepared) + 1
       /\ query.prepared # <<>> =>
             \A c, d \in Call :
                 call[c].at \in {"asking", "preparing"} /\
                 call[d].at \in {"asking", "preparing"} => c = d

\* A cost is accepted against the maximum, whichever call pays it then.
Within(a) ==
    \/ a >= 2^(Width - 1) \/ query.max >= 2^(Width - 1)
    \/ a <= query.max

AmountsWithin ==
    \/ {"payment set", "maximum set"} \cap mishaps # {}
    \/ /\ query.payment \in Amount => Within(query.payment)
       /\ \A c \in Call :
             /\ call[c].at = "asking" => call[c].max = query.max
             /\ call[c].at = "making" => Within(call[c].payment.amount)
             /\ call[c].at = "sent" => Within(call[c].request.amount)
       /\ \A r \in charges : Within(r.amount)

IInv ==
    /\ PaymentInv
    /\ PaymentKnown
    /\ PreparedAlone
    /\ AmountsWithin
    /\ SettlesWithFinalReceipt

-----------------------------------------------------------------------------
(* Amounts and nodes *)

LEMMA NodeFacts ==
    /\ N \in Nat \ {0}
    /\ \A i \in 1..N : Nodes[i] \in Range(Nodes)
    /\ \A i \in 0..(N - 1) : Nodes[i + 1] \in Range(Nodes) /\ (i + 1) % N \in 0..(N - 1)
<1>1. Nodes \in Seq(Range(Nodes)) /\ Nodes # <<>>
  BY PaymentAssumption DEF PaymentAssumption
<1>2. N \in Nat \ {0} /\ DOMAIN Nodes = 1..N
  BY <1>1 DEF N
<1>3. \A i \in 1..N : Nodes[i] \in Range(Nodes)
  BY <1>2 DEF Range
<1>4. \A i \in 0..(N - 1) : i + 1 \in 1..N /\ (i + 1) % N \in 0..(N - 1)
  BY <1>2
<1>5. QED
  BY <1>2, <1>3, <1>4

LEMMA ConstantFacts ==
    /\ Costs \subseteq Nat /\ Limits \subseteq Nat /\ Amounts \subseteq Nat
    /\ None \notin Nat /\ MaxSets \in Nat /\ MaxAttempts \in Nat \ {0}
BY PaymentAssumption DEF PaymentAssumption

LEMMA FeeIsAmount ==
    ASSUME NEW cost \in Nat
    PROVE  Fee(cost) \in Nat
BY DEF Fee

\* What fits into the integers of the comparison is compared as it is.
LEMMA ToIntKeeps ==
    ASSUME NEW x \in Nat, x < 2^(Width - 1)
    PROVE  ToInt(x) = x
<1> PICK M \in Nat, H \in Nat : M = 2^Width /\ H = 2^(Width - 1) /\ H <= M
  BY PowerAssumption DEF PowerAssumption
<1>1. x < H /\ x < M
  OBVIOUS
<1>2. x % M = x
  BY <1>1
<1>3. QED
  BY <1>1, <1>2 DEF ToInt

\* A cost that is not refused is within the maximum.
LEMMA AcceptedIsWithin ==
    ASSUME NEW cost \in Nat, NEW max \in Nat, ~ Exceeds(cost, max)
    PROVE  \/ Fee(cost) >= 2^(Width - 1) \/ max >= 2^(Width - 1)
           \/ Fee(cost) <= max
<1> PICK f \in Nat : f = Fee(cost)
  BY FeeIsAmount
<1> PICK H \in Nat : H = 2^(Width - 1)
  BY PowerAssumption DEF PowerAssumption
<1>1. ~ ToInt(max) < ToInt(f)
  BY DEF Exceeds
<1>2. CASE f < H /\ max < H
  <2>1. ToInt(f) = f /\ ToInt(max) = max
    BY <1>2, ToIntKeeps
  <2>2. ~ max < f
    BY <1>1, <2>1
  <2>3. QED
    BY <2>2
<1>3. CASE f >= H \/ max >= H
  BY <1>3
<1>4. QED
  BY <1>2, <1>3

LEMMA QueryFacts ==
    ASSUME TypeOK
    PROVE  /\ query.payment \in Amount \cup {None} /\ query.max \in Limits
           /\ query.index \in 0..(N - 1)
           /\ query.prepared \in Seq([node : Range(Nodes), amount : Amount])
BY DEF TypeOK, QueryFields

LEMMA Moved ==
    ASSUME TypeOK, NEW c \in Call, NEW x, call' = [call EXCEPT ![c] = x]
    PROVE  /\ DOMAIN call' = Call /\ call'[c] = x
           /\ \A d \in Call \ {c} : call'[d] = call[d]
BY DEF TypeOK

-----------------------------------------------------------------------------
(* A step of one call *)

NothingPrepared == "prepared twice" \in mishaps \/ query.prepared = <<>>

\* What a call may become: its request is in order, it prepares only where
\* nothing is prepared, its amounts are within the maximum, and it settles with
\* what became of the transaction.
MayBecome(c, x) ==
    /\ call' = [call EXCEPT ![c] = x]
    /\ CallForm(c)'
    /\ x.at = "sent" => x.request \in Request /\ x.request.payee = x.request.node
    /\ x.at \in {"asking", "preparing"} => NothingPrepared
    /\ x.at = "preparing" => x.next = 1
    /\ \/ {"payment set", "maximum set"} \cap mishaps # {}
       \/ /\ x.at = "asking" => x.max = query.max
          /\ x.at = "making" => Within(x.payment.amount)
          /\ x.at = "sent" => Within(x.request.amount)
    /\ x.at = "resolved" /\ Waits =>
          /\ x.receipt = consensus /\ consensus # "unknown"
          /\ validate => consensus \in Successes
    /\ x = Rejected("receipt") =>
          consensus \in Receipts \ ({"unknown"} \cup Successes)

\* The query changes only in what is not about to be compared or prepared.
QueryMoves ==
    /\ query' \in QueryFields
    /\ query'.max = query.max /\ query'.prepared = query.prepared
    /\ query.payment \in Amount => query'.payment \in Amount
    /\ \/ {"payment set", "maximum set"} \cap mishaps # {}
       \/ query'.payment \in Amount => Within(query'.payment)

LEMMA CallMoves ==
    ASSUME IInv, NEW c \in Call, NEW x, MayBecome(c, x), QueryMoves,
           UNCHANGED <<kind, validate, charges, consensus, sets, mishaps>>
    PROVE  IInv'
<1>0. /\ TypeOK /\ PaymentIsForAskedNode /\ PreparedPaymentsMatchNodes
      /\ PaymentKnown /\ PreparedAlone /\ AmountsWithin
      /\ SettlesWithFinalReceipt
  BY DEF IInv, PaymentInv
<1>1. /\ DOMAIN call' = Call /\ call'[c] = x
      /\ \A d \in Call \ {c} : call'[d] = call[d]
  BY <1>0, Moved DEF MayBecome
<1>2. TypeOK'
  BY <1>0, <1>1 DEF TypeOK, MayBecome, QueryMoves
<1>3. PaymentIsForAskedNode'
  BY <1>0, <1>1 DEF PaymentIsForAskedNode, MayBecome
<1>4. PreparedPaymentsMatchNodes'
  BY <1>0 DEF PreparedPaymentsMatchNodes, QueryMoves
<1>5. PaymentKnown'
  <2>1. \A d \in Call \ {c} : CallForm(d)'
    BY <1>0, <1>1 DEF PaymentKnown, CallForm, QueryMoves
  <2>2. query'.prepared # <<>> => query'.payment \in Amount
    BY <1>0 DEF PaymentKnown, QueryMoves
  <2>3. QED
    BY <2>1, <2>2 DEF PaymentKnown, MayBecome
<1>6. PreparedAlone'
  <2>1. query'.prepared = query.prepared /\ mishaps' = mishaps
    BY DEF QueryMoves
  <2>2. CASE "prepared twice" \in mishaps
    BY <2>1, <2>2 DEF PreparedAlone
  <2>3. CASE "prepared twice" \notin mishaps
    <3>1. /\ x.at \in {"asking", "preparing"} => query.prepared = <<>>
          /\ x.at = "preparing" => x.next = 1
      BY <2>3 DEF MayBecome, NothingPrepared
    <3>2. Len(<<>>) + 1 = 1
      OBVIOUS
    <3>3. \A d \in Call :
              /\ call'[d].at = "asking" => query.prepared = <<>>
              /\ call'[d].at = "preparing" =>
                    call'[d].next = Len(query.prepared) + 1
      BY <1>0, <1>1, <2>3, <3>1, <3>2 DEF PreparedAlone
    <3>4. query.prepared # <<>> =>
              \A d, e \in Call :
                  call'[d].at \in {"asking", "preparing"} /\
                  call'[e].at \in {"asking", "preparing"} => d = e
      BY <1>0, <1>1, <2>3, <3>1 DEF PreparedAlone
    <3>5. QED
      BY <2>1, <3>3, <3>4 DEF PreparedAlone
  <2>4. QED
    BY <2>2, <2>3
<1>7. AmountsWithin'
  <2>1. \A a : Within(a)' <=> Within(a)
    BY DEF Within, QueryMoves
  <2>2. QED
    BY <1>0, <1>1, <2>1 DEF AmountsWithin, MayBecome, QueryMoves
<1>8. SettlesWithFinalReceipt'
  BY <1>0, <1>1 DEF SettlesWithFinalReceipt, MayBecome, Waits, Successes
<1>9. QED
  BY <1>2, <1>3, <1>4, <1>5, <1>6, <1>7, <1>8 DEF IInv, PaymentInv

Others == UNCHANGED <<kind, validate, charges, consensus, sets, mishaps>>

LEMMA QueryStays ==
    ASSUME IInv, UNCHANGED query
    PROVE  QueryMoves
<1>1. query \in QueryFields /\ AmountsWithin
  BY DEF IInv, PaymentInv, TypeOK
<1>2. QED
  BY <1>1 DEF QueryMoves, AmountsWithin

LEMMA QueryAdvances ==
    ASSUME IInv, query' = Advanced
    PROVE  QueryMoves
<1>1. TypeOK /\ AmountsWithin
  BY DEF IInv, PaymentInv
<1>2. query \in QueryFields /\ (query.index + 1) % N \in 0..(N - 1)
  BY <1>1, QueryFacts, NodeFacts DEF TypeOK
<1>3. query' \in QueryFields
  BY <1>2 DEF Advanced, QueryFields
<1>4. /\ query'.payment = query.payment /\ query'.max = query.max
      /\ query'.prepared = query.prepared
  BY <1>2 DEF Advanced, QueryFields
<1>5. QED
  BY <1>1, <1>3, <1>4 DEF QueryMoves, AmountsWithin

\* The payment becomes an amount within the maximum.
LEMMA PaymentChosen ==
    ASSUME IInv, NEW a \in Nat, query' = [query EXCEPT !.payment = a],
           \/ {"payment set", "maximum set"} \cap mishaps # {}
           \/ Within(a)
    PROVE  QueryMoves /\ query'.payment = a
<1>1. query \in QueryFields
  BY DEF IInv, PaymentInv, TypeOK
<1>2. query' \in QueryFields
  BY <1>1 DEF QueryFields, Amount
<1>3. /\ query'.payment = a /\ query'.max = query.max
      /\ query'.prepared = query.prepared
  BY <1>1 DEF QueryFields
<1>4. QED
  BY <1>2, <1>3 DEF QueryMoves, Amount

\* Calls that enter the loop, prepare the first payment, ask for the cost or
\* are rejected.
LEMMA LoopMoves ==
    ASSUME IInv, NEW c \in Call, NEW n \in 1..MaxAttempts,
           call' = [call EXCEPT ![c] = Loop(n)], QueryMoves,
           query'.payment \in Amount, Others
    PROVE  IInv'
<1> PICK x : x = Loop(n)
  OBVIOUS
<1>1. x.at = "turn" /\ x.attempt = n /\ call' = [call EXCEPT ![c] = x]
  BY DEF Loop
<1>2. TypeOK /\ call'[c] = x
  BY <1>1, Moved DEF IInv, PaymentInv
<1>3. CallForm(c)'
  BY <1>1, <1>2 DEF CallForm
<1>4. x # Rejected("receipt")
  BY <1>1 DEF Rejected
<1>5. MayBecome(c, x)
  BY <1>1, <1>3, <1>4 DEF MayBecome
<1>6. QED
  BY <1>5, CallMoves DEF Others

LEMMA PreparingMoves ==
    ASSUME IInv, NEW c \in Call, NothingPrepared,
           call' = [call EXCEPT ![c] = Preparing(1)], QueryMoves,
           query'.payment \in Amount, Others
    PROVE  IInv'
<1> PICK x : x = Preparing(1)
  OBVIOUS
<1>1. x.at = "preparing" /\ x.next = 1 /\ call' = [call EXCEPT ![c] = x]
  BY DEF Preparing
<1>2. TypeOK /\ call'[c] = x
  BY <1>1, Moved DEF IInv, PaymentInv
<1>3. CallForm(c)'
  BY <1>1, <1>2, NodeFacts DEF CallForm
<1>4. x # Rejected("receipt")
  BY <1>1 DEF Rejected
<1>5. MayBecome(c, x)
  BY <1>1, <1>3, <1>4 DEF MayBecome
<1>6. QED
  BY <1>5, CallMoves DEF Others

LEMMA RejectionMoves ==
    ASSUME IInv, NEW c \in Call, NEW why,
           call' = [call EXCEPT ![c] = Rejected(why)], QueryMoves, Others,
           why = "receipt" =>
               consensus \in Receipts \ ({"unknown"} \cup Successes)
    PROVE  IInv'
<1> PICK x : x = Rejected(why)
  OBVIOUS
<1>1. x.at = "rejected" /\ x.why = why /\ call' = [call EXCEPT ![c] = x]
  BY DEF Rejected
<1>2. TypeOK /\ call'[c] = x
  BY <1>1, Moved DEF IInv, PaymentInv
<1>3. CallForm(c)'
  BY <1>1, <1>2 DEF CallForm
<1>4. x = Rejected("receipt") => why = "receipt"
  BY <1>1 DEF Rejected
<1>5. MayBecome(c, x)
  BY <1>1, <1>3, <1>4 DEF MayBecome
<1>6. QED
  BY <1>5, CallMoves DEF Others

-----------------------------------------------------------------------------
(* The steps before the loop *)

LEMMA ExecuteKeeps ==
    ASSUME IInv, NEW c \in Call, Execute(c), Others
    PROVE  IInv'
<1>0. TypeOK /\ PaymentKnown /\ AmountsWithin /\ 1 \in 1..MaxAttempts
  BY ConstantFacts DEF IInv, PaymentInv
<1>1. CASE query.prepared # <<>>
  <2>1. call' = [call EXCEPT ![c] = Loop(1)] /\ UNCHANGED query
    BY <1>1 DEF Execute
  <2>2. QueryMoves /\ query'.payment \in Amount
    BY <1>0, <1>1, <2>1, QueryStays DEF PaymentKnown
  <2>3. QED
    BY <1>0, <2>1, <2>2, LoopMoves
<1>2. CASE query.prepared = <<>> /\ PaymentRequired /\ query.payment = None
  <2> PICK x : x = [at |-> "asking", max |-> query.max]
    OBVIOUS
  <2>1. call' = [call EXCEPT ![c] = x] /\ UNCHANGED query
    BY <1>2 DEF Execute, Asking
  <2>2. x.at = "asking" /\ x.max = query.max /\ x.max \in Limits
    BY <1>0, QueryFacts
  <2>3. CallForm(c)'
    BY <1>0, <2>1, <2>2, Moved DEF CallForm
  <2>4. x # Rejected("receipt")
    BY <2>2 DEF Rejected
  <2>5. MayBecome(c, x)
    BY <1>2, <2>1, <2>2, <2>3, <2>4 DEF MayBecome, NothingPrepared
  <2>6. QED
    BY <2>1, <2>5, QueryStays, CallMoves DEF Others
<1>3. CASE query.prepared = <<>> /\ ~ (PaymentRequired /\ query.payment = None)
  <2> PICK a : a = IF query.payment = None THEN 0 ELSE query.payment
    OBVIOUS
  <2>1. /\ call' = [call EXCEPT ![c] = Preparing(1)]
        /\ query' = [query EXCEPT !.payment = a]
    BY <1>3 DEF Execute
  <2>2. a \in Nat /\ (a = 0 \/ a = query.payment)
    BY <1>0, QueryFacts DEF Amount
  <2>3. a = 0 => Within(a)
    <3>1. query.max \in Nat
      BY <1>0, QueryFacts, ConstantFacts
    <3>2. 0 <= query.max
      BY <3>1
    <3>3. QED
      BY <3>2 DEF Within
  <2>4. {"payment set", "maximum set"} \cap mishaps # {} \/ Within(a)
    BY <1>0, <2>2, <2>3 DEF AmountsWithin, Amount
  <2>5. QueryMoves /\ query'.payment = a
    BY <2>1, <2>2, <2>4, PaymentChosen
  <2>6. QED
    BY <1>3, <2>1, <2>2, <2>5, PreparingMoves DEF Amount, NothingPrepared
<1>4. QED
  BY <1>1, <1>2, <1>3

LEMMA CostArrivesKeeps ==
    ASSUME IInv, NEW c \in Call, NEW cost \in Costs, CostArrives(c, cost), Others
    PROVE  IInv'
<1>0. TypeOK /\ PaymentKnown /\ PreparedAlone /\ AmountsWithin
  BY DEF IInv, PaymentInv
<1>1. call[c].at = "asking" /\ cost \in Nat /\ call[c].max \in Nat
  BY <1>0, ConstantFacts DEF CostArrives, PaymentKnown, CallForm
<1>2. CASE Exceeds(cost, call[c].max)
  <2>1. call' = [call EXCEPT ![c] = Rejected("maximum")] /\ UNCHANGED query
    BY <1>2 DEF CostArrives
  <2>2. QED
    BY <2>1, QueryStays, RejectionMoves
<1>3. CASE ~ Exceeds(cost, call[c].max)
  <2> PICK a \in Nat : a = Fee(cost)
    BY <1>1, FeeIsAmount
  <2>1. /\ call' = [call EXCEPT ![c] = Preparing(1)]
        /\ query' = [query EXCEPT !.payment = a]
    BY <1>3 DEF CostArrives
  <2>2. PICK m \in Nat : m = call[c].max
    BY <1>1
  <2>3. a >= 2^(Width - 1) \/ m >= 2^(Width - 1) \/ a <= m
    BY <1>1, <1>3, <2>2, AcceptedIsWithin
  <2>4. {"payment set", "maximum set"} \cap mishaps # {} \/ m = query.max
    BY <1>0, <1>1, <2>2 DEF AmountsWithin
  <2>5. {"payment set", "maximum set"} \cap mishaps # {} \/ Within(a)
    BY <2>3, <2>4 DEF Within
  <2>6. QueryMoves /\ query'.payment \in Amount
    BY <2>1, <2>5, PaymentChosen DEF Amount
  <2>7. NothingPrepared
    BY <1>0, <1>1 DEF PreparedAlone, NothingPrepared
  <2>8. QED
    BY <2>1, <2>6, <2>7, PreparingMoves
<1>4. QED
  BY <1>2, <1>3

LEMMA BeforeFailsKeeps ==
    ASSUME IInv, NEW c \in Call, BeforeFails(c), Others
    PROVE  IInv'
<1>1. call' = [call EXCEPT ![c] = Rejected("error")] /\ UNCHANGED query
  BY DEF BeforeFails
<1>2. QED
  BY <1>1, QueryStays, RejectionMoves

LEMMA OverlapFacts ==
    ASSUME NEW c \in Call, mishaps' = mishaps \cup Overlaps(c)
    PROVE  /\ mishaps \subseteq mishaps'
           /\ "prepared twice" \notin mishaps' =>
                 \A d \in Call \ {c} : call[d].at \notin {"asking", "preparing"}
BY DEF Overlaps

\* A payment is added to those that are prepared.
LEMMA PreparedGrows ==
    ASSUME TypeOK, NEW i \in 1..N, query.payment \in Amount,
           query' = [query EXCEPT !.prepared = Append(@, Prepared(i))]
    PROVE  /\ query' \in QueryFields
           /\ query'.payment = query.payment /\ query'.max = query.max
           /\ Len(query'.prepared) = Len(query.prepared) + 1
           /\ \A j \in DOMAIN query.prepared :
                 query'.prepared[j] = query.prepared[j]
           /\ query'.prepared[Len(query.prepared) + 1] = Prepared(i)
<1> PICK p \in [node : Range(Nodes), amount : Amount] : p = Prepared(i)
  BY NodeFacts DEF Prepared
<1> PICK s \in Seq([node : Range(Nodes), amount : Amount]) : s = query.prepared
  BY QueryFacts
<1>1. query \in QueryFields
  BY DEF TypeOK
<1>2. query' = [query EXCEPT !.prepared = Append(s, p)]
  OBVIOUS
<1>3. Append(s, p) \in Seq([node : Range(Nodes), amount : Amount])
  OBVIOUS
<1>4. query' \in QueryFields
  BY <1>1, <1>2, <1>3 DEF QueryFields
<1>5. /\ query'.payment = query.payment /\ query'.max = query.max
      /\ query'.prepared = Append(s, p)
  BY <1>1, <1>2 DEF QueryFields
<1>6. /\ Len(Append(s, p)) = Len(s) + 1
      /\ \A j \in DOMAIN s : Append(s, p)[j] = s[j]
      /\ Append(s, p)[Len(s) + 1] = p
  OBVIOUS
<1>7. QED
  BY <1>4, <1>5, <1>6

LEMMA PrepareKeeps ==
    ASSUME IInv, NEW c \in Call, Prepare(c),
           UNCHANGED <<kind, validate, charges, consensus, sets>>
    PROVE  IInv'
<1>0. /\ TypeOK /\ PaymentIsForAskedNode /\ PreparedPaymentsMatchNodes
      /\ PaymentKnown /\ PreparedAlone /\ AmountsWithin
      /\ SettlesWithFinalReceipt
  BY DEF IInv, PaymentInv
<1> PICK i \in 1..N : i = call[c].next
  BY <1>0 DEF Prepare, PaymentKnown, CallForm
<1>1. /\ call[c].at = "preparing" /\ query.payment \in Amount
      /\ mishaps' = mishaps \cup Overlaps(c)
  BY <1>0 DEF Prepare, PaymentKnown, CallForm
<1> PICK x : x = IF i = N THEN Loop(1) ELSE Preparing(i + 1)
  OBVIOUS
<1>2. /\ call' = [call EXCEPT ![c] = x]
      /\ query' = [query EXCEPT !.prepared = Append(@, Prepared(i))]
  BY DEF Prepare
<1>3. /\ DOMAIN call' = Call /\ call'[c] = x
      /\ \A d \in Call \ {c} : call'[d] = call[d]
  BY <1>0, <1>2, Moved
<1>4. /\ x.at \in {"turn", "preparing"}
      /\ x.at = "turn" => x.attempt = 1
      /\ x.at = "preparing" => x.next = i + 1 /\ i # N
  BY DEF Loop, Preparing
<1>5. /\ query' \in QueryFields
      /\ query'.payment = query.payment /\ query'.max = query.max
      /\ Len(query'.prepared) = Len(query.prepared) + 1
      /\ \A j \in DOMAIN query.prepared :
            query'.prepared[j] = query.prepared[j]
      /\ query'.prepared[Len(query.prepared) + 1] = Prepared(i)
  BY <1>0, <1>1, <1>2, PreparedGrows
<1>6. /\ mishaps \subseteq mishaps'
      /\ "prepared twice" \notin mishaps' =>
            \A d \in Call \ {c} : call[d].at \notin {"asking", "preparing"}
  BY <1>1, OverlapFacts
<1>7. "prepared twice" \notin mishaps' => i = Len(query.prepared) + 1
  BY <1>0, <1>1, <1>6 DEF PreparedAlone
<1>8. TypeOK'
  BY <1>0, <1>3, <1>4, <1>5 DEF TypeOK
<1>9. PaymentIsForAskedNode'
  BY <1>0, <1>3, <1>4 DEF PaymentIsForAskedNode
<1>10. PreparedPaymentsMatchNodes'
  <2>1. CASE "prepared twice" \in mishaps'
    BY <2>1 DEF PreparedPaymentsMatchNodes
  <2>2. CASE "prepared twice" \notin mishaps'
    <3>1. \A j \in DOMAIN query.prepared : query.prepared[j].node = Nodes[j]
      BY <1>0, <1>6, <2>2 DEF PreparedPaymentsMatchNodes
    <3>2. PICK n \in Nat : n = Len(query.prepared)
      BY <1>0, QueryFacts
    <3>3. DOMAIN query.prepared = 1..n /\ DOMAIN query'.prepared = 1..(n + 1)
      BY <1>0, <1>5, <3>2, QueryFacts DEF QueryFields
    <3>4. i = n + 1 /\ Prepared(i).node = Nodes[n + 1]
      BY <1>7, <2>2, <3>2 DEF Prepared
    <3>5. \A j \in 1..(n + 1) : j \in 1..n \/ j = n + 1
      OBVIOUS
    <3>6. \A j \in DOMAIN query'.prepared : query'.prepared[j].node = Nodes[j]
      BY <1>5, <3>1, <3>2, <3>3, <3>4, <3>5
    <3>7. Len(query'.prepared) <= N
      BY <1>5, <3>2, <3>4, NodeFacts
    <3>8. QED
      BY <3>6, <3>7 DEF PreparedPaymentsMatchNodes
  <2>3. QED
    BY <2>1, <2>2
<1>11. PaymentKnown'
  <2>1. \A d \in Call \ {c} : CallForm(d)'
    BY <1>0, <1>3, <1>5 DEF PaymentKnown, CallForm
  <2>2. i # N => i + 1 \in 1..N
    BY NodeFacts
  <2>3. 1 \in 1..MaxAttempts
    BY ConstantFacts
  <2>4. CallForm(c)'
    BY <1>1, <1>3, <1>4, <1>5, <2>2, <2>3 DEF CallForm
  <2>5. QED
    BY <1>1, <1>5, <2>1, <2>4 DEF PaymentKnown
<1>12. PreparedAlone'
  <2>1. CASE "prepared twice" \in mishaps'
    BY <2>1 DEF PreparedAlone
  <2>2. CASE "prepared twice" \notin mishaps'
    <3>1. \A d \in Call : call'[d].at \in {"asking", "preparing"} =>
              d = c /\ call'[d].at = "preparing"
      BY <1>3, <1>4, <1>6, <2>2
    <3>2. call'[c].at = "preparing" => call'[c].next = Len(query'.prepared) + 1
      BY <1>3, <1>4, <1>5, <1>7, <2>2
    <3>3. \A d \in Call :
              /\ call'[d].at = "asking" => query'.prepared = <<>>
              /\ call'[d].at = "preparing" =>
                    call'[d].next = Len(query'.prepared) + 1
      BY <3>1, <3>2
    <3>4. \A d, e \in Call :
              call'[d].at \in {"asking", "preparing"} /\
              call'[e].at \in {"asking", "preparing"} => d = e
      BY <3>1
    <3>5. QED
      BY <3>3, <3>4 DEF PreparedAlone
  <2>3. QED
    BY <2>1, <2>2
<1>13. AmountsWithin'
  <2>1. \A a : Within(a)' <=> Within(a)
    BY <1>5 DEF Within
  <2>2. QED
    BY <1>0, <1>3, <1>4, <1>5, <1>6, <2>1 DEF AmountsWithin
<1>14. SettlesWithFinalReceipt'
  <2>1. x # Rejected("receipt") /\ x.at # "resolved"
    BY <1>4 DEF Rejected
  <2>2. QED
    BY <1>0, <1>3, <2>1 DEF SettlesWithFinalReceipt, Waits, Successes
<1>15. QED
  BY <1>8, <1>9, <1>10, <1>11, <1>12, <1>13, <1>14 DEF IInv, PaymentInv

-----------------------------------------------------------------------------
(* The steps of the loop *)

LEMMA AttemptKeeps ==
    ASSUME IInv, NEW c \in Call, Attempt(c), Others
    PROVE  IInv'
<1>0. TypeOK /\ PaymentKnown /\ AmountsWithin
  BY DEF IInv, PaymentInv
<1>1. /\ call[c].at = "turn" /\ call[c].attempt \in 1..MaxAttempts
      /\ query.payment \in Amount /\ UNCHANGED query
  BY <1>0 DEF Attempt, PaymentKnown, CallForm
<1> PICK n \in Range(Nodes) : n = Nodes[query.index + 1]
  BY <1>0, QueryFacts, NodeFacts
<1> PICK x : x = [at |-> "making", attempt |-> call[c].attempt,
                  node |-> n, payment |-> Payment]
  OBVIOUS
<1>2. call' = [call EXCEPT ![c] = x]
  BY DEF Attempt
<1>3. /\ x.at = "making" /\ x.attempt = call[c].attempt /\ x.node = n
      /\ x.payment.node = n /\ x.payment.amount = query.payment
  BY DEF Payment
<1>4. CallForm(c)'
  BY <1>0, <1>1, <1>2, <1>3, Moved DEF CallForm
<1>5. {"payment set", "maximum set"} \cap mishaps # {} \/ Within(x.payment.amount)
  BY <1>0, <1>1, <1>3 DEF AmountsWithin
<1>6. x # Rejected("receipt")
  BY <1>3 DEF Rejected
<1>7. MayBecome(c, x)
  BY <1>2, <1>3, <1>4, <1>5, <1>6 DEF MayBecome
<1>8. QED
  BY <1>1, <1>7, QueryStays, CallMoves DEF Others

LEMMA SendKeeps ==
    ASSUME IInv, NEW c \in Call, Send(c), Others
    PROVE  IInv'
<1>0. TypeOK /\ PaymentKnown /\ AmountsWithin
  BY DEF IInv, PaymentInv
<1>1. /\ call[c].at = "making" /\ call[c].attempt \in 1..MaxAttempts
      /\ call[c].node \in Range(Nodes) /\ call[c].payment.node = call[c].node
      /\ call[c].payment.amount \in Amount
      /\ query.payment \in Amount /\ query' = Advanced
  BY <1>0 DEF Send, PaymentKnown, CallForm
<1> PICK r : r = [call |-> c, attempt |-> call[c].attempt, node |-> call[c].node,
                  payee |-> call[c].payment.node,
                  amount |-> call[c].payment.amount]
  OBVIOUS
<1> PICK x : x = [at |-> "sent", request |-> r]
  OBVIOUS
<1>2. call' = [call EXCEPT ![c] = x]
  BY DEF Send
<1>3. x.at = "sent" /\ x.request = r
  OBVIOUS
<1>4. r \in Request /\ r.payee = r.node /\ r.amount = call[c].payment.amount
  BY <1>1 DEF Request
<1>5. QueryMoves /\ query'.payment \in Amount
  BY <1>1, QueryAdvances DEF QueryMoves
<1>6. CallForm(c)'
  BY <1>0, <1>2, <1>3, <1>5, Moved DEF CallForm
<1>7. {"payment set", "maximum set"} \cap mishaps # {} \/ Within(r.amount)
  BY <1>0, <1>1, <1>4 DEF AmountsWithin
<1>8. x # Rejected("receipt")
  BY <1>3 DEF Rejected
<1>9. MayBecome(c, x)
  BY <1>2, <1>3, <1>4, <1>6, <1>7, <1>8 DEF MayBecome
<1>10. QED
  BY <1>5, <1>9, CallMoves DEF Others

LEMMA AgainKeeps ==
    ASSUME IInv, NEW c \in Call, call[c].at = "sent",
           Again(c, call[c].request.attempt), UNCHANGED query, Others
    PROVE  IInv'
<1>1. TypeOK /\ query.payment \in Amount
  BY DEF IInv, PaymentInv, PaymentKnown, CallForm
<1> PICK n \in 1..MaxAttempts : n = call[c].request.attempt
  BY <1>1 DEF TypeOK, Request
<1>2. CASE n < MaxAttempts
  <2>1. PICK m \in 1..MaxAttempts : m = n + 1
    BY <1>2, ConstantFacts
  <2>2. call' = [call EXCEPT ![c] = Loop(m)]
    BY <1>2, <2>1 DEF Again
  <2>3. QED
    BY <1>1, <2>2, QueryStays, LoopMoves
<1>3. CASE ~ n < MaxAttempts
  <2>1. call' = [call EXCEPT ![c] = Rejected("attempts")]
    BY <1>3 DEF Again
  <2>2. QED
    BY <2>1, QueryStays, RejectionMoves
<1>4. QED
  BY <1>2, <1>3

\* What the receipt decides, with the answers that a node can give.
LEMMA DecisionFacts ==
    ASSUME NEW r, NEW precheck \in Prechecks, NEW receipt \in Receipts,
           CanAnswer(r, precheck, receipt), TypeOK
    PROVE  /\ Decision(precheck, receipt) \in {"retry", "finished", "error"}
           /\ Decision(precheck, receipt) = "finished" /\ Waits =>
                 /\ receipt = consensus /\ consensus # "unknown"
                 /\ validate => consensus \in Successes
           /\ Decision(precheck, receipt) = "error" /\ precheck = "ok" =>
                 consensus \in Receipts \ ({"unknown"} \cup Successes)
<1>1. receipt \in {"unknown", consensus} /\ consensus \in Receipts
  BY DEF CanAnswer, TypeOK
<1>2. QED
  BY <1>1 DEF Decision

LEMMA AnswerKeeps ==
    ASSUME IInv, NEW c \in Call, NEW precheck \in Prechecks,
           NEW receipt \in Receipts, Answer(c, precheck, receipt), Others
    PROVE  IInv'
<1>0. TypeOK /\ call[c].at = "sent" /\ UNCHANGED query
  BY DEF IInv, PaymentInv, Answer
<1> PICK d : d = Decision(precheck, receipt)
  OBVIOUS
<1>1. /\ d \in {"retry", "finished", "error"}
      /\ d = "finished" /\ Waits =>
            /\ receipt = consensus /\ consensus # "unknown"
            /\ validate => consensus \in Successes
      /\ d = "error" /\ precheck = "ok" =>
            consensus \in Receipts \ ({"unknown"} \cup Successes)
  BY <1>0, DecisionFacts DEF Answer
<1>2. CASE d = "retry"
  BY <1>0, <1>2, AgainKeeps DEF Answer
<1>3. CASE d = "finished"
  <2> PICK x : x = [at |-> "resolved", receipt |-> receipt]
    OBVIOUS
  <2>1. call' = [call EXCEPT ![c] = x]
    BY <1>3 DEF Answer
  <2>2. x.at = "resolved" /\ x.receipt = receipt
    OBVIOUS
  <2>3. CallForm(c)'
    BY <1>0, <2>1, <2>2, Moved DEF CallForm
  <2>4. x # Rejected("receipt")
    BY <2>2 DEF Rejected
  <2>5. MayBecome(c, x)
    BY <1>1, <1>3, <2>1, <2>2, <2>3, <2>4 DEF MayBecome
  <2>6. QED
    BY <1>0, <2>5, QueryStays, CallMoves DEF Others
<1>4. CASE d = "error"
  <2> PICK why : why = IF precheck = "ok" THEN "receipt" ELSE "precheck"
    OBVIOUS
  <2>1. call' = [call EXCEPT ![c] = Rejected(why)]
    BY <1>4 DEF Answer
  <2>2. why = "receipt" => precheck = "ok"
    OBVIOUS
  <2>3. why = "receipt" =>
            consensus \in Receipts \ ({"unknown"} \cup Successes)
    BY <1>1, <1>4, <2>2
  <2>4. QED
    BY <1>0, <2>1, <2>3, QueryStays, RejectionMoves
<1>5. QED
  BY <1>1, <1>2, <1>3, <1>4

LEMMA AnswerLostKeeps ==
    ASSUME IInv, NEW c \in Call, AnswerLost(c), Others
    PROVE  IInv'
BY AgainKeeps DEF AnswerLost

-----------------------------------------------------------------------------
(* The setters and the network *)

\* What the setters change makes no promise about amounts any more.
LEMMA SetterKeeps ==
    ASSUME IInv, query' \in QueryFields, query'.prepared = query.prepared,
           query.payment \in Amount => query'.payment \in Amount,
           mishaps \subseteq mishaps',
           {"payment set", "maximum set"} \cap mishaps' # {},
           "prepared twice" \in mishaps' <=> "prepared twice" \in mishaps,
           sets' \in 0..MaxSets,
           UNCHANGED <<kind, validate, call, charges, consensus>>
    PROVE  IInv'
<1>0. /\ TypeOK /\ PaymentIsForAskedNode /\ PreparedPaymentsMatchNodes
      /\ PaymentKnown /\ PreparedAlone /\ SettlesWithFinalReceipt
  BY DEF IInv, PaymentInv
<1>1. TypeOK'
  BY <1>0 DEF TypeOK
<1>2. PaymentIsForAskedNode'
  BY <1>0 DEF PaymentIsForAskedNode
<1>3. PreparedPaymentsMatchNodes'
  BY <1>0 DEF PreparedPaymentsMatchNodes
<1>4. PaymentKnown'
  BY <1>0 DEF PaymentKnown, CallForm
<1>5. PreparedAlone'
  BY <1>0 DEF PreparedAlone
<1>6. AmountsWithin'
  BY DEF AmountsWithin
<1>7. SettlesWithFinalReceipt'
  BY <1>0 DEF SettlesWithFinalReceipt, Waits, Successes
<1>8. QED
  BY <1>1, <1>2, <1>3, <1>4, <1>5, <1>6, <1>7 DEF IInv, PaymentInv

LEMMA SettersKeep ==
    ASSUME IInv, Setters, UNCHANGED caseVars
    PROVE  IInv'
<1>1. query \in QueryFields /\ sets \in 0..MaxSets
  BY DEF IInv, PaymentInv, TypeOK
<1>2. /\ sets' \in 0..MaxSets
      /\ UNCHANGED <<kind, validate, call, charges, consensus>>
  BY <1>1, ConstantFacts DEF Setters, caseVars
<1>3. CASE \E a \in Amounts : SetQueryPayment(a)
  <2> PICK a \in Amounts : SetQueryPayment(a)
    BY <1>3
  <2>1. /\ query' = [query EXCEPT !.payment = a]
        /\ mishaps' = mishaps \cup {"payment set"} /\ a \in Amount
    BY ConstantFacts DEF SetQueryPayment, Amount
  <2>2. /\ query' \in QueryFields /\ query'.prepared = query.prepared
        /\ query'.payment = a
    BY <1>1, <2>1 DEF QueryFields
  <2>3. QED
    BY <1>2, <2>1, <2>2, SetterKeeps
<1>4. CASE \E a \in Limits : SetMaxQueryPayment(a)
  <2> PICK a \in Limits : SetMaxQueryPayment(a)
    BY <1>4
  <2>1. /\ query' = [query EXCEPT !.max = a]
        /\ mishaps' = mishaps \cup {"maximum set"}
    BY DEF SetMaxQueryPayment
  <2>2. /\ query' \in QueryFields /\ query'.prepared = query.prepared
        /\ query'.payment = query.payment
    BY <1>1, <2>1 DEF QueryFields
  <2>3. QED
    BY <1>2, <2>1, <2>2, SetterKeeps
<1>5. QED
  BY <1>3, <1>4 DEF Setters

LEMMA NetworkKeeps ==
    ASSUME IInv, Network, UNCHANGED caseVars
    PROVE  IInv'
<1>0. /\ TypeOK /\ PaymentIsForAskedNode /\ PreparedPaymentsMatchNodes
      /\ PaymentKnown /\ PreparedAlone /\ AmountsWithin
      /\ SettlesWithFinalReceipt
  BY DEF IInv, PaymentInv
<1>1. UNCHANGED <<kind, validate, query, call, sets, mishaps>>
  BY DEF Network, caseVars
<1>2. /\ PaymentIsForAskedNode' /\ PreparedPaymentsMatchNodes'
      /\ PaymentKnown' /\ PreparedAlone'
  BY <1>0, <1>1 DEF PaymentIsForAskedNode, PreparedPaymentsMatchNodes,
     PaymentKnown, CallForm, PreparedAlone
<1>3. \A a : Within(a)' <=> Within(a)
  BY <1>1 DEF Within
<1>4. CASE \E c \in Call : Collect(c)
  <2> PICK c \in Call : Collect(c)
    BY <1>4
  <2>1. /\ call[c].at = "sent" /\ charges' = charges \cup {call[c].request}
        /\ UNCHANGED consensus
    BY DEF Collect
  <2>2. TypeOK'
    BY <1>0, <1>1, <2>1 DEF TypeOK
  <2>3. AmountsWithin'
    BY <1>0, <1>1, <1>3, <2>1 DEF AmountsWithin
  <2>4. SettlesWithFinalReceipt'
    BY <1>0, <1>1, <2>1 DEF SettlesWithFinalReceipt, Waits, Successes
  <2>5. QED
    BY <1>2, <2>2, <2>3, <2>4 DEF IInv, PaymentInv
<1>5. CASE Decide
  <2>1. /\ Waits /\ consensus = "unknown" /\ consensus' \in Receipts
        /\ UNCHANGED charges
    BY <1>5 DEF Decide
  <2>2. TypeOK'
    BY <1>0, <1>1, <2>1 DEF TypeOK
  <2>3. AmountsWithin'
    BY <1>0, <1>1, <1>3, <2>1 DEF AmountsWithin
  <2>4. \A c \in Call : call[c].at # "resolved" /\ call[c] # Rejected("receipt")
    BY <1>0, <2>1 DEF SettlesWithFinalReceipt
  <2>5. SettlesWithFinalReceipt'
    BY <1>1, <2>4 DEF SettlesWithFinalReceipt, Waits, Successes, Rejected
  <2>6. QED
    BY <1>2, <2>2, <2>3, <2>5 DEF IInv, PaymentInv
<1>6. QED
  BY <1>4, <1>5 DEF Network

-----------------------------------------------------------------------------
(* The theorems *)

LEMMA InitIInv == Init => IInv
<1> SUFFICES ASSUME Init PROVE IInv
  OBVIOUS
<1> PICK max \in Limits :
       query = [payment |-> None, max |-> max, index |-> 0, prepared |-> <<>>]
  BY DEF Init
<1>1. \A c \in Call : call[c] = New
  BY DEF Init
<1>2. New.at = "new" /\ New # Rejected("receipt")
  BY DEF New, Rejected
<1>3. query \in QueryFields
  <2>1. 0 \in 0..(N - 1)
    BY NodeFacts
  <2>2. <<>> \in Seq([node : Range(Nodes), amount : Amount])
    OBVIOUS
  <2>3. QED
    BY <2>1, <2>2 DEF QueryFields
<1>4. TypeOK
  <2>1. kind \in Kinds /\ validate \in BOOLEAN
    BY DEF Init
  <2>2. DOMAIN call = Call /\ \A c \in Call : call[c].at # "sent"
    BY <1>1, <1>2 DEF Init
  <2>3. charges = {} /\ consensus \in Receipts
    BY DEF Init, Receipts
  <2>4. sets \in 0..MaxSets
    BY ConstantFacts DEF Init
  <2>5. QED
    BY <1>3, <2>1, <2>2, <2>3, <2>4 DEF TypeOK
<1>5. PaymentIsForAskedNode /\ PaymentKnown /\ SettlesWithFinalReceipt
  BY <1>1, <1>2 DEF PaymentIsForAskedNode, PaymentKnown, CallForm,
     SettlesWithFinalReceipt
<1>6. PreparedPaymentsMatchNodes
  <2>1. Len(<<>>) = 0 /\ DOMAIN <<>> = {}
    OBVIOUS
  <2>2. 0 <= N
    BY NodeFacts
  <2>3. QED
    BY <2>1, <2>2 DEF PreparedPaymentsMatchNodes
<1>7. PreparedAlone
  BY <1>1, <1>2 DEF PreparedAlone
<1>8. AmountsWithin
  <2>1. query.payment \notin Amount
    BY ConstantFacts DEF Amount
  <2>2. charges = {}
    BY DEF Init
  <2>3. QED
    BY <1>1, <1>2, <2>1, <2>2 DEF AmountsWithin
<1>9. QED
  BY <1>4, <1>5, <1>6, <1>7, <1>8 DEF IInv, PaymentInv

LEMMA StutterKeeps ==
    ASSUME IInv, UNCHANGED vars
    PROVE  IInv'
BY DEF IInv, PaymentInv, TypeOK, PaymentIsForAskedNode,
   PreparedPaymentsMatchNodes, PaymentKnown, CallForm, PreparedAlone,
   AmountsWithin, Within, SettlesWithFinalReceipt, Waits, Successes, vars, caseVars

LEMMA NextIInv ==
    ASSUME IInv, [Next]_vars
    PROVE  IInv'
<1>1. CASE UNCHANGED vars
  BY <1>1, StutterKeeps
<1>2. ASSUME Before, UNCHANGED caseVars
      PROVE  IInv'
  <2>1. UNCHANGED <<kind, validate, charges, consensus, sets>>
    BY <1>2 DEF Before, caseVars
  <2>2. PICK c \in Call :
            \/ Execute(c) \/ Prepare(c) \/ BeforeFails(c)
            \/ \E cost \in Costs : CostArrives(c, cost)
    BY <1>2 DEF Before
  <2>3. CASE Execute(c)
    BY <2>1, <2>3, ExecuteKeeps DEF Execute, Others
  <2>4. CASE Prepare(c)
    BY <2>1, <2>4, PrepareKeeps
  <2>5. CASE BeforeFails(c)
    BY <2>1, <2>5, BeforeFailsKeeps DEF BeforeFails, Others
  <2>6. CASE \E cost \in Costs : CostArrives(c, cost)
    BY <2>1, <2>6, CostArrivesKeeps DEF CostArrives, Others
  <2>7. QED
    BY <2>2, <2>3, <2>4, <2>5, <2>6
<1>3. ASSUME Attempts, UNCHANGED caseVars
      PROVE  IInv'
  <2>1. Others
    BY <1>3 DEF Attempts, caseVars, Others
  <2>2. PICK c \in Call :
            \/ Attempt(c) \/ Send(c) \/ AnswerLost(c)
            \/ \E p \in Prechecks, r \in Receipts : Answer(c, p, r)
    BY <1>3 DEF Attempts
  <2>3. CASE Attempt(c)
    BY <2>1, <2>3, AttemptKeeps
  <2>4. CASE Send(c)
    BY <2>1, <2>4, SendKeeps
  <2>5. CASE AnswerLost(c)
    BY <2>1, <2>5, AnswerLostKeeps
  <2>6. CASE \E p \in Prechecks, r \in Receipts : Answer(c, p, r)
    BY <2>1, <2>6, AnswerKeeps
  <2>7. QED
    BY <2>2, <2>3, <2>4, <2>5, <2>6
<1>4. QED
  BY <1>1, <1>2, <1>3, SettersKeep, NetworkKeeps DEF Next

\* The invariant holds in every state that the executions of a query, the
\* setters and the network reach.
THEOREM Invariance == Spec => []IInv
<1>1. Init => IInv
  BY InitIInv
<1>2. IInv /\ [Next]_vars => IInv'
  BY NextIInv
<1>3. QED
  BY <1>1, <1>2, PTL DEF Spec

\* Payments and nodes fit together: a request carries a payment for the node it
\* is sent to, and prepared payments are those of the nodes in their order.
THEOREM PaymentsFitNodes == Spec => []PaymentInv
<1>1. IInv => PaymentInv
  BY DEF IInv
<1>2. QED
  BY <1>1, Invariance, PTL

\* No node collects more than the maximum, for amounts that the comparison can
\* hold, unless the application set the payment or another maximum itself.
THEOREM ChargesWithinMaximum == Spec => []SmallPaymentsWithinMaximum
<1>1. IInv => SmallPaymentsWithinMaximum
  <2>1. ASSUME AmountsWithin
        PROVE  SmallPaymentsWithinMaximum
    <3>1. CASE {"payment set", "maximum set"} \cap mishaps # {}
      BY <3>1 DEF SmallPaymentsWithinMaximum
    <3>2. CASE \A r \in charges : Within(r.amount)
      BY <3>2 DEF SmallPaymentsWithinMaximum, Within
    <3>3. QED
      BY <2>1, <3>1, <3>2 DEF AmountsWithin
  <2>2. QED
    BY <2>1 DEF IInv
<1>2. QED
  BY <1>1, Invariance, PTL

\* Who waits for a transaction learns what became of it after it is decided.
THEOREM ReceiptsAreFinal == Spec => []SettlesWithFinalReceipt
<1>1. IInv => SettlesWithFinalReceipt
  BY DEF IInv
<1>2. QED
  BY <1>1, Invariance, PTL
=============================================================================
