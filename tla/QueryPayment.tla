----------------------------- MODULE QueryPayment -----------------------------
(***************************************************************************)
(* A query and its payment (Query.js, CostQuery.js), with the queries that *)
(* wait for a transaction (TransactionReceiptQuery.js and                  *)
(* TransactionRecordQuery.js). The first execution asks for the cost,      *)
(* unless the payment is set, compares it with the maximum and prepares    *)
(* payments for all nodes; every attempt then makes a payment of its own   *)
(* for the node it asks. One query object may be executed several times,   *)
(* at the same time too: the executions share its fields.                  *)
(*                                                                         *)
(* Amounts are tinybars, compared in integers of Width bits. The answers   *)
(* of a node are classes of statuses, the retry loop its sends and         *)
(* answers.                                                                *)
(***************************************************************************)
EXTENDS Integers, FiniteSets, SequencesExt

CONSTANTS
    Nodes,          \* the nodes the client chooses, a sequence
    Call,           \* the calls of execute()
    None,           \* null
    Costs,          \* what nodes ask for the query
    Limits,         \* values of `_maxQueryPayment'; the client's is one of them
    Amounts,        \* values the application gives setQueryPayment
    Width,          \* bits of Long.toInt(): 32
    MaxAttempts,    \* attempts of a call
    MaxSets         \* bound: calls of the setters

N == Len(Nodes)

PaymentAssumption ==
    /\ Nodes \in Seq(Range(Nodes)) \ {<<>>}
    /\ MaxAttempts \in Nat \ {0} /\ MaxSets \in Nat
    /\ Costs \cup Limits \cup Amounts \subseteq Nat /\ Limits # {}
    /\ None \notin Nat /\ Width \in Nat \ {0}
ASSUME PaymentAssumption

\* Arithmetic, which the provers do not know of powers.
PowerAssumption == 2^(Width - 1) \in Nat /\ 2^Width \in Nat /\ 2^(Width - 1) <= 2^Width
ASSUME PowerAssumption

VARIABLES
    kind, validate, \* which query, and whether it checks the receipt
    query,      \* the fields of the query object
    call,       \* the executions
    charges,    \* requests whose payment a node has collected
    consensus,  \* what became of the transaction that is waited for
    sets,       \* calls of the setters
    mishaps     \* history: what has gone wrong

caseVars == <<kind, validate>>
vars == <<caseVars, query, call, charges, consensus, sets, mishaps>>

\* AccountBalanceQuery and TransactionReceiptQuery are free.
Kinds == {"balance", "receipt", "record", "other"}
PaymentRequired == kind \in {"record", "other"}
Waits == kind \in {"receipt", "record"}

Amount == Nat
QueryFields ==
    [payment : Amount \cup {None},  \* `_queryPayment'
     max : Limits,                  \* `_maxQueryPayment', or the client's
     index : 0..(N - 1),            \* of `_nodeAccountIds'
     prepared : Seq([node : Range(Nodes), amount : Amount])]
                                    \* `_paymentTransactions'

Request == [call : Call, attempt : 1..MaxAttempts, node : Range(Nodes),
            payee : Range(Nodes), amount : Amount]

-----------------------------------------------------------------------------
(* Before the loop *)

New == [at |-> "new"]
Loop(attempt) == [at |-> "turn", attempt |-> attempt]
Rejected(why) == [at |-> "rejected", why |-> why]

\* The payments are prepared node after node, a signature is awaited for each.
Preparing(i) == [at |-> "preparing", next |-> i]

Asking(c) ==
    call' = [call EXCEPT ![c] = [at |-> "asking", max |-> query.max]]

\* _beforeExecute up to its first await. The maximum is read now. A query that
\* has prepared payments goes straight on.
Execute(c) ==
    /\ call[c] = New
    /\ IF query.prepared # <<>>
       THEN call' = [call EXCEPT ![c] = Loop(1)] /\ UNCHANGED query
       ELSE IF PaymentRequired /\ query.payment = None
       THEN Asking(c) /\ UNCHANGED query
       ELSE /\ call' = [call EXCEPT ![c] = Preparing(1)]
            /\ query' = [query EXCEPT !.payment = IF @ = None THEN 0 ELSE @]
    /\ UNCHANGED mishaps

\* A surcharge of a tenth, rounded to a tinybar.
Fee(cost) == (cost * 11 + 5) \div 10

\* Long.toInt() drops the upper bits.
ToInt(x) ==
    LET low == x % 2^Width
    IN  IF low < 2^(Width - 1) THEN low ELSE low - 2^Width

\* Mutant: the cost is compared before the surcharge.
Exceeds_BeforeFee(cost, max) == ToInt(max) < ToInt(cost)

Exceeds(cost, max) == ToInt(max) < ToInt(Fee(cost))

\* The cost arrives. It replaces a payment that was set in the meantime.
CostArrives(c, cost) ==
    /\ call[c].at = "asking"
    /\ IF Exceeds(cost, call[c].max)
       THEN call' = [call EXCEPT ![c] = Rejected("maximum")] /\ UNCHANGED query
       ELSE /\ call' = [call EXCEPT ![c] = Preparing(1)]
            /\ query' = [query EXCEPT !.payment = Fee(cost)]
    /\ UNCHANGED mishaps

\* Two executions prepare payments into the same list.
Overlaps(c) ==
    IF \E d \in Call \ {c} : call[d].at \in {"asking", "preparing"}
    THEN {"prepared twice"} ELSE {}

Prepared(i) == [node |-> Nodes[i], amount |-> query.payment]

Prepare(c) ==
    LET i == call[c].next
    IN  /\ call[c].at = "preparing"
        /\ query' = [query EXCEPT !.prepared = Append(@, Prepared(i))]
        /\ call' = [call EXCEPT ![c] = IF i = N THEN Loop(1) ELSE Preparing(i + 1)]
        /\ mishaps' = mishaps \cup Overlaps(c)

\* The cost query fails, or the operator's signer does.
BeforeFails(c) ==
    /\ call[c].at \in {"asking", "preparing"}
    /\ call' = [call EXCEPT ![c] = Rejected("error")]
    /\ UNCHANGED <<query, mishaps>>

-----------------------------------------------------------------------------
(* The loop *)

\* Mutant: the payment is one of those that were prepared.
Payment_Prepared == query.prepared[((query.index + 1) % Len(query.prepared)) + 1]

\* _makeRequestAsync: a new payment, for the current node.
Payment == [node |-> Nodes[query.index + 1], amount |-> query.payment]

\* The node is chosen and its payment made; a signature is awaited.
Attempt(c) ==
    /\ call[c].at = "turn"
    /\ call' = [call EXCEPT ![c] =
          [at |-> "making", attempt |-> call[c].attempt,
           node |-> Nodes[query.index + 1], payment |-> Payment]]
    /\ UNCHANGED query

Advanced == [query EXCEPT !.index = (@ + 1) % N]

Send(c) ==
    LET r == [call |-> c, attempt |-> call[c].attempt, node |-> call[c].node,
              payee |-> call[c].payment.node, amount |-> call[c].payment.amount]
    IN  /\ call[c].at = "making"
        /\ call' = [call EXCEPT ![c] = [at |-> "sent", request |-> r]]
        /\ query' = Advanced

\* Precheck statuses that are retried. `notCreated' is
\* PLATFORM_TRANSACTION_NOT_CREATED, `busy' stands for BUSY, UNKNOWN and
\* PLATFORM_NOT_ACTIVE.
Retried ==
    CASE kind = "receipt" -> {"busy", "noReceipt"}
      [] kind = "record" -> {"busy", "noReceipt", "noRecord"}
      [] OTHER -> {"busy", "notCreated"}

Prechecks == {"ok", "busy", "notCreated", "noReceipt", "noRecord", "error"}
Receipts == {"unknown", "success", "partUploaded", "failed"}

Successes ==
    IF kind = "receipt" THEN {"success", "partUploaded"} ELSE {"success"}

\* Mutant: only a receipt that cannot be found is asked for again.
Decision_NoPolling(precheck, receipt) ==
    IF precheck \in Retried THEN "retry"
    ELSE IF precheck # "ok" THEN "error"
    ELSE IF ~ Waits \/ receipt \in Successes THEN "finished"
    ELSE IF validate THEN "error" ELSE "finished"

\* _shouldRetry: for receipts and records the status of the receipt decides
\* when the node's own does not.
Decision(precheck, receipt) ==
    IF precheck \in Retried THEN "retry"
    ELSE IF precheck # "ok" THEN "error"
    ELSE IF Waits /\ receipt = "unknown" THEN "retry"
    ELSE IF ~ Waits \/ receipt \in Successes THEN "finished"
    ELSE IF validate THEN "error" ELSE "finished"

Again(c, attempt) ==
    call' = [call EXCEPT ![c] =
        IF attempt < MaxAttempts THEN Loop(attempt + 1) ELSE Rejected("attempts")]

\* What a node may say of the transaction: nothing, or what became of it.
CanAnswer(r, precheck, receipt) ==
    /\ (precheck = "ok") = (r \in charges)
    /\ receipt \in {"unknown", consensus}
    /\ ~ Waits => receipt = "unknown" /\ precheck \notin {"noReceipt", "noRecord"}

Answer(c, precheck, receipt) ==
    /\ call[c].at = "sent" /\ CanAnswer(call[c].request, precheck, receipt)
    /\ CASE Decision(precheck, receipt) = "retry" ->
                Again(c, call[c].request.attempt)
         [] Decision(precheck, receipt) = "finished" ->
                call' = [call EXCEPT ![c] =
                    [at |-> "resolved", receipt |-> receipt]]
         [] OTHER ->
                call' = [call EXCEPT ![c] =
                    Rejected(IF precheck = "ok" THEN "receipt" ELSE "precheck")]
    /\ UNCHANGED query

\* The deadline passes or the connection fails, whether or not the node has
\* collected its payment: the next attempt pays again.
AnswerLost(c) ==
    /\ call[c].at = "sent"
    /\ Again(c, call[c].request.attempt)
    /\ UNCHANGED query

-----------------------------------------------------------------------------
(* The application's setters, at any time, and the network *)

SetQueryPayment(a) ==
    /\ query' = [query EXCEPT !.payment = a]
    /\ mishaps' = mishaps \cup {"payment set"}

SetMaxQueryPayment(a) ==
    /\ query' = [query EXCEPT !.max = a]
    /\ mishaps' = mishaps \cup {"maximum set"}

Collect(c) ==
    /\ call[c].at = "sent"
    /\ charges' = charges \cup {call[c].request}
    /\ UNCHANGED consensus

Decide ==
    /\ Waits /\ consensus = "unknown"
    /\ consensus' \in Receipts \ {"unknown"}
    /\ UNCHANGED charges

-----------------------------------------------------------------------------

Init ==
    /\ kind \in Kinds
    /\ validate \in IF Waits THEN BOOLEAN ELSE {FALSE}
    /\ \E max \in Limits :
          query = [payment |-> None, max |-> max, index |-> 0, prepared |-> <<>>]
    /\ call = [c \in Call |-> New]
    /\ charges = {} /\ consensus = "unknown"
    /\ sets = 0 /\ mishaps = {}

Before ==
    /\ \E c \in Call :
          \/ Execute(c) \/ Prepare(c) \/ BeforeFails(c)
          \/ \E cost \in Costs : CostArrives(c, cost)
    /\ UNCHANGED <<charges, consensus, sets>>

Attempts ==
    /\ \E c \in Call :
          \/ Attempt(c) \/ Send(c) \/ AnswerLost(c)
          \/ \E p \in Prechecks, r \in Receipts : Answer(c, p, r)
    /\ UNCHANGED <<charges, consensus, sets, mishaps>>

Setters ==
    /\ sets < MaxSets /\ sets' = sets + 1
    /\ \/ \E a \in Amounts : SetQueryPayment(a)
       \/ \E a \in Limits : SetMaxQueryPayment(a)
    /\ UNCHANGED <<call, charges, consensus>>

Network ==
    /\ (\E c \in Call : Collect(c)) \/ Decide
    /\ UNCHANGED <<query, call, sets, mishaps>>

Next == (Before \/ Attempts \/ Setters \/ Network) /\ UNCHANGED caseVars

Spec == Init /\ [][Next]_vars

-----------------------------------------------------------------------------
(* Properties *)

TypeOK ==
    /\ kind \in Kinds /\ validate \in BOOLEAN
    /\ query \in QueryFields
    /\ DOMAIN call = Call
    /\ \A c \in Call : call[c].at = "sent" => call[c].request \in Request
    /\ charges \subseteq Request
    /\ consensus \in Receipts /\ sets \in 0..MaxSets

\* Every request carries a payment for the node it is sent to, although
\* executions of the same query move its list of nodes while others wait for
\* the signature of their payment.
PaymentIsForAskedNode ==
    \A c \in Call :
        call[c].at = "sent" => call[c].request.payee = call[c].request.node

\* No node collects more than the maximum that was set when the cost was asked
\* for (Query.js:83), unless the application set the payment itself, for amounts
\* that the comparison can hold: whichever execution asked for the cost, and
\* whatever each of them was told.
SmallPaymentsWithinMaximum ==
    \/ {"payment set", "maximum set"} \cap mishaps # {}
    \/ \A r \in charges :
          \/ \E a \in {r.amount, query.max} : a >= 2^(Width - 1)
          \/ r.amount <= query.max

\* The payments that toBytes() picks from are those of the nodes in their
\* order: one execution at a time prepares them, and only once.
PreparedPaymentsMatchNodes ==
    \/ "prepared twice" \in mishaps
    \/ /\ Len(query.prepared) <= N
       /\ \A i \in DOMAIN query.prepared : query.prepared[i].node = Nodes[i]

\* Payments and nodes fit together.
PaymentInv == TypeOK /\ PaymentIsForAskedNode /\ PreparedPaymentsMatchNodes

\* Who waits for a transaction learns what became of it, after it is decided:
\* with validation the call resolves with a success and rejects a failure.
SettlesWithFinalReceipt ==
    \A c \in Call :
        /\ call[c].at = "resolved" /\ Waits =>
              /\ call[c].receipt = consensus /\ consensus # "unknown"
              /\ validate => consensus \in Successes
        /\ call[c] = Rejected("receipt") =>
              consensus \in Receipts \ ({"unknown"} \cup Successes)
=============================================================================
