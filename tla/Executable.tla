----------------------------- MODULE Executable -----------------------------
(***************************************************************************)
(* Executable.execute(): the retry loop every transaction and query runs,  *)
(* several of them at once over one client's network (ManagedNetwork).     *)
(*                                                                         *)
(* JavaScript runs a continuation to its next await without interruption.  *)
(* `running' is the request whose continuation is running; nothing else    *)
(* happens, and no time passes, until it awaits or settles.                *)
(***************************************************************************)
EXTENDS ManagedNetwork, Sequences

CONSTANTS
    Request,
    Checked,              \* requests with transactionNodeIds: not free queries
    UserNodes,            \* setNodeAccountIds of each request, or <<>>
    RequestMaxAttempts,   \* _maxAttempts of the requests
    ClientMaxAttempts,    \* _maxAttempts of the client, or 0 for null
    RequestTimeout,       \* _requestTimeout, or 0 for null
    GrpcDeadline,         \* _grpcDeadline, or 0 for null
    RequestMinBackoff, RequestMaxBackoff,   \* delays between attempts
    IsLocalNode,          \* the network has a node 127.0.0.1:50211
    LocalNodeAttempts,    \* LOCAL_NODE_ATTEMPTS, 1000 in the code
    InitialNetwork,       \* what setNetwork was called with first
    NoObj, NoRequest      \* no node object, no request

ExecutableAssumption ==
    /\ NoObj \notin Obj /\ NoRequest \notin Request
    /\ Checked \subseteq Request
    /\ UserNodes \in [Request -> Seq(Account)]
    /\ RequestMaxAttempts \in Nat \ {0} /\ ClientMaxAttempts \in Nat
    /\ LocalNodeAttempts \in Nat \ {0} /\ IsLocalNode \in BOOLEAN
    /\ RequestTimeout \in Nat /\ GrpcDeadline \in Nat
    /\ RequestMinBackoff \in Nat /\ RequestMaxBackoff \in Nat
    /\ DOMAIN InitialNetwork \subseteq Address
    /\ \A a \in DOMAIN InitialNetwork : InitialNetwork[a] \in Account
    /\ IsFiniteSet(Account)
ASSUME ExecutableAssumption

VARIABLES
    req,       \* the requests, with the locals of their execute()
    running    \* the request whose continuation is running

execVars == <<req, running>>
vars == <<netVars, execVars>>

MaxAttempts ==
    IF IsLocalNode THEN LocalNodeAttempts
    ELSE IF ClientMaxAttempts # 0 THEN ClientMaxAttempts
    ELSE RequestMaxAttempts

\* 2^n is a natural number: the provers know no more of it than that it is an
\* integer.
PowerAssumption == \A n \in 1..MaxAttempts : 2^n \in Nat
ASSUME PowerAssumption

DelayForAttempt(attempt) ==
    IF IsLocalNode THEN RequestMinBackoff
    ELSE Lesser(RequestMinBackoff * 2^attempt, RequestMaxBackoff)

\* A timer set for time t is due. Timers beyond the horizon of the model are
\* due at the horizon.
Due(t) == now >= Lesser(t, MaxTime)

Retryable == {"busy", "unavailable"}
Definitive == {"ok", "rejected", "failed", "deadline"}
Answers == Retryable \cup Definitive
Settled == {"returned", "thrown"}
PCs == {"new", "preparing", "loop", "making", "sent", "waiting"} \cup Settled

\* The error an execute() ends with.
Errors == {"none", "answer", "notInNetwork", "maxAttempts", "timeout",
           "noNode", "allUnhealthy"}

RequestFields ==
    [pc : PCs, list : Seq(Account), index : Nat, transactionNodeIds : SUBSET Account,
     attempt : Nat, startTime : Nat, nodeAccountId : Account \cup {"none"},
     node : Obj \cup {NoObj}, wakeAt : Nat,
     sends : Nat, answer : Answers \cup {"none"}, error : Errors]

NewRequest(r) ==
    [pc |-> "new", list |-> UserNodes[r], index |-> 0, transactionNodeIds |-> {},
     attempt |-> 0, startTime |-> 0, nodeAccountId |-> "none", node |-> NoObj,
     wakeAt |-> 0, sends |-> 0, answer |-> "none", error |-> "none"]

\* List.current and List.advance().
Current(q) == q.list[q.index + 1]
Advanced(q) == (q.index + 1) % Len(q.list)

Orders(S) == {s \in [1..Cardinality(S) -> S] : IsInjective(s)}

-----------------------------------------------------------------------------
(* How a continuation ends *)

\* It runs on into the next attempt: `continue'.
NextAttempt(r, q) ==
    /\ req' = [req EXCEPT ![r] = [q EXCEPT !.pc = "loop", !.attempt = @ + 1]]
    /\ running' = r

Await(r, q, pc) ==
    /\ req' = [req EXCEPT ![r] = [q EXCEPT !.pc = pc]]
    /\ running' = NoRequest

Throw(r, q, error) ==
    /\ req' = [req EXCEPT ![r] = [q EXCEPT !.pc = "thrown", !.error = error]]
    /\ running' = NoRequest

Resumes(r, pc) == running = NoRequest /\ req[r].pc = pc

netUnchanged == UNCHANGED netVars
readmitUnchanged == UNCHANGED <<now, nodes, network, settingVars, stateVars>>

-----------------------------------------------------------------------------
(* Starting *)

\* execute() up to the await of _beforeExecute: a request without node
\* accounts of its own gets those of healthy nodes, and all but free queries
\* remember the accounts of the client's nodes.
Execute(r) ==
    LET q == [req[r] EXCEPT
                !.transactionNodeIds = IF r \in Checked THEN AccountsOf(nodes) ELSE {}]
    IN  /\ Resumes(r, "new")
        /\ \/ /\ q.list # <<>>
              /\ Await(r, q, "preparing")
              /\ netUnchanged
           \/ /\ q.list = <<>>
              /\ \E S \in SUBSET Account :
                    /\ GetNodeAccountIdsForExecute(S)
                    /\ \E s \in Orders(S) :
                          Await(r, [q EXCEPT !.list = s], "preparing")
              /\ UNCHANGED node /\ readmitUnchanged

ListedAccounts(q) == {q.list[i] : i \in 1..Len(q.list)}

HasValidNodes(q) ==
    q.transactionNodeIds = {} \/ ListedAccounts(q) \cap q.transactionNodeIds # {}

\* The clock starts after _beforeExecute.
Begin(r) ==
    LET q == [req[r] EXCEPT !.startTime = now]
    IN  /\ Resumes(r, "preparing")
        /\ IF HasValidNodes(q) THEN NextAttempt(r, q) ELSE Throw(r, q, "notInNetwork")
        /\ netUnchanged

-----------------------------------------------------------------------------
(* One turn of the loop, up to the await of _makeRequestAsync *)

TimedOut(q) == RequestTimeout # 0 /\ q.startTime + RequestTimeout <= now

InTurn(r) ==
    /\ running = r /\ req[r].pc = "loop"
    /\ req[r].attempt <= MaxAttempts
    /\ ~ TimedOut(req[r])

GiveUp(r) ==
    /\ running = r /\ req[r].pc = "loop"
    /\ \/ req[r].attempt > MaxAttempts /\ Throw(r, req[r], "maxAttempts")
       \/ /\ req[r].attempt <= MaxAttempts /\ TimedOut(req[r])
          /\ Throw(r, req[r], "timeout")
    /\ netUnchanged

\* No node accounts: getNode() is asked for any node, and then setList() throws
\* for a query, whose list is locked by now, and building the request throws
\* for a transaction, which was signed for no node.
AskForAnyNode(r) ==
    /\ InTurn(r) /\ req[r].list = <<>>
    /\ \/ GetAnyNodeThrows /\ UNCHANGED node
       \/ \E o \in DOMAIN node :
             /\ GetAnyNode(o)
             /\ IF r \in Checked THEN GetChannel(o) ELSE UNCHANGED node
    /\ Throw(r, req[r], "noNode")
    /\ readmitUnchanged

NodeNotFound(r) ==
    /\ InTurn(r) /\ req[r].list # <<>>
    /\ GetNodeThrows(Current(req[r]))
    /\ Throw(r, req[r], "noNode")
    /\ UNCHANGED node /\ readmitUnchanged

IsAccountValid(q) ==
    q.transactionNodeIds = {} \/ Current(q) \in q.transactionNodeIds

SkipForeignAccount(r) ==
    /\ InTurn(r) /\ req[r].list # <<>>
    /\ ~ IsAccountValid(req[r])
    /\ \E o \in Obj : GetNode(Current(req[r]), o)
    /\ NextAttempt(r, [req[r] EXCEPT !.index = Advanced(req[r])])
    /\ UNCHANGED node /\ readmitUnchanged

PickNodeForRequest(r) ==
    /\ InTurn(r) /\ req[r].list # <<>>
    /\ IsAccountValid(req[r])
    /\ \E o \in Obj :
          /\ GetNode(Current(req[r]), o)
          /\ GetChannel(o)
          /\ Await(r, [req[r] EXCEPT !.node = o, !.nodeAccountId = Current(req[r])],
                   "making")
    /\ readmitUnchanged

-----------------------------------------------------------------------------
(* After the await of _makeRequestAsync *)

IsLastNode(q) == q.index = Len(q.list) - 1

\* Mutant: the list does not advance past an unhealthy node.
SkipUnhealthyNode_NoAdvance(r) ==
    LET q == req[r]
    IN  /\ Resumes(r, "making") /\ ~ IsHealthy(node[q.node])
        /\ IF IsLastNode(q) \/ Len(q.list) <= 1
           THEN Throw(r, q, "allUnhealthy")
           ELSE NextAttempt(r, q)
        /\ netUnchanged

\* The node may have failed another request during the await.
SkipUnhealthyNode(r) ==
    LET q == req[r]
    IN  /\ Resumes(r, "making") /\ ~ IsHealthy(node[q.node])
        /\ IF IsLastNode(q) \/ Len(q.list) <= 1
           THEN Throw(r, q, "allUnhealthy")
           ELSE NextAttempt(r, [q EXCEPT !.index = Advanced(q)])
        /\ netUnchanged

CanSend_Unchecked(q) == TRUE     \* mutant: health is not checked again
CanSend(q) == IsHealthy(node[q.node])

SendRequest(r) ==
    LET q == req[r]
    IN  /\ Resumes(r, "making") /\ CanSend(q)
        /\ Await(r, [q EXCEPT !.index = Advanced(q), !.sends = @ + 1,
                              !.wakeAt = now + GrpcDeadline], "sent")
        /\ netUnchanged

-----------------------------------------------------------------------------
(* The answer *)

Answered(r, a) == [req[r] EXCEPT !.answer = a]

\* A gRPC error that is worth a retry: the node backs off.
AnswerUnavailable(r) ==
    /\ Resumes(r, "sent")
    /\ IncreaseBackoff(req[r].node)
    /\ NextAttempt(r, Answered(r, "unavailable"))
    /\ UNCHANGED <<now, nodes, network, earliestReadmitTime, settingVars, stateVars>>

\* Mutant: every error is retried.
AnswerFailed_Retried(r) ==
    /\ Resumes(r, "sent")
    /\ NextAttempt(r, Answered(r, "failed"))
    /\ netUnchanged

\* Any other error, the gRPC deadline among them, is thrown as it is.
AnswerFailed(r) ==
    /\ Resumes(r, "sent")
    /\ Throw(r, Answered(r, "failed"), "answer")
    /\ netUnchanged

DeadlineExpires_NotRaced(r) == FALSE   \* mutant: no deadline is raced

DeadlineExpires(r) ==
    /\ Resumes(r, "sent")
    /\ GrpcDeadline # 0 /\ Due(req[r].wakeAt)
    /\ Throw(r, Answered(r, "deadline"), "answer")
    /\ netUnchanged

\* A response relieves its node, whatever its status. ExecutionState.Retry:
Response(r) ==
    /\ Resumes(r, "sent")
    /\ DecreaseBackoff(req[r].node)
    /\ UNCHANGED <<now, listVars, earliestReadmitTime, settingVars, stateVars>>

AnswerBusy(r) ==
    /\ Response(r)
    /\ Await(r, [Answered(r, "busy") EXCEPT
                   !.wakeAt = now + DelayForAttempt(req[r].attempt)], "waiting")

AnswerOk(r) == Response(r) /\ Await(r, Answered(r, "ok"), "returned")

AnswerRejected(r) == Response(r) /\ Throw(r, Answered(r, "rejected"), "answer")

WakeUp(r) ==
    /\ Resumes(r, "waiting")
    /\ Due(req[r].wakeAt)
    /\ NextAttempt(r, req[r])
    /\ netUnchanged

-----------------------------------------------------------------------------

\* Everything else waits for the running continuation.
Environment ==
    /\ running = NoRequest
    /\ Tick \/ Reconfigure \/ Close
    /\ UNCHANGED execVars

Local(r) ==
    \/ Begin(r) \/ GiveUp(r) \/ AskForAnyNode(r) \/ NodeNotFound(r)
    \/ SkipForeignAccount(r) \/ PickNodeForRequest(r)
    \/ SkipUnhealthyNode(r) \/ SendRequest(r) \/ DeadlineExpires(r) \/ WakeUp(r)

Remote(r) ==
    \/ AnswerOk(r) \/ AnswerBusy(r) \/ AnswerRejected(r)
    \/ AnswerUnavailable(r) \/ AnswerFailed(r)

\* A client right after its first setNetwork.
InitNetwork ==
    /\ now = Epoch
    /\ nodeMinReadmitPeriod = DefaultMinBackoff
    /\ nodeMaxReadmitPeriod = DefaultMaxBackoff
    /\ earliestReadmitTime = Epoch + DefaultMinBackoff
    /\ minBackoff = DefaultMinBackoff /\ maxBackoff = DefaultMaxBackoff
    /\ transportSecurity = FALSE
    /\ isShutdown = FALSE /\ setNetworkThrew = FALSE
    /\ \E id \in Injection(DOMAIN InitialNetwork, Obj) :
          /\ nodes = {id[a] : a \in DOMAIN InitialNetwork}
          /\ node = [o \in nodes |->
                        LET a == CHOOSE x \in DOMAIN InitialNetwork : id[x] = o
                        IN  NewNode(InitialNetwork[a], a)]
    /\ healthyNodes = nodes
    /\ network = Index(nodes, node)

InitExec ==
    /\ InitNetwork
    /\ req = [r \in Request |-> NewRequest(r)]
    /\ running = NoRequest

NextExec ==
    \/ Environment
    \/ \E r \in Request : Execute(r) \/ Local(r) \/ Remote(r)

ExecSpec == InitExec /\ [][NextExec]_vars

\* Timers run and continuations are scheduled. Nodes need not answer.
TickExec == running = NoRequest /\ Tick /\ UNCHANGED execVars
FairExecSpec ==
    /\ ExecSpec
    /\ WF_vars(TickExec)
    /\ \A r \in Request : WF_vars(Local(r))

-----------------------------------------------------------------------------
(* Properties *)

ExecTypeOK ==
    /\ TypeOK
    /\ req \in [Request -> RequestFields]
    /\ \A r \in Request :
          /\ req[r].list # <<>> => req[r].index < Len(req[r].list)
          /\ req[r].pc \in {"making", "sent", "waiting"} =>
                req[r].list # <<>> /\ req[r].node \in DOMAIN node
    /\ running \in Request \cup {NoRequest}
    /\ running # NoRequest => req[running].pc = "loop"

\* Every attempt of a request, whether it is skipped for a foreign account or
\* an unhealthy node, fails, or is told to retry, moves to the next node of its
\* list exactly once: no node is tried twice before every other one was.
RoundRobin ==
    \A r \in Request :
        LET q == req[r]
            Turn(n) == q.list # <<>> => q.index = n % Len(q.list)
        IN  /\ q.pc \in {"loop", "making"} => Turn(q.attempt - 1)
            /\ q.pc \in {"sent", "waiting"} => Turn(q.attempt)

\* Requests are well-formed, and in their turn.
ExecInv == ExecTypeOK /\ RoundRobin

IsSending(q, o) == q.pc = "sent" /\ q.node = o

\* While a node object backs off, whichever request made it, no request starts
\* to send to it: not one that picked it before it failed either.
NoNewSendToBackedOffNode ==
    [][\A o \in DOMAIN node :
          ~ IsHealthy(node[o]) =>
              \A r \in Request : IsSending(req'[r], o) => IsSending(req[r], o)]_vars

\* What execute() promises: see RetryContract.
Phase(q) ==
    CASE q.pc = "new" -> "idle"
      [] q.pc \in {"preparing", "loop", "making", "waiting"} -> "running"
      [] q.pc \in {"sent", "returned", "thrown"} -> q.pc

Contract == INSTANCE RetryContract
    WITH Limit <- MaxAttempts, Success <- "ok",
         phase <- [r \in Request |-> Phase(req[r])],
         sends <- [r \in Request |-> req[r].sends],
         answer <- [r \in Request |-> req[r].answer]

ImplementsContract == Contract!Spec

\* With a gRPC deadline every execute() settles, even if no node ever answers.
EveryExecuteSettles ==
    \A r \in Request : (req[r].pc = "preparing") ~> (req[r].pc \in Settled)
=============================================================================
