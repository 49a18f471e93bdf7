---------------------------- MODULE RetryContract ---------------------------
(***************************************************************************)
(* What a call of execute() promises its caller, without nodes, networks,  *)
(* backoffs or time: the request is sent at most `Limit' times, one send   *)
(* at a time; a definitive answer is never followed by another send; and   *)
(* the promise settles once, with success exactly when the last answer was *)
(* a success.                                                              *)
(***************************************************************************)
EXTENDS Integers

CONSTANTS Request, Limit, Retryable, Definitive, Success

VARIABLES phase, sends, answer

vars == <<phase, sends, answer>>

Phases == {"idle", "running", "sent", "returned", "thrown"}

Init ==
    /\ phase = [r \in Request |-> "idle"]
    /\ sends = [r \in Request |-> 0]
    /\ answer = [r \in Request |-> "none"]

Start(r) ==
    /\ phase[r] = "idle"
    /\ phase' = [phase EXCEPT ![r] = "running"]
    /\ UNCHANGED <<sends, answer>>

\* Nothing was sent yet, or the last answer asks for a retry.
MaySend(r) == answer[r] \in {"none"} \cup Retryable

Send(r) ==
    /\ phase[r] = "running" /\ MaySend(r) /\ sends[r] < Limit
    /\ phase' = [phase EXCEPT ![r] = "sent"]
    /\ sends' = [sends EXCEPT ![r] = @ + 1]
    /\ UNCHANGED answer

Retry(r) ==
    /\ phase[r] = "sent"
    /\ phase' = [phase EXCEPT ![r] = "running"]
    /\ \E a \in Retryable : answer' = [answer EXCEPT ![r] = a]
    /\ UNCHANGED sends

Finish(r) ==
    /\ phase[r] = "sent"
    /\ \E a \in Definitive : 
          /\ answer' = [answer EXCEPT ![r] = a]
          /\ phase' = [phase EXCEPT ![r] = IF a = Success THEN "returned" ELSE "thrown"]
    /\ UNCHANGED sends

\* Giving up: attempts, time, or nodes ran out.
GiveUp(r) ==
    /\ phase[r] = "running"
    /\ phase' = [phase EXCEPT ![r] = "thrown"]
    /\ UNCHANGED <<sends, answer>>

Next == \E r \in Request : Start(r) \/ Send(r) \/ Retry(r) \/ Finish(r) \/ GiveUp(r)

Spec == Init /\ [][Next]_vars
=============================================================================
