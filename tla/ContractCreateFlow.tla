-------------------------- MODULE ContractCreateFlow --------------------------
(***************************************************************************)
(* ContractCreateFlow.js: execute() and executeWithSigner() create a file  *)
(* with the first part of a bytecode, append the rest, create a contract   *)
(* from the file and delete it. Calls may follow each other or overlap:    *)
(* each makes a file of its own, but all of them use the one contract      *)
(* transaction of the flow.                                                *)
(*                                                                         *)
(* A transaction takes effect or not, and the call that sent it learns of  *)
(* it, sends it again or rejects. A client that signs on demand makes the  *)
(* body when it is sent and does not lock the transaction ID, so that one  *)
(* that expires is replaced, even if the network has accepted it unseen.   *)
(* What FileAppendTransaction promises is what ChunkedTransaction shows:   *)
(* it resolves when all chunks are appended in order, and before that some *)
(* of them may be.                                                         *)
(***************************************************************************)
EXTENDS Naturals, FiniteSets, SequencesExt

CONSTANTS
    Call,               \* the calls
    Lengths,            \* lengths of bytecode that are tried
    FirstPart,          \* what the file is created with: 2048
    ChunkSize,          \* what one append holds
    DefaultMaxChunks,   \* of FileAppendTransaction
    MaxChunksSet,       \* values of setMaxChunks() that are tried
    MaxIds,             \* bound: IDs of the contract transaction
    MaxFiles,           \* bound: files, for another that an expired ID makes
    None                \* null

FlowAssumption ==
    /\ Lengths \subseteq Nat /\ MaxChunksSet \subseteq Nat \ {0} /\ None \notin Nat
    /\ {FirstPart, ChunkSize, DefaultMaxChunks} \subseteq Nat \ {0}
    /\ MaxIds \in Nat \ {0} /\ MaxFiles \in Nat
ASSUME FlowAssumption

VARIABLES
    length, maxChunks,  \* of the flow
    withSigner,         \* executeWithSigner() or execute()
    onDemand,           \* the client's setting
    contractCreate,     \* the contract transaction of the flow
    call,               \* the calls
    files,              \* the files on the network, by ID
    accepted,           \* IDs of contract transactions the network has seen
    contracts           \* the contracts created

flowVars == <<length, maxChunks, withSigner, onDemand>>
networkVars == <<files, accepted, contracts>>
vars == <<flowVars, contractCreate, call, networkVars>>

File == [length : Nat, deleted : BOOLEAN]

New == [at |-> "new", file |-> 0]
To(c, at) == call' = [call EXCEPT ![c].at = at]
Settles(c, took) == To(c, IF took THEN "resolved" ELSE "rejected")

-----------------------------------------------------------------------------
(* The file *)

\* Mutant: a bytecode that is one byte too long is taken for a short one.
NeedsAppend_OffByOne == length > FirstPart + 1

NeedsAppend == length > FirstPart

\* The contents of the first file, and of what is appended at a time.
Least(a, b) == IF a < b THEN a ELSE b

\* execute() does not pass the limit on.
ChunkLimit == IF withSigner /\ maxChunks # None THEN maxChunks ELSE DefaultMaxChunks
TooManyChunks == length > FirstPart + ChunkLimit * ChunkSize

\* The call has the file's ID from the receipt.
AfterFile == IF NeedsAppend THEN "appending" ELSE "naming"

FirstContents == [length |-> Least(length, FirstPart), deleted |-> FALSE]

CreateFile(c, seen) ==
    /\ call[c].at = "new"
    /\ files' = Append(files, FirstContents)
    /\ call' = [call EXCEPT ![c] =
          [at |-> IF seen THEN AfterFile ELSE "rejected", file |-> Len(files) + 1]]
    /\ UNCHANGED <<contractCreate, accepted, contracts>>

\* The answer to a file creation is lost and its ID expires: it is sent with a
\* new one, and nobody knows of this file.
RenewFile(c) ==
    /\ onDemand /\ call[c].at = "new" /\ Len(files) < MaxFiles
    /\ files' = Append(files, FirstContents)
    /\ UNCHANGED <<contractCreate, call, accepted, contracts>>

\* One chunk is appended; the call goes on when it knows of the last one.
AppendChunk(c, seen) ==
    LET size == Least(length, files[call[c].file].length + ChunkSize)
    IN  /\ call[c].at = "appending" /\ ~ TooManyChunks
        /\ files' = [files EXCEPT ![call[c].file].length = size]
        /\ To(c, IF ~ seen THEN "rejected"
                 ELSE IF size = length THEN "naming" ELSE "appending")
        /\ UNCHANGED <<contractCreate, accepted, contracts>>

-----------------------------------------------------------------------------
(* The contract *)

\* Signing locks the ID, unless it is left until the transaction is sent.
Frozen(t) == [t EXCEPT !.frozen = TRUE, !.id = 1, !.locked = ~ onDemand]

\* Mutant: an ID that is locked is replaced too.
MayRenew_Locked(t) == t.id < MaxIds

\* TransactionExpired is retried with a new ID if the ID is not locked.
MayRenew(t) == ~ t.locked /\ t.id < MaxIds

\* setBytecodeFileId throws if the transaction is frozen. A client freezes it
\* at once, a signer is awaited first.
NameFile(c) ==
    LET t == [contractCreate EXCEPT !.file = call[c].file]
    IN  /\ call[c].at = "naming"
        /\ IF contractCreate.frozen
           THEN To(c, "rejected") /\ UNCHANGED contractCreate
           ELSE IF withSigner
           THEN To(c, "populating") /\ contractCreate' = t
           ELSE To(c, "executing") /\ contractCreate' = Frozen(t)
        /\ UNCHANGED networkVars

\* freezeWithSigner goes on, with the file that was named last.
Populated(c) ==
    /\ call[c].at = "populating"
    /\ contractCreate' = Frozen(contractCreate)
    /\ To(c, "executing")
    /\ UNCHANGED networkVars

\* Mutant: the file is deleted while the receipt is still awaited.
AfterExecution_NoReceipt == "deleting"

\* The receipt is awaited before the file is deleted.
AfterExecution == "receipt"

\* The node accepts the transaction; a known ID it may accept or refuse. The
\* response names the ID, which locks it; without one the call tries again.
ExecuteContract(c, seen) ==
    /\ call[c].at = "executing"
    /\ accepted' = accepted \cup {contractCreate.id}
    /\ To(c, IF seen THEN AfterExecution ELSE "executing")
    /\ contractCreate' = [contractCreate EXCEPT !.locked = @ \/ seen]
    /\ UNCHANGED <<files, contracts>>

Expire(c) ==
    /\ call[c].at = "executing" /\ MayRenew(contractCreate)
    /\ contractCreate' = [contractCreate EXCEPT !.id = @ + 1]
    /\ UNCHANGED <<call, networkVars>>

\* Consensus on the contract: it needs its file, and an ID of its own.
CreateContract(id) ==
    LET file == files[contractCreate.file]
    IN  /\ id \notin {k.id : k \in Range(contracts)}
        /\ ~ file.deleted
        /\ contracts' = Append(contracts, [id |-> id, length |-> file.length])
        /\ UNCHANGED <<contractCreate, call, files, accepted>>

Receipt(c) ==
    /\ call[c].at = "receipt"
    /\ contractCreate.id \in {k.id : k \in Range(contracts)}
    /\ To(c, "deleting")
    /\ UNCHANGED <<contractCreate, networkVars>>

DeleteFile(c, seen) ==
    /\ call[c].at = "deleting"
    /\ files' = [files EXCEPT ![call[c].file].deleted = TRUE]
    /\ Settles(c, seen)
    /\ UNCHANGED <<contractCreate, accepted, contracts>>

\* A transaction that does not take effect, a signer or a receipt that fails,
\* or a bytecode with too many chunks. What was done before stays.
Fail(c) ==
    /\ call[c].at \notin {"resolved", "rejected"}
    /\ To(c, "rejected")
    /\ UNCHANGED <<contractCreate, networkVars>>

-----------------------------------------------------------------------------

Init ==
    /\ length \in Lengths /\ maxChunks \in MaxChunksSet \cup {None}
    /\ withSigner \in BOOLEAN /\ onDemand \in BOOLEAN
    /\ withSigner => ~ onDemand     \* a signer freezes without a client
    /\ contractCreate = [file |-> 0, frozen |-> FALSE, locked |-> FALSE, id |-> 0]
    /\ call = [c \in Call |-> New]
    /\ files = <<>> /\ accepted = {} /\ contracts = <<>>

Next ==
    /\ \/ \E id \in accepted : CreateContract(id)
       \/ \E c \in Call :
             \/ NameFile(c) \/ Populated(c) \/ Receipt(c) \/ Fail(c)
             \/ RenewFile(c) \/ Expire(c)
             \/ \E seen \in BOOLEAN :
                   \/ CreateFile(c, seen) \/ AppendChunk(c, seen)
                   \/ ExecuteContract(c, seen) \/ DeleteFile(c, seen)
    /\ UNCHANGED flowVars

Spec == Init /\ [][Next]_vars

-----------------------------------------------------------------------------
(* Properties *)

TypeOK ==
    /\ length \in Lengths /\ withSigner \in BOOLEAN
    /\ maxChunks \in MaxChunksSet \cup {None}
    /\ onDemand \in BOOLEAN
    /\ contractCreate \in [file : 0..Len(files), frozen : BOOLEAN,
                           locked : BOOLEAN, id : 0..MaxIds]
    /\ call \in [Call -> [at : {"new", "appending", "naming", "populating",
                                "executing", "receipt", "deleting", "resolved",
                                "rejected"},
                          file : 0..Len(files)]]
    /\ files \in Seq(File)
    /\ accepted \subseteq 1..MaxIds
    /\ contracts \in Seq([id : Nat, length : Nat])

\* A contract is made of the whole bytecode, whichever calls overlap and
\* whichever of their files it is made from.
ContractsHaveWholeBytecode ==
    \A k \in Range(contracts) : k.length = length

\* However often the flow is executed, again after a failure or at the same
\* time, it creates at most one contract. Only a client that signs on demand
\* may create more, one for each ID that replaced an expired one.
OneContractPerId ==
    Len(contracts) <= IF onDemand THEN contractCreate.id ELSE 1

\* Transactions, files and contracts fit together.
FlowInv == TypeOK /\ ContractsHaveWholeBytecode /\ OneContractPerId

\* No call deletes the file of the contract transaction before there is a
\* contract.
FileIsKeptForContract ==
    contractCreate.frozen /\ files[contractCreate.file].deleted => contracts # <<>>

\* A call that resolves has its contract, and has left no file behind.
ResolvedCallsCleanUp ==
    \A c \in Call :
        call[c].at = "resolved" => contracts # <<>> /\ files[call[c].file].deleted
=============================================================================
